# Swigato: formal models of the order pipeline

These TLA+ modules model the part of Swigato's backend (`src/backend/app`) in
which several requests, tasks or connections work on the same state: the order from
the cart over checkout and payment to the kitchen, the dispatch of a rider and
delivery; the reviews and the rating they add up to; the restaurant's approval and
menu; a user's password and tokens; and the websocket through which a browser
learns of changes. TLC checks small instances completely; the TLA+ proof system
proves the main invariants for any number of orders, riders, payments, rows,
tokens, connections and concurrent requests.

Contents: 1 the system and its components, 2 the modules and how they
correspond to the code, 3 the runs, 4 the proofs, 5 where code and documentation
disagree, 6 what is abstracted and what is not modelled, 7 the plan.

Paths below are relative to `src/backend/app` unless they begin with `docs/`,
`tests/` (under `src/backend`), `frontend/` or are `README.md` (under `src`).

## 1. The system

A FastAPI process serves HTTP requests concurrently. Each request has a
database session of its own (`database.py:66`): an identity map of loaded
objects and a PostgreSQL transaction at READ COMMITTED, which the handler may
commit several times; what is open when the handler returns is committed, and
rolled back when it raises. Handlers interact only through the database (rows,
row locks, unique indexes, foreign keys), the payment gateway, and events
published after a commit.

Three facts about this machinery make the handlers hard, and every model is
built around them:

- a `SELECT ... FOR UPDATE` locks the row but does **not** refresh an object
  that the session has loaded before, so a handler with several transactions may
  decide on old values under a fresh lock;
- a flush writes the columns that differ from the *loaded* value, so two handlers
  that loaded one row without a lock lose or keep each other's updates column by
  column, and assigning the loaded value writes nothing and takes no lock;
- an UPDATE, DELETE or INSERT takes locks of its own (row locks, KEY SHARE on the
  referenced row, waits on a unique index), so handlers may block each other where
  nobody wrote a lock.

### Components

| Component | State | Operations | Hard behaviour | Correct when |
|---|---|---|---|---|
| Order status machine (`constants/orders.py`) | none | `ORDER_TRANSITIONS` | - | every committed move is in the table |
| Cart and checkout (`services/cart_service.py`, `order_service.py:98`) | `carts`, `cart_items`, the orders placed | get, add, update, remove, clear, `create_order` | only checkout locks the cart before reading it; foreign keys lock it too; locks are taken in two orders | an item is ordered once; a checkout takes all of the cart; deadlocks only where the lock order is reversed |
| Payments (`services/payment_service.py`) | `payments`, `payment_events`, `refunds` | initialise, webhook, refund | order and payment are read without a lock; the gateway repeats and reorders; refunds leave the transaction; owners may ask for any status | nothing gets through that is neither paid nor placed by its owner; an event with an id takes effect once; books never ahead of the gateway; only an overtaken request leaves the table of moves |
| Desk and owner (`services/order_service.py`) | `orders`, `order_status_history` | cancel, accept, reject, update status | update status runs up to three transactions and dispatches in its own session | the handlers implement the abstract life cycle; history is a chain |
| Dispatch and delivery (`services/delivery_service.py`, `repositories/delivery_repo.py`) | assignment, acceptance, fee, `delivery_partner_profiles` | auto-assign, accept, reject, picked up, in transit, delivered; online, location, suspend, verify | FOR UPDATE SKIP LOCKED over a snapshot; stale objects across a commit; profiles loaded unlocked | dispatch is exclusive; only riders on duty; a rejection is respected; suspension sticks |
| Reviews and ratings (`services/review_service.py`) | `reviews`, the restaurant's `average_rating` and `total_reviews` | create, update, delete, reply, moderate | the restaurant object is older than the lock on it; KEY SHARE then FOR UPDATE | the rating follows the visible reviews; edits take nothing of another's back; only new reviews deadlock |
| Restaurants and their approval (`services/restaurant_service.py`) | the `restaurants` row | create, open and close, submit, approve, reject, suspend, activate | unlocked reads, writes by column | what is listed was verified; the approval table is left only by a decision that was overtaken |
| Menus (`services/menu_service.py`) | `menu_categories`, `menu_items` | create, update, delete, availability | a check (the category exists, the category is empty) is old when its consequence is written | nothing deleted or taken off the menu comes back by a request about something else |
| Authentication (`services/auth_service.py`), deletion of an account (`services/user_service.py`) | `users`, `refresh_tokens`, `password_resets`, the access tokens blacklisted in Redis | login, refresh, logout, logout of all devices, forgotten, reset and changed password, deletion | tokens are looked up, exchanged and revoked without a lock; Redis is not part of the transaction | what was ended stays ended; passwords and tokens go only to whom they belonged when the request looked |
| Realtime (`realtime/`, `api/v1/websocket.py`, `frontend/src/providers/WebSocketProvider.jsx`, `frontend/src/hooks/useRealtime.js`) | connections, topics, handlers, the tab's socket and queries | publish, fan out, connect, join, disconnect, prune, reconnect, fetch again | everything may change at each await; sockets and coroutines die apart from each other | a subscribed tab catches up; a dead connection leaves the registry |
| Middleware, background tasks | a counter per client; none | - | none between requests | - |

The last row is not modelled; `PROJECT.json` gives the reason, and for each
component marked `partly` what is missing.

### Interactions

`create_order` empties the cart and leaves an order in `pending`.
`initialize_payment` moves it to `awaiting_payment`, a webhook to `placed` or
`payment_failed`. Owners accept, prepare and make it ready;
`owner_update_status` then calls `auto_assign_order`, which looks for a rider in
the profiles and assigns the order. The rider accepts, or rejects - which
dispatches again - and takes the order to `delivered`. Cancellation can come at
nearly any time, from the customer or the owner. A delivered order may be
reviewed, which changes what the restaurant shows.

After its commit a service publishes what happened on the event bus, in the same
process; the connection manager's handlers, run as tasks, send it to the
connections of the topic, and each tab fetches again what it shows. Nothing of an
order depends on an event: losing one costs a tab its freshness only.

The checks of one request (is the restaurant approved, is the category alive, is
the token valid) are reads of rows that other requests write. None of the services
for restaurants, menus and accounts takes a lock; what they guarantee rests on what
never changes back.

## 2. The modules

| Module | What it is |
|---|---|
| `OrderStatuses` | the statuses and `ORDER_TRANSITIONS`, used by all others |
| `OrderLifecycle` | abstract specification: the order's life without sessions, locks or copies |
| `OrderDispatch` | desk handlers, rider handlers, dispatch, profile updates |
| `OrderDispatchProperties` | its invariants, action properties, refinement, liveness, claims |
| `OrderPayments`, `OrderPaymentsProperties` | payment service, gateway, desk moves |
| `CartCheckout`, `CartCheckoutProperties` | cart service and checkout |
| `ReviewRatings`, `ReviewRatingsProperties` | review service and the rating of a restaurant |
| `Storefront`, `StorefrontProperties` | a restaurant's approval and its menu |
| `Accounts`, `AccountsProperties` | one account, its tokens and its password |
| `Realtime`, `RealtimeProperties` | event bus, connection manager, websocket endpoint, tab |
| `MCOrderDispatch`, `MCOrderPayments`, `MCCartCheckout`, `MCReviewRatings`, `MCStorefront`, `MCAccounts`, `MCRealtime` | instances for TLC |
| `OrderDispatchProofs`, `OrderDispatchSafety`, `OrderPaymentsProofs`, `CartCheckoutProofs`, `ReviewRatingsProofs`, `StorefrontProofs`, `AccountsProofs`, `RealtimeProofs` | theorems |

Definitions whose name ends in an underscore and a word (`LockOrder_Unlocked`)
are not part of a specification. Each is a plausible mistake in the definition
of the same name; substituting it must make TLC report a violation, which shows
that the property can fail.

### Conventions

Each model has a set `Sessions` of request slots. `sess[s]` is the local state of
one request: its program counter, the request, and its copies of what it loaded.
An action is one statement or a run of statements between two points at which
another request could see or do something. Writes become visible in the action
that commits them, together with the release of the locks; a statement that waits
for a lock is an action whose guard says that the lock is free. `Fail` is an
exception (`get_session` rolls back), `Crash` a worker or connection that dies at
any point.

### OrderDispatch

State: the committed `orders` (status, assigned rider, rider acceptance, state
of the rider's fee), the newest `history` row of each, the `profiles` (online,
suspended, verified, total deliveries), and the two kinds of row lock. The
session's `view` is the order object in the identity map, `seen` the rider
profile loaded at the start, `cands` the snapshot of `find_available_partner`.

- `LockOrder` is `get_by_id_for_update`; the one-transaction handlers
  (`CancelOrder`, `OwnerAcceptOrder`, ..., `MarkInTransit`) are one action each from
  there to the commit, since they hold the row lock throughout; `Refuse` is every
  early exception (`Permitted`).
- `OwnerUpdateStatus` commits `ready_for_pickup` and goes on with its object to
  `LockForDispatch`, whose lock does not refresh `view`; `QueryPartners` takes the
  snapshot, `SkipPartner` and `LockPartner` walk it in the order of
  `total_deliveries` as SKIP LOCKED does, `AssignPartner` commits;
  `OwnerSecondTransition` is the third transition, which the assignment has made
  impossible.
- `RejectDelivery` commits the release, `RefreshOrder` is `session.refresh`, then
  dispatch as above, with the rejecting rider excluded.
- `FlushDelivery` and `MarkDelivered` are separate because the profile's UPDATE
  waits for its row lock while the order is held.
- `BeginProfileUpdate` and the commits after it model the four profile handlers;
  `FlushProfile` writes changed columns only.

A crash between two actions of one request is between two of its transactions or
inside one, as in the code.

### OrderLifecycle

An order moves along `ORDER_TRANSITIONS`; a rider is given only to an order that
is ready and has none, and taken away only by sending it back to ready.
`OrderDispatch` implements it under the mapping `status <- orders[o].status`,
`rider <- orders[o].assigned` (`LifecycleSpec`).

### OrderPayments

State: the order statuses; `released`, the orders whose history has a row by which
the owner placed them; one `payments` row per intent of the gateway with the sum of
its refunds; the `payment_events` on record; and - external - what the gateway emits
and has paid back.

- `ReceiveInitialize`, `CreatePaymentIntent`, `InitializePayment` are the read, the
  call of the gateway and the write of `initialize_payment`.
- `ReceiveWebhook`, `RecordEvent`, `CommitWebhook` are the read, the insert that waits
  on the unique event id together with the payment's UPDATE, and the rest of
  `handle_webhook`. The id is optional (`payment_service.py:108`,
  `models/payment.py:98`): an event outside `Named` has none, is looked up by nothing
  and clashes with nothing, so that each of its deliveries is processed.
- `ReceiveRefund`, `ProcessRefund`, `BookRefund`, `CommitRefund` are those of
  `request_refund`.
- `DeskTransition` are the desk handlers, which do lock the order.
  `owner_update_status` takes any status, so `DeskTargets` may be all of
  `OrderStatus`; the owner may place an order that nobody has paid for.
- `Pay` makes the gateway emit an event, which it then repeats at will.

### CartCheckout

State: the `cart` row (whether it exists, which restaurant it is bound to), the
`lines` (rows of `cart_items`), and the `orders` placed from it. The locks are
derived from the sessions: `cartLocks` holds the PostgreSQL lock modes a session
has on the cart row, `rowLocks` the items it has updated or deleted, `created` a
cart inserted and not committed. `Awaited(s)` is the set of sessions that the next
statement of `s` waits for; `Deadlocked` is a cycle of it, and PostgreSQL aborts
somebody in a cycle (`AbortDeadlocked`).

- `LoadCart` and `LoadItems` are the two statements of `get_cart_by_user_id`
  (the collection is loaded by a statement of its own), `LoadCartForUpdate` that
  of checkout, `CreateCart` the insert of `get_or_create_cart`.
- `BindRestaurant`, `InsertItem`, `FindItem`, `WriteItem`, `UnbindRestaurant`,
  `DeleteItem` are the statements of the repository; `KeepRestaurant` and `Refuse`
  are the branches that send none; `GetCart` ... `ClearCart` are the commits.
- `BeginOrder` and `CreateOrder` are the rest of `create_order`, from the checks to
  the commit.

`remove_item` goes through `LoadCart` a second time after its DELETE and decides
there whether the cart is empty.

### ReviewRatings

State: the `reviews` row of each order (rating, hidden, edited, replied), the
`aggregate` (average in hundredths, total), and the sessions with the columns they
are about to write, the restaurant object they loaded and the locks they hold.

- `LoadOrder`, `CheckDuplicate`, `InsertReview` are `create_review` up to the
  insert, which waits on the unique index on `order_id` and takes KEY SHARE on the
  restaurant; `UpdateReview`, `ReplyToReview`, `ModerateReview` load and assign,
  `FlushReview` sends the UPDATE, which waits for the row.
- `LockRestaurant`, `Tally`, `Commit` are `_recalculate_restaurant_aggregation`: the
  lock, the counting query (which sees the session's own writes) and the
  assignment. `Written` is the flush: a column is written if the new value is not
  the *loaded* one, and `create_review` loaded the restaurant before the lock. The
  loaded average is a decimal and the new one a float, so they are equal for
  multiples of a quarter only (`AverageDiffers`).
- `DeleteReview` fails always, as the code does: `delete_review` hands an id to
  `session.delete` (`review_service.py:120`, `repositories/base.py:99`).

### Storefront

State: the `restaurants` row (`shop`), `categories`, `items`. Every handler is a
load, possibly checks, and a commit; the last flush and the commit are one action,
since a flush applies to whatever the row has become. `LoadRestaurant` and
`CommitDecision` are the six requests on the row, with the table `AllowedFrom` and
`Target`; `VerifyRestaurantOwner`, `LoadItem`, `LoadCategory`, `CheckNewCategory`,
`CountItems`, `CommitCategory`, `CommitItem` are the statements of the menu
requests. `PublicMenu` is what customers are shown.

### Accounts

State: the `users` row (password, whether its hash is outdated, active), the
refresh tokens with the access token handed out with each, the password resets.
Most requests are a load with its checks and a commit. `BlacklistAccessToken`, the
write to Redis, is a step of its own in `logout` and `logout_all`, before the
database is touched, and survives an abort. `LockUser` is the flush by which
`reset_password` locks the user's row before it looks for tokens to revoke
(`FindTokens`). Fields named `known` and `parent` record history that the
properties need and the code does not have.

### Realtime

The server is one event loop: an action runs from one await to the next. State:
`order` (a version number), per connection the endpoint's coroutine and its socket,
the manager's `active`, `topics`, `joined` and its handlers on the `bus`, per
publisher what is left to publish and to send, and per tab its socket, its
reconnection timer, and the query it shows, invalidates and fetches.

- `Connect` ... `Show` are the tab (`WebSocketProvider.jsx`, `useRealtime.js`);
  `Refused` and `Unreachable` are the two ways in which connecting fails.
- `AcceptAgainRaises`, `Register`, `RegisterOwner`, `ReceiveSubscribe`,
  `ReceiveUnsubscribe`, `EndLoop` are the endpoint. It accepts the connection once
  itself and once in the manager; `SecondAccept` says what comes of that. The pinned
  framework always raises (`"raises"`), and then no tab is ever subscribed.
  `"passes"` stands for the endpoint as it is meant, with a single accept; the runs
  allow both, so what they show of subscribed tabs is about the intended endpoint and
  the code's behaviour is among what they check. The endpoint lets a client
  give up any topic; the tab gives up only topics that it has asked for by message
  (`WebSocketProvider.jsx:163-185`), and `ReceiveUnsubscribe` follows it in that.
- `ChangeOrder` commits a change and starts its publisher; `Publish`,
  `StartBroadcast`, `SendEvent`, `SendFails`, `SkipConnection`, `EndBroadcast` are
  the bus, the handler task and the sends. Several publishers overlap.
- `PruneStale` removes any set of active connections, as timers in a background tab
  stand still; a pruned connection's socket and coroutine live on.

## 3. The runs

TLC explores every reachable state of these instances (no state constraint).
State counts are after symmetry reduction.

| Run | Instance | States | Question |
|---|---|---|---|
| `Dispatch_lifecycle` | 1 order, 2 riders, 3 sessions, desk and rider requests, crashes | 75,454 | Do the handlers, with several transactions and stale objects, implement `OrderLifecycle`? Are history, acceptance and fee consistent? |
| `Dispatch_fleet` | 2 orders, 1 rider, 2 sessions, preparation to delivery, profile updates with verification, no rejections | 3,589,674 | What survives of the totals, of duty and of suspension when profiles are loaded unlocked? |
| `Dispatch_progress` | 1 order, 1 rider, 2 sessions, desk, rider and profile requests, fairness | 392,616 | Does every request end? |
| `Payments_safety` | 1 order, 2 intents, 2 sessions, captures without an id, the owner placing orders, crashes | 2,827,131 | What do unlocked handlers and an unreliable gateway guarantee? |
| `Payments_progress` | 1 order, 1 intent, 2 sessions, fairness | 29,122 | Does every request end, and is every event taken in? |
| `Cart_checkout` | 2 items of 2 restaurants, 2 rows, 2 sessions, every request, crashes | 243,939 | Is every item ordered once, and is the whole cart ordered? |
| `Reviews_rating` | 2 orders, 2 ratings, 2 sessions, every request | 849,854 | Does the rating follow the reviews, whatever object it is computed on? Who deadlocks? |
| `Storefront_edits` | 2 categories, 1 item, 2 sessions, every request | 1,631,243 | What do unlocked checks guarantee for approval and menu? |
| `Accounts` | 3 tokens, 1 reset, 2 passwords, 2 sessions, every request | 1,464,490 | Does what was ended stay ended, and who gets passwords and tokens? |
| `Realtime` | 1 tab, 2 connections, 2 overlapping changes, fairness | 215,357 | Does a subscribed tab catch up, and does the registry stay consistent? |
| `Claim_*` | as small as the violation allows | - | A statement of the documentation that the code contradicts (section 5) |

**Properties.** *Dispatch_lifecycle*: `DispatchIsExclusive` (at most one request is about to dispatch an
order, and the old object it decides on is not out of date), `AcceptedByAssignee`,
`EarningsFollowOrder` (acceptance and fee follow the assignment),
`HistoryIsChained`, `RejectionIsRespected`, `LifecycleSpec`. *Dispatch_fleet*:
`DeliveriesNeverOvercounted`, `AssigneeOnDuty`, `SuspensionSticks`.
*Payments_safety*:
`PlacedWasPaid` (what the restaurant works on was paid for or placed by its owner),
`StatusIsEarned`, `RefundsWereSent`, `EventTakesEffectOnce` (an event with an id),
`OnlyOvertakenSkip` (an order leaves the table of moves only by the commit of a
payment request that somebody overtook). *Cart_checkout*: `RowOrderedOnce`,
`OnlyRemovalDeadlocks`, `CheckoutTakesWholeCart`. *Reviews_rating*:
`RatingFollowsReviews` (the rating is that of the reviews after every commit but
one: a new review counted on an old object), `EditsAreMarked`,
`OnlyCreatesDeadlock`. *Storefront_edits*: `ListedWasVerified`,
`OnlyOutdatedChecksHarm` (an orphaned item or a move off the approval table is the
work of a commit whose check no longer held), `OthersWritesStay`. *Accounts*:
`RotationsOverlap` (a refresh token is exchanged at most as often as requests
overlap), `EndedForGood`, `ReplacedByItsOwner`, `IssuedInGoodStanding`. *Realtime*:
`RegistryAgrees`, `SubscriberCatchesUp`, `DeadAreRemoved`.

**Bounds.** `DispatchIsExclusive` needs three parties (a dispatch in flight, a
rider who rejects, a desk handler), hence three sessions and two riders for one
order. What two orders of one rider do to the totals needs two sessions; a third
would only repeat one of them, since profile updates commute with each other
except for columns that two suffice to contend for. In `Dispatch_fleet` the orders
start in preparation, the owner requests are those of the owner's page
(`frontend/src/pages/owner/OrderDetail.jsx`), and a rider's rejection is left out: it
dispatches again as `Dispatch_lifecycle` does. In `Dispatch_progress` all handlers but verification, which
writes the same row as a suspension, run against each other. A request locks at most
one order and one profile at a time, so two requests can only wait for each other
over one of each; one order and one rider make all of them meet there. In
`OrderPayments` an order can be paid for twice (two intents). `MaxRepaid`, what the
gateway is willing to pay back for one intent, equals the price, which is two: two
partial refunds fit, also overlapping ones, and a third does not. `SomeTargets` are
the desk's moves that the payment handlers tell apart: `placed`, which only the owner
can do unpaid; `rejected`, which a refund turns into `refunded`; `cancelled`, which
it leaves alone. The statuses of the kitchen and the rider are to them what `placed`
is: not payable, not awaiting payment, and a refund is refused. That an owner asks for
`awaiting_payment`, `payment_failed` or `refunded`, which the payment handlers also
reach, is left to the theorems. `SomeNamed` gives failures an id and captures none, so both kinds of event repeat. In `CartCheckout`
a row id is never reused and `Rows` bounds the rows ever inserted: a request to
add arrives only while an id is left for it. Two rows are what two restaurants in
one cart, two rows of one item, or an insert during a checkout take; two sessions
are every pair of handlers. In `ReviewRatings` the seven-day limit of an edit may
end at any time (`Abort`). In `Storefront` and `Accounts` the ids of rows and tokens
are never reused, so their sets bound how many are ever created; two categories are
what moving an item takes, three tokens what a login and a chain of two exchanges
take. In `Realtime` two connections are one reconnection, and two changes are what
it takes for an older event to arrive last. The theorems of section 4 remove these bounds for
what they cover.

**Deadlock checking** stays on but for `Accounts` and `Realtime`: elsewhere a new
request can always arrive, or one in flight can go on. Those two stop when all
tokens have been issued and have expired, and when all connections have been used up
and the tab has given up reconnecting. That no request is stuck for good is what `EveryRequestEnds`
says.

**Fairness.** `FairSpec` in both models is strong fairness of `Work(s)` for each
session, the steps of the server on a request it has received. It stands for two
facts: the event loop does not forget a task that can run, and PostgreSQL queues
the waiters for a row lock, so that one which finds the lock free again and again
gets it. Clients need not send anything and crashes need not happen. In
`OrderPayments` the gateway is assumed in addition to repeat an event that it has
emitted, as `handle_webhook` expects of it (`payment_service.py:108-120`): two
deliveries of one event make one of them fail, and the repetition takes it in.
There is no fairness for the cart, where a request can be aborted by PostgreSQL any
number of times. `Realtime` assumes weak fairness of three things: the tasks of a
publisher (the event loop runs what is ready), the tab's fetching and showing (the
server answers a tab that asks), and the pruner with regard to a connection whose
socket is gone, which is never heard of again and so is stale in the end. Nothing is
assumed of connecting, of timers in the browser or of the network.

## 4. The proofs

All theorems are about `Spec` for arbitrary values of the constants, under the
`ASSUME`s of the models (special values lie outside their sets and the like).

**OrderDispatch** (`OrderDispatchProofs`, `OrderDispatchSafety`).

- `TypeCorrect`: types together with `RequestsFit`, which ties each program counter
  to the requests that can be there; without it type correctness is not
  inductive, since a stray counter could write an arbitrary value.
- `FirstTransactionsAreFresh`: the row cannot change under a first transaction. It
  rests on the lemma `LocksCorrect`, by which the model's locks belong to the
  transactions that took them.
- `DispatchCorrect`, `StatusCorrect`, `HistoryCorrect`, `LifecycleCorrect`: under the
  hypothesis `OwnersLeaveAssignment` (owners do not request `rider_assigned`
  through the status route) dispatch is exclusive, so the stale object equals the
  row, so every transition checked on it is a transition of the row. The
  hypothesis is necessary; see section 5.
- `OnDutyCorrect`, `SuspensionCorrect`: the profile lock taken by `LockPartner`
  keeps the rider on duty until the assignment; writes by column keep a suspension.
- `AcceptedCorrect`: under `OwnersLeaveDelivery` (owners do not set `rider_assigned`,
  `picked_up` or `delivered`),
  acceptance and fee follow the assignment, and only the assigned rider has ever
  accepted an order that is under way (`AcceptanceCorrect`).
- `RejectionCorrect`, without a hypothesis: the invariant `PickedIsAnother` says that
  the rider a dispatch has locked is not the one whose rejection started it, and
  `AssignedByDispatch` that nobody but such a dispatch gives an order to a rider.
- `CountsCorrect`: under `OwnersLeaveAssignment`, for any finite set of orders, a
  rider's total does not exceed the deliveries. Strengthening: what a session
  loaded never exceeds the deliveries made by then, and an order being delivered is not among them yet.

**OrderPayments** (`OrderPaymentsProofs`). The inductive invariant is `Base`: rows
exist before events and sessions refer to them, the event a session has inserted
with an id is not yet on record and is nobody else's, a refund in flight is of
captured money. From it `EarnedCorrect`, `PlacedCorrect`, `OnceCorrect`. They hold for
any `DeskTargets`, so for an owner who asks for any status, and for any set `Named`
of events with an id. `SkipCorrect` goes through the actions: a desk handler moves
the row that it has locked, so an order that leaves the table is the commit of a
session whose copy is not the row.

`RefundsCorrect` compares two counters that different steps raise: the gateway's
(`repaid`) and the books'. In between stand the refunds in flight, of which there may
be any number. `BooksAreCovered` is inductive: the books and the refunds in flight
together never exceed what the gateway has paid back. A sum over the sessions in
flight would need induction; their money is counted coin by coin instead, as the
cardinality of a set of pairs (`Owed`), so that a refund that is booked or given up
takes a subset away. That only finitely many are in flight is part of the invariant
and no assumption.

**CartCheckout** (`CartCheckoutProofs`). The inductive invariant is `CartInv`:
conflicting locks on the cart are never held together (`LocksExclude`), a checkout
past its locking statement holds FOR UPDATE and what it loaded still covers all
that is in the cart and has not been ordered, and an insert under way holds KEY
SHARE (`SessionsFit`), and no row is in two orders or in an order and the cart
(`OrderedAtMostOnce`). Every step of another session that could break this for a
checkout - inserting a row, placing an order - is a commit under a lock that
excludes FOR UPDATE (`CommitInv`); everything else changes one session only
(`LocalStep`). Hence `OrderedOnceCorrect` and `WholeCartCorrect`.

`RemovalCorrect` rests on an invariant of its own, `Holds`: what a request other than
`remove_item` has locked by the time it can wait. Taking one kind of wait after the
other, `DeadlockDeletes` shows that in a cycle without `remove_item` all requests wait
to delete a row; rows are deleted in the order of their ids, so whoever waits for the
holder of a row waits for a lower one than the holder does (`NextRowIsLeast`), and
the request with the least is waited for by nobody (`RemovalNeeded`).

**ReviewRatings** (`ReviewRatingsProofs`). The inductive invariant is `ReviewsInv`, in
`ReviewRatingsProperties`: one session at a time has the exclusive lock on the
restaurant and one at a time has written the review of an order (`LocksExclude`); a
session that recalculates holds that lock when it counts and until it commits
(`LocksFit`); a review being created is not there yet (`CreateFits`), one being
changed is, and the change has only the columns of its kind (`EditFits`); what a
session counted is still the rating of what its commit leaves, and all but new
reviews count on the restaurant as it is (`TallyFits`). The last part is what others
could break: a commit without the lock changes no rating and no visibility
(`CommitEffect`), so the reviews look the same to whoever counts (`SameShown`,
`SeenSame`, `SameRating`) and the rating itself, a fold, is never computed. Hence
`RatingCorrect`, `EditsCorrect` (from `CommittedColumns`) and `ReviewsTypeCorrect`.
`CreatesCorrect`: a session of a cycle waits and is waited for, so it is in front of
the restaurant's lock and shares it, which only an insert does (`DeadlockedShare`).

**Storefront** (`StorefrontProofs`). No lock is held anywhere, so nothing a session
has read is still known to be true, and the inductive invariant `StoreInv` says only
what never changes back: a row that a session has found is not unused again, an
insert under way is of a row that nobody else inserts (`InsertsDiffer`), a
restaurant that was seen approved or suspended has `verified_at` (`SessionsFit`), and
a live item refers to a category that once existed (`RowsFit`). `LocalStep` and
`CommitStep` reduce every action to a few facts about what it writes; `Decided`,
`Stored` and `Filed` say what the three kinds of commit do to their row. Hence
`VerifiedCorrect`, and with the check's own premise (`~Outdated`) `ChecksCorrect`;
`WritesCorrect` follows from writing by column.

**Accounts** (`AccountsProofs`). Nothing is locked here either. The inductive
invariant is `AccountsInv`: what a request has found to end covers what of the
tokens it knew of is still live (`Live \cap known \subseteq found`), and its
request passed the checks of its program counter (`SessionsFit`); a token that has a
parent was issued after it (`TokensFit`). It is inductive because tokens only go
forward, from unissued to live and from live to over (`OnlyForward`), so a record that
fits goes on fitting whatever others commit (`StaysFit`). `LoginInv`, `RefreshInv`,
`LogoutInv`, `ResetInv` and `UserInv` say what each commit does. Hence
`EndedCorrect`, `ReplacedCorrect` and `IssuedCorrect`. `RotationCorrect`, for a finite
set of sessions, counts: an exchange moves a session from those under way to the
successors of the token, and none begins once the token is over.

**Realtime** (`RealtimeProofs`). `RegistryInv` is inductive: the registry's maps
mirror each other, hold active connections only, and a topic with members has
exactly one handler. Only joining (`JoinKeeps`), giving up a topic and disconnecting
(`DisconnectKeeps`) touch the registry, and each does so without an await. Hence
`RegistryCorrect`. `RealtimeTypeCorrect` needs `RegistryInv` for the number of handlers,
and `PublishersFit`: a publisher under way has a scope left to publish to.

**Model-checked only.** Liveness, which is outside what the provers can do here:
`EveryRequestEnds` (dispatch and payments), `EventsAreTakenIn`, `SubscriberCatchesUp`,
`DeadAreRemoved`. Every invariant and every action property of a passing run is
stated by a theorem. That a rating is the average of the visible reviews is not a theorem but the
definition of `Rating`; the theorems are about when it is counted and written.

## 5. Where code and documentation disagree

Each `Claim_` run checks a statement of the repository, and TLC finds a
behaviour of the code that contradicts it.

- `Claim_capacity`: two dispatches whose searches overlap give one rider two active
  orders. The search's subquery on active orders is part of the snapshot, and SKIP
  LOCKED re-checks only the profile's columns. `docs/PROJECT_CONTEXT.md:26`
  promises a strict capacity of one order.
- `Claim_rating`: the rating is not always that of the visible reviews. A new review is
  counted under the lock, but assigned to a restaurant object loaded before it; a
  column whose new value equals the old object's is not written
  (`review_service.py:28-33`).

Met while modelling; where a name is given, the `...Properties` module states the
property that does not hold:

- Marking an order ready fails with 422 whenever a rider is found, although two
  transactions have been committed, because `owner_update_status` moves the order to
  `rider_assigned` a second time (`order_service.py:322`; `FailureLeavesNoTrace`).
- An intent that reports a failure and then a capture leaves a paid order in
  `payment_failed` (`CapturedOrderProgresses`); `README.md:217` says that a
  successful transaction moves the order on to `PLACED`.
- The gateway has paid back, but the refund's row is rolled back when the order
  cannot become `refunded` (`RefundsAreRecorded`).
- Two first additions from different restaurants both see an empty cart
  (`SingleRestaurant`); `README.md:48` promises carts of a single restaurant.
- A reset is to revoke all active sessions (`auth_service.py:304`), but it does not see
  the tokens of a login or an exchange that commits after it has looked
  (`ResetForcesLogin`); `EndedForGood` is what holds.
- Two overlapping exchanges of one refresh token both succeed and both hand out a new
  pair, against the rotation described at `auth_service.py:188-192`
  (`RotationsOverlap` is the bound that holds).
- A login that replaces an outdated hash writes the password it has verified, and may
  restore one that was replaced meanwhile (`auth_service.py:156`). The lookups by id
  and by token find deleted accounts, and an exchange does not look at `is_active`,
  though what it issues carries the claim (`auth_service.py:195-215`).
- `logout` blacklists the access token before it revokes the refresh token
  (`auth_service.py:240`): if the transaction fails, the client can no longer log out
  while its refresh token still works.
- `verify_email` reads a relation that was not loaded (`auth_service.py:259`), which
  an async session refuses; the model takes addresses as verified.
- A menu item put into a category while that category is deleted stays alive on no menu
  (`NoOrphans`; `menu_service.py:76` wants a category with items not to be deleted).
- Whoever connects joins the topics of its role - but an owner's topics are looked up
  with a session factory that was not set at import and a user id that is no UUID;
  that raises outside of the `try`, and the connection stays registered without a
  coroutine until the pruner comes (`api/v1/websocket.py:55`, `:63`;
  `JoinsItsTopic`). `RegistryAgrees` and `DeadAreRemoved` hold all the same.
- The endpoint accepts a connection twice (`api/v1/websocket.py:49`,
  `realtime/websocket_manager.py:29`), which the pinned framework refuses: no
  connection is ever registered.
- After a reconnection the tab publishes an event without a payload to refresh its
  pages; the page of one order takes it for another order's
  (`frontend/src/hooks/useRealtime.js`). The admins' pages listen to a topic that no event
  carries. `cancel_order` publishes nothing. A pruned tab keeps its socket and so
  never reconnects. Nobody reads the sequence numbers, the admins' cache of ids never
  finds one, and no client subscribes to anything by message.
- Two overlapping deliveries of one rider lose one count of `total_deliveries`
  (`delivery_service.py:356`, read before any lock).
- `ORDER_TRANSITIONS` is wider than the list in `docs/PROJECT_CONTEXT.md:16`: payment
  statuses, cancellation up to `in_transit`, `rider_assigned` back to
  `ready_for_pickup`.
- A rider need not be verified to be dispatched (`delivery_repo.py:59`), although
  `README.md:59` speaks of dispatch verification.
- The status route accepts any target (`api/v1/owner/orders.py:125`), so an owner
  can take an order to `rider_assigned` without a rider. Once owners do that while
  a dispatch is in flight, the dispatch acts on an old status, and a committed
  order can go from `picked_up` back to `rider_assigned`. This is why several
  theorems have a hypothesis about owners.
- `initialize_payment` waits for the gateway between reading the order and writing
  it, without a lock: an order cancelled meanwhile becomes `awaiting_payment`
  again, and so does one that was placed meanwhile. `docs/PROJECT_CONTEXT.md`,
  invariant 7, wants `FOR UPDATE` around every transition. A webhook and a refund
  likewise write what was allowed from the status they had read. What still holds, and is
  proved, is `OnlyOvertakenSkip`.
- The status route also lets an owner place an order that is pending or awaiting
  payment (`order_service.py:284-293`, `api/v1/owner/orders.py:125`,
  `constants/orders.py:32-41`), or mark one as paid back that was not. The owner's page
  offers neither, and a comment at `order_service.py:291` speaks of the kitchen's
  transitions only. `PlacedWasPaid` therefore names the owner's placing as the one
  other way.
- `handle_webhook` calls itself idempotent, but knows an event by its id only, which is
  optional (`payment_service.py:108-113`, `models/payment.py:98-99`). An event without
  one takes effect each time: a capture that is repeated after a refund makes the
  payment captured, and refundable, again. `EventTakesEffectOnce` speaks of events with
  an id.
- `DELETE /reviews/{id}` offers to delete a review (`api/v1/endpoints/reviews.py:62-70`)
  and always fails: `delete_review` hands an id to `session.delete`
  (`review_service.py:115-130`, `repositories/base.py:99`). `EditsAreMarked` speaks of
  reviews while they exist and claims nothing of deletion.
- Partial refunds are not added up (`payment_service.py:197`), so together they can
  exceed the payment.
- An order line may hold a quantity that was changed, or an item that was removed,
  by a request that overlaps with the checkout; `RowOrderedOnce` says only that it
  is not ordered again.
- Two first additions of one item insert two rows for it, after which every change
  of that item fails on finding two (`cart_repo.py:63`, `:79`).
- For a cart whose items cost nothing, the cart shows no delivery fee
  (`cart_service.py:61`) and the order has one.

## 6. Abstractions, and what is left out

- Callers are authorised; permission checks that depend on rows (the assigned rider)
  are modelled, those that depend on who owns a restaurant are not.
- Amounts are left out of dispatch (the fee is none, promised or owed) and of the
  cart (quantities, totals, fees); in payments a price and partial refunds are
  small numbers.
- Of an order's status history dispatch keeps the newest row, payments whether the
  owner placed it.
- A payment provider that cannot pay back raises; that it answers with a status other
  than `completed`, which `request_refund` does not read, is left out.
- A candidate that fails PostgreSQL's re-check after SKIP LOCKED is passed over; that
  PostgreSQL may keep its row locked until the transaction ends is abstracted.
- The response built after a commit (`delivery_service.py:308`, `:343`, `:388`) and
  the events published after it are left out.
- A menu item that becomes unavailable, and the address given at checkout, can only
  make a request fail before it has changed anything.
- `no rider found` is final, as in the code: nothing dispatches the order again.
- Pool limits and statement timeouts of the database are left out. A crash covers a
  request that is cut off.
- Reviews: texts, and who moderated; `FlushReview` allows an UPDATE that changes only
  those. A rating's halves round up, which eight reviews and more can tell.
- Storefront: descriptive fields, prices, the slug and the display order, which two
  overlapping requests may choose alike (the slug's unique index then fails one of
  them). An owner can set `is_open` while suspended (`restaurant_service.py:158`
  speaks of closing); who is listed does not depend on it.
- Accounts: cryptography, the verification of addresses, and expiry of access tokens,
  which only allow requests. Addresses and descriptive fields are single-row edits of
  a user's own data.
- Realtime: the payloads, the age of a connection (any active connection may be found
  stale), and heartbeats.
- Middleware (headers, logging, a counter per client in Redis), the background tasks,
  which are placeholders, and rendering in the frontend are not modelled.

## 7. Plan

Done: order statuses and life cycle, dispatch and delivery with the desk handlers,
payments, cart and checkout, reviews and ratings, approval and menus, accounts,
realtime; their runs; their main invariants proved.

What could follow:

1. A composition of checkout, payment and the desk for one order, which the models now
   treat one at a time, with `OrderLifecycle` as its abstract specification from
   `pending` on.
2. Further proofs: that the owners' hypotheses of section 4 can be weakened to the
   requests that owners send while a dispatch is in flight.
3. The rate limiter's counter, and registration with the verification of the address.

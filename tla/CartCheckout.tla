---------------------------- MODULE CartCheckout ----------------------------
(***************************************************************************)
(* One customer's cart and its checkout: CartService (get, add, update,    *)
(* remove, clear) and OrderService.create_order, each request in a         *)
(* database session of its own.                                            *)
(*                                                                         *)
(* Only checkout locks the cart before it reads it.  The other handlers    *)
(* read the cart and its items in two unlocked statements, decide on those *)
(* objects and write afterwards, so what they write may no longer fit what *)
(* is there.  Locks come from the statements themselves: FOR UPDATE in     *)
(* checkout, the row lock of an UPDATE or DELETE, and the KEY SHARE lock   *)
(* on the cart that PostgreSQL takes for the foreign key of an inserted    *)
(* item.  remove_item locks an item before the cart and all others lock    *)
(* the cart first, so PostgreSQL has to break deadlocks.                   *)
(*                                                                         *)
(* Every wait of a handler is a lock wait, so an action's guard is that    *)
(* nobody holds what its statement asks for.  Quantities are left out: an  *)
(* update either changes the row or leaves it alone.                       *)
(***************************************************************************)
EXTENDS Naturals, Sequences, FiniteSets

CONSTANTS
  Items,         \* menu items that can be ordered
  RestaurantOf,  \* the restaurant of each menu item
  Rows,          \* ids of cart_items rows; bounds the rows ever inserted
  Sessions,      \* concurrent HTTP requests
  Crashes,       \* whether a request may be cut off half way
  NoRestaurant, NoItem, NoRow

Restaurants == {RestaurantOf[i] : i \in Items}

ASSUME CartAssumption ==
  /\ NoRestaurant \notin Restaurants
  /\ NoItem \notin Items
  /\ Rows \subseteq Nat
  /\ NoRow \notin Rows
  /\ Crashes \in BOOLEAN

VARIABLES
  cart,    \* committed carts row of the customer
  lines,   \* committed cart_items rows
  orders,  \* committed orders, oldest first
  sess     \* per session: program counter, request, loaded objects, locks

vars == <<cart, lines, orders, sess>>

OptRestaurant == Restaurants \cup {NoRestaurant}

\* carts.user_id is unique: there is one row or none.
CartRow == [exists: BOOLEAN, bound: OptRestaurant]

\* A deleted row keeps the item it was for.
LineRow == [at: {"unused", "cart", "gone"}, item: Items \cup {NoItem}]

OrderRow == [restaurant: OptRestaurant, rows: SUBSET Rows]

LockMode == {"keyShare", "noKeyUpdate", "update"}

ItemKinds == {"add", "update", "remove"}
Kinds     == ItemKinds \cup {"get", "clear", "checkout"}

Requests ==
  [kind: ItemKinds, item: Items] \cup [kind: Kinds \ ItemKinds, item: {NoItem}]

PCs == {"idle", "load", "items", "create", "loaded", "write", "delete", "commit"}

\* loaded and bound are restaurant_id as loaded and as assigned since, rows the
\* loaded collection of items, target the row the request inserts, updates or
\* has removed, todo the rows it still has to delete.
Session == [pc: PCs, req: Requests, created: BOOLEAN, loaded: OptRestaurant,
            bound: OptRestaurant, rows: SUBSET Rows, target: Rows \cup {NoRow},
            todo: SUBSET Rows, cartLocks: SUBSET LockMode, rowLocks: SUBSET Rows]

Idle == [pc |-> "idle", req |-> [kind |-> "get", item |-> NoItem],
         created |-> FALSE, loaded |-> NoRestaurant, bound |-> NoRestaurant,
         rows |-> {}, target |-> NoRow, todo |-> {},
         cartLocks |-> {}, rowLocks |-> {}]

TypeOK ==
  /\ cart \in CartRow
  /\ lines \in [Rows -> LineRow]
  /\ orders \in Seq(OrderRow)
  /\ sess \in [Sessions -> Session]

Init ==
  /\ cart = [exists |-> FALSE, bound |-> NoRestaurant]
  /\ lines = [r \in Rows |-> [at |-> "unused", item |-> NoItem]]
  /\ orders = <<>>
  /\ sess = [s \in Sessions |-> Idle]

InCart == {r \in Rows : lines[r].at = "cart"}

Unused == {r \in Rows : lines[r].at = "unused" /\ \A t \in Sessions : sess[t].target # r}

-----------------------------------------------------------------------------
(* What the statements of session s wait for.  Sessions and rows are locked *)
(* until the transaction ends, which makes the session Idle.                *)

Conflict(m, n) == "update" \in {m, n} \/ (m = "noKeyUpdate" /\ n = "noKeyUpdate")

CartHolders(s, mode) ==
  {t \in Sessions \ {s} : \E m \in sess[t].cartLocks : Conflict(mode, m)}

RowHolders(s, r) == {t \in Sessions \ {s} : r \in sess[t].rowLocks}

\* A second INSERT of the customer's cart waits for the first on the unique index.
Creators(s) == {t \in Sessions \ {s} : sess[t].created}

\* Rows are deleted in the order of their ids.
NextRow(s) == CHOOSE r \in sess[s].todo : \A q \in sess[s].todo : r <= q

At(s, pc, kinds) == sess[s].pc = pc /\ sess[s].req.kind \in kinds

ForItem(s, r)  == lines[r].item = sess[s].req.item
ForRestaurant(s) == RestaurantOf[sess[s].req.item]
InView(s)      == \E r \in sess[s].rows : ForItem(s, r)

\* Writing the value an object already has emits no UPDATE.  An add always
\* changes the quantity of a row that it loaded with the cart.
UnchangedQuantity(s, r) ==
  \/ sess[s].req.kind = "update"
  \/ sess[s].req.kind = "add" /\ r \notin sess[s].rows

\* The session is about to send the statement of that name.
SelectsForUpdate(s) == At(s, "load", {"checkout"}) /\ cart.exists

Binds(s) ==
  /\ At(s, "loaded", {"add"}) /\ sess[s].bound # ForRestaurant(s)
  /\ sess[s].bound = NoRestaurant \/ sess[s].rows = {}

Inserts(s) ==
  At(s, "loaded", {"add"}) /\ sess[s].bound = ForRestaurant(s) /\ ~InView(s)

\* Mutant (for the checks only): clear_cart deletes the items before it updates
\* the cart.
Unbinds_ItemsFirst(s) ==
  /\ sess[s].bound # NoRestaurant
  /\ \/ At(s, "delete", {"clear"}) /\ sess[s].todo = {}
     \/ /\ At(s, "loaded", {"remove"}) /\ sess[s].target # NoRow
        /\ sess[s].rows = {}

Unbinds(s) ==
  /\ sess[s].pc = "loaded" /\ sess[s].bound # NoRestaurant
  /\ \/ sess[s].req.kind = "clear"
     \/ sess[s].req.kind = "remove" /\ sess[s].target # NoRow /\ sess[s].rows = {}

Deletes(s) == sess[s].pc = "delete" /\ sess[s].todo # {}

\* The sessions that s is waiting for.
Awaited(s) ==
  {t \in Sessions \ {s} :
     \/ SelectsForUpdate(s) /\ t \in CartHolders(s, "update")
     \/ Binds(s) /\ t \in CartHolders(s, "noKeyUpdate")
     \/ Unbinds(s) /\ t \in CartHolders(s, "noKeyUpdate")
     \/ Inserts(s) /\ t \in CartHolders(s, "keyShare")
     \/ sess[s].pc = "create" /\ t \in Creators(s)
     \/ sess[s].pc = "write" /\ t \in RowHolders(s, sess[s].target)
     \/ Deletes(s) /\ t \in RowHolders(s, NextRow(s))}

\* Each session of S waits for one of S and is waited for by one of S.
Deadlocked(S) ==
  \A s \in S : Awaited(s) \cap S # {} /\ \E t \in S : s \in Awaited(t)

-----------------------------------------------------------------------------
(* Sessions and transactions                                                *)

Step(s, local) ==
  /\ sess' = [sess EXCEPT ![s] = local]
  /\ UNCHANGED <<cart, lines, orders>>

\* An exception leaves the handler: get_session rolls back.
Fail(s) == Step(s, Idle)

\* A request arrives, an add only while there is an id for its row.
Receive(s, q) ==
  /\ sess[s].pc = "idle"
  /\ q.kind = "add" =>
       Cardinality({t \in Sessions : sess[t].pc # "idle" /\ sess[t].req.kind = "add"})
         < Cardinality(Unused)
  /\ Step(s, [Idle EXCEPT !.pc = "load", !.req = q])

\* get_cart_by_user_id, first statement; remove_item comes here a second time.
LoadCart(s) ==
  /\ At(s, "load", Kinds \ {"checkout"})
  /\ \/ /\ cart.exists
        /\ Step(s, [sess[s] EXCEPT !.pc = "items", !.loaded = cart.bound,
                                   !.bound = cart.bound])
     \/ /\ ~cart.exists
        /\ Step(s, [sess[s] EXCEPT !.pc = "create"])

\* Mutant (for the checks only): get_cart_by_user_id instead.
LoadCartForUpdate_Unlocked(s) ==
  /\ SelectsForUpdate(s)
  /\ Step(s, [sess[s] EXCEPT !.pc = "items", !.loaded = cart.bound,
                             !.bound = cart.bound])

\* Mutant (for the checks only): FOR NO KEY UPDATE.
LoadCartForUpdate_KeyShare(s) ==
  /\ SelectsForUpdate(s)
  /\ Awaited(s) = {}
  /\ Step(s, [sess[s] EXCEPT !.pc = "items", !.loaded = cart.bound,
                             !.bound = cart.bound, !.cartLocks = {"noKeyUpdate"}])

\* get_cart_for_update, first statement.
LoadCartForUpdate(s) ==
  /\ SelectsForUpdate(s)
  /\ Awaited(s) = {}
  /\ Step(s, [sess[s] EXCEPT !.pc = "items", !.loaded = cart.bound,
                             !.bound = cart.bound, !.cartLocks = {"update"}])

\* The statement that loads the collection of items.  It does not see the row
\* this transaction has deleted.
LoadItems(s) ==
  /\ sess[s].pc = "items"
  /\ Step(s, [sess[s] EXCEPT !.pc = "loaded", !.rows = InCart \ {sess[s].target}])

\* get_or_create_cart finds no cart.
CreateCart(s) ==
  /\ sess[s].pc = "create"
  /\ Awaited(s) = {}
  /\ \/ cart.exists /\ Fail(s)
     \/ /\ ~cart.exists
        /\ Step(s, [sess[s] EXCEPT !.pc = "loaded", !.created = TRUE])

-----------------------------------------------------------------------------
(* CartService                                                              *)

\* Items from another restaurant, the quantity limit, an item that is not in
\* the cart; for checkout no cart, no items or no restaurant.
Refuse(s) ==
  /\ \/ /\ At(s, "loaded", {"add"})
        /\ IF sess[s].bound = ForRestaurant(s) THEN InView(s) ELSE ~Binds(s)
     \/ At(s, "loaded", {"update"}) /\ ~InView(s)
     \/ At(s, "load", {"checkout"}) /\ ~cart.exists
     \/ /\ At(s, "loaded", {"checkout"})
        /\ sess[s].rows = {} \/ sess[s].bound = NoRestaurant
  /\ Fail(s)

\* Mutant (for the checks only): the wrong id is passed on.
BindRestaurant_ItemId(s) ==
  /\ Binds(s)
  /\ Awaited(s) = {}
  /\ Step(s, [sess[s] EXCEPT !.bound = sess[s].req.item, !.cartLocks = {"noKeyUpdate"}])

\* update_cart_restaurant before the item is added.
BindRestaurant(s) ==
  /\ Binds(s)
  /\ Awaited(s) = {}
  /\ Step(s, [sess[s] EXCEPT !.bound = ForRestaurant(s), !.cartLocks = {"noKeyUpdate"}])

\* add_item_to_cart; the foreign key locks the cart.
InsertItem(s) ==
  /\ Inserts(s)
  /\ Awaited(s) = {}
  /\ \E r \in Unused :
       Step(s, [sess[s] EXCEPT !.pc = "commit", !.target = r, !.rows = {},
                               !.cartLocks = @ \cup {"keyShare"}])

\* The SELECT by which update_item_quantity and remove_item_from_cart look for
\* the row: two rows for one item are an exception.
FindItem(s) ==
  LET found == {r \in InCart : ForItem(s, r)} IN
  /\ \/ At(s, "loaded", {"add"}) /\ sess[s].bound = ForRestaurant(s) /\ InView(s)
     \/ At(s, "loaded", {"update"}) /\ InView(s)
     \/ At(s, "loaded", {"remove"}) /\ sess[s].target = NoRow
  /\ \/ Cardinality(found) > 1 /\ Fail(s)
     \/ found = {} /\ sess[s].req.kind = "remove" /\ Fail(s)
     \/ found = {} /\ sess[s].req.kind # "remove" /\ Step(s, [sess[s] EXCEPT !.pc = "commit", !.rows = {}])
     \/ /\ Cardinality(found) = 1
        /\ \E r \in found :
             \/ Step(s, [sess[s] EXCEPT !.pc = "write", !.target = r, !.rows = {}])
             \/ /\ UnchangedQuantity(s, r)
                /\ Step(s, [sess[s] EXCEPT !.pc = "commit", !.rows = {}])

\* The UPDATE or DELETE of that row.  An UPDATE that finds it gone is an
\* exception (StaleDataError), a DELETE is not; after it the cart is loaded again.
WriteItem(s) ==
  /\ sess[s].pc = "write"
  /\ Awaited(s) = {}
  /\ \/ /\ sess[s].target \notin InCart /\ sess[s].req.kind # "remove"
        /\ Fail(s)
     \/ /\ sess[s].target \in InCart \/ sess[s].req.kind = "remove"
        /\ Step(s, [sess[s] EXCEPT
             !.pc = IF sess[s].req.kind = "remove" THEN "load" ELSE "commit",
             !.rowLocks = InCart \cap {sess[s].target}])

\* update_cart_restaurant(None) in remove_item, and the UPDATE of carts in
\* clear_cart, which the unit of work sends before the DELETEs.
UnbindRestaurant(s) ==
  /\ Unbinds(s)
  /\ Awaited(s) = {}
  /\ Step(s, [sess[s] EXCEPT
       !.pc = IF sess[s].req.kind = "clear" THEN "delete" ELSE "commit",
       !.todo = sess[s].rows, !.bound = NoRestaurant, !.cartLocks = {"noKeyUpdate"}])

\* The handlers that have no restaurant to change.
KeepRestaurant(s) ==
  /\ sess[s].pc = "loaded" /\ ~Unbinds(s)
  /\ \/ /\ \/ sess[s].req.kind = "get"
           \/ sess[s].req.kind = "remove" /\ sess[s].target # NoRow
        /\ Step(s, [sess[s] EXCEPT !.pc = "commit", !.rows = {}])
     \/ /\ sess[s].req.kind = "clear"
        /\ Step(s, [sess[s] EXCEPT !.pc = "delete", !.todo = sess[s].rows])

\* One DELETE of clear_cart; a row that is gone already is only warned about.
DeleteItem(s) ==
  /\ Deletes(s)
  /\ Awaited(s) = {}
  /\ Step(s, [sess[s] EXCEPT !.todo = @ \ {NextRow(s)},
                             !.rowLocks = @ \cup (InCart \cap {NextRow(s)})])

-----------------------------------------------------------------------------
(* Commits                                                                  *)

\* A changed restaurant_id is written; a cart that was created appears.
CommitCart(s) ==
  /\ cart' = [exists |-> TRUE,
              bound |-> IF sess[s].bound = sess[s].loaded THEN cart.bound
                                                          ELSE sess[s].bound]
  /\ sess' = [sess EXCEPT ![s] = Idle]

Without(removed) ==
  [r \in Rows |-> IF r \in removed THEN [lines[r] EXCEPT !.at = "gone"] ELSE lines[r]]

GetCart(s) ==
  At(s, "commit", {"get"}) /\ CommitCart(s) /\ UNCHANGED <<lines, orders>>

AddItem(s) ==
  /\ At(s, "commit", {"add"})
  /\ lines' = [r \in Rows |->
       IF r = sess[s].target /\ lines[r].at = "unused"
         THEN [at |-> "cart", item |-> sess[s].req.item] ELSE lines[r]]
  /\ CommitCart(s)
  /\ UNCHANGED orders

UpdateQuantity(s) ==
  At(s, "commit", {"update"}) /\ CommitCart(s) /\ UNCHANGED <<lines, orders>>

RemoveItem(s) ==
  /\ At(s, "commit", {"remove"})
  /\ lines' = Without({sess[s].target})
  /\ CommitCart(s)
  /\ UNCHANGED orders

ClearCart(s) ==
  /\ At(s, "delete", {"clear"}) /\ sess[s].todo = {}
  /\ lines' = Without(sess[s].rows)
  /\ CommitCart(s)
  /\ UNCHANGED orders

\* create_order has inserted the order for what it loaded and cleared the cart.
BeginOrder(s) ==
  /\ At(s, "loaded", {"checkout"})
  /\ sess[s].rows # {} /\ sess[s].bound # NoRestaurant
  /\ Step(s, [sess[s] EXCEPT !.pc = "delete", !.todo = sess[s].rows,
                             !.bound = NoRestaurant])

CreateOrder(s) ==
  /\ At(s, "delete", {"checkout"}) /\ sess[s].todo = {}
  /\ orders' = Append(orders, [restaurant |-> sess[s].loaded, rows |-> sess[s].rows])
  /\ lines' = Without(sess[s].rows)
  /\ CommitCart(s)

-----------------------------------------------------------------------------
\* PostgreSQL aborts a transaction that it finds in a cycle of lock waits.
AbortDeadlocked(s) ==
  /\ \E S \in SUBSET Sessions : s \in S /\ Deadlocked(S)
  /\ Fail(s)

\* The worker or its connection dies: the transaction is rolled back.
Crash(s) == Crashes /\ sess[s].pc # "idle" /\ Fail(s)

Load(s) == LoadCart(s) \/ LoadCartForUpdate(s) \/ LoadItems(s) \/ CreateCart(s)

Change(s) ==
  \/ BindRestaurant(s) \/ InsertItem(s) \/ FindItem(s) \/ WriteItem(s)
  \/ UnbindRestaurant(s) \/ KeepRestaurant(s) \/ BeginOrder(s) \/ DeleteItem(s)

Commit(s) ==
  \/ GetCart(s) \/ AddItem(s) \/ UpdateQuantity(s) \/ RemoveItem(s) \/ ClearCart(s)
  \/ CreateOrder(s)

Work(s) ==
  Load(s) \/ Refuse(s) \/ Change(s) \/ Commit(s) \/ AbortDeadlocked(s)

Next ==
  \E s \in Sessions :
    \/ \E q \in Requests : Receive(s, q)
    \/ Work(s)
    \/ Crash(s)

Spec == Init /\ [][Next]_vars
=============================================================================

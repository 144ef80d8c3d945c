--------------------------- MODULE OrderDispatch ---------------------------
(***************************************************************************)
(* Order handling after payment: the desk handlers of OrderService (cancel,*)
(* accept, reject, update status), the rider handlers of DeliveryService   *)
(* (accept, reject, picked up, in transit, delivered), automatic dispatch  *)
(* (auto_assign_order / find_available_partner) and the rider profile      *)
(* updates that dispatch reads.                                            *)
(*                                                                         *)
(* Each HTTP request runs in a database session of its own.  What makes    *)
(* these handlers hard is that one request may run SEVERAL transactions,   *)
(* that a SELECT ... FOR UPDATE does not refresh an object that the        *)
(* session's identity map already holds, and that some rows are read       *)
(* without a lock.  So a session keeps its own copy of what it loaded      *)
(* (view, seen), and a flush writes only the columns that differ from it.  *)
(* A transaction's writes become visible in the single step that commits   *)
(* them, together with the release of its row locks.                       *)
(***************************************************************************)
EXTENDS OrderStatuses, Integers, FiniteSets

CONSTANTS
  Orders,        \* order rows
  Partners,      \* delivery partner profiles
  Sessions,      \* concurrent HTTP requests
  Kinds,         \* the operations that clients invoke in this instance
  OwnerTargets,  \* statuses an owner's update request may carry
  InitStatus,    \* status of every order when the model starts
  InitVerified,  \* whether riders start verified by an administrator
  Crashes,       \* whether a request may be cut off half way
  NoPartner, NoSession, NoOrder

DeskKinds    == {"cancel", "accept", "reject", "update"}
RiderKinds   == {"riderAccept", "riderReject", "pickUp", "transit", "deliver"}
ProfileKinds == {"setOnline", "suspend", "verify", "location"}

\* What the owner pages of the frontend send; the route itself takes any status.
UITargets == {"preparing", "ready_for_pickup"}

ASSUME ConstantsAssumption ==
  /\ Kinds \subseteq DeskKinds \cup RiderKinds \cup ProfileKinds
  /\ OwnerTargets \subseteq OrderStatus
  /\ InitStatus \in {"placed", "accepted", "preparing"}
  /\ InitVerified \in BOOLEAN /\ Crashes \in BOOLEAN
  /\ NoPartner \notin Partners /\ NoSession \notin Sessions
  /\ NoOrder \notin Orders

VARIABLES
  orders,       \* committed order rows
  history,      \* newest committed order_status_history row of each order
  profiles,     \* committed delivery_partner_profiles rows
  orderLock,    \* session holding the row lock of an order
  profileLock,  \* session holding the row lock of a profile
  sess          \* per session: program counter, request, loaded objects

vars == <<orders, history, profiles, orderLock, profileLock, sess>>

OptPartner == Partners \cup {NoPartner}

\* "accepted" stands for rider_accepted_at and remembers who set it.
OrderRow == [status: OrderStatus, assigned: OptPartner, accepted: OptPartner,
             earning: {"none", "pending", "unpaid"}]

HistoryRow == [old: OrderStatus, new: OrderStatus]

ProfileRow == [online: BOOLEAN, suspended: BOOLEAN, verified: BOOLEAN,
               deliveries: Nat]

Request == [kind: DeskKinds \cup RiderKinds \cup ProfileKinds,
            order: Orders \cup {NoOrder}, rider: OptPartner,
            goal: OrderStatus, flag: BOOLEAN]

BlankRow == [status |-> InitStatus, assigned |-> NoPartner,
             accepted |-> NoPartner, earning |-> "none"]

BlankProfile == [online |-> FALSE, suspended |-> FALSE, verified |-> FALSE,
                 deliveries |-> 0]

BlankRequest == [kind |-> "cancel", order |-> NoOrder, rider |-> NoPartner,
                 goal |-> "cancelled", flag |-> FALSE]

Idle == [pc |-> "idle", req |-> BlankRequest, view |-> BlankRow,
         seen |-> BlankProfile, cands |-> {}, pick |-> NoPartner,
         wrote |-> FALSE]

PCs == {"idle", "order", "locked", "profile", "flushed", "refresh", "dispatch",
        "dispatching", "picking", "picked", "assigned", "failed"}

Session == [pc: PCs, req: Request, view: OrderRow, seen: ProfileRow,
            cands: SUBSET [rider: Partners, load: Nat], pick: OptPartner,
            wrote: BOOLEAN]

TypeOK ==
  /\ orders \in [Orders -> OrderRow]
  /\ history \in [Orders -> HistoryRow]
  /\ profiles \in [Partners -> ProfileRow]
  /\ orderLock \in [Orders -> Sessions \cup {NoSession}]
  /\ profileLock \in [Partners -> Sessions \cup {NoSession}]
  /\ sess \in [Sessions -> Session]

\* Every order has just reached InitStatus; every rider is on shift and free.
Init ==
  /\ orders = [o \in Orders |-> BlankRow]
  /\ history = [o \in Orders |->
       [old |-> CHOOSE p \in OrderStatus : InitStatus \in ORDER_TRANSITIONS[p],
        new |-> InitStatus]]
  /\ profiles = [r \in Partners |->
       [online |-> TRUE, suspended |-> FALSE, verified |-> InitVerified,
        deliveries |-> 0]]
  /\ orderLock = [o \in Orders |-> NoSession]
  /\ profileLock = [r \in Partners |-> NoSession]
  /\ sess = [s \in Sessions |-> Idle]

-----------------------------------------------------------------------------
(* The requests clients send.  The rider of a request is the caller; goal   *)
(* is the status its handler passes to _transition_state.                   *)

Goal == [cancel |-> "cancelled", accept |-> "accepted", reject |-> "rejected",
         riderAccept |-> "rider_assigned", riderReject |-> "ready_for_pickup",
         pickUp |-> "picked_up", transit |-> "in_transit",
         deliver |-> "delivered"]

UpdateRequests ==
  [kind: Kinds \cap {"update"}, order: Orders, rider: {NoPartner},
   goal: OwnerTargets, flag: {FALSE}]

DeskRequests ==
  {q \in [kind: Kinds \cap {"cancel", "accept", "reject"}, order: Orders,
          rider: {NoPartner}, goal: OrderStatus, flag: {FALSE}] :
     q.goal = Goal[q.kind]}

RiderRequests ==
  {q \in [kind: Kinds \cap RiderKinds, order: Orders, rider: Partners,
          goal: OrderStatus, flag: {FALSE}] : q.goal = Goal[q.kind]}

ProfileRequests ==
  [kind: Kinds \cap ProfileKinds, order: {NoOrder}, rider: Partners,
   goal: {"cancelled"}, flag: BOOLEAN]

Requests == UpdateRequests \cup DeskRequests \cup RiderRequests \cup ProfileRequests

\* A request arrives.  Rider handlers and profile handlers begin by loading
\* the rider's profile, without a lock.
Receive(s, q) ==
  /\ sess[s].pc = "idle"
  /\ sess' = [sess EXCEPT ![s] =
       [Idle EXCEPT !.pc = IF q.kind \in ProfileKinds THEN "profile" ELSE "order",
                    !.req = q,
                    !.seen = IF q.rider \in Partners THEN profiles[q.rider]
                                                     ELSE BlankProfile]]
  /\ UNCHANGED <<orders, history, profiles, orderLock, profileLock>>

-----------------------------------------------------------------------------
(* Transactions: locks, flushes, commit and rollback.                       *)

FreeLocks(s) ==
  /\ orderLock' = [o \in Orders |->
                     IF orderLock[o] = s THEN NoSession ELSE orderLock[o]]
  /\ profileLock' = [r \in Partners |->
                       IF profileLock[r] = s THEN NoSession ELSE profileLock[r]]

\* The session moves on to its next transaction with the given local state.
Continue(s, local) ==
  /\ sess' = [sess EXCEPT ![s] = local]
  /\ FreeLocks(s)

\* The request is answered with success.
Finish(s) == Continue(s, Idle)

\* An exception leaves the handler: get_session rolls back what is not committed.
Fail(s) == Continue(s, [Idle EXCEPT !.pc = "failed", !.wrote = sess[s].wrote])

\* A flush emits the columns whose value differs from the one loaded.
Column(loaded, assigned, stored) ==
  IF assigned = loaded THEN stored ELSE assigned

FlushOrder(loaded, assigned, stored) ==
  [status   |-> Column(loaded.status, assigned.status, stored.status),
   assigned |-> Column(loaded.assigned, assigned.assigned, stored.assigned),
   accepted |-> Column(loaded.accepted, assigned.accepted, stored.accepted),
   earning  |-> Column(loaded.earning, assigned.earning, stored.earning)]

\* Mutant (for the checks only): an UPDATE of every column.
FlushProfile_WholeRow(loaded, assigned, stored) == assigned

FlushProfile(loaded, assigned, stored) ==
  [online     |-> Column(loaded.online, assigned.online, stored.online),
   suspended  |-> Column(loaded.suspended, assigned.suspended, stored.suspended),
   verified   |-> Column(loaded.verified, assigned.verified, stored.verified),
   deliveries |-> Column(loaded.deliveries, assigned.deliveries, stored.deliveries)]

WriteOrder(s, row) ==
  LET o == sess[s].req.order
  IN  orders' = [orders EXCEPT ![o] = FlushOrder(sess[s].view, row, orders[o])]

\* Mutant (for the checks only): the old status is read after the update.
TransitionState_LateOldStatus(s, row) ==
  /\ row.status \in ORDER_TRANSITIONS[sess[s].view.status]
  /\ WriteOrder(s, row)
  /\ history' = [history EXCEPT ![sess[s].req.order] =
                   [old |-> row.status, new |-> row.status]]

\* _transition_state: the check and the history row use the loaded status.
TransitionState(s, row) ==
  /\ row.status \in ORDER_TRANSITIONS[sess[s].view.status]
  /\ WriteOrder(s, row)
  /\ history' = [history EXCEPT ![sess[s].req.order] =
                   [old |-> sess[s].view.status, new |-> row.status]]

\* Mutant (for the checks only): the order is read without FOR UPDATE.
LockOrder_Unlocked(s) ==
  /\ sess[s].pc = "order"
  /\ sess' = [sess EXCEPT ![s].pc = "locked",
                          ![s].view = orders[sess[s].req.order]]
  /\ UNCHANGED <<orders, history, profiles, orderLock, profileLock>>

\* get_by_id_for_update, first load of the order in this session.
LockOrder(s) ==
  LET o == sess[s].req.order IN
  /\ sess[s].pc = "order"
  /\ orderLock[o] = NoSession
  /\ orderLock' = [orderLock EXCEPT ![o] = s]
  /\ sess' = [sess EXCEPT ![s].pc = "locked", ![s].view = orders[o]]
  /\ UNCHANGED <<orders, history, profiles, profileLock>>

\* Whether the handler of request q goes through for an order it loaded as row.
Permitted(q, row) ==
  /\ q.kind \in RiderKinds => row.assigned = q.rider
  /\ q.kind = "pickUp" => row.accepted # NoPartner
  /\ q.kind # "riderAccept" => q.goal \in ORDER_TRANSITIONS[row.status]

\* The session holds the order of its request, an operation of kind k that
\* goes through.
Ready(s, k) ==
  /\ sess[s].pc = "locked"
  /\ sess[s].req.kind = k
  /\ Permitted(sess[s].req, sess[s].view)

\* The caller gets 403, 400 or 422.
Refuse(s) ==
  /\ sess[s].pc = "locked"
  /\ ~Permitted(sess[s].req, sess[s].view)
  /\ Fail(s)
  /\ UNCHANGED <<orders, history, profiles>>

-----------------------------------------------------------------------------
(* OrderService                                                             *)

CancelOrder(s) ==
  /\ Ready(s, "cancel")
  /\ TransitionState(s, [sess[s].view EXCEPT !.status = "cancelled"])
  /\ Finish(s)
  /\ UNCHANGED profiles

OwnerAcceptOrder(s) ==
  /\ Ready(s, "accept")
  /\ TransitionState(s, [sess[s].view EXCEPT !.status = "accepted"])
  /\ Finish(s)
  /\ UNCHANGED profiles

OwnerRejectOrder(s) ==
  /\ Ready(s, "reject")
  /\ TransitionState(s, [sess[s].view EXCEPT !.status = "rejected"])
  /\ Finish(s)
  /\ UNCHANGED profiles

\* The first transaction of owner_update_status; a ready order goes on to
\* dispatch with the object it has in memory.
OwnerUpdateStatus(s) ==
  LET row == [sess[s].view EXCEPT !.status = sess[s].req.goal] IN
  /\ Ready(s, "update")
  /\ TransitionState(s, row)
  /\ \/ row.status # "ready_for_pickup" /\ Finish(s)
     \/ /\ row.status = "ready_for_pickup"
        /\ Continue(s, [sess[s] EXCEPT !.pc = "dispatch", !.view = row,
                                       !.wrote = TRUE])
  /\ UNCHANGED profiles

\* After a successful dispatch the handler moves the order to rider_assigned
\* once more; the object already is, so the move is refused.
OwnerSecondTransition(s) ==
  /\ sess[s].pc = "assigned"
  /\ "rider_assigned" \notin ORDER_TRANSITIONS[sess[s].view.status]
  /\ Fail(s)
  /\ UNCHANGED <<orders, history, profiles>>

-----------------------------------------------------------------------------
(* DeliveryService: the rider's handlers                                    *)

AcceptDelivery(s) ==
  /\ Ready(s, "riderAccept")
  /\ WriteOrder(s, [sess[s].view EXCEPT !.accepted = sess[s].req.rider])
  /\ Finish(s)
  /\ UNCHANGED <<history, profiles>>

\* Mutant (for the checks only): rider_accepted_at survives a rejection.
RejectDelivery_KeepsAcceptance(s) ==
  /\ Ready(s, "riderReject")
  /\ TransitionState(s, [sess[s].view EXCEPT !.status = "ready_for_pickup",
                                             !.assigned = NoPartner])
  /\ Continue(s, [sess[s] EXCEPT !.pc = "refresh", !.wrote = TRUE])
  /\ UNCHANGED profiles

\* The first transaction of reject_order.
RejectDelivery(s) ==
  /\ Ready(s, "riderReject")
  /\ TransitionState(s, [sess[s].view EXCEPT !.status = "ready_for_pickup",
                                             !.assigned = NoPartner,
                                             !.accepted = NoPartner])
  /\ Continue(s, [sess[s] EXCEPT !.pc = "refresh", !.wrote = TRUE])
  /\ UNCHANGED profiles

\* session.refresh(order) after that commit: a plain SELECT.
RefreshOrder(s) ==
  /\ sess[s].pc = "refresh"
  /\ sess' = [sess EXCEPT ![s].pc = "dispatch",
                          ![s].view = orders[sess[s].req.order]]
  /\ UNCHANGED <<orders, history, profiles, orderLock, profileLock>>

MarkPickedUp(s) ==
  /\ Ready(s, "pickUp")
  /\ TransitionState(s, [sess[s].view EXCEPT !.status = "picked_up"])
  /\ Finish(s)
  /\ UNCHANGED profiles

MarkInTransit(s) ==
  /\ Ready(s, "transit")
  /\ TransitionState(s, [sess[s].view EXCEPT !.status = "in_transit"])
  /\ Finish(s)
  /\ UNCHANGED profiles

\* Mutant (for the checks only): the total is committed before the transition.
FlushDelivery_CommitsTotal(s) ==
  LET r == sess[s].req.rider IN
  /\ Ready(s, "deliver")
  /\ profileLock[r] = NoSession
  /\ profileLock' = [profileLock EXCEPT ![r] = s]
  /\ profiles' = [profiles EXCEPT ![r].deliveries = @ + 1]
  /\ sess' = [sess EXCEPT ![s].pc = "flushed"]
  /\ UNCHANGED <<orders, history, orderLock>>

\* mark_delivered flushes its UPDATE of the profile while it holds the order.
FlushDelivery(s) ==
  LET r == sess[s].req.rider IN
  /\ Ready(s, "deliver")
  /\ profileLock[r] = NoSession
  /\ profileLock' = [profileLock EXCEPT ![r] = s]
  /\ sess' = [sess EXCEPT ![s].pc = "flushed"]
  /\ UNCHANGED <<orders, history, profiles, orderLock>>

\* Mutant (for the checks only): the fee never becomes owed.
MarkDelivered_FeeForgotten(s) ==
  LET r == sess[s].req.rider
      seen == sess[s].seen IN
  /\ sess[s].pc = "flushed" /\ sess[s].req.kind = "deliver"
  /\ TransitionState(s, [sess[s].view EXCEPT !.status = "delivered"])
  /\ profiles' = [profiles EXCEPT ![r] =
       FlushProfile(seen, [seen EXCEPT !.deliveries = @ + 1], profiles[r])]
  /\ Finish(s)

\* Mutant (for the checks only): the total counts down.
MarkDelivered_CountsDown(s) ==
  LET r == sess[s].req.rider
      seen == sess[s].seen IN
  /\ sess[s].pc = "flushed" /\ sess[s].req.kind = "deliver"
  /\ TransitionState(s, [sess[s].view EXCEPT !.status = "delivered",
                                             !.earning = "unpaid"])
  /\ profiles' = [profiles EXCEPT ![r] =
       FlushProfile(seen, [seen EXCEPT !.deliveries = @ - 1], profiles[r])]
  /\ Finish(s)

\* The new total is one more than the profile loaded before the order was
\* locked.
MarkDelivered(s) ==
  LET r == sess[s].req.rider
      seen == sess[s].seen IN
  /\ sess[s].pc = "flushed" /\ sess[s].req.kind = "deliver"
  /\ TransitionState(s, [sess[s].view EXCEPT !.status = "delivered",
                                             !.earning = "unpaid"])
  /\ profiles' = [profiles EXCEPT ![r] =
       FlushProfile(seen, [seen EXCEPT !.deliveries = @ + 1], profiles[r])]
  /\ Finish(s)

-----------------------------------------------------------------------------
(* DeliveryService: automatic dispatch                                      *)

\* Mutant (for the checks only): an assigned order is dispatched again.
Dispatchable_StatusOnly(row) == row.status = "ready_for_pickup"

Dispatchable(row) == row.status = "ready_for_pickup" /\ row.assigned = NoPartner

\* auto_assign_order locks the order row again, but the object in the
\* identity map keeps the values it had.
LockForDispatch(s) ==
  LET o == sess[s].req.order IN
  /\ sess[s].pc = "dispatch"
  /\ orderLock[o] = NoSession
  /\ orderLock' = [orderLock EXCEPT ![o] = s]
  /\ sess' = [sess EXCEPT ![s].pc = "dispatching"]
  /\ UNCHANGED <<orders, history, profiles, profileLock>>

SkipDispatch(s) ==
  /\ sess[s].pc = "dispatching"
  /\ ~Dispatchable(sess[s].view)
  /\ Finish(s)
  /\ UNCHANGED <<orders, history, profiles>>

OnDuty(r) == profiles[r].online /\ ~profiles[r].suspended

ActiveOrders(r) ==
  {o \in Orders : orders[o].assigned = r /\ orders[o].status \in ActiveStatuses}

\* Mutant (for the checks only): the rider to exclude is not passed on.
Available_Rejecter(excluded) == {r \in Partners : OnDuty(r) /\ ActiveOrders(r) = {}}

Available(excluded) ==
  {r \in Partners \ {excluded} : OnDuty(r) /\ ActiveOrders(r) = {}}

\* find_available_partner: the statement's snapshot.  Only a rider who has
\* just rejected the order is excluded.
QueryPartners(s) ==
  /\ sess[s].pc = "dispatching"
  /\ Dispatchable(sess[s].view)
  /\ sess' = [sess EXCEPT ![s].pc = "picking",
       ![s].cands = {[rider |-> r, load |-> profiles[r].deliveries] :
                       r \in Available(sess[s].req.rider)}]
  /\ UNCHANGED <<orders, history, profiles, orderLock, profileLock>>

\* The next row of the snapshot, ordered by total_deliveries.
NextCandidates(s) ==
  {c \in sess[s].cands : \A d \in sess[s].cands : c.load <= d.load}

\* SKIP LOCKED passes over a locked row; a row that changed since the
\* snapshot is checked again on the profile's columns.
SkipPartner(s) ==
  /\ sess[s].pc = "picking"
  /\ \E c \in NextCandidates(s) :
       /\ profileLock[c.rider] # NoSession \/ ~OnDuty(c.rider)
       /\ sess' = [sess EXCEPT ![s].cands = @ \ {c}]
  /\ UNCHANGED <<orders, history, profiles, orderLock, profileLock>>

\* Mutant (for the checks only): the locked row is not checked again.
LockPartner_NoRecheck(s) ==
  /\ sess[s].pc = "picking"
  /\ \E c \in NextCandidates(s) :
       /\ profileLock[c.rider] = NoSession
       /\ profileLock' = [profileLock EXCEPT ![c.rider] = s]
       /\ sess' = [sess EXCEPT ![s].pc = "picked", ![s].cands = {},
                               ![s].pick = c.rider]
  /\ UNCHANGED <<orders, history, profiles, orderLock>>

LockPartner(s) ==
  /\ sess[s].pc = "picking"
  /\ \E c \in NextCandidates(s) :
       /\ profileLock[c.rider] = NoSession /\ OnDuty(c.rider)
       /\ profileLock' = [profileLock EXCEPT ![c.rider] = s]
       /\ sess' = [sess EXCEPT ![s].pc = "picked", ![s].cands = {},
                               ![s].pick = c.rider]
  /\ UNCHANGED <<orders, history, profiles, orderLock>>

\* Mutant (for the checks only): the search is repeated until it finds somebody.
NoPartnerFound_Retries(s) ==
  /\ sess[s].pc = "picking"
  /\ sess[s].cands = {}
  /\ sess' = [sess EXCEPT ![s].pc = "dispatching"]
  /\ UNCHANGED <<orders, history, profiles, orderLock, profileLock>>

NoPartnerFound(s) ==
  /\ sess[s].pc = "picking"
  /\ sess[s].cands = {}
  /\ Finish(s)
  /\ UNCHANGED <<orders, history, profiles>>

AssignPartner(s) ==
  LET row == [sess[s].view EXCEPT !.status = "rider_assigned",
                                  !.assigned = sess[s].pick,
                                  !.earning = "pending"] IN
  /\ sess[s].pc = "picked"
  /\ TransitionState(s, row)
  /\ \/ sess[s].req.kind # "update" /\ Finish(s)
     \/ /\ sess[s].req.kind = "update"
        /\ Continue(s, [sess[s] EXCEPT !.pc = "assigned", !.view = row,
                                       !.pick = NoPartner])
  /\ UNCHANGED profiles

-----------------------------------------------------------------------------
(* DeliveryService: profile updates                                         *)

\* The values a profile handler assigns to the profile it loaded.
Assigned(q, p) ==
  CASE q.kind = "setOnline" -> [p EXCEPT !.online = q.flag]
    [] q.kind = "suspend"   -> [p EXCEPT !.suspended = q.flag,
                                         !.online = @ /\ ~q.flag]
    [] q.kind = "verify"    -> [p EXCEPT !.verified = q.flag]
    [] OTHER                -> p

\* The flush emits an UPDATE, which takes the row lock, if a column changed;
\* a location update always changes the coordinates.
BeginProfileUpdate(s) ==
  LET q == sess[s].req IN
  /\ sess[s].pc = "profile"
  /\ \/ /\ q.kind # "location" /\ Assigned(q, sess[s].seen) = sess[s].seen
        /\ Finish(s)
     \/ /\ q.kind = "location" \/ Assigned(q, sess[s].seen) # sess[s].seen
        /\ profileLock[q.rider] = NoSession
        /\ profileLock' = [profileLock EXCEPT ![q.rider] = s]
        /\ sess' = [sess EXCEPT ![s].pc = "flushed"]
        /\ UNCHANGED orderLock
  /\ UNCHANGED <<orders, history, profiles>>

CommitProfile(s, k) ==
  LET q == sess[s].req IN
  /\ sess[s].pc = "flushed" /\ q.kind = k
  /\ profiles' = [profiles EXCEPT ![q.rider] =
       FlushProfile(sess[s].seen, Assigned(q, sess[s].seen), profiles[q.rider])]
  /\ Finish(s)
  /\ UNCHANGED <<orders, history>>

SetOnlineStatus(s)      == CommitProfile(s, "setOnline")
AdminSuspendPartner(s)  == CommitProfile(s, "suspend")
AdminVerifyPartner(s)   == CommitProfile(s, "verify")
UpdateLocation(s)       == CommitProfile(s, "location")

-----------------------------------------------------------------------------
\* The error response of a failed request has been sent.
Respond(s) ==
  /\ sess[s].pc = "failed"
  /\ Finish(s)
  /\ UNCHANGED <<orders, history, profiles>>

\* The worker or its database connection dies: the open transaction is rolled
\* back, what the request committed stays.
Crash(s) ==
  /\ Crashes
  /\ sess[s].pc # "idle"
  /\ Finish(s)
  /\ UNCHANGED <<orders, history, profiles>>

OrderServiceStep(s) ==
  \/ CancelOrder(s) \/ OwnerAcceptOrder(s) \/ OwnerRejectOrder(s)
  \/ OwnerUpdateStatus(s) \/ OwnerSecondTransition(s)

RiderStep(s) ==
  \/ AcceptDelivery(s) \/ RejectDelivery(s) \/ RefreshOrder(s)
  \/ MarkPickedUp(s) \/ MarkInTransit(s) \/ FlushDelivery(s) \/ MarkDelivered(s)

DispatchStep(s) ==
  \/ LockForDispatch(s) \/ SkipDispatch(s) \/ QueryPartners(s)
  \/ SkipPartner(s) \/ LockPartner(s) \/ NoPartnerFound(s) \/ AssignPartner(s)

ProfileStep(s) ==
  \/ BeginProfileUpdate(s) \/ SetOnlineStatus(s) \/ AdminSuspendPartner(s)
  \/ AdminVerifyPartner(s) \/ UpdateLocation(s)

\* The steps by which the server works on a request it has received.
Work(s) ==
  \/ LockOrder(s) \/ Refuse(s) \/ Respond(s)
  \/ OrderServiceStep(s) \/ RiderStep(s) \/ DispatchStep(s) \/ ProfileStep(s)

Next ==
  \E s \in Sessions :
    \/ \E q \in Requests : Receive(s, q)
    \/ Work(s)
    \/ Crash(s)

Spec == Init /\ [][Next]_vars

\* The event loop keeps running every request, and PostgreSQL grants row locks
\* in the order they were asked for, so a request that can go on infinitely
\* often does.  Clients need not send anything.
FairSpec == Spec /\ \A s \in Sessions : SF_vars(Work(s))
=============================================================================

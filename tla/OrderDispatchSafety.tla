------------------------ MODULE OrderDispatchSafety ------------------------
(***************************************************************************)
(* Proofs of what OrderDispatch promises, for any number of orders, riders *)
(* and concurrent requests: dispatch is exclusive, orders move as they may *)
(* and implement the abstract life cycle; who is given an order, whose     *)
(* acceptance counts, what is owed and what is counted.                    *)
(***************************************************************************)
EXTENDS OrderDispatchProofs, FiniteSetTheorems

-----------------------------------------------------------------------------
(* Dispatch                                                                 *)

\* Owners do not send rider_assigned (their pages never do, but the route
\* would take it: with it the results below are false).
OwnersLeaveAssignment == "rider_assigned" \notin OwnerTargets

\* A dispatched order is not written by anyone else.
LEMMA WaitingOrderIsLeftAlone ==
  ASSUME OwnersLeaveAssignment, TypeOK, RequestsFit, LockedViewIsFresh,
         DispatchIsExclusive, NEW s \in Sessions, StepOf(s),
         NEW t \in Sessions \ {s}, NEW o \in Orders, Dispatching(t, o)
  PROVE  orders'[o] = orders[o]
<1>1. SUFFICES ASSUME orders'[o] # orders[o]
               PROVE  FALSE
  OBVIOUS
<1>2. sess[s].req.order = o /\ HoldsOrder(s)
  BY <1>1, WritesOwnOrder
<1>3. orders[o].status = "ready_for_pickup" /\ orders[o].assigned = NoPartner
  BY DEF DispatchIsExclusive, Dispatchable
<1>4. CASE MovesOrder(s)
  <2>1. PICK row \in OrderRow : Move(s, row) /\ MovedRow(s, orders[o], row)
    BY <1>2, <1>4, MoveOfHandler
  <2>2. row.status = "rider_assigned"
    BY <1>2, <1>3, <2>1, RiderAssignedFromReady DEF Move
  <2>3. orders[o] \in OrderRow /\ sess[s].req \in Requests
    BY <1>2, RequestAt DEF HoldsOrder, TypeOK
  <2>4. sess[s].req.kind \in {"cancel", "accept", "reject", "update", "pickUp", "transit"}
        /\ sess[s].req.goal = "rider_assigned"
    BY <2>1, <2>2, <2>3 DEF MovedRow, OrderRow
  <2>. QED  BY <2>3, <2>4, RequestShape DEF RiderKinds, Goal, OwnersLeaveAssignment
<1>5. CASE AcceptDelivery(s)
  BY <1>2, <1>3, <1>5, AcceptOfRider, ConstantsAssumption
<1>6. CASE AssignPartner(s)
  <2>1. Dispatching(s, o)
    BY <1>2, <1>6 DEF AssignPartner, Dispatching, RequestsFit, Fit
  <2>. QED  BY <2>1 DEF DispatchIsExclusive
<1>. QED
  BY <1>1, <1>4, <1>5, <1>6, WritesOwnOrder

\* A session that dispatches order o after its step did so before, or has just
\* made the order ready.
StillDispatching(s, o) ==
  /\ Dispatching(s, o)
  /\ orders'[o] = orders[o]
  /\ sess'[s].pc # "refresh" => sess'[s].view = orders[o]

StartsDispatching(s, o) ==
  /\ ~Dispatchable(orders[o]) /\ Dispatchable(orders'[o])
  /\ sess'[s].pc # "refresh" => sess'[s].view = orders'[o]

LEMMA DispatchBegins ==
  ASSUME TypeOK, RequestsFit, LockedViewIsFresh, DispatchIsExclusive,
         NEW s \in Sessions, StepOf(s), NEW o \in Orders, Dispatching(s, o)'
  PROVE  StillDispatching(s, o) \/ StartsDispatching(s, o)
<1>1. Reaches(s)
  BY StepOfReaches
<1>2. sess'[s].req.order = o
  BY DEF Dispatching
<1>3. CASE RejectDelivery(s)
  <2> DEFINE local == [sess[s] EXCEPT !.pc = "refresh", !.wrote = TRUE]
  <2>1. sess' = [sess EXCEPT ![s] = local]
    BY <1>3 DEF RejectDelivery, Continue
  <2>2. sess'[s].pc = "refresh" /\ sess[s].req.order = o
    BY <1>2, <2>1, Loaded DEF Session, TypeOK
  <2>3. PICK row \in OrderRow : Move(s, row) /\ MovedRow(s, orders[o], row)
    BY <1>3, <2>2, MoveOfHandler DEF MovesOrder
  <2>4. sess[s].req.kind = "riderReject" /\ orders[o] \in OrderRow
    BY <1>3 DEF RejectDelivery, Ready, TypeOK
  <2>5. row.status = "ready_for_pickup" /\ row.assigned = NoPartner
    BY <2>3, <2>4 DEF MovedRow, OrderRow
  <2>6. orders[o].status # "ready_for_pickup" /\ orders'[o] = row
    BY <2>2, <2>3, <2>5, RiderAssignedFromReady DEF Move, TypeOK
  <2>. QED  BY <2>2, <2>5, <2>6 DEF StartsDispatching, Dispatchable
<1>4. CASE OwnerUpdateStatus(s) /\ sess'[s].pc = "dispatch"
  <2> DEFINE row == [sess[s].view EXCEPT !.status = sess[s].req.goal]
             local == [sess[s] EXCEPT !.pc = "dispatch", !.view = row, !.wrote = TRUE]
  <2>1. Continue(s, local)
    BY <1>4, EndsRequest DEF OwnerUpdateStatus
  <2>2. sess'[s].view = row /\ sess[s].req.order = o
    BY <1>2, <2>1, Loaded DEF Continue, Session, TypeOK
  <2>3. Dispatchable(row)
    BY <1>4, <2>2 DEF Dispatching
  <2>4. sess[s].view = orders[o] /\ sess[s].pc = "locked" /\ TransitionState(s, row)
    BY <1>4, <2>2 DEF OwnerUpdateStatus, Ready, LockedViewIsFresh, FirstTransaction
  <2>5. row \in OrderRow
    BY Loaded, RowType DEF Request, OptPartner
  <2>6. orders'[o] = row /\ row.status \in ORDER_TRANSITIONS[orders[o].status]
    <3>. HIDE DEF row
    <3>. QED  BY <2>2, <2>4, <2>5, FreshWrite DEF TransitionState, TypeOK
  <2>7. orders[o].status # "ready_for_pickup"
    BY <2>3, <2>6, RiderAssignedFromReady DEF Dispatchable
  <2>. QED  BY <2>2, <2>3, <2>6, <2>7 DEF StartsDispatching, Dispatchable
<1>5. CASE RefreshOrder(s)
  BY <1>2, <1>5, Loaded DEF RefreshOrder, TypeOK, Session, Dispatching, StillDispatching
<1>6. ASSUME LockForDispatch(s) \/ QueryPartners(s) \/ SkipPartner(s) \/ LockPartner(s)
      PROVE  StillDispatching(s, o)
  <2>1. /\ sess[s].pc \in {"dispatch", "dispatching", "picking"} /\ orders' = orders
        /\ sess'[s].view = sess[s].view /\ sess'[s].req = sess[s].req
        /\ sess'[s].pc \in {"dispatching", "picking", "picked"}
    <3>1. CASE LockForDispatch(s)
      BY <3>1, Loaded DEF LockForDispatch, TypeOK, Session
    <3>2. CASE QueryPartners(s)
      BY <3>2, Loaded DEF QueryPartners, TypeOK, Session
    <3>3. CASE SkipPartner(s)
      <4>1. PICK c : sess' = [sess EXCEPT ![s].cands = @ \ {c}]
        BY <3>3 DEF SkipPartner
      <4>. QED  BY <3>3, <4>1, Loaded DEF SkipPartner, TypeOK, Session
    <3>4. CASE LockPartner(s)
      <4>1. PICK r : sess' = [sess EXCEPT ![s].pc = "picked", ![s].cands = {}, ![s].pick = r]
        BY <3>4 DEF LockPartner
      <4>. QED  BY <3>4, <4>1, Loaded DEF LockPartner, TypeOK, Session
    <3>. QED  BY <1>6, <3>1, <3>2, <3>3, <3>4
  <2>2. Dispatching(s, o)
    BY <2>1 DEF Dispatching
  <2>. QED  BY <2>1, <2>2 DEF StillDispatching, DispatchIsExclusive
<1>. QED
  BY <1>1, <1>3, <1>4, <1>5, <1>6 DEF Reaches, Dispatching

LEMMA NextExclusive ==
  ASSUME OwnersLeaveAssignment, TypeOK, RequestsFit, LockedViewIsFresh,
         DispatchIsExclusive, [Next]_vars
  PROVE  DispatchIsExclusive'
<1>1. CASE UNCHANGED vars
  BY <1>1 DEF vars, DispatchIsExclusive, Dispatching
<1>2. ASSUME NEW s \in Sessions, StepOf(s)
      PROVE  DispatchIsExclusive'
  <2>1. \A t \in Sessions \ {s} : sess'[t] = sess[t]
    BY <1>2, StepOfReaches
  <2>2. ASSUME NEW t \in Sessions \ {s}, NEW o \in Orders
        PROVE  /\ Dispatching(t, o)' <=> Dispatching(t, o)
               /\ Dispatching(t, o) => orders'[o] = orders[o]
    BY <1>2, <2>1, WaitingOrderIsLeftAlone DEF Dispatching
  <2>3. ASSUME NEW o \in Orders, Dispatching(s, o)'
        PROVE  StillDispatching(s, o) \/ StartsDispatching(s, o)
    BY <1>2, <2>3, DispatchBegins
  <2>4. ASSUME NEW o \in Orders, NEW t \in Sessions, Dispatching(t, o)'
        PROVE  /\ Dispatchable(orders'[o])
               /\ sess'[t].pc # "refresh" => sess'[t].view = orders'[o]
    BY <2>1, <2>2, <2>3, <2>4 DEF StillDispatching, StartsDispatching, DispatchIsExclusive
  <2>5. ASSUME NEW o \in Orders, NEW t \in Sessions, Dispatching(t, o)',
               NEW u \in Sessions, Dispatching(u, o)'
        PROVE  u = t
    BY <2>2, <2>3, <2>5 DEF StillDispatching, StartsDispatching, DispatchIsExclusive
  <2>. QED  BY <2>4, <2>5 DEF DispatchIsExclusive
<1>. QED
  BY <1>1, <1>2 DEF Next, StepOf

LEMMA InitExclusive == Init => DispatchIsExclusive
BY DEF Init, DispatchIsExclusive, Dispatching, Idle

\* auto_assign_order may trust the object it kept across the commit.
THEOREM DispatchCorrect == OwnersLeaveAssignment => (Spec => []DispatchIsExclusive)
<1>1. SUFFICES ASSUME OwnersLeaveAssignment
               PROVE  Spec => []DispatchIsExclusive
  OBVIOUS
<1>2. /\ TypeOK /\ RequestsFit /\ LockedViewIsFresh
      /\ DispatchIsExclusive /\ [Next]_vars
      => DispatchIsExclusive'
  BY <1>1, NextExclusive
<1>. QED
  BY <1>2, InitExclusive, TypeCorrect, FirstTransactionsAreFresh, PTL DEF Spec

-----------------------------------------------------------------------------
(* Moves of the orders                                                      *)

\* The assignments by which dispatch moves an order.
AssignedRow(s, old, row) ==
  /\ Dispatchable(old) /\ sess[s].pc = "picked" /\ sess[s].pick \in Partners
  /\ row = [old EXCEPT !.status = "rider_assigned", !.assigned = sess[s].pick,
                       !.earning = "pending"]

LEMMA MoveOfDispatch ==
  ASSUME TypeOK, RequestsFit, DispatchIsExclusive, NEW s \in Sessions, AssignPartner(s)
  PROVE  /\ sess[s].req.order \in Orders
         /\ \E row \in OrderRow :
              Move(s, row) /\ AssignedRow(s, orders[sess[s].req.order], row)
<1> DEFINE o == sess[s].req.order
           row == [sess[s].view EXCEPT !.status = "rider_assigned",
                                       !.assigned = sess[s].pick,
                                       !.earning = "pending"]
<1>1. sess[s].pc = "picked" /\ TransitionState(s, row)
  BY DEF AssignPartner
<1>2. o \in Orders /\ Dispatchable(sess[s].view) /\ sess[s].pick \in Partners
  BY <1>1, RequestAt, Loaded DEF OrderPCs, RequestsFit, Fit, OptPartner
<1>3. Dispatching(s, o)
  BY <1>1, <1>2 DEF Dispatching
<1>4. sess[s].view = orders[o]
  BY <1>1, <1>2, <1>3 DEF DispatchIsExclusive
<1>5. row \in OrderRow
  BY <1>2, Loaded, RowType, Statuses DEF OptPartner
<1>6. AssignedRow(s, orders[o], row)
  BY <1>1, <1>2, <1>4 DEF AssignedRow
<1>7. Move(s, row)
  <2>. HIDE DEF row
  <2>. QED  BY <1>1, <1>2, <1>4, <1>5, FreshWrite DEF TransitionState, Move
<1>. QED
  BY <1>2, <1>5, <1>6, <1>7

\* What a step does to the order rows and their history: nothing, a move of one
\* order that its row allows, or the acceptance by the rider it is assigned to.
Moves(s, o, row) ==
  /\ sess[s].req \in Requests /\ sess[s].req.order = o
  /\ row.status \in ORDER_TRANSITIONS[orders[o].status]
  /\ orders' = [orders EXCEPT ![o] = row]
  /\ history' = [history EXCEPT ![o] = [old |-> orders[o].status, new |-> row.status]]
  /\ MovedRow(s, orders[o], row) \/ AssignedRow(s, orders[o], row)

Accepts(s, o) ==
  /\ orders[o].assigned \in Partners
  /\ orders' = [orders EXCEPT ![o] = [orders[o] EXCEPT !.accepted = orders[o].assigned]]
  /\ UNCHANGED history

OrderInv == TypeOK /\ RequestsFit /\ LockedViewIsFresh /\ DispatchIsExclusive

LEMMA OrderSteps ==
  ASSUME OrderInv, NEW s \in Sessions, StepOf(s)
  PROVE  \/ UNCHANGED <<orders, history>>
         \/ \E o \in Orders : Accepts(s, o) \/ \E row \in OrderRow : Moves(s, o, row)
<1> USE DEF OrderInv
<1>1. CASE MovesOrder(s)
  BY <1>1, MoveOfHandler, RequestAt DEF Move, Moves, FirstTransaction
<1>2. CASE AssignPartner(s)
  BY <1>2, MoveOfDispatch, RequestAt DEF Move, Moves, AssignPartner
<1>3. CASE AcceptDelivery(s)
  BY <1>3, AcceptOfRider DEF Accepts, AcceptDelivery
<1>. QED
  BY <1>1, <1>2, <1>3, StepWrites

THEOREM OrderInvCorrect == OwnersLeaveAssignment => (Spec => []OrderInv)
BY TypeCorrect, FirstTransactionsAreFresh, DispatchCorrect, PTL DEF OrderInv

\* A move never leaves the status as it is.
LEMMA MovesChange ==
  \A p \in OrderStatus : p \notin ORDER_TRANSITIONS[p]
BY TransitionTable DEF OrderStatus

\* Status changes are strictly serialized, for any owners that leave the
\* assignment of riders to dispatch.
THEOREM StatusCorrect == OwnersLeaveAssignment => (Spec => StatusMovesAllowed)
<1>1. OrderInv /\ [Next]_vars =>
        [\A o \in Orders :
           orders'[o].status # orders[o].status =>
             orders'[o].status \in ORDER_TRANSITIONS[orders[o].status]]_vars
  <2>1. SUFFICES ASSUME OrderInv, NEW s \in Sessions, StepOf(s), NEW o \in Orders,
                        orders'[o].status # orders[o].status
                 PROVE  orders'[o].status \in ORDER_TRANSITIONS[orders[o].status]
    BY DEF Next, StepOf
  <2>2. orders \in [Orders -> OrderRow]
    BY <2>1 DEF OrderInv, TypeOK
  <2>3. ASSUME NEW p \in Orders, Accepts(s, p)
        PROVE  FALSE
    BY <2>1, <2>2, <2>3 DEF Accepts, OrderRow
  <2>4. ASSUME NEW p \in Orders, NEW row \in OrderRow, Moves(s, p, row)
        PROVE  orders'[o].status \in ORDER_TRANSITIONS[orders[o].status]
    BY <2>1, <2>2, <2>4 DEF Moves
  <2>. QED  BY <2>1, <2>3, <2>4, OrderSteps
<1>. QED
  BY <1>1, OrderInvCorrect, PTL DEF Spec, StatusMovesAllowed

\* The history of an order is the chain of the statuses it really had.
THEOREM HistoryCorrect == OwnersLeaveAssignment => (Spec => HistoryIsChained)
<1> DEFINE Chained(o) ==
      /\ orders'[o].status # orders[o].status =>
           history'[o] = [old |-> orders[o].status, new |-> orders'[o].status]
      /\ history'[o] # history[o] => orders'[o].status # orders[o].status
<1>1. OrderInv /\ [Next]_vars => [\A o \in Orders : Chained(o)]_vars
  <2>1. SUFFICES ASSUME OrderInv, NEW s \in Sessions, StepOf(s), NEW o \in Orders
                 PROVE  Chained(o)
    BY DEF Next, StepOf
  <2>2. orders \in [Orders -> OrderRow] /\ history \in [Orders -> HistoryRow]
    BY <2>1 DEF OrderInv, TypeOK
  <2>3. ASSUME NEW p \in Orders, Accepts(s, p)
        PROVE  Chained(o)
    BY <2>2, <2>3 DEF Accepts, OrderRow
  <2>4. ASSUME NEW p \in Orders, NEW row \in OrderRow, Moves(s, p, row)
        PROVE  Chained(o)
    <3>1. row.status # orders[p].status
      BY <2>2, <2>4, MovesChange DEF Moves, OrderRow
    <3>. QED  BY <2>2, <2>4, <3>1 DEF Moves
  <2>. QED  BY <2>1, <2>3, <2>4, OrderSteps
<1>. QED
  BY <1>1, OrderInvCorrect, PTL DEF Spec, HistoryIsChained

-----------------------------------------------------------------------------
(* The abstract life cycle                                                  *)

\* The requests that only change the status ask for one that is not the
\* dispatcher's.
LEMMA PlainGoals ==
  ASSUME NEW q \in Requests,
         q.kind \in {"cancel", "accept", "reject", "update", "pickUp", "transit"}
  PROVE  /\ q.kind # "update" => q.goal = Goal[q.kind]
         /\ q.kind = "update" => q.goal \in OwnerTargets
         /\ OwnersLeaveAssignment => q.goal # "rider_assigned"
<1>1. /\ q.kind # "update" => q.goal = Goal[q.kind]
      /\ q.kind = "update" => q.goal \in OwnerTargets
  BY RequestShape DEF RiderKinds
<1>. QED
  BY <1>1 DEF Goal, OwnersLeaveAssignment

\* An order has a rider only once it has been ready.
RiderMeansDispatched ==
  \A o \in Orders :
    orders[o].assigned # NoPartner =>
      orders[o].status \in ActiveStatuses \cup
        {"ready_for_pickup", "delivered", "cancelled", "refunded"}

LEMMA NextDispatched ==
  ASSUME OrderInv, RiderMeansDispatched, [Next]_vars
  PROVE  RiderMeansDispatched'
<1>1. CASE UNCHANGED orders
  BY <1>1 DEF RiderMeansDispatched
<1>2. orders \in [Orders -> OrderRow]
  BY DEF OrderInv, TypeOK
<1>3. ASSUME NEW s, NEW o \in Orders, Accepts(s, o)
      PROVE  RiderMeansDispatched'
  BY <1>2, <1>3 DEF Accepts, RiderMeansDispatched, OrderRow
<1>4. ASSUME NEW s \in Sessions, NEW o \in Orders, NEW row \in OrderRow, Moves(s, o, row)
      PROVE  RiderMeansDispatched'
  <2>1. /\ orders[o] \in OrderRow /\ orders' = [orders EXCEPT ![o] = row]
        /\ row.status \in ORDER_TRANSITIONS[orders[o].status]
    BY <1>2, <1>4 DEF Moves
  <2>2. row.assigned # NoPartner =>
          row.assigned = orders[o].assigned \/ row.status = "rider_assigned"
    BY <1>4, <2>1 DEF Moves, MovedRow, AssignedRow, OrderRow
  <2>3. row.assigned # NoPartner =>
          row.status \in ActiveStatuses \cup
            {"ready_for_pickup", "delivered", "cancelled", "refunded"}
    BY <2>1, <2>2, TransitionTable DEF RiderMeansDispatched, ActiveStatuses
  <2>. QED  BY <1>2, <2>1, <2>3 DEF RiderMeansDispatched
<1>. QED
  BY <1>1, <1>3, <1>4, OrderSteps DEF Next, StepOf, vars, Accepts

LEMMA InitDispatched == Init => RiderMeansDispatched
BY DEF Init, RiderMeansDispatched, BlankRow

THEOREM DispatchedCorrect == OwnersLeaveAssignment => (Spec => []RiderMeansDispatched)
<1>1. OrderInv /\ RiderMeansDispatched /\ [Next]_vars => RiderMeansDispatched'
  BY NextDispatched
<1>. QED
  BY <1>1, InitDispatched, OrderInvCorrect, PTL DEF Spec

\* The abstract specification reads the same table.
LEMMA SameTable ==
  /\ Lifecycle!ORDER_TRANSITIONS = ORDER_TRANSITIONS
  /\ Lifecycle!OrderStatus = OrderStatus
BY DEF Lifecycle!ORDER_TRANSITIONS, ORDER_TRANSITIONS, Lifecycle!OrderStatus, OrderStatus

LEMMA LifecycleStep ==
  ASSUME OwnersLeaveAssignment, OrderInv, RiderMeansDispatched, [Next]_vars
  PROVE  [Lifecycle!Next]_Lifecycle!vars
<1> USE DEF Lifecycle!vars, Lifecycle!Next, Lifecycle!Advance, Lifecycle!Assign,
            Lifecycle!Release
<1>1. CASE UNCHANGED orders
  BY <1>1
<1>2. orders \in [Orders -> OrderRow]
  BY DEF OrderInv, TypeOK
<1>3. ASSUME NEW s, NEW o \in Orders, Accepts(s, o)
      PROVE  UNCHANGED Lifecycle!vars
  BY <1>2, <1>3 DEF Accepts, OrderRow
<1>4. ASSUME NEW s \in Sessions, NEW o \in Orders, NEW row \in OrderRow, Moves(s, o, row)
      PROVE  Lifecycle!Next
  <2>1. /\ orders[o] \in OrderRow /\ row.status \in OrderStatus
        /\ orders' = [orders EXCEPT ![o] = row]
        /\ row.status \in ORDER_TRANSITIONS[orders[o].status]
    BY <1>2, <1>4 DEF Moves, OrderRow
  <2>2. CASE row.status # "rider_assigned" /\ row.assigned = orders[o].assigned
    <3>1. Lifecycle!Advance(o, row.status)
      BY <1>2, <2>1, <2>2, SameTable
    <3>. QED  BY <2>1, <3>1, SameTable
  <2>3. CASE AssignedRow(s, orders[o], row)
    <3>1. /\ row.status = "rider_assigned" /\ row.assigned = sess[s].pick
          /\ sess[s].pick \in Partners /\ Dispatchable(orders[o])
      BY <2>1, <2>3 DEF AssignedRow, OrderRow
    <3>2. Lifecycle!Assign(o, sess[s].pick)
      BY <1>2, <2>1, <3>1 DEF Dispatchable
    <3>. QED  BY <3>1, <3>2
  <2>4. CASE sess[s].req.kind = "riderReject" /\ MovedRow(s, orders[o], row)
    <3>1. row.status = "ready_for_pickup" /\ row.assigned = NoPartner
      BY <2>1, <2>4 DEF MovedRow, OrderRow
    <3>2. CASE orders[o].status = "rider_assigned"
      BY <1>2, <2>1, <3>1, <3>2
    <3>3. CASE orders[o].status # "rider_assigned"
      <4>1. orders[o].status \notin ActiveStatuses \cup
              {"ready_for_pickup", "delivered", "cancelled", "refunded"}
        BY <2>1, <3>1, <3>3, TransitionTable DEF ActiveStatuses
      <4>. QED  BY <2>2, <3>1, <4>1 DEF RiderMeansDispatched
    <3>. QED  BY <3>2, <3>3
  <2>5. CASE sess[s].req.kind # "riderReject" /\ MovedRow(s, orders[o], row)
    BY <1>4, <2>1, <2>2, <2>5, PlainGoals DEF MovedRow, OrderRow, Moves
  <2>. QED  BY <1>4, <2>3, <2>4, <2>5 DEF Moves
<1>. QED
  BY <1>1, <1>3, <1>4, OrderSteps DEF Next, StepOf, vars

LEMMA LifecycleInit == Init => Lifecycle!Init
BY DEF Init, Lifecycle!Init, BlankRow

\* Order handling implements the abstract life cycle.
THEOREM LifecycleCorrect == OwnersLeaveAssignment => (Spec => LifecycleSpec)
<1>1. SUFFICES ASSUME OwnersLeaveAssignment
               PROVE  Spec => LifecycleSpec
  OBVIOUS
<1>2. OrderInv /\ RiderMeansDispatched /\ [Next]_vars => [Lifecycle!Next]_Lifecycle!vars
  BY <1>1, LifecycleStep
<1>. QED
  BY <1>1, <1>2, LifecycleInit, OrderInvCorrect, DispatchedCorrect, PTL
     DEF Spec, LifecycleSpec, Lifecycle!Spec

-----------------------------------------------------------------------------
(* Riders on duty                                                           *)

\* The rider a session has locked stays on duty until the commit.
PickedOnDuty ==
  \A s \in Sessions : sess[s].pc = "picked" => OnDuty(sess[s].pick)

\* Profile rows are written by commits only, and only by the lock's holder.
LEMMA WritesOwnProfile ==
  ASSUME TypeOK, RequestsFit, NEW s \in Sessions, StepOf(s), NEW r \in Partners,
         profiles'[r] # profiles[r]
  PROVE  /\ sess[s].pc = "flushed" /\ sess[s].req.rider = r
         /\ MarkDelivered(s) \/ \E k : CommitProfile(s, k)
<1>1. CASE MarkDelivered(s)
  BY <1>1 DEF MarkDelivered, TypeOK
<1>2. CASE \E k : CommitProfile(s, k)
  BY <1>2 DEF CommitProfile, TypeOK
<1>. QED
  BY <1>1, <1>2
     DEF StepOf, Receive, Crash, Work, LockOrder, Refuse, Respond,
         OrderServiceStep, CancelOrder, OwnerAcceptOrder, OwnerRejectOrder,
         OwnerUpdateStatus, OwnerSecondTransition, RiderStep, AcceptDelivery,
         RejectDelivery, RefreshOrder, MarkPickedUp, MarkInTransit, FlushDelivery,
         DispatchStep, LockForDispatch, SkipDispatch, QueryPartners, SkipPartner,
         LockPartner, NoPartnerFound, AssignPartner, ProfileStep, BeginProfileUpdate,
         SetOnlineStatus, AdminSuspendPartner, AdminVerifyPartner, UpdateLocation

LEMMA NextOnDuty ==
  ASSUME TypeOK, RequestsFit, LocksAreOwned, PickedOnDuty, [Next]_vars
  PROVE  PickedOnDuty'
<1>1. CASE UNCHANGED vars
  BY <1>1 DEF vars, PickedOnDuty, OnDuty
<1>2. ASSUME NEW s \in Sessions, StepOf(s), NEW t \in Sessions, sess'[t].pc = "picked"
      PROVE  OnDuty(sess[t].pick)'
  <2>1. Reaches(s) /\ \A u \in Sessions \ {s} : sess'[u] = sess[u]
    BY <1>2, StepOfReaches
  <2>2. CASE t = s
    <3>1. LockPartner(s)
      BY <1>2, <2>1, <2>2 DEF Reaches
    <3>2. PICK c \in NextCandidates(s) :
            /\ OnDuty(c.rider)
            /\ sess' = [sess EXCEPT ![s].pc = "picked", ![s].cands = {},
                                    ![s].pick = c.rider]
      BY <3>1 DEF LockPartner
    <3>3. sess'[s].pick = c.rider /\ UNCHANGED profiles
      BY <3>1, <3>2, Loaded DEF LockPartner, TypeOK, Session
    <3>. QED  BY <2>2, <3>2, <3>3 DEF OnDuty
  <2>3. CASE t # s
    <3>1. sess'[t] = sess[t] /\ sess[t].pc = "picked" /\ OnDuty(sess[t].pick)
      BY <1>2, <2>1, <2>3 DEF PickedOnDuty
    <3>2. sess[t].pick \in Partners
      BY <3>1, Loaded DEF RequestsFit, Fit, OptPartner
    <3>3. profileLock[sess[t].pick] = t
      BY <3>1, <3>2 DEF LocksAreOwned, HoldsProfile
    <3>4. profiles'[sess[t].pick] = profiles[sess[t].pick]
      BY <1>2, <2>3, <3>2, <3>3, WritesOwnProfile DEF LocksAreOwned, HoldsProfile
    <3>. QED  BY <3>1, <3>4 DEF OnDuty
  <2>. QED  BY <2>2, <2>3
<1>. QED
  BY <1>1, <1>2 DEF Next, StepOf, PickedOnDuty

LEMMA InitOnDuty == Init => PickedOnDuty
BY DEF Init, PickedOnDuty, Idle

THEOREM OnDutyInv == Spec => []PickedOnDuty
<1>1. /\ TypeOK /\ RequestsFit /\ LocksAreOwned
      /\ PickedOnDuty /\ [Next]_vars
      => PickedOnDuty'
  BY NextOnDuty
<1>. QED
  BY <1>1, InitOnDuty, TypeCorrect, LocksCorrect, PTL DEF Spec

\* An order is given to a rider by the end of a dispatch only.
LEMMA AssignedByDispatch ==
  ASSUME TypeOK, RequestsFit, LockedViewIsFresh, NEW s \in Sessions, StepOf(s),
         NEW o \in Orders, orders'[o].assigned \notin {NoPartner, orders[o].assigned}
  PROVE  /\ sess[s].pc = "picked" /\ sess[s].req.order = o
         /\ orders'[o].assigned = sess[s].pick
<1>2. orders \in [Orders -> OrderRow]
  BY DEF TypeOK
<1>3. sess[s].req.order = o
  BY WritesOwnOrder
<1>4. CASE MovesOrder(s)
  <2>1. PICK row \in OrderRow : Move(s, row) /\ MovedRow(s, orders[o], row)
    BY <1>3, <1>4, MoveOfHandler
  <2>2. row.assigned \in {NoPartner, orders[o].assigned}
    BY <1>2, <2>1 DEF MovedRow, OrderRow
  <2>3. orders' = [orders EXCEPT ![o] = row]
    BY <1>3, <2>1 DEF Move
  <2>4. orders'[o] = row
    BY <1>2, <2>3
  <2>. QED  BY <2>2, <2>4
<1>5. CASE AcceptDelivery(s)
  <2> DEFINE row == [orders[o] EXCEPT !.accepted = sess[s].req.rider]
  <2>1. orders' = [orders EXCEPT ![o] = row]
    BY <1>3, <1>5, AcceptOfRider
  <2>2. row.assigned = orders[o].assigned
    BY <1>2 DEF OrderRow
  <2>. HIDE DEF row
  <2>3. orders'[o] = row
    BY <1>2, <2>1
  <2>. QED  BY <2>2, <2>3
<1>6. CASE AssignPartner(s)
  <2> DEFINE row == [sess[s].view EXCEPT !.status = "rider_assigned",
                                         !.assigned = sess[s].pick,
                                         !.earning = "pending"]
  <2>1. WriteOrder(s, row) /\ sess[s].pc = "picked"
    BY <1>6 DEF AssignPartner, TransitionState
  <2>2. sess[s].view.assigned = NoPartner /\ sess[s].pick # NoPartner
    BY <2>1 DEF RequestsFit, Fit, Dispatchable
  <2>3. row.assigned = sess[s].pick
    BY Loaded DEF OrderRow
  <2>4. orders'[o].assigned = sess[s].pick
    <3>. HIDE DEF row
    <3>. QED  BY <1>2, <1>3, <2>1, <2>2, <2>3 DEF WriteOrder, FlushOrder, Column
  <2>. QED  BY <1>3, <2>1, <2>4
<1>. QED
  BY <1>3, <1>4, <1>5, <1>6, WritesOwnOrder

\* No order is ever given to a rider who is offline or suspended, however
\* suspensions and shifts interleave with dispatch.
THEOREM OnDutyCorrect == Spec => AssigneeOnDuty
<1>1. TypeOK /\ RequestsFit /\ LockedViewIsFresh /\ PickedOnDuty /\ [Next]_vars =>
        [\A o \in Orders :
           orders'[o].assigned \notin {NoPartner, orders[o].assigned} =>
             OnDuty(orders'[o].assigned)]_vars
  BY AssignedByDispatch DEF Next, StepOf, PickedOnDuty
<1>. QED
  BY <1>1, TypeCorrect, FirstTransactionsAreFresh, OnDutyInv, PTL DEF Spec, AssigneeOnDuty

-----------------------------------------------------------------------------
(* Rejections                                                               *)

\* The rider whose profile a dispatch has locked is not the one who has just
\* turned the order down.
PickedIsAnother ==
  \A s \in Sessions : sess[s].pc = "picked" => sess[s].pick # sess[s].req.rider

LEMMA NextAnother ==
  ASSUME TypeOK, RequestsFit, PickedIsAnother, [Next]_vars
  PROVE  PickedIsAnother'
<1>1. CASE UNCHANGED vars
  BY <1>1 DEF vars, PickedIsAnother
<1>2. ASSUME NEW s \in Sessions, StepOf(s), NEW t \in Sessions, sess'[t].pc = "picked"
      PROVE  sess'[t].pick # sess'[t].req.rider
  <2>1. Reaches(s) /\ \A u \in Sessions \ {s} : sess'[u] = sess[u]
    BY <1>2, StepOfReaches
  <2>2. CASE t = s
    <3>1. LockPartner(s)
      BY <1>2, <2>1, <2>2 DEF Reaches
    <3>2. PICK c \in NextCandidates(s) :
            sess' = [sess EXCEPT ![s].pc = "picked", ![s].cands = {},
                                 ![s].pick = c.rider]
      BY <3>1 DEF LockPartner
    <3>3. sess'[s].pick = c.rider /\ sess'[s].req = sess[s].req
      BY <3>2, Loaded DEF TypeOK, Session
    <3>4. c.rider # sess[s].req.rider
      BY DEF NextCandidates, RequestsFit, Fit
    <3>. QED  BY <2>2, <3>3, <3>4
  <2>3. CASE t # s
    BY <1>2, <2>1, <2>3 DEF PickedIsAnother
  <2>. QED  BY <2>2, <2>3
<1>. QED
  BY <1>1, <1>2 DEF Next, StepOf, PickedIsAnother

LEMMA InitAnother == Init => PickedIsAnother
BY DEF Init, PickedIsAnother, Idle

\* Whatever happens between a rejection and the dispatch that follows it, for any
\* number of riders and requests, the rider who turned the order down does not get
\* it from that dispatch.
THEOREM RejectionCorrect == Spec => RejectionIsRespected
<1>1. TypeOK /\ RequestsFit /\ LocksAreOwned /\ LockedViewIsFresh /\ PickedIsAnother
      /\ [Next]_vars =>
        [\A o \in Orders, s \in Sessions :
           /\ orderLock[o] = s /\ sess[s].req.kind = "riderReject"
           /\ orders'[o].assigned # orders[o].assigned
           => orders'[o].assigned # sess[s].req.rider]_vars
  <2>1. SUFFICES ASSUME TypeOK, RequestsFit, LocksAreOwned, LockedViewIsFresh,
                        PickedIsAnother, NEW t \in Sessions, StepOf(t),
                        NEW o \in Orders, NEW s \in Sessions,
                        orderLock[o] = s, sess[s].req.kind = "riderReject",
                        orders'[o].assigned # orders[o].assigned
                 PROVE  orders'[o].assigned # sess[s].req.rider
    BY DEF Next, StepOf
  <2>2. HoldsOrder(t) /\ sess[t].req.order = o
    BY <2>1, WritesOwnOrder
  <2>3. t = s
    BY <2>1, <2>2 DEF LocksAreOwned
  <2>4. CASE orders'[o].assigned = NoPartner
    <3>1. sess[s].pc \notin {"idle", "failed"}
      BY <2>2, <2>3 DEF HoldsOrder
    <3>2. sess[s].req.rider \in Partners
      BY <2>1, <3>1, RequestAt, RequestShape DEF RiderKinds
    <3>. QED  BY <2>4, <3>2, ConstantsAssumption
  <2>5. CASE orders'[o].assigned # NoPartner
    BY <2>1, <2>3, <2>5, AssignedByDispatch DEF PickedIsAnother
  <2>. QED  BY <2>4, <2>5
<1>2. Spec => []PickedIsAnother
  <2>1. TypeOK /\ RequestsFit /\ PickedIsAnother /\ [Next]_vars => PickedIsAnother'
    BY NextAnother
  <2>. QED  BY <2>1, InitAnother, TypeCorrect, PTL DEF Spec
<1>. QED
  BY <1>1, <1>2, TypeCorrect, LocksCorrect, FirstTransactionsAreFresh, PTL
     DEF Spec, RejectionIsRespected

-----------------------------------------------------------------------------
(* Suspensions                                                              *)

\* A stale profile never writes a suspension away: flushes touch only the
\* columns the handler assigned.
THEOREM SuspensionCorrect == Spec => SuspensionSticks
<1> DEFINE Lifted(r) ==
      profiles[r].suspended /\ ~profiles'[r].suspended =>
        \E s \in Sessions :
          /\ sess[s].req.kind = "suspend" /\ ~sess[s].req.flag
          /\ sess[s].req.rider = r
<1>1. TypeOK /\ RequestsFit /\ [Next]_vars => [\A r \in Partners : Lifted(r)]_vars
  <2>1. SUFFICES ASSUME TypeOK, RequestsFit, NEW s \in Sessions, StepOf(s),
                        NEW r \in Partners, profiles[r].suspended, ~profiles'[r].suspended
                 PROVE  /\ sess[s].req.kind = "suspend" /\ ~sess[s].req.flag
                        /\ sess[s].req.rider = r
    BY DEF Next, StepOf
  <2> DEFINE q == sess[s].req
             p == sess[s].seen
  <2>2. /\ q.rider = r /\ profiles[r] \in ProfileRow /\ p \in ProfileRow /\ q \in Request
        /\ MarkDelivered(s) \/ \E k : CommitProfile(s, k)
    BY <2>1, WritesOwnProfile, Loaded DEF TypeOK
  <2>3. ASSUME NEW new, profiles' = [profiles EXCEPT ![r] = FlushProfile(p, new, profiles[r])]
        PROVE  new.suspended # p.suspended /\ ~new.suspended
    <3>1. profiles'[r].suspended = Column(p.suspended, new.suspended, profiles[r].suspended)
      BY <2>1, <2>3 DEF FlushProfile, TypeOK
    <3>. QED  BY <2>1, <3>1 DEF Column
  <2>4. CASE MarkDelivered(s)
    <3> DEFINE counted == [p EXCEPT !.deliveries = @ + 1]
    <3>1. counted.suspended = p.suspended
      BY <2>2 DEF ProfileRow
    <3>2. profiles' = [profiles EXCEPT ![r] = FlushProfile(p, counted, profiles[r])]
      BY <2>2, <2>4 DEF MarkDelivered
    <3>. HIDE DEF counted
    <3>. QED  BY <2>3, <3>1, <3>2
  <2>5. CASE \E k : CommitProfile(s, k)
    <3>1. profiles' = [profiles EXCEPT ![r] = FlushProfile(p, Assigned(q, p), profiles[r])]
      BY <2>2, <2>5 DEF CommitProfile
    <3>2. /\ q.kind # "suspend" => Assigned(q, p).suspended = p.suspended
          /\ q.kind = "suspend" => Assigned(q, p).suspended = q.flag
      BY <2>2 DEF Assigned, ProfileRow
    <3>. QED  BY <2>2, <2>3, <3>1, <3>2
  <2>. QED  BY <2>2, <2>4, <2>5
<1>. QED
  BY <1>1, TypeCorrect, PTL DEF Spec, SuspensionSticks

-----------------------------------------------------------------------------
(* Acceptance and fees                                                      *)

\* Owners do not send the statuses that belong to dispatch and riders.
OwnersLeaveDelivery ==
  OwnerTargets \cap {"rider_assigned", "picked_up", "delivered"} = {}

LEMMA NextAccepted ==
  ASSUME OwnersLeaveDelivery, OrderInv, AcceptedByAssignee, EarningsFollowOrder,
         [Next]_vars
  PROVE  AcceptedByAssignee' /\ EarningsFollowOrder'
<1>1. CASE UNCHANGED orders
  BY <1>1 DEF AcceptedByAssignee, EarningsFollowOrder
<1>2. orders \in [Orders -> OrderRow]
  BY DEF OrderInv, TypeOK
<1>3. ASSUME NEW s, NEW o \in Orders, Accepts(s, o)
      PROVE  AcceptedByAssignee' /\ EarningsFollowOrder'
  BY <1>2, <1>3, ConstantsAssumption
     DEF Accepts, AcceptedByAssignee, EarningsFollowOrder, OrderRow
<1>4. ASSUME NEW s \in Sessions, NEW o \in Orders, NEW row \in OrderRow, Moves(s, o, row)
      PROVE  AcceptedByAssignee' /\ EarningsFollowOrder'
  <2> DEFINE old == orders[o]
             Good(r) ==
               /\ r.accepted \in {NoPartner, r.assigned}
               /\ r.status \in {"picked_up", "in_transit", "delivered"} =>
                    r.accepted # NoPartner
               /\ r.status \in ActiveStatuses \cup {"delivered"} =>
                    r.assigned # NoPartner /\ r.earning # "none"
               /\ r.earning = "unpaid" <=> r.status = "delivered"
  <2>1. /\ old \in OrderRow /\ orders' = [orders EXCEPT ![o] = row]
        /\ row.status \in ORDER_TRANSITIONS[old.status] /\ old.status \in OrderStatus
    BY <1>2, <1>4 DEF Moves, OrderRow
  <2>2. Good(old)
    BY DEF AcceptedByAssignee, EarningsFollowOrder
  <2>3. /\ old.status # "delivered"
        /\ row.status = "picked_up" => old.status = "rider_assigned"
        /\ row.status = "in_transit" => old.status = "picked_up"
        /\ row.status = "delivered" => old.status = "in_transit"
    BY <2>1, TransitionTable DEF OrderStatus
  <2>. SUFFICES Good(row)
    <3>1. \A p \in Orders : Good(orders[p])
      BY DEF AcceptedByAssignee, EarningsFollowOrder
    <3>2. ASSUME NEW p \in Orders, Good(row)
          PROVE  Good(orders'[p])
      <4>1. orders'[p] = IF p = o THEN row ELSE orders[p]
        BY <1>2, <2>1
      <4>. HIDE DEF Good
      <4>. QED  BY <3>1, <3>2, <4>1
    <3>. QED  BY <3>2 DEF AcceptedByAssignee, EarningsFollowOrder
  <2>4. CASE /\ sess[s].req.kind \in {"cancel", "accept", "reject", "update", "pickUp", "transit"}
             /\ MovedRow(s, old, row)
    <3>1. /\ row.status = sess[s].req.goal /\ row.assigned = old.assigned
          /\ row.accepted = old.accepted /\ row.earning = old.earning
          /\ sess[s].req.kind = "pickUp" => old.accepted # NoPartner
      BY <2>1, <2>4 DEF MovedRow, OrderRow
    <3>2. row.status \notin {"rider_assigned", "delivered"}
      BY <1>4, <2>4, <3>1, PlainGoals DEF Moves, Goal, OwnersLeaveDelivery
    <3>3. row.status = "picked_up" => old.accepted # NoPartner
      <4>1. CASE sess[s].req.kind = "update"
        BY <1>4, <3>1, <4>1, PlainGoals DEF Moves, OwnersLeaveDelivery
      <4>2. CASE sess[s].req.kind \in {"cancel", "accept", "reject", "transit"}
        <5>1. sess[s].req.goal = Goal[sess[s].req.kind]
          BY <1>4, <4>2, PlainGoals DEF Moves
        <5>2. sess[s].req.goal # "picked_up"
          BY <4>2, <5>1 DEF Goal
        <5>. QED  BY <3>1, <5>2
      <4>. QED  BY <2>4, <3>1, <4>1, <4>2
    <3>. HIDE DEF old
    <3>. QED  BY <2>2, <2>3, <3>1, <3>2, <3>3 DEF ActiveStatuses
  <2>5. CASE sess[s].req.kind = "riderReject" /\ MovedRow(s, old, row)
    <3>1. /\ row.status = "ready_for_pickup" /\ row.assigned = NoPartner
          /\ row.accepted = NoPartner /\ row.earning = old.earning
      BY <2>1, <2>5 DEF MovedRow, OrderRow
    <3>. HIDE DEF old
    <3>. QED  BY <2>2, <2>3, <3>1 DEF ActiveStatuses
  <2>6. CASE sess[s].req.kind = "deliver" /\ MovedRow(s, old, row)
    <3>1. /\ row.status = "delivered" /\ row.assigned = old.assigned
          /\ row.accepted = old.accepted /\ row.earning = "unpaid"
      BY <2>1, <2>6 DEF MovedRow, OrderRow
    <3>. HIDE DEF old
    <3>. QED  BY <2>2, <2>3, <3>1 DEF ActiveStatuses
  <2>7. CASE AssignedRow(s, old, row)
    <3>1. /\ row.status = "rider_assigned" /\ row.assigned \in Partners
          /\ row.accepted = old.accepted /\ row.earning = "pending"
          /\ old.assigned = NoPartner
      BY <2>1, <2>7 DEF AssignedRow, OrderRow, Dispatchable
    <3>. HIDE DEF old
    <3>. QED  BY <2>2, <2>3, <3>1, ConstantsAssumption DEF ActiveStatuses
  <2>. QED  BY <1>4, <2>4, <2>5, <2>6, <2>7 DEF Moves, MovedRow
<1>. QED
  BY <1>1, <1>3, <1>4, OrderSteps DEF Next, StepOf, vars

LEMMA InitAccepted == Init => AcceptedByAssignee /\ EarningsFollowOrder
BY ConstantsAssumption
   DEF Init, AcceptedByAssignee, EarningsFollowOrder, BlankRow, ActiveStatuses

\* Acceptances never outlive the assignment they were given for, and a fee is
\* owed exactly for delivered orders.
THEOREM AcceptedCorrect ==
  OwnersLeaveDelivery => (Spec => [](AcceptedByAssignee /\ EarningsFollowOrder))
<1>1. OwnersLeaveDelivery => OwnersLeaveAssignment
  BY DEF OwnersLeaveDelivery, OwnersLeaveAssignment
<1>2. SUFFICES ASSUME OwnersLeaveDelivery
               PROVE  Spec => [](AcceptedByAssignee /\ EarningsFollowOrder)
  OBVIOUS
<1>3. OrderInv /\ (AcceptedByAssignee /\ EarningsFollowOrder) /\ [Next]_vars
      => (AcceptedByAssignee /\ EarningsFollowOrder)'
  BY <1>2, NextAccepted
<1>. QED
  BY <1>1, <1>2, <1>3, InitAccepted, OrderInvCorrect, PTL DEF Spec

\* Whoever set rider_accepted_at is the rider of the order.
THEOREM AcceptanceCorrect == OwnersLeaveDelivery => (Spec => []AcceptedByAssignee)
BY AcceptedCorrect, PTL

-----------------------------------------------------------------------------
(* Counting deliveries                                                      *)

\* A session keeps the request and the profile it loaded until it ends.
LEMMA KeepsRequest ==
  ASSUME TypeOK, NEW s \in Sessions, StepOf(s)
  PROVE  \/ sess'[s].pc \in {"idle", "failed"}
         \/ /\ sess[s].pc \notin {"idle", "failed"}
            /\ sess'[s].req = sess[s].req /\ sess'[s].seen = sess[s].seen
         \/ \E q \in Requests : Receive(s, q)
<1>1. sess[s] \in Session /\ s \in DOMAIN sess
  BY Loaded DEF TypeOK
<1>2. CASE Finish(s) \/ Fail(s)
  BY <1>2, EndsRequest
<1>3. CASE LockOrder(s) \/ LockForDispatch(s) \/ FlushDelivery(s)
  <2>1. CASE LockOrder(s)
    BY <1>1, <2>1 DEF LockOrder, TypeOK, Session
  <2>2. CASE LockForDispatch(s)
    BY <1>1, <2>2 DEF LockForDispatch, TypeOK, Session
  <2>3. CASE FlushDelivery(s)
    BY <1>1, <2>3 DEF FlushDelivery, Ready, TypeOK, Session
  <2>. QED  BY <1>3, <2>1, <2>2, <2>3
<1>4. CASE OwnerUpdateStatus(s)
  <2> DEFINE row == [sess[s].view EXCEPT !.status = sess[s].req.goal]
             local == [sess[s] EXCEPT !.pc = "dispatch", !.view = row, !.wrote = TRUE]
  <2>1. sess[s].pc = "locked" /\ (Finish(s) \/ Continue(s, local))
    BY <1>4 DEF OwnerUpdateStatus, Ready
  <2>2. local.req = sess[s].req /\ local.seen = sess[s].seen
    BY <1>1 DEF Session
  <2>. HIDE DEF local
  <2>. QED  BY <1>1, <1>2, <2>1, <2>2 DEF Continue, TypeOK
<1>5. CASE RejectDelivery(s)
  BY <1>1, <1>5 DEF RejectDelivery, Ready, Continue, TypeOK, Session
<1>6. CASE RefreshOrder(s)
  BY <1>1, <1>6 DEF RefreshOrder, TypeOK, Session
<1>7. CASE QueryPartners(s)
  BY <1>1, <1>7 DEF QueryPartners, TypeOK, Session
<1>8. CASE SkipPartner(s)
  <2>1. PICK c : sess' = [sess EXCEPT ![s].cands = @ \ {c}]
    BY <1>8 DEF SkipPartner
  <2>. QED  BY <1>1, <1>8, <2>1 DEF SkipPartner, TypeOK, Session
<1>9. CASE LockPartner(s)
  <2>1. PICK r : sess' = [sess EXCEPT ![s].pc = "picked", ![s].cands = {}, ![s].pick = r]
    BY <1>9 DEF LockPartner
  <2>. QED  BY <1>1, <1>9, <2>1 DEF LockPartner, TypeOK, Session
<1>10. CASE AssignPartner(s)
  <2> DEFINE row == [sess[s].view EXCEPT !.status = "rider_assigned",
                                         !.assigned = sess[s].pick,
                                         !.earning = "pending"]
             local == [sess[s] EXCEPT !.pc = "assigned", !.view = row,
                                      !.pick = NoPartner]
  <2>1. sess[s].pc = "picked" /\ (Finish(s) \/ sess' = [sess EXCEPT ![s] = local])
    BY <1>10 DEF AssignPartner, Continue
  <2>2. local.req = sess[s].req /\ local.seen = sess[s].seen
    BY <1>1 DEF Session
  <2>. HIDE DEF local
  <2>. QED  BY <1>2, <2>1, <2>2, OneSession
<1>11. CASE BeginProfileUpdate(s)
  BY <1>1, <1>2, <1>11 DEF BeginProfileUpdate, TypeOK, Session
<1>. QED
  BY <1>2, <1>3, <1>4, <1>5, <1>6, <1>7, <1>8, <1>9, <1>10, <1>11
     DEF StepOf, Work, Crash, Refuse, Respond, OrderServiceStep, CancelOrder,
         OwnerAcceptOrder, OwnerRejectOrder, OwnerSecondTransition, RiderStep,
         AcceptDelivery, MarkPickedUp, MarkInTransit, MarkDelivered, DispatchStep,
         SkipDispatch, NoPartnerFound, ProfileStep, CommitProfile, SetOnlineStatus,
         AdminSuspendPartner, AdminVerifyPartner, UpdateLocation

\* A delivered order stays with its rider and stays delivered.
LEMMA DeliveredGrows ==
  ASSUME OrderInv, NEW s \in Sessions, StepOf(s), NEW r \in Partners
  PROVE  Delivered(r) \subseteq Delivered(r)'
<1>1. orders \in [Orders -> OrderRow]
  BY DEF OrderInv, TypeOK
<1>2. CASE UNCHANGED orders
  BY <1>2 DEF Delivered
<1>3. ASSUME NEW o \in Orders, Accepts(s, o)
      PROVE  Delivered(r) \subseteq Delivered(r)'
  BY <1>1, <1>3 DEF Accepts, Delivered, OrderRow
<1>4. ASSUME NEW o \in Orders, NEW row \in OrderRow, Moves(s, o, row)
      PROVE  Delivered(r) \subseteq Delivered(r)'
  <2>1. orders[o].status # "delivered"
    BY <1>4, TransitionTable DEF Moves
  <2>. QED  BY <1>1, <1>4, <2>1 DEF Moves, Delivered
<1>. QED
  BY <1>2, <1>3, <1>4, OrderSteps

\* No total, stored or loaded by a handler, exceeds the deliveries made.
CountsBounded ==
  /\ DeliveriesNeverOvercounted
  /\ \A s \in Sessions, r \in Partners :
       sess[s].pc \notin {"idle", "failed"} /\ sess[s].req.rider = r =>
         sess[s].seen.deliveries <= Cardinality(Delivered(r))

LEMMA NextCounts ==
  ASSUME IsFiniteSet(Orders), OrderInv, CountsBounded, [Next]_vars
  PROVE  CountsBounded'
<1>1. CASE UNCHANGED vars
  BY <1>1 DEF vars, CountsBounded, DeliveriesNeverOvercounted, Delivered
<1>2. ASSUME NEW s \in Sessions, StepOf(s)
      PROVE  CountsBounded'
  <2>1. TypeOK /\ RequestsFit /\ LockedViewIsFresh
    BY DEF OrderInv
  <2>2. ASSUME NEW r \in Partners
        PROVE  /\ IsFiniteSet(Delivered(r)) /\ IsFiniteSet(Delivered(r)')
               /\ Cardinality(Delivered(r)) \in Nat /\ Cardinality(Delivered(r)') \in Nat
               /\ Cardinality(Delivered(r)) <= Cardinality(Delivered(r)')
    <3>1. Delivered(r) \subseteq Orders /\ Delivered(r)' \subseteq Orders
      BY DEF Delivered
    <3>2. IsFiniteSet(Delivered(r)) /\ IsFiniteSet(Delivered(r)')
      BY <3>1, FS_Subset
    <3>3. Delivered(r) \subseteq Delivered(r)'
      BY <1>2, DeliveredGrows
    <3>. QED  BY <3>2, <3>3, FS_Subset, FS_CardinalityType
  <2>3. ASSUME NEW r \in Partners
        PROVE  /\ profiles[r] \in ProfileRow
               /\ profiles[r].deliveries \in Nat
               /\ profiles[r].deliveries <= Cardinality(Delivered(r))
    BY <2>1 DEF TypeOK, ProfileRow, CountsBounded, DeliveriesNeverOvercounted
  <2>4. ASSUME NEW r \in Partners
        PROVE  profiles'[r].deliveries <= Cardinality(Delivered(r)')
    <3>1. CASE profiles'[r] = profiles[r]
      BY <2>2, <2>3, <3>1
    <3>2. CASE sess[s].req.rider = r /\ \E k : CommitProfile(s, k)
      <4> DEFINE q == sess[s].req
                 p == sess[s].seen
      <4>1. profiles' = [profiles EXCEPT ![r] = FlushProfile(p, Assigned(q, p), profiles[r])]
        BY <3>2 DEF CommitProfile
      <4>2. Assigned(q, p).deliveries = p.deliveries
        BY <2>1, Loaded DEF Assigned, ProfileRow
      <4>3. profiles'[r].deliveries = profiles[r].deliveries
        <5>. HIDE DEF p, q
        <5>. QED  BY <2>1, <4>1, <4>2 DEF FlushProfile, Column, TypeOK
      <4>. QED  BY <2>2, <2>3, <4>3
    <3>3. CASE /\ sess[s].pc = "flushed" /\ sess[s].req.rider = r
               /\ MarkDelivered(s)
      <4> DEFINE o == sess[s].req.order
                 p == sess[s].seen
      <4>1. PICK row \in OrderRow : Move(s, row) /\ MovedRow(s, orders[o], row)
        BY <2>1, <3>3, MoveOfHandler DEF MovesOrder
      <4>2. o \in Orders /\ sess[s].req.kind = "deliver" /\ orders[o] \in OrderRow
        BY <2>1, <3>3, MoveOfHandler DEF MovesOrder, MarkDelivered, TypeOK
      <4>3. row.status = "delivered" /\ row.assigned = r
        BY <3>3, <4>1, <4>2 DEF MovedRow, OrderRow
      <4>4. orders[o].status # "delivered"
        BY <4>1, TransitionTable DEF Move
      <4>5. o \notin Delivered(r) /\ Delivered(r)' = Delivered(r) \cup {o}
        BY <2>1, <4>1, <4>2, <4>3, <4>4 DEF Delivered, Move, TypeOK
      <4>6. Cardinality(Delivered(r)') = Cardinality(Delivered(r)) + 1
        BY <2>2, <4>5, FS_AddElement
      <4>7. p.deliveries \in Nat /\ p.deliveries <= Cardinality(Delivered(r))
        BY <2>1, <3>3, Loaded DEF CountsBounded, ProfileRow
      <4>8. profiles'[r].deliveries = p.deliveries + 1
        <5> DEFINE counted == [p EXCEPT !.deliveries = @ + 1]
        <5>1. counted.deliveries = p.deliveries + 1
          BY <2>1, Loaded DEF ProfileRow
        <5>2. profiles' = [profiles EXCEPT ![r] = FlushProfile(p, counted, profiles[r])]
          BY <3>3 DEF MarkDelivered
        <5>. HIDE DEF counted, p
        <5>. QED  BY <2>1, <4>7, <5>1, <5>2 DEF FlushProfile, Column, TypeOK
      <4>. QED  BY <2>2, <4>6, <4>7, <4>8
    <3>. QED  BY <1>2, <2>1, <3>1, <3>2, <3>3, WritesOwnProfile
  <2>5. ASSUME NEW t \in Sessions, NEW r \in Partners,
               sess'[t].pc \notin {"idle", "failed"}, sess'[t].req.rider = r
        PROVE  sess'[t].seen.deliveries <= Cardinality(Delivered(r)')
    <3>1. CASE \/ t # s
               \/ /\ sess[t].pc \notin {"idle", "failed"}
                  /\ sess'[t].req = sess[t].req /\ sess'[t].seen = sess[t].seen
      <4>1. /\ sess[t].pc \notin {"idle", "failed"} /\ sess[t].req.rider = r
            /\ sess'[t].seen = sess[t].seen
        BY <1>2, <2>1, <2>5, <3>1, StepOfReaches
      <4>2. /\ sess[t].seen.deliveries \in Nat
            /\ sess[t].seen.deliveries <= Cardinality(Delivered(r))
        BY <2>1, <4>1, Loaded DEF CountsBounded, ProfileRow
      <4>. QED  BY <2>2, <4>1, <4>2
    <3>2. CASE t = s /\ \E q \in Requests : Receive(s, q)
      <4>1. sess'[t].seen = profiles[r]
        BY <2>1, <2>5, <3>2 DEF Receive, Idle, TypeOK
      <4>. QED  BY <2>2, <2>3, <4>1
    <3>. QED  BY <1>2, <2>1, <2>5, <3>1, <3>2, KeepsRequest
  <2>. QED  BY <2>4, <2>5 DEF CountsBounded, DeliveriesNeverOvercounted
<1>. QED
  BY <1>1, <1>2 DEF Next, StepOf

LEMMA InitCounts == IsFiniteSet(Orders) /\ Init => CountsBounded
<1>1. SUFFICES ASSUME IsFiniteSet(Orders), Init
               PROVE  CountsBounded
  OBVIOUS
<1>2. ASSUME NEW r \in Partners
      PROVE  profiles[r].deliveries = 0 /\ Cardinality(Delivered(r)) \in Nat
  <2>1. Delivered(r) \subseteq Orders
    BY DEF Delivered
  <2>. QED  BY <1>1, <2>1, FS_Subset, FS_CardinalityType DEF Init
<1>3. \A s \in Sessions : sess[s].pc = "idle"
  BY <1>1 DEF Init, Idle
<1>. QED
  BY <1>2, <1>3 DEF CountsBounded, DeliveriesNeverOvercounted

\* Lost updates of a total can only make it too small.
THEOREM CountsCorrect ==
  OwnersLeaveAssignment /\ IsFiniteSet(Orders) => (Spec => []DeliveriesNeverOvercounted)
<1>1. SUFFICES ASSUME OwnersLeaveAssignment, IsFiniteSet(Orders)
               PROVE  Spec => []DeliveriesNeverOvercounted
  OBVIOUS
<1>2. OrderInv /\ CountsBounded /\ [Next]_vars => CountsBounded'
  BY <1>1, NextCounts
<1>3. Init => CountsBounded
  BY <1>1, InitCounts
<1>4. CountsBounded => DeliveriesNeverOvercounted
  BY DEF CountsBounded
<1>. QED
  BY <1>1, <1>2, <1>3, <1>4, OrderInvCorrect, PTL DEF Spec
=============================================================================

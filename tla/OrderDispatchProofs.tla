------------------------ MODULE OrderDispatchProofs ------------------------
(***************************************************************************)
(* Proofs, for any number of orders, riders and concurrent requests, of    *)
(* what the properties of OrderDispatch rest on: types, row locks, and     *)
(* what a step may read and write.                                         *)
(***************************************************************************)
EXTENDS OrderDispatchProperties, TLAPS

-----------------------------------------------------------------------------
(* The transition table                                                     *)

\* The table of constants/orders.py, row by row.
LEMMA TransitionTable ==
  /\ ORDER_TRANSITIONS["pending"] = {"awaiting_payment", "placed", "cancelled"}
  /\ ORDER_TRANSITIONS["awaiting_payment"] = {"placed", "payment_failed", "cancelled"}
  /\ ORDER_TRANSITIONS["payment_failed"] = {"awaiting_payment", "cancelled"}
  /\ ORDER_TRANSITIONS["placed"] = {"accepted", "rejected", "cancelled"}
  /\ ORDER_TRANSITIONS["accepted"] = {"preparing", "cancelled"}
  /\ ORDER_TRANSITIONS["preparing"] = {"ready_for_pickup", "cancelled"}
  /\ ORDER_TRANSITIONS["ready_for_pickup"] = {"rider_assigned"}
  /\ ORDER_TRANSITIONS["rider_assigned"] = {"picked_up", "ready_for_pickup", "cancelled"}
  /\ ORDER_TRANSITIONS["picked_up"] = {"in_transit", "cancelled"}
  /\ ORDER_TRANSITIONS["in_transit"] = {"delivered", "cancelled"}
  /\ ORDER_TRANSITIONS["delivered"] = {}
  /\ ORDER_TRANSITIONS["rejected"] = {"refunded"}
  /\ ORDER_TRANSITIONS["cancelled"] = {"refunded"}
  /\ ORDER_TRANSITIONS["refunded"] = {}
BY DEF ORDER_TRANSITIONS

\* Only a ready order can be given a rider, and that is all it can be given.
LEMMA RiderAssignedFromReady ==
  /\ \A p \in OrderStatus :
       "rider_assigned" \in ORDER_TRANSITIONS[p] => p = "ready_for_pickup"
  /\ \A n : n \in ORDER_TRANSITIONS["ready_for_pickup"] => n = "rider_assigned"
BY TransitionTable DEF OrderStatus

\* Every status the orders start with has a predecessor, which Init chooses.
LEMMA InitHistoryTyped ==
  (CHOOSE p \in OrderStatus : InitStatus \in ORDER_TRANSITIONS[p]) \in OrderStatus
<1>1. \E p \in OrderStatus : InitStatus \in ORDER_TRANSITIONS[p]
  BY ConstantsAssumption, TransitionTable DEF OrderStatus
<1>. QED
  BY <1>1

-----------------------------------------------------------------------------
(* Requests                                                                 *)

\* What Requests says of a request of each sort.
LEMMA RequestShape ==
  ASSUME NEW q \in Requests
  PROVE  /\ q \in Request
         /\ q.kind \in DeskKinds =>
              q.order \in Orders /\ q.rider = NoPartner
         /\ q.kind \in RiderKinds =>
              q.order \in Orders /\ q.rider \in Partners /\ q.goal = Goal[q.kind]
         /\ q.kind \in ProfileKinds => q.order = NoOrder /\ q.rider \in Partners
         /\ q.kind = "update" => q.goal \in OwnerTargets
         /\ q.kind \in {"cancel", "accept", "reject"} => q.goal = Goal[q.kind]
<1> USE ConstantsAssumption
       DEF DeskKinds, RiderKinds, ProfileKinds, Request, OptPartner
<1>1. CASE q \in UpdateRequests
  BY <1>1 DEF UpdateRequests
<1>2. CASE q \in DeskRequests
  BY <1>2 DEF DeskRequests
<1>3. CASE q \in RiderRequests
  BY <1>3 DEF RiderRequests
<1>4. CASE q \in ProfileRequests
  BY <1>4 DEF ProfileRequests, OrderStatus
<1>. QED
  BY <1>1, <1>2, <1>3, <1>4 DEF Requests

-----------------------------------------------------------------------------
(* Types                                                                    *)

\* A step that gives session s a new local state keeps the sessions well typed
\* and fitting if the new state is.
LEMMA LocalStep ==
  ASSUME TypeOK, RequestsFit, NEW s \in Sessions, NEW local,
         local \in Session, Fit(local),
         sess' = [sess EXCEPT ![s] = local]
  PROVE  sess' \in [Sessions -> Session] /\ RequestsFit'
BY DEF TypeOK, RequestsFit

LEMMA IdleFits == Idle \in Session /\ Fit(Idle)
BY ConstantsAssumption
   DEF Idle, Session, Fit, BlankRequest, BlankRow, BlankProfile, Request,
       OrderRow, ProfileRow, OptPartner, PCs, OrderPCs, DispatchPCs,
       DeskKinds, OrderStatus

\* Freeing locks keeps the lock tables well typed.
LEMMA FreeLocksType ==
  ASSUME TypeOK, NEW s \in Sessions, FreeLocks(s)
  PROVE  /\ orderLock' \in [Orders -> Sessions \cup {NoSession}]
         /\ profileLock' \in [Partners -> Sessions \cup {NoSession}]
BY DEF TypeOK, FreeLocks

LEMMA FinishType ==
  ASSUME TypeOK, RequestsFit, NEW s \in Sessions, Finish(s),
         orders' \in [Orders -> OrderRow], history' \in [Orders -> HistoryRow],
         profiles' \in [Partners -> ProfileRow]
  PROVE  TypeOK' /\ RequestsFit'
<1>1. sess' = [sess EXCEPT ![s] = Idle] /\ FreeLocks(s)
  BY DEF Finish, Continue
<1>. QED
  BY <1>1, IdleFits, LocalStep, FreeLocksType DEF TypeOK

LEMMA FailType ==
  ASSUME TypeOK, RequestsFit, NEW s \in Sessions, Fail(s),
         UNCHANGED <<orders, history, profiles>>
  PROVE  TypeOK' /\ RequestsFit'
<1> DEFINE local == [Idle EXCEPT !.pc = "failed", !.wrote = sess[s].wrote]
<1>1. sess' = [sess EXCEPT ![s] = local] /\ FreeLocks(s)
  BY DEF Fail, Continue
<1>2. local \in Session /\ Fit(local)
  BY ConstantsAssumption
     DEF TypeOK, Idle, Session, Fit, BlankRequest, BlankRow, BlankProfile, Request,
         OrderRow, ProfileRow, OptPartner, PCs, OrderPCs, DispatchPCs,
         DeskKinds, OrderStatus
<1>. QED
  BY <1>1, <1>2, LocalStep, FreeLocksType DEF TypeOK

\* A flushed order row is well typed.
LEMMA TransitionType ==
  ASSUME TypeOK, NEW s \in Sessions, NEW row \in OrderRow, TransitionState(s, row)
  PROVE  /\ orders' \in [Orders -> OrderRow]
         /\ history' \in [Orders -> HistoryRow]
<1>1. sess[s].view \in OrderRow /\ \A o \in Orders : orders[o] \in OrderRow
  BY DEF TypeOK, Session
<1>2. \A o \in Orders : FlushOrder(sess[s].view, row, orders[o]) \in OrderRow
  BY <1>1 DEF FlushOrder, Column, OrderRow
<1>3. [old |-> sess[s].view.status, new |-> row.status] \in HistoryRow
  BY <1>1 DEF OrderRow, HistoryRow
<1>. QED
  BY <1>2, <1>3 DEF TypeOK, TransitionState, WriteOrder

LEMMA ReceiveType ==
  ASSUME TypeOK, RequestsFit, NEW s \in Sessions, NEW q \in Requests, Receive(s, q)
  PROVE  TypeOK' /\ RequestsFit'
<1> DEFINE local ==
      [Idle EXCEPT !.pc = IF q.kind \in ProfileKinds THEN "profile" ELSE "order",
                   !.req = q,
                   !.seen = IF q.rider \in Partners THEN profiles[q.rider]
                                                    ELSE BlankProfile]
<1>1. sess' = [sess EXCEPT ![s] = local]
  BY DEF Receive
<1>2. local.pc \in {"profile", "order"} /\ local.req = q /\ local.cands = {}
      /\ local.pick = NoPartner /\ (local.pc = "profile" <=> q.kind \in ProfileKinds)
  BY DEF Idle
<1>3. local \in Session
  <2>1. local.seen \in ProfileRow
    BY DEF Idle, TypeOK, BlankProfile, ProfileRow
  <2>2. local.req \in Request
    BY <1>2, RequestShape
  <2>. QED  BY <2>1, <2>2, IdleFits DEF Idle, Session, PCs
<1>4. Fit(local)
  <2>. HIDE DEF local
  <2>. QED  BY <1>2 DEF Fit, OrderPCs, DispatchPCs
<1>. QED
  BY <1>1, <1>3, <1>4, LocalStep DEF TypeOK, Receive

\* A session at a program counter of a handler has loaded a request of its kind.
LEMMA RequestAt ==
  ASSUME TypeOK, RequestsFit, NEW s \in Sessions,
         sess[s].pc \notin {"idle", "failed"}
  PROVE  /\ sess[s].req \in Requests
         /\ sess[s].pc \in OrderPCs => sess[s].req.order \in Orders
         /\ sess[s].pc = "flushed" => sess[s].req.rider \in Partners
         /\ sess[s].pc = "profile" => sess[s].req.rider \in Partners
         /\ sess[s].req.kind = "deliver" =>
              sess[s].req.order \in Orders /\ sess[s].req.rider \in Partners
<1>1. sess[s].req \in Requests
  BY DEF RequestsFit, Fit
<1>2. sess[s].req.kind \in DeskKinds \cup RiderKinds \cup ProfileKinds
  BY <1>1, RequestShape DEF Request
<1>. QED
  BY <1>1, <1>2, RequestShape DEF RequestsFit, Fit, RiderKinds, DeskKinds, ProfileKinds

\* Flushes and the assignments of the handlers keep rows well typed.
LEMMA FlushOrderType ==
  ASSUME NEW a \in OrderRow, NEW b \in OrderRow, NEW c \in OrderRow
  PROVE  FlushOrder(a, b, c) \in OrderRow
BY DEF FlushOrder, Column, OrderRow

LEMMA FlushProfileType ==
  ASSUME NEW a \in ProfileRow, NEW b \in ProfileRow, NEW c \in ProfileRow
  PROVE  FlushProfile(a, b, c) \in ProfileRow
BY DEF FlushProfile, Column, ProfileRow

LEMMA RowType ==
  ASSUME NEW row \in OrderRow, NEW st \in OrderStatus, NEW r \in OptPartner
  PROVE  /\ [row EXCEPT !.status = st] \in OrderRow
         /\ [row EXCEPT !.accepted = r] \in OrderRow
         /\ [row EXCEPT !.status = st, !.earning = "unpaid"] \in OrderRow
         /\ [row EXCEPT !.status = st, !.assigned = r, !.accepted = r] \in OrderRow
         /\ [row EXCEPT !.status = st, !.assigned = r, !.earning = "pending"] \in OrderRow
BY DEF OrderRow

LEMMA AssignedType ==
  ASSUME NEW q \in Request, NEW p \in ProfileRow
  PROVE  /\ Assigned(q, p) \in ProfileRow
         /\ [p EXCEPT !.deliveries = @ + 1] \in ProfileRow
<1>1. Assigned(q, p) \in ProfileRow
  BY DEF Assigned, Request, ProfileRow
<1>2. [p EXCEPT !.deliveries = @ + 1] \in ProfileRow
  BY DEF ProfileRow
<1>. QED
  BY <1>1, <1>2

\* The statuses the handlers write.
LEMMA Statuses ==
  /\ {"cancelled", "accepted", "rejected", "ready_for_pickup"} \subseteq OrderStatus
  /\ {"rider_assigned", "picked_up", "in_transit", "delivered"} \subseteq OrderStatus
BY DEF OrderStatus

\* What a session has loaded.
LEMMA Loaded ==
  ASSUME TypeOK, NEW s \in Sessions
  PROVE  /\ sess[s] \in Session
         /\ sess[s].req \in Request /\ sess[s].view \in OrderRow
         /\ sess[s].seen \in ProfileRow /\ sess[s].pick \in OptPartner
         /\ sess[s].cands \in SUBSET [rider: Partners, load: Nat]
BY DEF TypeOK, Session

LEMMA OrderServiceType ==
  ASSUME TypeOK, RequestsFit, NEW s \in Sessions, OrderServiceStep(s)
  PROVE  TypeOK' /\ RequestsFit'
<1>0. UNCHANGED profiles /\ sess[s].view \in OrderRow
  BY Loaded DEF OrderServiceStep, CancelOrder, OwnerAcceptOrder, OwnerRejectOrder,
                OwnerUpdateStatus, OwnerSecondTransition
<1>1. CASE CancelOrder(s)
  BY <1>0, <1>1, RowType, Statuses, TransitionType, FinishType DEF CancelOrder, TypeOK, OptPartner
<1>2. CASE OwnerAcceptOrder(s)
  BY <1>0, <1>2, RowType, Statuses, TransitionType, FinishType DEF OwnerAcceptOrder, TypeOK, OptPartner
<1>3. CASE OwnerRejectOrder(s)
  BY <1>0, <1>3, RowType, Statuses, TransitionType, FinishType DEF OwnerRejectOrder, TypeOK, OptPartner
<1>4. CASE OwnerUpdateStatus(s)
  <2> DEFINE row == [sess[s].view EXCEPT !.status = sess[s].req.goal]
             local == [sess[s] EXCEPT !.pc = "dispatch", !.view = row, !.wrote = TRUE]
  <2>1. row \in OrderRow
    BY <1>0, Loaded, RowType DEF Request, OptPartner
  <2>2. orders' \in [Orders -> OrderRow] /\ history' \in [Orders -> HistoryRow]
    BY <1>4, <2>1, TransitionType DEF OwnerUpdateStatus
  <2>3. profiles' \in [Partners -> ProfileRow]
    BY <1>0 DEF TypeOK
  <2>4. CASE Finish(s)
    BY <2>2, <2>3, <2>4, FinishType
  <2>5. CASE Continue(s, local)
    <3>1. local \in Session
      <4> HIDE DEF row
      <4>. QED  BY <2>1, Loaded DEF Session, PCs
    <3>2. Fit(local)
      BY <1>4, Loaded DEF OwnerUpdateStatus, Ready, RequestsFit, Fit, OrderPCs, DispatchPCs,
          ProfileKinds, Session
    <3>. QED  BY <2>2, <2>3, <2>5, <3>1, <3>2, LocalStep, FreeLocksType DEF Continue, TypeOK
  <2>. QED  BY <1>4, <2>4, <2>5 DEF OwnerUpdateStatus
<1>5. CASE OwnerSecondTransition(s)
  BY <1>5, FailType DEF OwnerSecondTransition
<1>. QED
  BY <1>1, <1>2, <1>3, <1>4, <1>5 DEF OrderServiceStep

LEMMA RiderType ==
  ASSUME TypeOK, RequestsFit, NEW s \in Sessions, RiderStep(s)
  PROVE  TypeOK' /\ RequestsFit'
<1>0. sess[s].view \in OrderRow /\ NoPartner \in OptPartner
  BY Loaded DEF OptPartner
<1>1. CASE AcceptDelivery(s)
  <2> DEFINE row == [sess[s].view EXCEPT !.accepted = sess[s].req.rider]
  <2>1. row \in OrderRow
    BY <1>0, Loaded, RowType, Statuses DEF Request
  <2>2. orders' \in [Orders -> OrderRow]
    <3>1. WriteOrder(s, row)
      BY <1>1 DEF AcceptDelivery
    <3>. HIDE DEF row
    <3>. QED  BY <1>0, <2>1, <3>1, FlushOrderType DEF WriteOrder, TypeOK
  <2>. QED  BY <1>1, <2>2, FinishType DEF AcceptDelivery, TypeOK
<1>2. CASE RejectDelivery(s)
  <2> DEFINE row == [sess[s].view EXCEPT !.status = "ready_for_pickup",
                                         !.assigned = NoPartner,
                                         !.accepted = NoPartner]
             local == [sess[s] EXCEPT !.pc = "refresh", !.wrote = TRUE]
  <2>1. row \in OrderRow
    BY <1>0, RowType, Statuses
  <2>2. orders' \in [Orders -> OrderRow] /\ history' \in [Orders -> HistoryRow]
    BY <1>2, <2>1, TransitionType DEF RejectDelivery
  <2>3. local \in Session
    BY Loaded DEF Session, PCs
  <2>4. Fit(local)
    BY <1>2, Loaded DEF RejectDelivery, Ready, RequestsFit, Fit, OrderPCs, DispatchPCs,
        ProfileKinds, Session
  <2>. QED  BY <1>2, <2>2, <2>3, <2>4, LocalStep, FreeLocksType
            DEF RejectDelivery, Continue, TypeOK
<1>3. CASE RefreshOrder(s)
  <2> DEFINE local == [sess[s] EXCEPT !.pc = "dispatch",
                                      !.view = orders[sess[s].req.order]]
  <2>1. sess' = [sess EXCEPT ![s] = local]
    BY <1>3, Loaded DEF RefreshOrder, TypeOK, Session
  <2>2. local \in Session
    <3>1. orders[sess[s].req.order] \in OrderRow
      BY <1>3, RequestAt DEF RefreshOrder, OrderPCs, TypeOK
    <3>. QED  BY <3>1, Loaded DEF Session, PCs
  <2>3. Fit(local)
    BY <1>3, Loaded DEF RefreshOrder, RequestsFit, Fit, OrderPCs, DispatchPCs, Session
  <2>. QED  BY <1>3, <2>1, <2>2, <2>3, LocalStep DEF RefreshOrder, TypeOK
<1>4. CASE MarkPickedUp(s)
  BY <1>0, <1>4, RowType, Statuses, TransitionType, FinishType DEF MarkPickedUp, TypeOK
<1>5. CASE MarkInTransit(s)
  BY <1>0, <1>5, RowType, Statuses, TransitionType, FinishType DEF MarkInTransit, TypeOK
<1>6. CASE FlushDelivery(s)
  <2> DEFINE local == [sess[s] EXCEPT !.pc = "flushed"]
  <2>1. sess' = [sess EXCEPT ![s] = local]
    BY <1>6, Loaded DEF FlushDelivery, TypeOK, Session
  <2>2. local \in Session
    BY Loaded DEF Session, PCs
  <2>3. Fit(local)
    BY <1>6, Loaded DEF FlushDelivery, Ready, RequestsFit, Fit, OrderPCs, DispatchPCs, Session
  <2>4. profileLock' \in [Partners -> Sessions \cup {NoSession}]
    BY <1>6 DEF FlushDelivery, TypeOK
  <2>. QED  BY <1>6, <2>1, <2>2, <2>3, <2>4, LocalStep DEF FlushDelivery, TypeOK
<1>7. CASE MarkDelivered(s)
  <2>1. [sess[s].view EXCEPT !.status = "delivered", !.earning = "unpaid"] \in OrderRow
    BY <1>0, RowType, Statuses
  <2>2. profiles' \in [Partners -> ProfileRow]
    <3> DEFINE counted == [sess[s].seen EXCEPT !.deliveries = @ + 1]
    <3>1. sess[s].seen \in ProfileRow /\ counted \in ProfileRow
      BY Loaded, AssignedType
    <3>2. profiles' = [profiles EXCEPT ![sess[s].req.rider] =
             FlushProfile(sess[s].seen, counted, profiles[sess[s].req.rider])]
      BY <1>7 DEF MarkDelivered
    <3>. HIDE DEF counted
    <3>. QED  BY <3>1, <3>2, FlushProfileType DEF TypeOK
  <2>. QED  BY <1>7, <2>1, <2>2, TransitionType, FinishType DEF MarkDelivered
<1>. QED
  BY <1>1, <1>2, <1>3, <1>4, <1>5, <1>6, <1>7 DEF RiderStep

LEMMA DispatchType ==
  ASSUME TypeOK, RequestsFit, NEW s \in Sessions, DispatchStep(s)
  PROVE  TypeOK' /\ RequestsFit'
<1> USE DEF TypeOK, Session
<1>1. CASE LockForDispatch(s)
  <2> DEFINE local == [sess[s] EXCEPT !.pc = "dispatching"]
  <2>1. sess' = [sess EXCEPT ![s] = local]
    BY <1>1 DEF LockForDispatch
  <2>2. local \in Session
    BY DEF PCs
  <2>3. Fit(local)
    BY <1>1 DEF LockForDispatch, RequestsFit, Fit, OrderPCs, DispatchPCs
  <2>. QED  BY <1>1, <2>1, <2>2, <2>3, LocalStep DEF LockForDispatch
<1>2. CASE SkipDispatch(s)
  BY <1>2, FinishType DEF SkipDispatch
<1>3. CASE QueryPartners(s)
  <2> DEFINE found == {[rider |-> r, load |-> profiles[r].deliveries] :
                         r \in Available(sess[s].req.rider)}
             local == [sess[s] EXCEPT !.pc = "picking", !.cands = found]
  <2>1. sess' = [sess EXCEPT ![s] = local]
    BY <1>3 DEF QueryPartners
  <2>2. /\ found \in SUBSET [rider: Partners, load: Nat]
        /\ \A c \in found : c.rider # sess[s].req.rider
    BY DEF Available, ProfileRow
  <2>3. local \in Session
    <3>1. sess[s] \in Session
      BY Loaded
    <3>. HIDE DEF found, TypeOK
    <3>. QED  BY <2>2, <3>1 DEF PCs
  <2>4. /\ local.pc = "picking" /\ local.req = sess[s].req /\ local.cands = found
        /\ local.view = sess[s].view /\ local.pick = sess[s].pick
    OBVIOUS
  <2>5. Fit(sess[s]) /\ sess[s].pc = "dispatching" /\ Dispatchable(sess[s].view)
    BY <1>3 DEF QueryPartners, RequestsFit
  <2>6. Fit(local)
    <3>. HIDE DEF local, found, TypeOK, Session
    <3>. QED  BY <2>2, <2>4, <2>5 DEF Fit, OrderPCs, DispatchPCs
  <2>. QED  BY <1>3, <2>1, <2>3, <2>6, LocalStep DEF QueryPartners
<1>4. CASE SkipPartner(s)
  <2>1. PICK c \in NextCandidates(s) : sess' = [sess EXCEPT ![s].cands = @ \ {c}]
    BY <1>4 DEF SkipPartner
  <2> DEFINE local == [sess[s] EXCEPT !.cands = sess[s].cands \ {c}]
  <2>2. sess' = [sess EXCEPT ![s] = local]
    BY <2>1
  <2>3. local \in Session
    OBVIOUS
  <2>4. Fit(local)
    BY <1>4 DEF SkipPartner, RequestsFit, Fit, OrderPCs, DispatchPCs
  <2>. QED  BY <1>4, <2>2, <2>3, <2>4, LocalStep DEF SkipPartner
<1>5. CASE LockPartner(s)
  <2>1. PICK c \in NextCandidates(s) :
          /\ profileLock' = [profileLock EXCEPT ![c.rider] = s]
          /\ sess' = [sess EXCEPT ![s].pc = "picked", ![s].cands = {},
                                  ![s].pick = c.rider]
    BY <1>5 DEF LockPartner
  <2> DEFINE local == [sess[s] EXCEPT !.pc = "picked", !.cands = {}, !.pick = c.rider]
  <2>2. sess' = [sess EXCEPT ![s] = local]
    BY <2>1
  <2>3. c.rider \in Partners
    BY DEF NextCandidates
  <2>4. local \in Session
    <3>1. sess[s] \in Session /\ c.rider \in OptPartner
      BY <2>3, Loaded DEF OptPartner
    <3>. HIDE DEF TypeOK
    <3>. QED  BY <3>1 DEF PCs
  <2>5. /\ local.pc = "picked" /\ local.req = sess[s].req /\ local.cands = {}
        /\ local.view = sess[s].view /\ local.pick = c.rider
    OBVIOUS
  <2>6. Fit(sess[s]) /\ sess[s].pc = "picking"
    BY <1>5 DEF LockPartner, RequestsFit
  <2>7. Fit(local)
    <3>. HIDE DEF local, TypeOK, Session
    <3>. QED  BY <2>3, <2>5, <2>6, ConstantsAssumption DEF Fit, OrderPCs, DispatchPCs
  <2>. QED  BY <1>5, <2>1, <2>2, <2>4, <2>7, LocalStep DEF LockPartner
<1>6. CASE NoPartnerFound(s)
  BY <1>6, FinishType DEF NoPartnerFound
<1>7. CASE AssignPartner(s)
  <2> DEFINE row == [sess[s].view EXCEPT !.status = "rider_assigned",
                                         !.assigned = sess[s].pick,
                                         !.earning = "pending"]
             local == [sess[s] EXCEPT !.pc = "assigned", !.view = row,
                                      !.pick = NoPartner]
  <2>1. row \in OrderRow
    BY Loaded, RowType, Statuses
  <2>2. orders' \in [Orders -> OrderRow] /\ history' \in [Orders -> HistoryRow]
    BY <1>7, <2>1, TransitionType DEF AssignPartner
  <2>3. profiles' \in [Partners -> ProfileRow]
    BY <1>7 DEF AssignPartner
  <2>4. CASE Finish(s)
    BY <2>2, <2>3, <2>4, FinishType
  <2>5. CASE Continue(s, local) /\ sess[s].req.kind = "update"
    <3>1. local \in Session
      <4>1. sess[s] \in Session /\ NoPartner \in OptPartner
        BY Loaded DEF OptPartner
      <4>. HIDE DEF row, TypeOK
      <4>. QED  BY <2>1, <4>1 DEF PCs
    <3>2. /\ local.pc = "assigned" /\ local.req = sess[s].req
          /\ local.cands = sess[s].cands /\ local.pick = NoPartner
      OBVIOUS
    <3>3. Fit(sess[s]) /\ sess[s].pc = "picked"
      BY <1>7 DEF AssignPartner, RequestsFit
    <3>4. Fit(local)
      <4>. HIDE DEF local, row, TypeOK, Session
      <4>. QED  BY <2>5, <3>2, <3>3 DEF Fit, OrderPCs, DispatchPCs
    <3>. QED  BY <2>2, <2>3, <2>5, <3>1, <3>4, LocalStep, FreeLocksType DEF Continue
  <2>. QED  BY <1>7, <2>4, <2>5 DEF AssignPartner
<1>. QED
  BY <1>1, <1>2, <1>3, <1>4, <1>5, <1>6, <1>7 DEF DispatchStep

LEMMA ProfileType ==
  ASSUME TypeOK, RequestsFit, NEW s \in Sessions, ProfileStep(s)
  PROVE  TypeOK' /\ RequestsFit'
<1> USE DEF TypeOK, Session
<1>1. CASE BeginProfileUpdate(s)
  <2> DEFINE local == [sess[s] EXCEPT !.pc = "flushed"]
  <2>1. CASE Finish(s)
    BY <1>1, <2>1, FinishType DEF BeginProfileUpdate
  <2>2. CASE sess' = [sess EXCEPT ![s].pc = "flushed"]
             /\ profileLock' = [profileLock EXCEPT ![sess[s].req.rider] = s]
             /\ UNCHANGED orderLock
    <3>1. sess' = [sess EXCEPT ![s] = local]
      BY <2>2
    <3>2. local \in Session
      BY DEF PCs
    <3>3. Fit(local)
      BY <1>1 DEF BeginProfileUpdate, RequestsFit, Fit, OrderPCs, DispatchPCs,
                  ProfileKinds
    <3>. QED  BY <1>1, <2>2, <3>1, <3>2, <3>3, LocalStep DEF BeginProfileUpdate
  <2>. QED  BY <1>1, <2>1, <2>2 DEF BeginProfileUpdate
<1>2. ASSUME NEW k, CommitProfile(s, k)
      PROVE  TypeOK' /\ RequestsFit'
  <2>1. sess[s].seen \in ProfileRow /\ Assigned(sess[s].req, sess[s].seen) \in ProfileRow
    BY Loaded, AssignedType
  <2>2. profiles' \in [Partners -> ProfileRow]
    BY <1>2, <2>1, FlushProfileType DEF CommitProfile, TypeOK
  <2>. QED  BY <1>2, <2>2, FinishType DEF CommitProfile
<1>. QED
  BY <1>1, <1>2 DEF ProfileStep, SetOnlineStatus, AdminSuspendPartner,
                    AdminVerifyPartner, UpdateLocation

LEMMA NextType ==
  ASSUME TypeOK, RequestsFit, [Next]_vars
  PROVE  TypeOK' /\ RequestsFit'
<1>1. CASE UNCHANGED vars
  BY <1>1 DEF vars, TypeOK, RequestsFit
<1>2. ASSUME NEW s \in Sessions, NEW q \in Requests, Receive(s, q)
      PROVE  TypeOK' /\ RequestsFit'
  BY <1>2, ReceiveType
<1>3. ASSUME NEW s \in Sessions, Crash(s)
      PROVE  TypeOK' /\ RequestsFit'
  BY <1>3, FinishType DEF Crash, TypeOK
<1>4. ASSUME NEW s \in Sessions, LockOrder(s)
      PROVE  TypeOK' /\ RequestsFit'
  <2> DEFINE local == [sess[s] EXCEPT !.pc = "locked",
                                      !.view = orders[sess[s].req.order]]
  <2>1. sess' = [sess EXCEPT ![s] = local]
    BY <1>4 DEF LockOrder
  <2>2. local \in Session
    <3>1. sess[s] \in Session
      BY Loaded
    <3>2. orders[sess[s].req.order] \in OrderRow
      BY <1>4, RequestAt DEF LockOrder, TypeOK, OrderPCs
    <3>. QED  BY <3>1, <3>2 DEF Session, PCs
  <2>3. /\ local.pc = "locked" /\ local.req = sess[s].req
        /\ local.cands = sess[s].cands /\ local.pick = sess[s].pick
    BY Loaded DEF Session
  <2>4. Fit(sess[s]) /\ sess[s].pc = "order"
    BY <1>4 DEF LockOrder, RequestsFit
  <2>5. Fit(local)
    <3>. HIDE DEF local
    <3>. QED  BY <2>3, <2>4 DEF Fit, OrderPCs, DispatchPCs
  <2>. QED  BY <1>4, <2>1, <2>2, <2>5, LocalStep DEF LockOrder, TypeOK
<1>5. ASSUME NEW s \in Sessions, Refuse(s)
      PROVE  TypeOK' /\ RequestsFit'
  BY <1>5, FailType DEF Refuse
<1>6. ASSUME NEW s \in Sessions, Respond(s)
      PROVE  TypeOK' /\ RequestsFit'
  BY <1>6, FinishType DEF Respond, TypeOK
<1>. QED
  BY <1>1, <1>2, <1>3, <1>4, <1>5, <1>6, OrderServiceType, RiderType, DispatchType,
     ProfileType DEF Next, Work

LEMMA InitType == Init => TypeOK /\ RequestsFit
BY ConstantsAssumption, InitHistoryTyped, IdleFits
   DEF Init, TypeOK, RequestsFit, BlankRow, OrderRow, OptPartner, HistoryRow,
       ProfileRow, OrderStatus

\* Every row and every session stays well typed, and every session works on a
\* request of a kind that belongs where it is.
THEOREM TypeCorrect == Spec => [](TypeOK /\ RequestsFit)
<1>1. TypeOK /\ RequestsFit /\ [Next]_vars => (TypeOK /\ RequestsFit)'
  BY NextType
<1>. QED
  BY <1>1, InitType, PTL DEF Spec

-----------------------------------------------------------------------------
(* Row locks                                                                *)

\* A step replaces the local state of one session.
LEMMA OneSession ==
  ASSUME TypeOK, NEW s \in Sessions, NEW local, sess' = [sess EXCEPT ![s] = local]
  PROVE  /\ sess'[s] = local
         /\ \A t \in Sessions \ {s} : sess'[t] = sess[t]
BY DEF TypeOK

\* A session that ends its transaction and frees its locks.
LEMMA ContinueLocks ==
  ASSUME TypeOK, LocksAreOwned, NEW s \in Sessions, NEW local, Continue(s, local),
         local.pc \in {"idle", "failed", "refresh", "dispatch", "assigned"}
  PROVE  LocksAreOwned'
<1>1. /\ sess'[s] = local
      /\ \A t \in Sessions \ {s} : sess'[t] = sess[t]
  BY OneSession DEF Continue
<1>2. ASSUME NEW o \in Orders, NEW t \in Sessions
      PROVE  orderLock'[o] = t <=> HoldsOrder(t)' /\ sess'[t].req.order = o
  BY <1>1, ConstantsAssumption
     DEF LocksAreOwned, HoldsOrder, Continue, FreeLocks, TypeOK
<1>3. ASSUME NEW r \in Partners, NEW t \in Sessions
      PROVE  profileLock'[r] = t <=> HoldsProfile(t, r)'
  BY <1>1, ConstantsAssumption
     DEF LocksAreOwned, HoldsProfile, Continue, FreeLocks, TypeOK
<1>. QED
  BY <1>2, <1>3 DEF LocksAreOwned

\* A session that locks the order of its request.
LEMMA TakeOrderLock ==
  ASSUME TypeOK, LocksAreOwned, NEW s \in Sessions, NEW local,
         sess' = [sess EXCEPT ![s] = local],
         sess[s].pc \in {"order", "dispatch"},
         local.pc \in {"locked", "dispatching"}, local.req = sess[s].req,
         orderLock[sess[s].req.order] = NoSession,
         orderLock' = [orderLock EXCEPT ![sess[s].req.order] = s],
         UNCHANGED profileLock
  PROVE  LocksAreOwned'
<1>1. /\ sess'[s] = local
      /\ \A t \in Sessions \ {s} : sess'[t] = sess[t]
  BY OneSession
<1>2. ASSUME NEW o \in Orders, NEW t \in Sessions
      PROVE  orderLock'[o] = t <=> HoldsOrder(t)' /\ sess'[t].req.order = o
  BY <1>1, ConstantsAssumption DEF LocksAreOwned, HoldsOrder, TypeOK
<1>3. ASSUME NEW r \in Partners, NEW t \in Sessions
      PROVE  profileLock'[r] = t <=> HoldsProfile(t, r)'
  BY <1>1 DEF LocksAreOwned, HoldsProfile, TypeOK
<1>. QED
  BY <1>2, <1>3 DEF LocksAreOwned

\* A session that locks rider p and keeps its other locks.
LEMMA TakeProfileLock ==
  ASSUME TypeOK, LocksAreOwned, NEW s \in Sessions, NEW local, NEW p \in Partners,
         sess' = [sess EXCEPT ![s] = local],
         local.req = sess[s].req,
         \A r \in Partners : ~HoldsProfile(s, r),
         \/ local.pc = "picked" /\ local.pick = p
         \/ local.pc = "flushed" /\ local.req.rider = p,
         HoldsOrder(s) <=> \/ local.pc = "picked"
                           \/ local.pc = "flushed" /\ local.req.kind = "deliver",
         profileLock[p] = NoSession,
         profileLock' = [profileLock EXCEPT ![p] = s],
         UNCHANGED orderLock
  PROVE  LocksAreOwned'
<1>1. /\ sess'[s] = local
      /\ \A t \in Sessions \ {s} : sess'[t] = sess[t]
  BY OneSession
<1>2. ASSUME NEW o \in Orders, NEW t \in Sessions
      PROVE  orderLock'[o] = t <=> HoldsOrder(t)' /\ sess'[t].req.order = o
  BY <1>1, ConstantsAssumption DEF LocksAreOwned, HoldsOrder, TypeOK
<1>3. ASSUME NEW r \in Partners, NEW t \in Sessions
      PROVE  profileLock'[r] = t <=> HoldsProfile(t, r)'
  BY <1>1, ConstantsAssumption DEF LocksAreOwned, HoldsProfile, TypeOK
<1>. QED
  BY <1>2, <1>3 DEF LocksAreOwned

\* A session that holds after a step what it held before.
LEMMA KeepLocks ==
  ASSUME TypeOK, LocksAreOwned, NEW s \in Sessions, NEW local,
         sess' = [sess EXCEPT ![s] = local],
         \/ /\ sess[s].pc \in {"idle", "refresh"}
            /\ local.pc \in {"order", "profile", "dispatch"}
         \/ /\ sess[s].pc \in {"dispatching", "picking"}
            /\ local.pc = "picking" /\ local.req = sess[s].req,
         UNCHANGED <<orderLock, profileLock>>
  PROVE  LocksAreOwned'
<1>1. /\ sess'[s] = local
      /\ \A t \in Sessions \ {s} : sess'[t] = sess[t]
  BY OneSession
<1>. QED
  BY <1>1 DEF LocksAreOwned, HoldsOrder, HoldsProfile, TypeOK

LEMMA FinishLocks ==
  ASSUME TypeOK, LocksAreOwned, NEW s \in Sessions, Finish(s) \/ Fail(s)
  PROVE  LocksAreOwned'
BY ContinueLocks DEF Finish, Fail, Idle

LEMMA NextLocks ==
  ASSUME TypeOK, RequestsFit, LocksAreOwned, [Next]_vars
  PROVE  LocksAreOwned'
<1>1. CASE UNCHANGED vars
  BY <1>1 DEF vars, LocksAreOwned, HoldsOrder, HoldsProfile
<1>2. ASSUME NEW s \in Sessions, NEW q \in Requests, Receive(s, q)
      PROVE  LocksAreOwned'
  <2> DEFINE local ==
        [Idle EXCEPT !.pc = IF q.kind \in ProfileKinds THEN "profile" ELSE "order",
                     !.req = q,
                     !.seen = IF q.rider \in Partners THEN profiles[q.rider]
                                                      ELSE BlankProfile]
  <2>1. sess' = [sess EXCEPT ![s] = local]
    BY <1>2 DEF Receive
  <2>2. local.pc \in {"order", "profile"}
    BY DEF Idle
  <2>3. sess[s].pc = "idle" /\ UNCHANGED <<orderLock, profileLock>>
    BY <1>2 DEF Receive
  <2>. HIDE DEF local
  <2>. QED  BY <2>1, <2>2, <2>3, KeepLocks
<1>3. ASSUME NEW s \in Sessions, Crash(s) \/ Refuse(s) \/ Respond(s)
      PROVE  LocksAreOwned'
  BY <1>3, FinishLocks DEF Crash, Refuse, Respond
<1>4. ASSUME NEW s \in Sessions, LockOrder(s) \/ LockForDispatch(s)
      PROVE  LocksAreOwned'
  <2>1. CASE LockOrder(s)
    <3> DEFINE local == [sess[s] EXCEPT !.pc = "locked",
                                        !.view = orders[sess[s].req.order]]
    <3>1. sess' = [sess EXCEPT ![s] = local] /\ local.pc = "locked" /\ local.req = sess[s].req
      BY <2>1, Loaded DEF LockOrder, TypeOK, Session
    <3>. HIDE DEF local
    <3>. QED  BY <2>1, <3>1, TakeOrderLock DEF LockOrder
  <2>2. CASE LockForDispatch(s)
    <3> DEFINE local == [sess[s] EXCEPT !.pc = "dispatching"]
    <3>1. sess' = [sess EXCEPT ![s] = local] /\ local.pc = "dispatching" /\ local.req = sess[s].req
      BY <2>2, Loaded DEF LockForDispatch, TypeOK, Session
    <3>. HIDE DEF local
    <3>. QED  BY <2>2, <3>1, TakeOrderLock DEF LockForDispatch
  <2>. QED  BY <1>4, <2>1, <2>2
<1>5. ASSUME NEW s \in Sessions, OrderServiceStep(s)
      PROVE  LocksAreOwned'
  <2>1. CASE OwnerUpdateStatus(s)
    <3> DEFINE row == [sess[s].view EXCEPT !.status = sess[s].req.goal]
               local == [sess[s] EXCEPT !.pc = "dispatch", !.view = row, !.wrote = TRUE]
    <3>1. Finish(s) \/ Continue(s, local)
      BY <2>1 DEF OwnerUpdateStatus
    <3>2. local.pc = "dispatch"
      BY Loaded DEF Session
    <3>. HIDE DEF local
    <3>. QED  BY <3>1, <3>2, FinishLocks, ContinueLocks
  <2>. QED  BY <1>5, <2>1, FinishLocks
            DEF OrderServiceStep, CancelOrder, OwnerAcceptOrder, OwnerRejectOrder,
                OwnerSecondTransition
<1>6. ASSUME NEW s \in Sessions, RiderStep(s)
      PROVE  LocksAreOwned'
  <2>1. CASE RejectDelivery(s)
    <3> DEFINE local == [sess[s] EXCEPT !.pc = "refresh", !.wrote = TRUE]
    <3>1. Continue(s, local) /\ local.pc = "refresh"
      BY <2>1, Loaded DEF RejectDelivery, Session
    <3>. HIDE DEF local
    <3>. QED  BY <3>1, ContinueLocks
  <2>2. CASE RefreshOrder(s)
    <3> DEFINE local == [sess[s] EXCEPT !.pc = "dispatch",
                                        !.view = orders[sess[s].req.order]]
    <3>1. sess' = [sess EXCEPT ![s] = local] /\ local.pc = "dispatch"
      BY <2>2, Loaded DEF RefreshOrder, TypeOK, Session
    <3>. HIDE DEF local
    <3>. QED  BY <2>2, <3>1, KeepLocks DEF RefreshOrder
  <2>3. CASE FlushDelivery(s)
    <3> DEFINE local == [sess[s] EXCEPT !.pc = "flushed"]
               p == sess[s].req.rider
    <3>1. sess' = [sess EXCEPT ![s] = local] /\ local.pc = "flushed" /\ local.req = sess[s].req
      BY <2>3, Loaded DEF FlushDelivery, TypeOK, Session
    <3>2. sess[s].pc = "locked" /\ sess[s].req.kind = "deliver" /\ p \in Partners
      BY <2>3, RequestAt DEF FlushDelivery, Ready
    <3>3. HoldsOrder(s) /\ \A r \in Partners : ~HoldsProfile(s, r)
      BY <3>2 DEF HoldsOrder, HoldsProfile
    <3>. HIDE DEF local
    <3>. QED  BY <2>3, <3>1, <3>2, <3>3, TakeProfileLock DEF FlushDelivery
  <2>. QED  BY <1>6, <2>1, <2>2, <2>3, FinishLocks
            DEF RiderStep, AcceptDelivery, MarkPickedUp, MarkInTransit, MarkDelivered
<1>7. ASSUME NEW s \in Sessions, DispatchStep(s)
      PROVE  LocksAreOwned'
  <2>1. CASE QueryPartners(s)
    <3> DEFINE local == [sess[s] EXCEPT !.pc = "picking",
          !.cands = {[rider |-> r, load |-> profiles[r].deliveries] :
                       r \in Available(sess[s].req.rider)}]
    <3>1. sess' = [sess EXCEPT ![s] = local] /\ local.pc = "picking" /\ local.req = sess[s].req
      BY <2>1, Loaded DEF QueryPartners, TypeOK, Session
    <3>. HIDE DEF local
    <3>. QED  BY <2>1, <3>1, KeepLocks DEF QueryPartners
  <2>2. CASE SkipPartner(s)
    <3>1. PICK c : sess' = [sess EXCEPT ![s].cands = @ \ {c}]
      BY <2>2 DEF SkipPartner
    <3> DEFINE local == [sess[s] EXCEPT !.cands = sess[s].cands \ {c}]
    <3>2. sess' = [sess EXCEPT ![s] = local] /\ local.pc = "picking" /\ local.req = sess[s].req
      BY <2>2, <3>1, Loaded DEF SkipPartner, TypeOK, Session
    <3>. HIDE DEF local
    <3>. QED  BY <2>2, <3>2, KeepLocks DEF SkipPartner
  <2>3. CASE LockPartner(s)
    <3>1. PICK c \in NextCandidates(s) :
            /\ profileLock[c.rider] = NoSession
            /\ profileLock' = [profileLock EXCEPT ![c.rider] = s]
            /\ sess' = [sess EXCEPT ![s].pc = "picked", ![s].cands = {},
                                    ![s].pick = c.rider]
      BY <2>3 DEF LockPartner
    <3> DEFINE local == [sess[s] EXCEPT !.pc = "picked", !.cands = {}, !.pick = c.rider]
    <3>2. /\ sess' = [sess EXCEPT ![s] = local]
          /\ local.pc = "picked" /\ local.pick = c.rider /\ local.req = sess[s].req
      BY <3>1, Loaded DEF TypeOK, Session
    <3>3. c.rider \in Partners
      BY Loaded DEF NextCandidates
    <3>4. HoldsOrder(s) /\ \A r \in Partners : ~HoldsProfile(s, r)
      BY <2>3 DEF LockPartner, HoldsOrder, HoldsProfile
    <3>. HIDE DEF local
    <3>. QED  BY <2>3, <3>1, <3>2, <3>3, <3>4, TakeProfileLock DEF LockPartner
  <2>4. CASE AssignPartner(s)
    <3> DEFINE row == [sess[s].view EXCEPT !.status = "rider_assigned",
                                           !.assigned = sess[s].pick,
                                           !.earning = "pending"]
               local == [sess[s] EXCEPT !.pc = "assigned", !.view = row,
                                        !.pick = NoPartner]
    <3>1. Finish(s) \/ Continue(s, local)
      BY <2>4 DEF AssignPartner
    <3>2. local.pc = "assigned"
      BY Loaded DEF Session
    <3>. HIDE DEF local
    <3>. QED  BY <3>1, <3>2, FinishLocks, ContinueLocks
  <2>. QED  BY <1>4, <1>7, <2>1, <2>2, <2>3, <2>4, FinishLocks
            DEF DispatchStep, SkipDispatch, NoPartnerFound
<1>8. ASSUME NEW s \in Sessions, ProfileStep(s)
      PROVE  LocksAreOwned'
  <2>1. CASE BeginProfileUpdate(s)
    <3> DEFINE local == [sess[s] EXCEPT !.pc = "flushed"]
               p == sess[s].req.rider
    <3>1. \/ Finish(s)
          \/ /\ profileLock[p] = NoSession
             /\ profileLock' = [profileLock EXCEPT ![p] = s]
             /\ sess' = [sess EXCEPT ![s] = local]
             /\ UNCHANGED orderLock
      BY <2>1, Loaded DEF BeginProfileUpdate, TypeOK, Session
    <3>2. local.pc = "flushed" /\ local.req = sess[s].req
      BY Loaded DEF Session
    <3>3. /\ sess[s].pc = "profile" /\ sess[s].req.kind \in ProfileKinds
          /\ p \in Partners
      BY <2>1, RequestAt DEF BeginProfileUpdate, RequestsFit, Fit
    <3>4. /\ ~HoldsOrder(s) /\ local.req.kind # "deliver"
          /\ \A r \in Partners : ~HoldsProfile(s, r)
      BY <3>2, <3>3 DEF HoldsOrder, HoldsProfile, ProfileKinds
    <3>. HIDE DEF local
    <3>. QED  BY <3>1, <3>2, <3>3, <3>4, FinishLocks, TakeProfileLock
  <2>. QED  BY <1>8, <2>1, FinishLocks
            DEF ProfileStep, CommitProfile, SetOnlineStatus, AdminSuspendPartner,
                AdminVerifyPartner, UpdateLocation
<1>. QED
  BY <1>1, <1>2, <1>3, <1>4, <1>5, <1>6, <1>7, <1>8 DEF Next, Work

LEMMA InitLocks == Init => LocksAreOwned
BY ConstantsAssumption DEF Init, LocksAreOwned, HoldsOrder, HoldsProfile, Idle

\* The part of the inductive invariant about locks.
LEMMA LocksCorrect == Spec => []LocksAreOwned
<1>1. (TypeOK /\ RequestsFit) /\ LocksAreOwned /\ [Next]_vars => LocksAreOwned'
  BY NextLocks
<1>. QED
  BY <1>1, InitLocks, TypeCorrect, PTL DEF Spec

-----------------------------------------------------------------------------
(* What a step writes to the order rows                                     *)

\* Two sessions never hold the same order.
LEMMA OneHolder ==
  ASSUME LocksAreOwned, NEW s \in Sessions, NEW t \in Sessions,
         HoldsOrder(s), HoldsOrder(t), sess[s].req.order \in Orders,
         sess[s].req.order = sess[t].req.order
  PROVE  s = t
BY DEF LocksAreOwned

\* A write of an object that equals the row stores the assigned values.
LEMMA FreshFlush ==
  ASSUME NEW row \in OrderRow, NEW stored \in OrderRow
  PROVE  FlushOrder(stored, row, stored) = row
BY DEF FlushOrder, Column, OrderRow

LEMMA FreshWrite ==
  ASSUME TypeOK, NEW s \in Sessions, NEW row \in OrderRow, WriteOrder(s, row),
         sess[s].req.order \in Orders, sess[s].view = orders[sess[s].req.order]
  PROVE  orders' = [orders EXCEPT ![sess[s].req.order] = row]
<1>1. orders[sess[s].req.order] \in OrderRow
  BY DEF TypeOK
<1>. QED
  BY <1>1, FreshFlush DEF WriteOrder

\* A handler moves the order it holds and whose row it knows.
Move(s, row) ==
  LET o == sess[s].req.order IN
  /\ sess[s].view = orders[o]
  /\ row.status \in ORDER_TRANSITIONS[orders[o].status]
  /\ orders' = [orders EXCEPT ![o] = row]
  /\ history' = [history EXCEPT ![o] = [old |-> orders[o].status, new |-> row.status]]

\* The assignments by which the first transaction of a handler moves an order.
MovedRow(s, old, row) ==
  \/ /\ sess[s].req.kind \in {"cancel", "accept", "reject", "update", "pickUp", "transit"}
     /\ row = [old EXCEPT !.status = sess[s].req.goal]
     /\ sess[s].req.kind = "pickUp" => old.accepted # NoPartner
  \/ /\ sess[s].req.kind = "riderReject"
     /\ row = [old EXCEPT !.status = "ready_for_pickup", !.assigned = NoPartner,
                          !.accepted = NoPartner]
  \/ /\ sess[s].req.kind = "deliver"
     /\ row = [old EXCEPT !.status = "delivered", !.earning = "unpaid"]
     /\ old.assigned = sess[s].req.rider

\* The steps that move an order in the first transaction of a handler.
MovesOrder(s) ==
  \/ CancelOrder(s) \/ OwnerAcceptOrder(s) \/ OwnerRejectOrder(s)
  \/ OwnerUpdateStatus(s) \/ RejectDelivery(s) \/ MarkPickedUp(s)
  \/ MarkInTransit(s) \/ MarkDelivered(s)

\* The session's copy is the row, so the row gets what the handler assigns.
LEMMA MoveOfHandler ==
  ASSUME TypeOK, RequestsFit, LockedViewIsFresh, NEW s \in Sessions, MovesOrder(s)
  PROVE  /\ FirstTransaction(s) /\ sess[s].req.order \in Orders
         /\ \E row \in OrderRow :
              Move(s, row) /\ MovedRow(s, orders[sess[s].req.order], row)
<1> DEFINE o == sess[s].req.order
<1>1. FirstTransaction(s)
  BY DEF MovesOrder, FirstTransaction, CancelOrder, OwnerAcceptOrder, OwnerRejectOrder,
         OwnerUpdateStatus, RejectDelivery, MarkPickedUp, MarkInTransit, MarkDelivered, Ready
<1>2. o \in Orders /\ sess[s].req \in Requests
  BY <1>1, RequestAt DEF FirstTransaction, OrderPCs
<1>3. sess[s].view = orders[o]
  BY <1>1 DEF LockedViewIsFresh
<1>4. sess[s].view \in OrderRow /\ orders[o] \in OrderRow
  BY <1>2, Loaded DEF TypeOK
<1>5. ASSUME NEW row \in OrderRow, TransitionState(s, row)
      PROVE  Move(s, row)
  BY <1>2, <1>3, <1>5, FreshWrite DEF TransitionState, Move
<1>6. ASSUME NEW k, Ready(s, k), k \in {"cancel", "accept", "reject", "pickUp", "transit"}
      PROVE  sess[s].req.kind = k /\ sess[s].req.goal = Goal[k]
  BY <1>2, <1>6, RequestShape DEF Ready, RiderKinds
<1>7. ASSUME NEW k, Ready(s, k),
             k \in {"cancel", "accept", "reject", "update", "pickUp", "transit"},
             TransitionState(s, [sess[s].view EXCEPT !.status = sess[s].req.goal])
      PROVE  \E row \in OrderRow : Move(s, row) /\ MovedRow(s, orders[o], row)
  <2> DEFINE row == [sess[s].view EXCEPT !.status = sess[s].req.goal]
  <2>1. row \in OrderRow
    <3>1. sess[s].req.goal \in OrderStatus
      BY Loaded DEF Request
    <3>. QED  BY <1>4, <3>1, RowType DEF OptPartner
  <2>2. sess[s].req.kind = k /\ (k = "pickUp" => orders[o].accepted # NoPartner)
    BY <1>3, <1>7 DEF Ready, Permitted
  <2>3. MovedRow(s, orders[o], row)
    BY <1>3, <1>7, <2>2 DEF MovedRow
  <2>4. TransitionState(s, row)
    BY <1>7
  <2>. HIDE DEF row
  <2>. QED  BY <1>5, <2>1, <2>3, <2>4
<1>. SUFFICES \E row \in OrderRow : Move(s, row) /\ MovedRow(s, orders[o], row)
  BY <1>1, <1>2
<1>8. CASE CancelOrder(s)
  <2>1. Ready(s, "cancel") /\ sess[s].req.goal = "cancelled"
    BY <1>6, <1>8 DEF CancelOrder, Goal
  <2>. QED  BY <1>7, <1>8, <2>1 DEF CancelOrder
<1>9. CASE OwnerAcceptOrder(s)
  <2>1. Ready(s, "accept") /\ sess[s].req.goal = "accepted"
    BY <1>6, <1>9 DEF OwnerAcceptOrder, Goal
  <2>. QED  BY <1>7, <1>9, <2>1 DEF OwnerAcceptOrder
<1>10. CASE OwnerRejectOrder(s)
  <2>1. Ready(s, "reject") /\ sess[s].req.goal = "rejected"
    BY <1>6, <1>10 DEF OwnerRejectOrder, Goal
  <2>. QED  BY <1>7, <1>10, <2>1 DEF OwnerRejectOrder
<1>11. CASE MarkPickedUp(s)
  <2>1. Ready(s, "pickUp") /\ sess[s].req.goal = "picked_up"
    BY <1>6, <1>11 DEF MarkPickedUp, Goal
  <2>. QED  BY <1>7, <1>11, <2>1 DEF MarkPickedUp
<1>12. CASE MarkInTransit(s)
  <2>1. Ready(s, "transit") /\ sess[s].req.goal = "in_transit"
    BY <1>6, <1>12 DEF MarkInTransit, Goal
  <2>. QED  BY <1>7, <1>12, <2>1 DEF MarkInTransit
<1>13. CASE OwnerUpdateStatus(s)
  BY <1>7, <1>13 DEF OwnerUpdateStatus
<1>14. CASE RejectDelivery(s)
  <2> DEFINE row == [sess[s].view EXCEPT !.status = "ready_for_pickup",
                                         !.assigned = NoPartner,
                                         !.accepted = NoPartner]
  <2>1. row \in OrderRow
    BY <1>4, RowType, Statuses DEF OptPartner
  <2>2. TransitionState(s, row) /\ sess[s].req.kind = "riderReject"
    BY <1>14 DEF RejectDelivery, Ready
  <2>3. MovedRow(s, orders[o], row)
    BY <1>3, <2>2 DEF MovedRow
  <2>. HIDE DEF row
  <2>. QED  BY <1>5, <2>1, <2>2, <2>3
<1>15. CASE MarkDelivered(s)
  <2> DEFINE row == [sess[s].view EXCEPT !.status = "delivered", !.earning = "unpaid"]
  <2>1. row \in OrderRow
    BY <1>4, RowType, Statuses DEF OptPartner
  <2>2. TransitionState(s, row) /\ sess[s].req.kind = "deliver"
    BY <1>15 DEF MarkDelivered
  <2>3. orders[o].assigned = sess[s].req.rider
    BY <1>3, <1>15, <2>2 DEF MarkDelivered, RequestsFit, Fit, Permitted, RiderKinds
  <2>4. MovedRow(s, orders[o], row)
    BY <1>3, <2>2, <2>3 DEF MovedRow
  <2>. HIDE DEF row
  <2>. QED  BY <1>5, <2>1, <2>2, <2>4
<1>. QED
  BY <1>8, <1>9, <1>10, <1>11, <1>12, <1>13, <1>14, <1>15 DEF MovesOrder

-----------------------------------------------------------------------------
(* Steps of one session                                                     *)

StepOf(s) == (\E q \in Requests : Receive(s, q)) \/ Work(s) \/ Crash(s)

\* Which action leads to which program counter.
Reaches(s) ==
  /\ sess'[s].pc = "locked" => LockOrder(s)
  /\ sess'[s].pc = "flushed" => FlushDelivery(s) \/ BeginProfileUpdate(s)
  /\ sess'[s].pc = "refresh" => RejectDelivery(s)
  /\ sess'[s].pc = "dispatch" => OwnerUpdateStatus(s) \/ RefreshOrder(s)
  /\ sess'[s].pc = "dispatching" => LockForDispatch(s)
  /\ sess'[s].pc = "picking" => QueryPartners(s) \/ SkipPartner(s)
  /\ sess'[s].pc = "picked" => LockPartner(s)

LEMMA EndsRequest ==
  ASSUME TypeOK, NEW s \in Sessions, Finish(s) \/ Fail(s)
  PROVE  /\ sess'[s].pc \in {"idle", "failed"}
         /\ \A t \in Sessions \ {s} : sess'[t] = sess[t]
<1>1. CASE Finish(s)
  <2>1. sess' = [sess EXCEPT ![s] = Idle] /\ Idle.pc = "idle"
    BY <1>1 DEF Finish, Continue, Idle
  <2>. QED  BY <2>1, OneSession
<1>2. CASE Fail(s)
  <2> DEFINE local == [Idle EXCEPT !.pc = "failed", !.wrote = sess[s].wrote]
  <2>1. sess' = [sess EXCEPT ![s] = local] /\ local.pc = "failed"
    BY <1>2 DEF Fail, Continue, Idle
  <2>. HIDE DEF local
  <2>. QED  BY <2>1, OneSession
<1>. QED
  BY <1>1, <1>2

LEMMA StepOfReaches ==
  ASSUME TypeOK, NEW s \in Sessions, StepOf(s)
  PROVE  Reaches(s) /\ \A t \in Sessions \ {s} : sess'[t] = sess[t]
<1>. USE DEF Reaches
<1>1. sess[s] \in Session /\ s \in DOMAIN sess
  BY Loaded DEF TypeOK
<1>2. CASE \E q \in Requests : Receive(s, q)
  <2>1. PICK q \in Requests : Receive(s, q)
    BY <1>2
  <2>2. sess'[s].pc \in {"profile", "order"} /\ \A t \in Sessions \ {s} : sess'[t] = sess[t]
    BY <1>1, <2>1 DEF Receive, Idle, TypeOK
  <2>. QED  BY <2>2
<1>3. CASE Finish(s) \/ Fail(s)
  BY <1>3, EndsRequest
<1>4. CASE LockOrder(s) \/ LockForDispatch(s) \/ FlushDelivery(s)
  BY <1>1, <1>4 DEF LockOrder, LockForDispatch, FlushDelivery, TypeOK, Session
<1>5. CASE OwnerUpdateStatus(s)
  <2> DEFINE row == [sess[s].view EXCEPT !.status = sess[s].req.goal]
             local == [sess[s] EXCEPT !.pc = "dispatch", !.view = row, !.wrote = TRUE]
  <2>1. Finish(s) \/ sess' = [sess EXCEPT ![s] = local]
    BY <1>5 DEF OwnerUpdateStatus, Continue
  <2>2. local.pc = "dispatch"
    BY <1>1 DEF Session
  <2>. HIDE DEF local
  <2>. QED  BY <1>3, <1>5, <2>1, <2>2, OneSession
<1>6. CASE RejectDelivery(s)
  BY <1>1, <1>6 DEF RejectDelivery, Continue, TypeOK, Session
<1>7. CASE RefreshOrder(s)
  BY <1>1, <1>7 DEF RefreshOrder, TypeOK, Session
<1>8. CASE QueryPartners(s)
  BY <1>1, <1>8 DEF QueryPartners, TypeOK, Session
<1>9. CASE SkipPartner(s)
  <2>1. PICK c : sess' = [sess EXCEPT ![s].cands = @ \ {c}]
    BY <1>9 DEF SkipPartner
  <2>2. sess'[s].pc = "picking"
    BY <1>1, <1>9, <2>1 DEF SkipPartner, TypeOK, Session
  <2>. QED  BY <1>1, <1>9, <2>1, <2>2 DEF TypeOK
<1>10. CASE LockPartner(s)
  <2>1. PICK r : sess' = [sess EXCEPT ![s].pc = "picked", ![s].cands = {}, ![s].pick = r]
    BY <1>10 DEF LockPartner
  <2>. QED  BY <1>1, <1>10, <2>1 DEF TypeOK, Session
<1>11. CASE AssignPartner(s)
  BY <1>1, <1>3, <1>11 DEF AssignPartner, Continue, TypeOK, Session
<1>12. CASE BeginProfileUpdate(s)
  BY <1>1, <1>3, <1>12 DEF BeginProfileUpdate, TypeOK, Session
<1>. QED
  BY <1>2, <1>3, <1>4, <1>5, <1>6, <1>7, <1>8, <1>9, <1>10, <1>11, <1>12
     DEF StepOf, Work, Crash, Refuse, Respond, OrderServiceStep, CancelOrder,
         OwnerAcceptOrder, OwnerRejectOrder, OwnerSecondTransition, RiderStep,
         AcceptDelivery, MarkPickedUp, MarkInTransit, MarkDelivered, DispatchStep,
         SkipDispatch, NoPartnerFound, ProfileStep, CommitProfile, SetOnlineStatus,
         AdminSuspendPartner, AdminVerifyPartner, UpdateLocation

\* Order rows are written by three kinds of step only.
LEMMA StepWrites ==
  ASSUME NEW s \in Sessions, StepOf(s)
  PROVE  \/ UNCHANGED <<orders, history>>
         \/ MovesOrder(s) \/ AcceptDelivery(s) \/ AssignPartner(s)
BY DEF MovesOrder, StepOf, Receive, Crash, Work, LockOrder, Refuse, Respond,
       OrderServiceStep, OwnerSecondTransition, RiderStep, RefreshOrder, FlushDelivery,
       DispatchStep, LockForDispatch, SkipDispatch, QueryPartners, SkipPartner,
       LockPartner, NoPartnerFound, ProfileStep, BeginProfileUpdate, CommitProfile,
       SetOnlineStatus, AdminSuspendPartner, AdminVerifyPartner, UpdateLocation

\* rider_accepted_at is written in a first transaction too.
LEMMA AcceptOfRider ==
  ASSUME TypeOK, RequestsFit, LockedViewIsFresh, NEW s \in Sessions, AcceptDelivery(s)
  PROVE  /\ FirstTransaction(s) /\ sess[s].req.order \in Orders
         /\ orders[sess[s].req.order].assigned = sess[s].req.rider
         /\ sess[s].req.rider \in Partners
         /\ orders' = [orders EXCEPT ![sess[s].req.order] =
                         [orders[sess[s].req.order] EXCEPT !.accepted = sess[s].req.rider]]
<1> DEFINE row == [sess[s].view EXCEPT !.accepted = sess[s].req.rider]
<1>1. /\ sess[s].pc = "locked" /\ sess[s].req.kind = "riderAccept"
      /\ Permitted(sess[s].req, sess[s].view) /\ WriteOrder(s, row)
  BY DEF AcceptDelivery, Ready
<1>2. /\ FirstTransaction(s) /\ sess[s].req.order \in Orders
      /\ sess[s].req.rider \in Partners
  BY <1>1, RequestAt, RequestShape DEF FirstTransaction, OrderPCs, RiderKinds
<1>3. sess[s].view = orders[sess[s].req.order] /\ sess[s].view \in OrderRow
  BY <1>2, Loaded DEF LockedViewIsFresh
<1>4. row \in OrderRow
  BY <1>2, <1>3, RowType, Statuses DEF OptPartner
<1>5. orders' = [orders EXCEPT ![sess[s].req.order] = row]
  <2>. HIDE DEF row
  <2>. QED  BY <1>1, <1>2, <1>3, <1>4, FreshWrite
<1>. QED
  BY <1>1, <1>2, <1>3, <1>5 DEF Permitted, RiderKinds

\* A session writes only the order it holds, and only ends its first
\* transaction by it.
LEMMA WritesOwnOrder ==
  ASSUME TypeOK, RequestsFit, LockedViewIsFresh, NEW s \in Sessions, StepOf(s),
         NEW o \in Orders, orders'[o] # orders[o]
  PROVE  /\ HoldsOrder(s) /\ sess[s].req.order = o /\ o \in Orders
         /\ MovesOrder(s) \/ AcceptDelivery(s) \/ AssignPartner(s)
<1>1. CASE MovesOrder(s)
  BY <1>1, MoveOfHandler DEF Move, TypeOK, FirstTransaction, HoldsOrder
<1>2. CASE AcceptDelivery(s)
  BY <1>2, AcceptOfRider DEF TypeOK, FirstTransaction, HoldsOrder
<1>3. CASE AssignPartner(s)
  BY <1>3 DEF AssignPartner, TransitionState, WriteOrder, TypeOK, HoldsOrder
<1>. QED
  BY <1>1, <1>2, <1>3, StepWrites

LEMMA NextFresh ==
  ASSUME TypeOK, RequestsFit, LocksAreOwned, LockedViewIsFresh, [Next]_vars
  PROVE  LockedViewIsFresh'
<1>1. CASE UNCHANGED vars
  BY <1>1 DEF vars, LockedViewIsFresh, FirstTransaction
<1>2. ASSUME NEW s \in Sessions, StepOf(s)
      PROVE  LockedViewIsFresh'
  <2>1. Reaches(s) /\ \A t \in Sessions \ {s} : sess'[t] = sess[t]
    BY <1>2, StepOfReaches
  <2>2. SUFFICES ASSUME NEW t \in Sessions, FirstTransaction(t)'
                 PROVE  sess'[t].view = orders'[sess'[t].req.order]
    BY DEF LockedViewIsFresh
  <2>3. CASE t = s
    <3>1. LockOrder(s) \/ FlushDelivery(s) \/ BeginProfileUpdate(s)
      BY <2>1, <2>2, <2>3 DEF Reaches, FirstTransaction
    <3>2. CASE LockOrder(s)
      BY <2>3, <3>2, Loaded DEF LockOrder, TypeOK, Session
    <3>3. CASE FlushDelivery(s)
      BY <2>3, <3>3, Loaded DEF FlushDelivery, Ready, TypeOK, Session, LockedViewIsFresh,
                                FirstTransaction
    <3>4. CASE BeginProfileUpdate(s)
      <4>1. sess[s].req.kind \in ProfileKinds
        BY <3>4 DEF BeginProfileUpdate, RequestsFit, Fit
      <4>2. CASE Finish(s)
        BY <2>2, <2>3, <4>2, EndsRequest DEF FirstTransaction
      <4>3. CASE sess' = [sess EXCEPT ![s].pc = "flushed"]
        <5>1. sess'[s].pc = "flushed" /\ sess'[s].req = sess[s].req
          BY <4>3, Loaded DEF TypeOK, Session
        <5>. QED  BY <2>2, <2>3, <4>1, <5>1 DEF FirstTransaction, ProfileKinds
      <4>. QED  BY <3>4, <4>2, <4>3 DEF BeginProfileUpdate
    <3>. QED  BY <3>1, <3>2, <3>3, <3>4
  <2>4. CASE t # s
    <3>1. FirstTransaction(t) /\ sess'[t] = sess[t]
      BY <2>1, <2>2, <2>4 DEF FirstTransaction
    <3>2. sess[t].req.order \in Orders /\ sess[t].view = orders[sess[t].req.order]
      BY <3>1, RequestAt DEF FirstTransaction, OrderPCs, LockedViewIsFresh
    <3>3. orders'[sess[t].req.order] = orders[sess[t].req.order]
      BY <1>2, <2>4, <3>1, <3>2, WritesOwnOrder, OneHolder DEF FirstTransaction, HoldsOrder
    <3>. QED  BY <3>1, <3>2, <3>3
  <2>. QED  BY <2>3, <2>4
<1>. QED
  BY <1>1, <1>2 DEF Next, StepOf

LEMMA InitFresh == Init => LockedViewIsFresh
BY DEF Init, LockedViewIsFresh, FirstTransaction, Idle

\* What a handler checks in its first transaction is what the row says, whatever
\* the other requests do.
THEOREM FirstTransactionsAreFresh == Spec => []LockedViewIsFresh
<1>1. /\ TypeOK /\ RequestsFit /\ LocksAreOwned
      /\ LockedViewIsFresh /\ [Next]_vars
      => LockedViewIsFresh'
  BY NextFresh
<1>. QED
  BY <1>1, InitFresh, TypeCorrect, LocksCorrect, PTL DEF Spec
=============================================================================

---------------------- MODULE OrderDispatchProperties ----------------------
(***************************************************************************)
(* What OrderDispatch is expected to guarantee, the abstract specification *)
(* it implements, and the statements of the documentation that it does not *)
(* live up to.                                                             *)
(***************************************************************************)
EXTENDS OrderDispatch

-----------------------------------------------------------------------------
(* The inductive invariant                                                  *)

\* Session s is inside a transaction that locked its order.
HoldsOrder(s) ==
  \/ sess[s].pc \in {"locked", "dispatching", "picking", "picked"}
  \/ sess[s].pc = "flushed" /\ sess[s].req.kind = "deliver"

\* Session s is inside a transaction that locked rider r.
HoldsProfile(s, r) ==
  \/ sess[s].pc = "picked" /\ sess[s].pick = r
  \/ sess[s].pc = "flushed" /\ sess[s].req.rider = r

OrderPCs    == {"order", "locked", "refresh", "dispatch", "dispatching",
                "picking", "picked", "assigned"}
DispatchPCs == {"refresh", "dispatch", "dispatching", "picking", "picked",
                "assigned"}

\* Every program counter belongs to a request that can be there, and the search
\* for a rider runs only for an order the session believes to be waiting.
Fit(me) ==
  /\ me.pc \notin {"idle", "failed"} => me.req \in Requests
  /\ me.pc \in OrderPCs => me.req.kind \notin ProfileKinds
  /\ me.pc = "profile" => me.req.kind \in ProfileKinds
  /\ me.pc = "flushed" => me.req.kind \in ProfileKinds \cup {"deliver"}
  /\ me.pc = "flushed" /\ me.req.kind = "deliver" => Permitted(me.req, me.view)
  /\ me.pc \in DispatchPCs => me.req.kind \in {"update", "riderReject"}
  /\ me.pc \in {"picking", "picked"} => Dispatchable(me.view)
  /\ me.pc = "picked" <=> me.pick # NoPartner
  /\ \A c \in me.cands : c.rider # me.req.rider

RequestsFit == \A s \in Sessions : Fit(sess[s])

\* The lock tables agree with the program counters, as PostgreSQL sees to.  A
\* part of the inductive invariant, not a statement about the handlers.
LocksAreOwned ==
  /\ \A o \in Orders, s \in Sessions :
       orderLock[o] = s <=> HoldsOrder(s) /\ sess[s].req.order = o
  /\ \A r \in Partners, s \in Sessions :
       profileLock[r] = s <=> HoldsProfile(s, r)

\* In the transaction that loads the order (get_by_id_for_update on an empty
\* identity map) the object in memory equals the row until the commit.
FirstTransaction(s) ==
  \/ sess[s].pc = "locked"
  \/ sess[s].pc = "flushed" /\ sess[s].req.kind = "deliver"

LockedViewIsFresh ==
  \A s \in Sessions :
    FirstTransaction(s) => sess[s].view = orders[sess[s].req.order]

\* Session s is going to dispatch order o: between the commit that made the
\* order ready and the end of auto_assign_order.
Dispatching(s, o) ==
  /\ sess[s].req.order = o
  /\ \/ sess[s].pc = "refresh"
     \/ /\ sess[s].pc \in {"dispatch", "dispatching", "picking", "picked"}
        /\ Dispatchable(sess[s].view)

\* auto_assign_order decides on the object it kept across a commit, which the
\* second FOR UPDATE does not refresh.  That is harmless only because at any
\* time at most one request is about to dispatch an order, and until it is done
\* nobody else touches the row.
DispatchIsExclusive ==
  \A o \in Orders, s \in Sessions :
    Dispatching(s, o) =>
      /\ Dispatchable(orders[o])
      /\ sess[s].pc # "refresh" => sess[s].view = orders[o]
      /\ \A t \in Sessions : Dispatching(t, o) => t = s

-----------------------------------------------------------------------------
(* Safety                                                                   *)

\* The rider who set rider_accepted_at is the one the order is assigned to,
\* and nobody carries an order that its rider has not accepted: a rejection
\* by one rider never leaves its acceptance behind for the next.
AcceptedByAssignee ==
  \A o \in Orders :
    /\ orders[o].accepted \in {NoPartner, orders[o].assigned}
    /\ orders[o].status \in {"picked_up", "in_transit", "delivered"} =>
         orders[o].accepted # NoPartner

\* An order a rider should be handling names the rider, and the rider's fee is
\* owed exactly for delivered orders and promised for orders under way.
EarningsFollowOrder ==
  \A o \in Orders :
    /\ orders[o].status \in ActiveStatuses \cup {"delivered"} =>
         orders[o].assigned # NoPartner /\ orders[o].earning # "none"
    /\ orders[o].earning = "unpaid" <=> orders[o].status = "delivered"

\* Orders a rider has delivered.
Delivered(r) ==
  {o \in Orders : orders[o].assigned = r /\ orders[o].status = "delivered"}

\* mark_delivered writes a total computed from an unlocked read.  Updates can
\* be lost that way, but the total never exceeds the deliveries made.
DeliveriesNeverOvercounted ==
  \A r \in Partners : profiles[r].deliveries <= Cardinality(Delivered(r))

-----------------------------------------------------------------------------
(* Action properties                                                        *)

\* The status history is a chain: whenever an order's status changes, the row
\* written with it goes from the status the order really had to the one it
\* gets, and no row is written otherwise.
HistoryIsChained ==
  [][\A o \in Orders :
       /\ orders'[o].status # orders[o].status =>
            history'[o] = [old |-> orders[o].status, new |-> orders'[o].status]
       /\ history'[o] # history[o] => orders'[o].status # orders[o].status]_vars

\* Each status change is a move that ORDER_TRANSITIONS allows from the committed
\* status, although the check looks at the object in memory.
StatusMovesAllowed ==
  [][\A o \in Orders :
       orders'[o].status # orders[o].status =>
         orders'[o].status \in ORDER_TRANSITIONS[orders[o].status]]_vars

\* An order is only ever given to a rider who at that moment is online and not
\* suspended: the rider's row lock keeps a suspension from slipping in between
\* the search and the assignment.
AssigneeOnDuty ==
  [][\A o \in Orders :
       orders'[o].assigned \notin {NoPartner, orders[o].assigned} =>
         OnDuty(orders'[o].assigned)]_vars

\* A rider who turned an order down is not handed the same order back by the
\* dispatch that follows: the exclusion survives the commit, the refresh and the
\* search in between.
RejectionIsRespected ==
  [][\A o \in Orders, s \in Sessions :
       /\ orderLock[o] = s /\ sess[s].req.kind = "riderReject"
       /\ orders'[o].assigned # orders[o].assigned
       => orders'[o].assigned # sess[s].req.rider]_vars

\* A suspension ends only by an administrator lifting it: no concurrent toggle,
\* location update or delivery writes back a profile it loaded before.
SuspensionSticks ==
  [][\A r \in Partners :
       profiles[r].suspended /\ ~profiles'[r].suspended =>
         \E s \in Sessions :
           /\ sess[s].req.kind = "suspend" /\ ~sess[s].req.flag
           /\ sess[s].req.rider = r]_vars

\* Every committed step is a step of the abstract order life cycle.
Lifecycle == INSTANCE OrderLifecycle WITH
  status <- [o \in Orders |-> orders[o].status],
  rider  <- [o \in Orders |-> orders[o].assigned]

LifecycleSpec == Lifecycle!Spec

-----------------------------------------------------------------------------
(* Liveness                                                                 *)

\* Every request that the server received is answered: the waits of desk, rider
\* and profile handlers for orders and profiles never form a cycle, and a
\* dispatch that finds nobody gives up instead of searching on with the order
\* locked.
EveryRequestEnds ==
  \A s \in Sessions : sess[s].pc # "idle" ~> sess[s].pc = "idle"

-----------------------------------------------------------------------------
(* Statements of the documentation, the comments and the tests              *)

\* A rider has at most one active order (docs/PROJECT_CONTEXT.md: "strict
\* 1-active-order capacity model").
CapacityOne == \A r \in Partners : Cardinality(ActiveOrders(r)) <= 1

\* A request that fails has changed nothing (get_session: "rolls back on
\* error").
FailureLeavesNoTrace ==
  \A s \in Sessions : sess[s].pc = "failed" => ~sess[s].wrote
=============================================================================

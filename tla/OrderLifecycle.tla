--------------------------- MODULE OrderLifecycle ---------------------------
(***************************************************************************)
(* What order handling promises, with no sessions, locks or stale copies:  *)
(* every order moves along ORDER_TRANSITIONS one step at a time, a rider is*)
(* given only to an order that is ready and has none, and is only taken    *)
(* away by sending the order back to ready.                                *)
(***************************************************************************)
EXTENDS OrderStatuses

CONSTANTS Orders, Partners, NoPartner, InitStatus

VARIABLES status, rider

vars == <<status, rider>>

Init ==
  /\ status = [o \in Orders |-> InitStatus]
  /\ rider = [o \in Orders |-> NoPartner]

\* Any allowed move except the one that assigns a rider.
Advance(o, new) ==
  /\ new \in ORDER_TRANSITIONS[status[o]] \ {"rider_assigned"}
  /\ status' = [status EXCEPT ![o] = new]
  /\ UNCHANGED rider

Assign(o, r) ==
  /\ status[o] = "ready_for_pickup"
  /\ rider[o] = NoPartner
  /\ status' = [status EXCEPT ![o] = "rider_assigned"]
  /\ rider' = [rider EXCEPT ![o] = r]

\* The assigned rider turns the order down.
Release(o) ==
  /\ status[o] = "rider_assigned"
  /\ status' = [status EXCEPT ![o] = "ready_for_pickup"]
  /\ rider' = [rider EXCEPT ![o] = NoPartner]

Next ==
  \E o \in Orders :
    \/ \E new \in OrderStatus : Advance(o, new)
    \/ \E r \in Partners : Assign(o, r)
    \/ Release(o)

Spec == Init /\ [][Next]_vars
=============================================================================

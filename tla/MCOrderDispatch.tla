--------------------------- MODULE MCOrderDispatch ---------------------------
(* Instances of OrderDispatch for TLC. *)
EXTENDS OrderDispatchProperties, TLC

OrderKinds    == DeskKinds \cup RiderKinds
DeliveryKinds == {"update"} \cup RiderKinds
ProgressKinds == OrderKinds \cup (ProfileKinds \ {"verify"})
FleetKinds    == (DeliveryKinds \ {"riderReject"}) \cup ProfileKinds

\* Sessions, orders and riders are interchangeable.
Symmetric ==
  Permutations(Orders) \cup Permutations(Partners) \cup Permutations(Sessions)
=============================================================================

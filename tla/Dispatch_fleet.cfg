SPECIFICATION Spec
CONSTANTS
  Orders = {o1, o2}
  Partners = {r1}
  Sessions = {s1, s2}
  Kinds <- FleetKinds
  OwnerTargets <- UITargets
  InitStatus = "preparing"
  InitVerified = TRUE
  Crashes = FALSE
  NoPartner = NoPartner
  NoSession = NoSession
  NoOrder = NoOrder
SYMMETRY Symmetric
INVARIANTS DeliveriesNeverOvercounted
PROPERTIES AssigneeOnDuty SuspensionSticks

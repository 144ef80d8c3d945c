SPECIFICATION Spec
CONSTANTS
  Orders = {o1}
  Partners = {r1, r2}
  Sessions = {s1, s2, s3}
  Kinds <- OrderKinds
  OwnerTargets <- UITargets
  InitStatus = "placed"
  InitVerified = TRUE
  Crashes = TRUE
  NoPartner = NoPartner
  NoSession = NoSession
  NoOrder = NoOrder
SYMMETRY Symmetric
INVARIANTS TypeOK DispatchIsExclusive AcceptedByAssignee EarningsFollowOrder
PROPERTIES HistoryIsChained RejectionIsRespected LifecycleSpec

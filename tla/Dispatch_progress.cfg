SPECIFICATION FairSpec
CONSTANTS
  Orders = {o1}
  Partners = {r1}
  Sessions = {s1, s2}
  Kinds <- ProgressKinds
  OwnerTargets <- UITargets
  InitStatus = "placed"
  InitVerified = TRUE
  Crashes = FALSE
  NoPartner = NoPartner
  NoSession = NoSession
  NoOrder = NoOrder
PROPERTIES EveryRequestEnds

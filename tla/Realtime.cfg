SPECIFICATION FairSpec
CONSTANTS
  Tabs = {tab}
  Pages = {"list", "owner"}
  Connections = {k1, k2}
  MaxChanges = 2
  MaxAttempts = 1
  SecondAccept = {"raises", "passes"}
  None = None
INVARIANTS TypeOK RegistryAgrees
PROPERTIES SubscriberCatchesUp DeadAreRemoved
CHECK_DEADLOCK FALSE

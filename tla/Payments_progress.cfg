SPECIFICATION FairSpec
CONSTANTS
  Orders = {o1}
  Intents = {p1}
  Sessions = {s1, s2}
  Price = 2
  MaxRepaid = 2
  Crashes = FALSE
  DeskTargets <- SomeTargets
  Named <- SomeNamed
  NoOrder = NoOrder
  NoIntent = NoIntent
PROPERTIES EveryRequestEnds EventsAreTakenIn

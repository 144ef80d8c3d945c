SPECIFICATION Spec
CONSTANTS
  Orders = {o1}
  Intents = {p1, p2}
  Sessions = {s1, s2}
  Price = 2
  MaxRepaid = 2
  Crashes = TRUE
  DeskTargets <- SomeTargets
  Named <- SomeNamed
  NoOrder = NoOrder
  NoIntent = NoIntent
SYMMETRY Symmetric
INVARIANTS TypeOK PlacedWasPaid StatusIsEarned RefundsWereSent
PROPERTIES EventTakesEffectOnce OnlyOvertakenSkip

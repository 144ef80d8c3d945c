SPECIFICATION Spec
CONSTANTS
  Tokens = {t1, t2, t3}
  Resets = {r1}
  Passwords = {p1, p2}
  Sessions = {s1, s2}
  NoToken = NoToken
  NoReset = NoReset
  NoPassword = NoPassword
INVARIANTS TypeOK RotationsOverlap
PROPERTIES EndedForGood ReplacedByItsOwner IssuedInGoodStanding
SYMMETRY Symmetric
CHECK_DEADLOCK FALSE

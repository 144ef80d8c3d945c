SPECIFICATION Spec
CONSTANTS
  Orders = {o1, o2}
  Delivered = {o1, o2}
  Ratings = {4, 5}
  Sessions = {s1, s2}
  NoReview = NoReview
  NoTally = NoTally
  Keep = Keep
INVARIANTS TypeOK OnlyCreatesDeadlock
PROPERTIES RatingFollowsReviews EditsAreMarked
SYMMETRY Symmetric

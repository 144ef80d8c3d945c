-------------------------- MODULE MCReviewRatings --------------------------
(* Instances of ReviewRatings for TLC. *)
EXTENDS ReviewRatingsProperties, TLC

\* Sessions are interchangeable, and so are orders.
Symmetric == Permutations(Sessions) \cup Permutations(Orders)
=============================================================================

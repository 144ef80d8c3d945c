--------------------------- MODULE MCOrderPayments ---------------------------
(* Instances of OrderPayments for TLC. *)
EXTENDS OrderPaymentsProperties, TLC

\* What the payment handlers tell apart: an order placed, perhaps unpaid, whose
\* refund fails; one turned down, which becomes refunded; one given up, which
\* stays as it is.
SomeTargets == {"placed", "rejected", "cancelled"}

\* Failures carry an id, captures do not and take effect whenever they come.
SomeNamed == {e \in Event : e.result = "failed"}

\* Sessions, orders and intents are interchangeable.
Symmetric ==
  Permutations(Orders) \cup Permutations(Intents) \cup Permutations(Sessions)
=============================================================================

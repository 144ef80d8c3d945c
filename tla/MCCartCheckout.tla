--------------------------- MODULE MCCartCheckout ---------------------------
(* Instances of CartCheckout for TLC. *)
EXTENDS CartCheckoutProperties, TLC

CONSTANTS dosa, pizza, udupi, napoli

\* Two menu items of two restaurants.
TwoRestaurants == (dosa :> udupi) @@ (pizza :> napoli)

\* Sessions are interchangeable; row ids are not, rows are deleted in their order.
Symmetric == Permutations(Sessions)
=============================================================================

---------------------------- MODULE MCStorefront ----------------------------
(* Instances of Storefront for TLC. *)
EXTENDS StorefrontProperties, TLC

Symmetric == Permutations(Sessions) \cup Permutations(Categories)
=============================================================================

----------------------------- MODULE MCAccounts -----------------------------
(* Instances of Accounts for TLC. *)
EXTENDS AccountsProperties, TLC

Symmetric == Permutations(Sessions) \cup Permutations(Tokens)
               \cup Permutations(Passwords)
=============================================================================

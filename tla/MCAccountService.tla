------------------------- MODULE MCAccountService --------------------------
(* Instances of AccountService for TLC. *)
EXTENDS AccountService, TLC

\* No call is special, and no address (safety runs only).
AccountSymmetry == Permutations(Call) \cup Permutations(Email)
=============================================================================

----------------------------- MODULE MCSession -----------------------------
(* Instances of Session for TLC. *)
EXTENDS Session, TLC

SessionSymmetry == Permutations(Login) \cup Permutations(Http) \cup Permutations(Secret)
=============================================================================

---------------------------- MODULE MCOnboarding ----------------------------
(* Instances of Onboarding for TLC. *)
EXTENDS Onboarding

\* Calls of userActive are alike: the third brings a made-up code or, as the others,
\* a mailed one, which is as wrong as that once its account is deleted.
CodesInOrder == {code[1], code[2]} \subseteq Signup

MCInit == Init /\ CodesInOrder
MCSpec == MCInit /\ [][Next]_vars /\ QueueFairness
=============================================================================

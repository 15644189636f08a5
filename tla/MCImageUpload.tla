--------------------------- MODULE MCImageUpload ---------------------------
(* Instances of ImageUpload for TLC. *)
EXTENDS ImageUpload, TLC

ImageSymmetry == Permutations(Call) \cup Permutations(Name)
=============================================================================

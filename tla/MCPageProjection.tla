-------------------------- MODULE MCPageProjection --------------------------
(* Instances of PageProjection for TLC. *)
EXTENDS PageProjection, TLC

MCSymmetry == Permutations(Workers)
=============================================================================

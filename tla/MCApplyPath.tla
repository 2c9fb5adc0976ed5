---------------------------- MODULE MCApplyPath ------------------------------
(* ApplyPath with two callers of any two kinds and two jobs. *)
EXTENDS ApplyPath, TLC

Symmetric == Permutations(Callers) \cup Permutations(Jobs)
=============================================================================

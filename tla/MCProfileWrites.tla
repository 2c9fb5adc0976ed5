--------------------------- MODULE MCProfileWrites ---------------------------
(* ProfileWrites with two calls, two rows that were there before, one id    *)
(* to give to a new one, two values and one change by the owner.            *)
EXTENDS ProfileWrites, TLC

CONSTANTS c1, c2, r1, r2, r3, a, b

Symmetry ==
  Permutations(Calls) \cup Permutations(Values)
    \cup Permutations(OldRows) \cup Permutations(Rows \ OldRows)
=============================================================================

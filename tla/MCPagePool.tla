----------------------------- MODULE MCPagePool -----------------------------
(* Model checking of PagePool: clients and tabs are interchangeable. *)
EXTENDS PagePool, TLC

Symmetry == Permutations(Clients) \cup Permutations(Pages)
=============================================================================

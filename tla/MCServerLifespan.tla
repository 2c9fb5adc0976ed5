-------------------------- MODULE MCServerLifespan --------------------------
(* Model checking of ServerLifespan. *)
EXTENDS ServerLifespan
=============================================================================

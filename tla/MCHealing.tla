----------------------------- MODULE MCHealing -----------------------------
(* Healing with an endpoint of each tier, three commits, three faults and   *)
(* three changes of the responses.                                         *)
EXTENDS Healing

CONSTANTS search, taxonomy
=============================================================================

--------------------------- MODULE MCProfileLock ----------------------------
(* Model checking of ProfileLock. *)
EXTENDS ProfileLock
=============================================================================

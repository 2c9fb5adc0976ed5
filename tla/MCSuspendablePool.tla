------------------------- MODULE MCSuspendablePool --------------------------
(* SuspendablePool with two workers and a monitor on one tab. *)
EXTENDS SuspendablePool
=============================================================================

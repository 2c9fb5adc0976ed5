----------------------------- MODULE MCWatchdog -----------------------------
(* Model checking of Watchdog. *)
EXTENDS Watchdog
=============================================================================

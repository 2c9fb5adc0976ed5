----------------------------- MODULE MCScheduler -----------------------------
(* Scheduler with a task of each kind, over two days of four hours: the daily *)
(* brief, a plain task that shares its loop, and one that catches up.         *)
EXTENDS Scheduler, TLC

CONSTANTS brief, weekly, sync

MCInterval == (brief :> 4) @@ (weekly :> 4) @@ (sync :> 3)
=============================================================================

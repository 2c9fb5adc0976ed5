---------------------------- MODULE ProfileLock -----------------------------
(***************************************************************************)
(* The pidfile beside the Chrome profile, naukri_server/profile_lock.py:   *)
(* acquire() and release() of several server processes that share one      *)
(* profile directory.                                                      *)
(*                                                                         *)
(* A process is its PID; a step is one call on the file system.  The lock  *)
(* file and its temporary ".lock.tmp", whose name all processes share,     *)
(* hold a PID each.  A process that dies leaves both as they are, and its  *)
(* Chrome goes with it.                                                    *)
(*                                                                         *)
(* Abstractions.  A read and the _pid_is_alive() that follows are one      *)
(* step, and so is write_text(); a PID is not given to another program.    *)
(***************************************************************************)
EXTENDS FiniteSets

CONSTANTS
  Processes,      \* PIDs of server processes
  Absent, Garbage \* contents of a file besides a PID

ASSUME ContentsAssumption == {Absent, Garbage} \cap Processes = {}

VARIABLES
  file,           \* contents of the lock file
  tmp,            \* contents of the temporary file
  alive,          \* processes that run
  pc,             \* where each process is in acquire() and release()
  staggered       \* environment: no two processes are ever inside acquire()

lockVars == <<file, tmp, alive, pc, staggered>>

Acquiring == {"reading", "writing", "replacing"}

LockTypeOK ==
  /\ file \in Processes \cup {Absent, Garbage}
  /\ tmp \in Processes \cup {Absent}
  /\ alive \in SUBSET Processes
  /\ pc \in [Processes -> Acquiring \cup {"idle", "holding", "unlinking"}]
  /\ staggered \in BOOLEAN

\* A lock file nobody can read may be there from the beginning.
LockInit ==
  /\ file \in {Absent, Garbage}
  /\ tmp = Absent
  /\ alive = Processes
  /\ pc = [p \in Processes |-> "idle"]
  /\ staggered \in BOOLEAN

Move(p, from, to) == pc[p] = from /\ pc' = [pc EXCEPT ![p] = to]

-----------------------------------------------------------------------------
(* acquire() *)

\* NaukriBrowser.start() is called.
Start(p) ==
  /\ p \in alive
  /\ staggered => \A q \in Processes : pc[q] \notin Acquiring
  /\ Move(p, "idle", "reading")
  /\ UNCHANGED <<file, tmp, alive, staggered>>

\* Mutant of IsReclaimable: _pid_is_alive() says yes to every PID.
IsReclaimable_TrustsCorpses(p) == file \notin Processes \ {p}

\* Mutant of IsReclaimable: the lock is not inspected.
IsReclaimable_Always(p) == TRUE

\* The lock file names no process, this process, or a dead one.
IsReclaimable(p) == file \notin alive \ {p}

ReadLock(p) ==
  /\ \/ IsReclaimable(p) /\ Move(p, "reading", "writing")
     \/ ~IsReclaimable(p) /\ Move(p, "reading", "idle")
  /\ UNCHANGED <<file, tmp, alive, staggered>>

WriteTmp(p) ==
  /\ Move(p, "writing", "replacing")
  /\ tmp' = p
  /\ UNCHANGED <<file, alive, staggered>>

\* tmp.replace(_LOCK_FILE) publishes whatever the temporary file holds, and
\* raises when somebody else has moved it away.
ReplaceLock(p) ==
  /\ \/ /\ tmp # Absent
        /\ file' = tmp /\ tmp' = Absent
        /\ Move(p, "replacing", "holding")
     \/ /\ tmp = Absent
        /\ Move(p, "replacing", "idle")
        /\ UNCHANGED <<file, tmp>>
  /\ UNCHANGED <<alive, staggered>>

-----------------------------------------------------------------------------
(* release() *)

\* Mutant of ReleaseReads: a lock of one's own is left in place.
ReleaseReads_KeepsLock(p) ==
  /\ Move(p, "holding", "idle")
  /\ UNCHANGED <<file, tmp, alive, staggered>>

\* The lock is ours, or release() leaves it alone.
ReleaseReads(p) ==
  /\ \/ file = p /\ Move(p, "holding", "unlinking")
     \/ file # p /\ Move(p, "holding", "idle")
  /\ UNCHANGED <<file, tmp, alive, staggered>>

Unlink(p) ==
  /\ Move(p, "unlinking", "idle")
  /\ file' = Absent
  /\ UNCHANGED <<tmp, alive, staggered>>

-----------------------------------------------------------------------------
\* The process dies at any step.
Crash(p) ==
  /\ p \in alive
  /\ alive' = alive \ {p}
  /\ pc' = [pc EXCEPT ![p] = "idle"]
  /\ UNCHANGED <<file, tmp, staggered>>

\* A new server process, under a PID that no file names.
Reboot(p) ==
  /\ p \notin alive
  /\ p \notin {file, tmp}
  /\ alive' = alive \cup {p}
  /\ UNCHANGED <<file, tmp, pc, staggered>>

Step(p) == \/ Start(p) \/ ReadLock(p) \/ WriteTmp(p) \/ ReplaceLock(p)
           \/ ReleaseReads(p) \/ Unlink(p)

LockNext == \E p \in Processes : Step(p) \/ Crash(p) \/ Reboot(p)

LockSpec == LockInit /\ [][LockNext]_lockVars

\* Every process keeps starting and stopping its browser.
LockLiveSpec == LockSpec /\ \A p \in Processes : WF_lockVars(Step(p))

-----------------------------------------------------------------------------
(* Properties *)

Users == {p \in Processes : pc[p] = "holding"}

\* No two processes run Chrome on the profile, across crashes and stale locks:
\* what profile_lock.py is for.  It takes starts that are staggered, as nothing
\* joins the read of the lock to its writing.
OneUser == staggered => \A p, q \in Users : p = q

\* The lock file names the process that uses the profile, and no idle live one:
\* others would be refused on its behalf.  Staggered starts again: the temporary
\* file has one name for all.
LockNamesItsUser ==
  staggered => /\ \A p \in Users : file = p
               /\ \A p \in alive : file = p => pc[p] # "idle"

\* A process left alone gets the profile again and again, whatever the others
\* left behind when they died: "never deadlock on a corpse".
NeverDeadlocksOnCorpse ==
  \A p \in Processes : <>[](alive = {p}) => []<>(pc[p] = "holding")
=============================================================================

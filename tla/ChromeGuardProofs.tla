------------------------- MODULE ChromeGuardProofs --------------------------
(***************************************************************************)
(* What guards the one Chrome of a profile: profile_lock.py between server *)
(* processes and the watchdog inside one.                                  *)
(*                                                                         *)
(* The lock, for any number of processes, when no two of them are inside   *)
(* acquire() together: one user of the profile, named by the lock file,    *)
(* across crashes at any step.  OneUser alone is not inductive: it has to  *)
(* be known that a user is the one the lock file names, and that nobody    *)
(* else lives whom the file could name while a process is between reading  *)
(* the lock and publishing its own PID.                                    *)
(*                                                                         *)
(* The watchdog, for any number of health probes and any budget: how far   *)
(* concurrent callers of _handle_failure() can overdraw the restart        *)
(* budget.  The bound on restart_count is not inductive: a restart under   *)
(* way will be charged when it ends, whatever the count is by then.  The   *)
(* invariant therefore counts the restarts under way as if they were       *)
(* charged.                                                                *)
(***************************************************************************)
EXTENDS ProfileLock, Watchdog, FiniteSetTheorems, TLAPS

-----------------------------------------------------------------------------
(* ProfileLock *)

\* Processes that own the lock file, in release() too.
Owning == {"holding", "unlinking"}

\* No two processes acquire together.
OneAcquirer ==
  \A p, q \in Processes : pc[p] \in Acquiring /\ pc[q] \in Acquiring => p = q

\* Only live processes are inside acquire() or own the lock file.
OnlyLiveAct == \A p \in Processes : pc[p] # "idle" => p \in alive

\* The lock file names its owner, and a live process that it names owns it.
FileNamesOwner ==
  /\ \A p \in Processes : pc[p] \in Owning => file = p
  /\ \A p \in alive : file = p => pc[p] \in Owning

\* Past the inspection of the lock, no other live process is named by it.
FileIsStale ==
  \A p \in Processes :
    pc[p] \in {"writing", "replacing"} => file \notin alive \ {p}

\* The temporary file holds the PID that was just written to it.
TmpIsOwn == \A p \in Processes : pc[p] = "replacing" => tmp = p

LockInv ==
  /\ LockTypeOK
  /\ OnlyLiveAct
  /\ staggered => OneAcquirer /\ FileNamesOwner /\ FileIsStale /\ TmpIsOwn

-----------------------------------------------------------------------------
\* The lock starts free, with nobody acquiring it.
LEMMA InitLock == LockInit => LockInv
<1> SUFFICES ASSUME LockInit PROVE LockInv
  OBVIOUS
<1>1. LockTypeOK
  BY DEF LockInit, LockTypeOK
<1>2. OnlyLiveAct /\ OneAcquirer /\ FileIsStale /\ TmpIsOwn
  BY DEF LockInit, OnlyLiveAct, OneAcquirer, FileIsStale, TmpIsOwn, Acquiring
<1>3. FileNamesOwner
  BY ContentsAssumption DEF LockInit, FileNamesOwner, Owning
<1> QED
  BY <1>1, <1>2, <1>3 DEF LockInv

\* Every step keeps the types.
LEMMA LockTypeStep == LockTypeOK /\ [LockNext]_lockVars => LockTypeOK'
<1> SUFFICES ASSUME LockTypeOK, [LockNext]_lockVars PROVE LockTypeOK'
  OBVIOUS
<1> USE DEF LockTypeOK, Move, Acquiring
<1>1. ASSUME NEW p \in Processes, Start(p) PROVE LockTypeOK'
  BY <1>1 DEF Start
<1>2. ASSUME NEW p \in Processes, ReadLock(p) PROVE LockTypeOK'
  BY <1>2 DEF ReadLock
<1>3. ASSUME NEW p \in Processes, WriteTmp(p) PROVE LockTypeOK'
  BY <1>3 DEF WriteTmp
<1>4. ASSUME NEW p \in Processes, ReplaceLock(p) PROVE LockTypeOK'
  BY <1>4 DEF ReplaceLock
<1>5. ASSUME NEW p \in Processes, ReleaseReads(p) PROVE LockTypeOK'
  BY <1>5 DEF ReleaseReads
<1>6. ASSUME NEW p \in Processes, Unlink(p) PROVE LockTypeOK'
  BY <1>6 DEF Unlink
<1>7. ASSUME NEW p \in Processes, Crash(p) PROVE LockTypeOK'
  BY <1>7 DEF Crash
<1>8. ASSUME NEW p \in Processes, Reboot(p) PROVE LockTypeOK'
  BY <1>8 DEF Reboot
<1>9. CASE UNCHANGED lockVars
  BY <1>9 DEF lockVars
<1> QED
  BY <1>1, <1>2, <1>3, <1>4, <1>5, <1>6, <1>7, <1>8, <1>9 DEF LockNext, Step

\* Every step of a process keeps what is known of the lock.
LEMMA LockStep ==
  ASSUME LockInv, NEW p \in Processes, Step(p) \/ Crash(p) \/ Reboot(p)
  PROVE  LockInv'
<1> USE DEF LockInv, OnlyLiveAct, Acquiring, Owning, Move
<1>0. LockTypeOK'
  BY LockTypeStep DEF LockNext
<1>1. CASE Start(p)
  <2>1. OnlyLiveAct'
    BY <1>1 DEF Start, LockTypeOK
  <2>2. ASSUME staggered'
        PROVE  (OneAcquirer /\ FileNamesOwner /\ FileIsStale /\ TmpIsOwn)'
    BY <1>1, <2>2 DEF Start, LockTypeOK, OneAcquirer, FileNamesOwner, FileIsStale, TmpIsOwn
  <2> QED
    BY <1>0, <2>1, <2>2
<1>2. CASE ReadLock(p)
  <2>1. OnlyLiveAct'
    BY <1>2 DEF ReadLock, LockTypeOK
  <2>2. ASSUME staggered'
        PROVE  (OneAcquirer /\ FileNamesOwner /\ FileIsStale /\ TmpIsOwn)'
    BY <1>2, <2>2
       DEF ReadLock, IsReclaimable, LockTypeOK, OneAcquirer, FileNamesOwner, FileIsStale,
           TmpIsOwn
  <2> QED
    BY <1>0, <2>1, <2>2
<1>3. CASE WriteTmp(p)
  <2>1. OnlyLiveAct'
    BY <1>3 DEF WriteTmp, LockTypeOK
  <2>2. ASSUME staggered'
        PROVE  (OneAcquirer /\ FileNamesOwner /\ FileIsStale /\ TmpIsOwn)'
    BY <1>3, <2>2
       DEF WriteTmp, LockTypeOK, OneAcquirer, FileNamesOwner, FileIsStale, TmpIsOwn
  <2> QED
    BY <1>0, <2>1, <2>2
<1>4. CASE ReplaceLock(p)
  <2>1. OnlyLiveAct'
    BY <1>4 DEF ReplaceLock, LockTypeOK
  <2>2. ASSUME staggered'
        PROVE  (OneAcquirer /\ FileNamesOwner /\ FileIsStale /\ TmpIsOwn)'
    <3>1. tmp = p /\ tmp # Absent
      BY <1>4, <2>2, ContentsAssumption DEF ReplaceLock, TmpIsOwn, LockTypeOK
    <3>2. file' = p /\ pc' = [pc EXCEPT ![p] = "holding"] /\ alive' = alive
      BY <1>4, <3>1 DEF ReplaceLock
    <3>3. \A q \in Processes : pc[q] \notin Owning
      BY <1>4, <2>2 DEF ReplaceLock, FileNamesOwner, FileIsStale, LockTypeOK
    <3>4. p \in alive /\ pc[p] = "replacing"
      BY <1>4 DEF ReplaceLock
    <3>5. OneAcquirer' /\ TmpIsOwn'
      BY <1>4, <2>2, <3>2, <3>4 DEF ReplaceLock, OneAcquirer, TmpIsOwn, LockTypeOK
    <3>6. FileNamesOwner'
      BY <3>2, <3>3, <3>4 DEF FileNamesOwner, LockTypeOK
    <3>7. FileIsStale'
      BY <1>4, <2>2, <3>2, <3>4 DEF ReplaceLock, FileIsStale, OneAcquirer, LockTypeOK
    <3> QED
      BY <3>5, <3>6, <3>7
  <2> QED
    BY <1>0, <2>1, <2>2
<1>5. CASE ReleaseReads(p)
  <2>1. OnlyLiveAct'
    BY <1>5 DEF ReleaseReads, LockTypeOK
  <2>2. ASSUME staggered'
        PROVE  (OneAcquirer /\ FileNamesOwner /\ FileIsStale /\ TmpIsOwn)'
    BY <1>5, <2>2
       DEF ReleaseReads, LockTypeOK, OneAcquirer, FileNamesOwner, FileIsStale, TmpIsOwn
  <2> QED
    BY <1>0, <2>1, <2>2
<1>6. CASE Unlink(p)
  <2>1. OnlyLiveAct'
    BY <1>6 DEF Unlink, LockTypeOK
  <2>2. ASSUME staggered'
        PROVE  (OneAcquirer /\ FileNamesOwner /\ FileIsStale /\ TmpIsOwn)'
    <3>1. file = p /\ file' = Absent /\ Absent \notin Processes
      BY <1>6, <2>2, ContentsAssumption DEF Unlink, FileNamesOwner
    <3>2. \A q \in Processes : pc'[q] \notin Owning
      BY <1>6, <2>2, <3>1 DEF Unlink, FileNamesOwner, LockTypeOK
    <3> QED
      BY <1>6, <2>2, <3>1, <3>2
         DEF Unlink, LockTypeOK, OneAcquirer, FileNamesOwner, FileIsStale, TmpIsOwn
  <2> QED
    BY <1>0, <2>1, <2>2
<1>7. CASE Crash(p)
  <2>1. OnlyLiveAct'
    BY <1>7 DEF Crash, LockTypeOK
  <2>2. ASSUME staggered'
        PROVE  (OneAcquirer /\ FileNamesOwner /\ FileIsStale /\ TmpIsOwn)'
    BY <1>7, <2>2 DEF Crash, LockTypeOK, OneAcquirer, FileNamesOwner, FileIsStale, TmpIsOwn
  <2> QED
    BY <1>0, <2>1, <2>2
<1>8. CASE Reboot(p)
  <2>1. OnlyLiveAct'
    BY <1>8 DEF Reboot, LockTypeOK
  <2>2. ASSUME staggered'
        PROVE  (OneAcquirer /\ FileNamesOwner /\ FileIsStale /\ TmpIsOwn)'
    BY <1>8, <2>2 DEF Reboot, LockTypeOK, OneAcquirer, FileNamesOwner, FileIsStale, TmpIsOwn
  <2> QED
    BY <1>0, <2>1, <2>2
<1> QED
  BY <1>1, <1>2, <1>3, <1>4, <1>5, <1>6, <1>7, <1>8 DEF Step

\* The invariant of the lock, for every number of processes.
THEOREM LockInvariant == LockSpec => []LockInv
<1>1. LockInv /\ [LockNext]_lockVars => LockInv'
  <2> SUFFICES ASSUME LockInv, [LockNext]_lockVars PROVE LockInv'
    OBVIOUS
  <2>1. CASE LockNext
    BY <2>1, LockStep DEF LockNext
  <2>2. CASE UNCHANGED lockVars
    BY <2>2 DEF lockVars, LockInv, LockTypeOK, OnlyLiveAct, OneAcquirer, FileNamesOwner,
                FileIsStale, TmpIsOwn
  <2> QED
    BY <2>1, <2>2
<1> QED
  BY InitLock, <1>1, PTL DEF LockSpec

\* The files and the processes keep their types.
THEOREM LockTypesHold == LockSpec => []LockTypeOK
<1>1. LockInv => LockTypeOK
  BY DEF LockInv
<1> QED
  BY LockInvariant, <1>1, PTL

\* However many processes share the profile and whenever they die, two of them
\* never use it at once while their starts are staggered.
THEOREM OneUserOfProfile == LockSpec => []OneUser
<1>1. LockInv => OneUser
  BY DEF LockInv, OneUser, FileNamesOwner, Users, Owning
<1> QED
  BY LockInvariant, <1>1, PTL

\* The lock file then names the user and never an idle live process: nobody is
\* refused on behalf of a process that does not use the profile.
THEOREM LockFileNamesUser == LockSpec => []LockNamesItsUser
<1>1. LockInv => LockNamesItsUser
  BY DEF LockInv, LockNamesItsUser, FileNamesOwner, Users, Owning
<1> QED
  BY LockInvariant, <1>1, PTL

-----------------------------------------------------------------------------
(* Watchdog *)

\* Callers inside _attempt_restart().
Restarting == {a \in Callers : at[a] = "restarting"}

\* Restarts charged and restarts under way stay within the budget and one
\* restart for each further caller.
BudgetInv ==
  /\ TypeOK
  /\ restart_count + Cardinality(Restarting) <= MaxRestarts + Cardinality(Probes)

-----------------------------------------------------------------------------
\* The callers are finitely many, one more than the probes.
LEMMA CallersCounted ==
  IsFiniteSet(Callers) /\ Cardinality(Callers) = Cardinality(Probes) + 1
<1>1. Callers = Probes \cup {Loop}
  BY DEF Callers
<1> QED
  BY <1>1, CallersAssumption, FS_AddElement

\* The restarts under way are finitely many, at most one per caller.
LEMMA RestartingCounted ==
  /\ IsFiniteSet(Restarting)
  /\ Cardinality(Restarting) \in Nat /\ Cardinality(Probes) \in Nat
  /\ Cardinality(Restarting) <= Cardinality(Probes) + 1
<1>1. Restarting \subseteq Callers
  BY DEF Restarting
<1>2. IsFiniteSet(Restarting) /\ Cardinality(Restarting) <= Cardinality(Callers)
  BY <1>1, CallersCounted, FS_Subset
<1> QED
  BY <1>2, CallersCounted, CallersAssumption, FS_CardinalityType

\* Deciding keeps the types of what it sets.
LEMMA DecideTypes ==
  ASSUME TypeOK, NEW a \in Callers, Decide(a)
  PROVE  /\ browser' \in {"running", "suspended", "down"}
         /\ \/ at' = [at EXCEPT ![a] = "restarting"] /\ restart_count < MaxRestarts
            \/ at' = [at EXCEPT ![a] = "sleep"]
  BY DEF Decide, AttemptRestart, SkipRestart, TypeOK

\* So does the beginning of _handle_failure().
LEMMA HandleTypes ==
  ASSUME TypeOK, NEW a \in Callers, HandleFailure(a)
  PROVE  /\ browser' \in {"running", "suspended", "down"}
         /\ \/ at' = [at EXCEPT ![a] = "restarting"] /\ restart_count < MaxRestarts
            \/ \E s \in {"sleep", "emitting", "giving_up"} : at' = [at EXCEPT ![a] = s]
  BY DecideTypes DEF HandleFailure, TypeOK

\* A restart that begins was allowed by the budget.
LEMMA RestartBegins ==
  ASSUME TypeOK, TypeOK', NEW a \in Callers,
         at' = [at EXCEPT ![a] = "restarting"], restart_count < MaxRestarts,
         restart_count' = restart_count
  PROVE  BudgetInv'
<1>1. /\ Cardinality(Restarting') \in Nat /\ Cardinality(Probes) \in Nat
      /\ Cardinality(Restarting') <= Cardinality(Probes) + 1
  <2>1. Restarting' \subseteq Callers
    BY DEF Restarting
  <2>2. IsFiniteSet(Restarting') /\ Cardinality(Restarting') <= Cardinality(Callers)
    BY <2>1, CallersCounted, FS_Subset
  <2> QED
    BY <2>2, CallersCounted, CallersAssumption, FS_CardinalityType
<1> QED
  BY <1>1, LimitsAssumption DEF BudgetInv, TypeOK

\* A step that begins no restart and charges none keeps the bound.
LEMMA NoRestartBegins ==
  ASSUME BudgetInv, TypeOK', Restarting' \subseteq Restarting,
         restart_count' <= restart_count
  PROVE  BudgetInv'
<1>1. Cardinality(Restarting') <= Cardinality(Restarting)
  BY RestartingCounted, FS_Subset
<1>2. Cardinality(Restarting') \in Nat
  BY RestartingCounted, FS_Subset, FS_CardinalityType
<1> QED
  BY <1>1, <1>2, RestartingCounted, LimitsAssumption DEF BudgetInv, TypeOK

\* A step in which one caller comes to rest begins no restart.
LEMMA ComesToRest ==
  ASSUME TypeOK, NEW a \in Callers, NEW s \in {"sleep", "verdict", "emitting", "giving_up"},
         at' = [at EXCEPT ![a] = s]
  PROVE  Restarting' \subseteq Restarting
  BY DEF TypeOK, Restarting

-----------------------------------------------------------------------------
\* Nothing has been restarted at first.
LEMMA InitBudget == Init => BudgetInv
<1> SUFFICES ASSUME Init PROVE BudgetInv
  OBVIOUS
<1>1. TypeOK
  <2>1. announced \in BOOLEAN
    BY Zenon DEF Init
  <2> QED
    BY <2>1, LimitsAssumption DEF Init, TypeOK
<1>2. Restarting = {} /\ restart_count = 0
  BY DEF Init, Restarting
<1> QED
  BY <1>1, <1>2, FS_EmptySet, RestartingCounted, LimitsAssumption DEF BudgetInv

\* Capped() stays within its cap.
LEMMA CappedType ==
  ASSUME NEW cap \in Nat, NEW n \in 0..cap
  PROVE  Capped(n + 1, cap) \in 0..cap
  BY DEF Capped

\* Every step keeps the types.
LEMMA WatchdogTypeStep == TypeOK /\ [Next]_vars => TypeOK'
<1> SUFFICES ASSUME TypeOK, [Next]_vars PROVE TypeOK'
  OBVIOUS
<1> USE LimitsAssumption DEF TypeOK
<1>1. CASE ProbeHealthy
  <2>1. announced' \in BOOLEAN
    BY <1>1, Zenon DEF ProbeHealthy
  <2> QED
    BY <1>1, <2>1 DEF ProbeHealthy
<1>2. CASE ProbeUnhealthy
  <2>1. strikes' \in 0..2
    BY <1>2, CappedType DEF ProbeUnhealthy
  <2> QED
    BY <1>2, <2>1, HandleTypes DEF ProbeUnhealthy, Callers
<1>3. ASSUME NEW a \in Callers, EmitEnds(a) PROVE TypeOK'
  BY <1>3, DecideTypes DEF EmitEnds
<1>4. ASSUME NEW a \in Callers, RestartEnds(a) PROVE TypeOK'
  <2>1. announced' \in BOOLEAN
    BY <1>4, Zenon DEF RestartEnds
  <2> QED
    BY <1>4, <2>1 DEF RestartEnds
<1>5. ASSUME NEW a \in Callers, RestartRaises(a) PROVE TypeOK'
  BY <1>5 DEF RestartRaises, watchdogVars
<1>6. ASSUME NEW a \in Probes, LivenessUnhealthy(a) PROVE TypeOK'
  BY <1>6 DEF LivenessUnhealthy, watchdogVars
<1>7. ASSUME NEW a \in Probes, TriggerFires(a) PROVE TypeOK'
  <2>1. a \in Callers
    BY <1>7 DEF Callers
  <2> QED
    BY <1>7, <2>1, HandleTypes DEF TriggerFires
<1>8. ASSUME NEW a \in Probes, TriggerAbandoned(a) PROVE TypeOK'
  BY <1>8 DEF TriggerAbandoned, watchdogVars
<1>9. CASE BrowserDies \/ BrowserSuspends \/ BrowserComesBack
  BY <1>9 DEF BrowserDies, BrowserSuspends, BrowserComesBack, watchdogVars
<1>10. CASE Tick
  BY <1>10, CappedType DEF Tick
<1>11. CASE UNCHANGED vars
  BY <1>11 DEF vars, watchdogVars
<1> QED
  BY <1>1, <1>2, <1>3, <1>4, <1>5, <1>6, <1>7, <1>8, <1>9, <1>10, <1>11
     DEF Next, Proceed

\* Every step keeps the budget.
LEMMA BudgetStep == BudgetInv /\ [Next]_vars => BudgetInv'
<1> SUFFICES ASSUME BudgetInv, [Next]_vars PROVE BudgetInv'
  OBVIOUS
<1>0. TypeOK /\ TypeOK'
  BY WatchdogTypeStep DEF BudgetInv
<1>a. ASSUME NEW a \in Callers, restart_count' = restart_count,
             \/ at' = [at EXCEPT ![a] = "restarting"] /\ restart_count < MaxRestarts
             \/ \E s \in {"sleep", "verdict", "emitting", "giving_up"} :
                  at' = [at EXCEPT ![a] = s]
      PROVE  BudgetInv'
  <2>1. CASE at' = [at EXCEPT ![a] = "restarting"] /\ restart_count < MaxRestarts
    BY <1>0, <1>a, <2>1, RestartBegins
  <2>2. CASE \E s \in {"sleep", "verdict", "emitting", "giving_up"} :
               at' = [at EXCEPT ![a] = s]
    <3>1. Restarting' \subseteq Restarting
      BY <1>0, <2>2, ComesToRest
    <3> QED
      BY <1>0, <1>a, <3>1, NoRestartBegins DEF TypeOK
  <2> QED
    BY <1>a, <2>1, <2>2
<1>b. ASSUME at' = at, restart_count' <= restart_count PROVE BudgetInv'
  <2>1. Restarting' \subseteq Restarting
    BY <1>b DEF Restarting
  <2> QED
    BY <1>0, <1>b, <2>1, NoRestartBegins
<1>1. CASE ProbeHealthy
  BY <1>0, <1>1, <1>b DEF ProbeHealthy, TypeOK
<1>2. CASE ProbeUnhealthy
  BY <1>0, <1>2, <1>a, HandleTypes DEF ProbeUnhealthy, Callers
<1>3. ASSUME NEW a \in Callers, EmitEnds(a) PROVE BudgetInv'
  BY <1>0, <1>3, <1>a, DecideTypes DEF EmitEnds
<1>4. ASSUME NEW a \in Callers, RestartEnds(a) PROVE BudgetInv'
  <2>1. a \in Restarting /\ restart_count' = restart_count + 1
    BY <1>4 DEF RestartEnds, Restarting
  <2>2. Restarting' = Restarting \ {a}
    BY <1>0, <1>4 DEF RestartEnds, Restarting, TypeOK
  <2>3. Cardinality(Restarting') = Cardinality(Restarting) - 1
    BY <2>1, <2>2, RestartingCounted, FS_RemoveElement
  <2> QED
    BY <1>0, <2>1, <2>3, RestartingCounted, LimitsAssumption DEF BudgetInv, TypeOK
<1>5. ASSUME NEW a \in Callers, RestartRaises(a) PROVE BudgetInv'
  BY <1>0, <1>5, <1>a DEF RestartRaises, watchdogVars
<1>6. ASSUME NEW a \in Probes, LivenessUnhealthy(a) PROVE BudgetInv'
  BY <1>0, <1>6, <1>a DEF LivenessUnhealthy, watchdogVars, Callers
<1>7. ASSUME NEW a \in Probes, TriggerFires(a) PROVE BudgetInv'
  <2>1. a \in Callers
    BY <1>7 DEF Callers
  <2> QED
    BY <1>0, <1>7, <1>a, <2>1, HandleTypes DEF TriggerFires
<1>8. ASSUME NEW a \in Probes, TriggerAbandoned(a) PROVE BudgetInv'
  BY <1>0, <1>8, <1>a DEF TriggerAbandoned, watchdogVars, Callers
<1>9. CASE BrowserDies \/ BrowserSuspends \/ BrowserComesBack
  BY <1>0, <1>9, <1>b DEF BrowserDies, BrowserSuspends, BrowserComesBack, watchdogVars,
                     TypeOK
<1>10. CASE Tick
  BY <1>0, <1>10, <1>b DEF Tick, TypeOK
<1>11. CASE UNCHANGED vars
  BY <1>0, <1>11, <1>b DEF vars, watchdogVars, TypeOK
<1> QED
  BY <1>1, <1>2, <1>3, <1>4, <1>5, <1>6, <1>7, <1>8, <1>9, <1>10, <1>11
     DEF Next, Proceed

\* The counters of the watchdog keep their types.
THEOREM WatchdogTypesHold == Spec => []TypeOK
<1>1. Init => TypeOK
  BY InitBudget DEF BudgetInv
<1> QED
  BY <1>1, WatchdogTypeStep, PTL DEF Spec

\* Each caller of _handle_failure() besides the loop overdraws the budget by one
\* restart at most, however restarts interleave, fail and are abandoned.
THEOREM BudgetHolds == Spec => []BudgetRespected
<1>1. BudgetInv => BudgetRespected
  BY RestartingCounted, LimitsAssumption DEF BudgetInv, BudgetRespected, TypeOK
<1> QED
  BY <1>1, InitBudget, BudgetStep, PTL DEF Spec
=============================================================================

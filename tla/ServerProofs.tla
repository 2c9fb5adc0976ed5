---------------------------- MODULE ServerProofs ----------------------------
(***************************************************************************)
(* The life of a server process, server.py, and the schedule it keeps over *)
(* many such lives, scheduler.py.                                          *)
(*                                                                         *)
(* The lifespan, for any finite number of sessions: what the lock and the  *)
(* reference count are worth, in whatever order sessions come and go.      *)
(*                                                                         *)
(* The schedule, for any tasks, intervals, day and window.  That a window  *)
(* is served once is not inductive, nor are the properties about hours     *)
(* that pass: they need what the row, the clock of a task and the sleep of *)
(* its loop say about each other.  A window that was served has a row no   *)
(* clock is behind, whatever was lost in memory since; a loop that sleeps  *)
(* left no task behind that was due when it looked, and sleeps no longer   *)
(* than its pause.  The rest is arithmetic: over an hour the start of the  *)
(* window stays or is the hour itself.                                     *)
(***************************************************************************)
EXTENDS ServerLifespan, Scheduler, FiniteSetTheorems, TLAPS

-----------------------------------------------------------------------------
(* ServerLifespan *)

TearDown == {"draining", "browser"} \cup Services

\* Who is under the lock holds it, and the warm-up is over before anything stops.
LockInv ==
  /\ \A s \in Sessions : pc[s] \in {"init"} \cup TearDown <=> lock = s
  /\ \A s \in Sessions : pc[s] \in Services \cup {"browser"} => ~Running

\* References are counted, some of them for sessions that are gone; a service that
\* is named has a loop.
CountInv ==
  /\ Cardinality(Members) <= refs
  /\ calm => refs = Cardinality(Members)
  /\ \A k \in named : loops[k] > 0

Inv == TypeOK /\ LockInv /\ CountInv

\* The members are finitely many.
LEMMA MembersFinite ==
  /\ IsFiniteSet(Members) /\ Cardinality(Members) \in Nat
  /\ IsFiniteSet(Members') /\ Cardinality(Members') \in Nat
<1>1. Members \subseteq Sessions /\ Members' \subseteq Sessions
  BY DEF Members
<1>2. QED
  BY <1>1, SessionsAssumption, FS_Subset, FS_CardinalityType

\* A session that comes in is one more, one that leaves one fewer.
LEMMA MembersAdd ==
  ASSUME NEW s \in Sessions, Members' = Members \cup {s}, s \notin Members
  PROVE  Cardinality(Members') = Cardinality(Members) + 1
  BY MembersFinite, FS_AddElement

LEMMA MembersRemove ==
  ASSUME NEW s \in Sessions, Members' = Members \ {s}, s \in Members
  PROVE  Cardinality(Members') = Cardinality(Members) - 1
  BY MembersFinite, FS_RemoveElement

LEMMA InvInit == Init => Inv
<1> SUFFICES ASSUME Init PROVE Inv
  OBVIOUS
<1>1. TypeOK
  <2>1. refs \in Nat /\ loops \in [Services -> 0..MaxLoops]
    BY BoundsAssumption DEF Init
  <2>2. QED
    BY <2>1 DEF Init, TypeOK, Phases
<1>2. LockInv
  BY SessionsAssumption DEF Init, LockInv, TearDown, Services
<1>3. Members = {}
  BY DEF Init, Members
<1>4. CountInv
  BY <1>3, FS_EmptySet DEF Init, CountInv
<1>5. QED
  BY <1>1, <1>2, <1>4 DEF Inv

\* The types, but for the references.
LEMMA LockInvNext ==
  ASSUME TypeOK, LockInv, [Next]_vars
  PROVE  LockInv'
<1> USE SessionsAssumption DEF TypeOK, LockInv, TearDown, Services, Phases, Running, sessionVars,
        readyVars, workVars
<1>1. CASE UNCHANGED vars
  BY <1>1 DEF vars
<1>2. CASE WarmUpStep
  BY <1>2 DEF WarmUpStep, BrowserStarts, MigrationEnds, WarmUpFails, ServiceStarts
<1>3. ASSUME NEW s \in Sessions, Enter(s) \/ InitDbEnds(s) \/ InitDbFails(s)
      PROVE  LockInv'
  BY <1>3 DEF Enter, InitDbEnds, InitDbFails
<1>4. ASSUME NEW s \in Sessions, Leave(s) \/ LeaveCancelled(s)
      PROVE  LockInv'
  BY <1>4 DEF Leave, LeaveCancelled, WarmUpCancelled
<1>5. ASSUME NEW s \in Sessions, TearDownStep(s)
      PROVE  LockInv'
  BY <1>5 DEF TearDownStep, Drain, StopBrowser, StopService, WarmUpCancelled
<1>6. QED
  BY <1>1, <1>2, <1>3, <1>4, <1>5 DEF Next

LEMMA InvNext == Inv /\ [Next]_vars => Inv'
<1> SUFFICES ASSUME Inv, [Next]_vars PROVE Inv'
  OBVIOUS
<1> USE SessionsAssumption, BoundsAssumption DEF Inv
<1>1. LockInv'
  BY LockInvNext
<1>2. CASE UNCHANGED vars
  BY <1>1, <1>2 DEF TypeOK, CountInv, Members, vars, sessionVars, readyVars, workVars
<1>3. CASE WarmUpStep
  <2>1. Members' = Members
    BY <1>3 DEF WarmUpStep, BrowserStarts, MigrationEnds, WarmUpFails, ServiceStarts, Members,
       sessionVars
  <2>2. CASE BrowserStarts \/ MigrationEnds \/ WarmUpFails
    <3>1. TypeOK'
      BY <2>2 DEF BrowserStarts, MigrationEnds, WarmUpFails, TypeOK, Phases, Services, sessionVars,
         readyVars, workVars
    <3>2. UNCHANGED <<refs, loops, named, calm>>
      BY <2>2 DEF BrowserStarts, MigrationEnds, WarmUpFails, sessionVars, workVars
    <3>3. QED
      BY <1>1, <2>1, <3>1, <3>2 DEF CountInv
  <2>3. ASSUME NEW k \in Services, ServiceStarts(k)
        PROVE  Inv'
    BY <1>1, <2>1, <2>3 DEF ServiceStarts, TypeOK, CountInv, Phases, Services, sessionVars
  <2>4. QED
    BY <1>3, <2>2, <2>3 DEF WarmUpStep
<1>4. ASSUME NEW s \in Sessions, Enter(s)
      PROVE  Inv'
  <2>1. Members' = Members \cup {s} /\ s \notin Members
    BY <1>4 DEF Enter, Members, TypeOK
  <2>2. Cardinality(Members') = Cardinality(Members) + 1
    BY <2>1, MembersAdd
  <2>3. QED
    BY <1>1, <1>4, <2>2, MembersFinite DEF Enter, TypeOK, CountInv, readyVars, workVars
<1>5. ASSUME NEW s \in Sessions, InitDbEnds(s)
      PROVE  Inv'
  <2>1. Members' = Members
    BY <1>5 DEF InitDbEnds, Members, TypeOK
  <2>2. QED
    BY <1>1, <1>5, <2>1 DEF InitDbEnds, TypeOK, CountInv, Phases, workVars
<1>6. ASSUME NEW s \in Sessions, Leave(s)
      PROVE  Inv'
  <2>1. Members' = Members \ {s} /\ s \in Members
    BY <1>6 DEF Leave, Members, TypeOK
  <2>2. Cardinality(Members') = Cardinality(Members) - 1
    BY <2>1, MembersRemove
  <2>3. QED
    BY <1>1, <1>6, <2>2, MembersFinite DEF Leave, TypeOK, CountInv, readyVars, workVars
<1>7. ASSUME NEW s \in Sessions, InitDbFails(s) \/ LeaveCancelled(s)
      PROVE  Inv'
  <2>1. ~calm /\ Members' = Members \ {s}
    BY <1>7 DEF InitDbFails, LeaveCancelled, Members, TypeOK, Services
  <2>2. Cardinality(Members') <= Cardinality(Members)
    BY <2>1, MembersFinite, FS_Subset
  <2>3. QED
    BY <1>1, <1>7, <2>1, <2>2, MembersFinite
    DEF InitDbFails, LeaveCancelled, WarmUpCancelled, TypeOK, CountInv, readyVars, workVars
<1>8. ASSUME NEW s \in Sessions, TearDownStep(s)
      PROVE  Inv'
  <2>1. Members' = Members
    BY <1>8 DEF TearDownStep, Drain, StopBrowser, StopService, Members, TypeOK, Services
  <2>2. CASE Drain(s) \/ StopBrowser(s)
    <3>1. TypeOK'
      BY <2>2 DEF Drain, StopBrowser, WarmUpCancelled, TypeOK, Services, readyVars, workVars
    <3>2. UNCHANGED <<refs, loops, named, calm>>
      BY <2>2 DEF Drain, StopBrowser, WarmUpCancelled, workVars
    <3>3. QED
      BY <1>1, <2>1, <3>1, <3>2 DEF CountInv
  <2>3. ASSUME NEW k \in Services, StopService(s, k)
        PROVE  Inv'
    BY <1>1, <2>1, <2>3 DEF StopService, TypeOK, CountInv, Services, readyVars
  <2>4. QED
    BY <1>8, <2>2, <2>3 DEF TearDownStep
<1>9. QED
  BY <1>2, <1>3, <1>4, <1>5, <1>6, <1>7, <1>8 DEF Next

LEMMA InvHolds == Spec => []Inv
  BY InvInit, InvNext, PTL DEF Spec

\* The state stays within its types: no reference too few, no loop stopped twice.
THEOREM Typing == Spec => []TypeOK
<1>1. Inv => TypeOK
  BY DEF Inv
<1>2. QED
  BY <1>1, InvHolds, PTL

\* Whatever is cancelled, browser.stop() never runs under a launching warm-up.
THEOREM NeverStopsALaunch == Spec => []NoStopDuringLaunch
<1>1. Inv => NoStopDuringLaunch
  BY DEF Inv, LockInv, NoStopDuringLaunch
<1>2. QED
  BY <1>1, InvHolds, PTL

-----------------------------------------------------------------------------
(* While nothing is cancelled and init_db() succeeds *)

\* One loop for each name, started and stopped in order; whoever is in finds the
\* server begun, and with nobody in or tearing down there is nothing left.
CalmInv ==
  calm =>
    /\ \A k \in Services : loops[k] = IF k \in named THEN 1 ELSE 0
    /\ warmup \in {"browser", "migration", "watchdog"} => named = {}
    /\ warmup = "probes" => named \subseteq {"watchdog"}
    /\ warmup = "scheduler" => named \subseteq {"watchdog", "probes"}
    /\ \A s \in Sessions : /\ pc[s] = "in" => lock = Nobody /\ readiness # "idle"
                           /\ pc[s] = "probes" => "scheduler" \notin named
                           /\ pc[s] = "watchdog" => named \subseteq {"watchdog"}
                           /\ pc[s] = "browser" => named = {}
    /\ (\A s \in Sessions : pc[s] \notin {"in"} \cup TearDown) =>
         ~browser /\ ~Running /\ named = {}

\* The only member, and one of several.
LEMMA LoneMember ==
  ASSUME Inv, calm, NEW s \in Sessions, s \in Members
  PROVE  /\ refs = 1 => Members = {s}
         /\ refs # 1 => \E t \in Members : t # s
<1>1. Cardinality(Members \ {s}) = Cardinality(Members) - 1 /\ IsFiniteSet(Members \ {s})
  BY MembersFinite, FS_RemoveElement
<1>2. refs = Cardinality(Members)
  BY DEF Inv, CountInv
<1>3. Members \ {s} = {} <=> refs = 1
  BY <1>1, <1>2, MembersFinite, FS_EmptySet
<1>4. QED
  BY <1>3

\* Under a free lock a reference is somebody who is in.
LEMMA SomebodyIsIn ==
  ASSUME Inv, calm, lock = Nobody, refs > 0
  PROVE  \E s \in Sessions : pc[s] = "in"
<1>1. Members # {}
  BY MembersFinite, FS_EmptySet DEF Inv, CountInv
<1>2. QED
  BY <1>1, SessionsAssumption DEF Members, Inv, LockInv

LEMMA CalmInvNext == Inv /\ CalmInv /\ [Next]_vars => CalmInv'
<1> SUFFICES ASSUME Inv, CalmInv, [Next]_vars, calm' PROVE CalmInv'
  BY DEF CalmInv
<1>1. calm
  BY DEF Next, vars, WarmUpStep, BrowserStarts, MigrationEnds, WarmUpFails, ServiceStarts, Enter,
     InitDbEnds, InitDbFails, Leave, LeaveCancelled, TearDownStep, Drain, StopBrowser, StopService,
     WarmUpCancelled
<1> USE <1>1, SessionsAssumption DEF Inv, TypeOK, CalmInv, TearDown, Services, Running, Phases
<1>2. CASE UNCHANGED vars
  BY <1>2 DEF vars, sessionVars, readyVars, workVars
<1>3. CASE BrowserStarts \/ MigrationEnds \/ WarmUpFails
  BY <1>3 DEF BrowserStarts, MigrationEnds, WarmUpFails, sessionVars, readyVars, workVars
<1>4. ASSUME NEW k \in Services, ServiceStarts(k)
      PROVE  CalmInv'
  BY <1>4 DEF ServiceStarts, sessionVars, LockInv
<1>5. ASSUME NEW s \in Sessions, Enter(s)
      PROVE  CalmInv'
  <2>1. CASE refs = 0
    <3>1. \A t \in Sessions : pc[t] # "in"
      BY <2>1, MembersFinite, FS_EmptySet DEF CountInv, Members
    <3>2. QED
      BY <1>5, <2>1, <3>1 DEF Enter, LockInv, readyVars, workVars
  <2>2. CASE refs # 0
    <3>1. readiness # "idle"
      BY <1>5, <2>2, SomebodyIsIn DEF Enter
    <3>2. QED
      BY <1>5, <2>2, <3>1 DEF Enter, LockInv, readyVars, workVars
  <2>3. QED  BY <2>1, <2>2
<1>6. ASSUME NEW s \in Sessions, InitDbEnds(s)
      PROVE  CalmInv'
  BY <1>6 DEF InitDbEnds, LockInv, workVars
<1>7. ASSUME NEW s \in Sessions, Leave(s)
      PROVE  CalmInv'
  <2>1. s \in Members /\ pc[s] = "in" /\ lock = Nobody
    BY <1>7 DEF Leave, Members
  <2>2. CASE refs = 1
    <3>1. \A t \in Sessions : pc[t] = "in" => t = s
      BY <2>1, <2>2, LoneMember DEF Members
    <3>2. QED
      BY <1>7, <2>1, <2>2, <3>1 DEF Leave, LockInv, readyVars, workVars
  <2>3. CASE refs # 1
    <3>1. PICK t \in Sessions : t # s /\ pc[t] = "in"
      BY <2>1, <2>3, LoneMember DEF Members, LockInv
    <3>2. QED
      BY <1>7, <2>1, <2>3, <3>1 DEF Leave, LockInv, readyVars, workVars
  <2>4. QED  BY <2>2, <2>3
<1>8. ASSUME NEW s \in Sessions, Drain(s)
      PROVE  CalmInv'
  BY <1>8 DEF Drain, WarmUpCancelled, LockInv, workVars
<1>9. ASSUME NEW s \in Sessions, NEW k \in Services, StopService(s, k)
      PROVE  CalmInv'
  BY <1>9 DEF StopService, LockInv, readyVars
<1>10. ASSUME NEW s \in Sessions, StopBrowser(s)
      PROVE  CalmInv'
  BY <1>10 DEF StopBrowser, LockInv, readyVars
<1>11. QED
  BY <1>2, <1>3, <1>4, <1>5, <1>6, <1>7, <1>8, <1>9, <1>10
  DEF Next, WarmUpStep, TearDownStep, InitDbFails, LeaveCancelled

LEMMA CalmInvHolds == Spec => []CalmInv
<1>1. Init => CalmInv
  BY DEF Init, CalmInv, Services, Running, Phases, TearDown
<1>2. QED
  BY <1>1, CalmInvNext, InvHolds, PTL DEF Spec

\* "Stops when last session ends": nothing that lifespan() started runs on.
THEOREM NothingOutlives == Spec => []NothingOutlivesSessions
<1>1. Inv /\ CalmInv => NothingOutlivesSessions
  BY SessionsAssumption
  DEF Inv, TypeOK, LockInv, CalmInv, NothingOutlivesSessions, Members, TearDown, Services
<1>2. QED
  BY <1>1, CalmInvHolds, InvHolds, PTL

\* No start of a service overwrites the reference to a loop that runs.
THEOREM LoopsAreNamed == Spec => []NoLostLoops
<1>1. CalmInv => NoLostLoops
  BY DEF CalmInv, NoLostLoops
<1>2. QED
  BY <1>1, CalmInvHolds, PTL

\* A session that is in finds a server that has begun to start.
THEOREM ServerFound == Spec => []SessionsFindAServer
<1>1. CalmInv => SessionsFindAServer
  BY DEF CalmInv, SessionsFindAServer, ServerAlwaysFound
<1>2. QED
  BY <1>1, CalmInvHolds, PTL

-----------------------------------------------------------------------------
(* Scheduler *)

\* Nothing is stamped in the future, and nothing runs but in the hour it began.
StampsArePast ==
  /\ \A t \in Tasks : last[t] <= now
  /\ \A t \in Persisted : row[t] <= now
  /\ \A t \in Tasks : phase[t] # "idle" => up /\ last[t] = now

\* A window that was served has a row, which no clock is behind; the loop only
\* takes up a task whose window is not served.
ServedHasRow ==
  /\ \A t \in Fixed : served[t] >= 1 => row[t] >= WindowStart(now)
  /\ up => \A t \in Fixed : last[t] >= row[t]
  /\ \A t \in Fixed : phase[t] = "inserting" /\ by[t] = "loop" => served[t] = 0

\* No loop sleeps longer than its pause, and it does not sleep on its round.
LoopsLook ==
  \A b \in Buckets : /\ wake[b] <= now + Pause(b)
                     /\ todo[b] # {} => up /\ wake[b] = now + Pause(b)

\* What a loop that sleeps has left behind: no task that was due when it looked.
Looked(t) == wake[Interval[t]] > now /\ t \notin todo[Interval[t]]

IntervalsKept ==
  up => \A t \in Tasks \ Fixed :
          Looked(t) => /\ last[t] # Never
                       /\ last[t] > wake[Interval[t]] - Pause(Interval[t]) - Interval[t]

WindowsKept ==
  up => \A t \in Fixed : Looked(t) /\ InWindow(now) => last[t] >= WindowStart(now)

\* The clock of a task that catches up is its row, but where the row could not be
\* read or written.
ClockIsRow ==
  up => \A t \in CatchUp \ lost :
          phase[t] # "inserting" => last[t] = IF t \in blind THEN Never ELSE row[t]

SchedulerInv ==
  /\ SchedulerTypeOK
  /\ StampsArePast /\ ServedHasRow /\ OncePerWindow
  /\ LoopsLook /\ IntervalsKept /\ WindowsKept /\ ClockIsRow

-----------------------------------------------------------------------------
(* The clock of the windows *)

\* A multiple of d that is smaller than d is 0.
LEMMA SmallMultiple ==
  ASSUME NEW d \in Nat \ {0}, NEW k \in Int, NEW r \in Int, d * k = r, -d < r, r < d
  PROVE  k = 0
<1>1. CASE k >= 1
  <2>1. d * k >= d
    BY <1>1
  <2> QED
    BY <2>1
<1>2. CASE k <= -1
  <2>1. d * k <= -d
    BY <1>2
  <2> QED
    BY <2>1
<1> QED
  BY <1>1, <1>2

\* Remainders grow by one until they start again.
LEMMA NextRemainder ==
  ASSUME NEW x \in Int, NEW d \in Nat \ {0}, (x + 1) % d # 0
  PROVE  (x + 1) % d = (x % d) + 1
<1> DEFINE q == x \div d
           p == (x + 1) \div d
           r == x % d
           s == (x + 1) % d
           m == d * q
           n == d * p
<1>1. x = m + r /\ q \in Int /\ r \in 0..(d - 1) /\ m \in Int
  OBVIOUS
<1>2. x + 1 = n + s /\ p \in Int /\ s \in 1..(d - 1) /\ n \in Int
  OBVIOUS
<1>3. d * (p - q) = n - m
  BY <1>1, <1>2
<1>4. n - m = r + 1 - s
  BY <1>1, <1>2
<1>5. p - q \in Int /\ r + 1 - s \in Int /\ -d < r + 1 - s /\ r + 1 - s < d
  BY <1>1, <1>2
<1> HIDE DEF q, p, m, n, r, s
<1>6. p - q = 0
  BY <1>3, <1>4, <1>5, SmallMultiple
<1>7. s = r + 1
  BY <1>6, <1>3, <1>4, <1>1, <1>2
<1> QED
  BY <1>7 DEF r, s

\* The window that opened last opened less than a day ago.
LEMMA WindowBounds ==
  ASSUME NEW h \in Int
  PROVE  WindowStart(h) \in Int /\ WindowStart(h) <= h /\ h < WindowStart(h) + Day
<1>1. Day \in Nat \ {0} /\ h - Opening \in Int
  BY DayAssumption
<1>2. (h - Opening) % Day \in 0..(Day - 1)
  BY <1>1
<1> QED
  BY <1>1, <1>2 DEF WindowStart

\* It stays the last one until the next opens.
LEMMA SameWindow ==
  ASSUME NEW h \in Int, h + 1 # WindowStart(h + 1)
  PROVE  WindowStart(h + 1) = WindowStart(h)
<1> DEFINE x == h - Opening
<1>1. Day \in Nat \ {0} /\ x \in Int /\ (h + 1) - Opening = x + 1
  BY DayAssumption
<1>2. (x + 1) % Day # 0
  BY <1>1 DEF WindowStart
<1>3. (x + 1) % Day = (x % Day) + 1
  BY <1>1, <1>2, NextRemainder
<1>4. x % Day \in Int
  BY <1>1
<1> QED
  BY <1>1, <1>3, <1>4 DEF WindowStart

-----------------------------------------------------------------------------
(* Tasks and loops *)

\* Every task has its loop, which never pauses longer than the interval; a task
\* with a fixed hour is looked at every hour.
LEMMA TaskFacts ==
  /\ Fixed \subseteq Tasks /\ CatchUp \subseteq Tasks /\ Persisted \subseteq Tasks
  /\ Persisted = Fixed \cup CatchUp /\ Fixed \cap CatchUp = {}
  /\ \A t \in Tasks : Interval[t] \in Buckets
  /\ \A b \in Buckets : b \in Nat \ {0} /\ Pause(b) \in Nat \ {0} /\ Pause(b) <= b
  /\ \A t \in Fixed : Pause(Interval[t]) = 1
  /\ Day \in Nat \ {0} /\ Horizon \in Nat /\ Budget \in Nat
  /\ Never \in Int /\ Never < 0 /\ Hours \subseteq Int
<1>1. Day \in Nat \ {0} /\ Horizon \in Nat /\ Budget \in Nat
  BY DayAssumption
<1>2. Never \in Int /\ Never < 0 /\ Hours \subseteq Int
  BY <1>1 DEF Never, Hours
<1>3. \A b \in Buckets : b \in Nat \ {0}
  BY TasksAssumption DEF Buckets
<1>4. \A t \in Tasks : Interval[t] \in Buckets
  BY DEF Buckets
<1> QED
  BY <1>1, <1>2, <1>3, <1>4, TasksAssumption, DailyAssumption DEF Persisted, Pause

\* The tasks of a loop have its interval.
LEMMA BucketFacts ==
  ASSUME NEW b \in Buckets, NEW t \in Bucket(b)
  PROVE  t \in Tasks /\ Interval[t] = b
  BY DEF Bucket

\* A set of persisted tasks has a size.
LEMMA PersistedCounted ==
  ASSUME NEW S \in SUBSET Persisted
  PROVE  Cardinality(S) \in Nat
<1>1. S \subseteq Tasks
  BY TaskFacts
<1> QED
  BY <1>1, TasksAssumption, FS_Subset, FS_CardinalityType

-----------------------------------------------------------------------------
(* Types *)

LEMMA SchedulerInitTypes == SchedulerInit => SchedulerTypeOK
<1> SUFFICES ASSUME SchedulerInit PROVE SchedulerTypeOK
  OBVIOUS
<1>1. Never \in Hours
  BY TaskFacts DEF Hours
<1>2. last \in [Tasks -> Hours] /\ row \in [Persisted -> Hours]
  BY <1>1 DEF SchedulerInit
<1>3. up \in BOOLEAN
  BY Zenon DEF SchedulerInit
<1> QED
  BY <1>2, <1>3, TaskFacts DEF SchedulerInit, SchedulerTypeOK

\* Every step keeps the types.
LEMMA SchedulerTypeStep == SchedulerTypeOK /\ [SchedulerNext]_schedulerVars => SchedulerTypeOK'
<1> SUFFICES ASSUME SchedulerTypeOK, [SchedulerNext]_schedulerVars PROVE SchedulerTypeOK'
  OBVIOUS
<1> USE TaskFacts DEF SchedulerTypeOK
<1>0. now \in Hours /\ Never \in Hours
  BY DEF Hours
<1>1. CASE ProcessStarts
  <2>1. Cardinality(blind') \in Nat /\ blind' \in SUBSET Persisted
    BY <1>1, PersistedCounted DEF ProcessStarts
  <2>2. last' \in [Tasks -> Hours]
    BY <1>0, <1>1 DEF ProcessStarts, Prime
  <2>3. wake' \in [Buckets -> Nat]
    BY <1>1 DEF ProcessStarts
  <2>4. budget' \in 0..Budget
    BY <1>1, <2>1 DEF ProcessStarts
  <2> QED
    BY <1>1, <2>1, <2>2, <2>3, <2>4 DEF ProcessStarts, execVars, histVars
<1>2. CASE ProcessStops
  <2>1. last' \in [Tasks -> Hours] /\ phase' \in [Tasks -> {"idle", "inserting", "running"}]
    BY <1>0, <1>2 DEF ProcessStops
  <2>2. up' \in BOOLEAN
    BY <1>2, Zenon DEF ProcessStops
  <2> QED
    BY <1>2, <2>1, <2>2 DEF ProcessStops
<1>3. CASE HourPasses
  BY <1>3 DEF HourPasses, loopVars, execVars
<1>4. ASSUME NEW b \in Buckets, LoopWakes(b) PROVE SchedulerTypeOK'
  BY <1>4 DEF LoopWakes, clockVars, execVars, histVars, Bucket
<1>5. ASSUME NEW b \in Buckets, NEW t \in Bucket(b), Consider(b, t) PROVE SchedulerTypeOK'
  BY <1>0, <1>5 DEF Consider, Take, clockVars, execVars, histVars, Bucket
<1>6. ASSUME NEW t \in Tasks, RunNow(t) PROVE SchedulerTypeOK'
  BY <1>0, <1>6 DEF RunNow, Take, clockVars, loopVars, histVars
<1>7. ASSUME NEW t \in Tasks, InsertRow(t) PROVE SchedulerTypeOK'
  BY <1>0, <1>7 DEF InsertRow, WriteRow, Runs, clockVars, loopVars
<1>8. ASSUME NEW t \in Tasks, InsertFails(t) PROVE SchedulerTypeOK'
  BY <1>8 DEF InsertFails, Idle, clockVars, loopVars
<1>9. ASSUME NEW t \in Tasks, RunEnds(t) PROVE SchedulerTypeOK'
  BY <1>9 DEF RunEnds, Idle, clockVars, loopVars, histVars
<1>10. CASE UNCHANGED schedulerVars
  BY <1>10 DEF schedulerVars, clockVars, loopVars, execVars, histVars
<1> QED
  BY <1>1, <1>2, <1>3, <1>4, <1>5, <1>6, <1>7, <1>8, <1>9, <1>10 DEF SchedulerNext

-----------------------------------------------------------------------------
(* The invariant *)

LEMMA InitScheduler == SchedulerInit => SchedulerInv
<1> SUFFICES ASSUME SchedulerInit PROVE SchedulerInv
  OBVIOUS
<1>1. ~up
  BY DEF SchedulerInit
<1>2. StampsArePast /\ ServedHasRow /\ OncePerWindow /\ LoopsLook
  BY <1>1, TaskFacts
     DEF SchedulerInit, StampsArePast, ServedHasRow, OncePerWindow, LoopsLook
<1>3. IntervalsKept /\ WindowsKept /\ ClockIsRow
  BY <1>1 DEF IntervalsKept, WindowsKept, ClockIsRow
<1> QED
  BY <1>2, <1>3, SchedulerInitTypes DEF SchedulerInv

\* The clocks are integers.
LEMMA ClockTypes ==
  ASSUME SchedulerTypeOK
  PROVE  /\ now \in Nat /\ WindowStart(now) \in Int
         /\ WindowStart(now) <= now /\ now < WindowStart(now) + Day
         /\ \A t \in Tasks : last[t] \in Int
         /\ \A t \in Persisted : row[t] \in Int
         /\ \A b \in Buckets : wake[b] \in Nat
         /\ \A t \in Fixed : served[t] \in 0..2
<1>1. now \in Nat
  BY TaskFacts DEF SchedulerTypeOK
<1>2. /\ \A t \in Tasks : last[t] \in Hours
      /\ \A t \in Persisted : row[t] \in Hours
      /\ \A b \in Buckets : wake[b] \in Nat
      /\ \A t \in Fixed : served[t] \in 0..2
  BY DEF SchedulerTypeOK
<1>3. /\ WindowStart(now) \in Int
      /\ WindowStart(now) <= now /\ now < WindowStart(now) + Day
  BY <1>1, WindowBounds
<1> QED
  BY <1>1, <1>2, <1>3, TaskFacts

\* A process starts: its clocks are what the rows say, or on the safe side.
LEMMA StartStep == SchedulerInv /\ SchedulerTypeOK' /\ ProcessStarts => SchedulerInv'
<1> SUFFICES ASSUME SchedulerInv, SchedulerTypeOK', ProcessStarts PROVE SchedulerInv'
  OBVIOUS
<1> USE TaskFacts DEF SchedulerInv, SchedulerTypeOK
<1>0. /\ now' = now /\ row' = row /\ served' = served /\ lost' = lost
      /\ phase' = phase /\ by' = by /\ todo' = todo /\ now \in Nat
      /\ \A t \in Tasks : phase[t] = "idle"
      /\ \A b \in Buckets : todo[b] = {}
  BY DEF ProcessStarts, StampsArePast, LoopsLook, execVars, histVars
<1>a. /\ now \in Nat /\ \A t \in Persisted : row[t] \in Int /\ row[t] <= now
      /\ \A t \in Tasks : last'[t] \in Int
  <2>1. \A t \in Tasks : last'[t] \in Hours
    OBVIOUS
  <2> QED
    BY <2>1, ClockTypes DEF StampsArePast
<1>1. \A t \in Tasks : last'[t] = Prime(t) /\ last'[t] <= now
  BY <1>a DEF ProcessStarts, Prime
<1>2. \A t \in Fixed : last'[t] >= row[t]
  <2> SUFFICES ASSUME NEW t \in Fixed PROVE last'[t] >= row[t]
    OBVIOUS
  <2>1. last'[t] = row[t] \/ last'[t] = now
    BY <1>1 DEF Prime
  <2> QED
    BY <1>a, <2>1
<1>3. StampsArePast' /\ OncePerWindow'
  BY <1>0, <1>1 DEF StampsArePast, OncePerWindow
<1>4. ServedHasRow'
  BY <1>0, <1>2 DEF ServedHasRow
<1>5. LoopsLook'
  BY <1>0 DEF ProcessStarts, LoopsLook
<1>6. ASSUME NEW t \in Tasks, wake'[Interval[t]] > now
      PROVE  ~IsDue(t, last', now) /\ wake'[Interval[t]] = now + Pause(Interval[t])
  <2> DEFINE b == Interval[t]
  <2>1. b \in Buckets /\ t \in Bucket(b)
    BY DEF Bucket
  <2>2. wake'[b] = IF \E s \in Bucket(b) : IsDue(s, last', now) THEN now ELSE now + Pause(b)
    BY <2>1 DEF ProcessStarts
  <2> QED
    BY <1>a, <1>6, <2>1, <2>2
<1>7. IntervalsKept'
  <2> SUFFICES ASSUME NEW t \in Tasks \ Fixed, Looked(t)'
               PROVE  /\ last'[t] # Never
                      /\ last'[t] > wake'[Interval[t]] - Pause(Interval[t]) - Interval[t]
    BY DEF IntervalsKept
  <2>1. ~IsDue(t, last', now) /\ wake'[Interval[t]] = now + Pause(Interval[t])
    BY <1>0, <1>6 DEF Looked
  <2>2. last'[t] # Never /\ now - last'[t] < Interval[t]
    BY <1>a, <2>1 DEF IsDue
  <2> QED
    BY <1>a, <2>1, <2>2
<1>8. WindowsKept'
  <2> SUFFICES ASSUME NEW t \in Fixed, Looked(t)', InWindow(now)
               PROVE  last'[t] >= WindowStart(now)
    BY <1>0 DEF WindowsKept
  <2>1. ~IsDue(t, last', now)
    BY <1>0, <1>6 DEF Looked
  <2> QED
    BY <1>a, <2>1, ClockTypes DEF IsDue
<1>9. ClockIsRow'
  BY <1>0, <1>1 DEF ClockIsRow, Prime
<1> QED
  BY <1>3, <1>4, <1>5, <1>7, <1>8, <1>9

\* A process ends and leaves the rows behind.
LEMMA StopStep == SchedulerInv /\ SchedulerTypeOK' /\ ProcessStops => SchedulerInv'
<1> SUFFICES ASSUME SchedulerInv, SchedulerTypeOK', ProcessStops PROVE SchedulerInv'
  OBVIOUS
<1> USE TaskFacts DEF SchedulerInv, SchedulerTypeOK
<1>0. ~up' /\ now' = now /\ row' = row /\ served' = served /\ now \in Nat
  BY DEF ProcessStops
<1>1. StampsArePast' /\ OncePerWindow'
  BY <1>0 DEF ProcessStops, StampsArePast, OncePerWindow
<1>2. ServedHasRow' /\ LoopsLook'
  BY <1>0 DEF ProcessStops, ServedHasRow, LoopsLook
<1>3. IntervalsKept' /\ WindowsKept' /\ ClockIsRow'
  BY <1>0 DEF IntervalsKept, WindowsKept, ClockIsRow
<1> QED
  BY <1>1, <1>2, <1>3

\* An hour passes: nothing runs, and every loop has looked.
LEMMA HourStep == SchedulerInv /\ SchedulerTypeOK' /\ HourPasses => SchedulerInv'
<1> SUFFICES ASSUME SchedulerInv, SchedulerTypeOK', HourPasses PROVE SchedulerInv'
  OBVIOUS
<1> USE TaskFacts DEF SchedulerInv, SchedulerTypeOK
<1>0. /\ now' = now + 1 /\ now \in Nat /\ up' = up /\ row' = row /\ last' = last
      /\ wake' = wake /\ todo' = todo /\ phase' = phase /\ by' = by /\ lost' = lost
      /\ \A t \in Tasks : phase[t] = "idle"
      /\ \A b \in Buckets : todo[b] = {}
      /\ up => \A b \in Buckets : wake[b] > now
  BY DEF HourPasses, Quiet, StampsArePast, LoopsLook, loopVars, execVars
<1>1. StampsArePast'
  BY <1>0, ClockTypes DEF StampsArePast
<1>2. OncePerWindow' /\ ServedHasRow'
  <2>1. CASE now' = WindowStart(now')
    BY <1>0, <2>1 DEF HourPasses, OncePerWindow, ServedHasRow
  <2>2. CASE now' # WindowStart(now')
    <3>1. WindowStart(now') = WindowStart(now) /\ served' = served
      <4>1. now + 1 # WindowStart(now + 1)
        BY <1>0, <2>2
      <4>2. WindowStart(now + 1) = WindowStart(now)
        BY <1>0, <4>1, SameWindow
      <4> QED
        BY <1>0, <2>2, <4>2 DEF HourPasses
    <3> QED
      BY <1>0, <3>1 DEF OncePerWindow, ServedHasRow
  <2> QED
    BY <2>1, <2>2
<1>3. LoopsLook'
  BY <1>0 DEF LoopsLook
<1>4. IntervalsKept'
  BY <1>0 DEF IntervalsKept, Looked
<1>5. WindowsKept'
  BY <1>0 DEF WindowsKept, Looked, LoopsLook
<1>6. ClockIsRow'
  BY <1>0 DEF HourPasses, ClockIsRow
<1> QED
  BY <1>1, <1>2, <1>3, <1>4, <1>5, <1>6

\* A loop begins its round: all its tasks are still to be looked at.
LEMMA WakeStep ==
  ASSUME SchedulerInv, SchedulerTypeOK', NEW b \in Buckets, LoopWakes(b)
  PROVE  SchedulerInv'
<1> USE TaskFacts DEF SchedulerInv, SchedulerTypeOK
<1>0. /\ now' = now /\ up' = up /\ up /\ row' = row /\ last' = last /\ phase' = phase
      /\ by' = by /\ blind' = blind /\ served' = served /\ lost' = lost
      /\ wake' = [wake EXCEPT ![b] = now + Pause(b)]
      /\ todo' = [todo EXCEPT ![b] = Bucket(b)]
  BY DEF LoopWakes, clockVars, execVars, histVars
<1>1. StampsArePast' /\ OncePerWindow' /\ ServedHasRow' /\ ClockIsRow'
  BY <1>0 DEF StampsArePast, OncePerWindow, ServedHasRow, ClockIsRow
<1>2. LoopsLook'
  BY <1>0, ClockTypes DEF LoopsLook
<1>3. ASSUME NEW t \in Tasks, Looked(t)'
      PROVE  Looked(t) /\ wake'[Interval[t]] = wake[Interval[t]]
  BY <1>0, <1>3 DEF Looked, Bucket
<1>4. IntervalsKept' /\ WindowsKept'
  BY <1>0, <1>3 DEF IntervalsKept, WindowsKept
<1> QED
  BY <1>1, <1>2, <1>4

\* An execution begins, on behalf of the operator or of a loop that found the
\* window unserved: the clock is stamped.
LEMMA TakeStep ==
  ASSUME SchedulerInv, SchedulerTypeOK', NEW t \in Tasks, NEW who \in {"loop", "operator"},
         up, Take(t, who),
         who = "loop" /\ t \in Fixed => last[t] < WindowStart(now),
         wake' = wake, \A b \in Buckets : todo'[b] \subseteq todo[b],
         \A u \in Tasks \ {t} : Looked(u)' => Looked(u),
         UNCHANGED <<clockVars, row, blind, histVars>>
  PROVE  SchedulerInv'
<1> USE TaskFacts DEF SchedulerInv, SchedulerTypeOK
<1>0. /\ now' = now /\ up' = up /\ row' = row /\ served' = served
      /\ blind' = blind /\ lost' = lost
      /\ last' = [last EXCEPT ![t] = now]
      /\ phase' = [phase EXCEPT ![t] = "inserting"] /\ by' = [by EXCEPT ![t] = who]
  BY DEF Take, clockVars, histVars
<1>1. StampsArePast' /\ OncePerWindow'
  BY <1>0, ClockTypes DEF StampsArePast, OncePerWindow
<1>2. ServedHasRow'
  <2>1. ASSUME who = "loop", t \in Fixed PROVE served[t] = 0
    BY <2>1, ClockTypes DEF ServedHasRow
  <2>2. \A u \in Fixed : last'[u] >= row[u]
    BY <1>0, ClockTypes DEF ServedHasRow, StampsArePast
  <2>3. \A u \in Fixed : phase'[u] = "inserting" /\ by'[u] = "loop" => served[u] = 0
    BY <1>0, <2>1 DEF ServedHasRow
  <2> QED
    BY <1>0, <2>2, <2>3 DEF ServedHasRow
<1>3. LoopsLook'
  BY <1>0 DEF LoopsLook
<1>4. IntervalsKept'
  <2> SUFFICES ASSUME NEW u \in Tasks \ Fixed, Looked(u)'
               PROVE  /\ last'[u] # Never
                      /\ last'[u] > wake[Interval[u]] - Pause(Interval[u]) - Interval[u]
    BY DEF IntervalsKept
  <2>1. CASE u = t
    <3>1. last'[u] = now /\ wake[Interval[u]] <= now + Pause(Interval[u])
      BY <1>0, <2>1 DEF LoopsLook
    <3> QED
      BY <3>1, ClockTypes
  <2>2. CASE u # t
    BY <1>0, <2>2 DEF IntervalsKept
  <2> QED
    BY <2>1, <2>2
<1>5. WindowsKept'
  BY <1>0, ClockTypes DEF WindowsKept
<1>6. ClockIsRow'
  BY <1>0 DEF ClockIsRow
<1> QED
  BY <1>1, <1>2, <1>3, <1>4, <1>5, <1>6

\* A loop looks at a task: it is not due, or under way, or it is taken up.
LEMMA ConsiderStep ==
  ASSUME SchedulerInv, SchedulerTypeOK', NEW b \in Buckets, NEW t \in Bucket(b),
         Consider(b, t)
  PROVE  SchedulerInv'
<1> USE TaskFacts DEF SchedulerInv, SchedulerTypeOK
<1>0. /\ up /\ t \in Tasks /\ Interval[t] = b /\ wake[b] = now + Pause(b)
      /\ wake' = wake /\ todo' = [todo EXCEPT ![b] = @ \ {t}]
      /\ UNCHANGED <<clockVars, row, blind, histVars>>
  BY BucketFacts DEF Consider, LoopsLook
<1>1. \A c \in Buckets : todo'[c] \subseteq todo[c]
  BY <1>0
<1>2. \A u \in Tasks \ {t} : Looked(u)' => Looked(u)
  BY <1>0 DEF Looked, clockVars
<1>3. CASE IsDue(t, last, now) /\ phase[t] = "idle"
  <2>1. Take(t, "loop")
    BY <1>3 DEF Consider
  <2>2. t \in Fixed => last[t] < WindowStart(now)
    BY <1>3 DEF IsDue
  <2> QED
    BY <1>0, <1>1, <1>2, <2>1, <2>2, TakeStep
<1>4. CASE ~(IsDue(t, last, now) /\ phase[t] = "idle")
  <2>0. /\ now' = now /\ up' = up /\ row' = row /\ last' = last /\ phase' = phase
        /\ by' = by /\ blind' = blind /\ served' = served /\ lost' = lost
    BY <1>0, <1>4 DEF Consider, clockVars, execVars, histVars
  <2>1. StampsArePast' /\ OncePerWindow' /\ ServedHasRow' /\ ClockIsRow'
    BY <2>0 DEF StampsArePast, OncePerWindow, ServedHasRow, ClockIsRow
  <2>2. LoopsLook'
    BY <1>0, <1>1, <2>0 DEF LoopsLook
  <2>3. phase[t] # "idle" => last[t] = now
    BY <1>0 DEF StampsArePast
  <2>4. IntervalsKept'
    <3>1. t \notin Fixed => last[t] # Never /\ now - last[t] < Interval[t]
      BY <1>0, <1>4, <2>3, ClockTypes, TasksAssumption DEF IsDue
    <3>2. t \notin Fixed => last[t] > wake[b] - Pause(b) - Interval[t]
      BY <1>0, <3>1, ClockTypes
    <3> QED
      BY <1>0, <1>2, <2>0, <3>1, <3>2 DEF IntervalsKept
  <2>5. WindowsKept'
    <3>1. t \in Fixed /\ InWindow(now) => last[t] >= WindowStart(now)
      BY <1>0, <1>4, <2>3, ClockTypes DEF IsDue
    <3> QED
      BY <1>0, <1>2, <2>0, <3>1 DEF WindowsKept
  <2> QED
    BY <2>1, <2>2, <2>4, <2>5
<1> QED
  BY <1>3, <1>4

\* The operator runs a task, whatever its clock says.
LEMMA RunNowStep ==
  ASSUME SchedulerInv, SchedulerTypeOK', NEW t \in Tasks, RunNow(t)
  PROVE  SchedulerInv'
<1>1. /\ up /\ Take(t, "operator") /\ wake' = wake /\ todo' = todo
      /\ UNCHANGED <<clockVars, row, blind, histVars>>
  BY DEF RunNow, loopVars
<1>2. \A u \in Tasks \ {t} : Looked(u)' => Looked(u)
  BY <1>1 DEF Looked, clockVars
<1> QED
  BY <1>1, <1>2, TakeStep

\* The row is written: it is as late as the clock, and the window is served once.
LEMMA InsertStep ==
  ASSUME SchedulerInv, SchedulerTypeOK', NEW t \in Tasks, InsertRow(t)
  PROVE  SchedulerInv'
<1> USE TaskFacts DEF SchedulerInv, SchedulerTypeOK
<1>0. /\ now' = now /\ up' = up /\ last' = last /\ wake' = wake /\ todo' = todo
      /\ by' = by /\ phase[t] = "inserting"
      /\ phase' = [phase EXCEPT ![t] = "running"] /\ lost' = lost \ {t}
      /\ blind' = IF t \in Fixed THEN blind ELSE blind \ {t}
  BY DEF InsertRow, Runs, clockVars, loopVars
<1>1. up /\ last[t] = now
  BY <1>0 DEF StampsArePast
<1>2. \A u \in Persisted : row'[u] = IF u = t THEN now ELSE row[u]
  BY DEF InsertRow, WriteRow
<1>3. StampsArePast'
  BY <1>0, <1>1, <1>2, ClockTypes DEF StampsArePast
<1>4. \A u \in Fixed :
        served'[u] = IF u = t /\ by[t] = "loop" /\ served[t] < 2 THEN served[u] + 1
                                                                 ELSE served[u]
  BY DEF InsertRow, Runs
<1>5. OncePerWindow'
  BY <1>0, <1>4, ClockTypes DEF OncePerWindow, ServedHasRow
<1>6. ServedHasRow'
  <2>1. \A u \in Fixed : served'[u] >= 1 => row'[u] >= WindowStart(now)
    BY <1>2, <1>4, ClockTypes DEF ServedHasRow
  <2>2. \A u \in Fixed : last[u] >= row'[u]
    BY <1>1, <1>2, ClockTypes DEF ServedHasRow
  <2>3. \A u \in Fixed : phase'[u] = "inserting" /\ by[u] = "loop" => served'[u] = 0
    BY <1>0, <1>4 DEF ServedHasRow
  <2> QED
    BY <1>0, <2>1, <2>2, <2>3 DEF ServedHasRow
<1>7. LoopsLook'
  BY <1>0 DEF LoopsLook
<1>8. IntervalsKept' /\ WindowsKept'
  BY <1>0 DEF IntervalsKept, WindowsKept, Looked
<1>9. ClockIsRow'
  BY <1>0, <1>1, <1>2 DEF ClockIsRow
<1> QED
  BY <1>3, <1>5, <1>6, <1>7, <1>8, <1>9

\* An execution that ends leaves clock and row as they are.
LEMMA IdleStep ==
  ASSUME SchedulerInv, SchedulerTypeOK', NEW t \in Tasks, Idle(t),
         UNCHANGED <<clockVars, last, loopVars, row, blind, served>>,
         \/ phase[t] = "inserting" /\ lost' = lost \cup {t}
         \/ phase[t] = "running" /\ lost' = lost
  PROVE  SchedulerInv'
<1> USE TaskFacts DEF SchedulerInv, SchedulerTypeOK
<1>0. /\ now' = now /\ up' = up /\ last' = last /\ wake' = wake /\ todo' = todo
      /\ row' = row /\ blind' = blind /\ served' = served
      /\ phase' = [phase EXCEPT ![t] = "idle"] /\ by' = [by EXCEPT ![t] = "loop"]
  BY DEF Idle, clockVars, loopVars
<1>1. StampsArePast' /\ OncePerWindow'
  BY <1>0 DEF StampsArePast, OncePerWindow
<1>2. ServedHasRow'
  BY <1>0 DEF ServedHasRow
<1>3. LoopsLook' /\ IntervalsKept' /\ WindowsKept'
  BY <1>0 DEF LoopsLook, IntervalsKept, WindowsKept, Looked
<1>4. ClockIsRow'
  BY <1>0 DEF ClockIsRow
<1> QED
  BY <1>1, <1>2, <1>3, <1>4

\* The schedule keeps its promises over any number of processes, hours and tasks.
THEOREM SchedulerInvariant == SchedulerSpec => []SchedulerInv
<1>1. SchedulerInv /\ [SchedulerNext]_schedulerVars => SchedulerInv'
  <2> SUFFICES ASSUME SchedulerInv, [SchedulerNext]_schedulerVars PROVE SchedulerInv'
    OBVIOUS
  <2>0. SchedulerTypeOK'
    BY SchedulerTypeStep DEF SchedulerInv
  <2>1. CASE ProcessStarts \/ ProcessStops \/ HourPasses
    BY <2>0, <2>1, StartStep, StopStep, HourStep
  <2>2. ASSUME NEW b \in Buckets, LoopWakes(b) \/ \E t \in Bucket(b) : Consider(b, t)
        PROVE  SchedulerInv'
    BY <2>0, <2>2, WakeStep, ConsiderStep
  <2>3. ASSUME NEW t \in Tasks, RunNow(t) \/ InsertRow(t) PROVE SchedulerInv'
    BY <2>0, <2>3, RunNowStep, InsertStep
  <2>4. ASSUME NEW t \in Tasks, InsertFails(t) \/ RunEnds(t) PROVE SchedulerInv'
    <3>1. /\ Idle(t) /\ UNCHANGED <<clockVars, last, loopVars, row, blind, served>>
          /\ \/ phase[t] = "inserting" /\ lost' = lost \cup {t}
             \/ phase[t] = "running" /\ lost' = lost
      BY <2>4 DEF InsertFails, RunEnds, histVars
    <3> QED
      BY <2>0, <3>1, IdleStep
  <2>5. CASE UNCHANGED schedulerVars
    BY <2>5 DEF schedulerVars, clockVars, loopVars, execVars, histVars, SchedulerInv,
                SchedulerTypeOK, StampsArePast, ServedHasRow, OncePerWindow, LoopsLook,
                IntervalsKept, WindowsKept, ClockIsRow, Looked
  <2> QED
    BY <2>1, <2>2, <2>3, <2>4, <2>5 DEF SchedulerNext
<1> QED
  BY InitScheduler, <1>1, PTL DEF SchedulerSpec

\* Clocks, rows and loops keep their types.
THEOREM SchedulerTypes == SchedulerSpec => []SchedulerTypeOK
<1>1. SchedulerInv => SchedulerTypeOK
  BY DEF SchedulerInv
<1> QED
  BY SchedulerInvariant, <1>1, PTL

\* A daily task is run by its loop once in a window at most: over restarts at any
\* step, histories that cannot be read or written, and runs of the operator.
THEOREM ServedOncePerWindow == SchedulerSpec => []OncePerWindow
<1>1. SchedulerInv => OncePerWindow
  BY DEF SchedulerInv
<1> QED
  BY SchedulerInvariant, <1>1, PTL

\* A task that catches up is never two intervals late at a process that has looked
\* at it, whatever the interval and however short the lives before.
THEOREM MissedRunsAreCaughtUp == SchedulerSpec => []CatchesUp
<1>1. SchedulerInv => CatchesUp
  <2> SUFFICES ASSUME SchedulerInv, NEW t \in CatchUp \ lost, up, Quiet
               PROVE  now - row[t] < 2 * Interval[t]
    BY DEF CatchesUp
  <2> DEFINE b == Interval[t]
  <2>1. SchedulerTypeOK /\ t \in Tasks \ Fixed /\ b \in Buckets /\ t \in Persisted
    BY TaskFacts DEF SchedulerInv
  <2>2. wake[b] > now /\ todo[b] = {} /\ phase[t] = "idle"
    BY <2>1 DEF Quiet
  <2>3. last[t] # Never /\ last[t] > wake[b] - Pause(b) - b
    BY <2>1, <2>2 DEF SchedulerInv, IntervalsKept, Looked
  <2>4. last[t] = row[t]
    BY <2>2, <2>3 DEF SchedulerInv, ClockIsRow
  <2> QED
    BY <2>1, <2>2, <2>3, <2>4, ClockTypes, TaskFacts
<1> QED
  BY SchedulerInvariant, <1>1, PTL

\* No window passes by a process that is there.
THEOREM NoWindowPassesBy == SchedulerSpec => WindowIsTaken
<1>1. SchedulerInv /\ [SchedulerNext]_schedulerVars
        => [\A t \in Fixed :
              now' > now /\ up /\ since < now /\ InWindow(now) /\ ~InWindow(now')
                => last[t] >= WindowStart(now) \/ t \in blind]_schedulerVars
  <2> SUFFICES ASSUME SchedulerInv, SchedulerNext, NEW t \in Fixed,
                      now' > now, up, InWindow(now)
               PROVE  last[t] >= WindowStart(now)
    OBVIOUS
  <2>1. HourPasses
    <3>1. now' # now
      BY ClockTypes DEF SchedulerInv
    <3>2. ~ProcessStarts /\ ~ProcessStops
      BY <3>1 DEF ProcessStarts, ProcessStops
    <3>3. ASSUME NEW b \in Buckets PROVE ~LoopWakes(b) /\ \A u \in Bucket(b) : ~Consider(b, u)
      BY <3>1 DEF LoopWakes, Consider, clockVars
    <3>4. ASSUME NEW u \in Tasks
          PROVE  ~RunNow(u) /\ ~InsertRow(u) /\ ~InsertFails(u) /\ ~RunEnds(u)
      BY <3>1 DEF RunNow, InsertRow, InsertFails, RunEnds, clockVars
    <3> QED
      BY <3>2, <3>3, <3>4 DEF SchedulerNext
  <2>2. t \in Tasks /\ Interval[t] \in Buckets
    BY TaskFacts
  <2>3. Looked(t)
    BY <2>1, <2>2 DEF HourPasses, Quiet, Looked
  <2> QED
    BY <2>3 DEF SchedulerInv, WindowsKept
<1> QED
  BY SchedulerInvariant, <1>1, PTL DEF SchedulerSpec, WindowIsTaken
=============================================================================

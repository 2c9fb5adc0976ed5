------------------------------ MODULE Scheduler ------------------------------
(***************************************************************************)
(* TaskScheduler of naukri_server/scheduler.py: interval tasks, tasks that *)
(* catch up what they missed while the server was down, and tasks with a   *)
(* fixed hour whose daily window must be served once, over process lives   *)
(* that are shorter than the intervals.                                    *)
(*                                                                         *)
(* Time goes by the hour.  There is one loop per interval, which runs its  *)
(* tasks one after the other; row stands for scheduled_runs, all that is   *)
(* left of a process that ends.                                            *)
(*                                                                         *)
(* Abstractions.  An execution and the startup grace are shorter than an   *)
(* hour.  Tasks stay enabled.  What a task does, its result and its        *)
(* completion event are elsewhere.                                         *)
(***************************************************************************)
EXTENDS Integers, FiniteSets

CONSTANTS
  Tasks,
  Interval,       \* interval_seconds of each task, in hours
  Fixed,          \* tasks with a run_at_hour
  Opening,        \* that hour
  Window,         \* catch_up_window_hours
  CatchUp,        \* tasks with catch_up
  Day,            \* hours of a day
  Horizon,        \* bound: hours modelled
  Budget          \* bound: operator's runs and failing accesses to the history

ASSUME TasksAssumption ==
  /\ IsFiniteSet(Tasks)
  /\ Fixed \subseteq Tasks /\ CatchUp \subseteq Tasks
  /\ Fixed \cap CatchUp = {}
  /\ Interval \in [Tasks -> Nat \ {0}]
ASSUME DayAssumption ==
  Day \in Nat /\ Opening \in 0..(Day - 1) /\ Window \in 1..Day /\ Horizon \in Nat /\ Budget \in Nat
ASSUME DailyAssumption == \A t \in Fixed : Interval[t] = Day

Persisted == Fixed \cup CatchUp    \* tasks whose history start() reads
Never == -Day     \* before any window of the model opened
Hours == Never..Horizon
Buckets == {Interval[t] : t \in Tasks}
Bucket(b) == {t \in Tasks : Interval[t] = b}

VARIABLES
  now,            \* hours since the model's first midnight
  up,             \* a process runs the scheduler
  since,          \* when it started
  last,           \* _last_started, Never when there is no entry
  wake,           \* when each loop's sleep ends
  todo,           \* tasks each loop still looks at in this round
  phase, by,      \* of each task: its execution, and on whose behalf
  row,            \* started_at of the latest scheduled_runs row, where it is read
  blind,          \* tasks this process has not run since it could not read theirs
  budget,         \* what the bound leaves
  served,         \* history: runs by the loop in the current window
  lost            \* history: tasks whose last execution here left no row

clockVars == <<now, up, since>>
loopVars == <<wake, todo>>
execVars == <<phase, by>>
histVars == <<served, lost>>
schedulerVars == <<clockVars, last, loopVars, execVars, row, blind, budget, histVars>>

SchedulerTypeOK ==
  /\ now \in 0..Horizon /\ up \in BOOLEAN /\ since \in 0..Horizon
  /\ last \in [Tasks -> Hours] /\ row \in [Persisted -> Hours]
  /\ wake \in [Buckets -> Nat]
  /\ todo \in [Buckets -> SUBSET Tasks]
  /\ phase \in [Tasks -> {"idle", "inserting", "running"}]
  /\ by \in [Tasks -> {"loop", "operator"}]
  /\ blind \in SUBSET Persisted
  /\ served \in [Fixed -> 0..2] /\ lost \in SUBSET Tasks /\ budget \in 0..Budget

SchedulerInit ==
  /\ now = 0 /\ up = FALSE /\ since = 0
  /\ last = [t \in Tasks |-> Never]
  /\ wake = [b \in Buckets |-> 0] /\ todo = [b \in Buckets |-> {}]
  /\ phase = [t \in Tasks |-> "idle"] /\ by = [t \in Tasks |-> "loop"]
  /\ row = [t \in Persisted |-> Never] /\ blind = {}
  /\ served = [t \in Fixed |-> 0] /\ lost = {} /\ budget = Budget

-----------------------------------------------------------------------------
(* The clocks *)

\* _window_start(): the latest opening, today's or yesterday's.
WindowStart(h) == h - ((h - Opening) % Day)

InWindow(h) == h < WindowStart(h) + Window

\* Mutant of IsDue: fixed hours go by the interval clock and the hour, as they did.
IsDue_ByInterval(t, lst, h) ==
  h - lst[t] >= Interval[t] /\ (t \in Fixed => h = WindowStart(h))

\* is_due(): a fixed-hour task asks whether the window is open and unserved.
IsDue(t, lst, h) ==
  IF t \in Fixed THEN InWindow(h) /\ lst[t] < WindowStart(h)
  ELSE lst[t] = Never \/ h - lst[t] >= Interval[t]

\* Mutant of Prime: a fixed-hour task is due when its history cannot be read.
Prime_FailsOpen(t) ==
  IF t \in Persisted THEN IF t \in blind' THEN Never ELSE row[t] ELSE now

\* Mutant of Prime: a task that catches up waits its interval from the start.
Prime_FromTheStart(t) ==
  IF t \notin Fixed THEN now ELSE IF t \in blind' THEN now ELSE row[t]

\* prime_schedule_from_db() and prime_schedule(): what was persisted counts for
\* tasks that have to be on time over restarts.  A history that cannot be read
\* makes a catch_up task due, and a fixed-hour task served.
Prime(t) ==
  IF t \notin Persisted THEN now
  ELSE IF t \notin blind' THEN row[t]
  ELSE IF t \in Fixed THEN now ELSE Never

\* How long a loop sleeps: loops of a day or more look every hour.
Pause(b) == IF b >= Day THEN 1 ELSE b

-----------------------------------------------------------------------------
(* The process *)

\* start(): a loop with work waiting wakes after the startup grace.
ProcessStarts ==
  /\ ~up
  /\ up' = TRUE /\ since' = now
  /\ blind' \in SUBSET Persisted /\ Cardinality(blind') <= budget
  /\ budget' = budget - Cardinality(blind')
  /\ last' = [t \in Tasks |-> Prime(t)]
  /\ wake' = [b \in Buckets |->
                IF \E t \in Bucket(b) : IsDue(t, last', now) THEN now ELSE now + Pause(b)]
  /\ UNCHANGED <<now, todo, execVars, row, histVars>>

\* stop(), which cancels what does not end in ten seconds, or a crash.  An
\* interrupted run keeps the row it has.
ProcessStops ==
  /\ up
  /\ up' = FALSE /\ since' = 0 /\ blind' = {} /\ lost' = {}
  /\ last' = [t \in Tasks |-> Never]
  /\ wake' = [b \in Buckets |-> 0] /\ todo' = [b \in Buckets |-> {}]
  /\ phase' = [t \in Tasks |-> "idle"] /\ by' = [t \in Tasks |-> "loop"]
  /\ UNCHANGED <<now, row, served, budget>>

-----------------------------------------------------------------------------
(* _run_interval() *)

LoopRuns(b) == \E t \in Bucket(b) : phase[t] # "idle" /\ by[t] = "loop"

LoopWakes(b) ==
  /\ up /\ wake[b] <= now /\ todo[b] = {} /\ ~LoopRuns(b)
  /\ todo' = [todo EXCEPT ![b] = Bucket(b)]
  /\ wake' = [wake EXCEPT ![b] = now + Pause(b)]
  /\ UNCHANGED <<clockVars, last, execVars, row, blind, histVars, budget>>

\* _execute_task(): the clock is stamped at the start, before the row is written.
Take(t, who) ==
  /\ phase' = [phase EXCEPT ![t] = "inserting"]
  /\ by' = [by EXCEPT ![t] = who]
  /\ last' = [last EXCEPT ![t] = now]

\* The loop's next task: run if it is due and no other execution holds its lock.
Consider(b, t) ==
  /\ up /\ t \in todo[b] /\ ~LoopRuns(b)
  /\ todo' = [todo EXCEPT ![b] = @ \ {t}]
  /\ IF IsDue(t, last, now) /\ phase[t] = "idle" THEN Take(t, "loop")
     ELSE UNCHANGED <<last, execVars>>
  /\ UNCHANGED <<clockVars, wake, row, blind, histVars, budget>>

\* run_now(), whatever the schedule says.
RunNow(t) ==
  /\ up /\ phase[t] = "idle"
  /\ budget > 0 /\ budget' = budget - 1
  /\ Take(t, "operator")
  /\ UNCHANGED <<clockVars, loopVars, row, blind, histVars>>

\* The execution of t is over, whatever came of it.
Idle(t) ==
  /\ phase' = [phase EXCEPT ![t] = "idle"]
  /\ by' = [by EXCEPT ![t] = "loop"]

WriteRow(t) == row' = IF t \in Persisted THEN [row EXCEPT ![t] = now] ELSE row

\* History: the function of t is called.
Runs(t) ==
  /\ served' = IF t \in Fixed /\ by[t] = "loop" /\ served[t] < 2
               THEN [served EXCEPT ![t] = @ + 1] ELSE served
  /\ lost' = lost \ {t}

\* The row is inserted and the task's function called.
InsertRow(t) ==
  /\ phase[t] = "inserting"
  /\ phase' = [phase EXCEPT ![t] = "running"]
  /\ WriteRow(t) /\ Runs(t)
  /\ blind' = IF t \in Fixed THEN blind ELSE blind \ {t}
  /\ UNCHANGED <<clockVars, last, loopVars, by, budget>>

\* Without a row there is no run.
InsertFails(t) ==
  /\ phase[t] = "inserting"
  /\ budget > 0 /\ budget' = budget - 1
  /\ Idle(t)
  /\ lost' = lost \cup {t}
  /\ UNCHANGED <<clockVars, last, loopVars, row, blind, served>>

\* The function returns, raises or times out.
RunEnds(t) ==
  /\ phase[t] = "running"
  /\ Idle(t)
  /\ UNCHANGED <<clockVars, last, loopVars, row, blind, histVars, budget>>

\* An hour passes once nobody has anything to do in it.
Quiet ==
  up => /\ \A b \in Buckets : wake[b] > now /\ todo[b] = {}
        /\ \A t \in Tasks : phase[t] = "idle"

HourPasses ==
  /\ now < Horizon /\ Quiet
  /\ now' = now + 1
  /\ IF now' = WindowStart(now')
     THEN served' = [t \in Fixed |-> 0] /\ blind' = blind \ Fixed
     ELSE UNCHANGED <<served, blind>>
  /\ UNCHANGED <<up, since, last, loopVars, execVars, row, lost, budget>>

SchedulerNext ==
  \/ ProcessStarts \/ ProcessStops \/ HourPasses
  \/ \E b \in Buckets : LoopWakes(b) \/ \E t \in Bucket(b) : Consider(b, t)
  \/ \E t \in Tasks : RunNow(t) \/ InsertRow(t) \/ InsertFails(t) \/ RunEnds(t)

SchedulerSpec == SchedulerInit /\ [][SchedulerNext]_schedulerVars

-----------------------------------------------------------------------------
(* Properties *)

\* A window is served by at most one run of the loop, over restarts, interrupted
\* runs, failing reads and failing writes of the history: for boost_profile each
\* run is a write to the live profile.
OncePerWindow == \A t \in Fixed : served[t] <= 1

\* No window passes by a process that is there: when its last hour is over, a
\* process that was up before that hour has taken the task up, or could not read
\* whether it was served.
WindowIsTaken ==
  [][\A t \in Fixed :
       now' > now /\ up /\ since < now /\ InWindow(now) /\ ~InWindow(now')
         => last[t] >= WindowStart(now) \/ t \in blind]_schedulerVars

\* A task that catches up is never two intervals late once a process has been up
\* for an hour, however short the lives before it were, unless its last execution
\* here ended at a failing write of its row.
CatchesUp ==
  \A t \in CatchUp \ lost : up /\ since < now /\ Quiet
    => now - row[t] < 2 * Interval[t]
=============================================================================

--------------------------- MODULE ServerLifespan ---------------------------
(***************************************************************************)
(* Starting and stopping the server's background work: lifespan() and      *)
(* _warm_up() of naukri_server/__init__.py with the Readiness object of    *)
(* naukri_server/readiness.py.                                             *)
(*                                                                         *)
(* MCP sessions enter and leave the reference-counted lifespan; the first  *)
(* one in detaches the warm-up task, the last one out waits for it and     *)
(* stops what it built.  _lifespan_lock is held across the awaits of both. *)
(* Each loop a service runs is counted, since a module-level reference     *)
(* that is overwritten loses the loop it named.                            *)
(*                                                                         *)
(* Abstractions.  What the services and the browser do is elsewhere.  The  *)
(* JSON migration swallows its failures and is a phase that always ends.   *)
(***************************************************************************)
EXTENDS Integers, FiniteSets

CONSTANTS
  Sessions,       \* MCP sessions
  Nobody,         \* value of lock when it is free
  MaxLoops        \* bound: loops of one service counted

ASSUME SessionsAssumption == IsFiniteSet(Sessions) /\ Nobody \notin Sessions
ASSUME BoundsAssumption == MaxLoops \in Nat \ {0}

Services == {"watchdog", "probes", "scheduler"}
Phases == {"browser", "migration"} \cup Services

VARIABLES
  refs,           \* _lifespan_refs
  lock,           \* holder of _lifespan_lock
  pc,             \* where each session is in lifespan()
  warmup,         \* _warmup_task: "none", its phase, or "ended"
  readiness,      \* readiness._state
  browserEvent,   \* readiness._browser_event is set
  browser,        \* whether browser.start() left something to stop
  loops,          \* loops of each service that run
  named,          \* services whose module-level reference names a running loop
  calm            \* environment: init_db() succeeds and no session is cancelled

sessionVars == <<refs, lock, pc>>
readyVars == <<readiness, browserEvent>>
workVars == <<browser, loops, named>>
vars == <<sessionVars, warmup, readyVars, workVars, calm>>

TypeOK ==
  /\ refs \in Nat
  /\ lock \in Sessions \cup {Nobody}
  /\ pc \in [Sessions -> {"out", "init", "in", "draining", "browser"} \cup Services]
  /\ warmup \in {"none", "ended"} \cup Phases
  /\ readiness \in {"idle", "warming", "ready", "failed"}
  /\ browserEvent \in BOOLEAN /\ browser \in BOOLEAN
  /\ loops \in [Services -> 0..MaxLoops]
  /\ named \in SUBSET Services
  /\ calm \in BOOLEAN

Init ==
  /\ refs = 0 /\ lock = Nobody
  /\ pc = [s \in Sessions |-> "out"]
  /\ warmup = "none"
  /\ readiness = "idle" /\ browserEvent = FALSE
  /\ browser = FALSE
  /\ loops = [k \in Services |-> 0] /\ named = {}
  /\ calm \in BOOLEAN

-----------------------------------------------------------------------------
(* _warm_up() *)

Running == warmup \in Phases

\* The browser phase ends, with a browser or in REST-only mode.
BrowserStarts ==
  /\ warmup = "browser"
  /\ browser' \in BOOLEAN
  /\ browserEvent' = TRUE
  /\ warmup' = "migration"
  /\ UNCHANGED <<sessionVars, readiness, loops, named, calm>>

MigrationEnds ==
  /\ warmup = "migration"
  /\ warmup' = "watchdog"
  /\ UNCHANGED <<sessionVars, readyVars, workVars, calm>>

\* A service is created, started and named by its module; after the last one the
\* server is ready.
ServiceStarts(k) ==
  /\ warmup = k
  /\ loops[k] < MaxLoops
  /\ loops' = [loops EXCEPT ![k] = @ + 1]
  /\ named' = named \cup {k}
  /\ warmup' = CASE k = "watchdog" -> "probes"
                 [] k = "probes" -> "scheduler"
                 [] k = "scheduler" -> "ended"
  /\ readiness' = IF k = "scheduler" THEN "ready" ELSE readiness
  /\ UNCHANGED <<sessionVars, browserEvent, browser, calm>>

\* Mutant of WarmUpFails: only the state says so, waiters are not released.
WarmUpFails_KeepsWaiters ==
  /\ Running
  /\ readiness' = "failed"
  /\ warmup' = "ended"
  /\ UNCHANGED <<sessionVars, browserEvent, workVars, calm>>

\* A phase raises, such as ProfileLockedError out of browser.start().
WarmUpFails ==
  /\ Running /\ warmup # "migration"
  /\ readiness' = "failed"
  /\ browserEvent' = TRUE
  /\ warmup' = "ended"
  /\ UNCHANGED <<sessionVars, workVars, calm>>

\* The task is cancelled: a browser launch may be left half done.
WarmUpCancelled ==
  /\ warmup' = "ended"
  /\ browser' \in IF warmup = "browser" THEN BOOLEAN ELSE {browser}
  /\ UNCHANGED <<loops, named, calm>>

-----------------------------------------------------------------------------
(* lifespan(): entering *)

\* The reference is counted; the first session goes on to init_db() under the
\* lock, any other is in.
Enter(s) ==
  /\ pc[s] = "out" /\ lock = Nobody
  /\ refs' = refs + 1
  /\ \/ /\ refs = 0
        /\ lock' = s
        /\ pc' = [pc EXCEPT ![s] = "init"]
     \/ /\ refs > 0
        /\ pc' = [pc EXCEPT ![s] = "in"]
        /\ UNCHANGED lock
  /\ UNCHANGED <<warmup, readyVars, workVars, calm>>

InitDbEnds(s) ==
  /\ pc[s] = "init"
  /\ readiness' = "warming" /\ browserEvent' = FALSE
  /\ warmup' = "browser"
  /\ lock' = Nobody
  /\ pc' = [pc EXCEPT ![s] = "in"]
  /\ UNCHANGED <<refs, workVars, calm>>

\* init_db() raises or is cancelled: the session ends before its try block.
InitDbFails(s) ==
  /\ ~calm
  /\ pc[s] = "init"
  /\ lock' = Nobody
  /\ pc' = [pc EXCEPT ![s] = "out"]
  /\ UNCHANGED <<refs, warmup, readyVars, workVars, calm>>

-----------------------------------------------------------------------------
(* lifespan(): leaving *)

\* Mutant of Leave: the lock is given back before the teardown.
Leave_ReleasesLock(s) ==
  /\ pc[s] = "in" /\ lock = Nobody
  /\ refs' = refs - 1
  /\ pc' = [pc EXCEPT ![s] = IF refs = 1 THEN "draining" ELSE "out"]
  /\ UNCHANGED <<lock, warmup, readyVars, workVars, calm>>

\* The reference is given up; the last session goes on to tear down.
Leave(s) ==
  /\ pc[s] = "in" /\ lock = Nobody
  /\ refs' = refs - 1
  /\ \/ /\ refs = 1
        /\ lock' = s
        /\ pc' = [pc EXCEPT ![s] = "draining"]
     \/ /\ refs # 1
        /\ pc' = [pc EXCEPT ![s] = "out"]
        /\ UNCHANGED lock
  /\ UNCHANGED <<warmup, readyVars, workVars, calm>>

\* Mutant of Drain: the teardown does not wait for a warm-up in flight.
Drain_DoesNotWait(s) ==
  /\ pc[s] = "draining"
  /\ UNCHANGED <<warmup, workVars>>
  /\ readiness' = "idle" /\ browserEvent' = FALSE
  /\ pc' = [pc EXCEPT ![s] = "scheduler"]
  /\ UNCHANGED <<refs, lock, calm>>

\* The warm-up has ended, or is cancelled after WARMUP_SHUTDOWN_GRACE_SECONDS.
Drain(s) ==
  /\ pc[s] = "draining"
  /\ \/ ~Running /\ warmup' = "none" /\ UNCHANGED workVars
     \/ Running /\ WarmUpCancelled
  /\ readiness' = "idle" /\ browserEvent' = FALSE
  /\ pc' = [pc EXCEPT ![s] = "scheduler"]
  /\ UNCHANGED <<refs, lock, calm>>

\* stop() of the loop that the module names.
StopService(s, k) ==
  /\ pc[s] = k
  /\ loops' = [loops EXCEPT ![k] = IF k \in named THEN @ - 1 ELSE @]
  /\ named' = named \ {k}
  /\ pc' = [pc EXCEPT ![s] = CASE k = "scheduler" -> "probes"
                               [] k = "probes" -> "watchdog"
                               [] k = "watchdog" -> "browser"]
  /\ UNCHANGED <<refs, lock, warmup, readyVars, browser, calm>>

\* browser.stop(), close_api_session(), and the lock is released.
StopBrowser(s) ==
  /\ pc[s] = "browser"
  /\ browser' = FALSE
  /\ lock' = Nobody
  /\ pc' = [pc EXCEPT ![s] = "out"]
  /\ UNCHANGED <<refs, warmup, readyVars, loops, named, calm>>

\* The session is cancelled while it leaves: waiting for the lock, where its
\* reference is not given up, or in an await of the teardown, whose rest is
\* skipped.  The wait for the warm-up takes the warm-up with it.
LeaveCancelled(s) ==
  /\ ~calm
  /\ \/ /\ pc[s] = "in" /\ lock # Nobody
        /\ UNCHANGED <<lock, warmup, workVars>>
     \/ /\ pc[s] = "draining" /\ Running
        /\ WarmUpCancelled
        /\ lock' = Nobody
     \/ /\ pc[s] \in Services \cup {"browser"}
        /\ lock' = Nobody
        /\ UNCHANGED <<warmup, workVars>>
  /\ pc' = [pc EXCEPT ![s] = "out"]
  /\ UNCHANGED <<refs, readyVars, calm>>

-----------------------------------------------------------------------------
WarmUpStep == \/ BrowserStarts \/ MigrationEnds \/ WarmUpFails
              \/ \E k \in Services : ServiceStarts(k)

TearDownStep(s) == \/ Drain(s) \/ StopBrowser(s)
                   \/ \E k \in Services : StopService(s, k)

Next ==
  \/ WarmUpStep
  \/ \E s \in Sessions : \/ Enter(s) \/ InitDbEnds(s) \/ InitDbFails(s)
                         \/ Leave(s) \/ TearDownStep(s) \/ LeaveCancelled(s)

Spec == Init /\ [][Next]_vars

\* The warm-up proceeds and a teardown goes through: Drain is bounded by the
\* grace period, the stops are assumed to end.
LiveSpec == /\ Spec
            /\ WF_vars(WarmUpStep)
            /\ \A s \in Sessions : WF_vars(TearDownStep(s) \/ InitDbEnds(s))

-----------------------------------------------------------------------------
(* Properties *)

Members == {s \in Sessions : pc[s] \in {"init", "in"}}

\* Once the last session has left, nothing runs: "stops when last session ends".
\* It takes calm: a teardown that is cancelled skips its remaining stops.
NothingOutlivesSessions ==
  calm /\ lock = Nobody /\ Members = {} =>
    ~browser /\ ~Running /\ \A k \in Services : loops[k] = 0

\* No service runs twice: the loops the references do not name run for ever.
NoLostLoops ==
  calm => \A k \in Services : loops[k] = IF k \in named THEN 1 ELSE 0

\* The browser is never stopped under a warm-up that is launching it: "the one
\* ordering that can leave an orphan Chrome holding the profile".
NoStopDuringLaunch == \A s \in Sessions : pc[s] = "browser" => ~Running

\* A session that is in finds the warm-up begun: "browser starts once".
ServerAlwaysFound ==
  (\E s \in Sessions : pc[s] = "in") /\ lock = Nobody => readiness # "idle"

\* The same while init_db() succeeds and nobody is cancelled.
SessionsFindAServer == calm => ServerAlwaysFound

\* A tool that waits for the browser event is released or the server gone, unless
\* a cancelled teardown took the warm-up with it.
WaitersAreReleased ==
  (calm /\ readiness = "warming" /\ ~browserEvent)
    ~> (browserEvent \/ readiness = "idle")
=============================================================================

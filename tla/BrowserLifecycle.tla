-------------------------- MODULE BrowserLifecycle --------------------------
(***************************************************************************)
(* Who launches and who closes Chrome: class NaukriBrowser of              *)
(* naukri_server/browser.py with start(), stop(), _suspend(), _resume(),   *)
(* liveness() and the reaper loop, driven by                               *)
(*   - workers, tasks inside page_pool.acquire(), the only ones to resume  *)
(*     a suspended browser;                                                *)
(*   - the reaper, which suspends a browser nobody uses;                   *)
(*   - the restarters, the watchdog loop and the health probe that calls   *)
(*     the watchdog's _handle_failure() on its own;                        *)
(*   - reauthers, tasks inside reauth(), which restart the browser too.    *)
(*                                                                         *)
(* A launch is identified by the Playwright driver it starts; driver and   *)
(* Chrome of a launch carry the same number.  The pool appears only as     *)
(* what decides who launches: bound to a context, parked or absent, and    *)
(* its outstanding leases (PagePool has the rest).                         *)
(*                                                                         *)
(* Abstractions.  The idle clock may always have run out.  The watchdog's  *)
(* restart budget is a bound on launches, MaxLaunches.  The lock file is   *)
(* the pair holdsProfile, rival: which process it names (ProfileLock has   *)
(* the protocol on the file).  Token extraction is one await of a launch.  *)
(***************************************************************************)
EXTENDS Integers, FiniteSets

CONSTANTS
  Workers,        \* tasks that need a page
  Loop,           \* the watchdog's monitor loop
  Triggers,       \* health probes that call _handle_failure(): at most one
  Reauthers,      \* tasks inside reauth()
  MaxTabs,        \* NAUKRI_MAX_TABS
  MaxLaunches,    \* bound: launches of Chrome in a behaviour
  RoughLaunches,  \* that bound in the rough environment
  RoughWorkers,   \* bound: the workers there are in it
  MayWedge,       \* whether Chrome may stop answering without dying
  MayCancel,      \* whether a task that resumes may be cancelled
  NoOne, Reaper   \* values of lock besides a worker

ASSUME ActorsAssumption ==
  /\ IsFiniteSet(Workers) /\ RoughWorkers \subseteq Workers
  /\ {Loop} \cap Triggers = {} /\ Workers \cap ({Loop} \cup Triggers) = {}
  /\ Reauthers \cap (Workers \cup {Loop} \cup Triggers) = {}
  /\ {NoOne, Reaper} \cap (Workers \cup {Loop} \cup Triggers \cup Reauthers) = {}
  /\ NoOne # Reaper
ASSUME BoundsAssumption == /\ MaxTabs \in Nat \ {0}
                           /\ MaxLaunches \in Nat \ {0}
                           /\ RoughLaunches \in 1..MaxLaunches
                           /\ MayWedge \in BOOLEAN /\ MayCancel \in BOOLEAN

Restarters == {Loop} \cup Triggers
Starters == Restarters \cup Reauthers
Tasks == Workers \cup Starters
Launches == 1..MaxLaunches

VARIABLES
  lock,           \* holder of _suspend_lock
  suspended,      \* browser._suspended
  available,      \* browser.available
  pw, ctx,        \* browser.pw and browser.context; 0 is None
  pool,           \* browser.page_pool: "none", "bound" to a context or "parked"
  leases,         \* workers counted by outstanding_leases() of that pool
  orphaned,       \* workers waiting inside a pool the browser has dropped
  reaper,         \* "off", "loop", or the step of _suspend() it is in
  pc,             \* where each task is
  mine,           \* the launch or the captured handles each task works on
  strikes,        \* the watchdog's _consecutive_failures, up to 2
  launches,       \* launches begun so far
  drivers,        \* environment: Playwright drivers running
  chrome,         \* environment: Chrome processes running on the profile
  wedged,         \* environment: those that do not answer
  holdsProfile,   \* _holds_profile_lock: the lock file names this process
  rival,          \* another process holds the profile lock and runs Chrome
  env             \* "calm", or "rough": Chrome may wedge, and whoever may restart
                  \* the browser besides the loop, or cancel a resume, does

browserVars == <<lock, suspended, available, pw, ctx, pool>>
leaseVars == <<leases, orphaned>>
taskVars == <<reaper, pc, mine, strikes, launches>>
worldVars == <<drivers, chrome, wedged, holdsProfile, rival, env>>
vars == <<browserVars, leaseVars, taskVars, worldVars>>

Opening == {"driver", "launch", "bind"}
NoHandles == [pw |-> 0, ctx |-> 0]
Handles == [pw : 0..MaxLaunches, ctx : 0..MaxLaunches]

TypeOK ==
  /\ lock \in Workers \cup {NoOne, Reaper}
  /\ suspended \in BOOLEAN /\ available \in BOOLEAN
  /\ pw \in 0..MaxLaunches /\ ctx \in 0..MaxLaunches
  /\ pool \in {"none", "bound", "parked"}
  /\ leases \in SUBSET Workers /\ orphaned \in SUBSET Workers
  /\ reaper \in {"off", "loop", "parking", "closing"}
  /\ pc \in [Tasks -> {"idle", "wantLock", "using", "stopping", "starting",
                         "validate"} \cup Opening]
  /\ mine \in [Tasks \cup {Reaper} -> Handles]
  /\ strikes \in 0..2
  /\ launches \in 0..MaxLaunches
  /\ drivers \in SUBSET Launches
  /\ chrome \in SUBSET drivers /\ wedged \in SUBSET chrome
  /\ holdsProfile \in BOOLEAN /\ rival \in BOOLEAN
  /\ env \in {"calm", "rough"}

\* The first start() has succeeded.
Init ==
  /\ lock = NoOne /\ suspended = FALSE /\ available = TRUE
  /\ pw = 1 /\ ctx = 1 /\ pool = "bound"
  /\ leases = {} /\ orphaned = {}
  /\ reaper = "loop"
  /\ pc = [t \in Tasks |-> "idle"]
  /\ mine = [t \in Tasks \cup {Reaper} |-> NoHandles]
  /\ strikes = 0
  /\ launches = 1
  /\ drivers = {1} /\ chrome = {1} /\ wedged = {}
  /\ holdsProfile = TRUE /\ rival = FALSE
  /\ env \in {"calm", "rough"}

-----------------------------------------------------------------------------
(* _open_context(), shared by start() and _resume() *)

\* Chromes that go when these handles are closed: context.close() ends the
\* context's Chrome, pw.stop() every Chrome of the driver.
ClosedBy(h) == chrome \cap {h.pw, h.ctx}

\* context.close() and playwright.stop() on these handles, which a Chrome that
\* answers lets through.
Close(h) ==
  /\ wedged \cap ClosedBy(h) = {}
  /\ chrome' = chrome \ ClosedBy(h)
  /\ drivers' = drivers \ {h.pw}
  /\ UNCHANGED wedged

\* The bound on launches, those counted that restarts in progress will make.
LaunchesLeft ==
  launches + Cardinality({t \in Starters : pc[t] \in {"stopping", "starting"}})
    < IF env = "rough" THEN RoughLaunches ELSE MaxLaunches

\* A task sets out to start a driver.
OpenBegins(t) ==
  /\ launches' = launches + 1
  /\ mine' = [mine EXCEPT ![t] = [pw |-> launches + 1, ctx |-> launches + 1]]
  /\ pc' = [pc EXCEPT ![t] = "driver"]

\* async_playwright().start() answered; launch_persistent_context() is called.
DriverStarts(t) ==
  /\ pc[t] = "driver"
  /\ drivers' = drivers \cup {mine[t].pw}
  /\ pw' = mine[t].pw
  /\ pc' = [pc EXCEPT ![t] = "launch"]
  /\ UNCHANGED <<lock, suspended, available, ctx, pool, leaseVars, reaper, mine,
                 strikes, launches, chrome, wedged, holdsProfile, rival, env>>

\* The persistent context is up and bound to the token manager; extract() runs.
ChromeStarts(t) ==
  /\ pc[t] = "launch"
  /\ mine[t].pw \in drivers
  /\ chrome' = chrome \cup {mine[t].ctx}
  /\ ctx' = mine[t].ctx
  /\ pc' = [pc EXCEPT ![t] = "bind"]
  /\ UNCHANGED <<lock, suspended, available, pw, pool, leaseVars, reaper, mine,
                 strikes, launches, drivers, wedged, holdsProfile, rival, env>>

\* A launch abandoned by its task may still produce a Chrome.
LateChrome(t) ==
  /\ \/ UNCHANGED chrome
     \/ /\ pc[t] = "launch" /\ mine[t].pw \in drivers
        /\ chrome' = chrome \cup {mine[t].ctx}
  /\ UNCHANGED <<drivers, wedged, holdsProfile, rival, env>>

-----------------------------------------------------------------------------
(* Workers: acquire() and _resume() *)

\* Of acquire(): a lease is counted on a bound pool; a parked pool sends its
\* caller to _resume(); without a pool the call is refused.
Acquire(w) ==
  /\ pc[w] = "idle"
  /\ env = "rough" => w \in RoughWorkers
  /\ \/ /\ pool = "bound"
        /\ leases' = leases \cup {w}
        /\ pc' = [pc EXCEPT ![w] = "using"]
     \/ /\ pool = "parked"
        /\ pc' = [pc EXCEPT ![w] = "wantLock"]
        /\ UNCHANGED leases
  /\ UNCHANGED <<browserVars, orphaned, reaper, mine, strikes, launches,
                 worldVars>>

\* The finally block of acquire(), counted on the pool the page came from.
Release(w) ==
  /\ pc[w] = "using"
  /\ leases' = leases \ {w}
  /\ pc' = [pc EXCEPT ![w] = "idle"]
  /\ UNCHANGED <<browserVars, orphaned, reaper, mine, strikes, launches,
                 worldVars>>

\* After _resume() returned: acquire() goes on if its own pool is bound now.
GoesOn(w, p) ==
  IF p = "bound" /\ w \notin orphaned
    THEN /\ pc' = [pc EXCEPT ![w] = "using"]
         /\ leases' = leases \cup {w}
    ELSE /\ pc' = [pc EXCEPT ![w] = "idle"]
         /\ UNCHANGED leases

\* _resume() gets the lock and finds the browser no longer suspended.
ResumeFindsWorkDone(w) ==
  /\ pc[w] = "wantLock"
  /\ lock = NoOne
  /\ ~suspended
  /\ GoesOn(w, pool)
  /\ orphaned' = orphaned \ {w}
  /\ UNCHANGED <<browserVars, reaper, mine, strikes, launches, worldVars>>

\* _resume() gets the lock and opens a context.
ResumeBegins(w) ==
  /\ pc[w] = "wantLock"
  /\ lock = NoOne
  /\ suspended
  /\ LaunchesLeft
  /\ lock' = w
  /\ OpenBegins(w)
  /\ UNCHANGED <<suspended, available, pw, ctx, pool, leaseVars, reaper,
                 strikes, worldVars>>

\* The rest of _open_context() and of _resume(): the pool is bound (a new one if
\* a stop() dropped it meanwhile), the flags are set, the reaper is installed,
\* the lock is released and acquire() goes on.
ResumeEnds(w) ==
  /\ pc[w] = "bind"
  /\ ctx # 0
  /\ pool' = "bound"
  /\ suspended' = FALSE
  /\ available' = TRUE
  /\ reaper' = IF reaper = "off" THEN "loop" ELSE reaper
  /\ lock' = NoOne
  /\ GoesOn(w, "bound")
  /\ orphaned' = orphaned \ {w}
  /\ mine' = [mine EXCEPT ![w] = NoHandles]
  /\ UNCHANGED <<pw, ctx, strikes, launches, worldVars>>

\* Mutant of ResumeFails: the browser stays flagged suspended.
ResumeFails_StaysSuspended(w) ==
  /\ pc[w] \in Opening
  /\ available' = FALSE
  /\ lock' = NoOne
  /\ pc' = [pc EXCEPT ![w] = "idle"]
  /\ orphaned' = orphaned \ {w}
  /\ mine' = [mine EXCEPT ![w] = NoHandles]
  /\ UNCHANGED <<suspended, pw, ctx, pool, leases, reaper, strikes, launches,
                 worldVars>>

\* _open_context() raised: the browser is left DOWN, its handles where they are.
\* In the last phase self.context may be None, when a stop() came between.
ResumeFails(w) ==
  /\ pc[w] \in Opening
  /\ suspended' = FALSE
  /\ available' = FALSE
  /\ lock' = NoOne
  /\ pc' = [pc EXCEPT ![w] = "idle"]
  /\ orphaned' = orphaned \ {w}
  /\ mine' = [mine EXCEPT ![w] = NoHandles]
  /\ UNCHANGED <<pw, ctx, pool, leases, reaper, strikes, launches, worldVars>>

\* The task is cancelled (TOKEN_REFRESH_TIMEOUT around a refresh, the tool
\* budget): _resume() has no handler for it, only the lock is released.
ResumeCancelled(w) ==
  /\ MayCancel /\ env = "rough"
  /\ pc[w] \in {"wantLock"} \cup Opening
  /\ LateChrome(w)
  /\ lock' = IF lock = w THEN NoOne ELSE lock
  /\ pc' = [pc EXCEPT ![w] = "idle"]
  /\ orphaned' = orphaned \ {w}
  /\ mine' = [mine EXCEPT ![w] = NoHandles]
  /\ UNCHANGED <<suspended, available, pw, ctx, pool, leases, reaper, strikes,
                 launches>>

-----------------------------------------------------------------------------
(* The reaper: _maybe_suspend() and _suspend() *)

\* All conditions hold under the lock: the browser is marked unavailable and
\* the pages of the pool are being closed.
SuspendBegins ==
  /\ reaper = "loop"
  /\ lock = NoOne
  /\ available /\ ~suspended
  /\ pool = "bound" /\ leases = {}
  /\ lock' = Reaper
  /\ available' = FALSE
  /\ mine' = [mine EXCEPT ![Reaper] = [pw |-> pw, ctx |-> ctx]]
  /\ reaper' = "parking"
  /\ UNCHANGED <<suspended, pw, ctx, pool, leaseVars, pc, strikes, launches,
                 worldVars>>

\* park() ends: every page is closed and the pool refuses or resumes from here.
PoolParks ==
  /\ reaper = "parking"
  /\ mine[Reaper].ctx \notin wedged
  /\ pool' = "parked"
  /\ reaper' = "closing"
  /\ UNCHANGED <<lock, suspended, available, pw, ctx, leaseVars, pc, mine,
                 strikes, launches, worldVars>>

\* Mutant of SuspendEnds: the lock is not released.
SuspendEnds_KeepsLock ==
  /\ reaper = "closing"
  /\ Close(mine[Reaper])
  /\ ctx' = 0 /\ pw' = 0
  /\ suspended' = TRUE
  /\ reaper' = "loop"
  /\ mine' = [mine EXCEPT ![Reaper] = NoHandles]
  /\ UNCHANGED <<lock, available, pool, leaseVars, pc, strikes, launches,
                 holdsProfile, rival, env>>

\* Context and driver are closed, the suspension is declared, the lock released.
SuspendEnds ==
  /\ reaper = "closing"
  /\ Close(mine[Reaper])
  /\ ctx' = 0 /\ pw' = 0
  /\ suspended' = TRUE
  /\ lock' = NoOne
  /\ reaper' = "loop"
  /\ mine' = [mine EXCEPT ![Reaper] = NoHandles]
  /\ UNCHANGED <<available, pool, leaseVars, pc, strikes, launches,
                 holdsProfile, rival, env>>

-----------------------------------------------------------------------------
(* stop() *)

\* The browser is marked unavailable and the reaper cancelled, which gives the
\* lock back if _suspend() held it; the handles to close are captured.
StopBegins(t) ==
  /\ available' = FALSE
  /\ reaper' = "off"
  /\ lock' = IF lock = Reaper THEN NoOne ELSE lock
  /\ mine' = [mine EXCEPT ![t] = [pw |-> pw, ctx |-> ctx],
                          ![Reaper] = NoHandles]
  /\ pc' = [pc EXCEPT ![t] = "stopping"]
  /\ UNCHANGED <<suspended, pw, ctx, pool, leaseVars, launches, worldVars>>

\* The browser has no pool any more: leases and waiters of the old one are left
\* to themselves.
DropPool ==
  /\ pool' = "none"
  /\ leases' = {}
  /\ orphaned' = orphaned \cup {w \in Workers : pc[w] \in {"wantLock"} \cup Opening}

\* The captured handles are closed and every reference is cleared; the profile
\* lock is released.
StopEnds(t) ==
  /\ pc[t] = "stopping"
  /\ Close(mine[t])
  /\ DropPool
  /\ ctx' = 0 /\ pw' = 0
  /\ suspended' = FALSE
  /\ holdsProfile' = FALSE
  /\ pc' = [pc EXCEPT ![t] = "starting"]
  /\ mine' = [mine EXCEPT ![t] = NoHandles]
  /\ UNCHANGED <<lock, available, reaper, strikes, launches, rival, env>>

\* BROWSER_RESTART_TIMEOUT on stop(), which only a wedged Chrome takes: the
\* watchdog starts anyway.
StopTimesOut(t) ==
  /\ t \in Restarters
  /\ pc[t] = "stopping"
  /\ wedged \cap ClosedBy(mine[t]) # {}
  /\ pc' = [pc EXCEPT ![t] = "starting"]
  /\ mine' = [mine EXCEPT ![t] = NoHandles]
  /\ UNCHANGED <<browserVars, leaseVars, reaper, strikes, launches, worldVars>>

-----------------------------------------------------------------------------
(* start() *)

\* Mutant of StartBegins: the profile lock is not consulted.
StartBegins_NoProfileLock(t) ==
  /\ pc[t] = "starting"
  /\ holdsProfile' = TRUE
  /\ OpenBegins(t)
  /\ UNCHANGED <<browserVars, leaseVars, reaper, strikes, drivers, chrome,
                 wedged, rival, env>>

\* profile_lock.acquire() succeeds, also when this process holds the lock
\* already, and _open_context() begins.
StartBegins(t) ==
  /\ pc[t] = "starting"
  /\ ~rival
  /\ holdsProfile' = TRUE
  /\ OpenBegins(t)
  /\ UNCHANGED <<browserVars, leaseVars, reaper, strikes, drivers, chrome,
                 wedged, rival, env>>

\* ProfileLockedError: another live process owns the profile.
StartRefused(t) ==
  /\ pc[t] = "starting"
  /\ rival
  /\ pc' = [pc EXCEPT ![t] = "idle"]
  /\ UNCHANGED <<browserVars, leaseVars, reaper, mine, strikes, launches,
                 worldVars>>

\* _open_context() returns; the session is validated over REST.
StartValidates(t) ==
  /\ t \in Starters
  /\ pc[t] = "bind"
  /\ ctx # 0
  /\ pool' = "bound"
  /\ pc' = [pc EXCEPT ![t] = "validate"]
  /\ UNCHANGED <<lock, suspended, available, pw, ctx, leaseVars, reaper, mine,
                 strikes, launches, worldVars>>

\* A restart resets the watchdog's count whatever became of it: start()
\* swallows its failures.
RestartCounted(t) == strikes' = IF t \in Restarters THEN 0 ELSE strikes

\* The flags are set and the reaper is installed.
StartEnds(t) ==
  /\ pc[t] = "validate"
  /\ available' = TRUE
  /\ suspended' = FALSE
  /\ reaper' = IF reaper = "off" THEN "loop" ELSE reaper
  /\ pc' = [pc EXCEPT ![t] = "idle"]
  /\ mine' = [mine EXCEPT ![t] = NoHandles]
  /\ RestartCounted(t)
  /\ UNCHANGED <<lock, pw, ctx, pool, leaseVars, launches, worldVars>>

\* _open_context() raised: whatever the browser refers to is closed and dropped,
\* the profile lock is released, the exception is swallowed.
StartFails(t) ==
  /\ t \in Starters
  /\ pc[t] \in Opening
  /\ Close([pw |-> pw, ctx |-> ctx])
  /\ available' = FALSE
  /\ DropPool
  /\ ctx' = 0 /\ pw' = 0
  /\ holdsProfile' = FALSE
  /\ pc' = [pc EXCEPT ![t] = "idle"]
  /\ mine' = [mine EXCEPT ![t] = NoHandles]
  /\ RestartCounted(t)
  /\ UNCHANGED <<lock, suspended, reaper, launches, rival, env>>

\* BROWSER_RESTART_TIMEOUT on start(): nothing is cleaned up.
StartTimesOut(t) ==
  /\ t \in Restarters
  /\ pc[t] \in Opening
  /\ wedged # {}
  /\ LateChrome(t)
  /\ pc' = [pc EXCEPT ![t] = "idle"]
  /\ mine' = [mine EXCEPT ![t] = NoHandles]
  /\ UNCHANGED <<browserVars, leaseVars, reaper, strikes, launches>>

-----------------------------------------------------------------------------
(* liveness(), the watchdog and reauth() *)

TrulySuspended == suspended /\ pw = 0 /\ ctx = 0 /\ pool = "parked"

\* A probe gets a tab in time and the tab answers.
Answers == /\ ~suspended /\ available
           /\ pool = "bound"
           /\ ctx \in chrome \ wedged
           /\ Cardinality(leases) < MaxTabs

\* What liveness() reports; while the lock is held the probe runs out of time.
Healthy == lock = NoOne /\ (TrulySuspended \/ Answers)

\* Mutant of AttemptRestart: a suspended browser is restarted like any other.
AttemptRestart_EvenSuspended(t) ==
  \/ LaunchesLeft /\ StopBegins(t)
  \/ /\ ~LaunchesLeft
     /\ UNCHANGED <<browserVars, leaseVars, reaper, pc, mine, launches,
                    worldVars>>

\* _attempt_restart(), if the budget allows one: a browser flagged suspended is
\* left alone.
AttemptRestart(t) ==
  \/ LaunchesLeft /\ ~suspended /\ StopBegins(t)
  \/ /\ ~LaunchesLeft \/ suspended
     /\ UNCHANGED <<browserVars, leaseVars, reaper, pc, mine, launches,
                    worldVars>>

\* One cycle of the monitor loop.
ProbeSucceeds ==
  /\ pc[Loop] = "idle"
  /\ Healthy
  /\ strikes' = 0
  /\ UNCHANGED <<browserVars, leaseVars, reaper, pc, mine, launches, worldVars>>

ProbeFails ==
  /\ pc[Loop] = "idle"
  /\ ~Healthy
  /\ strikes' = IF strikes < 2 THEN strikes + 1 ELSE 2
  /\ IF strikes' = 2
       THEN AttemptRestart(Loop)
       ELSE UNCHANGED <<browserVars, leaseVars, reaper, pc, mine, launches,
                        worldVars>>

\* The browser.liveness probe found the browser unhealthy and calls
\* _handle_failure(), which reads the loop's count.
TriggerFires(t) ==
  /\ env = "rough"
  /\ pc[t] = "idle"
  /\ ~Healthy
  /\ strikes = 2
  /\ AttemptRestart(t)
  /\ UNCHANGED strikes

\* Stage two of reauth(): stop() and start(), whatever the browser is doing.
ReauthRestarts(t) ==
  /\ env = "rough"
  /\ pc[t] = "idle"
  /\ LaunchesLeft
  /\ StopBegins(t)
  /\ UNCHANGED strikes

-----------------------------------------------------------------------------
(* Chrome and the other process *)

ChromeDies ==
  /\ \E n \in chrome : chrome' = chrome \ {n} /\ wedged' = wedged \ {n}
  /\ UNCHANGED <<browserVars, leaseVars, taskVars, drivers, holdsProfile,
                 rival, env>>

ChromeWedges ==
  /\ MayWedge /\ env = "rough"
  /\ \E n \in chrome \ wedged : wedged' = wedged \cup {n}
  /\ UNCHANGED <<browserVars, leaseVars, taskVars, drivers, chrome,
                 holdsProfile, rival, env>>

RivalStarts ==
  /\ ~holdsProfile /\ ~rival
  /\ rival' = TRUE
  /\ UNCHANGED <<browserVars, leaseVars, taskVars, drivers, chrome, wedged,
                 holdsProfile, env>>

RivalStops ==
  /\ rival
  /\ rival' = FALSE
  /\ UNCHANGED <<browserVars, leaseVars, taskVars, drivers, chrome, wedged,
                 holdsProfile, env>>

-----------------------------------------------------------------------------
LaunchStep(t) == DriverStarts(t) \/ ChromeStarts(t)

ResumeStep(w) == \/ ResumeFindsWorkDone(w) \/ ResumeBegins(w)
                 \/ ResumeEnds(w) \/ ResumeFails(w)

SuspendStep == PoolParks \/ SuspendEnds

RestartStep(t) == \/ StopEnds(t) \/ StopTimesOut(t)
                  \/ StartBegins(t) \/ StartRefused(t)
                  \/ StartValidates(t) \/ StartEnds(t)
                  \/ StartFails(t) \/ StartTimesOut(t)

Next ==
  \/ \E t \in Tasks : LaunchStep(t)
  \/ \E w \in Workers : \/ Acquire(w) \/ Release(w)
                        \/ ResumeStep(w) \/ ResumeCancelled(w)
  \/ SuspendBegins \/ SuspendStep
  \/ \E t \in Starters : RestartStep(t)
  \/ ProbeSucceeds \/ ProbeFails
  \/ \E t \in Triggers : TriggerFires(t)
  \/ \E t \in Reauthers : ReauthRestarts(t)
  \/ ChromeDies \/ ChromeWedges \/ RivalStarts \/ RivalStops

Spec == Init /\ [][Next]_vars

\* Launches and closings of a Chrome that answers end, a wedged one runs into
\* BROWSER_RESTART_TIMEOUT, leases are given back, the monitor loop keeps
\* probing.  Nothing obliges a worker to acquire or the reaper to suspend.
LiveSpec ==
  /\ Spec
  /\ \A t \in Tasks : WF_vars(LaunchStep(t))
  /\ \A w \in Workers : WF_vars(ResumeStep(w)) /\ WF_vars(Release(w))
  /\ WF_vars(SuspendStep)
  /\ \A t \in Starters : WF_vars(RestartStep(t))
  /\ WF_vars(ProbeSucceeds \/ ProbeFails)

-----------------------------------------------------------------------------
(* Properties *)

\* While the watchdog loop alone restarts the browser, suspends, resumes, restarts,
\* crashes and a second process never put two Chromes on the profile: start() says
\* that two instances on one user-data-dir corrupt it.
OneChrome ==
  env = "calm" => Cardinality(chrome) + (IF rival THEN 1 ELSE 0) <= 1

\* A Chrome of this process runs only while the lock file names the process.
ChromeUnderProfileLock == env = "calm" /\ chrome # {} => holdsProfile

\* The suspend lock does not stay held while restarts are left, although
\* _suspend() awaits the closing of a Chrome that may never answer: the stop()
\* of the watchdog cancels the reaper.
LockIsReturned == (lock # NoOne) ~> (lock = NoOne \/ ~LaunchesLeft)

\* A browser reported DOWN does not stay down while launches are left and no
\* other process owns the profile.
Recovers == env = "calm" /\ ~Healthy ~> (Healthy \/ ~LaunchesLeft \/ rival)
=============================================================================

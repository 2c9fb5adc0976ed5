# Naukri MCP server: TLA+ specifications

The server is one asyncio process. MCP sessions call its tools; tools reach naukri.com
through REST calls and through tabs of one persistent Chrome profile; background loops
watch the browser, probe health, repair parsers and run scheduled tasks. This directory
models the parts of it that are hard to test: what happens when those tasks, the loops,
an unresponsive Chrome, a site that fails or blocks, crashes and a second server process
interleave.

Paths below are relative to `src/naukri_server/`. All concurrency inside the process is
cooperative, so an action of a model is the code between two awaits.

1. [Inventory](#1-inventory)
2. [Modules and how they correspond to the code](#2-modules-and-how-they-correspond-to-the-code)
3. [Runs](#3-runs)
4. [Bounds](#4-bounds)
5. [Fairness](#5-fairness)
6. [Proofs](#6-proofs)
7. [Where the code and its documentation disagree](#7-where-the-code-and-its-documentation-disagree)
8. [What is not modelled](#8-what-is-not-modelled)
9. [What could come next](#9-what-could-come-next)

To check a run, `tlc -config <cfg> <module>`; to check the proofs, `tlapm` for each of
the eight modules named `...Proofs`.

## 1. Inventory

### The browser side

**Page pool** (`browser.py`, class `PagePool`). State: a semaphore, the queue of idle
tabs, the list of all tabs, counters of checkouts and returns, a circuit breaker.
Operations: `initialize`, `acquire` (an async context manager with many awaits),
`_create_page`, `_recover_page`, `reap_idle_pages`, `reset_circuit`, `close_all`,
`park`, `rebind_context`. Called by every tool that needs a page, by the token manager,
by `liveness()` and by the reaper. Hard: three books on the same tabs kept by hand
across awaits; cancellation at each of them; tabs and browsers that neither answer nor
raise; late results of old leases. Correct when the books agree, the limit holds, no
permit is lost, a tab has one user and every checkout ends.

**Browser and idle suspension** (`browser.py`, class `NaukriBrowser`). State: the
handles `pw` and `context`, the flags `available` and `_suspended`, `_suspend_lock`, the
pool, the reaper task, whether the profile lock is held. Operations: `start`, `stop`,
`_open_context`, `_suspend`, `_resume`, `liveness`. Called by the lifespan, the
watchdog, the health probe, `reauth()`, and, through `acquire()`, by any task. Hard:
`start` and `stop` do not take the lock that suspend and resume take; each is several
awaits long and may be cancelled or time out in any of them. Correct when one Chrome at
most runs on the profile and only under the profile lock, the lock comes back, and a
browser that died returns.

**Watchdog** (`browser_watchdog.py`). State: failures in a row, restarts made, time of
the last one, whether giving up was announced. Operations: one cycle of the monitor
loop, `_handle_failure`, `_attempt_restart`. `_handle_failure` is also called from
`health/framework.py`, by another task. Correct when the restart budget bounds restarts
and an outage without end is announced.

**Profile lock** (`profile_lock.py`). State: a pid file and a temporary file, shared by
processes. Operations: `acquire`, `release`, at process death neither. Correct when one
live process uses the profile and a dead one blocks nobody.

**Lifespan and readiness** (`__init__.py`, `readiness.py`). State: a reference count
under a lock, the warm-up task, module-level references to watchdog, probe scheduler and
task scheduler, a state and an event tools wait on. Operations: entering and leaving the
lifespan, the phases of `_warm_up`. Correct when the server starts once, is torn down
completely after the last session, never stops a browser that is being launched, and
releases those who wait for it.

### The REST side

**Token manager** (`browser.py`, class `TokenManager`): the cached token, a refresh lock
with a timeout for waiting and another for the holder. Operations: `ensure_token`,
`extract`, `invalidate`, `refresh_via_pool`. Hard: a storm of 401s must lead to one
refresh; the holder may be cut off; the cache is written by one task while another waits
for Chrome. **REST client** (`api.py`): `_api_request` with its retries after 401, bot
check, 429, transient and transport errors, and a process-wide circuit breaker. Correct
when every request ends, an expired session is reported only when it has expired, and
the circuit closes after the trouble.

### The apply side

**Apply path** (`tools/apply.py`, `services/apply_service.py`,
`services/application_service.py`, `sagas.py`): duplicate check, composite lock, kill
switch, quota, limiter, POST, questionnaire, record. Its callers are the tool
`naukri_apply` (`apply_with_saga()`), the batch tool, the autonomous agent (`agent.py`)
and the sweep over pending questions (`scheduler_tasks.py`); some other tools call
`_apply_single()` on their own (section 8). **Kill switch** (`kill_switch.py`): tripped
by evidence of a block, persisted, cleared by the operator. Hard: every check is
separated by awaits from the POST it guards, the callers take different locks, and calls
are cut off after the POST. Correct when nobody applies again to what it has applied to,
the quota is a limit, nothing is submitted after a trip, a trip outlives a crash, and
the rows say what Naukri has.

**Profile writes** (`tools/profile_sections.py`, `profile_snapshot.py`,
`profile_restore.py`, `profile_update.py`, `profile_write.py`): every write to the live
profile reads the section, saves a snapshot, sends, reads again and compares. Hard:
nothing is locked, a whole list is rebuilt from an old read, answers get lost and
requests are repeated. Correct when "updated" is only said of what was measured, other
rows survive, and there is a way back.

### Background work

**Task scheduler** (`scheduler.py`): one loop per interval, per-task locks, windows at a
fixed hour, catching up, seeding from the persisted runs. Correct when a window is
served once, over restarts and failing reads, and none passes by.

**Self-healing** (`healing/`, `probes/api_validator.py`): a probe finds that a response
has drifted, the router has an alias added to the parser, verified in a dry run and
committed; for endpoints that feed decisions a scheduled task confirms the fix or
reverts it. State: git's index and history, files on disk, the rows of
`auto_fix_pending`, baselines in memory, a circuit. Correct when an unverified fix is
watched, a healer disabled by a failed revert stays so, a fix that works stays.

**Event bus and subscribers** (`events.py`, `subscribers.py`): `emit` awaits its
subscribers under a depth counter that all tasks share. **Sagas and workflows**
(`sagas.py`, `workflows.py`): steps with timeouts and compensations; the step around an
apply is part of the apply path.

### Parts with little or no state of their own

Session and authentication service (`services/session_service.py`; the browser restart
inside `reauth()` is modelled), health probes (`health/`; the paths to the watchdog and
to the healer are modelled), database, OAuth provider, auth bridge, policy and
configuration, answer cache, scoring and domain objects, tools, services, dispatch and
error mapping, dashboard, prompts and resources, scripts. Section 8 gives the reasons.

### How the parts interact

```
 sessions --> lifespan --> warm-up --> browser.start --> profile lock
                             |              ^
                             v              | stop/start
      watchdog, probes, task scheduler -----+--- reauth()
          |        |            |
          |        +--> healer  +--> agent, sweep, verifier of fixes
          v  _handle_failure()              |
      liveness()                            v
          |           single and batch apply --> kill switch, quota, rows
          |                                 |
          |            profile writes ------+--> _api_request --> naukri.com
          |                                 |         |
          |                                 |    token manager
          v                                 v         v
      PagePool.acquire <--------------------+---------+
          |        ^
          v        |  _suspend_lock
      _resume   _suspend <-- reaper
          |
          v
      _open_context --> Chrome
```

## 2. Modules and how they correspond to the code

| Module | Models | Theorems in |
| --- | --- | --- |
| `TabLeases` | what the pool promises: a bounded set of tabs, each lent to one client | |
| `PagePool` | class `PagePool` between `initialize` and `close_all`; implements `TabLeases` | `PagePoolProofs` |
| `SuspendablePool` | the pool across suspend and resume; extends `PagePool` | `PagePoolProofs` |
| `BrowserLifecycle` | who launches and who closes Chrome | `BrowserLifecycleProofs` |
| `Watchdog` | failures, restart budget, announcements | `ChromeGuardProofs` |
| `ProfileLock` | the pid file, one file-system call per step | `ChromeGuardProofs` |
| `ServerLifespan` | sessions, warm-up, teardown, readiness | `ServerProofs` |
| `RestClient` | token manager, `_api_request()`, its circuit breaker | `RestClientProofs` |
| `ApplyPath` | four kinds of callers, quota, kill switch, rows | `ApplyPathProofs` |
| `ProfileWrites` | verified writes, updates of several fields, restores | `ProfileWritesProofs` |
| `Scheduler` | loops, windows, catching up, persisted runs | `ServerProofs` |
| `Healing` | drift, fixes, verification, reverts | `HealingProofs` |
| `MC...` | instances for TLC, with symmetry sets | |

An operator named `Action_Something`, with a comment that begins "Mutant of", is a
plausible bug in the code behind `Action`. No specification uses it; it is there so that
each property can be shown to notice that bug.

### PagePool

State. `permits` is the value of `_semaphore`; `outstanding` is `_checkouts - _returns`;
`available`, `all_pages`, `circuit_state`, `failure_count` are the attributes of those
names; `cooled` says that `_circuit_cooldown` has elapsed; `pc` and `page` are the place
of each task in `acquire()` and its local variable `page`; `closing` holds the tabs the
reaper has taken out and is closing. Of the environment: `tabs` open in Chrome, those
that are `alive`, and the `context`, which may be wedged (neither answers nor errors).

Actions. `Admit` is the circuit check, `Checkout` the semaphore together with the choice
of a tab that follows it without an await, `CheckoutTimesOut` its timeout. `OpenTab`,
`OpenTabFails`, `OpenTabCancelled` are the outcomes of `new_page()` in `_create_page`
and `_recover_page`, `TabAnswers` and `TabDoesNotAnswer` those of `is_page_alive()`.
`BodySucceeds`, `BodyRaises`, `BodyAborts` are the ends of the `with` block; each
contains `Finish`, the `finally` block. `ReapIdlePages` and `CloseDoomed` are the two
halves of `reap_idle_pages()`, before and at its awaits. `ResetCircuit` is the
watchdog's `reset_circuit()`, possible at any time: clients may use a pool between the
`start()` that made it and that call. Chrome may open a tab that
nobody waits for any more (`TabMayOpenLate`), tabs hang, recover and close, the browser
wedges and dies.

Left out: the wait on the queue when the pool is full and no tab is idle.
`NeverWaitsOnQueue` shows, and `QueueWaitUnreachable` proves, that no task gets there.

### SuspendablePool

Adds `lock` (`_suspend_lock`), `suspended` (`browser._suspended`), `parked`
(`pool._suspended`), the step the reaper is in, the tabs `close_all()` has closed so far
(`swept`), the workers inside `_on_resume()` (`resuming`), and the tasks whose
`new_page()` is on a context that is gone (`severed`). Actions of `PagePool` go on
between all steps of a suspend: `acquire()` looks at the pool, not at
`browser.available`. `SuspendBegins` is `_maybe_suspend()` under the lock up to the
first await of `close_all()`, `SweepTab` one `page.close()`, `PoolParks` the end of
`park()`, `SuspendEnds` the rest of `_suspend()`. `ResumeFindsWorkDone`, `ResumeBegins`,
`ResumeEnds` and `ResumeFails` are the ways through `_resume()`, the circuit check of
`acquire()` that follows included. Tasks are workers, which may resume, and monitors
(`liveness()`, `allow_resume=False`), which may not.

### BrowserLifecycle

State. `lock`, `suspended`, `available`, `pw`, `ctx` are `_suspend_lock`, `_suspended`,
`available`, `pw`, `context` of the browser; handles are numbers of launches, 0 for
`None`. The pool is only what decides who launches. `leases` and `orphaned` separate
tasks of the current pool from tasks of one a `stop()` dropped. `mine` holds the launch
or the captured handles a task works on: `stop()` captures them and the browser may have
moved on when they are closed. Of the environment: `drivers`, `chrome` and `wedged`
processes, whom the profile lock names (`holdsProfile`, `rival`), and `env`: in a calm
behaviour the monitor loop is the only one to restart the browser and resumes are not
cancelled; in a rough one the health probe and `reauth()` restart it as well, Chrome may
wedge, resumes be cancelled.

Actions. A launch is three awaits (`OpenBegins`, `DriverStarts`, `ChromeStarts`), shared
by `_resume()` (`Resume...`) and `start()` (`Start...`), as in `_open_context()`.
`StopBegins`, `StopEnds`, `StopTimesOut` are `stop()` and the watchdog's timeout around
it. `ProbeSucceeds` and `ProbeFails` are cycles of the monitor loop, `TriggerFires` the
health probe's call of `_handle_failure()`, `ReauthRestarts` stage two of `reauth()`.
`Healthy` is what `liveness()` reports.

### Watchdog

`strikes`, `restart_count`, `announced`, `restart_age` are `_consecutive_failures`,
`_restart_count`, `_announced_exhausted` and the age of `_last_restart`. `at` is the
place of each caller of `_handle_failure()`, which awaits `event_bus.emit()` and the
restart. `HandleFailure` and `Decide` are the code before and after the emit;
`RestartEnds` and `RestartRaises` are the ends of `_attempt_restart()`. A failed launch
ends in `RestartEnds` with the browser still down, since `start()` swallows it.

### ProfileLock

`file` and `tmp` are the contents of the lock file and of `.lock.tmp`; `ReadLock`,
`WriteTmp`, `ReplaceLock` are the calls of `acquire()`, `ReleaseReads` and `Unlink`
those of `release()`; a process may `Crash` at any of them. `staggered` is an assumption
on the environment chosen in the initial state: no two processes are inside `acquire()`
together. Properties that need it say so.

### ServerLifespan

`refs`, `lock`, `warmup`, `readiness`, `browserEvent` are `_lifespan_refs`,
`_lifespan_lock`, the warm-up task and the two attributes of `Readiness`. `loops` counts
the running loops of each background service and `named` the services whose module-level
reference names one, so that a lost loop shows. `Enter`, `InitDbEnds`, `InitDbFails` are
the way in; `Leave`, `Drain`, `StopService`, `StopBrowser`, `LeaveCancelled` the way
out; the warm-up is one action per phase. `calm` is chosen in the initial state:
`init_db()` succeeds and no session is cancelled.

### RestClient

State. `session`, `valid`, `issued` are what Naukri knows, `cookie` what Chrome's jar
holds, `token` is `TokenManager._token`; `lock` is `_refresh_lock`; `breaker`,
`failures`, `cooled` are the `ApiCircuitBreaker`. Of each request: the await it is at,
why it asked for a token, the token it was sent with and its attempt. `ahead` holds the
callers whose cookies Chrome was asked for earlier, `seen` what they were.

Actions. `EnsureToken` is `ensure_token()` up to its first await; `CookiesArrive`,
`CookiesFail` and `ExportEnds` are `extract()`, which sets the cache before it awaits
the export; `TakeLock`, `WaitTimesOut`, `PageLoads`, `LoadFails`, `HoldTimesOut` are
`refresh_via_pool()` with both timeouts. `Begin`, `Succeeds`, `Refused` and `Fails` are
`_api_request()`. `Invalidate` is a logout, or a `start()` that finds its token refused.
`env` is chosen at the start: "calm" (Chrome answers, in order, and nobody logs in or
out), "rough" (neither is sure), and "clear" from the moment on when nothing fails any
more.

### ApplyPath

State. `site` is what Naukri has; `row` and `fresh` are the tracking rows and those
whose `applied_at` is of today; `tripped` and `file` the switch in memory and on disk;
`lock` is `_tracking_composite_lock`. A caller is of one `kind` and goes through `pc`
with its `job`, the jobs `todo` and Naukri's `reply`. `warned` and `repeated` are
history: callers that took a job up since the trip, and whether one submitted what it
had submitted itself or, between batches, another batch had.

Actions. `BeginSingle`, `BeginBatch`, `BeginCycle`, `BeginSweep` with `AcquireLock`,
`Search` and `NextJob` are the callers up to `_apply_single()`; `Guard`, `CheckQuota`,
`Post`, `PostAnswers` and `Record` are its awaits; `Halt` is `trip_and_halt()` on a
block, and `SweepMeetsBlock` what the sweep does instead. `OperatorTrips` and
`OperatorResumes` are the tool `naukri_kill_switch`. `Cut` is a timeout or a client that
goes away, `Restart` a crash with `_load_initial_state()`. `env` says which of these
happen.

### ProfileWrites

State. `live` is the section as Naukri has it, a function from ids to values, of one of
the three kinds of `SectionSpec`; `spent` the ids Naukri has given; `files` the
snapshots. A call has its `plan`, the write at work (`unit`), the read it works from
(`before`) and its verdict. `aim` is history: the sections its success may leave, while
nothing has come in between.

Actions. `UpdateSection`, `UpdateProfile` and `Restore` plan one write or several;
`Read` is read and snapshot, `Send` and `SendAgain` the POST with the body of `Body`,
`Check` the second read with `classify_section_write()`, `Raises` and `Cut` its
failures. `OwnerEdits` is the owner in Naukri's pages. `Stores` is what Naukri makes of
a body.

### Scheduler

State. `last` is `_last_started`, `wake` and `todo` the loops, `phase` and `by` the
executions, `row` the `scheduled_runs` that are read again; `served`, `blind` and `lost`
are history. Time goes by the hour.

Actions. `ProcessStarts` seeds the clocks (`Prime`), `ProcessStops` is a stop or a
crash, `LoopWakes` and `Consider` are a round of a loop, `RunNow` is `run_now()`,
`InsertRow`, `InsertFails` and `RunEnds` are `_execute_task()`, `HourPasses` an hour in
which nobody has anything left to do.

### Healing

State. `api` and `baseline` are the schema an endpoint answers with and the detector's
snapshot; `disk`, `staged`, `made`, `endpoint`, `live` are the files, git's index, the
healer's commits and those in effect; `row` is `auto_fix_pending`; `enabled` and `saved`
are the circuit in memory and on disk; `alarmed` is history: the verifier or the smoke
check has disabled the healer over a failed revert; `handler` and `verifier` are where
`on_endpoint_drift()` and `t2_verify_pending()` wait.

Actions. `ProbeSees` is a probe and the router's first look; `Declines`, `CommitFails`,
`Commits`, `SmokeCheckFails`, `Inserts`, `InsertFails`, `Absorbs` are the fix; `Asks`,
`FindsHealthy`, `Reverts`, `RevertFails`, `Marks` the verification; `CutOff` and
`VerifierCutOff` their timeouts, `Crash` and `Restart` the process; `ApiChanges`,
`UserWorks`, `UserEnables` are Naukri and the user.

## 3. Runs

State counts are distinct states. Every property has a mutant of a mapped definition
that makes TLC report it violated under the same configuration.

| Run | States | What it shows |
| --- | --- | --- |
| `pool` | 183,834 | Under hanging, closing and late tabs, cancellations, a browser that wedges or dies and resets of the circuit, the pool's books agree (`PoolAccountsForTabs`), a tab being closed is out of reach, and the pool implements `TabLeases` (`ImplementsTabLeases`). |
| `idle` | 65,894 | Leases and permits stay exact (`LeasesAreCounted`) and nobody waits on the queue (`NeverWaitsOnQueue`) when the context is closed and reopened at any step of a checkout; of the workers that find the pool parked one at a time launches a Chrome (`OneLaunchAtATime`); every task leaves `acquire()` again (`CheckoutEnds`), and a worker that meets a parked pool is served or refused (`ResumeDecides`). |
| `lifecycle` | 155,405 | Calm: one Chrome on the profile, under the profile lock, and a browser that is down comes back. With all actors, cancellations and wedged Chromes: `_suspend_lock` is given back. |
| `watchdog` | 1,350 | Two callers of `_handle_failure()` overdraw the restart budget by one at most; an outage without end is announced as given up, unless restarts raise for ever. |
| `profile_lock` | 2,724 | Three processes that crash anywhere: while starts do not overlap, one user, named by the lock file; in any case, a process left alone gets the profile. |
| `lifespan` | 3,888 | Sessions that come and go during warm-up and teardown: nothing left after the last session, no stop of a browser being launched, a server for whoever is in, waiters released. |
| `rest` | 159,602 | While Chrome answers in order and nobody logs in or out, a storm of 401s is one refresh and nobody is told to log in again as long as the session lives. In any case every request ends although Chrome may never answer, and the circuit closes for good after the trouble. |
| `apply` | 541,818 | Two callers of any two kinds: a trip stops everything but what is under way and outlives crashes, the quota is hard under the lock, no caller applies twice to what it applied to itself, nor a batch to what a batch did, "applied" is only said of what Naukri has, and while no call is cut off every application has a row or is being recorded. |
| `profile` | 621,661 | Two calls and the owner at one section: "updated" is exact when nothing came in between, other rows survive, and what a POST takes away is in a snapshot. |
| `scheduler` | 726,507 | Two days of starts, stops and failing histories: a window is served once at most and none passes by a running process; a task that catches up is never two intervals late. |
| `healing` | 261,526 | With failing git, database and network, cut-offs, crashes and a user at the same checkout: an unverified fix is watched, a healer that a failed revert disabled commits nothing, a sound fix stays, a pending one is decided. |

One run shows a statement of the repository violated by what the code does:

| Run | Violated |
| --- | --- |
| `apply_block` | `EveryBlockTrips`: a block that the sweep over pending questions meets does not trip the switch (section 7) |

All passing runs check for deadlock but `profile`, whose calls are made once each.
`pool`, `apply` and `profile` use symmetry; runs with liveness properties use none.

## 4. Bounds

- `pool`: three clients contend for two tabs, so that one waits while two race to open
  tabs. Four tab identities are two tabs of the pool, one being closed or left behind
  and a fresh one. With `FailureThreshold` 2 the counter is at, below and saturated at
  the threshold.
- `idle`: two workers and one monitor on one tab. Two identities are the tab of the old
  context and one of the new.
- `lifecycle`: in calm behaviours `MaxLaunches` 5 is the first launch and four more,
  enough for resume, crash, restart and resume again; `MaxTabs` 2 leaves the probe a tab
  beside one worker, and none beside two. In rough ones three launches are two
  concurrent restarts, by one actor of each kind.
- `watchdog`: `MaxRestarts` 2 lets a budget be partly and wholly spent; `Stretch` 2
  gives restarts of three different ages.
- `profile_lock`: two processes can race for a third one's corpse.
- `lifespan`: one session can leave while a second enters and a third waits. `MaxLoops`
  2 is one more than the code may have.
- `rest`: two callers are the holder and a waiter, `MaxToken` 2 the first token and the
  one that replaces it; one retry and a threshold of two put the circuit through all of
  its states.
- `apply`: two callers of all pairs of kinds and two jobs, one over `Quota` 1 and within
  `AgentQuota` 2; one day, on which some jobs wait for answers since an earlier one. TLC
  runs the environments "calm" and "crashes"; a failing disk ("rough") only weakens what
  is claimed.
- `profile`: two old ids and one to give, two values, one change by the owner or
  repeated request (`MaxHitches`). Two rows are the least at which a write can damage
  another; after a first new row no second can be stored, so a call meets at most one
  new row of its own or of the other.
- `scheduler`: days of four hours with a window of two, over two days, so that every
  hour relation of opening, closing, interval and restart occurs; three accesses to the
  history that fail or runs of the operator.
- `healing`: an endpoint of each tier; three commits, three faults and three changes of
  responses: a fix, a fault in it, and another on top of what that left.

Counters that code only compares are saturated where the comparison stops telling values
apart: `failure_count`, `failures`, `strikes`, `restart_age`. In `Watchdog`,
`restart_count` needs no bound: the budget bounds it.

In `lifecycle`, liveness is stated up to the bound (`~LaunchesLeft`): a behaviour that
has used up its launches is let go. The watchdog's real budget is the subject of
`Watchdog`.

## 5. Fairness

- Checkouts (`PagePool!BoundedStep`, in `SuspendablePool!SuspendLiveSpec`): every await
  of `acquire()` is cut off, the semaphore by `POOL_CHECKOUT_TIMEOUT`, `new_page()` by
  `BROWSER_OP_TIMEOUT`, the round trip by `BROWSER_LIVENESS_TIMEOUT`. The body of the
  `with` block is assumed to end: its navigations carry timeouts. No cancellation is
  relied on.
- Resume (`SuspendablePool!SuspendLiveSpec`): strong fairness of a worker's way through
  `_resume()`, because `asyncio.Lock` serves its waiters in order. Weak fairness of the
  closings of `_suspend()`: here Chrome obeys.
- Launches, closings and restarts (`BrowserLifecycle!LiveSpec`): a Chrome that answers
  lets them end; of one that does not, `stop()` and `start()` of the watchdog are cut
  off by `BROWSER_RESTART_TIMEOUT`. The monitor loop keeps probing. Nothing obliges a
  worker to acquire or the reaper to suspend. `reauth()` has no timeout around a wedged
  `stop()`, and gets none in the model.
- `Watchdog!LiveSpec`: the loop keeps probing, subscribers return, restarts end or time
  out. Nothing is assumed of the health probe.
- `ProfileLock!LockLiveSpec`: each process keeps starting and stopping its browser.
- `ServerLifespan!LiveSpec`: the warm-up proceeds (the launch is bounded, the migration
  swallows its failures), and the drain is bounded by `WARMUP_SHUTDOWN_GRACE_SECONDS`.
  Sessions need never come or leave.
- `RestClient!LiveSpec`: the code's own steps and its timeouts happen; Chrome answers
  unless "rough"; callers call again and the reset time of the circuit passes. Taking
  the refresh lock is strongly fair, because `asyncio.Lock` is served in order.
- `Healing!LiveSpec`: handler and verifier go on, each await being bounded by the
  timeout of the probe or task around it, and the scheduled verification comes round to
  each pending row. Nothing obliges a probe, Naukri or the user.
- `ApplyPath`, `ProfileWrites` and `Scheduler` have safety properties only: what could
  be live in them is bounded by the timeouts the other modules have, and `WindowIsTaken`
  and `CatchesUp` state promptness as safety.

## 6. Proofs

The theorems hold for every value of the constants under the named assumptions of the
modules (finite sets of tasks, limits that are numbers, distinct special values). The
proofs use no other assumption. Every property of the passing runs that is not a
liveness property is proved, and so is the type invariant of every module. Actions and
variables of `ProfileLock` and `Scheduler` carry names of their own (`LockSpec`,
`SchedulerSpec`), so that one proof module can speak of two modules.

**`PagePoolProofs`.** The heart is the inductive invariant `PoolInv`. The limit on tabs
is not inductive by itself: `acquire()` tests `len(_all_pages) < _max_pages` before an
await, and several tasks may pass the test before one of them appends its tab. What
makes it safe is the semaphore, and what the invariant has to say is
`RoomForEveryLease`: idle tabs and leases, those still opening a tab included, fit in
the limit. That takes exact lease counts (`LeasesAreCounted`), a list of tabs that
agrees with queue and holders (`PoolAccountsForTabs`), references dropped before
recovery is awaited (`OnlyHoldersHavePages`), and doomed tabs kept out of reach. There
is a lemma for each action (`CheckoutStep`, `OpenTabStep`, `FinishStep`, ...);
`FinishStep` serves all ways out of `acquire()`. `ClosedCircuitHealthy` has an invariant
of its own, which the reset of the circuit keeps, and `PoolImplementsService` maps each
step to `Lend`, `Open`, `OpenFor`, `GiveBack`, `Discard` or a stutter, with `PoolInv` as
invariant.

Across suspend and resume `PoolInv` does not hold: a lease taken while the tabs are
being closed outlives its context, and its tab comes back into the queue of the next
one. `LeaseInv` is what survives: exact counts and a list of tabs that are all idle or
held, which is enough for `SuspendedLeasesCounted` and `ResumedQueueUnreachable`. The
rest of `SuspendInv` is about who is at work. `LockFits` has the suspend lock held by
the reaper while it closes or by the one worker that launches, `BrowserFits` has a
suspended browser parked and without Chrome: `LaunchesDoNotOverlap`, which is
`OneLaunchAtATime` for any number of workers.

**`BrowserLifecycleProofs`.** `OneChromeOnProfile` and `ProfileIsLocked`, for calm
behaviours. No single lock decides who launches, as `start()` and `stop()` do not take
`_suspend_lock`. The invariant `Calm` says instead who may be at work at once: a restart
only meets a browser that is not suspended, cancels the suspend it meets, and leaves the
lock free; a resume only begins on a suspended browser, and its flag stays up, so that
no restart begins until it is over; the reaper closes the handles the browser refers to.
From that, Chrome is the one of the browser's context or none. In the rough environment
`LifecycleTypesHold` is what holds: no Chrome outlives its driver, and launches keep to
their bound, for which restarts still stopping the old browser have to be counted
(`BudgetKept`).

**`ChromeGuardProofs`** (`ProfileLock` and `Watchdog`). `OneUserOfProfile` and
`LockFileNamesUser` follow from `LockInv`: the file names its owner and no live process
besides, and what a process found stale when it read the lock is stale still when it
publishes its PID (`FileIsStale`). This is where `staggered` is needed; the invariant
without it is types and liveness of actors only. `BudgetHolds`: with any number of
callers, `restart_count` exceeds the budget by at most one for each caller besides the
loop. The bound is not inductive, since restarts under way are charged when they end;
`BudgetInv` counts them as charged.

**`ServerProofs`** (`ServerLifespan` and `Scheduler`). `LockInv` ties the steps of
entering and tearing down to the lock, with the warm-up over before anything is stopped:
`NeverStopsALaunch`. `CountInv` relates the reference count to the sessions there are:
equal to their number when calm, at least that otherwise. With it `LoopsAreNamed`,
`NothingOutlives` and `ServerFound`.

Of the schedule, for any intervals, day and window, `SchedulerInv` says what row, clock
and loop of a task know of each other. A window that was served has a row from within
it, and no clock is behind its row (`ServedHasRow`): `ServedOncePerWindow`. A loop that
sleeps (`Looked`) left no task behind that was due when it looked (`IntervalsKept`,
`WindowsKept`), and sleeps no longer than its pause (`LoopsLook`):
`MissedRunsAreCaughtUp` and `NoWindowPassesBy`. The arithmetic is about one hour at a
time: the start of the window stays what it was, or is the hour itself.

**`RestClientProofs`.** In every environment `RequestInv`: the lock is held by exactly
the request that refreshes, no token is known before it was issued, and the extracts in
flight form a queue. While Chrome answers in order and nobody logs in or out, `CalmInv`.
For `NobodyIsMisled` it has to be
known that once an extract in flight brings a token, those behind it do: a refresh looks
into the cache when it ends, and any other extract may have written it meanwhile. For
`OneRefreshPerToken`, that a renewed token is gone from the cache and from the cookies,
except for the answers in front of the refresh that is still in flight: the next holder
of the lock therefore finds another token than the one it was refused with. Steps are
sorted into seven classes by what they move (`Departs`, `Forgets`, `Exports`, `Asks`,
`Locks`, `PageLoads`, `Weathers`), and each invariant is looked at once per class.

**`ApplyPathProofs`.** `SwitchInv` has the file follow the memory and a caller that was
warned come no further than the guard: `TripsStop` and `TripsAreKept`. `RowsMatch` takes
three parts: "applied" is only about to be written of a job Naukri has (`SaidOfNaukri`),
a sweep's jobs have rows (`SweepHasRows`), and a job submitted has a row or its caller
is about to write it (`AppliedIsRecorded`). `QuotaIsHard`: whoever applies holds the
lock (`LockInv`), so the rows it counted below the quota are all there are when it POSTs
(`QuotaInv`). `NothingRepeated`: while no call is cut off, what a caller has sent has a
row by the time it looks for jobs again, and so has what a batch has sent when the next
one has the lock (`SentInv`).

**`ProfileWritesProofs`.** `Inv` says that every id a row has was given by Naukri, so
that a new row never takes an old one's place, that the fields of a block do not go
away, and that a call about to send has its read in a snapshot: `OthersAreKept` and
`ThereIsAWayBack`. `SuccessIsExact` needs a second invariant, `OnCourse`: for a call
that nothing has come in the way of, what is left of its plan leads from the section as
it is to one it aims at; and a row it has made stays without a twin until its check.

**`HealingProofs`.** `FixesAreWatched`: a fix goes from commit to row within the
handler, and a verdict "reverted" is only about to be written when the fix is out
(`RevertedIsGone`). `DisabledHealerStops`: an alarm leaves the healer disabled
(`AlarmDisables`), and `MayApply` looks at it after the last await. `GoodFixesStay`: the
baseline of a sound fix is what the endpoint answers (`BaselineInv`), so a verification
finds it healthy.

Only model-checked, and for good: liveness under fairness, which the prover does not do
(`Recovers`, `LockIsReturned`, `ResumeDecides`, `CheckoutEnds`, `GivesUpLoudly`,
`NeverDeadlocksOnCorpse`, `WaitersAreReleased`, `RequestsEnd`, `CircuitRecovers`,
`PendingIsDecided`).

## 7. Where the code and its documentation disagree

### Shown by a run

- **A block that does not trip** (`apply_block`; `tools/apply.py:846`).
  `_recover_pending_questions()` catches the error of a block with all others and takes
  its next job. `kill_switch.py:8-9`: "we HARD-STOP all write/automation traffic the
  moment a block is detected"; `tools/apply.py:743` says of this request "The same
  fail-closed rails as the apply path".

### Met while modelling: the browser side

Most of the items below are a premise of a property (`staggered`, `calm`, `env`), a
constant of a run, a history variable that leaves the case out, or a formula that is not
claimed for a module.

- The monitor loop is inside `_attempt_restart()` when the `browser.liveness` probe
  calls `_handle_failure()` on the same watchdog and starts a second restart
  (`health/framework.py:326`). Its `stop()` releases the profile lock while the first
  one's Chrome is up, and another server process may launch on the profile.
  `browser.py:1123-1126` wants `start()` to "refuse to launch a SECOND instance".
- `_resume()` handles `Exception`, not `CancelledError` (`browser.py:1343`), which
  `TOKEN_REFRESH_TIMEOUT` around a refresh raises in it. `_suspended` stays true with
  the handles set; `liveness()` reports DOWN for that, as it says it does, and
  `_attempt_restart()` skips the browser as suspended, every time.
- The lease check of `_maybe_suspend()` and the parking of the pool are separated by one
  await for each tab (`browser.py:1434`); `acquire()` does not look at `available`, and
  a worker may check a tab out in between, which is closed under it. The comment says
  the check prevents suspending "with a lease outstanding". The list of the resumed pool
  may then hold closed tabs or more than `MaxPages`: `TabLimit`, `PoolAccountsForTabs`
  and the refinement of `TabLeases` hold for `PagePool` and not for `SuspendablePool`.
- `_lifespan_refs` is incremented before `init_db()` is awaited and outside the `try`
  (`__init__.py:206`). If `init_db()` raises, later sessions take the server for
  running.
- Stage two of `reauth()` (`services/session_service.py:937`) stops and starts the
  browser without `_suspend_lock` and without the watchdog. With a resume or a restart
  under way, Chrome may run without the profile lock.
- After a `stop()` that timed out on a wedged Chrome the watchdog starts anyway
  (`browser_watchdog.py:226-232`). The lock is re-entrant, the old Chrome still runs.
- A Chrome that wedges while `_suspend()` closes it keeps `_suspend_lock` until a
  restart cancels the reaper; once the restart budget is spent, for good.
  `LockIsReturned` therefore ends at `~LaunchesLeft`.
- `liveness()` needs a tab. With all of them leased for longer than the probe's ten
  seconds (`browser_watchdog.py:110`) a healthy browser is restarted under its users.
- `start()` swallows a failed launch (`browser.py:1160`), so a failed restart counts as
  a recovery, resets `_announced_exhausted` and `_consecutive_failures`, and there may
  be more than the "TWO per outage" events of `browser_watchdog.py:161`.
- The budget is handed back by the first healthy probe 600 s after the last restart,
  whatever failed in between (`browser_watchdog.py:126`), although lines 21-22 say the
  browser "must stay continuously healthy". A restart that raises is never charged, so
  the budget does not bound those (`GivesUpLoudly` excepts them).
- `profile_lock.acquire()` reads the lock and then writes it (`profile_lock.py:169`):
  two processes that both find it stale both launch. `_write_lock()` is an "atomic
  replace" (line 148) by a temporary file whose name all processes share (line 156).
  `OneUser` and `LockNamesItsUser` hold while starts are staggered.
- A teardown cancelled in one of its awaits skips the stops that remain
  (`__init__.py:225-250`); cancelled while it waits for the warm-up, it leaves readiness
  "warming" and its waiters waiting.
- `_recover_page()` forgets the tab that did not answer without closing it
  (`browser.py:634`), and an abandoned `new_page()` may still open one. The pool never
  knows of more than `NAUKRI_MAX_TABS` tabs, but Chrome may have more.
- `reset_circuit()` (`browser.py:940`), which the watchdog calls after a restart, closes
  the circuit whatever the clients of the new pool have met since its `start()`. A late
  success of a lease from before the circuit opened resets the count of an open circuit
  (`browser.py:789`), so that the probe of the half-open one may fail
  `_circuit_threshold` times before it opens again.
- `_emit_depth` (`events.py:393`) is meant as the depth of nested emits and counts all
  emits in flight; with three of them a fourth is dropped, the notice of giving up
  included, which is then recorded as announced.

### Met while modelling: REST, apply and profile

- `extract()` caches what Chrome answered when it was asked. With answers late or out of
  order a caller may be told AuthExpired of a live session. So may one whose refresh is
  awaiting the export of the cookies when `invalidate()` empties the cache, by a logout
  (`services/session_service.py:803`) or a failed validation in `start()`
  (`browser.py:1154`); a second refresh may also follow. `NoFalseExpiry` and
  `StormCollapses` are claimed for calm behaviours, which have neither.
- A half-open circuit is to "allow one probe attempt" (`api.py:108`) and allows every
  caller; a success from before the circuit opened closes it. A waiter's budget for the
  refresh lock, 75 s, is more than the 60 s one holder has, but not with two holders
  ahead of it.
- A transport error repeats a POST that may have been carried out (`api.py:505`).
- `TokenManager._context` is not reset by a suspend, so the branch of `_renew` that
  resumes (`browser.py:337`) is not taken.
- The daily quota is counted before and recorded after several awaits, and the agent and
  the sweep do not take the lock: with them it may be exceeded. It counts rows of failed
  applies, misses rows of an earlier day or synced from Naukri, and lets everything pass
  when it cannot count.
- The duplicate check of `apply_with_saga()` (`services/apply_service.py:112-120`) comes
  before the lock and is not repeated under it. Two calls for one job both find no row,
  queue for the lock and both submit; a call and a batch, and any of them and the agent,
  which takes no lock, may do so as well. The docstring says "Wrap apply with duplicate
  check, composite lock, saga orchestration". `NoRepeatedApply` counts only what a
  caller repeats itself and what two batches both submit.
- An apply cut off after its POST, by the 30 s around it for one, is not recorded: the
  second half of `RowsMatchNaukri` and `NoRepeatedApply` except cut-off calls. A
  late or halted call for a job that is recorded as applied overwrites the row with
  "error"; `agent_decisions` loses an "apply" to a later "skip".
- `needs_input` asks the client to call again with the answers, and the duplicate check
  then refuses the call, since the job has a row.
- `record_soft_signal()` has no caller. Two updates of the agent's configuration lose
  one another's fields.
- The first row created in an empty section is reported COLLATERAL_CHANGE, since
  `_leaf_paths` counts the empty list as a leaf that went away. A create that Naukri
  ignored, or made twice, is reported "updated" when an equal row exists, although the
  docstring says "It never reports a success it did not measure". `UpdatedIsExact`
  excepts twins.
- Two whole-list writes at once lose each other's rows and both answer "updated"
  (`tools/profile_sections.py:325`); `OthersSurvive` is about the section as it was
  read.
- The reply to an API error says `written: False` where `classify_section_write()` says
  it is unknown; an exception of the second read leaves `write_section()`; the caches
  are invalidated only on "updated", and a read in flight during the invalidation puts
  the old profile back for its TTL. No tool reaches `prune_snapshots()`; five sections
  whose read id is `id` cannot be restored by rows.

### Met while modelling: background work

- `enable_task()` of a task that was disabled at the start has no effect until the next
  one. `run_now()` of `boost_profile` before its window means two writes that day.
- The T2 commit and its row are separated by an await (`healing/t2_autofix.py:190`). The
  30 s of the probe, a failing insert whose revert fails too, or a crash leave a commit
  without a row (lines 5-9 promise one): `EveryFixIsWatched` excepts these `orphans`.
- A failing `git add` or `git commit` leaves the patch on disk, and staged it blocks
  later fixes; a user's unstaged edits of the file become part of the healer's commit.
- A verification cut off between the revert and its row is repeated: the second revert
  fails and disables the healer, or a response that has changed back confirms a fix that
  is not in HEAD. After a restart there is no baseline: the fix is reverted, or a probe
  takes the drifted response for the baseline first and it is confirmed whatever it
  does.
- The revert that follows a failed insert (`healing/t2_autofix.py:202`) discards its
  result. If it fails, no alarm is raised, the healer stays enabled, and later fixes are
  committed on top of one that nothing watches. The docstring of `revert_commit()` says
  "caller reads .ok and .stderr to decide whether to disable the healer (revert itself
  failing is the worst-case state)" (`healing/snapshot.py:120-127`).
  `NoFixOnceDisabled` is about the reverts of the verifier and of the smoke check, which
  do look.
- `circuit.disable()` writes its file as far as the disk allows: after a restart the
  healer may be enabled again with a fix in HEAD that it failed to revert.
  `NoFixOnceDisabled` ends there.
- Fixes are never loaded into the running interpreter. `resume_healing`, the action the
  notices name, does not exist, and `circuit.enable()` has no caller
  (`healing/circuit.py:117`). URL drift is handled and never emitted. The docstring of
  `t1_autofix` escalates by `t3_notify`, the router by storing the event.
- `exchange_refresh_token()` of the OAuth provider does not look whether the token it
  pops was there: two exchanges at once both mint.

## 8. What is not modelled

The map covers about a tenth of the implementation, the part whose steps interleave.
Most of the rest is page automation, parsing of responses, formatting of replies, and
SQL, each line of which is a read or a single transaction: it has no control that a
model would preserve, and what it returns is text.

- Inside the modelled parts: the readiness object's ready event and the tool
  registration at import; the crash counter and the texts of notices; page navigation
  and login; the rate limiter and think times of an apply; scoring and the agent's mode;
  validation of profile values and the browser's part of a profile update; enabling and
  disabling scheduled tasks and what they do; T3 endpoints, which are only reported. A
  worker's body is one step.
- Callers of `_apply_single()` other than the four kinds of `ApplyPath`: tools for saved
  jobs that fit (`tools/smart_apply.py`), invitations (`tools/inbox.py`) and pending
  decisions of the agent (`tools/agent_tool.py`), and the port in `interfaces.py`. They
  take neither the lock nor look for a row first: the quota and duplicate properties say
  nothing of them. The function `naukri_apply()` of `tools/apply.py` has no caller; the
  tool of that name is `apply_with_saga()`, the kind "single".
- PID reuse and unreadable lock files other than garbage in `ProfileLock`.
- Database: each function is one SQL transaction, and the tables that matter are state
  of the modules that use them (`row` of `ApplyPath`, `Scheduler`, `Healing`).
- Event bus and subscribers: what a dropped event loses is a notification or a count.
  Workflows: sequences of tool calls without a state of their own.
- OAuth provider: codes and tokens of one user in memory, following the protocol of the
  MCP library. Auth bridge: a client for other processes, stateless here.
- Policy and configuration, answer cache: a reload, and a file behind one lock.
- Scoring and domain objects: pure computations whose results are scores and texts.
- Tools and services other than those of the apply path and the profile writes: page
  automation, parsing and reads over the REST client and the pool. Dispatch, prompts,
  resources, dashboard: tables and read-only views. Scripts: one-off programs.

## 9. What could come next

Modules, in this order:

1. `EventBus`: concurrent and nested emits under the shared depth counter, composed with
   `Watchdog`, whose notice of giving up is an emit.
2. `ApplyPath` over several days, with the synchronisation of rows from Naukri, which
   the quota and the duplicate check then meet.
3. `RestClient` composed with `SuspendablePool`: the page a refresh checks out may have
   to be resumed first, within the timeout of the refresh.
4. `Reauth`: the session service with its cookie snapshots and the two stages of
   `reauth()`.

Theorems: that `SuspendablePool` implements a version of `TabLeases` whose service may
be suspended; what is left of `NoFalseExpiry` while Chrome is rough (a caller is only
misled if an answer was late or missing); that launches of `BrowserLifecycle` under way
at once have different numbers.

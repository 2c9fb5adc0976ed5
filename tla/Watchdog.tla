------------------------------ MODULE Watchdog ------------------------------
(***************************************************************************)
(* What the browser watchdog reports and how often it restarts: class      *)
(* BrowserWatchdog of naukri_server/browser_watchdog.py, whose monitor     *)
(* loop probes the browser, and HealthProbeScheduler._on_result() of       *)
(* naukri_server/health/framework.py, which calls _handle_failure() of the *)
(* same object from another task.                                          *)
(*                                                                         *)
(* event_bus.emit() and the restart are awaits, so two callers of          *)
(* _handle_failure() interleave there.  The browser is running, suspended  *)
(* on purpose or down; what a restart does to it, and how the flag may     *)
(* come to lie, is in BrowserLifecycle.  start() swallows the failures of  *)
(* a launch and raises only when the profile is locked; a timeout raises   *)
(* as well.                                                                *)
(*                                                                         *)
(* Abstractions.  Time passes in ticks, Stretch of which make              *)
(* _RESTART_BUDGET_RESET_SECONDS.  The count of failures is compared with  *)
(* one and two only and saturates at two.                                  *)
(***************************************************************************)
EXTENDS Integers, FiniteSets

CONSTANTS
  Loop,           \* the monitor loop
  Probes,         \* health probes that call _handle_failure(): at most one
  MaxRestarts,    \* _max_restarts
  Stretch         \* _RESTART_BUDGET_RESET_SECONDS, in ticks

ASSUME CallersAssumption == Loop \notin Probes /\ IsFiniteSet(Probes)
ASSUME LimitsAssumption == /\ MaxRestarts \in Nat \ {0}
                           /\ Stretch \in Nat \ {0}

Callers == {Loop} \cup Probes

VARIABLES
  strikes,        \* _consecutive_failures, up to 2
  restart_count,  \* _restart_count
  announced,      \* _announced_exhausted
  restart_age,    \* ticks since _last_restart, up to Stretch
  at,             \* where each caller is in _handle_failure()
  browser         \* environment: "running", "suspended" or "down"

watchdogVars == <<strikes, restart_count, announced, restart_age>>
vars == <<watchdogVars, at, browser>>

Capped(n, cap) == IF n < cap THEN n ELSE cap

TypeOK ==
  /\ strikes \in 0..2
  /\ restart_count \in Nat
  /\ announced \in BOOLEAN
  /\ restart_age \in 0..Stretch
  /\ at \in [Callers -> {"sleep", "verdict", "emitting", "giving_up",
                         "restarting"}]
  /\ browser \in {"running", "suspended", "down"}

Init ==
  /\ strikes = 0 /\ restart_count = 0 /\ announced = FALSE
  /\ restart_age = Stretch
  /\ at = [a \in Callers |-> "sleep"]
  /\ browser = "running"

-----------------------------------------------------------------------------
(* _handle_failure() *)

\* _attempt_restart() calls stop(), which takes the browser down.
AttemptRestart(a) ==
  /\ browser' = "down"
  /\ at' = [at EXCEPT ![a] = "restarting"]

SkipRestart(a) ==
  /\ at' = [at EXCEPT ![a] = "sleep"]
  /\ UNCHANGED browser

\* Mutant of Decide: the budget is not looked at again before the restart.
Decide_IgnoresBudget(a) ==
  IF strikes' >= 2 /\ browser # "suspended"
    THEN AttemptRestart(a)
    ELSE SkipRestart(a)

\* After the event: a second failure and a budget that is left start a restart,
\* which _attempt_restart() skips for a suspended browser.
Decide(a) ==
  IF strikes' >= 2 /\ restart_count < MaxRestarts /\ browser # "suspended"
    THEN AttemptRestart(a)
    ELSE SkipRestart(a)

\* The beginning of _handle_failure(): the event is emitted on the first failure
\* and when the budget turns out to be exhausted.
HandleFailure(a) ==
  LET gives_up == restart_count >= MaxRestarts /\ ~announced IN
  IF strikes' <= 1 \/ gives_up
    THEN /\ at' = [at EXCEPT ![a] = IF gives_up THEN "giving_up" ELSE "emitting"]
         /\ UNCHANGED browser
    ELSE Decide(a)

\* event_bus.emit() returned.
EmitEnds(a) ==
  /\ at[a] \in {"emitting", "giving_up"}
  /\ announced' = (announced \/ at[a] = "giving_up")
  /\ UNCHANGED strikes
  /\ Decide(a)
  /\ UNCHANGED <<restart_count, restart_age>>

-----------------------------------------------------------------------------
(* The monitor loop *)

\* A healthy probe: the failures are forgotten, and the budget is handed back
\* when the last restart is long enough ago.
ProbeHealthy ==
  /\ at[Loop] = "sleep" /\ browser # "down"
  /\ strikes' = 0
  /\ IF restart_count # 0 /\ restart_age = Stretch
       THEN restart_count' = 0 /\ announced' = FALSE
       ELSE UNCHANGED <<restart_count, announced>>
  /\ UNCHANGED <<restart_age, at, browser>>

\* A failed probe.
ProbeUnhealthy ==
  /\ at[Loop] = "sleep" /\ browser = "down"
  /\ strikes' = Capped(strikes + 1, 2)
  /\ HandleFailure(Loop)
  /\ UNCHANGED <<restart_count, announced, restart_age>>

-----------------------------------------------------------------------------
(* The health probe scheduler *)

\* The browser.liveness probe is unhealthy; ProbeStateChanged may be emitted
\* before the watchdog is called, so the verdict may be stale by then.
LivenessUnhealthy(a) ==
  /\ at[a] = "sleep" /\ browser = "down"
  /\ at' = [at EXCEPT ![a] = "verdict"]
  /\ UNCHANGED <<watchdogVars, browser>>

TriggerFires(a) ==
  /\ at[a] = "verdict"
  /\ UNCHANGED strikes
  /\ HandleFailure(a)
  /\ UNCHANGED <<restart_count, announced, restart_age>>

\* WATCHDOG_TRIGGER_TIMEOUT cancels _handle_failure().
TriggerAbandoned(a) ==
  /\ at[a] \in {"emitting", "giving_up", "restarting"}
  /\ at' = [at EXCEPT ![a] = "sleep"]
  /\ UNCHANGED <<watchdogVars, browser>>

-----------------------------------------------------------------------------
(* _attempt_restart() *)

\* Mutant of RestartEnds: the restart is not charged to the budget.
RestartEnds_NotCounted(a) ==
  /\ at[a] = "restarting"
  /\ browser' \in {browser, "running"}
  /\ restart_age' = 0
  /\ strikes' = 0
  /\ announced' = FALSE
  /\ at' = [at EXCEPT ![a] = "sleep"]
  /\ UNCHANGED restart_count

\* start() returned, with a browser or without: the restart is charged, the
\* failures and the announcement are forgotten, BrowserRecovered is emitted.
RestartEnds(a) ==
  /\ at[a] = "restarting"
  /\ browser' \in {browser, "running"}
  /\ restart_count' = restart_count + 1
  /\ restart_age' = 0
  /\ strikes' = 0
  /\ announced' = FALSE
  /\ at' = [at EXCEPT ![a] = "sleep"]

\* ProfileLockedError, or BROWSER_RESTART_TIMEOUT: nothing is recorded.
RestartRaises(a) ==
  /\ at[a] = "restarting"
  /\ at' = [at EXCEPT ![a] = "sleep"]
  /\ UNCHANGED <<watchdogVars, browser>>

-----------------------------------------------------------------------------
(* Browser and clock *)

BrowserDies ==
  /\ browser = "running" /\ browser' = "down"
  /\ UNCHANGED <<watchdogVars, at>>

\* The reaper suspends it.
BrowserSuspends ==
  /\ browser = "running" /\ browser' = "suspended"
  /\ UNCHANGED <<watchdogVars, at>>

\* A resume or a re-authentication brings it back.
BrowserComesBack ==
  /\ browser # "running" /\ browser' = "running"
  /\ UNCHANGED <<watchdogVars, at>>

Tick ==
  /\ restart_age' = Capped(restart_age + 1, Stretch)
  /\ UNCHANGED <<strikes, restart_count, announced, at, browser>>

Proceed(a) == EmitEnds(a) \/ RestartEnds(a) \/ RestartRaises(a)

Next ==
  \/ ProbeHealthy \/ ProbeUnhealthy
  \/ \E a \in Callers : Proceed(a)
  \/ \E a \in Probes : LivenessUnhealthy(a) \/ TriggerFires(a) \/ TriggerAbandoned(a)
  \/ BrowserDies \/ BrowserSuspends \/ BrowserComesBack \/ Tick

Spec == Init /\ [][Next]_vars

\* The loop keeps probing, and what it awaits returns: subscribers are assumed
\* to end, restarts are bounded by BROWSER_RESTART_TIMEOUT.
LiveSpec == /\ Spec
            /\ WF_vars(ProbeHealthy \/ ProbeUnhealthy)
            /\ WF_vars(Proceed(Loop))

-----------------------------------------------------------------------------
(* Properties *)

\* The test of the budget comes before the awaits of a restart and the charge
\* after them: each further caller may overdraw the budget by one restart, and
\* no interleaving by more.
BudgetRespected == restart_count <= MaxRestarts + Cardinality(Probes)

\* An outage that does not end is announced as given up and stays announced,
\* unless restarts raise again and again: those are never charged to the budget.
GivesUpLoudly ==
  []<>(browser # "down") \/ <>[]announced \/ []<><<\E a \in Callers : RestartRaises(a)>>_vars
=============================================================================

-------------------------- MODULE SuspendablePool ---------------------------
(***************************************************************************)
(* The page pool across idle periods: PagePool composed with the part of   *)
(* naukri_server/browser.py that closes an unused browser and brings it    *)
(* back, PagePool.park(), close_all() and rebind_context(), and            *)
(* NaukriBrowser._maybe_suspend(), _suspend() and _resume().               *)
(*                                                                         *)
(* The pool object outlives its context, so leases, permits and the        *)
(* circuit of PagePool go on while tabs and context are replaced under     *)
(* them.  Workers resume a parked pool; monitors (liveness()) may not, and *)
(* do not count as activity.  Restarts are in BrowserLifecycle, faults of  *)
(* Chrome in PagePool: here Chrome obeys, and tabs only die because        *)
(* somebody closed them.  A tab the sweep of close_all() jumps over, when  *)
(* the list shrinks under its iterator, goes with the context.             *)
(***************************************************************************)
EXTENDS PagePool

CONSTANTS
  Monitors,           \* clients that check tabs out with allow_resume=False
  NoOne, Reaper       \* values of lock besides a client

ASSUME MonitorsAssumption == /\ Monitors \subseteq Clients
                             /\ {NoOne, Reaper} \cap Clients = {}
                             /\ NoOne # Reaper

Workers == Clients \ Monitors

VARIABLES
  lock,               \* holder of _suspend_lock
  suspended,          \* browser._suspended
  parked,             \* pool._suspended: the pool has no context
  reaper,             \* step of _suspend(): "loop", "sweeping", "closing"
  swept,              \* tabs close_all() has closed so far
  resuming,           \* workers inside _on_resume(): "no", "lock", "launching"
  severed             \* clients whose new_page() is on a context that is gone

idleVars == <<lock, suspended, parked, reaper, swept, resuming, severed>>
allVars == <<vars, idleVars>>

SuspendTypeOK ==
  /\ TypeOK
  /\ lock \in Workers \cup {NoOne, Reaper}
  /\ suspended \in BOOLEAN /\ parked \in BOOLEAN
  /\ reaper \in {"loop", "sweeping", "closing"}
  /\ swept \in SUBSET Pages
  /\ resuming \in [Workers -> {"no", "lock", "launching"}]
  /\ severed \in SUBSET Clients

SuspendInit ==
  /\ Init
  /\ lock = NoOne /\ suspended = FALSE /\ parked = FALSE
  /\ reaper = "loop" /\ swept = {}
  /\ resuming = [w \in Workers |-> "no"]
  /\ severed = {}

-----------------------------------------------------------------------------
(* acquire() on a pool that may be parked *)

\* The pool has its context: straight to the circuit check.
AdmitBound(c) ==
  /\ ~parked
  /\ c \in Workers => resuming[c] = "no"
  /\ Admit(c)
  /\ UNCHANGED idleVars

\* A step of a checkout in which no call on the context begins or ends.
CheckoutStep(c) ==
  /\ \/ CheckoutTimesOut(c) \/ TabAnswers(c)
     \/ BodySucceeds(c) \/ BodyRaises(c) \/ BodyAborts(c)
  /\ UNCHANGED idleVars

\* The client takes a tab or calls new_page(), which on a parked pool is a call
\* on None.
CheckoutOpens(c) ==
  /\ Checkout(c) \/ TabDoesNotAnswer(c)
  /\ severed' = IF parked /\ pc'[c] \in {"creating", "recovering"}
                  THEN severed \cup {c} ELSE severed
  /\ UNCHANGED <<lock, suspended, parked, reaper, swept, resuming>>

\* new_page() ends.
OpeningEnds(c) ==
  /\ \/ c \notin severed /\ OpenTab(c)
     \/ OpenTabFails(c)
     \/ OpenTabCancelled(c)
  /\ severed' = severed \ {c}
  /\ UNCHANGED <<lock, suspended, parked, reaper, swept, resuming>>

-----------------------------------------------------------------------------
(* The reaper *)

\* The reaper loop only touches a pool whose browser is available.
Reap ==
  /\ reaper = "loop" /\ closing = {}
  /\ browser_available /\ ~suspended
  /\ ReapIdlePages
  /\ UNCHANGED idleVars

ReapCloses ==
  /\ CloseDoomed
  /\ UNCHANGED idleVars

\* The pool has been quiet for CONTEXT_IDLE_TIMEOUT: a worker that waits for its
\* permit has stamped _last_activity at most POOL_CHECKOUT_TIMEOUT ago.
Quiet == \A w \in Workers : pc[w] # "waiting"

\* _maybe_suspend() finds, under the lock, no lease and a pool that was quiet
\* for CONTEXT_IDLE_TIMEOUT; _suspend() begins to close the tabs.
SuspendBegins ==
  /\ reaper = "loop" /\ closing = {}
  /\ lock = NoOne
  /\ browser_available /\ ~suspended /\ ~parked
  /\ outstanding = 0 /\ Quiet
  /\ lock' = Reaper
  /\ browser_available' = FALSE
  /\ reaper' = "sweeping"
  /\ swept' = {}
  /\ UNCHANGED <<poolVars, circuit_state, failure_count, cooled, clientVars,
                 chromeVars, suspended, parked, resuming, severed>>

\* close_all() closes one tab of _all_pages.
SweepTab ==
  /\ reaper = "sweeping"
  /\ \E p \in all_pages \ swept : /\ swept' = swept \cup {p}
                                  /\ tabs' = tabs \ {p}
                                  /\ alive' = alive \ {p}
  /\ UNCHANGED <<poolVars, circuitVars, clientVars, closing, context, lock,
                 suspended, parked, reaper, resuming, severed>>

\* Mutant of PoolParks: the queue is emptied, the list is not.
PoolParks_KeepsList ==
  /\ reaper = "sweeping"
  /\ all_pages \subseteq swept
  /\ available' = {}
  /\ parked' = TRUE
  /\ reaper' = "closing"
  /\ UNCHANGED <<all_pages, permits, outstanding, circuitVars, clientVars,
                 chromeVars, lock, suspended, swept, resuming, severed>>

\* close_all() clears list and queue, park() gives up the context.
PoolParks ==
  /\ reaper = "sweeping"
  /\ all_pages \subseteq swept
  /\ all_pages' = {} /\ available' = {}
  /\ parked' = TRUE
  /\ reaper' = "closing"
  /\ UNCHANGED <<permits, outstanding, circuitVars, clientVars, chromeVars,
                 lock, suspended, swept, resuming, severed>>

\* Context and driver are closed; calls under way on them will raise.
SuspendEnds ==
  /\ reaper = "closing"
  /\ context' = "gone" /\ tabs' = {} /\ alive' = {}
  /\ severed' = severed \cup {c \in Clients : pc[c] \in {"creating", "recovering"}}
  /\ suspended' = TRUE
  /\ lock' = NoOne
  /\ reaper' = "loop" /\ swept' = {}
  /\ UNCHANGED <<poolVars, circuitVars, clientVars, closing, parked, resuming>>

-----------------------------------------------------------------------------
(* _resume(), from acquire() *)

\* A parked pool sends a worker to _on_resume(); a monitor is refused.
AcquireParked(w) ==
  /\ pc[w] = "idle" /\ resuming[w] = "no"
  /\ parked
  /\ resuming' = [resuming EXCEPT ![w] = "lock"]
  /\ UNCHANGED <<vars, lock, suspended, parked, reaper, swept, severed>>

\* The lock is free and the browser is back, or is down: acquire() goes on to
\* its circuit check, or raises because the pool is parked still or the circuit
\* is open.
ResumeFindsWorkDone(w) ==
  /\ resuming[w] = "lock"
  /\ lock = NoOne /\ ~suspended
  /\ \/ ~parked /\ Admit(w)
     \/ (parked \/ (circuit_state = "open" /\ ~cooled)) /\ UNCHANGED vars
  /\ resuming' = [resuming EXCEPT ![w] = "no"]
  /\ UNCHANGED <<lock, suspended, parked, reaper, swept, severed>>

\* Mutant of ResumeBegins: whoever gets the lock launches, without a second look
\* at _suspended.
ResumeBegins_LooksOnce(w) ==
  /\ resuming[w] = "lock"
  /\ lock = NoOne
  /\ lock' = w
  /\ resuming' = [resuming EXCEPT ![w] = "launching"]
  /\ UNCHANGED <<vars, suspended, parked, reaper, swept, severed>>

\* The lock is free and the browser is suspended still: this worker opens its
\* context.
ResumeBegins(w) ==
  /\ resuming[w] = "lock"
  /\ lock = NoOne /\ suspended
  /\ lock' = w
  /\ resuming' = [resuming EXCEPT ![w] = "launching"]
  /\ UNCHANGED <<vars, suspended, parked, reaper, swept, severed>>

\* Mutant of ResumeEnds: the pool is bound anew with all its permits.
ResumeEnds_FreshPermits(w) ==
  /\ resuming[w] = "launching"
  /\ \E p \in FreshPages :
       /\ tabs' = {p} /\ alive' = {p}
       /\ all_pages' = all_pages \cup {p}
       /\ available' = available \cup {p}
  /\ permits' = MaxPages
  /\ context' = "up"
  /\ browser_available' = TRUE
  /\ suspended' = FALSE /\ parked' = FALSE
  /\ lock' = NoOne
  /\ resuming' = [resuming EXCEPT ![w] = "no"]
  /\ UNCHANGED <<outstanding, circuit_state, failure_count, cooled, clientVars,
                 closing, reaper, swept, severed>>

\* A context is open, the pool bound to it and seeded with its first tab; the
\* lock is given back and acquire() goes on to its circuit check.
ResumeEnds(w) ==
  /\ resuming[w] = "launching"
  /\ \E p \in FreshPages :
       /\ tabs' = {p} /\ alive' = {p}
       /\ all_pages' = all_pages \cup {p}
       /\ available' = available \cup {p}
  /\ context' = "up"
  /\ browser_available' = TRUE
  /\ suspended' = FALSE /\ parked' = FALSE
  /\ lock' = NoOne
  /\ resuming' = [resuming EXCEPT ![w] = "no"]
  /\ IF circuit_state = "open"
       THEN /\ circuit_state' = IF cooled THEN "half_open" ELSE "open"
            /\ pc' = IF cooled THEN [pc EXCEPT ![w] = "waiting"] ELSE pc
       ELSE /\ pc' = [pc EXCEPT ![w] = "waiting"]
            /\ UNCHANGED circuit_state
  /\ UNCHANGED <<permits, outstanding, failure_count, cooled, page, closing,
                 reaper, swept, severed>>

\* Mutant of ResumeFails: the lock is not given back.
ResumeFails_KeepsLock(w) ==
  /\ resuming[w] = "launching"
  /\ suspended' = FALSE
  /\ browser_available' = FALSE
  /\ resuming' = [resuming EXCEPT ![w] = "no"]
  /\ UNCHANGED <<poolVars, circuit_state, failure_count, cooled, clientVars,
                 chromeVars, lock, parked, reaper, swept, severed>>

\* _open_context() raises: the browser is down and the pool stays parked.
ResumeFails(w) ==
  /\ resuming[w] = "launching"
  /\ suspended' = FALSE
  /\ browser_available' = FALSE
  /\ lock' = NoOne
  /\ resuming' = [resuming EXCEPT ![w] = "no"]
  /\ UNCHANGED <<poolVars, circuit_state, failure_count, cooled, clientVars,
                 chromeVars, parked, reaper, swept, severed>>

-----------------------------------------------------------------------------
ResumeStep(w) == \/ ResumeFindsWorkDone(w) \/ ResumeBegins(w)
                 \/ ResumeEnds(w) \/ ResumeFails(w)

LeaseStep(c) == CheckoutStep(c) \/ CheckoutOpens(c) \/ OpeningEnds(c)

SuspendStep == SweepTab \/ PoolParks \/ SuspendEnds

SuspendNext ==
  \/ \E c \in Clients : AdmitBound(c) \/ LeaseStep(c)
  \/ \E w \in Workers : AcquireParked(w) \/ ResumeStep(w)
  \/ Reap \/ ReapCloses
  \/ SuspendBegins \/ SuspendStep
  \/ (CooldownElapses \/ ResetCircuit) /\ UNCHANGED idleVars

SuspendSpec == SuspendInit /\ [][SuspendNext]_allVars

\* The closings of _suspend() and the launch of _resume() end, as does every
\* await of a checkout.  asyncio.Lock serves its waiters in order, so whoever
\* finds the suspend lock free again and again gets it: strong fairness.
SuspendLiveSpec ==
  /\ SuspendSpec
  /\ \A c \in Clients : WF_allVars(LeaseStep(c))
  /\ \A w \in Workers : SF_allVars(ResumeStep(w))
  /\ WF_allVars(SuspendStep)

-----------------------------------------------------------------------------
(* Properties *)

\* A worker in _open_context() is there alone, and the browser it replaces is
\* closed: _resume() looks at _suspended again once it has the lock, and those
\* who waited for it "find the work already done".
OneLaunchAtATime ==
  \A w \in Workers : resuming[w] = "launching" =>
    /\ context = "gone" /\ tabs = {} /\ reaper = "loop"
    /\ \A v \in Workers : resuming[v] = "launching" => v = w

\* Every worker that wants a page gets past the parked pool or is refused.
ResumeDecides == \A w \in Workers : (resuming[w] # "no") ~> (resuming[w] = "no")
=============================================================================

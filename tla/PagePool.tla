------------------------------ MODULE PagePool ------------------------------
(***************************************************************************)
(* The pool of browser tabs of naukri_server/browser.py (class PagePool).  *)
(*                                                                         *)
(* A client is one asyncio task inside "async with page_pool.acquire()".   *)
(* All tasks share one event loop, so a step of this module is the code    *)
(* between two awaits: the circuit check, the semaphore wait, the choice   *)
(* of a tab, the opening of a tab, the liveness round trip, the body of    *)
(* the with block, and the finally block that gives everything back.       *)
(*                                                                         *)
(* The pool is modelled between initialize() and close_all(); a pool that  *)
(* is parked and resumed is in SuspendablePool.                            *)
(*                                                                         *)
(* Abstractions.  The queue _available is a set: its order only decides    *)
(* which idle tab is lent next.  Clock readings become choices: which idle *)
(* tabs have outlived the idle timeout, and when the cooldown of the       *)
(* circuit has passed.  failure_count saturates at FailureThreshold, the   *)
(* only value the code compares it with.                                   *)
(***************************************************************************)
EXTENDS Integers, FiniteSets

CONSTANTS
  Clients,            \* tasks that check tabs out
  Pages,              \* identities of Chrome tabs
  MaxPages,           \* _max_pages, NAUKRI_MAX_TABS
  MinPages,           \* _min_pages, the floor the reaper keeps
  FailureThreshold,   \* _circuit_failure_threshold
  NoPage              \* the Python value None for a page

ASSUME ClientsAssumption == IsFiniteSet(Clients)
ASSUME LimitsAssumption == /\ MaxPages \in Nat \ {0}
                           /\ MinPages \in Nat
                           /\ FailureThreshold \in Nat \ {0}
ASSUME NoPageAssumption == NoPage \notin Pages

VARIABLES
  permits,            \* value of _semaphore
  outstanding,        \* _checkouts - _returns, what outstanding_leases() reads
  available,          \* _available: idle tabs of the pool
  all_pages,          \* _all_pages: every tab the pool knows of
  circuit_state,      \* _circuit_state
  failure_count,      \* _circuit_failure_count
  cooled,             \* _circuit_cooldown has elapsed since _circuit_open_time
  browser_available,  \* browser.available, which the pool clears
  pc,                 \* where each client is in acquire()
  page,               \* the local variable "page" of each client
  closing,            \* tabs the reaper has taken out and is closing
  tabs,               \* environment: tabs open in Chrome
  alive,              \* environment: tabs that answer a round trip in time
  context             \* environment: up, wedged (neither answers nor errors) or gone

poolVars == <<permits, outstanding, available, all_pages>>
circuitVars == <<circuit_state, failure_count, cooled, browser_available>>
clientVars == <<pc, page>>
chromeVars == <<closing, tabs, alive, context>>
vars == <<poolVars, circuitVars, clientVars, chromeVars>>

-----------------------------------------------------------------------------
(* Derived state *)

LeaseStates == {"creating", "checking", "recovering", "using", "queueing"}
HolderStates == {"checking", "using"}
ClientStates == {"idle", "waiting"} \cup LeaseStates

Leases == {c \in Clients : pc[c] \in LeaseStates}
Holders == {c \in Clients : pc[c] \in HolderStates}
Held == {page[c] : c \in Holders}

\* Identities Chrome may give to a tab it opens now.
FreshPages == Pages \ (tabs \cup all_pages \cup available \cup closing \cup Held)

Saturate(n) == IF n < FailureThreshold THEN n ELSE FailureThreshold

TypeOK ==
  /\ permits \in 0..MaxPages
  /\ outstanding \in 0..MaxPages
  /\ available \in SUBSET Pages
  /\ all_pages \in SUBSET Pages
  /\ circuit_state \in {"closed", "open", "half_open"}
  /\ failure_count \in 0..FailureThreshold
  /\ cooled \in BOOLEAN
  /\ browser_available \in BOOLEAN
  /\ pc \in [Clients -> ClientStates]
  /\ page \in [Clients -> Pages \cup {NoPage}]
  /\ closing \in SUBSET Pages
  /\ tabs \in SUBSET Pages
  /\ alive \in SUBSET tabs
  /\ context \in {"up", "wedged", "gone"}

\* PagePool.__init__ followed by initialize(first_page).
Init ==
  /\ permits = MaxPages
  /\ outstanding = 0
  /\ \E first \in Pages : /\ available = {first}
                          /\ all_pages = {first}
                          /\ tabs = {first}
                          /\ alive = {first}
  /\ circuit_state = "closed"
  /\ failure_count = 0
  /\ cooled = FALSE
  /\ browser_available = TRUE
  /\ pc = [c \in Clients |-> "idle"]
  /\ page = [c \in Clients |-> NoPage]
  /\ closing = {}
  /\ context = "up"

-----------------------------------------------------------------------------
(* acquire(): admission *)

\* The circuit check at the top of acquire().  An open circuit whose cooldown
\* has not elapsed raises BrowserUnavailableError: the client stays idle.
Admit(c) ==
  /\ pc[c] = "idle"
  /\ circuit_state = "open" => cooled
  /\ circuit_state' = IF circuit_state = "open" THEN "half_open"
                                                ELSE circuit_state
  /\ pc' = [pc EXCEPT ![c] = "waiting"]
  /\ UNCHANGED <<poolVars, failure_count, cooled, browser_available, page,
                 chromeVars>>

\* Mutant of CheckoutTimesOut: the wait for the semaphore has no timeout.
CheckoutTimesOut_Never(c) == FALSE /\ UNCHANGED <<vars, c>>

\* POOL_CHECKOUT_TIMEOUT elapses on the semaphore: nothing was counted yet.
CheckoutTimesOut(c) ==
  /\ pc[c] = "waiting"
  /\ pc' = [pc EXCEPT ![c] = "idle"]
  /\ UNCHANGED <<poolVars, circuitVars, page, chromeVars>>

\* Mutant of Checkout: the tab stays in the queue while it is lent.
Checkout_LeavesTabQueued(c) ==
  /\ pc[c] = "waiting"
  /\ permits > 0
  /\ permits' = permits - 1
  /\ outstanding' = outstanding + 1
  /\ \/ /\ \E p \in available : page' = [page EXCEPT ![c] = p]
        /\ pc' = [pc EXCEPT ![c] = "checking"]
     \/ /\ available = {}
        /\ pc' = [pc EXCEPT ![c] = IF Cardinality(all_pages) < MaxPages
                                     THEN "creating" ELSE "queueing"]
        /\ UNCHANGED page
  /\ UNCHANGED <<available, all_pages, circuitVars, chromeVars>>

\* The semaphore is acquired and the checkout counted; then, without an await,
\* the client takes an idle tab, or sets out to open one, or, when the pool is
\* at its limit, goes to wait on the queue.  The steps that leave "queueing"
\* are not modelled: no client ever gets there (NeverWaitsOnQueue).
Checkout(c) ==
  /\ pc[c] = "waiting"
  /\ permits > 0
  /\ permits' = permits - 1
  /\ outstanding' = outstanding + 1
  /\ \/ /\ available # {}
        /\ \E p \in available :
             /\ available' = available \ {p}
             /\ page' = [page EXCEPT ![c] = p]
        /\ pc' = [pc EXCEPT ![c] = "checking"]
     \/ /\ available = {}
        /\ pc' = [pc EXCEPT ![c] = IF Cardinality(all_pages) < MaxPages
                                     THEN "creating" ELSE "queueing"]
        /\ UNCHANGED <<available, page>>
  /\ UNCHANGED <<all_pages, circuitVars, chromeVars>>

-----------------------------------------------------------------------------
(* acquire(): opening and checking a tab *)

\* The finally block: the return is counted, a tab still referenced goes back
\* to the queue, the permit is released.
Finish(c) ==
  /\ outstanding' = outstanding - 1
  /\ available' = IF page[c] = NoPage THEN available
                                      ELSE available \cup {page[c]}
  /\ permits' = permits + 1
  /\ pc' = [pc EXCEPT ![c] = "idle"]
  /\ page' = [page EXCEPT ![c] = NoPage]
  /\ UNCHANGED all_pages

\* _create_page and the tail of _recover_page: context.new_page() answered.
\* A created tab still has to pass the liveness check, a recovered one is used
\* at once.
OpenTab(c) ==
  /\ pc[c] \in {"creating", "recovering"}
  /\ context = "up"
  /\ \E p \in FreshPages :
       /\ tabs' = tabs \cup {p}
       /\ alive' = alive \cup {p}
       /\ all_pages' = all_pages \cup {p}
       /\ page' = [page EXCEPT ![c] = p]
  /\ pc' = [pc EXCEPT ![c] = IF pc[c] = "creating" THEN "checking" ELSE "using"]
  /\ UNCHANGED <<permits, outstanding, available, circuitVars, closing,
                 context>>

\* new_page() did not answer in time, or the task was cancelled during it.
\* Chrome may carry out the request all the same, for nobody.
TabMayOpenLate ==
  /\ \E late \in {{}} \cup {{p} : p \in FreshPages} :
       /\ late # {} => context = "up"
       /\ tabs' = tabs \cup late
       /\ alive' = alive \cup late
  /\ UNCHANGED <<closing, context>>

\* new_page() raised or ran out of BROWSER_OP_TIMEOUT: _mark_context_dead
\* opens the circuit and marks the browser unavailable.
OpenTabFails(c) ==
  /\ pc[c] \in {"creating", "recovering"}
  /\ TabMayOpenLate
  /\ circuit_state' = "open"
  /\ failure_count' = FailureThreshold
  /\ cooled' = FALSE
  /\ browser_available' = FALSE
  /\ Finish(c)

\* The task is cancelled while it opens a tab: no handler but finally runs.
OpenTabCancelled(c) ==
  /\ pc[c] \in {"creating", "recovering"}
  /\ TabMayOpenLate
  /\ Finish(c)
  /\ UNCHANGED circuitVars

\* is_page_alive() answered True.
TabAnswers(c) ==
  /\ pc[c] = "checking"
  /\ page[c] \in alive
  /\ pc' = [pc EXCEPT ![c] = "using"]
  /\ UNCHANGED <<poolVars, circuitVars, page, chromeVars>>

\* Mutant of TabDoesNotAnswer: the reference to the dead tab survives its
\* recovery, so a failed recovery puts the dead tab back.
TabDoesNotAnswer_KeepsReference(c) ==
  /\ pc[c] = "checking"
  /\ page[c] \notin alive
  /\ all_pages' = all_pages \ {page[c]}
  /\ pc' = [pc EXCEPT ![c] = "recovering"]
  /\ UNCHANGED <<permits, outstanding, available, page, circuitVars,
                 chromeVars>>

\* is_page_alive() answered False: the reference is dropped and _recover_page
\* takes the tab out of _all_pages before it awaits new_page().  The tab
\* itself is not closed.
TabDoesNotAnswer(c) ==
  /\ pc[c] = "checking"
  /\ page[c] \notin alive
  /\ all_pages' = all_pages \ {page[c]}
  /\ page' = [page EXCEPT ![c] = NoPage]
  /\ pc' = [pc EXCEPT ![c] = "recovering"]
  /\ UNCHANGED <<permits, outstanding, available, circuitVars, chromeVars>>

-----------------------------------------------------------------------------
(* acquire(): the body of the with block ends *)

\* No exception.
BodySucceeds(c) ==
  /\ pc[c] = "using"
  /\ failure_count' = 0
  /\ circuit_state' = IF circuit_state = "half_open" THEN "closed"
                                                     ELSE circuit_state
  /\ Finish(c)
  /\ UNCHANGED <<cooled, browser_available, chromeVars>>

\* An Exception other than BrowserUnavailableError.
BodyRaises(c) ==
  /\ pc[c] = "using"
  /\ failure_count' = Saturate(failure_count + 1)
  /\ \/ /\ failure_count + 1 >= FailureThreshold
        /\ circuit_state' = "open"
        /\ cooled' = FALSE
     \/ /\ failure_count + 1 < FailureThreshold
        /\ UNCHANGED <<circuit_state, cooled>>
  /\ Finish(c)
  /\ UNCHANGED <<browser_available, chromeVars>>

\* A BrowserUnavailableError of the body, or a cancellation of the task in the
\* body or during the liveness check: the circuit is left alone.
BodyAborts(c) ==
  /\ pc[c] \in HolderStates
  /\ Finish(c)
  /\ UNCHANGED <<circuitVars, chromeVars>>

-----------------------------------------------------------------------------
(* reap_idle_pages() *)

\* Mutant of ReapIdlePages: doomed tabs stay in the queue while they close.
ReapIdlePages_StayQueued ==
  /\ circuit_state # "open"
  /\ \E doomed \in SUBSET available \ {{}} :
       /\ Cardinality(available \ doomed) >= MinPages
       /\ all_pages' = all_pages \ doomed
       /\ closing' = closing \cup doomed
  /\ UNCHANGED <<permits, outstanding, available, circuitVars, clientVars,
                 tabs, alive, context>>

\* The synchronous part.  Freshest first, tabs are kept while fewer than
\* MinPages are kept or while they are younger than the idle timeout; the
\* rest leave the pool.
ReapIdlePages ==
  /\ circuit_state # "open"
  /\ \E doomed \in SUBSET available \ {{}} :
       /\ Cardinality(available \ doomed) >= MinPages
       /\ available' = available \ doomed
       /\ all_pages' = all_pages \ doomed
       /\ closing' = closing \cup doomed
  /\ UNCHANGED <<permits, outstanding, circuitVars, clientVars, tabs, alive,
                 context>>

\* page.close() of one doomed tab.
CloseDoomed ==
  /\ \E p \in closing : /\ closing' = closing \ {p}
                        /\ tabs' = tabs \ {p}
                        /\ alive' = alive \ {p}
  /\ UNCHANGED <<poolVars, circuitVars, clientVars, context>>

-----------------------------------------------------------------------------
(* Watchdog, clock and Chrome *)

\* reset_circuit().  The watchdog calls it when a restart has brought a pool up;
\* clients of that pool may have used it, and opened its circuit, before.  The
\* time the circuit opened at is left as it is.
ResetCircuit ==
  /\ circuit_state' = "closed"
  /\ failure_count' = 0
  /\ UNCHANGED <<poolVars, cooled, browser_available, clientVars, chromeVars>>

\* _circuit_cooldown elapses.
CooldownElapses ==
  /\ circuit_state = "open" /\ ~cooled
  /\ cooled' = TRUE
  /\ UNCHANGED <<poolVars, circuit_state, failure_count, browser_available,
                 clientVars, chromeVars>>

\* A renderer wedges: the tab stays open and answers nothing.
TabHangs ==
  /\ \E p \in alive : alive' = alive \ {p}
  /\ UNCHANGED <<poolVars, circuitVars, clientVars, closing, tabs, context>>

\* A wedged renderer answers again.
TabRecovers ==
  /\ context = "up"
  /\ \E p \in tabs \ alive : alive' = alive \cup {p}
  /\ UNCHANGED <<poolVars, circuitVars, clientVars, closing, tabs, context>>

\* The target of a tab is gone (closed by hand, crashed).
TabCloses ==
  /\ \E p \in tabs : /\ tabs' = tabs \ {p}
                     /\ alive' = alive \ {p}
  /\ UNCHANGED <<poolVars, circuitVars, clientVars, closing, context>>

\* The browser wedges: its socket stays open, its tabs answer nothing.
ContextWedges ==
  /\ context = "up"
  /\ context' = "wedged"
  /\ alive' = {}
  /\ UNCHANGED <<poolVars, circuitVars, clientVars, closing, tabs>>

\* The browser process dies.
ContextDies ==
  /\ context # "gone"
  /\ context' = "gone"
  /\ tabs' = {}
  /\ alive' = {}
  /\ UNCHANGED <<poolVars, circuitVars, clientVars, closing>>

-----------------------------------------------------------------------------
\* Steps that a timeout or the end of the body brings about.
BoundedStep(c) ==
  \/ CheckoutTimesOut(c) \/ Checkout(c)
  \/ OpenTab(c) \/ OpenTabFails(c)
  \/ TabAnswers(c) \/ TabDoesNotAnswer(c)
  \/ BodySucceeds(c) \/ BodyRaises(c)

ClientStep(c) == BoundedStep(c) \/ OpenTabCancelled(c) \/ BodyAborts(c)

PoolStep ==
  \/ \E c \in Clients : Admit(c)
  \/ \E c \in Clients : ClientStep(c)
  \/ ReapIdlePages
  \/ CloseDoomed
  \/ ResetCircuit

ChromeStep ==
  TabHangs \/ TabRecovers \/ TabCloses \/ ContextWedges \/ ContextDies

Next == PoolStep \/ CooldownElapses \/ ChromeStep

Spec == Init /\ [][Next]_vars

\* Every await of acquire() is bounded: the semaphore by POOL_CHECKOUT_TIMEOUT,
\* new_page() by BROWSER_OP_TIMEOUT, the round trip by BROWSER_LIVENESS_TIMEOUT;
\* the body of the with block is assumed to end, as its navigations carry
\* timeouts of their own.  No cancellation is counted upon.
LiveSpec == Spec /\ \A c \in Clients : WF_vars(BoundedStep(c))

-----------------------------------------------------------------------------
(* Properties *)

\* Every tab the pool knows of is either idle in the queue or held by exactly
\* one client, whatever was cancelled, recovered or reaped: browser.py keeps
\* _all_pages and _available by hand in acquire, _recover_page and
\* reap_idle_pages.
PoolAccountsForTabs ==
  /\ all_pages = available \cup Held
  /\ available \cap Held = {}
  /\ \A c, d \in Holders : page[c] = page[d] => c = d

\* The pool never knows of more than MaxPages tabs, although several clients
\* may pass the test len(_all_pages) < _max_pages before any of their tabs is
\* appended.
TabLimit == Cardinality(all_pages) <= MaxPages

\* A client that got a permit finds an idle tab or room for a new one: the
\* third branch of acquire(), the wait on the queue, is never taken.
NeverWaitsOnQueue == \A c \in Clients : pc[c] # "queueing"

\* outstanding_leases() is exact and no permit is lost, on every way out of
\* acquire(): the reaper suspends the browser on outstanding_leases() = 0.
LeasesAreCounted ==
  /\ outstanding = Cardinality(Leases)
  /\ permits + outstanding = MaxPages

\* A tab the reaper is closing can be reached by nobody: reap_idle_pages
\* promises "no caller can be handed one".
DoomedTabsAreUnreachable == closing \cap (all_pages \cup available \cup Held) = {}

\* A closed circuit has seen fewer failures than the threshold since the last
\* success or reset, late results of old leases included.
ClosedCircuitIsBelowThreshold ==
  circuit_state = "closed" => failure_count < FailureThreshold

\* A client refers to a tab exactly while it checks or uses it; in particular
\* the reference to a dead tab is gone before _recover_page is awaited.
OnlyHoldersHavePages ==
  \A c \in Clients : c \in Holders <=> page[c] # NoPage

\* Idle tabs and leases together fit within the limit, also while leases are
\* opening their tabs: this is what the test len(_all_pages) < _max_pages alone
\* does not say.
RoomForEveryLease ==
  /\ IsFiniteSet(available)
  /\ Cardinality(available) + outstanding <= MaxPages

\* The inductive invariant behind the safety properties of the pool.
PoolInv ==
  /\ TypeOK
  /\ PoolAccountsForTabs
  /\ NeverWaitsOnQueue
  /\ LeasesAreCounted
  /\ DoomedTabsAreUnreachable
  /\ OnlyHoldersHavePages
  /\ RoomForEveryLease

\* Every client that was admitted leaves acquire() again, with or without a
\* tab.
CheckoutEnds == \A c \in Clients : (pc[c] # "idle") ~> (pc[c] = "idle")

\* The tab each client works with.
LeaseView == [c \in Clients |-> IF pc[c] = "using" THEN page[c] ELSE NoPage]

Service == INSTANCE TabLeases WITH pool <- all_pages, lease <- LeaseView

\* The pool implements the lease service: a tab is lent to one client at a
\* time, leaves the pool only while nobody works with it, and the pool stays
\* within its limit.
ImplementsTabLeases == Service!Spec
=============================================================================

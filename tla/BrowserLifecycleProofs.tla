------------------------ MODULE BrowserLifecycleProofs ------------------------
(***************************************************************************)
(* Theorems of BrowserLifecycle, for any number of workers, launches and   *)
(* tabs: in a calm environment one Chrome at most runs on the profile, and *)
(* only under the profile lock.                                            *)
(*                                                                         *)
(* What start(), stop(), _suspend() and _resume() do to one another is not *)
(* decided by one lock, as the first two do not take _suspend_lock.  Calm  *)
(* says who may be at work at once: a restart leaves a suspended browser   *)
(* alone and cancels a suspend it meets, a resume only begins on a         *)
(* suspended browser, and the flag stays up until it is over.              *)
(*                                                                         *)
(* In the rough environment none of that is left.  What holds there are    *)
(* the types: whatever is cut off or closed twice, no Chrome outlives the  *)
(* driver of its launch, and the launches keep to their bound, restarts    *)
(* that are still stopping the old browser being counted (BudgetKept).     *)
(***************************************************************************)
EXTENDS BrowserLifecycle, FiniteSetTheorems, TLAPS

\* The steps of a launch before its context is bound.
Unbound == {"driver", "launch"}

Types ==
  /\ pc \in [Tasks -> {"idle", "wantLock", "using", "stopping", "starting",
                         "validate"} \cup Opening]
  /\ mine \in [Tasks \cup {Reaper} -> [pw : Nat, ctx : Nat]]
  /\ launches \in Nat /\ pw \in Nat /\ ctx \in Nat
  /\ suspended \in BOOLEAN /\ available \in BOOLEAN
  /\ holdsProfile \in BOOLEAN /\ rival \in BOOLEAN

\* Of the restarters only the loop is at work, and then nobody else launches or
\* closes anything.
Restarting ==
  /\ \A t \in Starters \ {Loop} : pc[t] = "idle"
  /\ pc[Loop] # "idle" =>
       /\ ~suspended /\ ~available /\ lock = NoOne /\ reaper = "off"
       /\ pc[Loop] = "stopping" => mine[Loop].ctx = ctx
       /\ pc[Loop] \in {"starting"} \cup Unbound => ctx = 0
       /\ pc[Loop] \in Opening \cup {"validate"} => holdsProfile
       /\ pc[Loop] \in Opening => mine[Loop].ctx # 0

\* A worker launches a browser that is suspended, and holds the lock meanwhile.
Resuming ==
  \A w \in Workers :
    /\ pc[w] \notin {"stopping", "starting", "validate"}
    /\ pc[w] \in Opening => lock = w /\ suspended /\ mine[w].ctx # 0
    /\ pc[w] \in Unbound => ctx = 0

\* The lock is the reaper's or that of a worker that launches.
LockHeld ==
  lock \in {NoOne, Reaper} \cup {w \in Workers : pc[w] \in Opening}

\* The reaper closes what the browser refers to, under the lock.
Suspending ==
  reaper \in {"parking", "closing"} =>
    /\ lock = Reaper /\ ~suspended /\ ~available /\ holdsProfile
    /\ mine[Reaper].ctx = ctx

Flags ==
  /\ suspended => holdsProfile /\ ~available
  /\ suspended /\ lock = NoOne => ctx = 0
  /\ available => holdsProfile
  /\ rival => ~holdsProfile

\* The one Chrome is that of the browser's context.
OneContext ==
  /\ wedged = {} /\ 0 \notin chrome /\ chrome \subseteq {ctx}
  /\ chrome # {} => holdsProfile

Calm == Types /\ Restarting /\ Resuming /\ LockHeld /\ Suspending /\ Flags /\ OneContext

------------------------------------------------------------------------------
(* Calm is inductive in a calm environment *)

LEMMA Actors ==
  ASSUME ActorsAssumption
  PROVE  /\ Loop \in Starters /\ Loop \in Tasks /\ Loop \notin Workers
         /\ Reaper \notin Tasks /\ NoOne # Reaper
         /\ \A w \in Workers : w \in Tasks /\ w \notin Starters /\ w # NoOne /\ w # Reaper
         /\ \A t \in Tasks : t \in Workers \/ t \in Starters
BY DEF ActorsAssumption, Starters, Restarters, Tasks

LEMMA NoHandlesType == NoHandles \in [pw : Nat, ctx : Nat]
BY DEF NoHandles

\* Closing what the browser refers to leaves no Chrome.
LEMMA Closing ==
  ASSUME OneContext, NEW h, h.ctx = ctx, Close(h) PROVE chrome' = {} /\ wedged' = {}
BY DEF OneContext, Close, ClosedBy

LEMMA CalmInit == ASSUME ActorsAssumption, BoundsAssumption, Init PROVE Calm
<1>1. Types
  BY DEF Types, Init, BoundsAssumption, NoHandles, Opening
<1>2. Restarting /\ Resuming
  BY Actors DEF Init, Restarting, Resuming, Opening, Unbound, Tasks
<1>3. LockHeld /\ Suspending /\ Flags /\ OneContext
  BY Actors DEF Init, LockHeld, Suspending, Flags, OneContext
<1> QED
  BY <1>1, <1>2, <1>3 DEF Calm

\* Who is in the middle of a launch is the loop or the worker with the lock.
LEMMA LaunchCalm ==
  ASSUME ActorsAssumption, Calm, NEW t \in Tasks, LaunchStep(t) PROVE Calm'
<1>1. CASE DriverStarts(t)
  <2>1. Types'
    BY <1>1, Actors, SMTT(20) DEF Calm, DriverStarts, leaseVars, Types, Opening, Tasks, Starters
  <2>2. Restarting'
    BY <1>1, Actors, SMTT(20) DEF Calm, DriverStarts, leaseVars, Types, Restarting, Resuming, LockHeld, Suspending, Flags, Opening, Unbound
  <2>3. Resuming'
    BY <1>1, Actors, SMTT(20) DEF Calm, DriverStarts, leaseVars, Types, Restarting, Resuming, LockHeld, Suspending, Flags, Opening, Unbound
  <2>4. LockHeld'
    BY <1>1, Actors, SMTT(20) DEF Calm, DriverStarts, leaseVars, Types, Restarting, Resuming, LockHeld, Suspending, Opening
  <2>5. Suspending'
    BY <1>1, Actors, SMTT(20) DEF Calm, DriverStarts, leaseVars, Types, Restarting, Resuming, Suspending, Flags, Opening
  <2>6. Flags'
    BY <1>1, Actors, SMTT(20) DEF Calm, DriverStarts, leaseVars, Types, Restarting, Resuming, LockHeld, Suspending, Flags, Opening
  <2>7. OneContext'
    BY <1>1, Actors, SMTT(20) DEF Calm, DriverStarts, leaseVars, Types, Restarting, Resuming, Suspending, Flags, OneContext, Opening, Unbound
  <2> QED
    BY <2>1, <2>2, <2>3, <2>4, <2>5, <2>6, <2>7 DEF Calm
<1>2. CASE ChromeStarts(t)
  <2>1. Types'
    BY <1>2, Actors, SMTT(20) DEF Calm, ChromeStarts, leaseVars, Types, Opening, Tasks, Starters
  <2>2. Restarting'
    BY <1>2, Actors, SMTT(20) DEF Calm, ChromeStarts, leaseVars, Types, Restarting, Resuming, LockHeld, Suspending, Flags, Opening, Unbound
  <2>3. Resuming'
    BY <1>2, Actors, SMTT(20) DEF Calm, ChromeStarts, leaseVars, Types, Restarting, Resuming, LockHeld, Suspending, Flags, Opening, Unbound
  <2>4. LockHeld'
    BY <1>2, Actors, SMTT(20) DEF Calm, ChromeStarts, leaseVars, Types, Restarting, Resuming, LockHeld, Suspending, Opening
  <2>5. Suspending'
    BY <1>2, Actors, SMTT(20) DEF Calm, ChromeStarts, leaseVars, Types, Restarting, Resuming, Suspending, Flags, Opening
  <2>6. Flags'
    BY <1>2, Actors, SMTT(20) DEF Calm, ChromeStarts, leaseVars, Types, Restarting, Resuming, LockHeld, Suspending, Flags, Opening
  <2>7. OneContext'
    <3>1. ctx = 0 /\ holdsProfile /\ mine[t].ctx # 0
      BY <1>2, Actors DEF ChromeStarts, Calm, Restarting, Resuming, Flags, Opening, Unbound
    <3>2. chrome = {}
      BY <3>1 DEF Calm, OneContext
    <3> QED
      BY <1>2, <3>1, <3>2 DEF ChromeStarts, Calm, OneContext
  <2> QED
    BY <2>1, <2>2, <2>3, <2>4, <2>5, <2>6, <2>7 DEF Calm
<1> QED
  BY <1>1, <1>2 DEF LaunchStep

LEMMA WorkerCalm ==
  ASSUME ActorsAssumption, Calm, env = "calm", NEW w \in Workers,
         Acquire(w) \/ Release(w) \/ ResumeStep(w) \/ ResumeCancelled(w)
  PROVE  Calm'
<1>1. CASE Acquire(w) \/ Release(w)
  <2>1. Types'
    BY <1>1, Actors, SMTT(20) DEF Calm, Acquire, Release, browserVars, worldVars, Types, Opening, Tasks, Starters
  <2>2. Restarting'
    <3>1. UNCHANGED <<browserVars, reaper, mine, worldVars>>
      BY <1>1 DEF Acquire, Release
    <3>2. \A t \in Starters : pc'[t] = pc[t]
      BY <1>1, Actors DEF Acquire, Release, Calm, Types, Tasks
    <3> QED
      BY <3>1, <3>2, Actors DEF browserVars, worldVars, Calm, Restarting
  <2>3. Resuming'
    BY <1>1, Actors, SMTT(20) DEF Calm, Acquire, Release, browserVars, worldVars, Types, Restarting, Resuming, LockHeld, Suspending, Flags, Opening, Unbound
  <2>4. LockHeld'
    BY <1>1, Actors, SMTT(20) DEF Calm, Acquire, Release, browserVars, worldVars, Types, Restarting, Resuming, LockHeld, Suspending, Opening
  <2>5. Suspending'
    BY <1>1, Actors, SMTT(20) DEF Calm, Acquire, Release, browserVars, worldVars, Types, Restarting, Resuming, Suspending, Flags, Opening
  <2>6. Flags'
    BY <1>1, Actors, SMTT(20) DEF Calm, Acquire, Release, browserVars, worldVars, Types, Restarting, Resuming, LockHeld, Suspending, Flags, Opening
  <2>7. OneContext'
    <3>1. UNCHANGED <<browserVars, worldVars>>
      BY <1>1 DEF Acquire, Release
    <3> QED
      BY <3>1 DEF browserVars, worldVars, Calm, OneContext
  <2> QED
    BY <2>1, <2>2, <2>3, <2>4, <2>5, <2>6, <2>7 DEF Calm
<1>2. CASE ResumeFindsWorkDone(w)
  <2>1. Types'
    BY <1>2, Actors, SMTT(20) DEF Calm, ResumeFindsWorkDone, GoesOn, browserVars, worldVars, Types, Opening, Tasks, Starters
  <2>2. Restarting'
    <3>1. UNCHANGED <<browserVars, reaper, mine, worldVars>>
      BY <1>2 DEF ResumeFindsWorkDone
    <3>2. \A t \in Starters : pc'[t] = pc[t]
      BY <1>2, Actors DEF ResumeFindsWorkDone, GoesOn, Calm, Types, Tasks
    <3> QED
      BY <3>1, <3>2, Actors DEF browserVars, worldVars, Calm, Restarting
  <2>3. Resuming'
    BY <1>2, Actors, SMTT(20) DEF Calm, ResumeFindsWorkDone, GoesOn, browserVars, worldVars, Types, Restarting, Resuming, LockHeld, Suspending, Flags, Opening, Unbound
  <2>4. LockHeld'
    BY <1>2, Actors, SMTT(20) DEF Calm, ResumeFindsWorkDone, GoesOn, browserVars, worldVars, Types, Restarting, Resuming, LockHeld, Suspending, Opening
  <2>5. Suspending'
    BY <1>2, Actors, SMTT(20) DEF Calm, ResumeFindsWorkDone, GoesOn, browserVars, worldVars, Types, Restarting, Resuming, Suspending, Flags, Opening
  <2>6. Flags'
    BY <1>2, Actors, SMTT(20) DEF Calm, ResumeFindsWorkDone, GoesOn, browserVars, worldVars, Types, Restarting, Resuming, LockHeld, Suspending, Flags, Opening
  <2>7. OneContext'
    BY <1>2, Actors, SMTT(20) DEF Calm, ResumeFindsWorkDone, GoesOn, browserVars, worldVars, Types, Restarting, Resuming, Suspending, Flags, OneContext, Opening, Unbound
  <2> QED
    BY <2>1, <2>2, <2>3, <2>4, <2>5, <2>6, <2>7 DEF Calm
<1>3. CASE ResumeBegins(w)
  <2>1. Types'
    BY <1>3, Actors, SMTT(20) DEF Calm, ResumeBegins, OpenBegins, leaseVars, worldVars, Types, Opening, Tasks, Starters
  <2>2. Restarting'
    BY <1>3, Actors, SMTT(20) DEF Calm, ResumeBegins, OpenBegins, leaseVars, worldVars, Types, Restarting, Resuming, LockHeld, Suspending, Flags, Opening, Unbound
  <2>3. Resuming'
    BY <1>3, Actors, SMTT(20) DEF Calm, ResumeBegins, OpenBegins, leaseVars, worldVars, Types, Restarting, Resuming, LockHeld, Suspending, Flags, Opening, Unbound
  <2>4. LockHeld'
    BY <1>3, Actors, SMTT(20) DEF Calm, ResumeBegins, OpenBegins, leaseVars, worldVars, Types, Restarting, Resuming, LockHeld, Suspending, Opening
  <2>5. Suspending'
    BY <1>3, Actors, SMTT(20) DEF Calm, ResumeBegins, OpenBegins, leaseVars, worldVars, Types, Restarting, Resuming, Suspending, Flags, Opening
  <2>6. Flags'
    BY <1>3, Actors, SMTT(20) DEF Calm, ResumeBegins, OpenBegins, leaseVars, worldVars, Types, Restarting, Resuming, LockHeld, Suspending, Flags, Opening
  <2>7. OneContext'
    BY <1>3, Actors, SMTT(20) DEF Calm, ResumeBegins, OpenBegins, leaseVars, worldVars, Types, Restarting, Resuming, Suspending, Flags, OneContext, Opening, Unbound
  <2> QED
    BY <2>1, <2>2, <2>3, <2>4, <2>5, <2>6, <2>7 DEF Calm
<1>4. CASE ResumeEnds(w)
  <2>1. Types'
    <3>1. mine' \in [Tasks \cup {Reaper} -> [pw : Nat, ctx : Nat]]
      BY <1>4, NoHandlesType DEF Calm, Types, ResumeEnds
    <3>2. pc' \in [Tasks -> {"idle", "wantLock", "using", "stopping", "starting",
                            "validate"} \cup Opening]
      BY <1>4, Actors DEF Calm, Types, ResumeEnds, GoesOn, worldVars
    <3>3. /\ launches' \in Nat /\ pw' \in Nat /\ ctx' \in Nat
          /\ suspended' \in BOOLEAN /\ available' \in BOOLEAN
          /\ holdsProfile' \in BOOLEAN /\ rival' \in BOOLEAN
      BY <1>4 DEF Calm, Types, ResumeEnds, GoesOn, worldVars
    <3> QED
      BY <3>1, <3>2, <3>3 DEF Types, Tasks, Starters
  <2>2. Restarting'
    <3>1. pc[Loop] = "idle"
      BY <1>4 DEF ResumeEnds, Calm, Restarting, Resuming, Opening
    <3>2. \A t \in Starters : pc'[t] = pc[t]
      BY <1>4, Actors DEF ResumeEnds, GoesOn, Calm, Types, Tasks
    <3> QED
      BY <3>1, <3>2, Actors DEF Calm, Restarting
  <2>3. Resuming'
    BY <1>4, Actors, SMTT(20) DEF Calm, ResumeEnds, GoesOn, NoHandles, worldVars, Types, Restarting, Resuming, LockHeld, Suspending, Flags, Opening, Unbound
  <2>4. LockHeld'
    BY <1>4, Actors, SMTT(20) DEF Calm, ResumeEnds, GoesOn, NoHandles, worldVars, Types, Restarting, Resuming, LockHeld, Suspending, Opening
  <2>5. Suspending'
    BY <1>4, Actors, SMTT(20) DEF Calm, ResumeEnds, GoesOn, NoHandles, worldVars, Types, Restarting, Resuming, Suspending, Flags, Opening
  <2>6. Flags'
    BY <1>4, Actors, SMTT(20) DEF Calm, ResumeEnds, GoesOn, NoHandles, worldVars, Types, Restarting, Resuming, LockHeld, Suspending, Flags, Opening
  <2>7. OneContext'
    BY <1>4, Actors, SMTT(20) DEF Calm, ResumeEnds, GoesOn, NoHandles, worldVars, Types, Restarting, Resuming, Suspending, Flags, OneContext, Opening, Unbound
  <2> QED
    BY <2>1, <2>2, <2>3, <2>4, <2>5, <2>6, <2>7 DEF Calm
<1>5. CASE ResumeFails(w)
  <2>1. Types'
    <3>1. mine' \in [Tasks \cup {Reaper} -> [pw : Nat, ctx : Nat]]
      BY <1>5, NoHandlesType DEF Calm, Types, ResumeFails
    <3>2. pc' \in [Tasks -> {"idle", "wantLock", "using", "stopping", "starting",
                            "validate"} \cup Opening]
      BY <1>5, Actors DEF Calm, Types, ResumeFails, worldVars
    <3>3. /\ launches' \in Nat /\ pw' \in Nat /\ ctx' \in Nat
          /\ suspended' \in BOOLEAN /\ available' \in BOOLEAN
          /\ holdsProfile' \in BOOLEAN /\ rival' \in BOOLEAN
      BY <1>5 DEF Calm, Types, ResumeFails, worldVars
    <3> QED
      BY <3>1, <3>2, <3>3 DEF Types, Tasks, Starters
  <2>2. Restarting'
    BY <1>5, Actors, SMTT(20) DEF Calm, ResumeFails, NoHandles, worldVars, Types, Restarting, Resuming, LockHeld, Suspending, Flags, Opening, Unbound
  <2>3. Resuming'
    BY <1>5, Actors, SMTT(20) DEF Calm, ResumeFails, NoHandles, worldVars, Types, Restarting, Resuming, LockHeld, Suspending, Flags, Opening, Unbound
  <2>4. LockHeld'
    BY <1>5, Actors, SMTT(20) DEF Calm, ResumeFails, NoHandles, worldVars, Types, Restarting, Resuming, LockHeld, Suspending, Opening
  <2>5. Suspending'
    BY <1>5, Actors, SMTT(20) DEF Calm, ResumeFails, NoHandles, worldVars, Types, Restarting, Resuming, Suspending, Flags, Opening
  <2>6. Flags'
    BY <1>5, Actors, SMTT(20) DEF Calm, ResumeFails, NoHandles, worldVars, Types, Restarting, Resuming, LockHeld, Suspending, Flags, Opening
  <2>7. OneContext'
    BY <1>5, Actors, SMTT(20) DEF Calm, ResumeFails, NoHandles, worldVars, Types, Restarting, Resuming, Suspending, Flags, OneContext, Opening, Unbound
  <2> QED
    BY <2>1, <2>2, <2>3, <2>4, <2>5, <2>6, <2>7 DEF Calm
<1> QED
  BY <1>1, <1>2, <1>3, <1>4, <1>5 DEF ResumeStep, ResumeCancelled

LEMMA ReaperCalm ==
  ASSUME ActorsAssumption, Calm, SuspendBegins \/ SuspendStep PROVE Calm'
<1>1. CASE SuspendBegins
  <2>1. Types'
    <3>1. mine' \in [Tasks \cup {Reaper} -> [pw : Nat, ctx : Nat]]
      BY <1>1, NoHandlesType DEF Calm, Types, SuspendBegins
    <3>2. pc' \in [Tasks -> {"idle", "wantLock", "using", "stopping", "starting",
                            "validate"} \cup Opening]
      BY <1>1, Actors DEF Calm, Types, SuspendBegins, worldVars
    <3>3. /\ launches' \in Nat /\ pw' \in Nat /\ ctx' \in Nat
          /\ suspended' \in BOOLEAN /\ available' \in BOOLEAN
          /\ holdsProfile' \in BOOLEAN /\ rival' \in BOOLEAN
      BY <1>1 DEF Calm, Types, SuspendBegins, worldVars
    <3> QED
      BY <3>1, <3>2, <3>3 DEF Types, Tasks, Starters
  <2>2. Restarting'
    BY <1>1, Actors, SMTT(20) DEF Calm, SuspendBegins, leaseVars, worldVars, Types, Restarting, Resuming, LockHeld, Suspending, Flags, Opening, Unbound
  <2>3. Resuming'
    BY <1>1, Actors, SMTT(20) DEF Calm, SuspendBegins, leaseVars, worldVars, Types, Restarting, Resuming, LockHeld, Suspending, Flags, Opening, Unbound
  <2>4. LockHeld'
    BY <1>1, Actors, SMTT(20) DEF Calm, SuspendBegins, leaseVars, worldVars, Types, Restarting, Resuming, LockHeld, Suspending, Opening
  <2>5. Suspending'
    BY <1>1, Actors, SMTT(20) DEF Calm, SuspendBegins, leaseVars, worldVars, Types, Restarting, Resuming, Suspending, Flags, Opening
  <2>6. Flags'
    BY <1>1, Actors, SMTT(20) DEF Calm, SuspendBegins, leaseVars, worldVars, Types, Restarting, Resuming, LockHeld, Suspending, Flags, Opening
  <2>7. OneContext'
    BY <1>1, Actors, SMTT(20) DEF Calm, SuspendBegins, leaseVars, worldVars, Types, Restarting, Resuming, Suspending, Flags, OneContext, Opening, Unbound
  <2> QED
    BY <2>1, <2>2, <2>3, <2>4, <2>5, <2>6, <2>7 DEF Calm
<1>2. CASE PoolParks
  <2>1. Types'
    BY <1>2, Actors, SMTT(20) DEF Calm, PoolParks, leaseVars, worldVars, Types, Opening, Tasks, Starters
  <2>2. Restarting'
    BY <1>2, Actors, SMTT(20) DEF Calm, PoolParks, leaseVars, worldVars, Types, Restarting, Resuming, LockHeld, Suspending, Flags, Opening, Unbound
  <2>3. Resuming'
    BY <1>2, Actors, SMTT(20) DEF Calm, PoolParks, leaseVars, worldVars, Types, Restarting, Resuming, LockHeld, Suspending, Flags, Opening, Unbound
  <2>4. LockHeld'
    BY <1>2, Actors, SMTT(20) DEF Calm, PoolParks, leaseVars, worldVars, Types, Restarting, Resuming, LockHeld, Suspending, Opening
  <2>5. Suspending'
    BY <1>2, Actors, SMTT(20) DEF Calm, PoolParks, leaseVars, worldVars, Types, Restarting, Resuming, Suspending, Flags, Opening
  <2>6. Flags'
    BY <1>2, Actors, SMTT(20) DEF Calm, PoolParks, leaseVars, worldVars, Types, Restarting, Resuming, LockHeld, Suspending, Flags, Opening
  <2>7. OneContext'
    BY <1>2, Actors, SMTT(20) DEF Calm, PoolParks, leaseVars, worldVars, Types, Restarting, Resuming, Suspending, Flags, OneContext, Opening, Unbound
  <2> QED
    BY <2>1, <2>2, <2>3, <2>4, <2>5, <2>6, <2>7 DEF Calm
<1>3. CASE SuspendEnds
  <2>1. Types'
    BY <1>3, Actors, SMTT(20) DEF Calm, SuspendEnds, Close, ClosedBy, NoHandles, leaseVars, Types, Opening, Tasks, Starters
  <2>2. Restarting'
    BY <1>3, Actors, SMTT(20) DEF Calm, SuspendEnds, Close, ClosedBy, NoHandles, leaseVars, Types, Restarting, Resuming, LockHeld, Suspending, Flags, Opening, Unbound
  <2>3. Resuming'
    BY <1>3, Actors, SMTT(20) DEF Calm, SuspendEnds, Close, ClosedBy, NoHandles, leaseVars, Types, Restarting, Resuming, LockHeld, Suspending, Flags, Opening, Unbound
  <2>4. LockHeld'
    BY <1>3, Actors, SMTT(20) DEF Calm, SuspendEnds, Close, ClosedBy, NoHandles, leaseVars, Types, Restarting, Resuming, LockHeld, Suspending, Opening
  <2>5. Suspending'
    BY <1>3, Actors, SMTT(20) DEF Calm, SuspendEnds, Close, ClosedBy, NoHandles, leaseVars, Types, Restarting, Resuming, Suspending, Flags, Opening
  <2>6. Flags'
    BY <1>3, Actors, SMTT(20) DEF Calm, SuspendEnds, Close, ClosedBy, NoHandles, leaseVars, Types, Restarting, Resuming, LockHeld, Suspending, Flags, Opening
  <2>7. OneContext'
    <3>1. chrome' = {} /\ wedged' = {}
      BY <1>3, Closing, Actors DEF Calm, SuspendEnds, Suspending
    <3> QED
      BY <3>1 DEF OneContext
  <2> QED
    BY <2>1, <2>2, <2>3, <2>4, <2>5, <2>6, <2>7 DEF Calm
<1> QED
  BY <1>1, <1>2, <1>3 DEF SuspendStep

\* The restarts of the loop; other restarters have nothing under way.
LEMMA RestartCalm ==
  ASSUME ActorsAssumption, Calm, NEW t \in Starters, RestartStep(t) PROVE Calm'
<1>1. CASE StopEnds(t)
  <2>1. Types'
    <3>1. mine' \in [Tasks \cup {Reaper} -> [pw : Nat, ctx : Nat]]
      BY <1>1, NoHandlesType DEF Calm, Types, StopEnds
    <3>2. pc' \in [Tasks -> {"idle", "wantLock", "using", "stopping", "starting",
                            "validate"} \cup Opening]
      BY <1>1, Actors DEF Calm, Types, StopEnds, Tasks
    <3>3. /\ launches' \in Nat /\ pw' \in Nat /\ ctx' \in Nat
          /\ suspended' \in BOOLEAN /\ available' \in BOOLEAN
          /\ holdsProfile' \in BOOLEAN /\ rival' \in BOOLEAN
      BY <1>1 DEF Calm, Types, StopEnds, Tasks
    <3> QED
      BY <3>1, <3>2, <3>3 DEF Types, Tasks, Starters
  <2>2. Restarting'
    BY <1>1, Actors, SMTT(20) DEF Calm, StopEnds, Close, ClosedBy, DropPool, NoHandles, Types, Restarting, Resuming, LockHeld, Suspending, Flags, Opening, Unbound
  <2>3. Resuming'
    BY <1>1, Actors, SMTT(20) DEF Calm, StopEnds, Close, ClosedBy, DropPool, NoHandles, Types, Restarting, Resuming, LockHeld, Suspending, Flags, Opening, Unbound
  <2>4. LockHeld'
    BY <1>1, Actors, SMTT(20) DEF Calm, StopEnds, Close, ClosedBy, DropPool, NoHandles, Types, Restarting, Resuming, LockHeld, Suspending, Opening
  <2>5. Suspending'
    BY <1>1, Actors, SMTT(20) DEF Calm, StopEnds, Close, ClosedBy, DropPool, NoHandles, Types, Restarting, Resuming, Suspending, Flags, Opening
  <2>6. Flags'
    BY <1>1, Actors, SMTT(20) DEF Calm, StopEnds, Close, ClosedBy, DropPool, NoHandles, Types, Restarting, Resuming, LockHeld, Suspending, Flags, Opening
  <2>7. OneContext'
    <3>1. chrome' = {} /\ wedged' = {}
      BY <1>1, Closing, Actors DEF Calm, StopEnds, Restarting
    <3> QED
      BY <3>1 DEF OneContext
  <2> QED
    BY <2>1, <2>2, <2>3, <2>4, <2>5, <2>6, <2>7 DEF Calm
<1>2. CASE StopTimesOut(t) \/ StartTimesOut(t)
  BY <1>2 DEF StopTimesOut, StartTimesOut, Calm, OneContext
<1>3. CASE StartBegins(t)
  <2>1. Types'
    BY <1>3, Actors, SMTT(20) DEF Calm, StartBegins, OpenBegins, browserVars, leaseVars, Types, Opening, Tasks, Starters
  <2>2. Restarting'
    BY <1>3, Actors, SMTT(20) DEF Calm, StartBegins, OpenBegins, browserVars, leaseVars, Types, Restarting, Resuming, LockHeld, Suspending, Flags, Opening, Unbound
  <2>3. Resuming'
    BY <1>3, Actors, SMTT(20) DEF Calm, StartBegins, OpenBegins, browserVars, leaseVars, Types, Restarting, Resuming, LockHeld, Suspending, Flags, Opening, Unbound
  <2>4. LockHeld'
    BY <1>3, Actors, SMTT(20) DEF Calm, StartBegins, OpenBegins, browserVars, leaseVars, Types, Restarting, Resuming, LockHeld, Suspending, Opening
  <2>5. Suspending'
    BY <1>3, Actors, SMTT(20) DEF Calm, StartBegins, OpenBegins, browserVars, leaseVars, Types, Restarting, Resuming, Suspending, Flags, Opening
  <2>6. Flags'
    BY <1>3, Actors, SMTT(20) DEF Calm, StartBegins, OpenBegins, browserVars, leaseVars, Types, Restarting, Resuming, LockHeld, Suspending, Flags, Opening
  <2>7. OneContext'
    BY <1>3, Actors, SMTT(20) DEF Calm, StartBegins, OpenBegins, browserVars, leaseVars, Types, Restarting, Resuming, Suspending, Flags, OneContext, Opening, Unbound
  <2> QED
    BY <2>1, <2>2, <2>3, <2>4, <2>5, <2>6, <2>7 DEF Calm
<1>4. CASE StartRefused(t)
  <2>1. Types'
    BY <1>4, Actors, SMTT(20) DEF Calm, StartRefused, browserVars, leaseVars, worldVars, Types, Opening, Tasks, Starters
  <2>2. Restarting'
    BY <1>4, Actors, SMTT(20) DEF Calm, StartRefused, browserVars, leaseVars, worldVars, Types, Restarting, Resuming, LockHeld, Suspending, Flags, Opening, Unbound
  <2>3. Resuming'
    BY <1>4, Actors, SMTT(20) DEF Calm, StartRefused, browserVars, leaseVars, worldVars, Types, Restarting, Resuming, LockHeld, Suspending, Flags, Opening, Unbound
  <2>4. LockHeld'
    BY <1>4, Actors, SMTT(20) DEF Calm, StartRefused, browserVars, leaseVars, worldVars, Types, Restarting, Resuming, LockHeld, Suspending, Opening
  <2>5. Suspending'
    BY <1>4, Actors, SMTT(20) DEF Calm, StartRefused, browserVars, leaseVars, worldVars, Types, Restarting, Resuming, Suspending, Flags, Opening
  <2>6. Flags'
    BY <1>4, Actors, SMTT(20) DEF Calm, StartRefused, browserVars, leaseVars, worldVars, Types, Restarting, Resuming, LockHeld, Suspending, Flags, Opening
  <2>7. OneContext'
    BY <1>4, Actors, SMTT(20) DEF Calm, StartRefused, browserVars, leaseVars, worldVars, Types, Restarting, Resuming, Suspending, Flags, OneContext, Opening, Unbound
  <2> QED
    BY <2>1, <2>2, <2>3, <2>4, <2>5, <2>6, <2>7 DEF Calm
<1>5. CASE StartValidates(t)
  <2>1. Types'
    BY <1>5, Actors, SMTT(20) DEF Calm, StartValidates, leaseVars, worldVars, Types, Opening, Tasks, Starters
  <2>2. Restarting'
    BY <1>5, Actors, SMTT(20) DEF Calm, StartValidates, leaseVars, worldVars, Types, Restarting, Resuming, LockHeld, Suspending, Flags, Opening, Unbound
  <2>3. Resuming'
    BY <1>5, Actors, SMTT(20) DEF Calm, StartValidates, leaseVars, worldVars, Types, Restarting, Resuming, LockHeld, Suspending, Flags, Opening, Unbound
  <2>4. LockHeld'
    BY <1>5, Actors, SMTT(20) DEF Calm, StartValidates, leaseVars, worldVars, Types, Restarting, Resuming, LockHeld, Suspending, Opening
  <2>5. Suspending'
    BY <1>5, Actors, SMTT(20) DEF Calm, StartValidates, leaseVars, worldVars, Types, Restarting, Resuming, Suspending, Flags, Opening
  <2>6. Flags'
    BY <1>5, Actors, SMTT(20) DEF Calm, StartValidates, leaseVars, worldVars, Types, Restarting, Resuming, LockHeld, Suspending, Flags, Opening
  <2>7. OneContext'
    BY <1>5, Actors, SMTT(20) DEF Calm, StartValidates, leaseVars, worldVars, Types, Restarting, Resuming, Suspending, Flags, OneContext, Opening, Unbound
  <2> QED
    BY <2>1, <2>2, <2>3, <2>4, <2>5, <2>6, <2>7 DEF Calm
<1>6. CASE StartEnds(t)
  <2>1. Types'
    <3>1. mine' \in [Tasks \cup {Reaper} -> [pw : Nat, ctx : Nat]]
      BY <1>6, NoHandlesType DEF Calm, Types, StartEnds
    <3>2. pc' \in [Tasks -> {"idle", "wantLock", "using", "stopping", "starting",
                            "validate"} \cup Opening]
      BY <1>6, Actors DEF Calm, Types, StartEnds, worldVars
    <3>3. /\ launches' \in Nat /\ pw' \in Nat /\ ctx' \in Nat
          /\ suspended' \in BOOLEAN /\ available' \in BOOLEAN
          /\ holdsProfile' \in BOOLEAN /\ rival' \in BOOLEAN
      BY <1>6 DEF Calm, Types, StartEnds, worldVars
    <3> QED
      BY <3>1, <3>2, <3>3 DEF Types, Tasks, Starters
  <2>2. Restarting'
    BY <1>6, Actors, SMTT(20) DEF Calm, StartEnds, NoHandles, leaseVars, worldVars, Types, Restarting, Resuming, LockHeld, Suspending, Flags, Opening, Unbound
  <2>3. Resuming'
    BY <1>6, Actors, SMTT(20) DEF Calm, StartEnds, NoHandles, leaseVars, worldVars, Types, Restarting, Resuming, LockHeld, Suspending, Flags, Opening, Unbound
  <2>4. LockHeld'
    BY <1>6, Actors, SMTT(20) DEF Calm, StartEnds, NoHandles, leaseVars, worldVars, Types, Restarting, Resuming, LockHeld, Suspending, Opening
  <2>5. Suspending'
    BY <1>6, Actors, SMTT(20) DEF Calm, StartEnds, NoHandles, leaseVars, worldVars, Types, Restarting, Resuming, Suspending, Flags, Opening
  <2>6. Flags'
    BY <1>6, Actors, SMTT(20) DEF Calm, StartEnds, NoHandles, leaseVars, worldVars, Types, Restarting, Resuming, LockHeld, Suspending, Flags, Opening
  <2>7. OneContext'
    BY <1>6, Actors, SMTT(20) DEF Calm, StartEnds, NoHandles, leaseVars, worldVars, Types, Restarting, Resuming, Suspending, Flags, OneContext, Opening, Unbound
  <2> QED
    BY <2>1, <2>2, <2>3, <2>4, <2>5, <2>6, <2>7 DEF Calm
<1>7. CASE StartFails(t)
  <2>1. Types'
    <3>1. mine' \in [Tasks \cup {Reaper} -> [pw : Nat, ctx : Nat]]
      BY <1>7, NoHandlesType DEF Calm, Types, StartFails
    <3>2. pc' \in [Tasks -> {"idle", "wantLock", "using", "stopping", "starting",
                            "validate"} \cup Opening]
      BY <1>7, Actors DEF Calm, Types, StartFails
    <3>3. /\ launches' \in Nat /\ pw' \in Nat /\ ctx' \in Nat
          /\ suspended' \in BOOLEAN /\ available' \in BOOLEAN
          /\ holdsProfile' \in BOOLEAN /\ rival' \in BOOLEAN
      BY <1>7 DEF Calm, Types, StartFails
    <3> QED
      BY <3>1, <3>2, <3>3 DEF Types, Tasks, Starters
  <2>2. Restarting'
    BY <1>7, Actors, SMTT(20) DEF Calm, StartFails, Close, ClosedBy, DropPool, NoHandles, Types, Restarting, Resuming, LockHeld, Suspending, Flags, Opening, Unbound
  <2>3. Resuming'
    BY <1>7, Actors, SMTT(20) DEF Calm, StartFails, Close, ClosedBy, DropPool, NoHandles, Types, Restarting, Resuming, LockHeld, Suspending, Flags, Opening, Unbound
  <2>4. LockHeld'
    BY <1>7, Actors, SMTT(20) DEF Calm, StartFails, Close, ClosedBy, DropPool, NoHandles, Types, Restarting, Resuming, LockHeld, Suspending, Opening
  <2>5. Suspending'
    BY <1>7, Actors, SMTT(20) DEF Calm, StartFails, Close, ClosedBy, DropPool, NoHandles, Types, Restarting, Resuming, Suspending, Flags, Opening
  <2>6. Flags'
    BY <1>7, Actors, SMTT(20) DEF Calm, StartFails, Close, ClosedBy, DropPool, NoHandles, Types, Restarting, Resuming, LockHeld, Suspending, Flags, Opening
  <2>7. OneContext'
    <3>1. chrome' = {} /\ wedged' = {}
      BY <1>7, Closing, Actors DEF Calm, StartFails
    <3> QED
      BY <3>1 DEF OneContext
  <2> QED
    BY <2>1, <2>2, <2>3, <2>4, <2>5, <2>6, <2>7 DEF Calm
<1> QED
  BY <1>1, <1>2, <1>3, <1>4, <1>5, <1>6, <1>7 DEF RestartStep

\* A restart of the loop may cancel a suspend, and no resume is under way.
LEMMA ProbeCalm ==
  ASSUME ActorsAssumption, Calm, ProbeSucceeds \/ ProbeFails PROVE Calm'
<1>1. CASE UNCHANGED <<browserVars, leaseVars, reaper, pc, mine, launches, worldVars>>
  <2>1. Types'
    BY <1>1, Actors, SMTT(20) DEF Calm, browserVars, worldVars, Types, Opening, Tasks, Starters
  <2>2. Restarting'
    BY <1>1, Actors, SMTT(20) DEF Calm, browserVars, worldVars, Types, Restarting, Resuming, LockHeld, Suspending, Flags, Opening, Unbound
  <2>3. Resuming'
    BY <1>1, Actors, SMTT(20) DEF Calm, browserVars, worldVars, Types, Restarting, Resuming, LockHeld, Suspending, Flags, Opening, Unbound
  <2>4. LockHeld'
    BY <1>1, Actors, SMTT(20) DEF Calm, browserVars, worldVars, Types, Restarting, Resuming, LockHeld, Suspending, Opening
  <2>5. Suspending'
    BY <1>1, Actors, SMTT(20) DEF Calm, browserVars, worldVars, Types, Restarting, Resuming, Suspending, Flags, Opening
  <2>6. Flags'
    BY <1>1, Actors, SMTT(20) DEF Calm, browserVars, worldVars, Types, Restarting, Resuming, LockHeld, Suspending, Flags, Opening
  <2>7. OneContext'
    BY <1>1, Actors, SMTT(20) DEF Calm, browserVars, worldVars, Types, Restarting, Resuming, Suspending, Flags, OneContext, Opening, Unbound
  <2> QED
    BY <2>1, <2>2, <2>3, <2>4, <2>5, <2>6, <2>7 DEF Calm
<1>2. CASE pc[Loop] = "idle" /\ ~suspended /\ StopBegins(Loop)
  <2>1. Types'
    <3>1. mine' \in [Tasks \cup {Reaper} -> [pw : Nat, ctx : Nat]]
      BY <1>2, NoHandlesType DEF Calm, Types, StopBegins
    <3>2. pc' \in [Tasks -> {"idle", "wantLock", "using", "stopping", "starting",
                            "validate"} \cup Opening]
      BY <1>2, Actors DEF Calm, Types, StopBegins, worldVars
    <3>3. /\ launches' \in Nat /\ pw' \in Nat /\ ctx' \in Nat
          /\ suspended' \in BOOLEAN /\ available' \in BOOLEAN
          /\ holdsProfile' \in BOOLEAN /\ rival' \in BOOLEAN
      BY <1>2 DEF Calm, Types, StopBegins, worldVars
    <3> QED
      BY <3>1, <3>2, <3>3 DEF Types, Tasks, Starters
  <2>2. Restarting'
    BY <1>2, Actors, SMTT(20) DEF Calm, StopBegins, NoHandles, leaseVars, worldVars, Types, Restarting, Resuming, LockHeld, Suspending, Flags, Opening, Unbound
  <2>3. Resuming'
    BY <1>2, Actors, SMTT(20) DEF Calm, StopBegins, NoHandles, leaseVars, worldVars, Types, Restarting, Resuming, LockHeld, Suspending, Flags, Opening, Unbound
  <2>4. LockHeld'
    BY <1>2, Actors, SMTT(20) DEF Calm, StopBegins, NoHandles, leaseVars, worldVars, Types, Restarting, Resuming, LockHeld, Suspending, Opening
  <2>5. Suspending'
    BY <1>2, Actors, SMTT(20) DEF Calm, StopBegins, NoHandles, leaseVars, worldVars, Types, Restarting, Resuming, Suspending, Flags, Opening
  <2>6. Flags'
    BY <1>2, Actors, SMTT(20) DEF Calm, StopBegins, NoHandles, leaseVars, worldVars, Types, Restarting, Resuming, LockHeld, Suspending, Flags, Opening
  <2>7. OneContext'
    BY <1>2, Actors, SMTT(20) DEF Calm, StopBegins, NoHandles, leaseVars, worldVars, Types, Restarting, Resuming, Suspending, Flags, OneContext, Opening, Unbound
  <2> QED
    BY <2>1, <2>2, <2>3, <2>4, <2>5, <2>6, <2>7 DEF Calm
<1> QED
  BY <1>1, <1>2 DEF ProbeSucceeds, ProbeFails, AttemptRestart

LEMMA WorldCalm ==
  ASSUME Calm, env = "calm", ChromeDies \/ ChromeWedges \/ RivalStarts \/ RivalStops
  PROVE  Calm'
<1>1. UNCHANGED <<browserVars, leaseVars, taskVars, holdsProfile>>
  BY DEF ChromeDies, ChromeWedges, RivalStarts, RivalStops
<1>2. chrome' \subseteq chrome /\ wedged' \subseteq wedged
  BY DEF ChromeDies, ChromeWedges, RivalStarts, RivalStops
<1>3. rival' \in BOOLEAN /\ (rival' => ~holdsProfile)
  <2>1. CASE ChromeDies \/ ChromeWedges
    BY <2>1 DEF ChromeDies, ChromeWedges, Calm, Types, Flags
  <2>2. CASE RivalStarts
    BY <2>2 DEF RivalStarts
  <2>3. CASE RivalStops
    BY <2>3 DEF RivalStops
  <2> QED
    BY <2>1, <2>2, <2>3
<1>4. Types'
  BY <1>1, <1>3 DEF browserVars, taskVars, Calm, Types
<1>5. (Restarting /\ Resuming /\ LockHeld /\ Suspending)'
  BY <1>1 DEF browserVars, taskVars, Calm, Restarting, Resuming, LockHeld, Suspending
<1>6. (Flags /\ OneContext)'
  BY <1>1, <1>2, <1>3 DEF browserVars, Calm, Flags, OneContext
<1> QED
  BY <1>4, <1>5, <1>6 DEF Calm

LEMMA CalmNext ==
  ASSUME ActorsAssumption, env = "calm", Calm, [Next]_vars PROVE Calm'
<1>1. CASE UNCHANGED vars
  BY <1>1 DEF vars, browserVars, taskVars, worldVars, Calm, Types,
     Restarting, Resuming, LockHeld, Suspending, Flags, OneContext
<1>2. CASE Next
  BY <1>2, LaunchCalm, WorkerCalm, ReaperCalm, RestartCalm, ProbeCalm, WorldCalm
     DEF Next, TriggerFires, ReauthRestarts
<1> QED
  BY <1>1, <1>2

\* The environment is chosen once.
LEMMA EnvKept == ASSUME [Next]_vars PROVE env' = env
BY DEF Next, vars, worldVars, LaunchStep, DriverStarts, ChromeStarts, Acquire, Release,
   ResumeStep, ResumeFindsWorkDone, ResumeBegins, ResumeEnds, ResumeFails,
   ResumeCancelled, LateChrome, SuspendBegins, SuspendStep, PoolParks, SuspendEnds,
   RestartStep, StopEnds, StopTimesOut, StartBegins, StartRefused, StartValidates,
   StartEnds, StartFails, StartTimesOut, ProbeSucceeds, ProbeFails, AttemptRestart,
   StopBegins, TriggerFires, ReauthRestarts, ChromeDies, ChromeWedges, RivalStarts,
   RivalStops

LEMMA Invariance == Spec => [](env = "calm" => Calm)
<1>1. Init => (env = "calm" => Calm)
  BY CalmInit, ActorsAssumption, BoundsAssumption
<1>2. (env = "calm" => Calm) /\ [Next]_vars => (env = "calm" => Calm)'
  BY CalmNext, EnvKept, ActorsAssumption
<1> QED
  BY <1>1, <1>2, PTL DEF Spec

------------------------------------------------------------------------------
(* Theorems *)

\* Suspends, resumes, crashes and the restarts of the watchdog loop never put two
\* Chromes on the profile, another process's included.
THEOREM OneChromeOnProfile == Spec => []OneChrome
<1>1. (env = "calm" => Calm) => OneChrome
  <2> SUFFICES ASSUME Calm
               PROVE  Cardinality(chrome) + (IF rival THEN 1 ELSE 0) <= 1
    BY DEF OneChrome
  <2>1. chrome = {} \/ chrome = {ctx}
    BY DEF Calm, OneContext
  <2>2. chrome # {} => ~rival
    BY DEF Calm, OneContext, Flags
  <2>3. Cardinality({}) = 0 /\ Cardinality({ctx}) = 1
    BY FS_EmptySet, FS_Singleton
  <2> QED
    BY <2>1, <2>2, <2>3
<1> QED
  BY <1>1, Invariance, PTL

\* Chrome runs only while the lock file names the process.
THEOREM ProfileIsLocked == Spec => []ChromeUnderProfileLock
<1>1. (env = "calm" => Calm) => ChromeUnderProfileLock
  BY DEF Calm, OneContext, ChromeUnderProfileLock
<1> QED
  BY <1>1, Invariance, PTL

------------------------------------------------------------------------------
(* In any environment: what is launched, and what is left to launch *)

\* Restarts that have not begun their launch yet.
Pending == {t \in Starters : pc[t] \in {"stopping", "starting"}}
Allowed == IF env = "rough" THEN RoughLaunches ELSE MaxLaunches

Places == {"idle", "wantLock", "using", "stopping", "starting", "validate"} \cup Opening

\* Who launches works on a launch.
ActorTypes ==
  /\ pc \in [Tasks -> Places]
  /\ mine \in [Tasks \cup {Reaper} -> Handles]
  /\ reaper \in {"off", "loop", "parking", "closing"} /\ strikes \in 0..2
  /\ \A t \in Tasks : pc[t] \in Opening =>
       mine[t].pw \in Launches /\ mine[t].ctx = mine[t].pw

BrowserTypes ==
  /\ lock \in Workers \cup {NoOne, Reaper}
  /\ suspended \in BOOLEAN /\ available \in BOOLEAN
  /\ pw \in 0..MaxLaunches /\ ctx \in 0..MaxLaunches
  /\ pool \in {"none", "bound", "parked"}
  /\ leases \in SUBSET Workers /\ orphaned \in SUBSET Workers

WorldTypes ==
  /\ drivers \in SUBSET Launches
  /\ chrome \in SUBSET drivers /\ wedged \in SUBSET chrome
  /\ holdsProfile \in BOOLEAN /\ rival \in BOOLEAN
  /\ env \in {"calm", "rough"}

\* Each restart that has begun finds a launch left when it gets there.
BudgetKept ==
  /\ launches \in Nat
  /\ IsFiniteSet(Pending)
  /\ launches + Cardinality(Pending) <= Allowed

LifecycleInv == ActorTypes /\ BrowserTypes /\ WorldTypes /\ BudgetKept

LEMMA AllowedBound ==
  ASSUME BoundsAssumption, WorldTypes PROVE Allowed \in 1..MaxLaunches
BY DEF BoundsAssumption, Allowed, WorldTypes

\* A restart that begins, one that launches or is over, and a resume that launches.
LEMMA BudgetStep ==
  ASSUME BoundsAssumption, WorldTypes, BudgetKept, env' = env,
         \/ launches' = launches /\ Pending' \subseteq Pending
         \/ /\ launches' = launches /\ LaunchesLeft
            /\ \E t : Pending' \subseteq Pending \cup {t}
         \/ /\ launches' = launches + 1
            /\ \E t \in Pending : Pending' \subseteq Pending \ {t}
         \/ launches' = launches + 1 /\ LaunchesLeft /\ Pending' \subseteq Pending
  PROVE  BudgetKept'
<1>0. /\ Allowed' = Allowed /\ Allowed \in Nat
      /\ IsFiniteSet(Pending) /\ Cardinality(Pending) \in Nat /\ launches \in Nat
  BY AllowedBound, FS_CardinalityType DEF Allowed, BudgetKept, BoundsAssumption
<1>1. LaunchesLeft => launches + Cardinality(Pending) < Allowed
  BY DEF LaunchesLeft, Pending, Allowed
<1>2. ASSUME NEW S, IsFiniteSet(S), Pending' \subseteq S,
             launches' \in Nat, launches' + Cardinality(S) <= Allowed
      PROVE  BudgetKept'
  <2>1. IsFiniteSet(Pending') /\ Cardinality(Pending') <= Cardinality(S)
    BY <1>2, FS_Subset
  <2>2. Cardinality(Pending') \in Nat /\ Cardinality(S) \in Nat
    BY <2>1, <1>2, FS_CardinalityType
  <2> QED
    BY <1>0, <1>2, <2>1, <2>2 DEF BudgetKept
<1>3. CASE launches' = launches /\ Pending' \subseteq Pending
  BY <1>0, <1>2, <1>3 DEF BudgetKept
<1>4. CASE /\ launches' = launches /\ LaunchesLeft
           /\ \E t : Pending' \subseteq Pending \cup {t}
  <2>1. PICK t : Pending' \subseteq Pending \cup {t}
    BY <1>4
  <2>2. /\ IsFiniteSet(Pending \cup {t})
        /\ \/ Cardinality(Pending \cup {t}) = Cardinality(Pending)
           \/ Cardinality(Pending \cup {t}) = Cardinality(Pending) + 1
    BY <1>0, FS_AddElement
  <2>3. launches' \in Nat /\ launches' + Cardinality(Pending \cup {t}) <= Allowed
    BY <1>0, <1>1, <1>4, <2>2
  <2> QED
    BY <1>2, <2>1, <2>2, <2>3
<1>5. CASE /\ launches' = launches + 1
           /\ \E t \in Pending : Pending' \subseteq Pending \ {t}
  <2>1. PICK t \in Pending : Pending' \subseteq Pending \ {t}
    BY <1>5
  <2>2. /\ IsFiniteSet(Pending \ {t})
        /\ Cardinality(Pending \ {t}) = Cardinality(Pending) - 1
    BY <1>0, <2>1, FS_RemoveElement
  <2>3. launches' \in Nat /\ launches' + Cardinality(Pending \ {t}) <= Allowed
    BY <1>0, <1>5, <2>2 DEF BudgetKept
  <2> QED
    BY <1>2, <2>1, <2>2, <2>3
<1>6. CASE launches' = launches + 1 /\ LaunchesLeft /\ Pending' \subseteq Pending
  BY <1>0, <1>1, <1>2, <1>6
<1> QED
  BY <1>3, <1>4, <1>5, <1>6

LEMMA LifecycleInitTypes ==
  ASSUME ActorsAssumption, BoundsAssumption, Init PROVE LifecycleInv
<1>1. ActorTypes /\ BrowserTypes /\ WorldTypes
  <2>0. /\ 1 \in Launches /\ 1 \in 0..MaxLaunches /\ NoHandles \in Handles
    BY DEF BoundsAssumption, Launches, NoHandles, Handles
  <2>1. ActorTypes
    BY <2>0 DEF Init, ActorTypes, Places, Opening
  <2>2. BrowserTypes
    BY <2>0, ZenonT(20) DEF Init, BrowserTypes
  <2>3. WorldTypes
    BY <2>0 DEF Init, WorldTypes
  <2> QED
    BY <2>1, <2>2, <2>3
<1>2. Pending = {}
  BY DEF Init, Pending, Starters, Restarters, Tasks
<1>3. BudgetKept
  BY <1>2, FS_EmptySet, AllowedBound, <1>1 DEF Init, BudgetKept, BoundsAssumption
<1> QED
  BY <1>1, <1>3 DEF LifecycleInv

\* A launch that may begin is within the bound.
LEMMA NextLaunch ==
  ASSUME BoundsAssumption, LifecycleInv, LaunchesLeft \/ Pending # {}
  PROVE  launches + 1 \in Launches
<1>0. /\ Allowed \in 1..MaxLaunches /\ MaxLaunches \in Nat
      /\ IsFiniteSet(Pending) /\ Cardinality(Pending) \in Nat /\ launches \in Nat
  BY AllowedBound, FS_CardinalityType DEF LifecycleInv, BudgetKept, BoundsAssumption
<1>1. Pending # {} => Cardinality(Pending) > 0
  BY <1>0, FS_EmptySet
<1>2. LaunchesLeft => launches + Cardinality(Pending) < Allowed
  BY DEF LaunchesLeft, Pending, Allowed
<1> QED
  BY <1>0, <1>1, <1>2 DEF LifecycleInv, BudgetKept, Launches

\* Closing a driver ends its Chrome.
LEMMA CloseTypes ==
  ASSUME WorldTypes, NEW h, Close(h)
  PROVE  drivers' \in SUBSET Launches /\ chrome' \in SUBSET drivers'
         /\ wedged' \in SUBSET chrome'
BY DEF WorldTypes, Close, ClosedBy

LEMMA LaunchTypes ==
  ASSUME ActorsAssumption, BoundsAssumption, LifecycleInv, NEW t \in Tasks, LaunchStep(t)
  PROVE  LifecycleInv'
<1>0. /\ pc[t] \in Opening /\ mine[t].pw \in Launches /\ mine[t].ctx = mine[t].pw
      /\ Launches \subseteq 0..MaxLaunches
  BY DEF LaunchStep, DriverStarts, ChromeStarts, Opening, LifecycleInv, ActorTypes,
         Launches, BoundsAssumption
<1>1. ActorTypes'
  <2>1. \E p \in Opening : pc' = [pc EXCEPT ![t] = p]
    BY DEF LaunchStep, DriverStarts, ChromeStarts, Opening
  <2>2. UNCHANGED <<mine, reaper, strikes>>
    BY DEF LaunchStep, DriverStarts, ChromeStarts
  <2> QED
    BY <1>0, <2>1, <2>2 DEF LifecycleInv, ActorTypes, Places
<1>2. BrowserTypes'
  BY <1>0 DEF LaunchStep, DriverStarts, ChromeStarts, LifecycleInv, BrowserTypes, leaseVars
<1>3. WorldTypes'
  BY <1>0 DEF LaunchStep, DriverStarts, ChromeStarts, LifecycleInv, WorldTypes
<1>4. BudgetKept'
  <2>1. launches' = launches /\ env' = env
    BY DEF LaunchStep, DriverStarts, ChromeStarts
  <2>2. \E p \in Opening : pc' = [pc EXCEPT ![t] = p]
    BY DEF LaunchStep, DriverStarts, ChromeStarts, Opening
  <2>3. Pending' \subseteq Pending
    BY <2>2 DEF Pending, LifecycleInv, ActorTypes, Opening
  <2> QED
    BY <2>1, <2>3, BudgetStep DEF LifecycleInv
<1> QED
  BY <1>1, <1>2, <1>3, <1>4 DEF LifecycleInv

LEMMA WorkerTypes ==
  ASSUME ActorsAssumption, BoundsAssumption, LifecycleInv, NEW w \in Workers,
         Acquire(w) \/ Release(w) \/ ResumeStep(w) \/ ResumeCancelled(w)
  PROVE  LifecycleInv'
<1>0. /\ w \in Tasks /\ w \notin Starters /\ NoHandles \in Handles /\ NoHandles.pw = 0
      /\ \A h \in Launches : [pw |-> h, ctx |-> h] \in Handles
  BY Actors DEF NoHandles, Handles, BoundsAssumption, Launches
<1>1. ActorTypes'
  <2>1. CASE ResumeBegins(w)
    <3>1. launches + 1 \in Launches
      BY <2>1, NextLaunch DEF ResumeBegins
    <3>2. /\ mine' = [mine EXCEPT ![w] = [pw |-> launches + 1, ctx |-> launches + 1]]
          /\ pc' = [pc EXCEPT ![w] = "driver"] /\ UNCHANGED <<reaper, strikes>>
      BY <2>1 DEF ResumeBegins, OpenBegins
    <3> QED
      BY <1>0, <3>1, <3>2 DEF LifecycleInv, ActorTypes, Places, Opening
  <2>2. CASE ~ResumeBegins(w)
    <3>1. \E p \in {"idle", "using", "wantLock"} : pc' = [pc EXCEPT ![w] = p]
      BY <2>2 DEF Acquire, Release, ResumeStep, ResumeFindsWorkDone, ResumeEnds, GoesOn,
                  ResumeFails, ResumeCancelled
    <3>2. mine' = mine \/ mine' = [mine EXCEPT ![w] = NoHandles]
      BY <2>2 DEF Acquire, Release, ResumeStep, ResumeFindsWorkDone, ResumeEnds,
                  ResumeFails, ResumeCancelled
    <3>3. /\ reaper' \in {reaper, "loop"} /\ strikes' = strikes
      BY <2>2 DEF Acquire, Release, ResumeStep, ResumeFindsWorkDone, ResumeEnds,
                  ResumeFails, ResumeCancelled
    <3> QED
      BY <1>0, <3>1, <3>2, <3>3 DEF LifecycleInv, ActorTypes, Places, Opening
  <2> QED
    BY <2>1, <2>2
<1>2. BrowserTypes'
  <2>1. /\ leases' \in {leases, leases \cup {w}, leases \ {w}}
        /\ orphaned' \in {orphaned, orphaned \ {w}}
    BY DEF Acquire, Release, ResumeStep, ResumeFindsWorkDone, ResumeBegins, ResumeEnds,
           GoesOn, ResumeFails, ResumeCancelled, browserVars, leaseVars
  <2>2. /\ lock' \in {lock, w, NoOne} /\ pw' = pw /\ ctx' = ctx
        /\ pool' \in {pool, "bound"}
    BY DEF Acquire, Release, ResumeStep, ResumeFindsWorkDone, ResumeBegins, ResumeEnds,
           GoesOn, ResumeFails, ResumeCancelled, browserVars, leaseVars
  <2>3. suspended' \in {suspended, FALSE} /\ available' \in {available, TRUE, FALSE}
    BY DEF Acquire, Release, ResumeStep, ResumeFindsWorkDone, ResumeBegins, ResumeEnds,
           GoesOn, ResumeFails, ResumeCancelled, browserVars, leaseVars
  <2> QED
    BY <2>1, <2>2, <2>3 DEF LifecycleInv, BrowserTypes
<1>3. WorldTypes'
  <2>1. CASE ResumeCancelled(w)
    <3>1. /\ UNCHANGED <<drivers, wedged, holdsProfile, rival, env>>
          /\ \/ UNCHANGED chrome
             \/ /\ pc[w] \in Opening /\ mine[w].pw \in drivers
                /\ chrome' = chrome \cup {mine[w].ctx}
      BY <2>1 DEF ResumeCancelled, LateChrome, Opening
    <3> QED
      BY <1>0, <3>1 DEF LifecycleInv, WorldTypes, ActorTypes
  <2>2. CASE ~ResumeCancelled(w)
    <3>1. UNCHANGED worldVars
      BY <2>2 DEF Acquire, Release, ResumeStep, ResumeFindsWorkDone, ResumeBegins,
                  ResumeEnds, ResumeFails
    <3> QED
      BY <3>1 DEF LifecycleInv, WorldTypes, worldVars
  <2> QED
    BY <2>1, <2>2
<1>4. BudgetKept'
  <2>1. Pending' = Pending
    <3>1. \A t \in Starters : pc'[t] = pc[t]
      BY <1>0 DEF Acquire, Release, ResumeStep, ResumeFindsWorkDone, ResumeBegins,
             ResumeEnds, GoesOn, ResumeFails, ResumeCancelled, OpenBegins, LifecycleInv,
             ActorTypes, Tasks
    <3> QED
      BY <3>1 DEF Pending
  <2>2. env' = env
    BY DEF Acquire, Release, ResumeStep, ResumeFindsWorkDone, ResumeBegins, ResumeEnds,
           ResumeFails, ResumeCancelled, LateChrome, worldVars
  <2>3. CASE ResumeBegins(w)
    BY <2>1, <2>3, <2>2, BudgetStep DEF ResumeBegins, OpenBegins, LifecycleInv
  <2>4. CASE ~ResumeBegins(w)
    <3>1. launches' = launches
      BY <2>4 DEF Acquire, Release, ResumeStep, ResumeFindsWorkDone, ResumeEnds,
                  ResumeFails, ResumeCancelled
    <3> QED
      BY <2>1, <2>2, <3>1, BudgetStep DEF LifecycleInv
  <2> QED
    BY <2>3, <2>4
<1> QED
  BY <1>1, <1>2, <1>3, <1>4 DEF LifecycleInv

LEMMA ReaperTypes ==
  ASSUME ActorsAssumption, BoundsAssumption, LifecycleInv, SuspendBegins \/ SuspendStep
  PROVE  LifecycleInv'
<1>0. 0 \in 0..MaxLaunches /\ NoHandles \in Handles
  BY DEF BoundsAssumption, NoHandles, Handles
<1>1. ActorTypes'
  <2>1. UNCHANGED <<pc, strikes>> /\ reaper' \in {"loop", "parking", "closing"}
    BY DEF SuspendBegins, SuspendStep, PoolParks, SuspendEnds
  <2>2. \E h \in Handles : mine' = mine \/ mine' = [mine EXCEPT ![Reaper] = h]
    <3>1. [pw |-> pw, ctx |-> ctx] \in Handles
      BY DEF LifecycleInv, BrowserTypes, Handles
    <3> QED
      BY <1>0, <3>1 DEF SuspendBegins, SuspendStep, PoolParks, SuspendEnds
  <2> QED
    BY <2>1, <2>2, Actors DEF LifecycleInv, ActorTypes
<1>2. BrowserTypes'
  <2>1. /\ lock' \in {lock, Reaper, NoOne} /\ suspended' \in {suspended, TRUE}
        /\ available' \in {available, FALSE} /\ pool' \in {pool, "parked"}
    BY DEF SuspendBegins, SuspendStep, PoolParks, SuspendEnds
  <2>2. pw' \in {pw, 0} /\ ctx' \in {ctx, 0} /\ leases' = leases /\ orphaned' = orphaned
    BY DEF SuspendBegins, SuspendStep, PoolParks, SuspendEnds, leaseVars
  <2> QED
    BY <1>0, <2>1, <2>2 DEF LifecycleInv, BrowserTypes
<1>3. WorldTypes'
  <2>1. CASE SuspendEnds
    BY <2>1, CloseTypes DEF SuspendEnds, LifecycleInv, WorldTypes
  <2>2. CASE ~SuspendEnds
    BY <2>2 DEF SuspendBegins, SuspendStep, PoolParks, worldVars, LifecycleInv, WorldTypes
  <2> QED
    BY <2>1, <2>2
<1>4. BudgetKept'
  <2>1. UNCHANGED <<pc, launches>>
    BY DEF SuspendBegins, SuspendStep, PoolParks, SuspendEnds
  <2>2. env' = env
    BY DEF SuspendBegins, SuspendStep, PoolParks, SuspendEnds, worldVars
  <2> QED
    BY <2>1, <2>2, BudgetStep DEF LifecycleInv, Pending
<1> QED
  BY <1>1, <1>2, <1>3, <1>4 DEF LifecycleInv

\* A stop() begins: of a restart that has a launch left.
LEMMA StopTypes ==
  ASSUME ActorsAssumption, BoundsAssumption, LifecycleInv, NEW t \in Starters,
         LaunchesLeft, StopBegins(t), strikes' \in 0..2
  PROVE  LifecycleInv'
<1>0. t \in Tasks /\ Reaper \notin Tasks /\ NoHandles \in Handles
  BY Actors DEF Tasks, NoHandles, Handles, BoundsAssumption
<1>1. ActorTypes'
  <2>1. [pw |-> pw, ctx |-> ctx] \in Handles
    BY DEF LifecycleInv, BrowserTypes, Handles
  <2>2. /\ mine' = [mine EXCEPT ![t] = [pw |-> pw, ctx |-> ctx], ![Reaper] = NoHandles]
        /\ pc' = [pc EXCEPT ![t] = "stopping"] /\ reaper' = "off"
    BY DEF StopBegins
  <2> QED
    BY <1>0, <2>1, <2>2 DEF LifecycleInv, ActorTypes, Places, Opening
<1>2. BrowserTypes'
  BY DEF StopBegins, leaseVars, LifecycleInv, BrowserTypes
<1>3. WorldTypes'
  BY DEF StopBegins, worldVars, LifecycleInv, WorldTypes
<1>4. BudgetKept'
  <2>1. launches' = launches /\ env' = env /\ pc' = [pc EXCEPT ![t] = "stopping"]
    BY DEF StopBegins, worldVars
  <2>2. Pending' \subseteq Pending \cup {t}
    BY <2>1 DEF Pending, LifecycleInv, ActorTypes
  <2> QED
    BY <2>1, <2>2, BudgetStep DEF LifecycleInv
<1> QED
  BY <1>1, <1>2, <1>3, <1>4 DEF LifecycleInv

LEMMA RestartTypes ==
  ASSUME ActorsAssumption, BoundsAssumption, LifecycleInv, NEW t \in Starters, RestartStep(t)
  PROVE  LifecycleInv'
<1>0. /\ t \in Tasks /\ 0 \in 0..MaxLaunches /\ NoHandles \in Handles
      /\ \A h \in Launches : [pw |-> h, ctx |-> h] \in Handles
  BY DEF Tasks, NoHandles, Handles, BoundsAssumption, Launches
<1>1. ActorTypes'
  <2>1. CASE StartBegins(t)
    <3>1. t \in Pending
      BY <2>1 DEF StartBegins, Pending
    <3>2. launches + 1 \in Launches
      BY <3>1, NextLaunch
    <3>3. /\ mine' = [mine EXCEPT ![t] = [pw |-> launches + 1, ctx |-> launches + 1]]
          /\ pc' = [pc EXCEPT ![t] = "driver"] /\ UNCHANGED <<reaper, strikes>>
      BY <2>1 DEF StartBegins, OpenBegins
    <3> QED
      BY <1>0, <3>2, <3>3 DEF LifecycleInv, ActorTypes, Places, Opening
  <2>2. CASE ~StartBegins(t)
    <3>1. \E p \in {"idle", "starting", "validate"} : pc' = [pc EXCEPT ![t] = p]
      BY <2>2 DEF RestartStep, StopEnds, StopTimesOut, StartRefused, StartValidates,
                  StartEnds, StartFails, StartTimesOut
    <3>2. mine' = mine \/ mine' = [mine EXCEPT ![t] = NoHandles]
      BY <2>2 DEF RestartStep, StopEnds, StopTimesOut, StartRefused, StartValidates,
                  StartEnds, StartFails, StartTimesOut
    <3>3. reaper' \in {reaper, "loop"} /\ strikes' \in {strikes, 0}
      BY <2>2 DEF RestartStep, StopEnds, StopTimesOut, StartRefused, StartValidates,
                  StartEnds, StartFails, StartTimesOut, RestartCounted
    <3> QED
      BY <1>0, <3>1, <3>2, <3>3 DEF LifecycleInv, ActorTypes, Places, Opening
  <2> QED
    BY <2>1, <2>2
<1>2. BrowserTypes'
  <2>1. /\ lock' = lock /\ suspended' \in {suspended, FALSE}
        /\ available' \in {available, TRUE, FALSE}
    BY DEF RestartStep, StopEnds, StopTimesOut, StartBegins, StartRefused, StartValidates,
           StartEnds, StartFails, StartTimesOut, browserVars
  <2>2. /\ pool' \in {pool, "bound", "none"} /\ pw' \in {pw, 0} /\ ctx' \in {ctx, 0}
    BY DEF RestartStep, StopEnds, StopTimesOut, StartBegins, StartRefused, StartValidates,
           StartEnds, StartFails, StartTimesOut, browserVars, DropPool
  <2>3. leases' \in {leases, {}} /\ (orphaned' = orphaned \/ DropPool)
    BY DEF RestartStep, StopEnds, StopTimesOut, StartBegins, StartRefused, StartValidates,
           StartEnds, StartFails, StartTimesOut, leaseVars, DropPool
  <2>4. DropPool => orphaned' \subseteq orphaned \cup Workers
    BY DEF DropPool
  <2> QED
    BY <1>0, <2>1, <2>2, <2>3, <2>4 DEF LifecycleInv, BrowserTypes
<1>3. WorldTypes'
  <2>1. /\ holdsProfile' \in {holdsProfile, TRUE, FALSE} /\ rival' = rival
        /\ env' = env
    BY DEF RestartStep, StopEnds, StopTimesOut, StartBegins, StartRefused, StartValidates,
           StartEnds, StartFails, StartTimesOut, LateChrome, worldVars
  <2>2. \/ UNCHANGED <<drivers, chrome, wedged>>
        \/ \E h : Close(h)
        \/ /\ UNCHANGED <<drivers, wedged>>
           /\ pc[t] \in Opening /\ mine[t].pw \in drivers
           /\ chrome' = chrome \cup {mine[t].ctx}
    <3>1. StopEnds(t) \/ StartFails(t) => \E h : Close(h)
      BY DEF StopEnds, StartFails
    <3>2. CASE StartTimesOut(t)
      BY <3>2 DEF StartTimesOut, LateChrome, Opening
    <3>3. CASE ~(StopEnds(t) \/ StartFails(t) \/ StartTimesOut(t))
      BY <3>3 DEF RestartStep, StopTimesOut, StartBegins, StartRefused, StartValidates,
                  StartEnds, worldVars
    <3> QED
      BY <3>1, <3>2, <3>3
  <2>3. drivers' \in SUBSET Launches /\ chrome' \in SUBSET drivers'
        /\ wedged' \in SUBSET chrome'
    BY <1>0, <2>2, CloseTypes DEF LifecycleInv, ActorTypes, WorldTypes
  <2> QED
    BY <2>1, <2>3 DEF LifecycleInv, WorldTypes
<1>4. BudgetKept'
  <2>1. env' = env
    BY DEF RestartStep, StopEnds, StopTimesOut, StartBegins, StartRefused, StartValidates,
           StartEnds, StartFails, StartTimesOut, LateChrome, worldVars
  <2>2. CASE StartBegins(t)
    <3>1. pc[t] = "starting" /\ launches' = launches + 1 /\ pc' = [pc EXCEPT ![t] = "driver"]
      BY <2>2 DEF StartBegins, OpenBegins
    <3>2. t \in Pending /\ Pending' \subseteq Pending \ {t}
      BY <3>1, <1>0 DEF Pending, LifecycleInv, ActorTypes
    <3> QED
      BY <2>1, <3>1, <3>2, BudgetStep DEF LifecycleInv
  <2>3. CASE ~StartBegins(t)
    <3>1. launches' = launches
      BY <2>3 DEF RestartStep, StopEnds, StopTimesOut, StartRefused, StartValidates,
                  StartEnds, StartFails, StartTimesOut
    <3>2. \/ pc[t] = "stopping" /\ pc' = [pc EXCEPT ![t] = "starting"]
          \/ pc' = [pc EXCEPT ![t] = "idle"] \/ pc' = [pc EXCEPT ![t] = "validate"]
      BY <2>3 DEF RestartStep, StopEnds, StopTimesOut, StartRefused, StartValidates,
                  StartEnds, StartFails, StartTimesOut
    <3>3. /\ \A s \in Starters \ {t} : pc'[s] = pc[s]
          /\ pc'[t] \in {"stopping", "starting"} => pc[t] \in {"stopping", "starting"}
      BY <1>0, <3>2 DEF LifecycleInv, ActorTypes, Tasks
    <3>4. Pending' \subseteq Pending
      BY <3>3 DEF Pending
    <3> QED
      BY <2>1, <3>1, <3>4, BudgetStep DEF LifecycleInv
  <2> QED
    BY <2>2, <2>3
<1> QED
  BY <1>1, <1>2, <1>3, <1>4 DEF LifecycleInv

LEMMA ProbeTypes ==
  ASSUME ActorsAssumption, BoundsAssumption, LifecycleInv,
         \/ ProbeSucceeds \/ ProbeFails
         \/ \E t \in Triggers : TriggerFires(t)
         \/ \E t \in Reauthers : ReauthRestarts(t)
  PROVE  LifecycleInv'
<1>0. strikes' \in 0..2
  BY DEF ProbeSucceeds, ProbeFails, TriggerFires, ReauthRestarts, LifecycleInv, ActorTypes
<1>1. CASE \E t \in Starters : LaunchesLeft /\ StopBegins(t)
  BY <1>0, <1>1, StopTypes
<1>2. CASE UNCHANGED <<browserVars, leaseVars, reaper, pc, mine, launches, worldVars>>
  <2>1. ActorTypes' /\ BrowserTypes' /\ WorldTypes'
    BY <1>0, <1>2 DEF browserVars, leaseVars, worldVars, LifecycleInv, ActorTypes,
                      BrowserTypes, WorldTypes
  <2>2. BudgetKept'
    BY <1>2 DEF worldVars, LifecycleInv, BudgetKept, Pending, Allowed
  <2> QED
    BY <2>1, <2>2 DEF LifecycleInv
<1>3. \/ \E t \in Starters : LaunchesLeft /\ StopBegins(t)
      \/ UNCHANGED <<browserVars, leaseVars, reaper, pc, mine, launches, worldVars>>
  <2>1. CASE \E t \in Starters : AttemptRestart(t)
    BY <2>1 DEF AttemptRestart
  <2>2. CASE ~\E t \in Starters : AttemptRestart(t)
    BY <2>2, Actors DEF ProbeSucceeds, ProbeFails, TriggerFires, ReauthRestarts,
                        Starters, Restarters
  <2> QED
    BY <2>1, <2>2
<1> QED
  BY <1>1, <1>2, <1>3

LEMMA WorldTypesKept ==
  ASSUME LifecycleInv, ChromeDies \/ ChromeWedges \/ RivalStarts \/ RivalStops
  PROVE  LifecycleInv'
<1>1. UNCHANGED <<browserVars, leaseVars, taskVars, drivers, env>>
  BY DEF ChromeDies, ChromeWedges, RivalStarts, RivalStops
<1>2. ActorTypes' /\ BrowserTypes' /\ BudgetKept'
  BY <1>1 DEF browserVars, leaseVars, taskVars, LifecycleInv, ActorTypes, BrowserTypes,
              BudgetKept, Pending, Allowed
<1>3. WorldTypes'
  <2>1. holdsProfile' = holdsProfile /\ rival' \in BOOLEAN
    BY DEF ChromeDies, ChromeWedges, RivalStarts, RivalStops, LifecycleInv, WorldTypes
  <2>2. chrome' \in SUBSET drivers /\ wedged' \in SUBSET chrome'
    BY DEF ChromeDies, ChromeWedges, RivalStarts, RivalStops, LifecycleInv, WorldTypes
  <2> QED
    BY <1>1, <2>1, <2>2 DEF LifecycleInv, WorldTypes
<1> QED
  BY <1>2, <1>3 DEF LifecycleInv

LEMMA LifecycleNextTypes ==
  ASSUME ActorsAssumption, BoundsAssumption, LifecycleInv, [Next]_vars
  PROVE  LifecycleInv'
<1>1. CASE UNCHANGED vars
  BY <1>1 DEF vars, browserVars, leaseVars, taskVars, worldVars, LifecycleInv,
              ActorTypes, BrowserTypes, WorldTypes, BudgetKept, Pending, Allowed
<1>2. CASE Next
  BY <1>2, LaunchTypes, WorkerTypes, ReaperTypes, RestartTypes, ProbeTypes,
     WorldTypesKept DEF Next
<1> QED
  BY <1>1, <1>2

\* Whoever restarts, resumes and cancels at once, in either environment: who launches
\* has driver and Chrome of one launch in hand, and begun restarts keep to the bound.
THEOREM LifecycleInvariant == Spec => []LifecycleInv
<1>1. Init => LifecycleInv
  BY LifecycleInitTypes, ActorsAssumption, BoundsAssumption
<1>2. LifecycleInv /\ [Next]_vars => LifecycleInv'
  BY LifecycleNextTypes, ActorsAssumption, BoundsAssumption
<1> QED
  BY <1>1, <1>2, PTL DEF Spec

\* The type invariant: no Chrome outlives the driver it was launched by, and handles
\* name launches that were made.
THEOREM LifecycleTypesHold == Spec => []TypeOK
<1>1. LifecycleInv => launches \in 0..MaxLaunches
  <2> SUFFICES ASSUME LifecycleInv PROVE launches \in 0..MaxLaunches
    OBVIOUS
  <2>1. Allowed \in 1..MaxLaunches /\ Cardinality(Pending) \in Nat
    BY AllowedBound, BoundsAssumption, FS_CardinalityType DEF LifecycleInv, BudgetKept
  <2> QED
    BY <2>1, BoundsAssumption DEF LifecycleInv, BudgetKept, BoundsAssumption
<1>2. LifecycleInv => TypeOK
  BY <1>1 DEF LifecycleInv, ActorTypes, BrowserTypes, WorldTypes, TypeOK, Places
<1> QED
  BY <1>2, LifecycleInvariant, PTL

=============================================================================

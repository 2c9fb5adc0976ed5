------------------------------ MODULE Healing ------------------------------
(***************************************************************************)
(* The self-healing of naukri_server/healing: a probe finds that the       *)
(* response of an endpoint has drifted from its baseline, the router has   *)
(* an alias added to the parser and committed, and for endpoints that feed *)
(* decisions (tier T2) a scheduled task confirms the fix or reverts it.    *)
(*                                                                         *)
(* The interpreter is one thread and git is called in it, so everything    *)
(* between two awaits is one action: the handler awaits the dry run, the   *)
(* insertion of the pending row and the new baseline; the verifier awaits  *)
(* the response and the update of the row.                                 *)
(*                                                                         *)
(* Abstractions.  HEALING_AUTOFIX_ENABLED is set and every rename yields a *)
(* candidate; endpoints of tier T3, which are never fixed, notifications   *)
(* and URL drift, which nothing reports, are left out.  An endpoint has    *)
(* one alias to add and a file of its own.  A verification does not begin  *)
(* while the fix is still being applied: it is due ten minutes later, and  *)
(* the probe is cut off after thirty seconds.                              *)
(***************************************************************************)
EXTENDS Integers, FiniteSets

CONSTANTS
  Endpoints,
  T2,             \* those of tier T2; the others are T1
  None,
  MaxFixes,       \* bound: commits of the healer
  MaxFaults,      \* bound: failing and interrupted steps
  MaxChanges      \* bound: changes of the responses

Schemas == {"first", "renamed", "broken"}

ASSUME HealingAssumption ==
  /\ T2 \subseteq Endpoints /\ None \notin Endpoints \cup Schemas
  /\ MaxFixes \in Nat /\ MaxFaults \in Nat /\ MaxChanges \in Nat

Fixes == 1..MaxFixes

VARIABLES
  up, enabled,    \* the process; the circuit in memory
  saved,          \* the circuit in healing_state.json
  api,            \* the schema each endpoint answers with
  baseline,       \* the detector's snapshot of it, in memory
  disk,           \* endpoints whose parser has the alias on disk
  staged,         \* something is in git's index
  made,           \* commits of the healer so far
  endpoint,       \* the endpoint each of them is for
  live,           \* those whose alias is in HEAD
  row,            \* auto_fix_pending
  handler,        \* on_endpoint_drift
  verifier,       \* t2_verify_pending
  faults, changes,
  orphans,        \* history: T2 commits that were left without a row
  sound,          \* history: fixes applied to the end, the response unchanged since
  alarmed         \* history: the verifier or the smoke check has disabled the healer over
                  \* a failed revert, and it was not enabled since

circuitVars == <<up, enabled, saved>>
repoVars == <<disk, staged, made, endpoint, live>>
histVars == <<orphans, sound, alarmed>>
vars == <<circuitVars, api, baseline, repoVars, row, handler, verifier,
          faults, changes, histVars>>

At(where, e, i) == [at |-> where, e |-> e, fix |-> i, verdict |-> "none"]
Idle == At("idle", None, 0)

TypeOK ==
  /\ up \in BOOLEAN /\ enabled \in BOOLEAN /\ saved \in BOOLEAN
  /\ api \in [Endpoints -> Schemas]
  /\ baseline \in [Endpoints -> Schemas \cup {None}]
  /\ disk \in SUBSET Endpoints /\ staged \in BOOLEAN
  /\ made \in 0..MaxFixes
  /\ endpoint \in [Fixes -> Endpoints \cup {None}]
  /\ live \in SUBSET (1..made)
  /\ row \in [Fixes -> {"none", "pending", "confirmed", "reverted", "revert_failed"}]
  /\ handler.at \in {"idle", "trying", "inserting", "absorbing"}
  /\ verifier.at \in {"idle", "asking", "marking"}
  /\ faults \in 0..MaxFaults /\ changes \in 0..MaxChanges
  /\ orphans \subseteq Fixes /\ sound \subseteq Fixes /\ alarmed \in BOOLEAN

Init ==
  /\ up = TRUE /\ enabled = TRUE /\ saved = TRUE
  /\ api = [e \in Endpoints |-> "first"]
  /\ baseline = [e \in Endpoints |-> None]
  /\ disk = {} /\ staged = FALSE /\ made = 0
  /\ endpoint = [i \in Fixes |-> None]
  /\ live = {}
  /\ row = [i \in Fixes |-> "none"]
  /\ handler = Idle /\ verifier = Idle
  /\ faults = 0 /\ changes = 0
  /\ orphans = {} /\ sound = {} /\ alarmed = FALSE

\* A step fails, or does not: fault says which.
Fault(fault) ==
  IF fault THEN faults < MaxFaults /\ faults' = faults + 1 ELSE UNCHANGED faults

-----------------------------------------------------------------------------
(* git *)

Of(e) == {j \in live : endpoint[j] = e}

\* The alias of e on disk is the one in HEAD.
Clean(e) == e \in disk <=> Of(e) # {}

\* revert_commit() takes the lines of fix i out again: they have to be there, and
\* neither the index nor the file may hold anything else.
RevertApplies(i) == ~staged /\ Clean(endpoint[i]) /\ Of(endpoint[i]) # {}

Reverted(i) ==
  /\ live' = live \ Of(endpoint[i])
  /\ disk' = disk \ {endpoint[i]}
  /\ UNCHANGED <<staged, made, endpoint>>

\* circuit.disable(), whose write of the file is best effort.
Disable ==
  /\ enabled' = FALSE /\ saved' \in {saved, FALSE} /\ alarmed' = TRUE
  /\ UNCHANGED up

-----------------------------------------------------------------------------
(* Drift: api_validator_probe() and on_endpoint_drift() *)

\* The probe reads e: the first response is its baseline, a later one is compared
\* with it.  A rename is tried while the healer is enabled and the parser does not
\* know the name; all other drift is only notified.
ProbeSees(e) ==
  /\ up /\ handler = Idle
  /\ \/ /\ baseline[e] = None
        /\ baseline' = [baseline EXCEPT ![e] = api[e]]
        /\ UNCHANGED handler
     \/ /\ baseline[e] = "first" /\ api[e] = "renamed" /\ enabled /\ e \notin disk
        /\ made < MaxFixes
        /\ handler' = At("trying", e, 0)
        /\ UNCHANGED baseline
     \/ baseline[e] # None /\ UNCHANGED <<baseline, handler>>
  /\ UNCHANGED <<circuitVars, api, repoVars, row, verifier, faults, changes, histVars>>

\* Mutant of MayApply: the router's look at the circuit is the only one.
MayApply_RouterLooked(e) == e \notin disk /\ ~staged

\* What apply_t1_fix() and apply_t2_fix() check before they write.
MayApply(e) == enabled /\ e \notin disk /\ ~staged

\* The dry run does not find the new name, or the fix may not be applied.
Declines ==
  /\ handler.at = "trying"
  /\ \/ api[handler.e] # "renamed" /\ UNCHANGED faults
     \/ ~MayApply(handler.e) /\ UNCHANGED faults
     \/ Fault(TRUE)
  /\ handler' = Idle
  /\ UNCHANGED <<circuitVars, api, baseline, repoVars, row, verifier, changes, histVars>>

\* atomic_write(), then git add or git commit fails: the edit stays on disk, and
\* after the commit in the index, where later fixes take it for the user's.
CommitFails ==
  /\ handler.at = "trying" /\ api[handler.e] = "renamed" /\ MayApply(handler.e)
  /\ Fault(TRUE)
  /\ disk' = disk \cup {handler.e} /\ staged' \in BOOLEAN
  /\ handler' = Idle
  /\ UNCHANGED <<circuitVars, api, baseline, made, endpoint, live, row, verifier, changes,
                 histVars>>

\* A T2 commit goes on to its row, a T1 commit that compiles to its event.
Commits ==
  LET e == handler.e  i == made + 1 IN
  /\ handler.at = "trying" /\ api[e] = "renamed" /\ MayApply(e)
  /\ made' = i /\ endpoint' = [endpoint EXCEPT ![i] = e]
  /\ disk' = disk \cup {e} /\ live' = live \cup {i}
  /\ handler' = At(IF e \in T2 THEN "inserting" ELSE "absorbing", e, i)
  /\ UNCHANGED <<circuitVars, api, baseline, staged, row, verifier, faults, changes, histVars>>

\* A T1 commit that does not compile is reverted at once, or the healer disabled.
SmokeCheckFails ==
  LET e == handler.e  i == made + 1 IN
  /\ handler.at = "trying" /\ api[e] = "renamed" /\ MayApply(e)
  /\ e \notin T2
  /\ Fault(TRUE)
  /\ made' = i /\ endpoint' = [endpoint EXCEPT ![i] = e]
  /\ \/ UNCHANGED <<disk, live, circuitVars, alarmed>>
     \/ disk' = disk \cup {e} /\ live' = live \cup {i} /\ Disable
  /\ handler' = Idle
  /\ UNCHANGED <<api, baseline, staged, row, verifier, changes, orphans, sound>>

Inserts ==
  /\ handler.at = "inserting"
  /\ row' = [row EXCEPT ![handler.fix] = "pending"]
  /\ handler' = [handler EXCEPT !.at = "absorbing"]
  /\ UNCHANGED <<circuitVars, api, baseline, repoVars, verifier, faults, changes, histVars>>

\* Mutant of InsertFails: a fix whose row cannot be written is kept.
InsertFails_Keeps ==
  /\ handler.at = "inserting"
  /\ Fault(TRUE)
  /\ handler' = Idle
  /\ UNCHANGED <<circuitVars, api, baseline, repoVars, row, verifier, changes, histVars>>

\* Without a row the commit is reverted.  Nobody looks at the result: should the
\* revert fail, the healer stays enabled and no alarm is raised.
InsertFails ==
  LET i == handler.fix IN
  /\ handler.at = "inserting"
  /\ Fault(TRUE)
  /\ IF RevertApplies(i) THEN Reverted(i) /\ UNCHANGED orphans
     ELSE orphans' = orphans \cup {i} /\ UNCHANGED repoVars
  /\ handler' = Idle
  /\ UNCHANGED <<circuitVars, api, baseline, row, verifier, changes, sound, alarmed>>

\* Mutant of Absorbs: the baseline stays as it was.
Absorbs_Nothing ==
  /\ handler.at = "absorbing"
  /\ sound' = sound \cup {handler.fix}
  /\ handler' = Idle
  /\ UNCHANGED <<circuitVars, api, baseline, repoVars, row, verifier, faults, changes,
                 orphans, alarmed>>

\* _absorb_added_field_after_field_fix(): what the endpoint answers now is right.
Absorbs ==
  LET e == handler.e IN
  /\ handler.at = "absorbing"
  /\ baseline' = [baseline EXCEPT ![e] = IF @ = None THEN @ ELSE api[e]]
  /\ sound' = sound \cup {handler.fix}
  /\ handler' = Idle
  /\ UNCHANGED <<circuitVars, api, repoVars, row, verifier, faults, changes, orphans, alarmed>>

\* The probe's thirty seconds are over, or the response cannot be read: what the
\* handler was waiting for does not happen, and nothing it did is undone.
CutOff ==
  /\ handler.at \in {"inserting", "absorbing"}
  /\ Fault(TRUE)
  /\ orphans' = IF handler.at = "inserting" THEN orphans \cup {handler.fix} ELSE orphans
  /\ handler' = Idle
  /\ UNCHANGED <<circuitVars, api, baseline, repoVars, row, verifier, changes, sound, alarmed>>

-----------------------------------------------------------------------------
(* verify_pending_row() *)

Asks(i) ==
  /\ up /\ verifier = Idle
  /\ row[i] = "pending" /\ handler.fix # i
  /\ verifier' = At("asking", endpoint[i], i)
  /\ UNCHANGED <<circuitVars, api, baseline, repoVars, row, handler, faults, changes, histVars>>

\* _revalidate_endpoint(): unhealthy unless shown to be healthy.
Healthy(e) == baseline[e] # None /\ baseline[e] = api[e]

Verdict(v) == verifier' = [verifier EXCEPT !.at = "marking", !.verdict = v]

FindsHealthy ==
  /\ verifier.at = "asking" /\ Healthy(verifier.e)
  /\ Verdict("confirmed")
  /\ UNCHANGED <<circuitVars, api, baseline, repoVars, row, handler, faults, changes, histVars>>

Reverts ==
  /\ verifier.at = "asking"
  /\ Fault(Healthy(verifier.e))
  /\ RevertApplies(verifier.fix)
  /\ Reverted(verifier.fix)
  /\ Verdict("reverted")
  /\ UNCHANGED <<circuitVars, api, baseline, row, handler, changes, histVars>>

\* git revert fails: nothing is applied any more until the user has looked.
RevertFails ==
  /\ verifier.at = "asking"
  /\ Fault(Healthy(verifier.e) \/ RevertApplies(verifier.fix))
  /\ Disable
  /\ Verdict("revert_failed")
  /\ UNCHANGED <<api, baseline, repoVars, row, handler, changes, orphans, sound>>

\* Mutant of Marks: a revert that failed is not written down.
Marks_DecidedOnly ==
  /\ verifier.at = "marking"
  /\ row' = IF verifier.verdict = "revert_failed" THEN row
            ELSE [row EXCEPT ![verifier.fix] = verifier.verdict]
  /\ verifier' = Idle
  /\ UNCHANGED <<circuitVars, api, baseline, repoVars, handler, faults, changes, histVars>>

Marks ==
  /\ verifier.at = "marking"
  /\ row' = [row EXCEPT ![verifier.fix] = verifier.verdict]
  /\ verifier' = Idle
  /\ UNCHANGED <<circuitVars, api, baseline, repoVars, handler, faults, changes, histVars>>

\* The task's two minutes are over, or the row cannot be written: what git has done
\* stays done, and the row is pending.
VerifierCutOff ==
  /\ verifier.at # "idle"
  /\ Fault(TRUE)
  /\ verifier' = Idle
  /\ UNCHANGED <<circuitVars, api, baseline, repoVars, row, handler, changes, histVars>>

-----------------------------------------------------------------------------
(* The environment *)

ApiChanges(e) ==
  /\ changes < MaxChanges /\ changes' = changes + 1
  /\ \E s \in Schemas \ {api[e]} : api' = [api EXCEPT ![e] = s]
  /\ sound' = {i \in sound : endpoint[i] # e}
  /\ UNCHANGED <<circuitVars, baseline, repoVars, row, handler, verifier, faults, orphans,
                 alarmed>>

\* The user stages work, or puts the checkout in order.
UserWorks ==
  /\ \/ ~staged /\ Fault(TRUE) /\ staged' = TRUE /\ UNCHANGED disk
     \/ /\ staged' = FALSE /\ disk' = {endpoint[i] : i \in live}
        /\ <<staged', disk'>> # <<staged, disk>>
        /\ UNCHANGED faults
  /\ UNCHANGED <<circuitVars, api, baseline, made, endpoint, live, row, handler, verifier,
                 changes, histVars>>

Crash ==
  /\ up /\ Fault(TRUE)
  /\ up' = FALSE /\ enabled' = FALSE
  /\ baseline' = [e \in Endpoints |-> None]
  /\ handler' = Idle /\ verifier' = Idle
  /\ orphans' = IF handler.at = "inserting" THEN orphans \cup {handler.fix} ELSE orphans
  /\ sound' = {}
  /\ UNCHANGED <<saved, api, repoVars, row, changes, alarmed>>

\* _load_initial_state(): the healer is what the file says.
Restart ==
  /\ ~up
  /\ up' = TRUE /\ enabled' = saved
  /\ alarmed' = (alarmed /\ ~saved)
  /\ UNCHANGED <<saved, api, baseline, repoVars, row, handler, verifier, faults, changes,
                 orphans, sound>>

\* The user enables the healer again: by the file, there being no tool for it.
UserEnables ==
  /\ ~up /\ ~saved
  /\ saved' = TRUE /\ alarmed' = FALSE
  /\ UNCHANGED <<up, enabled, api, baseline, repoVars, row, handler, verifier, faults, changes,
                 orphans, sound>>

Handle == Declines \/ CommitFails \/ Commits \/ SmokeCheckFails \/ Inserts \/ InsertFails
          \/ Absorbs \/ CutOff
Verify == FindsHealthy \/ Reverts \/ RevertFails \/ Marks \/ VerifierCutOff

Next ==
  \/ \E e \in Endpoints : ProbeSees(e) \/ ApiChanges(e)
  \/ Handle
  \/ \E i \in Fixes : Asks(i)
  \/ Verify
  \/ UserWorks \/ Crash \/ Restart \/ UserEnables

Spec == Init /\ [][Next]_vars

\* The handler and the verifier go on: git, the database and the network answer or
\* are cut off.  The scheduler comes back to a row that is pending.
Fairness ==
  /\ WF_vars(Handle) /\ WF_vars(Verify)
  /\ \A i \in Fixes : WF_vars(Asks(i))

LiveSpec == Spec /\ Fairness

-----------------------------------------------------------------------------
(* Properties *)

\* No unverified T2 fix stays in HEAD unwatched: it has a row that is pending or
\* confirmed, or the user was told that it could not be reverted, or the handler is
\* about to write the row; except for the commits that lost their handler then.
EveryFixIsWatched ==
  \A i \in live \ orphans : endpoint[i] \in T2 =>
    row[i] \in {"pending", "confirmed", "revert_failed"}
    \/ (handler.at = "inserting" /\ handler.fix = i)

\* Once the verifier or the smoke check has disabled the healer, their revert having
\* failed, nothing more is committed, the drift that is being worked on included,
\* until the user enables it (or a restart does: the file that says it is disabled is
\* written as far as the disk allows).  The revert of InsertFails disables nothing, and
\* commits do follow after that one has failed.
NoFixOnceDisabled == [][made' # made => ~alarmed]_vars

\* A fix that was applied to the end stays while the endpoint goes on to answer as it
\* did and the server runs, unless a response cannot be read: the field that it was
\* made for is not taken for drift.
GoodFixSurvives == [][\A i \in sound \cap live : i \notin live' => faults' > faults]_vars

\* Every pending fix is decided while the server runs.
PendingIsDecided ==
  \A i \in Fixes : (row[i] = "pending") ~> (row[i] # "pending" \/ ~up)
=============================================================================

------------------------------ MODULE ApplyPath ------------------------------
(***************************************************************************)
(* Applying to jobs: _apply_single() of tools/apply.py under its four      *)
(* callers, the answers Naukri gives, the tracking rows that duplicates    *)
(* and the daily quota are judged by, and the kill switch of               *)
(* kill_switch.py that has to stop them all.                               *)
(*                                                                         *)
(* A caller repeats one kind of call: "single" is apply_with_saga(), which *)
(* is the tool naukri_apply, "batch" batch_apply_with_reminders(), "agent" *)
(* a cycle of the autonomous agent and "sweep" the recovery of pending     *)
(* questions.  An action is the code from one await to the next.           *)
(*                                                                         *)
(* Abstractions.  A search finds any jobs.  The rate limiter, think times  *)
(* and reminders only delay a caller.  get_application() and the upsert    *)
(* that follows are one step, as the upsert decides by itself what exists. *)
(* The cache may hold the answers to any question.  The model is of one    *)
(* day.  The agent's mode, which a trip sets to dry_run and the operator   *)
(* sets again at any time, is left out: its cycles are those in mode auto. *)
(***************************************************************************)
EXTENDS Integers, FiniteSets

CONSTANTS
  Callers,        \* tool calls and agent cycles that run concurrently
  Jobs,
  None,           \* no caller, no job, no reply
  Quota,          \* DAILY_APPLY_QUOTA
  AgentQuota,     \* max_daily_applications of the agent's config
  Environments    \* "calm": no call is cut and the server never dies;
                  \* "crashes": both happen; "rough": the disk fails as well

Kinds == {"single", "batch", "agent", "sweep"}
Replies == {"ok", "already", "asks", "failed", "blocked", "halted"}

ASSUME NoneAssumption == None \notin Callers \cup Jobs \cup Replies
ASSUME QuotaAssumption == Quota \in Nat /\ AgentQuota \in Nat
ASSUME EnvironmentsAssumption == Environments \subseteq {"calm", "crashes", "rough"}

Statuses == {"none", "applied", "needs_input", "error"}

VARIABLES
  kind,           \* what each caller calls
  asking,         \* jobs with screening questions
  env,            \* what the environment does
  site,           \* jobs applied to today, on Naukri
  row,            \* status of each job's tracking row, "none" without a row;
                  \* "already_applied" is "applied" here
  fresh,          \* jobs whose row has an applied_at of today
  tripped,        \* kill switch, in memory
  file,           \* kill switch, on disk
  standing,       \* history: trip() was called since the last resume
  lock,           \* holder of _tracking_composite_lock
  pc, job, todo, reply,   \* of each caller
  sent,           \* history, while calm: jobs each caller has POSTed
  repeated,       \* history, while calm: one was POSTed by who should have known
  warned          \* history: callers that took a job up since the switch tripped

envVars == <<kind, asking, env>>
rowVars == <<row, fresh>>
switchVars == <<tripped, file, standing>>
callVars == <<pc, job, todo, reply>>
postVars == <<sent, repeated, warned>>
vars == <<envVars, site, rowVars, switchVars, lock, callVars, postVars>>

Applying == {"guard", "quota", "post", "answered"}

TypeOK ==
  /\ kind \in [Callers -> Kinds] /\ asking \in SUBSET Jobs
  /\ env \in Environments
  /\ site \in SUBSET Jobs
  /\ row \in [Jobs -> Statuses] /\ fresh \in SUBSET Jobs
  /\ tripped \in BOOLEAN /\ file \in {"absent", "clear", "tripped"}
  /\ standing \in BOOLEAN
  /\ lock \in Callers \cup {None}
  /\ pc \in [Callers -> {"idle", "queued", "search", "next"} \cup Applying]
  /\ job \in [Callers -> Jobs \cup {None}]
  /\ todo \in [Callers -> SUBSET Jobs]
  /\ reply \in [Callers -> Replies \cup {None}]
  /\ sent \in [Callers -> SUBSET Jobs] /\ repeated \in BOOLEAN
  /\ warned \in SUBSET Callers

\* Some jobs were left waiting for answers on an earlier day.
Init ==
  /\ kind \in [Callers -> Kinds] /\ asking \in SUBSET Jobs
  /\ env \in Environments
  /\ site = {} /\ fresh = {}
  /\ row \in [Jobs -> {"none", "needs_input"}]
  /\ \A j \in Jobs : row[j] = "needs_input" => j \in asking
  /\ tripped = FALSE /\ file = "absent" /\ standing = FALSE
  /\ lock = None
  /\ pc = [c \in Callers |-> "idle"] /\ job = [c \in Callers |-> None]
  /\ todo = [c \in Callers |-> {}] /\ reply = [c \in Callers |-> None]
  /\ sent = [c \in Callers |-> {}] /\ repeated = FALSE
  /\ warned = {}

Unseen == {j \in Jobs : row[j] = "none"}
Waiting == {j \in Jobs : row[j] = "needs_input"}

\* Caller c is at p with job j, the jobs t to do and the answer r.
Go(c, p, j, t, r) ==
  /\ pc' = [pc EXCEPT ![c] = p] /\ job' = [job EXCEPT ![c] = j]
  /\ todo' = [todo EXCEPT ![c] = t] /\ reply' = [reply EXCEPT ![c] = r]

\* The call returns; async with gives the lock back.
Return(c) ==
  /\ Go(c, "idle", None, {}, None)
  /\ lock' = IF lock = c THEN None ELSE lock

\* c takes up a job: past a trip, it has to find out.
TakeUp(c) == warned' = IF tripped THEN warned \cup {c} ELSE warned

\* The loop over jobs goes on, or the single apply is over.
Proceed(c) ==
  IF kind[c] = "single" THEN Return(c)
  ELSE Go(c, "next", None, todo[c], None) /\ UNCHANGED lock

-----------------------------------------------------------------------------
(* Callers up to _apply_single() *)

\* apply_with_saga() looks for a row of whatever status before it takes the lock,
\* and not again: two calls may queue for the same job.
BeginSingle(c) ==
  /\ kind[c] = "single" /\ pc[c] = "idle"
  /\ \E j \in Unseen : Go(c, "queued", j, {}, None)
  /\ UNCHANGED <<envVars, site, rowVars, switchVars, lock, postVars>>

BeginBatch(c) ==
  /\ kind[c] = "batch" /\ pc[c] = "idle"
  /\ Go(c, "queued", None, {}, None)
  /\ UNCHANGED <<envVars, site, rowVars, switchVars, lock, postVars>>

AcquireLock(c) ==
  /\ pc[c] = "queued" /\ lock = None
  /\ lock' = c
  /\ Go(c, IF kind[c] = "single" THEN "guard" ELSE "search", job[c], {}, None)
  /\ TakeUp(c)
  /\ UNCHANGED <<envVars, site, rowVars, switchVars, sent, repeated>>

\* Mutant of Search: jobs tracked here are not filtered out.
Search_KeepsTracked(c) ==
  /\ pc[c] = "search"
  /\ \E found \in SUBSET Jobs : Go(c, "next", None, found, None)
  /\ UNCHANGED <<envVars, site, rowVars, switchVars, lock, postVars>>

\* The batch drops the jobs that have a row, after its search.
Search(c) ==
  /\ pc[c] = "search"
  /\ \E found \in SUBSET Unseen : Go(c, "next", None, found, None)
  /\ UNCHANGED <<envVars, site, rowVars, switchVars, lock, postVars>>

\* A cycle in mode auto: observe counts and collects the tracked jobs, decide
\* fills what is left of the day with others.
BeginCycle(c) ==
  /\ kind[c] = "agent" /\ pc[c] = "idle"
  /\ \E found \in SUBSET Unseen :
       /\ Cardinality(found) + Cardinality(fresh) <= AgentQuota
       /\ Go(c, "next", None, found, None)
  /\ UNCHANGED <<envVars, site, rowVars, switchVars, lock, postVars>>

\* _recover_pending_questions(confirm=True), for the jobs asked for.
BeginSweep(c) ==
  /\ kind[c] = "sweep" /\ pc[c] = "idle"
  /\ \E wanted \in SUBSET Waiting : Go(c, "next", None, wanted, None)
  /\ UNCHANGED <<envVars, site, rowVars, switchVars, lock, postVars>>

\* The next job of a loop; the agent looks at the switch first.
NextJob(c) ==
  /\ pc[c] = "next"
  /\ LET stop == todo[c] = {} \/ (kind[c] = "agent" /\ tripped)
     IN \/ /\ ~stop
           /\ \E j \in todo[c] : Go(c, "guard", j, todo[c] \ {j}, None)
           /\ TakeUp(c)
           /\ UNCHANGED lock
        \/ stop /\ Return(c) /\ UNCHANGED warned
  /\ UNCHANGED <<envVars, site, rowVars, switchVars, sent, repeated>>

-----------------------------------------------------------------------------
(* _apply_single() and _refetch_questions_only() *)

\* Mutant of Guard: the switch is not looked at.
Guard_Absent(c) ==
  /\ pc[c] = "guard"
  /\ Go(c, IF kind[c] = "sweep" THEN "post" ELSE "quota", job[c], todo[c], None)
  /\ UNCHANGED <<envVars, site, rowVars, switchVars, lock, postVars>>

\* kill_switch.guard().  A sweep ends, an apply has "halted" to record.
Guard(c) ==
  /\ pc[c] = "guard"
  /\ \/ /\ ~tripped
        /\ Go(c, IF kind[c] = "sweep" THEN "post" ELSE "quota", job[c], todo[c], None)
        /\ UNCHANGED lock
     \/ /\ tripped /\ kind[c] # "sweep"
        /\ Go(c, "answered", job[c], todo[c], "halted")
        /\ UNCHANGED lock
     \/ tripped /\ kind[c] = "sweep" /\ Return(c)
  /\ UNCHANGED <<envVars, site, rowVars, switchVars, postVars>>

\* Mutant of CheckQuota: the count is not compared.
CheckQuota_Absent(c) ==
  /\ pc[c] = "quota"
  /\ Go(c, "post", job[c], todo[c], None)
  /\ UNCHANGED <<envVars, site, rowVars, switchVars, lock, postVars>>

\* _daily_quota_exceeded(), which lets everything pass when it cannot count.
\* "quota_reached" stops a batch, and the agent goes on to its next candidate.
CheckQuota(c) ==
  /\ pc[c] = "quota"
  /\ \/ /\ Cardinality(fresh) < Quota \/ env # "calm"
        /\ Go(c, "post", job[c], todo[c], None)
        /\ UNCHANGED lock
     \/ /\ Cardinality(fresh) >= Quota
        /\ IF kind[c] = "agent" THEN Proceed(c) ELSE Return(c)
  /\ UNCHANGED <<envVars, site, rowVars, switchVars, postVars>>

\* Naukri carries out an application for j, or not.
Carry(j, done) == site' = IF done THEN site \cup {j} ELSE site

\* Somebody under the same knowledge has POSTed for j before: the caller itself,
\* or another batch, as batches are serialised by the lock.
Known(c, j) ==
  \E d \in Callers : /\ j \in sent[d]
                     /\ d = c \/ (kind[c] = "batch" /\ kind[d] = "batch")

\* Naukri may answer r to an application for j that it carries out or not: a call
\* that fails may have been.
MayAnswer(j, r, done) ==
  \/ r \in {"failed", "blocked"} /\ ~done
  \/ j \in site /\ r = "already" /\ ~done
  \/ j \notin site /\ j \in asking /\ r = "asks" /\ ~done
  \/ j \notin site /\ j \notin asking /\ r \in {"ok", "failed"} /\ done

Post(c) ==
  /\ pc[c] = "post"
  /\ \E r \in Replies, done \in BOOLEAN :
       /\ MayAnswer(job[c], r, done) /\ Carry(job[c], done)
       /\ Go(c, "answered", job[c], todo[c], r)
  /\ IF kind[c] = "sweep" \/ env # "calm" THEN UNCHANGED <<sent, repeated>>
     ELSE /\ sent' = [sent EXCEPT ![c] = @ \cup {job[c]}]
          /\ repeated' = (repeated \/ Known(c, job[c]))
  /\ UNCHANGED <<envVars, rowVars, switchVars, lock, warned>>

\* All questions have answers: a second POST, which neither the limiter nor the
\* switch holds up.
PostAnswers(c) ==
  /\ pc[c] = "answered" /\ reply[c] = "asks" /\ kind[c] # "sweep"
  /\ \E r \in {"ok", "failed", "blocked"}, done \in BOOLEAN :
       /\ (r = "ok" => done) /\ (r = "blocked" => ~done)
       /\ Carry(job[c], done)
       /\ Go(c, "answered", job[c], todo[c], r)
  /\ UNCHANGED <<envVars, rowVars, switchVars, lock, postVars>>

\* Mutant of StatusOf: a questionnaire counts as an application.
StatusOf_IgnoresQuestions(r) ==
  IF r \in {"ok", "already", "asks"} THEN "applied" ELSE "error"

StatusOf(r) ==
  CASE r \in {"ok", "already"} -> "applied"
    [] r = "asks" -> "needs_input"
    [] OTHER -> "error"

\* record_application(): the row's status is replaced, its applied_at is not.
\* "halted" ends the loop; a sweep records no failure.
Record(c) ==
  /\ pc[c] = "answered" /\ reply[c] \in Replies \ {"blocked"}
  /\ IF kind[c] = "sweep" /\ reply[c] \notin {"ok", "asks"} THEN UNCHANGED rowVars
     ELSE /\ row' = [row EXCEPT ![job[c]] = StatusOf(reply[c])]
          /\ fresh' = IF row[job[c]] = "none" THEN fresh \cup {job[c]} ELSE fresh
  /\ IF reply[c] = "halted" THEN Return(c) ELSE Proceed(c)
  /\ UNCHANGED <<envVars, site, switchVars, postVars>>

-----------------------------------------------------------------------------
(* kill_switch.py *)

\* trip(): the file follows the memory as far as the disk allows.
Trip ==
  /\ tripped' = TRUE /\ standing' = TRUE
  /\ file' \in IF env # "rough" THEN {"tripped"} ELSE {"tripped", file}

\* The block handler of _apply_single(): trip_and_halt().
Halt(c) ==
  /\ pc[c] = "answered" /\ reply[c] = "blocked" /\ kind[c] # "sweep"
  /\ Trip
  /\ Go(c, "answered", job[c], todo[c], "halted")
  /\ UNCHANGED <<envVars, site, rowVars, lock, postVars>>

\* A block is one more failed job to _recover_pending_questions().
SweepMeetsBlock(c) ==
  /\ pc[c] = "answered" /\ reply[c] = "blocked" /\ kind[c] = "sweep"
  /\ Proceed(c)
  /\ UNCHANGED <<envVars, site, rowVars, switchVars, postVars>>

\* naukri_kill_switch(action="trip").
OperatorTrips ==
  /\ Trip
  /\ UNCHANGED <<envVars, site, rowVars, lock, callVars, postVars>>

\* naukri_kill_switch(action="resume").
OperatorResumes ==
  /\ tripped' = FALSE /\ standing' = FALSE
  /\ file' \in IF env # "rough" THEN {"clear"} ELSE {"clear", file}
  /\ warned' = {}
  /\ UNCHANGED <<envVars, site, rowVars, lock, callVars, sent, repeated>>

\* Mutant of Load: what cannot be read does not count.
Load_FailsOpen == tripped' \in {file = "tripped", FALSE}

\* _load_initial_state(): a file that cannot be read means tripped.
Load == tripped' \in {file = "tripped", TRUE}

-----------------------------------------------------------------------------
(* The environment *)

\* A timeout or a client that goes away: the batch takes its next job, any other
\* call is over.
Cut(c) ==
  /\ env # "calm"
  /\ pc[c] \in Applying \cup {"queued", "search", "next"}
  /\ IF kind[c] = "batch" /\ pc[c] \in Applying THEN Proceed(c) ELSE Return(c)
  /\ UNCHANGED <<envVars, site, rowVars, switchVars, postVars>>

\* The server dies and starts again.
Restart ==
  /\ env # "calm"
  /\ Load
  /\ pc' = [c \in Callers |-> "idle"] /\ job' = [c \in Callers |-> None]
  /\ todo' = [c \in Callers |-> {}] /\ reply' = [c \in Callers |-> None]
  /\ lock' = None /\ warned' = {}
  /\ UNCHANGED <<envVars, site, rowVars, file, standing, sent, repeated>>

Step(c) ==
  \/ AcquireLock(c) \/ Search(c) \/ NextJob(c) \/ Guard(c) \/ CheckQuota(c)
  \/ Post(c) \/ PostAnswers(c) \/ Record(c) \/ Halt(c) \/ SweepMeetsBlock(c)

Begin(c) == BeginSingle(c) \/ BeginBatch(c) \/ BeginCycle(c) \/ BeginSweep(c)

Operator == OperatorTrips \/ OperatorResumes

Next ==
  \/ \E c \in Callers : Begin(c) \/ Step(c) \/ Cut(c)
  \/ Operator \/ Restart

Spec == Init /\ [][Next]_vars

-----------------------------------------------------------------------------
(* Properties *)

Locked == {"single", "batch"}
AllLocked == \A c \in Callers : kind[c] \in Locked
AppliedToday == {j \in site : j \in fresh \/ row[j] = "none"}

\* Past a trip only the applies that were under way go on: whoever takes a job up
\* afterwards sends Naukri nothing, whatever loop, lock or limiter it came through.
TripStopsTraffic == \A c \in warned : pc[c] # "post" /\ reply[c] # "asks"

\* A trip outlives crashes: until the operator resumes, the switch is tripped.
TripsOutliveCrashes == env # "rough" => (standing => tripped)

\* When all applies hold the composite lock, the quota is a hard limit on what is
\* applied to, but for jobs whose row is of an earlier day.  (The agent and the
\* sweep do not take the lock: with them it may be exceeded.)
QuotaIsHardUnderLock ==
  env = "calm" /\ AllLocked => Cardinality(AppliedToday) <= Quota

\* While no call is cut off, no caller applies to a job twice, in one call, batch or
\* cycle or in several, and no two batches do, however they interleave with the
\* others.  (Callers that look for the row before they take the lock, or take none,
\* may both apply to one job: that is not counted here.)
NoRepeatedApply == ~repeated

\* The rows follow Naukri: "applied" is said only of a job it has the application
\* of, and while nothing is cut off each job applied to has a row, which the
\* duplicate checks find, or is being recorded.
RowsMatchNaukri ==
  /\ \A j \in Jobs : row[j] = "applied" => j \in site
  /\ env = "calm" =>
       \A j \in site : row[j] # "none" \/ \E c \in Callers : job[c] = j

\* "HARD-STOP all write/automation traffic the moment a block is detected": no
\* caller goes on from a block with the switch not tripped.  (The sweep does.)
EveryBlockTrips ==
  [][\A c \in Callers :
       env = "calm" /\ reply[c] = "blocked" /\ reply'[c] # "blocked" => tripped']_vars
=============================================================================

--------------------------- MODULE ApplyPathProofs --------------------------
(***************************************************************************)
(* Proofs about the apply path, for any sets of callers and jobs, any mix  *)
(* of kinds and any quotas.                                                *)
(***************************************************************************)
EXTENDS ApplyPath, FiniteSetTheorems, TLAPS

(* Types, and where a caller has a job and a reply *)

\* A caller that applies has a job, and a reply exactly when Naukri has answered.
Placed ==
  \A c \in Callers :
    /\ pc[c] \in Applying => job[c] \in Jobs
    /\ pc[c] = "queued" /\ kind[c] = "single" => job[c] \in Jobs
    /\ pc[c] = "queued" /\ kind[c] # "single" => job[c] = None
    /\ pc[c] \in {"queued", "search"} => kind[c] \in Locked
    /\ kind[c] = "sweep" => pc[c] # "quota"
    /\ pc[c] \in {"idle", "queued"} => todo[c] = {}
    /\ pc[c] = "answered" => reply[c] \in Replies
    /\ pc[c] # "answered" => reply[c] = None

TypeInv == TypeOK /\ Placed

LEMMA TypeInvInit == Init => TypeInv
<1> SUFFICES ASSUME Init PROVE TypeInv
  OBVIOUS
<1>1. TypeOK
  <2>1. row \in [Jobs -> Statuses]
    BY DEF Init, Statuses
  <2>2. QED
    BY <2>1 DEF Init, TypeOK
<1>2. Placed
  BY DEF Init, Placed, Applying
<1>3. QED
  BY <1>1, <1>2 DEF TypeInv

\* Taking up a call.
LEMMA TypeInvBegin ==
  ASSUME TypeInv, NEW c \in Callers, Begin(c)
  PROVE  TypeInv'
<1> USE NoneAssumption DEF TypeInv, TypeOK, Placed, Go, Unseen, Waiting, Applying, Locked,
        envVars, rowVars, switchVars, postVars
<1>1. CASE BeginSingle(c)  BY <1>1 DEF BeginSingle
<1>2. CASE BeginBatch(c)   BY <1>2 DEF BeginBatch
<1>3. CASE BeginCycle(c)   BY <1>3 DEF BeginCycle
<1>4. CASE BeginSweep(c)   BY <1>4 DEF BeginSweep
<1>5. QED
  BY <1>1, <1>2, <1>3, <1>4 DEF Begin

\* One step of a call.
LEMMA TypeInvStep ==
  ASSUME TypeInv, NEW c \in Callers, Step(c) \/ Cut(c)
  PROVE  TypeInv'
<1> USE NoneAssumption DEF TypeInv, TypeOK, Placed, Go, Return, Proceed, TakeUp, Kinds, Applying,
        Locked, Replies, Statuses, envVars, rowVars, switchVars, postVars
<1>1. CASE AcquireLock(c)      BY <1>1 DEF AcquireLock
<1>2. CASE Search(c)           BY <1>2 DEF Search, Unseen
<1>3. CASE NextJob(c)          BY <1>3 DEF NextJob
<1>4. CASE Guard(c)
  <2>1. CASE tripped /\ kind[c] = "sweep"     BY <1>4, <2>1 DEF Guard
  <2>2. CASE ~(tripped /\ kind[c] = "sweep")  BY <1>4, <2>2 DEF Guard
  <2>3. QED  BY <2>1, <2>2
<1>5. CASE CheckQuota(c)
  <2>1. CASE pc'[c] = "post"  BY <1>5, <2>1 DEF CheckQuota
  <2>2. CASE pc'[c] # "post"  BY <1>5, <2>2 DEF CheckQuota
  <2>3. QED  BY <2>1, <2>2
<1>6. CASE Post(c)
  <2>1. site' \in SUBSET Jobs
    BY <1>6 DEF Post, Carry
  <2>2. sent' \in [Callers -> SUBSET Jobs] /\ repeated' \in BOOLEAN
    <3>1. CASE kind[c] = "sweep" \/ env # "calm"  BY <1>6, <3>1 DEF Post
    <3>2. CASE ~(kind[c] = "sweep" \/ env # "calm")  BY <1>6, <3>2 DEF Post, Known
    <3>3. QED  BY <3>1, <3>2
  <2>3. \E r \in Replies : Go(c, "answered", job[c], todo[c], r)
    BY <1>6 DEF Post
  <2>4. /\ pc[c] = "post"
        /\ UNCHANGED <<envVars, rowVars, switchVars, lock, warned>>
    BY <1>6 DEF Post
  <2>5. QED  BY <2>1, <2>2, <2>3, <2>4
<1>7. CASE PostAnswers(c)      BY <1>7 DEF PostAnswers, Carry
<1>8. CASE Record(c)           BY <1>8 DEF Record, StatusOf
<1>9. CASE Halt(c)             BY <1>9 DEF Halt, Trip
<1>10. CASE SweepMeetsBlock(c) BY <1>10 DEF SweepMeetsBlock
<1>11. CASE Cut(c)             BY <1>11 DEF Cut
<1>12. QED
  BY <1>1, <1>2, <1>3, <1>4, <1>5, <1>6, <1>7, <1>8, <1>9, <1>10, <1>11 DEF Step

\* The operator, and a restart.
LEMMA TypeInvElse ==
  ASSUME TypeInv, Operator \/ Restart
  PROVE  TypeInv'
<1> USE NoneAssumption DEF TypeInv, TypeOK, Placed, Applying, Locked, envVars, rowVars, switchVars,
        callVars, postVars
<1>1. CASE OperatorTrips    BY <1>1 DEF OperatorTrips, Trip
<1>2. CASE OperatorResumes  BY <1>2 DEF OperatorResumes
<1>3. CASE Restart          BY <1>3 DEF Restart, Load
<1>4. QED
  BY <1>1, <1>2, <1>3 DEF Operator

LEMMA TypeInvNext == TypeInv /\ [Next]_vars => TypeInv'
<1> SUFFICES ASSUME TypeInv, [Next]_vars PROVE TypeInv'
  OBVIOUS
<1>1. CASE UNCHANGED vars
  BY <1>1 DEF TypeInv, TypeOK, Placed, vars, envVars, rowVars, switchVars, callVars, postVars
<1>2. QED
  BY <1>1, TypeInvBegin, TypeInvStep, TypeInvElse DEF Next

\* The state stays within its types, and who applies has a job to apply to.
THEOREM Typing == Spec => []TypeInv
  BY TypeInvInit, TypeInvNext, PTL DEF Spec

\* A step of one caller leaves the others where they are.
LEMMA OthersStay ==
  ASSUME TypeInv, NEW c \in Callers, Begin(c) \/ Step(c) \/ Cut(c)
  PROVE  /\ UNCHANGED <<kind, env>>
         /\ \A d \in Callers \ {c} :
              pc'[d] = pc[d] /\ job'[d] = job[d] /\ todo'[d] = todo[d] /\ reply'[d] = reply[d]
<1> USE DEF TypeInv, TypeOK, Go, Return, Proceed, envVars
<1>1. CASE Begin(c)
  BY <1>1 DEF Begin, BeginSingle, BeginBatch, BeginCycle, BeginSweep
<1>2. CASE AcquireLock(c) \/ Search(c) \/ NextJob(c) \/ Cut(c)
  BY <1>2 DEF AcquireLock, Search, NextJob, Cut
<1>3. CASE Guard(c) \/ CheckQuota(c)
  BY <1>3 DEF Guard, CheckQuota
<1>4. CASE Post(c) \/ PostAnswers(c) \/ Halt(c)
  BY <1>4 DEF Post, PostAnswers, Halt
<1>5. CASE Record(c) \/ SweepMeetsBlock(c)
  BY <1>5 DEF Record, SweepMeetsBlock
<1>6. QED
  BY <1>1, <1>2, <1>3, <1>4, <1>5 DEF Step

-----------------------------------------------------------------------------
(* The kill switch *)

\* A trip is on disk before anybody relies on it, and whoever takes up a job under
\* a tripped switch comes no further than the guard.
SwitchInv ==
  /\ env # "rough" /\ standing => tripped /\ file = "tripped"
  /\ warned # {} => tripped
  /\ \A c \in warned : pc[c] \notin {"quota", "post"} /\ reply[c] # "asks"

LEMMA SwitchInvInit == Init => SwitchInv
  BY DEF Init, SwitchInv

LEMMA SwitchInvStep ==
  ASSUME TypeInv, SwitchInv, NEW c \in Callers, Begin(c) \/ Step(c) \/ Cut(c)
  PROVE  SwitchInv'
<1> USE NoneAssumption DEF TypeInv, TypeOK, Placed, SwitchInv, Go, Return, Proceed, TakeUp,
        Applying, Replies, envVars, rowVars, switchVars, postVars
<1>1. CASE BeginSingle(c)      BY <1>1 DEF BeginSingle
<1>2. CASE BeginBatch(c)       BY <1>2 DEF BeginBatch
<1>3. CASE BeginCycle(c)       BY <1>3 DEF BeginCycle
<1>4. CASE BeginSweep(c)       BY <1>4 DEF BeginSweep
<1>5. CASE AcquireLock(c)      BY <1>5 DEF AcquireLock
<1>6. CASE Search(c)           BY <1>6 DEF Search
<1>7. CASE NextJob(c)          BY <1>7 DEF NextJob
<1>8. CASE Guard(c)            BY <1>8 DEF Guard
<1>9. CASE CheckQuota(c)       BY <1>9 DEF CheckQuota
<1>10. CASE Post(c)
  <2>1. \E r \in Replies : Go(c, "answered", job[c], todo[c], r)
    BY <1>10 DEF Post
  <2>2. pc[c] = "post" /\ UNCHANGED <<envVars, switchVars, warned>>
    BY <1>10 DEF Post
  <2>3. QED  BY <2>1, <2>2
<1>11. CASE PostAnswers(c)     BY <1>11 DEF PostAnswers
<1>12. CASE Record(c)          BY <1>12 DEF Record
<1>13. CASE Halt(c)            BY <1>13 DEF Halt, Trip
<1>14. CASE SweepMeetsBlock(c) BY <1>14 DEF SweepMeetsBlock
<1>15. CASE Cut(c)             BY <1>15 DEF Cut
<1>16. QED
  BY <1>1, <1>2, <1>3, <1>4, <1>5, <1>6, <1>7, <1>8, <1>9, <1>10, <1>11, <1>12, <1>13,
     <1>14, <1>15 DEF Begin, Step

LEMMA SwitchInvElse ==
  ASSUME TypeInv, SwitchInv, Operator \/ Restart
  PROVE  SwitchInv'
<1> USE DEF TypeInv, TypeOK, SwitchInv, envVars, rowVars, callVars, postVars
<1>1. CASE OperatorTrips    BY <1>1 DEF OperatorTrips, Trip
<1>2. CASE OperatorResumes  BY <1>2 DEF OperatorResumes
<1>3. CASE Restart          BY <1>3 DEF Restart, Load
<1>4. QED
  BY <1>1, <1>2, <1>3 DEF Operator

LEMMA SwitchInvNext == TypeInv /\ SwitchInv /\ [Next]_vars => SwitchInv'
<1> SUFFICES ASSUME TypeInv, SwitchInv, [Next]_vars PROVE SwitchInv'
  OBVIOUS
<1>1. CASE UNCHANGED vars
  BY <1>1 DEF SwitchInv, vars, envVars, switchVars, callVars, postVars
<1>2. QED
  BY <1>1, SwitchInvStep, SwitchInvElse DEF Next

LEMMA SwitchIsSound == Spec => []SwitchInv
  BY SwitchInvInit, SwitchInvNext, Typing, PTL DEF Spec

\* _load_initial_state() and guard(): until the operator resumes, a trip holds.
THEOREM TripsAreKept == Spec => []TripsOutliveCrashes
<1>1. SwitchInv => TripsOutliveCrashes
  BY DEF SwitchInv, TripsOutliveCrashes
<1>2. QED
  BY <1>1, SwitchIsSound, PTL

\* No caller that takes up a job under a tripped switch sends anything to Naukri.
THEOREM TripsStop == Spec => []TripStopsTraffic
<1>1. SwitchInv => TripStopsTraffic
  BY DEF SwitchInv, TripStopsTraffic
<1>2. QED
  BY <1>1, SwitchIsSound, PTL

-----------------------------------------------------------------------------
(* The rows *)

\* A row is never deleted.
LEMMA RowsStay ==
  ASSUME TypeInv, [Next]_vars, NEW j \in Jobs, row[j] # "none"
  PROVE  row'[j] # "none"
<1>1. CASE \E c \in Callers : Record(c)
  BY <1>1 DEF Record, StatusOf, TypeInv, TypeOK, rowVars
<1>2. CASE ~\E c \in Callers : Record(c)
  <2>1. UNCHANGED row
    BY <1>2 DEF Next, vars, rowVars, Begin, Step, Operator, BeginSingle, BeginBatch, BeginCycle,
       BeginSweep, AcquireLock, Search, NextJob, Guard, CheckQuota, Post, PostAnswers, Halt,
       SweepMeetsBlock, Cut, OperatorTrips, OperatorResumes, Restart
  <2>2. QED  BY <2>1
<1>3. QED
  BY <1>1, <1>2
(* The composite lock *)

\* Whoever applies under the lock holds it.
LockInv ==
  \A c \in Callers : kind[c] \in Locked /\ pc[c] \notin {"idle", "queued"} => lock = c

LEMMA LockInvStep ==
  ASSUME TypeInv, LockInv, NEW c \in Callers, Begin(c) \/ Step(c) \/ Cut(c)
  PROVE  LockInv'
<1> USE NoneAssumption DEF TypeInv, TypeOK, LockInv, Go, Return, Proceed, Applying, Locked,
        envVars, rowVars, switchVars, postVars
<1>1. CASE BeginSingle(c)      BY <1>1 DEF BeginSingle
<1>2. CASE BeginBatch(c)       BY <1>2 DEF BeginBatch
<1>3. CASE BeginCycle(c)       BY <1>3 DEF BeginCycle
<1>4. CASE BeginSweep(c)       BY <1>4 DEF BeginSweep
<1>5. CASE AcquireLock(c)      BY <1>5 DEF AcquireLock
<1>6. CASE Search(c)           BY <1>6 DEF Search
<1>7. CASE NextJob(c)          BY <1>7 DEF NextJob
<1>8. CASE Guard(c)
  <2>1. CASE tripped /\ kind[c] = "sweep"     BY <1>8, <2>1 DEF Guard
  <2>2. CASE ~(tripped /\ kind[c] = "sweep")  BY <1>8, <2>2 DEF Guard
  <2>3. QED  BY <2>1, <2>2
<1>9. CASE CheckQuota(c)
  <2>1. CASE pc'[c] = "post"  BY <1>9, <2>1 DEF CheckQuota
  <2>2. CASE pc'[c] # "post"  BY <1>9, <2>2 DEF CheckQuota
  <2>3. QED  BY <2>1, <2>2
<1>10. CASE Post(c)
  <2>1. \E r \in Replies : Go(c, "answered", job[c], todo[c], r)
    BY <1>10 DEF Post
  <2>2. pc[c] = "post" /\ UNCHANGED <<envVars, rowVars, lock>>
    BY <1>10 DEF Post
  <2>3. QED  BY <2>1, <2>2
<1>11. CASE PostAnswers(c)     BY <1>11 DEF PostAnswers
<1>12. CASE Record(c)          BY <1>12 DEF Record
<1>13. CASE Halt(c)            BY <1>13 DEF Halt
<1>14. CASE SweepMeetsBlock(c) BY <1>14 DEF SweepMeetsBlock
<1>15. CASE Cut(c)             BY <1>15 DEF Cut
<1>16. QED
  BY <1>1, <1>2, <1>3, <1>4, <1>5, <1>6, <1>7, <1>8, <1>9, <1>10, <1>11, <1>12, <1>13,
     <1>14, <1>15 DEF Begin, Step

LEMMA LockInvNext == TypeInv /\ LockInv /\ [Next]_vars => LockInv'
<1> SUFFICES ASSUME TypeInv, LockInv, [Next]_vars PROVE LockInv'
  OBVIOUS
<1>1. CASE UNCHANGED vars
  BY <1>1 DEF LockInv, vars, envVars, callVars
<1>2. CASE Operator \/ Restart
  BY <1>2 DEF LockInv, Operator, OperatorTrips, OperatorResumes, Restart, envVars, callVars
<1>3. QED
  BY <1>1, <1>2, LockInvStep DEF Next

LEMMA LockIsExclusive == Spec => []LockInv
<1>1. Init => LockInv
  BY DEF Init, LockInv
<1>2. QED
  BY <1>1, LockInvNext, Typing, PTL DEF Spec

-----------------------------------------------------------------------------
(* Rows against Naukri *)

\* "applied" is written, or about to be, only of a job that Naukri has.
SaidOfNaukri ==
  /\ \A j \in Jobs : row[j] = "applied" => j \in site
  /\ \A c \in Callers : reply[c] \in {"ok", "already"} => job[c] \in site

LEMMA SaidOfNaukriStep ==
  ASSUME TypeInv, SaidOfNaukri, NEW c \in Callers, Begin(c) \/ Step(c) \/ Cut(c)
  PROVE  SaidOfNaukri'
<1> USE NoneAssumption DEF TypeInv, TypeOK, Placed, SaidOfNaukri, Go, Return, Proceed, Applying,
        Replies, envVars, rowVars, switchVars, postVars
<1>1. CASE BeginSingle(c)      BY <1>1 DEF BeginSingle
<1>2. CASE BeginBatch(c)       BY <1>2 DEF BeginBatch
<1>3. CASE BeginCycle(c)       BY <1>3 DEF BeginCycle
<1>4. CASE BeginSweep(c)       BY <1>4 DEF BeginSweep
<1>5. CASE AcquireLock(c)      BY <1>5 DEF AcquireLock
<1>6. CASE Search(c)           BY <1>6 DEF Search
<1>7. CASE NextJob(c)          BY <1>7 DEF NextJob
<1>8. CASE Guard(c)            BY <1>8 DEF Guard
<1>9. CASE CheckQuota(c)       BY <1>9 DEF CheckQuota
<1>10. CASE Post(c)
  <2>1. PICK r \in Replies, done \in BOOLEAN :
          /\ MayAnswer(job[c], r, done) /\ Carry(job[c], done)
          /\ Go(c, "answered", job[c], todo[c], r)
    BY <1>10 DEF Post
  <2>2. pc[c] = "post" /\ UNCHANGED row
    BY <1>10 DEF Post
  <2>3. QED  BY <2>1, <2>2 DEF MayAnswer, Carry
<1>11. CASE PostAnswers(c)
  <2>1. PICK r \in {"ok", "failed", "blocked"}, done \in BOOLEAN :
          /\ (r = "ok" => done) /\ Carry(job[c], done)
          /\ Go(c, "answered", job[c], todo[c], r)
    BY <1>11 DEF PostAnswers
  <2>2. pc[c] = "answered" /\ UNCHANGED row
    BY <1>11 DEF PostAnswers
  <2>3. QED  BY <2>1, <2>2 DEF Carry
<1>12. CASE Record(c)          BY <1>12 DEF Record, StatusOf
<1>13. CASE Halt(c)            BY <1>13 DEF Halt
<1>14. CASE SweepMeetsBlock(c) BY <1>14 DEF SweepMeetsBlock
<1>15. CASE Cut(c)             BY <1>15 DEF Cut
<1>16. QED
  BY <1>1, <1>2, <1>3, <1>4, <1>5, <1>6, <1>7, <1>8, <1>9, <1>10, <1>11, <1>12, <1>13,
     <1>14, <1>15 DEF Begin, Step

LEMMA SaidOfNaukriNext == TypeInv /\ SaidOfNaukri /\ [Next]_vars => SaidOfNaukri'
<1> SUFFICES ASSUME TypeInv, SaidOfNaukri, [Next]_vars PROVE SaidOfNaukri'
  OBVIOUS
<1>1. CASE UNCHANGED vars
  BY <1>1 DEF SaidOfNaukri, vars, rowVars, callVars
<1>2. CASE Operator \/ Restart
  BY <1>2, NoneAssumption DEF SaidOfNaukri, Operator, OperatorTrips, OperatorResumes, Restart,
     rowVars, callVars, Replies
<1>3. QED
  BY <1>1, <1>2, SaidOfNaukriStep DEF Next

\* The jobs of a sweep have rows already, of which it takes none away.
SweepHasRows ==
  \A c \in Callers : kind[c] = "sweep" =>
    /\ \A j \in todo[c] : row[j] # "none"
    /\ pc[c] \in Applying => row[job[c]] # "none"

LEMMA SweepHasRowsStep ==
  ASSUME TypeInv, SweepHasRows, NEW c \in Callers, Begin(c) \/ Step(c) \/ Cut(c)
  PROVE  SweepHasRows'
<1>1. /\ UNCHANGED kind
      /\ \A d \in Callers \ {c} :
           todo'[d] = todo[d] /\ pc'[d] = pc[d] /\ job'[d] = job[d]
  BY OthersStay
<1>2. \A j \in Jobs : row[j] # "none" => row'[j] # "none"
  BY RowsStay DEF Next
<1>3. ASSUME kind[c] = "sweep"
      PROVE  /\ \A j \in todo'[c] : row[j] # "none"
             /\ pc'[c] \in Applying => row[job'[c]] # "none"
  <2> USE <1>3, NoneAssumption DEF TypeInv, TypeOK, Placed, SweepHasRows, Go, Return, Proceed,
          Applying, Locked
  <2>1. CASE Begin(c)
    BY <2>1 DEF Begin, BeginSingle, BeginBatch, BeginCycle, BeginSweep, Waiting
  <2>2. CASE AcquireLock(c) \/ Search(c) \/ NextJob(c) \/ Cut(c)
    BY <2>2 DEF AcquireLock, Search, NextJob, Cut
  <2>3. CASE Guard(c) \/ CheckQuota(c)
    BY <2>3 DEF Guard, CheckQuota
  <2>4. CASE Post(c) \/ PostAnswers(c) \/ Halt(c)
    BY <2>4 DEF Post, PostAnswers, Halt
  <2>5. CASE Record(c) \/ SweepMeetsBlock(c)
    BY <2>5 DEF Record, SweepMeetsBlock
  <2>6. QED
    BY <2>1, <2>2, <2>3, <2>4, <2>5 DEF Step
<1>4. TypeInv'
  BY TypeInvNext DEF Next
<1>5. QED
  BY <1>1, <1>2, <1>3, <1>4 DEF SweepHasRows, TypeInv, TypeOK, Placed

LEMMA SweepHasRowsNext == TypeInv /\ SweepHasRows /\ [Next]_vars => SweepHasRows'
<1> SUFFICES ASSUME TypeInv, SweepHasRows, [Next]_vars PROVE SweepHasRows'
  OBVIOUS
<1>1. CASE UNCHANGED vars
  BY <1>1 DEF SweepHasRows, vars, envVars, rowVars, callVars
<1>2. CASE Operator \/ Restart
  BY <1>2 DEF SweepHasRows, Operator, OperatorTrips, OperatorResumes, Restart, envVars, rowVars,
     callVars, Applying
<1>3. QED
  BY <1>1, <1>2, SweepHasRowsStep DEF Next
\* While nothing is cut, a job applied to has a row or somebody who is to write it.
AppliedIsRecorded ==
  env = "calm" =>
    \A j \in site : row[j] # "none" \/ \E c \in Callers : pc[c] = "answered" /\ job[c] = j

LEMMA AppliedIsRecordedStep ==
  ASSUME TypeInv, SweepHasRows, AppliedIsRecorded,
         NEW c \in Callers, Begin(c) \/ Step(c) \/ Cut(c)
  PROVE  AppliedIsRecorded'
<1> SUFFICES ASSUME env = "calm", NEW j \in site', row'[j] = "none"
             PROVE  \E d \in Callers : pc'[d] = "answered" /\ job'[d] = j
  BY OthersStay DEF AppliedIsRecorded
<1> USE DEF TypeInv, TypeOK, Placed
<1>1. j \in Jobs /\ row[j] = "none"
  BY TypeInvNext, RowsStay DEF Next
<1>2. CASE j \notin site
  <2>1. Post(c) \/ PostAnswers(c)
    BY <1>2 DEF Begin, Step, BeginSingle, BeginBatch, BeginCycle, BeginSweep, AcquireLock, Search,
       NextJob, Guard, CheckQuota, Record, Halt, SweepMeetsBlock, Cut
  <2>2. job[c] = j
    BY <1>2, <2>1 DEF Post, PostAnswers, Carry
  <2>3. QED
    BY <2>1, <2>2 DEF Post, PostAnswers, Go
<1>3. CASE j \in site
  <2>1. PICK d \in Callers : pc[d] = "answered" /\ job[d] = j
    BY <1>1, <1>3 DEF AppliedIsRecorded
  <2>2. CASE d # c
    BY <2>1, <2>2, OthersStay
  <2>3. CASE d = c
    <3>1. ~Record(c)
      BY <1>1, <2>1, <2>3 DEF Record, StatusOf, SweepHasRows, Applying
    <3>2. ~SweepMeetsBlock(c)
      BY <1>1, <2>1, <2>3 DEF SweepMeetsBlock, SweepHasRows, Applying
    <3>3. PostAnswers(c) \/ Halt(c)
      BY <2>1, <2>3, <3>1, <3>2 DEF Begin, Step, BeginSingle, BeginBatch, BeginCycle, BeginSweep,
         AcquireLock, Search, NextJob, Guard, CheckQuota, Post, Cut
    <3>4. QED
      BY <2>1, <2>3, <3>3 DEF PostAnswers, Halt, Go
  <2>4. QED  BY <2>2, <2>3
<1>4. QED
  BY <1>2, <1>3

LEMMA AppliedIsRecordedNext ==
  TypeInv /\ SweepHasRows /\ AppliedIsRecorded /\ [Next]_vars => AppliedIsRecorded'
<1> SUFFICES ASSUME TypeInv, SweepHasRows, AppliedIsRecorded, [Next]_vars
             PROVE  AppliedIsRecorded'
  OBVIOUS
<1>1. CASE UNCHANGED vars
  BY <1>1 DEF AppliedIsRecorded, vars, envVars, rowVars, callVars
<1>2. CASE Operator \/ Restart
  BY <1>2 DEF AppliedIsRecorded, Operator, OperatorTrips, OperatorResumes, Restart, envVars,
     rowVars, callVars
<1>3. QED
  BY <1>1, <1>2, AppliedIsRecordedStep DEF Next

LEMMA RowsAreSound == Spec => [](SaidOfNaukri /\ SweepHasRows /\ AppliedIsRecorded)
<1>1. Init => SaidOfNaukri /\ SweepHasRows /\ AppliedIsRecorded
  BY NoneAssumption DEF Init, SaidOfNaukri, SweepHasRows, AppliedIsRecorded, Applying, Replies
<1>2. QED
  BY <1>1, SaidOfNaukriNext, SweepHasRowsNext, AppliedIsRecordedNext, Typing, PTL DEF Spec

\* record_application() and the duplicate checks agree with Naukri: a row says
\* "applied" only of what was applied to, and no application lacks its row.
THEOREM RowsMatch == Spec => []RowsMatchNaukri
<1>1. TypeInv /\ SaidOfNaukri /\ AppliedIsRecorded => RowsMatchNaukri
  BY DEF TypeInv, TypeOK, SaidOfNaukri, AppliedIsRecorded, RowsMatchNaukri
<1>2. QED
  BY <1>1, RowsAreSound, Typing, PTL

-----------------------------------------------------------------------------
(* The daily quota *)

\* Under the lock: what was applied to today is within the quota, and below it
\* before every call that may add to it.
QuotaInv ==
  env = "calm" /\ AllLocked =>
    /\ IsFiniteSet(fresh) /\ IsFiniteSet(AppliedToday)
    /\ Cardinality(AppliedToday) <= Quota
    /\ \A c \in Callers :
         pc[c] = "post" \/ reply[c] = "asks" => Cardinality(fresh) < Quota

\* A job more than fewer than the quota is within it.
LEMMA OneMore ==
  ASSUME NEW S, NEW T, NEW x, IsFiniteSet(T), Cardinality(T) < Quota, S \subseteq T \cup {x}
  PROVE  IsFiniteSet(S) /\ Cardinality(S) <= Quota
<1>1. IsFiniteSet(T \cup {x}) /\ Cardinality(T \cup {x}) <= Cardinality(T) + 1
  <2>1. Cardinality(T) \in Nat
    BY FS_CardinalityType
  <2>2. /\ IsFiniteSet(T \cup {x})
        /\ Cardinality(T \cup {x}) = IF x \in T THEN Cardinality(T) ELSE Cardinality(T) + 1
    BY FS_AddElement, Zenon
  <2>3. QED  BY <2>1, <2>2
<1>2. IsFiniteSet(S) /\ Cardinality(S) <= Cardinality(T \cup {x})
  BY <1>1, FS_Subset
<1>3. QED
  BY <1>1, <1>2, FS_CardinalityType, QuotaAssumption

LEMMA QuotaInvStep ==
  ASSUME TypeInv, LockInv, AppliedIsRecorded, QuotaInv,
         NEW c \in Callers, Begin(c) \/ Step(c) \/ Cut(c)
  PROVE  QuotaInv'
<1> SUFFICES ASSUME env = "calm", AllLocked
             PROVE  /\ IsFiniteSet(fresh') /\ IsFiniteSet(AppliedToday')
                    /\ Cardinality(AppliedToday') <= Quota
                    /\ \A d \in Callers :
                         pc'[d] = "post" \/ reply'[d] = "asks" => Cardinality(fresh') < Quota
  BY OthersStay DEF QuotaInv, AllLocked
<1> USE DEF TypeInv, TypeOK, Placed
<1>1. /\ IsFiniteSet(fresh) /\ IsFiniteSet(AppliedToday)
      /\ Cardinality(AppliedToday) <= Quota
      /\ \A d \in Callers : pc[d] = "post" \/ reply[d] = "asks" => Cardinality(fresh) < Quota
  BY DEF QuotaInv
<1>2. CASE Post(c) \/ PostAnswers(c)
  <2>1. Cardinality(fresh) < Quota
    BY <1>1, <1>2 DEF Post, PostAnswers
  <2>2. /\ UNCHANGED <<row, fresh>>
        /\ site' \subseteq site \cup {job[c]}
    BY <1>2 DEF Post, PostAnswers, Carry, rowVars
  <2>3. AppliedToday \subseteq fresh \cup {job[c]}
    <3>1. pc[c] \notin {"idle", "queued"}
      BY <1>2 DEF Post, PostAnswers
    <3>2. \A d \in Callers : pc[d] = "answered" => d = c
      BY <3>1 DEF LockInv, AllLocked
    <3>3. QED
      BY <3>2 DEF AppliedToday, AppliedIsRecorded
  <2>4. AppliedToday' \subseteq fresh \cup {job[c]}
    BY <2>2, <2>3 DEF AppliedToday
  <2>5. IsFiniteSet(AppliedToday') /\ Cardinality(AppliedToday') <= Quota
    BY <1>1, <2>1, <2>4, OneMore
  <2>6. QED
    BY <1>1, <2>1, <2>2, <2>5
<1>3. CASE Record(c)
  <2>1. PICK s \in Statuses \ {"none"} :
          row' = [row EXCEPT ![job[c]] = s]
    BY <1>3 DEF Record, StatusOf, Statuses, AllLocked, Locked
  <2>2. fresh' = IF row[job[c]] = "none" THEN fresh \cup {job[c]} ELSE fresh
    BY <1>3 DEF Record, AllLocked, Locked
  <2>3. UNCHANGED site /\ job[c] \in Jobs
    BY <1>3 DEF Record, Applying
  <2>4. AppliedToday' \subseteq AppliedToday
    BY <2>1, <2>2, <2>3 DEF AppliedToday
  <2>5. IsFiniteSet(AppliedToday') /\ Cardinality(AppliedToday') <= Quota
    BY <1>1, <2>4, FS_Subset, FS_CardinalityType, QuotaAssumption
  <2>6. IsFiniteSet(fresh')
    BY <1>1, <2>2, FS_AddElement
  <2>7. ASSUME NEW d \in Callers PROVE ~(pc'[d] = "post" \/ reply'[d] = "asks")
    <3>1. pc[c] = "answered" /\ pc'[c] \in {"idle", "next"} /\ reply'[c] = None
      BY <1>3 DEF Record, Proceed, Return, Go
    <3>2. CASE d = c
      BY <3>1, <3>2, NoneAssumption DEF Replies
    <3>3. CASE d # c
      <4>1. pc[d] \in {"idle", "queued"}
        BY <3>1, <3>3 DEF LockInv, AllLocked
      <4>2. QED
        BY <3>3, <4>1, OthersStay, NoneAssumption DEF Replies
    <3>4. QED  BY <3>2, <3>3
  <2>8. QED
    BY <2>5, <2>6, <2>7
<1>4. CASE ~(Post(c) \/ PostAnswers(c) \/ Record(c))
  <2>1. UNCHANGED <<row, fresh, site>>
    BY <1>4 DEF Begin, Step, BeginSingle, BeginBatch, BeginCycle, BeginSweep, AcquireLock, Search,
       NextJob, Guard, CheckQuota, Halt, SweepMeetsBlock, Cut, rowVars
  <2>2. ASSUME pc'[c] = "post" \/ reply'[c] = "asks" PROVE Cardinality(fresh) < Quota
    BY <1>4, <2>2, NoneAssumption
    DEF Begin, Step, BeginSingle, BeginBatch, BeginCycle, BeginSweep, AcquireLock, Search, NextJob,
        Guard, CheckQuota, Halt, SweepMeetsBlock, Cut, Go, Return, Proceed, AllLocked, Locked,
        Replies
  <2>3. AppliedToday' = AppliedToday
    BY <2>1 DEF AppliedToday
  <2>4. QED
    BY <1>1, <2>1, <2>2, <2>3, OthersStay
<1>5. QED
  BY <1>2, <1>3, <1>4

LEMMA QuotaInvNext ==
  TypeInv /\ LockInv /\ AppliedIsRecorded /\ QuotaInv /\ [Next]_vars => QuotaInv'
<1> SUFFICES ASSUME TypeInv, LockInv, AppliedIsRecorded, QuotaInv, [Next]_vars
             PROVE  QuotaInv'
  OBVIOUS
<1>1. CASE UNCHANGED vars
  BY <1>1 DEF QuotaInv, AllLocked, AppliedToday, vars, envVars, rowVars, callVars
<1>2. CASE Operator
  BY <1>2 DEF QuotaInv, AllLocked, AppliedToday, Operator, OperatorTrips, OperatorResumes, envVars,
     rowVars, callVars
<1>3. CASE Restart
  BY <1>3 DEF QuotaInv, Restart, envVars
<1>4. QED
  BY <1>1, <1>2, <1>3, QuotaInvStep DEF Next

\* _daily_quota_exceeded() under _tracking_composite_lock bounds the applications
\* of a day.
THEOREM QuotaIsHard == Spec => []QuotaIsHardUnderLock
<1>1. Init => QuotaInv
  <2> SUFFICES ASSUME Init PROVE QuotaInv
    OBVIOUS
  <2>1. fresh = {} /\ AppliedToday = {} /\ \A c \in Callers : pc[c] = "idle" /\ reply[c] = None
    BY DEF Init, AppliedToday
  <2>2. QED
    BY <2>1, FS_EmptySet, QuotaAssumption, NoneAssumption DEF QuotaInv, Replies
<1>2. QuotaInv => QuotaIsHardUnderLock
  BY DEF QuotaInv, QuotaIsHardUnderLock
<1>3. QED
  BY <1>1, <1>2, QuotaInvNext, LockIsExclusive, RowsAreSound, Typing, PTL DEF Spec

-----------------------------------------------------------------------------
(* Repeated applications *)

Unposted == {"queued", "search", "next", "guard", "quota", "post"}

\* What a caller has POSTed for has a row by the time it looks for jobs, so that
\* neither it nor, among batches, another one still has the job before it.
SentInv ==
  /\ \A c \in Callers : env # "calm" \/ kind[c] = "sweep" => sent[c] = {}
  /\ \A c \in Callers : \A j \in sent[c] :
       row[j] # "none" \/ (pc[c] = "answered" /\ job[c] = j)
  /\ \A c, d \in Callers : d = c \/ (kind[c] = "batch" /\ kind[d] = "batch") =>
       /\ todo[c] \cap sent[d] = {}
       /\ pc[c] \in Unposted => job[c] \notin sent[d]
  /\ \A c \in Callers : job[c] \notin todo[c]
  /\ ~repeated

\* Where a caller has its jobs from.
LEMMA JobsAreUnposted ==
  ASSUME TypeInv, NEW c \in Callers, kind[c] # "sweep", Begin(c) \/ Step(c) \/ Cut(c)
  PROVE  /\ \A j \in todo'[c] :
              \/ j \in todo[c]
              \/ row[j] = "none" /\ kind[c] # "batch" /\ pc[c] = "idle"
              \/ row[j] = "none" /\ pc[c] = "search"
         /\ pc'[c] \in Unposted =>
              \/ job'[c] = None
              \/ job'[c] \in todo[c]
              \/ pc[c] \in Unposted /\ job'[c] = job[c]
              \/ row[job'[c]] = "none" /\ kind[c] # "batch" /\ pc[c] = "idle"
         /\ job'[c] \in todo'[c] => job[c] \in todo[c]
<1> USE NoneAssumption DEF TypeInv, TypeOK, Placed, Go, Return, Proceed, Unposted, Applying, Locked
<1>1. CASE Begin(c)
  BY <1>1 DEF Begin, BeginSingle, BeginBatch, BeginCycle, BeginSweep, Unseen
<1>2. CASE AcquireLock(c)          BY <1>2 DEF AcquireLock
<1>3. CASE Search(c)               BY <1>3 DEF Search, Unseen
<1>4. CASE NextJob(c)              BY <1>4 DEF NextJob
<1>5. CASE Guard(c)                BY <1>5 DEF Guard
<1>6. CASE CheckQuota(c)           BY <1>6 DEF CheckQuota
<1>7. CASE Post(c) \/ PostAnswers(c) \/ Halt(c)
  BY <1>7 DEF Post, PostAnswers, Halt
<1>8. CASE Record(c) \/ SweepMeetsBlock(c) \/ Cut(c)
  BY <1>8 DEF Record, SweepMeetsBlock, Cut
<1>9. QED
  BY <1>1, <1>2, <1>3, <1>4, <1>5, <1>6, <1>7, <1>8 DEF Step

LEMMA SentInvStep ==
  ASSUME TypeInv, LockInv, SentInv, NEW c \in Callers, Begin(c) \/ Step(c) \/ Cut(c)
  PROVE  SentInv'
<1> USE DEF TypeInv, TypeOK, Placed
<1>1. \A j \in Jobs : row[j] # "none" => row'[j] # "none"
  BY RowsStay DEF Next
<1>2. TypeInv' /\ UNCHANGED <<kind, env>>
  BY TypeInvNext, OthersStay DEF Next
<1>3. \A d \in Callers : d # c /\ kind[c] = "batch" /\ kind[d] = "batch"
                           /\ pc[c] \notin {"idle", "queued"} =>
        /\ todo[d] = {} /\ pc[d] \in {"idle", "queued"}
        /\ pc[d] = "queued" => job[d] = None
  BY DEF LockInv, Locked
<1>4. CASE Post(c) /\ kind[c] # "sweep" /\ env = "calm"
  <2>1. PICK r \in Replies : Go(c, "answered", job[c], todo[c], r)
    BY <1>4 DEF Post
  <2>2. /\ pc[c] = "post" /\ job[c] \in Jobs /\ UNCHANGED row
        /\ sent' = [sent EXCEPT ![c] = @ \cup {job[c]}]
        /\ repeated' = (repeated \/ Known(c, job[c]))
    BY <1>4 DEF Post, rowVars, Applying
  <2>3. ~Known(c, job[c])
    BY <2>2 DEF SentInv, Known, Unposted
  <2>4. pc'[c] = "answered" /\ UNCHANGED <<job, todo>> /\ job[c] \notin todo[c]
    BY <2>1 DEF Go, SentInv
  <2>5. \A d \in Callers : env # "calm" \/ kind[d] = "sweep" => sent'[d] = {}
    BY <1>4, <2>2 DEF SentInv
  <2>6. \A d \in Callers : \A j \in sent'[d] :
          row'[j] # "none" \/ (pc'[d] = "answered" /\ job'[d] = j)
    BY <2>1, <2>2, <2>4 DEF SentInv, Go
  <2>7. ASSUME NEW d \in Callers, NEW e \in Callers,
               e = d \/ (kind[d] = "batch" /\ kind[e] = "batch")
        PROVE  /\ todo'[d] \cap sent'[e] = {}
               /\ pc'[d] \in Unposted => job'[d] \notin sent'[e]
    <3>1. todo[d] \cap sent[e] = {} /\ (pc[d] \in Unposted => job[d] \notin sent[e])
      BY <2>7 DEF SentInv
    <3>2. CASE e # c
      BY <2>2, <2>4, <3>1, <3>2, OthersStay DEF Unposted
    <3>3. CASE e = c /\ d = c
      BY <2>2, <2>4, <3>1, <3>3 DEF Unposted
    <3>4. CASE e = c /\ d # c
      BY <1>3, <2>2, <2>4, <2>7, <3>1, <3>4, OthersStay, NoneAssumption DEF Unposted
    <3>5. QED  BY <3>2, <3>3, <3>4
  <2>8. QED
    BY <1>2, <2>2, <2>3, <2>4, <2>5, <2>6, <2>7 DEF SentInv
<1>5. CASE ~(Post(c) /\ kind[c] # "sweep" /\ env = "calm")
  <2>1. UNCHANGED <<sent, repeated>>
    BY <1>5 DEF Begin, Step, BeginSingle, BeginBatch, BeginCycle, BeginSweep, AcquireLock, Search,
       NextJob, Guard, CheckQuota, Post, PostAnswers, Record, Halt, SweepMeetsBlock, Cut, postVars
  <2>2. ASSUME NEW d \in Callers, NEW j \in sent[d], row'[j] = "none"
        PROVE  pc'[d] = "answered" /\ job'[d] = j
    <3>1. /\ row[j] = "none" /\ pc[d] = "answered" /\ job[d] = j
          /\ env = "calm" /\ kind[d] # "sweep"
      BY <1>1, <2>2 DEF SentInv
    <3>2. CASE d # c
      BY <3>1, <3>2, OthersStay
    <3>3. CASE d = c
      <4>1. ~Record(c)
        BY <2>2, <3>1, <3>3 DEF Record, StatusOf
      <4>2. PostAnswers(c) \/ Halt(c)
        BY <3>1, <3>3, <4>1 DEF Begin, Step, BeginSingle, BeginBatch, BeginCycle, BeginSweep,
           AcquireLock, Search, NextJob, Guard, CheckQuota, Post, SweepMeetsBlock, Cut
      <4>3. QED
        BY <3>1, <3>3, <4>2 DEF PostAnswers, Halt, Go
    <3>4. QED  BY <3>2, <3>3
  <2>3. ASSUME NEW d \in Callers, NEW e \in Callers,
               e = d \/ (kind[d] = "batch" /\ kind[e] = "batch")
        PROVE  /\ todo'[d] \cap sent[e] = {}
               /\ pc'[d] \in Unposted => job'[d] \notin sent[e]
    <3>1. todo[d] \cap sent[e] = {} /\ (pc[d] \in Unposted => job[d] \notin sent[e])
      BY <2>3 DEF SentInv
    <3>2. CASE d # c
      BY <3>1, <3>2, OthersStay
    <3>3. CASE d = c /\ kind[c] = "sweep"
      BY <2>3, <3>3 DEF SentInv
    <3>4. CASE d = c /\ kind[c] # "sweep"
      <4>1. \A j \in sent[e] : pc[c] = "search" => row[j] # "none"
        BY <1>3, <2>3, <3>4 DEF SentInv
      <4>2. \A j \in sent[e] : pc[c] = "idle" /\ kind[c] # "batch" => row[j] # "none"
        BY <2>3, <3>4 DEF SentInv
      <4>3. None \notin sent[e]
        BY NoneAssumption
      <4>4. QED
        BY <3>1, <3>4, <4>1, <4>2, <4>3, JobsAreUnposted
    <3>5. QED  BY <3>2, <3>3, <3>4
  <2>4. \A d \in Callers : job'[d] \notin todo'[d]
    <3>1. job'[c] \notin todo'[c]
      <4>1. CASE kind[c] = "sweep"
        <5> USE <4>1, NoneAssumption DEF SentInv, Go, Return, Proceed, Locked
        <5>1. CASE Begin(c)
          BY <5>1 DEF Begin, BeginSingle, BeginBatch, BeginCycle, BeginSweep, Waiting
        <5>2. CASE AcquireLock(c) \/ Search(c)
          BY <5>2 DEF AcquireLock, Search
        <5>3. CASE NextJob(c)
          BY <5>3 DEF NextJob
        <5>4. CASE Guard(c) \/ CheckQuota(c) \/ Cut(c)
          BY <5>4 DEF Guard, CheckQuota, Cut
        <5>5. CASE Post(c) \/ PostAnswers(c) \/ Halt(c)
          BY <5>5 DEF Post, PostAnswers, Halt
        <5>6. CASE Record(c) \/ SweepMeetsBlock(c)
          BY <5>6 DEF Record, SweepMeetsBlock
        <5>7. QED  BY <5>1, <5>2, <5>3, <5>4, <5>5, <5>6 DEF Step
      <4>2. CASE kind[c] # "sweep"
        BY <4>2, JobsAreUnposted DEF SentInv
      <4>3. QED  BY <4>1, <4>2
    <3>2. QED
      BY <3>1, OthersStay DEF SentInv
  <2>5. QED
    BY <1>2, <2>1, <2>2, <2>3, <2>4 DEF SentInv
<1>6. QED
  BY <1>4, <1>5

LEMMA SentInvNext == TypeInv /\ LockInv /\ SentInv /\ [Next]_vars => SentInv'
<1> SUFFICES ASSUME TypeInv, LockInv, SentInv, [Next]_vars PROVE SentInv'
  OBVIOUS
<1>1. CASE UNCHANGED vars
  BY <1>1 DEF SentInv, vars, envVars, rowVars, callVars, postVars
<1>2. CASE Operator
  BY <1>2 DEF SentInv, Operator, OperatorTrips, OperatorResumes, envVars, rowVars, callVars,
     postVars
<1>3. CASE Restart
  BY <1>3 DEF SentInv, Restart, envVars, rowVars, Unposted
<1>4. QED
  BY <1>1, <1>2, <1>3, SentInvStep DEF Next

\* The duplicate checks, each made before an await, hold at the POST for what a
\* caller did itself and for what batches did: while no call is cut off no caller
\* applies to a job twice, and no two batches do.
THEOREM NothingRepeated == Spec => []NoRepeatedApply
<1>1. Init => SentInv
  BY NoneAssumption DEF Init, SentInv, Unposted
<1>2. SentInv => NoRepeatedApply
  BY DEF SentInv, NoRepeatedApply
<1>3. QED
  BY <1>1, <1>2, SentInvNext, LockIsExclusive, Typing, PTL DEF Spec
=============================================================================

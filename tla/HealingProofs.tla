---------------------------- MODULE HealingProofs ---------------------------
(***************************************************************************)
(* Proofs about self-healing, for any endpoints, tiers and bounds.         *)
(***************************************************************************)
EXTENDS Healing, TLAPS

Verdicts == {"none", "confirmed", "reverted", "revert_failed"}

\* The handler and the verifier work on commits that were made, for their endpoint.
WorkInv ==
  /\ handler \in [at : {"idle", "trying", "inserting", "absorbing"},
                  e : Endpoints \cup {None}, fix : 0..MaxFixes, verdict : Verdicts]
  /\ verifier \in [at : {"idle", "asking", "marking"},
                   e : Endpoints \cup {None}, fix : 0..MaxFixes, verdict : Verdicts]
  /\ handler.at # "idle" => handler.e \in Endpoints
  /\ handler.at = "trying" => made < MaxFixes
  /\ handler.at \in {"inserting", "absorbing"} =>
       handler.fix \in 1..made /\ endpoint[handler.fix] = handler.e
  /\ verifier.at # "idle" =>
       verifier.fix \in 1..made /\ endpoint[verifier.fix] = verifier.e

\* What was not committed yet has no trace.
MadeInv ==
  /\ \A i \in 1..made : endpoint[i] \in Endpoints
  /\ \A i \in Fixes : row[i] # "none" => i \in 1..made
  /\ orphans \subseteq 1..made /\ sound \subseteq 1..made

TypeInv == TypeOK /\ WorkInv /\ MadeInv

LEMMA TypeInvInit == Init => TypeInv
<1> SUFFICES ASSUME Init PROVE TypeInv
  OBVIOUS
<1> USE HealingAssumption
<1>1. WorkInv  BY DEF Init, WorkInv, Idle, At, Verdicts
<1>2. MadeInv  BY DEF Init, MadeInv
<1>3. handler.at = "idle" /\ verifier.at = "idle"
  BY DEF Init, Idle, At
<1>4. 0 \in 0..MaxFixes /\ 0 \in 0..MaxFaults /\ 0 \in 0..MaxChanges
  OBVIOUS
<1>5. TypeOK
  BY <1>3, <1>4 DEF Init, TypeOK, Schemas
<1>6. QED
  BY <1>1, <1>2, <1>5 DEF TypeInv

LEMMA WorkInvNext ==
  ASSUME TypeInv, [Next]_vars
  PROVE  WorkInv'
<1> USE HealingAssumption DEF TypeInv, TypeOK, WorkInv, MadeInv, Idle, At, Fixes, Schemas, Verdicts,
        Fault, circuitVars, repoVars, histVars
<1>1. CASE UNCHANGED vars               BY <1>1 DEF vars
<1>2. ASSUME NEW e \in Endpoints, ProbeSees(e) PROVE WorkInv'
  BY <1>2 DEF ProbeSees
<1>3. ASSUME NEW e \in Endpoints, ApiChanges(e) PROVE WorkInv'
  BY <1>3 DEF ApiChanges
<1>4. CASE Declines                     BY <1>4 DEF Declines
<1>5. CASE CommitFails                  BY <1>5 DEF CommitFails
<1>6. CASE Commits                      BY <1>6 DEF Commits
<1>7. CASE SmokeCheckFails              BY <1>7 DEF SmokeCheckFails, Disable
<1>8. CASE Inserts                      BY <1>8 DEF Inserts
<1>9. CASE InsertFails                  BY <1>9 DEF InsertFails, Reverted
<1>10. CASE Absorbs                     BY <1>10 DEF Absorbs
<1>11. CASE CutOff                      BY <1>11 DEF CutOff
<1>12. ASSUME NEW i \in Fixes, Asks(i) PROVE WorkInv'
  BY <1>12 DEF Asks
<1>13. CASE FindsHealthy                BY <1>13 DEF FindsHealthy, Verdict
<1>14. CASE Reverts                     BY <1>14 DEF Reverts, Reverted, Verdict
<1>15. CASE RevertFails                 BY <1>15 DEF RevertFails, Disable, Verdict
<1>16. CASE Marks                       BY <1>16 DEF Marks
<1>17. CASE VerifierCutOff              BY <1>17 DEF VerifierCutOff
<1>18. CASE UserWorks                   BY <1>18 DEF UserWorks
<1>19. CASE Crash                       BY <1>19 DEF Crash
<1>20. CASE Restart                     BY <1>20 DEF Restart
<1>21. CASE UserEnables                 BY <1>21 DEF UserEnables
<1>22. QED
  BY <1>1, <1>2, <1>3, <1>4, <1>5, <1>6, <1>7, <1>8, <1>9, <1>10, <1>11, <1>12, <1>13, <1>14,
     <1>15, <1>16, <1>17, <1>18, <1>19, <1>20, <1>21 DEF Next, Handle, Verify

LEMMA MadeInvNext ==
  ASSUME TypeInv, [Next]_vars
  PROVE  MadeInv'
<1> USE HealingAssumption DEF TypeInv, TypeOK, WorkInv, MadeInv, Idle, At, Fixes, Schemas, Verdicts,
        Fault, circuitVars, repoVars, histVars
<1>1. CASE UNCHANGED vars               BY <1>1 DEF vars
<1>2. ASSUME NEW e \in Endpoints, ProbeSees(e) PROVE MadeInv'
  BY <1>2 DEF ProbeSees
<1>3. ASSUME NEW e \in Endpoints, ApiChanges(e) PROVE MadeInv'
  BY <1>3 DEF ApiChanges
<1>4. CASE Declines                     BY <1>4 DEF Declines
<1>5. CASE CommitFails                  BY <1>5 DEF CommitFails
<1>6. CASE Commits                      BY <1>6 DEF Commits
<1>7. CASE SmokeCheckFails              BY <1>7 DEF SmokeCheckFails, Disable
<1>8. CASE Inserts                      BY <1>8 DEF Inserts
<1>9. CASE InsertFails
  <2>1. UNCHANGED <<made, endpoint>>
    BY <1>9 DEF InsertFails, Reverted
  <2>2. handler.fix \in 1..made /\ UNCHANGED <<row, sound>>
    BY <1>9 DEF InsertFails
  <2>3. orphans' \in {orphans, orphans \cup {handler.fix}}
    BY <1>9 DEF InsertFails
  <2>4. QED
    BY <2>1, <2>2, <2>3
<1>10. CASE Absorbs                     BY <1>10 DEF Absorbs
<1>11. CASE CutOff                      BY <1>11 DEF CutOff
<1>12. ASSUME NEW i \in Fixes, Asks(i) PROVE MadeInv'
  BY <1>12 DEF Asks
<1>13. CASE FindsHealthy                BY <1>13 DEF FindsHealthy, Verdict
<1>14. CASE Reverts                     BY <1>14 DEF Reverts, Reverted, Verdict
<1>15. CASE RevertFails                 BY <1>15 DEF RevertFails, Disable, Verdict
<1>16. CASE Marks                       BY <1>16 DEF Marks
<1>17. CASE VerifierCutOff              BY <1>17 DEF VerifierCutOff
<1>18. CASE UserWorks                   BY <1>18 DEF UserWorks
<1>19. CASE Crash                       BY <1>19 DEF Crash
<1>20. CASE Restart                     BY <1>20 DEF Restart
<1>21. CASE UserEnables                 BY <1>21 DEF UserEnables
<1>22. QED
  BY <1>1, <1>2, <1>3, <1>4, <1>5, <1>6, <1>7, <1>8, <1>9, <1>10, <1>11, <1>12, <1>13, <1>14,
     <1>15, <1>16, <1>17, <1>18, <1>19, <1>20, <1>21 DEF Next, Handle, Verify

LEMMA TypeOKNext ==
  ASSUME TypeInv, [Next]_vars
  PROVE  TypeOK'
<1>a. /\ handler'.at \in {"idle", "trying", "inserting", "absorbing"}
      /\ verifier'.at \in {"idle", "asking", "marking"}
  BY WorkInvNext DEF WorkInv
<1>b. /\ handler.at # "idle" => handler.e \in Endpoints
      /\ handler.at = "trying" => made < MaxFixes
      /\ handler.at \in {"inserting", "absorbing"} => handler.fix \in 1..made
      /\ verifier.at # "idle" => verifier.fix \in 1..made /\ verifier.verdict \in Verdicts
  BY DEF TypeInv, WorkInv
<1>c. TypeOK /\ 1..made \subseteq Fixes /\ \A i \in 1..made : endpoint[i] \in Endpoints
  BY HealingAssumption DEF TypeInv, TypeOK, MadeInv, Fixes
<1>d. \A fault \in BOOLEAN : Fault(fault) => faults' \in 0..MaxFaults
  BY HealingAssumption, <1>c DEF Fault, TypeOK
<1> USE <1>a, <1>b, <1>c, HealingAssumption DEF TypeOK, Schemas, Verdicts, circuitVars, repoVars,
        histVars
<1>1. CASE UNCHANGED vars               BY <1>1 DEF vars
<1>2. ASSUME NEW e \in Endpoints, ProbeSees(e) PROVE TypeOK'
  BY <1>2 DEF ProbeSees
<1>3. ASSUME NEW e \in Endpoints, ApiChanges(e) PROVE TypeOK'
  BY <1>3 DEF ApiChanges
<1>4. CASE Declines                     BY <1>4, <1>d DEF Declines
<1>5. CASE CommitFails                  BY <1>5, <1>d DEF CommitFails
<1>6. CASE Commits
  <2>1. made + 1 \in Fixes
    BY <1>6 DEF Commits, Fixes
  <2>2. QED
    BY <1>6, <2>1 DEF Commits, Fixes
<1>7. CASE SmokeCheckFails
  <2>1. made + 1 \in Fixes
    BY <1>7 DEF SmokeCheckFails, Fixes
  <2>2. faults' \in 0..MaxFaults
    BY <1>7, <1>d DEF SmokeCheckFails
  <2>3. /\ made' = made + 1 /\ handler.e \in Endpoints
        /\ endpoint' \in [Fixes -> Endpoints \cup {None}]
    BY <1>7, <2>1 DEF SmokeCheckFails
  <2>4. disk' \subseteq Endpoints /\ live' \subseteq live \cup {made'}
    BY <1>7, <2>3 DEF SmokeCheckFails
  <2>5. up' \in BOOLEAN /\ enabled' \in BOOLEAN /\ saved' \in BOOLEAN /\ alarmed' \in BOOLEAN
    BY <1>7 DEF SmokeCheckFails, Disable
  <2>6. made' \in 0..MaxFixes /\ live' \subseteq 1..made'
    BY <2>1, <2>3, <2>4 DEF Fixes
  <2>7. QED
    BY <1>7, <2>2, <2>3, <2>4, <2>5, <2>6 DEF SmokeCheckFails
<1>8. CASE Inserts                      BY <1>8 DEF Inserts
<1>9. CASE InsertFails
  <2>1. /\ disk' \subseteq Endpoints /\ live' \subseteq live /\ UNCHANGED <<staged, made, endpoint>>
    BY <1>9 DEF InsertFails, Reverted
  <2>2. handler.fix \in Fixes /\ orphans' \in {orphans, orphans \cup {handler.fix}}
    BY <1>9 DEF InsertFails
  <2>3. faults' \in 0..MaxFaults
    BY <1>9, <1>d DEF InsertFails
  <2>4. QED
    BY <1>9, <2>1, <2>2, <2>3 DEF InsertFails
<1>10. CASE Absorbs                     BY <1>10 DEF Absorbs
<1>11. CASE CutOff                      BY <1>11, <1>d DEF CutOff
<1>12. ASSUME NEW i \in Fixes, Asks(i) PROVE TypeOK'
  BY <1>12 DEF Asks
<1>13. CASE FindsHealthy                BY <1>13 DEF FindsHealthy, Verdict
<1>14. CASE Reverts
  <2>1. faults' \in 0..MaxFaults
    BY <1>14, <1>d DEF Reverts, Healthy
  <2>2. QED
    BY <1>14, <2>1 DEF Reverts, Reverted
<1>15. CASE RevertFails
  <2>1. faults' \in 0..MaxFaults
    BY <1>15, <1>d DEF RevertFails, Healthy, RevertApplies
  <2>2. QED
    BY <1>15, <2>1 DEF RevertFails, Disable
<1>16. CASE Marks                       BY <1>16 DEF Marks
<1>17. CASE VerifierCutOff              BY <1>17, <1>d DEF VerifierCutOff
<1>18. CASE UserWorks
  <2>1. faults' \in 0..MaxFaults
    BY <1>18, <1>d DEF UserWorks
  <2>2. disk' \subseteq Endpoints /\ staged' \in BOOLEAN
    <3>1. {endpoint[i] : i \in live} \subseteq Endpoints
      OBVIOUS
    <3>2. /\ disk' = disk \/ disk' = {endpoint[i] : i \in live}
          /\ staged' = TRUE \/ staged' = FALSE
      BY <1>18 DEF UserWorks
    <3>3. QED
      BY <3>1, <3>2
  <2>3. QED
    BY <1>18, <2>1, <2>2 DEF UserWorks
<1>19. CASE Crash
  <2>1. faults' \in 0..MaxFaults
    BY <1>19, <1>d DEF Crash
  <2>2. orphans' \subseteq Fixes
    BY <1>19 DEF Crash
  <2>3. baseline' \in [Endpoints -> Schemas \cup {None}]
    BY <1>19 DEF Crash
  <2>4. QED
    BY <1>19, <2>1, <2>2, <2>3 DEF Crash
<1>20. CASE Restart                     BY <1>20 DEF Restart
<1>21. CASE UserEnables                 BY <1>21 DEF UserEnables
<1>22. QED
  BY <1>1, <1>2, <1>3, <1>4, <1>5, <1>6, <1>7, <1>8, <1>9, <1>10, <1>11, <1>12, <1>13, <1>14,
     <1>15, <1>16, <1>17, <1>18, <1>19, <1>20, <1>21 DEF Next, Handle, Verify

LEMMA TypeInvHolds == Spec => []TypeInv
<1>1. TypeInv /\ [Next]_vars => TypeInv'
  BY TypeOKNext, WorkInvNext, MadeInvNext DEF TypeInv
<1>2. QED
  BY <1>1, TypeInvInit, PTL DEF Spec

\* The state stays within its types.
THEOREM Typing == Spec => []TypeOK
<1>1. TypeInv => TypeOK
  BY DEF TypeInv
<1>2. QED
  BY <1>1, TypeInvHolds, PTL

-----------------------------------------------------------------------------
(* No unverified fix without a watch *)

\* A revert that is about to be written down has taken the fix out.
RevertedIsGone ==
  /\ verifier.at = "marking" =>
       /\ verifier.verdict \in {"confirmed", "reverted", "revert_failed"}
       /\ verifier.verdict = "reverted" => verifier.fix \notin live

LEMMA RevertedIsGoneNext ==
  ASSUME TypeInv, RevertedIsGone, [Next]_vars
  PROVE  RevertedIsGone'
<1> USE DEF TypeInv, TypeOK, WorkInv, RevertedIsGone, Idle, At, repoVars, histVars
<1>1. CASE UNCHANGED vars               BY <1>1 DEF vars
<1>2. ASSUME NEW e \in Endpoints, ProbeSees(e) PROVE RevertedIsGone'
  BY <1>2 DEF ProbeSees
<1>3. ASSUME NEW e \in Endpoints, ApiChanges(e) PROVE RevertedIsGone'
  BY <1>3 DEF ApiChanges
<1>4. CASE Declines                     BY <1>4 DEF Declines
<1>5. CASE CommitFails                  BY <1>5 DEF CommitFails
<1>6. CASE Commits                      BY <1>6 DEF Commits
<1>7. CASE SmokeCheckFails
  <2>1. live' \subseteq live \cup {made + 1} /\ UNCHANGED verifier
    BY <1>7 DEF SmokeCheckFails
  <2>2. QED
    BY <2>1
<1>8. CASE Inserts                      BY <1>8 DEF Inserts
<1>9. CASE InsertFails                  BY <1>9 DEF InsertFails, Reverted
<1>10. CASE Absorbs                     BY <1>10 DEF Absorbs
<1>11. CASE CutOff                      BY <1>11 DEF CutOff
<1>12. ASSUME NEW i \in Fixes, Asks(i) PROVE RevertedIsGone'
  BY <1>12 DEF Asks
<1>13. CASE FindsHealthy                BY <1>13 DEF FindsHealthy, Verdict
<1>14. CASE Reverts
  <2>1. verifier.fix \in Of(endpoint[verifier.fix]) \/ verifier.fix \notin live
    BY DEF Of
  <2>2. QED
    BY <1>14, <2>1 DEF Reverts, Reverted, Verdict
<1>15. CASE RevertFails                 BY <1>15 DEF RevertFails, Disable, Verdict
<1>16. CASE Marks                       BY <1>16 DEF Marks
<1>17. CASE VerifierCutOff              BY <1>17 DEF VerifierCutOff
<1>18. CASE UserWorks                   BY <1>18 DEF UserWorks
<1>19. CASE Crash                       BY <1>19 DEF Crash
<1>20. CASE Restart                     BY <1>20 DEF Restart
<1>21. CASE UserEnables                 BY <1>21 DEF UserEnables
<1>22. QED
  BY <1>1, <1>2, <1>3, <1>4, <1>5, <1>6, <1>7, <1>8, <1>9, <1>10, <1>11, <1>12, <1>13, <1>14,
     <1>15, <1>16, <1>17, <1>18, <1>19, <1>20, <1>21 DEF Next, Handle, Verify

LEMMA WatchedNext ==
  ASSUME TypeInv, RevertedIsGone, EveryFixIsWatched, [Next]_vars
  PROVE  EveryFixIsWatched'
<1> USE DEF TypeInv, TypeOK, WorkInv, MadeInv, RevertedIsGone, EveryFixIsWatched, Fixes, Idle, At,
        repoVars, histVars
<1>1. CASE UNCHANGED vars               BY <1>1 DEF vars
<1>2. ASSUME NEW e \in Endpoints, ProbeSees(e) PROVE EveryFixIsWatched'
  BY <1>2 DEF ProbeSees
<1>3. ASSUME NEW e \in Endpoints, ApiChanges(e) PROVE EveryFixIsWatched'
  BY <1>3 DEF ApiChanges
<1>4. CASE Declines                     BY <1>4 DEF Declines
<1>5. CASE CommitFails                  BY <1>5 DEF CommitFails
<1>6. CASE Commits
  <2>1. /\ handler.at = "trying" /\ live' = live \cup {made + 1}
        /\ endpoint' = [endpoint EXCEPT ![made + 1] = handler.e]
        /\ handler.e \in T2 => handler'.at = "inserting" /\ handler'.fix = made + 1
        /\ UNCHANGED <<row, orphans>>
    BY <1>6 DEF Commits
  <2>2. \A j \in live : endpoint'[j] = endpoint[j]
    BY <2>1
  <2>3. made + 1 \in Fixes => endpoint'[made + 1] = handler.e
    BY <2>1
  <2>4. made + 1 \in Fixes
    BY <2>1, HealingAssumption
  <2>5. QED
    BY <2>1, <2>2, <2>3, <2>4
<1>7. CASE SmokeCheckFails
  <2>1. /\ handler.at = "trying" /\ handler.e \notin T2 /\ made + 1 \in Fixes
        /\ live' \subseteq live \cup {made + 1}
        /\ endpoint' = [endpoint EXCEPT ![made + 1] = handler.e]
        /\ UNCHANGED <<row, orphans>>
    BY <1>7, HealingAssumption DEF SmokeCheckFails
  <2>2. \A j \in live : endpoint'[j] = endpoint[j]
    BY <2>1
  <2>3. endpoint'[made + 1] = handler.e
    BY <2>1
  <2>4. QED
    BY <2>1, <2>2, <2>3
<1>8. CASE Inserts                      BY <1>8 DEF Inserts
<1>9. CASE InsertFails
  <2>1. /\ live' \subseteq live /\ orphans \subseteq orphans' /\ UNCHANGED <<endpoint, row>>
        /\ handler.at = "inserting"
    BY <1>9 DEF InsertFails, Reverted
  <2>2. handler.fix \notin live' \ orphans'
    BY <1>9 DEF InsertFails, Reverted, Of
  <2>3. QED
    BY <2>1, <2>2
<1>10. CASE Absorbs                     BY <1>10 DEF Absorbs
<1>11. CASE CutOff                      BY <1>11 DEF CutOff
<1>12. ASSUME NEW i \in Fixes, Asks(i) PROVE EveryFixIsWatched'
  BY <1>12 DEF Asks
<1>13. CASE FindsHealthy                BY <1>13 DEF FindsHealthy, Verdict
<1>14. CASE Reverts                     BY <1>14 DEF Reverts, Reverted, Verdict
<1>15. CASE RevertFails                 BY <1>15 DEF RevertFails, Disable, Verdict
<1>16. CASE Marks                       BY <1>16 DEF Marks
<1>17. CASE VerifierCutOff              BY <1>17 DEF VerifierCutOff
<1>18. CASE UserWorks                   BY <1>18 DEF UserWorks
<1>19. CASE Crash                       BY <1>19 DEF Crash
<1>20. CASE Restart                     BY <1>20 DEF Restart
<1>21. CASE UserEnables                 BY <1>21 DEF UserEnables
<1>22. QED
  BY <1>1, <1>2, <1>3, <1>4, <1>5, <1>6, <1>7, <1>8, <1>9, <1>10, <1>11, <1>12, <1>13, <1>14,
     <1>15, <1>16, <1>17, <1>18, <1>19, <1>20, <1>21 DEF Next, Handle, Verify

\* Every commit of a T2 fix in HEAD is pending, decided, or lost with its handler.
THEOREM FixesAreWatched == Spec => []EveryFixIsWatched
<1>1. Init => RevertedIsGone /\ EveryFixIsWatched
  BY DEF Init, RevertedIsGone, EveryFixIsWatched, Idle, At
<1>2. QED
  BY <1>1, RevertedIsGoneNext, WatchedNext, TypeInvHolds, PTL DEF Spec

-----------------------------------------------------------------------------
(* The circuit *)

\* An alarm leaves the healer disabled, here and now.
AlarmDisables == alarmed => ~enabled

LEMMA AlarmDisablesNext == AlarmDisables /\ [Next]_vars => AlarmDisables'
<1> SUFFICES ASSUME AlarmDisables, [Next]_vars PROVE AlarmDisables'
  OBVIOUS
<1> USE DEF AlarmDisables, circuitVars, histVars
<1>1. CASE UNCHANGED vars               BY <1>1 DEF vars
<1>2. ASSUME NEW e \in Endpoints, ProbeSees(e) PROVE AlarmDisables'
  BY <1>2 DEF ProbeSees
<1>3. ASSUME NEW e \in Endpoints, ApiChanges(e) PROVE AlarmDisables'
  BY <1>3 DEF ApiChanges
<1>4. CASE Declines                     BY <1>4 DEF Declines
<1>5. CASE CommitFails                  BY <1>5 DEF CommitFails
<1>6. CASE Commits                      BY <1>6 DEF Commits
<1>7. CASE SmokeCheckFails              BY <1>7 DEF SmokeCheckFails, Disable
<1>8. CASE Inserts                      BY <1>8 DEF Inserts
<1>9. CASE InsertFails                  BY <1>9 DEF InsertFails, Reverted
<1>10. CASE Absorbs                     BY <1>10 DEF Absorbs
<1>11. CASE CutOff                      BY <1>11 DEF CutOff
<1>12. ASSUME NEW i \in Fixes, Asks(i) PROVE AlarmDisables'
  BY <1>12 DEF Asks
<1>13. CASE FindsHealthy                BY <1>13 DEF FindsHealthy, Verdict
<1>14. CASE Reverts                     BY <1>14 DEF Reverts, Reverted, Verdict
<1>15. CASE RevertFails                 BY <1>15 DEF RevertFails, Disable, Verdict
<1>16. CASE Marks                       BY <1>16 DEF Marks
<1>17. CASE VerifierCutOff              BY <1>17 DEF VerifierCutOff
<1>18. CASE UserWorks                   BY <1>18 DEF UserWorks
<1>19. CASE Crash                       BY <1>19 DEF Crash
<1>20. CASE Restart                     BY <1>20 DEF Restart
<1>21. CASE UserEnables                 BY <1>21 DEF UserEnables
<1>22. QED
  BY <1>1, <1>2, <1>3, <1>4, <1>5, <1>6, <1>7, <1>8, <1>9, <1>10, <1>11, <1>12, <1>13, <1>14,
     <1>15, <1>16, <1>17, <1>18, <1>19, <1>20, <1>21 DEF Next, Handle, Verify

\* A healer that was disabled over a failed revert commits nothing, by a handler already
\* at work either.  The revert that nobody looks at, in InsertFails, does not disable it.
THEOREM DisabledHealerStops == Spec => NoFixOnceDisabled
<1>1. AlarmDisables /\ [Next]_vars => [made' # made => ~alarmed]_vars
  <2> SUFFICES ASSUME AlarmDisables, [Next]_vars, made' # made PROVE ~alarmed
    OBVIOUS
  <2>1. Commits \/ SmokeCheckFails
    BY DEF Next, Handle, Verify, ProbeSees, ApiChanges, Declines, CommitFails, Inserts, InsertFails,
       Absorbs, CutOff, Asks, FindsHealthy, Reverts, RevertFails, Marks, VerifierCutOff, UserWorks,
       Crash, Restart, UserEnables, Reverted, Disable, Verdict, vars, repoVars
  <2>2. QED
    BY <2>1 DEF Commits, SmokeCheckFails, MayApply, AlarmDisables
<1>2. Init => AlarmDisables
  BY DEF Init, AlarmDisables
<1>3. QED
  BY <1>1, <1>2, AlarmDisablesNext, PTL DEF Spec, NoFixOnceDisabled

-----------------------------------------------------------------------------
(* The baseline *)

\* Whoever works on a fix has a baseline, and one that was applied to the end has
\* made the response the baseline.
BaselineInv ==
  /\ handler.at # "idle" => baseline[handler.e] # None
  /\ \A i \in sound : Healthy(endpoint[i])

LEMMA BaselineInvNext ==
  ASSUME TypeInv, BaselineInv, [Next]_vars
  PROVE  BaselineInv'
<1> USE HealingAssumption DEF TypeInv, TypeOK, WorkInv, MadeInv, BaselineInv, Healthy, Idle, At,
        Fixes, Schemas, repoVars, histVars
<1>1. CASE UNCHANGED vars               BY <1>1 DEF vars
<1>2. ASSUME NEW e \in Endpoints, ProbeSees(e) PROVE BaselineInv'
  BY <1>2 DEF ProbeSees
<1>3. ASSUME NEW e \in Endpoints, ApiChanges(e) PROVE BaselineInv'
  BY <1>3 DEF ApiChanges
<1>4. CASE Declines                     BY <1>4 DEF Declines
<1>5. CASE CommitFails                  BY <1>5 DEF CommitFails
<1>6. CASE Commits                      BY <1>6 DEF Commits
<1>7. CASE SmokeCheckFails              BY <1>7 DEF SmokeCheckFails, Disable
<1>8. CASE Inserts                      BY <1>8 DEF Inserts
<1>9. CASE InsertFails                  BY <1>9 DEF InsertFails, Reverted
<1>10. CASE Absorbs                     BY <1>10 DEF Absorbs
<1>11. CASE CutOff                      BY <1>11 DEF CutOff
<1>12. ASSUME NEW i \in Fixes, Asks(i) PROVE BaselineInv'
  BY <1>12 DEF Asks
<1>13. CASE FindsHealthy                BY <1>13 DEF FindsHealthy, Verdict
<1>14. CASE Reverts                     BY <1>14 DEF Reverts, Reverted, Verdict
<1>15. CASE RevertFails                 BY <1>15 DEF RevertFails, Disable, Verdict
<1>16. CASE Marks                       BY <1>16 DEF Marks
<1>17. CASE VerifierCutOff              BY <1>17 DEF VerifierCutOff
<1>18. CASE UserWorks                   BY <1>18 DEF UserWorks
<1>19. CASE Crash                       BY <1>19 DEF Crash
<1>20. CASE Restart                     BY <1>20 DEF Restart
<1>21. CASE UserEnables                 BY <1>21 DEF UserEnables
<1>22. QED
  BY <1>1, <1>2, <1>3, <1>4, <1>5, <1>6, <1>7, <1>8, <1>9, <1>10, <1>11, <1>12, <1>13, <1>14,
     <1>15, <1>16, <1>17, <1>18, <1>19, <1>20, <1>21 DEF Next, Handle, Verify

\* The verifier leaves a fix alone whose endpoint goes on to answer as it did.
THEOREM GoodFixesStay == Spec => GoodFixSurvives
<1>1. TypeInv /\ BaselineInv /\ [Next]_vars
        => [\A i \in sound \cap live : i \notin live' => faults' > faults]_vars
  <2> SUFFICES ASSUME TypeInv, BaselineInv, [Next]_vars, NEW i \in sound \cap live, i \notin live'
               PROVE  faults' > faults
    OBVIOUS
  <2>1. InsertFails \/ Reverts
    BY DEF Next, Handle, Verify, ProbeSees, ApiChanges, Declines, CommitFails, Commits,
       SmokeCheckFails, Inserts, Absorbs, CutOff, Asks, FindsHealthy, RevertFails, Marks,
       VerifierCutOff, UserWorks, Crash, Restart, UserEnables, Disable, Verdict, vars, repoVars
  <2>2. CASE InsertFails
    BY <2>2 DEF InsertFails, Fault, TypeInv, TypeOK
  <2>3. CASE Reverts
    <3>1. endpoint[i] = endpoint[verifier.fix] /\ verifier.e = endpoint[verifier.fix]
      BY <2>3 DEF Reverts, Reverted, Of, TypeInv, WorkInv
    <3>2. Healthy(verifier.e)
      BY <3>1 DEF BaselineInv
    <3>3. QED
      BY <2>3, <3>2 DEF Reverts, Fault, TypeInv, TypeOK
  <2>4. QED  BY <2>1, <2>2, <2>3
<1>2. Init => BaselineInv
  BY DEF Init, BaselineInv, Idle, At
<1>3. QED
  BY <1>1, <1>2, BaselineInvNext, TypeInvHolds, PTL DEF Spec, GoodFixSurvives
=============================================================================

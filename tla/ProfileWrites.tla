---------------------------- MODULE ProfileWrites ----------------------------
(***************************************************************************)
(* The verified writes to one section of the live Naukri profile, of       *)
(* naukri_server/tools/profile_{sections,snapshot,restore,update}.py:      *)
(* read the section, save a snapshot of it, POST, read again and compare.  *)
(* A restore and an update of several fields are runs of such writes, one  *)
(* after the other, that stop at the first one that does not land.         *)
(*                                                                         *)
(* Nothing is locked: calls of several clients and the owner of the        *)
(* profile, in Naukri's own pages, change the section between any two of   *)
(* these steps.                                                            *)
(*                                                                         *)
(* Abstractions.  A row is an id and a value; the fields of a scalar block *)
(* are its rows.  Rows carry an id under which both reads know them, as    *)
(* every section has that can be restored.  A run takes its rows in any    *)
(* order (the code sorts them).  Calls that only preview, which send       *)
(* nothing, the browser's part of an update and the caches that a landed   *)
(* write clears are left out.                                              *)
(***************************************************************************)
EXTENDS Integers, FiniteSets

CONSTANTS
  Calls, Rows, Values, None,
  OldRows,        \* ids that were given to rows before
  MaxHitches      \* bound: changes the owner makes and POSTs sent twice

ASSUME ProfileAssumption ==
  /\ None \notin Rows \cup Values \cup Calls /\ OldRows \subseteq Rows /\ MaxHitches \in Nat

Kinds == {"list", "row", "block"}
Sections == [Rows -> Values \cup {None}]
Units == [row : Rows \cup {None}, value : Values]

Unread == [r \in Rows |-> None]

Present(section) == {r \in Rows : section[r] # None}

VARIABLES
  kind,           \* how the section is sent, SectionSpec.kind
  live,           \* the section as Naukri has it
  spent,          \* ids that Naukri has given to rows
  hitches,
  files,          \* the snapshots on disk
  pc, plan, unit, \* of each call: its next step, the writes to come, the one at work
  before,         \* the read that write works from
  landed,         \* one of its writes has landed
  skipped,        \* a restore has rows it cannot put back
  verdict,        \* what it told its caller
  aim             \* history: the sections its success may leave, as long as nothing
                  \* but its own writes, each sent once, has come in between

callVars == <<pc, plan, unit, before, landed, skipped, verdict>>
vars == <<kind, live, spent, hitches, files, callVars, aim>>

TypeOK ==
  /\ kind \in Kinds /\ live \in Sections /\ files \subseteq Sections
  /\ spent \subseteq Rows /\ hitches \in 0..MaxHitches
  /\ pc \in [Calls -> {"idle", "read", "send", "check", "done"}]
  /\ plan \in [Calls -> SUBSET Units] /\ aim \in [Calls -> SUBSET Sections]
  /\ unit \in [Calls -> Units \cup {None}]
  /\ before \in [Calls -> Sections]
  /\ landed \in [Calls -> BOOLEAN] /\ skipped \in [Calls -> BOOLEAN]
  /\ verdict \in [Calls -> {"none", "updated", "partial", "error"}]

Init ==
  /\ kind \in Kinds /\ live \in Sections /\ files \in {{s} : s \in Sections}
  /\ \A s \in files \cup {live} :
       Present(s) \subseteq OldRows /\ (kind = "block" => Present(s) = OldRows)
  /\ spent = OldRows
  /\ hitches = 0
  /\ pc = [c \in Calls |-> "idle"]
  /\ plan = [c \in Calls |-> {}] /\ aim = [c \in Calls |-> {}]
  /\ unit = [c \in Calls |-> None]
  /\ before = [c \in Calls |-> Unread]
  /\ landed = [c \in Calls |-> FALSE] /\ skipped = [c \in Calls |-> FALSE]
  /\ verdict = [c \in Calls |-> "none"]

------------------------------------------------------------------------------
(* Naukri and the owner *)

\* Naukri takes a body in.  Rows it holds get the values sent; a row sent without an
\* id (None), or with one that is gone, becomes a new row under a new id; of a whole
\* list, the rows that were not sent are deleted.
Stores(body) ==
  LET sent == {i \in Rows \cup {None} : body[i] # None}
      held == sent \cap Present(live)
      new == sent \ held
  IN \E id \in [new -> Rows \ spent] :
       /\ \A i, j \in new : id[i] = id[j] => i = j
       /\ LET given == {id[i] : i \in new}
          IN /\ live' = [r \in Rows |->
                  IF r \in given THEN body[CHOOSE i \in new : id[i] = r]
                  ELSE IF r \in held THEN body[r]
                  ELSE IF kind = "list" THEN None ELSE live[r]]
             /\ spent' = spent \cup given

\* Where the section changes under a call, what it will leave is not said any more.
Disturbs(by) ==
  aim' = [c \in Calls |->
    IF pc'[c] # "done" /\ (c = by \/ live' = live) THEN aim[c] ELSE {}]

\* The owner changes a value, deletes a row or adds one in Naukri's own pages.
OwnerEdits ==
  /\ hitches < MaxHitches
  /\ \E r \in Rows, v \in Values \cup {None} :
       /\ live[r] # v
       /\ live[r] = None => r \notin spent
       /\ kind = "block" => v # None /\ r \in OldRows
       /\ live' = [live EXCEPT ![r] = v]
       /\ spent' = spent \cup {r}
  /\ hitches' = hitches + 1
  /\ UNCHANGED <<kind, files, callVars>>
  /\ Disturbs(None)

------------------------------------------------------------------------------
(* Calls *)

\* What success means: the rows written to hold their values, a new row is one row,
\* and all others are as they were.  The twin of a row that is to be made could not be
\* told from it.
Updated(writes) ==
  LET named == {u.row : u \in writes}
      Made(new, value) ==
        \E r \in Rows : live[r] = None /\ new = [live EXCEPT ![r] = value]
  IN IF None \in named
     THEN {s \in Sections : \E u \in writes :
             Made(s, u.value) /\ \A r \in Rows : live[r] # u.value}
     ELSE {s \in Sections : \A r \in Rows :
             IF r \in named THEN [row |-> r, value |-> s[r]] \in writes
             ELSE s[r] = live[r]}

\* A call sets out to make the writes of a plan, one of them first.
Begins(c, writes, rest, aims) ==
  /\ pc[c] = "idle" /\ writes # {}
  /\ \E u \in writes :
       /\ unit' = [unit EXCEPT ![c] = u]
       /\ plan' = [plan EXCEPT ![c] = writes \ {u}]
  /\ pc' = [pc EXCEPT ![c] = "read"]
  /\ skipped' = [skipped EXCEPT ![c] = rest]
  /\ aim' = [aim EXCEPT ![c] = aims]
  /\ UNCHANGED <<kind, live, spent, hitches, files, before, landed, verdict>>

\* naukri_update_profile_section: one row by its id, or a new row without one.
UpdateSection(c) ==
  \E u \in Units :
    /\ u.row \in spent \/ (u.row = None /\ kind # "block")
    /\ Begins(c, {u}, FALSE, Updated({u}))

\* naukri_update_profile: a write for each of the fields' sections.
UpdateProfile(c) ==
  /\ kind = "block"
  /\ \E fields \in SUBSET OldRows, v \in Values :
       /\ Cardinality(fields) > 1
       /\ LET writes == {[row |-> r, value |-> v] : r \in fields}
          IN Begins(c, writes, FALSE, Updated(writes))

\* The rows of a snapshot that a write can put back: those on both sides that differ.
Planned(snapshot) ==
  {[row |-> r, value |-> snapshot[r]] :
     r \in {r \in Present(snapshot) \cap Present(live) : snapshot[r] # live[r]}}

\* Mutant of Skips: a restore counts only the rows it planned.
Skips_Forgotten(snapshot) == FALSE

\* Rows only one side has cannot be put back: a deleted row would get a new id, and
\* none is ever deleted.
Skips(snapshot) == Present(snapshot) # Present(live)

\* naukri_restore_profile_section: a scalar field goes back in one write; for rows the
\* plan is made from a read of its own.  With nothing to put back nothing is done.
Restore(c) ==
  \E snapshot \in files :
    IF kind = "block"
    THEN \E r \in OldRows :
           Begins(c, {[row |-> r, value |-> snapshot[r]]}, FALSE,
                  {[live EXCEPT ![r] = snapshot[r]]})
    ELSE Begins(c, Planned(snapshot), Skips(snapshot), {snapshot})

\* The call is over and what it knew is gone.
Returns(c, answer) ==
  /\ pc' = [pc EXCEPT ![c] = "done"]
  /\ verdict' = [verdict EXCEPT ![c] = answer]
  /\ plan' = [plan EXCEPT ![c] = {}]
  /\ unit' = [unit EXCEPT ![c] = None]
  /\ before' = [before EXCEPT ![c] = Unread]
  /\ landed' = [landed EXCEPT ![c] = FALSE] /\ skipped' = [skipped EXCEPT ![c] = FALSE]

\* A write ends: "landed" lets the run go on to the next, anything else stops it.
Ends(c, outcome) ==
  IF outcome = "landed" /\ plan[c] # {}
  THEN /\ \E u \in plan[c] :
            /\ unit' = [unit EXCEPT ![c] = u]
            /\ plan' = [plan EXCEPT ![c] = @ \ {u}]
       /\ pc' = [pc EXCEPT ![c] = "read"]
       /\ landed' = [landed EXCEPT ![c] = TRUE]
       /\ UNCHANGED <<before, skipped, verdict>>
  ELSE Returns(c, IF outcome = "landed" /\ ~skipped[c] THEN "updated"
                  ELSE IF landed[c] \/ outcome = "landed" THEN "partial"
                  ELSE "error")

\* Mutant of SaveSnapshot: a failing snapshot does not hold up the write.
SaveSnapshot_Skipped(section) == files' = files

SaveSnapshot(section) == files' = files \cup {section}

\* Unknown to a whole list, the id of an update is refused before anything is sent.
NotFound(c, section) ==
  kind = "list" /\ unit[c].row # None /\ unit[c].row \notin Present(section)

\* The read is kept, whole, in a snapshot file of its own before anything is sent.
Read(c) ==
  /\ pc[c] = "read"
  /\ IF NotFound(c, live)
     THEN Ends(c, "not_sent") /\ UNCHANGED files
     ELSE /\ pc' = [pc EXCEPT ![c] = "send"]
          /\ before' = [before EXCEPT ![c] = live]
          /\ SaveSnapshot(live)
          /\ UNCHANGED <<plan, unit, landed, skipped, verdict>>
  /\ UNCHANGED <<kind, live, spent, hitches>>
  /\ Disturbs(c)

\* Mutant of Body: the row alone, also of a whole list.
Body_OneRow(c) ==
  [i \in Rows \cup {None} |-> IF i = unit[c].row THEN unit[c].value ELSE None]

\* The write's row, with the others of the read around it when the section is sent
\* as a whole list.
Body(c) ==
  [i \in Rows \cup {None} |->
     IF i = unit[c].row THEN unit[c].value
     ELSE IF kind = "list" /\ i # None THEN before[c][i] ELSE None]

\* Naukri may also answer that all is well and ignore the write.
Send(c) ==
  /\ pc[c] = "send"
  /\ Stores(Body(c)) \/ UNCHANGED <<live, spent>>
  /\ pc' = [pc EXCEPT ![c] = "check"]
  /\ Disturbs(c)
  /\ UNCHANGED <<kind, hitches, files, plan, unit, before, landed, skipped, verdict>>

\* The answer is lost and the client sends the same body again.
SendAgain(c) ==
  /\ pc[c] = "send" /\ hitches < MaxHitches
  /\ Stores(Body(c))
  /\ hitches' = hitches + 1
  /\ UNCHANGED <<kind, files, callVars>>
  /\ Disturbs(None)

\* A read, the snapshot or the POST raises: whether Naukri has the write is unknown.
Raises(c) ==
  /\ pc[c] \in {"read", "send", "check"}
  /\ \/ UNCHANGED <<live, spent>>
     \/ pc[c] = "send" /\ Stores(Body(c))
  /\ Ends(c, "unknown")
  /\ Disturbs(c)
  /\ UNCHANGED <<kind, hitches, files>>

\* The call is cancelled where it waits.
Cut(c) ==
  /\ pc[c] \in {"read", "send", "check"}
  /\ \/ UNCHANGED <<live, spent>>
     \/ pc[c] = "send" /\ Stores(Body(c))
  /\ Returns(c, "error")
  /\ Disturbs(c)
  /\ UNCHANGED <<kind, hitches, files>>

------------------------------------------------------------------------------
(* verify_write() and rows_lost() *)

\* What was to be written is there: under its id, or for a new row under any.
Verified(u, after) ==
  IF u.row # None THEN after[u.row] = u.value ELSE \E r \in Rows : after[r] = u.value

RowsLost(old, after) == Present(old) \ Present(after)

\* A change the write does not account for.  In a list, one to the value written is
\* put down to it whatever row it is on.  The first row of a section is never
\* accounted for: the empty list before it counts as removed.
Collateral(u, old, after) ==
  \/ \E r \in Present(after) \ Present(old) : u.row # None \/ after[r] # u.value
  \/ \E r \in Present(after) \cap Present(old) :
       after[r] # old[r] /\ (after[r] # u.value \/ (kind = "block" /\ r # u.row))
  \/ Present(old) = {} /\ Cardinality(Present(after)) = 1

\* classify_section_write()
Outcome(u, old, after) ==
  IF ~Verified(u, after) THEN "unknown"
  ELSE IF RowsLost(old, after) # {} \/ Collateral(u, old, after)
       THEN "landed_with_collateral" ELSE "landed"

Check(c) ==
  /\ pc[c] = "check"
  /\ Ends(c, Outcome(unit[c], before[c], live))
  /\ UNCHANGED <<kind, live, spent, hitches, files>>
  /\ Disturbs(c)

------------------------------------------------------------------------------
Call(c) ==
  \/ UpdateSection(c) \/ UpdateProfile(c) \/ Restore(c)
  \/ Read(c) \/ Send(c) \/ SendAgain(c) \/ Check(c)
  \/ Raises(c) \/ Cut(c)

Next == OwnerEdits \/ \E c \in Calls : Call(c)

Spec == Init /\ [][Next]_vars

------------------------------------------------------------------------------
(* Properties *)

\* "It never reports a success it did not measure": a call that says "updated" has
\* made all of its writes and changed nothing else, and after a restore the section is
\* that of the snapshot; unless it was changed meanwhile, or a row to be made had a
\* twin, which is then taken for it.
UpdatedIsExact ==
  [][\A c \in Calls : verdict'[c] = "updated" /\ pc[c] = "check" /\ aim[c] # {} =>
       live \in aim[c]]_vars

Post(c) == Send(c) \/ SendAgain(c) \/ Raises(c) \/ Cut(c)

\* "The other rows survive": a POST changes or deletes rows other than its own only
\* when the section has changed since the read it was built from.
OthersSurvive ==
  [][\A c \in Calls : live' # live /\ live = before[c] /\ Post(c) =>
       \A r \in Present(live) \ {unit[c].row} : live'[r] = live[r]]_vars

\* There is a way back: one snapshot on disk has all that a POST overwrites or
\* deletes, except for what came after the read that the POST was built from.
WayBack ==
  [][\A c \in Calls : live' # live /\ Post(c) =>
       \E s \in files : \A r \in Present(live) :
         live'[r] # live[r] /\ live[r] = before[c][r] => s[r] = live[r]]_vars
=============================================================================

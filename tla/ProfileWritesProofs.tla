------------------------ MODULE ProfileWritesProofs ------------------------
(***************************************************************************)
(* Theorems of ProfileWrites, for any number of calls, rows and values.    *)
(*                                                                         *)
(* Inv is inductive: every id a row has was given by Naukri (so a new row  *)
(* never takes the place of one that is there), the fields of a scalar     *)
(* block do not go away, and a call that is about to send has its read in  *)
(* a snapshot.  OnCourse adds, for a call that nothing has come in the     *)
(* way of, that the writes still to be made lead to what success means.    *)
(***************************************************************************)
EXTENDS ProfileWrites, TLAPS

\* The fields of a block are there in every read.
Full(s) == kind = "block" => OldRows \subseteq Present(s)

Inv ==
  /\ TypeOK
  /\ Present(live) \subseteq spent /\ OldRows \subseteq spent
  /\ \A s \in files : Present(s) \subseteq spent
  /\ \A s \in files \cup {live} : Full(s)
  /\ \A c \in Calls : pc[c] \in {"read", "send", "check"} => unit[c] \in Units
  /\ \A c \in Calls : pc[c] = "send" => before[c] \in files

------------------------------------------------------------------------------
(* What Naukri makes of a body *)

\* The rows that a body is stored over: typed, none of them lost but by a whole list,
\* and those the body names take its values.
LEMMA StoresLemma ==
  ASSUME ProfileAssumption, TypeOK, Present(live) \subseteq spent,
         NEW body \in [Rows \cup {None} -> Values \cup {None}], Stores(body)
  PROVE  /\ live' \in Sections /\ spent' \in SUBSET Rows /\ spent \subseteq spent'
         /\ Present(live)' \subseteq spent'
         /\ kind # "list" => Present(live) \subseteq Present(live)'
         /\ \A r \in Present(live) :
              live'[r] = IF body[r] # None THEN body[r]
                         ELSE IF kind = "list" THEN None ELSE live[r]
<1> DEFINE sent == {i \in Rows \cup {None} : body[i] # None}
           held == sent \cap Present(live)
           new == sent \ held
<1>1. PICK id \in [new -> Rows \ spent] :
        /\ \A i, j \in new : id[i] = id[j] => i = j
        /\ live' = [r \in Rows |->
             IF r \in {id[i] : i \in new} THEN body[CHOOSE i \in new : id[i] = r]
             ELSE IF r \in held THEN body[r]
             ELSE IF kind = "list" THEN None ELSE live[r]]
        /\ spent' = spent \cup {id[i] : i \in new}
  BY Zenon DEF Stores
<1> DEFINE given == {id[i] : i \in new}
<1>2. given \subseteq Rows \ spent
  OBVIOUS
<1>3. \A r \in given : body[CHOOSE i \in new : id[i] = r] \in Values
  <2> SUFFICES ASSUME NEW r \in given
               PROVE  body[CHOOSE i \in new : id[i] = r] \in Values
    OBVIOUS
  <2>1. \E i \in new : id[i] = r
    OBVIOUS
  <2>2. (CHOOSE i \in new : id[i] = r) \in new
    BY <2>1
  <2> QED
    BY <2>2
<1>4. \A r \in Rows : live[r] \in Values \cup {None}
  BY DEF TypeOK, Sections
<1>5. live' \in Sections
  BY <1>1, <1>3, <1>4 DEF Sections
<1>6. spent' \in SUBSET Rows /\ spent \subseteq spent'
  BY <1>1, <1>2 DEF TypeOK
<1>7. \A r \in Present(live) : r \notin given /\ r \in Rows
  BY <1>2 DEF Present
<1>8. \A r \in Present(live) :
        live'[r] = IF body[r] # None THEN body[r]
                   ELSE IF kind = "list" THEN None ELSE live[r]
  BY <1>1, <1>7
<1>9. Present(live)' \subseteq spent'
  <2> SUFFICES ASSUME NEW r \in Rows, live'[r] # None
               PROVE  r \in spent'
    BY DEF Present
  <2>1. CASE r \in given
    BY <2>1, <1>1
  <2>2. CASE r \notin given
    <3>1. r \in Present(live)
      BY <2>2, <1>1 DEF Present
    <3> QED
      BY <3>1, <1>6
  <2> QED
    BY <2>1, <2>2
<1>10. kind # "list" => Present(live) \subseteq Present(live)'
  BY <1>8 DEF Present
<1> QED
  BY <1>5, <1>6, <1>8, <1>9, <1>10

\* A body is one: the unit's value and, in a list, the values that were read.
LEMMA BodyType ==
  ASSUME ProfileAssumption, TypeOK, NEW c \in Calls, unit[c] \in Units
  PROVE  Body(c) \in [Rows \cup {None} -> Values \cup {None}]
<1>1. unit[c].value \in Values
  BY DEF Units
<1>2. \A i \in Rows : before[c][i] \in Values \cup {None}
  BY DEF TypeOK, Sections
<1> QED
  BY <1>1, <1>2 DEF Body

\* A body that was sent or was not leaves the section as Inv has it.
LEMMA TakenLemma ==
  ASSUME ProfileAssumption, Inv, kind' = kind, NEW c \in Calls,
         UNCHANGED <<live, spent>> \/ (pc[c] = "send" /\ Stores(Body(c)))
  PROVE  /\ live' \in Sections /\ spent' \in SUBSET Rows /\ spent \subseteq spent'
         /\ Present(live)' \subseteq spent'
         /\ Full(live)'
<1>1. CASE UNCHANGED <<live, spent>>
  BY <1>1 DEF Inv, TypeOK, Full, Present
<1>2. CASE pc[c] = "send" /\ Stores(Body(c))
  <2>1. unit[c] \in Units
    BY <1>2 DEF Inv
  <2>2. Body(c) \in [Rows \cup {None} -> Values \cup {None}]
    BY <2>1, BodyType DEF Inv
  <2>3. /\ live' \in Sections /\ spent' \in SUBSET Rows /\ spent \subseteq spent'
        /\ Present(live)' \subseteq spent'
        /\ kind # "list" => Present(live) \subseteq Present(live)'
    BY <1>2, <2>2, StoresLemma DEF Inv
  <2>4. Full(live)'
    BY <2>3 DEF Inv, Full
  <2> QED
    BY <2>3, <2>4
<1> QED
  BY <1>1, <1>2

------------------------------------------------------------------------------
(* The variables of the calls *)

CallTypes ==
  /\ pc \in [Calls -> {"idle", "read", "send", "check", "done"}]
  /\ plan \in [Calls -> SUBSET Units]
  /\ unit \in [Calls -> Units \cup {None}]
  /\ before \in [Calls -> Sections]
  /\ landed \in [Calls -> BOOLEAN] /\ skipped \in [Calls -> BOOLEAN]
  /\ verdict \in [Calls -> {"none", "updated", "partial", "error"}]
  /\ \A c \in Calls : pc[c] \in {"read", "send", "check"} => unit[c] \in Units

LEMMA UnreadType == Unread \in Sections
BY DEF Unread, Sections

LEMMA ReturnsLemma ==
  ASSUME CallTypes, NEW c \in Calls, NEW answer \in {"updated", "partial", "error"},
         Returns(c, answer)
  PROVE  /\ CallTypes' /\ pc'[c] = "done"
         /\ \A d \in Calls \ {c} : pc'[d] = pc[d] /\ before'[d] = before[d]
         /\ \A d \in Calls : pc'[d] = "send" => pc[d] = "send" /\ before'[d] = before[d]
BY UnreadType DEF CallTypes, Returns

LEMMA EndsLemma ==
  ASSUME CallTypes, NEW c \in Calls, NEW outcome, Ends(c, outcome)
  PROVE  /\ CallTypes' /\ pc'[c] \in {"read", "done"}
         /\ \A d \in Calls : pc'[d] = "send" => pc[d] = "send" /\ before'[d] = before[d]
<1>1. CASE outcome = "landed" /\ plan[c] # {}
  <2>1. PICK u \in plan[c] :
          /\ unit' = [unit EXCEPT ![c] = u]
          /\ plan' = [plan EXCEPT ![c] = @ \ {u}]
    BY <1>1 DEF Ends
  <2>2. u \in Units
    BY DEF CallTypes
  <2> QED
    BY <1>1, <2>1, <2>2 DEF Ends, CallTypes
<1>2. CASE ~(outcome = "landed" /\ plan[c] # {})
  <2>1. \E answer \in {"updated", "partial", "error"} : Returns(c, answer)
    BY <1>2 DEF Ends
  <2> QED
    BY <2>1, ReturnsLemma
<1> QED
  BY <1>1, <1>2

LEMMA DisturbsLemma ==
  ASSUME aim \in [Calls -> SUBSET Sections], NEW by, Disturbs(by)
  PROVE  aim' \in [Calls -> SUBSET Sections]
BY DEF Disturbs

\* The variables of TypeOK, by who keeps them.
LEMMA InvParts ==
  Inv <=>
    /\ CallTypes /\ aim \in [Calls -> SUBSET Sections]
    /\ kind \in Kinds /\ live \in Sections /\ files \subseteq Sections
    /\ spent \subseteq Rows /\ hitches \in 0..MaxHitches
    /\ Present(live) \subseteq spent /\ OldRows \subseteq spent
    /\ \A s \in files : Present(s) \subseteq spent
    /\ \A s \in files \cup {live} : Full(s)
    /\ \A c \in Calls : pc[c] = "send" => before[c] \in files
BY DEF Inv, CallTypes, TypeOK

LEMMA BeginsLemma ==
  ASSUME Inv, NEW c \in Calls, NEW writes \in SUBSET Units, NEW rest \in BOOLEAN,
         NEW aims \in SUBSET Sections, Begins(c, writes, rest, aims)
  PROVE  Inv'
<1>1. PICK u \in writes :
        /\ unit' = [unit EXCEPT ![c] = u]
        /\ plan' = [plan EXCEPT ![c] = writes \ {u}]
  BY DEF Begins
<1>2. CallTypes'
  BY <1>1 DEF Begins, CallTypes, Inv, TypeOK
<1>3. aim' \in [Calls -> SUBSET Sections]
  BY DEF Begins, Inv, TypeOK
<1>4. \A d \in Calls : pc'[d] = "send" => before'[d] \in files'
  BY DEF Begins, Inv, TypeOK
<1>5. /\ kind' \in Kinds /\ live' \in Sections /\ files' \subseteq Sections
      /\ spent' \subseteq Rows /\ hitches' \in 0..MaxHitches
      /\ Present(live)' \subseteq spent' /\ OldRows \subseteq spent'
      /\ \A s \in files' : Present(s) \subseteq spent'
      /\ \A s \in files' \cup {live'} : Full(s)'
  BY DEF Begins, Inv, TypeOK, Full, Present
<1> QED
  BY <1>2, <1>3, <1>4, <1>5 DEF Inv, CallTypes, TypeOK

LEMMA UpdatedType == ASSUME NEW writes PROVE Updated(writes) \in SUBSET Sections
BY DEF Updated

\* The three ways to begin a call plan units of the section.
LEMMA StartLemma ==
  ASSUME ProfileAssumption, Inv, NEW c \in Calls,
         UpdateSection(c) \/ UpdateProfile(c) \/ Restore(c)
  PROVE  \E writes \in SUBSET Units, rest \in BOOLEAN, aims \in SUBSET Sections :
           Begins(c, writes, rest, aims)
<1>1. CASE UpdateSection(c)
  <2>1. PICK u \in Units : Begins(c, {u}, FALSE, Updated({u}))
    BY <1>1 DEF UpdateSection
  <2> QED
    BY <2>1, UpdatedType
<1>2. CASE UpdateProfile(c)
  <2>1. PICK fields \in SUBSET OldRows, v \in Values :
          LET writes == {[row |-> r, value |-> v] : r \in fields}
          IN Begins(c, writes, FALSE, Updated(writes))
    BY <1>2 DEF UpdateProfile
  <2> DEFINE writes == {[row |-> r, value |-> v] : r \in fields}
  <2>2. writes \in SUBSET Units
    BY DEF Units, ProfileAssumption
  <2>3. Begins(c, writes, FALSE, Updated(writes))
    BY <2>1
  <2> HIDE DEF writes
  <2> QED
    BY <2>2, <2>3, UpdatedType
<1>3. CASE Restore(c)
  <2>1. PICK snapshot \in files :
          IF kind = "block"
          THEN \E r \in OldRows :
                 Begins(c, {[row |-> r, value |-> snapshot[r]]}, FALSE,
                        {[live EXCEPT ![r] = snapshot[r]]})
          ELSE Begins(c, Planned(snapshot), Skips(snapshot), {snapshot})
    BY <1>3 DEF Restore
  <2>2. snapshot \in Sections
    BY DEF Inv, TypeOK
  <2>3. CASE kind = "block"
    <3>1. PICK r \in OldRows :
            Begins(c, {[row |-> r, value |-> snapshot[r]]}, FALSE,
                   {[live EXCEPT ![r] = snapshot[r]]})
      BY <2>1, <2>3
    <3>2. snapshot[r] \in Values /\ r \in Rows
      BY <2>2, <2>3 DEF Inv, Full, Present, Sections, ProfileAssumption
    <3>3. {[row |-> r, value |-> snapshot[r]]} \in SUBSET Units
      BY <3>2 DEF Units
    <3>4. {[live EXCEPT ![r] = snapshot[r]]} \in SUBSET Sections
      BY <3>2 DEF Inv, TypeOK, Sections
    <3> QED
      BY <3>1, <3>3, <3>4
  <2>4. CASE kind # "block"
    <3>1. Planned(snapshot) \in SUBSET Units
      BY <2>2 DEF Planned, Present, Units, Sections
    <3>2. Skips(snapshot) \in BOOLEAN
      BY DEF Skips
    <3> QED
      BY <2>1, <2>2, <2>4, <3>1, <3>2
  <2> QED
    BY <2>3, <2>4
<1> QED
  BY <1>1, <1>2, <1>3

------------------------------------------------------------------------------
(* Inv is inductive *)

LEMMA InvInit == ASSUME ProfileAssumption, Init PROVE Inv
<1>1. CallTypes
  BY UnreadType DEF Init, CallTypes
<1>2. /\ aim \in [Calls -> SUBSET Sections]
      /\ kind \in Kinds /\ live \in Sections /\ files \subseteq Sections
      /\ spent \subseteq Rows /\ hitches \in 0..MaxHitches
  BY DEF Init, ProfileAssumption
<1>3. /\ Present(live) \subseteq spent /\ OldRows \subseteq spent
      /\ \A s \in files : Present(s) \subseteq spent
      /\ \A s \in files \cup {live} : Full(s)
  BY DEF Init, Full
<1>4. \A c \in Calls : pc[c] = "send" => before[c] \in files
  BY DEF Init
<1> QED
  BY <1>1, <1>2, <1>3, <1>4, InvParts

LEMMA InvOwner == ASSUME ProfileAssumption, Inv, OwnerEdits PROVE Inv'
<1>1. PICK r \in Rows, v \in Values \cup {None} :
        /\ live[r] # v
        /\ live[r] = None => r \notin spent
        /\ kind = "block" => v # None /\ r \in OldRows
        /\ live' = [live EXCEPT ![r] = v]
        /\ spent' = spent \cup {r}
  BY DEF OwnerEdits
<1>2. CallTypes'
  BY InvParts DEF OwnerEdits, callVars, CallTypes
<1>3. aim' \in [Calls -> SUBSET Sections]
  BY DisturbsLemma DEF OwnerEdits, Inv, TypeOK
<1>4. /\ kind' \in Kinds /\ live' \in Sections /\ files' \subseteq Sections
      /\ spent' \subseteq Rows /\ hitches' \in 0..MaxHitches
  BY <1>1 DEF OwnerEdits, Inv, TypeOK, Sections, ProfileAssumption
<1>5. /\ Present(live)' \subseteq spent' /\ OldRows \subseteq spent'
      /\ \A s \in files' : Present(s) \subseteq spent'
  BY <1>1 DEF OwnerEdits, Inv, TypeOK, Sections, Present
<1>6. \A s \in files' \cup {live'} : Full(s)'
  <2>1. Full(live)'
    BY <1>1 DEF OwnerEdits, Inv, TypeOK, Sections, Present, Full
  <2> QED
    BY <2>1 DEF OwnerEdits, Inv, Full
<1>7. \A c \in Calls : pc'[c] = "send" => before'[c] \in files'
  BY DEF OwnerEdits, callVars, Inv
<1> QED
  BY <1>2, <1>3, <1>4, <1>5, <1>6, <1>7 DEF Inv, CallTypes, TypeOK

LEMMA InvRead == ASSUME ProfileAssumption, Inv, NEW c \in Calls, Read(c) PROVE Inv'
<1>1. aim' \in [Calls -> SUBSET Sections]
  BY DisturbsLemma DEF Read, Inv, TypeOK
<1>2. CASE NotFound(c, live)
  <2>1. Ends(c, "not_sent") /\ UNCHANGED <<kind, live, spent, hitches, files>>
    BY <1>2 DEF Read
  <2>2. CallTypes' /\ \A d \in Calls : pc'[d] = "send" => before'[d] \in files'
    BY <2>1, EndsLemma, InvParts
  <2> QED
    BY <1>1, <2>1, <2>2 DEF Inv, CallTypes, TypeOK, Full, Present
<1>3. CASE ~NotFound(c, live)
  <2>1. CallTypes' /\ \A d \in Calls : pc'[d] = "send" => before'[d] \in files'
    BY <1>3, InvParts DEF Read, SaveSnapshot, CallTypes
  <2>2. files' = files \cup {live} /\ UNCHANGED <<kind, live, spent, hitches>>
    BY <1>3 DEF Read, SaveSnapshot
  <2> QED
    BY <1>1, <2>1, <2>2 DEF Inv, CallTypes, TypeOK, Full, Present
<1> QED
  BY <1>2, <1>3

\* The steps that may carry a body to Naukri.
LEMMA InvPost ==
  ASSUME ProfileAssumption, Inv, NEW c \in Calls,
         Send(c) \/ SendAgain(c) \/ Raises(c) \/ Cut(c)
  PROVE  Inv'
<1>1. aim' \in [Calls -> SUBSET Sections]
  BY DisturbsLemma DEF Send, SendAgain, Raises, Cut, Inv, TypeOK
<1>2. /\ UNCHANGED <<kind, files>>
      /\ UNCHANGED <<live, spent>> \/ (pc[c] = "send" /\ Stores(Body(c)))
  BY DEF Send, SendAgain, Raises, Cut
<1>3. /\ live' \in Sections /\ spent' \in SUBSET Rows /\ spent \subseteq spent'
      /\ Present(live)' \subseteq spent' /\ Full(live)'
  BY <1>2, TakenLemma
<1>4. hitches' \in 0..MaxHitches
  BY DEF Send, SendAgain, Raises, Cut, Inv, TypeOK, ProfileAssumption
<1>5. CallTypes' /\ \A d \in Calls : pc'[d] = "send" => before'[d] \in files
  <2>1. CASE Send(c)
    BY <2>1, InvParts DEF Send, CallTypes
  <2>2. CASE SendAgain(c)
    BY <2>2, InvParts DEF SendAgain, callVars, CallTypes
  <2>3. CASE Raises(c)
    BY <2>3, EndsLemma, InvParts DEF Raises
  <2>4. CASE Cut(c)
    BY <2>4, ReturnsLemma, InvParts DEF Cut
  <2> QED
    BY <2>1, <2>2, <2>3, <2>4
<1>6. \A s \in files' \cup {live'} : Full(s)'
  BY <1>2, <1>3 DEF Inv, Full
<1> QED
  BY <1>1, <1>2, <1>3, <1>4, <1>5, <1>6 DEF Inv, CallTypes, TypeOK

LEMMA InvCheck == ASSUME Inv, NEW c \in Calls, Check(c) PROVE Inv'
<1>1. aim' \in [Calls -> SUBSET Sections]
  BY DisturbsLemma DEF Check, Inv, TypeOK
<1>2. CallTypes' /\ \A d \in Calls : pc'[d] = "send" => before'[d] \in files
  BY EndsLemma, InvParts DEF Check
<1> QED
  BY <1>1, <1>2 DEF Check, Inv, CallTypes, TypeOK, Full, Present

LEMMA InvNext == ASSUME ProfileAssumption, Inv, [Next]_vars PROVE Inv'
<1>1. CASE UNCHANGED vars
  BY <1>1 DEF vars, callVars, Inv, TypeOK, Full, Present
<1>2. CASE OwnerEdits
  BY <1>2, InvOwner
<1>3. ASSUME NEW c \in Calls, Call(c) PROVE Inv'
  <2>1. CASE UpdateSection(c) \/ UpdateProfile(c) \/ Restore(c)
    BY <2>1, StartLemma, BeginsLemma
  <2>2. CASE Read(c)
    BY <2>2, InvRead
  <2>3. CASE Send(c) \/ SendAgain(c) \/ Raises(c) \/ Cut(c)
    BY <2>3, InvPost
  <2>4. CASE Check(c)
    BY <2>4, InvCheck
  <2> QED
    BY <1>3, <2>1, <2>2, <2>3, <2>4 DEF Call
<1> QED
  BY <1>1, <1>2, <1>3 DEF Next

LEMMA Invariance == Spec => []Inv
BY InvInit, InvNext, ProfileAssumption, PTL DEF Spec

\* The section, the snapshots and the calls keep their types.
THEOREM Typing == Spec => []TypeOK
BY Invariance, PTL DEF Inv

------------------------------------------------------------------------------
(* What a POST may touch *)

\* A POST leaves the section alone or stores the body of its call.
LEMMA PostLemma ==
  ASSUME NEW c \in Calls, Post(c)
  PROVE  /\ kind' = kind
         /\ UNCHANGED <<live, spent>> \/ (pc[c] = "send" /\ Stores(Body(c)))
BY DEF Post, Send, SendAgain, Raises, Cut

LEMMA SurviveStep ==
  ASSUME ProfileAssumption, Inv, NEW c \in Calls, Post(c), live = before[c],
         NEW r \in Present(live) \ {unit[c].row}
  PROVE  live'[r] = live[r]
<1>1. CASE live' = live
  BY <1>1
<1>2. CASE pc[c] = "send" /\ Stores(Body(c))
  <2>1. Body(c) \in [Rows \cup {None} -> Values \cup {None}]
    BY <1>2, BodyType DEF Inv
  <2>2. live'[r] = IF Body(c)[r] # None THEN Body(c)[r]
                   ELSE IF kind = "list" THEN None ELSE live[r]
    BY <1>2, <2>1, StoresLemma DEF Inv
  <2>3. Body(c)[r] = IF kind = "list" THEN live[r] ELSE None
    BY DEF Body, Present, ProfileAssumption
  <2> QED
    BY <2>2, <2>3 DEF Present
<1> QED
  BY <1>1, <1>2, PostLemma

\* However many calls there are, a POST that is built from what is there leaves all
\* rows but its own as they are.
THEOREM OthersAreKept == Spec => OthersSurvive
<1>1. Inv /\ [Next]_vars =>
        [\A c \in Calls : live' # live /\ live = before[c] /\ Post(c) =>
           \A r \in Present(live) \ {unit[c].row} : live'[r] = live[r]]_vars
  BY SurviveStep, ProfileAssumption
<1> QED
  BY <1>1, Invariance, PTL DEF Spec, OthersSurvive

\* Whatever a POST takes away of what its call has read is in a snapshot.
THEOREM ThereIsAWayBack == Spec => WayBack
<1>1. Inv /\ [Next]_vars =>
        [\A c \in Calls : live' # live /\ Post(c) =>
           \E s \in files : \A r \in Present(live) :
             live'[r] # live[r] /\ live[r] = before[c][r] => s[r] = live[r]]_vars
  <2> SUFFICES ASSUME Inv, NEW c \in Calls, Post(c), live' # live
               PROVE  \E s \in files : \A r \in Present(live) :
                        live'[r] # live[r] /\ live[r] = before[c][r] => s[r] = live[r]
    OBVIOUS
  <2>1. before[c] \in files
    BY PostLemma DEF Inv
  <2> QED
    BY <2>1
<1> QED
  BY <1>1, Invariance, PTL DEF Spec, WayBack

------------------------------------------------------------------------------
(* A call that nothing has come in the way of is on course *)

\* The section with some writes still to be made in it.
After(section, writes) ==
  {s \in Sections : \A r \in Rows :
     IF r \in {u.row : u \in writes} THEN [row |-> r, value |-> s[r]] \in writes
     ELSE s[r] = section[r]}

Twinless(value) == \A r \in Rows : live[r] # value

WithNew(value) ==
  {s \in Sections : \E r \in Rows : live[r] = None /\ s = [live EXCEPT ![r] = value]}

Apart(c) == \A u, v \in plan[c] \cup {unit[c]} : u.row = v.row => u = v

CreateOnCourse(c) ==
  /\ plan[c] = {}
  /\ pc[c] # "check" => Twinless(unit[c].value) /\ aim[c] = WithNew(unit[c].value)
  /\ pc[c] = "check" /\ ~Twinless(unit[c].value) => live \in aim[c]

UpdateOnCourse(c) ==
  /\ unit[c] \notin plan[c] /\ Apart(c)
  /\ \A u \in plan[c] \cup {unit[c]} : u.row \in spent
  /\ pc[c] # "check" \/ live[unit[c].row] = unit[c].value
       => After(live, plan[c] \cup {unit[c]}) \subseteq aim[c]

OnCourse(c) ==
  pc[c] \in {"read", "send", "check"} /\ aim[c] # {} /\ ~skipped[c] =>
    /\ IF unit[c].row = None THEN CreateOnCourse(c) ELSE UpdateOnCourse(c)
    /\ pc[c] = "send" => before[c] = live

\* Who else takes a step leaves a call's variables alone, and its aim only if the
\* section stays as it is.
LEMMA FrameLemma ==
  ASSUME ProfileAssumption, Inv, NEW c \in Calls, OnCourse(c), OwnerEdits \/ \E d \in Calls \ {c} : Call(d)
  PROVE  OnCourse(c)'
<1> SUFFICES ASSUME aim'[c] # {} PROVE OnCourse(c)'
  BY DEF OnCourse
<1>1. /\ pc'[c] = pc[c] /\ plan'[c] = plan[c] /\ unit'[c] = unit[c]
      /\ before'[c] = before[c] /\ skipped'[c] = skipped[c]
  <2>1. CASE OwnerEdits
    BY <2>1 DEF OwnerEdits, callVars
  <2>2. ASSUME NEW d \in Calls \ {c}, Call(d)
        PROVE  /\ pc'[c] = pc[c] /\ plan'[c] = plan[c] /\ unit'[c] = unit[c]
               /\ before'[c] = before[c] /\ skipped'[c] = skipped[c]
    <3>1. CASE UpdateSection(d) \/ UpdateProfile(d) \/ Restore(d)
      <4>1. PICK writes \in SUBSET Units, rest \in BOOLEAN, aims \in SUBSET Sections :
              Begins(d, writes, rest, aims)
        BY <3>1, StartLemma
      <4> QED
        BY <4>1 DEF Begins, Inv, TypeOK
    <3>2. ASSUME NEW outcome, Ends(d, outcome)
          PROVE  /\ pc'[c] = pc[c] /\ plan'[c] = plan[c] /\ unit'[c] = unit[c]
                 /\ before'[c] = before[c] /\ skipped'[c] = skipped[c]
      BY <3>2 DEF Ends, Returns, Inv, TypeOK
    <3>3. CASE Read(d)
      BY <3>2, <3>3 DEF Read, Inv, TypeOK
    <3>4. CASE Send(d) \/ SendAgain(d) \/ Cut(d)
      BY <3>4 DEF Send, SendAgain, Cut, Returns, callVars, Inv, TypeOK
    <3>5. CASE Raises(d) \/ Check(d)
      BY <3>2, <3>5 DEF Raises, Check
    <3> QED
      BY <2>2, <3>1, <3>3, <3>4, <3>5 DEF Call
  <2> QED
    BY <2>1, <2>2
<1>2. aim'[c] = aim[c] /\ live' = live
  <2>1. ASSUME NEW by, by # c, Disturbs(by)
        PROVE  aim'[c] = aim[c] /\ live' = live
    BY <2>1 DEF Disturbs
  <2>2. CASE OwnerEdits
    BY <2>1, <2>2 DEF OwnerEdits, ProfileAssumption
  <2>3. ASSUME NEW d \in Calls \ {c}, Call(d)
        PROVE  aim'[c] = aim[c] /\ live' = live
    <3>1. CASE UpdateSection(d) \/ UpdateProfile(d) \/ Restore(d)
      <4>1. PICK writes \in SUBSET Units, rest \in BOOLEAN, aims \in SUBSET Sections :
              Begins(d, writes, rest, aims)
        BY <3>1, StartLemma
      <4> QED
        BY <4>1 DEF Begins, Inv, TypeOK
    <3>2. CASE Read(d) \/ Send(d) \/ Check(d) \/ Raises(d) \/ Cut(d)
      BY <2>1, <3>2 DEF Read, Send, Check, Raises, Cut
    <3>3. CASE SendAgain(d)
      BY <3>3 DEF SendAgain, Disturbs
    <3> QED
      BY <2>3, <3>1, <3>2, <3>3 DEF Call
  <2> QED
    BY <2>2, <2>3
<1>3. spent \subseteq spent'
  <2>1. CASE OwnerEdits
    BY <2>1 DEF OwnerEdits
  <2>2. ASSUME NEW d \in Calls, Call(d) PROVE spent \subseteq spent'
    <3>1. CASE UpdateSection(d) \/ UpdateProfile(d) \/ Restore(d)
      <4>1. PICK writes \in SUBSET Units, rest \in BOOLEAN, aims \in SUBSET Sections :
              Begins(d, writes, rest, aims)
        BY <3>1, StartLemma
      <4> QED
        BY <4>1 DEF Begins
    <3>2. CASE Post(d)
      BY <3>2, PostLemma, TakenLemma
    <3>3. CASE Read(d) \/ Check(d)
      BY <3>3 DEF Read, Check
    <3> QED
      BY <2>2, <3>1, <3>2, <3>3 DEF Call, Post
  <2> QED
    BY <2>1, <2>2
<1>4. CreateOnCourse(c) => CreateOnCourse(c)'
  <2>1. (Twinless(unit[c].value)' <=> Twinless(unit[c].value))
        /\ WithNew(unit[c].value)' = WithNew(unit[c].value)
    BY <1>1, <1>2 DEF Twinless, WithNew
  <2> QED
    BY <1>1, <1>2, <2>1 DEF CreateOnCourse
<1>5. UpdateOnCourse(c) => UpdateOnCourse(c)'
  <2>1. After(live, plan[c] \cup {unit[c]})' = After(live, plan[c] \cup {unit[c]})
    BY <1>1, <1>2 DEF After
  <2>2. Apart(c)' <=> Apart(c)
    BY <1>1 DEF Apart
  <2> QED
    BY <1>1, <1>2, <1>3, <2>1, <2>2 DEF UpdateOnCourse
<1> QED
  BY <1>1, <1>2, <1>4, <1>5 DEF OnCourse

------------------------------------------------------------------------------
(* A call stays on course *)

\* The plan of an update is made of rows that are known.
LEMMA PlanOnCourse ==
  ASSUME ProfileAssumption, Inv, NEW c \in Calls, NEW writes \in SUBSET Units,
         NEW rest \in BOOLEAN, NEW aims, Begins(c, writes, rest, aims),
         \A u \in writes : u.row \in spent,
         \A u, v \in writes : u.row = v.row => u = v,
         rest \/ After(live, writes) \subseteq aims
  PROVE  OnCourse(c)'
<1>1. PICK u \in writes :
        /\ unit' = [unit EXCEPT ![c] = u]
        /\ plan' = [plan EXCEPT ![c] = writes \ {u}]
  BY DEF Begins
<1>2. unit'[c] = u /\ plan'[c] = writes \ {u} /\ pc'[c] = "read" /\ aim'[c] = aims
      /\ skipped'[c] = rest /\ live' = live /\ spent' = spent
  BY <1>1 DEF Begins, Inv, TypeOK
<1>3. plan'[c] \cup {unit'[c]} = writes /\ unit'[c] \notin plan'[c]
  BY <1>2
<1>4. u.row # None
  BY DEF Inv, TypeOK, ProfileAssumption
<1>5. ~rest => UpdateOnCourse(c)'
  BY <1>2, <1>3 DEF UpdateOnCourse, Apart
<1> QED
  BY <1>2, <1>4, <1>5 DEF OnCourse

LEMMA StartOnCourse ==
  ASSUME ProfileAssumption, Inv, NEW c \in Calls,
         UpdateSection(c) \/ UpdateProfile(c) \/ Restore(c)
  PROVE  OnCourse(c)'
<1>1. \A writes : None \notin {u.row : u \in writes} => Updated(writes) = After(live, writes)
  BY DEF Updated, After
<1>2. None \notin spent /\ OldRows \subseteq spent
  BY DEF Inv, TypeOK, ProfileAssumption
<1>3. CASE UpdateSection(c)
  <2>1. PICK u \in Units : /\ u.row \in spent \/ (u.row = None /\ kind # "block")
                           /\ Begins(c, {u}, FALSE, Updated({u}))
    BY <1>3 DEF UpdateSection
  <2>2. CASE u.row = None
    <3>1. /\ unit'[c] = u /\ plan'[c] = {} /\ pc'[c] = "read"
          /\ aim'[c] = Updated({u}) /\ live' = live
      BY <2>1 DEF Begins, Inv, TypeOK
    <3>2. Updated({u}) = {s \in Sections :
                            Twinless(u.value) /\ s \in WithNew(u.value)}
      BY <2>2 DEF Updated, Twinless, WithNew
    <3>3. aim'[c] # {} => Twinless(u.value) /\ aim'[c] = WithNew(u.value)
      BY <3>1, <3>2 DEF WithNew
    <3> QED
      BY <2>2, <3>1, <3>3 DEF OnCourse, CreateOnCourse, Twinless, WithNew
  <2>3. CASE u.row # None
    <3>1. Updated({u}) = After(live, {u})
      BY <1>1, <2>3
    <3>2. {u} \in SUBSET Units /\ FALSE \in BOOLEAN /\ Begins(c, {u}, FALSE, After(live, {u}))
      BY <2>1, <3>1
    <3>3. \A w \in {u} : w.row \in spent
      BY <2>1, <2>3
    <3>4. \A v, w \in {u} : v.row = w.row => v = w
      OBVIOUS
    <3> QED
      BY <3>2, <3>3, <3>4, PlanOnCourse
  <2> QED
    BY <2>2, <2>3
<1>4. CASE UpdateProfile(c)
  <2>1. PICK fields \in SUBSET OldRows, v \in Values :
          LET writes == {[row |-> r, value |-> v] : r \in fields}
          IN Begins(c, writes, FALSE, Updated(writes))
    BY <1>4 DEF UpdateProfile
  <2> DEFINE writes == {[row |-> r, value |-> v] : r \in fields}
  <2>2. writes \in SUBSET Units
    BY DEF Units, ProfileAssumption
  <2>3. Begins(c, writes, FALSE, Updated(writes))
    BY <2>1
  <2>4. \A u \in writes : u.row \in spent
    BY <1>2
  <2>5. \A u, w \in writes : u.row = w.row => u = w
    OBVIOUS
  <2> HIDE DEF writes
  <2>6. Updated(writes) = After(live, writes)
    BY <1>1, <1>2, <2>4
  <2> QED
    BY <2>2, <2>3, <2>4, <2>5, <2>6, PlanOnCourse
<1>5. CASE Restore(c)
  <2>1. PICK snapshot \in files :
          IF kind = "block"
          THEN \E r \in OldRows :
                 Begins(c, {[row |-> r, value |-> snapshot[r]]}, FALSE,
                        {[live EXCEPT ![r] = snapshot[r]]})
          ELSE Begins(c, Planned(snapshot), Skips(snapshot), {snapshot})
    BY <1>5 DEF Restore
  <2>2. snapshot \in Sections /\ Present(snapshot) \subseteq spent /\ live \in Sections
    BY DEF Inv, TypeOK
  <2>3. CASE kind = "block"
    <3>1. PICK r \in OldRows :
            Begins(c, {[row |-> r, value |-> snapshot[r]]}, FALSE,
                   {[live EXCEPT ![r] = snapshot[r]]})
      BY <2>1, <2>3
    <3> DEFINE u == [row |-> r, value |-> snapshot[r]]
    <3>2. snapshot[r] \in Values /\ r \in Rows
      BY <2>2, <2>3 DEF Inv, Full, Present, Sections, ProfileAssumption
    <3>3. {u} \in SUBSET Units
      BY <3>2 DEF Units
    <3>4. After(live, {u}) \subseteq {[live EXCEPT ![r] = snapshot[r]]}
      <4> SUFFICES ASSUME NEW s \in After(live, {u})
                   PROVE  s = [live EXCEPT ![r] = snapshot[r]]
        OBVIOUS
      <4>1. s \in Sections /\ s[r] = snapshot[r] /\ \A q \in Rows \ {r} : s[q] = live[q]
        BY <3>2 DEF After
      <4> QED
        BY <4>1, <2>2 DEF Sections
    <3>5. u.row \in spent
      BY <1>2
    <3> QED
      BY <3>1, <3>3, <3>4, <3>5, PlanOnCourse
  <2>4. CASE kind # "block"
    <3>1. Planned(snapshot) \in SUBSET Units
      BY <2>2 DEF Planned, Present, Units, Sections
    <3>2. Skips(snapshot) \in BOOLEAN
      BY DEF Skips
    <3>3. \A u \in Planned(snapshot) : u.row \in spent
      BY <2>2 DEF Planned
    <3>4. \A u, v \in Planned(snapshot) : u.row = v.row => u = v
      BY DEF Planned
    <3>5. ~Skips(snapshot) => After(live, Planned(snapshot)) \subseteq {snapshot}
      <4> SUFFICES ASSUME Present(snapshot) = Present(live),
                          NEW s \in After(live, Planned(snapshot))
                   PROVE  s = snapshot
        BY DEF Skips
      <4>1. \A r \in Rows : s[r] = snapshot[r]
        <5> SUFFICES ASSUME NEW r \in Rows PROVE s[r] = snapshot[r]
          OBVIOUS
        <5>1. CASE r \in {u.row : u \in Planned(snapshot)}
          <6>1. [row |-> r, value |-> s[r]] \in Planned(snapshot)
            BY <5>1 DEF After
          <6> QED
            BY <6>1 DEF Planned
        <5>2. CASE r \notin {u.row : u \in Planned(snapshot)}
          <6>1. s[r] = live[r]
            BY <5>2 DEF After
          <6> DEFINE u == [row |-> r, value |-> snapshot[r]]
          <6>2. u \notin Planned(snapshot)
            BY <5>2
          <6>3. ~(r \in Present(snapshot) \cap Present(live) /\ snapshot[r] # live[r])
            BY <6>2 DEF Planned
          <6> QED
            BY <6>1, <6>3 DEF Present
        <5> QED
          BY <5>1, <5>2
      <4>2. s \in Sections
        BY DEF After
      <4> QED
        BY <4>1, <4>2, <2>2 DEF Sections
    <3> QED
      BY <2>1, <2>4, <3>1, <3>2, <3>3, <3>4, <3>5, PlanOnCourse
  <2> QED
    BY <2>3, <2>4
<1> QED
  BY <1>3, <1>4, <1>5

\* What a POST built from the section as it is makes of it: one new row, the new
\* value, or, where its row is gone, nothing under that row's id.
LEMMA FreshBody ==
  ASSUME ProfileAssumption, Inv, NEW c \in Calls, pc[c] = "send",
         before[c] = live, Stores(Body(c))
  PROVE  /\ unit[c].row = None => live' \in WithNew(unit[c].value)
         /\ unit[c].row \in Present(live) =>
              live' = [live EXCEPT ![unit[c].row] = unit[c].value]
         /\ unit[c].row \in spent \ Present(live) => live'[unit[c].row] = None
<1> DEFINE body == Body(c)
           sent == {i \in Rows \cup {None} : body[i] # None}
           held == sent \cap Present(live)
           new == sent \ held
           row == unit[c].row
           value == unit[c].value
<1>1. PICK id \in [new -> Rows \ spent] :
        /\ \A i, j \in new : id[i] = id[j] => i = j
        /\ live' = [r \in Rows |->
             IF r \in {id[i] : i \in new} THEN body[CHOOSE i \in new : id[i] = r]
             ELSE IF r \in held THEN body[r]
             ELSE IF kind = "list" THEN None ELSE live[r]]
  BY Zenon DEF Stores
<1>2. /\ row \in Rows \cup {None} /\ value \in Values /\ value # None
      /\ live \in Sections /\ None \notin Rows /\ None \notin Values
      /\ spent \subseteq Rows /\ Present(live) \subseteq spent
  BY DEF Inv, TypeOK, Units, ProfileAssumption
<1>3. \A i \in Rows \cup {None} :
        body[i] = IF i = row THEN value
                  ELSE IF kind = "list" /\ i # None THEN live[i] ELSE None
  BY DEF Body
<1>4. \A i \in Rows \ {row} : body[i] = IF kind = "list" THEN live[i] ELSE None
  BY <1>2, <1>3
<1>5. new = {row} \ Present(live)
  <2>1. row \in sent
    BY <1>2, <1>3
  <2>2. \A i \in sent : i = row \/ i \in Present(live)
    BY <1>2, <1>3 DEF Present
  <2> QED
    BY <2>1, <2>2
<1>6. \A r \in Present(live) : r \in Rows /\ live[r] # None
  BY DEF Present
<1>7. \A r \in Rows \ Present(live) : live[r] = None
  BY DEF Present
<1> HIDE DEF body
<1>8. CASE row \in Present(live)
  <2>1. new = {}
    BY <1>5, <1>8
  <2>2. {id[i] : i \in new} = {}
    BY <2>1
  <2>3. \A r \in Rows : live'[r] = IF r \in held THEN body[r]
                                   ELSE IF kind = "list" THEN None ELSE live[r]
    BY <1>1, <2>2
  <2>4. live'[row] = value
    BY <1>2, <1>3, <1>6, <1>8, <2>3
  <2>5. ASSUME NEW r \in Rows \ {row} PROVE live'[r] = live[r]
    BY <1>4, <1>6, <1>7, <2>3, <2>5
  <2>6. live' = [live EXCEPT ![row] = value]
    <3>1. live' = [r \in Rows |-> live'[r]]
      BY <1>1
    <3>2. live = [r \in Rows |-> live[r]]
      BY <1>2 DEF Sections
    <3> QED
      BY <2>4, <2>5, <3>1, <3>2
  <2> QED
    BY <1>2, <1>6, <1>8, <2>6
<1>9. CASE row \notin Present(live)
  <2>1. new = {row}
    BY <1>5, <1>9
  <2>2. {id[i] : i \in new} = {id[row]} /\ id[row] \in Rows \ spent
    BY <2>1
  <2>3. (CHOOSE i \in new : id[i] = id[row]) = row
    BY <2>1
  <2>4. \A r \in Rows \ {id[row]} :
          live'[r] = IF r \in held THEN body[r]
                     ELSE IF kind = "list" THEN None ELSE live[r]
    BY <1>1, <2>2
  <2>5. row \in spent => live'[row] = None
    <3> SUFFICES ASSUME row \in spent PROVE live'[row] = None
      OBVIOUS
    <3>1. row \in Rows \ {id[row]} /\ live[row] = None /\ row \notin held
      BY <1>2, <1>7, <1>9, <2>2
    <3> QED
      BY <2>4, <3>1
  <2>6. ASSUME row = None PROVE live' \in WithNew(value)
    <3>1. live[id[row]] = None /\ id[row] \in Rows
      BY <1>2, <1>7, <2>2
    <3>2. live'[id[row]] = value
      <4>1. body[row] = value
        BY <1>2, <1>3
      <4> QED
        BY <1>1, <2>2, <2>3, <4>1
    <3>3. ASSUME NEW r \in Rows \ {id[row]} PROVE live'[r] = live[r]
      <4>1. r # row
        BY <1>2, <2>6
      <4> QED
        BY <1>4, <1>6, <1>7, <2>4, <4>1
    <3>4. live' = [live EXCEPT ![id[row]] = value]
      <4>1. live' = [r \in Rows |-> live'[r]]
        BY <1>1
      <4>2. live = [r \in Rows |-> live[r]]
        BY <1>2 DEF Sections
      <4> QED
        BY <3>1, <3>2, <3>3, <4>1, <4>2
    <3>5. live' \in Sections
      BY <1>2, <3>1, <3>4 DEF Sections
    <3> QED
      BY <3>1, <3>4, <3>5 DEF WithNew
  <2> QED
    BY <1>9, <2>5, <2>6
<1> QED
  BY <1>8, <1>9

LEMMA ReadOnCourse ==
  ASSUME ProfileAssumption, Inv, NEW c \in Calls, OnCourse(c), Read(c)
  PROVE  OnCourse(c)'
<1>1. CASE NotFound(c, live)
  <2>1. pc'[c] = "done"
    BY <1>1 DEF Read, Ends, Returns, Inv, TypeOK
  <2> QED
    BY <2>1 DEF OnCourse
<1>2. CASE ~NotFound(c, live)
  <2>1. /\ pc[c] = "read" /\ pc'[c] = "send" /\ before'[c] = live /\ live' = live
        /\ spent' = spent /\ plan' = plan /\ unit' = unit /\ skipped' = skipped
        /\ aim'[c] = aim[c]
    BY <1>2 DEF Read, Disturbs, Inv, TypeOK
  <2>2. CreateOnCourse(c) => CreateOnCourse(c)'
    BY <2>1 DEF CreateOnCourse, Twinless, WithNew
  <2>3. UpdateOnCourse(c) => UpdateOnCourse(c)'
    BY <2>1 DEF UpdateOnCourse, Apart, After
  <2> QED
    BY <2>1, <2>2, <2>3 DEF OnCourse
<1> QED
  BY <1>1, <1>2

LEMMA SendOnCourse ==
  ASSUME ProfileAssumption, Inv, NEW c \in Calls, OnCourse(c), Send(c)
  PROVE  OnCourse(c)'
<1>1. /\ pc[c] = "send" /\ pc'[c] = "check" /\ plan' = plan /\ unit' = unit
      /\ skipped' = skipped /\ aim'[c] = aim[c]
      /\ Stores(Body(c)) \/ UNCHANGED <<live, spent>>
  BY DEF Send, Disturbs, Inv, TypeOK
<1>2. spent \subseteq spent'
  BY <1>1, PostLemma, TakenLemma DEF Post
<1> SUFFICES ASSUME aim[c] # {}, ~skipped[c]
             PROVE  IF unit[c].row = None THEN CreateOnCourse(c)' ELSE UpdateOnCourse(c)'
  BY <1>1 DEF OnCourse
<1>3. before[c] = live /\ IF unit[c].row = None THEN CreateOnCourse(c) ELSE UpdateOnCourse(c)
  BY <1>1 DEF OnCourse
<1>4. CASE unit[c].row = None
  <2>1. plan[c] = {} /\ Twinless(unit[c].value) /\ aim[c] = WithNew(unit[c].value)
    BY <1>1, <1>3, <1>4 DEF CreateOnCourse
  <2>2. live' = live => Twinless(unit[c].value)'
    BY <1>1, <2>1 DEF Twinless
  <2>3. Stores(Body(c)) => live' \in aim'[c]
    BY <1>1, <1>3, <1>4, <2>1, FreshBody
  <2> QED
    BY <1>1, <1>4, <2>1, <2>2, <2>3 DEF CreateOnCourse
<1>5. CASE unit[c].row # None
  <2>1. /\ unit[c] \notin plan[c] /\ Apart(c)
        /\ \A u \in plan[c] \cup {unit[c]} : u.row \in spent
        /\ After(live, plan[c] \cup {unit[c]}) \subseteq aim[c]
    BY <1>1, <1>3, <1>5 DEF UpdateOnCourse
  <2>2. Apart(c)'
    BY <1>1, <2>1 DEF Apart
  <2>3. ASSUME live'[unit[c].row] = unit[c].value
        PROVE  After(live', plan[c] \cup {unit[c]}) = After(live, plan[c] \cup {unit[c]})
    <3>1. \A r \in Rows \ {unit[c].row} : live'[r] = live[r]
      <4>1. CASE Stores(Body(c))
        <5>1. unit[c].row \in Present(live)
          BY <1>1, <1>3, <2>1, <2>3, <4>1, FreshBody DEF Inv, Units, ProfileAssumption
        <5>2. live' = [live EXCEPT ![unit[c].row] = unit[c].value]
          BY <1>1, <1>3, <4>1, <5>1, FreshBody
        <5> QED
          BY <5>2 DEF Inv, TypeOK, Sections
      <4> QED
        BY <1>1, <4>1
    <3>2. unit[c].row \in {u.row : u \in plan[c] \cup {unit[c]}}
      OBVIOUS
    <3> QED
      BY <3>1, <3>2 DEF After
  <2>4. live'[unit[c].row] = unit[c].value =>
          After(live, plan[c] \cup {unit[c]})' \subseteq aim'[c]
    BY <1>1, <2>1, <2>3 DEF After
  <2> QED
    BY <1>1, <1>2, <1>5, <2>1, <2>2, <2>4 DEF UpdateOnCourse
<1> QED
  BY <1>4, <1>5

LEMMA SendAgainOnCourse ==
  ASSUME ProfileAssumption, Inv, NEW c \in Calls, OnCourse(c), SendAgain(c)
  PROVE  OnCourse(c)'
<1> SUFFICES ASSUME aim'[c] # {} PROVE OnCourse(c)'
  BY DEF OnCourse
<1>1. UNCHANGED callVars
  BY DEF SendAgain
<1>2. aim'[c] = aim[c] /\ live' = live
  BY <1>1 DEF SendAgain, Disturbs, ProfileAssumption
<1>3. spent \subseteq spent'
  BY PostLemma, TakenLemma DEF Post
<1>4. CreateOnCourse(c) => CreateOnCourse(c)'
  BY <1>1, <1>2 DEF callVars, CreateOnCourse, Twinless, WithNew
<1>5. UpdateOnCourse(c) => UpdateOnCourse(c)'
  BY <1>1, <1>2, <1>3 DEF callVars, UpdateOnCourse, Apart, After
<1> QED
  BY <1>1, <1>2, <1>4, <1>5 DEF callVars, OnCourse

\* The next write of a run starts with the last one in place.
LEMMA CheckOnCourse ==
  ASSUME ProfileAssumption, Inv, NEW c \in Calls, OnCourse(c), Check(c)
  PROVE  OnCourse(c)'
<1> DEFINE outcome == Outcome(unit[c], before[c], live)
<1>1. pc[c] = "check" /\ Ends(c, outcome) /\ live' = live /\ spent' = spent /\ Disturbs(c)
  BY DEF Check
<1>2. CASE outcome = "landed" /\ plan[c] # {}
  <2>1. PICK u \in plan[c] :
          /\ unit' = [unit EXCEPT ![c] = u]
          /\ plan' = [plan EXCEPT ![c] = @ \ {u}]
    BY <1>1, <1>2 DEF Ends
  <2>2. /\ pc' = [pc EXCEPT ![c] = "read"] /\ skipped' = skipped
    BY <1>1, <1>2 DEF Ends
  <2>3. /\ unit'[c] = u /\ plan'[c] = plan[c] \ {u} /\ pc'[c] = "read"
        /\ aim'[c] = aim[c]
    BY <1>1, <2>1, <2>2 DEF Disturbs, Inv, TypeOK
  <2> SUFFICES ASSUME aim[c] # {}, ~skipped[c]
               PROVE  unit'[c].row # None /\ UpdateOnCourse(c)'
    BY <2>2, <2>3 DEF OnCourse
  <2>4. unit[c].row # None
    BY <1>1, <1>2 DEF OnCourse, CreateOnCourse
  <2>5. /\ unit[c] \notin plan[c] /\ Apart(c)
        /\ \A w \in plan[c] \cup {unit[c]} : w.row \in spent
        /\ live[unit[c].row] = unit[c].value
             => After(live, plan[c] \cup {unit[c]}) \subseteq aim[c]
    BY <1>1, <2>4 DEF OnCourse, UpdateOnCourse
  <2>6. live[unit[c].row] = unit[c].value
    BY <1>2, <2>4 DEF Outcome, Verified
  <2>7. unit[c] \in Units
    BY <1>1 DEF Inv
  <2>8. After(live, plan[c]) \subseteq After(live, plan[c] \cup {unit[c]})
    <3> SUFFICES ASSUME NEW s \in After(live, plan[c]), NEW r \in Rows
                 PROVE  IF r \in {w.row : w \in plan[c] \cup {unit[c]}}
                        THEN [row |-> r, value |-> s[r]] \in plan[c] \cup {unit[c]}
                        ELSE s[r] = live[r]
      BY DEF After
    <3>1. CASE r \in {w.row : w \in plan[c]}
      BY <3>1 DEF After
    <3>2. CASE r \notin {w.row : w \in plan[c]}
      <4>1. s[r] = live[r]
        BY <3>2 DEF After
      <4>2. CASE r = unit[c].row
        <5>1. [row |-> r, value |-> s[r]] = unit[c]
          BY <2>6, <2>7, <4>1, <4>2 DEF Units
        <5> QED
          BY <4>2, <5>1
      <4>3. CASE r # unit[c].row
        BY <3>2, <4>1, <4>3
      <4> QED
        BY <4>2, <4>3
    <3> QED
      BY <3>1, <3>2
  <2>9. plan'[c] \cup {unit'[c]} = plan[c] /\ unit'[c] \notin plan'[c]
    BY <2>3
  <2>10. Apart(c)'
    BY <2>5, <2>9 DEF Apart
  <2>11. After(live, plan[c] \cup {unit[c]})' \subseteq aim'[c]
    <3>1. After(live, plan[c] \cup {unit[c]})' = After(live, plan[c])
      BY <1>1, <2>9 DEF After
    <3> QED
      BY <2>3, <2>5, <2>6, <2>8, <3>1
  <2>12. unit'[c].row # None
    BY <2>3, <2>5 DEF Inv, TypeOK, ProfileAssumption
  <2> QED
    BY <1>1, <2>5, <2>9, <2>10, <2>11, <2>12 DEF UpdateOnCourse
<1>3. CASE ~(outcome = "landed" /\ plan[c] # {})
  <2>1. pc'[c] = "done"
    BY <1>1, <1>3 DEF Ends, Returns, Inv, TypeOK
  <2> QED
    BY <2>1 DEF OnCourse
<1> QED
  BY <1>2, <1>3

\* A call that has not returned has said nothing.
Course == \A c \in Calls : OnCourse(c) /\ (pc[c] # "done" => verdict[c] = "none")

LEMMA CourseNext == ASSUME ProfileAssumption, Inv, Course, [Next]_vars PROVE Course'
<1>1. CASE UNCHANGED vars
  <2>1. \A c \in Calls : OnCourse(c)'
    BY <1>1 DEF vars, callVars, Course, OnCourse, CreateOnCourse, UpdateOnCourse,
                Apart, Twinless, WithNew, After
  <2> QED
    BY <1>1, <2>1 DEF vars, callVars, Course
<1>2. ASSUME NEW c \in Calls, Next PROVE OnCourse(c)'
  <2>1. CASE OwnerEdits \/ \E d \in Calls \ {c} : Call(d)
    BY <2>1, FrameLemma DEF Course
  <2>2. CASE UpdateSection(c) \/ UpdateProfile(c) \/ Restore(c)
    BY <2>2, StartOnCourse
  <2>3. CASE Read(c) \/ Send(c) \/ SendAgain(c) \/ Check(c)
    BY <2>3, ReadOnCourse, SendOnCourse, SendAgainOnCourse, CheckOnCourse DEF Course
  <2>4. CASE Raises(c) \/ Cut(c)
    <3>1. pc'[c] = "done"
      BY <2>4 DEF Raises, Cut, Ends, Returns, Inv, TypeOK
    <3> QED
      BY <3>1 DEF OnCourse
  <2> QED
    BY <1>2, <2>1, <2>2, <2>3, <2>4 DEF Next, Call
<1>3. ASSUME NEW c \in Calls, Next PROVE pc'[c] # "done" => verdict'[c] = "none"
  <2>1. CASE OwnerEdits
    BY <2>1 DEF OwnerEdits, callVars, Course
  <2>2. ASSUME NEW d \in Calls, pc[d] # "done", NEW outcome, Ends(d, outcome)
        PROVE  pc'[c] # "done" => verdict'[c] = "none"
    <3>1. CASE outcome = "landed" /\ plan[d] # {}
      <4>1. pc' = [pc EXCEPT ![d] = "read"] /\ verdict' = verdict
        BY <2>2, <3>1 DEF Ends
      <4>2. \A e \in Calls : pc[e] # "done" => verdict[e] = "none"
        BY DEF Course
      <4> QED
        BY <2>2, <4>1, <4>2 DEF Inv, TypeOK
    <3>2. CASE ~(outcome = "landed" /\ plan[d] # {})
      BY <2>2, <3>2 DEF Ends, Returns, Course, Inv, TypeOK
    <3> QED
      BY <3>1, <3>2
  <2>3. ASSUME NEW d \in Calls, Call(d)
        PROVE  pc'[c] # "done" => verdict'[c] = "none"
    <3>1. CASE UpdateSection(d) \/ UpdateProfile(d) \/ Restore(d)
      <4>1. PICK writes \in SUBSET Units, rest \in BOOLEAN, aims \in SUBSET Sections :
              Begins(d, writes, rest, aims)
        BY <3>1, StartLemma
      <4> QED
        BY <4>1 DEF Begins, Course, Inv, TypeOK
    <3>2. CASE Raises(d) \/ Check(d)
      BY <2>2, <3>2 DEF Raises, Check
    <3>3. CASE Read(d)
      BY <2>2, <3>3 DEF Read, Course, Inv, TypeOK
    <3>4. CASE Send(d) \/ SendAgain(d) \/ Cut(d)
      BY <3>4 DEF Send, SendAgain, Cut, Returns, callVars, Course, Inv, TypeOK
    <3> QED
      BY <2>3, <3>1, <3>2, <3>3, <3>4 DEF Call
  <2> QED
    BY <1>3, <2>1, <2>3 DEF Next
<1> QED
  BY <1>1, <1>2, <1>3 DEF Course

\* Only a check says "updated".
LEMMA ExactStep ==
  ASSUME ProfileAssumption, Inv, Course, [Next]_vars, NEW c \in Calls,
         verdict'[c] = "updated", pc[c] = "check", aim[c] # {}
  PROVE  live \in aim[c]
<1>1. verdict[c] = "none"
  BY DEF Course
<1>2. Check(c)
  <2>1. CASE UNCHANGED vars \/ OwnerEdits
    BY <1>1, <2>1 DEF vars, OwnerEdits, callVars
  <2>2. ASSUME NEW d \in Calls, NEW outcome, Ends(d, outcome), outcome # "landed" \/ d # c
        PROVE  FALSE
    BY <1>1, <2>2 DEF Ends, Returns, Inv, TypeOK
  <2>3. ASSUME NEW d \in Calls, Call(d) PROVE Check(c)
    <3>1. CASE UpdateSection(d) \/ UpdateProfile(d) \/ Restore(d)
      <4>1. PICK writes \in SUBSET Units, rest \in BOOLEAN, aims \in SUBSET Sections :
              Begins(d, writes, rest, aims)
        BY <3>1, StartLemma
      <4> QED
        BY <1>1, <4>1 DEF Begins
    <3>2. CASE Raises(d)
      BY <2>2, <3>2 DEF Raises
    <3>3. CASE Read(d)
      BY <1>1, <2>2, <3>3 DEF Read
    <3>4. CASE Send(d) \/ SendAgain(d) \/ Cut(d)
      BY <1>1, <3>4 DEF Send, SendAgain, Cut, Returns, callVars, Inv, TypeOK
    <3>5. CASE Check(d)
      BY <2>2, <3>5 DEF Check
    <3> QED
      BY <2>3, <3>1, <3>2, <3>3, <3>4, <3>5 DEF Call
  <2> QED
    BY <2>1, <2>3 DEF Next
<1>3. Outcome(unit[c], before[c], live) = "landed" /\ plan[c] = {} /\ ~skipped[c]
  BY <1>1, <1>2 DEF Check, Ends, Returns, Inv, TypeOK
<1>4. Verified(unit[c], live)
  BY <1>3 DEF Outcome
<1>5. CASE unit[c].row = None
  BY <1>3, <1>4, <1>5 DEF Course, OnCourse, CreateOnCourse, Verified, Twinless
<1>6. CASE unit[c].row # None
  <2>1. live[unit[c].row] = unit[c].value /\ unit[c] \in Units /\ live \in Sections
    BY <1>4, <1>6 DEF Verified, Inv, TypeOK
  <2>2. After(live, plan[c] \cup {unit[c]}) \subseteq aim[c]
    BY <1>3, <1>6, <2>1 DEF Course, OnCourse, UpdateOnCourse
  <2>3. live \in After(live, {unit[c]})
    BY <2>1 DEF After, Units
  <2> QED
    BY <1>3, <2>2, <2>3
<1> QED
  BY <1>5, <1>6

\* "updated" is never said of a section that is not as its writes should leave it, if
\* only they have changed it and no row to be made had a twin.
THEOREM SuccessIsExact == Spec => UpdatedIsExact
<1>1. Init => Course
  BY DEF Init, Course, OnCourse
<1>2. Spec => [](Inv /\ Course)
  BY <1>1, Invariance, CourseNext, ProfileAssumption, PTL DEF Spec
<1>3. Inv /\ Course /\ [Next]_vars =>
        [\A c \in Calls : verdict'[c] = "updated" /\ pc[c] = "check" /\ aim[c] # {} =>
           live \in aim[c]]_vars
  BY ExactStep, ProfileAssumption
<1> QED
  BY <1>2, <1>3, PTL DEF Spec, UpdatedIsExact
=============================================================================

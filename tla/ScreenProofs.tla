---------------------------- MODULE ScreenProofs -----------------------------
(***************************************************************************)
(* What is proved of the screens of a household: its chores and their      *)
(* archive, the question of the evening, the reminders a screen sends,     *)
(* what its assistant may send away and the browser it runs in.  One       *)
(* section for each component, in which its invariant is stated and shown  *)
(* inductive.                                                              *)
(***************************************************************************)
EXTENDS Chores, Evening, Reminders, Assistant, Browser, FiniteSetTheorems,
        SequenceTheorems, TLAPS, WellFoundedInduction

(***************************************************************************)
(* The archive of a chore agrees with its marks, for any number of people, *)
(* days, rotations and cadences (Chores).                                  *)
(*                                                                         *)
(* Every tap writes the mark of a day and the archive in one step, so what *)
(* has to be seen is that the entries it leaves are those of the other     *)
(* days: a day has one entry, and undoing takes that one out of the middle *)
(* of the sequence.                                                        *)
(***************************************************************************)
ChoresSpec == ChoresInit /\ [][ChoresNext]_choreVars

Someone == Members \cup {Nobody}
Marks == Completions \cup {NoMark, Skip}
EntryRecord == [day : Days, by : Someone, type : {"user", "display", "onBehalf"}]
ChoreRecord ==
    [here : BOOLEAN, created : Days, cadence : Cadences, rotation : Rotations \cup {<<>>},
     owner : Someone, pause : Pauses, moved : [Days -> 0..(LastDay + 3)], done : [Days -> Marks]]

ChoresInv == ChoresTypeOK /\ ArchiveAgrees

LEMMA ChoresTypesAre ==
    ChoresTypeOK <=>
       chore \in ChoreRecord /\ record \in Seq(EntryRecord) /\ keeping \in BOOLEAN /\ today \in Days
BY DEF ChoresTypeOK, ChoreRecord, Someone, Marks, EntryRecord

LEMMA MarksAre ==
    /\ NoMark \in Marks /\ Skip \in Marks /\ ~IsCompletion(NoMark) /\ ~IsCompletion(Skip)
    /\ \A mark \in Marks : IsCompletion(mark) <=> mark \in Completions
    /\ \A mark \in Completions : /\ mark.by \in Someone /\ mark.for \in Someone /\ mark.user \in Someone \cup {"guest"}
                                 /\ mark.locked \in BOOLEAN
BY DEF NoMark, Skip, IsCompletion, Marks, Completions, Someone

\* Some numbers have a least one, and a greatest if they are bounded.
LEMMA LeastIs ==
    ASSUME NEW T \in SUBSET Nat, T # {}
    PROVE  Min(T) \in T /\ \A y \in T : Min(T) <= y
<1> DEFINE Before == {ss \in Nat \X Nat : ss[1] < ss[2]}
<1>1. IsWellFoundedOn(Before, Nat)
  BY NatLessThanWellFounded DEF OpToRel
<1> HIDE DEF Before
<1>2. PICK x \in T : \A y \in T : ~(<<y, x>> \in Before)
  BY <1>1, WFMin
<1>3. \A y \in T : ~(y < x)
  BY <1>2 DEF Before
<1>4. \A y \in T : x <= y
  BY <1>3
<1>. QED
  BY <1>4 DEF Min

LEMMA GreatestIs ==
    ASSUME NEW n \in Nat, NEW T \in SUBSET (1..n), T # {}
    PROVE  Max(T) \in T
<1> DEFINE D == {k \in Nat : k <= n /\ n - k \in T}
<1>1. PICK z \in T : TRUE
  OBVIOUS
<1>2. n - z \in D
  BY <1>1
<1>3. Min(D) \in D /\ \A y \in D : Min(D) <= y
  BY <1>2, LeastIs
<1> DEFINE x == n - Min(D)
<1>4. x \in T /\ x \in Nat /\ Min(D) \in Nat
  BY <1>3
<1>5. \A y \in T : x >= y
  <2>. SUFFICES ASSUME NEW y \in T PROVE x >= y
    OBVIOUS
  <2>1. n - y \in D
    OBVIOUS
  <2>2. Min(D) <= n - y /\ y \in Nat
    BY <1>3, <2>1
  <2> HIDE DEF D
  <2>. QED
    BY <1>4, <2>2
<1> HIDE DEF D, x
<1>. QED
  BY <1>4, <1>5 DEF Max

\* A sequence without its i-th element.
LEMMA RemovedIs ==
    ASSUME NEW S, NEW s \in Seq(S), NEW i \in 1..Len(s)
    PROVE  /\ RemoveAt(s, i) \in Seq(S) /\ Len(RemoveAt(s, i)) = Len(s) - 1
           /\ \A j \in 1..(Len(s) - 1) : RemoveAt(s, i)[j] = IF j < i THEN s[j] ELSE s[j + 1]
<1> DEFINE a == SubSeq(s, 1, i - 1)
           b == SubSeq(s, i + 1, Len(s))
<1>0. Len(s) \in Nat /\ i \in Nat /\ i <= Len(s) /\ i >= 1
  BY LenProperties
<1>1. a \in Seq(S) /\ Len(a) = i - 1 /\ \A j \in 1..(i - 1) : a[j] = s[j]
  BY SubSeqProperties
<1>2. b \in Seq(S) /\ Len(b) = Len(s) - i /\ \A j \in 1..(Len(s) - i) : b[j] = s[i + j]
  BY SubSeqProperties
<1>3. RemoveAt(s, i) = a \o b
  BY DEF RemoveAt
<1> HIDE DEF a, b
<1>4. /\ a \o b \in Seq(S) /\ Len(a \o b) = Len(a) + Len(b)
      /\ \A j \in 1..(Len(a) + Len(b)) : (a \o b)[j] = IF j <= Len(a) THEN a[j] ELSE b[j - Len(a)]
  BY <1>1, <1>2, ConcatProperties
<1>5. Len(a) + Len(b) = Len(s) - 1
  BY <1>0, <1>1, <1>2
<1>6. \A j \in 1..(Len(s) - 1) : (a \o b)[j] = IF j < i THEN s[j] ELSE s[j + 1]
  BY <1>0, <1>1, <1>2, <1>4, <1>5
<1>. QED
  BY <1>3, <1>4, <1>5, <1>6

-----------------------------------------------------------------------------
(* Whose turn it is: a person, or nobody.                                  *)

LEMMA ChoreIs ==
    ASSUME NEW c \in ChoreRecord
    PROVE  /\ c.here \in BOOLEAN /\ c.cadence \in Cadences /\ c.rotation \in Seq(Members)
           /\ c.rotation \in Rotations \cup {<<>>} /\ c.owner \in Someone /\ c.pause \in Pauses
           /\ c.moved \in [Days -> 0..(LastDay + 3)] /\ c.done \in [Days -> Marks] /\ c.created \in Days
<1>1. c.rotation \in Rotations \cup {<<>>}
  BY DEF ChoreRecord
<1>2. c.rotation \in Seq(Members)
  <2>1. <<>> \in Seq(Members)
    BY EmptySeq
  <2>. QED
    BY <1>1, <2>1, ChoresAssumption
<1>. QED
  BY <1>1, <1>2 DEF ChoreRecord

LEMMA NextIsSomeone ==
    ASSUME NEW c \in ChoreRecord, NEW p, Len(c.rotation) > 0
    PROVE  NextInLine(c, p) \in Members
<1> DEFINE I == {i \in 1..Len(c.rotation) : c.rotation[i] = p}
           at == SelectInSeq(c.rotation, LAMBDA x : x = p)
<1>1. c.rotation \in Seq(Members) /\ Len(c.rotation) \in Nat
  BY ChoreIs
<1>2. at = IF I # {} THEN Min(I) ELSE 0
  BY DEF SelectInSeq
<1>3. I # {} => Min(I) \in I
  <2>1. I \in SUBSET Nat
    OBVIOUS
  <2> HIDE DEF I
  <2>. QED
    BY <2>1, LeastIs
<1>4. at \in Nat
  BY <1>2, <1>3
<1> HIDE DEF at
<1>5. at % Len(c.rotation) \in 0..(Len(c.rotation) - 1)
  <2> DEFINE n == Len(c.rotation)
  <2>1. n \in Nat /\ n > 0
    BY <1>1
  <2> HIDE DEF n
  <2>2. at % n \in 0..(n - 1)
    BY <1>4, <2>1
  <2>. QED
    BY <2>2 DEF n
<1>6. (at % Len(c.rotation)) + 1 \in 1..Len(c.rotation)
  BY <1>1, <1>5
<1>7. c.rotation[(at % Len(c.rotation)) + 1] \in Members /\ c.rotation[1] \in Members
  BY <1>1, <1>6
<1>. QED
  BY <1>7 DEF NextInLine, at

LEMMA ScheduledIsSomeone ==
    ASSUME NEW c \in ChoreRecord, NEW d \in Days, c.cadence.type = "perPerson"
    PROVE  ScheduledPerson(c, d) \in Someone
<1> DEFINE theirs == {p \in Members : DayOfWeek(d) \in c.cadence.people[p]}
           ranked == {i \in DOMAIN c.rotation : c.rotation[i] \in theirs}
<1>1. c.rotation \in Seq(Members) /\ DOMAIN c.rotation = 1..Len(c.rotation) /\ Len(c.rotation) \in Nat
  BY ChoreIs, LenProperties
<1>2. ranked # {} => Min(ranked) \in ranked
  <2>1. ranked \in SUBSET Nat
    BY <1>1
  <2> HIDE DEF ranked
  <2>. QED
    BY <2>1, LeastIs
<1>3. ranked # {} => c.rotation[Min(ranked)] \in Members
  BY <1>1, <1>2
<1> HIDE DEF ranked
<1>4. theirs # {} => (CHOOSE p \in theirs : TRUE) \in Members
  OBVIOUS
<1> HIDE DEF theirs
<1>. QED
  BY <1>3, <1>4 DEF ScheduledPerson, Someone, ranked, theirs

LEMMA AssigneeIsSomeone ==
    ASSUME NEW c \in ChoreRecord, NEW d \in Days
    PROVE  AssigneeFor(c, d) \in Someone
<1> DEFINE named == IF c.cadence.type = "perPerson" THEN ScheduledPerson(c, d) ELSE Nobody
           onDay == IF IsCompletion(c.done[d]) THEN Holder(c, c.done[d]) ELSE Nobody
           last  == LastCompletion(c, d)
<1>1. named \in Someone
  BY ScheduledIsSomeone DEF Someone
<1>2. /\ c.rotation \in Seq(Members) /\ Len(c.rotation) \in Nat /\ c.owner \in Someone /\ c.done \in [Days -> Marks]
  BY ChoreIs
<1>3. onDay \in Someone
  BY <1>2, MarksAre DEF Holder, Someone
<1>4. last # 0 => last \in Days /\ IsCompletion(c.done[last])
  <2> DEFINE before == {k \in Days : k < d /\ IsCompletion(c.done[k])}
  <2>1. before # {} => Max(before) \in before
    BY GreatestIs, ChoresAssumption DEF Days
  <2>2. last = IF before = {} THEN 0 ELSE Max(before)
    BY DEF LastCompletion
  <2> HIDE DEF before
  <2>3. CASE before = {}
    <3>1. last = 0
      BY <2>2, <2>3, Zenon
    <3>. QED
      BY <3>1
  <2>4. CASE before # {}
    <3>1. last \in before
      BY <2>1, <2>2, <2>4
    <3>. QED
      BY <3>1 DEF before
  <2>. QED
    BY <2>3, <2>4
<1>5. c.rotation # <<>> => c.rotation[1] \in Members /\ Len(c.rotation) > 0
  BY <1>2
<1>6. last # 0 => c.done[last].for \in Someone
  BY <1>2, <1>4, MarksAre
<1>7. Rotating(c) => c.rotation # <<>> /\ \A p : NextInLine(c, p) \in Members
  BY <1>2, NextIsSomeone DEF Rotating
<1> HIDE DEF named, onDay, last
<1>8. AssigneeFor(c, d) = IF named # Nobody THEN named
        ELSE IF ~Rotating(c) THEN IF c.rotation = <<>> THEN c.owner ELSE c.rotation[1]
        ELSE IF onDay # Nobody THEN onDay
        ELSE IF last = 0 THEN c.rotation[1]
        ELSE IF InRotation(c, c.done[last].for) THEN c.done[last].for
        ELSE NextInLine(c, c.done[last].by)
  BY DEF AssigneeFor, named, onDay, last
<1>. QED
  BY <1>1, <1>2, <1>3, <1>5, <1>6, <1>7, <1>8 DEF Someone

\* What a tap writes: a completion that names somebody or nobody, and an entry that says so.
LEMMA TapsWrite ==
    ASSUME NEW actor \in Actors, NEW fallback \in Someone, NEW d \in Days
    PROVE  /\ MarkCompleted(actor, fallback) \in Completions
           /\ Entry(d, MarkCompleted(actor, fallback)) \in EntryRecord
           /\ \A person \in Members : /\ Covered(fallback, person, actor) \in Completions
                                      /\ Entry(d, Covered(fallback, person, actor)) \in EntryRecord
<1>1. /\ actor.kind \in {"member", "unlinked", "display"} /\ actor.person \in Someone
      /\ actor.user \in Members \cup {"guest", Nobody}
  BY DEF Actors, Someone
<1>2. MarkCompleted(actor, fallback) \in Completions
  BY <1>1 DEF MarkCompleted, Completions, Someone, Nobody
<1>3. \A person \in Members : Covered(fallback, person, actor) \in Completions
  BY <1>1 DEF Covered, Completions, Someone
<1>4. MarkCompleted(actor, fallback).type \in {"user", "display"} /\ MarkCompleted(actor, fallback).by \in Someone
  BY <1>1 DEF MarkCompleted, Someone
<1>5. \A person \in Members : /\ Covered(fallback, person, actor).type = "onBehalf"
                              /\ Covered(fallback, person, actor).by \in Someone
  BY DEF Covered, Someone
<1>. QED
  BY <1>2, <1>3, <1>4, <1>5 DEF Entry, EntryRecord

-----------------------------------------------------------------------------
(* The steps.                                                              *)

LEMMA ChoresInitially == ChoresInit => ChoresInv
<1>. SUFFICES ASSUME ChoresInit PROVE ChoresInv
  OBVIOUS
<1>1. PICK first \in {NoMark} \cup {ByHand(p) : p \in Members}, k \in Choosable, r \in Rotations \cup {<<>>}, p \in Members :
         chore = [here |-> TRUE, created |-> 1, cadence |-> k, rotation |-> r, owner |-> p, pause |-> NoPause,
                  moved |-> [d \in Days |-> 0], done |-> [d \in Days |-> IF d = 1 THEN first ELSE NoMark]]
  BY DEF ChoresInit
<1>2. first \in Marks
  BY MarksAre DEF ByHand, Marks, Completions
<1>3. 1 \in Days /\ NoPause \in Pauses /\ 0 \in 0..(LastDay + 3) /\ k \in Cadences
  BY ChoresAssumption, CadencesAssumption DEF Days, NoPause, Pauses
<1>4. chore \in ChoreRecord
  BY <1>1, <1>2, <1>3, MarksAre DEF ChoreRecord, Someone
<1>5. record = <<>> /\ keeping \in BOOLEAN /\ today = 1
  BY DEF ChoresInit
<1>6. record \in Seq(EntryRecord) /\ DOMAIN record = {}
  BY <1>5, EmptySeq, LenProperties
<1>. QED
  BY <1>3, <1>4, <1>5, <1>6, ChoresTypesAre DEF ChoresInv, ArchiveAgrees

\* What the archive says of its entries.
LEMMA EntriesAre ==
    ASSUME ChoresInv
    PROVE  /\ record \in Seq(EntryRecord) /\ DOMAIN record = 1..Len(record) /\ Len(record) \in Nat
           /\ \A i \in 1..Len(record) : record[i] \in EntryRecord /\ record[i].day \in Days
           /\ chore \in ChoreRecord /\ chore.done \in [Days -> Marks]
           /\ chore.here => \A i \in 1..Len(record) :
                 /\ IsCompletion(chore.done[record[i].day])
                 /\ record[i] = Entry(record[i].day, chore.done[record[i].day])
           /\ chore.here => \A i, j \in 1..Len(record) : record[i].day = record[j].day => i = j
<1>1. record \in Seq(EntryRecord) /\ chore \in ChoreRecord
  BY ChoresTypesAre DEF ChoresInv
<1>2. DOMAIN record = 1..Len(record) /\ Len(record) \in Nat /\ \A i \in 1..Len(record) : record[i] \in EntryRecord
  BY <1>1, LenProperties
<1>3. \A i \in 1..Len(record) : record[i].day \in Days
  BY <1>2 DEF EntryRecord
<1>. QED
  BY <1>1, <1>2, <1>3, ChoreIs DEF ChoresInv, ArchiveAgrees

\* The archive stays, and so does everything that is done.
LEMMA SameArchiveKeeps ==
    ASSUME ChoresInv, chore' \in ChoreRecord, chore'.here => chore.here,
           \A k \in Days : IsCompletion(chore.done[k]) => chore'.done[k] = chore.done[k],
           UNCHANGED record, keeping' \in BOOLEAN, today' \in Days
    PROVE  ChoresInv'
<1>1. ChoresTypeOK'
  BY ChoresTypesAre DEF ChoresInv, ChoresTypeOK, ChoreRecord, Someone, Marks, EntryRecord
<1>2. ArchiveAgrees'
  BY EntriesAre DEF ArchiveAgrees
<1>. QED
  BY <1>1, <1>2 DEF ChoresInv

\* Writing a mark.
LEMMA MarkedIs ==
    ASSUME ChoresInv, NEW c \in ChoreRecord, NEW d \in Days, NEW mark \in Marks
    PROVE  LET after == [c EXCEPT !.done[d] = mark]
           IN  /\ after \in ChoreRecord /\ after.here = c.here
               /\ after.done = [c.done EXCEPT ![d] = mark]
<1>1. c.done \in [Days -> Marks]
  BY ChoreIs
<1>2. [c.done EXCEPT ![d] = mark] \in [Days -> Marks]
  BY <1>1
<1>. QED
  BY <1>2 DEF ChoreRecord

\* A completion is written, and its entry, if the archive is kept.
LEMMA CompletingKeeps ==
    ASSUME ChoresInv, NEW c \in ChoreRecord, c.here = chore.here, c.done = chore.done,
           NEW d \in Days, NEW mark \in Completions, Entry(d, mark) \in EntryRecord,
           ~IsCompletion(chore.done[d]), chore' = [c EXCEPT !.done[d] = mark],
           record' = AppendArchive(Entry(d, mark)), UNCHANGED <<keeping, today>>
    PROVE  ChoresInv'
<1>1. mark \in Marks /\ IsCompletion(mark)
  BY DEF Marks, IsCompletion, Completions
<1>2. chore' \in ChoreRecord /\ chore'.here = chore.here /\ chore'.done = [chore.done EXCEPT ![d] = mark]
  BY <1>1, MarkedIs
<1>3. \A k \in Days : chore'.done[k] = IF k = d THEN mark ELSE chore.done[k]
  BY <1>2, EntriesAre
<1>4. record' \in Seq(EntryRecord)
  BY EntriesAre, AppendProperties DEF AppendArchive
<1>5. ChoresTypeOK'
  BY <1>2, <1>4 DEF ChoresInv, ChoresTypeOK, ChoreRecord, Someone, Marks, EntryRecord
<1>6. ASSUME chore.here PROVE \A i \in 1..Len(record) : record[i].day # d
  BY <1>6, EntriesAre
<1>7. CASE ~keeping
  <2>1. record' = record
    BY <1>7 DEF AppendArchive
  <2>2. ArchiveAgrees'
    BY <1>2, <1>3, <1>6, <2>1, EntriesAre DEF ArchiveAgrees
  <2>. QED
    BY <1>5, <2>2 DEF ChoresInv
<1>8. CASE keeping
  <2> DEFINE n == Len(record)
             e == Entry(d, mark)
  <2>1. record' = Append(record, e)
    BY <1>8 DEF AppendArchive
  <2>2. /\ DOMAIN record' = 1..(n + 1) /\ n \in Nat
        /\ \A i \in 1..n : record'[i] = record[i]
        /\ record'[n + 1] = e
    BY <2>1, <1>4, EntriesAre, AppendProperties, LenProperties
  <2>3. e.day = d
    BY DEF Entry
  <2>4. ASSUME chore'.here, NEW i \in DOMAIN record'
        PROVE  /\ IsCompletion(chore'.done[record'[i].day])
               /\ record'[i] = Entry(record'[i].day, chore'.done[record'[i].day])
    <3> HIDE DEF n, e
    <3>1. CASE i = n + 1
      BY <1>1, <1>3, <2>2, <2>3, <3>1 DEF e
    <3>2. CASE i \in 1..n
      BY <1>2, <1>3, <1>6, <2>2, <2>4, <3>2, EntriesAre DEF n
    <3>. QED
      BY <2>2, <3>1, <3>2
  <2>5. ASSUME chore'.here, NEW i \in DOMAIN record', NEW j \in DOMAIN record', record'[i].day = record'[j].day
        PROVE  i = j
    <3>1. \A k \in 1..n : record'[k].day # d
      BY <1>2, <1>6, <2>2, <2>5
    <3>2. (i = n + 1 \/ i \in 1..n) /\ (j = n + 1 \/ j \in 1..n)
      BY <2>2
    <3>3. i \in 1..n /\ j \in 1..n => i = j
      BY <1>2, <2>2, <2>5, EntriesAre
    <3> HIDE DEF n, e
    <3>. QED
      BY <2>2, <2>3, <2>5, <3>1, <3>2, <3>3
  <2>6. ArchiveAgrees'
    BY <2>4, <2>5 DEF ArchiveAgrees
  <2>. QED
    BY <1>5, <2>6 DEF ChoresInv
<1>. QED
  BY <1>7, <1>8

LEMMA TickKeeps ==
    ASSUME ChoresInv, NEW d \in Days, NEW actor \in Actors,
           Tick(d, actor) \/ \E person \in Members : CompleteOnBehalf(d, person, actor)
    PROVE  ChoresInv'
<1>1. chore \in ChoreRecord /\ AssigneeFor(chore, d) \in Someone
  BY EntriesAre, AssigneeIsSomeone
<1>2. ASSUME NEW person \in Members, CompleteOnBehalf(d, person, actor) PROVE ChoresInv'
  BY <1>1, <1>2, TapsWrite, CompletingKeeps DEF CompleteOnBehalf, Mark
<1>3. ASSUME Tick(d, actor) PROVE ChoresInv'
  BY <1>1, <1>3, TapsWrite, CompletingKeeps DEF Tick, Mark
<1>. QED
  BY <1>2, <1>3

\* "Did it today": the interval starts again, and the day is ticked unless it was.
LEMMA DidItTodayKeeps ==
    ASSUME ChoresInv, NEW d \in Days, NEW actor \in Actors, DidItToday(d, actor)
    PROVE  ChoresInv'
<1> DEFINE again == Restart(chore, d)
           mark  == MarkCompleted(actor, AssigneeFor(again, d))
<1>1. chore \in ChoreRecord /\ chore.cadence.type = "interval" /\ chore.cadence \in Cadences
  BY EntriesAre, ChoreIs DEF DidItToday
<1>2. [chore.cadence EXCEPT !.start = d] \in Cadences
  BY <1>1 DEF Cadences
<1>3. again \in ChoreRecord /\ again.here = chore.here /\ again.done = chore.done
  BY <1>1, <1>2 DEF Restart, ChoreRecord
<1>4. mark \in Completions /\ Entry(d, mark) \in EntryRecord
  BY <1>3, AssigneeIsSomeone, TapsWrite
<1>5. /\ chore' = IF IsCompletion(chore.done[d]) THEN again ELSE [again EXCEPT !.done[d] = mark]
      /\ record' = IF IsCompletion(chore.done[d]) THEN record ELSE AppendArchive(Entry(d, mark))
      /\ UNCHANGED <<keeping, today>>
  BY DEF DidItToday
<1>6. keeping' \in BOOLEAN /\ today' \in Days
  BY <1>5, ChoresTypesAre DEF ChoresInv
<1> HIDE DEF again, mark
<1>7. CASE IsCompletion(chore.done[d])
  BY <1>3, <1>5, <1>6, <1>7, SameArchiveKeeps
<1>8. CASE ~IsCompletion(chore.done[d])
  BY <1>3, <1>4, <1>5, <1>8, CompletingKeeps
<1>. QED
  BY <1>7, <1>8

\* A tick is undone: the one entry of its day goes.
LEMMA UntickKeeps ==
    ASSUME ChoresInv, NEW d \in Days, NEW actor \in Actors, Untick(d, actor)
    PROVE  ChoresInv'
<1> DEFINE n  == Len(record)
           at == {i \in DOMAIN record : record[i].day = d}
<1>1. /\ record' = IF at = {} THEN record ELSE RemoveAt(record, Max(at))
      /\ chore' = [chore EXCEPT !.done[d] = NoMark] /\ UNCHANGED <<keeping, today>>
  BY DEF Untick, Mark, RetractArchive
<1>2. chore' \in ChoreRecord /\ chore'.here = chore.here /\ chore'.done = [chore.done EXCEPT ![d] = NoMark]
  BY <1>1, MarksAre, MarkedIs, EntriesAre
<1>3. \A k \in Days : chore'.done[k] = IF k = d THEN NoMark ELSE chore.done[k]
  BY <1>2, EntriesAre
<1>4. record \in Seq(EntryRecord) /\ n \in Nat /\ DOMAIN record = 1..n /\ at \in SUBSET (1..n)
  BY EntriesAre
<1>5. CASE at = {}
  <2>1. record' = record
    BY <1>1, <1>5
  <2>2. \A i \in 1..n : record[i].day # d
    BY <1>4, <1>5
  <2>3. ChoresTypeOK'
    BY <1>1, <1>2, <1>4, <2>1 DEF ChoresInv, ChoresTypeOK, ChoreRecord, Someone, Marks, EntryRecord
  <2>4. ArchiveAgrees'
    BY <1>2, <1>3, <2>1, <2>2, EntriesAre DEF ArchiveAgrees
  <2>. QED
    BY <2>3, <2>4 DEF ChoresInv
<1>6. CASE at # {}
  <2> DEFINE m == Max(at)
             was(i) == IF i < m THEN i ELSE i + 1
  <2>1. m \in at
    <3> HIDE DEF at, n
    <3>. QED
      BY <1>4, <1>6, GreatestIs
  <2>2. m \in 1..n /\ record[m].day = d
    BY <1>4, <2>1
  <2>3. record' = RemoveAt(record, m)
    BY <1>1, <1>6
  <2> HIDE DEF m
  <2>4. /\ record' \in Seq(EntryRecord) /\ Len(record') = n - 1
        /\ \A j \in 1..(n - 1) : record'[j] = record[was(j)]
    BY <1>4, <2>2, <2>3, RemovedIs
  <2>5. DOMAIN record' = 1..(n - 1)
    BY <2>4, LenProperties
  <2>6. /\ \A j \in 1..(n - 1) : was(j) \in 1..n /\ was(j) # m
        /\ \A i, j \in 1..(n - 1) : was(i) = was(j) => i = j
    BY <1>4, <2>2
  <2> HIDE DEF was
  <2>7. ChoresTypeOK'
    BY <1>1, <1>2, <2>4 DEF ChoresInv, ChoresTypeOK, ChoreRecord, Someone, Marks, EntryRecord
  <2>8. ASSUME chore.here PROVE \A i \in 1..n : record[i].day = d => i = m
    BY <2>2, <2>8, EntriesAre
  <2>9. ASSUME chore'.here, NEW j \in 1..(n - 1)
        PROVE  /\ IsCompletion(chore'.done[record'[j].day])
               /\ record'[j] = Entry(record'[j].day, chore'.done[record'[j].day])
    <3>1. record'[j] = record[was(j)] /\ record[was(j)].day # d /\ was(j) \in 1..n
      BY <1>2, <2>4, <2>6, <2>8, <2>9
    <3>. QED
      BY <1>2, <1>3, <2>9, <3>1, EntriesAre
  <2>10. ASSUME chore'.here, NEW i \in 1..(n - 1), NEW j \in 1..(n - 1), record'[i].day = record'[j].day
         PROVE  i = j
    <3>1. was(i) \in 1..n /\ was(j) \in 1..n /\ record[was(i)].day = record[was(j)].day
      BY <2>4, <2>6, <2>10
    <3>2. chore.here => \A k, l \in 1..n : record[k].day = record[l].day => k = l
      BY EntriesAre
    <3>3. was(i) = was(j)
      BY <1>2, <2>10, <3>1, <3>2
    <3>. QED
      BY <2>6, <3>3
  <2>11. ArchiveAgrees'
    BY <2>5, <2>9, <2>10 DEF ArchiveAgrees
  <2>. QED
    BY <2>7, <2>11 DEF ChoresInv
<1>. QED
  BY <1>5, <1>6

\* A correction gives the mark and the entry of the day to the same person.
LEMMA AttributeChoreKeeps ==
    ASSUME ChoresInv, NEW d \in Days, NEW person \in Members, AttributeChore(d, person)
    PROVE  ChoresInv'
<1> DEFINE mark == [chore.done[d] EXCEPT !.by = person]
<1>1. /\ chore.here /\ IsCompletion(chore.done[d]) /\ UNCHANGED <<keeping, today>>
      /\ chore' = [chore EXCEPT !.done[d] = mark] /\ record' = Credited(d, person)
  BY DEF AttributeChore, Mark
<1>2. chore.done[d] \in Completions
  BY <1>1, MarksAre, EntriesAre
<1>3. /\ mark \in Completions /\ mark \in Marks /\ mark.by = person /\ mark.type = chore.done[d].type
      /\ IsCompletion(mark)
  BY <1>2 DEF Completions, Marks, IsCompletion
<1> HIDE DEF mark
<1>4. chore' \in ChoreRecord /\ chore'.here = chore.here /\ chore'.done = [chore.done EXCEPT ![d] = mark]
  <2>1. chore \in ChoreRecord
    BY EntriesAre
  <2>2. mark \in Marks /\ chore' = [chore EXCEPT !.done[d] = mark]
    BY <1>1, <1>3
  <2>. QED
    BY <2>1, <2>2, MarkedIs
<1>5. \A k \in Days : chore'.done[k] = IF k = d THEN mark ELSE chore.done[k]
  BY <1>4, EntriesAre
<1>6. /\ DOMAIN record' = 1..Len(record) /\ Len(record) \in Nat
      /\ \A i \in 1..Len(record) :
           record'[i] = IF record[i].day = d THEN [record[i] EXCEPT !.by = person] ELSE record[i]
  BY <1>1, EntriesAre DEF Credited
<1>7. \A i \in 1..Len(record) : record'[i] \in EntryRecord /\ record'[i].day = record[i].day
  BY <1>6, EntriesAre DEF EntryRecord, Someone
<1>8. record' \in Seq(EntryRecord)
  <2>1. record' = [i \in 1..Len(record) |-> record'[i]]
    BY <1>1, <1>6, EntriesAre DEF Credited
  <2>. QED
    BY <1>6, <1>7, <2>1, IsASeq
<1>9. ChoresTypeOK'
  BY <1>1, <1>4, <1>8 DEF ChoresInv, ChoresTypeOK, ChoreRecord, Someone, Marks, EntryRecord
<1>10. ASSUME NEW i \in 1..Len(record)
       PROVE  /\ IsCompletion(chore'.done[record'[i].day])
              /\ record'[i] = Entry(record'[i].day, chore'.done[record'[i].day])
  <2>1. CASE record[i].day = d
    <3>1. record[i] = [day |-> d, by |-> chore.done[d].by, type |-> chore.done[d].type]
      BY <1>1, <2>1, EntriesAre DEF Entry
    <3>2. record'[i] = [day |-> d, by |-> person, type |-> chore.done[d].type]
      BY <1>6, <2>1, <3>1
    <3>. QED
      BY <1>3, <1>5, <3>2 DEF Entry
  <2>2. CASE record[i].day # d
    BY <1>1, <1>5, <1>6, <2>2, EntriesAre
  <2>. QED
    BY <2>1, <2>2
<1>11. ArchiveAgrees'
  BY <1>1, <1>6, <1>7, <1>10, EntriesAre DEF ArchiveAgrees
<1>. QED
  BY <1>9, <1>11 DEF ChoresInv

\* What is skipped or moved was not done, so that no entry is of it.
LEMMA ChoresMovingKeeps ==
    ASSUME ChoresInv, NEW d \in Days, SkipChore(d) \/ Moves(d)
    PROVE  ChoresInv'
<1>1. chore \in ChoreRecord /\ chore.done \in [Days -> Marks] /\ chore.moved \in [Days -> 0..(LastDay + 3)]
  BY EntriesAre, ChoreIs
<1>2. keeping \in BOOLEAN /\ today \in Days /\ LastDay \in Nat
  BY ChoresTypesAre, ChoresAssumption DEF ChoresInv
<1>3. ASSUME SkipChore(d) PROVE ChoresInv'
  <2> DEFINE after == [k \in Days |-> IF k \in OwedOccurrences(chore, d) THEN Skip ELSE chore.done[k]]
  <2>1. after \in [Days -> Marks]
    BY <1>1, MarksAre
  <2>2. \A k \in Days : IsCompletion(chore.done[k]) => after[k] = chore.done[k]
    <3>1. chore.created \in Days
      BY EntriesAre, ChoreIs
    <3>2. ASSUME NEW k \in Days, k \in OwedOccurrences(chore, d) PROVE chore.done[k] = NoMark
      <4>1. CASE k = d
        BY <1>3, <4>1 DEF SkipChore
      <4>2. CASE k # d
        <5>1. k \in SinceDealtWith(chore, d)
          BY <3>2, <4>2 DEF OwedOccurrences
        <5>2. k \in k..(d - 1)
          BY <3>1, <5>1 DEF SinceDealtWith, Days
        <5>. QED
          BY <5>1, <5>2 DEF SinceDealtWith
      <4>. QED
        BY <4>1, <4>2
    <3>. QED
      BY <3>2, MarksAre
  <2>3. chore' = [chore EXCEPT !.done = after] /\ UNCHANGED <<record, keeping, today>>
    BY <1>3 DEF SkipChore, SkipDays
  <2> HIDE DEF after
  <2>4. chore' \in ChoreRecord /\ chore'.done = after /\ chore'.here = chore.here
    BY <1>1, <2>1, <2>3 DEF ChoreRecord
  <2>. QED
    BY <1>2, <2>2, <2>3, <2>4, SameArchiveKeeps
<1>4. ASSUME NEW from \in Days, NEW to \in 0..(LastDay + 3), chore' = [chore EXCEPT !.moved[from] = to],
             UNCHANGED <<record, keeping, today>>
      PROVE  ChoresInv'
  <2>1. [chore.moved EXCEPT ![from] = to] \in [Days -> 0..(LastDay + 3)]
    BY <1>1
  <2>2. chore' \in ChoreRecord /\ chore'.done = chore.done /\ chore'.here = chore.here
    BY <1>1, <1>4, <2>1 DEF ChoreRecord
  <2>. QED
    BY <1>2, <1>4, <2>2, SameArchiveKeeps
<1>5. ASSUME PutBack(d) PROVE ChoresInv'
  BY <1>2, <1>4, <1>5 DEF PutBack, MovedFrom
<1>6. ASSUME NEW days \in 1..3, MoveOccurrence(d, days) PROVE ChoresInv'
  <2>1. d + days \in 0..(LastDay + 3)
    BY <1>2 DEF Days
  <2>2. PICK from \in Days : chore' = [chore EXCEPT !.moved[from] = d + days]
    BY <1>6 DEF MoveOccurrence, MovedFrom
  <2>. QED
    BY <1>4, <1>6, <2>1, <2>2 DEF MoveOccurrence
<1>. QED
  BY <1>3, <1>5, <1>6 DEF Moves

\* The editor changes no mark.
LEMMA EditingKeeps ==
    ASSUME ChoresInv, EditCadence \/ EditRotation \/ EditPause \/ ResumeChore \/ RemoveChore
    PROVE  ChoresInv'
<1>1. chore \in ChoreRecord /\ keeping \in BOOLEAN /\ today \in Days
  BY ChoresTypesAre DEF ChoresInv
<1>2. \/ \E k \in Cadences : chore' = [chore EXCEPT !.cadence = k]
      \/ \E r \in Rotations \cup {<<>>}, p \in Members : chore' = [chore EXCEPT !.rotation = r, !.owner = p]
      \/ \E p \in Pauses : chore' = [chore EXCEPT !.pause = p]
      \/ chore.here /\ chore' = [chore EXCEPT !.here = FALSE]
  <2>1. ASSUME EditCadence PROVE \E k \in Cadences : chore' = [chore EXCEPT !.cadence = k]
    BY <2>1, CadencesAssumption DEF EditCadence
  <2>2. ASSUME EditPause PROVE \E p \in Pauses : chore' = [chore EXCEPT !.pause = p]
    <3>1. PICK from \in Days, until \in Days \cup {0} : chore' = [chore EXCEPT !.pause = [from |-> from, until |-> until]]
      BY <2>2 DEF EditPause
    <3>2. [from |-> from, until |-> until] \in Pauses
      BY ChoresAssumption DEF Pauses, Days
    <3>. QED
      BY <3>1, <3>2
  <2>3. ASSUME ResumeChore PROVE \E p \in Pauses : chore' = [chore EXCEPT !.pause = p]
    <3>1. NoPause \in Pauses
      BY ChoresAssumption DEF Pauses, NoPause
    <3>. QED
      BY <2>3, <3>1 DEF ResumeChore
  <2>. QED
    BY <2>1, <2>2, <2>3 DEF EditRotation, RemoveChore
<1>3. chore' \in ChoreRecord /\ chore'.done = chore.done /\ (chore'.here => chore.here)
  BY <1>1, <1>2 DEF ChoreRecord, Someone
<1>4. UNCHANGED <<record, keeping, today>>
  BY DEF EditCadence, EditRotation, EditPause, ResumeChore, RemoveChore
<1>. QED
  BY <1>1, <1>3, <1>4, SameArchiveKeeps

LEMMA ArchivingKeeps ==
    ASSUME ChoresInv, EnableArchive \/ WipeArchive \/ NewDay
    PROVE  ChoresInv'
<1>1. chore \in ChoreRecord /\ keeping \in BOOLEAN /\ today \in Days /\ LastDay \in Nat
  BY ChoresTypesAre, ChoresAssumption DEF ChoresInv
<1>2. CASE EnableArchive
  BY <1>1, <1>2, SameArchiveKeeps DEF EnableArchive
<1>3. CASE WipeArchive
  <2>1. record' = <<>> /\ keeping' = FALSE /\ chore' = chore /\ today' = today
    BY <1>3 DEF WipeArchive
  <2>2. record' \in Seq(EntryRecord) /\ DOMAIN record' = {}
    BY <2>1, EmptySeq, LenProperties
  <2>3. ChoresTypeOK'
    BY <1>1, <2>1, <2>2 DEF ChoresTypeOK, ChoreRecord, Someone, Marks, EntryRecord
  <2>. QED
    BY <2>2, <2>3 DEF ChoresInv, ArchiveAgrees
<1>4. CASE NewDay
  <2>1. today' \in Days /\ UNCHANGED <<chore, record, keeping>>
    BY <1>1, <1>4 DEF NewDay, Days
  <2>. QED
    BY <1>1, <2>1, SameArchiveKeeps
<1>. QED
  BY <1>2, <1>3, <1>4

LEMMA ChoresStep == ChoresInv /\ [ChoresNext]_choreVars => ChoresInv'
<1>. SUFFICES ASSUME ChoresInv, [ChoresNext]_choreVars PROVE ChoresInv'
  OBVIOUS
<1>1. CASE UNCHANGED choreVars
  BY <1>1, ChoresTypesAre, SameArchiveKeeps DEF choreVars, ChoresInv
<1>2. ASSUME NEW d \in Days, SkipChore(d) \/ Moves(d) PROVE ChoresInv'
  BY <1>2, ChoresMovingKeeps
<1>3. ASSUME NEW d \in Days, Corrections(d) PROVE ChoresInv'
  BY <1>3, AttributeChoreKeeps DEF Corrections
<1>4. ASSUME NEW d \in Days, NEW actor \in Actors, Taps(d, actor) PROVE ChoresInv'
  BY <1>4, TickKeeps, UntickKeeps, DidItTodayKeeps DEF Taps
<1>5. CASE EditCadence \/ EditRotation \/ EditPause \/ ResumeChore \/ RemoveChore
  BY <1>5, EditingKeeps
<1>6. CASE EnableArchive \/ WipeArchive \/ NewDay
  BY <1>6, ArchivingKeeps
<1>. QED
  BY <1>1, <1>2, <1>3, <1>4, <1>5, <1>6 DEF ChoresNext

\* The archive and the marks of a chore agree, whoever ticks, undoes or corrects
\* (ArchiveAgrees).
THEOREM ArchivesAgree == ChoresSpec => []ArchiveAgrees
<1>1. ChoresInv => ArchiveAgrees
  BY DEF ChoresInv
<1>. QED
  BY <1>1, ChoresInitially, ChoresStep, PTL DEF ChoresSpec

-----------------------------------------------------------------------------
(* What is owed stays.                                                     *)

\* The turn depends on the rotation, on the day's own mark and on the last completion.
LEMMA SameTurn ==
    ASSUME NEW c \in ChoreRecord, NEW e \in ChoreRecord, NEW d \in Days, NEW f \in Days,
           c.cadence.type # "perPerson", e.cadence.type # "perPerson",
           e.rotation = c.rotation, e.owner = c.owner,
           ~IsCompletion(c.done[d]), ~IsCompletion(e.done[f]),
           LastCompletion(e, f) = LastCompletion(c, d),
           LastCompletion(c, d) # 0 => e.done[LastCompletion(c, d)] = c.done[LastCompletion(c, d)]
    PROVE  AssigneeFor(e, f) = AssigneeFor(c, d)
<1>1. \A p : NextInLine(e, p) = NextInLine(c, p) /\ InRotation(e, p) = InRotation(c, p)
  BY DEF NextInLine, InRotation
<1>2. Rotating(e) = Rotating(c)
  BY DEF Rotating
<1> DEFINE last == LastCompletion(c, d)
           turn == IF ~Rotating(c) THEN IF c.rotation = <<>> THEN c.owner ELSE c.rotation[1]
                   ELSE IF last = 0 THEN c.rotation[1]
                   ELSE IF InRotation(c, c.done[last].for) THEN c.done[last].for
                   ELSE NextInLine(c, c.done[last].by)
<1>3. AssigneeFor(c, d) = turn
  BY DEF AssigneeFor
<1>4. AssigneeFor(e, f) = IF ~Rotating(e) THEN IF e.rotation = <<>> THEN e.owner ELSE e.rotation[1]
                          ELSE IF last = 0 THEN e.rotation[1]
                          ELSE IF InRotation(e, e.done[last].for) THEN e.done[last].for
                          ELSE NextInLine(e, e.done[last].by)
  BY DEF AssigneeFor
<1> HIDE DEF last
<1>5. AssigneeFor(e, f) = turn
  <2>1. last # 0 => e.done[last] = c.done[last]
    BY DEF last
  <2>2. CASE last = 0
    BY <1>2, <1>4, <2>2
  <2>3. CASE last # 0
    BY <1>1, <1>2, <1>4, <2>1, <2>3
  <2>. QED
    BY <2>2, <2>3
<1>. QED
  BY <1>3, <1>5

\* A day that ends without a completion takes the turn from nobody.
LEMMA DaysKeepTheTurn ==
    ASSUME ChoresInv, NewDay, chore.cadence.type # "perPerson",
           ~IsCompletion(chore.done[today]), ~IsCompletion(chore.done[today'])
    PROVE  AssigneeFor(chore, today') = AssigneeFor(chore, today)
<1>1. chore \in ChoreRecord /\ today \in Days /\ today' = today + 1 /\ today' \in Days
  BY ChoresTypesAre, ChoresAssumption DEF ChoresInv, NewDay, Days
<1>2. {k \in Days : k < today' /\ IsCompletion(chore.done[k])} = {k \in Days : k < today /\ IsCompletion(chore.done[k])}
  BY <1>1, ChoresAssumption DEF Days
<1>3. LastCompletion(chore, today') = LastCompletion(chore, today)
  BY <1>2 DEF LastCompletion
<1>. QED
  BY <1>1, <1>3, SameTurn

\* What a skip leaves: a mark on every occurrence that was owed, and all else.
LEMMA SkippedIs ==
    ASSUME NEW c \in ChoreRecord, NEW d \in Days, c.done[d] = NoMark
    PROVE  LET e == SkipDays(c, d)
           IN  /\ e \in ChoreRecord /\ e.created = c.created /\ e.rotation = c.rotation /\ e.owner = c.owner
               /\ e.cadence = c.cadence /\ e.pause = c.pause /\ e.moved = c.moved
               /\ \A k \in Days : e.done[k] = IF k \in OwedOccurrences(c, d) THEN Skip ELSE c.done[k]
               /\ \A k \in OwedOccurrences(c, d) \cap Days : c.done[k] = NoMark
               /\ \A k \in Days : DueOn(e, k) = DueOn(c, k)
<1> DEFINE e == SkipDays(c, d)
           after == [k \in Days |-> IF k \in OwedOccurrences(c, d) THEN Skip ELSE c.done[k]]
<1>1. c.done \in [Days -> Marks] /\ c.created \in Days
  BY ChoreIs
<1>2. after \in [Days -> Marks] /\ \A k \in Days : after[k] = IF k \in OwedOccurrences(c, d) THEN Skip ELSE c.done[k]
  BY <1>1, MarksAre
<1>3. e = [c EXCEPT !.done = after]
  BY DEF SkipDays
<1> HIDE DEF after, e
<1>4. /\ e \in ChoreRecord /\ e.created = c.created /\ e.rotation = c.rotation /\ e.owner = c.owner
      /\ e.cadence = c.cadence /\ e.pause = c.pause /\ e.moved = c.moved /\ e.done = after
  BY <1>2, <1>3 DEF ChoreRecord
<1>5. ASSUME NEW k \in OwedOccurrences(c, d) \cap Days PROVE c.done[k] = NoMark
  <2>1. CASE k = d
    BY <2>1
  <2>2. CASE k # d
    <3>1. k \in SinceDealtWith(c, d)
      BY <2>2 DEF OwedOccurrences
    <3>2. k \in k..(d - 1)
      BY <1>1, <3>1 DEF SinceDealtWith, Days
    <3>. QED
      BY <3>1, <3>2 DEF SinceDealtWith
  <2>. QED
    BY <2>1, <2>2
<1>6. \A k \in Days : DueOn(e, k) = DueOn(c, k)
  BY <1>4 DEF DueOn, MovedFrom, MovedTo, IsPausedOn
<1>. QED
  BY <1>2, <1>4, <1>5, <1>6 DEF e

\* No occurrence of before the day is owed any more.
LEMMA NothingOwedBefore ==
    ASSUME NEW c \in ChoreRecord, NEW d \in Days, c.done[d] = NoMark, NEW f \in {d, d + 1}
    PROVE  OldestOwed(SkipDays(c, d), f) = 0
<1> DEFINE e == SkipDays(c, d)
<1>1. /\ e.created = c.created /\ c.created \in Days
      /\ \A k \in Days : e.done[k] = IF k \in OwedOccurrences(c, d) THEN Skip ELSE c.done[k]
      /\ \A k \in OwedOccurrences(c, d) \cap Days : c.done[k] = NoMark
      /\ \A k \in Days : DueOn(e, k) = DueOn(c, k)
  BY SkippedIs, ChoreIs
<1> HIDE DEF e
<1>2. ASSUME NEW k \in SinceDealtWith(e, f), DueOn(e, k) PROVE FALSE
  <2>1. k \in c.created..(f - 1) /\ \A j \in k..(f - 1) : e.done[j] = NoMark
    BY <1>1, <1>2 DEF SinceDealtWith
  <2>2. k \in Days /\ k <= d /\ k \in k..(f - 1)
    BY <1>1, <2>1, ChoresAssumption DEF Days
  <2>3. k \notin OwedOccurrences(c, d) /\ c.done[k] = NoMark
    BY <1>1, <2>1, <2>2 DEF Skip, NoMark
  <2>4. DueOn(c, k)
    BY <1>1, <1>2, <2>2
  <2>5. CASE k = d
    BY <2>3, <2>4, <2>5 DEF OwedOccurrences
  <2>6. CASE k # d
    <3>1. k \in c.created..(d - 1)
      BY <1>1, <2>1, <2>2, <2>6 DEF Days
    <3>2. ASSUME NEW j \in k..(d - 1) PROVE c.done[j] = NoMark
      <4>1. j \in Days /\ j \in k..(f - 1)
        BY <2>2, <3>2, ChoresAssumption DEF Days
      <4>. QED
        BY <1>1, <2>1, <4>1 DEF Skip, NoMark
    <3>. QED
      BY <2>3, <2>4, <3>1, <3>2 DEF OwedOccurrences, SinceDealtWith
  <2>. QED
    BY <2>5, <2>6
<1>3. {k \in SinceDealtWith(e, f) : DueOn(e, k) /\ \A j \in k..(f - 1) : ~IsPausedOn(e, j)} = {}
  BY <1>2
<1>. QED
  BY <1>3 DEF OldestOwed, e

\* A skip takes the turn from nobody and puts the chore away.
LEMMA SkipsPutAway ==
    ASSUME ChoresInv, NEW d \in Days, SkipChore(d)
    PROVE  /\ chore.cadence.type # "perPerson" => AssigneeFor(chore', d) = AssigneeFor(chore, d)
           /\ ~StillAsked(chore', d)
           /\ d + 1 \in Days => ~Missed(chore', d + 1)
<1>1. chore \in ChoreRecord /\ chore.done[d] = NoMark /\ chore' = SkipDays(chore, d)
  BY ChoresTypesAre DEF ChoresInv, SkipChore
<1>2. /\ chore' \in ChoreRecord /\ chore'.rotation = chore.rotation /\ chore'.owner = chore.owner
      /\ chore'.cadence = chore.cadence
      /\ \A k \in Days : chore'.done[k] = IF k \in OwedOccurrences(chore, d) THEN Skip ELSE chore.done[k]
      /\ \A k \in OwedOccurrences(chore, d) \cap Days : chore.done[k] = NoMark
      /\ \A k \in Days : DueOn(chore', k) = DueOn(chore, k)
  BY <1>1, SkippedIs
<1>3. OldestOwed(chore', d) = 0 /\ OldestOwed(chore', d + 1) = 0
  BY <1>1, NothingOwedBefore
<1>4. \A k \in Days : /\ IsCompletion(chore'.done[k]) <=> IsCompletion(chore.done[k])
                      /\ IsCompletion(chore.done[k]) => chore'.done[k] = chore.done[k]
  BY <1>2, MarksAre
<1>5. {k \in Days : k < d /\ IsCompletion(chore'.done[k])} = {k \in Days : k < d /\ IsCompletion(chore.done[k])}
  BY <1>4
<1>6. LastCompletion(chore', d) = LastCompletion(chore, d)
  BY <1>5 DEF LastCompletion
<1>7. LastCompletion(chore, d) # 0 => LastCompletion(chore, d) \in Days /\ IsCompletion(chore.done[LastCompletion(chore, d)])
  <2> DEFINE before == {k \in Days : k < d /\ IsCompletion(chore.done[k])}
  <2>1. before # {} => Max(before) \in before
    BY GreatestIs, ChoresAssumption DEF Days
  <2>2. LastCompletion(chore, d) = IF before = {} THEN 0 ELSE Max(before)
    BY DEF LastCompletion
  <2> HIDE DEF before
  <2>3. CASE before = {}
    BY <2>2, <2>3
  <2>4. CASE before # {}
    <3>1. LastCompletion(chore, d) \in before
      BY <2>1, <2>2, <2>4
    <3>. QED
      BY <3>1 DEF before
  <2>. QED
    BY <2>3, <2>4
<1>8. ASSUME chore.cadence.type # "perPerson" PROVE AssigneeFor(chore', d) = AssigneeFor(chore, d)
  <2>1. ~IsCompletion(chore.done[d]) /\ ~IsCompletion(chore'.done[d])
    BY <1>1, <1>4, MarksAre
  <2>2. LastCompletion(chore, d) # 0 => chore'.done[LastCompletion(chore, d)] = chore.done[LastCompletion(chore, d)]
    BY <1>4, <1>7
  <2>. QED
    BY <1>1, <1>2, <1>6, <1>8, <2>1, <2>2, SameTurn
<1>9. ~StillAsked(chore', d)
  <2>1. CASE DueOn(chore, d)
    <3>1. d \in OwedOccurrences(chore, d)
      BY <1>1, <2>1 DEF OwedOccurrences
    <3>2. chore'.done[d] # NoMark
      BY <1>2, <3>1 DEF Skip, NoMark
    <3>. QED
      BY <3>2 DEF StillAsked
  <2>2. CASE ~DueOn(chore, d)
    BY <1>2, <1>3, <2>2 DEF StillAsked, Active, Missed
  <2>. QED
    BY <2>1, <2>2
<1>. QED
  BY <1>3, <1>8, <1>9 DEF Missed

\* What is owed stays with whoever owes it until it is done, and a skip puts it away
\* (OwedUntilDone).
THEOREM TurnsAreKept == ChoresSpec => OwedUntilDone
<1> DEFINE Kept ==
      /\ /\ today' # today /\ NewDay /\ chore.cadence.type # "perPerson"
         /\ ~IsCompletion(chore.done[today]) /\ ~IsCompletion(chore.done[today'])
         => AssigneeFor(chore, today') = AssigneeFor(chore, today)
      /\ (\E k \in Days : chore.done[k] # Skip /\ chore'.done[k] = Skip) => \A d \in Days : SkipChore(d) =>
           /\ chore.cadence.type # "perPerson" => AssigneeFor(chore', d) = AssigneeFor(chore, d)
           /\ ~StillAsked(chore', d)
           /\ d + 1 \in Days => ~Missed(chore', d + 1)
<1>1. ASSUME ChoresInv PROVE Kept
  BY <1>1, DaysKeepTheTurn, SkipsPutAway
<1>2. ChoresInv /\ [ChoresNext]_choreVars => [Kept]_choreVars
  BY <1>1
<1>. QED
  BY <1>2, ChoresInitially, ChoresStep, PTL DEF ChoresSpec, OwedUntilDone

------------------------------------------------------------------------------
(***************************************************************************)
(* Screens show the same question, for any number of viewers, dates and    *)
(* answers (Evening).                                                      *)
(*                                                                         *)
(* Every question the model writes is a new one, so what the document      *)
(* keeps for a date never goes back to one it had before (Fresh).  A       *)
(* screen that rendered what the document still keeps has therefore shown  *)
(* it since (Agrees), whatever answer came meanwhile.                      *)
(***************************************************************************)
EveningSpec == EveningInit /\ [][EveningNext]_eveningVars

Wait == [date : Dates, mounted : BOOLEAN]
View ==
    [open : BOOLEAN, date : Dates, seen : [Dates -> Questions], question : Questions, source : Sources,
     about : Dates, attempted : SUBSET Dates, waiting : Seq(Wait)]
ViewsAre ==
    generated \in [Dates -> Questions] /\ answers \in Questions /\ viewer \in [Viewers -> View]

Fresh ==
    /\ \A d \in Dates : generated[d] <= answers
    /\ \A v \in Viewers, d \in Dates : viewer[v].seen[d] <= answers

\* What a screen has rendered of its date, and is still kept, is what it shows.
Agrees(w) ==
    /\ w.open /\ w.source \in {"ai", "cache"} /\ w.about = w.date
    /\ w.seen[w.date] = generated[w.date] /\ generated[w.date] # 0
    => w.question = generated[w.date]

EveningInv == ViewsAre /\ Fresh /\ \A v \in Viewers : Agrees(viewer[v])

\* Dropping an answer that came.
LEMMA RemovingIs ==
    ASSUME NEW S, NEW s \in Seq(S), NEW i \in 1..Len(s)
    PROVE  RemoveAt(s, i) \in Seq(S)
<1>1. SubSeq(s, 1, i - 1) \in Seq(S)
  BY SubSeqProperties
<1>2. SubSeq(s, i + 1, Len(s)) \in Seq(S)
  BY SubSeqProperties
<1>. QED
  BY <1>1, <1>2, ConcatProperties DEF RemoveAt

\* The effect shows what was rendered, or what was there before, of the same document.
LEMMA EffectIs ==
    ASSUME NEW w \in View
    PROVE  /\ Effect(w) \in View
           /\ Effect(w).open = w.open /\ Effect(w).date = w.date /\ Effect(w).seen = w.seen
           /\ w.seen[w.date] # 0 => Effect(w).question = w.seen[w.date]
<1>1. w.date \in Dates /\ w.seen \in [Dates -> Questions] /\ w.waiting \in Seq(Wait) /\ w.attempted \subseteq Dates
  BY DEF View
<1>2. Showing(w, w.seen[w.date], "cache", w.date) \in View
  BY <1>1 DEF View, Showing, Sources
<1>3. [date |-> w.date, mounted |-> TRUE] \in Wait
  BY <1>1 DEF Wait
<1>4. Append(w.waiting, [date |-> w.date, mounted |-> TRUE]) \in Seq(Wait)
  BY <1>1, <1>3, AppendProperties
<1>5. Asked(w, w.date) \in View
  BY <1>1, <1>4 DEF View, Asked
<1>6. CASE w.seen[w.date] # 0
  <2>1. Effect(w) = Showing(w, w.seen[w.date], "cache", w.date)
    BY <1>6 DEF Effect
  <2>. QED
    BY <1>2, <1>6, <2>1 DEF Showing, View
<1>7. CASE w.seen[w.date] = 0
  <2>1. Effect(w) = w \/ Effect(w) = Asked(w, w.date)
    BY <1>7 DEF Effect
  <2>. QED
    BY <1>5, <1>7, <2>1 DEF Asked, View
<1>. QED
  BY <1>6, <1>7


LEMMA ShutIs == Shut \in View /\ ~Shut.open /\ \A d \in Dates : Shut.seen[d] = 0
<1>1. 0 \in Questions /\ 1 \in Dates
  BY EveningAssumption DEF Questions, Dates
<1>2. <<>> \in Seq(Wait)
  OBVIOUS
<1>. QED
  BY <1>1, <1>2 DEF Shut, View, Sources

LEMMA EveningInitially == EveningInit => EveningInv
<1>. SUFFICES ASSUME EveningInit PROVE EveningInv
  OBVIOUS
<1>1. 0 \in Questions /\ answers = 0
  BY EveningAssumption DEF EveningInit, Questions
<1>2. ViewsAre
  BY <1>1, ShutIs DEF EveningInit, ViewsAre
<1>3. Fresh
  BY <1>1, ShutIs DEF EveningInit, Fresh
<1>. QED
  BY <1>2, <1>3, ShutIs DEF EveningInit, EveningInv, Agrees

\* One screen has changed, and the document has not.
LEMMA ViewKeeps ==
    ASSUME EveningInv, NEW v \in Viewers, NEW w \in View, viewer' = [viewer EXCEPT ![v] = w],
           Agrees(w), \A d \in Dates : w.seen[d] <= answers, UNCHANGED <<generated, answers>>
    PROVE  EveningInv'
<1>1. viewer \in [Viewers -> View] /\ generated \in [Dates -> Questions] /\ answers \in Questions
  BY DEF EveningInv, ViewsAre
<1>2. viewer' \in [Viewers -> View] /\ viewer'[v] = w /\ \A u \in Viewers : u # v => viewer'[u] = viewer[u]
  BY <1>1
<1>3. ViewsAre'
  BY <1>1, <1>2 DEF ViewsAre
<1>4. Fresh'
  BY <1>2 DEF EveningInv, Fresh
<1>5. ASSUME NEW u \in Viewers PROVE Agrees(viewer'[u])
  BY <1>2 DEF EveningInv
<1>6. \A u \in Viewers : Agrees(viewer[u])'
  BY <1>5 DEF Agrees
<1>. QED
  BY <1>3, <1>4, <1>6 DEF EveningInv

\* Rendering a date of the document as it is now.
LEMMA RenderingKeeps ==
    ASSUME EveningInv, NEW v \in Viewers, NEW w \in View, w.seen = generated,
           viewer' = [viewer EXCEPT ![v] = Effect(w)], UNCHANGED <<generated, answers>>
    PROVE  EveningInv'
<1>1. Effect(w) \in View /\ Effect(w).seen = generated /\ Effect(w).date = w.date
  BY EffectIs
<1>2. Agrees(Effect(w))
  BY <1>1, EffectIs DEF Agrees
<1>3. \A d \in Dates : Effect(w).seen[d] <= answers
  BY <1>1 DEF EveningInv, Fresh
<1>. QED
  BY <1>1, <1>2, <1>3, ViewKeeps

LEMMA LookingKeeps ==
    ASSUME EveningInv, NEW v \in Viewers,
           Render(v) \/ \E d \in Dates : Mount(v, d) \/ TurnTo(v, d)
    PROVE  EveningInv'
<1>1. viewer[v] \in View /\ generated \in [Dates -> Questions]
  BY DEF EveningInv, ViewsAre
<1>2. ASSUME Render(v) PROVE EveningInv'
  <2> DEFINE w == [viewer[v] EXCEPT !.seen = generated]
  <2>1. w \in View /\ w.seen = generated
    BY <1>1 DEF View
  <2>2. viewer' = [viewer EXCEPT ![v] = Effect(w)] /\ UNCHANGED <<generated, answers>>
    BY <1>2 DEF Render, Becomes, AfterEffect
  <2> HIDE DEF w
  <2>. QED
    BY <2>1, <2>2, RenderingKeeps
<1>3. ASSUME NEW d \in Dates, TurnTo(v, d) PROVE EveningInv'
  <2> DEFINE w == [viewer[v] EXCEPT !.date = d, !.seen = generated]
  <2>1. w \in View /\ w.seen = generated
    BY <1>1 DEF View
  <2>2. viewer' = [viewer EXCEPT ![v] = Effect(w)] /\ UNCHANGED <<generated, answers>>
    BY <1>3 DEF TurnTo, Becomes, AfterEffect
  <2> HIDE DEF w
  <2>. QED
    BY <2>1, <2>2, RenderingKeeps
<1>4. ASSUME NEW d \in Dates, Mount(v, d) PROVE EveningInv'
  <2> DEFINE w == [Shut EXCEPT !.open = TRUE, !.date = d, !.about = d, !.seen = generated, !.waiting = viewer[v].waiting]
  <2>1. viewer[v].waiting \in Seq(Wait)
    BY <1>1 DEF View
  <2>2. w \in View
    BY <1>1, <2>1, ShutIs DEF View
  <2>3. w.seen = generated
    BY ShutIs DEF View
  <2>4. viewer' = [viewer EXCEPT ![v] = Effect(w)] /\ UNCHANGED <<generated, answers>>
    BY <1>4 DEF Mount, Becomes
  <2> HIDE DEF w
  <2>. QED
    BY <2>2, <2>3, <2>4, RenderingKeeps
<1>. QED
  BY <1>2, <1>3, <1>4

LEMMA UnmountingKeeps ==
    ASSUME EveningInv, NEW v \in Viewers, Unmount(v)
    PROVE  EveningInv'
<1> DEFINE left == [i \in 1..Len(viewer[v].waiting) |-> [viewer[v].waiting[i] EXCEPT !.mounted = FALSE]]
           w == [Shut EXCEPT !.waiting = left]
<1>1. viewer[v].waiting \in Seq(Wait)
  BY DEF EveningInv, ViewsAre, View
<1>2. \A i \in 1..Len(viewer[v].waiting) : [viewer[v].waiting[i] EXCEPT !.mounted = FALSE] \in Wait
  <2>1. \A i \in 1..Len(viewer[v].waiting) : viewer[v].waiting[i] \in Wait
    BY <1>1
  <2>2. \A x \in Wait : [x EXCEPT !.mounted = FALSE] \in Wait
    BY DEF Wait
  <2>. QED
    BY <2>1, <2>2
<1>3. left \in Seq(Wait)
  BY <1>1, <1>2, LenProperties, IsASeq
<1> HIDE DEF left
<1>4. w \in View /\ ~w.open /\ w.seen = Shut.seen
  BY <1>3, ShutIs DEF View
<1>5. answers \in Nat
  BY EveningAssumption DEF EveningInv, ViewsAre, Questions
<1>6. \A d \in Dates : w.seen[d] <= answers
  BY <1>4, <1>5, ShutIs
<1>7. viewer' = [viewer EXCEPT ![v] = w] /\ UNCHANGED <<generated, answers>>
  BY DEF Unmount, left
<1> HIDE DEF w
<1>. QED
  BY <1>4, <1>6, <1>7, ViewKeeps DEF Agrees

LEMMA AskingAgainKeeps ==
    ASSUME EveningInv, NEW v \in Viewers, Regenerate(v)
    PROVE  EveningInv'
<1> DEFINE r == viewer[v]
           w == Asked(Showing(r, 0, "loading", r.date), r.date)
<1>1. r \in View /\ r.waiting \in Seq(Wait) /\ r.date \in Dates /\ 0 \in Questions
  BY EveningAssumption DEF EveningInv, ViewsAre, View, Questions
<1>2. Append(r.waiting, [date |-> r.date, mounted |-> TRUE]) \in Seq(Wait)
  BY <1>1, AppendProperties DEF Wait
<1>3. Showing(r, 0, "loading", r.date) \in View /\ Showing(r, 0, "loading", r.date).waiting = r.waiting
      /\ Showing(r, 0, "loading", r.date).source = "loading" /\ Showing(r, 0, "loading", r.date).seen = r.seen
  BY <1>1 DEF View, Showing, Sources
<1>4. w \in View /\ w.source = "loading" /\ w.seen = r.seen
  BY <1>1, <1>2, <1>3 DEF View, Asked
<1>5. viewer' = [viewer EXCEPT ![v] = w] /\ UNCHANGED <<generated, answers>>
  BY DEF Regenerate, Becomes
<1>6. \A d \in Dates : w.seen[d] <= answers
  BY <1>4 DEF EveningInv, Fresh
<1> HIDE DEF w
<1>. QED
  BY <1>4, <1>5, <1>6, ViewKeeps DEF Agrees

\* What an answer leaves of the screen that waited for it.
LEMMA AnsweredIs ==
    ASSUME EveningInv, NEW v \in Viewers, NEW i \in 1..Len(viewer[v].waiting),
           NEW q \in Questions, NEW source \in Sources
    PROVE  LET w == [viewer[v] EXCEPT !.waiting = RemoveAt(@, i)]
               d == viewer[v].waiting[i].date
           IN  /\ d \in Dates
               /\ w \in View /\ w.seen = viewer[v].seen /\ (Agrees(viewer[v]) => Agrees(w))
               /\ w.open = viewer[v].open /\ w.source = viewer[v].source /\ w.about = viewer[v].about
               /\ w.date = viewer[v].date /\ w.question = viewer[v].question
               /\ Showing(w, q, source, d) \in View /\ Showing(w, q, source, d).seen = viewer[v].seen
               /\ Showing(w, q, source, d).source = source /\ Showing(w, q, source, d).question = q
               /\ Showing(w, q, source, d).about = d /\ Showing(w, q, source, d).date = viewer[v].date
<1> DEFINE r == viewer[v]
           w == [r EXCEPT !.waiting = RemoveAt(@, i)]
           d == r.waiting[i].date
<1>1. r \in View /\ r.waiting \in Seq(Wait)
  BY DEF EveningInv, ViewsAre, View
<1>2. r.waiting[i] \in Wait
  BY <1>1
<1>3. d \in Dates
  BY <1>2 DEF Wait
<1>4. RemoveAt(r.waiting, i) \in Seq(Wait)
  BY <1>1, RemovingIs
<1>5. /\ w \in View /\ w.seen = r.seen /\ w.open = r.open /\ w.source = r.source /\ w.about = r.about
      /\ w.date = r.date /\ w.question = r.question
  BY <1>1, <1>4 DEF View
<1>6. Agrees(r) => Agrees(w)
  BY <1>5 DEF Agrees
<1> HIDE DEF w, d
<1>7. /\ Showing(w, q, source, d) \in View /\ Showing(w, q, source, d).seen = w.seen
      /\ Showing(w, q, source, d).source = source /\ Showing(w, q, source, d).question = q
      /\ Showing(w, q, source, d).about = d /\ Showing(w, q, source, d).date = w.date
  BY <1>3, <1>5 DEF View, Showing
<1>. QED
  BY <1>3, <1>5, <1>6, <1>7 DEF w, d

LEMMA StandInKeeps ==
    ASSUME EveningInv, NEW v \in Viewers, NEW i \in 1..Len(viewer[v].waiting), AnswerFromRotation(v, i)
    PROVE  EveningInv'
<1> DEFINE w == [viewer[v] EXCEPT !.waiting = RemoveAt(@, i)]
           shown == Showing(w, 0, "fallback", viewer[v].waiting[i].date)
           x == IF viewer[v].waiting[i].mounted THEN shown ELSE w
<1>1. 0 \in Questions /\ "fallback" \in Sources
  BY EveningAssumption DEF Questions, Sources
<1>2. w \in View /\ w.seen = viewer[v].seen /\ (Agrees(viewer[v]) => Agrees(w))
  BY <1>1, AnsweredIs
<1>3. shown \in View /\ shown.seen = viewer[v].seen /\ shown.source = "fallback"
  BY <1>1, AnsweredIs
<1>4. viewer' = [viewer EXCEPT ![v] = x] /\ UNCHANGED <<generated, answers>>
  BY DEF AnswerFromRotation
<1> HIDE DEF w, shown
<1>5. x \in View /\ x.seen = viewer[v].seen /\ Agrees(x)
  BY <1>2, <1>3 DEF EveningInv, Agrees
<1>6. \A d \in Dates : x.seen[d] <= answers
  BY <1>5 DEF EveningInv, Fresh
<1> HIDE DEF x
<1>. QED
  BY <1>4, <1>5, <1>6, ViewKeeps

\* What is kept of a date is what was, nothing, or the new question.
LEMMA CachedIs ==
    ASSUME NEW cache \in [Dates -> Questions], NEW d \in Dates, NEW q \in Questions
    PROVE  /\ Cached(cache, d, q) \in [Dates -> Questions]
           /\ \A e \in Dates : Cached(cache, d, q)[e] \in {0, IF e = d THEN q ELSE cache[e]}
<1> DEFINE all == [cache EXCEPT ![d] = q]
           held == {e \in Dates : all[e] # 0 /\ Cardinality({f \in Dates : f > e /\ all[f] # 0}) < Fortnight}
<1>1. all \in [Dates -> Questions] /\ \A e \in Dates : all[e] = IF e = d THEN q ELSE cache[e]
  OBVIOUS
<1>2. Cached(cache, d, q) = [e \in Dates |-> IF e \in held THEN all[e] ELSE 0]
  BY DEF Cached
<1>3. 0 \in Questions
  BY EveningAssumption DEF Questions
<1> HIDE DEF all, held
<1>. QED
  BY <1>1, <1>2, <1>3

LEMMA NewQuestionKeeps ==
    ASSUME EveningInv, NEW v \in Viewers, NEW i \in 1..Len(viewer[v].waiting), AnswerFromModel(v, i)
    PROVE  EveningInv'
<1> DEFINE w == [viewer[v] EXCEPT !.waiting = RemoveAt(@, i)]
           d == viewer[v].waiting[i].date
           q == answers + 1
           shown == Showing(w, q, "ai", d)
           x == IF viewer[v].waiting[i].mounted THEN shown ELSE w
<1>1. /\ viewer \in [Viewers -> View] /\ generated \in [Dates -> Questions]
      /\ answers \in Nat /\ q \in Questions /\ q \in Nat /\ answers < q /\ "ai" \in Sources
  BY EveningAssumption DEF EveningInv, ViewsAre, AnswerFromModel, Questions, Sources
<1>2. /\ d \in Dates /\ w \in View /\ w.seen = viewer[v].seen
      /\ w.open = viewer[v].open /\ w.source = viewer[v].source /\ w.about = viewer[v].about
      /\ w.date = viewer[v].date /\ w.question = viewer[v].question
  BY <1>1, AnsweredIs
<1>3. /\ shown \in View /\ shown.seen = viewer[v].seen /\ shown.question = q
      /\ shown.about = d /\ shown.date = viewer[v].date
  BY <1>1, AnsweredIs
<1>4. answers' = q /\ generated' = Cached(generated, d, q) /\ viewer' = [viewer EXCEPT ![v] = x]
  BY DEF AnswerFromModel
<1>5. generated' \in [Dates -> Questions] /\ \A e \in Dates : generated'[e] \in {0, IF e = d THEN q ELSE generated[e]}
  BY <1>1, <1>2, <1>4, CachedIs
<1> HIDE DEF w, d, q, shown
<1>6. x \in View /\ x.seen = viewer[v].seen
  BY <1>2, <1>3
<1>7. viewer' \in [Viewers -> View] /\ viewer'[v] = x /\ \A u \in Viewers : u # v => viewer'[u] = viewer[u]
  BY <1>1, <1>4, <1>6
<1>8. ViewsAre'
  BY <1>1, <1>4, <1>5, <1>7 DEF ViewsAre
<1>9. \A e \in Dates : generated[e] <= answers /\ generated[e] \in Nat
  BY <1>1, EveningAssumption DEF EveningInv, Fresh, Questions
<1>10. ASSUME NEW u \in Viewers, NEW e \in Dates
       PROVE  viewer'[u].seen[e] = viewer[u].seen[e] /\ viewer[u].seen[e] <= answers /\ viewer[u].seen[e] \in Nat
  <2>1. viewer'[u].seen = viewer[u].seen /\ viewer[u].seen \in [Dates -> Questions]
    BY <1>1, <1>6, <1>7 DEF View
  <2>. QED
    BY <2>1, EveningAssumption DEF EveningInv, Fresh, Questions
<1>11. Fresh'
  <2>1. \A e \in Dates : generated'[e] <= q
    BY <1>1, <1>5, <1>9
  <2>2. \A u \in Viewers, e \in Dates : viewer'[u].seen[e] <= q
    BY <1>1, <1>10
  <2>. QED
    BY <1>4, <2>1, <2>2 DEF Fresh
<1>12. ASSUME NEW u \in Viewers, viewer'[u].date \in Dates,
              viewer'[u].seen[viewer'[u].date] = generated'[viewer'[u].date], generated'[viewer'[u].date] # 0
       PROVE  viewer'[u].date # d /\ generated'[viewer'[u].date] = generated[viewer'[u].date]
  <2> DEFINE e == viewer'[u].date
  <2>1. e \in Dates /\ viewer'[u].seen[e] = generated'[e] /\ generated'[e] # 0
    BY <1>12
  <2> HIDE DEF e
  <2>2. viewer'[u].seen[e] <= answers /\ viewer'[u].seen[e] \in Nat
    BY <1>10, <2>1
  <2>3. viewer'[u].seen[e] # q
    BY <1>1, <2>2
  <2>4. generated'[e] = IF e = d THEN q ELSE generated[e]
    BY <1>5, <2>1
  <2>. QED
    BY <2>1, <2>3, <2>4 DEF e
<1>13. ASSUME NEW u \in Viewers PROVE Agrees(viewer[u])'
  <2>1. Agrees(viewer[u])
    BY DEF EveningInv
  <2>2. viewer'[u].date \in Dates
    BY <1>7 DEF View
  <2>3. viewer[u].date = viewer'[u].date
    BY <1>2, <1>3, <1>7
  <2>4. CASE viewer'[u] = viewer[u]
    BY <1>10, <1>12, <2>1, <2>2, <2>4 DEF Agrees
  <2>5. CASE u = v /\ viewer'[u] = w
    BY <1>2, <1>10, <1>12, <2>1, <2>2, <2>5 DEF Agrees
  <2>6. CASE u = v /\ viewer'[u] = shown
    BY <1>3, <1>10, <1>12, <2>2, <2>6 DEF Agrees
  <2>. QED
    BY <1>7, <2>4, <2>5, <2>6
<1>. QED
  BY <1>8, <1>11, <1>13 DEF EveningInv

LEMMA EveningStep == EveningInv /\ [EveningNext]_eveningVars => EveningInv'
<1>. SUFFICES ASSUME EveningInv, [EveningNext]_eveningVars
              PROVE  EveningInv'
  OBVIOUS
<1>1. CASE UNCHANGED eveningVars
  BY <1>1 DEF eveningVars, EveningInv, ViewsAre, Fresh, Agrees
<1>2. CASE EveningNext
  BY <1>2, LookingKeeps, UnmountingKeeps, AskingAgainKeeps, NewQuestionKeeps, StandInKeeps DEF EveningNext
<1>. QED
  BY <1>1, <1>2

\* Every screen that shows the model's question of an evening, and has rendered the
\* document, shows the one the document keeps (checkin.js:104).
THEOREM ScreensShowTheSame == EveningSpec => []SameQuestion
<1>1. EveningInv => SameQuestion
  BY DEF EveningInv, ViewsAre, View, Agrees, SameQuestion
<1>. QED
  BY <1>1, EveningInitially, EveningStep, PTL DEF EveningSpec

------------------------------------------------------------------------------
(***************************************************************************)
(* What is written down as sent was sent on this day, or crossed midnight, *)
(* for any number of reminders, screens and hours (Reminders).             *)
(*                                                                         *)
(* A screen is told how a send went before it writes it down, and in       *)
(* between its page may run its effect again, fall asleep, or send for     *)
(* another: the step it is going to write is the one it sent (Sending).    *)
(***************************************************************************)
RemindersSpec == RemindersInit /\ [][RemindersNext]_reminderVars

ScreenRecord ==
    [up : BOOLEAN, seen : [Alerts -> Steps], pending : SUBSET Alerts,
     sending : Alerts \cup {"nothing"}, ok : BOOLEAN]

\* A screen that was told its push has arrived: today, or before midnight.
HasSent(w) == w.sending # "nothing" /\ w.ok => <<w.sending, w.seen[w.sending]>> \in delivered
Sending == \A s \in Screens : HasSent(screens[s]) \/ s \in crossing

RelayInv == RemindersTypeOK /\ RecordedMeansSent /\ Sending

LEMMA RemindersTypesAre ==
    RemindersTypeOK <=>
       /\ clock \in 0..LastTick /\ dealt \subseteq Alerts
       /\ snoozed \in [Alerts -> 0..(LastTick + 1)] /\ relayed \in [Alerts -> Steps]
       /\ screens \in [Screens -> ScreenRecord] /\ delivered \subseteq (Alerts \X Steps)
       /\ yesterdays \subseteq Alerts /\ crossing \subseteq Screens
BY DEF RemindersTypeOK, ScreenRecord

LEMMA IdleIs == Idle \in ScreenRecord /\ Idle.sending = "nothing"
BY RemindersAssumption DEF Idle, ScreenRecord, Steps, None

LEMMA SoundingIs ==
    ASSUME clock \in 0..LastTick
    PROVE  Sounding \in [Alerts -> Steps]
<1>1. \A a \in Alerts : EscalationStep(a) \in Steps
  BY RemindersAssumption DEF EscalationStep, Overdue, Steps, None
<1>2. None \in Steps
  BY RemindersAssumption DEF Steps, None
<1>. QED
  BY <1>1, <1>2 DEF Sounding

LEMMA RemindersInitially == RemindersInit => RelayInv
<1>1. None \in Steps
  BY RemindersAssumption DEF Steps, None
<1>2. ASSUME RemindersInit PROVE RemindersTypeOK
  BY <1>1, <1>2, IdleIs, RemindersAssumption, RemindersTypesAre DEF RemindersInit
<1>. QED
  BY <1>2, IdleIs DEF RemindersInit, RelayInv, RecordedMeansSent, Sending, HasSent

\* One screen has changed, and nothing that was sent is forgotten.
LEMMA OneScreenKeeps ==
    ASSUME NEW s \in Screens, NEW w \in ScreenRecord, RelayInv,
           screens' = [screens EXCEPT ![s] = w],
           delivered \subseteq delivered', delivered' \subseteq Alerts \X Steps,
           \/ w.sending # "nothing" /\ w.ok => <<w.sending, w.seen[w.sending]>> \in delivered'
           \/ s \in crossing',
           crossing' \subseteq Screens, \A t \in Screens \ {s} : t \in crossing => t \in crossing',
           relayed' \in [Alerts -> Steps], yesterdays' \subseteq Alerts,
           \A a \in Alerts : relayed'[a] # None => <<a, relayed'[a]>> \in delivered' \/ a \in yesterdays',
           UNCHANGED <<clock, dealt, snoozed>>
    PROVE  RelayInv'
<1>1. screens \in [Screens -> ScreenRecord]
  BY RemindersTypesAre DEF RelayInv
<1>2. screens' \in [Screens -> ScreenRecord]
  BY <1>1
<1>3. RemindersTypeOK'
  BY <1>2 DEF RelayInv, RemindersTypeOK, ScreenRecord
<1>4. \A t \in Screens : HasSent(screens[t])' \/ t \in crossing'
  BY <1>1 DEF RelayInv, Sending, HasSent
<1>. QED
  BY <1>3, <1>4 DEF RelayInv, RecordedMeansSent, Sending

LEMMA RelayingKeeps ==
    ASSUME RelayInv, NEW s \in Screens, Relay(s)
    PROVE  RelayInv'
<1> DEFINE todo == {a \in DueAlerts : ~AlreadySent(a, EscalationStep(a))}
           w == [Idle EXCEPT !.up = TRUE, !.seen = Sounding, !.pending = todo]
<1>1. relayed \in [Alerts -> Steps] /\ clock \in 0..LastTick /\ None \in Steps
  BY RemindersAssumption DEF RelayInv, RemindersTypeOK, Steps, None
<1>2. w \in ScreenRecord /\ w.sending = "nothing"
  BY <1>1, SoundingIs, IdleIs DEF DueAlerts, ScreenRecord
<1>3. screens' = [screens EXCEPT ![s] = w]
  BY DEF Relay
<1>4. /\ \A a \in Alerts : \/ relayed'[a] = relayed[a] /\ (a \in yesterdays => a \in yesterdays')
                          \/ relayed'[a] = None
      /\ yesterdays' \subseteq Alerts /\ crossing' = crossing \ {s} /\ crossing \subseteq Screens
  BY <1>1 DEF Relay, Pruned, RelayInv, RemindersTypeOK
<1>5. relayed' \in [Alerts -> Steps]
  BY <1>1 DEF Relay, Pruned
<1>6. UNCHANGED <<clock, dealt, snoozed, delivered>>
  BY DEF Relay
<1> HIDE DEF w
<1>. QED
  BY <1>2, <1>3, <1>4, <1>5, <1>6, OneScreenKeeps DEF RelayInv, RecordedMeansSent, RemindersTypeOK

LEMMA SendingKeeps ==
    ASSUME RelayInv, NEW s \in Screens, NEW a \in Alerts, Send(s, a)
    PROVE  RelayInv'
<1>1. PICK arrives \in BOOLEAN, ok \in BOOLEAN :
         /\ ok => arrives
         /\ screens' = [screens EXCEPT ![s].sending = a, ![s].ok = ok, ![s].pending = @ \ {a}]
         /\ delivered' = IF arrives THEN delivered \cup {<<a, screens[s].seen[a]>>} ELSE delivered
  BY DEF Send
<1> DEFINE w == [screens[s] EXCEPT !.sending = a, !.ok = ok, !.pending = @ \ {a}]
<1>2. screens \in [Screens -> ScreenRecord] /\ relayed \in [Alerts -> Steps] /\ delivered \subseteq Alerts \X Steps
  BY RemindersTypesAre DEF RelayInv
<1>3. screens[s] \in ScreenRecord /\ screens[s].seen \in [Alerts -> Steps]
  BY <1>2 DEF ScreenRecord
<1>4. w \in ScreenRecord /\ w.sending = a /\ w.ok = ok /\ w.seen = screens[s].seen
  BY <1>3 DEF ScreenRecord
<1>5. screens' = [screens EXCEPT ![s] = w]
  BY <1>1, <1>2
<1>6. delivered \subseteq delivered' /\ delivered' \subseteq Alerts \X Steps
  BY <1>1, <1>2, <1>3
<1>7. /\ UNCHANGED <<clock, dealt, snoozed, relayed, yesterdays, crossing>>
      /\ yesterdays \subseteq Alerts /\ crossing \subseteq Screens
  BY DEF Send, RelayInv, RemindersTypeOK
<1>8. w.ok => <<w.sending, w.seen[w.sending]>> \in delivered'
  BY <1>1, <1>4
<1>9. \A b \in Alerts : relayed'[b] # None => <<b, relayed'[b]>> \in delivered' \/ b \in yesterdays'
  BY <1>6, <1>7 DEF RelayInv, RecordedMeansSent
<1>10. relayed' \in [Alerts -> Steps]
  BY <1>2, <1>7
<1> HIDE DEF w
<1>. QED
  BY <1>4, <1>5, <1>6, <1>7, <1>8, <1>9, <1>10, OneScreenKeeps

LEMMA RecordingKeeps ==
    ASSUME RelayInv, NEW s \in Screens, RecordSent(s)
    PROVE  RelayInv'
<1> DEFINE a == screens[s].sending
           w == [screens[s] EXCEPT !.sending = "nothing", !.ok = FALSE]
<1>1. screens \in [Screens -> ScreenRecord] /\ relayed \in [Alerts -> Steps] /\ None \in Steps
  BY RemindersTypesAre, RemindersAssumption DEF RelayInv, Steps, None
<1>2. screens[s] \in ScreenRecord
  BY <1>1
<1>3. a \in Alerts /\ screens[s].seen \in [Alerts -> Steps]
  BY <1>2 DEF RecordSent, ScreenRecord
<1>4. w \in ScreenRecord /\ w.sending = "nothing"
  BY <1>2 DEF ScreenRecord
<1>5. screens' = [screens EXCEPT ![s] = w]
  BY <1>1 DEF RecordSent
<1>6. /\ UNCHANGED <<clock, dealt, snoozed, delivered>> /\ crossing' = crossing \ {s}
      /\ yesterdays \subseteq yesterdays' /\ yesterdays' \subseteq Alerts /\ crossing \subseteq Screens
      /\ s \in crossing => a \in yesterdays'
  BY <1>3 DEF RecordSent, RelayInv, RemindersTypeOK
<1>7. CASE ~screens[s].ok
  <2>1. relayed' = relayed
    BY <1>7 DEF RecordSent, RecordedIf
  <2> HIDE DEF w
  <2>. QED
    BY <1>1, <1>4, <1>5, <1>6, <2>1, OneScreenKeeps DEF RelayInv, RecordedMeansSent, RemindersTypeOK
<1>8. CASE screens[s].ok
  <2> DEFINE old == Pruned(relayed, Live(screens[s].seen))
  <2>1. relayed' = [old EXCEPT ![a] = screens[s].seen[a]]
    BY <1>8 DEF RecordSent, RecordedIf
  <2>2. old \in [Alerts -> Steps] /\ \A b \in Alerts : old[b] = relayed[b] \/ old[b] = None
    BY <1>1 DEF Pruned
  <2>3. <<a, screens[s].seen[a]>> \in delivered \/ a \in yesterdays'
    BY <1>6, <1>8 DEF RelayInv, Sending, HasSent, RecordSent
  <2> HIDE DEF old, a
  <2>4. relayed' \in [Alerts -> Steps]
    BY <1>3, <2>1, <2>2
  <2>5. \A b \in Alerts : relayed'[b] # None => <<b, relayed'[b]>> \in delivered \/ b \in yesterdays'
    BY <1>3, <1>6, <2>1, <2>2, <2>3 DEF RelayInv, RecordedMeansSent
  <2> HIDE DEF w
  <2>. QED
    BY <1>4, <1>5, <1>6, <2>4, <2>5, OneScreenKeeps DEF RelayInv, RemindersTypeOK
<1>. QED
  BY <1>7, <1>8

LEMMA PuttingAwayKeeps ==
    ASSUME RelayInv, NEW s \in Screens, PutAway(s)
    PROVE  RelayInv'
BY IdleIs, OneScreenKeeps DEF PutAway, RelayInv, RecordedMeansSent, RemindersTypeOK

\* The household and the clock touch no screen, and nothing that was sent today.
LEMMA RemindersHouseholdKeeps ==
    ASSUME RelayInv,
           \/ \E a \in Alerts : AlertDone(a) \/ AlertUndone(a) \/ AlertSnooze(a)
           \/ ClockTicks
    PROVE  RelayInv'
<1>1. UNCHANGED <<relayed, sends, yesterdays>>
  BY DEF AlertDone, AlertUndone, AlertSnooze, ClockTicks
<1>2. clock \in 0..LastTick /\ snoozed \in [Alerts -> 0..(LastTick + 1)] /\ dealt \subseteq Alerts
  BY DEF RelayInv, RemindersTypeOK
<1>3. clock' \in 0..LastTick
  BY <1>2, RemindersAssumption DEF AlertDone, AlertUndone, AlertSnooze, ClockTicks
<1>4. dealt' \subseteq Alerts
  BY <1>2 DEF AlertDone, AlertUndone, AlertSnooze, ClockTicks, DueAlerts
<1>5. snoozed' \in [Alerts -> 0..(LastTick + 1)]
  BY <1>2, RemindersAssumption DEF AlertDone, AlertUndone, AlertSnooze, ClockTicks
<1>6. RemindersTypeOK'
  BY <1>1, <1>3, <1>4, <1>5 DEF RelayInv, RemindersTypeOK, sends
<1>. QED
  BY <1>1, <1>6 DEF RelayInv, RecordedMeansSent, Sending, HasSent, sends

\* At midnight all that is recorded or under way becomes a day older.
LEMMA MidnightKeeps ==
    ASSUME RelayInv, Midnight
    PROVE  RelayInv'
<1>1. /\ clock' = 0 /\ dealt' = {} /\ snoozed' = [a \in Alerts |-> 0] /\ delivered' = {}
      /\ yesterdays' = {a \in Alerts : relayed[a] # None}
      /\ crossing' = {s \in Screens : screens[s].sending # "nothing"}
      /\ UNCHANGED <<relayed, screens>>
  BY DEF Midnight
<1>2. RemindersTypeOK'
  BY <1>1, RemindersAssumption DEF RelayInv, RemindersTypeOK
<1>. QED
  BY <1>1, <1>2 DEF RelayInv, RecordedMeansSent, Sending, HasSent

LEMMA RemindersStep == RelayInv /\ [RemindersNext]_reminderVars => RelayInv'
<1>. SUFFICES ASSUME RelayInv, [RemindersNext]_reminderVars
              PROVE  RelayInv'
  OBVIOUS
<1>1. CASE UNCHANGED reminderVars
  BY <1>1 DEF reminderVars, RelayInv, RemindersTypeOK, RecordedMeansSent, Sending, HasSent
<1>2. CASE RemindersNext
  BY <1>2, RelayingKeeps, SendingKeeps, RecordingKeeps, PuttingAwayKeeps, RemindersHouseholdKeeps, MidnightKeeps DEF RemindersNext
<1>. QED
  BY <1>1, <1>2

\* A step that the document calls sent has reached the push service today (App.jsx:1031),
\* or its record, or its push, crossed midnight and was not tidied away since.
THEOREM WhatIsRecordedWasSent == RemindersSpec => []RecordedMeansSent
<1>1. RelayInv => RecordedMeansSent
  BY DEF RelayInv
<1>. QED
  BY <1>1, RemindersInitially, RemindersStep, PTL DEF RemindersSpec

------------------------------------------------------------------------------
(***************************************************************************)
(* What a household asks stays at home unless an admin confirmed the       *)
(* provider, for any number of providers, admins and questions             *)
(* (Assistant).                                                            *)
(*                                                                         *)
(* Two things are kept apart.  Consent is followed from the button that    *)
(* gives it through the panel, the request and the row (Asserted):         *)
(* wherever it stands beside a provider, that one was confirmed.  And      *)
(* where a provider sends to is followed from its row and the address      *)
(* still to be written (JudgedRight): if it is away, it is not called      *)
(* local, unless it is blurred.                                            *)
(***************************************************************************)
AssistantSpec == AssistantInit /\ [][AssistantNext]_assistantVars

PanelRecord ==
    [open : BOOLEAN, current : Providers \cup {Nothing}, isLocal : BOOLEAN,
     local : SUBSET Providers, hosted : SUBSET Providers]
PutRecord ==
    [step : {"none", "sent", "checked"}, provider : Providers \cup {Nothing}, consent : BOOLEAN]
Question ==
    [step : {"none", "first", "second", "answered"}, with : Selections,
     blurred : BOOLEAN, agreed : BOOLEAN]

\* Consent beside a provider is consent to that provider.
ChoiceIsMeant == choice.provider # Nothing /\ choice.agreed => choice.provider \in confirmed
PanelIsMeant(w) == w.current # Nothing /\ ~w.isLocal => w.current \in confirmed
PutIsMeant(w) == w.provider # Nothing /\ w.consent => w.provider \in confirmed
Asserted ==
    /\ ChoiceIsMeant
    /\ \A m \in Admins : PanelIsMeant(panel[m]) /\ PutIsMeant(putting[m])

\* An address that is away, written or still to be written, was judged as such.
JudgedRight ==
    \A p \in Providers : p \notin blurred /\ "away" \in {offered[p].url, filling[p]} => ~offered[p].isLocal

AskedInside(w) == w.with.to = "away" /\ ~w.blurred => w.agreed /\ ~w.with.isLocal

AssistantInv == AssistantTypeOK /\ Asserted /\ JudgedRight /\ NothingLeavesUnasked

LEMMA AssistantTypesAre ==
    AssistantTypeOK <=>
       /\ offered \in [Providers -> Rows] /\ blurred \subseteq Providers
       /\ filling \in [Providers -> Addresses]
       /\ choice \in [provider : Providers \cup {Nothing}, agreed : BOOLEAN] /\ confirmed \subseteq Providers
       /\ panel \in [Admins -> PanelRecord] /\ putting \in [Admins -> PutRecord]
       /\ asking \in [Askers -> Question]
BY DEF AssistantTypeOK, PanelRecord, PutRecord, Question

LEMMA BlanksAre ==
    /\ NoRow \in Rows /\ NoRow.url = Nothing /\ GoneRow \in Rows /\ GoneRow.url = Nothing
    /\ Fallback \in Selections /\ Fallback.to = "home" /\ Fallback.isLocal /\ Fallback.id = Nothing
    /\ NoPanel \in PanelRecord /\ NoPanel.isLocal
    /\ NoPut \in PutRecord /\ ~NoPut.consent
    /\ NoQuestion \in Question /\ AskedInside(NoQuestion)
BY DEF NoRow, GoneRow, Rows, Kinds, Addresses, Nothing, Fallback, Selections, NoPanel, PanelRecord,
       NoPut, PutRecord, NoQuestion, Question, AskedInside

\* What a question is given: a provider that is not local was agreed to, and the answer
\* says where it goes.
LEMMA SelectionIs ==
    ASSUME AssistantTypeOK
    PROVE  /\ ProviderForHousehold \in Selections
           /\ \/ ProviderForHousehold.id = Nothing /\ ProviderForHousehold.to = "home" /\ ProviderForHousehold.isLocal
              \/ LET p == choice.provider
                 IN  /\ p \in Providers /\ p # Nothing /\ ProviderForHousehold.id = p
                     /\ ProviderForHousehold.isLocal = offered[p].isLocal
                     /\ ProviderForHousehold.isLocal \/ choice.agreed
                     /\ ProviderForHousehold.to = "away" => offered[p].url = "away"
<1> DEFINE p == choice.provider
           chosen == [id |-> p, isLocal |-> offered[p].isLocal,
                      to |-> IF offered[p].url = "away" THEN "away" ELSE "home", blocked |-> FALSE]
           held == [Fallback EXCEPT !.blocked = TRUE]
<1>1. p \in Providers \cup {Nothing} /\ offered \in [Providers -> Rows]
  BY DEF AssistantTypeOK
<1>2. held \in Selections /\ held.id = Nothing /\ held.to = "home" /\ held.isLocal
  BY DEF Fallback, Selections
<1>3. CASE p = Nothing \/ (p \in Providers /\ ~offered[p].enabled)
  BY <1>3, BlanksAre DEF ProviderForHousehold
<1>4. CASE ~(p = Nothing \/ (p \in Providers /\ ~offered[p].enabled)) /\ Refused(p)
  BY <1>4, <1>2 DEF ProviderForHousehold
<1>5. CASE ~(p = Nothing \/ (p \in Providers /\ ~offered[p].enabled)) /\ ~Refused(p)
  <2>1. p \in Providers /\ p # Nothing /\ offered[p] \in Rows
    BY <1>1, <1>5
  <2>2. offered[p].isLocal \in BOOLEAN
    BY <2>1 DEF Rows
  <2>3. ProviderForHousehold = chosen
    BY <1>5 DEF ProviderForHousehold
  <2>4. chosen \in Selections
    BY <2>1, <2>2 DEF Selections
  <2>5. offered[p].isLocal \/ choice.agreed
    BY <1>5 DEF Refused
  <2>. QED
    BY <2>1, <2>3, <2>4, <2>5
<1>. QED
  BY <1>3, <1>4, <1>5

LEMMA AssistantInitially == AssistantInit => AssistantInv
<1>. SUFFICES ASSUME AssistantInit PROVE AssistantInv
  OBVIOUS
<1>1. PICK own \in Providers :
         offered = [p \in Providers |-> IF p = own THEN [kind |-> "ollama", url |-> Nothing, isLocal |-> TRUE, enabled |-> TRUE]
                                        ELSE NoRow]
  BY DEF AssistantInit
<1>2. [kind |-> "ollama", url |-> Nothing, isLocal |-> TRUE, enabled |-> TRUE] \in Rows
  BY DEF Rows, Kinds, Addresses, Nothing
<1>3. offered \in [Providers -> Rows] /\ \A p \in Providers : offered[p].url = Nothing
  BY <1>1, <1>2, BlanksAre
<1>4. AssistantTypeOK
  BY <1>3, BlanksAre, AssistantTypesAre DEF AssistantInit, Addresses
<1>5. Asserted
  BY BlanksAre DEF AssistantInit, Asserted, ChoiceIsMeant, PanelIsMeant, PutIsMeant
<1>6. JudgedRight
  BY <1>3 DEF AssistantInit, JudgedRight, Nothing
<1>7. NothingLeavesUnasked
  BY BlanksAre DEF AssistantInit, NothingLeavesUnasked, AskedInside
<1>. QED
  BY <1>4, <1>5, <1>6, <1>7 DEF AssistantInv

\* One row is written, and nobody asks or chooses.
LEMMA RowKeeps ==
    ASSUME AssistantInv, NEW p \in Providers, NEW row \in Rows, NEW away \in Addresses,
           offered' = [offered EXCEPT ![p] = row], filling' = [filling EXCEPT ![p] = away],
           blurred' \subseteq Providers, blurred' \ {p} = blurred \ {p},
           p \notin blurred' /\ "away" \in {row.url, away} => ~row.isLocal,
           UNCHANGED <<confirmed, panel, putting, asking>>,
           choice' \in [provider : Providers \cup {Nothing}, agreed : BOOLEAN],
           choice'.provider # Nothing => choice' = choice
    PROVE  AssistantInv'
<1>1. offered \in [Providers -> Rows] /\ filling \in [Providers -> Addresses]
  BY DEF AssistantInv, AssistantTypeOK
<1>2. offered' \in [Providers -> Rows] /\ filling' \in [Providers -> Addresses]
  BY <1>1
<1>3. AssistantTypeOK'
  BY <1>2 DEF AssistantInv, AssistantTypeOK
<1>4. JudgedRight'
  <2>. SUFFICES ASSUME NEW q \in Providers, q \notin blurred', "away" \in {offered'[q].url, filling'[q]}
                PROVE  ~offered'[q].isLocal
    BY DEF JudgedRight
  <2>1. CASE q = p
    BY <1>1, <2>1
  <2>2. CASE q # p
    BY <1>1, <2>2 DEF AssistantInv, JudgedRight
  <2>. QED
    BY <2>1, <2>2
<1>5. Asserted' /\ NothingLeavesUnasked'
  BY DEF AssistantInv, Asserted, ChoiceIsMeant, PanelIsMeant, PutIsMeant, NothingLeavesUnasked
<1>. QED
  BY <1>3, <1>4, <1>5 DEF AssistantInv

LEMMA InsertingKeeps ==
    ASSUME AssistantInv, NEW p \in Providers, NEW kind \in Kinds, NEW url \in Addresses, InsertProvider(p, kind, url)
    PROVE  AssistantInv'
<1> DEFINE row == [kind |-> kind, url |-> Nothing, isLocal |-> ComputeIsLocal(kind, url), enabled |-> TRUE]
<1>1. row \in Rows
  BY DEF Rows, Addresses, ComputeIsLocal
<1>2. "away" \in {row.url, url} => ~row.isLocal
  BY DEF ComputeIsLocal, Nothing
<1>3. offered' = [offered EXCEPT ![p] = row] /\ filling' = [filling EXCEPT ![p] = url]
  BY DEF InsertProvider
<1>4. UNCHANGED <<blurred, choice, confirmed, panel, putting, asking>>
  BY DEF InsertProvider
<1> HIDE DEF row
<1>. QED
  BY <1>1, <1>2, <1>3, <1>4, RowKeeps DEF AssistantInv, AssistantTypeOK

LEMMA FillingKeeps ==
    ASSUME AssistantInv, NEW p \in Providers, FillProvider(p)
    PROVE  AssistantInv'
<1> DEFINE row == [offered[p] EXCEPT !.url = filling[p]]
<1>1. offered \in [Providers -> Rows] /\ filling \in [Providers -> Addresses]
  BY DEF AssistantInv, AssistantTypeOK
<1>2. offered[p] \in Rows /\ filling[p] \in Addresses
  BY <1>1
<1>3. row \in Rows /\ row.url = filling[p] /\ row.isLocal = offered[p].isLocal
  BY <1>2 DEF Rows
<1>4. offered' = [offered EXCEPT ![p] = row] /\ filling' = [filling EXCEPT ![p] = Nothing]
  BY <1>1 DEF FillProvider
<1>5. UNCHANGED <<blurred, choice, confirmed, panel, putting, asking>>
  BY DEF FillProvider
<1>6. p \notin blurred /\ "away" \in {row.url, Nothing} => ~row.isLocal
  BY <1>3 DEF AssistantInv, JudgedRight, Nothing
<1>7. Nothing \in Addresses
  BY DEF Addresses
<1> HIDE DEF row
<1>. QED
  BY <1>3, <1>4, <1>5, <1>6, <1>7, RowKeeps DEF AssistantInv, AssistantTypeOK

LEMMA UpdatingKeeps ==
    ASSUME AssistantInv, NEW p \in Providers, NEW kind \in Kinds, NEW enabled \in BOOLEAN,
           UpdateProvider(p, kind, enabled)
    PROVE  AssistantInv'
<1>1. offered \in [Providers -> Rows] /\ filling \in [Providers -> Addresses] /\ blurred \subseteq Providers
  BY DEF AssistantInv, AssistantTypeOK
<1>2. offered[p] \in Rows /\ filling[p] \in Addresses
  BY <1>1
<1>3. UNCHANGED <<filling, choice, confirmed, panel, putting, asking>> /\ filling' = [filling EXCEPT ![p] = filling[p]]
  BY <1>1 DEF UpdateProvider
<1>7. /\ choice' \in [provider : Providers \cup {Nothing}, agreed : BOOLEAN]
      /\ choice'.provider # Nothing => choice' = choice
  BY <1>3 DEF AssistantInv, AssistantTypeOK
<1>4. ASSUME NEW url \in Addresses,
             offered' = [offered EXCEPT ![p] = [kind |-> kind, url |-> url, isLocal |-> ComputeIsLocal(kind, url), enabled |-> enabled]],
             blurred' = IF filling[p] = Nothing THEN blurred \ {p} ELSE blurred \cup {p}
      PROVE  AssistantInv'
  <2> DEFINE row == [kind |-> kind, url |-> url, isLocal |-> ComputeIsLocal(kind, url), enabled |-> enabled]
  <2>1. row \in Rows
    BY DEF Rows, ComputeIsLocal
  <2>2. p \notin blurred' /\ "away" \in {row.url, filling[p]} => ~row.isLocal
    BY <1>4 DEF ComputeIsLocal, Nothing
  <2>3. blurred' \subseteq Providers /\ blurred' \ {p} = blurred \ {p}
    BY <1>1, <1>4
  <2>4. offered' = [offered EXCEPT ![p] = row]
    BY <1>4
  <2> HIDE DEF row
  <2>. QED
    BY <1>2, <1>3, <1>7, <2>1, <2>2, <2>3, <2>4, RowKeeps
<1>5. ASSUME offered' = [offered EXCEPT ![p] = [@ EXCEPT !.kind = kind, !.isLocal = ComputeIsLocal(kind, Nothing), !.enabled = enabled]],
             blurred' = IF offered[p].url = Nothing /\ filling[p] = Nothing THEN blurred ELSE blurred \cup {p}
      PROVE  AssistantInv'
  <2> DEFINE row == [offered[p] EXCEPT !.kind = kind, !.isLocal = ComputeIsLocal(kind, Nothing), !.enabled = enabled]
  <2>1. row \in Rows /\ row.url = offered[p].url
    BY <1>2 DEF Rows, ComputeIsLocal
  <2>2. p \notin blurred' /\ "away" \in {row.url, filling[p]} => ~row.isLocal
    BY <1>5, <2>1 DEF Nothing
  <2>3. blurred' \subseteq Providers /\ blurred' \ {p} = blurred \ {p}
    BY <1>1, <1>5
  <2>4. offered' = [offered EXCEPT ![p] = row]
    BY <1>1, <1>5
  <2> HIDE DEF row
  <2>. QED
    BY <1>2, <1>3, <1>7, <2>1, <2>2, <2>3, <2>4, RowKeeps
<1>. QED
  BY <1>4, <1>5 DEF UpdateProvider

LEMMA DeletingKeeps ==
    ASSUME AssistantInv, NEW p \in Providers, DeleteProvider(p)
    PROVE  AssistantInv'
<1>1. offered' = [offered EXCEPT ![p] = GoneRow] /\ filling' = [filling EXCEPT ![p] = Nothing]
  BY DEF DeleteProvider
<1>2. blurred' = blurred \ {p} /\ blurred \subseteq Providers
  BY DEF DeleteProvider, AssistantInv, AssistantTypeOK
<1>3. UNCHANGED <<confirmed, panel, putting, asking>>
  BY DEF DeleteProvider
<1>4. choice \in [provider : Providers \cup {Nothing}, agreed : BOOLEAN]
  BY DEF AssistantInv, AssistantTypeOK
<1>5. CASE choice.provider # p
  <2>1. choice' = choice
    BY <1>5 DEF DeleteProvider
  <2>. QED
    BY <1>1, <1>2, <1>3, <1>4, <2>1, BlanksAre, RowKeeps DEF Addresses, Nothing
<1>6. CASE choice.provider = p
  <2>1. choice' = [choice EXCEPT !.provider = Nothing]
    BY <1>6 DEF DeleteProvider
  <2>2. choice' \in [provider : Providers \cup {Nothing}, agreed : BOOLEAN] /\ choice'.provider = Nothing
    BY <1>4, <2>1
  <2>. QED
    BY <1>1, <1>2, <1>3, <2>2, BlanksAre, RowKeeps DEF Addresses, Nothing
<1>. QED
  BY <1>5, <1>6

LEMMA OperatorKeeps ==
    ASSUME AssistantInv, NEW p \in Providers,
           \/ FillProvider(p) \/ DeleteProvider(p)
           \/ \E kind \in Kinds, url \in Addresses : InsertProvider(p, kind, url)
           \/ \E kind \in Kinds, enabled \in BOOLEAN : UpdateProvider(p, kind, enabled)
    PROVE  AssistantInv'
BY InsertingKeeps, FillingKeeps, UpdatingKeeps, DeletingKeeps

\* The rows stay, and whoever was confirmed stays confirmed.
LEMMA AssistantHouseholdKeeps ==
    ASSUME AssistantInv, UNCHANGED <<offered, blurred, filling>>,
           confirmed \subseteq confirmed', confirmed' \subseteq Providers,
           choice' \in [provider : Providers \cup {Nothing}, agreed : BOOLEAN], ChoiceIsMeant',
           panel' \in [Admins -> PanelRecord], \A m \in Admins : PanelIsMeant(panel[m])',
           putting' \in [Admins -> PutRecord], \A m \in Admins : PutIsMeant(putting[m])',
           asking' \in [Askers -> Question], \A a \in Askers : AskedInside(asking[a])'
    PROVE  AssistantInv'
<1>1. AssistantTypeOK'
  BY DEF AssistantInv, AssistantTypeOK, PanelRecord, PutRecord, Question
<1>2. Asserted' /\ NothingLeavesUnasked'
  BY DEF Asserted, NothingLeavesUnasked, AskedInside
<1>3. JudgedRight'
  BY DEF AssistantInv, JudgedRight
<1>. QED
  BY <1>1, <1>2, <1>3 DEF AssistantInv

\* The parts of the invariant, as the actions need them.
LEMMA KeptSoFar ==
    ASSUME AssistantInv
    PROVE  /\ offered \in [Providers -> Rows] /\ confirmed \subseteq Providers
           /\ choice \in [provider : Providers \cup {Nothing}, agreed : BOOLEAN] /\ ChoiceIsMeant
           /\ panel \in [Admins -> PanelRecord] /\ \A m \in Admins : PanelIsMeant(panel[m])
           /\ putting \in [Admins -> PutRecord] /\ \A m \in Admins : PutIsMeant(putting[m])
           /\ asking \in [Askers -> Question] /\ \A a \in Askers : AskedInside(asking[a])
BY AssistantTypesAre DEF AssistantInv, Asserted, NothingLeavesUnasked, AskedInside

LEMMA LoadingKeeps ==
    ASSUME AssistantInv, NEW m \in Admins, LoadPanel(m)
    PROVE  AssistantInv'
<1> DEFINE now == ProviderForHousehold
           listed == {p \in Providers : Known(p) /\ offered[p].enabled}
           w == [open |-> TRUE, current |-> now.id, isLocal |-> now.isLocal,
                 local |-> {p \in listed : offered[p].isLocal}, hosted |-> {p \in listed : ~offered[p].isLocal}]
<1>1. AssistantTypeOK
  BY DEF AssistantInv
<1>2. now.id \in Providers \cup {Nothing} /\ now.isLocal \in BOOLEAN
  BY <1>1, SelectionIs DEF Selections
<1>3. w \in PanelRecord /\ w.current = now.id /\ w.isLocal = now.isLocal
  BY <1>2 DEF PanelRecord
<1>4. now.id # Nothing /\ ~now.isLocal => now.id \in confirmed
  BY <1>1, SelectionIs, KeptSoFar DEF ChoiceIsMeant
<1>5. panel' = [panel EXCEPT ![m] = w]
  BY DEF LoadPanel
<1>6. UNCHANGED <<offered, blurred, filling, choice, confirmed, putting, asking>>
  BY DEF LoadPanel
<1> HIDE DEF now, w
<1>7. panel' \in [Admins -> PanelRecord]
  BY <1>3, <1>5, KeptSoFar
<1>8. \A n \in Admins : PanelIsMeant(panel[n])'
  BY <1>3, <1>4, <1>5, <1>6, KeptSoFar DEF PanelIsMeant
<1>9. ChoiceIsMeant' /\ (\A n \in Admins : PutIsMeant(putting[n])') /\ \A a \in Askers : AskedInside(asking[a])'
  BY <1>6, KeptSoFar DEF ChoiceIsMeant, PutIsMeant, AskedInside
<1>. QED
  BY <1>6, <1>7, <1>8, <1>9, KeptSoFar, AssistantHouseholdKeeps

\* One admin's request has changed, and perhaps somebody has confirmed.
LEMMA PuttingKeeps ==
    ASSUME AssistantInv, NEW m \in Admins, NEW w \in PutRecord,
           putting' = [putting EXCEPT ![m] = w],
           w.provider # Nothing /\ w.consent => w.provider \in confirmed',
           confirmed \subseteq confirmed', confirmed' \subseteq Providers,
           UNCHANGED <<offered, blurred, filling, panel, asking>>,
           choice' \in [provider : Providers \cup {Nothing}, agreed : BOOLEAN], ChoiceIsMeant'
    PROVE  AssistantInv'
<1>1. putting' \in [Admins -> PutRecord]
  BY KeptSoFar
<1>2. \A n \in Admins : PutIsMeant(putting[n])'
  BY KeptSoFar DEF PutIsMeant
<1>3. (\A n \in Admins : PanelIsMeant(panel[n])') /\ \A a \in Askers : AskedInside(asking[a])'
  BY KeptSoFar DEF PanelIsMeant, AskedInside
<1>. QED
  BY <1>1, <1>2, <1>3, KeptSoFar, AssistantHouseholdKeeps

LEMMA ChoosingKeeps ==
    ASSUME AssistantInv, NEW m \in Admins,
           ChooseModel(m) \/ \E p \in Providers : Choose(m, p)
    PROVE  AssistantInv'
<1>1. panel[m] \in PanelRecord
  BY KeptSoFar
<1>2. ASSUME ChooseModel(m) PROVE AssistantInv'
  <2> DEFINE w == [step |-> "sent", provider |-> panel[m].current, consent |-> ~panel[m].isLocal]
  <2>1. w \in PutRecord /\ (w.provider # Nothing /\ w.consent => w.provider \in confirmed)
    BY <1>1, KeptSoFar DEF PanelRecord, PutRecord, PanelIsMeant
  <2>2. putting' = [putting EXCEPT ![m] = w] /\ UNCHANGED <<offered, blurred, filling, choice, confirmed, panel, asking>>
    BY <1>2 DEF ChooseModel, Puts
  <2>3. ChoiceIsMeant'
    BY <2>2, KeptSoFar DEF ChoiceIsMeant
  <2> HIDE DEF w
  <2>. QED
    BY <2>1, <2>2, <2>3, KeptSoFar, PuttingKeeps
<1>3. ASSUME NEW p \in Providers, NEW consent \in BOOLEAN, Puts(m, p, consent),
             confirmed' = IF consent THEN confirmed \cup {p} ELSE confirmed,
             UNCHANGED <<offered, blurred, filling, choice, panel, asking>>
      PROVE  AssistantInv'
  <2> DEFINE w == [step |-> "sent", provider |-> p, consent |-> consent]
  <2>1. w \in PutRecord /\ w.provider = p /\ w.consent = consent
    BY DEF PutRecord
  <2>2. putting' = [putting EXCEPT ![m] = w]
    BY <1>3 DEF Puts
  <2>3. confirmed \subseteq confirmed' /\ confirmed' \subseteq Providers /\ (consent => p \in confirmed')
    BY <1>3, KeptSoFar
  <2>4. ChoiceIsMeant'
    BY <1>3, <2>3, KeptSoFar DEF ChoiceIsMeant
  <2> HIDE DEF w
  <2>. QED
    BY <1>3, <2>1, <2>2, <2>3, <2>4, KeptSoFar, PuttingKeeps
<1>4. ASSUME NEW p \in Providers, Choose(m, p) PROVE AssistantInv'
  <2>1. UNCHANGED <<offered, blurred, filling, choice, panel, asking>>
    BY <1>4 DEF Choose
  <2>2. CASE Puts(m, p, FALSE) /\ UNCHANGED confirmed
    BY <2>1, <2>2, <1>3
  <2>3. CASE Puts(m, p, TRUE) /\ confirmed' = confirmed \cup {p}
    BY <2>1, <2>3, <1>3
  <2>. QED
    BY <1>4, <2>2, <2>3 DEF Choose
<1>. QED
  BY <1>2, <1>4

LEMMA CheckingKeeps ==
    ASSUME AssistantInv, NEW m \in Admins, CheckProvider(m)
    PROVE  AssistantInv'
<1> DEFINE p == putting[m].provider
           agreed == p # Nothing /\ putting[m].consent /\ ~offered[p].isLocal
           to == IF p # Nothing /\ ~offered[p].enabled THEN NoPut
                 ELSE [step |-> "checked", provider |-> p, consent |-> agreed]
<1>1. putting[m] \in PutRecord /\ putting \in [Admins -> PutRecord]
  BY KeptSoFar
<1>2. p \in Providers \cup {Nothing} /\ agreed \in BOOLEAN
  BY <1>1 DEF PutRecord
<1>3. to \in PutRecord /\ (to.consent => putting[m].consent /\ to.provider = p)
  <2> HIDE DEF p
  <2>. QED
    BY <1>2, BlanksAre DEF PutRecord
<1>4. to.provider # Nothing /\ to.consent => to.provider \in confirmed
  BY <1>3, KeptSoFar DEF PutIsMeant
<1>5. putting' = [putting EXCEPT ![m] = to]
  BY DEF CheckProvider
<1>6. UNCHANGED <<offered, blurred, filling, choice, confirmed, panel, asking>>
  BY DEF CheckProvider
<1>7. ChoiceIsMeant'
  BY <1>6, KeptSoFar DEF ChoiceIsMeant
<1> HIDE DEF to
<1>. QED
  BY <1>3, <1>4, <1>5, <1>6, <1>7, KeptSoFar, PuttingKeeps

LEMMA WritingKeeps ==
    ASSUME AssistantInv, NEW m \in Admins, WriteChoice(m)
    PROVE  AssistantInv'
<1>1. putting[m] \in PutRecord
  BY KeptSoFar
<1>2. choice' = choice \/ choice' = [provider |-> putting[m].provider, agreed |-> putting[m].consent]
  BY DEF WriteChoice, NowAgreed
<1>3. UNCHANGED <<offered, blurred, filling, confirmed, panel, asking>>
  BY DEF WriteChoice
<1>4. choice' \in [provider : Providers \cup {Nothing}, agreed : BOOLEAN]
  BY <1>1, <1>2, KeptSoFar DEF PutRecord
<1>5. ChoiceIsMeant'
  BY <1>2, <1>3, KeptSoFar DEF ChoiceIsMeant, PutIsMeant
<1>6. putting' = [putting EXCEPT ![m] = NoPut]
  BY DEF WriteChoice
<1>. QED
  BY <1>3, <1>4, <1>5, <1>6, BlanksAre, KeptSoFar, PuttingKeeps

\* One question has changed.
LEMMA QuestionKeeps ==
    ASSUME AssistantInv, NEW a \in Askers, NEW w \in Question, AskedInside(w),
           asking' = [asking EXCEPT ![a] = w],
           UNCHANGED <<offered, blurred, filling, choice, confirmed, panel, putting>>
    PROVE  AssistantInv'
<1>1. asking' \in [Askers -> Question] /\ \A b \in Askers : AskedInside(asking[b])'
  BY KeptSoFar DEF AskedInside
<1>2. ChoiceIsMeant' /\ \A m \in Admins : PanelIsMeant(panel[m])' /\ PutIsMeant(putting[m])'
  BY KeptSoFar DEF ChoiceIsMeant, PanelIsMeant, PutIsMeant
<1>. QED
  BY <1>1, <1>2, KeptSoFar, AssistantHouseholdKeeps

LEMMA GeneratingKeeps ==
    ASSUME AssistantInv, NEW a \in Askers, Generate(a)
    PROVE  AssistantInv'
<1> DEFINE s == ProviderForHousehold
           w == [step |-> "first", with |-> s, blurred |-> s.id \in blurred, agreed |-> s.id \in confirmed]
<1>1. AssistantTypeOK
  BY DEF AssistantInv
<1>2. w \in Question
  BY <1>1, SelectionIs DEF Question
<1>3. s.to = "away" /\ s.id \notin blurred => s.id \in confirmed /\ ~s.isLocal
  <2>1. SUFFICES ASSUME s.to = "away", s.id \notin blurred PROVE s.id \in confirmed /\ ~s.isLocal
    OBVIOUS
  <2>2. choice.provider \in Providers /\ choice.provider # Nothing /\ s.id = choice.provider
    BY <1>1, <2>1, SelectionIs
  <2>3. offered[choice.provider].url = "away" /\ s.isLocal = offered[choice.provider].isLocal
    BY <1>1, <2>1, SelectionIs
  <2>4. ~s.isLocal
    BY <2>1, <2>2, <2>3 DEF AssistantInv, JudgedRight
  <2>5. choice.agreed
    BY <1>1, <2>1, <2>4, SelectionIs
  <2>. QED
    BY <2>2, <2>4, <2>5, KeptSoFar DEF ChoiceIsMeant
<1>4. AskedInside(w)
  BY <1>3 DEF AskedInside
<1>5. asking' = [asking EXCEPT ![a] = w] /\ UNCHANGED <<offered, blurred, filling, choice, confirmed, panel, putting>>
  BY DEF Generate
<1> HIDE DEF w
<1>. QED
  BY <1>2, <1>4, <1>5, QuestionKeeps

LEMMA AnsweringKeeps ==
    ASSUME AssistantInv, NEW a \in Askers, Attempt(a) \/ Answered(a)
    PROVE  AssistantInv'
<1>1. asking \in [Askers -> Question] /\ asking[a] \in Question /\ AskedInside(asking[a])
  BY KeptSoFar
<1>2. UNCHANGED <<offered, blurred, filling, choice, confirmed, panel, putting>>
  BY DEF Attempt, Answered
<1>3. ASSUME NEW step \in {"answered", "second"}, asking' = [asking EXCEPT ![a].step = step]
      PROVE  AssistantInv'
  <2> DEFINE w == [asking[a] EXCEPT !.step = step]
  <2>1. w \in Question /\ w.with = asking[a].with /\ w.blurred = asking[a].blurred /\ w.agreed = asking[a].agreed
    BY <1>1 DEF Question
  <2>2. AskedInside(w)
    BY <1>1, <2>1 DEF AskedInside
  <2>3. asking' = [asking EXCEPT ![a] = w]
    BY <1>1, <1>3
  <2> HIDE DEF w
  <2>. QED
    BY <1>2, <2>1, <2>2, <2>3, QuestionKeeps
<1>4. ASSUME asking' = [asking EXCEPT ![a] = NoQuestion] PROVE AssistantInv'
  BY <1>2, <1>4, BlanksAre, QuestionKeeps
<1>. QED
  BY <1>3, <1>4 DEF Attempt, Answered

LEMMA AssistantStep == AssistantInv /\ [AssistantNext]_assistantVars => AssistantInv'
<1>. SUFFICES ASSUME AssistantInv, [AssistantNext]_assistantVars
              PROVE  AssistantInv'
  OBVIOUS
<1>1. CASE UNCHANGED assistantVars
  BY <1>1 DEF assistantVars, AssistantInv, AssistantTypeOK, Asserted, ChoiceIsMeant, PanelIsMeant, PutIsMeant,
              JudgedRight, NothingLeavesUnasked
<1>2. ASSUME NEW m \in Admins,
             \/ LoadPanel(m) \/ ChooseModel(m) \/ CheckProvider(m) \/ WriteChoice(m)
             \/ \E p \in Providers : Choose(m, p)
      PROVE  AssistantInv'
  BY <1>2, LoadingKeeps, ChoosingKeeps, CheckingKeeps, WritingKeeps
<1>3. ASSUME NEW a \in Askers, Generate(a) \/ Attempt(a) \/ Answered(a)
      PROVE  AssistantInv'
  BY <1>3, GeneratingKeeps, AnsweringKeeps
<1>4. CASE AssistantNext
  BY <1>4, <1>2, <1>3, OperatorKeeps DEF AssistantNext
<1>. QED
  BY <1>1, <1>4

\* A question leaves the house only for a provider an admin has confirmed by name, and is
\* then said to have left it (ai-providers.js:142-147, routes/ai.js:128-134), for as long
\* as the provider's address is the one it was last judged by.
THEOREM QuestionsStayHome == AssistantSpec => []NothingLeavesUnasked
<1>1. AssistantInv => NothingLeavesUnasked
  BY DEF AssistantInv
<1>. QED
  BY <1>1, AssistantInitially, AssistantStep, PTL DEF AssistantSpec

------------------------------------------------------------------------------
(***************************************************************************)
(* A browser that is remembered was granted it, for any number of          *)
(* accounts, tabs, households and sessions (Browser).                      *)
(*                                                                         *)
(* The cookie changes when the server answers a sign-in, the record when   *)
(* its keys are derived.  As long as no two sign-ins overlap and none is   *)
(* cut short, the cookie between the two is still the one of this sign-in, *)
(* or nobody's (Alone); and a new account is not the one whose key is kept *)
(* (KeptIsKnown).                                                          *)
(***************************************************************************)
BrowserSpec == BrowserInit /\ [][BrowserNext]_browserVars

TabRecord ==
    [at : {"closed", "recalled", "signin", "unlocking", "landing", "listing", "create", "pick", "ready", "fatal"},
     token : 0..MaxSession, user : AccountOrNone, keys : AccountOrNone, open : Homes \cup {NoHome}]
SessionRecord == [of : AccountOrNone, live : BOOLEAN, lasting : BOOLEAN]
HomeRecord == [member : AccountOrNone, sealedTo : AccountOrNone]

\* Whoever signs in, and whoever's key is kept, has an account.
KeptIsKnown ==
    /\ kept # NoAccount => kept \in Accounts /\ account[kept] # "none"
    /\ \A t \in Tabs : tab[t].at = "unlocking" => tab[t].user \in Accounts /\ account[tab[t].user] # "none"

\* A sign-in under way is the only one, and the cookie is its, or has been cleared.
Alone == ~disturbed => \A t, u \in Tabs : t \in AtWork => jar \in {0, tab[t].token} /\ (u \in AtWork => u = t)

BrowserInv == BrowserTypeOK /\ KeptIsKnown /\ Alone /\ KeptByGrant

LEMMA BrowserTypesAre ==
    BrowserTypeOK <=>
       /\ account \in [Accounts -> {"none", "known", "erased"}] /\ lasting \subseteq Accounts
       /\ opened \in [1..MaxSession -> SessionRecord]
       /\ jar \in 0..MaxSession /\ kept \in AccountOrNone
       /\ tab \in [Tabs -> TabRecord] /\ home \in [Homes -> HomeRecord] /\ disturbed \in BOOLEAN
BY DEF BrowserTypeOK, TabRecord, SessionRecord, HomeRecord

LEMMA BrowserBlanksAre ==
    /\ NoSession \in SessionRecord /\ NotMade \in HomeRecord
    /\ Closed \in TabRecord /\ Locked \in TabRecord /\ Closed.at = "closed" /\ Locked.at = "signin"
    /\ 0 \in 0..MaxSession
BY BrowserAssumption DEF NoSession, SessionRecord, NotMade, HomeRecord, Closed, Locked, TabRecord,
                         AccountOrNone, NoAccount, NoHome

LEMMA BrowserInitially == BrowserInit => BrowserInv
<1>. SUFFICES ASSUME BrowserInit PROVE BrowserInv
  OBVIOUS
<1>1. PICK a \in Accounts : account = [b \in Accounts |-> IF b = a THEN "known" ELSE "none"] /\ lasting = {a}
  BY DEF BrowserInit
<1>2. BrowserTypeOK
  BY <1>1, BrowserBlanksAre, BrowserTypesAre DEF BrowserInit, AccountOrNone
<1>3. \A t \in Tabs : tab[t].at = "closed"
  BY BrowserBlanksAre DEF BrowserInit
<1>. QED
  BY <1>2, <1>3 DEF BrowserInit, BrowserInv, KeptIsKnown, Alone, AtWork, KeptByGrant

\* Nobody signs in, no account is forgotten and no session begins: what was so remains.
LEMMA QuietlyKeeps ==
    ASSUME BrowserInv, BrowserTypeOK',
           \A t \in Tabs : tab'[t].at = "unlocking" => tab'[t] = tab[t],
           ~disturbed' => AtWork' = AtWork /\ ~disturbed,
           \A a \in Accounts : account[a] # "none" => account'[a] # "none",
           kept' \in {kept, NoAccount}, jar' \in {jar, 0},
           \A s \in 1..MaxSession : /\ opened'[s].of = opened[s].of /\ opened'[s].lasting = opened[s].lasting
                                    /\ opened'[s].live => opened[s].live
    PROVE  BrowserInv'
<1>1. KeptIsKnown'
  BY DEF BrowserInv, KeptIsKnown
<1>2. Alone'
  BY DEF BrowserInv, Alone, AtWork
<1>3. KeptByGrant'
  <2>. SUFFICES ASSUME AtWork' = {}, ~disturbed', kept' # NoAccount, AccountOf(jar)' = kept'
                PROVE  opened'[jar'].lasting
    BY DEF KeptByGrant
  <2>1. kept' = kept /\ jar' = jar /\ jar # 0 /\ AtWork = {} /\ ~disturbed
    BY DEF AccountOf
  <2>2. jar \in 1..MaxSession
    BY <2>1, BrowserAssumption DEF BrowserInv, BrowserTypeOK
  <2>3. AccountOf(jar) = kept
    BY <2>1, <2>2 DEF AccountOf
  <2>. QED
    BY <2>1, <2>2, <2>3 DEF BrowserInv, KeptByGrant
<1>. QED
  BY <1>1, <1>2, <1>3 DEF BrowserInv

\* One tab has moved, and the rest is as before.
LEMMA BrowserMovingKeeps ==
    ASSUME BrowserInv, NEW t \in Tabs, NEW w \in TabRecord, tab' = [tab EXCEPT ![t] = w],
           tab[t].at # "unlocking", w.at # "unlocking",
           kept' \in {kept, NoAccount}, home' \in [Homes -> HomeRecord],
           UNCHANGED <<account, lasting, opened, jar, disturbed>>
    PROVE  BrowserInv'
<1>1. tab \in [Tabs -> TabRecord]
  BY BrowserTypesAre DEF BrowserInv
<1>2. tab' \in [Tabs -> TabRecord]
  BY <1>1
<1>3. BrowserTypeOK'
  BY <1>2 DEF BrowserInv, BrowserTypeOK, TabRecord, HomeRecord, AccountOrNone
<1>4. AtWork' = AtWork /\ \A u \in Tabs : tab'[u].at = "unlocking" => tab'[u] = tab[u]
  BY <1>1 DEF AtWork
<1>. QED
  BY <1>3, <1>4, QuietlyKeeps

\* Who a request is made as.
LEMMA AskerIs ==
    ASSUME BrowserTypeOK, NEW t \in Tabs
    PROVE  Asker(t) \in AccountOrNone /\ SessionOf(t) \in 0..MaxSession
<1>1. tab[t].token \in 0..MaxSession /\ jar \in 0..MaxSession /\ opened \in [1..MaxSession -> SessionRecord]
  BY BrowserTypesAre DEF TabRecord
<1>2. SessionOf(t) \in 0..MaxSession
  BY <1>1 DEF SessionOf
<1>3. SessionOf(t) # 0 => opened[SessionOf(t)].of \in AccountOrNone
  BY <1>1, <1>2, BrowserAssumption DEF SessionRecord
<1>. QED
  BY <1>2, <1>3 DEF Asker, AccountOf, AccountOrNone

\* Ending sessions changes nothing else about them.
LEMMA EndingEnds ==
    ASSUME opened \in [1..MaxSession -> SessionRecord], NEW ended, EndSessions(ended)
    PROVE  /\ opened' \in [1..MaxSession -> SessionRecord]
           /\ \A s \in 1..MaxSession : /\ opened'[s].of = opened[s].of /\ opened'[s].lasting = opened[s].lasting
                                       /\ opened'[s].live => opened[s].live
<1>1. \A s \in 1..MaxSession : [opened[s] EXCEPT !.live = FALSE] \in SessionRecord
  BY DEF SessionRecord
<1>2. \A s \in 1..MaxSession : [opened[s] EXCEPT !.live = FALSE].of = opened[s].of
                               /\ [opened[s] EXCEPT !.live = FALSE].lasting = opened[s].lasting
                               /\ [opened[s] EXCEPT !.live = FALSE].live = FALSE
  BY DEF SessionRecord
<1>. QED
  BY <1>1, <1>2 DEF EndSessions

\* Coming back, and opening a household.
LEMMA ComingBackKeeps ==
    ASSUME BrowserInv, NEW t \in Tabs,
           \/ OpenTab(t) \/ ResumeRemembered(t) \/ LoadMe(t) \/ ListHouseholds(t) \/ SwitchHousehold(t)
           \/ \E h \in Homes : OpenHousehold(t, h) \/ CreateHousehold(t, h)
    PROVE  BrowserInv'
<1>1. tab \in [Tabs -> TabRecord] /\ tab[t] \in TabRecord /\ kept \in AccountOrNone /\ home \in [Homes -> HomeRecord]
  BY BrowserTypesAre DEF BrowserInv
<1>2. Asker(t) \in AccountOrNone
  BY AskerIs DEF BrowserInv
<1>3. UNCHANGED <<account, lasting, opened, jar, disturbed>>
  BY DEF OpenTab, ResumeRemembered, LoadMe, ListHouseholds, SwitchHousehold, OpenHousehold, CreateHousehold
<1>4. ASSUME NEW at \in {"signin", "listing", "create", "pick", "ready", "fatal", "landing"},
             NEW user \in AccountOrNone, NEW open \in Homes \cup {NoHome}
      PROVE  [tab[t] EXCEPT !.at = at, !.user = user, !.open = open] \in TabRecord
  BY <1>1 DEF TabRecord
<1>5. ASSUME OpenTab(t) PROVE BrowserInv'
  <2> DEFINE w == IF kept = NoAccount THEN Locked ELSE [Closed EXCEPT !.at = "recalled", !.keys = kept]
  <2>1. [Closed EXCEPT !.at = "recalled", !.keys = kept] \in TabRecord
    BY <1>1, BrowserBlanksAre DEF TabRecord
  <2>2. w \in TabRecord /\ w.at # "unlocking"
    BY <2>1, BrowserBlanksAre DEF TabRecord, Closed
  <2>3. tab' = [tab EXCEPT ![t] = w] /\ tab[t].at # "unlocking" /\ UNCHANGED <<kept, home>>
    BY <1>5, BrowserBlanksAre DEF OpenTab
  <2> HIDE DEF w
  <2>. QED
    BY <1>1, <1>3, <2>2, <2>3, BrowserMovingKeeps
<1>6. ASSUME ResumeRemembered(t) PROVE BrowserInv'
  <2> DEFINE w == [tab[t] EXCEPT !.at = "landing", !.user = tab[t].keys]
  <2>1. w \in TabRecord /\ w.at # "unlocking"
    BY <1>1 DEF TabRecord
  <2>2. tab[t].at # "unlocking" /\ UNCHANGED home /\ kept' \in {kept, NoAccount}
    BY <1>6 DEF ResumeRemembered
  <2>3. CASE Asker(t) = tab[t].keys
    <3>1. tab' = [tab EXCEPT ![t] = w]
      BY <1>1, <1>6, <2>3 DEF ResumeRemembered
    <3> HIDE DEF w
    <3>. QED
      BY <1>1, <1>3, <2>1, <2>2, <3>1, BrowserMovingKeeps
  <2>4. CASE Asker(t) # tab[t].keys
    <3>1. tab' = [tab EXCEPT ![t] = Locked]
      BY <1>6, <2>4 DEF ResumeRemembered
    <3>. QED
      BY <1>1, <1>3, <2>2, <3>1, BrowserBlanksAre, BrowserMovingKeeps
  <2>. QED
    BY <2>3, <2>4
<1>7. ASSUME NEW at \in {"signin", "listing", "create", "pick", "ready", "fatal"},
             NEW user \in AccountOrNone, NEW open \in Homes \cup {NoHome},
             tab' = [tab EXCEPT ![t] = [tab[t] EXCEPT !.at = at, !.user = user, !.open = open]],
             tab[t].at # "unlocking", UNCHANGED kept, home' \in [Homes -> HomeRecord]
      PROVE  BrowserInv'
  <2> DEFINE w == [tab[t] EXCEPT !.at = at, !.user = user, !.open = open]
  <2>1. w \in TabRecord /\ w.at # "unlocking"
    <3>1. w \in TabRecord
      BY <1>4
    <3>2. w.at = at
      BY <1>1 DEF TabRecord
    <3>. QED
      BY <3>1, <3>2
  <2>2. tab' = [tab EXCEPT ![t] = w]
    BY <1>7
  <2> HIDE DEF w
  <2>. QED
    BY <1>3, <1>7, <2>1, <2>2, BrowserMovingKeeps
<1>8. tab[t].user \in AccountOrNone /\ tab[t].open \in Homes \cup {NoHome} /\ NoHome \in Homes \cup {NoHome}
  BY <1>1 DEF TabRecord
<1>9. ASSUME LoadMe(t) PROVE BrowserInv'
  <2> DEFINE at == IF Asker(t) = NoAccount THEN "signin" ELSE "listing"
             user == IF Asker(t) = NoAccount THEN tab[t].user ELSE Asker(t)
  <2>1. tab' = [tab EXCEPT ![t] = [tab[t] EXCEPT !.at = at, !.user = user, !.open = tab[t].open]]
    BY <1>1, <1>9 DEF LoadMe, TabRecord
  <2>2. at \in {"signin", "listing"} /\ user \in AccountOrNone
    BY <1>2, <1>8
  <2>3. tab[t].at # "unlocking" /\ UNCHANGED <<kept, home>>
    BY <1>9 DEF LoadMe
  <2> HIDE DEF at, user
  <2>. QED
    BY <1>1, <1>7, <1>8, <2>1, <2>2, <2>3
<1>10. ASSUME NEW at \in {"signin", "create", "pick", "ready", "fatal"}, NEW open \in Homes \cup {NoHome},
              tab[t].at # "unlocking", UNCHANGED kept, home' \in [Homes -> HomeRecord],
              tab' = [tab EXCEPT ![t].at = at, ![t].open = open]
       PROVE  BrowserInv'
  <2>1. tab' = [tab EXCEPT ![t] = [tab[t] EXCEPT !.at = at, !.user = tab[t].user, !.open = open]]
    BY <1>1, <1>10 DEF TabRecord
  <2>. QED
    BY <1>7, <1>8, <1>10, <2>1
<1>11. ASSUME NEW at \in {"signin", "create", "pick", "fatal"}, MoveTo(t, at),
              tab[t].at # "unlocking", UNCHANGED <<kept, home>>
       PROVE  BrowserInv'
  <2>1. tab' = [tab EXCEPT ![t].at = at, ![t].open = tab[t].open]
    BY <1>1, <1>11 DEF MoveTo, TabRecord
  <2>. QED
    BY <1>1, <1>8, <1>10, <1>11, <2>1
<1>12. ASSUME ListHouseholds(t) PROVE BrowserInv'
  <2>1. tab[t].at # "unlocking" /\ UNCHANGED <<kept, home>>
    BY <1>12 DEF ListHouseholds
  <2>2. \/ MoveTo(t, "signin") \/ MoveTo(t, "create") \/ MoveTo(t, "pick") \/ MoveTo(t, "fatal")
        \/ \E h \in Homes : tab' = [tab EXCEPT ![t].at = "ready", ![t].open = h]
    BY <1>12 DEF ListHouseholds, HomesOf
  <2>. QED
    BY <1>1, <1>10, <1>11, <2>1, <2>2
<1>13. ASSUME SwitchHousehold(t) PROVE BrowserInv'
  BY <1>1, <1>8, <1>10, <1>13 DEF SwitchHousehold
<1>14. ASSUME NEW h \in Homes, OpenHousehold(t, h) PROVE BrowserInv'
  BY <1>1, <1>10, <1>14 DEF OpenHousehold
<1>15. ASSUME NEW h \in Homes, CreateHousehold(t, h) PROVE BrowserInv'
  <2>1. [member |-> Asker(t), sealedTo |-> tab[t].keys] \in HomeRecord
    BY <1>1, <1>2 DEF HomeRecord, TabRecord
  <2>2. home' \in [Homes -> HomeRecord]
    BY <1>1, <1>15, <2>1 DEF CreateHousehold
  <2>. QED
    BY <1>10, <1>15, <2>2 DEF CreateHousehold
<1>. QED
  BY <1>5, <1>6, <1>9, <1>12, <1>13, <1>14, <1>15

\* Leaving: sessions end, and no tab begins anything.
LEMMA LeavingKeeps ==
    ASSUME BrowserInv, tab' \in [Tabs -> TabRecord], opened' \in [1..MaxSession -> SessionRecord],
           \A t \in Tabs : tab'[t].at = "unlocking" => tab'[t] = tab[t],
           ~disturbed' => AtWork' = AtWork /\ ~disturbed, disturbed' \in BOOLEAN,
           account' \in [Accounts -> {"none", "known", "erased"}],
           \A a \in Accounts : account[a] # "none" => account'[a] # "none",
           lasting' \subseteq Accounts, home' \in [Homes -> HomeRecord],
           kept' \in {kept, NoAccount}, jar' \in {jar, 0},
           \A s \in 1..MaxSession : /\ opened'[s].of = opened[s].of /\ opened'[s].lasting = opened[s].lasting
                                    /\ opened'[s].live => opened[s].live
    PROVE  BrowserInv'
<1>1. kept' \in AccountOrNone /\ jar' \in 0..MaxSession
  BY BrowserAssumption DEF BrowserInv, BrowserTypeOK, AccountOrNone
<1>2. BrowserTypeOK'
  BY <1>1 DEF BrowserTypeOK, TabRecord, SessionRecord, HomeRecord, AccountOrNone
<1>. QED
  BY <1>2, QuietlyKeeps

LEMMA GoingKeeps ==
    ASSUME BrowserInv,
           \/ \E t \in Tabs :
                \/ SignOut(t) \/ EraseAccount(t) \/ CloseTab(t)
                \/ \E h \in Homes : DeleteHousehold(t, h)
                \/ \E allowed \in BOOLEAN : SetSessionPolicy(t, allowed)
           \/ \E a \in Accounts : CutElsewhere(a)
           \/ \E s \in 1..MaxSession : SessionExpires(s)
    PROVE  BrowserInv'
<1>1. /\ tab \in [Tabs -> TabRecord] /\ opened \in [1..MaxSession -> SessionRecord]
      /\ account \in [Accounts -> {"none", "known", "erased"}] /\ lasting \subseteq Accounts
      /\ home \in [Homes -> HomeRecord] /\ disturbed \in BOOLEAN
  BY BrowserTypesAre DEF BrowserInv
<1> DEFINE Ended == /\ opened' \in [1..MaxSession -> SessionRecord]
                    /\ \A s \in 1..MaxSession : /\ opened'[s].of = opened[s].of /\ opened'[s].lasting = opened[s].lasting
                                                /\ opened'[s].live => opened[s].live
           Stay == /\ tab' \in [Tabs -> TabRecord] /\ AtWork' = AtWork
                   /\ \A t \in Tabs : tab'[t].at = "unlocking" => tab'[t] = tab[t]
<1>2. UNCHANGED opened => Ended
  BY <1>1
<1>3. UNCHANGED tab => Stay
  BY <1>1 DEF AtWork
<1>4. ASSUME NEW t \in Tabs, NEW w \in {Closed, Locked}, tab[t].at # "unlocking", tab' = [tab EXCEPT ![t] = w]
      PROVE  Stay
  <2>1. w \in TabRecord /\ w.at # "unlocking"
    BY BrowserBlanksAre
  <2>2. tab' \in [Tabs -> TabRecord]
    BY <1>1, <1>4, <2>1
  <2>3. \A u \in Tabs : u # t => tab'[u] = tab[u]
    BY <1>1, <1>4
  <2>4. tab'[t].at # "unlocking"
    BY <1>1, <1>4, <2>1
  <2>. QED
    BY <1>4, <2>2, <2>3, <2>4 DEF AtWork
<1>5. ASSUME NEW t \in Tabs, SignOut(t) PROVE BrowserInv'
  <2>1. Ended /\ jar' \in {jar, 0}
    BY <1>1, <1>2, <1>5, EndingEnds DEF SignOut
  <2>2. Stay
    BY <1>4, <1>5 DEF SignOut, SignedIn
  <2>3. kept' \in {kept, NoAccount} /\ UNCHANGED <<account, lasting, home, disturbed>>
    BY <1>5 DEF SignOut
  <2>. QED
    BY <1>1, <2>1, <2>2, <2>3, LeavingKeeps
<1>6. ASSUME NEW t \in Tabs, EraseAccount(t) PROVE BrowserInv'
  <2>1. Ended
    BY <1>1, <1>6, EndingEnds DEF EraseAccount
  <2>2. Stay
    BY <1>4, <1>6 DEF EraseAccount
  <2>3. home' \in [Homes -> HomeRecord] /\ lasting' \subseteq Accounts
    BY <1>1, <1>6, BrowserBlanksAre DEF EraseAccount
  <2>4. account' = [account EXCEPT ![Asker(t)] = "erased"]
    BY <1>6 DEF EraseAccount
  <2>5. account' \in [Accounts -> {"none", "known", "erased"}] /\ \A a \in Accounts : account[a] # "none" => account'[a] # "none"
    BY <1>1, <2>4
  <2>6. UNCHANGED <<jar, kept, disturbed>>
    BY <1>6 DEF EraseAccount
  <2>. QED
    BY <1>1, <2>1, <2>2, <2>3, <2>5, <2>6, LeavingKeeps
<1>7. ASSUME NEW t \in Tabs, CloseTab(t) PROVE BrowserInv'
  <2>1. UNCHANGED <<account, lasting, opened, jar, kept, home>>
    BY <1>7 DEF CloseTab
  <2>2. tab' = [tab EXCEPT ![t] = Closed] /\ disturbed' = (disturbed \/ t \in AtWork)
    BY <1>7 DEF CloseTab
  <2>3. disturbed' \in BOOLEAN
    BY <1>1, <2>2
  <2>4. tab' \in [Tabs -> TabRecord] /\ \A u \in Tabs : tab'[u].at = "unlocking" => tab'[u] = tab[u]
    BY <1>1, <2>2, BrowserBlanksAre
  <2>5. ~disturbed' => AtWork' = AtWork /\ ~disturbed
    <3>1. ASSUME tab[t].at # "unlocking" PROVE AtWork' = AtWork
      BY <1>4, <2>2, <3>1
    <3>. QED
      BY <2>2, <3>1 DEF AtWork
  <2>. QED
    BY <1>1, <1>2, <2>1, <2>3, <2>4, <2>5, LeavingKeeps
<1>8. ASSUME NEW t \in Tabs, NEW h \in Homes, DeleteHousehold(t, h) PROVE BrowserInv'
  <2>1. home' \in [Homes -> HomeRecord] /\ UNCHANGED <<account, lasting, opened, jar, kept, tab, disturbed>>
    BY <1>1, <1>8, BrowserBlanksAre DEF DeleteHousehold
  <2>. QED
    BY <1>1, <1>2, <1>3, <2>1, LeavingKeeps
<1>9. ASSUME NEW t \in Tabs, NEW allowed \in BOOLEAN, SetSessionPolicy(t, allowed) PROVE BrowserInv'
  <2>1. Ended
    BY <1>1, <1>9, EndingEnds DEF SetSessionPolicy
  <2>2. Asker(t) \in Accounts
    BY <1>9, AskerIs DEF SetSessionPolicy, BrowserInv, AccountOrNone
  <2>3. lasting' \subseteq Accounts /\ kept' \in {kept, NoAccount} /\ UNCHANGED <<account, jar, tab, home, disturbed>>
    BY <1>1, <1>9, <2>2 DEF SetSessionPolicy
  <2>. QED
    BY <1>1, <1>3, <2>1, <2>3, LeavingKeeps
<1>10. ASSUME NEW a \in Accounts, CutElsewhere(a) PROVE BrowserInv'
  <2>1. Ended
    BY <1>1, <1>10, EndingEnds DEF CutElsewhere
  <2>2. lasting' \subseteq Accounts /\ UNCHANGED <<account, jar, kept, tab, home, disturbed>>
    BY <1>1, <1>10 DEF CutElsewhere
  <2>. QED
    BY <1>1, <1>3, <2>1, <2>2, LeavingKeeps
<1>11. ASSUME NEW s \in 1..MaxSession, SessionExpires(s) PROVE BrowserInv'
  <2>1. Ended /\ UNCHANGED <<account, lasting, jar, kept, tab, home, disturbed>>
    BY <1>1, <1>11, EndingEnds DEF SessionExpires
  <2>. QED
    BY <1>1, <1>3, <2>1, LeavingKeeps
<1>. QED
  BY <1>5, <1>6, <1>7, <1>8, <1>9, <1>10, <1>11

\* Of some numbers one is the least.
\* A session begins: one that was not there, of the account, and the cookie is its.
LEMMA OpeningOpens ==
    ASSUME BrowserTypeOK, NEW a \in Accounts, NEW remembered \in BOOLEAN, OpenSession(a, remembered)
    PROVE  /\ jar' \in 1..MaxSession /\ opened' \in [1..MaxSession -> SessionRecord]
           /\ opened'[jar'].of = a /\ opened'[jar'].lasting = remembered
<1>1. opened \in [1..MaxSession -> SessionRecord]
  BY BrowserTypesAre
<1>2. Unused \subseteq 1..MaxSession /\ Unused # {} /\ Unused \in SUBSET Nat
  BY DEF OpenSession, Unused
<1>3. PICK x \in Unused : \A y \in Unused : x <= y
  BY <1>2, LeastIs
<1>4. Min(Unused) \in Unused
  BY <1>3 DEF Min
<1>5. jar' = Min(Unused) /\ opened' = [opened EXCEPT ![Min(Unused)] = [of |-> a, live |-> TRUE, lasting |-> remembered]]
  BY DEF OpenSession
<1>6. [of |-> a, live |-> TRUE, lasting |-> remembered] \in SessionRecord
  BY DEF SessionRecord, AccountOrNone
<1>. QED
  BY <1>1, <1>2, <1>4, <1>5, <1>6

LEMMA RegisteringKeeps ==
    ASSUME BrowserInv, NEW t \in Tabs, NEW a \in Accounts, Register(t, a)
    PROVE  BrowserInv'
<1> DEFINE w == [Closed EXCEPT !.at = "landing", !.token = jar', !.user = a, !.keys = a]
<1>1. /\ tab \in [Tabs -> TabRecord] /\ account \in [Accounts -> {"none", "known", "erased"}]
      /\ disturbed \in BOOLEAN /\ BrowserTypeOK
  BY BrowserTypesAre DEF BrowserInv
<1>2. /\ jar' \in 1..MaxSession /\ opened' \in [1..MaxSession -> SessionRecord]
      /\ opened'[jar'].of = a /\ UNCHANGED <<lasting, kept, home>>
  BY <1>1, OpeningOpens DEF Register
<1>3. w \in TabRecord /\ w.at = "landing"
  <2>1. jar' \in 0..MaxSession /\ a \in AccountOrNone /\ Closed \in TabRecord
    BY <1>2, BrowserBlanksAre DEF AccountOrNone
  <2>. QED
    BY <2>1 DEF TabRecord
<1>4. tab' = [tab EXCEPT ![t] = w] /\ tab[t].at = "signin"
  BY DEF Register
<1> HIDE DEF w
<1>5. tab' \in [Tabs -> TabRecord] /\ (\A u \in Tabs : tab'[u].at = "unlocking" => tab'[u] = tab[u]) /\ AtWork' = AtWork
  <2>1. tab' \in [Tabs -> TabRecord] /\ tab'[t] = w /\ \A u \in Tabs : u # t => tab'[u] = tab[u]
    BY <1>1, <1>3, <1>4
  <2>. QED
    BY <1>3, <1>4, <2>1 DEF AtWork
<1>6. account' = [account EXCEPT ![a] = "known"] /\ account[a] = "none" /\ disturbed' = (disturbed \/ AtWork # {})
  BY DEF Register
<1>7. account' \in [Accounts -> {"none", "known", "erased"}] /\ disturbed' \in BOOLEAN /\ jar' \in 0..MaxSession
  BY <1>1, <1>2, <1>6
<1>8. BrowserTypeOK'
  BY <1>1, <1>2, <1>5, <1>7 DEF BrowserTypeOK, TabRecord, SessionRecord, HomeRecord, AccountOrNone
<1>9. KeptIsKnown'
  BY <1>1, <1>2, <1>5, <1>6 DEF BrowserInv, KeptIsKnown
<1>10. Alone'
  BY <1>5, <1>6 DEF Alone, AtWork
<1>11. KeptByGrant'
  <2>1. kept # NoAccount => kept # a
    BY <1>6 DEF BrowserInv, KeptIsKnown
  <2>2. AccountOf(jar)' \in {a, NoAccount}
    BY <1>2 DEF AccountOf
  <2>. QED
    BY <1>2, <2>1, <2>2 DEF KeptByGrant
<1>. QED
  BY <1>8, <1>9, <1>10, <1>11 DEF BrowserInv

LEMMA SigningInKeeps ==
    ASSUME BrowserInv, NEW t \in Tabs, NEW a \in Accounts, NEW remember \in BOOLEAN, SignIn(t, a, remember)
    PROVE  BrowserInv'
<1> DEFINE w == [Closed EXCEPT !.at = "unlocking", !.token = jar', !.user = a]
<1>1. /\ tab \in [Tabs -> TabRecord] /\ disturbed \in BOOLEAN /\ BrowserTypeOK
  BY BrowserTypesAre DEF BrowserInv
<1>2. jar' \in 1..MaxSession /\ opened' \in [1..MaxSession -> SessionRecord]
  <2>1. (remember /\ a \in lasting) \in BOOLEAN /\ OpenSession(a, remember /\ a \in lasting)
    BY DEF SignIn
  <2> DEFINE granted == remember /\ a \in lasting
  <2>2. granted \in BOOLEAN /\ OpenSession(a, granted)
    BY <2>1
  <2> HIDE DEF granted
  <2>. QED
    BY <1>1, <2>2, OpeningOpens
<1>3. w \in TabRecord /\ w.at = "unlocking" /\ w.token = jar' /\ w.user = a
  <2>1. jar' \in 0..MaxSession /\ a \in AccountOrNone /\ Closed \in TabRecord
    BY <1>2, BrowserBlanksAre DEF AccountOrNone
  <2>. QED
    BY <2>1 DEF TabRecord
<1>4. tab' = [tab EXCEPT ![t] = w]
  BY DEF SignIn
<1> HIDE DEF w
<1>5. tab' \in [Tabs -> TabRecord] /\ tab'[t] = w /\ \A u \in Tabs : u # t => tab'[u] = tab[u]
  BY <1>1, <1>3, <1>4
<1>6. /\ account[a] = "known" /\ disturbed' = (disturbed \/ AtWork # {})
      /\ UNCHANGED <<account, lasting, kept, home>>
  BY DEF SignIn
<1>7. disturbed' \in BOOLEAN /\ jar' \in 0..MaxSession
  BY <1>1, <1>2, <1>6
<1>8. BrowserTypeOK'
  BY <1>1, <1>2, <1>5, <1>6, <1>7 DEF BrowserTypeOK, TabRecord, SessionRecord, HomeRecord, AccountOrNone
<1>9. KeptIsKnown'
  BY <1>3, <1>5, <1>6 DEF BrowserInv, KeptIsKnown
<1>10. Alone'
  BY <1>3, <1>5, <1>6 DEF Alone, AtWork
<1>11. t \in AtWork'
  BY <1>3, <1>5 DEF AtWork
<1>. QED
  BY <1>8, <1>9, <1>10, <1>11 DEF BrowserInv, KeptByGrant

LEMMA FinishingKeeps ==
    ASSUME BrowserInv, NEW t \in Tabs, FinishSignIn(t)
    PROVE  BrowserInv'
<1> DEFINE w == [tab[t] EXCEPT !.at = "landing", !.keys = tab[t].user]
<1>1. tab \in [Tabs -> TabRecord] /\ tab[t] \in TabRecord /\ tab[t].at = "unlocking"
  BY BrowserTypesAre DEF BrowserInv, FinishSignIn
<1>2. w \in TabRecord /\ w.at = "landing"
  BY <1>1 DEF TabRecord
<1>3. tab' = [tab EXCEPT ![t] = w]
  BY <1>1 DEF FinishSignIn
<1> HIDE DEF w
<1>4. tab' \in [Tabs -> TabRecord] /\ tab'[t] = w /\ \A u \in Tabs : u # t => tab'[u] = tab[u]
  BY <1>1, <1>2, <1>3
<1>5. UNCHANGED <<account, lasting, opened, jar, home, disturbed>>
  BY DEF FinishSignIn
<1>6. kept' = IF opened[tab[t].token].lasting THEN tab[t].user ELSE NoAccount
  BY DEF FinishSignIn, RecordAfter
<1>7. tab[t].user \in Accounts /\ account[tab[t].user] # "none"
  BY <1>1 DEF BrowserInv, KeptIsKnown
<1>8. kept' \in AccountOrNone
  BY <1>6, <1>7 DEF AccountOrNone
<1>9. BrowserTypeOK'
  BY <1>4, <1>5, <1>8 DEF BrowserInv, BrowserTypeOK, TabRecord, SessionRecord, HomeRecord, AccountOrNone
<1>10. KeptIsKnown'
  BY <1>2, <1>4, <1>5, <1>6, <1>7 DEF BrowserInv, KeptIsKnown
<1>11. Alone'
  BY <1>2, <1>4, <1>5 DEF BrowserInv, Alone, AtWork
<1>12. KeptByGrant'
  <2>. SUFFICES ASSUME ~disturbed, kept' # NoAccount, AccountOf(jar)' = kept'
                PROVE  opened[jar].lasting
    BY <1>5 DEF KeptByGrant
  <2>1. jar \in {0, tab[t].token}
    BY <1>1 DEF BrowserInv, Alone, AtWork
  <2>2. jar # 0
    BY <1>5 DEF AccountOf
  <2>3. opened[tab[t].token].lasting
    BY <1>6
  <2>. QED
    BY <2>1, <2>2, <2>3
<1>. QED
  BY <1>9, <1>10, <1>11, <1>12 DEF BrowserInv

LEMMA BrowserStep == BrowserInv /\ [BrowserNext]_browserVars => BrowserInv'
<1>. SUFFICES ASSUME BrowserInv, [BrowserNext]_browserVars
              PROVE  BrowserInv'
  OBVIOUS
<1>1. CASE UNCHANGED browserVars
  BY <1>1 DEF browserVars, BrowserInv, BrowserTypeOK, KeptIsKnown, Alone, AtWork, KeptByGrant, AccountOf
<1>2. CASE BrowserNext
  BY <1>2, ComingBackKeeps, GoingKeeps, RegisteringKeeps, SigningInKeeps, FinishingKeeps DEF BrowserNext
<1>. QED
  BY <1>1, <1>2

\* A browser whose cookie and whose kept key are one account's has them from a sign-in that
\* was granted (session.js:124-138 and 166-168), unless two sign-ins overlapped or one was
\* cut short.
THEOREM RecordsWereGranted == BrowserSpec => []KeptByGrant
<1>1. BrowserInv => KeptByGrant
  BY DEF BrowserInv
<1>. QED
  BY <1>1, BrowserInitially, BrowserStep, PTL DEF BrowserSpec

==============================================================================

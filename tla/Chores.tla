------------------------------- MODULE Chores -------------------------------
(***************************************************************************)
(* One recurring chore of the household document: the days it is due,      *)
(* whose turn it is, what is marked on each day, and the archive of        *)
(* completions.                                                            *)
(*                                                                         *)
(* A day is a number; WeekLength days make a week.  A mark is nothing, a   *)
(* skip, or a completion.  Titles, notes, the hour of a tick and the       *)
(* monthly cadences are left out.                                          *)
(***************************************************************************)
EXTENDS Integers, FiniteSets, FiniteSetsExt, SequencesExt

CONSTANTS Members,    \* the people of the document, each with an account
          LastDay,    \* the days that are looked at are 1..LastDay
          WeekLength, \* days in a week
          Rotations,  \* the rotations the editor is used to set
          Choosable   \* the cadences it is used to set

ASSUME ChoresAssumption ==
    /\ LastDay \in Nat \ {0} /\ WeekLength \in Nat \ {0}
    /\ Rotations \subseteq Seq(Members)

VARIABLES chore,   \* the chore
          record,  \* archive.chores: the completions kept, in order
          keeping, \* archiveSettings.chores
          today
choreVars == <<chore, record, keeping, today>>

Days == 1..LastDay
Nobody == ""
Weekdays == 0..(WeekLength - 1)
DayOfWeek(d) == d % WeekLength
WeekOf(d) == d \div WeekLength

\* Who may tap: a member, an account linked to nobody, a shared display.
Actors ==
    [kind : {"member"}, person : Members, user : Members]
        \cup {[kind |-> "unlinked", person |-> Nobody, user |-> "guest"],
              [kind |-> "display", person |-> Nobody, user |-> Nobody]}

NoMark == [kind |-> "none"]
Skip == [kind |-> "skip"]
Completions ==
    [kind : {"done"}, type : {"user", "display", "onBehalf", "legacy"}, by : Members \cup {Nobody},
     user : Members \cup {"guest", Nobody}, for : Members \cup {Nobody}, locked : BOOLEAN]
IsCompletion(mark) == mark.kind = "done"

Cadences ==
    [type : {"daily"}] \cup [type : {"interval"}, every : 2..3, start : Days]
        \cup [type : {"weekly"}, days : SUBSET Weekdays \ {{}}, every : 1..2, anchor : Days]
        \cup [type : {"perPerson"}, people : [Members -> SUBSET Weekdays]]
ASSUME CadencesAssumption == Choosable \subseteq Cadences

Pauses == [from : 0..LastDay, until : 0..LastDay]
NoPause == [from |-> 0, until |-> 0]

-----------------------------------------------------------------------------
(* When it is due.                                                         *)

IsPausedOn(c, d) ==
    /\ c.pause # NoPause
    /\ c.pause.from = 0 \/ d >= c.pause.from
    /\ c.pause.until = 0 \/ d <= c.pause.until

\* The days whose occurrence was moved to this one.
MovedFrom(c, d) == {f \in Days : c.moved[f] = d}
MovedTo(c, d) == c.moved[d]

Scheduled(k, d) ==
    \/ k.type = "daily"
    \/ /\ k.type = "interval"
       /\ d >= k.start /\ (d - k.start) % k.every = 0
    \/ /\ k.type = "weekly"
       /\ DayOfWeek(d) \in k.days
       /\ (WeekOf(d) - WeekOf(k.anchor)) % k.every = 0
    \/ /\ k.type = "perPerson"
       /\ \E p \in Members : DayOfWeek(d) \in k.people[p]

DueOn(c, d) ==
    \/ MovedFrom(c, d) # {}
    \/ MovedTo(c, d) = 0 /\ ~IsPausedOn(c, d) /\ Scheduled(c.cadence, d)

\* The days before d since the chore was last dealt with.
SinceDealtWith(c, d) ==
    {k \in c.created..(d - 1) : \A j \in k..(d - 1) : c.done[j] = NoMark}

\* oldestOwed: it also stops at a pause.
OldestOwed(c, d) ==
    LET owed == {k \in SinceDealtWith(c, d) :
                    DueOn(c, k) /\ \A j \in k..(d - 1) : ~IsPausedOn(c, j)}
    IN  IF owed = {} THEN 0 ELSE Min(owed)

\* A mutant of the next: Skip marks one occurrence, the oldest.
OneOwed(c, d) == {IF OldestOwed(c, d) = 0 THEN d ELSE OldestOwed(c, d)}

\* owedOccurrences: what Skip marks; it walks through a pause.
OwedOccurrences(c, d) ==
    {k \in SinceDealtWith(c, d) : DueOn(c, k)}
        \cup {k \in {d} : DueOn(c, k) /\ c.done[k] = NoMark}

Asleep(c, d) == c.done[d] = NoMark /\ IsPausedOn(c, d)
Missed(c, d) == c.done[d] = NoMark /\ ~Asleep(c, d) /\ OldestOwed(c, d) # 0
Active(c, d) == ~Asleep(c, d) /\ (c.done[d] # NoMark \/ DueOn(c, d) \/ Missed(c, d))
StillAsked(c, d) == Active(c, d) /\ c.done[d] = NoMark

-----------------------------------------------------------------------------
(* Whose turn it is.                                                       *)

\* The person whose day it is; when two have it, the rotation's order decides.
ScheduledPerson(c, d) ==
    LET theirs == {p \in Members : DayOfWeek(d) \in c.cadence.people[p]}
        ranked == {i \in DOMAIN c.rotation : c.rotation[i] \in theirs}
    IN  IF c.rotation # <<>>
        THEN IF ranked = {} THEN Nobody ELSE c.rotation[Min(ranked)]
        ELSE IF theirs = {} THEN Nobody ELSE CHOOSE p \in theirs : TRUE

LastCompletion(c, d) ==
    LET before == {k \in Days : k < d /\ IsCompletion(c.done[k])}
    IN  IF before = {} THEN 0 ELSE Max(before)

Rotating(c) == Len(c.rotation) > 1
InRotation(c, p) == p \in ToSet(c.rotation)

NextInLine(c, p) ==
    IF InRotation(c, p)
    THEN c.rotation[(SelectInSeq(c.rotation, LAMBDA x : x = p) % Len(c.rotation)) + 1]
    ELSE c.rotation[1]

\* Whom a completion gives the day to: covered people keep it.
Holder(c, mark) ==
    IF InRotation(c, mark.for) THEN mark.for
    ELSE IF InRotation(c, mark.by) THEN mark.by ELSE Nobody

\* A mutant of the next: the turn moves on with the days.
TurnByDate(c, d) == IF Rotating(c) THEN c.rotation[(d % Len(c.rotation)) + 1] ELSE c.owner

AssigneeFor(c, d) ==
    LET named == IF c.cadence.type = "perPerson" THEN ScheduledPerson(c, d) ELSE Nobody
        onDay == IF IsCompletion(c.done[d]) THEN Holder(c, c.done[d]) ELSE Nobody
        last  == LastCompletion(c, d)
    IN  IF named # Nobody THEN named
        ELSE IF ~Rotating(c) THEN IF c.rotation = <<>> THEN c.owner ELSE c.rotation[1]
        ELSE IF onDay # Nobody THEN onDay
        ELSE IF last = 0 THEN c.rotation[1]
        ELSE IF InRotation(c, c.done[last].for) THEN c.done[last].for
        ELSE NextInLine(c, c.done[last].by)

-----------------------------------------------------------------------------
(* What a tap writes.                                                      *)

\* Who is credited: whoever taps; else the person whose turn it is.
MarkCompleted(actor, fallback) ==
    [kind |-> "done",
     type |-> IF actor.kind = "display" THEN "display" ELSE "user",
     by |-> IF actor.person # Nobody THEN actor.person ELSE fallback,
     user |-> actor.user, for |-> Nobody, locked |-> actor.person # Nobody]

CanUncheck(mark, actor) ==
    mark.type # "user" \/ actor.kind = "display" \/ mark.user = actor.user

Covered(owed, person, actor) ==
    [kind |-> "done", type |-> "onBehalf", by |-> person, user |-> actor.user,
     for |-> IF owed # person THEN owed ELSE Nobody, locked |-> FALSE]

Entry(d, mark) == [day |-> d, by |-> mark.by, type |-> mark.type]

AppendArchive(entry) == IF keeping THEN Append(record, entry) ELSE record

\* A mutant of the next: undoing a tick forgets the archive.
EntryStays(d) == record

\* Only the most recent entry of the day goes.
RetractArchive(d) ==
    LET at == {i \in DOMAIN record : record[i].day = d}
    IN  IF at = {} THEN record ELSE RemoveAt(record, Max(at))

Credited(d, person) ==
    [i \in DOMAIN record |-> IF record[i].day = d THEN [record[i] EXCEPT !.by = person] ELSE record[i]]

-----------------------------------------------------------------------------
(* The taps.  A row is there on the days the chore is active.              *)

ChoresTypeOK ==
    /\ chore \in [here : BOOLEAN, created : Days, cadence : Cadences, rotation : Rotations \cup {<<>>},
                  owner : Members \cup {Nobody}, pause : Pauses,
                  moved : [Days -> 0..(LastDay + 3)], done : [Days -> Completions \cup {NoMark, Skip}]]
    /\ record \in Seq([day : Days, by : Members \cup {Nobody}, type : {"user", "display", "onBehalf"}])
    /\ keeping \in BOOLEAN
    /\ today \in Days

ByHand(p) == [kind |-> "done", type |-> "legacy", by |-> p, user |-> Nobody, for |-> Nobody, locked |-> FALSE]

ChoresInit ==
    /\ today = 1
    /\ \E first \in {NoMark} \cup {ByHand(p) : p \in Members}, k \in Choosable, r \in Rotations \cup {<<>>},
          p \in Members :
         chore = [here |-> TRUE, created |-> 1, cadence |-> k, rotation |-> r, owner |-> p, pause |-> NoPause,
                  moved |-> [d \in Days |-> 0], done |-> [d \in Days |-> IF d = 1 THEN first ELSE NoMark]]
    /\ record = <<>>
    /\ keeping \in BOOLEAN

Row(d) == chore.here /\ Active(chore, d)
Mark(d, mark) == chore' = [chore EXCEPT !.done[d] = mark]

Tick(d, actor) ==
    LET mark == MarkCompleted(actor, AssigneeFor(chore, d))
    IN  /\ ~IsCompletion(chore.done[d]) /\ Row(d)
        /\ Mark(d, mark)
        /\ record' = AppendArchive(Entry(d, mark))
        /\ UNCHANGED <<keeping, today>>

Untick(d, actor) ==
    /\ IsCompletion(chore.done[d]) /\ Row(d)
    /\ CanUncheck(chore.done[d], actor)
    /\ Mark(d, NoMark)
    /\ record' = RetractArchive(d)
    /\ UNCHANGED <<keeping, today>>

\* A correction of an unlocked completion, from the row, the history or the archive.
AttributeChore(d, person) ==
    /\ chore.here /\ IsCompletion(chore.done[d])
    /\ ~chore.done[d].locked
    /\ Mark(d, [chore.done[d] EXCEPT !.by = person])
    /\ record' = Credited(d, person)
    /\ UNCHANGED <<keeping, today>>

\* Somebody else did it; once it is done this is a correction.
CompleteOnBehalf(d, person, actor) ==
    LET mark == Covered(AssigneeFor(chore, d), person, actor)
    IN  /\ ~IsCompletion(chore.done[d]) /\ Row(d)
        /\ Mark(d, mark)
        /\ record' = AppendArchive(Entry(d, mark))
        /\ UNCHANGED <<keeping, today>>

\* Skip clears every occurrence owed, so that it does not come back tomorrow.
SkipDays(c, d) ==
    [c EXCEPT !.done = [k \in Days |-> IF k \in OwedOccurrences(c, d) THEN Skip ELSE c.done[k]]]
SkipChore(d) ==
    /\ chore.done[d] = NoMark /\ Row(d)
    /\ chore' = SkipDays(chore, d)
    /\ UNCHANGED <<record, keeping, today>>

\* One occurrence to a later day; the day's own, or the one that was moved here.
MoveOccurrence(d, days) ==
    /\ chore.done[d] = NoMark /\ Row(d)
    /\ LET here == MovedFrom(chore, d)
       IN  \E from \in IF here = {} THEN {d} ELSE here :
             chore' = [chore EXCEPT !.moved[from] = d + days]
    /\ UNCHANGED <<record, keeping, today>>

PutBack(d) ==
    /\ chore.done[d] = NoMark /\ Row(d)
    /\ \E from \in MovedFrom(chore, d) : chore' = [chore EXCEPT !.moved[from] = 0]
    /\ UNCHANGED <<record, keeping, today>>

\* "Did it today": the interval starts again at this day, and the day is ticked.
Restart(c, d) == [c EXCEPT !.cadence.start = d]
DidItToday(d, actor) ==
    LET again == Restart(chore, d)
        mark  == MarkCompleted(actor, AssigneeFor(again, d))
        did   == IsCompletion(chore.done[d])
    IN  /\ chore.cadence.type = "interval" /\ Row(d)
        /\ chore' = IF did THEN again ELSE [again EXCEPT !.done[d] = mark]
        /\ record' = IF did THEN record ELSE AppendArchive(Entry(d, mark))
        /\ UNCHANGED <<keeping, today>>

-----------------------------------------------------------------------------
(* The editor, the archive's switches and the calendar.                    *)

\* An interval and a fortnight are counted from the day they are chosen, or as before.
EditCadence ==
    /\ chore.here
    /\ \E k \in Choosable :
         /\ k.type = "interval" =>
              k.start \in {today} \cup {j.start : j \in {j \in {chore.cadence} : j.type = "interval"}}
         /\ k.type = "weekly" =>
              k.anchor \in {today} \cup {j.anchor : j \in {j \in {chore.cadence} : j.type = "weekly"}}
         /\ chore' = [chore EXCEPT !.cadence = k]
    /\ UNCHANGED <<record, keeping, today>>

EditRotation ==
    /\ chore.here
    /\ \E r \in Rotations \cup {<<>>}, p \in Members :
         chore' = [chore EXCEPT !.rotation = r, !.owner = p]
    /\ UNCHANGED <<record, keeping, today>>

EditPause ==
    /\ chore.here
    /\ \E from \in Days, until \in (Days \cup {0}) :
         chore' = [chore EXCEPT !.pause = [from |-> from, until |-> until]]
    /\ UNCHANGED <<record, keeping, today>>

ResumeChore ==
    /\ chore.here /\ IsPausedOn(chore, today)
    /\ chore' = [chore EXCEPT !.pause = NoPause]
    /\ UNCHANGED <<record, keeping, today>>

RemoveChore ==
    /\ chore.here
    /\ chore' = [chore EXCEPT !.here = FALSE]
    /\ UNCHANGED <<record, keeping, today>>

EnableArchive ==
    /\ ~keeping /\ keeping' = TRUE
    /\ UNCHANGED <<chore, record, today>>

\* Every admin agreed.
WipeArchive ==
    /\ keeping /\ keeping' = FALSE
    /\ record' = <<>>
    /\ UNCHANGED <<chore, today>>

NewDay ==
    /\ today < LastDay /\ today' = today + 1
    /\ UNCHANGED <<chore, record, keeping>>

Taps(d, actor) ==
    \/ Tick(d, actor) \/ Untick(d, actor) \/ DidItToday(d, actor)
    \/ \E person \in Members : CompleteOnBehalf(d, person, actor)
Corrections(d) == \E person \in Members : AttributeChore(d, person)
Moves(d) == PutBack(d) \/ \E days \in 1..3 : MoveOccurrence(d, days)

ChoresNext ==
    \/ \E d \in Days : SkipChore(d) \/ Corrections(d) \/ Moves(d) \/ \E actor \in Actors : Taps(d, actor)
    \/ EditCadence \/ EditRotation \/ EditPause \/ ResumeChore \/ RemoveChore
    \/ EnableArchive \/ WipeArchive \/ NewDay

-----------------------------------------------------------------------------
(* What a household may rely on.                                           *)

\* The archive and the marks agree: while the chore is there, an entry is of a day that
\* is marked as done, by the same person and in the same way, and a day has one entry
\* (completion.js: a tick, its undoing and every correction touch both).
ArchiveAgrees ==
    chore.here =>
        /\ \A i \in DOMAIN record :
             LET mark == chore.done[record[i].day]
             IN  IsCompletion(mark) /\ record[i] = Entry(record[i].day, mark)
        /\ \A i, j \in DOMAIN record : record[i].day = record[j].day => i = j

\* What is owed stays with whoever owes it until it is completed: neither a day that ends
\* without a completion nor a skip takes the turn from anybody (rotation.js:16); and a skip
\* puts the chore away for its day, with all that was owed until then (App.jsx:2870).
OwedUntilDone ==
    [][/\ /\ today' # today /\ NewDay /\ chore.cadence.type # "perPerson"
          /\ ~IsCompletion(chore.done[today]) /\ ~IsCompletion(chore.done[today'])
          => AssigneeFor(chore, today') = AssigneeFor(chore, today)
       /\ (\E k \in Days : chore.done[k] # Skip /\ chore'.done[k] = Skip) => \A d \in Days : SkipChore(d) =>
            /\ chore.cadence.type # "perPerson" => AssigneeFor(chore', d) = AssigneeFor(chore, d)
            /\ ~StillAsked(chore', d)
            /\ d + 1 \in Days => ~Missed(chore', d + 1)]_choreVars

=============================================================================

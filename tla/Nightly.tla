------------------------------- MODULE Nightly -------------------------------
(***************************************************************************)
(* The nightly check-in of App.jsx: when it is due, the screens that open  *)
(* it by themselves, the walkthrough and what it leaves behind, and the    *)
(* topics it talks about.  What the walkthrough asks is decided when it    *)
(* opens, while other screens go on changing what it was decided from.  An *)
(* evening has few hours here, and what waits to be gone through otherwise *)
(* is not told apart.                                                      *)
(***************************************************************************)
EXTENDS Integers, Sequences, FiniteSets, SequencesExt

CONSTANTS Clocks,              \* the screens the app is open on
          Nights, LastHour,    \* how long is looked at
          Offset, UsualHour, Window, \* hours after work, the usual one, and how long it is asked for
          Sorts,              \* kinds of things that may wait: of Sections
          MaxTopics, Filed     \* topics that are raised, and how many filings are kept (120)
ASSUME NightlyAssumption ==
    /\ Nights \in Nat \ {0} /\ LastHour \in Nat \ {0} /\ Offset \in Nat /\ UsualHour \in 0..LastHour
    /\ Window \in Nat /\ MaxTopics \in Nat /\ Filed \in Nat \ {0}

\* The order of a walkthrough; the question, the status and the next time are always asked.
Sections == <<"prompt", "overdue", "slipped", "topics", "tomorrow", "meals", "status", "time">>
Always == {"prompt", "status", "time"}

VARIABLES night, hour,
          workEnd,    \* per night, when the work of its calendar ends
          overrides,  \* per night, the time that was chosen for it
          checkinLog, \* per night, what was done of it
          waiting,    \* what waits to be gone through, besides the topics
          agenda,     \* the topics that are raised, and whether they are resolved
          filings,    \* those that were filed, the newest first
          raised,     \* how many topics there were
          walk,       \* per screen, the walkthrough that is open
          firedFor,   \* per screen, the night it opened it by itself
          dropped,    \* topics that were removed, or filed too long ago (auxiliary)
          pounced     \* how often each screen opened it by itself this night (auxiliary)
nightlyVars == <<night, hour, workEnd, overrides, checkinLog, waiting, agenda, filings, raised, walk, firedFor, dropped, pounced>>
agendaVars == <<waiting, agenda, filings, raised, dropped>>
clockVars == <<night, hour, workEnd>>

Never == 0 - 1
NotDone == [covered |-> Never, skipped |-> 0, back |-> FALSE]
NotOpen == [on |-> FALSE, started |-> FALSE, steps |-> <<>>, i |-> 1, skipped |-> 0, time |-> 0, back |-> FALSE]

NightlyTypeOK ==
    /\ night \in 1..Nights /\ hour \in 0..LastHour
    /\ workEnd \in [1..Nights -> 0..LastHour \cup {Never}] /\ overrides \in [1..(Nights + 1) -> 0..LastHour \cup {Never}]
    /\ checkinLog \in [1..Nights -> [covered : Int, skipped : Nat, back : BOOLEAN]]
    /\ waiting \subseteq Sorts /\ \A a \in agenda : a.id \in 1..raised /\ a.resolved \in BOOLEAN
    /\ \A s \in Clocks : walk[s].time \in 0..LastHour /\ walk[s].i \in 1..Len(Sections)
    /\ firedFor \in [Clocks -> 0..Nights] /\ pounced \in [Clocks -> Nat]

NightlyInit ==
    /\ night = 1 /\ hour = 0
    /\ workEnd = [n \in 1..Nights |-> Never] /\ overrides = [n \in 1..(Nights + 1) |-> Never]
    /\ checkinLog = [n \in 1..Nights |-> NotDone] /\ waiting = Sorts
    /\ agenda = {} /\ filings = <<>> /\ raised = 0
    /\ walk = [s \in Clocks |-> NotOpen] /\ firedFor = [s \in Clocks |-> 0]
    /\ dropped = {} /\ pounced = [s \in Clocks |-> 0]

-----------------------------------------------------------------------------
(* When it is due.                                                         *)

UpTo(h) == IF h > LastHour THEN LastHour ELSE h

\* What was chosen for the night, else after work, else the usual time.
CheckinPlan(n) ==
    IF overrides[n] # Never THEN overrides[n]
    ELSE IF n <= Nights /\ workEnd[n] # Never THEN UpTo(workEnd[n] + Offset) ELSE UsualHour

CheckinDone(n) == checkinLog[n] # NotDone

ToAsk == Always \cup waiting \cup IF \E a \in agenda : ~a.resolved THEN {"topics"} ELSE {}
Pushed(k) == IF Sections[k] \in ToAsk THEN <<Sections[k]>> ELSE <<>>
BuildSteps == Pushed(1) \o Pushed(2) \o Pushed(3) \o Pushed(4) \o Pushed(5) \o Pushed(6) \o Pushed(7) \o Pushed(8)

\* Mutant: the steps are worked out on every render.
WorkedOut(s) == BuildSteps
StepsOf(s) == walk[s].steps

Opened == [NotOpen EXCEPT !.on = TRUE, !.steps = BuildSteps, !.time = CheckinPlan(night + 1)]

\* At its minute a screen opens it by itself, over whatever dialog it shows.
Fire(s) ==
    /\ ~CheckinDone(night) /\ firedFor[s] # night
    /\ hour >= CheckinPlan(night) /\ hour <= CheckinPlan(night) + Window
    /\ firedFor' = [firedFor EXCEPT ![s] = night] /\ pounced' = [pounced EXCEPT ![s] = @ + 1]
    /\ walk' = IF walk[s].on THEN walk ELSE [walk EXCEPT ![s] = Opened]
    /\ UNCHANGED <<clockVars, agendaVars, overrides, checkinLog>>

OpenCheckin(s) ==
    /\ ~walk[s].on /\ walk' = [walk EXCEPT ![s] = Opened]
    /\ UNCHANGED <<clockVars, agendaVars, overrides, checkinLog, firedFor, pounced>>

-----------------------------------------------------------------------------
(* The walkthrough.                                                        *)

\* Where it is, on a list that may be shorter than it was.
Shown(s) == StepsOf(s)[IF walk[s].i <= Len(StepsOf(s)) THEN walk[s].i ELSE Len(StepsOf(s))]
IsLast(s) == walk[s].i >= Len(StepsOf(s))
Walks(s, w) ==
    /\ walk[s].on /\ walk' = [walk EXCEPT ![s] = w]
    /\ UNCHANGED <<clockVars, agendaVars, overrides, checkinLog, firedFor, pounced>>

StartCheckin(s) == ~walk[s].started /\ Walks(s, [walk[s] EXCEPT !.started = TRUE, !.i = 1])
BackOne(s) == walk[s].started /\ walk[s].i > 1 /\ Walks(s, [walk[s] EXCEPT !.i = @ - 1, !.back = TRUE])
SkipStep(s) == walk[s].started /\ ~IsLast(s) /\ Walks(s, [walk[s] EXCEPT !.i = @ + 1, !.skipped = @ + 1])
NextStep(s) == walk[s].started /\ ~IsLast(s) /\ Walks(s, [walk[s] EXCEPT !.i = @ + 1])
SetTomorrow(s, h) == walk[s].started /\ Shown(s) = "time" /\ Walks(s, [walk[s] EXCEPT !.time = h])

\* The last step files the evening under the day it is by now.
Finish(s) ==
    /\ walk[s].on /\ walk[s].started /\ IsLast(s)
    /\ overrides' = [overrides EXCEPT ![night + 1] = walk[s].time]
    /\ checkinLog' = [checkinLog EXCEPT ![night] =
                        [covered |-> Len(StepsOf(s)) - walk[s].skipped, skipped |-> walk[s].skipped, back |-> walk[s].back]]
    /\ walk' = [walk EXCEPT ![s] = NotOpen]
    /\ UNCHANGED <<clockVars, agendaVars, firedFor, pounced>>

\* Closed, or left for the dialog that plans tomorrow's meals.
CloseCheckin(s) == Walks(s, NotOpen)

\* The page is loaded anew.
Reload(s) ==
    /\ walk' = [walk EXCEPT ![s] = NotOpen] /\ firedFor' = [firedFor EXCEPT ![s] = 0] /\ pounced' = [pounced EXCEPT ![s] = 0]
    /\ UNCHANGED <<clockVars, agendaVars, overrides, checkinLog>>

-----------------------------------------------------------------------------
(* What it is about, on whichever screen.                                  *)

Agendas == UNCHANGED <<clockVars, overrides, checkinLog, walk, firedFor, pounced>>

Raise ==
    /\ raised < MaxTopics /\ raised' = raised + 1
    /\ agenda' = agenda \cup {[id |-> raised', resolved |-> FALSE]} /\ Agendas /\ UNCHANGED <<waiting, filings, dropped>>

ToggleTopic(a) ==
    /\ agenda' = (agenda \ {a}) \cup {[a EXCEPT !.resolved = ~@]} /\ Agendas /\ UNCHANGED <<waiting, filings, raised, dropped>>

RemoveTopic(a) ==
    /\ agenda' = agenda \ {a} /\ dropped' = dropped \cup {a.id} /\ Agendas /\ UNCHANGED <<waiting, filings, raised>>

\* Mutant: filing takes the list, whatever is still open.
TakeAll == {}
LeftOpen == {a \in agenda : ~a.resolved}

ArchiveDone ==
    LET finished == {a \in agenda : a.resolved}
        all == <<{a.id : a \in finished}>> \o filings
    IN  /\ finished # {}
        /\ filings' = SubSeq(all, 1, IF Len(all) < Filed THEN Len(all) ELSE Filed)
        /\ dropped' = dropped \cup UNION {all[k] : k \in (Filed + 1)..Len(all)}
        /\ agenda' = LeftOpen
        /\ Agendas /\ UNCHANGED <<waiting, raised>>

\* A chore is ticked or untidied, a meal planned or taken off.
WaitingChanges(x) ==
    /\ x \in Sorts /\ waiting' = IF x \in waiting THEN waiting \ {x} ELSE waiting \cup {x}
    /\ Agendas /\ UNCHANGED <<agenda, filings, raised, dropped>>

CalendarMoves(h) ==
    /\ workEnd[night] # h /\ workEnd' = [workEnd EXCEPT ![night] = h]
    /\ UNCHANGED <<night, hour, agendaVars, overrides, checkinLog, walk, firedFor, pounced>>

HourPasses ==
    /\ hour < LastHour \/ night < Nights
    /\ IF hour < LastHour THEN hour' = hour + 1 /\ UNCHANGED <<night, pounced>>
       ELSE hour' = 0 /\ night' = night + 1 /\ pounced' = [s \in Clocks |-> 0]
    /\ UNCHANGED <<workEnd, agendaVars, overrides, checkinLog, walk, firedFor>>

NightlyNext ==
    \/ Raise \/ ArchiveDone \/ HourPasses
    \/ \E a \in agenda : ToggleTopic(a) \/ RemoveTopic(a)
    \/ \E x \in Sorts : WaitingChanges(x)
    \/ \E h \in 0..LastHour \cup {Never} : CalendarMoves(h)
    \/ \E s \in Clocks :
          \/ Fire(s) \/ OpenCheckin(s) \/ StartCheckin(s) \/ BackOne(s) \/ SkipStep(s) \/ NextStep(s)
          \/ Finish(s) \/ CloseCheckin(s) \/ Reload(s)
          \/ \E h \in 0..LastHour : SetTomorrow(s, h)

-----------------------------------------------------------------------------

\* Every topic that was raised is on the agenda or in the filings, and not in both, until it
\* is removed or its filing is the oldest of too many (App.jsx:4138-4144); the evening's
\* record adds up unless somebody went back, when a step may be skipped twice (6144-6151);
\* and no page opens the check-in twice a night by itself (1098-1106).
EveningsAddUp ==
    /\ LET live == {a.id : a \in agenda}
           filed == UNION ToSet(filings)
       IN  live \cap filed = {} /\ live \cup filed \cup dropped = 1..raised
    /\ \A n \in 1..Nights : LET l == checkinLog[n] IN
          CheckinDone(n) /\ ~l.back => l.covered >= 1 /\ l.covered + l.skipped \in Cardinality(Always)..Len(Sections)
    /\ \A s \in Clocks : pounced[s] <= 1

\* The step a walkthrough shows stays until somebody moves on, whatever is ticked meanwhile
\* there or elsewhere: the list once shortened under the second person (checkin.js:218-232).
StepHolds ==
    \A s \in Clocks :
       walk[s].started /\ walk'[s].started /\ walk'[s].i = walk[s].i => Shown(s)' = Shown(s)

\* A walkthrough holds on to its step, and every step leaves what adds up.
WalkthroughHolds == [][EveningsAddUp' /\ StepHolds]_nightlyVars

=============================================================================

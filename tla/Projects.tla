------------------------------ MODULE Projects -------------------------------
(***************************************************************************)
(* One house project of the document: planned days and progress that are   *)
(* set by hand, or derived from stages once there are some; and the        *)
(* calendar, which works its days out on its own (web/src/lib/project-     *)
(* events.js).                                                             *)
(*                                                                         *)
(* An editor keeps the copy it was opened with, while the project changes  *)
(* under it.  Titles, notes and who it belongs to are left out.            *)
(***************************************************************************)
EXTENDS Integers, Sequences, SequencesExt, FiniteSets, FiniteSetsExt

CONSTANTS PlanDays,  \* the last day: 1..PlanDays
          MaxStages, \* bound: stages of the project
          Drafts     \* what the editor is used to make of a project

DatesOfPlan == 1..PlanDays
Stages == [done : BOOLEAN, date : 0..PlanDays]

ASSUME ProjectsAssumption ==
    /\ PlanDays \in Nat \ {0} /\ MaxStages \in Nat
    /\ Drafts \subseteq [percent : 0..100, dates : SUBSET DatesOfPlan, stages : BoundedSeq(Stages, MaxStages)]

VARIABLES project, editor, date
projectVars == <<project, editor, date>>

Unplanned == 0
NoProject == [here |-> FALSE, percent |-> 0, dates |-> {}, stages |-> <<>>, doneOn |-> 0]
NotEditing == [open |-> FALSE, doneOn |-> 0]

-----------------------------------------------------------------------------
(* What the panes work out from it.                                        *)

ClampPercent(n) == Max({0, Min({100, n})})
DoneShare(stages) ==
    LET done == Cardinality({i \in DOMAIN stages : stages[i].done})
    IN  (200 * done + Len(stages)) \div (2 * Len(stages))

HasStages(p) == p.stages # <<>>
ProjectPercent(p) == IF HasStages(p) THEN DoneShare(p.stages) ELSE ClampPercent(p.percent)
StageDates(p) == {s.date : s \in {s \in ToSet(p.stages) : s.date # Unplanned}}
ProjectDates(p) == IF HasStages(p) THEN StageDates(p) ELSE p.dates
ProjectOpen(p) == ProjectPercent(p) < 100
InBacklog(p) == ProjectOpen(p) /\ ProjectDates(p) = {}

\* Its past day came and went, and no other is planned.
ProjectCarried(p, today) ==
    /\ ProjectOpen(p) /\ ProjectDates(p) # {}
    /\ \A d \in ProjectDates(p) : d < today

\* The events of the calendar: one for each dated stage, or for each planned day.
EventsForProject(p) ==
    IF HasStages(p)
    THEN {[day |-> p.stages[i].date, of |-> i, done |-> p.stages[i].done] :
              i \in {i \in DOMAIN p.stages : p.stages[i].date # Unplanned}}
    ELSE {[day |-> d, of |-> 0, done |-> FALSE] : d \in p.dates}

-----------------------------------------------------------------------------
(* What the buttons make of it.                                            *)

DoneOnAfter(percent, before) ==
    IF percent < 100 THEN 0 ELSE IF before # 0 THEN before ELSE date

WithoutPlannedDays(p) ==
    [p EXCEPT !.dates = {}, !.stages = [i \in DOMAIN p.stages |-> [p.stages[i] EXCEPT !.date = Unplanned]]]

\* A mutant of the next: with stages too, the day goes to the project's own list.
PlannedByHand(p, d) == [p EXCEPT !.dates = @ \cup {d}]

\* With stages the day goes on the first that has none and is not done, else on the
\* first that is not done.
WithPlannedDay(p, d) ==
    LET todo == {i \in DOMAIN p.stages : ~p.stages[i].done}
        free == {i \in todo : p.stages[i].date = Unplanned}
    IN  IF ~HasStages(p) THEN [p EXCEPT !.dates = @ \cup {d}]
        ELSE IF free # {} THEN [p EXCEPT !.stages[Min(free)].date = d]
        ELSE IF todo # {} THEN [p EXCEPT !.stages[Min(todo)].date = d]
        ELSE p

Ticked(p, i) ==
    LET stages == [p.stages EXCEPT ![i].done = ~@]
    IN  [p EXCEPT !.stages = stages, !.doneOn = DoneOnAfter(DoneShare(stages), p.doneOn)]

Bumped(p, by) ==
    LET percent == ClampPercent(p.percent + by)
    IN  [p EXCEPT !.percent = percent, !.doneOn = DoneOnAfter(percent, p.doneOn)]

-----------------------------------------------------------------------------

ProjectsTypeOK ==
    /\ project \in [here : BOOLEAN, percent : 0..100, dates : SUBSET DatesOfPlan,
                    stages : BoundedSeq(Stages, MaxStages), doneOn : 0..PlanDays]
    /\ editor \in [open : BOOLEAN, doneOn : 0..PlanDays]
    /\ date \in DatesOfPlan

ProjectsInit == project = NoProject /\ editor = NotEditing /\ date = 1

AddProject ==
    /\ ~project.here
    /\ \E days \in {{}} \cup {{d} : d \in DatesOfPlan} : project' = [NoProject EXCEPT !.here = TRUE, !.dates = days]
    /\ UNCHANGED <<editor, date>>

RemoveProject ==
    /\ project.here /\ project' = NoProject
    /\ UNCHANGED <<editor, date>>

\* Offered while there are no stages and it is open.
BumpProject(by) ==
    /\ project.here /\ ~HasStages(project) /\ ProjectOpen(project)
    /\ project' = Bumped(project, by)
    /\ UNCHANGED <<editor, date>>

\* The next one to do, from the projects; or one of the day, to and fro, from the day.
TickStage(i) ==
    /\ i \in DOMAIN project.stages
    /\ \/ project.stages[i].date # Unplanned
       \/ ~project.stages[i].done /\ \A j \in 1..(i - 1) : project.stages[j].done
    /\ project' = Ticked(project, i)
    /\ UNCHANGED <<editor, date>>

\* "Plan for today" of one in the backlog, "Still on?" of one that was carried.
PlanProject(d) ==
    /\ project.here
    /\ \/ InBacklog(project) /\ d = date
       \/ ProjectCarried(project, date) /\ d >= date
    /\ project' = WithPlannedDay(project, d)
    /\ UNCHANGED <<editor, date>>

BackToBacklog ==
    /\ project.here /\ ProjectCarried(project, date)
    /\ project' = WithoutPlannedDays(project)
    /\ UNCHANGED <<editor, date>>

OpenEditor ==
    /\ project.here /\ ~editor.open
    /\ editor' = [open |-> TRUE, doneOn |-> project.doneOn]
    /\ UNCHANGED <<project, date>>

\* What the editor shows replaces the project there is by now; one that was removed
\* meanwhile stays removed.
SaveEditor ==
    /\ editor.open /\ editor' = NotEditing
    /\ \E draft \in Drafts :
         LET percent == ProjectPercent(draft)
         IN  project' = IF project.here
                        THEN [here |-> TRUE, percent |-> percent, dates |-> draft.dates, stages |-> draft.stages,
                              doneOn |-> DoneOnAfter(percent, editor.doneOn)]
                        ELSE project
    /\ UNCHANGED date

NextDate ==
    /\ date < PlanDays /\ date' = date + 1
    /\ UNCHANGED <<project, editor>>

ProjectsNext ==
    \/ AddProject \/ RemoveProject \/ BackToBacklog \/ OpenEditor \/ SaveEditor \/ NextDate
    \/ \E by \in {25, -25, 100} : BumpProject(by)
    \/ \E i \in 1..MaxStages : TickStage(i)
    \/ \E d \in DatesOfPlan : PlanProject(d)

\* A day that is chosen for a project is a day it shows up on, in its own pane and on the
\* calendar, and its progress is what it was (App.jsx:294-298); it is no longer carried.
PlanningLands ==
    [][\A d \in DatesOfPlan : PlanProject(d) =>
          /\ d \in ProjectDates(project') /\ \E e \in EventsForProject(project') : e.day = d /\ ~e.done
          /\ ~ProjectCarried(project', date) /\ ~InBacklog(project')
          /\ ProjectPercent(project') = ProjectPercent(project)]_projectVars

=============================================================================

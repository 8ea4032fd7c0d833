------------------------------- MODULE Kitchen -------------------------------
(***************************************************************************)
(* The meals that are planned for a week, and the dialog that edits a day  *)
(* (MealModal of App.jsx): it works on a copy of the day as it was opened, *)
(* writes the whole of it back, and copies one meal or all of them to      *)
(* other days.  The slots of a day are alike and one stands for them;      *)
(* titles that are compared as equal are one.                              *)
(***************************************************************************)
EXTENDS Sublists

CONSTANTS MealDays, Dishes, Eaters, Cooks, \* Eaters are persons, Cooks the screens the dialog is on
          MaxRows                          \* how many meals a dialog's day is given
ASSUME KitchenAssumption == MaxRows \in Nat /\ 0 \notin MealDays

NoTitle == ""
Shared == ""

VARIABLES meals,   \* per day, its meals; whether a copy put one there is auxiliary
          dialog,  \* per screen: the day that is open and its draft; what was taken off it there,
                   \* and what others planned for that day since it was opened, are auxiliary
          meant    \* per day, what was planned and stands to be there (auxiliary)
kitchenVars == <<meals, dialog, meant>>

NoDay == 0
DialogShut == [day |-> NoDay, rows |-> <<>>, took |-> {}, unseen |-> {}]
Meal == [title : Dishes \cup {NoTitle}, person : Eaters \cup {Shared}, copied : BOOLEAN]
Key(e) == <<e.title, e.person>>
Keys(rows) == {Key(rows[k]) : k \in 1..Len(rows)}

KeyPairs == (Dishes \cup {NoTitle}) \X (Eaters \cup {Shared})
KitchenTypeOK ==
    /\ meals \in [MealDays -> Seq({e \in Meal : e.title # NoTitle})] /\ meant \in [MealDays -> SUBSET KeyPairs]
    /\ dialog \in [Cooks -> [day : MealDays \cup {NoDay}, rows : Seq(Meal),
                             took : SUBSET KeyPairs, unseen : SUBSET KeyPairs]]

KitchenInit ==
    /\ meals = [d \in MealDays |-> <<>>] /\ dialog = [s \in Cooks |-> DialogShut]
    /\ meant = [d \in MealDays |-> {}]

-----------------------------------------------------------------------------
(* The draft.                                                              *)

MealDrafts(s) == dialog[s].day # NoDay
Redraft(s, rows, taken) ==
    /\ dialog' = [dialog EXCEPT ![s].rows = rows, ![s].took = @ \cup taken]
    /\ UNCHANGED <<meals, meant>>

OpenMeal(s, d) ==
    /\ ~MealDrafts(s) /\ dialog' = [dialog EXCEPT ![s] = [DialogShut EXCEPT !.day = d, !.rows = meals[d]]]
    /\ UNCHANGED <<meals, meant>>

AddEntry(s, person) ==
    /\ MealDrafts(s) /\ Len(dialog[s].rows) < MaxRows
    /\ Redraft(s, Append(dialog[s].rows, [title |-> NoTitle, person |-> person, copied |-> FALSE]), {})

SetEntry(s, k, title, person) ==
    /\ MealDrafts(s) /\ <<title, person>> # Key(dialog[s].rows[k])
    /\ Redraft(s, [dialog[s].rows EXCEPT ![k] = [title |-> title, person |-> person, copied |-> FALSE]], {Key(dialog[s].rows[k])})

RemoveEntry(s, k) ==
    /\ MealDrafts(s)
    /\ Redraft(s, AtPlaces(dialog[s].rows, DOMAIN dialog[s].rows \ {k}), {Key(dialog[s].rows[k])})

-----------------------------------------------------------------------------
(* Writing it.                                                             *)

\* A meal nobody named is dropped.
Clean(rows) == AtPlaces(rows, {k \in 1..Len(rows) : rows[k].title # NoTitle})

\* The dialog's day as it is in the draft, whatever the document has there by now.
CommitDay(s) == [meals EXCEPT ![dialog[s].day] = Clean(dialog[s].rows)]

\* Mutant: a copy is put whether it is there or not.
WithCopies(rows, more) == DOMAIN more
\* Of what is copied, what is not there yet; of two that are equal, the first.
Missing(rows, more) ==
    {k \in DOMAIN more : Key(more[k]) \notin Keys(rows) /\ \A j \in 1..(k - 1) : Key(more[j]) # Key(more[k])}
PutCopies(rows, more) ==
    LET new == AtPlaces(more, Missing(rows, more))
    IN  rows \o [k \in DOMAIN new |-> [new[k] EXCEPT !.copied = TRUE]]

\* What is put on a day that is open elsewhere is not in that draft.
Writes(s, all, after) ==
    LET given == [d \in MealDays |-> Keys(all[d]) \ Keys(meals[d])]
    IN  /\ meals' = all
        /\ meant' = [d \in MealDays |-> given[d] \cup
                       IF d = dialog[s].day THEN meant[d] \ ((dialog[s].took \cup dialog[s].unseen) \ Keys(all[d]))
                       ELSE meant[d]]
        /\ dialog' = [t \in Cooks |->
                        IF t = s THEN after
                        ELSE IF dialog[t].day = NoDay THEN dialog[t]
                        ELSE [dialog[t] EXCEPT !.unseen = @ \cup given[dialog[t].day]]]

Save(s) == MealDrafts(s) /\ Writes(s, CommitDay(s), DialogShut)

\* The days that are picked, in the dialog's own week; its own day is not offered.
TargetDates(s) == SUBSET (MealDays \ {dialog[s].day}) \ {{}}

Copies(s, dates, rows) ==
    LET saved == CommitDay(s)
    IN  Writes(s, [d \in MealDays |-> IF d \in dates THEN PutCopies(saved[d], rows) ELSE saved[d]],
               [dialog[s] EXCEPT !.took = {}, !.unseen = {}])

RepeatEntry(s, k, dates) ==
    /\ MealDrafts(s) /\ dialog[s].rows[k].title # NoTitle /\ dates \in TargetDates(s)
    /\ Copies(s, dates, <<dialog[s].rows[k]>>)

CopyWholeDay(s, dates) ==
    /\ MealDrafts(s) /\ dates \in TargetDates(s)
    /\ Copies(s, dates, Clean(dialog[s].rows))

\* Closing it otherwise writes nothing.
CloseMeal(s) == MealDrafts(s) /\ dialog' = [dialog EXCEPT ![s] = DialogShut] /\ UNCHANGED <<meals, meant>>

KitchenNext ==
    \E s \in Cooks :
       \/ Save(s) \/ CloseMeal(s)
       \/ \E d \in MealDays : OpenMeal(s, d)
       \/ \E person \in Eaters \cup {Shared} : AddEntry(s, person)
       \/ \E dates \in TargetDates(s) : CopyWholeDay(s, dates)
       \/ \E k \in 1..Len(dialog[s].rows) :
             \/ RemoveEntry(s, k)
             \/ \E title \in Dishes \cup {NoTitle}, person \in Eaters \cup {Shared} : SetEntry(s, k, title, person)
             \/ \E dates \in TargetDates(s) : RepeatEntry(s, k, dates)

\* Copying adds nothing that is there already, however often it is repeated and from
\* whichever day (App.jsx:6717, 6740), so of two that are equal one was written by hand;
\* and what was planned stands until somebody takes it off, unless its day was open on another screen when it was planned:
\* that dialog writes the day without it (6691).
PlansStand ==
    \A d \in MealDays :
       /\ \A j, k \in 1..Len(meals[d]) : j < k /\ Key(meals[d][j]) = Key(meals[d][k])
             => ~(meals[d][j].copied /\ meals[d][k].copied)
       /\ meant[d] \subseteq Keys(meals[d])

=============================================================================

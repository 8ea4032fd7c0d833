------------------------------- MODULE Evening -------------------------------
(***************************************************************************)
(* The question of an evening: every screen that shows the agenda or the   *)
(* check-in asks for one unless the document caches one for that date      *)
(* (useCheckinPrompt.js, checkin.js).  An answer takes its time; meanwhile *)
(* the screen may turn to another date or close, somebody may ask again,   *)
(* and other screens write theirs.  The document is one here: VaultSync    *)
(* has the copies of it, and a screen shows the one it last rendered.      *)
(***************************************************************************)
EXTENDS Integers, Sequences, FiniteSets, SequencesExt

CONSTANTS Viewers,     \* the places that show a question
          Evenings,    \* the dates looked at: 1..Evenings
          Fortnight,   \* how many questions the document keeps
          Patience     \* questions a viewer has under way; answers, MaxAnswers of them
CONSTANT MaxAnswers
ASSUME EveningAssumption == Evenings \in Nat \ {0} /\ Fortnight \in Nat \ {0} /\ Patience \in Nat /\ MaxAnswers \in Nat

VARIABLES generated,   \* checkin.generated: the cached question of a date, 0 for none
          answers,     \* questions the model has written so far
          viewer       \* per place: what it shows and what it waits for
eveningVars == <<generated, answers, viewer>>

Dates == 1..Evenings
Questions == 0..MaxAnswers
Sources == {"loading", "cache", "ai", "fallback"}
Shut == [open |-> FALSE, date |-> 1, seen |-> [d \in Dates |-> 0], question |-> 0, source |-> "loading",
           about |-> 1, attempted |-> {}, waiting |-> <<>>]

EveningTypeOK ==
    /\ generated \in [Dates -> Questions] /\ answers \in Questions
    /\ viewer \in [Viewers -> [open : BOOLEAN, date : Dates, seen : [Dates -> Questions], question : Questions,
                               source : Sources, about : Dates, attempted : SUBSET Dates,
                               waiting : BoundedSeq([date : Dates, mounted : BOOLEAN], Patience)]]

EveningInit ==
    generated = [d \in Dates |-> 0] /\ answers = 0 /\ viewer = [v \in Viewers |-> Shut]

-----------------------------------------------------------------------------
(* The effect, which runs when the date or the document has changed.       *)

Showing(w, q, source, d) == [w EXCEPT !.question = q, !.source = source, !.about = d]
Asked(w, d) == [w EXCEPT !.attempted = @ \cup {d}, !.waiting = Append(@, [date |-> d, mounted |-> TRUE])]

\* A cached question is shown; without one, this mount asks once for each date.
Effect(w) ==
    IF w.seen[w.date] # 0 THEN Showing(w, w.seen[w.date], "cache", w.date)
    ELSE IF w.date \in w.attempted THEN w
    ELSE Asked(w, w.date)

\* A mutant of the next: what is shown already stays.
KeepsShowing(w) == IF w.source \in {"ai", "cache"} /\ w.about = w.date THEN w ELSE Effect(w)
AfterEffect(w) == Effect(w)

Becomes(v, w) == /\ Len(w.waiting) <= Patience
                 /\ viewer' = [viewer EXCEPT ![v] = w]

Mount(v, d) ==
    /\ ~viewer[v].open
    /\ Becomes(v, Effect([Shut EXCEPT !.open = TRUE, !.date = d, !.about = d, !.seen = generated,
                                        !.waiting = viewer[v].waiting]))
    /\ UNCHANGED <<generated, answers>>

\* The document has changed, here or elsewhere.
Render(v) ==
    /\ viewer[v].open
    /\ Becomes(v, AfterEffect([viewer[v] EXCEPT !.seen = generated]))
    /\ UNCHANGED <<generated, answers>>

TurnTo(v, d) ==
    /\ viewer[v].open /\ viewer[v].date # d
    /\ Becomes(v, AfterEffect([viewer[v] EXCEPT !.date = d, !.seen = generated]))
    /\ UNCHANGED <<generated, answers>>

\* A question under way is not taken back: its answer still goes to the document.
Unmount(v) ==
    /\ viewer[v].open
    /\ viewer' = [viewer EXCEPT ![v] = [Shut EXCEPT !.waiting =
          [i \in 1..Len(viewer[v].waiting) |-> [viewer[v].waiting[i] EXCEPT !.mounted = FALSE]]]]
    /\ UNCHANGED <<generated, answers>>

Regenerate(v) ==
    /\ viewer[v].open
    /\ LET w == viewer[v] IN Becomes(v, Asked(Showing(w, 0, "loading", w.date), w.date))
    /\ UNCHANGED <<generated, answers>>

-----------------------------------------------------------------------------
(* An answer.                                                              *)

\* The newest dates are kept.
Cached(cache, d, q) ==
    LET all == [cache EXCEPT ![d] = q]
        kept == {e \in Dates : all[e] # 0 /\ Cardinality({f \in Dates : f > e /\ all[f] # 0}) < Fortnight}
    IN  [e \in Dates |-> IF e \in kept THEN all[e] ELSE 0]

\* The model's question is written down and shown -- to whoever looks at the screen by now.
AnswerFromModel(v, i) ==
    LET w == [viewer[v] EXCEPT !.waiting = RemoveAt(@, i)]
        asked == viewer[v].waiting[i]
    IN  /\ answers < MaxAnswers /\ answers' = answers + 1
        /\ generated' = Cached(generated, asked.date, answers')
        /\ viewer' = [viewer EXCEPT ![v] = IF asked.mounted THEN Showing(w, answers', "ai", asked.date) ELSE w]

\* Switched off, refused, unreachable or not usable: the built-in rotation, and nothing is written.
AnswerFromRotation(v, i) ==
    LET w == [viewer[v] EXCEPT !.waiting = RemoveAt(@, i)]
        asked == viewer[v].waiting[i]
    IN  /\ viewer' = [viewer EXCEPT ![v] = IF asked.mounted THEN Showing(w, 0, "fallback", asked.date) ELSE w]
        /\ UNCHANGED <<generated, answers>>

EveningNext ==
    \E v \in Viewers :
       \/ Render(v) \/ Unmount(v) \/ Regenerate(v)
       \/ \E d \in Dates : Mount(v, d) \/ TurnTo(v, d)
       \/ \E i \in 1..Len(viewer[v].waiting) : AnswerFromModel(v, i) \/ AnswerFromRotation(v, i)

\* Two screens that show a question for the same evening, as the model's and not as a
\* stand-in, show the same one: the one the document keeps (checkin.js:104, "every device
\* shows the same question").  It holds of a screen that has rendered the document, and
\* not of one that an answer for another evening has come to.
SameQuestion ==
    \A v \in Viewers :
       LET w == viewer[v]
       IN  /\ w.open /\ w.source \in {"ai", "cache"} /\ w.about = w.date
           /\ w.seen = generated /\ generated[w.date] # 0
           => w.question = generated[w.date]

=============================================================================

------------------------------ MODULE Assistant ------------------------------
(***************************************************************************)
(* The language models a household may use, and whether what it asks of    *)
(* them may leave the house.  The operator offers providers; an admin of   *)
(* the household chooses one in a panel, and has to confirm one that is    *)
(* not local; a question goes to whatever the row and the choice say when  *)
(* it is asked (services/ai-providers.js, routes/ai.js, AiPanel.jsx).      *)
(***************************************************************************)
EXTENDS Integers, FiniteSets

CONSTANTS Providers, Admins, Askers   \* rows, panels, and requests under way

Nothing == "nothing"
Kinds == {"ollama", "hosted"}     \* every API but Ollama's is treated alike
Addresses == {Nothing, "home", "away"}

VARIABLES offered,    \* ai_providers
          blurred,    \* providers saved without the address they keep, or while being added (history)
          filling,    \* the address of a new row, until its second statement wrote it
          choice,     \* household_ai_settings: the provider, and offsite_consent_at
          confirmed,  \* providers that somebody pressed "I understand" for (history)
          panel,      \* what an admin's panel shows
          putting,    \* the change of provider an admin has under way
          asking      \* the questions under way
assistantVars == <<offered, blurred, filling, choice, confirmed, panel, putting, asking>>

NoRow == [kind |-> Nothing, url |-> Nothing, isLocal |-> FALSE, enabled |-> FALSE]
GoneRow == [NoRow EXCEPT !.kind = "gone"]   \* an id is never given out again
Rows == [kind : Kinds \cup {Nothing, "gone"}, url : Addresses, isLocal : BOOLEAN, enabled : BOOLEAN]
Known(p) == offered[p].kind \in Kinds

\* Ollama is local without an address, or with one at home.
ComputeIsLocal(kind, url) == kind = "ollama" /\ url # "away"

\* What a request is given: where it would go, and what is said of it.
Fallback == [id |-> Nothing, isLocal |-> TRUE, to |-> "home", blocked |-> FALSE]
Selections == [id : Providers \cup {Nothing}, isLocal : BOOLEAN, to : {"home", "away"}, blocked : BOOLEAN]

\* Selected but not agreed to: held back.
Refused(p) == ~offered[p].isLocal /\ ~choice.agreed

ProviderForHousehold ==
    LET p == choice.provider
    IN  IF p = Nothing \/ (p \in Providers /\ ~offered[p].enabled) THEN Fallback
        ELSE IF Refused(p) THEN [Fallback EXCEPT !.blocked = TRUE]
        ELSE [id |-> p, isLocal |-> offered[p].isLocal,
              to |-> IF offered[p].url = "away" THEN "away" ELSE "home", blocked |-> FALSE]

NoPanel == [open |-> FALSE, current |-> Nothing, isLocal |-> TRUE, local |-> {}, hosted |-> {}]
NoPut == [step |-> "none", provider |-> Nothing, consent |-> FALSE]
NoQuestion == [step |-> "none", with |-> Fallback, blurred |-> FALSE, agreed |-> FALSE]

AssistantTypeOK ==
    /\ offered \in [Providers -> Rows] /\ blurred \subseteq Providers
    /\ filling \in [Providers -> Addresses]
    /\ choice \in [provider : Providers \cup {Nothing}, agreed : BOOLEAN]
    /\ confirmed \subseteq Providers
    /\ panel \in [Admins -> [open : BOOLEAN, current : Providers \cup {Nothing}, isLocal : BOOLEAN,
                             local : SUBSET Providers, hosted : SUBSET Providers]]
    /\ putting \in [Admins -> [step : {"none", "sent", "checked"}, provider : Providers \cup {Nothing},
                               consent : BOOLEAN]]
    /\ asking \in [Askers -> [step : {"none", "first", "second", "answered"}, with : Selections,
                              blurred : BOOLEAN, agreed : BOOLEAN]]

\* The migration seeds the server's own Ollama; a household has chosen nothing.
AssistantInit ==
    /\ offered \in {[p \in Providers |-> IF p = own THEN [kind |-> "ollama", url |-> Nothing, isLocal |-> TRUE, enabled |-> TRUE]
                                         ELSE NoRow] : own \in Providers}
    /\ blurred = {} /\ filling = [p \in Providers |-> Nothing]
    /\ choice = [provider |-> Nothing, agreed |-> FALSE] /\ confirmed = {}
    /\ panel = [m \in Admins |-> NoPanel] /\ putting = [m \in Admins |-> NoPut]
    /\ asking = [a \in Askers |-> NoQuestion]

-----------------------------------------------------------------------------
(* The operator.                                                           *)

\* A new provider: the row first, then the secrets sealed under its id.
InsertProvider(p, kind, url) ==
    /\ offered[p] = NoRow
    /\ offered' = [offered EXCEPT ![p] = [kind |-> kind, url |-> Nothing, isLocal |-> ComputeIsLocal(kind, url), enabled |-> TRUE]]
    /\ filling' = [filling EXCEPT ![p] = url]
    /\ UNCHANGED <<blurred, choice, confirmed, panel, putting, asking>>

FillProvider(p) ==
    /\ Known(p) /\ filling[p] # Nothing
    /\ offered' = [offered EXCEPT ![p].url = filling[p]]
    /\ filling' = [filling EXCEPT ![p] = Nothing]
    /\ UNCHANGED <<blurred, choice, confirmed, panel, putting, asking>>

\* An existing one is saved; its address is given (perhaps as none), or left out and kept.
\* Whether it is local is worked out from what was sent.
UpdateProvider(p, kind, enabled) ==
    /\ Known(p)
    /\ \/ \E url \in Addresses :
             /\ offered' = [offered EXCEPT ![p] = [kind |-> kind, url |-> url, isLocal |-> ComputeIsLocal(kind, url), enabled |-> enabled]]
             /\ blurred' = IF filling[p] = Nothing THEN blurred \ {p} ELSE blurred \cup {p}
       \/ /\ offered' = [offered EXCEPT ![p] = [@ EXCEPT !.kind = kind, !.isLocal = ComputeIsLocal(kind, Nothing), !.enabled = enabled]]
          /\ blurred' = IF offered[p].url = Nothing /\ filling[p] = Nothing THEN blurred ELSE blurred \cup {p}
    /\ UNCHANGED <<filling, choice, confirmed, panel, putting, asking>>

\* Households that use it lose it: their consent stays, without a provider.
DeleteProvider(p) ==
    /\ Known(p)
    /\ offered' = [offered EXCEPT ![p] = GoneRow] /\ blurred' = blurred \ {p}
    /\ filling' = [filling EXCEPT ![p] = Nothing]
    /\ choice' = IF choice.provider = p THEN [choice EXCEPT !.provider = Nothing] ELSE choice
    /\ UNCHANGED <<confirmed, panel, putting, asking>>

-----------------------------------------------------------------------------
(* The panel of an admin.                                                  *)

LoadPanel(m) ==
    /\ LET now == ProviderForHousehold
           listed == {p \in Providers : Known(p) /\ offered[p].enabled}
       IN  panel' = [panel EXCEPT ![m] = [open |-> TRUE, current |-> now.id, isLocal |-> now.isLocal,
                                          local |-> {p \in listed : offered[p].isLocal},
                                          hosted |-> {p \in listed : ~offered[p].isLocal}]]
    /\ putting[m] = NoPut
    /\ UNCHANGED <<offered, blurred, filling, choice, confirmed, putting, asking>>

Puts(m, provider, consent) ==
    /\ panel[m].open /\ putting[m] = NoPut
    /\ putting' = [putting EXCEPT ![m] = [step |-> "sent", provider |-> provider, consent |-> consent]]

\* A local one is taken at once, one that is not after the confirmation.
Choose(m, p) ==
    /\ p # panel[m].current
    /\ \/ p \in panel[m].local /\ Puts(m, p, FALSE) /\ UNCHANGED confirmed
       \/ p \in panel[m].hosted /\ Puts(m, p, TRUE) /\ confirmed' = confirmed \cup {p}
    /\ UNCHANGED <<offered, blurred, filling, choice, panel, asking>>

\* Another model of what the panel shows: consent is asserted again with it.
ChooseModel(m) ==
    /\ Puts(m, panel[m].current, ~panel[m].isLocal)
    /\ UNCHANGED <<offered, blurred, filling, choice, confirmed, panel, asking>>

\* The provider is read.  What becomes of consent is decided from that reading.
CheckProvider(m) ==
    /\ putting[m].step = "sent"
    /\ LET p == putting[m].provider
           agreed == p # Nothing /\ putting[m].consent /\ ~offered[p].isLocal
       IN  putting' = [putting EXCEPT ![m] =
              IF p # Nothing /\ ~offered[p].enabled THEN NoPut
              ELSE [step |-> "checked", provider |-> p, consent |-> agreed]]
    /\ UNCHANGED <<offered, blurred, filling, choice, confirmed, panel, asking>>

\* A mutant of the next: an earlier consent stays.
StillAgreed(m) == putting[m].consent \/ choice.agreed
NowAgreed(m) == putting[m].consent

\* Then the choice is written, unless the provider has gone (a foreign key).
WriteChoice(m) ==
    /\ putting[m].step = "checked"
    /\ choice' = IF putting[m].provider \in {Nothing} \cup {p \in Providers : Known(p)}
                 THEN [provider |-> putting[m].provider, agreed |-> NowAgreed(m)]
                 ELSE choice
    /\ putting' = [putting EXCEPT ![m] = NoPut]
    /\ UNCHANGED <<offered, blurred, filling, confirmed, panel, asking>>

-----------------------------------------------------------------------------
(* A question.                                                             *)

\* The choice is read once; a blocked one is refused before anything is sent.
Generate(a) ==
    /\ asking[a] = NoQuestion /\ ~ProviderForHousehold.blocked
    /\ LET s == ProviderForHousehold
       IN  asking' = [asking EXCEPT ![a] = [step |-> "first", with |-> s, blurred |-> s.id \in blurred,
                                            agreed |-> s.id \in confirmed]]
    /\ UNCHANGED <<offered, blurred, filling, choice, confirmed, panel, putting>>

\* An answer that is no JSON is asked for once more, of the same place.
Attempt(a) ==
    /\ asking[a].step \in {"first", "second"}
    /\ \/ asking' = [asking EXCEPT ![a].step = "answered"]
       \/ asking[a].step = "first" /\ asking' = [asking EXCEPT ![a].step = "second"]
    /\ UNCHANGED <<offered, blurred, filling, choice, confirmed, panel, putting>>

\* The answer, or the fallback question, reaches the household, and the audit log says where it came from.
Answered(a) ==
    /\ asking[a].step = "answered" /\ asking' = [asking EXCEPT ![a] = NoQuestion]
    /\ UNCHANGED <<offered, blurred, filling, choice, confirmed, panel, putting>>

AssistantNext ==
    \/ \E p \in Providers :
         \/ FillProvider(p) \/ DeleteProvider(p)
         \/ \E kind \in Kinds, url \in Addresses : InsertProvider(p, kind, url)
         \/ \E kind \in Kinds, enabled \in BOOLEAN : UpdateProvider(p, kind, enabled)
    \/ \E m \in Admins :
         \/ LoadPanel(m) \/ ChooseModel(m) \/ CheckProvider(m) \/ WriteChoice(m)
         \/ \E p \in Providers : Choose(m, p)
    \/ \E a \in Askers : Generate(a) \/ Attempt(a) \/ Answered(a)

\* What a household asks leaves the house only for a provider that one of its admins has
\* confirmed by name, and is then reported as having left it (ai-providers.js:142-147,
\* routes/ai.js:128-134), but for a provider whose address is not what it was last judged by.
NothingLeavesUnasked ==
    \A a \in Askers :
       asking[a].with.to = "away" /\ ~asking[a].blurred => asking[a].agreed /\ ~asking[a].with.isLocal

=============================================================================

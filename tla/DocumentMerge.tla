----------------------------- MODULE DocumentMerge -----------------------------
(***************************************************************************)
(* What a merge makes of a whole document: web/src/api.js                  *)
(* saveState, mergeDocuments web/src/lib/session.js  saveVault, for what   *)
(* it does with a conflict web/src/App.jsx         update, flush, pagehide *)
(* and the poll A document is made of parts, and a merge treats three      *)
(* kinds of them in three ways.  VaultSync has the awaits, the keys and    *)
(* the faults of saving; here a request is one step, and the rows have     *)
(* something in them.                                                      *)
(***************************************************************************)
EXTENDS Naturals

CONSTANTS
    Phones,     \* the devices that have the document open
    Keyed,      \* rows of lists, days of meals and of status ...: merged by key
    Settings,   \* the household's name, the lists ...: mine, unless I have none
    Leftover,   \* archive, calendars, what has been relayed ...: theirs
    LastEdit    \* bound: how many edits are made

Parts == Keyed \cup Settings \cup Leftover

ASSUME MergeAssumption ==
    /\ LastEdit \in Nat
    /\ Leftover \cap (Keyed \cup Settings) = {}

VARIABLES
    shared,     \* the stored document and its version
    shown,      \* per device, what is on its screen
    latest,     \* what its next save will send
    at,         \* state.version
    unsaved,    \* dirty.current
    armed,      \* saveTimer is running
    save,       \* the saveVault in progress
    edits       \* how many edits there were: what the next one writes

mergeVars == <<shared, shown, latest, at, unsaved, armed, save, edits>>

\* What a part says, as the number of the edit that wrote it.
Gone == 0
AsItWas == 1
Contents == 0 .. LastEdit + 1
Documents == [Parts -> Contents]

\* touched is auxiliary: what was edited here since somebody else's copy came in.
Work(doc, touched) == [doc |-> doc, touched |-> touched]
Works == [doc : Documents, touched : SUBSET Parts]

\* own and over are auxiliary: the document before any merge, and the version
\* of the one it was last merged with.
NoSave == [going |-> FALSE, doc |-> [p \in Parts |-> Gone], own |-> [p \in Parts |-> Gone],
           touched |-> {}, over |-> 0]

MergeTypeOK ==
    /\ shared \in [version : Nat, doc : Documents]
    /\ shown \in [Phones -> Works] /\ latest \in [Phones -> Works]
    /\ at \in [Phones -> Nat]
    /\ unsaved \in [Phones -> BOOLEAN] /\ armed \in [Phones -> BOOLEAN]
    /\ save \in [Phones -> [going : BOOLEAN, doc : Documents, own : Documents,
                            touched : SUBSET Parts, over : Nat]]
    /\ edits \in 0 .. LastEdit

MergeInit ==
    \E there \in SUBSET Parts :
       LET first == [p \in Parts |-> IF p \in there THEN AsItWas ELSE Gone] IN
       /\ shared = [version |-> 1, doc |-> first]
       /\ shown = [d \in Phones |-> Work(first, {})] /\ latest = shown
       /\ at = [d \in Phones |-> 1]
       /\ unsaved = [d \in Phones |-> FALSE] /\ armed = unsaved
       /\ save = [d \in Phones |-> NoSave]
       /\ edits = 0

-----------------------------------------------------------------------------

\* update: a part is written, or a row or a day taken out.
Edit(d, p) ==
    /\ edits < LastEdit /\ edits' = edits + 1
    /\ \E says \in {edits' + 1} \cup {g \in {Gone} : p \in Keyed /\ shown[d].doc[p] # g} :
          shown' = [shown EXCEPT ![d] = Work([@.doc EXCEPT ![p] = says], @.touched \cup {p})]
    /\ latest' = [latest EXCEPT ![d] = shown'[d]]
    /\ unsaved' = [unsaved EXCEPT ![d] = TRUE] /\ armed' = [armed EXCEPT ![d] = TRUE]
    /\ UNCHANGED <<shared, at, save>>

\* flush, from the timer or from a page that is hidden: no second one meanwhile.
Flush(d) ==
    /\ armed[d] \/ unsaved[d]
    /\ ~save[d].going
    /\ save' = [save EXCEPT ![d] = [going |-> TRUE, doc |-> latest[d].doc, own |-> latest[d].doc,
                                    touched |-> latest[d].touched, over |-> 0]]
    /\ armed' = [armed EXCEPT ![d] = FALSE]
    /\ UNCHANGED <<shared, shown, latest, at, unsaved, edits>>

\* What has been stored is touched no more, unless it was edited again since.
Stored(work, s) == Work(work.doc, {p \in work.touched : work.doc[p] # s.own[p]})

\* PUT /vault with the version the session is at by now.
PutAccepted(d) ==
    /\ save[d].going /\ at[d] = shared.version
    /\ shared' = [version |-> shared.version + 1, doc |-> save[d].doc]
    /\ at' = [at EXCEPT ![d] = shared'.version]
    /\ unsaved' = [unsaved EXCEPT ![d] = FALSE]
    /\ shown' = [shown EXCEPT ![d] = Stored(@, save[d])]
    /\ latest' = [latest EXCEPT ![d] = Stored(@, save[d])]
    /\ save' = [save EXCEPT ![d] = NoSave]
    /\ UNCHANGED <<armed, edits>>

\* Mutant: the two copies of a list spread in the other order.
TheirsLast(mine, theirs) ==
    [p \in Parts |-> IF theirs[p] # Gone THEN theirs[p] ELSE mine[p]]

\* mergeDocuments
Merged(mine, theirs) ==
    [p \in Parts |-> IF p \in Leftover \/ mine[p] = Gone THEN theirs[p] ELSE mine[p]]

\* "Someone else saved first": merge with theirs, and try again.
PutConflicts(d) ==
    /\ save[d].going /\ at[d] # shared.version
    /\ at' = [at EXCEPT ![d] = shared.version]
    /\ save' = [save EXCEPT ![d].doc = Merged(@, shared.doc), ![d].over = shared.version]
    /\ UNCHANGED <<shared, shown, latest, unsaved, armed, edits>>

\* The request fails; the edit stays unsaved, and nobody tries again.
PutFails(d) ==
    /\ save[d].going
    /\ save' = [save EXCEPT ![d] = NoSave]
    /\ UNCHANGED <<shared, shown, latest, at, unsaved, armed, edits>>

\* A poll, which a device with something unsaved does not make.
Poll(d) ==
    /\ ~unsaved[d]
    /\ shown' = [shown EXCEPT ![d] = Work(shared.doc, {})]
    /\ at' = [at EXCEPT ![d] = shared.version]
    /\ UNCHANGED <<shared, latest, unsaved, armed, save, edits>>

MergeNext ==
    \E d \in Phones :
       \/ \E p \in Parts : Edit(d, p)
       \/ Flush(d) \/ PutAccepted(d) \/ PutConflicts(d) \/ PutFails(d) \/ Poll(d)

MergeSpec == MergeInit /\ [][MergeNext]_mergeVars

-----------------------------------------------------------------------------
(* Properties.                                                             *)

OwnEditsStand(d) ==
    \A p \in save[d].touched \ Leftover :
        save[d].own[p] # Gone => shared'.doc[p] = save[d].own[p]

NobodysRowsGo(d) ==
    \A p \in Keyed : shared.doc[p] # Gone => shared'.doc[p] # Gone

TheRestIsTheirs(d) == \A p \in Leftover : shared'.doc[p] = shared.doc[p]

\* However many conflicts a save goes through, and whatever polls and edits come
\* in between, it stores what was written on its device to the lists, the days
\* and the settings that mergeDocuments names, and a row or a day of the document
\* it merged with last goes only if it was not that document any more.  Of all
\* other parts a merged document has what that one had: what was written to the
\* archive or to the record of relays here is lost (api.js:82), although a merge
\* is "deliberately biased toward keeping data" (78) and takes "the remote copy
\* only for things we did not touch" (67-68).
MergesKeepData ==
    [][\A d \in Phones :
          PutAccepted(d) =>
              /\ OwnEditsStand(d)
              /\ save[d].over = shared.version => NobodysRowsGo(d) /\ TheRestIsTheirs(d)
      ]_mergeVars

\* The merge "prefers the remote copy only for things we did not touch"
\* (api.js:67-68): what is there on the other side and was not edited on this one
\* is taken from there.  Refuted: all rows, days and settings are taken from here.
UntouchedTakesTheirs ==
    [][\A d \in Phones :
          PutConflicts(d) =>
              \A p \in Parts \ save[d].touched :
                  shared.doc[p] # Gone => save'[d].doc[p] = shared.doc[p]
      ]_mergeVars

=============================================================================

------------------------------- MODULE Import --------------------------------
(***************************************************************************)
(* Bringing over the household of the old HouseHub, entry by entry:        *)
(* web/src/lib/legacy-import.js (prepareImport, mergeImport), what of      *)
(* web/src/lib/document.js it uses, and components/ImportPanel.jsx.  An    *)
(* owner is whoever an entry names as its person, its cook, one of its     *)
(* rotation or who did it; meals and scores are those of one day.  What a  *)
(* row says is its title, or its text if it has none.  Left out are what   *)
(* adds up or is made anew each time: how often groceries were bought      *)
(* (492), and calendar subscriptions (ImportPanel.jsx:101-113).            *)
(***************************************************************************)
EXTENDS Naturals

CONSTANTS EntryIds, EntryNames,      \* ids and names of people, jars, rows and meals
          Collections,               \* the lists of rows
          Untitled,                  \* those of rows that have a text and no title (notes, the
                                     \* agenda, date ideas), no id either (archived agendas),
          Unnumbered, Sentences,     \* or that are only strings (prompts, App.jsx:4156)
          Letters,                   \* what such a string says as an object of its letters
          FirstHomes, OldHomes,      \* the households to begin with, and those in files
          StartJars,                 \* the jars of a household that has none
          MaxChanges                 \* bound: rows that are written and removed by hand

NoId == 0
OrNone(ids) == ids \cup {NoId}
Named == [id : EntryIds, name : EntryNames]
ListRows == [collection : Collections, id : OrNone(EntryIds), was : OrNone(EntryIds), says : EntryNames \cup {Letters},
         owner : OrNone(EntryIds), jar : OrNone(EntryIds)]
Meals == [id : OrNone(EntryIds), was : OrNone(EntryIds), says : EntryNames, owner : OrNone(EntryIds)]
Scores == [owner : EntryIds, says : EntryNames]
HouseDocument == [people : SUBSET Named, jars : SUBSET Named, rows : SUBSET ListRows,
              meals : SUBSET Meals, scores : SUBSET Scores]

IdsOf(entries) == {e.id : e \in entries}
NamesDiffer(named) == \A p, q \in named : p # q => p.id # q.id /\ p.name # q.name
NobodyTwice(scores) == \A s, t \in scores : s # t => s.owner # t.owner
\* The jars both have an id for are the three everyone starts with, which nobody can rename.
SameJars(these, those) == \A j \in these, k \in those : j.id = k.id => j.name = k.name

\* An id is of one thing, and who or what is referred to is there.
InOrder(h) ==
    /\ NamesDiffer(h.people) /\ NamesDiffer(h.jars) /\ NobodyTwice(h.scores)
    /\ \A r, s \in h.rows : r # s /\ r.id # NoId => r.id # s.id
    /\ \A m, n \in h.meals : m # n => m.id # n.id
    /\ IdsOf(h.people) \cap (IdsOf(h.jars) \cup IdsOf(h.rows)) = {}
    /\ IdsOf(h.jars) \cap IdsOf(h.rows) = {}
    /\ \A e \in h.rows \cup h.meals : e.owner \in OrNone(IdsOf(h.people))
    /\ \A s \in h.scores : s.owner \in IdsOf(h.people)
    /\ \A r \in h.rows : r.jar \in OrNone(IdsOf(h.jars))

\* In a file, a meal is not mistaken for another entry, and one entry without an id stands
\* for all of them.
OneEach(f) ==
    /\ \A r, s \in f.rows : r # s => r.id # s.id
    /\ (IdsOf(f.meals) \ {NoId}) \cap (IdsOf(f.people) \cup IdsOf(f.jars) \cup IdsOf(f.rows)) = {}

\* normalize, for what a file may lack; a meal that was one dish gets an id in migrateMeals.
Normalized(h, id) ==
    [h EXCEPT !.jars = IF @ = {} THEN StartJars ELSE @,
              !.meals = {IF m.id = NoId THEN [m EXCEPT !.id = id] ELSE m : m \in @}]

ASSUME ImportAssumption ==
    /\ EntryIds \subseteq Nat \ {NoId} /\ MaxChanges \in Nat
    /\ Sentences \subseteq Unnumbered /\ Unnumbered \subseteq Untitled /\ Untitled \subseteq Collections
    /\ FirstHomes \subseteq HouseDocument /\ OldHomes \subseteq HouseDocument /\ StartJars \subseteq Named
    /\ \A h \in FirstHomes : InOrder(h) /\ \A e \in h.rows \cup h.meals : e.was = NoId
    /\ \A f \in OldHomes :
          /\ InOrder(Normalized(f, NoId)) /\ OneEach(Normalized(f, NoId))
          /\ \A h \in FirstHomes \cup OldHomes : SameJars(Normalized(f, NoId).jars, h.jars \cup StartJars)

VARIABLES
    ours,        \* the household's document
    picked,      \* the file that is listed
    reading,     \* those being read
    proposal,    \* what was found: a household to add
    applying,    \* what is being added, the document it was pressed over, whether the button
                 \* that was pressed is still shown, and (auxiliary) whether all of it was there
    arrived,     \* the panel says that it was imported
    changes,
    imported,    \* auxiliary: what the last import was given and what it made
    stands,      \* auxiliary: what the last one added, as long as nobody takes of it
    mixed        \* auxiliary: a file was picked while another one was read or added

importVars == <<ours, picked, reading, proposal, applying, arrived, changes, imported, stands, mixed>>

Additions == [doc : HouseDocument, add : HouseDocument, shown : BOOLEAN, again : BOOLEAN]

ImportTypeOK ==
    /\ ours \in HouseDocument
    /\ picked \subseteq OldHomes /\ reading \subseteq OldHomes
    /\ proposal \subseteq HouseDocument /\ applying \subseteq Additions
    /\ arrived \in BOOLEAN /\ mixed \in BOOLEAN /\ changes \in 0..MaxChanges
    /\ imported \subseteq [from : HouseDocument, add : HouseDocument, into : HouseDocument, again : BOOLEAN]
    /\ stands \subseteq HouseDocument

ImportInit ==
    /\ ours \in FirstHomes
    /\ picked = {} /\ reading = {} /\ proposal = {} /\ applying = {} /\ imported = {} /\ stands = {}
    /\ arrived = FALSE /\ mixed = FALSE /\ changes = 0

-----------------------------------------------------------------------------
(* mergeImport.                                                            *)

Taken(doc) == IdsOf(doc.people) \cup IdsOf(doc.jars) \cup (IdsOf(doc.rows) \ {NoId})
UsedIn(doc) == Taken(doc) \cup IdsOf(doc.meals)

\* People and jars are matched by their names.
NewOnes(mine, theirs) == {t \in theirs : ~\E m \in mine : m.name = t.name}
Matched(mine, theirs, new) ==
    [id \in IdsOf(theirs) |->
        LET name == (CHOOSE t \in theirs : t.id = id).name
        IN  IF \E m \in mine : m.name = name THEN (CHOOSE m \in mine : m.name = name).id ELSE new[id]]

\* remapPerson
Follow(map, ref) == IF ref \in DOMAIN map THEN map[ref] ELSE ref

\* sameName: two titles that are not there are the same.
SameTitle(m, r) == r.collection \in Untitled \/ m.says = r.says

\* Mutant: by the id it would have now, which another row may have got first.
SameIdOnly(rows, r) == \E m \in rows : m.collection = r.collection /\ m.id = r.id /\ SameTitle(m, r)
Duplicate(rows, r) ==
    \E m \in rows :
        /\ m.collection = r.collection
        /\ (r.id # NoId /\ m.was = r.id) \/ (m.id = r.id /\ SameTitle(m, r))

NewRows(doc, add) == {r \in add.rows : ~Duplicate(doc.rows, r)}
NewMeals(doc, add) == {m \in add.meals : m.id \notin {e.was : e \in doc.meals} \ {NoId}}

\* freshId: who comes keeps the id it had, unless somebody has it; a meal never does.  Seven
\* random characters are nobody's, here or in any file.
Arriving(doc, add) ==
    IdsOf(NewOnes(doc.people, add.people)) \cup IdsOf(NewOnes(doc.jars, add.jars)) \cup IdsOf(NewRows(doc, add))
Renewed(doc, add) == (Arriving(doc, add) \cap (Taken(doc) \cup {NoId})) \cup IdsOf(NewMeals(doc, add))
Spare(used) == EntryIds \ (used \cup UNION {UsedIn(f) \cup IdsOf(StartJars) : f \in OldHomes})
Numberings(doc, add) ==
    {[i \in Arriving(doc, add) \cup Renewed(doc, add) |-> IF i \in Renewed(doc, add) THEN fresh[i] ELSE i] :
        fresh \in {f \in [Renewed(doc, add) -> Spare(UsedIn(doc) \cup UsedIn(add))] :
                      \A i, j \in Renewed(doc, add) : i # j => f[i] # f[j]}}

Renumbered(named, new) == {[t EXCEPT !.id = new[t.id]] : t \in named}

\* importedId
Came(e, id, owner) == [e EXCEPT !.id = id, !.was = e.id, !.owner = owner]
Brought(entries, new, person) ==
    {Came(e, new[e.id], Follow(person, e.owner)) : e \in entries}

\* What { ...raw } makes of a row: a string comes apart into its letters.
Unpacked(r) == [r EXCEPT !.says = IF r.collection \in Sentences THEN Letters ELSE @]

\* Every idea that names a jar of the file, the household's own as well.
Rejarred(rows, jar) == {[r EXCEPT !.jar = Follow(jar, r.jar)] : r \in rows}

\* "An existing entry for a day always wins."
Scored(mine, theirs, person) ==
    mine \cup {s \in {[t EXCEPT !.owner = Follow(person, t.owner)] : t \in theirs} :
                  ~\E m \in mine : m.owner = s.owner}

MergeImport(doc, add, new) ==
    LET person == Matched(doc.people, add.people, new)
        jar == Matched(doc.jars, add.jars, new)
    IN  [people |-> doc.people \cup Renumbered(NewOnes(doc.people, add.people), new),
         jars   |-> doc.jars \cup Renumbered(NewOnes(doc.jars, add.jars), new),
         rows   |-> Rejarred(doc.rows \cup Brought({Unpacked(r) : r \in NewRows(doc, add)}, new, person), jar),
         meals  |-> doc.meals \cup Brought(NewMeals(doc, add), new, person),
         scores |-> Scored(doc.scores, add.scores, person)]

-----------------------------------------------------------------------------
(* ImportPanel, for an admin.                                              *)

\* A button that is taken off the screen leaves what it began to end by itself, and the
\* one that is put there next can be pressed meanwhile.
Left == {[a EXCEPT !.shown = FALSE] : a \in applying}

\* takeFiles
PickFile(f) ==
    /\ ~arrived
    /\ picked' = {f} /\ reading' = reading \cup {f} /\ proposal' = {} /\ applying' = Left
    /\ mixed' = (reading # {} \/ applying # {})
    /\ UNCHANGED <<ours, arrived, changes, imported, stands>>

PressedOver == {ours} \cup {a.doc : a \in applying}
FoundInFiles == proposal \cup {a.add : a \in applying}

\* readLegacyFile and prepareImport; whatever was picked meanwhile.
FileIsRead(f) ==
    /\ f \in reading /\ reading' = reading \ {f}
    /\ \E id \in Spare(UNION {UsedIn(h) \cup {m.was : m \in h.meals} : h \in PressedOver \cup FoundInFiles}) :
          proposal' = {Normalized(f, id)}
    /\ UNCHANGED <<ours, picked, applying, arrived, changes, imported, stands, mixed>>

FileIsRefused(f) ==
    /\ f \in reading /\ reading' = reading \ {f}
    /\ UNCHANGED <<ours, picked, proposal, applying, arrived, changes, imported, stands, mixed>>

StartOver ==
    /\ proposal # {} \/ arrived
    /\ picked' = {} /\ proposal' = {} /\ arrived' = FALSE /\ applying' = Left
    /\ UNCHANGED <<ours, reading, changes, imported, stands, mixed>>

\* apply: the calendars are subscribed to first, over the document as it was pressed.
PressAdd ==
    /\ ~arrived /\ ~\E a \in applying : a.shown
    /\ \E add \in proposal :
          applying' = applying \cup {[doc |-> ours, add |-> add, shown |-> TRUE, again |-> add \in stands]}
    /\ UNCHANGED <<ours, picked, reading, proposal, arrived, changes, imported, stands, mixed>>

\* And what it makes of that replaces what there is.  If it cannot be saved, it is on the
\* screen all the same, and the button can be pressed again.
AddIsDone ==
    /\ \E a \in applying : \E new \in Numberings(a.doc, a.add) :
          /\ ours' = MergeImport(a.doc, a.add, new)
          /\ imported' = {[from |-> a.doc, add |-> a.add, into |-> ours', again |-> a.again]}
          /\ stands' = {a.add}
          /\ \/ /\ arrived' = TRUE /\ proposal' = {} /\ picked' = {}
                /\ applying' = {[o EXCEPT !.shown = FALSE] : o \in applying \ {a}}
             \/ applying' = applying \ {a} /\ UNCHANGED <<arrived, proposal, picked>>
    /\ UNCHANGED <<reading, changes, mixed>>

\* Meanwhile the household lives on.
WriteRow(collection, says) ==
    /\ changes < MaxChanges /\ changes' = changes + 1
    /\ \E id \in IF collection \in Unnumbered THEN {NoId} ELSE Spare(UsedIn(ours)) :
          ours' = [ours EXCEPT !.rows = @ \cup {[collection |-> collection, id |-> id, was |-> NoId,
                                                 says |-> says, owner |-> NoId, jar |-> NoId]}]
    /\ UNCHANGED <<picked, reading, proposal, applying, arrived, imported, stands, mixed>>

RemoveRow(r) ==
    /\ changes < MaxChanges /\ changes' = changes + 1
    /\ ours' = [ours EXCEPT !.rows = @ \ {r}] /\ stands' = {}
    /\ UNCHANGED <<picked, reading, proposal, applying, arrived, imported, mixed>>

ImportNext ==
    \/ StartOver \/ PressAdd \/ AddIsDone
    \/ \E f \in OldHomes : PickFile(f) \/ FileIsRead(f) \/ FileIsRefused(f)
    \/ \E collection \in Collections, says \in EntryNames : WriteRow(collection, says)
    \/ \E r \in ours.rows : RemoveRow(r)

ImportSpec == ImportInit /\ [][ImportNext]_importVars

-----------------------------------------------------------------------------
(* Properties.                                                             *)

NameOf(named, id) == {n.name : n \in {p \in named : p.id = id}}

\* "Nothing that was already in this household was changed or removed" (ImportPanel.jsx:171):
\* all that stood in the document the button was pressed over stands in what was made of it.
NothingIsChanged(l) ==
    /\ l.from.people \subseteq l.into.people /\ l.from.jars \subseteq l.into.jars
    /\ l.from.rows \subseteq l.into.rows /\ l.from.meals \subseteq l.into.meals
    /\ l.from.scores \subseteq l.into.scores

\* "Any person who gets a new id has to be followed through everything that referred to
\* them" (legacy-import.js:322-324), and a jar as well: what came names who it named in
\* the file.
EveryoneIsFollowed(l) ==
    /\ \A e \in l.into.rows \ l.from.rows : \E r \in l.add.rows :
          /\ e.says = Unpacked(r).says /\ e.was = r.id
          /\ NameOf(l.into.people, e.owner) = NameOf(l.add.people, r.owner)
          /\ NameOf(l.into.jars, e.jar) = NameOf(l.add.jars, r.jar)
    /\ \A e \in l.into.meals \ l.from.meals : \E m \in l.add.meals :
          e.says = m.says /\ NameOf(l.into.people, e.owner) = NameOf(l.add.people, m.owner)
    /\ \A s \in l.into.scores \ l.from.scores : \E t \in l.add.scores :
          s.says = t.says /\ NameOf(l.into.people, s.owner) = NameOf(l.add.people, t.owner)

\* What an entry of the file is taken for instead (legacy-import.js:392-393, 442): for what
\* a file brought that gave its id to something else, or, if it has no title, for one of
\* the household's of the same list and id, which for archived agendas and prompts is any.
BroughtByAFile(e, entries) == \E q \in entries : q.id = e.was /\ q.says = e.says
PassedOver(l, r) ==
    \E e \in l.from.rows :
        /\ e.collection = r.collection
        /\ \/ /\ r.id # NoId /\ e.was = r.id
              /\ \E f \in OldHomes : BroughtByAFile(e, {Unpacked(q) : q \in f.rows})
           \/ e.id = r.id /\ r.collection \in Untitled
MealPassedOver(l, m) ==
    \E e \in l.from.meals : e.was = m.id /\ \E f \in OldHomes : BroughtByAFile(e, f.meals)

\* "Everything comes across" (ImportPanel.jsx:184-186): whoever and whatever the file has
\* is there then and says what it said, but for a prompt that has come apart, a score where
\* the household has its own, and what was taken for something else.
EverythingArrives(l) ==
    /\ \A t \in l.add.people : \E p \in l.into.people : p.name = t.name
    /\ \A t \in l.add.jars : \E j \in l.into.jars : j.name = t.name
    /\ \A r \in l.add.rows :
          \/ PassedOver(l, r)
          \/ \E e \in l.into.rows :
                /\ e.collection = r.collection /\ r.id \in {e.id, e.was}
                /\ e.says \in {r.says, Unpacked(r).says}
    /\ \A m \in l.add.meals :
          MealPassedOver(l, m) \/ \E e \in l.into.meals : e.was = m.id /\ e.says = m.says
    /\ \A t \in l.add.scores : \E s \in l.into.scores :
          NameOf(l.into.people, s.owner) = NameOf(l.add.people, t.owner)

\* Done once more, it adds only what has no id.
NothingTwice(l) ==
    /\ \A e \in l.into.rows \ l.from.rows : e.was = NoId
    /\ l.into.people = l.from.people /\ l.into.jars = l.from.jars
    /\ l.into.meals = l.from.meals /\ l.into.scores = l.from.scores

\* What an import says of itself, "Nothing is destroyed" (ImportPanel.jsx:13-17): what is here
\* stays as it is, what comes finds its people and jars, ids and names stay those of one
\* thing each, and the same find changes nothing the second time, unless somebody took away
\* what it brought, or for what the file has no id for: archived agendas and prompts, and a
\* meal of one dish when the file is read anew.
ImportsOnlyAdd ==
    /\ InOrder(ours)
    /\ \A l \in imported :
          /\ NothingIsChanged(l) /\ EveryoneIsFollowed(l) /\ EverythingArrives(l)
          /\ l.again => NothingTwice(l)

\* The screen lists the file whose contents it offers to add, unless another one was
\* picked before this one was read.
OfferedIsPicked ==
    mixed \/ \A add \in proposal : \E f \in picked : \E id \in EntryIds : add = Normalized(f, id)

ImportsStand == ImportsOnlyAdd /\ OfferedIsPicked

=============================================================================

-------------------------------- MODULE Lists --------------------------------
(***************************************************************************)
(* The running lists of a household (lib/lists.js and the Lists tab of     *)
(* App.jsx).  A signed-in member writes as themselves; a display asks who  *)
(* is there before it writes down what was entered, and meanwhile its      *)
(* screen may go elsewhere.  The document is one here, and a text is the   *)
(* number of the time it was entered.                                      *)
(***************************************************************************)
EXTENDS Sublists

CONSTANTS Desks, Walls,      \* where the tab is open; which of them are displays
          Housemates, Me,    \* the people; who is signed in where it is no display
          MaxLists, MaxItems \* how many are ever made
ASSUME ListsAssumption == Walls \subseteq Desks /\ Me \in Housemates /\ MaxLists \in Nat /\ MaxItems \in Nat

Unnamed == "nobody"

VARIABLES lists,    \* the lists of the document, by their number: in the order they were made
          desk,     \* per screen: the list that is open, who it writes for, what it asks about
          listed,   \* how many lists were made
          enteredOn, \* per entry: the list it was entered on (auxiliary)
          away,     \* entries whose screen left the list while it asked (auxiliary)
          undone    \* entries that somebody took off (auxiliary)
listVars == <<lists, desk, listed, enteredOn, away, undone>>

Marks == [person : Housemates \cup {Unnamed}, locked : BOOLEAN]
NoDesk == [on |-> FALSE, open |-> 0, who |-> Unnamed, asking |-> "no", about |-> 0]
Entered == 1..Len(enteredOn)

Items == [id : 1..MaxItems, done : BOOLEAN, by : Marks]
ListsTypeOK ==
    /\ DOMAIN lists \subseteq 1..listed /\ \A id \in DOMAIN lists : lists[id] \in Seq(Items)
    /\ desk \in [Desks -> [on : BOOLEAN, open : 0..MaxLists, who : Housemates \cup {Unnamed},
                           asking : {"no", "list", "item", "switch"}, about : 0..MaxItems]]
    /\ listed \in 0..MaxLists /\ enteredOn \in Seq(1..MaxLists) /\ Len(enteredOn) <= MaxItems
    /\ away \cup undone \subseteq Entered

ListsInit ==
    /\ lists = <<>> /\ listed = 0 /\ enteredOn = <<>> /\ away = {} /\ undone = {}
    /\ desk = [d \in Desks |-> NoDesk]

-----------------------------------------------------------------------------
(* lib/lists.js.                                                           *)

\* A member speaks for themselves; a display reports who said they were there.
Attribute(d, person) ==
    IF d \in Walls THEN [person |-> person, locked |-> FALSE] ELSE [person |-> Me, locked |-> TRUE]

CreateList(id) == [i \in DOMAIN lists \cup {id} |-> IF i = id THEN <<>> ELSE lists[i]]
Item(id, by) == [id |-> id, done |-> FALSE, by |-> by]
IsThere(id) == id \in DOMAIN lists
ItemsOf(id) == IF IsThere(id) THEN lists[id] ELSE <<>>
\* Of a list that is gone, nothing.
WithItems(id, items) == [i \in DOMAIN lists |-> IF i = id THEN items ELSE lists[i]]

Toggled(items, n) == [k \in 1..Len(items) |-> IF items[k].id = n THEN [items[k] EXCEPT !.done = ~@] ELSE items[k]]
Removed(items, n) == AtPlaces(items, {k \in 1..Len(items) : items[k].id # n})
\* One place up or down: the two change places.
Moved(items, k, to) == [items EXCEPT ![k] = items[to], ![to] = items[k]]
\* Mutant: the ones that are still to be done go.
DropsOpen(items) == AtPlaces(items, {k \in 1..Len(items) : items[k].done})
ClearDone(items) == AtPlaces(items, {k \in 1..Len(items) : ~items[k].done})
CanReattribute(item) == ~item.by.locked
Reattributed(items, n, person) ==
    [k \in 1..Len(items) |-> IF items[k].id = n THEN [items[k] EXCEPT !.by.person = person] ELSE items[k]]

-----------------------------------------------------------------------------
(* Entering.                                                               *)

Shows(d) == desk[d].on /\ IsThere(desk[d].open)      \* a list is on the screen, else the shelf
MustAsk(d) == d \in Walls /\ desk[d].who = Unnamed

\* What the screen asks about is not what it shows any more.
Leaves(d) == away' = IF desk[d].asking = "item" THEN away \cup {desk[d].about} ELSE away

StartsList(d, w) ==
    /\ listed < MaxLists /\ listed' = listed + 1
    /\ lists' = CreateList(listed')
    /\ desk' = [desk EXCEPT ![d] = [w EXCEPT !.open = listed']]

AddList(d) ==
    /\ desk[d].on /\ ~Shows(d)
    /\ IF MustAsk(d)
       THEN desk' = [desk EXCEPT ![d].asking = "list"] /\ UNCHANGED <<lists, listed>>
       ELSE StartsList(d, desk[d])
    /\ Leaves(d)
    /\ UNCHANGED <<enteredOn, undone>>

WritesItem(d, n, person) ==
    lists' = WithItems(desk[d].open, Append(ItemsOf(desk[d].open), Item(n, Attribute(d, person))))

\* Entering the same again while it is asked about asks again.
AddItem(d) ==
    /\ Shows(d) /\ desk[d].asking # "item" /\ Len(enteredOn) < MaxItems
    /\ enteredOn' = Append(enteredOn, desk[d].open)
    /\ IF MustAsk(d)
       THEN desk' = [desk EXCEPT ![d].asking = "item", ![d].about = Len(enteredOn')] /\ UNCHANGED lists
       ELSE WritesItem(d, Len(enteredOn'), desk[d].who) /\ UNCHANGED desk
    /\ UNCHANGED <<listed, away, undone>>

\* "Adding as X - change"
HandOver(d) ==
    /\ Shows(d) /\ d \in Walls /\ desk[d].who # Unnamed
    /\ desk' = [desk EXCEPT ![d].asking = "switch"]
    /\ Leaves(d)
    /\ UNCHANGED <<lists, listed, enteredOn, undone>>

\* Whoever is asked about anything but an item starts a list.
AnswerWho(d, person) ==
    /\ desk[d].asking # "no"
    /\ LET w == [desk[d] EXCEPT !.who = person, !.asking = "no", !.about = 0]
       IN  IF desk[d].asking = "item"
           THEN /\ WritesItem(d, desk[d].about, person) /\ desk' = [desk EXCEPT ![d] = w]
                /\ UNCHANGED listed
           ELSE StartsList(d, w)
    /\ UNCHANGED <<enteredOn, away, undone>>

-----------------------------------------------------------------------------
(* A list that is open.                                                    *)

OnScreen(d) == ItemsOf(desk[d].open)
ChangesItems(d, items) ==
    /\ Shows(d) /\ lists' = WithItems(desk[d].open, items)
    /\ UNCHANGED <<desk, listed, enteredOn, away>>

ToggleItem(d, k) == ChangesItems(d, Toggled(OnScreen(d), OnScreen(d)[k].id)) /\ UNCHANGED undone

MoveItem(d, k, to) ==
    /\ to \in {k - 1, k + 1} /\ to \in 1..Len(OnScreen(d))
    /\ ChangesItems(d, Moved(OnScreen(d), k, to)) /\ UNCHANGED undone

RemoveItem(d, k) ==
    /\ undone' = undone \cup {OnScreen(d)[k].id}
    /\ ChangesItems(d, Removed(OnScreen(d), OnScreen(d)[k].id))

ClearTicked(d) ==
    LET ticked == {k \in 1..Len(OnScreen(d)) : OnScreen(d)[k].done}
    IN  /\ ticked # {}
        /\ undone' = undone \cup {OnScreen(d)[k].id : k \in ticked}
        /\ ChangesItems(d, ClearDone(OnScreen(d)))

AttributeItem(d, k, person) ==
    /\ CanReattribute(OnScreen(d)[k])
    /\ ChangesItems(d, Reattributed(OnScreen(d), OnScreen(d)[k].id, person)) /\ UNCHANGED undone

\* What is asked about on other screens goes with the list.
RemoveList(d) ==
    /\ Shows(d)
    /\ lists' = [id \in DOMAIN lists \ {desk[d].open} |-> lists[id]]
    /\ desk' = [desk EXCEPT ![d].open = 0]
    /\ undone' = undone \cup {n \in Entered : enteredOn[n] = desk[d].open} \cup {OnScreen(d)[k].id : k \in 1..Len(OnScreen(d))}
    /\ Leaves(d)
    /\ UNCHANGED <<listed, enteredOn>>

-----------------------------------------------------------------------------
(* The screen.                                                             *)

OpenListTab(d) ==
    /\ ~desk[d].on /\ desk' = [desk EXCEPT ![d].on = TRUE]
    /\ UNCHANGED <<lists, listed, enteredOn, away, undone>>

\* Leaving the tab forgets who was there and what was asked.
LeaveTab(d) ==
    /\ desk[d].on /\ desk' = [desk EXCEPT ![d] = NoDesk]
    /\ Leaves(d)
    /\ UNCHANGED <<lists, listed, enteredOn, undone>>

OpenList(d, id) ==
    /\ desk[d].on /\ ~Shows(d) /\ IsThere(id)
    /\ desk' = [desk EXCEPT ![d].open = id]
    /\ UNCHANGED <<lists, listed, enteredOn, away, undone>>

BackToShelf(d) ==
    /\ Shows(d) /\ desk' = [desk EXCEPT ![d].open = 0]
    /\ Leaves(d)
    /\ UNCHANGED <<lists, listed, enteredOn, undone>>

ListsNext ==
    \E d \in Desks :
       \/ AddList(d) \/ AddItem(d) \/ HandOver(d) \/ ClearTicked(d) \/ RemoveList(d)
       \/ OpenListTab(d) \/ LeaveTab(d) \/ BackToShelf(d)
       \/ \E person \in Housemates \cup {Unnamed} : AnswerWho(d, person)
       \/ \E id \in 1..listed : OpenList(d, id)
       \/ \E k \in 1..Len(OnScreen(d)) :
             \/ ToggleItem(d, k) \/ RemoveItem(d, k)
             \/ \E to \in {k - 1, k + 1} : MoveItem(d, k, to)
             \/ \E person \in Housemates \cup {Unnamed} : AttributeItem(d, k, person)

Written(n) == {id \in 1..listed : \E k \in 1..Len(ItemsOf(id)) : ItemsOf(id)[k].id = n}

\* What was entered stands once, on the list it was entered on, or is still asked about,
\* until somebody takes it off -- or the screen went elsewhere while it asked, which may lose
\* it or put it on another list; and no entry of a member's is ever credited to another
\* person, whatever the displays do (lists.js:33-35).
EntriesStand ==
    /\ \A n \in Entered \ (away \cup undone) :
          \/ Written(n) = {enteredOn[n]}
          \/ Written(n) = {} /\ \E d \in Desks : desk[d].asking = "item" /\ desk[d].about = n
    /\ \A id \in 1..listed :
          /\ \A j, k \in 1..Len(ItemsOf(id)) : j # k => ItemsOf(id)[j].id # ItemsOf(id)[k].id
          /\ \A k \in 1..Len(ItemsOf(id)) : ItemsOf(id)[k].by.locked => ItemsOf(id)[k].by.person = Me

=============================================================================

----------------------------- MODULE MCDocument ------------------------------
(***************************************************************************)
(* What a household keeps in its document, and the browser that opens it,  *)
(* for TLC: a behaviour is about one topic, and what belongs to the others *)
(* stands still.  The conditions on a topic's steps bound its instance;    *)
(* README.md says what each of them leaves out.                            *)
(***************************************************************************)
EXTENDS Chores, Projects, Timers, Reminders, Browser, DocumentMerge, Assistant, Evening,
        Shelves, Nightly, ListsAndMeals

CONSTANT Topics

VARIABLE topic
askingVars == <<assistantVars, eveningVars>>
heldVars == <<listVars, shelfVars, kitchenVars, nightlyVars>>
broughtVars == <<importVars, databaseVars>>
houseVars == <<choreVars, projectVars, timerVars, reminderVars, browserVars, mergeVars>>

Daily == [type |-> "daily"]
Turns == [type |-> "perPerson", people |-> [p \in Members |-> IF p = "a" THEN {0} ELSE IF p = "b" THEN {0, 1} ELSE {}]]
MCChoosable ==
    {Daily, Turns} \cup [type : {"interval"}, every : {2}, start : Days]
        \cup [type : {"weekly"}, days : {{1}}, every : {2}, anchor : Days]
\* Two spellings of one store.
MCStoreName(s) == IF s = "costco" THEN "Costco" ELSE s
MCRotations == {<<"a", "b", "c">>, <<"b", "a">>}

\* Progress by hand, or up to two stages; planned for the first day or for none.
MCDrafts ==
    [percent : {0, 50, 100}, dates : {{}, {1}}, stages : {<<>>}]
        \cup [percent : {0}, dates : {{}, {1}}, stages : BoundedSeq([done : BOOLEAN, date : 0..1], 2) \ {<<>>}]

\* A household of one person and one jar, and two files: one that gives the same ids to
\* others, and one of the older kind, with an archived agenda, a dinner of one dish and no jars.
ListRow(collection, id, title, owner, ofJar) ==
    [collection |-> collection, id |-> id, was |-> NoId, says |-> title, owner |-> owner, jar |-> ofJar]
Dinner(id, dish, owner) == [id |-> id, was |-> NoId, says |-> dish, owner |-> owner]
MCStartJars == {[id |-> 2, name |-> "cheap"]}
MCHomes ==
    {[people |-> {[id |-> 1, name |-> "sam"]}, jars |-> {[id |-> 6, name |-> "far"]},
      rows |-> {ListRow("chores", 3, "x", 1, NoId), ListRow("ideas", 4, "x", NoId, 6)},
      meals |-> {Dinner(5, "x", 1)}, scores |-> {[owner |-> 1, says |-> "x"]}]}
MCFiles ==
    {[people |-> {[id |-> 7, name |-> "sam"], [id |-> 1, name |-> "alex"]},
      jars |-> {[id |-> 8, name |-> "far"]},
      rows |-> {ListRow("chores", 3, "sam", 1, NoId), ListRow("ideas", 9, "x", NoId, 8),
                ListRow("ideas", 4, "far", NoId, 8), ListRow("prompts", NoId, "x", NoId, NoId)},
      meals |-> {Dinner(5, "x", 7)}, scores |-> {[owner |-> 7, says |-> "sam"]}],
     [people |-> {[id |-> 1, name |-> "sam"]}, jars |-> {},
      rows |-> {ListRow("archive", NoId, "far", NoId, NoId), ListRow("chores", 3, "far", 1, NoId),
                ListRow("ideas", 7, "x", NoId, 2)},
      meals |-> {Dinner(NoId, "x", 1), Dinner(5, "far", 1)}, scores |-> {}]}
LastOldId == 9

-----------------------------------------------------------------------------
(* What the instances of a chore begin with.                               *)

CountsFromTheFirst(k) ==
    \/ k.type = "interval" /\ k.start = 1
    \/ k.type = "weekly" /\ k.anchor = 1

ChoreOf(subject) ==
    /\ subject = "record" => chore.cadence = Daily /\ Len(chore.rotation) = 3
    /\ subject = "turns" => chore.cadence.type \in {"daily", "perPerson"}
    /\ subject \in {"pausing", "moving"} => CountsFromTheFirst(chore.cadence) /\ chore.rotation = <<>>
    /\ subject # "record" => ~keeping /\ chore.done[1] = NoMark
    /\ subject \notin {"record", "turns", "pausing", "moving"} => chore.cadence = Daily /\ chore.rotation = <<>>
    /\ chore.owner = "a"

DocumentInit ==
    /\ topic \in Topics
    /\ ChoresInit /\ ProjectsInit /\ TimersInit /\ RemindersInit /\ BrowserInit /\ MergeInit
    /\ ListsInit /\ ShelvesInit /\ KitchenInit /\ NightlyInit /\ ImportInit /\ DatabaseInit
    /\ AssistantInit /\ EveningInit /\ offered["p1"] # NoRow
    /\ ChoreOf(topic)
    /\ account["a"] = "known"
    /\ topic # "merging" => shared.doc = [p \in Parts |-> AsItWas]

-----------------------------------------------------------------------------
(* Steps a topic is made of.                                               *)

Account(p) == [kind |-> "member", person |-> p, user |-> p]
Display == [kind |-> "display", person |-> Nobody, user |-> Nobody]
Guest == [kind |-> "unlinked", person |-> Nobody, user |-> "guest"]
SoFar == 1..today

\* One day and the next, and the archive.
Recording ==
    \/ \E d \in 1..2 :
          \/ SkipChore(d) \/ Corrections(d)
          \/ \E actor \in {Account("a"), Guest, Display} : Taps(d, actor)
    \/ RemoveChore \/ EnableArchive \/ WipeArchive

\* Days that pass, and two people who tick the first two, while the turns are changed.
TakingTurns ==
    /\ \/ \E d \in SoFar \cap (1..2) :
             \/ SkipChore(d) \/ Corrections(d)
             \/ \E p \in {"a", "b"} : Taps(d, Account(p))
       \/ EditCadence \/ EditRotation \/ NewDay
    /\ chore'.cadence.type \in {"daily", "perPerson"} /\ chore'.owner = "a"
    /\ \A d \in Days : IsCompletion(chore'.done[d]) => chore'.done[d].locked \/ chore'.done[d].for # Nobody

\* Ticks and skips around a rest of two days, or without end.
Resting ==
    /\ \/ \E d \in SoFar : SkipChore(d) \/ Tick(d, Account("a")) \/ Untick(d, Account("a"))
       \/ EditPause \/ ResumeChore \/ NewDay
    /\ chore'.pause = NoPause \/ chore'.pause.until \in {0, chore'.pause.from + 1}

\* One occurrence that is moved, within the days that are looked at.
Moving ==
    /\ \/ \E d \in Days : Moves(d)
       \/ \E d \in SoFar : SkipChore(d) \/ Tick(d, Account("a")) \/ Untick(d, Account("a")) \/ DidItToday(d, Account("a"))
       \/ NewDay
    /\ Cardinality({d \in Days : chore'.moved[d] # 0}) <= 1
    /\ \A d \in Days : chore'.moved[d] <= LastDay
    /\ \A d \in Days : d > today => chore'.done[d] = NoMark

\* The phone, once awake, stays awake, and leaves the second reminder to the tablet.
\* Only the first is done, and the second is snoozed while the first is.
FewReminders ==
    /\ dealt' \subseteq {"c1"}
    /\ snoozed'["c1"] = 0 /\ snoozed'["c2"] \in (IF "c1" \in dealt' THEN {0, 2} ELSE {0})
    /\ "c2" \notin screens'["phone"].pending
    /\ screens["phone"].up => screens'["phone"].up

\* Sign-ins one after the other.  The first account stays, the other comes later and is
\* never remembered; only the first tab gets into a household.
FewSignIns ==
    /\ ~disturbed'
    /\ account'["a"] # "none" /\ (account["b"] = "known" => account'["b"] = "known")
    /\ account["b"] # account'["b"] => tab'[2] = tab[2]
    /\ lasting' \subseteq {"a"}
    /\ tab'[2].open = NoHome /\ tab'[2].at \notin {"create", "pick", "ready"}
    /\ \A s \in 1..MaxSession :
          opened[s].live /\ ~opened'[s].live => opened[s].lasting \/ tab[1] # tab'[1]

\* The server's own provider, which is re-addressed, and a hosted one elsewhere that comes
\* and goes; two admins of whom one at a time changes something; while a question is under
\* way it alone moves: what it was given is fixed.
FewProviders ==
    /\ offered'["p1"].kind # "hosted" /\ offered'["p1"].url # "home" /\ filling'["p1"] = Nothing
    /\ offered'["p1"].enabled /\ blurred' \subseteq {"p1"}
    /\ offered'["p2"].kind # "ollama" /\ offered'["p2"].enabled = (offered'["p2"].kind = "hosted")
    /\ offered'["p2"].enabled => "away" \in {offered'["p2"].url, filling'["p2"]}
    /\ Cardinality({m \in Admins : putting'[m] # NoPut}) <= 1
    /\ (\E a \in Askers : asking[a] # NoQuestion) => asking' # asking

\* The last edit is made while a save that was merged is under way.
FewEdits == edits < LastEdit /\ edits' = LastEdit => \E d \in Phones : save[d].over # 0

\* The phone stays on the first list, whose first item alone is ticked; the wall is used by
\* somebody else, or by nobody who says so.
FewEntries ==
    /\ desk'["phone"].on /\ desk'["phone"].open < 2
    /\ \A id \in DOMAIN lists' : \A k \in 1..Len(lists'[id]) : lists'[id][k].done => lists'[id][k].id = 1
    /\ desk'["wall"].who # Me

\* Ideas are drawn while no jar was added yet, the assistant is asked before the first idea
\* in the tab and after it on Today, and one idea is retired at a time.
FewIdeas ==
    /\ draws' > 0 => jarsMade' = FirstJars
    /\ \A p \in Panes : pane'[p].offered => ideasMade' = 0
    /\ \A b \in Blocks : block'[b].offered => ideasMade' = 1
    /\ Cardinality({x \in ideas' : x.retired}) < 2

\* Each screen edits a day of its own, the second one only a meal for everyone or what was
\* copied to it; a row is given its title before the next one is added, and a dialog takes one meal off and
\* misses one before it writes.
FewMeals ==
    /\ \A s \in Cooks :
          /\ dialog'[s].day \in {NoDay, s}
          /\ \A k \in 1..Len(dialog'[s].rows) :
                LET e == dialog'[s].rows[k]
                IN  /\ e.title = NoTitle => e.person = Shared /\ k = Len(dialog'[s].rows)
                    /\ s = 2 => e.copied \/ (e.person = Shared /\ k = 1)
    /\ \A d \in MealDays : Len(meals'[d]) <= MaxRows
    /\ Len(dialog'[2].rows) < 2
    /\ \A s \in Cooks : Cardinality({t \in dialog'[s].took : t[1] # NoTitle}) < 2
    /\ Cardinality(dialog'[1].unseen) < 2

\* Work ends when the first night begins, if at all; one step is skipped and a time is
\* chosen on that night only; a walkthrough is closed where it starts or where it ends.
FewNights ==
    /\ raised' = raised /\ agenda' = agenda
    /\ workEnd' # workEnd => night = 1 /\ hour = 0 /\ workEnd[1] = Never /\ walk[1] = NotOpen
    /\ waiting' # waiting => walk[1].started
    /\ walk'[1].skipped <= 1
    /\ night = 2 => ~walk'[1].back /\ walk'[1].skipped = 0 /\ walk'[1].time \in {walk[1].time, CheckinPlan(3)}
    /\ walk[1].on /\ ~walk'[1].on => checkinLog # checkinLog' \/ walk[1].i = 1
    /\ checkinLog # checkinLog' => ~CheckinDone(night)

\* Before the first night's check-in is open.
FewTopics == waiting' = waiting /\ <<clockVars, walk>>' = <<clockVars, walk>>

\* By hand, one row is written or removed while nothing but a found file waits.  Two
\* additions, or two readings, are under way together only before the first one is done.
\* What is new is numbered in order, people before rows and rows before meals.
FewImports ==
    /\ changes' # changes => reading = {} /\ applying = {} /\ proposal # {}
    /\ changes' # changes => \A r \in ours'.rows \ ours.rows : r.says = "x"
    /\ Cardinality(applying') < 3
    /\ Cardinality(applying') = 2 \/ Cardinality(reading') = 2 => imported' = {} /\ changes' = 0
    /\ Cardinality(reading') = 2 => applying' = {}
    /\ Cardinality(applying) = 2 => reading' = reading
    /\ \A l \in imported' :
          LET people == {p.id : p \in l.into.people \ l.from.people} \ 1..LastOldId
              renewed == {r \in l.into.rows \ l.from.rows : r.id > LastOldId}
              dishes == l.into.meals \ l.from.meals
          IN  /\ \A i \in people, r \in renewed : i < r.id
              /\ \A i \in people \cup IdsOf(renewed), m \in dishes : i < m.id
              /\ \A r, q \in renewed : r.was < q.was => r.id < q.id
              /\ \A m, o \in dishes : m.was < o.was => m.id < o.id
    /\ LET numbered == UsedIn(ours') \cup UNION {UsedIn(add) : add \in FoundInFiles'}
       IN  \A id \in numbered : id > LastOldId => LastOldId + 1 .. id \subseteq numbered

-----------------------------------------------------------------------------

ChoreTopics ==
    /\ \/ topic = "record" /\ Recording
       \/ topic = "turns" /\ TakingTurns
       \/ topic = "pausing" /\ Resting
       \/ topic = "moving" /\ Moving
    /\ UNCHANGED <<topic, projectVars, timerVars, reminderVars, browserVars, mergeVars, askingVars, heldVars, broughtVars>>

ProjectTopic ==
    /\ topic = "project" /\ ProjectsNext
    /\ UNCHANGED <<topic, choreVars, timerVars, reminderVars, browserVars, mergeVars, askingVars, heldVars, broughtVars>>

TimerTopic ==
    /\ topic = "timers" /\ TimersNext
    /\ UNCHANGED <<topic, choreVars, projectVars, reminderVars, browserVars, mergeVars, askingVars, heldVars, broughtVars>>

ReminderTopic ==
    /\ topic = "reminders" /\ RemindersNext /\ FewReminders
    /\ UNCHANGED <<topic, choreVars, projectVars, timerVars, browserVars, mergeVars, askingVars, heldVars, broughtVars>>

BrowserTopic ==
    /\ topic = "browser" /\ BrowserNext /\ FewSignIns
    /\ UNCHANGED <<topic, choreVars, projectVars, timerVars, reminderVars, mergeVars, askingVars, heldVars, broughtVars>>

MergeTopic ==
    /\ topic = "merging" /\ MergeNext /\ FewEdits
    /\ UNCHANGED <<topic, choreVars, projectVars, timerVars, reminderVars, browserVars, askingVars, heldVars, broughtVars>>

AssistantTopic ==
    /\ topic = "assistant" /\ AssistantNext /\ FewProviders
    /\ UNCHANGED <<topic, houseVars, eveningVars, heldVars, broughtVars>>

EveningTopic ==
    /\ topic = "evening" /\ EveningNext
    /\ UNCHANGED <<topic, houseVars, assistantVars, heldVars, broughtVars>>

ListTopic ==
    /\ topic = "lists" /\ ListsNext /\ FewEntries
    /\ UNCHANGED <<topic, houseVars, askingVars, shelfVars, kitchenVars, nightlyVars, broughtVars>>

ShelfTopics ==
    /\ \/ topic = "shopping" /\ GroceriesNext /\ UNCHANGED <<jarVars, rowVars>>
       \/ topic = "jars" /\ JarsNext /\ FewIdeas /\ UNCHANGED <<groceryVars, rowVars>>
       \/ topic = "rows" /\ RowsNext /\ UNCHANGED <<groceryVars, jarVars>>
    /\ UNCHANGED <<topic, houseVars, askingVars, listVars, kitchenVars, nightlyVars, broughtVars>>

MealTopic ==
    /\ topic = "meals" /\ KitchenNext /\ FewMeals
    /\ UNCHANGED <<topic, houseVars, askingVars, listVars, shelfVars, nightlyVars, broughtVars>>

NightlyTopics ==
    /\ NightlyNext
    /\ (topic = "agenda" /\ FewTopics) \/ (topic = "nightly" /\ FewNights)
    /\ UNCHANGED <<topic, houseVars, askingVars, listVars, shelfVars, kitchenVars, broughtVars>>

ImportTopic ==
    /\ topic = "import" /\ ImportNext /\ FewImports
    /\ UNCHANGED <<topic, houseVars, askingVars, heldVars, databaseVars>>

CopyTopic ==
    /\ topic = "copies" /\ DatabaseNext
    /\ UNCHANGED <<topic, houseVars, askingVars, heldVars, importVars>>

DocumentNext ==
    \/ MergeTopic \/ ChoreTopics \/ ProjectTopic \/ TimerTopic \/ ReminderTopic \/ BrowserTopic
    \/ AssistantTopic \/ EveningTopic \/ ListTopic \/ ShelfTopics \/ MealTopic \/ NightlyTopics
    \/ ImportTopic \/ CopyTopic

DocumentSpec == DocumentInit /\ [][DocumentNext]_<<topic, houseVars, askingVars, heldVars, broughtVars>>

=============================================================================

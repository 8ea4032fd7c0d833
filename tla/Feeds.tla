-------------------------------- MODULE Feeds --------------------------------
(***************************************************************************)
(* Calendars that are read only: the server keeps a sealed copy of each    *)
(* (services/calendars.js), the document of the household their names.     *)
(*                                                                         *)
(* A row is either subscribed, with an address to read again, or imported  *)
(* from a file.  Every so often a pass of the maintenance takes the rows   *)
(* that are due, the oldest of them and no more than a batch, and reads    *)
(* one after the other (here in any order).  Nothing waits for a pass to   *)
(* end before the next begins: setInterval does not, and a batch of slow   *)
(* addresses outlasts a short interval.  Anybody may ask for one row to be *)
(* read now.  A client first tells the server and then changes the         *)
(* document, and may not live to do both.                                  *)
(***************************************************************************)
EXTENDS Integers, FiniteSets

CONSTANTS Feeds,      \* ids of rows
          Batch,      \* rows of a pass (25)
          Passes,     \* slots for passes of the maintenance under way
          Contents    \* bound: versions of what a calendar's address returns
ASSUME FeedsAssumption == Batch \in Nat \ {0} /\ Contents \in Nat \ {0} /\ IsFiniteSet(Feeds)
ASSUME PassesAssumption == "hand" \notin Passes

VARIABLES rows,         \* calendar_feeds: kind, and the text that was stored last
          syncedBefore, \* <<f, g>> : last_sync_at of row f is before that of row g
          due,          \* those not read for REFRESH_MINUTES, as the last pass found them
          listed,       \* the calendars of the document
          origin,       \* per row, what its address returns now
          reader,       \* the passes of the maintenance, and a refresh by hand
          errand,       \* what a client still has to do to the document
          missed        \* auxiliary: passes that ended, one begun after the other had,
                        \* since it was last read, and left it out though it was due
feedVars == <<rows, syncedBefore, due, listed, origin, reader, errand, missed>>

Readers == Passes \cup {"hand"}
NoFeedRow == [kind |-> "none", text |-> 0]
NoErrand == [do |-> "nothing"]
AtRest == [todo |-> {}, answer |-> {}, left |-> {}]

Kept(kind) == {f \in Feeds : rows[f].kind = kind}
Present == Feeds \ Kept("none")

\* Two rows were not read last at the same time.
ByAge(o, fs) ==
    /\ o \subseteq fs \X fs
    /\ \A f, g \in fs : f # g <=> <<f, g>> \in o \/ <<g, f>> \in o
    /\ \A f, g, h \in fs : <<f, g>> \in o /\ <<g, h>> \in o => <<f, h>> \in o

FeedsTypeOK ==
    /\ rows \in [Feeds -> [kind : {"none", "url", "file"}, text : 0..Contents]]
    /\ ByAge(syncedBefore, Present)
    /\ due \subseteq Present /\ listed \subseteq Feeds
    /\ origin \in [Feeds -> 1..Contents]
    /\ reader \in [Readers -> [todo : SUBSET Feeds, answer : SUBSET [feed : Feeds, text : 0..Contents],
                                left : SUBSET Feeds]]
    /\ errand = NoErrand \/ errand \in [do : {"list", "unlist"}, feed : Feeds]
    /\ missed \in [Feeds -> Nat]

\* A server that has calendars already, or none.
FeedsInit ==
    /\ listed \in {{}, Feeds} /\ due = {}
    /\ syncedBefore \in SUBSET (listed \X listed) /\ ByAge(syncedBefore, listed)
    /\ rows = [f \in Feeds |-> IF f \in listed THEN [kind |-> "url", text |-> 1] ELSE NoFeedRow]
    /\ origin = [f \in Feeds |-> 1]
    /\ reader = [r \in Readers |-> AtRest]
    /\ errand = NoErrand
    /\ missed = [f \in Feeds |-> 0]

-----------------------------------------------------------------------------
(* Adding and removing.                                                    *)

Without(f) == {pair \in syncedBefore : pair[1] # f /\ pair[2] # f}
Youngest(f) == Without(f) \cup ((Present \ {f}) \X {f})

\* The address is read once before it is stored; a file is stored as it is.
AddFeed(f, kind) ==
    /\ errand = NoErrand /\ rows[f].kind = "none" /\ f \notin listed
    /\ rows' = [rows EXCEPT ![f] = [kind |-> kind, text |-> origin[f]]]
    /\ syncedBefore' = Youngest(f)
    /\ missed' = [missed EXCEPT ![f] = 0]
    /\ errand' = [do |-> "list", feed |-> f]
    /\ UNCHANGED <<due, listed, origin, reader>>

\* Gone, or read just now: no pass under way counts as one that left it out.
CountsNot(f) == [r \in Readers |-> [reader[r] EXCEPT !.left = @ \ {f}]]

\* The answer to a row that is not there is 404, and the client stops at it.
RemoveFeed(f) ==
    /\ errand = NoErrand /\ f \in listed /\ rows[f].kind # "none"
    /\ rows' = [rows EXCEPT ![f] = NoFeedRow]
    /\ syncedBefore' = Without(f)
    /\ due' = due \ {f}
    /\ reader' = CountsNot(f)
    /\ errand' = [do |-> "unlist", feed |-> f]
    /\ UNCHANGED <<listed, origin, missed>>

WriteDocument ==
    /\ errand # NoErrand
    /\ listed' = IF errand.do = "list" THEN listed \cup {errand.feed} ELSE listed \ {errand.feed}
    /\ errand' = NoErrand
    /\ UNCHANGED <<rows, syncedBefore, due, origin, reader, missed>>

\* The answer is lost, or the tab is closed before the document is changed.
DropErrand ==
    /\ errand # NoErrand /\ errand' = NoErrand
    /\ UNCHANGED <<rows, syncedBefore, due, listed, origin, reader, missed>>

-----------------------------------------------------------------------------
(* Reading again.                                                          *)

\* A mutant of the next: the newest first.
Younger(fs, f) == {g \in fs : <<f, g>> \in syncedBefore}

\* ORDER BY last_sync_at: imported files keep the age they came with.
Ahead(fs, f) == {g \in fs : <<g, f>> \in syncedBefore}

TakeBatch(fs) == {f \in fs : Cardinality(Ahead(fs, f)) < Batch}

\* A batch of imported files is ahead of it: they are never stamped, and stay there.
Buried(f) == Cardinality(Ahead(Kept("file"), f)) >= Batch

\* Those a pass under way counts for already.
Counted == UNION {reader[r].left : r \in Readers}

\* What was due before the last pass and not read since still is, and whatever is older.
StartPass(p) ==
    /\ reader[p].todo = {}
    /\ \E old \in SUBSET Present :
         LET todo == TakeBatch(old)
             left == {f \in (old \cap Kept("url")) \ (todo \cup Counted) : ~Buried(f)}
         IN  /\ due \subseteq old /\ \A f \in old : Ahead(Present, f) \subseteq old
             /\ due' = old
             /\ reader' = [reader EXCEPT ![p] = [todo |-> todo, answer |-> {}, left |-> left]]
    /\ UNCHANGED <<rows, syncedBefore, listed, origin, errand, missed>>

RefreshByHand(f) ==
    /\ reader["hand"] = AtRest /\ f \in listed /\ rows[f].kind # "none"
    /\ reader' = [reader EXCEPT !["hand"].todo = {f}]
    /\ UNCHANGED <<rows, syncedBefore, due, listed, origin, errand, missed>>

\* A reader goes on to its next row; the pass that has none has ended, and counts.
Onward(q, f) ==
    [todo |-> q.todo \ {f}, answer |-> {}, left |-> IF q.todo \subseteq {f} THEN {} ELSE q.left]
Tally(q, f) ==
    LET over == IF q.todo \subseteq {f} THEN q.left ELSE {}
    IN  [g \in Feeds |-> IF g \in over THEN missed[g] + 1 ELSE missed[g]]

\* The row is looked up; one without an address is left as it is.
SkipRow(r) ==
    /\ reader[r].answer = {}
    /\ \E f \in reader[r].todo :
          /\ rows[f].kind # "url"
          /\ reader' = [reader EXCEPT ![r] = Onward(@, f)]
          /\ missed' = Tally(reader[r], f)
    /\ UNCHANGED <<rows, syncedBefore, due, listed, origin, errand>>

\* The address answers with what it has now, or with nothing (text 0).
FetchFeed(r) ==
    /\ reader[r].answer = {}
    /\ \E f \in reader[r].todo :
          /\ rows[f].kind = "url"
          /\ \E text \in {0, origin[f]} : reader' = [reader EXCEPT ![r].answer = {[feed |-> f, text |-> text]}]
    /\ UNCHANGED <<rows, syncedBefore, due, listed, origin, errand, missed>>

\* A failure is stamped as well; a row removed meanwhile is not updated.
StoreFeed(r) ==
    /\ \E read \in reader[r].answer :
         LET f == read.feed
             there == f \in Present
         IN  /\ rows' = IF there /\ read.text # 0 THEN [rows EXCEPT ![f].text = read.text] ELSE rows
             /\ syncedBefore' = IF there THEN Youngest(f) ELSE syncedBefore
             /\ due' = due \ {f}
             /\ reader' = [CountsNot(f) EXCEPT ![r] = Onward(@, f)]
             /\ missed' = [Tally(reader[r], f) EXCEPT ![f] = 0]
    /\ UNCHANGED <<listed, origin, errand>>

\* A statement fails, or the server stops, which does this to every reader: what was
\* cut short counts for nothing.
ReaderFails(r) ==
    /\ reader[r] # AtRest
    /\ reader' = [reader EXCEPT ![r] = AtRest]
    /\ UNCHANGED <<rows, syncedBefore, due, listed, origin, errand, missed>>

CalendarChanges(f) ==
    /\ rows[f].kind = "url" /\ origin[f] < Contents
    /\ origin' = [origin EXCEPT ![f] = @ + 1]
    /\ UNCHANGED <<rows, syncedBefore, due, listed, reader, errand, missed>>

FeedsNext ==
    \/ \E f \in Feeds :
          \/ AddFeed(f, "url") \/ AddFeed(f, "file") \/ RemoveFeed(f)
          \/ RefreshByHand(f) \/ CalendarChanges(f)
    \/ WriteDocument \/ DropErrand
    \/ \E p \in Passes : StartPass(p)
    \/ \E r \in Readers : SkipRow(r) \/ FetchFeed(r) \/ StoreFeed(r) \/ ReaderFails(r)

\* However many calendars there are, however many passes overlap, break off or are
\* slow, and whoever refreshes some of them by hand, a subscribed one comes up in its
\* turn: of passes that ran to their end, one begun after the other had ended, fewer than
\* there are rows leave it out though it is due.  Except while a batch of imported files
\* is ahead of it: then it is left out for good, though refreshDueFeeds is said to skip
\* them (calendars.js:33).
NobodyIsPassedOver == \A f \in Feeds : rows[f].kind = "url" => missed[f] < Cardinality(Feeds)

=============================================================================

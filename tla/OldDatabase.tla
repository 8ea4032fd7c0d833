----------------------------- MODULE OldDatabase ------------------------------
(***************************************************************************)
(* Reading the database of the old HouseHub from a copy of its two files:  *)
(* web/src/lib/sqlite.js (replayWal, page) and readLegacyDatabase of       *)
(* web/src/lib/legacy-import.js.  The old server and its SQLite are not in *)
(* this repository; they write frames to the log, take a transaction back, *)
(* move pages to the main file and begin the log again, and the copy is    *)
(* taken while they do.  What a page says is the number of the write.      *)
(***************************************************************************)
EXTENDS Naturals, Sequences

CONSTANTS TablePages,   \* the pages of the database
          MaxWrites     \* bound: how many frames are written
ASSUME OldDatabaseAssumption == MaxWrites \in Nat

VARIABLES
    main,      \* househub.db: what each page says
    log,       \* househub.db-wal: its frames, those of an earlier generation at the end
    salt,      \* the generation in its header
    end, mx,   \* the frames written since, and how many of them are committed
    written,   \* how many frames were ever written
    copy,      \* what reading a copy gave
    working, stored,    \* auxiliary: the pages as the open transaction, and the last commit, have them
    filled              \* auxiliary: the last frame the main file was brought up to

databaseVars == <<main, log, salt, end, mx, written, copy, working, stored, filled>>

PageContents == [TablePages -> 0..MaxWrites]
\* after: the frame that the checksum continues; leaves (auxiliary): the pages with it.
Frames == [page : TablePages, no : 1..MaxWrites, salt : Nat, after : 0..MaxWrites,
           commit : BOOLEAN, leaves : PageContents]
\* whole and upTo (auxiliary): whether both files came intact, and the frame read up to.
Readings == [read : BOOLEAN, pages : PageContents, missingWal : BOOLEAN, whole : BOOLEAN, upTo : Nat]

DatabaseTypeOK ==
    /\ main \in PageContents /\ working \in PageContents /\ stored \in PageContents
    /\ log \in Seq(Frames) /\ salt \in Nat /\ written \in 0..MaxWrites
    /\ end \in 0..Len(log) /\ mx \in 0..end /\ filled \in 0..mx
    /\ copy \in Readings

AtFirst == [p \in TablePages |-> 0]

DatabaseInit ==
    /\ main = AtFirst /\ working = main /\ stored = main
    /\ log = <<>> /\ salt = 0 /\ end = 0 /\ mx = 0 /\ written = 0 /\ filled = 0
    /\ copy = [read |-> FALSE, pages |-> main, missingWal |-> FALSE, whole |-> FALSE, upTo |-> 0]

-----------------------------------------------------------------------------
(* Reading.                                                                *)

\* The frames up to the i-th are of this generation, arrived, and each continues the
\* checksum of the one before, the first that of the header.
Chained(arrived, i) ==
    \A j \in 1..i : /\ j \in arrived /\ log[j].salt = salt
                    /\ log[j].after = IF j = 1 THEN 0 ELSE log[j - 1].no

\* Mutant: the last whole frame counts, whether or not its transaction was committed.
ReplayEverything(arrived) ==
    CHOOSE i \in 0..Len(log) :
        /\ Chained(arrived, i)
        /\ \A j \in (i + 1)..Len(log) : ~Chained(arrived, j)

\* replayWal: up to the last commit that can be trusted.
ReplayWal(arrived) ==
    CHOOSE i \in 0..Len(log) :
        /\ i = 0 \/ (log[i].commit /\ Chained(arrived, i))
        /\ \A j \in (i + 1)..Len(log) : ~(log[j].commit /\ Chained(arrived, j))

\* page: "The log wins where it has one", the latest.
Latest(frames, p, upTo) == {j \in 1..upTo : frames[j].page = p /\ \A k \in (j + 1)..upTo : frames[k].page # p}
Page(file, frames, p, upTo) ==
    LET latest == Latest(frames, p, upTo)
    IN  IF latest = {} THEN file[p] ELSE frames[CHOOSE j \in latest : TRUE].no

\* Rows, tables and what overflows are all read through it (#payload, #walk, rows).
PagesIn(file, frames, upTo) == [p \in TablePages |-> Page(file, frames, p, upTo)]
PagesAt(upTo) == PagesIn(main, log, upTo)

\* The main file alone, or with its log, of which some frames arrived.
OpenDatabase ==
    /\ ~copy.read
    /\ \E arrived \in SUBSET (1..Len(log)) :
          LET upTo == ReplayWal(arrived)
          IN  copy' = [read |-> TRUE, pages |-> PagesAt(upTo), missingWal |-> upTo = 0,
                       whole |-> 1..mx \subseteq arrived, upTo |-> upTo]
    /\ UNCHANGED <<main, log, salt, end, mx, written, working, stored, filled>>

-----------------------------------------------------------------------------
(* The old server.                                                         *)

WriteFrame(p, commit) ==
    /\ ~copy.read /\ written < MaxWrites /\ written' = written + 1
    /\ working' = [working EXCEPT ![p] = written']
    /\ LET frame == [page |-> p, no |-> written', salt |-> salt,
                     after |-> IF end = 0 THEN 0 ELSE log[end].no,
                     commit |-> commit, leaves |-> working']
       IN  log' = IF end < Len(log) THEN [log EXCEPT ![end + 1] = frame] ELSE Append(log, frame)
    /\ end' = end + 1
    /\ IF commit THEN mx' = end' /\ stored' = working' ELSE UNCHANGED <<mx, stored>>
    /\ UNCHANGED <<main, salt, copy, filled>>

\* A transaction is taken back; its frames stay until they are written over.
RollBack ==
    /\ ~copy.read /\ mx < end
    /\ end' = mx /\ working' = stored
    /\ UNCHANGED <<main, log, salt, mx, written, copy, stored, filled>>

\* A checkpoint brings one page after the other up to the last commit.
Backfill(p) ==
    /\ ~copy.read /\ mx > 0
    /\ main' = [main EXCEPT ![p] = Page(main, log, p, mx)] /\ filled' = mx
    /\ UNCHANGED <<log, salt, end, mx, written, copy, working, stored>>

\* The log begins again once the main file has everything.
RestartLog ==
    /\ ~copy.read /\ mx > 0 /\ end = mx /\ main = stored
    /\ salt' = salt + 1 /\ end' = 0 /\ mx' = 0 /\ filled' = 0
    /\ UNCHANGED <<main, log, written, copy, working, stored>>

DatabaseNext ==
    \/ OpenDatabase \/ RollBack \/ RestartLog
    \/ \E p \in TablePages : Backfill(p) \/ \E commit \in BOOLEAN : WriteFrame(p, commit)

DatabaseSpec == DatabaseInit /\ [][DatabaseNext]_databaseVars

-----------------------------------------------------------------------------
(* Properties.                                                             *)

\* A database "copied while its server was still running" (sqlite.js:228-229) is read as
\* the old household was: with every committed frame of the log, up to the last commit
\* ("changes made right up to the moment the file was copied are included",
\* legacy-import.js:195-196); with a log that was cut or damaged, as some commit left it, as
\* long as the main file had not been brought beyond it.
CopiesReadWhole ==
    copy.read =>
        /\ copy.whole => copy.pages = stored
        /\ copy.upTo > 0 /\ copy.upTo >= filled => copy.pages = log[copy.upTo].leaves

=============================================================================

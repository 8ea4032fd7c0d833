------------------------------- MODULE Startup -------------------------------
(***************************************************************************)
(* Servers that start on one database, each with the migrations of its     *)
(* build: the ledger is made sure of, an advisory lock is taken, what the  *)
(* ledger lacks is applied in a transaction each, and only then does the   *)
(* server listen (db/migrate.js, index.js).  A server may be killed        *)
(* between any two steps; the lock goes with its connection.               *)
(***************************************************************************)
EXTENDS Integers, Sequences, FiniteSets

CONSTANTS Servers, Versions,   \* the processes; the names of the migrations, in their order
          Builds               \* what a build ships: for a version its checksum, 0 for none
NoServer == "none"
ASSUME StartupAssumption ==
    Versions \subseteq Nat \ {0} /\ Builds \subseteq [Versions -> Nat] /\ NoServer \notin Servers

VARIABLES hasLedger,   \* the table schema_migrations is there
          ledger,      \* its rows: the recorded checksum of a version, 0 for none
          schema,      \* the migrations whose SQL has taken effect, likewise
          lock,        \* who holds the advisory lock
          server       \* per process: where it is, its build, what it read, what it applies
startupVars == <<hasLedger, ledger, schema, lock, server>>

Blank == [v \in Versions |-> 0]
Checksums == {b[v] : b \in Builds, v \in Versions} \cup {0}
Off == [at |-> "off", build |-> Blank, applied |-> Blank, open |-> 0]

StartupTypeOK ==
    /\ hasLedger \in BOOLEAN /\ ledger \in [Versions -> Checksums] /\ schema \in [Versions -> Checksums]
    /\ lock \in Servers \cup {NoServer}
    /\ server \in [Servers -> [at : {"off", "booting", "queueing", "reading", "applying", "up", "closing"},
                               build : Builds \cup {Blank}, applied : [Versions -> Checksums],
                               open : Versions \cup {0}]]

StartupInit ==
    /\ hasLedger = FALSE /\ ledger = Blank /\ schema = Blank
    /\ lock = NoServer /\ server = [s \in Servers |-> Off]

-----------------------------------------------------------------------------

Shipped(s) == {v \in Versions : server[s].build[v] # 0}
Unlocked(s) == IF lock = s THEN NoServer ELSE lock

\* The process ends: an error at the start, or killed.  An open transaction is rolled back.
Stops(s) == lock' = Unlocked(s) /\ server' = [server EXCEPT ![s] = Off]

Boot(s, build) ==
    /\ server[s].at = "off"
    /\ server' = [server EXCEPT ![s] = [Off EXCEPT !.at = "booting", !.build = build]]
    /\ UNCHANGED <<hasLedger, ledger, schema, lock>>

\* Before the lock: of two that create the table at once one may get an error, which
\* ends it as a kill does.
EnsureLedger(s) ==
    /\ server[s].at = "booting" /\ hasLedger' = TRUE
    /\ server' = [server EXCEPT ![s].at = "queueing"]
    /\ UNCHANGED <<ledger, schema, lock>>

\* The lock is waited for, but no longer than a statement may take.
TakeLock(s) ==
    /\ server[s].at = "queueing"
    /\ \/ lock = NoServer /\ lock' = s /\ server' = [server EXCEPT ![s].at = "reading"]
       \/ lock # NoServer /\ Stops(s)
    /\ UNCHANGED <<hasLedger, ledger, schema>>

ReadLedger(s) ==
    /\ server[s].at = "reading"
    /\ server' = [server EXCEPT ![s].at = "applying", ![s].applied = ledger]
    /\ UNCHANGED <<hasLedger, ledger, schema, lock>>

\* The files are walked in order: the first that is not recorded as it is on disk.
\* A mutant of the next: a file that was edited afterwards passes for applied.
NameIsEnough(s, v) == server[s].applied[v] # 0
AppliedAsShipped(s, v) == server[s].applied[v] = server[s].build[v]
Pending(s) == {v \in Shipped(s) : ~AppliedAsShipped(s, v)}
First(vs) == CHOOSE v \in vs : \A u \in vs : v <= u

BeginMigration(s) ==
    /\ server[s].at = "applying" /\ server[s].open = 0 /\ Pending(s) # {}
    /\ server[s].applied[First(Pending(s))] = 0
    /\ server' = [server EXCEPT ![s].open = First(Pending(s))]
    /\ UNCHANGED <<hasLedger, ledger, schema, lock>>

\* Recorded, but with another checksum: the server does not start.
RefuseEdited(s) ==
    /\ server[s].at = "applying" /\ server[s].open = 0 /\ Pending(s) # {}
    /\ server[s].applied[First(Pending(s))] # 0
    /\ Stops(s)
    /\ UNCHANGED <<hasLedger, ledger, schema>>

\* The SQL and its row are committed together, or the SQL fails and the server stops.
Migrate(s) ==
    /\ server[s].open # 0
    /\ LET v == server[s].open
           sum == server[s].build[v]
       IN  \/ /\ ledger[v] = 0
              /\ schema' = [schema EXCEPT ![v] = sum] /\ ledger' = [ledger EXCEPT ![v] = sum]
              /\ server' = [server EXCEPT ![s].open = 0, ![s].applied[v] = sum]
              /\ UNCHANGED lock
           \/ Stops(s) /\ UNCHANGED <<ledger, schema>>
    /\ UNCHANGED hasLedger

Listen(s) ==
    /\ server[s].at = "applying" /\ server[s].open = 0 /\ Pending(s) = {}
    /\ lock' = Unlocked(s) /\ server' = [server EXCEPT ![s].at = "up"]
    /\ UNCHANGED <<hasLedger, ledger, schema>>

\* A signal: requests under way are finished, for 15 seconds at most.
Shutdown(s) ==
    /\ server[s].at = "up" /\ server' = [server EXCEPT ![s].at = "closing"]
    /\ UNCHANGED <<hasLedger, ledger, schema, lock>>

Exit(s) ==
    /\ server[s].at = "closing" /\ Stops(s)
    /\ UNCHANGED <<hasLedger, ledger, schema>>

Crash(s) ==
    /\ server[s].at # "off" /\ Stops(s)
    /\ UNCHANGED <<hasLedger, ledger, schema>>

StartupNext ==
    \E s \in Servers :
       \/ EnsureLedger(s) \/ TakeLock(s) \/ ReadLedger(s) \/ BeginMigration(s) \/ RefuseEdited(s)
       \/ Migrate(s) \/ Listen(s) \/ Shutdown(s) \/ Exit(s) \/ Crash(s)
       \/ \E build \in Builds : Boot(s, build)

\* A server that answers requests runs on a schema that every migration of its own build
\* has made, as that build has it on disk, however many servers started beside it, were
\* killed half-way or came from another build (migrate.js:3-7).
UpMeansMigrated ==
    \A s \in Servers :
       server[s].at \in {"up", "closing"} => \A v \in Shipped(s) : schema[v] = server[s].build[v]

=============================================================================

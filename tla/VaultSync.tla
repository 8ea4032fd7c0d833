------------------------------ MODULE VaultSync ------------------------------
(***************************************************************************)
(* The household's devices and the vault routes together.                  *)
(*   web/src/lib/session.js  loadVault, saveVault: seal, open, version     *)
(*   web/src/api.js          loadState, saveState, mergeDocuments          *)
(*   web/src/App.jsx         the sync loop: update, flush, saveNow, poll,  *)
(*                           syncCalendars, pagehide                       *)
(*   server/...              VaultServer, through INSTANCE                 *)
(*                                                                         *)
(* Every `await` of the client is a point where its other callbacks and    *)
(* the other devices run, so loadVault, saveVault and a poll are each      *)
(* several actions.  A document is the set of its rows (the items of its   *)
(* lists); sealing binds the key and a version into the ciphertext.        *)
(***************************************************************************)
EXTENDS Naturals, Sequences, FiniteSets

CONSTANTS
    Clients,               \* signed-in browsers and wall displays
    Displays,              \* those that are wall displays
    SaveJobs,              \* saves one client may have in flight at once
    Rotator,               \* the admin's client that rotates the key
    Rows,                  \* ids a new item may be given
    None,                  \* no ciphertext
    VAULT_REVISIONS_KEPT,
    MaxVersion, MaxEpoch,  \* as in VaultServer
    Scenarios              \* bound: what a behaviour may be made of, see limits

\* Deleting a row; importing a file; hiding the page; adding or refreshing a
\* calendar; reloading; a request that fails or whose answer is lost.
Uncommon == {"delete", "import", "hide", "sync", "reload", "fault"}

ASSUME ScenarioAssumption ==
    Scenarios \subseteq [rare : SUBSET Uncommon, left : Nat, rows : Nat,
                         jobs : SUBSET SaveJobs, pollers : SUBSET Clients, rotates : BOOLEAN]

VARIABLES
    householdEpoch, document, revisions, history, req,  \* the server's
    session,   \* session.js: the household key held and state.version
    app,       \* App.jsx: data, latest.current, dirty.current, saveTimer
    load,      \* the loadState in progress
    save,      \* the saveVault calls in progress
    rotation,  \* the rotation in progress
    created,   \* rows ever added (uid() never repeats one)
    deleted,   \* rows somebody deleted
    limits     \* the scenario: which uncommon things may happen and how many more
               \* of them, rows to add, save slots, who polls, whether a key rotates

serverVars == <<householdEpoch, document, revisions, history, req>>
clientVars == <<session, app, load, save>>
userVars == <<created, deleted>>
vars == <<serverVars, clientVars, rotation, userVars, limits>>

\* sealDocument: the key and the version are authenticated with the rows.
Seal(key, version, rows) == [key |-> key, version |-> version, rows |-> rows]
Sealed == [key : 1 .. MaxEpoch + 1, version : 1 .. MaxVersion + 1, rows : SUBSET Rows]

\* openDocument: fails unless both are the ones it was sealed with.
Opens(ciphertext, key, version) ==
    ciphertext.key = key /\ ciphertext.version = version

ASSUME SlotAssumption ==
    Displays \subseteq Clients /\ "load" \notin SaveJobs /\ "rotate" \notin SaveJobs
ASSUME NumberAssumption ==
    MaxVersion \in Nat \ {0} /\ MaxEpoch \in Nat \ {0} /\ VAULT_REVISIONS_KEPT \in Nat
ASSUME NoneAssumption == None \notin Sealed

Slots ==
    (Clients \X (SaveJobs \cup {"load"})) \cup {<<Rotator, "rotate">>}
RotateSlot == <<Rotator, "rotate">>

Server == INSTANCE VaultServer
    WITH Requests <- Slots,
         DisplayRequests <- Displays \X (SaveJobs \cup {"load"}),
         Ciphertexts <- Sealed,
         Founding <- Seal(1, 1, {})

\* A document in memory.  basis is auxiliary: the stored version that this
\* content took in, whatever version the session believes it is at.
Doc(rows, basis) == [rows |-> rows, basis |-> basis]
NoDoc == Doc({}, 0)
IsLoaded(doc) == doc.basis > 0

IdleLoad == [phase |-> "idle", cause |-> "none", doc |-> NoDoc]
\* onScreen is auxiliary too: what is on screen was edited from this document.
IdleSave == [phase |-> "idle", doc |-> NoDoc, key |-> 0, next |-> 0, onScreen |-> FALSE]

Closed == [data |-> NoDoc, latest |-> NoDoc, dirty |-> FALSE, timer |-> FALSE]

TypeOK ==
    /\ Server!TypeOK
    /\ session \in [Clients -> [key : Nat, version : Nat]]
    /\ LET Docs == [rows : SUBSET Rows, basis : Nat] IN
       /\ app \in [Clients -> [data : Docs, latest : Docs,
                               dirty : BOOLEAN, timer : BOOLEAN]]
       /\ load \in [Clients -> [phase : {"idle", "waiting", "opened"},
                                cause : {"none", "initial", "poll", "calendars"},
                                doc : Docs]]
       /\ save \in [Clients \X SaveJobs ->
                      [phase : {"idle", "sealing", "waiting"},
                       doc : Docs, key : Nat, next : Nat, onScreen : BOOLEAN]]
       /\ rotation \in [phase : {"idle", "reading", "sealing", "waiting"}, doc : Docs]
    /\ created \subseteq Rows /\ deleted \subseteq created
    /\ limits \in [rare : SUBSET Uncommon, left : Nat, rows : Nat,
                   jobs : SUBSET SaveJobs, pollers : SUBSET Clients, rotates : BOOLEAN]

Init ==
    /\ Server!Init
    /\ session = [c \in Clients |-> [key |-> 1, version |-> 1]]
    /\ app = [c \in Clients |-> [Closed EXCEPT !.data = Doc({}, 1)]]
    /\ load = [c \in Clients |-> IdleLoad]
    /\ save = [s \in Clients \X SaveJobs |-> IdleSave]
    /\ rotation = [phase |-> "idle", doc |-> NoDoc]
    /\ created = {} /\ deleted = {}
    /\ limits \in Scenarios

\* One more of the things that are bounded.
Spend(x) == x \in limits.rare /\ limits.left > 0 /\ limits' = [limits EXCEPT !.left = @ - 1]
NewRows == {r \in Rows \ created : Cardinality(created) < limits.rows}

-----------------------------------------------------------------------------
(* Editing: update() in App.jsx.                                           *)

\* setData's updater: the new document is also what the next save will send.
Edited(c, rows) ==
    LET next == [app[c].data EXCEPT !.rows = rows]
    IN  [data |-> next, latest |-> next, dirty |-> TRUE, timer |-> TRUE]

AddRow(c) ==
    /\ IsLoaded(app[c].data)
    /\ \E r \in NewRows :
           /\ app' = [app EXCEPT ![c] = Edited(c, @.data.rows \cup {r})]
           /\ created' = created \cup {r}
    /\ UNCHANGED <<serverVars, session, load, save, rotation, deleted, limits>>

DeleteRow(c) ==
    /\ IsLoaded(app[c].data)
    /\ Spend("delete")
    /\ \E r \in app[c].data.rows :
           /\ app' = [app EXCEPT ![c] = Edited(c, @.data.rows \ {r})]
           /\ deleted' = deleted \cup {r}
    /\ UNCHANGED <<serverVars, session, load, save, rotation, created>>

-----------------------------------------------------------------------------
(* Saving: flush and saveNow in App.jsx, saveVault in session.js.          *)

SaveSlotFree(c, j) ==
    j \in limits.jobs /\ save[<<c, j>>].phase = "idle" /\ req[<<c, j>>].phase = "free"

\* saveVault up to its first await: the version to seal for is settled here.
Sealing(c, doc, onScreen) ==
    [phase |-> "sealing", doc |-> doc, key |-> session[c].key,
     next |-> session[c].version + 1, onScreen |-> onScreen]

Flush(c, j) ==
    /\ SaveSlotFree(c, j)
    /\ IsLoaded(app[c].latest)
    /\ save' = [save EXCEPT ![<<c, j>>] = Sealing(c, app[c].latest, app[c].latest = app[c].data)]
    /\ UNCHANGED <<serverVars, session, load, rotation, userVars>>

\* The debounce timer of update() fires.
TimerFires(c, j) ==
    /\ app[c].timer
    /\ app' = [app EXCEPT ![c].timer = FALSE]
    /\ UNCHANGED limits
    /\ Flush(c, j)

\* pagehide or visibilitychange: flush at once; the timer is left running.
PageHides(c, j) ==
    /\ app[c].dirty
    /\ Spend("hide")
    /\ UNCHANGED app
    /\ Flush(c, j)

\* ImportPanel: update() and then saveNow() with the same document.  React runs
\* the updater before or after saveNow clears the timer.
SaveNow(c, j) ==
    /\ IsLoaded(app[c].data)
    /\ Spend("import")
    /\ SaveSlotFree(c, j)
    /\ \E r \in NewRows, timer \in BOOLEAN :
          LET edited == Edited(c, app[c].data.rows \cup {r})
          IN  /\ app' = [app EXCEPT ![c] = [edited EXCEPT !.timer = timer]]
              /\ save' = [save EXCEPT ![<<c, j>>] = Sealing(c, edited.latest, TRUE)]
              /\ created' = created \cup {r}
    /\ UNCHANGED <<serverVars, session, load, rotation, deleted>>

\* The seal is done: the request names the version the session is at by now.
SendPut(c, j) ==
    LET s == save[<<c, j>>] IN
    /\ s.phase = "sealing"
    /\ Server!Issue(<<c, j>>, "put", session[c].version,
                    Seal(s.key, s.next, s.doc.rows))
    /\ save' = [save EXCEPT ![<<c, j>>].phase = "waiting"]
    /\ UNCHANGED <<session, app, load, rotation, userVars, limits>>

\* A document stored as the successor of the one it was derived from is the
\* basis of what is on screen too.
Rebase(doc, from, to) == IF doc.basis = from THEN [doc EXCEPT !.basis = to] ELSE doc

PutAccepted(c, j) ==
    LET r == req[<<c, j>>]
        s == save[<<c, j>>]
        at == s.doc.basis
        to == IF s.onScreen /\ at + 1 = r.version THEN r.version ELSE at
    IN
    /\ s.phase = "waiting" /\ Server!Answered(<<c, j>>, "ok")
    /\ session' = [session EXCEPT ![c].version = r.version]
    /\ app' = [app EXCEPT ![c].dirty = FALSE,
                          ![c].data = Rebase(@, at, to),
                          ![c].latest = Rebase(@, at, to)]
    /\ save' = [save EXCEPT ![<<c, j>>] = IdleSave]
    /\ Server!Collect(<<c, j>>)
    /\ UNCHANGED <<load, rotation, userVars, limits>>

\* Mutant: the version of the document that won is not taken over.
StaleVersion(c, theirs) == session[c].version

\* mergeDocuments, for the lists: every row either side has.
MergeDocuments(mine, theirs) == mine \cup theirs

\* state.version = current.version
VersionAfterConflict(c, theirs) == theirs

\* "Someone else saved first": open theirs, move to its version, merge, again.
PutConflicted(c, j) ==
    LET r == req[<<c, j>>]
        merged == Doc(MergeDocuments(save[<<c, j>>].doc.rows, r.answer.rows), r.version)
    IN
    /\ save[<<c, j>>].phase = "waiting" /\ Server!Answered(<<c, j>>, "version_conflict")
    /\ Opens(r.answer, session[c].key, r.version)
    /\ session' = [session EXCEPT ![c].version = VersionAfterConflict(c, r.version)]
    /\ save' = [save EXCEPT ![<<c, j>>] =
                   [phase |-> "sealing", doc |-> merged, key |-> session[c].key,
                    next |-> session'[c].version + 1, onScreen |-> FALSE]]
    /\ Server!Collect(<<c, j>>)
    /\ UNCHANGED <<app, load, rotation, userVars, limits>>

\* flush reports "error" and leaves the document dirty; nothing retries it.
PutFailed(c, j) ==
    LET r == req[<<c, j>>] IN
    /\ save[<<c, j>>].phase = "waiting" /\ r.phase = "answered"
    /\ \/ r.code \in {"epoch_changed", "error"}
       \/ r.code = "version_conflict" /\ ~Opens(r.answer, session[c].key, r.version)
    /\ save' = [save EXCEPT ![<<c, j>>] = IdleSave]
    /\ Server!Collect(<<c, j>>)
    /\ UNCHANGED <<session, app, load, rotation, userVars, limits>>

-----------------------------------------------------------------------------
(* Loading: the initial load, the 15 second poll, syncCalendars.           *)

StartLoad(c, cause) ==
    /\ load[c].phase = "idle"
    /\ load' = [load EXCEPT ![c] = [IdleLoad EXCEPT !.phase = "waiting", !.cause = cause]]
    /\ Server!Issue(<<c, "load">>, "get", 0, None)

Poll(c) ==
    /\ c \in limits.pollers
    /\ ~app[c].dirty
    /\ StartLoad(c, "poll")
    /\ UNCHANGED <<session, app, save, rotation, userVars, limits>>

SyncCalendars(c) ==
    /\ IsLoaded(app[c].data)
    /\ Spend("sync")
    /\ StartLoad(c, "calendars")
    /\ UNCHANGED <<session, app, save, rotation, userVars>>

\* loadVault takes over the version before it tries to open the document.
LoadAnswered(c) ==
    LET r == req[<<c, "load">>] IN
    /\ load[c].phase = "waiting" /\ Server!Answered(<<c, "load">>, "ok")
    /\ session' = [session EXCEPT ![c].version = r.version]
    /\ load' = [load EXCEPT ![c] =
                   IF Opens(r.answer, session[c].key, r.version)
                   THEN [@ EXCEPT !.phase = "opened", !.doc = Doc(r.answer.rows, r.version)]
                   ELSE IdleLoad]
    /\ Server!Collect(<<c, "load">>)
    /\ UNCHANGED <<app, save, rotation, userVars, limits>>

LoadFailed(c) ==
    /\ load[c].phase = "waiting"
    /\ req[<<c, "load">>].phase = "answered" /\ req[<<c, "load">>].code # "ok"
    /\ load' = [load EXCEPT ![c] = IdleLoad]
    /\ Server!Collect(<<c, "load">>)
    /\ UNCHANGED <<session, app, save, rotation, userVars, limits>>

\* Mutant: a poll that never reaches the screen.
PollsDropped(c) == load[c].cause # "initial"

\* A poll is dropped if an edit landed meanwhile; syncCalendars takes only the
\* calendar list, unless there is no document yet.
LeavesDocument(c) ==
    \/ load[c].cause = "poll" /\ app[c].dirty
    \/ load[c].cause = "calendars" /\ IsLoaded(app[c].data)

\* The feeds and the calendar events have come in as well: Promise.all is done.
ApplyLoad(c) ==
    /\ load[c].phase = "opened"
    /\ IF LeavesDocument(c)
       THEN UNCHANGED <<app, save>>
       ELSE /\ app' = [app EXCEPT ![c].data = load[c].doc]
            /\ save' = [s \in Clients \X SaveJobs |->
                          IF s[1] = c THEN [save[s] EXCEPT !.onScreen = FALSE] ELSE save[s]]
    /\ load' = [load EXCEPT ![c] = IdleLoad]
    /\ UNCHANGED <<serverVars, session, rotation, userVars, limits>>

-----------------------------------------------------------------------------
(* Reloading the page, and answers nobody waits for any more.              *)

\* Everything in memory goes; openHousehold unwraps the current key and the
\* initial load begins.
Reload(c) ==
    /\ Spend("reload")
    /\ session' = [session EXCEPT ![c] = [key |-> householdEpoch, version |-> 0]]
    /\ app' = [app EXCEPT ![c] = Closed]
    /\ save' = [s \in Clients \X SaveJobs |-> IF s[1] = c THEN IdleSave ELSE save[s]]
    /\ load' = [load EXCEPT ![c] = [IdleLoad EXCEPT !.phase = "waiting", !.cause = "initial"]]
    /\ Server!Issue(<<c, "load">>, "get", 0, None)
    /\ UNCHANGED <<rotation, userVars>>

Abandoned(c, j) ==
    /\ save[<<c, j>>].phase = "idle"
    /\ Server!Collect(<<c, j>>)
    /\ UNCHANGED <<clientVars, rotation, userVars, limits>>

-----------------------------------------------------------------------------
(* Rotation.  No screen of the web client offers it: this is the sequence  *)
(* of calls of server/test/e2e.test.js and journeys.test.js.               *)

RotationReads ==
    /\ rotation.phase = "idle" /\ limits.rotates
    /\ Server!Issue(RotateSlot, "get", 0, None)
    /\ rotation' = [rotation EXCEPT !.phase = "reading"]
    /\ householdEpoch < MaxEpoch
    /\ UNCHANGED <<clientVars, userVars, limits>>

RotationSeals ==
    LET r == req[RotateSlot] IN
    /\ rotation.phase = "reading" /\ r.phase = "answered"
    /\ rotation' = IF r.code = "ok" /\ Opens(r.answer, householdEpoch, r.version)
                   THEN [phase |-> "sealing", doc |-> Doc(r.answer.rows, r.version)]
                   ELSE [phase |-> "idle", doc |-> NoDoc]
    /\ Server!Collect(RotateSlot)
    /\ UNCHANGED <<clientVars, userVars, limits>>

RotationSends ==
    LET doc == rotation.doc IN
    /\ rotation.phase = "sealing"
    /\ Server!Issue(RotateSlot, "rotate", 0,
                    Seal(householdEpoch + 1, doc.basis + 1, doc.rows))
    /\ rotation' = [rotation EXCEPT !.phase = "waiting"]
    /\ UNCHANGED <<clientVars, userVars, limits>>

RotationEnds ==
    /\ rotation.phase = "waiting"
    /\ Server!Collect(RotateSlot)
    /\ rotation' = [phase |-> "idle", doc |-> NoDoc]
    /\ UNCHANGED <<clientVars, userVars, limits>>

-----------------------------------------------------------------------------

ServerStep(r) ==
    /\ Server!Handle(r)
    /\ UNCHANGED <<clientVars, rotation, userVars, limits>>

Fault(r) ==
    /\ Spend("fault")
    /\ Server!Fail(r) \/ Server!LoseAnswer(r)
    /\ UNCHANGED <<clientVars, rotation, userVars>>

User(c) ==
    \/ AddRow(c) \/ DeleteRow(c) \/ SyncCalendars(c) \/ Reload(c)
    \/ \E j \in SaveJobs : PageHides(c, j) \/ SaveNow(c, j)

\* What the client does of its own accord, save for the poll.
SaveStep(c, j) ==
    \/ TimerFires(c, j) \/ SendPut(c, j) \/ Abandoned(c, j)
    \/ PutAccepted(c, j) \/ PutConflicted(c, j) \/ PutFailed(c, j)

LoadStep(c) == LoadAnswered(c) \/ LoadFailed(c) \/ ApplyLoad(c)

RotationStep == RotationReads \/ RotationSeals \/ RotationSends \/ RotationEnds

Next ==
    \/ \E c \in Clients :
          \/ User(c) \/ Poll(c) \/ LoadStep(c)
          \/ \E j \in SaveJobs : SaveStep(c, j)
    \/ RotationStep
    \/ \E r \in Slots : ServerStep(r) \/ Fault(r)

\* Timers fire, promises settle and the server answers.  Nobody has to edit,
\* reload, hide the page or rotate.
Fairness ==
    /\ \A c \in Clients :
          /\ WF_vars(Poll(c)) /\ WF_vars(LoadStep(c))
          /\ \A j \in SaveJobs : WF_vars(SaveStep(c, j))
    /\ \A r \in Slots : WF_vars(ServerStep(r))

Spec == Init /\ [][Next]_vars
FairSpec == Spec /\ Fairness

-----------------------------------------------------------------------------
(* Properties.                                                             *)

Stored(s) == req[s].phase = "admitted" /\ Server!PutVault(s)

Kept == document.ciphertext.rows \ deleted \subseteq document'.ciphertext.rows

Readable == Opens(document.ciphertext, document.keyEpoch, document.version)

\* What holds of saving: a save whose content took in the version it names
\* loses nothing, however its seal, its conflicts, its retries and the other
\* devices' saves interleave (saveVault, mergeDocuments and the version check).
FreshSavesLoseNothing ==
    [][\A s \in Clients \X SaveJobs :
          Stored(s) /\ save[s].doc.basis = req[s].base => Kept]_vars

\* What holds of readability: the two checks of PUT /vault, on the version and
\* on the epoch, make a save sealed for the version after its base, under the
\* key of the epoch it was admitted in, readable for everyone of that epoch.
WellSealedSavesOpen ==
    [][\A s \in Clients \X SaveJobs :
          /\ Stored(s)
          /\ Opens(req[s].sealed, req[s].epoch, req[s].base + 1)
          => Readable']_vars

\* saveVault's loop of conflicts, merges and retries ends: no save stays in
\* flight for ever while others save too.
SavesSettle ==
    \A s \in Clients \X SaveJobs : save[s].phase # "idle" ~> save[s].phase = "idle"

\* Once the edits stop, every screen without an unsaved edit comes to show the
\* stored document for good, if its key can open it.
ScreensConverge ==
    <>[](\A c \in Clients :
            /\ ~app[c].dirty
            /\ Opens(document.ciphertext, session[c].key, document.version)
            => app[c].data.rows = document.ciphertext.rows)

-----------------------------------------------------------------------------
(* What the repository says of the sync loop and the code does not do; each*)
(* is refuted by a run of its own.                                         *)

\* Nothing a device added is dropped by another's save that can be opened at
\* all, unless somebody deleted it: "The merge below keeps both sides'
\* additions" (api.js), "a screen left open for a month cannot silently
\* overwrite a phone's edits" (displays.js).
NoLostUpdate ==
    [][\A s \in Clients \X SaveJobs : Stored(s) /\ Readable' => Kept]_vars

\* No document is stored under a superseded key, which "would make the document
\* unreadable to everyone who already rotated" (vault.js).
CurrentKeyOpensDocument == document.ciphertext.key = document.keyEpoch

\* After a failure, "changes are only on this device until it reconnects"
\* (App.jsx): an unsaved edit is saved in the end, nobody having to edit again.
EditsReachServer == \A c \in Clients : app[c].dirty ~> ~app[c].dirty

=============================================================================

----------------------------- MODULE VaultServer -----------------------------
(***************************************************************************)
(* The server's side of a household's sealed document:                     *)
(*   server/src/routes/vault.js       GET and PUT vault, GET revision      *)
(*   server/src/routes/displays.js    the same for a wall display          *)
(*   server/src/routes/households.js  rotate-key, as far as the document,  *)
(*                                    its revisions and the epoch go       *)
(* One household.  A request passes its middleware (loadHousehold or       *)
(* loadDisplay, which read the key epoch) in one step and its handler in a *)
(* later one: other requests run in between.  A handler that writes is one *)
(* transaction that holds the document's row lock, hence one step.         *)
(*                                                                         *)
(* The server cannot look inside a ciphertext, so neither does this        *)
(* module; what clients put in one is the business of VaultSync.           *)
(***************************************************************************)
EXTENDS Naturals, Sequences, FiniteSets

CONSTANTS
    Requests,              \* slots for requests in progress
    DisplayRequests,       \* those of them a wall display makes
    Ciphertexts,           \* what a client may send as a sealed document
    None,                  \* no ciphertext
    Founding,              \* the first document of the household
    VAULT_REVISIONS_KEPT,  \* config.js
    MaxVersion,            \* bound: no write once the document has this version
    MaxEpoch               \* bound: no rotation is asked for at this epoch

ASSUME DisplaysMakeRequests == DisplayRequests \subseteq Requests
ASSUME CiphertextAssumption == Founding \in Ciphertexts /\ None \notin Ciphertexts
ASSUME KeptAssumption == VAULT_REVISIONS_KEPT \in Nat
ASSUME BoundAssumption == MaxVersion \in Nat /\ MaxEpoch \in Nat

VARIABLES
    householdEpoch,  \* households.key_epoch
    document,        \* the row of vault_documents
    revisions,       \* the rows of vault_revisions
    history,         \* auxiliary: every ciphertext ever stored, by version
    req              \* the requests in progress

vars == <<householdEpoch, document, revisions, history, req>>

Kinds == {"get", "revision", "put", "rotate"}
DisplayKinds == {"get", "put"}
Codes == {"none", "ok", "epoch_changed", "version_conflict", "error"}

Free ==
    [phase |-> "free", kind |-> "none", epoch |-> 0, base |-> 0,
     sealed |-> None, code |-> "none", version |-> 0, answer |-> None]

Row == [keyEpoch : Nat, version : Nat, ciphertext : Ciphertexts]

Request ==
    [phase : {"free", "issued", "admitted", "answered"}, kind : Kinds \cup {"none"},
     epoch : Nat, base : Nat, sealed : Ciphertexts \cup {None}, code : Codes,
     version : Nat, answer : Ciphertexts \cup {None}]

Writes(r) == req[r].kind \in {"put", "rotate"}

TypeOK ==
    /\ householdEpoch \in Nat
    /\ document \in Row
    /\ revisions \subseteq Row
    /\ history \in Seq(Ciphertexts)
    /\ req \in [Requests -> Request]
    /\ \A r \in Requests : Writes(r) => req[r].sealed \in Ciphertexts

Init ==
    /\ householdEpoch = 1
    /\ document = [keyEpoch |-> 1, version |-> 1, ciphertext |-> Founding]
    /\ revisions = {}
    /\ history = <<Founding>>
    /\ req = [r \in Requests |-> Free]

-----------------------------------------------------------------------------
(* The client's end of a request.                                          *)

\* base is the version a write was based on, or the number of the revision
\* asked for; sealed is the document sent along.
Issue(r, kind, base, sealed) ==
    /\ req[r].phase = "free"
    /\ r \in DisplayRequests => kind \in DisplayKinds
    /\ kind = "rotate" => householdEpoch < MaxEpoch
    /\ req' = [req EXCEPT ![r] = [Free EXCEPT !.phase = "issued", !.kind = kind,
                                              !.base = base, !.sealed = sealed]]
    /\ UNCHANGED <<householdEpoch, document, revisions, history>>

IssueRead(r) ==
    \/ Issue(r, "get", 0, None)
    \/ \E n \in 1..MaxVersion : Issue(r, "revision", n, None)

\* A client may send any document, based on anything.
IssueWrite(r) ==
    \E sealed \in Ciphertexts :
        \/ \E base \in 0..MaxVersion : Issue(r, "put", base, sealed)
        \/ Issue(r, "rotate", 0, sealed)

\* The answer reaches the client, which is done with this request.
Collect(r) ==
    /\ req[r].phase = "answered"
    /\ req' = [req EXCEPT ![r] = Free]
    /\ UNCHANGED <<householdEpoch, document, revisions, history>>

-----------------------------------------------------------------------------
(* The handlers.                                                           *)

Answer(r, code, version, ciphertext) ==
    req' = [req EXCEPT ![r] = [@ EXCEPT !.phase = "answered", !.code = code,
                                        !.version = version, !.answer = ciphertext]]

\* loadHousehold and loadDisplay: the key epoch is read here, and the handler
\* goes on using this copy of it.
LoadHousehold(r) ==
    /\ req[r].phase = "issued"
    /\ req' = [req EXCEPT ![r] = [@ EXCEPT !.phase = "admitted",
                                                    !.epoch = householdEpoch]]
    /\ UNCHANGED <<householdEpoch, document, revisions, history>>

Handling(r, kind) == req[r].phase = "admitted" /\ req[r].kind = kind

\* A display's GET hands over the document whatever its epoch is.
GetVault(r) ==
    /\ Handling(r, "get")
    /\ IF r \notin DisplayRequests /\ document.keyEpoch # req[r].epoch
       THEN Answer(r, "epoch_changed", 0, None)
       ELSE Answer(r, "ok", document.version, document.ciphertext)
    /\ UNCHANGED <<householdEpoch, document, revisions, history>>

GetRevision(r) ==
    /\ Handling(r, "revision")
    /\ \/ /\ \A v \in revisions : v.version # req[r].base
          /\ Answer(r, "error", 0, None)
       \/ \E v \in revisions :
             /\ v.version = req[r].base
             /\ IF v.keyEpoch # req[r].epoch
                THEN Answer(r, "error", 0, None)
                ELSE Answer(r, "ok", v.version, v.ciphertext)
    /\ UNCHANGED <<householdEpoch, document, revisions, history>>

\* Mutants of the statements below, each a slip a run has to notice.
ArchiveOnce(rows, row) == IF rows # {} THEN rows ELSE {row}
TrimNewest(rows) ==
    {v \in rows : \A w \in rows : v.version < w.version + VAULT_REVISIONS_KEPT}
BaseUnchecked(r) == TRUE
EpochUnchecked(r) == TRUE
RotatedInPlace(r) ==
    [keyEpoch |-> householdEpoch + 1, version |-> document.version,
     ciphertext |-> req[r].sealed]
RevisionsOutliveRotation == revisions

\* INSERT ... ON CONFLICT (household_id, version) DO NOTHING
Archive(rows, row) ==
    IF \E v \in rows : v.version = row.version THEN rows ELSE rows \cup {row}

\* DELETE ... WHERE version <= MAX(version) - VAULT_REVISIONS_KEPT
Trim(rows) ==
    {v \in rows : \A w \in rows : w.version < v.version + VAULT_REVISIONS_KEPT}

\* Only a member's write trims the history; a display's does not.
RevisionsAfterPut(r) ==
    IF r \in DisplayRequests THEN Archive(revisions, document)
    ELSE Trim(Archive(revisions, document))

EpochIsCurrent(r) == document.keyEpoch = req[r].epoch
BaseIsCurrent(r) == document.version = req[r].base

PutIsStale(r) ==
    /\ Handling(r, "put")
    /\ ~EpochIsCurrent(r)
    /\ Answer(r, "epoch_changed", 0, None)
    /\ UNCHANGED <<householdEpoch, document, revisions, history>>

PutConflicts(r) ==
    /\ Handling(r, "put")
    /\ EpochIsCurrent(r) /\ ~BaseIsCurrent(r)
    /\ Answer(r, "version_conflict", document.version, document.ciphertext)
    /\ UNCHANGED <<householdEpoch, document, revisions, history>>

PutVault(r) ==
    /\ Handling(r, "put")
    /\ EpochIsCurrent(r) /\ BaseIsCurrent(r)
    /\ document.version < MaxVersion
    /\ document' = [document EXCEPT !.version = @ + 1, !.ciphertext = req[r].sealed]
    /\ revisions' = RevisionsAfterPut(r)
    /\ history' = Append(history, req[r].sealed)
    /\ Answer(r, "ok", document.version + 1, None)
    /\ UNCHANGED householdEpoch

\* The document of the new epoch, one version up ...
RotatedDocument(r) ==
    [keyEpoch |-> householdEpoch + 1, version |-> document.version + 1,
     ciphertext |-> req[r].sealed]

\* ... and the revisions go along with the key they were sealed under.
RevisionsAfterRotation == {}

\* Rotation locks the household's row and names no base version.
RotateKey(r) ==
    /\ Handling(r, "rotate")
    /\ document.version < MaxVersion
    /\ householdEpoch' = householdEpoch + 1
    /\ document' = RotatedDocument(r)
    /\ revisions' = RevisionsAfterRotation
    /\ history' = Append(history, req[r].sealed)
    /\ Answer(r, "ok", document.version + 1, None)

\* Over quota, rate limited, read-only, or a database error that rolls the
\* transaction back: whatever the reason, nothing was stored.
Fail(r) ==
    /\ req[r].phase \in {"issued", "admitted"}
    /\ Answer(r, "error", 0, None)
    /\ UNCHANGED <<householdEpoch, document, revisions, history>>

\* The handler finished and the connection went: the client only sees a failure.
LoseAnswer(r) ==
    /\ req[r].phase = "answered"
    /\ Answer(r, "error", 0, None)
    /\ UNCHANGED <<householdEpoch, document, revisions, history>>

Handle(r) ==
    \/ LoadHousehold(r)
    \/ GetVault(r) \/ GetRevision(r)
    \/ PutIsStale(r) \/ PutConflicts(r) \/ PutVault(r)
    \/ RotateKey(r)

Next ==
    \E r \in Requests :
        \/ IssueRead(r) \/ IssueWrite(r) \/ Collect(r)
        \/ Handle(r) \/ Fail(r) \/ LoseAnswer(r)

Spec == Init /\ [][Next]_vars

-----------------------------------------------------------------------------
(* Properties.                                                             *)

\* What anyone has been told, or can still be told, about a version: the
\* document, the revisions, the answers under way, and what an acknowledged
\* writer believes it stored.
Answered(r, code) == req[r].phase = "answered" /\ req[r].code = code

Sightings ==
    {<<document.version, document.ciphertext>>}
    \cup {<<v.version, v.ciphertext>> : v \in revisions}
    \cup {<<req[r].version, req[r].answer>> :
             r \in {x \in Requests : req[x].answer # None}}
    \cup {<<req[r].version, req[r].sealed>> :
             r \in {x \in Requests : Answered(x, "ok") /\ Writes(x)}}

\* A version number names one document, for good: whatever the order in which
\* reads, saves, retries and rotations interleave, no two parties are ever told
\* different things about the same version (the optimistic check of vault.js).
VersionNamesOneDocument ==
    \A s, t \in Sightings : s[1] = t[1] => s = t

\* The document and everything in its history are filed under the household's
\* current epoch: a rotation leaves no row of an epoch before, and no write that was
\* admitted before it brings the old epoch back.
EpochsAgree ==
    /\ document.keyEpoch = householdEpoch
    /\ \A v \in revisions : v.keyEpoch = householdEpoch

\* A save that was acknowledged is filed under the epoch it was admitted in, as long
\* as its version is kept: the label of a row is never written by a save, so a save
\* that overtook a rotation would lie there under an epoch that is not its own.
FiledAsAdmitted ==
    \A r \in Requests :
        Answered(r, "ok") /\ req[r].kind = "put" =>
            \A v \in revisions \cup {document} :
                v.version = req[r].version => v.keyEpoch = req[r].epoch

\* The history is the unbroken run of versions that led to the document, so
\* "somebody wiped everything" can be undone one step at a time.
RevisionsContiguous ==
    \A v \in revisions :
        /\ v.version < document.version
        /\ \A n \in v.version .. document.version - 1 :
               \E w \in revisions : w.version = n

\* The three: a history without gaps, all of it filed under the current epoch, which
\* is the epoch its writers were admitted in.  Which key a ciphertext was really
\* sealed with the server cannot see, and it is not always that epoch's: see
\* CurrentKeyOpensDocument in VaultSync.
RevisionsWhole == EpochsAgree /\ RevisionsContiguous /\ FiledAsAdmitted

\* A document is never replaced by a save without being archived first, and an
\* archived one goes only in a rotation or when enough later ones are kept.
RecoveryPath ==
    [][/\ document' # document =>
              \/ document \in revisions'
              \/ householdEpoch' # householdEpoch
              \/ VAULT_REVISIONS_KEPT = 0
       /\ \A v \in revisions \ revisions' :
              \/ householdEpoch' # householdEpoch
              \/ Cardinality({w \in revisions' : w.version > v.version})
                    >= VAULT_REVISIONS_KEPT]_vars

-----------------------------------------------------------------------------
(* The promise: VaultServer implements VaultRegister.  Middleware, epochs  *)
(* and the table of revisions disappear; a request is pending until its    *)
(* handler has run.                                                        *)

PhaseOfOp ==
    [free |-> "free", issued |-> "pending", admitted |-> "pending", answered |-> "done"]

OpOf(r) ==
    [phase |-> PhaseOfOp[req[r].phase], kind |-> req[r].kind, base |-> req[r].base,
     sealed |-> req[r].sealed, code |-> req[r].code, version |-> req[r].version,
     answer |-> req[r].answer]

Register == INSTANCE VaultRegister
    WITH log <- history, op <- [r \in Requests |-> OpOf(r)]

\* Every behaviour of the handlers is one of a single numbered log with
\* compare-and-swap writes.
ImplementsRegister == Register!Spec

=============================================================================

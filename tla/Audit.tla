-------------------------------- MODULE Audit --------------------------------
(***************************************************************************)
(* The hash-chained activity log of server/src/services/audit.js.  An      *)
(* entry is appended by the request it is about, after the fact and in a   *)
(* transaction of its own, under an advisory lock; the append-only trigger *)
(* and migration 003 keep every row as it was written.  The hash of an     *)
(* entry is the entry itself: nothing else has it.                         *)
(***************************************************************************)
EXTENDS Naturals

CONSTANTS
    Requests,    \* requests with something to record
    LogBound     \* bound: rows of the log

VARIABLES
    auditLog,    \* the rows of audit_log
    serial,      \* the sequence behind the ids: a value once taken is gone
    writer,      \* per request, where its append is
    heldBy       \* the advisory lock

auditVars == <<auditLog, serial, writer, heldBy>>

Idle == [at |-> "idle", id |-> 0, prev |-> 0]
Nobody == <<>>

ASSUME AuditAssumption == LogBound \in Nat /\ Nobody \notin Requests

AuditTypeOK ==
    /\ auditLog \subseteq [id : 1..LogBound, prev : 0..LogBound]
    /\ serial \in 0..LogBound
    /\ writer \in [Requests -> [at : {"idle", "read", "inserted"},
                                id : 0..LogBound, prev : 0..LogBound]]
    /\ heldBy \in Requests \cup {Nobody}

AuditInit ==
    /\ auditLog = {} /\ serial = 0
    /\ writer = [r \in Requests |-> Idle]
    /\ heldBy = Nobody

\* Mutant: pg_advisory_xact_lock is left out.
UnlockedAppend(r) == TRUE

MayAppend(r) == heldBy = Nobody

Ids == {entry.id : entry \in auditLog}

\* ORDER BY id DESC LIMIT 1: the hash of the last of these entries, and 0 of none.
LastHash(hash, ids) ==
    IF ids = {} THEN hash = 0 ELSE hash \in ids /\ \A id \in ids : id <= hash

\* The lock and the SELECT.
ReadTail(r) ==
    /\ writer[r] = Idle /\ MayAppend(r)
    /\ heldBy' = r
    /\ \E prev \in 0..LogBound :
          /\ LastHash(prev, Ids)
          /\ writer' = [writer EXCEPT ![r] = [at |-> "read", id |-> 0, prev |-> prev]]
    /\ UNCHANGED <<auditLog, serial>>

InsertEntry(r) ==
    /\ writer[r].at = "read" /\ serial < LogBound
    /\ serial' = serial + 1
    /\ writer' = [writer EXCEPT ![r].at = "inserted", ![r].id = serial + 1]
    /\ UNCHANGED <<auditLog, heldBy>>

CommitEntry(r) ==
    /\ writer[r].at = "inserted"
    /\ auditLog' = auditLog \cup {[id |-> writer[r].id, prev |-> writer[r].prev]}
    /\ writer' = [writer EXCEPT ![r] = Idle]
    /\ heldBy' = IF heldBy = r THEN Nobody ELSE heldBy
    /\ UNCHANGED serial

\* A failure is logged and swallowed: the request is answered, the entry is not
\* there, and the id it may have taken is skipped.
SwallowFailure(r) ==
    /\ writer[r].at # "idle"
    /\ writer' = [writer EXCEPT ![r] = Idle]
    /\ heldBy' = IF heldBy = r THEN Nobody ELSE heldBy
    /\ UNCHANGED <<auditLog, serial>>

AuditNext ==
    \E r \in Requests : ReadTail(r) \/ InsertEntry(r) \/ CommitEntry(r) \/ SwallowFailure(r)

-----------------------------------------------------------------------------

\* verifyChain: the first row whose prev_hash is not the hash of the row before.
Broken ==
    {entry \in auditLog :
       LET before == {id \in Ids : id < entry.id} IN
       before # {} /\ ~LastHash(entry.prev, before)}

\* Whatever requests record at once and whichever of them fail half way, the
\* chain verifies: no two entries follow the same one, none follows an entry
\* that was rolled back, and ids that were skipped leave no gap in it
\* (services/audit.js:38-40, "produce a fork"; :62-87).
ChainVerifies == Broken = {}

=============================================================================

---------------------------- MODULE VaultRegister ----------------------------
(***************************************************************************)
(* What the vault routes promise a household, with no handler, key or      *)
(* table in sight: one numbered log of sealed documents.  A write names    *)
(* the number it was based on and takes effect only if that is still the   *)
(* last one; a refused write learns the winner; a read learns the last     *)
(* document, or an earlier one by its number.  Rotation is the one write   *)
(* that names no number.                                                   *)
(*                                                                         *)
(* VaultServer is the detailed specification and implements this one.      *)
(***************************************************************************)
EXTENDS Naturals, Sequences

CONSTANTS
    Requests,     \* the HTTP requests that may be in progress
    Ciphertexts,  \* sealed documents, opaque here
    None,         \* "no document"
    Founding      \* the document a household is created with

VARIABLES
    log,          \* log[v] is the document that was given version v
    op            \* op[r] is the operation request r stands for

vars == <<log, op>>

Version == Len(log)

FreeOp ==
    [phase |-> "free", kind |-> "none", base |-> 0, sealed |-> None,
     code |-> "none", version |-> 0, answer |-> None]

Kinds == {"get", "revision", "put", "rotate"}

PendingOp ==
    [phase : {"pending"}, kind : Kinds, base : Nat, sealed : Ciphertexts \cup {None},
     code : {"none"}, version : {0}, answer : {None}]

-----------------------------------------------------------------------------

Init ==
    /\ log = <<Founding>>
    /\ op = [r \in Requests |-> FreeOp]

\* Any operation at all may be asked for.
Invoke(r) ==
    /\ op[r].phase = "free"
    /\ op'[r] \in PendingOp
    /\ op' = [op EXCEPT ![r] = op'[r]]
    /\ UNCHANGED log

Return(r, code, version, answer) ==
    op' = [op EXCEPT ![r] = [@ EXCEPT !.phase = "done", !.code = code,
                                      !.version = version, !.answer = answer]]

\* A read of the last document, or of the one with the number asked for.
Read(r) ==
    /\ op[r].phase = "pending"
    /\ \E v \in 1..Version :
           /\ op[r].kind = "get" => v = Version
           /\ op[r].kind = "revision" => v = op[r].base
           /\ op[r].kind \in {"get", "revision"}
           /\ Return(r, "ok", v, log[v])
    /\ UNCHANGED log

\* Compare and swap: the only way a member's or a display's write gets in.
Write(r) ==
    /\ op[r].phase = "pending"
    /\ op[r].kind = "put"
    /\ op[r].base = Version
    /\ log' = Append(log, op[r].sealed)
    /\ Return(r, "ok", Version + 1, None)

\* Somebody else saved first: the writer is handed the document that won.
Conflict(r) ==
    /\ op[r].phase = "pending"
    /\ op[r].kind = "put"
    /\ op[r].base # Version
    /\ Return(r, "version_conflict", Version, log[Version])
    /\ UNCHANGED log

\* A rotation replaces whatever is there.
Replace(r) ==
    /\ op[r].phase = "pending"
    /\ op[r].kind = "rotate"
    /\ log' = Append(log, op[r].sealed)
    /\ Return(r, "ok", Version + 1, None)

\* Refused, failed, or done but never heard of again.
Refuse(r) ==
    /\ op[r].phase # "free"
    /\ \E code \in {"epoch_changed", "error"} : Return(r, code, 0, None)
    /\ UNCHANGED log

Finish(r) ==
    /\ op[r].phase = "done"
    /\ op' = [op EXCEPT ![r] = FreeOp]
    /\ UNCHANGED log

Next ==
    \E r \in Requests :
        \/ Invoke(r) \/ Read(r) \/ Write(r) \/ Conflict(r)
        \/ Replace(r) \/ Refuse(r) \/ Finish(r)

Spec == Init /\ [][Next]_vars

=============================================================================

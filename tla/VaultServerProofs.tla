-------------------------- MODULE VaultServerProofs --------------------------
(***************************************************************************)
(* Theorems about VaultServer, for every set of requests and displays,     *)
(* every number of revisions kept and every bound.                         *)
(*                                                                         *)
(* VersionNamesOneDocument is not inductive: nothing in it relates what    *)
(* was answered to what was stored.  The auxiliary variable history does:  *)
(* HistoryAgrees says that every sighting of a version is an entry of it,  *)
(* and a handler only ever appends to it.                                  *)
(***************************************************************************)
EXTENDS VaultServer, FiniteSetTheorems, TLAPS

\* Every ciphertext a request carries with a version is the one stored under
\* that version.
AnswerAgrees(r) ==
    /\ req[r].answer # None =>
          /\ req[r].version \in 1 .. Len(history)
          /\ history[req[r].version] = req[r].answer
    /\ Answered(r, "ok") /\ Writes(r) =>
          /\ req[r].version \in 1 .. Len(history)
          /\ history[req[r].version] = req[r].sealed

HistoryAgrees ==
    /\ Len(history) = document.version
    /\ document.version \in Nat \ {0}
    /\ history[document.version] = document.ciphertext
    /\ \A v \in revisions :
          /\ v.version \in 1 .. document.version - 1
          /\ history[v.version] = v.ciphertext
    /\ \A r \in Requests : AnswerAgrees(r)

\* A request that still waits for its handler carries no answer.
WaitingIsBlank ==
    \A r \in Requests :
        req[r].phase # "answered" =>
            req[r].answer = None /\ req[r].version = 0 /\ req[r].code = "none"

IInv == TypeOK /\ HistoryAgrees /\ EpochsAgree /\ RevisionsContiguous /\ WaitingIsBlank

-----------------------------------------------------------------------------
(* Types.                                                                  *)

LEMMA FreeType == Free \in Request
BY DEF Free, Request, Kinds, Codes

\* Asking for something fills in a free request.
LEMMA IssueType ==
    ASSUME TypeOK, NEW r \in Requests, NEW kind \in Kinds, NEW base \in Nat,
           NEW sealed \in Ciphertexts \cup {None}, Issue(r, kind, base, sealed),
           kind \in {"put", "rotate"} => sealed \in Ciphertexts
    PROVE  TypeOK'
<1> DEFINE asked == [Free EXCEPT !.phase = "issued", !.kind = kind, !.base = base,
                                 !.sealed = sealed]
<1>1. asked \in Request /\ asked.kind = kind /\ asked.sealed = sealed
  BY FreeType DEF Free, Request
<1>2. req' = [req EXCEPT ![r] = asked]
  BY DEF Issue
<1>3. req' \in [Requests -> Request]
  BY <1>1, <1>2 DEF TypeOK
<1>4. ASSUME NEW x \in Requests, Writes(x)' PROVE req'[x].sealed \in Ciphertexts
  <2>1. CASE x = r
    BY <1>1, <1>2, <1>4, <2>1 DEF TypeOK, Writes
  <2>2. CASE x # r
    BY <1>2, <1>4, <2>2 DEF TypeOK, Writes
  <2>3. QED
    BY <2>1, <2>2
<1>5. QED
  BY <1>3, <1>4 DEF Issue, TypeOK, Writes

\* What an answer leaves of a request, and what it adds.
LEMMA AnswerFields ==
    ASSUME TypeOK, NEW r \in Requests, NEW code \in Codes, NEW version \in Nat,
           NEW ciphertext \in Ciphertexts \cup {None},
           Answer(r, code, version, ciphertext)
    PROVE  /\ req' \in [Requests -> Request]
           /\ \A x \in Requests : x # r => req'[x] = req[x]
           /\ req'[r].phase = "answered"
           /\ req'[r].code = code
           /\ req'[r].version = version
           /\ req'[r].answer = ciphertext
           /\ req'[r].kind = req[r].kind
           /\ req'[r].sealed = req[r].sealed
           /\ req'[r].base = req[r].base
           /\ req'[r].epoch = req[r].epoch
<1> DEFINE answered == [req[r] EXCEPT !.phase = "answered", !.code = code,
                                      !.version = version, !.answer = ciphertext]
<1>1. req[r] \in Request
  BY DEF TypeOK
<1>2. /\ answered \in Request
      /\ answered.phase = "answered" /\ answered.code = code
      /\ answered.version = version /\ answered.answer = ciphertext
      /\ answered.kind = req[r].kind /\ answered.sealed = req[r].sealed
      /\ answered.base = req[r].base /\ answered.epoch = req[r].epoch
  BY <1>1 DEF Request
<1>3. req' = [req EXCEPT ![r] = answered]
  BY DEF Answer
<1> HIDE DEF answered
<1>4. QED
  BY <1>2, <1>3 DEF TypeOK

\* An answer alone keeps the types.
LEMMA AnswerType ==
    ASSUME TypeOK, NEW r \in Requests, NEW code \in Codes, NEW version \in Nat,
           NEW ciphertext \in Ciphertexts \cup {None},
           Answer(r, code, version, ciphertext)
    PROVE  /\ req' \in [Requests -> Request]
           /\ \A x \in Requests : Writes(x)' => req'[x].sealed \in Ciphertexts
BY AnswerFields DEF TypeOK, Writes

LEMMA TypeStep == TypeOK /\ [Next]_vars => TypeOK'
<1> SUFFICES ASSUME TypeOK, [Next]_vars PROVE TypeOK'
  OBVIOUS
<1> USE CiphertextAssumption, BoundAssumption
<1>1. CASE UNCHANGED vars
  BY <1>1 DEF vars, TypeOK, Writes
<1>2. CASE Next
  <2>1. PICK r \in Requests :
           \/ IssueRead(r) \/ IssueWrite(r) \/ Collect(r)
           \/ Handle(r) \/ Fail(r) \/ LoseAnswer(r)
    BY <1>2 DEF Next
  <2>2. CASE IssueRead(r)
    <3>1. 1..MaxVersion \subseteq Nat /\ 0 \in Nat
      BY DEF BoundAssumption
    <3>2. QED
      BY <2>2, <3>1, IssueType DEF IssueRead, Kinds
  <2>3. CASE IssueWrite(r)
    <3>1. 0..MaxVersion \subseteq Nat /\ 0 \in Nat
      BY DEF BoundAssumption
    <3>2. QED
      BY <2>3, <3>1, IssueType DEF IssueWrite, Kinds
  <2>4. CASE Collect(r)
    <3>1. Free \in Request /\ Free.kind = "none"
      BY FreeType DEF Free
    <3>2. req' = [req EXCEPT ![r] = Free]
      BY <2>4 DEF Collect
    <3>3. QED
      BY <2>4, <3>1, <3>2 DEF Collect, TypeOK, Writes
  <2>5. CASE LoadHousehold(r)
    <3> DEFINE admitted == [req[r] EXCEPT !.phase = "admitted", !.epoch = householdEpoch]
    <3>1. admitted \in Request /\ admitted.kind = req[r].kind /\ admitted.sealed = req[r].sealed
      BY DEF TypeOK, Request
    <3>2. req' = [req EXCEPT ![r] = admitted]
      BY <2>5 DEF LoadHousehold
    <3> HIDE DEF admitted
    <3>3. QED
      BY <2>5, <3>1, <3>2 DEF LoadHousehold, TypeOK, Writes
  <2>6. CASE GetVault(r)
    <3>1. \E code \in Codes, version \in Nat, ciphertext \in Ciphertexts \cup {None} :
             Answer(r, code, version, ciphertext)
      BY <2>6 DEF GetVault, TypeOK, Row, Codes
    <3>2. QED
      BY <2>6, <3>1, AnswerType DEF GetVault, TypeOK
  <2>7. CASE GetRevision(r)
    <3>1. \E code \in Codes, version \in Nat, ciphertext \in Ciphertexts \cup {None} :
             Answer(r, code, version, ciphertext)
      BY <2>7 DEF GetRevision, TypeOK, Row, Codes
    <3>2. QED
      BY <2>7, <3>1, AnswerType DEF GetRevision, TypeOK
  <2>8. CASE PutIsStale(r) \/ PutConflicts(r)
    <3>1. \E code \in Codes, version \in Nat, ciphertext \in Ciphertexts \cup {None} :
             Answer(r, code, version, ciphertext)
      BY <2>8 DEF PutIsStale, PutConflicts, TypeOK, Row, Codes
    <3>2. QED
      BY <2>8, <3>1, AnswerType DEF PutIsStale, PutConflicts, TypeOK
  <2>9. CASE PutVault(r)
    <3>1. /\ req[r].sealed \in Ciphertexts
          /\ document.version + 1 \in Nat
      BY <2>9 DEF PutVault, Handling, TypeOK, Writes, Row
    <3>2. /\ req' \in [Requests -> Request]
          /\ \A x \in Requests : Writes(x)' => req'[x].sealed \in Ciphertexts
      BY <2>9, <3>1, AnswerType DEF PutVault, Codes
    <3>3. document' \in Row /\ history' \in Seq(Ciphertexts) /\ householdEpoch' \in Nat
      <4>1. document' \in Row
        BY <2>9, <3>1 DEF PutVault, TypeOK, Row
      <4>2. history' \in Seq(Ciphertexts)
        BY <2>9, <3>1 DEF PutVault, TypeOK
      <4>3. QED
        BY <2>9, <4>1, <4>2 DEF PutVault, TypeOK
    <3>4. revisions' \subseteq Row
      BY <2>9 DEF PutVault, RevisionsAfterPut, Archive, Trim, TypeOK
    <3>5. QED
      BY <3>2, <3>3, <3>4 DEF TypeOK
  <2>10. CASE RotateKey(r)
    <3>1. /\ req[r].sealed \in Ciphertexts
          /\ document.version + 1 \in Nat
      BY <2>10 DEF RotateKey, Handling, TypeOK, Writes, Row
    <3>2. /\ req' \in [Requests -> Request]
          /\ \A x \in Requests : Writes(x)' => req'[x].sealed \in Ciphertexts
      BY <2>10, <3>1, AnswerType DEF RotateKey, Codes
    <3>3. document' \in Row /\ history' \in Seq(Ciphertexts) /\ householdEpoch' \in Nat
      BY <2>10, <3>1 DEF RotateKey, RotatedDocument, TypeOK, Row
    <3>4. QED
      BY <2>10, <3>2, <3>3 DEF RotateKey, RevisionsAfterRotation, TypeOK
  <2>11. CASE Fail(r) \/ LoseAnswer(r)
    <3>1. Answer(r, "error", 0, None) /\ "error" \in Codes
      BY <2>11 DEF Fail, LoseAnswer, Codes
    <3>2. QED
      BY <2>11, <3>1, AnswerType DEF Fail, LoseAnswer, TypeOK
  <2>12. QED
    BY <2>1, <2>2, <2>3, <2>4, <2>5, <2>6, <2>7, <2>8, <2>9, <2>10, <2>11 DEF Handle
<1>3. QED
  BY <1>1, <1>2

\* TypeOK is inductive by itself: what the handlers of vault.js, displays.js and
\* households.js store and answer has the types the schema gives it.
THEOREM TypeCorrect == Spec => []TypeOK
<1>1. Init => TypeOK
  BY FreeType, CiphertextAssumption DEF Init, TypeOK, Row, Writes, Free
<1>2. QED
  BY <1>1, TypeStep, PTL DEF Spec

-----------------------------------------------------------------------------
(* The inductive invariant.                                                *)

\* A step that stores nothing.
LEMMA HistoryKept ==
    ASSUME TypeOK, HistoryAgrees, NEW r \in Requests,
           UNCHANGED <<document, revisions, history>>,
           \A x \in Requests : x # r => req'[x] = req[x],
           AnswerAgrees(r)'
    PROVE  HistoryAgrees'
<1>1. ASSUME NEW x \in Requests, x # r PROVE AnswerAgrees(x)'
  BY <1>1 DEF HistoryAgrees, AnswerAgrees, Answered, Writes
<1>2. QED
  BY <1>1 DEF HistoryAgrees

\* A step that stores one document, archiving the old one or not.
LEMMA HistoryGrows ==
    ASSUME TypeOK, HistoryAgrees, NEW r \in Requests, NEW sealed \in Ciphertexts,
           history' = Append(history, sealed),
           document'.version = document.version + 1,
           document'.ciphertext = sealed,
           revisions' \subseteq revisions \cup {document},
           \A x \in Requests : x # r => req'[x] = req[x],
           req'[r].answer = None,
           req'[r].version = document.version + 1,
           req'[r].sealed = sealed
    PROVE  HistoryAgrees'
<1>1. /\ Len(history) = document.version
      /\ document.version \in Nat \ {0}
      /\ history \in Seq(Ciphertexts)
  BY DEF HistoryAgrees, TypeOK
<1>2. /\ Len(history') = document.version + 1
      /\ history'[document.version + 1] = sealed
      /\ \A n \in 1 .. document.version : history'[n] = history[n]
  BY <1>1
<1>3. ASSUME NEW v \in revisions'
      PROVE  v.version \in 1 .. document'.version - 1 /\ history'[v.version] = v.ciphertext
  <2>1. CASE v = document
    BY <1>1, <1>2, <2>1 DEF HistoryAgrees
  <2>2. CASE v \in revisions
    <3>1. v.version \in 1 .. document.version - 1 /\ history[v.version] = v.ciphertext
      BY <2>2 DEF HistoryAgrees
    <3>2. v.version \in 1 .. document.version
      BY <3>1, <1>1
    <3>3. QED
      BY <3>1, <3>2, <1>1, <1>2
  <2>3. QED
    BY <2>1, <2>2
<1>4. ASSUME NEW x \in Requests PROVE AnswerAgrees(x)'
  <2>1. CASE x = r
    BY <2>1, <1>1, <1>2 DEF AnswerAgrees
  <2>2. CASE x # r
    <3>1. AnswerAgrees(x) /\ req'[x] = req[x]
      BY <2>2 DEF HistoryAgrees
    <3>2. \A n \in 1 .. Len(history) : n \in 1 .. Len(history') /\ history'[n] = history[n]
      BY <1>1, <1>2
    <3>3. QED
      BY <3>1, <3>2 DEF AnswerAgrees, Answered, Writes
  <2>3. QED
    BY <2>1, <2>2
<1>5. QED
  BY <1>1, <1>2, <1>3, <1>4 DEF HistoryAgrees

\* Archiving puts the document at the end of the run, and trimming cuts the run
\* from the other end.
LEMMA ArchivedRunIsContiguous ==
    ASSUME TypeOK, HistoryAgrees, RevisionsContiguous, NEW kept,
           kept = Archive(revisions, document) \/ kept = Trim(Archive(revisions, document)),
           NEW v \in kept
    PROVE  /\ kept \subseteq revisions \cup {document}
           /\ v.version < document.version + 1
           /\ \A n \in v.version .. document.version : \E w \in kept : w.version = n
<1> USE KeptAssumption
<1>1. /\ document \in Row
      /\ \A w \in revisions : w \in Row /\ w.version < document.version
  BY DEF TypeOK, RevisionsContiguous
<1>2. Archive(revisions, document) = revisions \cup {document}
  BY <1>1 DEF Archive, Row
<1>3. kept \subseteq revisions \cup {document} /\ v \in revisions \cup {document}
  BY <1>2 DEF Trim
<1>4. v.version < document.version + 1
  BY <1>1, <1>3 DEF Row
<1>5. ASSUME NEW n \in v.version .. document.version
      PROVE  \E w \in revisions \cup {document} : w.version = n
  <2>1. CASE n = document.version
    BY <2>1
  <2>2. CASE n # document.version
    <3>1. v \in revisions /\ n \in v.version .. document.version - 1
      BY <1>1, <1>3, <1>5, <2>2 DEF Row
    <3>2. QED
      BY <3>1 DEF RevisionsContiguous
  <2>3. QED
    BY <2>1, <2>2
<1>6. ASSUME NEW n \in v.version .. document.version
      PROVE  \E w \in kept : w.version = n
  <2>1. PICK w \in revisions \cup {document} : w.version = n
    BY <1>5
  <2>2. CASE kept = Archive(revisions, document)
    BY <1>2, <2>1, <2>2
  <2>3. CASE kept = Trim(Archive(revisions, document))
    <3>1. \A u \in revisions \cup {document} : u.version < v.version + VAULT_REVISIONS_KEPT
      BY <1>2, <2>3 DEF Trim
    <3>2. v.version \in Nat /\ document.version \in Nat
      BY <1>1, <1>3 DEF Row
    <3>3. n \in Nat /\ v.version <= n
      BY <1>6, <3>2
    <3>4. \A u \in revisions \cup {document} : u.version \in Nat
      BY <1>1 DEF Row
    <3>5. \A u \in revisions \cup {document} : u.version < w.version + VAULT_REVISIONS_KEPT
      BY <2>1, <3>1, <3>2, <3>3, <3>4
    <3>6. QED
      BY <1>2, <2>1, <2>3, <3>5 DEF Trim
  <2>4. QED
    BY <2>2, <2>3
<1>7. QED
  BY <1>3, <1>4, <1>6

\* A step of a request that leaves the store alone.
LEMMA QuietStep ==
    ASSUME IInv, TypeOK', NEW r \in Requests,
           UNCHANGED <<householdEpoch, document, revisions, history>>,
           \A x \in Requests : x # r => req'[x] = req[x],
           AnswerAgrees(r)',
           req'[r].phase # "answered" =>
               req'[r].answer = None /\ req'[r].version = 0 /\ req'[r].code = "none"
    PROVE  IInv'
<1>1. HistoryAgrees'
  BY HistoryKept DEF IInv
<1>2. EpochsAgree' /\ RevisionsContiguous'
  BY DEF IInv, EpochsAgree, RevisionsContiguous
<1>3. WaitingIsBlank'
  BY DEF IInv, WaitingIsBlank
<1>4. QED
  BY <1>1, <1>2, <1>3 DEF IInv

\* What a handler that stores nothing answers is refused, or an entry of history.
LEMMA QuietAnswer ==
    ASSUME IInv, TypeOK', NEW r \in Requests, NEW code \in Codes, NEW version \in Nat,
           NEW ciphertext \in Ciphertexts \cup {None},
           Answer(r, code, version, ciphertext),
           UNCHANGED <<householdEpoch, document, revisions, history>>,
           ciphertext # None =>
               version \in 1 .. Len(history) /\ history[version] = ciphertext,
           Writes(r) => code # "ok"
    PROVE  IInv'
<1>1. TypeOK
  BY DEF IInv
<1>2. /\ \A x \in Requests : x # r => req'[x] = req[x]
      /\ req'[r].phase = "answered" /\ req'[r].code = code
      /\ req'[r].version = version /\ req'[r].answer = ciphertext
      /\ req'[r].kind = req[r].kind
  BY <1>1, AnswerFields
<1>3. AnswerAgrees(r)'
  BY <1>2 DEF AnswerAgrees, Answered, Writes
<1>4. QED
  BY <1>2, <1>3, QuietStep

LEMMA InitIInv == Init => IInv
<1> SUFFICES ASSUME Init PROVE IInv
  OBVIOUS
<1> USE CiphertextAssumption
<1>1. TypeOK
  BY FreeType DEF Init, TypeOK, Row, Writes, Free
<1>2. HistoryAgrees
  <2>1. \A r \in Requests : AnswerAgrees(r)
    BY DEF Init, AnswerAgrees, Answered, Free
  <2>2. QED
    BY <2>1 DEF Init, HistoryAgrees
<1>3. EpochsAgree /\ RevisionsContiguous /\ WaitingIsBlank
  BY DEF Init, EpochsAgree, RevisionsContiguous, WaitingIsBlank, Free
<1>4. QED
  BY <1>1, <1>2, <1>3 DEF IInv

\* A request that is free, asked or let in again says nothing of any version.
LEMMA BlankStep ==
    ASSUME IInv, TypeOK', NEW r \in Requests,
           UNCHANGED <<householdEpoch, document, revisions, history>>,
           NEW blank \in Request, req' = [req EXCEPT ![r] = blank],
           blank.phase # "answered",
           blank.answer = None, blank.version = 0, blank.code = "none"
    PROVE  IInv'
<1>1. req \in [Requests -> Request]
  BY DEF IInv, TypeOK
<1>2. req'[r] = blank /\ \A x \in Requests : x # r => req'[x] = req[x]
  BY <1>1
<1>3. AnswerAgrees(r)'
  BY <1>2 DEF AnswerAgrees, Answered
<1>4. QED
  BY <1>2, <1>3, QuietStep

LEMMA IssueKeepsIInv ==
    ASSUME IInv, TypeOK', NEW r \in Requests, NEW kind \in Kinds, NEW base \in Nat,
           NEW sealed \in Ciphertexts \cup {None}, Issue(r, kind, base, sealed)
    PROVE  IInv'
<1> DEFINE asked == [Free EXCEPT !.phase = "issued", !.kind = kind, !.base = base,
                                 !.sealed = sealed]
<1>1. /\ asked \in Request
      /\ asked.phase # "answered" /\ asked.answer = None
      /\ asked.version = 0 /\ asked.code = "none"
  BY FreeType DEF Free, Request
<1>2. req' = [req EXCEPT ![r] = asked]
  BY DEF Issue
<1>3. UNCHANGED <<householdEpoch, document, revisions, history>>
  BY DEF Issue
<1> HIDE DEF asked
<1>4. QED
  BY <1>1, <1>2, <1>3, BlankStep

\* The two handlers that store a document.
LEMMA PutKeepsIInv ==
    ASSUME IInv, TypeOK', NEW r \in Requests, PutVault(r)
    PROVE  IInv'
<1>1. TypeOK /\ HistoryAgrees /\ EpochsAgree /\ RevisionsContiguous /\ WaitingIsBlank
  BY DEF IInv
<1>2. req[r].sealed \in Ciphertexts /\ document \in Row
  BY <1>1 DEF PutVault, Handling, TypeOK, Writes
<1>3. document.version + 1 \in Nat /\ "ok" \in Codes
  BY <1>2 DEF Row, Codes
<1>4. /\ \A x \in Requests : x # r => req'[x] = req[x]
      /\ req'[r].phase = "answered" /\ req'[r].answer = None
      /\ req'[r].version = document.version + 1 /\ req'[r].sealed = req[r].sealed
  BY <1>1, <1>3, AnswerFields DEF PutVault
<1>5. /\ document'.version = document.version + 1
      /\ document'.ciphertext = req[r].sealed
      /\ document'.keyEpoch = document.keyEpoch
  BY <1>2 DEF PutVault, Row
<1>6. \/ revisions' = Archive(revisions, document)
      \/ revisions' = Trim(Archive(revisions, document))
  BY DEF PutVault, RevisionsAfterPut
<1>7. revisions' \subseteq revisions \cup {document}
  BY <1>1, <1>6, ArchivedRunIsContiguous
<1>8. HistoryAgrees'
  BY <1>1, <1>2, <1>4, <1>5, <1>7, HistoryGrows DEF PutVault
<1>9. EpochsAgree'
  BY <1>1, <1>5, <1>7 DEF PutVault, EpochsAgree
<1>10. RevisionsContiguous'
  <2>1. ASSUME NEW v \in revisions'
        PROVE  /\ v.version < document.version + 1
               /\ \A n \in v.version .. document.version : \E w \in revisions' : w.version = n
    BY <1>1, <1>6, <2>1, ArchivedRunIsContiguous
  <2>2. document'.version - 1 = document.version
    BY <1>2, <1>5 DEF Row
  <2>3. QED
    BY <1>5, <2>1, <2>2 DEF RevisionsContiguous
<1>11. WaitingIsBlank'
  BY <1>1, <1>4 DEF WaitingIsBlank
<1>12. QED
  BY <1>8, <1>9, <1>10, <1>11 DEF IInv

LEMMA RotationKeepsIInv ==
    ASSUME IInv, TypeOK', NEW r \in Requests, RotateKey(r)
    PROVE  IInv'
<1>1. TypeOK /\ HistoryAgrees /\ WaitingIsBlank
  BY DEF IInv
<1>2. req[r].sealed \in Ciphertexts /\ document \in Row
  BY <1>1 DEF RotateKey, Handling, TypeOK, Writes
<1>3. document.version + 1 \in Nat /\ "ok" \in Codes
  BY <1>2 DEF Row, Codes
<1>4. /\ \A x \in Requests : x # r => req'[x] = req[x]
      /\ req'[r].phase = "answered" /\ req'[r].answer = None
      /\ req'[r].version = document.version + 1 /\ req'[r].sealed = req[r].sealed
  BY <1>1, <1>3, AnswerFields DEF RotateKey
<1>5. /\ document'.version = document.version + 1
      /\ document'.ciphertext = req[r].sealed
      /\ document'.keyEpoch = householdEpoch'
      /\ revisions' = {}
  BY DEF RotateKey, RotatedDocument, RevisionsAfterRotation
<1>6. HistoryAgrees'
  BY <1>1, <1>2, <1>4, <1>5, HistoryGrows DEF RotateKey
<1>7. EpochsAgree' /\ RevisionsContiguous'
  BY <1>5 DEF EpochsAgree, RevisionsContiguous
<1>8. WaitingIsBlank'
  BY <1>1, <1>4 DEF WaitingIsBlank
<1>9. QED
  BY <1>6, <1>7, <1>8 DEF IInv

LEMMA IInvStep == IInv /\ [Next]_vars => IInv'
<1> SUFFICES ASSUME IInv, [Next]_vars PROVE IInv'
  OBVIOUS
<1> USE CiphertextAssumption
<1>1. TypeOK /\ TypeOK'
  BY TypeStep DEF IInv
<1>2. document \in Row /\ req \in [Requests -> Request] /\ revisions \subseteq Row
  BY <1>1 DEF TypeOK
<1>3. CASE UNCHANGED vars
  BY <1>3 DEF vars, IInv, TypeOK, HistoryAgrees, AnswerAgrees, Answered, Writes,
              EpochsAgree, RevisionsContiguous, WaitingIsBlank
<1>4. CASE Next
  <2>1. PICK r \in Requests :
           \/ IssueRead(r) \/ IssueWrite(r) \/ Collect(r)
           \/ Handle(r) \/ Fail(r) \/ LoseAnswer(r)
    BY <1>4 DEF Next
  <2>2. CASE IssueRead(r) \/ IssueWrite(r)
    <3>1. /\ 0 \in Nat
          /\ \A n \in 0 .. MaxVersion : n \in Nat
          /\ \A n \in 1 .. MaxVersion : n \in Nat
      BY BoundAssumption
    <3>2. QED
      BY <1>1, <2>2, <3>1, IssueKeepsIInv DEF IssueRead, IssueWrite, Kinds
  <2>3. CASE Collect(r)
    <3>1. /\ Free \in Request
          /\ Free.phase # "answered" /\ Free.answer = None
          /\ Free.version = 0 /\ Free.code = "none"
      BY FreeType DEF Free
    <3>2. QED
      BY <1>1, <2>3, <3>1, BlankStep DEF Collect
  <2>4. CASE LoadHousehold(r)
    <3> DEFINE admitted == [req[r] EXCEPT !.phase = "admitted", !.epoch = householdEpoch]
    <3>1. req[r].answer = None /\ req[r].version = 0 /\ req[r].code = "none"
      BY <2>4 DEF LoadHousehold, IInv, WaitingIsBlank
    <3>2. /\ admitted \in Request
          /\ admitted.phase # "answered" /\ admitted.answer = None
          /\ admitted.version = 0 /\ admitted.code = "none"
      <4>1. req[r] \in Request /\ householdEpoch \in Nat
        BY <1>1, <1>2 DEF TypeOK
      <4>2. /\ admitted \in Request
            /\ admitted.phase = "admitted" /\ admitted.answer = req[r].answer
            /\ admitted.version = req[r].version /\ admitted.code = req[r].code
        BY <4>1 DEF Request
      <4>3. QED
        BY <3>1, <4>2
    <3>3. req' = [req EXCEPT ![r] = admitted]
      BY <2>4 DEF LoadHousehold
    <3> HIDE DEF admitted
    <3>4. QED
      BY <1>1, <2>4, <3>2, <3>3, BlankStep DEF LoadHousehold
  <2>5. CASE GetVault(r)
    <3>1. /\ document.version \in 1 .. Len(history)
          /\ history[document.version] = document.ciphertext
      BY DEF IInv, HistoryAgrees
    <3>2. ~Writes(r)
      BY <2>5 DEF GetVault, Handling, Writes
    <3>3. /\ document.version \in Nat /\ 0 \in Nat
          /\ document.ciphertext \in Ciphertexts \cup {None}
          /\ "ok" \in Codes /\ "epoch_changed" \in Codes
      BY <1>2 DEF Row, Codes
    <3>4. CASE Answer(r, "epoch_changed", 0, None)
      BY <1>1, <2>5, <3>2, <3>3, <3>4, QuietAnswer DEF GetVault
    <3>5. CASE Answer(r, "ok", document.version, document.ciphertext)
      BY <1>1, <2>5, <3>1, <3>2, <3>3, <3>5, QuietAnswer DEF GetVault
    <3>6. QED
      BY <2>5, <3>4, <3>5 DEF GetVault
  <2>6. CASE GetRevision(r)
    <3>1. ~Writes(r) /\ "ok" \in Codes /\ "error" \in Codes /\ 0 \in Nat
      BY <2>6 DEF GetRevision, Handling, Writes, Codes
    <3>2. CASE Answer(r, "error", 0, None)
      BY <1>1, <2>6, <3>1, <3>2, QuietAnswer DEF GetRevision
    <3>3. CASE \E v \in revisions : Answer(r, "ok", v.version, v.ciphertext)
      <4>1. PICK v \in revisions : Answer(r, "ok", v.version, v.ciphertext)
        BY <3>3
      <4>2. /\ v.version \in 1 .. document.version - 1
            /\ history[v.version] = v.ciphertext
            /\ Len(history) = document.version
        BY DEF IInv, HistoryAgrees
      <4>3. v.version \in 1 .. Len(history)
        BY <1>2, <4>2 DEF Row
      <4>4. v.version \in Nat /\ v.ciphertext \in Ciphertexts \cup {None}
        BY <1>2 DEF Row
      <4>5. QED
        BY <1>1, <2>6, <3>1, <4>1, <4>2, <4>3, <4>4, QuietAnswer DEF GetRevision
    <3>4. QED
      BY <2>6, <3>2, <3>3 DEF GetRevision
  <2>7. CASE PutIsStale(r) \/ Fail(r) \/ LoseAnswer(r)
    <3>1. PICK code \in Codes : code # "ok" /\ Answer(r, code, 0, None)
      BY <2>7 DEF PutIsStale, Fail, LoseAnswer, Codes
    <3>2. QED
      BY <1>1, <2>7, <3>1, QuietAnswer DEF PutIsStale, Fail, LoseAnswer
  <2>8. CASE PutConflicts(r)
    <3>1. /\ document.version \in 1 .. Len(history)
          /\ history[document.version] = document.ciphertext
      BY DEF IInv, HistoryAgrees
    <3>2. /\ document.version \in Nat
          /\ document.ciphertext \in Ciphertexts \cup {None}
          /\ "version_conflict" \in Codes
      BY <1>2 DEF Row, Codes
    <3>3. QED
      BY <1>1, <2>8, <3>1, <3>2, QuietAnswer DEF PutConflicts
  <2>9. CASE PutVault(r)
    BY <1>1, <2>9, PutKeepsIInv
  <2>10. CASE RotateKey(r)
    BY <1>1, <2>10, RotationKeepsIInv
  <2>11. QED
    BY <2>1, <2>2, <2>3, <2>4, <2>5, <2>6, <2>7, <2>8, <2>9, <2>10 DEF Handle
<1>5. QED
  BY <1>3, <1>4

\* The argument the theorems below rest on: every answer under way, every revision
\* and the document itself are entries of the history, whatever the handlers do.
THEOREM Inductive == Spec => []IInv
BY InitIInv, IInvStep, PTL DEF Spec

-----------------------------------------------------------------------------
(* What follows from it.                                                   *)

LEMMA SightingsAreHistory ==
    ASSUME IInv, NEW s \in Sightings
    PROVE  s = <<s[1], history[s[1]]>>
BY DEF IInv, HistoryAgrees, AnswerAgrees, Sightings

\* Whatever the order in which reads, saves, retries and rotations interleave, a
\* version number is never said to be two documents (the check of PUT /vault).
THEOREM VersionsName == Spec => []VersionNamesOneDocument
<1>1. IInv => VersionNamesOneDocument
  BY SightingsAreHistory DEF VersionNamesOneDocument
<1>2. QED
  BY <1>1, Inductive, PTL

\* No save brings back an epoch that a rotation ended, and a rotation leaves no
\* revision of the old one (rotate-key and PUT /vault).
THEOREM OneEpoch == Spec => []EpochsAgree
<1>1. IInv => EpochsAgree
  BY DEF IInv
<1>2. QED
  BY <1>1, Inductive, PTL

\* The revisions kept are the versions right before the document's, none missing,
\* whoever saved, trimmed or not (PUT /vault and PUT /display/vault).
THEOREM HistoryIsWhole == Spec => []RevisionsContiguous
<1>1. IInv => RevisionsContiguous
  BY DEF IInv
<1>2. QED
  BY <1>1, Inductive, PTL

-----------------------------------------------------------------------------
(* A row is filed under the epoch its writer was admitted in.              *)

\* A step that stores nothing, and leaves no other request than r with a save to
\* be acknowledged, changes nothing about what is filed where.
LEMMA NothingFiled ==
    ASSUME FiledAsAdmitted, NEW r \in Requests, UNCHANGED <<document, revisions>>,
           \A x \in Requests : x # r => req'[x] = req[x],
           ~(req'[r].phase = "answered" /\ req'[r].code = "ok" /\ req'[r].kind = "put")
    PROVE  FiledAsAdmitted'
BY DEF FiledAsAdmitted, Answered

\* What was acknowledged before has a version of the history, so no later document
\* is taken for it.
LEMMA FiledStays ==
    ASSUME IInv, FiledAsAdmitted, NEW r \in Requests,
           \A x \in Requests : x # r => req'[x] = req[x],
           revisions' \subseteq revisions \cup {document}, document'.version = document.version + 1,
           req'[r].kind = "put" => req'[r].version = document'.version /\ req'[r].epoch = document'.keyEpoch
    PROVE  FiledAsAdmitted'
<1> SUFFICES ASSUME NEW x \in Requests, Answered(x, "ok")', req'[x].kind = "put",
                    NEW v \in revisions' \cup {document'}, v.version = req'[x].version
             PROVE  v.keyEpoch = req'[x].epoch
  BY DEF FiledAsAdmitted
<1>1. document.version \in Nat
  BY DEF IInv, HistoryAgrees
<1>2. \A w \in revisions \cup {document} : w.version \in Nat /\ w.version <= document.version
  BY <1>1 DEF IInv, HistoryAgrees
<1>3. CASE x = r
  <2>1. v = document'
    BY <1>1, <1>2, <1>3
  <2> QED BY <1>3, <2>1
<1>4. CASE x # r
  <2>1. Answered(x, "ok") /\ req[x].kind = "put" /\ req'[x] = req[x]
    BY <1>4 DEF Answered
  <2>2. req[x].version \in 1 .. document.version
    BY <2>1 DEF IInv, HistoryAgrees, AnswerAgrees, Writes
  <2>3. v \in revisions \cup {document}
    BY <1>1, <2>1, <2>2
  <2> QED BY <2>1, <2>3 DEF FiledAsAdmitted
<1> QED BY <1>3, <1>4

LEMMA FiledStep == IInv /\ FiledAsAdmitted /\ [Next]_vars => FiledAsAdmitted'
<1> SUFFICES ASSUME IInv, FiledAsAdmitted, [Next]_vars PROVE FiledAsAdmitted'
  OBVIOUS
<1>1. req \in [Requests -> Request] /\ document \in Row
  BY DEF IInv, TypeOK
<1>2. CASE UNCHANGED vars
  BY <1>2 DEF vars, FiledAsAdmitted, Answered
<1>3. ASSUME NEW r \in Requests, IssueRead(r) \/ IssueWrite(r) \/ Collect(r) \/ LoadHousehold(r)
      PROVE  FiledAsAdmitted'
  <2>1. PICK asked : req' = [req EXCEPT ![r] = asked] /\ asked.phase # "answered"
    <3>1. ASSUME NEW kind, NEW base, NEW sealed, Issue(r, kind, base, sealed)
          PROVE  \E asked : req' = [req EXCEPT ![r] = asked] /\ asked.phase # "answered"
      <4> DEFINE asked == [Free EXCEPT !.phase = "issued", !.kind = kind, !.base = base, !.sealed = sealed]
      <4>1. req' = [req EXCEPT ![r] = asked] /\ asked.phase = "issued"
        BY <3>1 DEF Issue, Free
      <4> HIDE DEF asked
      <4> QED BY <4>1
    <3>2. CASE Collect(r)
      <4>1. Free.phase = "free"
        BY DEF Free
      <4>2. req' = [req EXCEPT ![r] = Free]
        BY <3>2 DEF Collect
      <4> QED BY <4>1, <4>2
    <3>3. CASE LoadHousehold(r)
      <4> DEFINE asked == [req[r] EXCEPT !.phase = "admitted", !.epoch = householdEpoch]
      <4>1. req' = [req EXCEPT ![r] = asked]
        BY <3>3 DEF LoadHousehold
      <4>2. asked.phase = "admitted"
        BY <1>1 DEF Request
      <4> HIDE DEF asked
      <4> QED BY <4>1, <4>2
    <3> QED BY <1>3, <3>1, <3>2, <3>3 DEF IssueRead, IssueWrite
  <2>2. req'[r].phase # "answered" /\ \A x \in Requests : x # r => req'[x] = req[x]
    BY <1>1, <2>1
  <2>3. UNCHANGED <<document, revisions>>
    BY <1>3 DEF IssueRead, IssueWrite, Issue, Collect, LoadHousehold
  <2> QED BY <2>2, <2>3, NothingFiled
<1>4. ASSUME NEW r \in Requests,
             GetVault(r) \/ GetRevision(r) \/ PutIsStale(r) \/ PutConflicts(r) \/ Fail(r) \/ LoseAnswer(r)
      PROVE  FiledAsAdmitted'
  <2>1. PICK code, version, ciphertext :
            Answer(r, code, version, ciphertext) /\ (code # "ok" \/ req[r].kind # "put")
    BY <1>4 DEF GetVault, GetRevision, PutIsStale, PutConflicts, Fail, LoseAnswer, Handling
  <2>2. req'[r].code = code /\ req'[r].kind = req[r].kind /\ \A x \in Requests : x # r => req'[x] = req[x]
    BY <1>1, <2>1 DEF Answer, Request
  <2>3. UNCHANGED <<document, revisions>>
    BY <1>4 DEF GetVault, GetRevision, PutIsStale, PutConflicts, Fail, LoseAnswer
  <2> QED BY <2>1, <2>2, <2>3, NothingFiled
<1>5. ASSUME NEW r \in Requests, PutVault(r) PROVE FiledAsAdmitted'
  <2>1. Answer(r, "ok", document.version + 1, None)
    BY <1>5 DEF PutVault
  <2>2. /\ \A x \in Requests : x # r => req'[x] = req[x]
        /\ req'[r].version = document.version + 1 /\ req'[r].epoch = req[r].epoch
    BY <1>1, <2>1 DEF Answer, Request
  <2>3. document'.version = document.version + 1 /\ document'.keyEpoch = req[r].epoch
    BY <1>1, <1>5 DEF PutVault, EpochIsCurrent, Row
  <2>4. revisions' \subseteq revisions \cup {document}
    BY <1>5 DEF PutVault, RevisionsAfterPut, Archive, Trim
  <2> QED BY <2>2, <2>3, <2>4, FiledStays
<1>6. ASSUME NEW r \in Requests, RotateKey(r) PROVE FiledAsAdmitted'
  <2>1. Answer(r, "ok", document.version + 1, None) /\ req[r].kind = "rotate"
    BY <1>6 DEF RotateKey, Handling
  <2>2. req'[r].kind = "rotate" /\ \A x \in Requests : x # r => req'[x] = req[x]
    BY <1>1, <2>1 DEF Answer, Request
  <2>3. document'.version = document.version + 1 /\ revisions' = {}
    BY <1>6 DEF RotateKey, RotatedDocument, RevisionsAfterRotation
  <2> QED BY <2>2, <2>3, FiledStays
<1> QED BY <1>2, <1>3, <1>4, <1>5, <1>6 DEF Next, Handle

\* The rows of the document and of its history, none missing between, are filed under
\* the household's epoch, and each save among them was admitted in that epoch (PUT
\* /vault, PUT /display/vault and rotate-key).
THEOREM HistoryIsFiled == Spec => []RevisionsWhole
<1>1. Init => FiledAsAdmitted
  BY DEF Init, FiledAsAdmitted, Answered, Free
<1>2. EpochsAgree /\ RevisionsContiguous /\ FiledAsAdmitted => RevisionsWhole
  BY DEF RevisionsWhole
<1>3. Spec => []FiledAsAdmitted
  BY <1>1, Inductive, FiledStep, PTL DEF Spec
<1> QED
  BY <1>2, <1>3, OneEpoch, HistoryIsWhole, PTL

-----------------------------------------------------------------------------

\* What is kept of a row is its number: two revisions of one version are one.
LEMMA RowsAreNumbered ==
    ASSUME IInv, NEW v \in revisions \cup {document}, NEW w \in revisions \cup {document},
           v.version = w.version
    PROVE  v = w
<1>1. \A x \in revisions \cup {document} :
        x \in Row /\ x.keyEpoch = householdEpoch /\ x.ciphertext = history[x.version]
  BY DEF IInv, TypeOK, HistoryAgrees, EpochsAgree
<1>2. v \in Row /\ w \in Row
  BY <1>1
<1>3. v.keyEpoch = w.keyEpoch /\ v.ciphertext = w.ciphertext
  BY <1>1
<1>. QED
  BY <1>2, <1>3 DEF Row

\* A put archives the document it replaces, and trims what has enough after it.
LEMMA PutKeepsAWayBack ==
    ASSUME IInv, NEW r \in Requests, PutVault(r)
    PROVE  /\ document \in revisions' \/ VAULT_REVISIONS_KEPT = 0
           /\ \A v \in revisions \ revisions' :
                 Cardinality({w \in revisions' : w.version > v.version}) >= VAULT_REVISIONS_KEPT
<1> DEFINE K == VAULT_REVISIONS_KEPT
           V == document.version
           rows == revisions \cup {document}
<1>1. /\ document \in Row /\ V \in Nat /\ V > 0 /\ K \in Nat
      /\ \A w \in revisions : w \in Row /\ w.version \in Nat /\ 0 < w.version /\ w.version < V
  BY KeptAssumption DEF IInv, TypeOK, HistoryAgrees, Row
<1>2. Archive(revisions, document) = rows
  BY <1>1 DEF Archive
<1>3. \A w \in rows : w.version \in Nat /\ 0 < w.version /\ w.version <= V
  BY <1>1
<1>4. revisions' = rows \/ revisions' = Trim(rows)
  BY <1>2 DEF PutVault, RevisionsAfterPut
<1>5. \A w \in rows : V < w.version + K => w \in Trim(rows)
  BY <1>1, <1>3 DEF Trim
<1>6. document \in revisions' \/ K = 0
  BY <1>1, <1>4, <1>5
<1>7. ASSUME NEW v \in revisions \ revisions'
      PROVE  Cardinality({w \in revisions' : w.version > v.version}) >= K
  <2> DEFINE later == {w \in revisions' : w.version > v.version}
             run == (V - K + 1)..V
  <2>1. revisions' = Trim(rows) /\ v.version \in Nat /\ V >= v.version + K
    BY <1>1, <1>4, <1>5, <1>7
  <2>2. run \subseteq Nat /\ IsFiniteSet(run) /\ Cardinality(run) = K
    <3>1. V - K + 1 \in Nat /\ V - K + 1 \in Int /\ V \in Int
      BY <1>1, <2>1
    <3>2. IsFiniteSet(run) /\ Cardinality(run) = IF V - K + 1 > V THEN 0 ELSE V - (V - K + 1) + 1
      BY <3>1, FS_Interval
    <3>. QED
      BY <1>1, <3>1, <3>2
  <2>3. later \subseteq rows
    BY <2>1 DEF Trim
  <2>4. IsFiniteSet(later)
    <3> DEFINE number == [w \in later |-> w.version]
    <3>1. number \in [later -> 1..V]
      BY <1>1, <1>3, <2>3
    <3>2. \A w, x \in later : number[w] = number[x] => w = x
      BY <2>3, RowsAreNumbered
    <3>3. number \in Injection(later, 1..V)
      BY <3>1, <3>2 DEF Injection, IsInjective
    <3>4. IsFiniteSet(1..V)
      BY <1>1, FS_Interval
    <3>. QED
      BY <3>3, <3>4, FS_Injection
  <2>5. \A n \in run : \E w \in later : w.version = n
    <3>. SUFFICES ASSUME NEW n \in run PROVE \E w \in later : w.version = n
      OBVIOUS
    <3>1. n \in Nat /\ v.version < n /\ n <= V /\ V < n + K
      BY <1>1, <2>1, <2>2
    <3>2. \E w \in rows : w.version = n
      <4>1. CASE n = V
        BY <4>1
      <4>2. CASE n # V
        <5>1. n \in v.version .. V - 1
          BY <1>1, <2>1, <3>1, <4>2
        <5>. QED
          BY <5>1 DEF IInv, RevisionsContiguous
      <4>. QED
        BY <4>1, <4>2
    <3>. QED
      BY <1>5, <2>1, <3>1, <3>2
  <2> DEFINE numbered == [n \in run |-> CHOOSE w \in later : w.version = n]
  <2> HIDE DEF later, run
  <2>6. \A n \in run : numbered[n] \in later /\ numbered[n].version = n
    BY <2>5
  <2>7. numbered \in Injection(run, later)
    BY <2>6 DEF Injection, IsInjective
  <2>8. Cardinality(run) <= Cardinality(later)
    BY <2>4, <2>7, FS_Injection
  <2>. QED
    BY <2>2, <2>8 DEF later
<1>. QED
  BY <1>6, <1>7

\* "Somebody wiped everything" can be undone: a document is archived before it is replaced,
\* and what is archived goes with a rotation or when enough later ones are kept
\* (vault.js, PUT and its DELETE of old revisions).
THEOREM SavesCanBeUndone == Spec => RecoveryPath
<1> DEFINE Undoable ==
      /\ document' # document =>
            \/ document \in revisions'
            \/ householdEpoch' # householdEpoch
            \/ VAULT_REVISIONS_KEPT = 0
      /\ \A v \in revisions \ revisions' :
            \/ householdEpoch' # householdEpoch
            \/ Cardinality({w \in revisions' : w.version > v.version}) >= VAULT_REVISIONS_KEPT
<1>1. ASSUME IInv, [Next]_vars PROVE Undoable
  <2>1. CASE UNCHANGED <<householdEpoch, document, revisions>>
    BY <2>1
  <2>2. ASSUME NEW r \in Requests, PutVault(r) PROVE Undoable
    BY <1>1, <2>2, PutKeepsAWayBack
  <2>3. ASSUME NEW r \in Requests, RotateKey(r) PROVE Undoable
    <3>1. householdEpoch \in Nat /\ householdEpoch' = householdEpoch + 1
      BY <1>1, <2>3 DEF RotateKey, IInv, TypeOK
    <3>2. householdEpoch' # householdEpoch
      BY SMTT(30), <3>1
    <3>. QED
      BY <3>2
  <2>4. ASSUME NEW r \in Requests,
               \/ IssueRead(r) \/ IssueWrite(r) \/ Collect(r) \/ Fail(r) \/ LoseAnswer(r)
               \/ LoadHousehold(r) \/ GetVault(r) \/ GetRevision(r) \/ PutIsStale(r) \/ PutConflicts(r)
        PROVE  UNCHANGED <<householdEpoch, document, revisions>>
    BY <2>4 DEF IssueRead, IssueWrite, Issue, Collect, Fail, LoseAnswer, LoadHousehold, GetVault,
                GetRevision, PutIsStale, PutConflicts
  <2> HIDE DEF Undoable
  <2>. QED
    BY <1>1, <2>1, <2>2, <2>3, <2>4 DEF Next, Handle, vars
<1>2. IInv /\ [Next]_vars => [Undoable]_vars
  BY <1>1
<1>. QED
  BY <1>2, Inductive, PTL DEF Spec, RecoveryPath

-----------------------------------------------------------------------------
(* VaultServer implements VaultRegister.                                   *)

\* What the register sees of an answer is a return.
LEMMA AnswerReturns ==
    ASSUME TypeOK, NEW r \in Requests, NEW code \in Codes, NEW version \in Nat,
           NEW ciphertext \in Ciphertexts \cup {None},
           Answer(r, code, version, ciphertext)
    PROVE  Register!Return(r, code, version, ciphertext)
<1>1. \A x \in Requests : x # r => OpOf(x)' = OpOf(x)
  BY AnswerFields DEF OpOf
<1>2. OpOf(r)' = [phase |-> "done", kind |-> req[r].kind, base |-> req[r].base,
                  sealed |-> req[r].sealed, code |-> code, version |-> version,
                  answer |-> ciphertext]
  BY AnswerFields DEF OpOf, PhaseOfOp
<1> DEFINE returned == [OpOf(r) EXCEPT !.phase = "done", !.code = code,
                                       !.version = version, !.answer = ciphertext]
<1> DEFINE Op == [phase : {"free", "pending", "done"}, kind : Kinds \cup {"none"},
                  base : Nat, sealed : Ciphertexts \cup {None}, code : Codes,
                  version : Nat, answer : Ciphertexts \cup {None}]
<1>3. req[r] \in Request
  BY DEF TypeOK
<1>4. OpOf(r) \in Op /\ OpOf(r)' \in Op
  BY <1>2, <1>3 DEF OpOf, PhaseOfOp, Request
<1>5. /\ returned \in Op
      /\ returned.phase = "done" /\ returned.kind = OpOf(r).kind
      /\ returned.base = OpOf(r).base /\ returned.sealed = OpOf(r).sealed
      /\ returned.code = code /\ returned.version = version
      /\ returned.answer = ciphertext
  BY <1>4
<1>6. /\ OpOf(r).kind = req[r].kind /\ OpOf(r).base = req[r].base
      /\ OpOf(r).sealed = req[r].sealed
  BY DEF OpOf
<1> HIDE DEF returned
<1>7. OpOf(r)' = returned
  BY <1>2, <1>4, <1>5, <1>6
<1>8. QED
  BY <1>1, <1>7 DEF Register!Return, returned

LEMMA OpFields ==
    ASSUME TypeOK, NEW r \in Requests
    PROVE  /\ OpOf(r).kind = req[r].kind /\ OpOf(r).base = req[r].base
           /\ OpOf(r).sealed = req[r].sealed
           /\ req[r].phase = "free" => OpOf(r).phase = "free"
           /\ req[r].phase \in {"issued", "admitted"} => OpOf(r).phase = "pending"
           /\ req[r].phase = "answered" => OpOf(r).phase = "done"
BY DEF OpOf, PhaseOfOp

\* A refusal and a lost answer are refusals of the register.
LEMMA RefusalRefuses ==
    ASSUME TypeOK, NEW r \in Requests, NEW code \in {"epoch_changed", "error"},
           Answer(r, code, 0, None), req[r].phase # "free", UNCHANGED history
    PROVE  Register!Refuse(r)
<1>1. code \in Codes /\ 0 \in Nat
  BY DEF Codes
<1>2. Register!Return(r, code, 0, None)
  BY <1>1, AnswerReturns
<1>3. req[r].phase \in {"issued", "admitted", "answered"}
  BY DEF TypeOK, Request
<1>4. OpOf(r).phase # "free"
  BY <1>3, OpFields
<1>5. QED
  BY <1>2, <1>4 DEF Register!Refuse

LEMMA IssueInvokes ==
    ASSUME TypeOK, NEW r \in Requests, NEW kind \in Kinds, NEW base \in Nat,
           NEW sealed \in Ciphertexts \cup {None}, Issue(r, kind, base, sealed)
    PROVE  Register!Invoke(r)
<1> DEFINE asked == [Free EXCEPT !.phase = "issued", !.kind = kind, !.base = base,
                                 !.sealed = sealed]
<1>1. req' = [req EXCEPT ![r] = asked] /\ req[r].phase = "free" /\ history' = history
  BY DEF Issue
<1>2. req \in [Requests -> Request]
  BY DEF TypeOK
<1>3. req'[r] = asked /\ \A x \in Requests : x # r => req'[x] = req[x]
  BY <1>1, <1>2
<1>4. /\ asked.phase = "issued" /\ asked.kind = kind /\ asked.base = base
      /\ asked.sealed = sealed /\ asked.code = "none" /\ asked.version = 0
      /\ asked.answer = None
  BY FreeType DEF Free, Request
<1> HIDE DEF asked
<1>5. OpOf(r)' = [phase |-> "pending", kind |-> kind, base |-> base, sealed |-> sealed,
                  code |-> "none", version |-> 0, answer |-> None]
  BY <1>3, <1>4 DEF OpOf, PhaseOfOp
<1>6. OpOf(r)' \in Register!PendingOp
  BY <1>5 DEF Register!PendingOp, Register!Kinds, Kinds
<1>7. \A x \in Requests : x # r => OpOf(x)' = OpOf(x)
  BY <1>3 DEF OpOf
<1>8. OpOf(r).phase = "free"
  BY <1>1, OpFields
<1>9. QED
  BY <1>1, <1>6, <1>7, <1>8 DEF Register!Invoke

LEMMA InitMaps == Init => Register!Init
<1> SUFFICES ASSUME Init PROVE Register!Init
  OBVIOUS
<1>1. \A r \in Requests : OpOf(r) = Register!FreeOp
  BY DEF Init, OpOf, PhaseOfOp, Free, Register!FreeOp
<1>2. QED
  BY <1>1 DEF Init, Register!Init

LEMMA StepMaps == IInv /\ [Next]_vars => [Register!Next]_(Register!vars)
<1> SUFFICES ASSUME IInv, [Next]_vars PROVE [Register!Next]_(Register!vars)
  OBVIOUS
<1> USE CiphertextAssumption
<1>1. TypeOK
  BY DEF IInv
<1>2. document \in Row /\ req \in [Requests -> Request] /\ revisions \subseteq Row
  BY <1>1 DEF TypeOK
<1>3. /\ Register!Version = document.version
      /\ document.version \in 1 .. Len(history)
      /\ document.ciphertext = history[document.version]
  BY DEF IInv, HistoryAgrees, Register!Version
<1>4. CASE UNCHANGED vars
  BY <1>4 DEF vars, Register!vars, OpOf
<1>5. CASE Next
  <2>1. PICK r \in Requests :
           \/ IssueRead(r) \/ IssueWrite(r) \/ Collect(r)
           \/ Handle(r) \/ Fail(r) \/ LoseAnswer(r)
    BY <1>5 DEF Next
  <2>2. CASE IssueRead(r) \/ IssueWrite(r)
    <3>1. /\ 0 \in Nat
          /\ \A n \in 0 .. MaxVersion : n \in Nat
          /\ \A n \in 1 .. MaxVersion : n \in Nat
      BY BoundAssumption
    <3>2. Register!Invoke(r)
      BY <1>1, <2>2, <3>1, IssueInvokes DEF IssueRead, IssueWrite, Kinds
    <3>3. QED
      BY <3>2 DEF Register!Next
  <2>3. CASE Collect(r)
    <3>1. OpOf(r).phase = "done"
      BY <1>1, <2>3, OpFields DEF Collect
    <3>2. req'[r] = Free /\ \A x \in Requests : x # r => req'[x] = req[x]
      BY <1>2, <2>3 DEF Collect
    <3>3. OpOf(r)' = Register!FreeOp
      BY <3>2 DEF OpOf, PhaseOfOp, Free, Register!FreeOp
    <3>4. \A x \in Requests : x # r => OpOf(x)' = OpOf(x)
      BY <3>2 DEF OpOf
    <3>5. Register!Finish(r)
      BY <2>3, <3>1, <3>3, <3>4 DEF Collect, Register!Finish
    <3>6. QED
      BY <3>5 DEF Register!Next
  <2>4. CASE LoadHousehold(r)
    <3>1. req[r] \in Request /\ req[r].phase = "issued"
      BY <1>2, <2>4 DEF LoadHousehold
    <3>2. /\ req'[r] = [req[r] EXCEPT !.phase = "admitted", !.epoch = householdEpoch]
          /\ \A x \in Requests : x # r => req'[x] = req[x]
      BY <1>2, <2>4 DEF LoadHousehold
    <3>3. OpOf(r)' = OpOf(r)
      BY <3>1, <3>2 DEF OpOf, PhaseOfOp, Request
    <3>4. \A x \in Requests : OpOf(x)' = OpOf(x)
      BY <3>2, <3>3 DEF OpOf
    <3>5. QED
      BY <2>4, <3>4 DEF LoadHousehold, Register!vars
  <2>5. CASE GetVault(r)
    <3>1. OpOf(r).phase = "pending" /\ OpOf(r).kind = "get" /\ req[r].phase # "free"
      BY <1>1, <2>5, OpFields DEF GetVault, Handling
    <3>2. CASE Answer(r, "epoch_changed", 0, None)
      BY <1>1, <2>5, <3>1, <3>2, RefusalRefuses DEF GetVault, Register!Next
    <3>3. CASE Answer(r, "ok", document.version, document.ciphertext)
      <4>1. /\ document.version \in Nat /\ "ok" \in Codes
            /\ document.ciphertext \in Ciphertexts \cup {None}
        BY <1>2 DEF Row, Codes
      <4>2. Register!Return(r, "ok", document.version, history[document.version])
        BY <1>1, <1>3, <3>3, <4>1, AnswerReturns
      <4>3. document.version \in 1 .. Register!Version
        BY <1>3 DEF Register!Version
      <4>4. Register!Read(r)
        BY <1>3, <2>5, <3>1, <4>2, <4>3 DEF GetVault, Register!Read
      <4>5. QED
        BY <4>4 DEF Register!Next
    <3>4. QED
      BY <2>5, <3>2, <3>3 DEF GetVault
  <2>6. CASE GetRevision(r)
    <3>1. /\ OpOf(r).phase = "pending" /\ OpOf(r).kind = "revision"
          /\ OpOf(r).base = req[r].base /\ req[r].phase # "free"
      BY <1>1, <2>6, OpFields DEF GetRevision, Handling
    <3>2. CASE Answer(r, "error", 0, None)
      BY <1>1, <2>6, <3>1, <3>2, RefusalRefuses DEF GetRevision, Register!Next
    <3>3. CASE \E v \in revisions :
                  v.version = req[r].base /\ Answer(r, "ok", v.version, v.ciphertext)
      <4>1. PICK v \in revisions :
                  v.version = req[r].base /\ Answer(r, "ok", v.version, v.ciphertext)
        BY <3>3
      <4>2. /\ v.version \in 1 .. document.version - 1
            /\ history[v.version] = v.ciphertext
        BY DEF IInv, HistoryAgrees
      <4>3. /\ v.version \in Nat /\ "ok" \in Codes
            /\ v.ciphertext \in Ciphertexts \cup {None}
        BY <1>2 DEF Row, Codes
      <4>4. Register!Return(r, "ok", v.version, history[v.version])
        BY <1>1, <4>1, <4>2, <4>3, AnswerReturns
      <4>5. v.version \in 1 .. Register!Version
        BY <1>2, <1>3, <4>2 DEF Row
      <4>6. Register!Read(r)
        BY <2>6, <3>1, <4>1, <4>4, <4>5 DEF GetRevision, Register!Read
      <4>7. QED
        BY <4>6 DEF Register!Next
    <3>4. QED
      BY <2>6, <3>2, <3>3 DEF GetRevision
  <2>7. CASE PutIsStale(r) \/ Fail(r) \/ LoseAnswer(r)
    <3>1. req[r].phase # "free" /\ history' = history
      BY <2>7 DEF PutIsStale, Fail, LoseAnswer, Handling
    <3>2. PICK code \in {"epoch_changed", "error"} : Answer(r, code, 0, None)
      BY <2>7 DEF PutIsStale, Fail, LoseAnswer
    <3>3. QED
      BY <1>1, <3>1, <3>2, RefusalRefuses DEF Register!Next
  <2>8. CASE PutConflicts(r)
    <3>1. /\ OpOf(r).phase = "pending" /\ OpOf(r).kind = "put"
          /\ OpOf(r).base = req[r].base
      BY <1>1, <2>8, OpFields DEF PutConflicts, Handling
    <3>2. /\ document.version \in Nat /\ "version_conflict" \in Codes
          /\ document.ciphertext \in Ciphertexts \cup {None}
      BY <1>2 DEF Row, Codes
    <3>3. Register!Return(r, "version_conflict", document.version, history[document.version])
      BY <1>1, <1>3, <2>8, <3>2, AnswerReturns DEF PutConflicts
    <3>4. Register!Conflict(r)
      BY <1>3, <2>8, <3>1, <3>3 DEF PutConflicts, BaseIsCurrent, Register!Conflict
    <3>5. QED
      BY <3>4 DEF Register!Next
  <2>9. CASE PutVault(r)
    <3>1. /\ OpOf(r).phase = "pending" /\ OpOf(r).kind = "put"
          /\ OpOf(r).base = req[r].base /\ OpOf(r).sealed = req[r].sealed
      BY <1>1, <2>9, OpFields DEF PutVault, Handling
    <3>2. document.version + 1 \in Nat /\ "ok" \in Codes
      BY <1>2 DEF Row, Codes
    <3>3. Register!Return(r, "ok", document.version + 1, None)
      BY <1>1, <2>9, <3>2, AnswerReturns DEF PutVault
    <3>4. Register!Write(r)
      BY <1>3, <2>9, <3>1, <3>3 DEF PutVault, BaseIsCurrent, Register!Write
    <3>5. QED
      BY <3>4 DEF Register!Next
  <2>10. CASE RotateKey(r)
    <3>1. /\ OpOf(r).phase = "pending" /\ OpOf(r).kind = "rotate"
          /\ OpOf(r).sealed = req[r].sealed
      BY <1>1, <2>10, OpFields DEF RotateKey, Handling
    <3>2. document.version + 1 \in Nat /\ "ok" \in Codes
      BY <1>2 DEF Row, Codes
    <3>3. Register!Return(r, "ok", document.version + 1, None)
      BY <1>1, <2>10, <3>2, AnswerReturns DEF RotateKey
    <3>4. Register!Replace(r)
      BY <1>3, <2>10, <3>1, <3>3 DEF RotateKey, Register!Replace
    <3>5. QED
      BY <3>4 DEF Register!Next
  <2>11. QED
    BY <2>1, <2>2, <2>3, <2>4, <2>5, <2>6, <2>7, <2>8, <2>9, <2>10 DEF Handle
<1>6. QED
  BY <1>4, <1>5

\* To its clients the vault is one numbered log of documents with compare-and-swap
\* writes: epochs, middleware, revisions and their trimming do not show.
THEOREM Implements == Spec => ImplementsRegister
BY InitMaps, StepMaps, Inductive, PTL DEF Spec, ImplementsRegister, Register!Spec

=============================================================================

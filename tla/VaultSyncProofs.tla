--------------------------- MODULE VaultSyncProofs ----------------------------
(***************************************************************************)
(* Theorems about VaultSync, for any number of devices, of saves each has  *)
(* in flight and of rows, whatever happens to the page in between.         *)
(*                                                                         *)
(* What a save has to have is said of every document in memory: it         *)
(* contains the rows of the stored version it is based on, save those      *)
(* deleted since (Took).  The server's history is what relates a version   *)
(* to its rows, so the invariant of VaultServerProofs is part of this one; *)
(* that it holds here follows from the refinement: all that the devices do *)
(* to the server is ask and collect.                                       *)
(***************************************************************************)
EXTENDS VaultSync, TLAPS

Proven == INSTANCE VaultServerProofs
    WITH Requests <- Slots,
         DisplayRequests <- Displays \X (SaveJobs \cup {"load"}),
         Ciphertexts <- Sealed,
         Founding <- Seal(1, 1, {})

SaveSlots == Clients \X SaveJobs
Docs == [rows : SUBSET Rows, basis : Nat]

AppRecord == [data : Docs, latest : Docs, dirty : BOOLEAN, timer : BOOLEAN]
LoadRecord == [phase : {"idle", "waiting", "opened"},
               cause : {"none", "initial", "poll", "calendars"}, doc : Docs]
SaveRecord == [phase : {"idle", "sealing", "waiting"},
               doc : Docs, key : Nat, next : Nat, onScreen : BOOLEAN]
RotationRecord == [phase : {"idle", "reading", "sealing", "waiting"}, doc : Docs]

MemoryTypes ==
    /\ session \in [Clients -> [key : Nat, version : Nat]]
    /\ app \in [Clients -> AppRecord]
    /\ load \in [Clients -> LoadRecord]
    /\ save \in [SaveSlots -> SaveRecord]
    /\ rotation \in RotationRecord
    /\ created \subseteq Rows

\* Nothing goes beyond the bounds, so what is sealed is something one can send.
WithinBounds == householdEpoch \in 1 .. MaxEpoch /\ document.version <= MaxVersion

\* Which requests each slot is for.
KindsOf(r) ==
    IF r = RotateSlot THEN {"get", "rotate"} ELSE IF r[2] = "load" THEN {"get"} ELSE {"put"}

\* A document comes with the answers that say so.
Asks(r) ==
    /\ req[r].phase # "free" => req[r].kind \in KindsOf(r)
    /\ req[r].phase = "answered" /\ req[r].code = "version_conflict" => req[r].answer # None
    /\ req[r].phase = "answered" /\ req[r].code = "ok" /\ req[r].kind = "get" => req[r].answer # None

\* The rotation's request is the only one that raises the epoch.
Rotates ==
    /\ req[RotateSlot].phase \in {"issued", "admitted"} /\ req[RotateSlot].kind = "rotate"
          => householdEpoch < MaxEpoch
    /\ rotation.phase = "reading" => req[RotateSlot].phase # "free" /\ req[RotateSlot].kind = "get"
    /\ rotation.phase = "sealing" => rotation.doc.basis <= document.version

Took(d, stored, gone) ==
    /\ d.basis <= Len(stored)
    /\ d.basis > 0 => stored[d.basis].rows \ gone \subseteq d.rows

InHand(c) ==
    /\ session[c].key \in 1 .. householdEpoch /\ session[c].version <= document.version
    /\ Took(app[c].data, history, deleted) /\ Took(app[c].latest, history, deleted) /\ Took(load[c].doc, history, deleted)

\* What a save holds, what is on the way for it, and, as long as the screen was
\* edited from it, what the screen and the next save have of it.
Holds(s) ==
    /\ Took(save[s].doc, history, deleted)
    /\ save[s].phase = "idle" => save[s] = IdleSave
    /\ save[s].phase = "sealing" =>
          /\ save[s].key \in 1 .. householdEpoch /\ save[s].next \in 1 .. document.version + 1
          /\ req[s].phase = "free"
    /\ save[s].phase = "waiting" => req[s].phase # "free" /\ req[s].sealed.rows = save[s].doc.rows
    /\ save[s].onScreen =>
          /\ save[s].doc.rows \ deleted \subseteq app[s[1]].data.rows
          /\ save[s].doc.rows \ deleted \subseteq app[s[1]].latest.rows

SyncInv ==
    /\ Proven!IInv /\ MemoryTypes /\ WithinBounds /\ Rotates
    /\ \A r \in Slots : Asks(r)
    /\ \A c \in Clients : InHand(c)
    /\ \A s \in SaveSlots : Holds(s)

-----------------------------------------------------------------------------
(* The server's half.                                                      *)

LEMMA SlotsAre ==
    /\ \A s \in SaveSlots : s \in Slots /\ s # RotateSlot /\ KindsOf(s) = {"put"}
    /\ \A c \in Clients : /\ <<c, "load">> \in Slots /\ <<c, "load">> # RotateSlot
                           /\ <<c, "load">> \notin SaveSlots /\ KindsOf(<<c, "load">>) = {"get"}
    /\ RotateSlot \in Slots /\ RotateSlot \notin SaveSlots /\ KindsOf(RotateSlot) = {"get", "rotate"}
    /\ RotateSlot \notin Displays \X (SaveJobs \cup {"load"})
BY SlotAssumption DEF SaveSlots, Slots, RotateSlot, KindsOf

LEMMA ServerAssumptions ==
    /\ Proven!DisplaysMakeRequests /\ Proven!CiphertextAssumption
    /\ Proven!KeptAssumption /\ Proven!BoundAssumption
<1>1. Displays \X (SaveJobs \cup {"load"}) \subseteq Slots
  BY SlotAssumption DEF Slots
<1>2. Seal(1, 1, {}) \in Sealed
  BY NumberAssumption DEF Seal, Sealed
<1>. QED
  BY <1>1, <1>2, NumberAssumption, NoneAssumption
     DEF Proven!DisplaysMakeRequests, Proven!CiphertextAssumption, Proven!KeptAssumption, Proven!BoundAssumption

\* The two instances are of one module.
LEMMA OneServer ==
    ASSUME NEW r \in Slots
    PROVE  /\ Server!Collect(r) <=> Proven!Collect(r)
           /\ Server!Handle(r) <=> Proven!Handle(r)
           /\ Server!Fail(r) <=> Proven!Fail(r)
           /\ Server!LoseAnswer(r) <=> Proven!LoseAnswer(r)
           /\ \A code : Server!Answered(r, code) <=> Proven!Answered(r, code)
<1>1. /\ Server!LoadHousehold(r) <=> Proven!LoadHousehold(r)
      /\ Server!GetVault(r) <=> Proven!GetVault(r)
      /\ Server!GetRevision(r) <=> Proven!GetRevision(r)
  BY DEF Server!LoadHousehold, Proven!LoadHousehold, Server!GetVault, Proven!GetVault,
         Server!GetRevision, Proven!GetRevision, Server!Handling, Proven!Handling,
         Server!Answer, Proven!Answer
<1>2. /\ Server!PutIsStale(r) <=> Proven!PutIsStale(r)
      /\ Server!PutConflicts(r) <=> Proven!PutConflicts(r)
  BY DEF Server!PutIsStale, Proven!PutIsStale, Server!PutConflicts, Proven!PutConflicts,
         Server!Handling, Proven!Handling, Server!Answer, Proven!Answer,
         Server!EpochIsCurrent, Proven!EpochIsCurrent, Server!BaseIsCurrent, Proven!BaseIsCurrent
<1>3. Server!PutVault(r) <=> Proven!PutVault(r)
  BY DEF Server!PutVault, Proven!PutVault, Server!Handling, Proven!Handling, Server!Answer, Proven!Answer,
         Server!EpochIsCurrent, Proven!EpochIsCurrent, Server!BaseIsCurrent, Proven!BaseIsCurrent,
         Server!RevisionsAfterPut, Proven!RevisionsAfterPut, Server!Trim, Proven!Trim,
         Server!Archive, Proven!Archive
<1>4. Server!RotateKey(r) <=> Proven!RotateKey(r)
  BY DEF Server!RotateKey, Proven!RotateKey, Server!Handling, Proven!Handling, Server!Answer, Proven!Answer,
         Server!RotatedDocument, Proven!RotatedDocument,
         Server!RevisionsAfterRotation, Proven!RevisionsAfterRotation
<1>5. Server!Collect(r) <=> Proven!Collect(r)
  BY DEF Server!Collect, Proven!Collect, Server!Free, Proven!Free
<1>6. Server!Fail(r) <=> Proven!Fail(r)
  BY DEF Server!Fail, Proven!Fail, Server!Answer, Proven!Answer
<1>7. Server!LoseAnswer(r) <=> Proven!LoseAnswer(r)
  BY DEF Server!LoseAnswer, Proven!LoseAnswer, Server!Answer, Proven!Answer
<1>8. \A code : Server!Answered(r, code) <=> Proven!Answered(r, code)
  BY DEF Server!Answered, Proven!Answered
<1>. QED
  BY <1>1, <1>2, <1>3, <1>4, <1>5, <1>6, <1>7, <1>8 DEF Server!Handle, Proven!Handle

\* What the devices ask for is something one may ask for.
LEMMA AskingIsAStep ==
    ASSUME NEW r \in Slots,
           \/ Server!Issue(r, "get", 0, None)
           \/ \E base \in 0 .. MaxVersion, sealed \in Sealed : Server!Issue(r, "put", base, sealed)
           \/ \E sealed \in Sealed : Server!Issue(r, "rotate", 0, sealed)
    PROVE  Proven!Next
<1>1. ASSUME NEW kind, NEW base, NEW sealed, Server!Issue(r, kind, base, sealed)
      PROVE  Proven!Issue(r, kind, base, sealed)
  BY <1>1 DEF Server!Issue, Proven!Issue, Server!Free, Proven!Free, Server!DisplayKinds, Proven!DisplayKinds
<1>. QED
  BY <1>1 DEF Proven!Next, Proven!IssueRead, Proven!IssueWrite

LEMMA AnsweringIsAStep ==
    ASSUME NEW r \in Slots,
           Server!Collect(r) \/ Server!Handle(r) \/ Server!Fail(r) \/ Server!LoseAnswer(r)
    PROVE  Proven!Next
BY OneServer DEF Proven!Next

LEMMA SealedIs ==
    ASSUME NEW key \in 1 .. MaxEpoch + 1, NEW version \in 1 .. MaxVersion + 1, NEW rows \in SUBSET Rows
    PROVE  Seal(key, version, rows) \in Sealed
BY DEF Seal, Sealed

\* All that a device or a rotation does to the server is ask and collect.
LEMMA DevicesOnlyAsk ==
    ASSUME SyncInv, [Next]_vars
    PROVE  [Proven!Next]_(Proven!vars)
<1> USE DEF Proven!vars
<1> DEFINE Same == UNCHANGED <<householdEpoch, document, revisions, history, req>>
<1>1. ASSUME NEW c \in Clients, User(c) \/ Poll(c) \/ LoadStep(c) PROVE Proven!Next \/ Same
  <2>1. <<c, "load">> \in Slots
    BY SlotsAre
  <2>2. CASE AddRow(c) \/ DeleteRow(c) \/ ApplyLoad(c) \/ \E j \in SaveJobs : PageHides(c, j) \/ SaveNow(c, j)
    BY <2>2 DEF AddRow, DeleteRow, ApplyLoad, PageHides, SaveNow, Flush, serverVars
  <2>3. CASE SyncCalendars(c) \/ Reload(c) \/ Poll(c)
    BY <2>1, <2>3, AskingIsAStep DEF SyncCalendars, Reload, Poll, StartLoad
  <2>4. CASE LoadAnswered(c) \/ LoadFailed(c)
    BY <2>1, <2>4, AnsweringIsAStep DEF LoadAnswered, LoadFailed
  <2>. QED
    BY <1>1, <2>2, <2>3, <2>4 DEF User, LoadStep
<1>2. ASSUME NEW c \in Clients, NEW j \in SaveJobs, SaveStep(c, j) PROVE Proven!Next \/ Same
  <2>1. <<c, j>> \in Slots /\ <<c, j>> \in SaveSlots
    BY SlotsAre DEF SaveSlots
  <2>2. CASE TimerFires(c, j)
    BY <2>2 DEF TimerFires, Flush, serverVars
  <2>3. CASE Abandoned(c, j) \/ PutAccepted(c, j) \/ PutConflicted(c, j) \/ PutFailed(c, j)
    BY <2>1, <2>3, AnsweringIsAStep DEF Abandoned, PutAccepted, PutConflicted, PutFailed
  <2>4. CASE SendPut(c, j)
    <3> DEFINE s == save[<<c, j>>]
    <3>1. s \in SaveRecord /\ s.phase = "sealing"
      BY <2>1, <2>4 DEF SyncInv, MemoryTypes, SendPut
    <3>2. /\ s.key \in 1 .. householdEpoch /\ s.next \in 1 .. document.version + 1
          /\ householdEpoch \in 1 .. MaxEpoch /\ document.version <= MaxVersion
          /\ session[c].version <= document.version /\ session[c].version \in Nat
          /\ document.version \in Nat
      BY <2>1, <3>1 DEF SyncInv, WithinBounds, Holds, InHand, MemoryTypes, Proven!IInv, Proven!HistoryAgrees
    <3>3. Seal(s.key, s.next, s.doc.rows) \in Sealed
      <4>1. s.key \in 1 .. MaxEpoch + 1 /\ s.next \in 1 .. MaxVersion + 1
        BY <3>2, NumberAssumption
      <4>. QED
        BY <3>1, <4>1, SealedIs DEF SaveRecord, Docs
    <3>4. session[c].version \in 0 .. MaxVersion
      BY <3>2, NumberAssumption
    <3>. QED
      BY <2>1, <2>4, <3>3, <3>4, AskingIsAStep DEF SendPut
  <2>. QED
    BY <1>2, <2>2, <2>3, <2>4 DEF SaveStep
<1>3. CASE RotationStep
  <2>1. RotateSlot \in Slots
    BY SlotsAre
  <2>2. CASE RotationReads
    BY <2>1, <2>2, AskingIsAStep DEF RotationReads
  <2>3. CASE RotationSeals \/ RotationEnds
    BY <2>1, <2>3, AnsweringIsAStep DEF RotationSeals, RotationEnds
  <2>4. CASE RotationSends
    <3>1. /\ rotation.doc.basis <= document.version /\ rotation.doc \in Docs
          /\ householdEpoch \in 1 .. MaxEpoch /\ document.version <= MaxVersion /\ document.version \in Nat
      BY <2>4 DEF SyncInv, MemoryTypes, WithinBounds, Rotates, RotationSends, RotationRecord,
                  Proven!IInv, Proven!HistoryAgrees
    <3>2. householdEpoch + 1 \in 1 .. MaxEpoch + 1 /\ rotation.doc.basis + 1 \in 1 .. MaxVersion + 1
      BY <3>1, NumberAssumption DEF Docs
    <3>3. Seal(householdEpoch + 1, rotation.doc.basis + 1, rotation.doc.rows) \in Sealed
      BY <3>1, <3>2, SealedIs DEF Docs
    <3>. QED
      BY <2>1, <2>4, <3>3, AskingIsAStep DEF RotationSends
  <2>. QED
    BY <1>3, <2>2, <2>3, <2>4 DEF RotationStep
<1>4. ASSUME NEW r \in Slots, ServerStep(r) \/ Fault(r) PROVE Proven!Next
  BY <1>4, AnsweringIsAStep DEF ServerStep, Fault
<1>5. CASE UNCHANGED vars
  BY <1>5 DEF vars, serverVars
<1>. QED
  BY <1>1, <1>2, <1>3, <1>4, <1>5 DEF Next

LEMMA ServerGoesOn ==
    ASSUME SyncInv, [Next]_vars
    PROVE  Proven!IInv'
<1>1. Proven!IInv
  BY DEF SyncInv
<1>. QED
  BY <1>1, DevicesOnlyAsk, ServerAssumptions, Proven!IInvStep

LEMMA ServerIs ==
    ASSUME SyncInv
    PROVE  /\ req \in [Slots -> Proven!Request] /\ history \in Seq(Sealed)
           /\ document.version \in Nat \ {0} /\ Len(history) = document.version
           /\ history[document.version] = document.ciphertext
           /\ document \in Proven!Row /\ householdEpoch \in 1 .. MaxEpoch /\ householdEpoch \in Nat
           /\ revisions \subseteq Proven!Row
BY NumberAssumption DEF SyncInv, WithinBounds, Proven!IInv, Proven!TypeOK, Proven!HistoryAgrees

\* What a step may do to the store: add to it.
StoreGoesOn ==
    /\ Len(history') \in Nat /\ Len(history) <= Len(history')
    /\ \A n \in 1 .. Len(history) : history'[n] = history[n]
    /\ document'.version \in Nat /\ document.version <= document'.version
    /\ householdEpoch' \in Nat /\ householdEpoch <= householdEpoch'

\* Each of the server's operations, as the devices see it.
LEMMA IssueIs ==
    ASSUME SyncInv, NEW r \in Slots, NEW kind, NEW base, NEW sealed, Server!Issue(r, kind, base, sealed)
    PROVE  /\ UNCHANGED <<householdEpoch, document, revisions, history>>
           /\ req[r].phase = "free" /\ req'[r].phase = "issued" /\ req'[r].kind = kind
           /\ req'[r].sealed = sealed /\ req'[r].base = base
           /\ \A x \in Slots : x # r => req'[x] = req[x]
           /\ kind = "rotate" => householdEpoch < MaxEpoch
<1>1. req \in [Slots -> Proven!Request]
  BY ServerIs
<1>. QED
  BY <1>1 DEF Server!Issue, Server!Free

LEMMA CollectIs ==
    ASSUME SyncInv, NEW r \in Slots, Server!Collect(r)
    PROVE  /\ UNCHANGED <<householdEpoch, document, revisions, history>>
           /\ req[r].phase = "answered" /\ req'[r].phase = "free"
           /\ \A x \in Slots : x # r => req'[x] = req[x]
<1>1. req \in [Slots -> Proven!Request]
  BY ServerIs
<1>. QED
  BY <1>1 DEF Server!Collect, Server!Free

LEMMA QuietGoesOn ==
    ASSUME SyncInv, UNCHANGED <<householdEpoch, document, revisions, history>>
    PROVE  StoreGoesOn
BY ServerIs DEF StoreGoesOn

\* What an answer leaves of a request.
LEMMA AnswerIs ==
    ASSUME SyncInv, NEW r \in Slots, NEW code, NEW version, NEW answer, Server!Answer(r, code, version, answer)
    PROVE  /\ \A x \in Slots : x # r => req'[x] = req[x]
           /\ req'[r].phase = "answered" /\ req'[r].code = code /\ req'[r].answer = answer
           /\ req'[r].kind = req[r].kind /\ req'[r].sealed = req[r].sealed
<1>1. req \in [Slots -> Proven!Request] /\ req[r] \in Proven!Request
  BY ServerIs
<1>. QED
  BY <1>1 DEF Server!Answer, Proven!Request

\* What a handler, a failure or a lost answer does to its own request.
Answers(r) ==
    /\ \A x \in Slots : x # r => req'[x] = req[x]
    /\ req[r].phase # "free" /\ req'[r].phase \in {"admitted", "answered"}
    /\ req'[r].kind = req[r].kind /\ req'[r].sealed = req[r].sealed
    /\ req'[r].phase = "answered" /\ req'[r].code = "version_conflict" => req'[r].answer # None
    /\ req'[r].phase = "answered" /\ req'[r].code = "ok" /\ req'[r].kind = "get" => req'[r].answer # None
    /\ \/ UNCHANGED householdEpoch /\ req'[r].phase = "admitted" /\ req[r].phase = "issued"
       \/ UNCHANGED householdEpoch /\ req'[r].phase = "answered"
       \/ /\ req[r].phase = "admitted" /\ req[r].kind = "rotate" /\ householdEpoch' = householdEpoch + 1
          /\ req'[r].phase = "answered"
    /\ document'.version <= MaxVersion /\ StoreGoesOn

LEMMA HandlersAnswer ==
    ASSUME SyncInv, NEW r \in Slots, Server!Handle(r) \/ Server!Fail(r) \/ Server!LoseAnswer(r)
    PROVE  Answers(r)
<1>1. /\ req \in [Slots -> Proven!Request] /\ req[r] \in Proven!Request
      /\ document.ciphertext # None /\ document.version \in Nat /\ document.version <= MaxVersion
      /\ \A v \in revisions : v.ciphertext # None
  BY ServerIs, NoneAssumption DEF Proven!Row, SyncInv, WithinBounds
<1>2. CASE Server!LoadHousehold(r)
  <2>1. StoreGoesOn
    BY <1>2, QuietGoesOn DEF Server!LoadHousehold
  <2>. QED
    BY <1>1, <1>2, <2>1 DEF Answers, Server!LoadHousehold, Proven!Request
<1>3. ASSUME NEW code, NEW version, NEW answer, Server!Answer(r, code, version, answer),
             UNCHANGED <<householdEpoch, document, revisions, history>>, req[r].phase # "free",
             code = "version_conflict" => answer # None,
             code = "ok" /\ req[r].kind = "get" => answer # None
      PROVE  Answers(r)
  <2>1. StoreGoesOn
    BY <1>3, QuietGoesOn
  <2>. QED
    BY <1>1, <1>3, <2>1, AnswerIs DEF Answers
<1>4. CASE Server!GetVault(r) \/ Server!GetRevision(r)
  BY <1>1, <1>3, <1>4 DEF Server!GetVault, Server!GetRevision, Server!Handling
<1>5. CASE Server!PutIsStale(r) \/ Server!PutConflicts(r)
  BY <1>1, <1>3, <1>5 DEF Server!PutIsStale, Server!PutConflicts, Server!Handling
<1>6. CASE Server!Fail(r) \/ Server!LoseAnswer(r)
  BY <1>3, <1>6 DEF Server!Fail, Server!LoseAnswer
<1>7. ASSUME NEW sealed, history' = Append(history, sealed), document'.version = document.version + 1,
             householdEpoch' \in {householdEpoch, householdEpoch + 1}
      PROVE  StoreGoesOn
  BY <1>7, ServerIs DEF StoreGoesOn
<1>8. CASE Server!PutVault(r)
  <2>1. document'.version = document.version + 1 /\ document.version < MaxVersion /\ householdEpoch' = householdEpoch
    BY <1>8, ServerIs DEF Server!PutVault, Proven!Row
  <2>2. StoreGoesOn
    BY <1>7, <1>8, <2>1 DEF Server!PutVault
  <2>3. req[r].kind = "put" /\ req[r].phase = "admitted" /\ Server!Answer(r, "ok", document.version + 1, None)
    BY <1>8 DEF Server!PutVault, Server!Handling
  <2>. QED
    BY <1>1, <2>1, <2>2, <2>3, AnswerIs, NumberAssumption DEF Answers
<1>9. CASE Server!RotateKey(r)
  <2>1. document'.version = document.version + 1 /\ document.version < MaxVersion /\ householdEpoch' = householdEpoch + 1
    BY <1>9, ServerIs DEF Server!RotateKey, Server!RotatedDocument
  <2>2. StoreGoesOn
    BY <1>7, <1>9, <2>1 DEF Server!RotateKey
  <2>3. req[r].kind = "rotate" /\ req[r].phase = "admitted" /\ Server!Answer(r, "ok", document.version + 1, None)
    BY <1>9 DEF Server!RotateKey, Server!Handling
  <2>. QED
    BY <1>1, <2>1, <2>2, <2>3, AnswerIs, NumberAssumption DEF Answers
<1>. QED
  BY <1>2, <1>4, <1>5, <1>6, <1>8, <1>9 DEF Server!Handle

-----------------------------------------------------------------------------
(* What stays.                                                             *)

LEMMA TookStays ==
    ASSUME SyncInv, StoreGoesOn, deleted \subseteq deleted', NEW d \in Docs, Took(d, history, deleted)
    PROVE  Took(d, history', deleted')
<1>1. d.basis \in Nat /\ Len(history) \in Nat
  BY ServerIs DEF Docs
<1>2. d.basis <= Len(history')
  BY <1>1 DEF Took, StoreGoesOn
<1>3. ASSUME d.basis > 0 PROVE history'[d.basis].rows \ deleted' \subseteq d.rows
  <2>1. d.basis \in 1 .. Len(history)
    BY <1>1, <1>3 DEF Took
  <2>. QED
    BY <1>3, <2>1 DEF Took, StoreGoesOn
<1>. QED
  BY <1>2, <1>3 DEF Took

LEMMA SignedStays ==
    ASSUME SyncInv, StoreGoesOn, NEW c \in Clients, session'[c] = session[c]
    PROVE  session'[c].key \in 1 .. householdEpoch' /\ session'[c].version <= document'.version
<1>1. session[c].key \in 1 .. householdEpoch /\ session[c].version <= document.version
      /\ session[c].version \in Nat
  BY DEF SyncInv, InHand, MemoryTypes
<1>. QED
  BY <1>1, ServerIs DEF StoreGoesOn

LEMMA ClientStays ==
    ASSUME SyncInv, StoreGoesOn, deleted \subseteq deleted', NEW c \in Clients,
           app'[c] = app[c], load'[c] = load[c], session'[c] = session[c]
    PROVE  InHand(c)'
<1>1. app[c].data \in Docs /\ app[c].latest \in Docs /\ load[c].doc \in Docs /\ InHand(c)
  BY DEF SyncInv, MemoryTypes, AppRecord, LoadRecord
<1>. QED
  BY <1>1, TookStays, SignedStays DEF InHand, Took

LEMMA SaveStays ==
    ASSUME SyncInv, StoreGoesOn, deleted \subseteq deleted', NEW s \in SaveSlots,
           save'[s] = save[s], req'[s].sealed = req[s].sealed,
           req'[s].phase = "free" <=> req[s].phase = "free",
           save[s].onScreen =>
              /\ app[s[1]].data.rows \ deleted' \subseteq app'[s[1]].data.rows
              /\ \/ app[s[1]].data.rows \ deleted' \subseteq app'[s[1]].latest.rows
                 \/ app[s[1]].latest.rows \ deleted' \subseteq app'[s[1]].latest.rows
    PROVE  Holds(s)'
<1>1. Holds(s) /\ save[s] \in SaveRecord /\ save[s].doc \in Docs /\ save[s].next \in Nat /\ save[s].key \in Nat
  BY DEF SyncInv, MemoryTypes, SaveRecord
<1>2. Took(save[s].doc, history', deleted')
  BY <1>1, TookStays DEF Holds, Took
<1>3. save[s].phase = "sealing" =>
          save[s].key \in 1 .. householdEpoch' /\ save[s].next \in 1 .. document'.version + 1
  BY <1>1, ServerIs DEF Holds, StoreGoesOn
<1>. QED
  BY <1>1, <1>2, <1>3 DEF Holds

\* The server's requests when nothing is asked, answered or collected.
LEMMA QuietRequests ==
    ASSUME SyncInv, UNCHANGED serverVars, rotation' = rotation
    PROVE  StoreGoesOn /\ WithinBounds' /\ Rotates' /\ \A r \in Slots : Asks(r)'
<1>1. StoreGoesOn
  BY QuietGoesOn DEF serverVars
<1>. QED
  BY <1>1 DEF SyncInv, WithinBounds, Rotates, Asks, serverVars

\* The same when one of the devices' slots is asked for something, or emptied.
LEMMA SlotMoves ==
    ASSUME SyncInv, NEW r \in Slots, r # RotateSlot, rotation' = rotation,
           UNCHANGED <<householdEpoch, document, revisions, history>>,
           \A x \in Slots : x # r => req'[x] = req[x],
           req'[r].phase = "free" \/ (req'[r].phase = "issued" /\ req'[r].kind \in KindsOf(r))
    PROVE  StoreGoesOn /\ WithinBounds' /\ Rotates' /\ \A x \in Slots : Asks(x)'
<1>1. StoreGoesOn
  BY QuietGoesOn
<1>2. Rotates' /\ WithinBounds'
  BY SlotsAre DEF SyncInv, WithinBounds, Rotates
<1>3. ASSUME NEW x \in Slots PROVE Asks(x)'
  BY <1>3 DEF SyncInv, Asks
<1>. QED
  BY <1>1, <1>2, <1>3

LEMMA MemoryIs ==
    ASSUME SyncInv
    PROVE  /\ session \in [Clients -> [key : Nat, version : Nat]]
           /\ app \in [Clients -> AppRecord] /\ load \in [Clients -> LoadRecord]
           /\ save \in [SaveSlots -> SaveRecord] /\ rotation \in RotationRecord /\ created \subseteq Rows
           /\ \A c \in Clients : InHand(c) /\ app[c].data \in Docs /\ app[c].latest \in Docs /\ load[c].doc \in Docs
           /\ \A s \in SaveSlots : Holds(s) /\ save[s].doc \in Docs
BY DEF SyncInv, MemoryTypes, AppRecord, LoadRecord, SaveRecord

-----------------------------------------------------------------------------
(* One lemma for each group of actions.                                    *)

LEMMA EditsKeep ==
    ASSUME SyncInv, [Next]_vars, NEW c \in Clients, AddRow(c) \/ DeleteRow(c)
    PROVE  SyncInv'
<1>1. PICK rows \in SUBSET Rows :
        /\ app' = [app EXCEPT ![c] = Edited(c, rows)]
        /\ app[c].data.rows \ deleted' \subseteq rows
        /\ deleted \subseteq deleted' /\ created' \subseteq Rows
  <2>1. CASE AddRow(c)
    <3>1. PICK r \in NewRows : app' = [app EXCEPT ![c] = Edited(c, app[c].data.rows \cup {r})]
                              /\ created' = created \cup {r} /\ deleted' = deleted
      BY <2>1, MemoryIs DEF AddRow
    <3>2. app[c].data.rows \cup {r} \in SUBSET Rows /\ created' \subseteq Rows
      BY <3>1, MemoryIs DEF NewRows, Docs
    <3>. QED
      BY <3>1, <3>2
  <2>2. CASE DeleteRow(c)
    <3>1. PICK r \in app[c].data.rows : app' = [app EXCEPT ![c] = Edited(c, app[c].data.rows \ {r})]
                                      /\ created' = created /\ deleted' = deleted \cup {r}
      BY <2>2, MemoryIs DEF DeleteRow
    <3>2. app[c].data.rows \ {r} \in SUBSET Rows /\ created' \subseteq Rows
      BY <3>1, MemoryIs DEF Docs
    <3>. QED
      BY <3>1, <3>2
  <2>. QED
    BY <2>1, <2>2
<1>2. UNCHANGED <<serverVars, session, load, save, rotation>>
  BY DEF AddRow, DeleteRow
<1> DEFINE next == [app[c].data EXCEPT !.rows = rows]
<1>3. next \in Docs /\ next.rows = rows /\ next.basis = app[c].data.basis
  BY MemoryIs DEF Docs
<1>4. /\ app'[c] = [data |-> next, latest |-> next, dirty |-> TRUE, timer |-> TRUE]
      /\ \A x \in Clients : x # c => app'[x] = app[x]
      /\ app' \in [Clients -> AppRecord]
  BY <1>1, <1>3, MemoryIs DEF Edited, AppRecord
<1> HIDE DEF next
<1>5. StoreGoesOn /\ WithinBounds' /\ Rotates' /\ \A r \in Slots : Asks(r)'
  BY <1>2, QuietRequests
<1>6. MemoryTypes'
  BY <1>1, <1>2, <1>4, MemoryIs DEF MemoryTypes
<1>7. Took(next, history', deleted')
  <2>1. Took(app[c].data, history', deleted')
    BY <1>1, <1>5, MemoryIs, TookStays DEF InHand
  <2>. QED
    BY <1>1, <1>2, <1>3, <2>1 DEF Took, serverVars, InHand
<1>8. ASSUME NEW x \in Clients PROVE InHand(x)'
  <2>1. CASE x = c
    <3>1. Took(load[c].doc, history', deleted')
      BY <1>1, <1>5, MemoryIs, TookStays DEF InHand
    <3>. QED
      BY <1>2, <1>4, <1>5, <1>7, <2>1, <3>1, SignedStays DEF InHand, Took
  <2>. QED
    BY <1>1, <1>2, <1>4, <1>5, <2>1, ClientStays
<1>9. ASSUME NEW s \in SaveSlots PROVE Holds(s)'
  <2>1. s[1] \in Clients
    BY DEF SaveSlots
  <2>. QED
    BY <1>1, <1>2, <1>3, <1>4, <1>5, <2>1, SaveStays DEF serverVars
<1>. QED
  BY <1>5, <1>6, <1>8, <1>9, ServerGoesOn DEF SyncInv

\* A save begins with a document the screen shows, or an older one.
LEMMA SealingHolds ==
    ASSUME SyncInv, StoreGoesOn, deleted' = deleted, NEW c \in Clients, NEW j \in SaveJobs,
           NEW doc \in Docs, NEW onScreen \in BOOLEAN, Took(doc, history', deleted'),
           save'[<<c, j>>] = Sealing(c, doc, onScreen), req'[<<c, j>>].phase = "free",
           onScreen => /\ doc.rows \subseteq app'[c].data.rows
                       /\ doc.rows \subseteq app'[c].latest.rows
    PROVE  Holds(<<c, j>>)' /\ Sealing(c, doc, onScreen) \in SaveRecord
<1> DEFINE s == Sealing(c, doc, onScreen)
<1>1. session[c].version \in Nat /\ session[c].version <= document.version
      /\ session[c].key \in 1 .. householdEpoch /\ session[c].key \in Nat
  BY MemoryIs DEF InHand
<1>2. s.key \in 1 .. householdEpoch' /\ s.next \in 1 .. document'.version + 1
  <2>1. session[c].key \in 1 .. householdEpoch'
    BY <1>1, ServerIs DEF StoreGoesOn
  <2>2. session[c].version + 1 \in 1 .. document'.version + 1
    BY SMTT(30), <1>1, ServerIs DEF StoreGoesOn
  <2>. QED
    BY <2>1, <2>2 DEF Sealing
<1>3. s \in SaveRecord /\ s.phase = "sealing" /\ s.doc = doc /\ s.onScreen = onScreen
  BY <1>1, ServerIs DEF Sealing, SaveRecord
<1>4. save'[<<c, j>>] = s
  OBVIOUS
<1> HIDE DEF s
<1>5. Holds(<<c, j>>)'
  BY <1>2, <1>3, <1>4 DEF Holds
<1>. QED
  BY <1>3, <1>5 DEF s

LEMMA FlushesKeep ==
    ASSUME SyncInv, [Next]_vars, NEW c \in Clients, NEW j \in SaveJobs, TimerFires(c, j) \/ PageHides(c, j)
    PROVE  SyncInv'
<1> DEFINE onScreen == app[c].latest = app[c].data
<1>1. /\ save' = [save EXCEPT ![<<c, j>>] = Sealing(c, app[c].latest, onScreen)]
      /\ UNCHANGED <<serverVars, session, load, rotation, userVars>> /\ req[<<c, j>>].phase = "free"
  BY DEF TimerFires, PageHides, Flush, SaveSlotFree
<1>2. /\ app' \in [Clients -> AppRecord]
      /\ \A x \in Clients : app'[x].data = app[x].data /\ app'[x].latest = app[x].latest
  <2>1. [app[c] EXCEPT !.timer = FALSE] \in AppRecord
        /\ [app[c] EXCEPT !.timer = FALSE].data = app[c].data
        /\ [app[c] EXCEPT !.timer = FALSE].latest = app[c].latest
    BY MemoryIs DEF AppRecord
  <2>2. app' = app \/ app' = [app EXCEPT ![c] = [app[c] EXCEPT !.timer = FALSE]]
    BY MemoryIs DEF TimerFires, PageHides
  <2>. QED
    BY <2>1, <2>2, MemoryIs
<1>3. StoreGoesOn /\ WithinBounds' /\ Rotates' /\ \A r \in Slots : Asks(r)'
  BY <1>1, QuietRequests
<1>4. <<c, j>> \in SaveSlots
  BY DEF SaveSlots
<1>5. Took(app[c].latest, history', deleted')
  BY <1>1, <1>3, MemoryIs, TookStays DEF InHand, userVars
<1>6. Holds(<<c, j>>)' /\ Sealing(c, app[c].latest, onScreen) \in SaveRecord
  BY <1>1, <1>2, <1>3, <1>4, <1>5, MemoryIs, SealingHolds DEF userVars, serverVars
<1>7. MemoryTypes'
  BY <1>1, <1>2, <1>4, <1>6, MemoryIs DEF MemoryTypes, userVars
<1>8. ASSUME NEW x \in Clients PROVE InHand(x)'
  <2>1. Took(app[x].data, history', deleted') /\ Took(app[x].latest, history', deleted') /\ Took(load[x].doc, history', deleted')
    BY <1>1, <1>3, MemoryIs, TookStays DEF InHand, userVars
  <2>. QED
    BY <1>1, <1>2, <1>3, <2>1, SignedStays DEF InHand, Took
<1>9. ASSUME NEW s \in SaveSlots PROVE Holds(s)'
  <2>1. CASE s = <<c, j>>
    BY <1>6, <2>1
  <2>2. CASE s # <<c, j>>
    <3>1. s[1] \in Clients /\ save'[s] = save[s]
      BY <1>1, <1>4, <2>2, MemoryIs DEF SaveSlots
    <3>. QED
      BY <1>1, <1>2, <1>3, <3>1, SaveStays DEF serverVars, userVars
  <2>. QED
    BY <2>1, <2>2
<1>. QED
  BY <1>3, <1>7, <1>8, <1>9, ServerGoesOn DEF SyncInv

LEMMA ImportsKeep ==
    ASSUME SyncInv, [Next]_vars, NEW c \in Clients, NEW j \in SaveJobs, SaveNow(c, j)
    PROVE  SyncInv'
<1> DEFINE edited(r) == Edited(c, app[c].data.rows \cup {r})
<1>1. PICK r \in NewRows, timer \in BOOLEAN :
            /\ app' = [app EXCEPT ![c] = [edited(r) EXCEPT !.timer = timer]]
            /\ save' = [save EXCEPT ![<<c, j>>] = Sealing(c, edited(r).latest, TRUE)]
            /\ created' = created \cup {r}
  BY DEF SaveNow
<1> DEFINE next == [app[c].data EXCEPT !.rows = app[c].data.rows \cup {r}]
<1>2. /\ next \in Docs /\ next.rows = app[c].data.rows \cup {r} /\ next.basis = app[c].data.basis
      /\ created' \subseteq Rows
  BY <1>1, MemoryIs DEF Docs, NewRows
<1>3. PICK now \in AppRecord :
        /\ now.data = next /\ now.latest = next
        /\ app' = [app EXCEPT ![c] = now] /\ save' = [save EXCEPT ![<<c, j>>] = Sealing(c, next, TRUE)]
  <2>1. edited(r) \in AppRecord /\ edited(r).data = next /\ edited(r).latest = next
    BY <1>2 DEF Edited, AppRecord
  <2> HIDE DEF edited, next
  <2>2. /\ [edited(r) EXCEPT !.timer = timer] \in AppRecord
        /\ [edited(r) EXCEPT !.timer = timer].data = next /\ [edited(r) EXCEPT !.timer = timer].latest = next
    BY <2>1 DEF AppRecord
  <2>. QED
    BY <1>1, <2>1, <2>2
<1>4. UNCHANGED <<serverVars, session, load, rotation, deleted>> /\ req[<<c, j>>].phase = "free"
  BY DEF SaveNow, SaveSlotFree
<1> HIDE DEF next
<1>5. StoreGoesOn /\ WithinBounds' /\ Rotates' /\ \A x \in Slots : Asks(x)'
  BY <1>4, QuietRequests
<1>6. <<c, j>> \in SaveSlots
  BY DEF SaveSlots
<1>7. /\ app'[c].data = next /\ app'[c].latest = next /\ app' \in [Clients -> AppRecord]
      /\ \A x \in Clients : x # c => app'[x] = app[x]
  BY <1>2, <1>3, MemoryIs DEF AppRecord
<1>8. Took(next, history', deleted')
  <2>1. Took(app[c].data, history', deleted')
    BY <1>4, <1>5, MemoryIs, TookStays DEF InHand
  <2>. QED
    BY <1>2, <1>4, <2>1 DEF Took, serverVars
<1>9. Holds(<<c, j>>)' /\ Sealing(c, next, TRUE) \in SaveRecord
  BY <1>2, <1>3, <1>4, <1>5, <1>6, <1>7, <1>8, MemoryIs, SealingHolds DEF serverVars
<1>10. MemoryTypes'
  BY <1>2, <1>3, <1>4, <1>6, <1>7, <1>9, MemoryIs DEF MemoryTypes
<1>11. ASSUME NEW x \in Clients PROVE InHand(x)'
  <2>1. CASE x = c
    <3>1. Took(load[c].doc, history', deleted')
      BY <1>4, <1>5, MemoryIs, TookStays DEF InHand
    <3>. QED
      BY <1>4, <1>5, <1>7, <1>8, <2>1, <3>1, SignedStays DEF InHand, Took
  <2>. QED
    BY <1>4, <1>5, <1>7, <2>1, ClientStays
<1>12. ASSUME NEW s \in SaveSlots PROVE Holds(s)'
  <2>1. CASE s = <<c, j>>
    BY <1>9, <2>1
  <2>2. CASE s # <<c, j>>
    <3>1. s[1] \in Clients /\ save'[s] = save[s]
      BY <1>3, <1>6, <2>2, MemoryIs DEF SaveSlots
    <3>. QED
      BY <1>2, <1>4, <1>5, <1>7, <3>1, SaveStays DEF serverVars
  <2>. QED
    BY <2>1, <2>2
<1>. QED
  BY <1>5, <1>10, <1>11, <1>12, ServerGoesOn DEF SyncInv

\* A step of one save: what the others hold, it leaves to them.
LEMMA SaveMoves ==
    ASSUME SyncInv, [Next]_vars, NEW s \in SaveSlots,
           UNCHANGED <<householdEpoch, document, revisions, history>>,
           \A x \in Slots : x # s => req'[x] = req[x],
           req'[s].phase = "free" \/ (req'[s].phase = "issued" /\ req'[s].kind = "put"),
           UNCHANGED <<load, rotation, userVars>>,
           NEW new \in SaveRecord, save' = [save EXCEPT ![s] = new], Holds(s)',
           app' \in [Clients -> AppRecord],
           \A x \in Clients :
              /\ app'[x].data.rows = app[x].data.rows /\ app'[x].latest.rows = app[x].latest.rows
              /\ Took(app'[x].data, history, deleted) /\ Took(app'[x].latest, history, deleted),
           session' \in [Clients -> [key : Nat, version : Nat]],
           \A x \in Clients : session'[x].key = session[x].key /\ session'[x].version <= document.version
    PROVE  SyncInv'
<1>1. s \in Slots /\ s # RotateSlot /\ KindsOf(s) = {"put"}
  BY SlotsAre
<1>2. StoreGoesOn /\ WithinBounds' /\ Rotates' /\ \A x \in Slots : Asks(x)'
  BY <1>1, SlotMoves
<1>3. MemoryTypes'
  BY MemoryIs DEF MemoryTypes, userVars
<1>4. ASSUME NEW x \in Clients PROVE InHand(x)'
  BY MemoryIs DEF InHand, userVars
<1>5. ASSUME NEW x \in SaveSlots, x # s PROVE Holds(x)'
  <2>1. save'[x] = save[x] /\ req'[x] = req[x] /\ x[1] \in Clients
    BY <1>5, MemoryIs, SlotsAre DEF SaveSlots
  <2>. QED
    BY <1>2, <2>1, SaveStays DEF userVars
<1>. QED
  BY <1>2, <1>3, <1>4, <1>5, ServerGoesOn DEF SyncInv

\* The same when the devices keep what they have.
LEMMA OnlySaveMoves ==
    ASSUME SyncInv, [Next]_vars, NEW s \in SaveSlots,
           UNCHANGED <<householdEpoch, document, revisions, history>>,
           \A x \in Slots : x # s => req'[x] = req[x],
           req'[s].phase = "free" \/ (req'[s].phase = "issued" /\ req'[s].kind = "put"),
           UNCHANGED <<session, app, load, rotation, userVars>>,
           NEW new \in SaveRecord, save' = [save EXCEPT ![s] = new], Holds(s)'
    PROVE  SyncInv'
<1>1. \A x \in Clients : session[x].version <= document.version
  BY MemoryIs DEF InHand
<1>. QED
  BY <1>1, MemoryIs, SaveMoves DEF InHand

LEMMA IdleHolds ==
    /\ IdleSave \in SaveRecord /\ IdleSave.onScreen = FALSE
    /\ \A s \in SaveSlots : save'[s] = IdleSave /\ Len(history') \in Nat => Holds(s)'
<1>1. IdleSave \in SaveRecord /\ NoDoc \in Docs /\ IdleSave.doc.basis = 0 /\ IdleSave.phase = "idle" /\ ~IdleSave.onScreen
  BY DEF IdleSave, NoDoc, Doc, SaveRecord, Docs
<1>2. ASSUME NEW s \in SaveSlots, save'[s] = IdleSave, Len(history') \in Nat PROVE Holds(s)'
  BY <1>1, <1>2 DEF Holds, Took
<1>. QED
  BY <1>1, <1>2

LEMMA SendsKeep ==
    ASSUME SyncInv, [Next]_vars, NEW c \in Clients, NEW j \in SaveJobs, SendPut(c, j)
    PROVE  SyncInv'
<1> DEFINE s == <<c, j>>
<1>1. s \in SaveSlots /\ s \in Slots
  BY SlotsAre DEF SaveSlots
<1>2. /\ save[s].phase = "sealing"
      /\ Server!Issue(s, "put", session[c].version, Seal(save[s].key, save[s].next, save[s].doc.rows))
      /\ save' = [save EXCEPT ![s].phase = "waiting"]
      /\ UNCHANGED <<session, app, load, rotation, userVars>>
  BY DEF SendPut
<1>3. /\ UNCHANGED <<householdEpoch, document, revisions, history>>
      /\ req'[s].phase = "issued" /\ req'[s].kind = "put"
      /\ req'[s].sealed = Seal(save[s].key, save[s].next, save[s].doc.rows)
      /\ \A x \in Slots : x # s => req'[x] = req[x]
  BY <1>1, <1>2, IssueIs
<1> DEFINE new == [save[s] EXCEPT !.phase = "waiting"]
<1>4. /\ new \in SaveRecord /\ new.phase = "waiting" /\ new.doc = save[s].doc /\ new.onScreen = save[s].onScreen
  BY <1>1, MemoryIs DEF SaveRecord
<1>5. save' = [save EXCEPT ![s] = new] /\ save'[s] = new
  BY <1>1, <1>2, MemoryIs
<1> HIDE DEF new
<1>6. req'[s].sealed.rows = save[s].doc.rows
  BY <1>3 DEF Seal
<1>7. Holds(s) /\ Holds(s)'
  BY <1>1, <1>2, <1>3, <1>4, <1>5, <1>6, MemoryIs DEF Holds, userVars
<1>. QED
  BY <1>1, <1>2, <1>3, <1>4, <1>5, <1>7, OnlySaveMoves

LEMMA FailuresKeep ==
    ASSUME SyncInv, [Next]_vars, NEW c \in Clients, NEW j \in SaveJobs, PutFailed(c, j) \/ Abandoned(c, j)
    PROVE  SyncInv'
<1> DEFINE s == <<c, j>>
<1>1. s \in SaveSlots /\ s \in Slots
  BY SlotsAre DEF SaveSlots
<1>2. /\ Server!Collect(s) /\ UNCHANGED <<session, app, load, rotation, userVars>>
      /\ save' = [save EXCEPT ![s] = IdleSave]
  <2>1. CASE PutFailed(c, j)
    BY <2>1 DEF PutFailed
  <2>2. CASE Abandoned(c, j)
    <3>1. save[s] = IdleSave /\ save' = save
      BY <1>1, <2>2, MemoryIs DEF Abandoned, clientVars, Holds
    <3>. QED
      BY <1>1, <2>2, <3>1, MemoryIs DEF Abandoned, clientVars
  <2>. QED
    BY <2>1, <2>2
<1>3. /\ UNCHANGED <<householdEpoch, document, revisions, history>> /\ req'[s].phase = "free"
      /\ \A x \in Slots : x # s => req'[x] = req[x]
  BY <1>1, <1>2, CollectIs
<1>4. save'[s] = IdleSave /\ Len(history') \in Nat
  BY <1>1, <1>2, <1>3, MemoryIs, ServerIs
<1>. QED
  BY <1>1, <1>2, <1>3, <1>4, IdleHolds, OnlySaveMoves

\* What an answer of the server says of a version is what is stored there.
LEMMA AnswersAgree ==
    ASSUME SyncInv, NEW r \in Slots
    PROVE  /\ req[r].answer # None =>
                  /\ req[r].version \in 1 .. Len(history) /\ history[req[r].version] = req[r].answer
                  /\ req[r].answer.rows \subseteq Rows
           /\ Server!Answered(r, "ok") /\ req[r].kind = "put" =>
                  req[r].version \in 1 .. Len(history) /\ history[req[r].version] = req[r].sealed
<1>1. Proven!AnswerAgrees(r) /\ history \in Seq(Sealed)
  BY ServerIs DEF SyncInv, Proven!IInv, Proven!HistoryAgrees
<1>2. \A n \in 1 .. Len(history) : history[n] \in Sealed
  BY <1>1
<1>. QED
  BY <1>1, <1>2 DEF Proven!AnswerAgrees, Proven!Writes, Proven!Answered, Server!Answered, Sealed

\* The version a device goes to is one the server has stored.
LEMMA VersionMoves ==
    ASSUME SyncInv, NEW c \in Clients, NEW version \in 1 .. Len(history),
           session' = [session EXCEPT ![c].version = version]
    PROVE  /\ session' \in [Clients -> [key : Nat, version : Nat]] /\ session'[c].version = version
           /\ \A x \in Clients : session'[x].key = session[x].key /\ session'[x].version <= document.version
<1>1. \A x \in Clients : session[x] \in [key : Nat, version : Nat] /\ session[x].version <= document.version
  BY MemoryIs DEF InHand
<1>2. version \in Nat /\ version <= document.version
  BY ServerIs
<1>3. [session[c] EXCEPT !.version = version] \in [key : Nat, version : Nat]
  BY <1>1, <1>2
<1>4. session' = [session EXCEPT ![c] = [session[c] EXCEPT !.version = version]]
  BY MemoryIs
<1>. QED
  BY <1>1, <1>2, <1>3, <1>4, MemoryIs

LEMMA DocIs ==
    ASSUME SyncInv, NEW rows \in SUBSET Rows, NEW basis \in 1 .. Len(history)
    PROVE  /\ Doc(rows, basis) \in Docs /\ Doc(rows, basis).rows = rows /\ Doc(rows, basis).basis = basis
           /\ history[basis].rows \subseteq rows => Took(Doc(rows, basis), history, deleted)
<1>1. basis \in Nat /\ Len(history) \in Nat /\ basis <= Len(history)
  BY ServerIs
<1>. QED
  BY <1>1 DEF Doc, Docs, Took

LEMMA ConflictsKeep ==
    ASSUME SyncInv, [Next]_vars, NEW c \in Clients, NEW j \in SaveJobs, PutConflicted(c, j)
    PROVE  SyncInv'
<1> DEFINE s == <<c, j>>
           r == req[s]
           merged == Doc(MergeDocuments(save[s].doc.rows, r.answer.rows), r.version)
           new == [phase |-> "sealing", doc |-> merged, key |-> session[c].key,
                   next |-> session'[c].version + 1, onScreen |-> FALSE]
<1>1. s \in SaveSlots /\ s \in Slots
  BY SlotsAre DEF SaveSlots
<1>2. /\ r.phase = "answered" /\ r.code = "version_conflict" /\ Server!Collect(s)
      /\ session' = [session EXCEPT ![c].version = r.version]
      /\ save' = [save EXCEPT ![s] = new]
      /\ UNCHANGED <<app, load, rotation, userVars>>
  BY DEF PutConflicted, Server!Answered, VersionAfterConflict
<1>3. /\ UNCHANGED <<householdEpoch, document, revisions, history>> /\ req'[s].phase = "free"
      /\ \A x \in Slots : x # s => req'[x] = req[x]
  BY <1>1, <1>2, CollectIs
<1>4. /\ r.version \in 1 .. Len(history) /\ history[r.version] = r.answer /\ r.answer.rows \subseteq Rows
  BY <1>1, <1>2, AnswersAgree DEF SyncInv, Asks
<1>5. /\ session' \in [Clients -> [key : Nat, version : Nat]]
      /\ session'[c].version = r.version
      /\ \A x \in Clients : session'[x].key = session[x].key /\ session'[x].version <= document.version
  BY <1>2, <1>4, VersionMoves
<1>6. MergeDocuments(save[s].doc.rows, r.answer.rows) \in SUBSET Rows
  BY <1>1, <1>4, MemoryIs DEF Docs, MergeDocuments
<1>7. merged \in Docs /\ Took(merged, history, deleted)
  BY <1>4, <1>6, DocIs DEF MergeDocuments
<1> HIDE DEF merged
<1>8. session[c].key \in 1 .. householdEpoch /\ session[c].key \in Nat
  BY MemoryIs DEF InHand
<1>9. /\ new \in SaveRecord /\ new.phase = "sealing" /\ new.doc = merged /\ ~new.onScreen
      /\ new.key = session[c].key /\ new.next = r.version + 1
  BY <1>4, <1>5, <1>7, <1>8, ServerIs DEF SaveRecord
<1>10. new.next \in 1 .. document.version + 1
  BY <1>4, <1>9, ServerIs
<1>11. save'[s] = new
  BY <1>1, <1>2, MemoryIs
<1> HIDE DEF new
<1>12. Holds(s)'
  BY <1>2, <1>3, <1>7, <1>8, <1>9, <1>10, <1>11 DEF Holds, userVars
<1>13. \A x \in Clients : Took(app[x].data, history, deleted) /\ Took(app[x].latest, history, deleted)
  BY MemoryIs DEF InHand
<1>. QED
  BY <1>1, <1>2, <1>3, <1>5, <1>9, <1>12, <1>13, MemoryIs, SaveMoves

\* A document that has the rows of the version after its own takes that one in.
LEMMA RebaseTakes ==
    ASSUME SyncInv, NEW d \in Docs, Took(d, history, deleted), NEW at \in Nat, NEW to \in 1 .. Len(history),
           history[to].rows \ deleted \subseteq d.rows
    PROVE  /\ Rebase(d, at, to) \in Docs /\ Rebase(d, at, to).rows = d.rows
           /\ Took(Rebase(d, at, to), history, deleted)
<1>1. /\ [d EXCEPT !.basis = to] \in Docs /\ [d EXCEPT !.basis = to].basis = to
      /\ [d EXCEPT !.basis = to].rows = d.rows
  BY SMTT(30), ServerIs DEF Docs
<1>. QED
  BY <1>1, ServerIs DEF Rebase, Took

LEMMA RebaseStands ==
    ASSUME NEW d \in Docs, NEW at \in Nat
    PROVE  Rebase(d, at, at) = d
BY DEF Rebase, Docs

LEMMA AcceptedKeep ==
    ASSUME SyncInv, [Next]_vars, NEW c \in Clients, NEW j \in SaveJobs, PutAccepted(c, j)
    PROVE  SyncInv'
<1> DEFINE s == <<c, j>>
           r == req[s]
           at == save[s].doc.basis
           to == IF save[s].onScreen /\ at + 1 = r.version THEN r.version ELSE at
           data == Rebase(app[c].data, at, to)
           latest == Rebase(app[c].latest, at, to)
<1>1. s \in SaveSlots /\ s \in Slots /\ KindsOf(s) = {"put"} /\ s[1] = c
  BY SlotsAre DEF SaveSlots
<1>2. /\ save[s].phase = "waiting" /\ Server!Answered(s, "ok") /\ Server!Collect(s)
      /\ session' = [session EXCEPT ![c].version = r.version]
      /\ app' = [app EXCEPT ![c].dirty = FALSE, ![c].data = Rebase(@, at, to), ![c].latest = Rebase(@, at, to)]
      /\ save' = [save EXCEPT ![s] = IdleSave]
      /\ UNCHANGED <<load, rotation, userVars>>
  BY DEF PutAccepted
<1>3. /\ UNCHANGED <<householdEpoch, document, revisions, history>> /\ req'[s].phase = "free"
      /\ \A x \in Slots : x # s => req'[x] = req[x]
  BY <1>1, <1>2, CollectIs
<1>4. r.phase = "answered" /\ r.kind = "put"
  BY <1>1, <1>2 DEF Server!Answered, SyncInv, Asks
<1>5. r.version \in 1 .. Len(history) /\ history[r.version].rows = save[s].doc.rows /\ at \in Nat
  BY <1>1, <1>2, <1>4, AnswersAgree, MemoryIs DEF Holds, Docs
<1>6. /\ session' \in [Clients -> [key : Nat, version : Nat]]
      /\ \A x \in Clients : session'[x].key = session[x].key /\ session'[x].version <= document.version
  BY <1>2, <1>5, VersionMoves
<1>7. /\ data \in Docs /\ data.rows = app[c].data.rows /\ Took(data, history, deleted)
      /\ latest \in Docs /\ latest.rows = app[c].latest.rows /\ Took(latest, history, deleted)
  <2>1. Took(app[c].data, history, deleted) /\ Took(app[c].latest, history, deleted)
    BY MemoryIs DEF InHand
  <2>2. CASE save[s].onScreen /\ at + 1 = r.version
    <3>1. history[r.version].rows \ deleted \subseteq app[c].data.rows
          /\ history[r.version].rows \ deleted \subseteq app[c].latest.rows
      BY <1>1, <1>5, <2>2, MemoryIs DEF Holds
    <3>. QED
      BY <1>5, <2>1, <2>2, <3>1, MemoryIs, RebaseTakes
  <2>3. CASE ~(save[s].onScreen /\ at + 1 = r.version)
    BY <1>5, <2>1, <2>3, MemoryIs, RebaseStands
  <2>. QED
    BY <2>2, <2>3
<1> HIDE DEF data, latest
<1>8. /\ app'[c].data = data /\ app'[c].latest = latest /\ app' \in [Clients -> AppRecord]
      /\ \A x \in Clients : x # c => app'[x] = app[x]
  <2>1. app' = [app EXCEPT ![c] = [app[c] EXCEPT !.dirty = FALSE, !.data = data, !.latest = latest]]
    BY <1>2, MemoryIs DEF data, latest, AppRecord
  <2>. QED
    BY <1>7, <2>1, MemoryIs DEF AppRecord
<1>9. Holds(s)'
  BY <1>1, <1>2, <1>3, MemoryIs, ServerIs, IdleHolds
<1>10. ASSUME NEW x \in Clients
       PROVE  /\ app'[x].data.rows = app[x].data.rows /\ app'[x].latest.rows = app[x].latest.rows
              /\ Took(app'[x].data, history, deleted) /\ Took(app'[x].latest, history, deleted)
  BY <1>7, <1>8, MemoryIs DEF InHand
<1>. QED
  BY <1>1, <1>2, <1>3, <1>6, <1>8, <1>9, <1>10, IdleHolds, SaveMoves

\* A step of one device's load, and of what it holds.
LEMMA LoadMoves ==
    ASSUME SyncInv, [Next]_vars, NEW c \in Clients,
           UNCHANGED <<householdEpoch, document, revisions, history, rotation, userVars>>,
           \A x \in Slots : x # <<c, "load">> => req'[x] = req[x],
           \/ req' = req
           \/ req'[<<c, "load">>].phase = "free"
           \/ req'[<<c, "load">>].phase = "issued" /\ req'[<<c, "load">>].kind = "get",
           NEW signed \in [key : Nat, version : Nat], session' = [session EXCEPT ![c] = signed],
           NEW shown \in AppRecord, app' = [app EXCEPT ![c] = shown],
           NEW loading \in LoadRecord, load' = [load EXCEPT ![c] = loading],
           signed.key \in 1 .. householdEpoch, signed.version <= document.version,
           Took(shown.data, history, deleted), Took(shown.latest, history, deleted),
           Took(loading.doc, history, deleted),
           save' \in [SaveSlots -> SaveRecord], \A s \in SaveSlots : Holds(s)'
    PROVE  SyncInv'
<1>1. <<c, "load">> \in Slots /\ <<c, "load">> # RotateSlot /\ KindsOf(<<c, "load">>) = {"get"}
  BY SlotsAre
<1>2. StoreGoesOn /\ WithinBounds' /\ Rotates' /\ \A x \in Slots : Asks(x)'
  <2>1. CASE req' = req
    BY <2>1, QuietRequests DEF serverVars
  <2>2. CASE req' # req
    BY <1>1, <2>2, SlotMoves
  <2>. QED
    BY <2>1, <2>2
<1>3. /\ session'[c] = signed /\ app'[c] = shown /\ load'[c] = loading
      /\ \A x \in Clients : x # c => session'[x] = session[x] /\ app'[x] = app[x] /\ load'[x] = load[x]
      /\ session' \in [Clients -> [key : Nat, version : Nat]]
      /\ app' \in [Clients -> AppRecord] /\ load' \in [Clients -> LoadRecord]
  BY MemoryIs
<1>4. MemoryTypes'
  BY <1>3, MemoryIs DEF MemoryTypes, userVars
<1>5. ASSUME NEW x \in Clients PROVE InHand(x)'
  BY <1>3, MemoryIs DEF InHand, userVars
<1>. QED
  BY <1>2, <1>4, <1>5, ServerGoesOn DEF SyncInv

\* The saves, when the server stores nothing and the screen stays.
LEMMA SavesStay ==
    ASSUME SyncInv, UNCHANGED <<householdEpoch, document, revisions, history, userVars, app, save>>,
           \A s \in SaveSlots : req'[s] = req[s]
    PROVE  save' \in [SaveSlots -> SaveRecord] /\ \A s \in SaveSlots : Holds(s)'
<1>1. StoreGoesOn
  BY QuietGoesOn
<1>2. ASSUME NEW s \in SaveSlots PROVE Holds(s)'
  BY <1>1, SaveStays DEF userVars
<1>. QED
  BY <1>2, MemoryIs

LEMMA LoadsAre ==
    /\ IdleLoad \in LoadRecord /\ IdleLoad.doc = NoDoc
    /\ \A cause \in {"none", "initial", "poll", "calendars"} :
          /\ [IdleLoad EXCEPT !.phase = "waiting", !.cause = cause] \in LoadRecord
          /\ [IdleLoad EXCEPT !.phase = "waiting", !.cause = cause].doc = NoDoc
    /\ SyncInv => Took(NoDoc, history, deleted)
<1>1. NoDoc \in Docs /\ NoDoc.basis = 0
  BY DEF NoDoc, Doc, Docs
<1>2. SyncInv => Took(NoDoc, history, deleted)
  BY <1>1, ServerIs DEF Took
<1>3. IdleLoad \in LoadRecord /\ IdleLoad.doc = NoDoc
  BY <1>1 DEF IdleLoad, LoadRecord
<1>. QED
  BY <1>2, <1>3 DEF LoadRecord

LEMMA KeepsItself ==
    ASSUME SyncInv, NEW c \in Clients
    PROVE  /\ session[c] \in [key : Nat, version : Nat] /\ app[c] \in AppRecord /\ load[c] \in LoadRecord
           /\ session = [session EXCEPT ![c] = session[c]]
           /\ app = [app EXCEPT ![c] = app[c]] /\ load = [load EXCEPT ![c] = load[c]]
           /\ session[c].key \in 1 .. householdEpoch /\ session[c].version <= document.version
           /\ Took(app[c].data, history, deleted) /\ Took(app[c].latest, history, deleted)
           /\ Took(load[c].doc, history, deleted)
BY MemoryIs DEF InHand

LEMMA LoadsBegin ==
    ASSUME SyncInv, [Next]_vars, NEW c \in Clients, Poll(c) \/ SyncCalendars(c)
    PROVE  SyncInv'
<1>1. PICK cause \in {"poll", "calendars"} : StartLoad(c, cause)
  BY DEF Poll, SyncCalendars
<1>2. UNCHANGED <<session, app, save, rotation, userVars>>
  BY DEF Poll, SyncCalendars
<1>3. <<c, "load">> \in Slots /\ <<c, "load">> \notin SaveSlots /\ \A s \in SaveSlots : s \in Slots
  BY SlotsAre
<1>4. /\ UNCHANGED <<householdEpoch, document, revisions, history>>
      /\ req'[<<c, "load">>].phase = "issued" /\ req'[<<c, "load">>].kind = "get"
      /\ \A x \in Slots : x # <<c, "load">> => req'[x] = req[x]
  BY <1>1, <1>3, IssueIs DEF StartLoad
<1> DEFINE loading == [IdleLoad EXCEPT !.phase = "waiting", !.cause = cause]
<1>5. load' = [load EXCEPT ![c] = loading] /\ loading \in LoadRecord /\ Took(loading.doc, history, deleted)
  BY <1>1, LoadsAre DEF StartLoad
<1> HIDE DEF loading
<1>6. save' \in [SaveSlots -> SaveRecord] /\ \A s \in SaveSlots : Holds(s)'
  BY <1>2, <1>3, <1>4, SavesStay
<1>. QED
  BY <1>2, <1>4, <1>5, <1>6, KeepsItself, LoadMoves

LEMMA LoadsEnd ==
    ASSUME SyncInv, [Next]_vars, NEW c \in Clients, LoadAnswered(c) \/ LoadFailed(c)
    PROVE  SyncInv'
<1> DEFINE r == req[<<c, "load">>]
<1>1. Server!Collect(<<c, "load">>) /\ UNCHANGED <<app, save, rotation, userVars>>
  BY DEF LoadAnswered, LoadFailed
<1>2. <<c, "load">> \in Slots /\ <<c, "load">> \notin SaveSlots /\ (\A s \in SaveSlots : s \in Slots)
      /\ KindsOf(<<c, "load">>) = {"get"}
  BY SlotsAre
<1>3. /\ UNCHANGED <<householdEpoch, document, revisions, history>>
      /\ req'[<<c, "load">>].phase = "free"
      /\ \A x \in Slots : x # <<c, "load">> => req'[x] = req[x]
  BY <1>1, <1>2, CollectIs
<1>4. save' \in [SaveSlots -> SaveRecord] /\ \A s \in SaveSlots : Holds(s)'
  BY <1>1, <1>2, <1>3, SavesStay
<1>5. CASE LoadFailed(c)
  <2>1. load' = [load EXCEPT ![c] = IdleLoad] /\ session' = session
    BY <1>5 DEF LoadFailed
  <2>. QED
    BY <1>1, <1>3, <1>4, <2>1, KeepsItself, LoadsAre, LoadMoves
<1>6. CASE LoadAnswered(c)
  <2>1. r.phase = "answered" /\ r.code = "ok" /\ session' = [session EXCEPT ![c].version = r.version]
    BY <1>6 DEF LoadAnswered, Server!Answered
  <2>2. r.kind = "get"
    BY <1>2, <2>1 DEF SyncInv, Asks
  <2>3. r.version \in 1 .. Len(history) /\ history[r.version] = r.answer /\ r.answer.rows \subseteq Rows
    BY <1>2, <2>1, <2>2, AnswersAgree DEF SyncInv, Asks
  <2>4. PICK signed \in [key : Nat, version : Nat] :
          /\ session' = [session EXCEPT ![c] = signed]
          /\ signed.key \in 1 .. householdEpoch /\ signed.version <= document.version
    <3>1. /\ session' \in [Clients -> [key : Nat, version : Nat]]
          /\ session'[c].key = session[c].key /\ session'[c].version <= document.version
      BY <2>1, <2>3, VersionMoves
    <3>2. session' = [session EXCEPT ![c] = session'[c]]
      BY <2>1, <3>1, MemoryIs
    <3>3. session'[c].key \in 1 .. householdEpoch
      BY <3>1, KeepsItself
    <3>. QED
      BY <3>1, <3>2, <3>3
  <2> DEFINE doc == Doc(r.answer.rows, r.version)
             opened == [load[c] EXCEPT !.phase = "opened", !.doc = doc]
  <2>5. doc \in Docs /\ Took(doc, history, deleted)
    BY <2>3, DocIs
  <2> HIDE DEF doc
  <2>6. opened \in LoadRecord /\ opened.doc = doc
    BY <2>5, MemoryIs DEF LoadRecord
  <2>7. \/ load' = [load EXCEPT ![c] = opened]
        \/ load' = [load EXCEPT ![c] = IdleLoad]
    BY <1>6, MemoryIs DEF LoadAnswered, doc
  <2> HIDE DEF opened
  <2>8. PICK loading \in LoadRecord : /\ load' = [load EXCEPT ![c] = loading]
                                      /\ Took(loading.doc, history, deleted)
    BY <2>5, <2>6, <2>7, LoadsAre
  <2>9. Took(app[c].data, history, deleted) /\ Took(app[c].latest, history, deleted) /\ app[c] \in AppRecord
        /\ app' = [app EXCEPT ![c] = app[c]]
    BY <1>1, KeepsItself
  <2>. QED
    BY <1>1, <1>3, <1>4, <2>4, <2>8, <2>9, LoadMoves
<1>. QED
  BY <1>5, <1>6

\* A save of an older screen promises nothing of the new one.
LEMMA OffScreen ==
    ASSUME SyncInv, NEW s \in SaveSlots
    PROVE  /\ [save[s] EXCEPT !.onScreen = FALSE] \in SaveRecord
           /\ \A p \in {"phase", "doc", "key", "next"} : [save[s] EXCEPT !.onScreen = FALSE][p] = save[s][p]
           /\ ~[save[s] EXCEPT !.onScreen = FALSE].onScreen
BY MemoryIs DEF SaveRecord

LEMMA ScreensKeep ==
    ASSUME SyncInv, [Next]_vars, NEW c \in Clients, ApplyLoad(c)
    PROVE  SyncInv'
<1>1. /\ UNCHANGED <<serverVars, session, rotation, userVars>>
      /\ load' = [load EXCEPT ![c] = IdleLoad]
  BY DEF ApplyLoad
<1>2. CASE LeavesDocument(c)
  <2>1. app' = app /\ save' = save
    BY <1>2 DEF ApplyLoad
  <2>2. save' \in [SaveSlots -> SaveRecord] /\ \A s \in SaveSlots : Holds(s)'
    BY <1>1, <2>1, SavesStay DEF serverVars
  <2>. QED
    BY <1>1, <2>1, <2>2, KeepsItself, LoadsAre, LoadMoves DEF serverVars
<1>3. CASE ~LeavesDocument(c)
  <2> DEFINE shown == [app[c] EXCEPT !.data = load[c].doc]
  <2>1. /\ app' = [app EXCEPT ![c] = shown]
        /\ save' = [s \in SaveSlots |-> IF s[1] = c THEN [save[s] EXCEPT !.onScreen = FALSE] ELSE save[s]]
    BY <1>3, MemoryIs DEF ApplyLoad, SaveSlots
  <2>2. shown \in AppRecord /\ shown.data = load[c].doc /\ shown.latest = app[c].latest
    BY MemoryIs DEF AppRecord
  <2> HIDE DEF shown
  <2>3. ASSUME NEW s \in SaveSlots PROVE Holds(s)' /\ save'[s] \in SaveRecord
    <3>1. CASE s[1] = c
      <4>1. save'[s] \in SaveRecord /\ ~save'[s].onScreen /\ save'[s].doc = save[s].doc
            /\ save'[s].phase = save[s].phase /\ save'[s].key = save[s].key /\ save'[s].next = save[s].next
        BY <2>1, <3>1, OffScreen
      <4>2. Holds(s) /\ (save[s].phase = "idle" => save'[s] = IdleSave)
        <5>1. Holds(s)
          BY MemoryIs
        <5>2. ASSUME save[s].phase = "idle" PROVE save'[s] = IdleSave
          <6>1. save[s] = IdleSave
            BY <5>1, <5>2 DEF Holds
          <6>2. save[s] \in SaveRecord /\ save[s].onScreen = FALSE
            BY <6>1, MemoryIs, IdleHolds
          <6>3. [save[s] EXCEPT !.onScreen = FALSE] = save[s]
            BY <6>2 DEF SaveRecord
          <6>. QED
            BY <2>1, <3>1, <6>1, <6>3
        <5>. QED
          BY <5>1, <5>2
      <4>. QED
        BY <1>1, <4>1, <4>2 DEF Holds, serverVars, userVars
    <3>2. CASE s[1] # c
      <4>1. save'[s] = save[s] /\ s[1] \in Clients /\ app'[s[1]] = app[s[1]] /\ StoreGoesOn
        BY <1>1, <2>1, <3>2, MemoryIs, QuietGoesOn DEF SaveSlots, serverVars
      <4>. QED
        BY <1>1, <4>1, MemoryIs, SaveStays DEF serverVars, userVars
    <3>. QED
      BY <3>1, <3>2
  <2>4. save' \in [SaveSlots -> SaveRecord]
    BY <2>1, <2>3
  <2>. QED
    BY <1>1, <2>1, <2>2, <2>3, <2>4, KeepsItself, LoadsAre, LoadMoves DEF serverVars
<1>. QED
  BY <1>2, <1>3

LEMMA ReloadsKeep ==
    ASSUME SyncInv, [Next]_vars, NEW c \in Clients, Reload(c)
    PROVE  SyncInv'
<1> DEFINE signed == [key |-> householdEpoch, version |-> 0]
           loading == [IdleLoad EXCEPT !.phase = "waiting", !.cause = "initial"]
<1>1. /\ session' = [session EXCEPT ![c] = signed] /\ app' = [app EXCEPT ![c] = Closed]
      /\ load' = [load EXCEPT ![c] = loading]
      /\ save' = [s \in SaveSlots |-> IF s[1] = c THEN IdleSave ELSE save[s]]
      /\ Server!Issue(<<c, "load">>, "get", 0, None) /\ UNCHANGED <<rotation, userVars>>
  BY DEF Reload, SaveSlots
<1>2. <<c, "load">> \in Slots /\ <<c, "load">> \notin SaveSlots /\ \A s \in SaveSlots : s \in Slots
  BY SlotsAre
<1>3. /\ UNCHANGED <<householdEpoch, document, revisions, history>>
      /\ req'[<<c, "load">>].phase = "issued" /\ req'[<<c, "load">>].kind = "get"
      /\ \A x \in Slots : x # <<c, "load">> => req'[x] = req[x]
  BY <1>1, <1>2, IssueIs
<1>4. /\ signed \in [key : Nat, version : Nat] /\ signed.key \in 1 .. householdEpoch
      /\ signed.version <= document.version
  BY ServerIs
<1>5. loading \in LoadRecord /\ Took(loading.doc, history, deleted)
  BY LoadsAre
<1>6. Closed \in AppRecord /\ Took(Closed.data, history, deleted) /\ Took(Closed.latest, history, deleted)
  <2>1. NoDoc \in Docs
    BY DEF NoDoc, Doc, Docs
  <2>. QED
    BY <2>1, LoadsAre DEF Closed, AppRecord
<1> HIDE DEF signed, loading
<1>7. ASSUME NEW s \in SaveSlots PROVE Holds(s)' /\ save'[s] \in SaveRecord
  <2>1. CASE s[1] = c
    BY <1>1, <1>3, <2>1, IdleHolds, ServerIs
  <2>2. CASE s[1] # c
    <3>1. save'[s] = save[s] /\ s[1] \in Clients /\ app'[s[1]] = app[s[1]] /\ StoreGoesOn
      BY <1>1, <1>3, <2>2, MemoryIs, QuietGoesOn DEF SaveSlots
    <3>. QED
      BY <1>1, <1>2, <1>3, <3>1, MemoryIs, SaveStays DEF userVars
  <2>. QED
    BY <2>1, <2>2
<1>8. save' \in [SaveSlots -> SaveRecord]
  BY <1>1, <1>7
<1>. QED
  BY <1>1, <1>3, <1>4, <1>5, <1>6, <1>7, <1>8, LoadMoves

\* A step of the rotation is nobody else's.
LEMMA RotationMoves ==
    ASSUME SyncInv, [Next]_vars, UNCHANGED <<householdEpoch, document, revisions, history>>,
           UNCHANGED <<clientVars, userVars>>,
           \A x \in Slots : x # RotateSlot => req'[x] = req[x],
           \/ req'[RotateSlot].phase = "free"
           \/ req'[RotateSlot].phase = "issued" /\ req'[RotateSlot].kind \in {"get", "rotate"},
           rotation' \in RotationRecord, Rotates'
    PROVE  SyncInv'
<1>1. StoreGoesOn
  BY QuietGoesOn
<1>2. WithinBounds' /\ MemoryTypes'
  BY MemoryIs DEF SyncInv, WithinBounds, MemoryTypes, clientVars, userVars
<1>3. ASSUME NEW x \in Slots PROVE Asks(x)'
  BY SlotsAre DEF SyncInv, Asks
<1>4. ASSUME NEW x \in Clients PROVE InHand(x)'
  BY MemoryIs DEF InHand, clientVars, userVars
<1>5. ASSUME NEW s \in SaveSlots PROVE Holds(s)'
  BY <1>1, SlotsAre, SavesStay DEF clientVars, userVars
<1>. QED
  BY <1>2, <1>3, <1>4, <1>5, ServerGoesOn DEF SyncInv

LEMMA RotationsKeep ==
    ASSUME SyncInv, [Next]_vars, RotationStep
    PROVE  SyncInv'
<1>1. RotateSlot \in Slots /\ KindsOf(RotateSlot) = {"get", "rotate"}
  BY SlotsAre
<1>2. rotation.doc \in Docs /\ NoDoc \in Docs /\ UNCHANGED <<clientVars, userVars>>
  BY MemoryIs DEF RotationRecord, NoDoc, Doc, Docs, RotationStep, RotationReads, RotationSeals, RotationSends, RotationEnds
<1>3. CASE RotationReads
  <2>1. /\ UNCHANGED <<householdEpoch, document, revisions, history>>
        /\ req'[RotateSlot].phase = "issued" /\ req'[RotateSlot].kind = "get"
        /\ \A x \in Slots : x # RotateSlot => req'[x] = req[x]
    BY <1>1, <1>3, IssueIs DEF RotationReads
  <2>2. rotation' \in RotationRecord /\ rotation'.phase = "reading"
    BY <1>3, MemoryIs DEF RotationReads, RotationRecord
  <2>3. Rotates'
    BY <2>1, <2>2 DEF Rotates
  <2>. QED
    BY <1>2, <2>1, <2>2, <2>3, RotationMoves
<1>4. CASE RotationSeals
  <2> DEFINE r == req[RotateSlot]
             doc == Doc(r.answer.rows, r.version)
  <2>1. /\ UNCHANGED <<householdEpoch, document, revisions, history>> /\ req'[RotateSlot].phase = "free"
        /\ \A x \in Slots : x # RotateSlot => req'[x] = req[x]
    BY <1>1, <1>4, CollectIs DEF RotationSeals
  <2>2. CASE r.code = "ok" /\ Opens(r.answer, householdEpoch, r.version)
    <3>1. r.kind = "get" /\ r.answer # None
      BY <1>1, <1>4, <2>2 DEF RotationSeals, SyncInv, Asks, Rotates
    <3>2. r.version \in 1 .. Len(history) /\ r.answer.rows \subseteq Rows
      BY <1>1, <3>1, AnswersAgree
    <3>3. doc \in Docs /\ doc.basis = r.version
      BY <3>2, DocIs
    <3>4. rotation' = [phase |-> "sealing", doc |-> doc]
      BY <1>4, <2>2 DEF RotationSeals
    <3>5. doc.basis <= document.version
      BY <3>2, <3>3, ServerIs
    <3> HIDE DEF doc
    <3>6. rotation' \in RotationRecord /\ rotation'.phase = "sealing" /\ rotation'.doc = doc
      BY <3>3, <3>4 DEF RotationRecord
    <3>7. Rotates'
      BY <2>1, <3>5, <3>6 DEF Rotates
    <3>. QED
      BY <1>2, <2>1, <3>6, <3>7, RotationMoves
  <2>3. CASE ~(r.code = "ok" /\ Opens(r.answer, householdEpoch, r.version))
    <3>1. rotation' = [phase |-> "idle", doc |-> NoDoc]
      BY <1>4, <2>3 DEF RotationSeals
    <3>2. rotation' \in RotationRecord /\ rotation'.phase = "idle"
      BY <1>2, <3>1 DEF RotationRecord
    <3>3. Rotates'
      BY <2>1, <3>2 DEF Rotates
    <3>. QED
      BY <1>2, <2>1, <3>2, <3>3, RotationMoves
  <2>. QED
    BY <2>2, <2>3
<1>5. CASE RotationSends
  <2>1. PICK sealed : Server!Issue(RotateSlot, "rotate", 0, sealed)
    BY <1>5 DEF RotationSends
  <2>2. /\ UNCHANGED <<householdEpoch, document, revisions, history>>
        /\ req'[RotateSlot].phase = "issued" /\ req'[RotateSlot].kind = "rotate"
        /\ \A x \in Slots : x # RotateSlot => req'[x] = req[x]
        /\ householdEpoch < MaxEpoch
    BY <1>1, <2>1, IssueIs
  <2>3. rotation' \in RotationRecord /\ rotation'.phase = "waiting"
    BY <1>5, MemoryIs DEF RotationSends, RotationRecord
  <2>4. Rotates'
    BY <2>2, <2>3 DEF Rotates
  <2>. QED
    BY <1>2, <2>2, <2>3, <2>4, RotationMoves
<1>6. CASE RotationEnds
  <2>1. /\ UNCHANGED <<householdEpoch, document, revisions, history>> /\ req'[RotateSlot].phase = "free"
        /\ \A x \in Slots : x # RotateSlot => req'[x] = req[x]
    BY <1>1, <1>6, CollectIs DEF RotationEnds
  <2>2. rotation' \in RotationRecord /\ rotation'.phase = "idle"
    BY <1>2, <1>6 DEF RotationEnds, RotationRecord
  <2>3. Rotates'
    BY <2>1, <2>2 DEF Rotates
  <2>. QED
    BY <1>2, <2>1, <2>2, <2>3, RotationMoves
<1>. QED
  BY <1>3, <1>4, <1>5, <1>6 DEF RotationStep

\* While the server answers, every document in memory stays as good as it was.
LEMMA AnsweringKeeps ==
    ASSUME SyncInv, [Next]_vars, NEW r \in Slots, ServerStep(r) \/ Fault(r)
    PROVE  SyncInv'
<1>1. Answers(r) /\ UNCHANGED <<clientVars, rotation, userVars>>
  BY HandlersAnswer DEF ServerStep, Fault
<1>2. StoreGoesOn /\ deleted' = deleted
  BY <1>1 DEF Answers, userVars
<1>3. ASSUME NEW x \in Slots PROVE Asks(x)'
  BY <1>1 DEF SyncInv, Asks, Answers
<1>4. req[r].phase = "admitted" /\ req[r].kind = "rotate" => r = RotateSlot
  BY SlotsAre DEF SyncInv, Asks, KindsOf
<1>5. WithinBounds'
  BY <1>1, <1>4, ServerIs, NumberAssumption DEF SyncInv, WithinBounds, Rotates, Answers
<1>6. Rotates'
  <2>1. rotation' = rotation /\ rotation.doc.basis \in Nat
    BY <1>1, MemoryIs DEF RotationRecord, Docs
  <2>2. rotation.phase = "sealing" => rotation.doc.basis <= document'.version
    BY <2>1, <1>2, ServerIs DEF SyncInv, Rotates, StoreGoesOn
  <2>3. rotation.phase = "reading" => req'[RotateSlot].phase # "free" /\ req'[RotateSlot].kind = "get"
    BY <1>1, SlotsAre DEF SyncInv, Rotates, Answers
  <2>4. req'[RotateSlot].phase \in {"issued", "admitted"} /\ req'[RotateSlot].kind = "rotate"
            => householdEpoch' < MaxEpoch
    <3>1. CASE r = RotateSlot
      BY <1>1, <3>1 DEF SyncInv, Rotates, Answers
    <3>2. CASE r # RotateSlot
      BY <1>1, <1>4, <3>2, SlotsAre DEF SyncInv, Rotates, Answers
    <3>. QED
      BY <3>1, <3>2
  <2>. QED
    BY <2>1, <2>2, <2>3, <2>4 DEF Rotates
<1>7. MemoryTypes'
  BY <1>1, MemoryIs DEF MemoryTypes, clientVars, userVars
<1>8. ASSUME NEW x \in Clients PROVE InHand(x)'
  BY <1>1, <1>2, ClientStays DEF clientVars
<1>9. ASSUME NEW s \in SaveSlots PROVE Holds(s)'
  <2>1. /\ req'[s].sealed = req[s].sealed /\ (req'[s].phase = "free" <=> req[s].phase = "free")
        /\ save' = save /\ app' = app
    BY <1>1, SlotsAre DEF Answers, clientVars
  <2>. QED
    BY <1>2, <2>1, SaveStays
<1>. QED
  BY <1>3, <1>5, <1>6, <1>7, <1>8, <1>9, ServerGoesOn DEF SyncInv

-----------------------------------------------------------------------------
(* The invariant.                                                          *)

LEMMA SyncStarts ==
    ASSUME Init
    PROVE  SyncInv
<1>1. Proven!Init
  BY DEF Init, Server!Init, Proven!Init, Server!Free, Proven!Free
<1>2. Proven!IInv
  BY <1>1, ServerAssumptions, Proven!InitIInv
<1>3. /\ householdEpoch = 1 /\ document.version = 1 /\ history = <<Seal(1, 1, {})>>
      /\ \A r \in Slots : req[r] = Proven!Free
  BY <1>1 DEF Proven!Init
<1>4. NoDoc \in Docs /\ NoDoc.basis = 0 /\ Took(NoDoc, history, deleted)
  BY <1>3 DEF NoDoc, Doc, Docs, Took
<1>5. Doc({}, 1) \in Docs /\ Took(Doc({}, 1), history, deleted)
  BY <1>3 DEF Doc, Docs, Took, Seal
<1>6. IdleLoad \in LoadRecord /\ IdleLoad.doc = NoDoc
  BY LoadsAre
<1>7. [Closed EXCEPT !.data = Doc({}, 1)] \in AppRecord
      /\ [Closed EXCEPT !.data = Doc({}, 1)].data = Doc({}, 1)
      /\ [Closed EXCEPT !.data = Doc({}, 1)].latest = NoDoc
  <2>1. Closed \in AppRecord /\ Closed.latest = NoDoc
    BY <1>4 DEF Closed, AppRecord
  <2> DEFINE first == Doc({}, 1)
  <2>2. first \in Docs
    BY <1>5
  <2> HIDE DEF first
  <2>3. /\ [Closed EXCEPT !.data = first] \in AppRecord /\ [Closed EXCEPT !.data = first].data = first
        /\ [Closed EXCEPT !.data = first].latest = NoDoc
    BY <2>1, <2>2 DEF AppRecord
  <2>. QED
    BY <2>3 DEF first
<1>8. \A c \in Clients : /\ session[c] = [key |-> 1, version |-> 1] /\ load[c] = IdleLoad
                         /\ app[c] = [Closed EXCEPT !.data = Doc({}, 1)]
  BY DEF Init
<1>9. \A s \in SaveSlots : save[s] = IdleSave
  BY DEF Init, SaveSlots
<1>10. rotation \in RotationRecord /\ rotation.phase = "idle"
  BY <1>4 DEF Init, RotationRecord
<1>11. MemoryTypes
  <2>1. session \in [Clients -> [key : Nat, version : Nat]]
    BY DEF Init
  <2>2. app \in [Clients -> AppRecord]
    BY <1>7 DEF Init
  <2>3. load \in [Clients -> LoadRecord]
    BY <1>6 DEF Init
  <2>4. save \in [SaveSlots -> SaveRecord]
    BY IdleHolds DEF Init, SaveSlots
  <2>5. created \subseteq Rows
    BY DEF Init
  <2>. QED
    BY <1>10, <2>1, <2>2, <2>3, <2>4, <2>5 DEF MemoryTypes
<1>12. WithinBounds /\ Rotates /\ \A r \in Slots : Asks(r)
  BY <1>3, <1>10, SlotsAre, NumberAssumption DEF WithinBounds, Rotates, Asks, Proven!Free
<1>13. \A c \in Clients : InHand(c)
  <2>1. \A c \in Clients : session[c].key \in 1 .. householdEpoch /\ session[c].version <= document.version
    BY <1>3, <1>8
  <2>. QED
    BY <2>1, <1>4, <1>5, <1>6, <1>7, <1>8 DEF InHand
<1>14. \A s \in SaveSlots : Holds(s)
  <2>1. IdleSave.phase = "idle" /\ IdleSave.doc = NoDoc /\ ~IdleSave.onScreen
    BY DEF IdleSave
  <2>. QED
    BY <1>4, <1>9, <2>1 DEF Holds
<1>. QED
  BY <1>2, <1>11, <1>12, <1>13, <1>14 DEF SyncInv

LEMMA NothingKeeps ==
    ASSUME SyncInv, UNCHANGED vars
    PROVE  SyncInv'
<1>1. StoreGoesOn /\ WithinBounds' /\ Rotates' /\ \A r \in Slots : Asks(r)'
  BY QuietRequests DEF vars
<1>2. \A s \in SaveSlots : Holds(s)'
  BY SavesStay DEF vars, serverVars, clientVars
<1>3. \A c \in Clients : InHand(c)'
  BY MemoryIs DEF InHand, vars, serverVars, clientVars, userVars
<1>4. MemoryTypes'
  BY MemoryIs DEF MemoryTypes, vars, clientVars, userVars
<1>. QED
  BY <1>1, <1>2, <1>3, <1>4, ServerGoesOn DEF SyncInv

LEMMA SyncStep ==
    ASSUME SyncInv, [Next]_vars
    PROVE  SyncInv'
<1>1. ASSUME NEW c \in Clients, User(c) PROVE SyncInv'
  BY <1>1, EditsKeep, LoadsBegin, ReloadsKeep, FlushesKeep, ImportsKeep DEF User
<1>2. ASSUME NEW c \in Clients, Poll(c) \/ LoadStep(c) PROVE SyncInv'
  BY <1>2, LoadsBegin, LoadsEnd, ScreensKeep DEF LoadStep
<1>3. ASSUME NEW c \in Clients, NEW j \in SaveJobs, SaveStep(c, j) PROVE SyncInv'
  BY <1>3, FlushesKeep, SendsKeep, FailuresKeep, AcceptedKeep, ConflictsKeep DEF SaveStep
<1>4. CASE RotationStep
  BY <1>4, RotationsKeep
<1>5. ASSUME NEW r \in Slots, ServerStep(r) \/ Fault(r) PROVE SyncInv'
  BY <1>5, AnsweringKeeps
<1>6. CASE UNCHANGED vars
  BY <1>6, NothingKeeps
<1>. QED
  BY <1>1, <1>2, <1>3, <1>4, <1>5, <1>6 DEF Next

LEMMA AlwaysInSync == Spec => []SyncInv
<1>1. Init => SyncInv
  BY SyncStarts
<1>2. SyncInv /\ [Next]_vars => SyncInv'
  BY SyncStep
<1>. QED
  BY <1>1, <1>2, PTL DEF Spec

-----------------------------------------------------------------------------
(* What it gives.                                                          *)

\* The devices together do to the vault routes nothing but what VaultServer
\* lets its requests do, so what is proved of the routes holds of the system.
THEOREM DevicesUseTheRoutes == Spec => Server!Spec
<1>1. Init => Server!Init
  BY DEF Init
<1>2. SyncInv /\ [Next]_vars => [Server!Next]_(Server!vars)
  <2>1. SUFFICES ASSUME SyncInv, [Next]_vars PROVE [Server!Next]_(Server!vars)
    OBVIOUS
  <2>2. [Proven!Next]_(Proven!vars)
    BY <2>1, DevicesOnlyAsk
  <2>3. Proven!Next => Server!Next
    <3>1. ASSUME NEW r \in Slots
          PROVE  /\ Proven!IssueRead(r) => Server!IssueRead(r)
                 /\ Proven!IssueWrite(r) => Server!IssueWrite(r)
      BY DEF Proven!IssueRead, Server!IssueRead, Proven!IssueWrite, Server!IssueWrite,
             Proven!Issue, Server!Issue, Proven!Free, Server!Free, Proven!DisplayKinds, Server!DisplayKinds
    <3>. QED
      BY <3>1, OneServer DEF Proven!Next, Server!Next
  <2>. QED
    BY <2>2, <2>3 DEF Server!vars, Proven!vars
<1>. QED
  BY <1>1, <1>2, AlwaysInSync, PTL DEF Spec, Server!Spec

\* A save stored on the version it took in has that version's rows, all but
\* those deleted since.
LEMMA FreshSaveKeeps ==
    ASSUME SyncInv, NEW s \in SaveSlots, Stored(s), save[s].doc.basis = req[s].base
    PROVE  Kept
<1>1. Holds(s) /\ s \in Slots
  BY MemoryIs, SlotsAre
<1>2. /\ req[s].phase = "admitted" /\ req[s].base = document.version
      /\ document'.ciphertext = req[s].sealed
  BY DEF Stored, Server!PutVault, Server!BaseIsCurrent
<1>3. document.version > 0 /\ history[document.version] = document.ciphertext
  BY ServerIs
<1>4. save[s].phase = "waiting"
  <2>1. save[s].phase # "sealing"
    BY <1>1, <1>2 DEF Holds
  <2>2. save[s].phase # "idle"
    <3>1. IdleSave.doc.basis = 0
      BY DEF IdleSave, NoDoc, Doc
    <3>. QED
      BY <1>1, <1>2, <1>3, <3>1 DEF Holds
  <2>3. save[s] \in SaveRecord
    BY MemoryIs
  <2>. QED
    BY <2>1, <2>2, <2>3 DEF SaveRecord
<1>5. document'.ciphertext.rows = save[s].doc.rows
  BY <1>1, <1>2, <1>4 DEF Holds
<1>6. history[document.version].rows \ deleted \subseteq save[s].doc.rows
  BY <1>1, <1>2, <1>3 DEF Holds, Took
<1>. QED
  BY <1>3, <1>5, <1>6 DEF Kept

\* A save whose content took in the version it names loses nothing (saveVault,
\* mergeDocuments and the version check of PUT /vault).
THEOREM FreshSaves == Spec => FreshSavesLoseNothing
<1>1. SyncInv /\ [Next]_vars =>
        [\A s \in Clients \X SaveJobs : Stored(s) /\ save[s].doc.basis = req[s].base => Kept]_vars
  BY FreshSaveKeeps DEF SaveSlots
<1>. QED
  BY <1>1, AlwaysInSync, PTL DEF Spec, FreshSavesLoseNothing

\* A save sealed for the version after its base, under the key of the epoch it
\* was admitted in, is readable for everyone of that epoch (PUT /vault).
THEOREM SealedSavesOpen == Spec => WellSealedSavesOpen
<1>1. SyncInv /\ [Next]_vars =>
        [\A s \in Clients \X SaveJobs :
            /\ Stored(s)
            /\ Opens(req[s].sealed, req[s].epoch, req[s].base + 1)
            => Readable']_vars
  <2>1. ASSUME SyncInv, NEW s \in SaveSlots, Stored(s), Opens(req[s].sealed, req[s].epoch, req[s].base + 1)
        PROVE  Readable'
    <3>1. /\ document.keyEpoch = req[s].epoch /\ document.version = req[s].base
          /\ document' = [document EXCEPT !.version = @ + 1, !.ciphertext = req[s].sealed]
      BY <2>1 DEF Stored, Server!PutVault, Server!BaseIsCurrent, Server!EpochIsCurrent
    <3>2. /\ document'.keyEpoch = document.keyEpoch /\ document'.version = document.version + 1
          /\ document'.ciphertext = req[s].sealed
      BY <2>1, <3>1, ServerIs DEF Proven!Row
    <3>. QED
      BY <2>1, <3>1, <3>2 DEF Opens, Readable
  <2>. QED
    BY <2>1 DEF SaveSlots
<1>. QED
  BY <1>1, AlwaysInSync, PTL DEF Spec, WellSealedSavesOpen

=============================================================================

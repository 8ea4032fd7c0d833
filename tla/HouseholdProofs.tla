--------------------------- MODULE HouseholdProofs ----------------------------
(***************************************************************************)
(* Theorems about Household, for any number of people, screens,            *)
(* invitations and requests at a time, and for every threshold of          *)
(* approvals.                                                              *)
(*                                                                         *)
(* What a request has been promised is said of the request alone, as the   *)
(* members m and the screens s stand now: whoever is active, and not one   *)
(* of the overlooked o, is on the list of a rotation that holds the lock   *)
(* (Covers), a screen whose link is                                        *)
(* about to go is neither new nor waiting (Withdraws), and as long as no   *)
(* other change of a membership was committed, who asked is who they were, *)
(* and whoever takes an admin away knows of another (Stands).              *)
(***************************************************************************)
EXTENDS Household, FiniteSetTheorems, TLAPS

MemberActs == {"role", "remove", "leave", "grant", "managed"}
DisplayActs == {"approve", "deny", "activate", "extend", "revoke", "load"}
Phases == {"idle", "loaded", "checked", "written"}

RequestRecord ==
    [phase : Phases, act : Acts \cup {"none"}, by : Subjects \cup {None},
     on : Subjects \cup {None}, role : Roles \cup {"none"},
     epoch : Nat, key : Nat, subjects : SUBSET Subjects, disturbed : BOOLEAN]
MemberRecord == [status : {"none", "pending", "active", "removed"}, role : Roles]
DisplayRecord == [status : {"none", "pending", "active", "expired", "revoked"},
                  token : BOOLEAN, due : BOOLEAN]

ActiveIn(m) == {u \in Users : m[u].status = "active"}
AdminsIn(m) == {u \in ActiveIn(m) : m[u].role = "admin"}
Settled(s, d) == s[d].status \notin {"none", "pending"}

\* Whom or what it is about.
Addressed(q) ==
    /\ q.act \in MemberActs => q.on \in Users
    /\ q.act \in DisplayActs => q.on \in Displays
    /\ q.act = "role" => q.role \in Roles
    /\ q.phase = "idle" => q.act = "none"

Covers(q, m, o) == q.phase = "checked" /\ q.act = "rotate" => ActiveIn(m) \ o \subseteq q.subjects

Withdraws(q, s) == q.phase = "written" /\ q.act = "revoke" => Settled(s, q.on)

Stands(q, m) ==
    q.act \in {"role", "remove", "leave"} /\ ~q.disturbed =>
        /\ q.by \in ActiveIn(m)
        /\ q.act # "leave" => q.by \in AdminsIn(m)
        /\ q.act = "remove" => q.on # q.by
        /\ q.act = "leave" => q.on = q.by /\ q.role = m[q.by].role
        /\ q.phase = "checked" /\ q.on = q.by /\ q.by \in AdminsIn(m)
              => (q.act = "role" /\ q.role = "admin") \/ AdminsIn(m) \ {q.by} # {}

Promised(q, m, o, s) == Addressed(q) /\ Covers(q, m, o) /\ Withdraws(q, s) /\ Stands(q, m)

\* Gone for good: nothing proposes a screen twice.
CutStaysCut == \A d \in cut : Settled(display, d) /\ ~display[d].token

HouseholdInv ==
    /\ TypeOK /\ CutStaysCut
    /\ \A r \in Requests : Promised(req[r], member, overlooked, display)

-----------------------------------------------------------------------------
(* Requests.                                                               *)

LEMMA AdminsAre == Admins = AdminsIn(member) /\ \A u \in Users : Active(u) <=> u \in ActiveIn(member)
BY DEF Admins, AdminsIn, ActiveIn, Active

LEMMA TypesAre ==
    ASSUME TypeOK
    PROVE  /\ req \in [Requests -> RequestRecord] /\ member \in [Users -> MemberRecord]
           /\ display \in [Displays -> DisplayRecord]
BY DEF TypeOK, RequestRecord, MemberRecord, DisplayRecord, Phases

LEMMA IdleIsPromised ==
    /\ Idle \in RequestRecord
    /\ \A m, o, s : Promised(Idle, m, o, s)
BY DEF Idle, RequestRecord, Phases, Promised, Addressed, Covers, Withdraws, Stands,
       MemberActs, DisplayActs

\* One request changes, nothing that was promised to it or to the others does.
LEMMA MoveKeeps ==
    ASSUME HouseholdInv, NEW r \in Requests, NEW q \in RequestRecord,
           req' = [req EXCEPT ![r] = q], Promised(q, member, overlooked, display)
    PROVE  /\ req' \in [Requests -> RequestRecord]
           /\ \A x \in Requests : Promised(req'[x], member, overlooked, display)
<1>1. req \in [Requests -> RequestRecord]
  BY TypesAre DEF HouseholdInv
<1>2. \A x \in Requests : req'[x] = IF x = r THEN q ELSE req[x]
  BY <1>1
<1>. QED
  BY <1>1, <1>2 DEF HouseholdInv

\* A request that is let in.
LEMMA SendKeeps ==
    ASSUME HouseholdInv, NEW r \in Requests, NEW u \in Users, NEW act \in Acts,
           NEW on \in Subjects \cup {None}, NEW role \in Roles \cup {"none"}, NEW key \in Nat,
           NEW subjects \in SUBSET Subjects, Send(r, u, act, on, role, key, subjects),
           act \in MemberActs => on \in Users,
           act \in DisplayActs => on \in Displays,
           act = "role" => role \in Roles,
           act = "remove" => on # u,
           act = "leave" => on = u /\ role = member[u].role
    PROVE  /\ req' \in [Requests -> RequestRecord] /\ sent' \in Nat /\ topic' = topic
           /\ \A x \in Requests : Promised(req'[x], member, overlooked, display)
<1> DEFINE q == [phase |-> "loaded", act |-> act, by |-> u, on |-> on, role |-> role,
                 epoch |-> keyEpoch, key |-> key, subjects |-> subjects, disturbed |-> FALSE]
<1>1. q \in RequestRecord
  BY DEF HouseholdInv, TypeOK, RequestRecord, Phases, Subjects
<1>2. /\ req' = [req EXCEPT ![r] = q] /\ Active(u) /\ (act # "leave" => u \in Admins)
      /\ sent' = sent + 1 /\ topic' = topic
  BY DEF Send, Count
<1>3. Promised(q, member, overlooked, display)
  BY <1>2, AdminsAre DEF Promised, Addressed, Covers, Withdraws, Stands
<1>4. sent' \in Nat
  BY <1>2 DEF HouseholdInv, TypeOK
<1> HIDE DEF q
<1>. QED
  BY <1>1, <1>2, <1>3, <1>4, MoveKeeps

\* It goes back to being idle.
LEMMA FinishKeeps ==
    ASSUME HouseholdInv, NEW r \in Requests, Finish(r)
    PROVE  /\ req' \in [Requests -> RequestRecord] /\ sent' = sent /\ topic' = topic
           /\ \A x \in Requests : Promised(req'[x], member, overlooked, display)
BY MoveKeeps, IdleIsPromised DEF Finish, bounds

\* It goes on to a later phase.
LEMMA PhaseFields ==
    ASSUME HouseholdInv, NEW r \in Requests, NEW phase \in Phases
    PROVE  \E q \in RequestRecord :
              /\ q = [req[r] EXCEPT !.phase = phase] /\ q.phase = phase
              /\ q.act = req[r].act /\ q.by = req[r].by /\ q.on = req[r].on /\ q.role = req[r].role
              /\ q.subjects = req[r].subjects /\ q.disturbed = req[r].disturbed
              /\ [req EXCEPT ![r].phase = phase] = [req EXCEPT ![r] = q]
<1>1. req[r] \in RequestRecord
  BY TypesAre DEF HouseholdInv
<1>. QED
  BY <1>1 DEF RequestRecord

-----------------------------------------------------------------------------
(* What the members' and the screens' changes leave of a promise.          *)

\* As long as those who are active, and as what, stay the same.
LEMMA SameActive ==
    ASSUME NEW q, NEW m, NEW n, NEW o, NEW s, Promised(q, m, o, s), ActiveIn(n) = ActiveIn(m),
           \A u \in ActiveIn(m) : n[u] = m[u]
    PROVE  Promised(q, n, o, s)
<1>1. AdminsIn(n) = AdminsIn(m)
  BY DEF AdminsIn
<1>. QED
  BY <1>1 DEF Promised, Covers, Stands

\* A screen that was settled stays so.
LEMMA StaysSettled ==
    ASSUME NEW q \in RequestRecord, NEW m, NEW o, NEW s, NEW t, Promised(q, m, o, s),
           \A d \in Displays : Settled(s, d) => Settled(t, d)
    PROVE  Promised(q, m, o, t)
BY DEF Promised, Withdraws, Addressed, DisplayActs

\* A change of a membership is seen by the others; a rotation that holds the lock
\* keeps its list as long as nobody becomes active.
LEMMA ChangeKeeps ==
    ASSUME HouseholdInv, NEW r \in Requests, FinishChange(r),
           NEW n, NEW o, HouseholdLocked => ActiveIn(n) \ o \subseteq ActiveIn(member) \ overlooked
    PROVE  /\ req' \in [Requests -> RequestRecord] /\ sent' = sent /\ topic' = topic
           /\ \A x \in Requests : Promised(req'[x], n, o, display)
<1>1. req \in [Requests -> RequestRecord]
  BY TypesAre DEF HouseholdInv
<1>2. /\ req' = [x \in Requests |-> IF x = r \/ req[x].phase = "idle" THEN Idle
                                    ELSE [req[x] EXCEPT !.disturbed = TRUE]]
      /\ sent' = sent /\ topic' = topic
  BY DEF FinishChange, bounds
<1>3. ASSUME NEW x \in Requests PROVE req'[x] \in RequestRecord /\ Promised(req'[x], n, o, display)
  <2>1. CASE x = r \/ req[x].phase = "idle"
    BY <1>2, <2>1, IdleIsPromised
  <2>2. CASE ~(x = r \/ req[x].phase = "idle")
    <3> DEFINE q == [req[x] EXCEPT !.disturbed = TRUE]
    <3>1. req'[x] = q
      BY <1>2, <2>2
    <3>2. /\ q \in RequestRecord /\ q.phase = req[x].phase /\ q.act = req[x].act /\ q.on = req[x].on
          /\ q.role = req[x].role /\ q.subjects = req[x].subjects /\ q.disturbed
      BY <1>1 DEF RequestRecord
    <3>3. Promised(req[x], member, overlooked, display)
      BY DEF HouseholdInv
    <3>4. Covers(q, n, o)
      BY <3>2, <3>3 DEF Promised, Covers, HouseholdLocked, At
    <3> HIDE DEF q
    <3>. QED
      BY <3>1, <3>2, <3>3, <3>4 DEF Promised, Addressed, Withdraws, Stands
  <2>. QED
    BY <2>1, <2>2
<1>4. req' \in [Requests -> RequestRecord]
  BY <1>2, <1>3
<1>. QED
  BY <1>2, <1>3, <1>4


-----------------------------------------------------------------------------
(* What the statements store is a row.                                     *)

LEMMA StoredRows ==
    ASSUME TypeOK, NEW rows \in SUBSET KeyRow
    PROVE  StoreKeys(rows) \subseteq KeyRow
BY DEF StoreKeys, TypeOK

LEMMA KeyOfIsARow ==
    ASSUME TypeOK, NEW r \in Requests, req[r].on \in Subjects
    PROVE  KeyOf(r) \in KeyRow
BY DEF KeyOf, KeyRow, TypeOK

LEMMA MemberSet ==
    ASSUME TypeOK, NEW u \in Users, NEW to \in MemberRecord
    PROVE  /\ [member EXCEPT ![u] = to] \in [Users -> MemberRecord]
           /\ \A v \in Users : [member EXCEPT ![u] = to][v] = IF v = u THEN to ELSE member[v]
BY TypesAre

LEMMA DisplaySet ==
    ASSUME TypeOK, NEW d \in Displays, NEW to \in DisplayRecord
    PROVE  /\ [display EXCEPT ![d] = to] \in [Displays -> DisplayRecord]
           /\ \A e \in Displays : [display EXCEPT ![d] = to][e] = IF e = d THEN to ELSE display[e]
BY TypesAre

-----------------------------------------------------------------------------
(* One lemma for each group of actions.                                    *)

LEMMA InvitationsKeep ==
    ASSUME HouseholdInv, NEW u \in Users, NEW i \in Invites,
           CreateInvite(u, i) \/ AcceptInvite(u, i) \/ RevokeInvite(i)
    PROVE  HouseholdInv'
<1>1. CASE CreateInvite(u, i)
  BY <1>1 DEF CreateInvite, HouseholdInv, TypeOK, CutStaysCut, secrets, screens, bounds, Settled,
              Roles, Promised, Addressed, Covers, Withdraws, Stands, ActiveIn, AdminsIn
<1>2. CASE RevokeInvite(i)
  BY <1>2 DEF RevokeInvite, HouseholdInv, TypeOK, CutStaysCut, secrets, screens, bounds, Settled,
              Promised, Addressed, Covers, Withdraws, Stands, ActiveIn, AdminsIn
<1>3. CASE AcceptInvite(u, i)
  <2> DEFINE to == [status |-> "pending", role |-> invite[i].role]
  <2>1. to \in MemberRecord /\ to.status = "pending"
    BY DEF HouseholdInv, TypeOK, MemberRecord
  <2>2. member' = [member EXCEPT ![u] = to] /\ ~Active(u)
    BY <1>3 DEF AcceptInvite
  <2> HIDE DEF to
  <2>3. member' \in [Users -> MemberRecord] /\ \A v \in Users : member'[v] = IF v = u THEN to ELSE member[v]
    BY <2>1, <2>2, MemberSet DEF HouseholdInv
  <2>4. ActiveIn(member') = ActiveIn(member) /\ \A v \in ActiveIn(member) : member'[v] = member[v]
    BY <2>1, <2>2, <2>3 DEF ActiveIn, Active
  <2>5. /\ invite' \in [Invites -> [status : {"none", "open", "claimed", "revoked"}, role : Roles]]
        /\ UNCHANGED <<secrets, screens, req, bounds, overlooked>>
    BY <1>3 DEF AcceptInvite, HouseholdInv, TypeOK
  <2>6. \A r \in Requests : Promised(req[r], member', overlooked, display)
    BY <2>4, SameActive DEF HouseholdInv
  <2>7. TypeOK'
    BY <2>3, <2>5 DEF HouseholdInv, TypeOK, MemberRecord, secrets, screens, bounds
  <2>. QED
    BY <2>5, <2>6, <2>7 DEF HouseholdInv, CutStaysCut, Settled, screens
<1>. QED
  BY <1>1, <1>2, <1>3

\* What a step leaves that touches nothing but its request.
LEMMA OnlyRequests ==
    ASSUME HouseholdInv, UNCHANGED <<membership, screens>>,
           req' \in [Requests -> RequestRecord], \A x \in Requests : Promised(req'[x], member, overlooked, display),
           sent' \in Nat, topic' = topic,
           keyEpoch' \in Nat, documentKey' \in Nat, minted' \in Nat,
           keys' \subseteq KeyRow, held' \in [Users -> Nat]
    PROVE  HouseholdInv'
<1>1. TypeOK'
  BY DEF HouseholdInv, TypeOK, RequestRecord, Phases, membership, screens
<1>. QED
  BY <1>1 DEF HouseholdInv, CutStaysCut, Settled, membership, screens

LEMMA SecretsAre ==
    ASSUME HouseholdInv
    PROVE  /\ keyEpoch \in Nat /\ documentKey \in Nat /\ minted \in Nat /\ sent \in Nat
           /\ keys \subseteq KeyRow /\ held \in [Users -> Nat]
BY DEF HouseholdInv, TypeOK

LEMMA SendsKeep ==
    ASSUME HouseholdInv, NEW r \in Requests,
           \/ SendRole(r) \/ SendRemoval(r) \/ SendLeave(r)
           \/ SendGrant(r) \/ SendManaged(r) \/ SendRotate(r) \/ SendForDisplay(r)
    PROVE  HouseholdInv'
<1> DEFINE Sent ==
      /\ req' \in [Requests -> RequestRecord] /\ sent' \in Nat /\ topic' = topic
      /\ \A x \in Requests : Promised(req'[x], member, overlooked, display)
<1> USE DEF Acts, Subjects, Roles, MemberActs, DisplayActs
<1>1. CASE SendRole(r)
  <2>1. Sent
    BY <1>1, SendKeeps DEF SendRole
  <2>. QED
    BY <1>1, <2>1, OnlyRequests, SecretsAre DEF SendRole, secrets
<1>2. CASE SendRemoval(r)
  <2>1. Sent
    BY <1>2, SendKeeps DEF SendRemoval
  <2>. QED
    BY <1>2, <2>1, OnlyRequests, SecretsAre DEF SendRemoval, secrets
<1>3. CASE SendLeave(r)
  <2>1. \A u \in Users : member[u].role \in Roles
    BY TypesAre DEF HouseholdInv, MemberRecord
  <2>2. Sent
    BY <1>3, <2>1, SendKeeps DEF SendLeave
  <2>. QED
    BY <1>3, <2>2, OnlyRequests, SecretsAre DEF SendLeave, secrets
<1>4. CASE SendGrant(r)
  <2>1. Sent
    BY <1>4, SecretsAre, SendKeeps DEF SendGrant
  <2>. QED
    BY <1>4, <2>1, OnlyRequests, SecretsAre DEF SendGrant, secrets
<1>5. CASE SendManaged(r)
  <2>1. Sent
    BY <1>5, SecretsAre, SendKeeps DEF SendManaged
  <2>. QED
    BY <1>5, <2>1, OnlyRequests, SecretsAre DEF SendManaged, secrets
<1>6. CASE SendRotate(r)
  <2>1. Expected \in SUBSET Subjects
    BY DEF Expected
  <2>2. PICK u \in Users : Send(r, u, "rotate", None, "none", minted + 1, Expected)
    BY <1>6 DEF SendRotate
  <2>3. minted + 1 \in Nat
    BY SecretsAre
  <2>4. Sent
    BY <2>1, <2>2, <2>3, SendKeeps
  <2>. QED
    BY <1>6, <2>3, <2>4, OnlyRequests, SecretsAre DEF SendRotate
<1>7. CASE SendForDisplay(r)
  <2>1. Sent
    BY <1>7, SecretsAre, SendKeeps DEF SendForDisplay
  <2>. QED
    BY <1>7, <2>1, OnlyRequests, SecretsAre DEF SendForDisplay, secrets
<1>. QED
  BY <1>1, <1>2, <1>3, <1>4, <1>5, <1>6, <1>7

\* The last-admin count: the check is where another admin is known of.
LEMMA AnotherAdmin ==
    ASSUME TypeOK, NEW u \in Admins, ~LastAdmin
    PROVE  Admins \ {u} # {}
<1>1. IsFiniteSet(Users) /\ Admins \subseteq Users
  BY FounderAssumption DEF Admins
<1>2. IsFiniteSet(Admins)
  BY <1>1, FS_Subset
<1>3. SUFFICES ASSUME Admins = {u} PROVE FALSE
  OBVIOUS
<1>4. Cardinality(Admins) = 1
  BY <1>3, FS_Singleton
<1>. QED
  BY <1>4 DEF LastAdmin

LEMMA CheckLastAdminKeeps ==
    ASSUME HouseholdInv, NEW r \in Requests, CheckLastAdmin(r)
    PROVE  HouseholdInv'
<1>1. PICK q \in RequestRecord :
        /\ q.phase = "checked"
        /\ q.act = req[r].act /\ q.by = req[r].by /\ q.on = req[r].on /\ q.role = req[r].role
        /\ q.subjects = req[r].subjects /\ q.disturbed = req[r].disturbed
        /\ [req EXCEPT ![r].phase = "checked"] = [req EXCEPT ![r] = q]
  BY PhaseFields DEF Phases
<1>2. /\ req' = [req EXCEPT ![r] = q] /\ UNCHANGED <<secrets, membership, screens, bounds>>
      /\ At(r, "loaded", {"role", "remove", "leave"}) /\ ~(TakesAnAdmin(r) /\ LastAdmin)
  BY <1>1 DEF CheckLastAdmin, Proceed
<1>3. Promised(req[r], member, overlooked, display) /\ TypeOK
  BY DEF HouseholdInv
<1>4. Admins = AdminsIn(member)
  BY AdminsAre
<1>5. Stands(q, member)
  <2> SUFFICES ASSUME ~q.disturbed, q.on = q.by, q.by \in AdminsIn(member),
                      ~(q.act = "role" /\ q.role = "admin")
               PROVE  AdminsIn(member) \ {q.by} # {}
    BY <1>1, <1>2, <1>3 DEF Promised, Stands, At
  <2>1. TakesAnAdmin(r)
    BY <1>1, <1>2, <1>3 DEF Promised, Stands, At, TakesAnAdmin, AdminsIn
  <2>. QED
    BY <1>2, <1>3, <1>4, <2>1, AnotherAdmin
<1>6. Promised(q, member, overlooked, display)
  BY <1>1, <1>2, <1>3, <1>5 DEF Promised, Addressed, Covers, Withdraws, At
<1>. QED
  BY <1>2, <1>6, MoveKeeps, OnlyRequests, SecretsAre DEF secrets, bounds

LEMMA CheckPendingKeeps ==
    ASSUME HouseholdInv, NEW r \in Requests, CheckPending(r)
    PROVE  HouseholdInv'
<1>1. PICK q \in RequestRecord :
        /\ q.phase = "checked"
        /\ q.act = req[r].act /\ q.by = req[r].by /\ q.on = req[r].on /\ q.role = req[r].role
        /\ q.subjects = req[r].subjects /\ q.disturbed = req[r].disturbed
        /\ [req EXCEPT ![r].phase = "checked"] = [req EXCEPT ![r] = q]
  BY PhaseFields DEF Phases
<1>2. /\ req' = [req EXCEPT ![r] = q] /\ UNCHANGED <<secrets, membership, screens, bounds>>
      /\ At(r, "loaded", {"approve", "deny"})
  BY <1>1 DEF CheckPending, Proceed
<1>3. Promised(req[r], member, overlooked, display)
  BY DEF HouseholdInv
<1>4. Promised(q, member, overlooked, display)
  BY <1>1, <1>2, <1>3 DEF Promised, Addressed, Covers, Withdraws, Stands, At
<1>. QED
  BY <1>2, <1>4, MoveKeeps, OnlyRequests, SecretsAre DEF secrets, bounds

\* A rotation makes its list when no other holds the lock, and nobody is overlooked yet.
LEMMA LockKeeps ==
    ASSUME HouseholdInv, NEW r \in Requests, LockHousehold(r)
    PROVE  HouseholdInv'
<1>1. PICK q \in RequestRecord :
        /\ q.phase = "checked"
        /\ q.act = req[r].act /\ q.by = req[r].by /\ q.on = req[r].on /\ q.role = req[r].role
        /\ q.subjects = req[r].subjects /\ q.disturbed = req[r].disturbed
        /\ [req EXCEPT ![r].phase = "checked"] = [req EXCEPT ![r] = q]
  BY PhaseFields DEF Phases
<1>2. /\ req' = [req EXCEPT ![r] = q] /\ UNCHANGED <<secrets, member, invite, screens, bounds>>
      /\ At(r, "loaded", {"rotate"}) /\ Expected \subseteq req[r].subjects /\ ~HouseholdLocked
      /\ overlooked' = {}
  BY <1>1 DEF LockHousehold, Proceed
<1>3. \A x \in Requests : Promised(req[x], member, overlooked, display)
  BY DEF HouseholdInv
<1>4. ActiveIn(member) \subseteq Expected
  BY DEF ActiveIn, Expected, Active
<1>5. Promised(q, member, {}, display)
  BY <1>1, <1>2, <1>3, <1>4 DEF Promised, Addressed, Covers, Withdraws, Stands, At
<1>6. req \in [Requests -> RequestRecord]
  BY TypesAre DEF HouseholdInv
<1>7. /\ req' \in [Requests -> RequestRecord]
      /\ \A x \in Requests : req'[x] = IF x = r THEN q ELSE req[x]
  BY <1>2, <1>6
<1>8. ASSUME NEW x \in Requests PROVE Promised(req'[x], member, {}, display)
  BY <1>2, <1>3, <1>5, <1>7 DEF Promised, Covers, HouseholdLocked, At
<1>9. TypeOK'
  BY <1>2, <1>7 DEF HouseholdInv, TypeOK, RequestRecord, Phases, secrets, screens, bounds
<1>. QED
  BY <1>2, <1>8, <1>9 DEF HouseholdInv, CutStaysCut, Settled, screens

\* A change of a membership, once the row it writes is known.
LEMMA CommitKeeps ==
    ASSUME HouseholdInv, NEW r \in Requests, FinishChange(r),
           member' \in [Users -> MemberRecord],
           overlooked' \subseteq Users,
           HouseholdLocked => ActiveIn(member') \ overlooked' \subseteq ActiveIn(member) \ overlooked,
           keys' \subseteq KeyRow, UNCHANGED <<keyEpoch, documentKey, held, minted, invite, screens>>
    PROVE  HouseholdInv'
<1>1. /\ req' \in [Requests -> RequestRecord] /\ sent' = sent /\ topic' = topic
      /\ \A x \in Requests : Promised(req'[x], member', overlooked', display)
  BY ChangeKeeps
<1>2. TypeOK'
  BY <1>1 DEF HouseholdInv, TypeOK, RequestRecord, MemberRecord, Phases, screens
<1>. QED
  BY <1>1, <1>2 DEF HouseholdInv, CutStaysCut, Settled, screens

LEMMA ChangesKeep ==
    ASSUME HouseholdInv, NEW r \in Requests,
           ChangeRole(r) \/ RemoveMember(r) \/ GrantKey(r) \/ CreateManaged(r)
    PROVE  HouseholdInv'
<1> DEFINE on == req[r].on
<1>1. on \in Users /\ (req[r].act = "role" => req[r].role \in Roles)
  BY DEF HouseholdInv, Promised, Addressed, MemberActs, At, ChangeRole, RemoveMember, GrantKey, CreateManaged
<1>2. TypeOK /\ member \in [Users -> MemberRecord] /\ member[on] \in MemberRecord
  BY <1>1, TypesAre DEF HouseholdInv
<1>3. on \in Subjects
  BY <1>1 DEF Subjects
<1>4. StoreKeys({KeyOf(r)}) \subseteq KeyRow
  BY <1>2, <1>3, StoredRows, KeyOfIsARow
<1>5. CASE ChangeRole(r)
  <2> DEFINE to == [member[on] EXCEPT !.role = req[r].role]
  <2>1. to \in MemberRecord /\ to.status = member[on].status
    BY <1>1, <1>2, <1>5 DEF MemberRecord, ChangeRole, At
  <2>2. member' = [member EXCEPT ![on] = to]
    BY <1>2, <1>5 DEF ChangeRole
  <2> HIDE DEF to
  <2>3. member' \in [Users -> MemberRecord] /\ ActiveIn(member') = ActiveIn(member)
    BY <1>1, <1>2, <2>1, <2>2, MemberSet DEF ActiveIn
  <2>. QED
    BY <1>2, <1>5, <2>3, CommitKeeps, SecretsAre DEF ChangeRole, secrets, TypeOK
<1>6. CASE RemoveMember(r)
  <2> DEFINE to == [member[on] EXCEPT !.status = "removed"]
  <2>1. to \in MemberRecord /\ to.status = "removed"
    BY <1>2 DEF MemberRecord
  <2>2. member' = [member EXCEPT ![on] = to]
    BY <1>2, <1>6 DEF RemoveMember
  <2> HIDE DEF to
  <2>3. member' \in [Users -> MemberRecord] /\ ActiveIn(member') \subseteq ActiveIn(member)
    BY <1>1, <1>2, <2>1, <2>2, MemberSet DEF ActiveIn
  <2>4. keys' \subseteq KeyRow
    BY <1>2, <1>6 DEF RemoveMember, TypeOK
  <2>. QED
    BY <1>2, <1>6, <2>3, <2>4, CommitKeeps DEF RemoveMember, TypeOK
<1>7. CASE GrantKey(r)
  <2> DEFINE to == [member[on] EXCEPT !.status = "active"]
  <2>1. to \in MemberRecord
    BY <1>2 DEF MemberRecord
  <2>2. member' = [member EXCEPT ![on] = to]
    BY <1>2, <1>7 DEF GrantKey
  <2> HIDE DEF to
  <2>3. member' \in [Users -> MemberRecord] /\ ActiveIn(member') \subseteq ActiveIn(member) \cup {on}
    BY <1>1, <1>2, <2>1, <2>2, MemberSet DEF ActiveIn
  <2>0. overlooked' = IF HouseholdLocked /\ ~Active(on) THEN overlooked \cup {on} ELSE overlooked
    BY <1>7 DEF GrantKey
  <2>6. overlooked \subseteq Users /\ (Active(on) <=> on \in ActiveIn(member))
    BY <1>1, <1>2, AdminsAre DEF TypeOK
  <2> HIDE DEF on
  <2>4. /\ overlooked' \subseteq Users /\ overlooked \subseteq overlooked'
        /\ HouseholdLocked => (on \in overlooked' \/ (on \in ActiveIn(member) /\ overlooked' = overlooked))
    BY <1>1, <2>0, <2>6
  <2>5. HouseholdLocked => ActiveIn(member') \ overlooked' \subseteq ActiveIn(member) \ overlooked
    BY <2>3, <2>4
  <2>. QED
    BY <1>4, <1>7, <2>3, <2>4, <2>5, CommitKeeps DEF GrantKey
<1>8. CASE CreateManaged(r)
  <2>1. [status |-> "active", role |-> "adult"] \in MemberRecord
    BY DEF MemberRecord, Roles
  <2>2. member' \in [Users -> MemberRecord]
    BY <1>1, <1>2, <1>8, <2>1, MemberSet DEF CreateManaged
  <2>. QED
    BY <1>2, <1>4, <1>8, <2>2, CommitKeeps DEF CreateManaged, TypeOK
<1>. QED
  BY <1>5, <1>6, <1>7, <1>8

LEMMA KeyStepsKeep ==
    ASSUME HouseholdInv, NEW r \in Requests,
           RotateKey(r) \/ Refuse(r)
    PROVE  HouseholdInv'
<1>1. CASE RotateKey(r)
  <2>1. req \in [Requests -> RequestRecord] /\ TypeOK
    BY TypesAre DEF HouseholdInv
  <2>2. req[r].key \in Nat /\ req[r].subjects \subseteq Subjects
    BY <2>1 DEF RequestRecord
  <2>3. keyEpoch' \in Nat /\ documentKey' \in Nat /\ minted' \in Nat
    BY <1>1, <2>2, SecretsAre DEF RotateKey
  <2>6. held' \in [Users -> Nat]
    BY <1>1, <2>2, SecretsAre DEF RotateKey
  <2>4. \A s \in req[r].subjects :
           [subject |-> s, epoch |-> keyEpoch + 1, key |-> req[r].key] \in KeyRow
    BY <2>2, SecretsAre DEF KeyRow
  <2>5. keys' \subseteq KeyRow
    BY <1>1, <2>4 DEF RotateKey, KeysFor
  <2>. QED
    BY <1>1, <2>3, <2>5, <2>6, FinishKeeps, OnlyRequests, SecretsAre DEF RotateKey
<1>2. CASE Refuse(r)
  BY <1>2, FinishKeeps, OnlyRequests, SecretsAre DEF Refuse, secrets
<1>. QED
  BY <1>1, <1>2

LEMMA OpeningKeeps ==
    ASSUME HouseholdInv, NEW u \in Users, OpenHousehold(u)
    PROVE  HouseholdInv'
<1>1. held' \in [Users -> Nat]
  BY SecretsAre DEF OpenHousehold, KeyRow
<1>2. req' \in [Requests -> RequestRecord] /\ \A x \in Requests : Promised(req'[x], member, overlooked, display)
  BY TypesAre DEF OpenHousehold, HouseholdInv
<1>. QED
  BY <1>1, <1>2, OnlyRequests, SecretsAre DEF OpenHousehold, bounds

\* A step of the screens: none comes back to waiting, and those cut stay cut.
LEMMA ScreensKeep ==
    ASSUME HouseholdInv, UNCHANGED membership,
           req' \in [Requests -> RequestRecord],
           \A x \in Requests : Promised(req'[x], member, overlooked, display) \/ Promised(req'[x], member, overlooked, display'),
           sent' \in Nat, topic' = topic,
           UNCHANGED <<keyEpoch, documentKey, held, minted>>, keys' \subseteq KeyRow,
           display' \in [Displays -> DisplayRecord],
           \A d \in Displays : Settled(display, d) => Settled(display', d),
           decision' \in [Displays -> [Users -> {"none", "approve", "deny"}]],
           cut' \subseteq Displays,
           \A d \in cut' : Settled(display', d) /\ ~display'[d].token
    PROVE  HouseholdInv'
<1>1. TypeOK'
  BY DEF HouseholdInv, TypeOK, RequestRecord, DisplayRecord, Phases, membership
<1>2. \A x \in Requests : Promised(req'[x], member, overlooked, display')
  BY StaysSettled
<1>. QED
  BY <1>1, <1>2 DEF HouseholdInv, CutStaysCut, Settled, membership

LEMMA ScreensAre ==
    ASSUME HouseholdInv
    PROVE  /\ TypeOK /\ req \in [Requests -> RequestRecord] /\ display \in [Displays -> DisplayRecord]
           /\ decision \in [Displays -> [Users -> {"none", "approve", "deny"}]]
           /\ cut \subseteq Displays /\ \A d \in cut : Settled(display, d) /\ ~display[d].token
           /\ \A x \in Requests : Promised(req[x], member, overlooked, display)
BY TypesAre DEF HouseholdInv, TypeOK, CutStaysCut

\* A step that changes one screen and ends its request.
LEMMA OneScreen ==
    ASSUME HouseholdInv, NEW r \in Requests, Finish(r), NEW d \in Displays, NEW to \in DisplayRecord,
           display' = [display EXCEPT ![d] = to], UNCHANGED membership, decision' = decision,
           UNCHANGED <<keyEpoch, documentKey, held, minted>>, keys' \subseteq KeyRow,
           Settled(display, d) => to.status \notin {"none", "pending"},
           cut' \subseteq cut \cup {d},
           d \in cut' => ~to.token /\ to.status \notin {"none", "pending"}
    PROVE  HouseholdInv'
<1>1. /\ display' \in [Displays -> DisplayRecord]
      /\ \A e \in Displays : display'[e] = IF e = d THEN to ELSE display[e]
  BY ScreensAre, DisplaySet
<1>2. \A e \in Displays : Settled(display, e) => Settled(display', e)
  BY <1>1 DEF Settled
<1>3. \A e \in cut' : Settled(display', e) /\ ~display'[e].token
  BY <1>1, ScreensAre DEF Settled
<1>. QED
  BY <1>1, <1>2, <1>3, FinishKeeps, ScreensAre, SecretsAre, ScreensKeep

LEMMA DecisionsKeep ==
    ASSUME HouseholdInv, NEW r \in Requests, RecordDecision(r) \/ Veto(r)
    PROVE  HouseholdInv'
<1> DEFINE on == req[r].on
<1>1. on \in Displays /\ req[r] \in RequestRecord /\ display[on] \in DisplayRecord
  BY ScreensAre DEF RecordDecision, Veto, At, Promised, Addressed, DisplayActs
<1>2. CASE RecordDecision(r)
  <2>1. decision' \in [Displays -> [Users -> {"none", "approve", "deny"}]]
    BY <1>2, ScreensAre DEF RecordDecision, At
  <2>2. CASE req[r].act = "deny"
    <3>1. PICK q \in RequestRecord :
            /\ q.phase = "written"
            /\ q.act = req[r].act /\ q.by = req[r].by /\ q.on = req[r].on /\ q.role = req[r].role
            /\ q.subjects = req[r].subjects /\ q.disturbed = req[r].disturbed
            /\ [req EXCEPT ![r].phase = "written"] = [req EXCEPT ![r] = q]
      BY PhaseFields DEF Phases
    <3>2. req' = [req EXCEPT ![r] = q] /\ sent' = sent /\ topic' = topic
      BY <1>2, <2>2, <3>1 DEF RecordDecision, bounds
    <3>3. Promised(q, member, overlooked, display)
      BY <2>2, <3>1, ScreensAre DEF Promised, Addressed, Covers, Withdraws, Stands
    <3>4. /\ req' \in [Requests -> RequestRecord]
          /\ \A x \in Requests : Promised(req'[x], member, overlooked, display)
      BY <3>2, <3>3, MoveKeeps
    <3>. QED
      BY <1>2, <2>1, <3>2, <3>4, ScreensAre, SecretsAre, ScreensKeep DEF RecordDecision, secrets
  <2>3. CASE req[r].act # "deny"
    <3>1. Finish(r)
      BY <1>2, <2>3 DEF RecordDecision
    <3>. QED
      BY <1>2, <2>1, <3>1, FinishKeeps, ScreensAre, SecretsAre, ScreensKeep DEF RecordDecision, secrets
  <2>. QED
    BY <2>2, <2>3
<1>3. CASE Veto(r)
  <2> DEFINE to == [display[on] EXCEPT !.status = "revoked"]
  <2>1. to \in DisplayRecord /\ to.status = "revoked" /\ to.token = display[on].token
    BY <1>1 DEF DisplayRecord
  <2>2. display' = [display EXCEPT ![on] = to]
    BY <1>1, <1>3, ScreensAre DEF Veto
  <2>3. on \in cut' => ~to.token
    BY <1>3, <2>1, ScreensAre DEF Veto
  <2> HIDE DEF to
  <2>. QED
    BY <1>1, <1>3, <2>1, <2>2, <2>3, OneScreen, SecretsAre DEF Veto, secrets
<1>. QED
  BY <1>2, <1>3

LEMMA LinksKeep ==
    ASSUME HouseholdInv, NEW r \in Requests,
           Activate(r) \/ Extend(r) \/ Revoke(r) \/ DeleteLink(r) \/ MarkExpired(r)
    PROVE  HouseholdInv'
<1> DEFINE on == req[r].on
<1>1. on \in Displays /\ req[r] \in RequestRecord /\ display[on] \in DisplayRecord
  BY ScreensAre DEF Activate, Extend, Revoke, DeleteLink, MarkExpired, At, Promised, Addressed, DisplayActs
<1>2. CASE Activate(r)
  <2> DEFINE to == [display[on] EXCEPT !.status = "active", !.token = TRUE]
  <2>1. to \in DisplayRecord /\ to.status = "active"
    BY <1>1 DEF DisplayRecord
  <2>2. display' = [display EXCEPT ![on] = to]
    BY <1>1, <1>2, ScreensAre DEF Activate
  <2>3. on \notin cut
    BY <1>2, ScreensAre DEF Activate, MayActivate, Settled
  <2>4. keys' \subseteq KeyRow
    BY <1>1, <1>2, ScreensAre, KeyOfIsARow, StoredRows DEF Activate, Subjects
  <2> HIDE DEF to
  <2>. QED
    BY <1>1, <1>2, <2>1, <2>2, <2>3, <2>4, OneScreen DEF Activate
<1>3. CASE Extend(r)
  <2> DEFINE to == [display[on] EXCEPT !.due = FALSE, !.status = IF @ = "expired" THEN "active" ELSE @]
  <2>1. /\ to \in DisplayRecord /\ to.token = display[on].token
        /\ to.status = IF display[on].status = "expired" THEN "active" ELSE display[on].status
    BY <1>1 DEF DisplayRecord
  <2>2. display' = [display EXCEPT ![on] = to]
    BY <1>1, <1>3, ScreensAre DEF Extend
  <2>3. on \in cut => ~to.token /\ to.status \notin {"none", "pending"}
    BY <2>1, ScreensAre DEF Settled
  <2> HIDE DEF to
  <2>. QED
    BY <1>1, <1>3, <2>1, <2>2, <2>3, OneScreen, SecretsAre DEF Extend, Settled, secrets
<1>4. CASE Revoke(r)
  <2> DEFINE to == [display[on] EXCEPT !.status = "revoked"]
  <2>1. to \in DisplayRecord /\ to.status = "revoked" /\ to.token = display[on].token
    BY <1>1 DEF DisplayRecord
  <2>2. display' = [display EXCEPT ![on] = to]
    BY <1>1, <1>4, ScreensAre DEF Revoke
  <2>3. PICK q \in RequestRecord :
          /\ q.phase = "written"
          /\ q.act = req[r].act /\ q.by = req[r].by /\ q.on = req[r].on /\ q.role = req[r].role
          /\ q.subjects = req[r].subjects /\ q.disturbed = req[r].disturbed
          /\ [req EXCEPT ![r].phase = "written"] = [req EXCEPT ![r] = q]
    BY PhaseFields DEF Phases
  <2> HIDE DEF to
  <2>4. /\ display' \in [Displays -> DisplayRecord]
        /\ \A e \in Displays : display'[e] = IF e = on THEN to ELSE display[e]
    BY <1>1, <2>1, <2>2, ScreensAre, DisplaySet
  <2>5. \A e \in Displays : Settled(display, e) => Settled(display', e)
    BY <2>1, <2>4 DEF Settled
  <2>6. Promised(q, member, overlooked, display')
    BY <1>1, <1>4, <2>1, <2>3, <2>4, ScreensAre DEF Revoke, At, Promised, Addressed, Covers, Withdraws, Stands, Settled
  <2>7. req' = [req EXCEPT ![r] = q]
    BY <1>4, <2>3 DEF Revoke
  <2>8. \A x \in Requests : x # r => req'[x] = req[x]
    BY <2>7, ScreensAre
  <2>9. req'[r] = q /\ req' \in [Requests -> RequestRecord]
    BY <2>7, ScreensAre
  <2>10. \A e \in cut' : Settled(display', e) /\ ~display'[e].token
    BY <1>1, <1>4, <2>1, <2>4, ScreensAre DEF Revoke, Settled
  <2>. QED
    BY <1>4, <2>4, <2>5, <2>6, <2>8, <2>9, <2>10, ScreensAre, SecretsAre, ScreensKeep
       DEF Revoke, secrets, bounds
<1>5. CASE DeleteLink(r)
  <2> DEFINE to == [display[on] EXCEPT !.token = FALSE]
  <2>1. to \in DisplayRecord /\ to.status = display[on].status /\ ~to.token
    BY <1>1 DEF DisplayRecord
  <2>2. display' = [display EXCEPT ![on] = to]
    BY <1>1, <1>5, ScreensAre DEF DeleteLink
  <2>3. Settled(display, on)
    BY <1>5, ScreensAre DEF DeleteLink, At, Promised, Withdraws
  <2>4. keys' \subseteq KeyRow
    BY <1>5, SecretsAre DEF DeleteLink
  <2> HIDE DEF to
  <2>. QED
    BY <1>1, <1>5, <2>1, <2>2, <2>3, <2>4, OneScreen DEF DeleteLink, Settled
<1>6. CASE MarkExpired(r)
  <2> DEFINE to == [display[on] EXCEPT !.status = "expired"]
  <2>1. to \in DisplayRecord /\ to.status = "expired" /\ to.token = display[on].token
    BY <1>1 DEF DisplayRecord
  <2>2. display' = [display EXCEPT ![on] = to]
    BY <1>1, <1>6, ScreensAre DEF MarkExpired
  <2>3. on \in cut => ~to.token
    BY <2>1, ScreensAre
  <2> HIDE DEF to
  <2>. QED
    BY <1>1, <1>6, <2>1, <2>2, <2>3, OneScreen, SecretsAre DEF MarkExpired, secrets
<1>. QED
  BY <1>2, <1>3, <1>4, <1>5, <1>6

LEMMA CallsKeep ==
    ASSUME HouseholdInv, NEW d \in Displays, NEW r \in Requests, DisplayCalls(r, d)
    PROVE  HouseholdInv'
<1> DEFINE q == [Idle EXCEPT !.phase = "loaded", !.act = "load", !.by = d, !.on = d]
<1>1. q \in RequestRecord /\ q.phase = "loaded" /\ q.act = "load" /\ q.on = d
  BY DEF Idle, RequestRecord, Phases, Subjects, Acts
<1>2. req' = [req EXCEPT ![r] = q] /\ UNCHANGED <<secrets, membership, screens>>
      /\ sent' = sent + 1 /\ topic' = topic
  BY DEF DisplayCalls, Count
<1> HIDE DEF q
<1>3. Promised(q, member, overlooked, display)
  BY <1>1 DEF Promised, Addressed, Covers, Withdraws, Stands, MemberActs
<1>4. sent' \in Nat
  BY <1>2, SecretsAre
<1>. QED
  BY <1>1, <1>2, <1>3, <1>4, MoveKeeps, OnlyRequests, SecretsAre DEF secrets

\* What happens without a request: time, maintenance and a proposal.
LEMMA ScreensOwnKeep ==
    ASSUME HouseholdInv,
           \/ ExpireDisplays
           \/ \E d \in Displays : \/ TimePasses(d)
                                   \/ \E u \in Users : Propose(u, d)
    PROVE  HouseholdInv'
<1>1. CASE ExpireDisplays
  <2> DEFINE Due == {d \in Displays : display[d].status = "active" /\ display[d].due}
  <2>1. display' = [d \in Displays |->
                      IF d \in Due THEN [display[d] EXCEPT !.status = "expired"] ELSE display[d]]
    BY <1>1 DEF ExpireDisplays
  <2>2. \A d \in Displays : /\ [display[d] EXCEPT !.status = "expired"] \in DisplayRecord
                            /\ [display[d] EXCEPT !.status = "expired"].status = "expired"
                            /\ [display[d] EXCEPT !.status = "expired"].token = display[d].token
    BY ScreensAre DEF DisplayRecord
  <2> HIDE DEF Due
  <2>3. /\ display' \in [Displays -> DisplayRecord]
        /\ \A d \in Displays : display'[d].token = display[d].token
        /\ \A d \in Displays : Settled(display, d) => Settled(display', d)
    BY <2>1, <2>2, ScreensAre DEF Settled
  <2>. QED
    BY <1>1, <2>3, ScreensAre, SecretsAre, ScreensKeep DEF ExpireDisplays, secrets, bounds
<1>2. ASSUME NEW d \in Displays, TimePasses(d) PROVE HouseholdInv'
  <2> DEFINE to == [display[d] EXCEPT !.due = TRUE]
  <2>1. to \in DisplayRecord /\ to.status = display[d].status /\ to.token = display[d].token
    BY ScreensAre DEF DisplayRecord
  <2>2. display' = [display EXCEPT ![d] = to]
    BY <1>2, ScreensAre DEF TimePasses
  <2> HIDE DEF to
  <2>3. /\ display' \in [Displays -> DisplayRecord]
        /\ \A e \in Displays : display'[e] = IF e = d THEN to ELSE display[e]
    BY <2>1, <2>2, ScreensAre, DisplaySet
  <2>4. \A e \in Displays : (Settled(display, e) => Settled(display', e)) /\ display'[e].token = display[e].token
    BY <2>1, <2>3 DEF Settled
  <2>. QED
    BY <1>2, <2>3, <2>4, ScreensAre, SecretsAre, ScreensKeep DEF TimePasses, secrets, bounds
<1>3. ASSUME NEW d \in Displays, NEW u \in Users, Propose(u, d) PROVE HouseholdInv'
  <2> DEFINE to == [display[d] EXCEPT !.status = "pending"]
  <2>1. to \in DisplayRecord /\ to.token = display[d].token
    BY ScreensAre DEF DisplayRecord
  <2>2. display' = [display EXCEPT ![d] = to] /\ ~Settled(display, d)
    BY <1>3, ScreensAre DEF Propose, Settled
  <2>3. decision' \in [Displays -> [Users -> {"none", "approve", "deny"}]]
    BY <1>3, ScreensAre DEF Propose
  <2> HIDE DEF to
  <2>4. /\ display' \in [Displays -> DisplayRecord]
        /\ \A e \in Displays : display'[e] = IF e = d THEN to ELSE display[e]
    BY <2>1, <2>2, ScreensAre, DisplaySet
  <2>5. \A e \in Displays : (Settled(display, e) => Settled(display', e)) /\ display'[e].token = display[e].token
    BY <2>1, <2>2, <2>4 DEF Settled
  <2>. QED
    BY <1>3, <2>3, <2>4, <2>5, ScreensAre, SecretsAre, ScreensKeep DEF Propose, secrets, bounds
<1>. QED
  BY <1>1, <1>2, <1>3

-----------------------------------------------------------------------------
(* The specification.                                                      *)

LEMMA HouseholdInitially == Init => HouseholdInv
<1> SUFFICES ASSUME Init PROVE HouseholdInv
  OBVIOUS
<1>1. \A r \in Requests : req[r] = Idle
  BY DEF Init
<1>2. req \in [Requests -> RequestRecord] /\ \A r \in Requests : Promised(req[r], member, overlooked, display)
  BY <1>1, IdleIsPromised DEF Init
<1>3. keys \subseteq KeyRow
  BY FounderAssumption DEF Init, KeyRow, Subjects
<1>4. member \in [Users -> MemberRecord] /\ display \in [Displays -> DisplayRecord]
  BY DEF Init, MemberRecord, DisplayRecord, NoDisplay, Roles
<1>5. /\ keyEpoch \in Nat /\ documentKey \in Nat /\ minted \in Nat /\ sent \in Nat
      /\ held \in [Users -> Nat] /\ cut = {} /\ overlooked = {} /\ topic \in Topics
      /\ decision \in [Displays -> [Users -> {"none", "approve", "deny"}]]
      /\ invite \in [Invites -> [status : {"none", "open", "claimed", "revoked"}, role : Roles]]
  BY DEF Init, Roles
<1>6. TypeOK
  BY <1>2, <1>3, <1>4, <1>5 DEF TypeOK, RequestRecord, MemberRecord, DisplayRecord, Phases
<1>. QED
  BY <1>2, <1>5, <1>6 DEF HouseholdInv, CutStaysCut

LEMMA StutterKeeps == HouseholdInv /\ UNCHANGED vars => HouseholdInv'
BY DEF HouseholdInv, TypeOK, CutStaysCut, Settled, Promised, Addressed, Covers, Withdraws, Stands,
       ActiveIn, AdminsIn, vars, secrets, membership, screens, bounds

LEMMA HouseholdStep == HouseholdInv /\ [Next]_vars => HouseholdInv'
<1> SUFFICES ASSUME HouseholdInv, [Next]_vars PROVE HouseholdInv'
  OBVIOUS
<1>1. ASSUME NEW r \in Requests, MembershipStep(r) PROVE HouseholdInv'
  BY <1>1, SendsKeep, CheckLastAdminKeeps, ChangesKeep DEF MembershipStep
<1>2. ASSUME NEW r \in Requests, KeyStep(r) \/ Refuse(r) PROVE HouseholdInv'
  BY <1>2, SendsKeep, ChangesKeep, LockKeeps, KeyStepsKeep DEF KeyStep
<1>3. ASSUME NEW r \in Requests, DisplayStep(r) PROVE HouseholdInv'
  <2>1. CASE \E d \in Displays : DisplayCalls(r, d)
    BY <2>1, CallsKeep
  <2>. QED
    BY <1>3, <2>1, SendsKeep, CheckPendingKeeps, DecisionsKeep, LinksKeep DEF DisplayStep
<1>4. ASSUME NEW i \in Invites, RevokeInvite(i) PROVE HouseholdInv'
  <2>1. PICK u \in Users : TRUE
    BY FounderAssumption
  <2>. QED
    BY <1>4, <2>1, InvitationsKeep
<1>5. ASSUME NEW u \in Users, NEW i \in Invites, CreateInvite(u, i) \/ AcceptInvite(u, i)
      PROVE  HouseholdInv'
  BY <1>5, InvitationsKeep
<1>6. ASSUME NEW d \in Displays,
             TimePasses(d) \/ \E u \in Users : Propose(u, d) PROVE HouseholdInv'
  BY <1>6, ScreensOwnKeep
<1>. QED
  BY <1>1, <1>2, <1>3, <1>4, <1>5, <1>6, StutterKeeps, ScreensOwnKeep, OpeningKeeps DEF Next

\* Everything keeps its type, in every household.
THEOREM HouseholdTypes == Spec => []TypeOK
<1>1. HouseholdInv => TypeOK
  BY DEF HouseholdInv
<1>. QED
  BY <1>1, HouseholdInitially, HouseholdStep, PTL DEF Spec

\* A screen whose link an admin took away has none again, whatever was under way.
THEOREM CutScreensStayDark == Spec => []CutDisplaysStayDark
<1>1. HouseholdInv => CutDisplaysStayDark
  BY DEF HouseholdInv, CutStaysCut, CutDisplaysStayDark
<1>. QED
  BY <1>1, HouseholdInitially, HouseholdStep, PTL DEF Spec

-----------------------------------------------------------------------------
(* What a step may not do.                                                 *)

\* Only a rotation moves the epoch.
LEMMA OnlyRotation ==
    ASSUME [Next]_vars, keyEpoch' # keyEpoch
    PROVE  \E r \in Requests : RotateKey(r)
<1>1. ASSUME NEW r \in Requests, MembershipStep(r) \/ Refuse(r) PROVE FALSE
  BY <1>1 DEF MembershipStep, SendRole, SendRemoval, SendLeave, CheckLastAdmin, ChangeRole,
              RemoveMember, Refuse, secrets
<1>2. ASSUME NEW r \in Requests, KeyStep(r) PROVE RotateKey(r)
  BY SMTT(30), <1>2 DEF KeyStep, SendGrant, SendManaged, SendRotate, GrantKey, CreateManaged, LockHousehold, secrets
<1>3. ASSUME NEW r \in Requests, DisplayStep(r) PROVE FALSE
  BY <1>3 DEF DisplayStep, SendForDisplay, CheckPending, RecordDecision, Veto, Activate, Extend,
              Revoke, DeleteLink, MarkExpired, DisplayCalls, secrets
<1>4. ASSUME NEW u \in Users,
             \/ OpenHousehold(u)
             \/ \E i \in Invites : CreateInvite(u, i) \/ AcceptInvite(u, i)
             \/ \E d \in Displays : Propose(u, d)
      PROVE  FALSE
  BY <1>4 DEF OpenHousehold, CreateInvite, AcceptInvite, Propose, secrets
<1>5. ASSUME \/ \E i \in Invites : RevokeInvite(i)
             \/ \E d \in Displays : TimePasses(d)
             \/ ExpireDisplays
      PROVE  FALSE
  BY <1>5 DEF RevokeInvite, TimePasses, ExpireDisplays, secrets
<1>6. ~ UNCHANGED vars
  BY DEF vars, secrets
<1>. QED
  BY <1>1, <1>2, <1>3, <1>4, <1>5, <1>6 DEF Next

\* Whoever is active when a rotation commits has a row under the new key, except
\* who was granted one meanwhile over a row left for them (RotationReachesEveryone).
THEOREM RotationsReachEveryone == Spec => RotationReachesEveryone
<1>1. ASSUME HouseholdInv, [Next]_vars, keyEpoch' # keyEpoch
      PROVE  \A u \in Users \ overlooked : Active(u)' => HasCurrentKey(u)'
  <2>1. PICK r \in Requests : RotateKey(r)
    BY <1>1, OnlyRotation
  <2>2. ActiveIn(member) \ overlooked \subseteq req[r].subjects
    BY <1>1, <2>1 DEF HouseholdInv, Promised, Covers, RotateKey, At
  <2>3. TAKE u \in Users \ overlooked
  <2>4. HAVE Active(u)'
  <2>5. u \in req[r].subjects
    BY <2>1, <2>2, <2>4 DEF RotateKey, membership, Active, ActiveIn
  <2>6. [subject |-> u, epoch |-> keyEpoch', key |-> documentKey'] \in keys'
    BY <2>1, <2>5 DEF RotateKey, KeysFor
  <2>. QED
    BY <2>6 DEF HasCurrentKey
<1>2. HouseholdInv /\ [Next]_vars
        => [keyEpoch' # keyEpoch => \A u \in Users \ overlooked : Active(u)' => HasCurrentKey(u)']_vars
  BY <1>1
<1>. QED
  BY <1>2, HouseholdInitially, HouseholdStep, PTL DEF Spec, RotationReachesEveryone

\* Who is an admin after a step that changes memberships.
LEMMA AnAdminIsLeft ==
    ASSUME HouseholdInv, NEW r \in Requests, ChangeRole(r) \/ RemoveMember(r),
           ~req[r].disturbed, AdminsIn(member) # {}
    PROVE  AdminsIn(member') # {}
<1> DEFINE on == req[r].on
           by == req[r].by
<1>1. Stands(req[r], member) /\ At(r, "checked", {"role", "remove", "leave"}) /\ on \in Users
  BY DEF HouseholdInv, Promised, Addressed, MemberActs, ChangeRole, RemoveMember, At
<1>2. member \in [Users -> MemberRecord]
  BY TypesAre DEF HouseholdInv
<1>3. \A u \in Users : u # on => member'[u] = member[u]
  BY <1>1, <1>2 DEF ChangeRole, RemoveMember
<1>4. \A u \in AdminsIn(member) : u # on => u \in AdminsIn(member')
  BY <1>3 DEF AdminsIn, ActiveIn
<1>5. CASE req[r].act = "role" /\ on = by /\ req[r].role = "admin"
  <2>1. member'[on].status = member[on].status /\ member'[on].role = "admin"
    BY <1>1, <1>2, <1>5 DEF ChangeRole, RemoveMember, At, MemberRecord
  <2>2. on \in AdminsIn(member')
    BY <1>1, <1>5, <2>1 DEF Stands, AdminsIn, ActiveIn, At
  <2>. QED
    BY <2>2
<1>. QED
  BY <1>1, <1>4, <1>5 DEF Stands, At

LEMMA ChangesFinish ==
    ASSUME NEW r \in Requests, NEW x \in Requests, FinishChange(x), x # r, req[r].phase = "checked",
           HouseholdInv
    PROVE  req'[r].phase = "checked"
<1>1. req \in [Requests -> RequestRecord]
  BY TypesAre DEF HouseholdInv
<1>. QED
  BY <1>1 DEF FinishChange, RequestRecord

\* Which steps change who is an admin: the commits, and a claim, which takes nobody away.
LEMMA WhoChangesMembers ==
    ASSUME [Next]_vars, member' # member
    PROVE  \/ \E x \in Requests : ChangeRole(x) \/ RemoveMember(x) \/ GrantKey(x) \/ CreateManaged(x)
           \/ \E u \in Users, i \in Invites : AcceptInvite(u, i)
<1>1. ASSUME NEW r \in Requests, MembershipStep(r) \/ Refuse(r) PROVE ChangeRole(r) \/ RemoveMember(r)
  BY <1>1 DEF MembershipStep, SendRole, SendRemoval, SendLeave, CheckLastAdmin, Refuse, membership
<1>2. ASSUME NEW r \in Requests, KeyStep(r) PROVE GrantKey(r) \/ CreateManaged(r)
  BY SMTT(30), <1>2 DEF KeyStep, SendGrant, SendManaged, SendRotate, LockHousehold, RotateKey, membership
<1>3. ASSUME NEW r \in Requests, DisplayStep(r) PROVE FALSE
  BY <1>3 DEF DisplayStep, SendForDisplay, CheckPending, RecordDecision, Veto, Activate, Extend,
              Revoke, DeleteLink, MarkExpired, DisplayCalls, membership
<1>4. ASSUME NEW u \in Users,
             \/ OpenHousehold(u)
             \/ \E i \in Invites : CreateInvite(u, i)
             \/ \E d \in Displays : Propose(u, d)
      PROVE  FALSE
  BY <1>4 DEF OpenHousehold, CreateInvite, Propose, membership
<1>5. ASSUME \/ \E i \in Invites : RevokeInvite(i)
             \/ \E d \in Displays : TimePasses(d)
             \/ ExpireDisplays
      PROVE  FALSE
  BY <1>5 DEF RevokeInvite, TimePasses, ExpireDisplays, membership
<1>6. ~ UNCHANGED vars
  BY DEF vars, membership
<1>. QED
  BY <1>1, <1>2, <1>3, <1>4, <1>5, <1>6 DEF Next

\* A request that no other change of a membership overtook does not take the
\* last admin away, however many are under way at once.
THEOREM UndisturbedLeaveAnAdmin == Spec => UndisturbedRequestsLeaveAnAdmin
<1> DEFINE Taken(r) ==
      /\ ~req[r].disturbed /\ req'[r].phase = "idle" /\ Admins # {}
      /\ At(r, "checked", {"role", "remove", "leave"})
<1>1. ASSUME HouseholdInv, [Next]_vars, NEW r \in Requests, Taken(r)
      PROVE  Admins' # {}
  <2>1. Admins = AdminsIn(member) /\ Admins' = AdminsIn(member')
    BY DEF Admins, AdminsIn, ActiveIn, Active
  <2>2. CASE member' = member
    BY <1>1, <2>1, <2>2
  <2>3. ASSUME NEW u \in Users, NEW i \in Invites, AcceptInvite(u, i) PROVE Admins' # {}
    <3>1. member \in [Users -> MemberRecord]
      BY <1>1, TypesAre DEF HouseholdInv
    <3>2. \A v \in AdminsIn(member) : member'[v] = member[v]
      BY <2>3, <3>1 DEF AcceptInvite, AdminsIn, ActiveIn, Active
    <3>. QED
      BY <1>1, <2>1, <3>2 DEF AdminsIn, ActiveIn
  <2>4. ASSUME NEW x \in Requests,
               ChangeRole(x) \/ RemoveMember(x) \/ GrantKey(x) \/ CreateManaged(x)
        PROVE  Admins' # {}
    <3>1. FinishChange(x)
      BY <2>4 DEF ChangeRole, RemoveMember, GrantKey, CreateManaged
    <3>2. x = r
      BY <1>1, <3>1, ChangesFinish DEF At
    <3>3. ChangeRole(r) \/ RemoveMember(r)
      BY <1>1, <2>4, <3>2 DEF GrantKey, CreateManaged, At
    <3>. QED
      BY <1>1, <2>1, <3>3, AnAdminIsLeft
  <2>. QED
    BY <1>1, <2>2, <2>3, <2>4, WhoChangesMembers
<1>2. HouseholdInv /\ [Next]_vars => [\A r \in Requests : Taken(r) => Admins' # {}]_vars
  BY <1>1
<1>. QED
  BY <1>2, HouseholdInitially, HouseholdStep, PTL DEF Spec, UndisturbedRequestsLeaveAnAdmin

=============================================================================

------------------------------ MODULE Household ------------------------------
(***************************************************************************)
(* Who belongs to a household, who runs it, and who holds its key:         *)
(*   server/src/routes/households.js  roles, removal, leaving, granting a  *)
(*                                    key, managed accounts, rotation      *)
(*   server/src/routes/invites.js     claiming an invitation               *)
(*   server/src/routes/displays.js    proposing, approving, activating,    *)
(*                                    extending and revoking a display     *)
(*   server/src/jobs/maintenance.js   expireDisplays                       *)
(* A request passes loadHousehold and requireRole in one step (Send), its  *)
(* reads and checks in the next and its writes in the one after: under     *)
(* READ COMMITTED, other requests run in between.  What does exclude them  *)
(* is a row lock: rotation holds the household's row FOR UPDATE, and every *)
(* INSERT with a foreign key to that row waits for it.  One that turns     *)
(* into an UPDATE of a row that is there already does not.                 *)
(*                                                                         *)
(* A household key is a number; a row of household_keys says for which     *)
(* epoch it was stored and, unseen by the server, which key is inside.     *)
(***************************************************************************)
EXTENDS Naturals, FiniteSets

CONSTANTS
    Users,      \* people with an account
    Founders,   \* those who are active admins to begin with
    Displays,   \* ids a display may be given
    Invites,    \* ids an invitation may be given
    Requests,   \* slots for requests in progress
    Threshold,  \* display_approval_threshold: 0 means every admin
    None,       \* nobody, nothing
    Topics,     \* bound: each a set of things that happen together in a behaviour
    MaxKeys,    \* bound: keys ever generated, the first one included
    MaxSent     \* bound: requests ever sent

Acts == {"role", "remove", "leave", "grant", "managed", "rotate",
         "approve", "deny", "activate", "extend", "revoke", "load"}

ASSUME FounderAssumption == Founders \subseteq Users /\ Founders # {} /\ IsFiniteSet(Users)
ASSUME DisjointAssumption == Users \cap Displays = {} /\ None \notin Users \cup Displays
ASSUME TopicAssumption == \A t \in Topics : t \subseteq Acts \cup {"invite", "propose"}
ASSUME NumberAssumption == Threshold \in Nat /\ MaxKeys \in Nat /\ MaxSent \in Nat

VARIABLES
    keyEpoch,   \* households.key_epoch
    documentKey,\* the key vault_documents is sealed under
    member,     \* household_members, by user
    keys,       \* the rows of household_keys
    invite,     \* invites, by id
    display,    \* displays and display_tokens, by id
    decision,   \* display_approvals: who decided what about which display
    req,        \* requests in progress
    sent,       \* requests sent so far
    topic,      \* the one of Topics this behaviour is about
    held,       \* the household key each member's browser has in memory
    minted,     \* keys generated so far
    cut,        \* auxiliary: displays revoked, or denied before they had a link
    overlooked  \* auxiliary: who became active since a rotation made its list

membership == <<member, invite, overlooked>>
screens == <<display, decision, cut>>
secrets == <<keyEpoch, documentKey, keys, held, minted>>
bounds == <<sent, topic>>
vars == <<secrets, membership, screens, req, bounds>>

Subjects == Users \cup Displays
Roles == {"admin", "adult"}
KeyRow == [subject : Subjects, epoch : Nat, key : Nat]

\* disturbed is auxiliary: a membership changed since this request was let in.
Idle == [phase |-> "idle", act |-> "none", by |-> None, on |-> None, role |-> "none",
         epoch |-> 0, key |-> 0, subjects |-> {}, disturbed |-> FALSE]

NoDisplay == [status |-> "none", token |-> FALSE, due |-> FALSE]

TypeOK ==
    /\ keyEpoch \in Nat /\ documentKey \in Nat /\ minted \in Nat /\ sent \in Nat
    /\ member \in [Users -> [status : {"none", "pending", "active", "removed"}, role : Roles]]
    /\ keys \subseteq KeyRow
    /\ invite \in [Invites -> [status : {"none", "open", "claimed", "revoked"}, role : Roles]]
    /\ display \in [Displays -> [status : {"none", "pending", "active", "expired", "revoked"},
                                 token : BOOLEAN, due : BOOLEAN]]
    /\ decision \in [Displays -> [Users -> {"none", "approve", "deny"}]]
    /\ req \in [Requests ->
                  [phase : {"idle", "loaded", "checked", "written"},
                   act : Acts \cup {"none"}, by : Subjects \cup {None},
                   on : Subjects \cup {None}, role : Roles \cup {"none"},
                   epoch : Nat, key : Nat, subjects : SUBSET Subjects,
                   disturbed : BOOLEAN]]
    /\ held \in [Users -> Nat]
    /\ cut \subseteq Displays /\ overlooked \subseteq Users
    /\ topic \in Topics

Init ==
    /\ keyEpoch = 1 /\ documentKey = 1 /\ minted = 1 /\ sent = 0
    /\ member = [u \in Users |->
                   IF u \in Founders THEN [status |-> "active", role |-> "admin"]
                   ELSE [status |-> "none", role |-> "adult"]]
    /\ keys = {[subject |-> u, epoch |-> 1, key |-> 1] : u \in Founders}
    /\ invite = [i \in Invites |-> [status |-> "none", role |-> "adult"]]
    /\ display = [d \in Displays |-> NoDisplay]
    /\ decision = [d \in Displays |-> [u \in Users |-> "none"]]
    /\ req = [r \in Requests |-> Idle]
    /\ held = [u \in Users |-> IF u \in Founders THEN 1 ELSE 0]
    /\ cut = {} /\ overlooked = {}
    /\ topic \in Topics

Active(u) == member[u].status = "active"
Admins == {u \in Users : Active(u) /\ member[u].role = "admin"}

-----------------------------------------------------------------------------
(* Requests.                                                               *)

Count == sent < MaxSent /\ sent' = sent + 1 /\ UNCHANGED topic

\* loadHousehold and requireRole("admin"): the epoch and the role are read here.
Send(r, u, act, on, role, key, subjects) ==
    /\ req[r].phase = "idle"
    /\ act \in topic
    /\ Count
    /\ Active(u)
    /\ act # "leave" => u \in Admins
    /\ req' = [req EXCEPT ![r] =
                  [phase |-> "loaded", act |-> act, by |-> u, on |-> on, role |-> role,
                   epoch |-> keyEpoch, key |-> key, subjects |-> subjects, disturbed |-> FALSE]]

At(r, phase, acts) == req[r].phase = phase /\ req[r].act \in acts
Proceed(r) == req' = [req EXCEPT ![r].phase = "checked"] /\ UNCHANGED bounds
Finish(r) == req' = [req EXCEPT ![r] = Idle] /\ UNCHANGED bounds

\* Any request may be refused for another reason or fail.  What a transaction
\* has not committed is rolled back; a statement of its own stays.
Refuse(r) ==
    /\ req[r].phase # "idle"
    /\ Finish(r)
    /\ UNCHANGED <<secrets, membership, screens>>

\* A finished change of a membership, seen from the other requests.
FinishChange(r) ==
    /\ req' = [x \in Requests |->
                 IF x = r \/ req[x].phase = "idle" THEN Idle
                 ELSE [req[x] EXCEPT !.disturbed = TRUE]]
    /\ UNCHANGED bounds

\* Mutant: SELECT key_epoch without FOR UPDATE.
NeverLocked == FALSE

\* A rotation holds the household's row: INSERTs that refer to it wait.
HouseholdLocked == \E r \in Requests : At(r, "checked", {"rotate"})

-----------------------------------------------------------------------------
(* Invitations.                                                            *)

CreateInvite(u, i) ==
    /\ u \in Admins
    /\ invite[i].status = "none" /\ "invite" \in topic
    /\ ~HouseholdLocked
    /\ \E role \in Roles : invite' = [invite EXCEPT ![i] = [status |-> "open", role |-> role]]
    /\ UNCHANGED <<secrets, member, overlooked, screens, req, bounds>>

\* An admin revokes it, or its time is up.
RevokeInvite(i) ==
    /\ invite[i].status \in {"open", "claimed"}
    /\ invite' = [invite EXCEPT ![i].status = "revoked"]
    /\ UNCHANGED <<secrets, member, overlooked, screens, req, bounds>>

\* Claiming an invitation makes a pending member, whatever was there before.
AcceptInvite(u, i) ==
    /\ invite[i].status = "open"
    /\ ~Active(u)
    /\ member[u].status = "none" => ~HouseholdLocked
    /\ member' = [member EXCEPT ![u] = [status |-> "pending", role |-> invite[i].role]]
    /\ invite' = [invite EXCEPT ![i].status = "claimed"]
    /\ UNCHANGED <<secrets, overlooked, screens, req, bounds>>

-----------------------------------------------------------------------------
(* Roles, removal and leaving: a count, then an UPDATE, with nothing       *)
(* locked in between.                                                      *)

SendRole(r) ==
    /\ \E u, on \in Users, role \in Roles :
          /\ member[on].status \in {"pending", "active"} /\ role # member[on].role
          /\ Send(r, u, "role", on, role, 0, {})
    /\ UNCHANGED <<secrets, membership, screens>>

SendRemoval(r) ==
    /\ \E u, on \in Users : u # on /\ Active(on) /\ Send(r, u, "remove", on, "none", 0, {})
    /\ UNCHANGED <<secrets, membership, screens>>

\* Leaving goes by the role read on the way in.
SendLeave(r) ==
    /\ \E u \in Users : Send(r, u, "leave", u, member[u].role, 0, {})
    /\ UNCHANGED <<secrets, membership, screens>>

\* Mutant: one admin too few.
LastAdminOffByOne == Cardinality(Admins) < 1

\* rows[0].n <= 1
LastAdmin == Cardinality(Admins) <= 1

TakesAnAdmin(r) ==
    \/ At(r, "loaded", {"role"}) /\ req[r].on = req[r].by /\ req[r].role # "admin"
    \/ At(r, "loaded", {"remove"}) /\ member[req[r].on].role = "admin"
    \/ At(r, "loaded", {"leave"}) /\ req[r].role = "admin"

CheckLastAdmin(r) ==
    /\ At(r, "loaded", {"role", "remove", "leave"})
    /\ req[r].act = "remove" => Active(req[r].on)
    /\ ~(TakesAnAdmin(r) /\ LastAdmin)
    /\ Proceed(r)
    /\ UNCHANGED <<secrets, membership, screens>>

ChangeRole(r) ==
    /\ At(r, "checked", {"role"})
    /\ member[req[r].on].status \in {"pending", "active"}
    /\ member' = [member EXCEPT ![req[r].on].role = req[r].role]
    /\ FinishChange(r)
    /\ UNCHANGED <<secrets, invite, overlooked, screens>>

RemoveMember(r) ==
    /\ At(r, "checked", {"remove", "leave"})
    /\ member' = [member EXCEPT ![req[r].on].status = "removed"]
    /\ keys' = {k \in keys : k.subject # req[r].on}
    /\ FinishChange(r)
    /\ UNCHANGED <<keyEpoch, documentKey, held, minted, invite, overlooked, screens>>

-----------------------------------------------------------------------------
(* Keys: granting one, and replacing all of them.                          *)

\* openHousehold: unwrap the newest row there is for me.
OpenHousehold(u) ==
    /\ Active(u)
    /\ \E k \in keys :
          /\ k.subject = u
          /\ \A l \in keys : l.subject = u => l.epoch <= k.epoch
          /\ held[u] # k.key
          /\ held' = [held EXCEPT ![u] = k.key]
    /\ UNCHANGED <<keyEpoch, documentKey, keys, minted, membership, screens, req, bounds>>

\* INSERT ... ON CONFLICT (subject, key_epoch) DO UPDATE
StoreKeys(rows) ==
    {k \in keys : \A n \in rows : <<k.subject, k.epoch>> # <<n.subject, n.epoch>>} \cup rows

\* HouseholdPanel offers this for pending members.  The browser wraps the key it
\* holds, whichever that is by now; the row is filed under the
\* epoch the server read for the request.
SendGrant(r) ==
    /\ \E u, on \in Users :
          /\ member[on].status = "pending" /\ held[u] # 0
          /\ Send(r, u, "grant", on, "none", held[u], {})
    /\ UNCHANGED <<secrets, membership, screens>>

\* An account made for somebody else is active at once.
SendManaged(r) ==
    /\ \E u, on \in Users :
          /\ member[on].status = "none" /\ held[u] # 0
          /\ Send(r, u, "managed", on, "adult", held[u], {})
    /\ UNCHANGED <<secrets, membership, screens>>

KeyOf(r) == [subject |-> req[r].on, epoch |-> req[r].epoch, key |-> req[r].key]

\* A row there is already for that person and epoch: a rotation stores whatever rows it
\* is given, one for somebody removed since the list was made included.
SpareRow(r) == \E k \in keys : k.subject = req[r].on /\ k.epoch = req[r].epoch

\* ON CONFLICT DO UPDATE looks at no foreign key: over a spare row nothing waits.
GrantKey(r) ==
    /\ At(r, "loaded", {"grant"})
    /\ HouseholdLocked => SpareRow(r)
    /\ keys' = StoreKeys({KeyOf(r)})
    /\ member' = [member EXCEPT ![req[r].on].status = "active"]
    /\ overlooked' = IF HouseholdLocked /\ ~Active(req[r].on) THEN overlooked \cup {req[r].on}
                     ELSE overlooked
    /\ FinishChange(r)
    /\ UNCHANGED <<keyEpoch, documentKey, held, minted, invite, screens>>

CreateManaged(r) ==
    /\ At(r, "loaded", {"managed"})
    /\ member[req[r].on].status = "none"
    /\ ~HouseholdLocked
    /\ keys' = StoreKeys({KeyOf(r)})
    /\ member' = [member EXCEPT ![req[r].on] = [status |-> "active", role |-> "adult"]]
    /\ FinishChange(r)
    /\ UNCHANGED <<keyEpoch, documentKey, held, minted, invite, overlooked, screens>>

\* Everyone who must still have access after a rotation.
Expected == {u \in Users : Active(u)} \cup {d \in Displays : display[d].status = "active"}

\* The admin's client lists who is there, makes a key and wraps it for each.
SendRotate(r) ==
    /\ minted < MaxKeys
    /\ minted' = minted + 1
    /\ \E u \in Users : Send(r, u, "rotate", None, "none", minted + 1, Expected)
    /\ UNCHANGED <<keyEpoch, documentKey, keys, held, membership, screens>>

\* SELECT key_epoch ... FOR UPDATE, then who is missing.
LockHousehold(r) ==
    /\ At(r, "loaded", {"rotate"})
    /\ ~HouseholdLocked
    /\ Expected \subseteq req[r].subjects
    /\ overlooked' = {}
    /\ Proceed(r)
    /\ UNCHANGED <<secrets, member, invite, screens>>

KeysFor(r) == req[r].subjects

RotateKey(r) ==
    /\ At(r, "checked", {"rotate"})
    /\ keyEpoch' = keyEpoch + 1
    /\ keys' = {[subject |-> s, epoch |-> keyEpoch + 1, key |-> req[r].key] : s \in KeysFor(r)}
    /\ documentKey' = req[r].key
    /\ held' = [held EXCEPT ![req[r].by] = req[r].key]
    /\ Finish(r)
    /\ UNCHANGED <<minted, membership, screens>>

-----------------------------------------------------------------------------
(* Displays.                                                               *)

\* The proposer's approval is implicit and recorded.
Propose(u, d) ==
    /\ u \in Admins
    /\ display[d].status = "none" /\ "propose" \in topic
    /\ ~HouseholdLocked
    /\ display' = [display EXCEPT ![d].status = "pending"]
    /\ decision' = [decision EXCEPT ![d][u] = "approve"]
    /\ UNCHANGED <<secrets, membership, cut, req, bounds>>

SendForDisplay(r) ==
    /\ \E u \in Users, d \in Displays :
          /\ display[d].status # "none"
          /\ \/ \E act \in {"approve", "deny", "extend", "revoke"} : Send(r, u, act, d, "none", 0, {})
             \/ held[u] # 0 /\ Send(r, u, "activate", d, "none", held[u], {})
    /\ UNCHANGED <<secrets, membership, screens>>

\* The status is read ...
CheckPending(r) ==
    /\ At(r, "loaded", {"approve", "deny"})
    /\ display[req[r].on].status = "pending"
    /\ Proceed(r)
    /\ UNCHANGED <<secrets, membership, screens>>

\* ... then the decision is written ...
RecordDecision(r) ==
    /\ At(r, "checked", {"approve", "deny"})
    /\ decision' = [decision EXCEPT ![req[r].on][req[r].by] = req[r].act]
    /\ IF req[r].act = "deny"
       THEN req' = [req EXCEPT ![r].phase = "written"] /\ UNCHANGED bounds
       ELSE Finish(r)
    /\ UNCHANGED <<secrets, membership, display, cut>>

\* ... and a denial revokes whatever has become of the display by then.
Veto(r) ==
    /\ At(r, "written", {"deny"})
    /\ display' = [display EXCEPT ![req[r].on].status = "revoked"]
    /\ cut' = IF display[req[r].on].token THEN cut ELSE cut \cup {req[r].on}
    /\ Finish(r)
    /\ UNCHANGED <<secrets, membership, decision>>

Approvals(d) == {u \in Admins : decision[d][u] = "approve"}
Required ==
    IF Threshold > 0 /\ Threshold < Cardinality(Admins) THEN Threshold ELSE Cardinality(Admins)
\* Mutant: only a display that is already active is turned away.
MayActivateUnlessActive(d) ==
    /\ display[d].status # "active"
    /\ \A u \in Users : decision[d][u] # "deny"
    /\ Cardinality(Approvals(d)) >= Required

MayActivate(d) ==
    /\ display[d].status = "pending"
    /\ \A u \in Users : decision[d][u] # "deny"
    /\ Cardinality(Approvals(d)) >= Required

\* The display's row is locked from the first read to the commit.
Activate(r) ==
    LET d == req[r].on IN
    /\ At(r, "loaded", {"activate"})
    /\ MayActivate(d)
    /\ ~HouseholdLocked
    /\ keys' = StoreKeys({KeyOf(r)})
    /\ display' = [display EXCEPT ![d].status = "active", ![d].token = TRUE]
    /\ Finish(r)
    /\ UNCHANGED <<keyEpoch, documentKey, held, minted, membership, decision, cut>>

\* A later expiry; an expired display comes back to life.
Extend(r) ==
    LET d == req[r].on IN
    /\ At(r, "loaded", {"extend"})
    /\ display[d].status \in {"active", "pending", "expired"}
    /\ display' = [display EXCEPT ![d].due = FALSE,
                                  ![d].status = IF @ = "expired" THEN "active" ELSE @]
    /\ Finish(r)
    /\ UNCHANGED <<secrets, membership, decision, cut>>

\* Three statements without a transaction: the status goes first.
Revoke(r) ==
    /\ At(r, "loaded", {"revoke"})
    /\ display[req[r].on].status # "revoked"
    /\ display' = [display EXCEPT ![req[r].on].status = "revoked"]
    /\ req' = [req EXCEPT ![r].phase = "written"]
    /\ UNCHANGED <<secrets, membership, decision, cut, bounds>>

DeleteLink(r) ==
    /\ At(r, "written", {"revoke"})
    /\ display' = [display EXCEPT ![req[r].on].token = FALSE]
    /\ keys' = {k \in keys : k.subject # req[r].on}
    /\ cut' = cut \cup {req[r].on}
    /\ Finish(r)
    /\ UNCHANGED <<keyEpoch, documentKey, held, minted, membership, decision>>

\* Its expiry passes.
TimePasses(d) ==
    /\ display[d].status \in {"pending", "active"}
    /\ ~display[d].due
    /\ display' = [display EXCEPT ![d].due = TRUE]
    /\ UNCHANGED <<secrets, membership, decision, cut, req, bounds>>

\* Maintenance: WHERE status = 'active' AND expires_at < now().
ExpireDisplays ==
    LET Due == {d \in Displays : display[d].status = "active" /\ display[d].due} IN
    /\ Due # {}
    /\ display' = [d \in Displays |->
                     IF d \in Due THEN [display[d] EXCEPT !.status = "expired"] ELSE display[d]]
    /\ UNCHANGED <<secrets, membership, decision, cut, req, bounds>>

\* loadDisplay reads an active display that is past its expiry ...
DisplayCalls(r, d) ==
    /\ req[r].phase = "idle"
    /\ Count
    /\ display[d].token /\ display[d].status = "active" /\ display[d].due
    /\ req' = [req EXCEPT ![r] = [Idle EXCEPT !.phase = "loaded", !.act = "load",
                                              !.by = d, !.on = d]]
    /\ UNCHANGED <<secrets, membership, screens>>

\* ... and marks it expired, whatever its status is by then.
MarkExpired(r) ==
    /\ At(r, "loaded", {"load"})
    /\ display' = [display EXCEPT ![req[r].on].status = "expired"]
    /\ Finish(r)
    /\ UNCHANGED <<secrets, membership, decision, cut>>

-----------------------------------------------------------------------------

MembershipStep(r) ==
    \/ SendRole(r) \/ SendRemoval(r) \/ SendLeave(r)
    \/ CheckLastAdmin(r) \/ ChangeRole(r) \/ RemoveMember(r)

KeyStep(r) ==
    \/ SendGrant(r) \/ SendManaged(r) \/ SendRotate(r)
    \/ GrantKey(r) \/ CreateManaged(r) \/ LockHousehold(r) \/ RotateKey(r)

DisplayStep(r) ==
    \/ SendForDisplay(r) \/ CheckPending(r) \/ RecordDecision(r) \/ Veto(r)
    \/ Activate(r) \/ Extend(r) \/ Revoke(r) \/ DeleteLink(r) \/ MarkExpired(r)
    \/ \E d \in Displays : DisplayCalls(r, d)

Next ==
    \/ \E r \in Requests : MembershipStep(r) \/ KeyStep(r) \/ DisplayStep(r) \/ Refuse(r)
    \/ \E u \in Users :
          \/ OpenHousehold(u)
          \/ \E i \in Invites : CreateInvite(u, i) \/ AcceptInvite(u, i)
          \/ \E d \in Displays : Propose(u, d)
    \/ \E i \in Invites : RevokeInvite(i)
    \/ \E d \in Displays : TimePasses(d)
    \/ ExpireDisplays

Spec == Init /\ [][Next]_vars

-----------------------------------------------------------------------------
(* Properties.                                                             *)

HasCurrentKey(s) == \E k \in keys : k.subject = s /\ k.epoch = keyEpoch /\ k.key = documentKey

\* The count in the role, removal and leave handlers does what it is there for
\* as long as no other change of a membership is committed between a request's
\* middleware and its commit: such a request never takes the last admin away.
UndisturbedRequestsLeaveAnAdmin ==
    [][\A r \in Requests :
          /\ ~req[r].disturbed /\ req'[r].phase = "idle" /\ Admins # {}
          /\ At(r, "checked", {"role", "remove", "leave"})
          => Admins' # {}]_vars

\* When a rotation commits, everyone who is an active member by then holds the
\* key the document is sealed under, whoever was let in, promoted, removed or
\* rotated for while it ran: the lock on the household's row keeps newcomers out
\* between the list of who is missing and the new rows.  Except one: who was granted
\* a key meanwhile, over a row that an earlier rotation had left for them.
RotationReachesEveryone ==
    [][keyEpoch' # keyEpoch =>
          \A u \in Users \ overlooked : Active(u)' => HasCurrentKey(u)']_vars

\* A display that was revoked, or denied before it ever had a link, has no link
\* again: not through an activation, an expiry or an extension under way.
CutDisplaysStayDark == \A d \in cut : ~display[d].token

-----------------------------------------------------------------------------
(* What the repository says of these handlers and the code does not do; each *)
(* is refuted by a run of its own.                                         *)

\* "Never let the last admin demote themselves. A household with no admin can
\* never add a member, approve a display, or rotate a key again" (households.js).
SomeAdmin == (\E u \in Users : Active(u)) => Admins # {}

\* Whoever is active can open the document: a rotation that "left some members
\* unable to decrypt would be an outage for the family" (households.js).
ActiveMembersCanOpen == \A u \in Users : Active(u) => HasCurrentKey(u)

=============================================================================

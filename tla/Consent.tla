------------------------------- MODULE Consent -------------------------------
(***************************************************************************)
(* What takes everybody's agreement, and what one person may do alone:     *)
(* server/src/routes/proposals.js   wiping the completion archive          *)
(* server/src/routes/privacy.js     erasing an account                     *)
(* server/src/routes/households.js  deleting a household                   *)
(* server/src/jobs/maintenance.js   sweepOrphanedHouseholds                *)
(* web/src/components/ArchivePanel.jsx  proposing, deciding, wiping Of one *)
(* household.  Who joins it, leaves it and changes role happens here in    *)
(* one step each: the races among those are Household's.                   *)
(***************************************************************************)
EXTENDS Naturals, FiniteSets

CONSTANTS
    People,     \* with an account
    Parents,    \* those who are admins to begin with
    Proposals,  \* ids a proposal may be given
    Calls       \* requests in progress

ASSUME ConsentAssumption == IsFiniteSet(People) /\ Parents \subseteq People /\ Parents # {}

VARIABLES
    kin,  \* household_members, and whether the account is there at all
    household,  \* "open", or "gone"
    proposal,   \* household_proposals by id: status and payload
    raisedBy,   \* household_proposals.created_by
    votes,      \* proposal_approvals
    archive,    \* in the document: whether completions are kept, and whether any are
    call        \* the requests in progress

consentVars == <<kin, household, proposal, raisedBy, votes, archive, call>>

NoCall == [act |-> "none", at |-> "none", by |-> "nobody", on |-> "none", vote |-> "none",
           seen |-> {}, late |-> {}]

ConsentActs == {"decide", "apply", "erase", "delete"}

ConsentTypeOK ==
    /\ kin \in [People -> [account : BOOLEAN, status : {"out", "pending", "active"},
                                 role : {"admin", "adult"}]]
    /\ household \in {"open", "gone"}
    /\ proposal \in [Proposals -> {"none", "open", "expired", "approved", "denied",
                                   "applied", "withdrawn", "gone"}]
    /\ raisedBy \in [Proposals -> People \cup {"nobody"}]
    /\ votes \in [Proposals -> [People -> {"none", "approve", "deny"}]]
    /\ archive \in [keeping : BOOLEAN, kept : BOOLEAN]
    /\ call \in [Calls -> [act : ConsentActs \cup {"none"},
                           at : {"none", "sent", "recorded", "agreed", "wiped", "counted"},
                           by : People \cup {"nobody"}, on : Proposals \cup {"none"},
                           vote : {"none", "approve", "deny"},
                           seen : SUBSET People, late : SUBSET People]]

ConsentInit ==
    /\ kin = [p \in People |->
                      [account |-> TRUE, status |-> IF p \in Parents THEN "active" ELSE "out",
                       role |-> IF p \in Parents THEN "admin" ELSE "adult"]]
    /\ household = "open"
    /\ proposal = [x \in Proposals |-> "none"]
    /\ raisedBy = [x \in Proposals |-> "nobody"]
    /\ votes = [x \in Proposals |-> [p \in People |-> "none"]]
    /\ archive = [keeping |-> TRUE, kept |-> TRUE]
    /\ call = [c \in Calls |-> NoCall]

ActiveMembers == {p \in People : kin[p].status = "active"}
ActiveAdmins == {p \in ActiveMembers : kin[p].role = "admin"}

\* loadHousehold and requireRole("admin").
MayAct(p) == household = "open" /\ p \in ActiveAdmins

Counting(c) == call[c].at \in {"recorded", "counted"}
CallAt(c, act, at) == call[c].act = act /\ call[c].at = at
Begin(c, fields) == call' = [call EXCEPT ![c] = fields]
Answer(c) == call' = [call EXCEPT ![c] = NoCall]

-----------------------------------------------------------------------------
(* Who is in the household.                                                *)

\* Whoever changes standing is remembered by the requests that have counted.
Changes(p, to) ==
    /\ household = "open" /\ kin[p].account
    /\ kin' = [kin EXCEPT ![p] = to]
    /\ call' = [c \in Calls |->
                  IF Counting(c) THEN [call[c] EXCEPT !.late = @ \cup {p}] ELSE call[c]]
    /\ UNCHANGED <<household, proposal, votes, archive, raisedBy>>

AcceptInvitation(p) ==
    kin[p].status = "out" /\ Changes(p, [kin[p] EXCEPT !.status = "pending",
                                                                   !.role = "adult"])

GrantAccess(p) ==
    /\ ActiveAdmins # {} /\ kin[p].status = "pending"
    /\ Changes(p, [kin[p] EXCEPT !.status = "active"])

\* Nobody takes the last admin away: not by role, by removal or by leaving.
SetRole(p, role) ==
    /\ p \in ActiveMembers /\ role # kin[p].role /\ ActiveAdmins \notin {{}, {p}}
    /\ Changes(p, [kin[p] EXCEPT !.role = role])

PartWith(p) ==
    /\ p \in ActiveMembers /\ ActiveAdmins # {p}
    /\ Changes(p, [kin[p] EXCEPT !.status = "out"])

-----------------------------------------------------------------------------
(* Proposals.                                                              *)

\* proposeDisable.  Two at a time may both find that none is open.
CreateProposal(p, x) ==
    /\ MayAct(p) /\ archive.keeping /\ proposal[x] = "none"
    /\ proposal' = [proposal EXCEPT ![x] = "open"]
    /\ raisedBy' = [raisedBy EXCEPT ![x] = p]
    /\ votes' = [votes EXCEPT ![x][p] = "approve"]
    /\ UNCHANGED <<kin, household, archive, call>>

WithdrawProposal(p, x) ==
    /\ MayAct(p) /\ proposal[x] = "open"
    /\ \A c \in Calls : call[c].on # x
    /\ proposal' = [proposal EXCEPT ![x] = "withdrawn"]
    /\ UNCHANGED <<kin, household, votes, archive, call, raisedBy>>

ProposalLapses(x) ==
    /\ proposal[x] = "open" /\ \A c \in Calls : call[c].on # x
    /\ proposal' = [proposal EXCEPT ![x] = "expired"]
    /\ UNCHANGED <<kin, household, votes, archive, call, raisedBy>>

\* The panel offers the buttons to whoever has not decided yet.
SendDecision(c, p, x) ==
    /\ call[c] = NoCall /\ MayAct(p) /\ proposal[x] = "open" /\ votes[x][p] = "none"
    /\ \E vote \in {"approve", "deny"} :
          Begin(c, [NoCall EXCEPT !.act = "decide", !.at = "sent", !.by = p, !.on = x,
                                  !.vote = vote])
    /\ UNCHANGED <<kin, household, proposal, votes, archive, raisedBy>>

Locked(x) == \E c \in Calls : call[c].on = x /\ call[c].at = "recorded"

\* SELECT ... FOR UPDATE, the decision, and the admins there are.
RecordDecision(c) ==
    LET x == call[c].on IN
    /\ CallAt(c, "decide", "sent") /\ ~Locked(x)
    /\ IF proposal[x] = "open"
       THEN /\ votes' = [votes EXCEPT ![x][call[c].by] = call[c].vote]
            /\ Begin(c, [call[c] EXCEPT !.at = "recorded", !.seen = ActiveAdmins])
       ELSE Answer(c) /\ UNCHANGED votes
    /\ UNCHANGED <<kin, household, proposal, archive, raisedBy>>

\* Mutant: approvals are counted whoever gave them.
StaleApprovals(x, admins) == {p \in People : votes[x][p] = "approve"}

Approvals(x, admins) == {p \in admins : votes[x][p] = "approve"}
Denials(x, admins) == {p \in admins : votes[x][p] = "deny"}

\* tally
Satisfied(x, admins) ==
    Denials(x, admins) = {} /\ Cardinality(Approvals(x, admins)) >= Cardinality(admins)

ResolveDecision(c) ==
    LET x == call[c].on IN
    /\ CallAt(c, "decide", "recorded")
    /\ proposal' = [proposal EXCEPT ![x] =
                      IF call[c].vote = "deny" THEN "denied"
                      ELSE IF Satisfied(x, call[c].seen) THEN "approved" ELSE @]
    /\ IF proposal'[x] = "approved" THEN Begin(c, [call[c] EXCEPT !.act = "apply", !.at = "agreed", !.seen = {}, !.late = {}])
       ELSE Answer(c)
    /\ UNCHANGED <<kin, household, votes, archive, raisedBy>>

\* The browser that got the answer wipes the archive and switches it off ...
WipeArchive(c) ==
    /\ CallAt(c, "apply", "agreed")
    /\ archive' = [keeping |-> FALSE, kept |-> FALSE]
    /\ Begin(c, [call[c] EXCEPT !.at = "wiped"])
    /\ UNCHANGED <<kin, household, proposal, votes, raisedBy>>

\* ... and reports that it has.
MarkApplied(c) ==
    /\ CallAt(c, "apply", "wiped")
    /\ proposal' = IF MayAct(call[c].by) /\ proposal[call[c].on] = "approved"
                   THEN [proposal EXCEPT ![call[c].on] = "applied"] ELSE proposal
    /\ Answer(c)
    /\ UNCHANGED <<kin, household, votes, archive, raisedBy>>

\* Anybody switches the archive on again, and it fills.
EnableArchive(p) ==
    /\ MayAct(p) /\ ~archive.keeping
    /\ archive' = [keeping |-> TRUE, kept |-> TRUE]
    /\ UNCHANGED <<kin, household, proposal, votes, call, raisedBy>>

-----------------------------------------------------------------------------
(* Leaving for good.                                                       *)

\* Mutant: only the other admins are counted.
OtherAdmins(p) == ActiveAdmins \ {p}

Others(p) == ActiveMembers \ {p}

\* DELETE /households/:id counts the others ...
CountOthers(c, p) ==
    /\ call[c] = NoCall /\ MayAct(p) /\ Others(p) = {}
    /\ Begin(c, [NoCall EXCEPT !.act = "delete", !.at = "counted", !.by = p, !.seen = {p}])
    /\ UNCHANGED <<kin, household, proposal, votes, archive, raisedBy>>

\* ... DELETE /privacy/me counts them per household, and stops the only admin of
\* people who stay.
CountForErasure(c, p) ==
    /\ call[c] = NoCall /\ kin[p].account
    /\ ~(p \in ActiveMembers /\ ActiveAdmins = {p} /\ Others(p) # {})
    /\ Begin(c, [NoCall EXCEPT !.act = "erase", !.at = "counted", !.by = p,
                               !.seen = IF p \in ActiveMembers /\ Others(p) = {} THEN {p} ELSE {}])
    /\ UNCHANGED <<kin, household, proposal, votes, archive, raisedBy>>

Dissolve == [p \in People |-> [kin[p] EXCEPT !.status = "out"]]

DeleteHousehold(c) ==
    /\ CallAt(c, "delete", "counted")
    /\ household' = "gone" /\ kin' = Dissolve
    /\ Answer(c)
    /\ UNCHANGED <<proposal, votes, archive, raisedBy>>

\* The household that was empty but for them, if they say so, and the account
\* with everything keyed to it.
EraseAccount(c) ==
    LET p == call[c].by IN
    /\ CallAt(c, "erase", "counted")
    /\ \E emptyToo \in BOOLEAN :
          LET goes == emptyToo /\ call[c].seen = {p} IN
          /\ household' = IF goes THEN "gone" ELSE household
          /\ kin' = [(IF goes THEN Dissolve ELSE kin) EXCEPT
                             ![p] = [account |-> FALSE, status |-> "out", role |-> "adult"]]
    /\ votes' = [x \in Proposals |-> [votes[x] EXCEPT ![p] = "none"]]
    /\ call' = [d \in Calls |-> IF d = c THEN NoCall
                                ELSE IF Counting(d) THEN [call[d] EXCEPT !.late = @ \cup {p}]
                                ELSE call[d]]
    /\ proposal' = [x \in Proposals |-> IF raisedBy[x] = p THEN "gone" ELSE proposal[x]]
    /\ UNCHANGED <<archive, raisedBy>>

\* Nobody active is left, for the days of grace.
SweepOrphan ==
    /\ household = "open" /\ ActiveMembers = {}
    /\ household' = "gone" /\ kin' = Dissolve
    /\ UNCHANGED <<proposal, votes, archive, call, raisedBy>>

\* A refusal, a crash or a closed tab ends a request where it is; an open
\* transaction is rolled back.
Abandon(c) ==
    /\ call[c] # NoCall
    /\ votes' = IF CallAt(c, "decide", "recorded")
                THEN [votes EXCEPT ![call[c].on][call[c].by] = "none"] ELSE votes
    /\ Answer(c)
    /\ UNCHANGED <<kin, household, proposal, archive, raisedBy>>

-----------------------------------------------------------------------------

ConsentNext ==
    \/ \E p \in People :
          \/ AcceptInvitation(p) \/ GrantAccess(p) \/ PartWith(p) \/ EnableArchive(p)
          \/ \E role \in {"admin", "adult"} : SetRole(p, role)
          \/ \E x \in Proposals : CreateProposal(p, x) \/ WithdrawProposal(p, x)
          \/ \E c \in Calls :
                \/ CountOthers(c, p) \/ CountForErasure(c, p)
                \/ \E x \in Proposals : SendDecision(c, p, x)
    \/ \E x \in Proposals : ProposalLapses(x)
    \/ \E c \in Calls :
          \/ RecordDecision(c) \/ ResolveDecision(c) \/ WipeArchive(c) \/ MarkApplied(c)
          \/ DeleteHousehold(c) \/ EraseAccount(c) \/ Abandon(c)
    \/ SweepOrphan

-----------------------------------------------------------------------------

Agreed(x) ==
    /\ \A p \in People : votes[x][p] # "deny"
    /\ \A p \in ActiveAdmins : votes[x][p] = "approve" \/ \E c \in Calls : p \in call[c].late

\* A proposal passes only when everybody who is an admin then has approved it,
\* but for those who became one while the votes were being counted, and nobody
\* has refused: consent of somebody since removed or demoted does not make up for
\* an admin who was not asked (routes/proposals.js:8-10 "cannot be smuggled
\* through on stale consent").
WipeNeedsEveryAdmin ==
    [][\A x \in Proposals :
         proposal[x] = "open" /\ proposal'[x] = "approved" => Agreed(x)]_consentVars

Newcomers == UNION {call[c].late : c \in Calls}

\* A household goes with nobody's data in it but the one's who ends it or leaves
\* it; the others there can be are those who were admitted after the count
\* (routes/households.js:198-203, routes/privacy.js:235-236).  And whoever erases
\* an account leaves an admin to those who stay, unless somebody else's standing
\* has changed since the count (privacy.js:253-268).
GoingSparesTheOthers ==
    [][/\ household' # household =>
            \E p \in People : ActiveMembers \subseteq {p} \cup Newcomers
       /\ \A p \in People :
            kin[p].account /\ ~kin'[p].account /\ ActiveAdmins # {} =>
              \/ ActiveMembers' = {} \/ ActiveAdmins' # {}
              \/ Newcomers \ {p} # {}]_consentVars

=============================================================================

------------------------------ MODULE Upgrades -------------------------------
(***************************************************************************)
(* An uploaded change on its way to the repository:                        *)
(* server/src/services/upgrades.js  setStatus, runUpgradeJob,              *)
(* publishUpgrade server/src/routes/admin.js       queueing, approving and *)
(* rejecting The job runs detached from the request that queued it; super- *)
(* admins then review it, each with requests that read the job, write it   *)
(* and push.                                                               *)
(***************************************************************************)
EXTENDS Naturals, FiniteSets

CONSTANT Reviews    \* requests of super-admins about the job

VARIABLES
    upgrade,    \* the row of upgrade_jobs: its status and what its reports say
    worker,     \* the job runs in this process
    review,     \* per request, where it is
    out,        \* the branch is on GitHub
    refused,    \* auxiliary: a rejection has been answered
    doubted     \* auxiliary: requests under way when it was

upgradeVars == <<upgrade, worker, review, out, refused, doubted>>

\* The code calls the tests' phase verifying too.
Phases == {"queued", "scanning", "planning", "applying", "verifying", "testing"}
Following == [queued |-> "scanning", scanning |-> "planning", planning |-> "applying",
              applying |-> "verifying", verifying |-> "testing", testing |-> "awaiting_review"]

UpgradesTypeOK ==
    /\ upgrade \in [status : Phases \cup {"none", "awaiting_review", "approved", "pushed",
                                          "failed", "rejected"},
                    guarded : BOOLEAN, tested : BOOLEAN]
    /\ worker \in BOOLEAN /\ out \in BOOLEAN /\ refused \in BOOLEAN
    /\ review \in [Reviews -> {"none", "checked", "publishing", "found", "pushing"}]
    /\ doubted \subseteq Reviews

UpgradesInit ==
    /\ upgrade = [status |-> "none", guarded |-> FALSE, tested |-> FALSE]
    /\ worker = FALSE /\ out = FALSE
    /\ review = [r \in Reviews |-> "none"]
    /\ refused = FALSE /\ doubted = {}

SetStatus(status) == upgrade' = [upgrade EXCEPT !.status = status]
Goes(r, to) == review' = [review EXCEPT ![r] = to]

-----------------------------------------------------------------------------
(* The job.  The upload is checked, filed and handed to a worker.          *)

QueueUpgrade ==
    /\ upgrade.status = "none"
    /\ SetStatus("queued") /\ worker' = TRUE
    /\ UNCHANGED <<review, out, refused, doubted>>

\* Unpack, clone, hand to the agent; the gate and the tests say yes on the way.
Advance ==
    /\ worker /\ upgrade.status \in Phases
    /\ upgrade' = [status |-> Following[upgrade.status],
                   guarded |-> upgrade.guarded \/ upgrade.status = "verifying",
                   tested |-> upgrade.tested \/ upgrade.status = "testing"]
    /\ worker' = (upgrade'.status # "awaiting_review")
    /\ UNCHANGED <<review, out, refused, doubted>>

\* Nothing changed, the gate or the tests say no, or a phase throws.
GiveUp ==
    /\ worker
    /\ SetStatus("failed") /\ worker' = FALSE
    /\ UNCHANGED <<review, out, refused, doubted>>

\* The process stops; nothing takes a job up again.
StopUpgradeServer ==
    /\ worker \/ \E r \in Reviews : review[r] # "none"
    /\ worker' = FALSE /\ review' = [r \in Reviews |-> "none"]
    /\ UNCHANGED <<upgrade, out, refused, doubted>>

-----------------------------------------------------------------------------
(* The review.                                                             *)

\* Mutant: what has failed can be approved, as it can be rejected.
ReviewableOrFailed(status) == status \in {"awaiting_review", "failed"}

Reviewable(status) == status = "awaiting_review"

CheckUpgrade(r) ==
    /\ review[r] = "none" /\ Reviewable(upgrade.status)
    /\ Goes(r, "checked") /\ doubted' = doubted \ {r}
    /\ UNCHANGED <<upgrade, worker, out, refused>>

\* UPDATE ... WHERE id, whatever has become of it since.
ApproveUpgrade(r) ==
    /\ review[r] = "checked"
    /\ SetStatus("approved") /\ Goes(r, "publishing")
    /\ UNCHANGED <<worker, out, refused, doubted>>

\* publishUpgrade reads the job again, wants it approved, and says it is pushing.
ReadApproved(r) ==
    /\ review[r] = "publishing" /\ upgrade.status = "approved"
    /\ Goes(r, "found")
    /\ UNCHANGED <<upgrade, worker, out, refused, doubted>>

StartPublishing(r) ==
    /\ review[r] = "found"
    /\ SetStatus("approved") /\ Goes(r, "pushing")
    /\ UNCHANGED <<worker, out, refused, doubted>>

PushBranch(r) ==
    /\ review[r] = "pushing" /\ ~out
    /\ out' = TRUE
    /\ UNCHANGED <<upgrade, worker, review, refused, doubted>>

\* The pull request is opened, or the base branch pushed as well.
FinishPublishing(r) ==
    /\ review[r] = "pushing" /\ out
    /\ SetStatus("pushed") /\ Goes(r, "none")
    /\ UNCHANGED <<worker, out, refused, doubted>>

\* Not approved any more, no token, git or GitHub refuses.
PublishingFails(r) ==
    /\ review[r] \in {"publishing", "found", "pushing"}
    /\ SetStatus("failed") /\ Goes(r, "none")
    /\ UNCHANGED <<worker, out, refused, doubted>>

RejectUpgrade ==
    /\ upgrade.status \in {"awaiting_review", "failed"}
    /\ SetStatus("rejected")
    /\ refused' = TRUE
    /\ doubted' = doubted \cup {r \in Reviews : review[r] # "none"}
    /\ UNCHANGED <<worker, review, out>>

UpgradesNext ==
    \/ QueueUpgrade \/ Advance \/ GiveUp \/ StopUpgradeServer \/ RejectUpgrade
    \/ \E r \in Reviews :
          \/ CheckUpgrade(r) \/ ApproveUpgrade(r)
          \/ ReadApproved(r) \/ StartPublishing(r)
          \/ PushBranch(r) \/ FinishPublishing(r) \/ PublishingFails(r)

UpgradesSpec == UpgradesInit /\ [][UpgradesNext]_upgradeVars

-----------------------------------------------------------------------------

\* A branch is pushed only if the gate and the tests have passed it and, however
\* the requests of two super-admins overlap and wherever the server stops, only
\* by an approval of something not rejected before the approval began
\* (services/upgrades.js:349-353 "only after a human super-admin has looked at
\* the diff and approved it"): one under way when another super-admin rejects the
\* change is carried out all the same.
OnlyReviewedWorkGoesOut ==
    [][~out /\ out' =>
         /\ upgrade.guarded /\ upgrade.tested
         /\ refused => \E r \in doubted : review[r] = "pushing"]_upgradeVars

=============================================================================

----------------------------- MODULE MCServices ------------------------------
(***************************************************************************)
(* The services of the server that share nothing with one another, for     *)
(* TLC: a behaviour is about one topic, and what belongs to the others     *)
(* stands still.  The conditions on a topic's steps bound its instance;    *)
(* README.md says what each of them leaves out.                            *)
(***************************************************************************)
EXTENDS Billing, RateLimit, Audit, Accounts, Consent, CalDavPush, Upgrades,
    HomeDevices, Feeds, Cameras, Startup

CONSTANT Topics

VARIABLE topic

OnePassword(systems) == \A s \in CamSystems : systems[s].password = "pw1"

\* An older build, this one, this one with a file missing, and one with a file edited.
MCBuilds == {<<1, 0, 0>>, <<1, 1, 1>>, <<1, 0, 1>>, <<2, 0, 0>>}

ServicesInit ==
    /\ topic \in Topics
    /\ BillingInit /\ BucketInit /\ AuditInit
    /\ AccountsInit /\ ConsentInit /\ DavInit
    /\ UpgradesInit /\ HomeInit /\ FeedsInit /\ CamerasInit /\ StartupInit
    /\ topic # "push" => \A e \in Events : local[e] = 0
    /\ topic # "connect" => OnePassword(camSystem)
    /\ topic # "feeds" => listed = {}

-----------------------------------------------------------------------------
(* Steps a topic is made of.                                               *)

\* One invoice and overlapping sweeps; or quotes and wallets, and no sweep.
OneInvoice == \A i \in Invoices \ Payable : invoice'[i].status = "none"
NoSweep == sweep' = sweep

OnlyVisits(ops) == \A v \in Visits : visit'[v].op \in ops \cup {"none", "register"}
OneVisit == Cardinality({v \in Visits : visit'[v].op # "none"}) <= 1
TimeStands == \A s \in SessionIds : sessions'[s].clock = "fresh" /\ sessions'[s].state # "deleted"
OneSession == sessions'[2].state = "none" /\ sessions'[1].state \in {"none", "live"}

OnlyCalls(acts) == \A c \in Calls : call'[c].act \in acts \cup {"none"}
HouseholdStays == household' = "open"
NothingProposed == UNCHANGED <<proposal, archive>>
OnlyParentsEnd ==
    /\ \A p \in People \ Parents : kin'[p].account /\ kin'[p].role = "adult"
    /\ \A c \in Calls : call'[c].by \in Parents \cup {"nobody"}
OneEnding == Cardinality({c \in Calls : call'[c].act = "delete"}) <= 1
StayAsTheyAre(people) == \A p \in people : kin'[p] = kin[p]
GoneIsGone(p) == kin[p].status = "out" => kin'[p] = kin[p]

\* The push is switched on once, and the household edits between pushes.
SwitchedOnOnce == enabled => enabled'
EditsBetweenPushes == local' # local => ~push[2].on

OnlyAskersAt(places) == \A a \in Askers : asker'[a].at \in places \cup {"none"}
NamesStay == UNCHANGED named
DisplayMaySwitch == ha'.granted \in {{}, Devices \ Locks}

\* The third calendar may be an imported file, and stays; the others come and go while
\* nobody reads one.  The first may be read by hand, while there is no file, and changes.
ThirdStays ==
    /\ \A f \in Feeds \ {3} : rows'[f].kind # "file"
    /\ rows[3].kind # "none" => rows'[3].kind = rows[3].kind
ListedBetweenReads ==
    (\E f \in Feeds : rows'[f].kind # rows[f].kind) \/ errand' # errand
        => \A r \in Readers : reader'[r].todo = {}
FirstIsWatched ==
    /\ \A f \in Feeds \ {1} : origin'[f] = 1
    /\ origin' # origin => \A r \in Readers : \A read \in reader[r].answer : read.text = 0
    /\ reader'["hand"] # AtRest => 3 \notin Kept("file") /\ reader'["hand"].todo = {1}

\* While two passes overlap nothing else goes on, and nothing has changed before.
OverlapsAlone ==
    /\ (\A p \in Passes : reader'[p].todo # {}) =>
          /\ listed' = Feeds /\ errand' = NoErrand /\ reader'["hand"] = AtRest
          /\ \A f \in Feeds : origin'[f] = 1
    /\ reader["p1"].todo = {} => reader'["p2"].todo \subseteq reader["p2"].todo

\* Two admins who connect; or one who connects and one who watches.
NoFaces == ~cam'.faces
OnlyConnects == \A r \in CamRequests : camRequest'[r].op # "watch"
SystemsAreUp == \A s \in CamSystems : camSystem'[s].up
OneWatches == camRequest'[1].op # "watch" /\ camRequest'[2].op # "connect"

-----------------------------------------------------------------------------

BillingTopics ==
    /\ topic \in {"payments", "quotes"} /\ BillingNext
    /\ \/ topic = "payments" /\ OneInvoice
       \/ topic = "quotes" /\ NoSweep
    /\ UNCHANGED <<topic, bucketVars, auditVars, accountVars, consentVars, davVars,
                   upgradeVars, homeVars, feedVars, camVars, startupVars>>

BucketTopic ==
    /\ topic = "bucket" /\ BucketNext
    /\ UNCHANGED <<topic, billingVars, auditVars, accountVars, consentVars, davVars,
                   upgradeVars, homeVars, feedVars, camVars, startupVars>>

AuditTopic ==
    /\ topic = "audit" /\ AuditNext
    /\ UNCHANGED <<topic, billingVars, bucketVars, accountVars, consentVars, davVars,
                   upgradeVars, homeVars, feedVars, camVars, startupVars>>

AccountTopics ==
    /\ topic \in {"password", "remembered", "sessions", "factor"} /\ AccountsNext
    /\ \/ topic = "password" /\ OnlyVisits({"login", "password"}) /\ TimeStands /\ ~account'.policy
       \/ topic = "remembered" /\ OnlyVisits({"login", "policy"}) /\ TimeStands /\ chosen'.password < 2
       \/ topic = "sessions" /\ OnlyVisits({"login"}) /\ OneVisit /\ chosen'.password < 2
       \/ topic = "factor" /\ OnlyVisits(FactorOps) /\ TimeStands /\ OneSession
    /\ UNCHANGED <<topic, billingVars, bucketVars, auditVars, consentVars, davVars,
                   upgradeVars, homeVars, feedVars, camVars, startupVars>>

ConsentTopics ==
    /\ topic \in {"proposals", "erasure"} /\ ConsentNext
    /\ \/ topic = "proposals" /\ OnlyCalls({"decide", "apply"}) /\ HouseholdStays /\ StayAsTheyAre({"a"})
          /\ call'["c2"].act # "apply" /\ GoneIsGone("b")
       \/ topic = "erasure" /\ OnlyCalls({"erase", "delete"}) /\ NothingProposed
          /\ OnlyParentsEnd /\ OneEnding
    /\ UNCHANGED <<topic, billingVars, bucketVars, auditVars, accountVars, davVars,
                   upgradeVars, homeVars, feedVars, camVars, startupVars>>

DavTopic ==
    /\ topic = "push" /\ DavNext
    /\ SwitchedOnOnce /\ EditsBetweenPushes
    /\ UNCHANGED <<topic, billingVars, bucketVars, auditVars, accountVars, consentVars,
                   upgradeVars, homeVars, feedVars, camVars, startupVars>>

UpgradeTopic ==
    /\ topic = "upgrade" /\ UpgradesNext
    /\ UNCHANGED <<topic, billingVars, bucketVars, auditVars, accountVars, consentVars, davVars,
                   homeVars, feedVars, camVars, startupVars>>

HomeTopics ==
    /\ topic \in {"names", "switches"} /\ HomeNext
    /\ \/ topic = "names" /\ OnlyAskersAt({"organise"}) /\ UNCHANGED <<house, held>>
          /\ ha'.control = ha'.connected /\ ha'.granted = {}
       \/ topic = "switches" /\ OnlyAskersAt({"allowed", "called", "asked", "told"}) /\ NamesStay
          /\ DisplayMaySwitch
    /\ UNCHANGED <<topic, billingVars, bucketVars, auditVars, accountVars, consentVars, davVars, upgradeVars,
                   feedVars, camVars, startupVars>>

FeedTopic ==
    /\ topic = "feeds" /\ FeedsNext
    /\ ThirdStays /\ ListedBetweenReads /\ FirstIsWatched /\ OverlapsAlone
    /\ UNCHANGED <<topic, billingVars, bucketVars, auditVars, accountVars, consentVars, davVars,
                   upgradeVars, homeVars, camVars, startupVars>>

CameraTopics ==
    /\ topic \in {"connect", "watch"} /\ CamerasNext /\ NoFaces
    /\ \/ topic = "connect" /\ OnlyConnects /\ SystemsAreUp /\ cam'.shown = "all"
       \/ topic = "watch" /\ OneWatches /\ OnePassword(camSystem')
    /\ UNCHANGED <<topic, billingVars, bucketVars, auditVars, accountVars, consentVars, davVars,
                   upgradeVars, homeVars, feedVars, startupVars>>

StartupTopic ==
    /\ topic = "startup" /\ StartupNext
    /\ UNCHANGED <<topic, billingVars, bucketVars, auditVars, accountVars, consentVars, davVars,
                   upgradeVars, homeVars, feedVars, camVars>>

ServicesNext ==
    \/ BillingTopics \/ BucketTopic \/ AuditTopic \/ AccountTopics
    \/ ConsentTopics \/ DavTopic \/ UpgradeTopic \/ HomeTopics \/ FeedTopic \/ CameraTopics
    \/ StartupTopic

servicesVars == <<topic, billingVars, bucketVars, auditVars, accountVars, consentVars, davVars,
                  upgradeVars, homeVars, feedVars, camVars, startupVars>>

ServicesSpec == ServicesInit /\ [][ServicesNext]_servicesVars /\ BillingFairness

=============================================================================

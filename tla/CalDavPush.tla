----------------------------- MODULE CalDavPush -----------------------------
(***************************************************************************)
(* Writing the household's events out to a calendar that phones edit too:  *)
(*   server/src/services/caldav-sync.js  pushToCalendar, rememberPush,     *)
(*                                       setPushEnabled                    *)
(*   server/src/services/caldav.js       planSync, putEvent, deleteEvent   *)
(* Of one calendar.  Text of an event is a number, 0 for no event; an etag *)
(* is a number the calendar never gives twice, 0 for the empty string.     *)
(***************************************************************************)
EXTENDS Naturals, FiniteSets

CONSTANTS
    Events,     \* ids of events, ours by their uid
    Pushes,     \* pushes at a time: two people press the button
    Texts,      \* bound: versions of an event's text
    MaxEtag     \* bound: writes to the calendar

ASSUME DavAssumption == Texts \in Nat \ {0} /\ MaxEtag \in Nat

VARIABLES
    local,      \* the events in the household's document
    enabled,    \* push_enabled
    remote,     \* what the calendar holds under our uids
    pushed,     \* caldav_pushed: the rows, and what they say
    etags,      \* given out so far
    push,       \* the pushes in progress
    astray      \* auxiliary: events last written by a push that broke off before it
                \* took note, or took note after another push had written

davVars == <<local, enabled, remote, pushed, etags, push, astray>>

Absent == [etag |-> 0, text |-> 0, phone |-> FALSE]
NoRecord == [kept |-> FALSE, etag |-> 0, text |-> 0]
NoPush == [on |-> FALSE, todo |-> {}, wrote |-> {}, clean |-> FALSE, alone |-> FALSE,
           set |-> [e \in Events |-> 0]]

\* Something to write, or a note of what was written.
Jobs == [do : {"create", "update", "remove", "adopt", "forget"}, uid : Events,
         text : 0..Texts, etag : 0..MaxEtag]

DavTypeOK ==
    /\ local \in [Events -> 0..Texts]
    /\ enabled \in BOOLEAN
    /\ remote \in [Events -> [etag : 0..MaxEtag, text : 0..Texts, phone : BOOLEAN]]
    /\ pushed \in [Events -> [kept : BOOLEAN, etag : 0..MaxEtag, text : 0..Texts]]
    /\ etags \in 0..MaxEtag /\ astray \subseteq Events
    /\ push \in [Pushes -> [on : BOOLEAN, todo : SUBSET Jobs, wrote : SUBSET Jobs,
                            clean : BOOLEAN, alone : BOOLEAN, set : [Events -> 0..Texts]]]

DavInit ==
    /\ local \in [Events -> 0..1]
    /\ enabled = FALSE
    /\ remote = [e \in Events |-> Absent]
    /\ pushed = [e \in Events |-> NoRecord]
    /\ etags = 0
    /\ push = [p \in Pushes |-> NoPush]
    /\ astray = {}

-----------------------------------------------------------------------------
(* The household and the phone.                                            *)

EditEvent(e) ==
    /\ \E text \in 0..Texts : text # local[e] /\ local' = [local EXCEPT ![e] = text]
    /\ UNCHANGED <<enabled, remote, pushed, etags, push, astray>>

SetPushEnabled ==
    /\ enabled' = ~enabled
    /\ UNCHANGED <<local, remote, pushed, etags, push, astray>>

Shaken == [p \in Pushes |-> [push[p] EXCEPT !.alone = FALSE]]

\* On the phone an event is changed or taken off the calendar.
EditOnPhone(e) ==
    /\ remote[e].text # 0 /\ etags < MaxEtag
    /\ \/ remote' = [remote EXCEPT ![e].etag = etags + 1, ![e].phone = TRUE]
       \/ remote' = [remote EXCEPT ![e] = [Absent EXCEPT !.phone = TRUE]]
    /\ etags' = etags + 1
    /\ push' = Shaken
    /\ UNCHANGED <<local, enabled, pushed, astray>>

-----------------------------------------------------------------------------
(* A push.                                                                 *)

Job(do, e, text, etag) == [do |-> do, uid |-> e, text |-> text, etag |-> etag]

\* Mutant: an event that is new and one that is changed are told apart by the etag.
PlanByEtag(set) ==
    {Job(IF pushed[e].etag = 0 THEN "create" ELSE "update", e, set[e], pushed[e].etag) :
       e \in {f \in Events : set[f] # 0}}
    \cup {Job("remove", e, 0, pushed[e].etag) :
            e \in {f \in Events : set[f] = 0 /\ pushed[f].etag # 0}}

\* planSync: what is to be there against what is known to have been written.
PlanSync(set) ==
    {Job("create", e, set[e], 0) : e \in {f \in Events : set[f] # 0 /\ ~pushed[f].kept}}
    \cup {Job("update", e, set[e], pushed[e].etag) :
            e \in {f \in Events : set[f] # 0 /\ pushed[f].kept /\ pushed[f].text # set[f]}}
    \cup {Job("remove", e, 0, pushed[e].etag) :
            e \in {f \in Events : set[f] = 0 /\ pushed[f].kept}}

StartPush(p) ==
    /\ ~push[p].on /\ enabled
    /\ push' = [Shaken EXCEPT ![p] =
                  [NoPush EXCEPT !.on = TRUE, !.todo = PlanSync(local), !.clean = TRUE,
                                 !.set = local, !.alone = \A q \in Pushes : ~push[q].on]]
    /\ UNCHANGED <<local, enabled, remote, pushed, etags, astray>>

\* Creations first, then changes, then removals.
JobOrder(job) == CASE job.do = "create" -> 1 [] job.do = "update" -> 2 [] OTHER -> 3
NextJobs(p) == {job \in push[p].todo : \A other \in push[p].todo : JobOrder(job) <= JobOrder(other)}

Took(p, job) == [push EXCEPT ![p].todo = @ \ {job}]
Wrote(p, job, note) == [push EXCEPT ![p].todo = @ \ {job}, ![p].wrote = {note}]

\* Mutant: without an etag a PUT has no precondition.
PutsAnyway(job) == job.etag = 0 \/ job.etag = remote[job.uid].etag

\* If-Match the etag, or without one If-None-Match: *.
PutAllowed(job) ==
    IF job.etag = 0 THEN remote[job.uid].text = 0 ELSE job.etag = remote[job.uid].etag

PutEvent(p, job) ==
    /\ push[p].wrote = {} /\ job \in NextJobs(p) /\ job.do \in {"create", "update"}
    /\ PutAllowed(job) /\ etags < MaxEtag
    /\ remote' = [remote EXCEPT ![job.uid] =
                    [etag |-> etags + 1, text |-> job.text, phone |-> FALSE]]
    /\ etags' = etags + 1
    /\ push' = Wrote(p, job, [job EXCEPT !.etag = etags + 1])
    /\ UNCHANGED <<local, enabled, pushed, astray>>

\* 412: an event of ours unknown to us is adopted, the etag of one edited on a
\* phone is forgotten.
PutConflict(p, job) ==
    /\ push[p].wrote = {} /\ job \in NextJobs(p) /\ job.do \in {"create", "update"}
    /\ ~PutAllowed(job)
    /\ push' = [Wrote(p, job, Job(IF job.do = "create" THEN "adopt" ELSE "forget", job.uid, 0, 0))
                EXCEPT ![p].clean = FALSE]
    /\ UNCHANGED <<local, enabled, remote, pushed, etags, astray>>

\* If-Match the etag, or without one no condition at all; gone already is as good.
DeleteAllowed(job) == remote[job.uid].text = 0 \/ job.etag \in {0, remote[job.uid].etag}

DeleteEvent(p, job) ==
    /\ push[p].wrote = {} /\ job \in NextJobs(p) /\ job.do = "remove"
    /\ IF DeleteAllowed(job)
       THEN /\ remote' = [remote EXCEPT ![job.uid] = Absent]
            /\ push' = Wrote(p, job, job)
       ELSE /\ push' = [Took(p, job) EXCEPT ![p].clean = FALSE]
            /\ UNCHANGED remote
    /\ UNCHANGED <<local, enabled, pushed, etags, astray>>

\* The calendar refuses, for a reason of its own.
WriteFails(p, job) ==
    /\ push[p].wrote = {} /\ job \in NextJobs(p)
    /\ push' = [Took(p, job) EXCEPT ![p].clean = FALSE]
    /\ UNCHANGED <<local, enabled, remote, pushed, etags, astray>>

\* rememberPush, the UPDATE that forgets an etag, or the DELETE of the row.
Recorded(job) ==
    CASE job.do \in {"create", "update", "adopt"} ->
           [kept |-> TRUE, etag |-> job.etag, text |-> job.text]
      [] job.do = "forget" -> [pushed[job.uid] EXCEPT !.etag = 0]
      [] OTHER -> NoRecord

\* It is what the calendar holds, or was until a phone changed it.
Tells(job) ==
    \/ remote[job.uid].phone
    \/ IF job.do = "remove" THEN remote[job.uid].text = 0
       ELSE job.etag = remote[job.uid].etag

Remember(p) ==
    \E job \in push[p].wrote :
       /\ pushed' = [pushed EXCEPT ![job.uid] = Recorded(job)]
       /\ push' = [push EXCEPT ![p].wrote = {}]
       /\ astray' = IF job.do \in {"adopt", "forget"} THEN astray
                    ELSE IF Tells(job) THEN astray \ {job.uid} ELSE astray \cup {job.uid}
       /\ UNCHANGED <<local, enabled, remote, etags>>

FinishPush(p) ==
    /\ push[p].on /\ push[p].todo = {} /\ push[p].wrote = {}
    /\ push' = [push EXCEPT ![p] = NoPush]
    /\ UNCHANGED <<local, enabled, remote, pushed, etags, astray>>

\* A timeout throws out of the whole push; the process may stop as well.  What
\* was written and not yet remembered stays on the calendar.
BreakOff(p) ==
    /\ push[p].on
    /\ push' = [push EXCEPT ![p] = NoPush]
    /\ astray' = astray \cup {job.uid : job \in push[p].wrote}
    /\ UNCHANGED <<local, enabled, remote, pushed, etags>>

DavNext ==
    \/ SetPushEnabled
    \/ \E e \in Events : EditEvent(e) \/ EditOnPhone(e)
    \/ \E p \in Pushes :
          \/ StartPush(p) \/ Remember(p) \/ FinishPush(p) \/ BreakOff(p)
          \/ \E job \in push[p].todo :
                PutEvent(p, job) \/ PutConflict(p, job) \/ DeleteEvent(p, job) \/ WriteFails(p, job)

-----------------------------------------------------------------------------

\* What somebody has changed on a phone is not flattened by a push, however
\* pushes overlap and wherever one breaks off; only an event that the household
\* has dropped, and whose etag has been forgotten, is deleted blindly
\* (caldav-sync.js:13-14, "an edit made on a phone is detected rather than
\* flattened"; caldav.js:372-375).
PhoneEditsStand ==
    [][\A e \in Events :
         remote[e].phone /\ remote[e].text # 0 /\ remote'[e] # remote[e] =>
           \/ remote'[e].phone \/ ~\E p \in Pushes : push'[p].wrote # push[p].wrote
           \/ remote'[e] = Absent /\ \E p \in Pushes : Job("remove", e, 0, 0) \in push[p].todo]_davVars

\* A push that has reported neither a conflict nor a failure, and had the calendar
\* to itself, has left every event of its set there as it was sent or as a phone has
\* changed it, and no other of ours (caldav-sync.js:130-132, "the complete set of
\* events that should be on that calendar").  After a push that broke off before it
\* noted what it wrote, or noted it late, this holds for every event that the notes
\* do not take for unchanged already; of one the household has put back to what they
\* say, or dropped before they said anything, the push has nothing to do and no word.
TakenForUnchanged(p, e) ==
    e \in astray /\ IF pushed[e].kept THEN pushed[e].text = push[p].set[e] ELSE push[p].set[e] = 0

CleanPushIsTrue ==
    \A p \in Pushes :
       push[p].on /\ push[p].clean /\ push[p].alone /\ push[p].todo = {} /\ push[p].wrote = {} =>
         \A e \in Events :
            \/ remote[e].phone \/ remote[e].text = push[p].set[e]
            \/ TakenForUnchanged(p, e)

=============================================================================

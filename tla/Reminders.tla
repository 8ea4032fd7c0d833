------------------------------ MODULE Reminders ------------------------------
(***************************************************************************)
(* The reminders of one day, and the phone pushes that every awake screen  *)
(* would send for them: the bookkeeping in the household document keeps    *)
(* two screens from sending the same step twice.                           *)
(*                                                                         *)
(* A reminder sounds from its hour until its cutoff, a step further every  *)
(* tick of the clock, while its chore is neither done nor skipped nor      *)
(* snoozed.  The document is one here: VaultSync has the copies of it.     *)
(***************************************************************************)
EXTENDS Integers, FiniteSets

CONSTANTS Alerts,   \* the reminders
          Screens,  \* the devices that are awake and relay
          At, Cutoff, LastTick   \* the hour, the cutoff, the last tick looked at
ASSUME RemindersAssumption == At \in Nat /\ Cutoff \in Nat /\ LastTick \in Nat /\ At <= Cutoff

VARIABLES clock,     \* the tick of the day
          dealt,     \* reminders whose chore is done or skipped today
          snoozed,   \* until which tick one is silenced; 0: it is not
          relayed,   \* alertRelayed: the step that was sent, -1 for none
          screens,   \* per device: the last alerts it ran its effect for, and its sends
          delivered, \* the pushes of the day that reached the service
          yesterdays, \* auxiliary: reminders whose record is of a day before, not tidied since
          crossing   \* auxiliary: the screens with a push under way since before midnight
reminderVars == <<clock, dealt, snoozed, relayed, screens, delivered, yesterdays, crossing>>
sends == <<screens, delivered, crossing>>

None == -1
Steps == None..LastTick

\* Which reminders sound, and at which step.
Overdue(a) == IF clock < At \/ clock > Cutoff \/ a \in dealt THEN None ELSE clock - At
DueAlerts == {a \in Alerts : Overdue(a) # None /\ snoozed[a] <= clock}
EscalationStep(a) == Overdue(a)
Sounding == [a \in Alerts |-> IF a \in DueAlerts THEN EscalationStep(a) ELSE None]
Live(seen) == {a \in Alerts : seen[a] # None}

AlreadySent(a, step) == relayed[a] >= step

\* Mutant: what no longer sounds stays in the book.
NeverTidied(book, live) == book
Pruned(book, live) == [a \in Alerts |-> IF a \in live THEN book[a] ELSE None]

Idle == [up |-> FALSE, seen |-> [a \in Alerts |-> None], pending |-> {}, sending |-> "nothing", ok |-> FALSE]

RemindersTypeOK ==
    /\ clock \in 0..LastTick /\ dealt \subseteq Alerts
    /\ snoozed \in [Alerts -> 0..(LastTick + 1)] /\ relayed \in [Alerts -> Steps]
    /\ screens \in [Screens -> [up : BOOLEAN, seen : [Alerts -> Steps], pending : SUBSET Alerts,
                                sending : Alerts \cup {"nothing"}, ok : BOOLEAN]]
    /\ delivered \subseteq (Alerts \X Steps)
    /\ yesterdays \subseteq Alerts /\ crossing \subseteq Screens

RemindersInit ==
    /\ clock = 0 /\ dealt = {} /\ snoozed = [a \in Alerts |-> 0]
    /\ relayed = [a \in Alerts |-> None]
    /\ screens = [s \in Screens |-> Idle]
    /\ delivered = {} /\ yesterdays = {} /\ crossing = {}

-----------------------------------------------------------------------------
(* The effect of a screen: it runs when what sounds has changed, and cancels *)
(* what the run before had under way.                                      *)

Relay(s) ==
    /\ ~screens[s].up \/ screens[s].seen # Sounding
    /\ LET todo == {a \in DueAlerts : ~AlreadySent(a, EscalationStep(a))}
       IN  /\ screens' = [screens EXCEPT ![s] = [Idle EXCEPT !.up = TRUE, !.seen = Sounding, !.pending = todo]]
           /\ relayed' = IF todo = {} THEN Pruned(relayed, DueAlerts) ELSE relayed
           /\ yesterdays' = IF todo = {} THEN yesterdays \cap DueAlerts ELSE yesterdays
    /\ crossing' = crossing \ {s}
    /\ UNCHANGED <<clock, dealt, snoozed, delivered>>

\* One push at a time; it arrives or it does not, and the answer may be lost.
Send(s, a) ==
    /\ screens[s].sending = "nothing" /\ a \in screens[s].pending
    /\ \E arrives, ok \in BOOLEAN :
         /\ ok => arrives
         /\ screens' = [screens EXCEPT ![s].sending = a, ![s].ok = ok, ![s].pending = @ \ {a}]
         /\ delivered' = IF arrives THEN delivered \cup {<<a, screens[s].seen[a]>>} ELSE delivered
    /\ UNCHANGED <<clock, dealt, snoozed, relayed, yesterdays, crossing>>

\* A mutant of the next: a send is taken down whatever came of it.
AnySend(s) == TRUE
RecordedIf(s) == screens[s].ok

\* Only a send that happened is written down.
RecordSent(s) ==
    LET a == screens[s].sending
    IN  /\ a # "nothing"
        /\ relayed' = IF RecordedIf(s)
                      THEN [Pruned(relayed, Live(screens[s].seen)) EXCEPT ![a] = screens[s].seen[a]]
                      ELSE relayed
        /\ screens' = [screens EXCEPT ![s].sending = "nothing", ![s].ok = FALSE]
        /\ yesterdays' = IF s \in crossing THEN yesterdays \cup {a} ELSE yesterdays
        /\ crossing' = crossing \ {s}
        /\ UNCHANGED <<clock, dealt, snoozed, delivered>>

\* The device falls asleep or its page is closed; it comes back knowing nothing.
PutAway(s) ==
    /\ screens[s] # Idle
    /\ screens' = [screens EXCEPT ![s] = Idle]
    /\ crossing' = crossing \ {s}
    /\ UNCHANGED <<clock, dealt, snoozed, relayed, delivered, yesterdays>>

-----------------------------------------------------------------------------
(* The household and the clock.                                            *)

AlertDone(a) ==
    /\ a \in DueAlerts /\ dealt' = dealt \cup {a}
    /\ UNCHANGED <<clock, snoozed, relayed, sends, yesterdays>>

\* A tick is taken back from the list.
AlertUndone(a) ==
    /\ a \in dealt /\ dealt' = dealt \ {a}
    /\ UNCHANGED <<clock, snoozed, relayed, sends, yesterdays>>

AlertSnooze(a) ==
    /\ a \in DueAlerts /\ snoozed' = [snoozed EXCEPT ![a] = clock + 1]
    /\ UNCHANGED <<clock, dealt, relayed, sends, yesterdays>>

ClockTicks ==
    /\ clock < LastTick /\ clock' = clock + 1
    /\ UNCHANGED <<dealt, snoozed, relayed, sends, yesterdays>>

\* Another day: a mark is of its date, the bookkeeping of none.
Midnight ==
    /\ clock = LastTick /\ clock' = 0
    /\ dealt' = {} /\ snoozed' = [a \in Alerts |-> 0]
    /\ delivered' = {}
    /\ yesterdays' = {a \in Alerts : relayed[a] # None}
    /\ crossing' = {s \in Screens : screens[s].sending # "nothing"}
    /\ UNCHANGED <<relayed, screens>>

RemindersNext ==
    \/ \E s \in Screens : Relay(s) \/ RecordSent(s) \/ PutAway(s) \/ \E a \in Alerts : Send(s, a)
    \/ \E a \in Alerts : AlertDone(a) \/ AlertUndone(a) \/ AlertSnooze(a)
    \/ ClockTicks \/ Midnight

\* A step that the document calls sent did reach the push service, at that very step and
\* on this day (App.jsx:1031, only a send that actually happened is recorded), unless the
\* record crossed midnight, or the push it was made for did, and no awake screen has
\* tidied it away while the reminder was silent: the keys have no date (relay.js:61-62),
\* and such a record keeps today's step from the phones.
RecordedMeansSent ==
    \A a \in Alerts : relayed[a] # None => <<a, relayed[a]>> \in delivered \/ a \in yesterdays

=============================================================================

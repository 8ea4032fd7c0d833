----------------------------- MODULE HomeDevices -----------------------------
(***************************************************************************)
(* A household's Home Assistant, behind the server:                        *)
(*   server/src/routes/home.js            connection, names and rooms,     *)
(*                                        control by members and displays  *)
(*   server/src/services/homeassistant.js the cache of states, callService *)
(* Requests read the connection or the names, wait for Home Assistant or   *)
(* the database, and go on with what they read.  Which entities are shown  *)
(* and how they are grouped is left out.                                   *)
(***************************************************************************)
EXTENDS Naturals, FiniteSets

CONSTANTS
    Devices,    \* entities that can be switched
    Locks,      \* those a display is never to operate
    Askers,     \* requests in progress
    Labels,     \* bound: names a household gives
    Switches    \* bound: how often a device is operated

ASSUME HomeAssumption == Locks \subseteq Devices /\ 0 \notin Labels /\ Switches \in Nat

VARIABLES
    ha,         \* household_home_assistant, and the domains a display was given
    named,      \* devices_enc: the overrides, 0 where there is none
    house,      \* per device, how often it has been switched
    held,       \* stateCache: what Home Assistant answered, or nothing
    asker,      \* per request, what it does and has read
    given,      \* auxiliary: per device, the name somebody gave it last
    crowded,    \* auxiliary: two changes of the names have overlapped
    done,       \* auxiliary: per device, the switching answered last
    older       \* auxiliary: requests that read the house before it was, and
                \* whether what is held came from one

homeVars == <<ha, named, house, held, asker, given, crowded, done, older>>

Unnamed == [d \in Devices |-> 0]
Untouched == [d \in Devices |-> 0]
NotHeld == <<>>
NoAsker == [at |-> "none", read |-> Unnamed, device |-> 0]

HomeTypeOK ==
    /\ ha \in [connected : BOOLEAN, control : BOOLEAN, granted : SUBSET Devices]
    /\ {named, given} \subseteq [Devices -> Labels \cup {0}]
    /\ {house, done} \subseteq [Devices -> 0..Switches]
    /\ held \in [Devices -> 0..Switches] \cup {NotHeld}
    /\ \A a \in Askers :
          /\ asker[a].at \in {"none", "organise", "allowed", "called", "asked", "told"}
          /\ DOMAIN asker[a].read = Devices /\ asker[a].device \in Devices \cup {0}
    /\ crowded \in BOOLEAN
    /\ older \in [askers : SUBSET Askers, held : BOOLEAN]

HomeInit ==
    /\ ha = [connected |-> FALSE, control |-> FALSE, granted |-> {}]
    /\ named = Unnamed /\ given = Unnamed
    /\ house = Untouched /\ done = Untouched /\ held = NotHeld
    /\ asker = [a \in Askers |-> NoAsker]
    /\ crowded = FALSE /\ older = [askers |-> {}, held |-> FALSE]

Comes(a, fields) == asker[a] = NoAsker /\ asker' = [asker EXCEPT ![a] = fields]
Moves(a, at) == asker' = [asker EXCEPT ![a].at = at]
Leaves(a) == asker' = [asker EXCEPT ![a] = NoAsker]
Organising == {a \in Askers : asker[a].at = "organise"}

\* Mutant: the cache outlives what it shows.
KeptOn == held

\* invalidate, from a control and from a change of the connection
AfterChange == NotHeld

Invalidate ==
    /\ held' = AfterChange
    /\ older' = [askers |-> {a \in Askers : asker[a].at = "told"}, held |-> FALSE]

-----------------------------------------------------------------------------
(* The connection and the names.                                           *)

\* A selection of entities saved without controlEnabled switches control off.
ConfigureHome ==
    /\ \E control \in BOOLEAN : ha' = [ha EXCEPT !.connected = TRUE, !.control = control]
    /\ Invalidate
    /\ UNCHANGED <<named, house, asker, given, crowded, done>>

DisconnectHome ==
    /\ ha.connected
    /\ ha' = [ha EXCEPT !.connected = FALSE, !.control = FALSE]
    /\ named' = Unnamed /\ given' = Unnamed
    /\ crowded' = (crowded \/ Organising # {})
    /\ Invalidate
    /\ UNCHANGED <<house, asker, done>>

GrantDomains ==
    /\ \E granted \in SUBSET (Devices \ Locks) :
          granted # ha.granted /\ ha' = [ha EXCEPT !.granted = granted]
    /\ UNCHANGED <<named, house, held, asker, given, crowded, done, older>>

\* PUT /devices reads what there is ...
ReadDevices(a) ==
    /\ Comes(a, [NoAsker EXCEPT !.at = "organise", !.read = named])
    /\ crowded' = (crowded \/ Organising # {})
    /\ UNCHANGED <<ha, named, house, held, given, done, older>>

\* Mutant: what is sent takes the place of what there is.
Replaced(read, d, name) == [Unnamed EXCEPT ![d] = name]

Merged(read, d, name) == [read EXCEPT ![d] = name]

\* ... and writes it back with the overrides of the request, if there is a row;
\* an override that says nothing is dropped.
WriteDevices(a) ==
    /\ asker[a].at = "organise"
    /\ \E d \in Devices, name \in Labels \cup {0} :
          IF ha.connected
          THEN named' = Merged(asker[a].read, d, name) /\ given' = [given EXCEPT ![d] = name]
          ELSE UNCHANGED <<named, given>>
    /\ Leaves(a)
    /\ UNCHANGED <<ha, house, held, crowded, done, older>>

-----------------------------------------------------------------------------
(* Switching.                                                              *)

\* A member may operate everything, a display what it was given and no lock.
Permitted(by, d) == by = "member" \/ d \in ha.granted \ Locks

AskControl(a, by, d) ==
    /\ ha.connected /\ ha.control /\ Permitted(by, d)
    /\ Comes(a, [NoAsker EXCEPT !.at = "allowed", !.device = d])
    /\ UNCHANGED <<ha, named, house, held, given, crowded, done, older>>

CallService(a) ==
    LET d == asker[a].device IN
    /\ asker[a].at = "allowed" /\ house[d] < Switches
    /\ house' = [house EXCEPT ![d] = @ + 1]
    /\ asker' = [asker EXCEPT ![a].at = "called", ![a].read = house']
    /\ UNCHANGED <<ha, named, held, given, crowded, done, older>>

AnswerControl(a) ==
    LET d == asker[a].device IN
    /\ asker[a].at = "called"
    /\ done' = [done EXCEPT ![d] = IF @ < asker[a].read[d] THEN asker[a].read[d] ELSE @]
    /\ Invalidate /\ Leaves(a)
    /\ UNCHANGED <<ha, named, house, given, crowded>>

\* A wall switch.
SwitchByHand(d) ==
    /\ house[d] < Switches
    /\ house' = [house EXCEPT ![d] = @ + 1]
    /\ UNCHANGED <<ha, named, held, asker, given, crowded, done, older>>

\* getStates: from the cache (a read), or a question to Home Assistant ...
AskStates(a) ==
    /\ ha.connected /\ held = NotHeld
    /\ Comes(a, [NoAsker EXCEPT !.at = "asked"])
    /\ UNCHANGED <<ha, named, house, held, given, crowded, done, older>>

TellStates(a) ==
    /\ asker[a].at = "asked"
    /\ asker' = [asker EXCEPT ![a].at = "told", ![a].read = house]
    /\ UNCHANGED <<ha, named, house, held, given, crowded, done, older>>

\* ... whose answer is kept.
KeepStates(a) ==
    /\ asker[a].at = "told"
    /\ held' = asker[a].read
    /\ older' = [askers |-> older.askers \ {a}, held |-> a \in older.askers]
    /\ Leaves(a)
    /\ UNCHANGED <<ha, named, house, given, crowded, done>>

\* Four seconds have passed.
StatesExpire ==
    /\ held # NotHeld
    /\ held' = NotHeld /\ older' = [older EXCEPT !.held = FALSE]
    /\ UNCHANGED <<ha, named, house, asker, given, crowded, done>>

\* No answer, a refusal, or the process stops in mid-request.
AskerFails(a) ==
    /\ asker[a] # NoAsker
    /\ Leaves(a) /\ older' = [older EXCEPT !.askers = @ \ {a}]
    /\ UNCHANGED <<ha, named, house, held, given, crowded, done>>

HomeNext ==
    \/ ConfigureHome \/ DisconnectHome \/ GrantDomains \/ StatesExpire
    \/ \E d \in Devices : SwitchByHand(d)
    \/ \E a \in Askers :
          \/ ReadDevices(a) \/ WriteDevices(a) \/ AskStates(a) \/ TellStates(a) \/ KeepStates(a)
          \/ CallService(a) \/ AnswerControl(a) \/ AskerFails(a)
          \/ \E by \in {"member", "display"}, d \in Devices : AskControl(a, by, d)

HomeSpec == HomeInit /\ [][HomeNext]_homeVars

-----------------------------------------------------------------------------

\* Every device has the name it was given last, whoever gave the others theirs
\* (routes/home.js:293 "Merged rather than replaced"), as long as no two people
\* organised at a time: then the one who read first takes the other's names away.
NamesStick == ~crowded => named = given

\* Once a control is answered no screen is shown the state from before it
\* (homeassistant.js:219 "cached state is stale the instant we change something"):
\* except that a poll which Home Assistant answered before the control, and
\* which is filed after it, puts the old state back until it expires.
ControlsShow ==
    held # NotHeld /\ ~older.held => \A d \in Devices : held[d] >= done[d]

=============================================================================

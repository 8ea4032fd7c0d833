------------------------------- MODULE Timers -------------------------------
(***************************************************************************)
(* The kitchen timers of the household document, and the screen that has   *)
(* to be awake when one of them reaches zero.                              *)
(*                                                                         *)
(* Time is counted in steps; a timer holds the moment it ends.  The screen *)
(* sleeps until the soonest end and looks again then, or when the document *)
(* changes.  Labels, people and what the parser hears are left out: a      *)
(* spoken command is the timers it reaches.                                *)
(***************************************************************************)
EXTENDS Integers, FiniteSets, FiniteSetsExt

CONSTANTS TimerIds, Longest, Until   \* ids, the longest duration (MAX_MS), the last moment looked at
ASSUME TimersAssumption == Longest \in Nat \ {0} /\ Until \in Nat

VARIABLES timers,  \* the timers of the document
          screen,  \* wake: when it looks next (0: nothing to wait for); sounding: what it does
          moment,
          stopped  \* the timers somebody stopped since they were last set going
timerVars == <<timers, screen, moment, stopped>>

NoTimer == [here |-> FALSE, duration |-> 0, ends |-> 0, paused |-> FALSE, left |-> 0, silenced |-> FALSE]

ClampDuration(n) == IF n > Longest THEN Longest ELSE n
PositiveOr0(n) == IF n > 0 THEN n ELSE 0

Remaining(t, now) == IF t.paused THEN t.left ELSE PositiveOr0(t.ends - now)

\* A finished timer that was silenced is done, and stays in the list.
State(t, now) ==
    IF t.paused THEN "paused"
    ELSE IF Remaining(t, now) > 0 THEN "running"
    ELSE IF t.silenced THEN "done" ELSE "ringing"

In(ts, state, now) == {i \in TimerIds : ts[i].here /\ State(ts[i], now) = state}
ActiveTimers == {i \in TimerIds : timers[i].here /\ State(timers[i], moment) # "done"}

-----------------------------------------------------------------------------
(* What the buttons make of a timer.                                       *)

NewTimer(d, now) ==
    [NoTimer EXCEPT !.here = TRUE, !.duration = ClampDuration(d), !.ends = now + ClampDuration(d)]

Paused(t, now) ==
    IF t.paused \/ Remaining(t, now) = 0 THEN t
    ELSE [t EXCEPT !.paused = TRUE, !.left = Remaining(t, now)]

Resumed(t, now) ==
    IF ~t.paused THEN t ELSE [t EXCEPT !.paused = FALSE, !.left = 0, !.ends = now + t.left]

Silenced(t) == [t EXCEPT !.silenced = TRUE, !.paused = FALSE, !.left = 0]

Restarted(t, now) ==
    [t EXCEPT !.ends = now + ClampDuration(t.duration), !.paused = FALSE, !.left = 0, !.silenced = FALSE]

\* A mutant of the next: the alarm stays dealt with.
StillSilenced(t, more, now) ==
    LET next == ClampDuration(Remaining(t, now) + more)
    IN  IF t.paused THEN [t EXCEPT !.left = next] ELSE [t EXCEPT !.ends = now + next, !.left = 0]

\* More time; on one that is sounding it also takes the alarm back.
AddTime(t, more, now) ==
    LET next == ClampDuration(Remaining(t, now) + more)
    IN  IF t.paused THEN [t EXCEPT !.left = next, !.silenced = FALSE]
        ELSE [t EXCEPT !.ends = now + next, !.left = 0, !.silenced = FALSE]

-----------------------------------------------------------------------------
(* The screen.                                                             *)

\* It looks: whether something rings, and when to look again.
Look(ts, now) ==
    LET running == {ts[i].ends : i \in In(ts, "running", now)}
    IN  [sounding |-> In(ts, "ringing", now) # {},
         wake |-> IF running = {} THEN 0 ELSE Min(running)]

TimersTypeOK ==
    /\ timers \in [TimerIds -> [here : BOOLEAN, duration : 0..Longest, ends : 0..(Until + Longest),
                                paused : BOOLEAN, left : 0..Longest, silenced : BOOLEAN]]
    /\ screen \in [sounding : BOOLEAN, wake : 0..(Until + Longest)]
    /\ moment \in 0..Until /\ stopped \subseteq TimerIds

TimersInit ==
    /\ timers = [i \in TimerIds |-> NoTimer]
    /\ screen = [sounding |-> FALSE, wake |-> 0]
    /\ moment = 0 /\ stopped = {}

\* An update of the document draws the screen again.
Update(ts) ==
    /\ timers' = ts
    /\ screen' = Look(ts, moment)
    /\ UNCHANGED moment

\* Set by a button or by a voice.
SetTimer(i) ==
    /\ ~timers[i].here
    /\ \E d \in 1..(Longest + 1) : Update([timers EXCEPT ![i] = NewTimer(d, moment)])
    /\ stopped' = stopped \ {i}

PauseTimer(i) ==
    /\ i \in ActiveTimers /\ State(timers[i], moment) # "paused"
    /\ Update([timers EXCEPT ![i] = Paused(@, moment)])
    /\ UNCHANGED stopped

ResumeTimer(i) ==
    /\ State(timers[i], moment) = "paused"
    /\ Update([timers EXCEPT ![i] = Resumed(@, moment)])
    /\ UNCHANGED stopped

ExtendTimer(i) ==
    /\ i \in ActiveTimers
    /\ Update([timers EXCEPT ![i] = AddTime(@, 1, moment)])
    /\ stopped' = stopped \ {i}

RestartTimer(i) ==
    /\ i \in ActiveTimers
    /\ Update([timers EXCEPT ![i] = Restarted(@, moment)])
    /\ stopped' = stopped \ {i}

DropTimer(i) ==
    /\ i \in ActiveTimers
    /\ Update([timers EXCEPT ![i] = NoTimer])
    /\ stopped' = stopped \ {i}

\* The longest-overdue of those that ring, from the alarm.
StopAlarm ==
    \E i \in In(timers, "ringing", moment) :
        /\ \A j \in In(timers, "ringing", moment) : timers[i].ends <= timers[j].ends
        /\ Update([timers EXCEPT ![i] = Silenced(@)])
        /\ stopped' = stopped \cup {i}

\* "Stop" reaches one that is named, or one that rings, or all of them: also those
\* that still run or are paused, which then count on in silence.
StopByVoice ==
    \E heard \in {ActiveTimers} \cup {{i} : i \in ActiveTimers} :
        /\ heard # {}
        /\ Update([i \in TimerIds |-> IF i \in heard THEN Silenced(timers[i]) ELSE timers[i]])
        /\ stopped' = stopped \cup heard

\* Time passes, and the screen wakes when the soonest has run out.
TimePasses ==
    /\ moment < Until /\ moment' = moment + 1
    /\ screen' = IF screen.wake = moment + 1 THEN Look(timers, moment + 1) ELSE screen
    /\ UNCHANGED <<timers, stopped>>

TimersNext ==
    \/ \E i \in TimerIds :
          SetTimer(i) \/ PauseTimer(i) \/ ResumeTimer(i) \/ ExtendTimer(i) \/ RestartTimer(i) \/ DropTimer(i)
    \/ StopAlarm \/ StopByVoice \/ TimePasses

TimersSpec == TimersInit /\ [][TimersNext]_timerVars

\* A timer that has run out is sounding, unless somebody stopped it since it was last
\* set going or given more time (timers.js:145, to finish in silence is "the one failure
\* a timer must not have").
NoSilentFinish ==
    \A i \in TimerIds :
        timers[i].here /\ ~timers[i].paused /\ timers[i].ends <= moment /\ i \notin stopped
            => screen.sounding

=============================================================================

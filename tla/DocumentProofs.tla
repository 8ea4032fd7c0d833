--------------------------- MODULE DocumentProofs ----------------------------
(***************************************************************************)
(* What is proved of the document on a screen: that no timer finishes in   *)
(* silence, that a merge keeps what it merges, that a day planned for a    *)
(* project is shown, that nothing falls out of sight, that an evening adds *)
(* up, that an import only adds and that what is written stands.  One      *)
(* section for each component, in which its invariant is stated and shown  *)
(* inductive.                                                              *)
(***************************************************************************)
EXTENDS Timers, DocumentMerge, Projects, Shelves, Nightly, ListsAndMeals,
        FiniteSetTheorems, TLAPS, WellFoundedInduction

(***************************************************************************)
(* No timer finishes in silence, for any number of timers, any longest     *)
(* duration and however long one looks (Timers).                           *)
(*                                                                         *)
(* The screen only looks when the document changes and when the soonest    *)
(* end has come, so what has to be kept is that it sleeps no longer than   *)
(* that: Awake.  That is so after every look (LookIsRight), and it is all  *)
(* that the passing of time needs.                                         *)
(***************************************************************************)
Timer == [here : BOOLEAN, duration : 0..Longest, ends : 0..(Until + Longest),
          paused : BOOLEAN, left : 0..Longest, silenced : BOOLEAN]

\* A screen that sounds for whatever has run out, and looks again in time for the rest.
RightFor(s, ts, now) ==
    \A i \in TimerIds : ts[i].here /\ ~ts[i].paused =>
        /\ ts[i].ends <= now /\ ~ts[i].silenced => s.sounding
        /\ ts[i].ends > now => s.wake > now /\ s.wake <= ts[i].ends

Awake == RightFor(screen, timers, moment)

\* Nobody but a person makes a timer silent.
SilencedByHand == \A i \in TimerIds : timers[i].here /\ timers[i].silenced => i \in stopped

\* No timer ends later than the longest one that could be set now.
InReach(now) == {t \in Timer : t.ends <= now + Longest}

TimersInv ==
    /\ TimersTypeOK /\ timers \in [TimerIds -> InReach(moment)]
    /\ Awake /\ SilencedByHand

-----------------------------------------------------------------------------
(* What a look does.                                                       *)

\* A set of moments has a first one.
LEMMA FirstExists ==
    ASSUME NEW T \in SUBSET Nat, T # {}
    PROVE  \E x \in T : \A y \in T : x <= y
<1> DEFINE Before == {ss \in Nat \X Nat : ss[1] < ss[2]}
<1>1. IsWellFoundedOn(Before, Nat)
  BY NatLessThanWellFounded DEF OpToRel
<1> HIDE DEF Before
<1>2. PICK x \in T : \A y \in T : ~(<<y, x>> \in Before)
  BY <1>1, WFMin
<1>3. \A y \in T : ~(y < x)
  BY <1>2 DEF Before
<1> QED BY <1>3

\* The minimum of a set of moments is in it, and none is before it.
LEMMA MinIsFirst ==
    ASSUME NEW T \in SUBSET Nat, T # {}
    PROVE  Min(T) \in T /\ \A y \in T : Min(T) <= y
<1>1. \E x \in T : \A y \in T : x <= y
  BY FirstExists
<1> QED BY <1>1 DEF Min

\* What a timer is taken for is what its fields say.
LEMMA StateIs ==
    ASSUME NEW t \in Timer, NEW now \in Nat
    PROVE  /\ State(t, now) = "running" <=> ~t.paused /\ t.ends > now
           /\ State(t, now) = "ringing" <=> ~t.paused /\ t.ends <= now /\ ~t.silenced
           /\ State(t, now) = "paused" <=> t.paused
BY TimersAssumption DEF State, Remaining, PositiveOr0, Timer

\* Whatever the document holds, a look leaves the screen as it should be.
LEMMA LookIsRight ==
    ASSUME NEW ts \in [TimerIds -> Timer], NEW now \in Nat
    PROVE  /\ RightFor(Look(ts, now), ts, now)
           /\ Look(ts, now) \in [sounding : BOOLEAN, wake : 0..(Until + Longest)]
<1> DEFINE running == {ts[i].ends : i \in In(ts, "running", now)}
           look == Look(ts, now)
<1>1. /\ look.sounding = (In(ts, "ringing", now) # {})
      /\ look.wake = IF running = {} THEN 0 ELSE Min(running)
      /\ look = [sounding |-> look.sounding, wake |-> look.wake]
  BY DEF Look
<1>2. \A i \in TimerIds : ts[i] \in Timer
  OBVIOUS
<1>3. running \in SUBSET (0..(Until + Longest))
  BY <1>2 DEF In, Timer
<1>4. 0..(Until + Longest) \subseteq Nat /\ 0 \in 0..(Until + Longest)
  BY TimersAssumption
<1>5. running # {} => Min(running) \in running /\ \A e \in running : Min(running) <= e
  BY <1>3, <1>4, MinIsFirst
<1>6. look.wake \in 0..(Until + Longest)
  BY <1>1, <1>3, <1>4, <1>5
<1>7. \A e \in running : e > now
  BY <1>2, StateIs DEF In
<1>8. ASSUME NEW i \in TimerIds, ts[i].here, ~ts[i].paused
      PROVE  /\ ts[i].ends <= now /\ ~ts[i].silenced => look.sounding
             /\ ts[i].ends > now => look.wake > now /\ look.wake <= ts[i].ends
  <2>1. ASSUME ts[i].ends <= now, ~ts[i].silenced PROVE look.sounding
    <3>1. i \in In(ts, "ringing", now)
      BY <1>2, <1>8, <2>1, StateIs DEF In
    <3> QED BY <3>1, <1>1
  <2>2. ASSUME ts[i].ends > now PROVE look.wake > now /\ look.wake <= ts[i].ends
    <3>1. i \in In(ts, "running", now)
      BY <1>2, <1>8, <2>2, StateIs DEF In
    <3>2. ts[i].ends \in running
      BY <3>1
    <3>3. look.wake = Min(running)
      BY <3>2, <1>1
    <3> QED BY <3>2, <3>3, <1>5, <1>7
  <2> QED BY <2>1, <2>2
<1> HIDE DEF look
<1>9. RightFor(look, ts, now)
  BY <1>8 DEF RightFor
<1>10. look.sounding \in BOOLEAN
  BY <1>1
<1>11. look \in [sounding : BOOLEAN, wake : 0..(Until + Longest)]
  BY <1>1, <1>6, <1>10
<1> QED BY <1>9, <1>11 DEF look

-----------------------------------------------------------------------------
(* What the buttons make of a timer is a timer.                            *)

LEMMA TimersClampIs ==
    ASSUME NEW n \in Nat
    PROVE  ClampDuration(n) \in 0..Longest
BY TimersAssumption DEF ClampDuration

\* One field changed at a time.
LEMMA FieldChanges ==
    ASSUME NEW now \in 0..Until, NEW t \in InReach(now)
    PROVE  /\ \A yes \in BOOLEAN : /\ [t EXCEPT !.here = yes] \in InReach(now)
                                  /\ [t EXCEPT !.paused = yes] \in InReach(now)
                                  /\ [t EXCEPT !.silenced = yes] \in InReach(now)
           /\ \A n \in 0..Longest : /\ [t EXCEPT !.duration = n] \in InReach(now)
                                   /\ [t EXCEPT !.left = n] \in InReach(now)
           /\ \A e \in 0..(now + Longest) : [t EXCEPT !.ends = e] \in InReach(now)
<1>1. \A e \in 0..(now + Longest) : e \in 0..(Until + Longest) /\ e <= now + Longest
  BY TimersAssumption
<1>2. \A e \in 0..(now + Longest) : [t EXCEPT !.ends = e] \in InReach(now)
  BY <1>1 DEF InReach, Timer
<1> QED BY <1>2 DEF InReach, Timer

LEMMA ButtonsMakeTimers ==
    ASSUME NEW now \in 0..Until, NEW t \in InReach(now), NEW d \in Nat
    PROVE  /\ NewTimer(d, now) \in InReach(now) /\ ~NewTimer(d, now).silenced
           /\ Paused(t, now) \in InReach(now) /\ Paused(t, now).silenced = t.silenced
           /\ Resumed(t, now) \in InReach(now) /\ Resumed(t, now).silenced = t.silenced
           /\ Silenced(t) \in InReach(now)
           /\ Restarted(t, now) \in InReach(now) /\ ~Restarted(t, now).silenced
           /\ AddTime(t, d, now) \in InReach(now) /\ ~AddTime(t, d, now).silenced
           /\ NoTimer \in InReach(now) /\ ~NoTimer.here
<1> USE TimersAssumption
<1>1. /\ t.here \in BOOLEAN /\ t.paused \in BOOLEAN /\ t.silenced \in BOOLEAN
      /\ t.duration \in 0..Longest /\ t.left \in 0..Longest
      /\ t.ends \in 0..(Until + Longest) /\ t.ends <= now + Longest
  BY DEF InReach, Timer
<1>2. Remaining(t, now) \in 0..Longest
  BY <1>1 DEF Remaining, PositiveOr0
<1>3. /\ ClampDuration(d) \in 0..Longest /\ ClampDuration(t.duration) \in 0..Longest
      /\ ClampDuration(Remaining(t, now) + d) \in 0..Longest
  BY <1>1, <1>2, TimersClampIs
<1>4. NoTimer \in InReach(now) /\ ~NoTimer.here
  BY DEF NoTimer, InReach, Timer
<1>5. NewTimer(d, now) \in InReach(now) /\ ~NewTimer(d, now).silenced
  <2> DEFINE u == [NoTimer EXCEPT !.here = TRUE]
             v == [u EXCEPT !.duration = ClampDuration(d)]
  <2>1. now + ClampDuration(d) \in 0..(now + Longest)
    BY <1>3
  <2>2. u \in InReach(now)
    BY <1>4, FieldChanges
  <2>3. v \in InReach(now)
    BY <2>2, <1>3, FieldChanges
  <2>4. [v EXCEPT !.ends = now + ClampDuration(d)] \in InReach(now)
    BY <2>1, <2>3, FieldChanges
  <2> QED BY <2>4 DEF NewTimer, NoTimer
<1>6. Paused(t, now) \in InReach(now) /\ Paused(t, now).silenced = t.silenced
  BY <1>1, <1>2 DEF Paused, InReach, Timer
<1>7. Resumed(t, now) \in InReach(now) /\ Resumed(t, now).silenced = t.silenced
  <2> DEFINE u == [t EXCEPT !.paused = FALSE]
             v == [u EXCEPT !.left = 0]
  <2>1. now + t.left \in 0..(now + Longest) /\ 0 \in 0..Longest
    BY <1>1
  <2>2. u \in InReach(now)
    BY FieldChanges
  <2>3. v \in InReach(now)
    BY <2>1, <2>2, FieldChanges
  <2>4. [v EXCEPT !.ends = now + t.left] \in InReach(now)
    BY <2>1, <2>3, FieldChanges
  <2>5. CASE t.paused
    <3>1. Resumed(t, now) = [v EXCEPT !.ends = now + t.left]
      BY <2>5 DEF Resumed
    <3>2. [v EXCEPT !.ends = now + t.left].silenced = t.silenced
      BY <1>1
    <3> QED BY <2>4, <3>1, <3>2
  <2>6. CASE ~t.paused
    BY <2>6 DEF Resumed
  <2> QED BY <2>5, <2>6
<1>8. Silenced(t) \in InReach(now)
  <2> DEFINE u == [t EXCEPT !.silenced = TRUE]
             v == [u EXCEPT !.paused = FALSE]
  <2>1. u \in InReach(now)
    BY FieldChanges
  <2>2. v \in InReach(now)
    BY <2>1, FieldChanges
  <2>3. 0 \in 0..Longest
    OBVIOUS
  <2>4. [v EXCEPT !.left = 0] \in InReach(now)
    BY <2>2, <2>3, FieldChanges
  <2> QED BY <2>4 DEF Silenced
<1>9. Restarted(t, now) \in InReach(now) /\ ~Restarted(t, now).silenced
  <2> DEFINE u == [t EXCEPT !.ends = now + ClampDuration(t.duration)]
             v == [u EXCEPT !.paused = FALSE]
             w == [v EXCEPT !.left = 0]
  <2>1. now + ClampDuration(t.duration) \in 0..(now + Longest) /\ 0 \in 0..Longest
    BY <1>3
  <2>2. u \in InReach(now)
    BY <2>1, FieldChanges
  <2>3. v \in InReach(now)
    BY <2>2, FieldChanges
  <2>4. w \in InReach(now)
    BY <2>1, <2>3, FieldChanges
  <2>5. [w EXCEPT !.silenced = FALSE] \in InReach(now)
    BY <2>4, FieldChanges
  <2>6. ~Restarted(t, now).silenced
    BY <1>1 DEF Restarted
  <2> QED BY <2>5, <2>6 DEF Restarted
<1>10. AddTime(t, d, now) \in InReach(now) /\ ~AddTime(t, d, now).silenced
  <2> DEFINE next == ClampDuration(Remaining(t, now) + d)
             kept == [t EXCEPT !.left = next]
             u == [t EXCEPT !.ends = now + next]
             v == [u EXCEPT !.left = 0]
  <2>1. now + next \in 0..(now + Longest) /\ 0 \in 0..Longest /\ next \in 0..Longest
    BY <1>3
  <2> HIDE DEF next
  <2>2. kept \in InReach(now) /\ u \in InReach(now)
    BY <2>1, FieldChanges
  <2>3. v \in InReach(now)
    BY <2>1, <2>2, FieldChanges
  <2>4. [kept EXCEPT !.silenced = FALSE] \in InReach(now) /\ [v EXCEPT !.silenced = FALSE] \in InReach(now)
    BY <2>2, <2>3, FieldChanges
  <2>5. AddTime(t, d, now) = IF t.paused THEN [kept EXCEPT !.silenced = FALSE] ELSE [v EXCEPT !.silenced = FALSE]
    BY DEF AddTime, next
  <2>6. ~[kept EXCEPT !.silenced = FALSE].silenced /\ ~[v EXCEPT !.silenced = FALSE].silenced
    BY <1>1
  <2> QED BY <2>4, <2>5, <2>6
<1> QED BY <1>4, <1>5, <1>6, <1>7, <1>8, <1>9, <1>10

-----------------------------------------------------------------------------
(* The steps.                                                              *)

\* A change of the document, seen by the screen, keeps everything as long as whoever is
\* silent was stopped.
LEMMA UpdateKeeps ==
    ASSUME TimersInv, NEW ts \in [TimerIds -> InReach(moment)], Update(ts), stopped' \subseteq TimerIds,
           \A i \in TimerIds : ts[i].here /\ ts[i].silenced => i \in stopped'
    PROVE  TimersInv'
<1>1. moment \in 0..Until /\ moment \in Nat /\ moment' = moment /\ timers' = ts /\ screen' = Look(ts, moment)
  BY TimersAssumption DEF TimersInv, TimersTypeOK, Update
<1>2. ts \in [TimerIds -> Timer]
  BY DEF InReach
<1>3. RightFor(screen', timers', moment') /\ screen' \in [sounding : BOOLEAN, wake : 0..(Until + Longest)]
  BY <1>1, <1>2, LookIsRight
<1>4. TimersTypeOK' /\ (timers \in [TimerIds -> InReach(moment)])'
  BY <1>1, <1>2, <1>3 DEF TimersTypeOK, Timer
<1> QED BY <1>1, <1>3, <1>4 DEF TimersInv, Awake, SilencedByHand

\* One timer is changed.
LEMMA OneUpdateKeeps ==
    ASSUME TimersInv, NEW i \in TimerIds, NEW t \in InReach(moment), Update([timers EXCEPT ![i] = t]),
           stopped' \in {stopped, stopped \ {i}, stopped \cup {i}},
           t.here /\ t.silenced => i \in stopped'
    PROVE  TimersInv'
<1>1. timers \in [TimerIds -> InReach(moment)] /\ stopped \subseteq TimerIds /\ SilencedByHand
  BY DEF TimersInv, TimersTypeOK
<1>2. [timers EXCEPT ![i] = t] \in [TimerIds -> InReach(moment)]
  BY <1>1
<1>3. \A j \in TimerIds : [timers EXCEPT ![i] = t][j].here /\ [timers EXCEPT ![i] = t][j].silenced => j \in stopped'
  BY <1>1 DEF SilencedByHand
<1> QED BY <1>1, <1>2, <1>3, UpdateKeeps

\* Time passes: a screen that does not wake has nothing new to say.
LEMMA TimePassesKeeps ==
    ASSUME TimersInv, TimePasses
    PROVE  TimersInv'
<1> USE TimersAssumption
<1>1. /\ moment \in Nat /\ moment' = moment + 1 /\ moment' \in 0..Until /\ moment' \in Nat
      /\ timers' = timers /\ stopped' = stopped
      /\ screen' = IF screen.wake = moment' THEN Look(timers, moment') ELSE screen
  BY DEF TimersInv, TimersTypeOK, TimePasses
<1>2. timers \in [TimerIds -> Timer] /\ screen \in [sounding : BOOLEAN, wake : 0..(Until + Longest)]
  BY DEF TimersInv, TimersTypeOK, Timer
<1>3. RightFor(screen', timers', moment') /\ screen' \in [sounding : BOOLEAN, wake : 0..(Until + Longest)]
  <2>1. CASE screen.wake = moment'
    BY <2>1, <1>1, <1>2, LookIsRight
  <2>2. CASE screen.wake # moment'
    <3>1. screen' = screen
      BY <2>2, <1>1
    <3>2. ASSUME NEW i \in TimerIds, timers[i].here, ~timers[i].paused
          PROVE  /\ timers[i].ends <= moment' /\ ~timers[i].silenced => screen.sounding
                 /\ timers[i].ends > moment' => screen.wake > moment' /\ screen.wake <= timers[i].ends
      <4>1. timers[i].ends \in Nat /\ screen.wake \in Nat
        BY <1>2 DEF Timer
      <4>2. /\ timers[i].ends <= moment /\ ~timers[i].silenced => screen.sounding
            /\ timers[i].ends > moment => screen.wake > moment /\ screen.wake <= timers[i].ends
        BY <3>2 DEF TimersInv, Awake, RightFor
      <4> QED BY <4>1, <4>2, <2>2, <1>1
    <3> QED BY <3>1, <3>2, <1>1, <1>2 DEF RightFor
  <2> QED BY <2>1, <2>2
<1>4. (timers \in [TimerIds -> InReach(moment)])'
  <2>1. \A t \in InReach(moment) : t \in InReach(moment + 1)
    BY <1>1 DEF InReach, Timer
  <2> QED BY <2>1, <1>1 DEF TimersInv
<1>5. TimersTypeOK'
  BY <1>1, <1>3 DEF TimersInv, TimersTypeOK
<1>6. SilencedByHand'
  BY <1>1 DEF TimersInv, SilencedByHand
<1> QED BY <1>1, <1>3, <1>4, <1>5, <1>6 DEF TimersInv, Awake

-----------------------------------------------------------------------------

LEMMA TimersInitially == TimersInit => TimersInv
<1> SUFFICES ASSUME TimersInit PROVE TimersInv OBVIOUS
<1>1. NoTimer \in InReach(0) /\ ~NoTimer.here
  BY TimersAssumption DEF NoTimer, InReach, Timer
<1>2. moment = 0 /\ stopped = {} /\ timers \in [TimerIds -> InReach(0)]
      /\ screen \in [sounding : BOOLEAN, wake : 0..(Until + Longest)]
      /\ \A i \in TimerIds : ~timers[i].here
  BY <1>1, TimersAssumption DEF TimersInit
<1>3. TimersTypeOK
  BY <1>2, TimersAssumption DEF TimersTypeOK, InReach, Timer
<1> QED BY <1>2, <1>3 DEF TimersInv, Awake, RightFor, SilencedByHand

LEMMA TimersStep == TimersInv /\ [TimersNext]_timerVars => TimersInv'
<1> SUFFICES ASSUME TimersInv, [TimersNext]_timerVars PROVE TimersInv' OBVIOUS
<1>1. moment \in 0..Until /\ timers \in [TimerIds -> InReach(moment)] /\ SilencedByHand /\ stopped \subseteq TimerIds
  BY DEF TimersInv, TimersTypeOK
<1>2. 1 \in Nat /\ 1..(Longest + 1) \subseteq Nat
  BY TimersAssumption
<1>3. ASSUME NEW i \in TimerIds, SetTimer(i) PROVE TimersInv'
  <2>1. PICK d \in 1..(Longest + 1) : Update([timers EXCEPT ![i] = NewTimer(d, moment)])
    BY <1>3 DEF SetTimer
  <2>2. d \in Nat /\ timers[i] \in InReach(moment)
    BY <1>1, <1>2
  <2>3. NewTimer(d, moment) \in InReach(moment) /\ ~NewTimer(d, moment).silenced
    BY <2>2, <1>1, ButtonsMakeTimers
  <2>4. stopped' \in {stopped, stopped \ {i}, stopped \cup {i}}
    BY <1>3 DEF SetTimer
  <2> HIDE DEF NewTimer
  <2> QED BY <2>1, <2>3, <2>4, OneUpdateKeeps
<1>4. ASSUME NEW i \in TimerIds, PauseTimer(i) PROVE TimersInv'
  <2>1. timers[i].here
    BY <1>4 DEF PauseTimer, ActiveTimers
  <2>2. timers[i].silenced => i \in stopped
    BY <2>1, <1>1 DEF SilencedByHand
  <2> QED BY <2>2, <1>1, <1>2, <1>4, ButtonsMakeTimers, OneUpdateKeeps DEF PauseTimer
<1>5. ASSUME NEW i \in TimerIds, ResumeTimer(i) PROVE TimersInv'
  <2>1. Resumed(timers[i], moment).here = timers[i].here
    BY <1>1 DEF Resumed, InReach, Timer
  <2>2. timers[i].here /\ timers[i].silenced => i \in stopped
    BY <1>1 DEF SilencedByHand
  <2> QED BY <2>1, <2>2, <1>1, <1>2, <1>5, ButtonsMakeTimers, OneUpdateKeeps DEF ResumeTimer
<1>6. ASSUME NEW i \in TimerIds, ExtendTimer(i) PROVE TimersInv'
  BY <1>1, <1>2, <1>6, ButtonsMakeTimers, OneUpdateKeeps DEF ExtendTimer
<1>7. ASSUME NEW i \in TimerIds, RestartTimer(i) PROVE TimersInv'
  BY <1>1, <1>2, <1>7, ButtonsMakeTimers, OneUpdateKeeps DEF RestartTimer
<1>8. ASSUME NEW i \in TimerIds, DropTimer(i) PROVE TimersInv'
  BY <1>1, <1>2, <1>8, ButtonsMakeTimers, OneUpdateKeeps DEF DropTimer
<1>9. ASSUME StopAlarm PROVE TimersInv'
  <2>1. PICK i \in TimerIds : Update([timers EXCEPT ![i] = Silenced(timers[i])]) /\ stopped' = stopped \cup {i}
    BY <1>9 DEF StopAlarm, In
  <2> QED BY <2>1, <1>1, <1>2, ButtonsMakeTimers, OneUpdateKeeps
<1>10. ASSUME StopByVoice PROVE TimersInv'
  <2>1. PICK heard \in SUBSET TimerIds :
           /\ Update([i \in TimerIds |-> IF i \in heard THEN Silenced(timers[i]) ELSE timers[i]])
           /\ stopped' = stopped \cup heard
    <3>1. \A heard \in {ActiveTimers} \cup {{i} : i \in ActiveTimers} : heard \in SUBSET TimerIds
      BY DEF ActiveTimers
    <3> QED BY <3>1, <1>10 DEF StopByVoice
  <2> DEFINE ts == [i \in TimerIds |-> IF i \in heard THEN Silenced(timers[i]) ELSE timers[i]]
  <2>2. ts \in [TimerIds -> InReach(moment)]
    BY <1>1, <1>2, ButtonsMakeTimers
  <2>3. \A i \in TimerIds : ts[i].here /\ ts[i].silenced => i \in stopped'
    BY <2>1, <1>1 DEF SilencedByHand
  <2>4. stopped' \subseteq TimerIds
    BY <2>1, <1>1
  <2> HIDE DEF ts
  <2> QED BY <2>1, <2>2, <2>3, <2>4, UpdateKeeps DEF ts
<1>11. CASE TimePasses
  BY <1>11, TimePassesKeeps
<1>12. CASE UNCHANGED timerVars
  BY <1>12 DEF timerVars, TimersInv, TimersTypeOK, Awake, RightFor, SilencedByHand
<1> QED BY <1>3, <1>4, <1>5, <1>6, <1>7, <1>8, <1>9, <1>10, <1>11, <1>12 DEF TimersNext

\* A timer that has run out is sounding, unless somebody stopped it since it was last set
\* going or given more time: in every behaviour (web/src/lib/timers.js:140-160, and the
\* screen that wakes for the soonest end, web/src/components/TimersPanel.jsx).
THEOREM NoTimerFinishesInSilence == TimersSpec => []NoSilentFinish
<1>1. TimersInv => NoSilentFinish
  BY DEF TimersInv, Awake, RightFor, SilencedByHand, NoSilentFinish
<1> QED BY TimersInitially, TimersStep, <1>1, PTL DEF TimersSpec

------------------------------------------------------------------------------
(***************************************************************************)
(* Merging loses nothing that was written here to what it merges, and no   *)
(* row of the document merged with last, for any number of devices, parts  *)
(* and edits (DocumentMerge).                                              *)
(*                                                                         *)
(* A save may go through many conflicts before it is accepted.  What holds *)
(* of it throughout is that it still says what was written on its device   *)
(* (Owns), and that it has everything of the stored document if that is    *)
(* still the one it was merged with (Overs); each merge keeps the first    *)
(* and renews the second.                                                  *)
(***************************************************************************)
Owns ==
    \A d \in Phones : \A p \in save[d].touched \ Leftover :
        save[d].own[p] # Gone => save[d].doc[p] = save[d].own[p]

Overs ==
    \A d \in Phones :
        /\ save[d].over <= shared.version
        /\ save[d].going /\ save[d].over = shared.version
           => /\ \A p \in Keyed : shared.doc[p] # Gone => save[d].doc[p] # Gone
              /\ \A p \in Leftover : save[d].doc[p] = shared.doc[p]

MergeInv == MergeTypeOK /\ shared.version > 0 /\ Owns /\ Overs

-----------------------------------------------------------------------------
(* Documents.                                                              *)

LEMMA ContentsAre == Gone \in Contents /\ AsItWas \in Contents /\ Contents \subseteq Nat
BY MergeAssumption DEF Contents, Gone, AsItWas

LEMMA NoSaveIs ==
    /\ NoSave \in [going : BOOLEAN, doc : Documents, own : Documents, touched : SUBSET Parts, over : Nat]
    /\ ~NoSave.going /\ NoSave.touched = {} /\ NoSave.over = 0
BY ContentsAre DEF NoSave, Documents

\* A merge gives a document, which says what mine says of every part that is there and
\* is not left to them, and has every row that theirs has.
LEMMA MergedIs ==
    ASSUME NEW mine \in Documents, NEW theirs \in Documents
    PROVE  /\ Merged(mine, theirs) \in Documents
           /\ \A p \in Parts \ Leftover : mine[p] # Gone => Merged(mine, theirs)[p] = mine[p]
           /\ \A p \in Keyed : theirs[p] # Gone => Merged(mine, theirs)[p] # Gone
           /\ \A p \in Leftover : Merged(mine, theirs)[p] = theirs[p]
BY DEF Merged, Documents, Parts

LEMMA StoredIs ==
    ASSUME NEW work \in Works, NEW s
    PROVE  Stored(work, s) \in Works
BY DEF Stored, Work, Works

-----------------------------------------------------------------------------
(* The steps.                                                              *)

LEMMA EditKeeps ==
    ASSUME MergeInv, NEW d \in Phones, NEW p \in Parts, Edit(d, p)
    PROVE  MergeInv'
<1>1. PICK says \in {edits' + 1} \cup {g \in {Gone} : p \in Keyed /\ shown[d].doc[p] # g} :
          shown' = [shown EXCEPT ![d] = Work([@.doc EXCEPT ![p] = says], @.touched \cup {p})]
  BY DEF Edit
<1>2. edits' \in 0 .. LastEdit /\ edits' + 1 \in Contents
  BY MergeAssumption DEF Edit, MergeInv, MergeTypeOK, Contents
<1>3. says \in Contents
  BY <1>1, <1>2, ContentsAre
<1>4. Work([shown[d].doc EXCEPT ![p] = says], shown[d].touched \cup {p}) \in Works
  BY <1>3 DEF MergeInv, MergeTypeOK, Work, Works, Documents
<1>5. shown' \in [Phones -> Works]
  BY <1>1, <1>4 DEF MergeInv, MergeTypeOK
<1>6. latest' \in [Phones -> Works] /\ unsaved' \in [Phones -> BOOLEAN] /\ armed' \in [Phones -> BOOLEAN]
  BY <1>5 DEF Edit, MergeInv, MergeTypeOK
<1> QED BY <1>2, <1>5, <1>6 DEF Edit, MergeInv, MergeTypeOK, Owns, Overs

LEMMA FlushKeeps ==
    ASSUME MergeInv, NEW d \in Phones, Flush(d)
    PROVE  MergeInv'
<1> DEFINE begun == [going |-> TRUE, doc |-> latest[d].doc, own |-> latest[d].doc,
                     touched |-> latest[d].touched, over |-> 0]
<1>1. begun \in [going : BOOLEAN, doc : Documents, own : Documents, touched : SUBSET Parts, over : Nat]
  BY DEF MergeInv, MergeTypeOK, Works
<1>2. begun.own = begun.doc /\ begun.over = 0
  OBVIOUS
<1> HIDE DEF begun
<1>3. save' = [save EXCEPT ![d] = begun]
  BY DEF Flush, begun
<1>4. UNCHANGED <<shared, shown, latest, at, unsaved, edits>> /\ armed' \in [Phones -> BOOLEAN]
  BY DEF Flush, MergeInv, MergeTypeOK
<1>5. MergeTypeOK'
  BY <1>1, <1>3, <1>4 DEF MergeInv, MergeTypeOK
<1>6. Owns'
  BY <1>2, <1>3 DEF MergeInv, MergeTypeOK, Owns
<1>7. Overs'
  BY <1>2, <1>3, <1>4 DEF MergeInv, MergeTypeOK, Overs
<1> QED BY <1>4, <1>5, <1>6, <1>7 DEF MergeInv

LEMMA PutAcceptedKeeps ==
    ASSUME MergeInv, NEW d \in Phones, PutAccepted(d)
    PROVE  MergeInv'
<1>1. shared' = [version |-> shared.version + 1, doc |-> save[d].doc]
      /\ save' = [save EXCEPT ![d] = NoSave] /\ UNCHANGED <<armed, edits>>
  BY DEF PutAccepted
<1>2. shared' \in [version : Nat, doc : Documents] /\ shared'.version = shared.version + 1
  BY <1>1 DEF MergeInv, MergeTypeOK
<1>3. at' \in [Phones -> Nat] /\ unsaved' \in [Phones -> BOOLEAN]
  BY <1>2 DEF PutAccepted, MergeInv, MergeTypeOK
<1>4. shown' \in [Phones -> Works] /\ latest' \in [Phones -> Works]
  BY StoredIs DEF PutAccepted, MergeInv, MergeTypeOK
<1>5. MergeTypeOK'
  BY <1>1, <1>2, <1>3, <1>4, NoSaveIs DEF MergeInv, MergeTypeOK
<1>6. Owns'
  BY <1>1, NoSaveIs DEF MergeInv, MergeTypeOK, Owns
<1>7. \A e \in Phones : save'[e].over < shared'.version
  BY <1>1, <1>2, NoSaveIs DEF MergeInv, MergeTypeOK, Overs
<1>8. Overs'
  BY <1>2, <1>5, <1>7 DEF MergeTypeOK, Overs
<1> QED BY <1>2, <1>5, <1>6, <1>8 DEF MergeInv, MergeTypeOK

LEMMA PutConflictsKeeps ==
    ASSUME MergeInv, NEW d \in Phones, PutConflicts(d)
    PROVE  MergeInv'
<1> DEFINE merged == Merged(save[d].doc, shared.doc)
<1>1. save[d].doc \in Documents /\ shared.doc \in Documents
  BY DEF MergeInv, MergeTypeOK
<1>2. /\ merged \in Documents
      /\ \A p \in Parts \ Leftover : save[d].doc[p] # Gone => merged[p] = save[d].doc[p]
      /\ \A p \in Keyed : shared.doc[p] # Gone => merged[p] # Gone
      /\ \A p \in Leftover : merged[p] = shared.doc[p]
  BY <1>1, MergedIs
<1>3. save' = [save EXCEPT ![d].doc = merged, ![d].over = shared.version]
  BY DEF PutConflicts
<1>4. UNCHANGED <<shared, shown, latest, unsaved, armed, edits>> /\ at' \in [Phones -> Nat]
  BY DEF PutConflicts, MergeInv, MergeTypeOK
<1> HIDE DEF merged
<1>5. /\ save'[d].doc = merged /\ save'[d].over = shared.version
      /\ save'[d].own = save[d].own /\ save'[d].touched = save[d].touched
      /\ \A e \in Phones \ {d} : save'[e] = save[e]
  BY <1>3 DEF MergeInv, MergeTypeOK
<1>6. MergeTypeOK'
  <2> DEFINE Saves == [going : BOOLEAN, doc : Documents, own : Documents, touched : SUBSET Parts, over : Nat]
             to == [save[d] EXCEPT !.doc = merged, !.over = shared.version]
  <2>1. save \in [Phones -> Saves] /\ shared.version \in Nat
    BY DEF MergeInv, MergeTypeOK
  <2>2. to \in Saves
    BY <1>2, <2>1
  <2>3. save' = [save EXCEPT ![d] = to]
    BY <1>3
  <2> HIDE DEF to
  <2>4. save' \in [Phones -> Saves]
    BY <2>1, <2>2, <2>3
  <2> QED BY <1>4, <2>4 DEF MergeInv, MergeTypeOK
<1>7. \A p \in save[d].touched \ Leftover :
          save[d].own[p] # Gone => merged[p] = save[d].own[p]
  BY <1>2 DEF MergeInv, MergeTypeOK, Owns
<1>8. Owns'
  BY <1>5, <1>7 DEF MergeInv, Owns
<1>9. Overs'
  BY <1>2, <1>4, <1>5 DEF MergeInv, MergeTypeOK, Overs
<1> QED BY <1>4, <1>6, <1>8, <1>9 DEF MergeInv

LEMMA PutFailsKeeps ==
    ASSUME MergeInv, NEW d \in Phones, PutFails(d)
    PROVE  MergeInv'
<1>1. save' = [save EXCEPT ![d] = NoSave] /\ UNCHANGED <<shared, shown, latest, at, unsaved, armed, edits>>
  BY DEF PutFails
<1> QED BY <1>1, NoSaveIs DEF MergeInv, MergeTypeOK, Owns, Overs

LEMMA PollKeeps ==
    ASSUME MergeInv, NEW d \in Phones, Poll(d)
    PROVE  MergeInv'
<1>1. Work(shared.doc, {}) \in Works
  BY DEF MergeInv, MergeTypeOK, Work, Works
<1>2. shown' \in [Phones -> Works] /\ at' \in [Phones -> Nat]
  BY <1>1 DEF Poll, MergeInv, MergeTypeOK
<1> QED BY <1>2 DEF Poll, MergeInv, MergeTypeOK, Owns, Overs

-----------------------------------------------------------------------------

LEMMA MergeInitially == MergeInit => MergeInv
<1> SUFFICES ASSUME MergeInit PROVE MergeInv OBVIOUS
<1>1. PICK there \in SUBSET Parts :
         LET first == [p \in Parts |-> IF p \in there THEN AsItWas ELSE Gone] IN
         /\ shared = [version |-> 1, doc |-> first]
         /\ shown = [d \in Phones |-> Work(first, {})] /\ latest = shown
         /\ at = [d \in Phones |-> 1]
         /\ unsaved = [d \in Phones |-> FALSE] /\ armed = unsaved
         /\ save = [d \in Phones |-> NoSave]
         /\ edits = 0
  BY DEF MergeInit
<1> DEFINE first == [p \in Parts |-> IF p \in there THEN AsItWas ELSE Gone]
<1>2. first \in Documents /\ Work(first, {}) \in Works
  BY ContentsAre DEF Documents, Work, Works
<1>3. MergeTypeOK
  BY <1>1, <1>2, NoSaveIs, MergeAssumption DEF MergeTypeOK
<1> QED BY <1>1, <1>3, NoSaveIs DEF MergeInv, Owns, Overs

LEMMA MergeStep == MergeInv /\ [MergeNext]_mergeVars => MergeInv'
<1> SUFFICES ASSUME MergeInv, [MergeNext]_mergeVars PROVE MergeInv' OBVIOUS
<1>1. ASSUME NEW d \in Phones, NEW p \in Parts, Edit(d, p) PROVE MergeInv'
  BY <1>1, EditKeeps
<1>2. ASSUME NEW d \in Phones, Flush(d) \/ PutAccepted(d) \/ PutConflicts(d) PROVE MergeInv'
  BY <1>2, FlushKeeps, PutAcceptedKeeps, PutConflictsKeeps
<1>3. ASSUME NEW d \in Phones, PutFails(d) \/ Poll(d) PROVE MergeInv'
  BY <1>3, PutFailsKeeps, PollKeeps
<1>4. CASE UNCHANGED mergeVars
  BY <1>4 DEF mergeVars, MergeInv, MergeTypeOK, Owns, Overs
<1> QED BY <1>1, <1>2, <1>3, <1>4 DEF MergeNext

\* However many merges a save goes through, it stores what was written on its device to the
\* lists, the days and the settings, drops no row of the document it was merged with last, and
\* leaves the rest as it is there (api.js:82-139, session.js:335-366).
THEOREM MergesKeepWhatTheyMerge == MergeSpec => MergesKeepData
<1>1. ASSUME MergeInv, NEW d \in Phones, PutAccepted(d)
      PROVE  OwnEditsStand(d) /\ (save[d].over = shared.version => NobodysRowsGo(d) /\ TheRestIsTheirs(d))
  <2>1. shared'.doc = save[d].doc /\ save[d].going
    BY <1>1 DEF PutAccepted
  <2> QED BY <1>1, <2>1 DEF MergeInv, Owns, Overs, OwnEditsStand, NobodysRowsGo, TheRestIsTheirs
<1>2. MergeInv => \A d \in Phones :
          PutAccepted(d) =>
              /\ OwnEditsStand(d)
              /\ save[d].over = shared.version => NobodysRowsGo(d) /\ TheRestIsTheirs(d)
  BY <1>1
<1> QED BY MergeInitially, MergeStep, <1>2, PTL DEF MergeSpec, MergesKeepData

------------------------------------------------------------------------------
(***************************************************************************)
(* A day chosen for a project is a day it shows up on, for any number of   *)
(* days, stages and drafts (Projects).                                     *)
(*                                                                         *)
(* A project that is asked about is open, so that with stages one of them  *)
(* is still to do: the share of the done ones rounds to a hundred only     *)
(* when all are (OpenHasSomeToDo).                                         *)
(***************************************************************************)
ProjectsSpec == ProjectsInit /\ [][ProjectsNext]_projectVars

ProjectRecord ==
    [here : BOOLEAN, percent : 0..100, dates : SUBSET DatesOfPlan,
     stages : BoundedSeq(Stages, MaxStages), doneOn : 0..PlanDays]

LEMMA ProjectsTypesAre ==
    ProjectsTypeOK <=> /\ project \in ProjectRecord /\ editor \in [open : BOOLEAN, doneOn : 0..PlanDays]
                       /\ date \in DatesOfPlan
BY DEF ProjectsTypeOK, ProjectRecord

LEMMA StagesAre ==
    ASSUME NEW stages
    PROVE  stages \in BoundedSeq(Stages, MaxStages)
              <=> \E n \in 0..MaxStages : stages \in [1..n -> Stages]
BY DEF BoundedSeq, SeqOf

LEMMA StagesLen ==
    ASSUME NEW stages \in BoundedSeq(Stages, MaxStages)
    PROVE  /\ stages \in Seq(Stages) /\ Len(stages) \in 0..MaxStages /\ DOMAIN stages = 1..Len(stages)
           /\ \A i \in 1..Len(stages) : stages[i].done \in BOOLEAN /\ stages[i].date \in 0..PlanDays
           /\ stages = <<>> <=> Len(stages) = 0
<1>1. PICK n \in 0..MaxStages : stages \in [1..n -> Stages]
  BY StagesAre
<1>2. n \in Nat /\ stages \in Seq(Stages) /\ Len(stages) = n
  BY <1>1, ProjectsAssumption
<1>. QED
  BY <1>1, <1>2 DEF Stages

-----------------------------------------------------------------------------
(* Percentages.                                                            *)

LEMMA ProjectsClampIs ==
    ASSUME NEW n \in Int
    PROVE  ClampPercent(n) = IF n < 0 THEN 0 ELSE IF n > 100 THEN 100 ELSE n
<1>1. Min({100, n}) = IF n > 100 THEN 100 ELSE n
  BY DEF Min
<1>2. \A k \in Int : Max({0, k}) = IF k < 0 THEN 0 ELSE k
  BY DEF Max
<1>3. Min({100, n}) \in Int
  BY <1>1
<1> DEFINE low == Min({100, n})
<1> HIDE DEF low
<1>4. Max({0, low}) = IF low < 0 THEN 0 ELSE low
  BY <1>2, <1>3 DEF low
<1>. QED
  BY <1>1, <1>4 DEF ClampPercent, low

\* Rounding a share of d in n.
LEMMA ShareIs ==
    ASSUME NEW n \in Nat, n > 0, NEW d \in 0..n
    PROVE  /\ (200 * d + n) \div (2 * n) \in 0..100
           /\ d = n => (200 * d + n) \div (2 * n) = 100
<1> DEFINE m == 2 * n
           x == 200 * d + n
           k == x \div m
<1>1. m \in Nat /\ m > 0 /\ x \in Nat /\ x <= 201 * n /\ (d = n => x = 201 * n)
  OBVIOUS
<1>2. 100 * m <= 201 * n /\ 201 * n < 101 * m
  OBVIOUS
<1> HIDE DEF m, x
<1>3. k \in Int /\ m * k <= x /\ x < m * (k + 1)
  BY <1>1, SMT
<1> HIDE DEF k
<1>4. k >= 0
  <2>. SUFFICES ASSUME k + 1 <= 0 PROVE FALSE
    BY <1>3
  <2>1. m * (k + 1) <= 0
    BY <1>1, <1>3
  <2>. QED
    BY <1>1, <1>3, <2>1
<1>5. k <= 100
  <2>. SUFFICES ASSUME k >= 101 PROVE FALSE
    BY <1>3
  <2>1. m * k >= m * 101
    BY <1>1, <1>3
  <2>. QED
    BY <1>1, <1>2, <1>3, <2>1
<1>6. d = n => k >= 100
  <2>. SUFFICES ASSUME d = n, k + 1 <= 100 PROVE FALSE
    BY <1>3
  <2>1. m * (k + 1) <= m * 100
    BY <1>1, <1>3
  <2>. QED
    BY <1>1, <1>2, <1>3, <2>1
<1>7. k \in 0..100 /\ (d = n => k = 100)
  BY <1>3, <1>4, <1>5, <1>6
<1>. QED
  BY <1>7 DEF k, m, x

LEMMA DoneShareIs ==
    ASSUME NEW stages \in BoundedSeq(Stages, MaxStages), stages # <<>>
    PROVE  /\ DoneShare(stages) \in 0..100
           /\ (\A i \in 1..Len(stages) : stages[i].done) => DoneShare(stages) = 100
<1> DEFINE n == Len(stages)
           did == {i \in DOMAIN stages : stages[i].done}
           d == Cardinality(did)
<1>1. n \in Nat /\ n > 0 /\ DOMAIN stages = 1..n
  BY StagesLen, ProjectsAssumption
<1>2. IsFiniteSet(1..n) /\ Cardinality(1..n) = n
  BY <1>1, FS_Interval
<1>3. IsFiniteSet(did) /\ d <= n /\ d \in Nat /\ (did = 1..n => d = n)
  <2>1. did \subseteq 1..n
    BY <1>1
  <2> HIDE DEF n, did
  <2>. QED
    BY <1>2, <2>1, FS_Subset, FS_CardinalityType
<1>4. DoneShare(stages) = (200 * d + n) \div (2 * n)
  BY DEF DoneShare
<1>5. (\A i \in 1..n : stages[i].done) => did = 1..n
  BY <1>1
<1> HIDE DEF n, d, did
<1>6. d \in 0..n
  BY <1>1, <1>3
<1>7. DoneShare(stages) \in 0..100 /\ (d = n => DoneShare(stages) = 100)
  BY <1>1, <1>4, <1>6, ShareIs
<1>8. (\A i \in 1..n : stages[i].done) => d = n
  BY <1>3, <1>5
<1>. QED
  BY <1>7, <1>8 DEF n

LEMMA PercentIs ==
    ASSUME NEW percent \in 0..100, NEW stages \in BoundedSeq(Stages, MaxStages), NEW p,
           p.percent = percent, p.stages = stages
    PROVE  ProjectPercent(p) \in 0..100
<1>1. stages # <<>> => DoneShare(stages) \in 0..100
  BY DoneShareIs
<1>2. ClampPercent(percent) = percent
  BY ProjectsClampIs
<1>. QED
  BY <1>1, <1>2 DEF ProjectPercent, HasStages

\* An open project with stages has one that is still to do.
LEMMA OpenHasSomeToDo ==
    ASSUME NEW p \in ProjectRecord, HasStages(p), ProjectOpen(p)
    PROVE  \E i \in 1..Len(p.stages) : ~p.stages[i].done
<1>1. p.stages \in BoundedSeq(Stages, MaxStages) /\ p.stages # <<>>
  BY DEF ProjectRecord, HasStages
<1>2. DoneShare(p.stages) < 100
  BY DEF ProjectOpen, ProjectPercent
<1>3. DoneShare(p.stages) # 100
  BY <1>1, <1>2, DoneShareIs
<1>. QED
  BY <1>1, <1>3, DoneShareIs

\* Giving a stage another date or mark.
LEMMA StagedIs ==
    ASSUME NEW stages \in BoundedSeq(Stages, MaxStages), NEW i \in 1..Len(stages), NEW w \in Stages
    PROVE  LET after == [stages EXCEPT ![i] = w]
           IN  /\ after \in BoundedSeq(Stages, MaxStages) /\ Len(after) = Len(stages)
               /\ DOMAIN after = 1..Len(stages)
               /\ \A j \in 1..Len(stages) : after[j] = IF j = i THEN w ELSE stages[j]
<1>1. PICK n \in 0..MaxStages : stages \in [1..n -> Stages]
  BY StagesAre
<1>2. n \in Nat /\ Len(stages) = n
  BY <1>1, ProjectsAssumption
<1>3. [stages EXCEPT ![i] = w] \in [1..n -> Stages]
  BY <1>1, <1>2
<1>4. Len([stages EXCEPT ![i] = w]) = n
  BY <1>2, <1>3
<1>. QED
  BY <1>1, <1>2, <1>3, <1>4, StagesAre

-----------------------------------------------------------------------------
(* The steps.                                                              *)

LEMMA LeastOfStages ==
    ASSUME NEW T \in SUBSET Nat, T # {}
    PROVE  Min(T) \in T
<1> DEFINE Lower == {ss \in Nat \X Nat : ss[1] < ss[2]}
<1>1. IsWellFoundedOn(Lower, Nat)
  BY NatLessThanWellFounded DEF OpToRel
<1> HIDE DEF Lower
<1>2. PICK x \in T : \A y \in T : ~(<<y, x>> \in Lower)
  BY <1>1, WFMin
<1>3. \A y \in T : ~(y < x)
  BY <1>2 DEF Lower
<1>4. \A y \in T : x <= y
  BY <1>3
<1>. QED
  BY <1>4 DEF Min

\* What planning writes: with stages, the date of one that is to do.
LEMMA PlannedIs ==
    ASSUME NEW p \in ProjectRecord, NEW d \in DatesOfPlan, ProjectOpen(p)
    PROVE  LET q == WithPlannedDay(p, d)
           IN  \/ /\ ~HasStages(p)
                  /\ q = [p EXCEPT !.dates = @ \cup {d}]
               \/ /\ HasStages(p)
                  /\ \E i \in 1..Len(p.stages) : 
                       /\ ~p.stages[i].done
                       /\ q = [p EXCEPT !.stages = [p.stages EXCEPT ![i] = [p.stages[i] EXCEPT !.date = d]]]
<1> DEFINE todo == {i \in DOMAIN p.stages : ~p.stages[i].done}
           free == {i \in todo : p.stages[i].date = Unplanned}
<1>1. DOMAIN p.stages = 1..Len(p.stages) /\ Len(p.stages) \in Nat
  BY StagesLen, ProjectsAssumption DEF ProjectRecord
<1>2. todo \in SUBSET Nat /\ free \in SUBSET Nat /\ free \subseteq todo
  BY <1>1
<1>3. WithPlannedDay(p, d) =
        IF ~HasStages(p) THEN [p EXCEPT !.dates = @ \cup {d}]
        ELSE IF free # {} THEN [p EXCEPT !.stages[Min(free)].date = d]
        ELSE IF todo # {} THEN [p EXCEPT !.stages[Min(todo)].date = d]
        ELSE p
  BY DEF WithPlannedDay
<1>4. \A i \in todo : i \in 1..Len(p.stages) /\ ~p.stages[i].done
  BY <1>1
<1>5. HasStages(p) => todo # {}
  BY <1>1, OpenHasSomeToDo
<1> HIDE DEF todo, free
<1>6. free # {} => Min(free) \in todo
  BY <1>2, LeastOfStages
<1>7. todo # {} => Min(todo) \in todo
  BY <1>2, LeastOfStages
<1>8. \A i \in todo : [p EXCEPT !.stages[i].date = d]
                        = [p EXCEPT !.stages = [p.stages EXCEPT ![i] = [p.stages[i] EXCEPT !.date = d]]]
  OBVIOUS
<1>. QED
  BY <1>3, <1>4, <1>5, <1>6, <1>7, <1>8

LEMMA ProjectsTyped == ProjectsTypeOK /\ [ProjectsNext]_projectVars => ProjectsTypeOK'
<1>. SUFFICES ASSUME ProjectsTypeOK, [ProjectsNext]_projectVars PROVE ProjectsTypeOK'
  OBVIOUS
<1>1. /\ project \in ProjectRecord /\ editor \in [open : BOOLEAN, doneOn : 0..PlanDays]
      /\ date \in DatesOfPlan /\ PlanDays \in Nat
  BY ProjectsTypesAre, ProjectsAssumption
<1>2. /\ project.percent \in 0..100 /\ project.dates \subseteq DatesOfPlan
      /\ project.stages \in BoundedSeq(Stages, MaxStages) /\ project.doneOn \in 0..PlanDays
  BY <1>1 DEF ProjectRecord
<1>3. \A percent, before : before \in 0..PlanDays => DoneOnAfter(percent, before) \in 0..PlanDays
  BY <1>1 DEF DoneOnAfter, DatesOfPlan
<1>4. NoProject \in ProjectRecord
  <2>1. <<>> \in BoundedSeq(Stages, MaxStages)
    <3>1. <<>> \in [1..0 -> Stages] /\ 0 \in 0..MaxStages
      BY ProjectsAssumption
    <3>. QED
      BY <3>1, StagesAre
  <2>. QED
    BY <1>1, <2>1 DEF NoProject, ProjectRecord
<1>5. ASSUME project' \in ProjectRecord, editor' = editor \/ editor' = NotEditing
             \/ editor' = [open |-> TRUE, doneOn |-> project.doneOn], date' \in DatesOfPlan
      PROVE  ProjectsTypeOK'
  <2>1. editor' \in [open : BOOLEAN, doneOn : 0..PlanDays]
    <3>1. NotEditing \in [open : BOOLEAN, doneOn : 0..PlanDays]
      BY <1>1 DEF NotEditing
    <3>2. [open |-> TRUE, doneOn |-> project.doneOn] \in [open : BOOLEAN, doneOn : 0..PlanDays]
      BY <1>2
    <3>. QED
      BY <1>1, <1>5, <3>1, <3>2
  <2>. QED
    BY <1>5, <2>1 DEF ProjectsTypeOK, ProjectRecord
<1>6. CASE UNCHANGED projectVars
  BY <1>1, <1>5, <1>6 DEF projectVars
<1>7. CASE AddProject
  <2>1. PICK days \in {{}} \cup {{d} : d \in DatesOfPlan} : project' = [NoProject EXCEPT !.here = TRUE, !.dates = days]
    BY <1>7 DEF AddProject
  <2>2. days \subseteq DatesOfPlan
    OBVIOUS
  <2>3. project' \in ProjectRecord
    BY <1>4, <2>1, <2>2 DEF ProjectRecord
  <2>. QED
    BY <1>1, <1>5, <1>7, <2>3 DEF AddProject
<1>8. CASE RemoveProject
  BY <1>1, <1>4, <1>5, <1>8 DEF RemoveProject
<1>9. ASSUME NEW by \in {25, -25, 100}, BumpProject(by) PROVE ProjectsTypeOK'
  <2>1. ClampPercent(project.percent + by) \in 0..100
    BY <1>2, ProjectsClampIs
  <2>2. project' \in ProjectRecord
    BY <1>1, <1>2, <1>3, <1>9, <2>1 DEF BumpProject, Bumped, ProjectRecord
  <2>. QED
    BY <1>1, <1>5, <1>9, <2>2 DEF BumpProject
<1>10. ASSUME NEW i \in 1..MaxStages, TickStage(i) PROVE ProjectsTypeOK'
  <2> DEFINE w == [project.stages[i] EXCEPT !.done = ~@]
             stages == [project.stages EXCEPT ![i] = w]
  <2>1. i \in 1..Len(project.stages) /\ project.stages[i] \in Stages
    <3>1. project.stages \in Seq(Stages) /\ DOMAIN project.stages = 1..Len(project.stages)
      BY <1>2, StagesLen
    <3>. QED
      BY <1>10, <3>1 DEF TickStage
  <2>2. w \in Stages
    BY <2>1 DEF Stages
  <2>3. stages \in BoundedSeq(Stages, MaxStages)
    <3> HIDE DEF w
    <3>. QED
      BY <1>2, <2>1, <2>2, StagedIs
  <2>4. project' = [project EXCEPT !.stages = stages, !.doneOn = DoneOnAfter(DoneShare(stages), project.doneOn)]
    BY <1>10 DEF TickStage, Ticked
  <2> HIDE DEF stages
  <2>5. project' \in ProjectRecord
    BY <1>1, <1>2, <1>3, <2>3, <2>4 DEF ProjectRecord
  <2>. QED
    BY <1>1, <1>5, <1>10, <2>5 DEF TickStage
<1>11. ASSUME NEW d \in DatesOfPlan, PlanProject(d) PROVE ProjectsTypeOK'
  <2>1. ProjectOpen(project) /\ project' = WithPlannedDay(project, d)
    BY <1>11 DEF PlanProject, InBacklog, ProjectCarried
  <2>2. CASE project' = [project EXCEPT !.dates = @ \cup {d}]
    <3>1. project' \in ProjectRecord
      BY <1>1, <1>2, <2>2 DEF ProjectRecord
    <3>. QED
      BY <1>1, <1>5, <1>11, <3>1 DEF PlanProject
  <2>3. ASSUME NEW i \in 1..Len(project.stages),
               project' = [project EXCEPT !.stages = [project.stages EXCEPT ![i] = [project.stages[i] EXCEPT !.date = d]]]
        PROVE  ProjectsTypeOK'
    <3> DEFINE w == [project.stages[i] EXCEPT !.date = d]
               stages == [project.stages EXCEPT ![i] = w]
    <3>1. project.stages[i] \in Stages
      BY <1>2, StagesLen
    <3>2. w \in Stages
      BY <1>1, <3>1 DEF Stages, DatesOfPlan
    <3>3. stages \in BoundedSeq(Stages, MaxStages)
      <4> HIDE DEF w
      <4>. QED
        BY <1>2, <2>3, <3>2, StagedIs
    <3>4. project' = [project EXCEPT !.stages = stages]
      BY <2>3
    <3> HIDE DEF stages
    <3>5. project' \in ProjectRecord
      BY <1>1, <1>2, <3>3, <3>4 DEF ProjectRecord
    <3>. QED
      BY <1>1, <1>5, <1>11, <3>5 DEF PlanProject
  <2>. QED
    BY <1>1, <2>1, <2>2, <2>3, PlannedIs
<1>12. CASE BackToBacklog
  <2> DEFINE stages == [i \in DOMAIN project.stages |-> [project.stages[i] EXCEPT !.date = Unplanned]]
  <2>1. PICK n \in 0..MaxStages : project.stages \in [1..n -> Stages]
    BY <1>2, StagesAre
  <2>2. stages \in [1..n -> Stages]
    BY <1>1, <2>1 DEF Stages, Unplanned
  <2>3. stages \in BoundedSeq(Stages, MaxStages)
    BY <2>2, StagesAre
  <2>4. project' = [project EXCEPT !.dates = {}, !.stages = stages]
    BY <1>12 DEF BackToBacklog, WithoutPlannedDays
  <2> HIDE DEF stages
  <2>5. project' \in ProjectRecord
    BY <1>1, <1>2, <2>3, <2>4 DEF ProjectRecord
  <2>. QED
    BY <1>1, <1>5, <1>12, <2>5 DEF BackToBacklog
<1>13. CASE OpenEditor
  BY <1>1, <1>5, <1>13 DEF OpenEditor
<1>14. CASE SaveEditor
  <2>1. PICK draft \in Drafts :
           project' = IF project.here
                      THEN [here |-> TRUE, percent |-> ProjectPercent(draft), dates |-> draft.dates, stages |-> draft.stages,
                            doneOn |-> DoneOnAfter(ProjectPercent(draft), editor.doneOn)]
                      ELSE project
    BY <1>14 DEF SaveEditor
  <2>2. draft.percent \in 0..100 /\ draft.dates \subseteq DatesOfPlan /\ draft.stages \in BoundedSeq(Stages, MaxStages)
    BY ProjectsAssumption
  <2>3. ProjectPercent(draft) \in 0..100
    BY <2>2, PercentIs
  <2>4. DoneOnAfter(ProjectPercent(draft), editor.doneOn) \in 0..PlanDays
    BY <1>1, <1>3
  <2>5. project' \in ProjectRecord
    BY <1>1, <2>1, <2>2, <2>3, <2>4 DEF ProjectRecord
  <2>. QED
    BY <1>1, <1>5, <1>14, <2>5 DEF SaveEditor
<1>15. CASE NextDate
  <2>1. date' \in DatesOfPlan
    BY <1>1, <1>15 DEF NextDate, DatesOfPlan
  <2>. QED
    BY <1>1, <1>5, <1>15, <2>1 DEF NextDate
<1>. QED
  BY <1>6, <1>7, <1>8, <1>9, <1>10, <1>11, <1>12, <1>13, <1>14, <1>15 DEF ProjectsNext

LEMMA ProjectsBegin == ProjectsInit => ProjectsTypeOK
<1>. SUFFICES ASSUME ProjectsInit PROVE ProjectsTypeOK
  OBVIOUS
<1>1. <<>> \in [1..0 -> Stages] /\ 0 \in 0..MaxStages
  BY ProjectsAssumption
<1>2. <<>> \in BoundedSeq(Stages, MaxStages)
  BY <1>1, StagesAre
<1>. QED
  BY <1>2, ProjectsAssumption DEF ProjectsInit, ProjectsTypeOK, NoProject, NotEditing, DatesOfPlan

\* A day that is chosen for a project shows in its pane and on the calendar, and leaves
\* its progress as it was (PlanningLands).
THEOREM PlannedDaysLand == ProjectsSpec => PlanningLands
<1> DEFINE Lands ==
      \A d \in DatesOfPlan : PlanProject(d) =>
          /\ d \in ProjectDates(project') /\ \E e \in EventsForProject(project') : e.day = d /\ ~e.done
          /\ ~ProjectCarried(project', date) /\ ~InBacklog(project')
          /\ ProjectPercent(project') = ProjectPercent(project)
<1>1. ASSUME ProjectsTypeOK PROVE Lands
  <2>. SUFFICES ASSUME NEW d \in DatesOfPlan, PlanProject(d)
       PROVE  /\ d \in ProjectDates(project') /\ \E e \in EventsForProject(project') : e.day = d /\ ~e.done
              /\ ~ProjectCarried(project', date) /\ ~InBacklog(project')
              /\ ProjectPercent(project') = ProjectPercent(project)
    OBVIOUS
  <2>1. /\ project \in ProjectRecord /\ date \in Int /\ d \in Int /\ d # Unplanned
        /\ project.stages \in BoundedSeq(Stages, MaxStages)
    BY <1>1, ProjectsTypesAre, ProjectsAssumption DEF DatesOfPlan, Unplanned, ProjectRecord
  <2>2. ProjectOpen(project) /\ project' = WithPlannedDay(project, d) /\ d >= date
    BY <2>1 DEF PlanProject, InBacklog, ProjectCarried
  <2>3. ASSUME d \in ProjectDates(project') PROVE ~ProjectCarried(project', date) /\ ~InBacklog(project')
    BY <2>1, <2>2, <2>3 DEF ProjectCarried, InBacklog
  <2>4. CASE ~HasStages(project) /\ project' = [project EXCEPT !.dates = @ \cup {d}]
    <3>1. project'.dates = project.dates \cup {d} /\ project'.stages = project.stages /\ project'.percent = project.percent
      BY <2>1, <2>4 DEF ProjectRecord
    <3>2. ~HasStages(project') /\ ProjectPercent(project') = ProjectPercent(project)
      BY <2>4, <3>1 DEF HasStages, ProjectPercent
    <3>3. d \in ProjectDates(project')
      BY <3>1, <3>2 DEF ProjectDates
    <3>4. [day |-> d, of |-> 0, done |-> FALSE] \in EventsForProject(project')
      BY <3>1, <3>2 DEF EventsForProject
    <3>. QED
      BY <2>3, <3>2, <3>3, <3>4
  <2>5. ASSUME HasStages(project), NEW i \in 1..Len(project.stages), ~project.stages[i].done,
               project' = [project EXCEPT !.stages = [project.stages EXCEPT ![i] = [project.stages[i] EXCEPT !.date = d]]]
        PROVE  /\ d \in ProjectDates(project') /\ \E e \in EventsForProject(project') : e.day = d /\ ~e.done
               /\ ProjectPercent(project') = ProjectPercent(project)
    <3> DEFINE w == [project.stages[i] EXCEPT !.date = d]
               stages == [project.stages EXCEPT ![i] = w]
               n == Len(project.stages)
    <3>1. project.stages[i] \in Stages
      BY <2>1, StagesLen
    <3>2. w \in Stages /\ w.date = d /\ w.done = project.stages[i].done
      BY <2>1, <3>1, ProjectsAssumption DEF Stages, DatesOfPlan
    <3>3. project' = [project EXCEPT !.stages = stages]
      BY <2>5
    <3> HIDE DEF w
    <3>4. /\ stages \in BoundedSeq(Stages, MaxStages) /\ Len(stages) = n /\ DOMAIN stages = 1..n
          /\ \A j \in 1..n : stages[j] = IF j = i THEN w ELSE project.stages[j]
      BY <2>1, <2>5, <3>2, StagedIs
    <3>5. DOMAIN project.stages = 1..n /\ n \in Nat /\ n # 0
      BY <2>1, <2>5, StagesLen, ProjectsAssumption DEF HasStages
    <3> HIDE DEF stages, n
    <3>6. project'.stages = stages
      BY <2>1, <3>3 DEF ProjectRecord
    <3>7. stages # <<>> /\ HasStages(project')
      BY <3>4, <3>5, <3>6, StagesLen DEF HasStages
    <3>8. {j \in DOMAIN stages : stages[j].done} = {j \in DOMAIN project.stages : project.stages[j].done}
      BY <3>2, <3>4, <3>5
    <3>9. DoneShare(stages) = DoneShare(project.stages)
      BY <3>4, <3>8 DEF DoneShare, n
    <3>10. ProjectPercent(project') = ProjectPercent(project)
      BY <2>5, <3>6, <3>7, <3>9 DEF ProjectPercent
    <3>11. i \in DOMAIN stages /\ stages[i].date = d /\ ~stages[i].done
      BY <2>5, <3>2, <3>4, <3>5 DEF n
    <3>12. d \in ProjectDates(project')
      <4>1. stages[i] \in ToSet(stages)
        BY <3>11 DEF ToSet
      <4>. QED
        BY <2>1, <3>6, <3>7, <3>11, <4>1 DEF ProjectDates, StageDates
    <3>13. [day |-> d, of |-> i, done |-> stages[i].done] \in EventsForProject(project')
      BY <2>1, <3>6, <3>7, <3>11 DEF EventsForProject
    <3>. QED
      BY <3>10, <3>11, <3>12, <3>13
  <2>. QED
    BY <2>1, <2>2, <2>3, <2>4, <2>5, PlannedIs
<1>2. ProjectsTypeOK /\ [ProjectsNext]_projectVars => [Lands]_projectVars
  BY <1>1
<1>. QED
  BY <1>2, ProjectsBegin, ProjectsTyped, PTL DEF ProjectsSpec, PlanningLands

------------------------------------------------------------------------------
(***************************************************************************)
(* Nothing falls out of sight when a store or a jar goes or a row changes, *)
(* and a jar goes round, for any number of stores, jars, ideas and screens *)
(* (Shelves).                                                              *)
(*                                                                         *)
(* What is written down is in a place that is there, unless it was sent    *)
(* astray, and whatever removes a place moves what is in it, the bought    *)
(* and the retired too (GroceriesStand, IdeasStand, PicksStand).  A step   *)
(* forgets that something is astray only when it puts it where there is a  *)
(* place, or puts the place there; of the other sorts it forgets nothing   *)
(* (Keeps).                                                                *)
(***************************************************************************)
ShelvesNext ==
    \/ GroceriesNext /\ UNCHANGED <<jarVars, rowVars>>
    \/ JarsNext /\ UNCHANGED <<groceryVars, rowVars>>
    \/ RowsNext /\ UNCHANGED <<groceryVars, jarVars>>
ShelvesSpec == ShelvesInit /\ [][ShelvesNext]_shelfVars

Places == Stores \cup {AnyStore}
Grocery == [id : Nat, title : Titles, store : Places, done : BOOLEAN]
Idea == [id : 1..ideasMade, jar : Nat, retired : BOOLEAN, drawn : Nat]
TabState == [jar : Nat, drawn : Nat, offered : BOOLEAN]
RowState == [kind : BlockKinds \cup {"unset"}, picks : SUBSET Pickable]

GroceriesStand ==
    /\ stores \subseteq Stores /\ grocery \subseteq Grocery /\ writtenOn \in Nat
    /\ purchases \in [Titles -> Places \cup {NotBought}] /\ formStore \in [Shoppers -> Places]
    /\ \A g \in grocery : <<"grocery", g.id>> \notin astray => g.store \in stores \cup {AnyStore}

\* A draw is never one that is still to come.
IdeasStand ==
    /\ jarsMade \in Nat /\ jars \subseteq 1..jarsMade /\ jars # {}
    /\ ideasMade \in Nat /\ ideas \subseteq Idea /\ draws \in Nat
    /\ \A x, y \in ideas : x.id = y.id => x = y
    /\ pane \in [Panes -> TabState] /\ block \in [Blocks -> TabState]
    /\ \A x \in ideas : <<"idea", x.id>> \notin astray => x.jar \in jars

PicksStand ==
    /\ rows \in [Filters \cup {Everyone} -> RowState]
    /\ loaded \in [Filters \cup {Everyone} -> Pickable \cup {"nothing"}]
    /\ \A f \in Filters \cup {Everyone} : \A thing \in rows[f].picks :
          <<"pick", <<f, thing>>>> \notin astray => rows[f].kind = thing

ShelvesInv == GroceriesStand /\ IdeasStand /\ PicksStand

-----------------------------------------------------------------------------

LEMMA FirstIs ==
    ASSUME NEW T \in SUBSET Nat, T # {}
    PROVE  FirstJar(T) \in T /\ \A y \in T : FirstJar(T) <= y
<1> DEFINE Before == {ss \in Nat \X Nat : ss[1] < ss[2]}
<1>1. IsWellFoundedOn(Before, Nat)
  BY NatLessThanWellFounded DEF OpToRel
<1> HIDE DEF Before
<1>2. PICK x \in T : \A y \in T : ~(<<y, x>> \in Before)
  BY <1>1, WFMin
<1>3. \A y \in T : ~(y < x)
  BY <1>2 DEF Before
<1>4. \A y \in T : x <= y
  BY <1>3
<1>. QED
  BY <1>4 DEF FirstJar

LEMMA ShelvesBegin == ShelvesInit => ShelvesInv
<1> SUFFICES ASSUME ShelvesInit PROVE ShelvesInv
  OBVIOUS
<1>1. GroceriesStand
  BY ShelvesAssumption DEF ShelvesInit, GroceriesStand, Places
<1>2. IdeasStand
  <2>1. Untouched \in TabState
    BY DEF Untouched, TabState
  <2>2. jars = 1..FirstJars /\ jarsMade = FirstJars /\ FirstJars \in Nat /\ 1 \in jars
    BY ShelvesAssumption DEF ShelvesInit
  <2>. QED
    BY <2>1, <2>2 DEF ShelvesInit, IdeasStand
<1>3. PicksStand
  BY DEF ShelvesInit, PicksStand, RowState, NotChosen
<1>. QED
  BY <1>1, <1>2, <1>3 DEF ShelvesInv

\* What was written astray of one sort is remembered to be.
Keeps(tag) == \A i : <<tag, i>> \in astray => <<tag, i>> \in astray'

LEMMA OthersStand ==
           /\ GroceriesStand /\ UNCHANGED groceryVars /\ Keeps("grocery") => GroceriesStand'
           /\ IdeasStand /\ UNCHANGED jarVars /\ Keeps("idea") => IdeasStand'
           /\ PicksStand /\ UNCHANGED rowVars /\ Keeps("pick") => PicksStand'
<1>1. GroceriesStand /\ UNCHANGED groceryVars /\ Keeps("grocery") => GroceriesStand'
  BY DEF GroceriesStand, groceryVars, Keeps
<1>2. IdeasStand /\ UNCHANGED jarVars /\ Keeps("idea") => IdeasStand'
  BY DEF IdeasStand, jarVars, Idea, Keeps
<1>3. PicksStand /\ UNCHANGED rowVars /\ Keeps("pick") => PicksStand'
  BY DEF PicksStand, rowVars, Keeps
<1>. QED
  BY <1>1, <1>2, <1>3

LEMMA AllAreKept ==
    ASSUME astray \subseteq astray'
    PROVE  \A tag : Keeps(tag)
BY DEF Keeps

-----------------------------------------------------------------------------
(* Groceries.                                                              *)

LEMMA WritingStands ==
    ASSUME GroceriesStand, NEW title \in Titles, NEW store \in Places, WritesGrocery(title, store)
    PROVE  GroceriesStand' /\ Keeps("idea") /\ Keeps("pick")
<1> DEFINE new == [id |-> writtenOn + 1, title |-> title, store |-> store, done |-> FALSE]
<1>1. /\ writtenOn' = writtenOn + 1 /\ grocery' = grocery \cup {new}
      /\ UNCHANGED <<stores, purchases, formStore>>
      /\ astray' = IF store \in stores \cup {AnyStore} THEN astray ELSE astray \cup {<<"grocery", writtenOn + 1>>}
  BY DEF WritesGrocery
<1>2. new \in Grocery /\ new.id = writtenOn + 1 /\ new.store = store
  BY DEF GroceriesStand, Grocery
<1> HIDE DEF new
<1>3. astray \subseteq astray' /\ (<<"grocery", new.id>> \in astray' \/ store \in stores \cup {AnyStore})
  BY <1>1, <1>2
<1>. QED
  BY <1>1, <1>2, <1>3, AllAreKept DEF GroceriesStand

\* Every item is kept, or moved to any store, or one that is there.
LEMMA ItemsStand ==
    ASSUME GroceriesStand, grocery' \subseteq Grocery, stores' \subseteq Stores, astray' = astray,
           \A h \in grocery' : h.store \in stores' \cup {AnyStore} \/ \E g \in grocery : g.id = h.id /\ g.store = h.store /\ stores \subseteq stores',
           writtenOn' \in Nat, purchases' \in [Titles -> Places \cup {NotBought}], formStore' \in [Shoppers -> Places]
    PROVE  GroceriesStand'
BY DEF GroceriesStand

LEMMA GroceryStepsStand ==
    ASSUME GroceriesStand, NEW g \in grocery,
           ToggleGrocery(g) \/ TickOnToday(g) \/ RemoveGrocery(g) \/ \E n \in Places : SetStore(g, n)
    PROVE  GroceriesStand' /\ Keeps("idea") /\ Keeps("pick")
<1>1. g \in Grocery
  BY DEF GroceriesStand
<1>2. CASE ToggleGrocery(g) \/ TickOnToday(g)
  <2> DEFINE BoughtOne(h) == [h EXCEPT !.done = TRUE]  Flipped(h) == [h EXCEPT !.done = ~h.done]
  <2>1. \/ grocery' = {IF h.id = g.id THEN BoughtOne(h) ELSE h : h \in grocery}
        \/ grocery' = {IF h.id = g.id THEN Flipped(h) ELSE h : h \in grocery}
    BY <1>2 DEF ToggleGrocery, TickOnToday, WithGrocery
  <2>0. \A h \in grocery : /\ BoughtOne(h) \in Grocery /\ BoughtOne(h).id = h.id /\ BoughtOne(h).store = h.store
                           /\ Flipped(h) \in Grocery /\ Flipped(h).id = h.id /\ Flipped(h).store = h.store
    BY DEF GroceriesStand, Grocery
  <2> HIDE DEF BoughtOne, Flipped
  <2>2. UNCHANGED <<stores, writtenOn, formStore, astray>>
    BY <1>2 DEF ToggleGrocery, TickOnToday
  <2>3. grocery' \subseteq Grocery
    BY <2>0, <2>1 DEF GroceriesStand
  <2>4. \A h \in grocery' : \E old \in grocery : old.id = h.id /\ old.store = h.store
    BY <2>0, <2>1
  <2>5. purchases' \in [Titles -> Places \cup {NotBought}]
    BY <1>1, <1>2 DEF ToggleGrocery, TickOnToday, GroceriesStand, Grocery, Places
  <2>. QED
    BY <2>2, <2>3, <2>4, <2>5, ItemsStand, AllAreKept DEF GroceriesStand
<1>3. CASE RemoveGrocery(g)
  BY <1>3, ItemsStand, AllAreKept DEF RemoveGrocery, GroceriesStand
<1>4. ASSUME NEW n \in Places, SetStore(g, n) PROVE GroceriesStand' /\ Keeps("idea") /\ Keeps("pick")
  <2>1. /\ n \in stores \cup {AnyStore} /\ UNCHANGED <<stores, purchases, writtenOn, formStore>>
        /\ astray' = astray \ {<<"grocery", g.id>>}
        /\ grocery' = {IF h.id = g.id THEN [h EXCEPT !.store = n] ELSE h : h \in grocery}
    BY <1>4 DEF SetStore, WithGrocery
  <2>2. grocery' \subseteq Grocery
    BY <2>1 DEF GroceriesStand, Grocery
  <2>3. \A h \in grocery' : h.store = n \/ (h.id # g.id /\ h \in grocery)
    BY <2>1 DEF GroceriesStand, Grocery
  <2>4. \A h \in grocery' : <<"grocery", h.id>> \notin astray' => h.store \in stores \cup {AnyStore}
    BY <2>1, <2>3 DEF GroceriesStand
  <2>5. Keeps("idea") /\ Keeps("pick")
    BY <2>1 DEF Keeps
  <2>6. stores' \subseteq Stores /\ writtenOn' \in Nat
    BY <2>1 DEF GroceriesStand
  <2>7. purchases' \in [Titles -> Places \cup {NotBought}] /\ formStore' \in [Shoppers -> Places]
    BY <2>1 DEF GroceriesStand
  <2>8. \A h \in grocery' : <<"grocery", h.id>> \notin astray' => h.store \in stores' \cup {AnyStore}
    BY <2>1, <2>4
  <2>9. GroceriesStand'
    BY <2>2, <2>6, <2>7, <2>8 DEF GroceriesStand
  <2>. QED
    BY <2>5, <2>9
<1>. QED
  BY <1>2, <1>3, <1>4

LEMMA AddedStoreStands ==
    ASSUME GroceriesStand, NEW s \in Shoppers, NEW n \in Stores, AddStore(s, n)
    PROVE  GroceriesStand' /\ Keeps("idea") /\ Keeps("pick")
<1> DEFINE there == {id \in 1..MaxGroceries : \A g \in grocery : g.id = id => g.store \in stores'}
<1>1. /\ stores \subseteq stores' /\ stores' \subseteq Stores /\ UNCHANGED <<grocery, purchases, writtenOn>>
      /\ astray' = astray \ {<<"grocery", id>> : id \in there}
      /\ formStore' \in [Shoppers -> Places]
  BY DEF AddStore, GroceriesStand, Places
<1>2. Keeps("idea") /\ Keeps("pick")
  BY <1>1 DEF Keeps
<1>3. \A g \in grocery : <<"grocery", g.id>> \notin astray' => g.store \in stores' \cup {AnyStore}
  <2> SUFFICES ASSUME NEW g \in grocery, <<"grocery", g.id>> \notin astray', <<"grocery", g.id>> \in astray
               PROVE  g.store \in stores'
    BY <1>1 DEF GroceriesStand
  <2>1. PICK id \in there : <<"grocery", g.id>> = <<"grocery", id>>
    BY <1>1
  <2>. QED
    BY <2>1
<1>. QED
  BY <1>1, <1>2, <1>3 DEF GroceriesStand

LEMMA RemovedStoreStands ==
    ASSUME GroceriesStand, NEW store \in Stores, RemoveStore(store)
    PROVE  GroceriesStand' /\ Keeps("idea") /\ Keeps("pick")
<1>1. /\ stores' = stores \ {store} /\ UNCHANGED <<purchases, writtenOn, formStore, astray>>
      /\ grocery' = {IF g.store = store THEN [g EXCEPT !.store = AnyStore] ELSE g : g \in grocery}
  BY DEF RemoveStore, WithoutStore
<1>2. grocery' \subseteq Grocery
  BY <1>1 DEF GroceriesStand, Grocery, Places
<1>3. \A h \in grocery' : h.store = AnyStore \/ (h \in grocery /\ h.store # store)
  BY <1>1 DEF GroceriesStand, Grocery
<1>. QED
  BY <1>1, <1>2, <1>3, AllAreKept DEF GroceriesStand

LEMMA ShoppingStands ==
    ASSUME ShelvesInv, GroceriesNext, UNCHANGED <<jarVars, rowVars>>
    PROVE  ShelvesInv'
<1> DEFINE Stands == GroceriesStand' /\ Keeps("idea") /\ Keeps("pick")
<1>1. Stands
  <2>1. CASE ClearBought
    BY <2>1, ItemsStand, AllAreKept DEF ClearBought, ShelvesInv, GroceriesStand
  <2>2. ASSUME NEW s \in Shoppers, LeaveGroceries(s) PROVE Stands
    BY <2>2, AllAreKept DEF LeaveGroceries, ShelvesInv, GroceriesStand, Places
  <2>3. ASSUME NEW s \in Shoppers, NEW t \in Titles, AddGrocery(s, t) PROVE Stands
    <3>1. formStore[s] \in Places
      BY DEF ShelvesInv, GroceriesStand
    <3>. QED
      BY <2>3, <3>1, WritingStands DEF AddGrocery, ShelvesInv
  <2>4. ASSUME NEW s \in Shoppers, NEW n \in Stores, AddStore(s, n) PROVE Stands
    BY <2>4, AddedStoreStands DEF ShelvesInv
  <2>5. ASSUME NEW s \in Shoppers, NEW n \in Stores \cup {AnyStore}, ChooseStore(s, n) PROVE Stands
    BY <2>5, AllAreKept DEF ChooseStore, ShelvesInv, GroceriesStand, Places
  <2>6. ASSUME NEW t \in Titles, AddAgain(t) PROVE Stands
    <3>1. purchases[t] \in Places
      BY <2>6 DEF AddAgain, ShelvesInv, GroceriesStand
    <3>. QED
      BY <2>6, <3>1, WritingStands DEF AddAgain, ShelvesInv
  <2>. QED
    BY <2>1, <2>2, <2>3, <2>4, <2>5, <2>6, GroceryStepsStand, RemovedStoreStands DEF GroceriesNext, ShelvesInv, Places
<1>. QED
  BY <1>1, OthersStand DEF ShelvesInv

-----------------------------------------------------------------------------
(* Date jars.                                                              *)

LEMMA TabsPointSomewhere ==
    ASSUME IdeasStand, NEW p \in Panes
    PROVE  JarOf(p) \in jars /\ FirstJar(jars) \in jars /\ jars \subseteq Nat
<1>1. jars \subseteq Nat
  BY DEF IdeasStand
<1>. QED
  BY <1>1, FirstIs DEF JarOf, IdeasStand

\* Ideas are changed one by one, and keep the number they have.
LEMMA IdeasChange ==
    ASSUME IdeasStand, NEW F, F \in [ideas -> Idea], \A x \in ideas : F[x].id = x.id,
           ideas' = {F[x] : x \in ideas}, ideasMade' = ideasMade, astray' = astray,
           jarsMade' \in Nat, jars' \subseteq 1..jarsMade', jars' # {}, draws' \in Nat,
           \A x \in ideas : F[x].jar \in jars' \/ (F[x].jar = x.jar /\ x.jar \notin jars),
           pane' \in [Panes -> TabState], block' \in [Blocks -> TabState]
    PROVE  IdeasStand' /\ astray \subseteq astray' /\ ((\A x \in ideas : F[x].drawn = x.drawn) => GoesRound)
<1>1. IdeasStand'
  BY DEF IdeasStand, Idea
<1>2. (\A x \in ideas : F[x].drawn = x.drawn) => GoesRound
  BY DEF IdeasStand, GoesRound
<1>. QED
  BY <1>1, <1>2

LEMMA IdeasStay ==
    ASSUME IdeasStand, ideas' \subseteq ideas, ideasMade' = ideasMade, astray' = astray, draws' = draws,
           jarsMade' \in Nat, jars \subseteq jars', jars' \subseteq 1..jarsMade',
           pane' \in [Panes -> TabState], block' \in [Blocks -> TabState]
    PROVE  IdeasStand' /\ astray \subseteq astray' /\ GoesRound
<1>1. IdeasStand'
  BY DEF IdeasStand, Idea
<1>2. GoesRound
  BY DEF IdeasStand, GoesRound
<1>. QED
  BY <1>1, <1>2

LEMMA PuttingStands ==
    ASSUME IdeasStand, NEW j \in Nat, PutsIdea(j), UNCHANGED <<jars, jarsMade, draws>>,
           pane' \in [Panes -> TabState], block' \in [Blocks -> TabState]
    PROVE  IdeasStand' /\ astray \subseteq astray' /\ GoesRound
<1> DEFINE new == [id |-> ideasMade + 1, jar |-> j, retired |-> FALSE, drawn |-> 0]
<1>1. /\ ideasMade' = ideasMade + 1 /\ ideas' = ideas \cup {new}
      /\ astray' = IF j \in jars THEN astray ELSE astray \cup {<<"idea", ideasMade + 1>>}
  BY DEF PutsIdea
<1>2. new \in Idea' /\ new.id = ideasMade + 1 /\ new.jar = j
  BY <1>1 DEF IdeasStand, Idea
<1> HIDE DEF new
<1>3. \A x \in ideas : x.id \in 1..ideasMade /\ x \in Idea'
  BY <1>1 DEF IdeasStand, Idea
<1>4. ideasMade \in Nat /\ ideasMade' \in Nat /\ \A x \in ideas : x.id # new.id
  BY <1>1, <1>2, <1>3 DEF IdeasStand
<1>5. astray \subseteq astray' /\ (<<"idea", new.id>> \in astray' \/ j \in jars)
  BY <1>1, <1>2
<1>6. ideas' \subseteq Idea' /\ \A x, y \in ideas' : x.id = y.id => x = y
  BY <1>1, <1>2, <1>3, <1>4 DEF IdeasStand
<1>7. IdeasStand'
  BY <1>1, <1>2, <1>4, <1>5, <1>6 DEF IdeasStand
<1>8. GoesRound
  BY <1>1, <1>4 DEF IdeasStand, GoesRound
<1>. QED
  BY <1>5, <1>7, <1>8

\* A tab or a row that points elsewhere is still one.
LEMMA TabsAre ==
    ASSUME IdeasStand, NEW t \in TabState, NEW j \in Nat, NEW n \in Nat, NEW b \in BOOLEAN
    PROVE  /\ [t EXCEPT !.jar = j] \in TabState /\ [t EXCEPT !.drawn = n] \in TabState
           /\ [t EXCEPT !.offered = b] \in TabState
BY DEF TabState

LEMMA PoolsAreFinite ==
    ASSUME IdeasStand, NEW T \in SUBSET ideas
    PROVE  IsFiniteSet(T)
<1> DEFINE f == [x \in ideas |-> x.id]
<1>1. f \in [ideas -> 1..ideasMade] /\ \A x, y \in ideas : f[x] = f[y] => x = y
  BY DEF IdeasStand, Idea
<1> HIDE DEF f
<1>2. f \in Injection(ideas, 1..ideasMade)
  BY <1>1 DEF Injection, IsInjective
<1>3. IsFiniteSet(1..ideasMade)
  BY FS_Interval DEF IdeasStand
<1>4. IsFiniteSet(ideas)
  BY <1>2, <1>3, FS_Injection
<1>. QED
  BY <1>4, FS_Subset

LEMMA DrawnStands ==
    ASSUME IdeasStand, NEW x \in ideas, Draws(x), UNCHANGED <<jars, jarsMade, ideasMade, astray>>,
           pane' \in [Panes -> TabState], block' \in [Blocks -> TabState]
    PROVE  /\ IdeasStand' /\ astray \subseteq astray'
           /\ \A old \in ideas, y \in ideas' : old.id = y.id /\ old.drawn # y.drawn => old = x
<1> DEFINE n == draws + 1
           F == [y \in ideas |-> IF y.id = x.id THEN [y EXCEPT !.drawn = n] ELSE y]
<1>1. draws' = n /\ n \in Nat
  BY DEF Draws, IdeasStand
<1>2. ideas' = {IF y.id = x.id THEN [y EXCEPT !.drawn = n] ELSE y : y \in ideas}
  BY <1>1 DEF Draws, WithIdea
<1> HIDE DEF n
<1>3. \A y \in ideas : /\ [y EXCEPT !.drawn = n] \in Idea /\ [y EXCEPT !.drawn = n].id = y.id
                       /\ [y EXCEPT !.drawn = n].jar = y.jar
  BY <1>1 DEF IdeasStand, Idea
<1>4. ideas' = {F[y] : y \in ideas}
  BY <1>2
<1>5. /\ F \in [ideas -> Idea] /\ \A y \in ideas : F[y].id = y.id /\ F[y].jar = y.jar
      /\ \A y \in ideas : y.id # x.id => F[y] = y
  BY <1>3 DEF IdeasStand
<1> HIDE DEF F
<1>6. \A y \in ideas : F[y].jar \in jars' \/ (F[y].jar = y.jar /\ y.jar \notin jars)
  BY <1>5
<1>7. IdeasStand' /\ astray \subseteq astray'
  BY <1>1, <1>4, <1>5, <1>6, IdeasChange DEF IdeasStand
<1>8. \A old \in ideas, y \in ideas' : old.id = y.id /\ old.drawn # y.drawn => old = x
  BY <1>4, <1>5 DEF IdeasStand
<1>. QED
  BY <1>7, <1>8

\* What a tab picks was never drawn, or is alone, or was not the last.
LEMMA PickedGoesRound ==
    ASSUME IdeasStand, NEW pool \in SUBSET ideas, NEW x \in PickDateIdea(pool)
    PROVE  x \in pool /\ (x.drawn = 0 \/ pool = {x} \/ \E other \in pool : other.drawn > x.drawn)
<1> DEFINE never == {y \in pool : y.drawn = 0}
           last == {y \in pool : \A z \in pool : z.drawn <= y.drawn}
           candidates == IF Cardinality(pool) > 1 THEN pool \ last ELSE pool
<1>1. x \in never \/ x \in candidates
  BY DEF PickDateIdea
<1>2. CASE x \in never
  BY <1>2
<1>3. CASE x \in candidates /\ Cardinality(pool) > 1
  <2>1. x \in pool /\ \E y \in pool : ~(y.drawn <= x.drawn)
    BY <1>3
  <2>. QED
    BY <2>1 DEF IdeasStand, Idea
<1>4. CASE x \in candidates /\ ~(Cardinality(pool) > 1)
  <2>1. x \in pool
    BY <1>4
  <2>2. IsFiniteSet(pool) /\ Cardinality(pool) \in Nat
    BY PoolsAreFinite, FS_CardinalityType
  <2>3. IsFiniteSet(pool \ {x}) /\ Cardinality(pool \ {x}) = Cardinality(pool) - 1 /\ Cardinality(pool \ {x}) \in Nat
    BY <2>1, <2>2, FS_RemoveElement, FS_CardinalityType
  <2>4. Cardinality(pool \ {x}) = 0
    BY <1>4, <2>2, <2>3
  <2>5. pool \ {x} = {}
    BY <2>3, <2>4, FS_EmptySet
  <2>. QED
    BY <2>1, <2>5
<1>. QED
  BY <1>1, <1>2, <1>3, <1>4

LEMMA DrawStands ==
    ASSUME IdeasStand, NEW p \in Panes, Draw(p)
    PROVE  IdeasStand' /\ astray \subseteq astray' /\ GoesRound
<1> DEFINE pool == InJar(JarOf(p))
<1>1. PICK x \in PickDateIdea(pool) : Draws(x) /\ pane' = [pane EXCEPT ![p].drawn = x.id]
  BY DEF Draw
<1>2. pool \subseteq ideas /\ \A y \in pool : InJar(y.jar) = pool
  BY DEF InJar
<1>3. x \in pool /\ (x.drawn = 0 \/ pool = {x} \/ \E other \in pool : other.drawn > x.drawn)
  BY <1>2, PickedGoesRound
<1> HIDE DEF pool
<1>4. x \in ideas /\ x.id \in Nat
  BY <1>2, <1>3 DEF IdeasStand, Idea
<1>5. pane' \in [Panes -> TabState] /\ block' \in [Blocks -> TabState]
  <2> DEFINE t == [pane[p] EXCEPT !.drawn = x.id]
  <2>1. t \in TabState /\ pane' = [pane EXCEPT ![p] = t]
    BY <1>1, <1>4 DEF IdeasStand, TabState
  <2> HIDE DEF t
  <2>. QED
    BY <2>1 DEF IdeasStand, Draw
<1>6. /\ IdeasStand' /\ astray \subseteq astray'
      /\ \A old \in ideas, y \in ideas' : old.id = y.id /\ old.drawn # y.drawn => old = x
  BY <1>1, <1>4, <1>5, DrawnStands DEF Draw
<1>. QED
  BY <1>2, <1>3, <1>6 DEF GoesRound

LEMMA DrawOnTodayStands ==
    ASSUME IdeasStand, NEW b \in Blocks, DrawOnToday(b)
    PROVE  IdeasStand' /\ astray \subseteq astray' /\ GoesRound
<1> DEFINE here == InJar(block[b].jar)
           others == {x \in here : x.id # block[b].drawn}
           pool == IF others = {} THEN here ELSE others
<1>1. PICK x \in pool : Draws(x) /\ block' = [block EXCEPT ![b].drawn = x.id, ![b].offered = FALSE]
  BY DEF DrawOnToday
<1>2. here \subseteq ideas /\ \A y \in here : InJar(y.jar) = here
  BY DEF InJar
<1>3. x \in here /\ (x.id # block[b].drawn \/ here = {x})
  <2>1. x \in here /\ (x.id # block[b].drawn \/ others = {})
    BY <1>1
  <2>2. others = {} => \A y \in here : y.id = block[b].drawn
    OBVIOUS
  <2>3. others = {} => \A y \in here : y = x
    BY <1>2, <2>1, <2>2 DEF IdeasStand
  <2>. QED
    BY <2>1, <2>3
<1> HIDE DEF here, others, pool
<1>4. x \in ideas /\ x.id \in Nat
  BY <1>2, <1>3 DEF IdeasStand, Idea
<1>5. /\ pane' \in [Panes -> TabState] /\ block' \in [Blocks -> TabState] /\ block'[b].drawn = x.id
  <2> DEFINE t == [block[b] EXCEPT !.drawn = x.id, !.offered = FALSE]
  <2>1. t \in TabState /\ t.drawn = x.id /\ block' = [block EXCEPT ![b] = t]
    BY <1>1, <1>4 DEF IdeasStand, TabState
  <2> HIDE DEF t
  <2>. QED
    BY <2>1 DEF IdeasStand, DrawOnToday
<1>6. /\ IdeasStand' /\ astray \subseteq astray'
      /\ \A old \in ideas, y \in ideas' : old.id = y.id /\ old.drawn # y.drawn => old = x
  BY <1>1, <1>4, <1>5, DrawnStands DEF DrawOnToday
<1>. QED
  BY <1>2, <1>3, <1>5, <1>6 DEF GoesRound

LEMMA TabStepsStand ==
    ASSUME IdeasStand, NEW p \in Panes,
           AddIdea(p) \/ AskAi(p) \/ KeepIdea(p) \/ \E j \in 1..jarsMade : ChooseJar(p, j)
    PROVE  IdeasStand' /\ astray \subseteq astray' /\ GoesRound
<1>1. pane[p] \in TabState /\ JarOf(p) \in Nat
  BY TabsPointSomewhere DEF IdeasStand
<1>2. CASE AddIdea(p)
  BY <1>1, <1>2, PuttingStands DEF AddIdea, IdeasStand
<1>3. CASE KeepIdea(p)
  <2>1. pane' \in [Panes -> TabState]
    BY <1>1, <1>3, TabsAre DEF KeepIdea, IdeasStand
  <2>. QED
    BY <1>1, <1>3, <2>1, PuttingStands DEF KeepIdea, IdeasStand
<1>4. CASE AskAi(p)
  <2>1. pane' \in [Panes -> TabState]
    BY <1>1, <1>4, TabsAre DEF AskAi, IdeasStand
  <2>. QED
    BY <1>4, <2>1, IdeasStay DEF AskAi, IdeasStand
<1>5. ASSUME NEW j \in 1..jarsMade, ChooseJar(p, j) PROVE IdeasStand' /\ astray \subseteq astray' /\ GoesRound
  <2> DEFINE t == [pane[p] EXCEPT !.jar = j, !.drawn = 0]
  <2>0. j \in Nat
    BY DEF IdeasStand
  <2>1. t \in TabState /\ pane' = [pane EXCEPT ![p] = t]
    BY <1>1, <1>5, <2>0 DEF ChooseJar, TabState, IdeasStand
  <2> HIDE DEF t
  <2>2. pane' \in [Panes -> TabState]
    BY <2>1 DEF IdeasStand
  <2>. QED
    BY <1>5, <2>2, IdeasStay DEF ChooseJar, IdeasStand
<1>. QED
  BY <1>2, <1>3, <1>4, <1>5

LEMMA RowOfJarsStands ==
    ASSUME IdeasStand, NEW b \in Blocks,
           ShowBlock(b) \/ SuggestOnToday(b) \/ KeepOnToday(b) \/ \E j \in 1..jarsMade : ChooseBlockJar(b, j)
    PROVE  IdeasStand' /\ astray \subseteq astray' /\ GoesRound
<1>1. block[b] \in TabState /\ block[b].jar \in Nat /\ FirstJar(jars) \in Nat
  <2>1. jars \in SUBSET Nat /\ jars # {} /\ block[b] \in TabState
    BY DEF IdeasStand
  <2>. QED
    BY <2>1, FirstIs DEF TabState
<1>2. CASE ShowBlock(b)
  <2>1. block' \in [Blocks -> TabState]
    BY <1>1, <1>2 DEF ShowBlock, IdeasStand, TabState
  <2>. QED
    BY <1>2, <2>1, IdeasStay DEF ShowBlock, IdeasStand
<1>3. CASE SuggestOnToday(b)
  <2> DEFINE t == [block[b] EXCEPT !.drawn = 0, !.offered = TRUE]
  <2>1. t \in TabState /\ block' = [block EXCEPT ![b] = t]
    BY <1>1, <1>3 DEF SuggestOnToday, TabState, IdeasStand
  <2> HIDE DEF t
  <2>2. block' \in [Blocks -> TabState]
    BY <2>1 DEF IdeasStand
  <2>. QED
    BY <1>3, <2>2, IdeasStay DEF SuggestOnToday, IdeasStand
<1>4. CASE KeepOnToday(b)
  <2>1. block' \in [Blocks -> TabState]
    BY <1>1, <1>4, TabsAre DEF KeepOnToday, IdeasStand
  <2>. QED
    BY <1>1, <1>4, <2>1, PuttingStands DEF KeepOnToday, IdeasStand
<1>5. ASSUME NEW j \in 1..jarsMade, ChooseBlockJar(b, j) PROVE IdeasStand' /\ astray \subseteq astray' /\ GoesRound
  <2>0. j \in Nat
    BY DEF IdeasStand
  <2>1. block' \in [Blocks -> TabState]
    BY <1>1, <1>5, <2>0, TabsAre DEF ChooseBlockJar, IdeasStand
  <2>. QED
    BY <1>5, <2>1, IdeasStay DEF ChooseBlockJar, IdeasStand
<1>. QED
  BY <1>2, <1>3, <1>4, <1>5

LEMMA RetiringStands ==
    ASSUME IdeasStand, NEW p \in Panes, NEW retire \in BOOLEAN, MarkDone(p, retire)
    PROVE  IdeasStand' /\ astray \subseteq astray' /\ GoesRound
<1> DEFINE Done(x) == [x EXCEPT !.retired = retire \/ x.retired]
           F == [x \in ideas |-> IF x.id = pane[p].drawn THEN Done(x) ELSE x]
<1>1. \A x \in ideas : Done(x) \in Idea /\ Done(x).id = x.id /\ Done(x).jar = x.jar /\ Done(x).drawn = x.drawn
  BY DEF IdeasStand, Idea
<1>2. /\ ideas' = {IF x.id = pane[p].drawn THEN Done(x) ELSE x : x \in ideas}
      /\ UNCHANGED <<jars, jarsMade, ideasMade, draws, block, astray>>
  BY DEF MarkDone, WithIdea
<1>3. pane' \in [Panes -> TabState]
  BY TabsAre DEF MarkDone, IdeasStand
<1> HIDE DEF Done
<1>4. F \in [ideas -> Idea] /\ \A x \in ideas : F[x].id = x.id /\ F[x].jar = x.jar /\ F[x].drawn = x.drawn
  BY <1>1 DEF IdeasStand
<1>5. ideas' = {F[x] : x \in ideas}
  BY <1>2
<1> HIDE DEF F
<1>6. \A x \in ideas : F[x].jar \in jars' \/ (F[x].jar = x.jar /\ x.jar \notin jars)
  BY <1>2, <1>4
<1>. QED
  <2>1. /\ jarsMade' \in Nat /\ jars' \subseteq 1..jarsMade' /\ jars' # {} /\ draws' \in Nat
        /\ block' \in [Blocks -> TabState] /\ ideasMade' = ideasMade /\ astray' = astray
    BY <1>2 DEF IdeasStand
  <2>2. \A x \in ideas : F[x].id = x.id /\ F[x].drawn = x.drawn
    BY <1>4
  <2>3. F \in [ideas -> Idea]
    BY <1>4
  <2>. QED
    BY <2>1, <2>2, <2>3, <1>3, <1>5, <1>6, IdeasChange

LEMMA UnretiringStands ==
    ASSUME IdeasStand, NEW i \in ideas, Unretire(i)
    PROVE  IdeasStand' /\ astray \subseteq astray' /\ GoesRound
<1> DEFINE Back(x) == [x EXCEPT !.retired = FALSE]
           F == [x \in ideas |-> IF x.id = i.id THEN Back(x) ELSE x]
<1>1. \A x \in ideas : Back(x) \in Idea /\ Back(x).id = x.id /\ Back(x).jar = x.jar /\ Back(x).drawn = x.drawn
  BY DEF IdeasStand, Idea
<1>2. /\ ideas' = {IF x.id = i.id THEN Back(x) ELSE x : x \in ideas}
      /\ UNCHANGED <<jars, jarsMade, ideasMade, draws, pane, block, astray>>
  BY DEF Unretire, WithIdea
<1> HIDE DEF Back
<1>3. F \in [ideas -> Idea] /\ \A x \in ideas : F[x].id = x.id /\ F[x].jar = x.jar /\ F[x].drawn = x.drawn
  BY <1>1 DEF IdeasStand
<1>4. ideas' = {F[x] : x \in ideas}
  BY <1>2
<1> HIDE DEF F
<1>5. \A x \in ideas : F[x].jar \in jars' \/ (F[x].jar = x.jar /\ x.jar \notin jars)
  BY <1>2, <1>3
<1>. QED
  <2>1. /\ jarsMade' \in Nat /\ jars' \subseteq 1..jarsMade' /\ jars' # {} /\ draws' \in Nat
        /\ block' \in [Blocks -> TabState] /\ pane' \in [Panes -> TabState]
        /\ ideasMade' = ideasMade /\ astray' = astray
    BY <1>2 DEF IdeasStand
  <2>2. \A x \in ideas : F[x].id = x.id /\ F[x].drawn = x.drawn
    BY <1>3
  <2>3. F \in [ideas -> Idea]
    BY <1>3
  <2>. QED
    BY <2>1, <2>2, <2>3, <1>4, <1>5, IdeasChange

LEMMA PuttingElsewhereStands ==
    ASSUME IdeasStand, NEW p \in Panes, NEW i \in ideas, NEW j \in 1..jarsMade, SetIdeaJar(p, i, j)
    PROVE  IdeasStand' /\ astray \subseteq astray' /\ GoesRound
<1> DEFINE There(x) == [x EXCEPT !.jar = j]
           F == [x \in ideas |-> IF x.id = i.id THEN There(x) ELSE x]
<1>1. j \in Nat /\ j \in jars
  BY DEF SetIdeaJar, IdeasStand
<1>2. \A x \in ideas : There(x) \in Idea /\ There(x).id = x.id /\ There(x).jar = j /\ There(x).drawn = x.drawn
  BY <1>1 DEF IdeasStand, Idea
<1>3. /\ ideas' = {IF x.id = i.id THEN There(x) ELSE x : x \in ideas}
      /\ UNCHANGED <<jars, jarsMade, ideasMade, draws, pane, block, astray>>
  BY DEF SetIdeaJar, WithIdea
<1> HIDE DEF There
<1>4. /\ F \in [ideas -> Idea] /\ \A x \in ideas : F[x].id = x.id /\ F[x].drawn = x.drawn
      /\ \A x \in ideas : F[x].jar = j \/ F[x].jar = x.jar
  BY <1>2 DEF IdeasStand
<1>5. ideas' = {F[x] : x \in ideas}
  BY <1>3
<1> HIDE DEF F
<1>6. \A x \in ideas : F[x].jar \in jars' \/ (F[x].jar = x.jar /\ x.jar \notin jars)
  BY <1>1, <1>3, <1>4
<1>7. /\ jarsMade' \in Nat /\ jars' \subseteq 1..jarsMade' /\ jars' # {} /\ draws' \in Nat /\ ideasMade' = ideasMade /\ astray' = astray
      /\ pane' \in [Panes -> TabState] /\ block' \in [Blocks -> TabState]
  BY <1>3 DEF IdeasStand
<1>. QED
  BY <1>4, <1>5, <1>6, <1>7, IdeasChange

LEMMA RemovedJarStands ==
    ASSUME IdeasStand, NEW p \in Panes, NEW j \in 1..jarsMade, RemoveJar(p, j)
    PROVE  IdeasStand' /\ astray \subseteq astray' /\ GoesRound
<1> DEFINE left == jars \ {j}  first == FirstJar(left)
           Shifted(x) == [x EXCEPT !.jar = first]
           F == [x \in ideas |-> IF x.jar = j THEN Shifted(x) ELSE x]
<1>1. left \in SUBSET Nat /\ left # {} /\ first \in left /\ first \in Nat
  <2>1. left \in SUBSET Nat /\ left # {}
    BY DEF RemoveJar, IdeasStand
  <2> HIDE DEF left
  <2>. QED
    BY <2>1, FirstIs
<1>2. /\ jars' = left /\ UNCHANGED <<jarsMade, ideasMade, draws, block, astray>>
      /\ ideas' = {IF x.jar = j THEN Shifted(x) ELSE x : x \in ideas}
      /\ pane' = IF pane[p].jar = j THEN [pane EXCEPT ![p].jar = first] ELSE pane
  BY DEF RemoveJar, MovedOver
<1> HIDE DEF first
<1>3. \A x \in ideas : Shifted(x) \in Idea /\ Shifted(x).id = x.id /\ Shifted(x).jar = first /\ Shifted(x).drawn = x.drawn
  BY <1>1 DEF IdeasStand, Idea
<1>4. pane' \in [Panes -> TabState]
  BY <1>1, <1>2, TabsAre DEF IdeasStand
<1> HIDE DEF Shifted
<1>5. /\ F \in [ideas -> Idea] /\ \A x \in ideas : F[x].id = x.id /\ F[x].drawn = x.drawn
      /\ \A x \in ideas : F[x].jar = first \/ (F[x].jar = x.jar /\ x.jar # j)
  BY <1>3 DEF IdeasStand
<1>6. ideas' = {F[x] : x \in ideas}
  BY <1>2
<1> HIDE DEF F
<1>7. \A x \in ideas : F[x].jar \in jars' \/ (F[x].jar = x.jar /\ x.jar \notin jars)
  BY <1>1, <1>2, <1>5
<1>8. /\ jarsMade' \in Nat /\ jars' \subseteq 1..jarsMade' /\ jars' # {} /\ draws' \in Nat /\ ideasMade' = ideasMade /\ astray' = astray
      /\ block' \in [Blocks -> TabState]
  BY <1>1, <1>2 DEF IdeasStand
<1>. QED
  BY <1>4, <1>5, <1>6, <1>7, <1>8, IdeasChange

LEMMA JarAddedStands ==
    ASSUME IdeasStand, AddJar
    PROVE  IdeasStand' /\ astray \subseteq astray' /\ GoesRound
<1>1. /\ jarsMade' = jarsMade + 1 /\ jars' = jars \cup {jarsMade + 1}
      /\ UNCHANGED <<ideas, ideasMade, draws, pane, block, astray>>
  BY DEF AddJar
<1>2. jarsMade' \in Nat /\ jars \subseteq jars' /\ jars' \subseteq 1..jarsMade'
  BY <1>1 DEF IdeasStand
<1>. QED
  BY <1>1, <1>2, IdeasStay DEF IdeasStand

LEMMA JarsStand ==
    ASSUME ShelvesInv, JarsNext, UNCHANGED <<groceryVars, rowVars>>
    PROVE  ShelvesInv' /\ GoesRound
<1> DEFINE Stands == IdeasStand' /\ astray \subseteq astray' /\ GoesRound
<1>0. IdeasStand
  BY DEF ShelvesInv
<1>1. AddJar => Stands
  BY <1>0, JarAddedStands
<1>2. \A x \in ideas : Unretire(x) => Stands
  BY <1>0, UnretiringStands
<1>3. ASSUME NEW p \in Panes,
             \/ AddIdea(p) \/ AskAi(p) \/ KeepIdea(p) \/ Draw(p) \/ \E retire \in BOOLEAN : MarkDone(p, retire)
             \/ \E j \in 1..jarsMade : ChooseJar(p, j) \/ RemoveJar(p, j) \/ \E x \in ideas : SetIdeaJar(p, x, j)
      PROVE  Stands
  BY <1>0, <1>3, TabStepsStand, DrawStands, RetiringStands, RemovedJarStands, PuttingElsewhereStands
<1>4. ASSUME NEW p \in Panes, NEW x \in ideas, RemoveIdea(p, x) PROVE Stands
  BY <1>0, <1>4, IdeasStay DEF RemoveIdea, IdeasStand
<1>5. ASSUME NEW b \in Blocks,
             \/ ShowBlock(b) \/ DrawOnToday(b) \/ SuggestOnToday(b) \/ KeepOnToday(b)
             \/ \E j \in 1..jarsMade : ChooseBlockJar(b, j)
      PROVE  Stands
  BY <1>0, <1>5, RowOfJarsStands, DrawOnTodayStands
<1>6. Stands
  BY <1>1, <1>2, <1>3, <1>4, <1>5 DEF JarsNext
<1>. QED
  BY <1>6, OthersStand, AllAreKept DEF ShelvesInv

-----------------------------------------------------------------------------
(* The second row.                                                         *)

\* What the shown row has picked of another kind is known to be astray.
LEMMA ShownRowIs ==
    ASSUME PicksStand, NEW f \in Filters \cup {Everyone}
    PROVE  /\ SecondBlockFor(rows, f) \in RowState
           /\ \A thing \in SecondBlockFor(rows, f).picks :
                 thing \notin TakenOver(f) => SecondBlockFor(rows, f).kind = thing
<1> DEFINE none == [kind |-> "none", picks |-> {}]
           row == IF rows[f] # NotChosen THEN f ELSE Everyone
<1>1. none \in RowState /\ none.picks = {}
  BY DEF RowState, BlockKinds
<1> HIDE DEF none
<1>2. row \in Filters \cup {Everyone} /\ SecondBlockFor(rows, f) \in {rows[row], none}
  BY DEF SecondBlockFor, none
<1>3. TakenOver(f) = {t \in Pickable : <<"pick", <<row, t>>>> \in astray}
  BY DEF TakenOver
<1> HIDE DEF row
<1>4. rows[row] \in RowState /\ \A thing \in rows[row].picks : thing \in Pickable
  BY <1>2 DEF PicksStand, RowState
<1>5. \A thing \in rows[row].picks : thing \notin TakenOver(f) => rows[row].kind = thing
  BY <1>2, <1>3, <1>4 DEF PicksStand
<1>. QED
  BY <1>1, <1>2, <1>4, <1>5

\* One row is changed, and what is astray in it alone.
LEMMA OneRowChanges ==
    ASSUME PicksStand, NEW f \in Filters \cup {Everyone}, NEW r \in RowState, NEW things \in SUBSET Pickable,
           rows' = [rows EXCEPT ![f] = r], astray' = PicksAstray(f, things), StillLoaded,
           \A thing \in r.picks : thing \notin things => r.kind = thing
    PROVE  PicksStand' /\ Keeps("grocery") /\ Keeps("idea")
<1>1. loaded' \in [Filters \cup {Everyone} -> Pickable \cup {"nothing"}]
  BY DEF StillLoaded, PicksStand
<1>2. Keeps("grocery") /\ Keeps("idea")
  BY DEF Keeps, PicksAstray
<1>3. rows' \in [Filters \cup {Everyone} -> RowState] /\ rows'[f] = r
  BY DEF PicksStand
<1>4. \A thing \in things : <<"pick", <<f, thing>>>> \in astray'
  BY DEF PicksAstray
<1>5. ASSUME NEW g \in Filters \cup {Everyone}, NEW thing \in rows'[g].picks, <<"pick", <<g, thing>>>> \notin astray'
      PROVE  rows'[g].kind = thing
  <2>1. CASE g = f
    BY <1>3, <1>4, <1>5, <2>1
  <2>2. CASE g # f
    <3>1. rows'[g] = rows[g]
      BY <2>2 DEF PicksStand
    <3>2. <<"pick", <<g, thing>>>> \notin astray
      <4>1. \A t : <<"pick", <<g, thing>>>> # <<"pick", <<f, t>>>>
        BY <2>2
      <4>. QED
        BY <1>5, <4>1 DEF PicksAstray
    <3>. QED
      BY <1>5, <3>1, <3>2 DEF PicksStand
  <2>. QED
    BY <2>1, <2>2
<1>. QED
  BY <1>1, <1>2, <1>3, <1>5 DEF PicksStand

LEMMA RowsStand ==
    ASSUME ShelvesInv, RowsNext, UNCHANGED <<groceryVars, jarVars>>
    PROVE  ShelvesInv'
<1>1. PICK f \in Filters \cup {Everyone} : LoadChoices(f) \/ TogglePick(f) \/ \E kind \in BlockKinds : SetKind(f, kind)
  BY DEF RowsNext
<1> DEFINE prev == SecondBlockFor(rows, f)
           over == TakenOver(f)
<1>2. prev \in RowState /\ \A thing \in prev.picks : thing \notin over => prev.kind = thing
  BY ShownRowIs DEF ShelvesInv
<1>0. over \in SUBSET Pickable
  BY DEF TakenOver
<1> HIDE DEF prev, over
<1>3. CASE LoadChoices(f)
  <2>1. /\ prev.kind \in Pickable /\ loaded' = [loaded EXCEPT ![f] = prev.kind] /\ UNCHANGED <<rows, astray>>
    BY <1>3 DEF LoadChoices, prev
  <2>2. PicksStand'
    BY <2>1 DEF PicksStand, ShelvesInv
  <2>. QED
    BY <2>1, <2>2, OthersStand, AllAreKept DEF ShelvesInv
<1>4. ASSUME NEW kind \in BlockKinds, SetKind(f, kind) PROVE ShelvesInv'
  <2> DEFINE r == [kind |-> kind, picks |-> IF prev.kind = kind THEN prev.picks ELSE {}]
             things == IF kind = prev.kind THEN over ELSE {}
  <2>1. rows' = [rows EXCEPT ![f] = r] /\ StillLoaded /\ astray' = PicksAstray(f, things)
    BY <1>4 DEF SetKind, WithKind, prev, over
  <2>2. r \in RowState /\ things \in SUBSET Pickable /\ \A thing \in r.picks : thing \notin things => r.kind = thing
    BY <1>0, <1>2 DEF RowState
  <2> HIDE DEF r, things
  <2>3. PicksStand' /\ Keeps("grocery") /\ Keeps("idea")
    BY <2>1, <2>2, OneRowChanges DEF ShelvesInv
  <2>. QED
    BY <2>3, OthersStand DEF ShelvesInv
<1>5. CASE TogglePick(f)
  <2> DEFINE thing == loaded[f]
             r == [prev EXCEPT !.picks = IF thing \in prev.picks THEN prev.picks \ {thing} ELSE prev.picks \cup {thing}]
             things == over \cup ({thing} \ {prev.kind})
  <2>1. thing # "nothing" /\ rows' = [rows EXCEPT ![f] = r] /\ StillLoaded /\ astray' = PicksAstray(f, things)
    BY <1>5 DEF TogglePick, prev, over
  <2>2. thing \in Pickable
    BY <2>1 DEF ShelvesInv, PicksStand
  <2> HIDE DEF thing
  <2>3. r \in RowState /\ r.kind = prev.kind /\ r.picks \subseteq prev.picks \cup {thing}
    BY <1>2, <2>2 DEF RowState
  <2>4. things \in SUBSET Pickable
    BY <1>0, <2>2
  <2> HIDE DEF r
  <2>5. \A other \in r.picks : other \notin things => r.kind = other
    BY <1>2, <2>3
  <2> HIDE DEF things
  <2>6. PicksStand' /\ Keeps("grocery") /\ Keeps("idea")
    BY <2>1, <2>3, <2>4, <2>5, OneRowChanges DEF ShelvesInv
  <2>. QED
    BY <2>6, OthersStand DEF ShelvesInv
<1>. QED
  BY <1>1, <1>3, <1>4, <1>5

-----------------------------------------------------------------------------

LEMMA ShelvesStand == ShelvesInv /\ [ShelvesNext]_shelfVars => ShelvesInv'
<1> SUFFICES ASSUME ShelvesInv, [ShelvesNext]_shelfVars PROVE ShelvesInv'
  OBVIOUS
<1>1. CASE UNCHANGED shelfVars
  <2>1. UNCHANGED groceryVars /\ UNCHANGED jarVars /\ UNCHANGED rowVars /\ astray' = astray
    BY <1>1 DEF shelfVars, groceryVars, jarVars, rowVars
  <2>. QED
    BY <2>1, OthersStand, AllAreKept DEF ShelvesInv
<1>. QED
  BY <1>1, ShoppingStands, JarsStand, RowsStand DEF ShelvesNext

LEMMA JarsGoRound == ShelvesInv /\ [ShelvesNext]_shelfVars => [GoesRound]_shelfVars
<1> SUFFICES ASSUME ShelvesInv, ShelvesNext PROVE GoesRound
  OBVIOUS
<1>1. CASE UNCHANGED jarVars
  BY <1>1 DEF jarVars, GoesRound, ShelvesInv, IdeasStand
<1>. QED
  BY <1>1, JarsStand DEF ShelvesNext

LEMMA ShelvesInvSays == ShelvesInv => InSight
<1> SUFFICES ASSUME ShelvesInv PROVE InSight
  OBVIOUS
<1>1. ASSUME NEW g \in grocery, <<"grocery", g.id>> \notin astray PROVE Cardinality(Groups(g)) = 1
  <2>1. Groups(g) = {g.store}
    BY <1>1 DEF Groups, ShelvesInv, GroceriesStand
  <2>. QED
    BY <2>1, FS_Singleton
<1>2. ASSUME NEW x \in ideas, ~x.retired, <<"idea", x.id>> \notin astray
      PROVE  Cardinality({j \in jars : x \in InJar(j)}) = 1
  <2>1. {j \in jars : x \in InJar(j)} = {x.jar}
    BY <1>2 DEF InJar, ShelvesInv, IdeasStand
  <2>. QED
    BY <2>1, FS_Singleton
<1>3. DOMAIN rows = Filters \cup {Everyone}
  BY DEF ShelvesInv, PicksStand
<1>. QED
  BY <1>1, <1>2, <1>3 DEF InSight, ShelvesInv, PicksStand

\* Whatever stores and jars are removed and rows changed, what was written where there was a
\* place can be found, and no tab draws the same again (App.jsx:3530, 4563-4572, 3793;
\* SecondBlock.jsx:343-353); what was written to a place that was not there, until it is
\* moved or the place is there, is left out, and so is what the second row draws of its own.
THEOREM NothingIsHidden == ShelvesSpec => NothingOutOfSight
<1>1. ShelvesInv /\ [ShelvesNext]_shelfVars => [GoesRound]_shelfVars
  BY JarsGoRound
<1>. QED
  BY <1>1, ShelvesInvSays, ShelvesBegin, ShelvesStand, PTL DEF ShelvesSpec, NothingOutOfSight

------------------------------------------------------------------------------
(***************************************************************************)
(* A walkthrough holds on to its step and every evening adds up, for any   *)
(* number of screens, nights, hours and topics (Nightly).                  *)
(*                                                                         *)
(* Whoever has not gone back has skipped fewer steps than there are before *)
(* the one shown (Walking), and a page that has opened it this night knows *)
(* that it did (FiresInv).                                                 *)
(***************************************************************************)
NightlySpec == NightlyInit /\ [][NightlyNext]_nightlyVars

StepIds == {Sections[k] : k \in 1..8}

\* A walkthrough that is open: on its list, and with no more skipped than it has passed.
Walking(w) ==
    /\ w.steps \in Seq(StepIds) /\ 3 <= Len(w.steps) /\ Len(w.steps) <= 8
    /\ w.i >= 1 /\ w.i <= Len(w.steps)
    /\ ~w.back => w.skipped < w.i
    /\ ~w.started => w.i = 1 /\ w.skipped = 0

WalkRecord ==
    [on : BOOLEAN, started : BOOLEAN, steps : Seq(StepIds), i : Nat, skipped : Nat, time : Int, back : BOOLEAN]

\* What was filed adds up.
AddsUp(l) == l = NotDone \/ l.back \/ (l.covered >= 1 /\ 3 <= l.covered + l.skipped /\ l.covered + l.skipped <= 8)

FiledTopics == UNION {filings[k] : k \in DOMAIN filings}
LiveTopics == {a.id : a \in agenda}

TopicsInv ==
    /\ raised \in Nat /\ agenda \subseteq [id : 1..raised, resolved : BOOLEAN]
    /\ filings \in Seq(SUBSET (1..raised)) /\ dropped \subseteq 1..raised
    /\ \A a, b \in agenda : a.id = b.id => a = b
    /\ LiveTopics \cap FiledTopics = {} /\ LiveTopics \cup FiledTopics \cup dropped = 1..raised

WalksInv ==
    /\ walk \in [Clocks -> WalkRecord] /\ \A s \in Clocks : walk[s].on => Walking(walk[s])
    /\ \A s \in Clocks : ~walk[s].on => ~walk[s].started

NightsInv ==
    /\ night \in 1..Nights /\ hour \in Int
    /\ workEnd \in [1..Nights -> Int] /\ overrides \in [1..(Nights + 1) -> Int]
    /\ checkinLog \in [1..Nights -> [covered : Int, skipped : Nat, back : BOOLEAN]]
    /\ \A n \in 1..Nights : AddsUp(checkinLog[n])

\* A page that has opened it by itself this night knows that it did.
FiresInv ==
    /\ firedFor \in [Clocks -> Nat] /\ pounced \in [Clocks -> Nat]
    /\ \A s \in Clocks : pounced[s] = 0 \/ (firedFor[s] = night /\ pounced[s] = 1)

NightlyInv == TopicsInv /\ WalksInv /\ NightsInv /\ FiresInv

-----------------------------------------------------------------------------

LEMMA OnePushed ==
    ASSUME NEW k \in 1..8
    PROVE  Pushed(k) \in Seq(StepIds) /\ Len(Pushed(k)) <= 1
<1>1. Sections[k] \in StepIds
  BY DEF StepIds
<1> DEFINE id == Sections[k]
<1>2. id \in StepIds /\ (Pushed(k) = <<id>> \/ Pushed(k) = <<>>)
  BY <1>1 DEF Pushed
<1> HIDE DEF id
<1>3. <<id>> \in Seq(StepIds) /\ Len(<<id>>) <= 1 /\ <<>> \in Seq(StepIds) /\ Len(<<>>) <= 1
  BY <1>2
<1>. QED
  BY <1>2, <1>3, Zenon

\* The status and the next time are always asked, and so is the question: a list has three steps at least.
LEMMA AlwaysPushed == Len(Pushed(1)) = 1 /\ Len(Pushed(7)) = 1 /\ Len(Pushed(8)) = 1
<1>1. Sections[1] = "prompt" /\ Sections[7] = "status" /\ Sections[8] = "time"
  BY DEF Sections
<1>2. Sections[1] \in ToAsk /\ Sections[7] \in ToAsk /\ Sections[8] \in ToAsk
  BY <1>1 DEF ToAsk, Always
<1>. QED
  BY <1>2 DEF Pushed

LEMMA JoinedTopics ==
    ASSUME NEW a \in Seq(StepIds), NEW b \in Seq(StepIds)
    PROVE  a \o b \in Seq(StepIds) /\ Len(a \o b) = Len(a) + Len(b) /\ Len(a) \in Nat
OBVIOUS

LEMMA StepsAreFew == BuildSteps \in Seq(StepIds) /\ 3 <= Len(BuildSteps) /\ Len(BuildSteps) <= 8
<1> DEFINE ab == Pushed(1) \o Pushed(2)  abc == ab \o Pushed(3)  abcd == abc \o Pushed(4)
           abcde == abcd \o Pushed(5)  abcdef == abcde \o Pushed(6)  most == abcdef \o Pushed(7)
<1>1. ab \in Seq(StepIds) /\ 1 <= Len(ab) /\ Len(ab) <= 2
  <2>1. Pushed(1) \in Seq(StepIds) /\ Len(Pushed(1)) = 1
    BY OnePushed, AlwaysPushed
  <2>2. Pushed(2) \in Seq(StepIds) /\ Len(Pushed(2)) <= 1
    BY OnePushed
  <2>. QED
    BY <2>1, <2>2, JoinedTopics
<1>2. abc \in Seq(StepIds) /\ 1 <= Len(abc) /\ Len(abc) <= 3
  <2> HIDE DEF ab
  <2>. QED
    BY <1>1, OnePushed, JoinedTopics
<1>3. abcd \in Seq(StepIds) /\ 1 <= Len(abcd) /\ Len(abcd) <= 4
  <2> HIDE DEF abc
  <2>. QED
    BY <1>2, OnePushed, JoinedTopics
<1>4. abcde \in Seq(StepIds) /\ 1 <= Len(abcde) /\ Len(abcde) <= 5
  <2> HIDE DEF abcd
  <2>. QED
    BY <1>3, OnePushed, JoinedTopics
<1>5. abcdef \in Seq(StepIds) /\ 1 <= Len(abcdef) /\ Len(abcdef) <= 6
  <2> HIDE DEF abcde
  <2>. QED
    BY <1>4, OnePushed, JoinedTopics
<1>6. most \in Seq(StepIds) /\ 2 <= Len(most) /\ Len(most) <= 7
  <2> HIDE DEF abcdef
  <2>. QED
    BY <1>5, OnePushed, AlwaysPushed, JoinedTopics
<1>7. BuildSteps = most \o Pushed(8)
  BY DEF BuildSteps
<1> HIDE DEF most
<1>8. Pushed(8) \in Seq(StepIds) /\ Len(Pushed(8)) = 1
  BY OnePushed, AlwaysPushed
<1> DEFINE all == most \o Pushed(8)
<1>9. all \in Seq(StepIds) /\ Len(all) = Len(most) + Len(Pushed(8)) /\ Len(most) \in Nat
  BY <1>6, <1>8, JoinedTopics
<1>10. BuildSteps = all
  BY <1>7
<1> HIDE DEF all
<1>11. 3 <= Len(all) /\ Len(all) <= 8
  <2> DEFINE n == Len(all)  m == Len(most)
  <2>1. n = m + 1 /\ m \in Nat
    BY <1>8, <1>9, Zenon
  <2>2. 2 <= m /\ m <= 7
    BY <1>6, Zenon
  <2> HIDE DEF n, m
  <2>3. 3 <= n /\ n <= 8
    BY <2>1, <2>2
  <2>. QED
    BY <2>3, Zenon DEF n
<1>. QED
  BY <1>9, <1>10, <1>11, Zenon

LEMMA PlansAreTimes ==
    ASSUME NightsInv, NEW n \in 1..(Nights + 1)
    PROVE  CheckinPlan(n) \in Int
BY NightlyAssumption DEF NightsInv, CheckinPlan, UpTo

LEMMA WhatIsOpened ==
    ASSUME NightsInv
    PROVE  Opened \in WalkRecord /\ Opened.on /\ Walking(Opened) /\ ~Opened.started
<1>0. night + 1 \in 1..(Nights + 1)
  BY NightlyAssumption DEF NightsInv
<1>1. CheckinPlan(night + 1) \in Int
  BY <1>0, PlansAreTimes
<1> DEFINE time == CheckinPlan(night + 1)  steps == BuildSteps
<1>2. Opened = [NotOpen EXCEPT !.on = TRUE, !.steps = steps, !.time = time]
  BY DEF Opened
<1>3. steps \in Seq(StepIds) /\ 3 <= Len(steps) /\ Len(steps) <= 8 /\ time \in Int
  BY <1>1, StepsAreFew
<1> HIDE DEF time, steps
<1>4. NotOpen \in WalkRecord
  BY DEF NotOpen, WalkRecord
<1>5. Opened \in WalkRecord
  BY <1>2, <1>3, <1>4 DEF WalkRecord
<1>6. Opened.on /\ Opened.steps = steps /\ Opened.started = NotOpen.started
  BY <1>2, <1>4 DEF WalkRecord
<1>7. Opened.i = NotOpen.i /\ Opened.skipped = NotOpen.skipped /\ Opened.back = NotOpen.back
  BY <1>2, <1>4 DEF WalkRecord
<1>8. NotOpen.i = 1 /\ NotOpen.skipped = 0 /\ ~NotOpen.back /\ ~NotOpen.started
  BY DEF NotOpen
<1>. QED
  BY <1>3, <1>5, <1>6, <1>7, <1>8 DEF Walking

\* One walkthrough is replaced by another that is as it should be.
LEMMA OneWalkChanges ==
    ASSUME WalksInv, NEW s \in Clocks, NEW w \in WalkRecord, walk' = [walk EXCEPT ![s] = w],
           w.on => Walking(w), ~w.on => ~w.started
    PROVE  WalksInv'
BY DEF WalksInv

LEMMA ShutIsFine == NotOpen \in WalkRecord /\ ~NotOpen.on /\ ~NotOpen.started
BY DEF NotOpen, WalkRecord

-----------------------------------------------------------------------------
(* Step by step.                                                           *)

LEMMA NightlyBegins == NightlyInit => NightlyInv
<1> SUFFICES ASSUME NightlyInit PROVE NightlyInv
  OBVIOUS
<1>1. TopicsInv
  BY DEF NightlyInit, TopicsInv, FiledTopics, LiveTopics
<1>2. WalksInv
  BY ShutIsFine DEF NightlyInit, WalksInv
<1>3. NightsInv
  BY NightlyAssumption DEF NightlyInit, NightsInv, Never, NotDone, AddsUp
<1>4. FiresInv
  BY DEF NightlyInit, FiresInv
<1>. QED
  BY <1>1, <1>2, <1>3, <1>4 DEF NightlyInv

TopicsStay == UNCHANGED <<raised, agenda, filings, dropped>>
NightsStay == UNCHANGED <<night, hour, workEnd, overrides, checkinLog>>
FiresStay == UNCHANGED <<firedFor, pounced, night>>

LEMMA StandsStill ==
    /\ TopicsInv /\ TopicsStay => TopicsInv'
    /\ WalksInv /\ walk' = walk => WalksInv'
    /\ NightsInv /\ NightsStay => NightsInv'
    /\ FiresInv /\ FiresStay => FiresInv'
<1>1. TopicsInv /\ TopicsStay => TopicsInv'
  BY DEF TopicsInv, TopicsStay, FiledTopics, LiveTopics
<1>2. WalksInv /\ walk' = walk => WalksInv'
  BY DEF WalksInv
<1>3. NightsInv /\ NightsStay => NightsInv'
  BY DEF NightsInv, NightsStay
<1>4. FiresInv /\ FiresStay => FiresInv'
  BY DEF FiresInv, FiresStay
<1>. QED
  BY <1>1, <1>2, <1>3, <1>4

\* The topics.
LEMMA RaiseKeeps ==
    ASSUME TopicsInv, Raise
    PROVE  TopicsInv'
<1> DEFINE new == [id |-> raised + 1, resolved |-> FALSE]
<1>1. raised' = raised + 1 /\ agenda' = agenda \cup {new} /\ filings' = filings /\ dropped' = dropped
  BY DEF Raise
<1>2. new.id = raised + 1 /\ new \in [id : 1..(raised + 1), resolved : BOOLEAN]
  BY DEF TopicsInv
<1>3. LiveTopics' = LiveTopics \cup {raised + 1} /\ FiledTopics' = FiledTopics
  BY <1>1, <1>2 DEF LiveTopics, FiledTopics
<1>4. FiledTopics \subseteq 1..raised /\ LiveTopics \subseteq 1..raised
  BY DEF TopicsInv
<1>5. \A a \in agenda : a.id \in 1..raised
  BY DEF TopicsInv
<1> HIDE DEF new
<1>6. agenda' \subseteq [id : 1..raised', resolved : BOOLEAN]
  BY <1>1, <1>2 DEF TopicsInv
<1>7. filings' \in Seq(SUBSET (1..raised'))
  BY <1>1 DEF TopicsInv
<1>8. \A a, b \in agenda' : a.id = b.id => a = b
  BY <1>1, <1>2, <1>5 DEF TopicsInv
<1>9. 1..raised' = 1..raised \cup {raised + 1} /\ raised + 1 \notin 1..raised
  BY <1>1 DEF TopicsInv
<1>. QED
  BY <1>1, <1>3, <1>4, <1>6, <1>7, <1>8, <1>9 DEF TopicsInv

LEMMA ToggleKeeps ==
    ASSUME TopicsInv, NEW a \in agenda, ToggleTopic(a)
    PROVE  TopicsInv'
<1> DEFINE b == [a EXCEPT !.resolved = ~@]
<1>1. agenda' = (agenda \ {a}) \cup {b} /\ raised' = raised /\ filings' = filings /\ dropped' = dropped
  BY DEF ToggleTopic
<1>2. b.id = a.id /\ b \in [id : 1..raised, resolved : BOOLEAN]
  BY DEF TopicsInv
<1> HIDE DEF b
<1>3. LiveTopics' = LiveTopics /\ FiledTopics' = FiledTopics
  BY <1>1, <1>2 DEF LiveTopics, FiledTopics
<1>4. \A c, d \in agenda' : c.id = d.id => c = d
  BY <1>1, <1>2 DEF TopicsInv
<1>. QED
  BY <1>1, <1>2, <1>3, <1>4 DEF TopicsInv

LEMMA RemoveKeeps ==
    ASSUME TopicsInv, NEW a \in agenda, RemoveTopic(a)
    PROVE  TopicsInv'
<1>1. agenda' = agenda \ {a} /\ raised' = raised /\ filings' = filings /\ dropped' = dropped \cup {a.id}
  BY DEF RemoveTopic
<1>2. LiveTopics' \cup {a.id} = LiveTopics /\ FiledTopics' = FiledTopics
  BY <1>1 DEF LiveTopics, FiledTopics
<1>3. a.id \in 1..raised
  BY DEF TopicsInv
<1>. QED
  BY <1>1, <1>2, <1>3 DEF TopicsInv

LEMMA FilingKeeps ==
    ASSUME TopicsInv, ArchiveDone
    PROVE  TopicsInv'
<1> DEFINE finished == {a \in agenda : a.resolved}
           first == {a.id : a \in finished}
           all == <<first>> \o filings
           n == IF Len(all) < Filed THEN Len(all) ELSE Filed
           late == UNION {all[k] : k \in (Filed + 1)..Len(all)}
<1>1. /\ filings' = SubSeq(all, 1, n) /\ dropped' = dropped \cup late
      /\ agenda' = LeftOpen /\ raised' = raised
  BY DEF ArchiveDone
<1>2. first \in SUBSET (1..raised)
  BY DEF TopicsInv
<1>3. agenda' = agenda \ finished
  BY <1>1 DEF LeftOpen, TopicsInv
<1>4. first \cap LiveTopics' = {} /\ first \cup LiveTopics' = LiveTopics
  BY <1>3 DEF TopicsInv, LiveTopics
<1> HIDE DEF finished, first
<1>5. filings \in Seq(SUBSET (1..raised)) /\ Filed \in Nat
  BY NightlyAssumption DEF TopicsInv
<1>6. /\ all \in Seq(SUBSET (1..raised)) /\ Len(all) = Len(filings) + 1
      /\ all[1] = first /\ \A k \in 1..Len(filings) : all[k + 1] = filings[k]
  BY <1>2, <1>5
<1>7. UNION {all[k] : k \in 1..Len(all)} = first \cup FiledTopics
  <2>1. \A k \in 1..Len(all) : k = 1 \/ (k - 1 \in 1..Len(filings) /\ all[k] = filings[k - 1])
    BY <1>5, <1>6
  <2>2. \A k \in DOMAIN filings : k + 1 \in 1..Len(all) /\ all[k + 1] = filings[k]
    BY <1>5, <1>6
  <2>3. 1 \in 1..Len(all) /\ DOMAIN filings = 1..Len(filings)
    BY <1>5, <1>6
  <2>. QED
    BY <2>1, <2>2, <2>3, <1>6 DEF FiledTopics
<1> HIDE DEF all
<1>8. n \in 0..Len(all) /\ 1..Len(all) = 1..n \cup (Filed + 1)..Len(all)
  BY <1>5, <1>6
<1>9. filings' \in Seq(SUBSET (1..raised)) /\ Len(filings') = n /\ \A k \in 1..n : filings'[k] = all[k]
  BY <1>1, <1>6, <1>8
<1>10. FiledTopics' = UNION {all[k] : k \in 1..n}
  BY <1>8, <1>9 DEF FiledTopics
<1>11. FiledTopics' \cup late = first \cup FiledTopics
  BY <1>7, <1>8, <1>10
<1>12. FiledTopics \subseteq 1..raised
  BY DEF TopicsInv, FiledTopics
<1> HIDE DEF late, n
<1>. QED
  BY <1>1, <1>2, <1>3, <1>4, <1>9, <1>11, <1>12 DEF TopicsInv

\* The walkthrough.
LEMMA MovingOnKeeps ==
    ASSUME WalksInv, NEW s \in Clocks,
           \/ StartCheckin(s) \/ BackOne(s) \/ SkipStep(s) \/ NextStep(s) \/ CloseCheckin(s)
           \/ \E h \in 0..LastHour : SetTomorrow(s, h)
    PROVE  WalksInv'
<1>1. walk[s] \in WalkRecord
  BY DEF WalksInv
<1> DEFINE v == walk[s]
<1>2. CASE StartCheckin(s)
  <2> DEFINE w == [v EXCEPT !.started = TRUE, !.i = 1]
  <2>1. v.on /\ ~v.started /\ walk' = [walk EXCEPT ![s] = w]
    BY <1>2 DEF StartCheckin, Walks
  <2>2. w \in WalkRecord /\ w.on /\ w.steps = v.steps /\ w.started /\ w.i = 1 /\ w.skipped = v.skipped
    BY <1>1, <2>1 DEF WalkRecord
  <2> HIDE DEF w
  <2>3. Walking(v)
    BY <2>1 DEF WalksInv
  <2>4. Walking(w)
    BY <1>1, <2>1, <2>2, <2>3 DEF WalkRecord, Walking
  <2>. QED
    BY <2>1, <2>2, <2>4, OneWalkChanges
<1>3. CASE BackOne(s)
  <2> DEFINE j == v.i - 1  w == [v EXCEPT !.i = j, !.back = TRUE]
  <2>1. v.on /\ v.started /\ v.i > 1 /\ walk' = [walk EXCEPT ![s] = w]
    BY <1>3 DEF BackOne, Walks
  <2>2. w \in WalkRecord /\ w.on /\ w.steps = v.steps /\ w.started /\ w.back /\ w.i = v.i - 1
    <3>1. j \in Nat /\ j = v.i - 1
      BY <1>1, <2>1 DEF WalkRecord
    <3> HIDE DEF j
    <3>. QED
      BY <1>1, <2>1, <3>1 DEF WalkRecord
  <2> HIDE DEF w
  <2>3. Walking(v)
    BY <2>1 DEF WalksInv
  <2>4. Walking(w)
    BY <1>1, <2>1, <2>2, <2>3 DEF WalkRecord, Walking
  <2>. QED
    BY <2>1, <2>2, <2>4, OneWalkChanges
<1>4. CASE SkipStep(s)
  <2> DEFINE j == v.i + 1  n == v.skipped + 1  w == [v EXCEPT !.i = j, !.skipped = n]
  <2>1. v.on /\ v.started /\ v.i < Len(v.steps) /\ walk' = [walk EXCEPT ![s] = w]
    BY <1>1, <1>4 DEF SkipStep, Walks, IsLast, StepsOf, WalkRecord, WalksInv, Walking
  <2>2. w \in WalkRecord /\ w.on /\ w.steps = v.steps /\ w.started /\ w.back = v.back /\ w.i = v.i + 1 /\ w.skipped = v.skipped + 1
    <3>1. j \in Nat /\ j = v.i + 1 /\ n \in Nat /\ n = v.skipped + 1
      BY <1>1, <2>1 DEF WalkRecord
    <3> HIDE DEF j, n
    <3>. QED
      BY <1>1, <2>1, <3>1 DEF WalkRecord
  <2> HIDE DEF w
  <2>3. Walking(v)
    BY <2>1 DEF WalksInv
  <2>4. Walking(w)
    BY <1>1, <2>1, <2>2, <2>3 DEF WalkRecord, Walking
  <2>. QED
    BY <2>1, <2>2, <2>4, OneWalkChanges
<1>5. CASE NextStep(s)
  <2> DEFINE w == [v EXCEPT !.i = v.i + 1]
  <2>1. v.on /\ v.started /\ v.i < Len(v.steps) /\ walk' = [walk EXCEPT ![s] = w]
    BY <1>1, <1>5 DEF NextStep, Walks, IsLast, StepsOf, WalkRecord, WalksInv, Walking
  <2>2. w \in WalkRecord /\ w.on /\ w.steps = v.steps /\ w.started /\ w.back = v.back /\ w.i = v.i + 1 /\ w.skipped = v.skipped
    BY <1>1, <2>1 DEF WalkRecord
  <2> HIDE DEF w
  <2>3. Walking(v)
    BY <2>1 DEF WalksInv
  <2>4. Walking(w)
    BY <1>1, <2>1, <2>2, <2>3 DEF WalkRecord, Walking
  <2>. QED
    BY <2>1, <2>2, <2>4, OneWalkChanges
<1>6. CASE CloseCheckin(s)
  BY <1>6, ShutIsFine, OneWalkChanges DEF CloseCheckin, Walks
<1>7. CASE \E h \in 0..LastHour : SetTomorrow(s, h)
  <2>1. PICK h \in 0..LastHour : SetTomorrow(s, h)
    BY <1>7
  <2> DEFINE w == [v EXCEPT !.time = h]
  <2>2. v.on /\ v.started /\ walk' = [walk EXCEPT ![s] = w]
    BY <2>1 DEF SetTomorrow, Walks
  <2>3. w \in WalkRecord /\ w.on /\ w.steps = v.steps /\ w.started /\ w.back = v.back /\ w.i = v.i /\ w.skipped = v.skipped
    BY <1>1, <2>2 DEF WalkRecord
  <2> HIDE DEF w
  <2>4. Walking(v)
    BY <2>2 DEF WalksInv
  <2>5. Walking(w)
    BY <1>1, <2>2, <2>3, <2>4 DEF WalkRecord, Walking
  <2>. QED
    BY <2>2, <2>3, <2>5, OneWalkChanges
<1>. QED
  BY <1>2, <1>3, <1>4, <1>5, <1>6, <1>7

LEMMA MovingOnStays ==
    ASSUME NEW s \in Clocks,
           \/ StartCheckin(s) \/ BackOne(s) \/ SkipStep(s) \/ NextStep(s) \/ CloseCheckin(s)
           \/ \E h \in 0..LastHour : SetTomorrow(s, h)
    PROVE  TopicsStay /\ NightsStay /\ FiresStay
BY DEF StartCheckin, BackOne, SkipStep, NextStep, CloseCheckin, SetTomorrow, Walks, agendaVars, clockVars,
       TopicsStay, NightsStay, FiresStay

LEMMA FinishKeeps ==
    ASSUME NightlyInv, NEW s \in Clocks, Finish(s)
    PROVE  NightlyInv'
<1> DEFINE w == walk[s]
           l == [covered |-> Len(w.steps) - w.skipped, skipped |-> w.skipped, back |-> w.back]
<1>1. w \in WalkRecord /\ w.on /\ Walking(w) /\ w.i >= Len(w.steps)
  BY DEF NightlyInv, WalksInv, Finish, IsLast, StepsOf
<1>2. l \in [covered : Int, skipped : Nat, back : BOOLEAN]
  BY <1>1 DEF WalkRecord, Walking
<1>3. l.back \/ (l.covered >= 1 /\ 3 <= l.covered + l.skipped /\ l.covered + l.skipped <= 8)
  BY <1>1 DEF WalkRecord, Walking
<1>4. /\ overrides' = [overrides EXCEPT ![night + 1] = w.time] /\ checkinLog' = [checkinLog EXCEPT ![night] = l]
      /\ walk' = [walk EXCEPT ![s] = NotOpen]
  BY DEF Finish, StepsOf
<1>5. /\ UNCHANGED <<night, hour, workEnd, firedFor, pounced>> /\ TopicsStay
  BY DEF Finish, clockVars, agendaVars, TopicsStay
<1>6. w.time \in Int
  BY <1>1 DEF WalkRecord
<1> HIDE DEF l, w
<1>7. NightsInv'
  BY <1>2, <1>3, <1>4, <1>5, <1>6, NightlyAssumption DEF NightlyInv, NightsInv, AddsUp
<1>8. WalksInv'
  BY <1>4, ShutIsFine, OneWalkChanges DEF NightlyInv
<1>. QED
  BY <1>5, <1>7, <1>8, StandsStill DEF NightlyInv, FiresStay

LEMMA OpeningKeeps ==
    ASSUME NightlyInv, NEW s \in Clocks, Fire(s) \/ OpenCheckin(s) \/ Reload(s)
    PROVE  NightlyInv'
<1>1. TopicsStay /\ NightsStay
  BY DEF Fire, OpenCheckin, Reload, TopicsStay, NightsStay, clockVars, agendaVars
<1>2. WalksInv'
  <2>1. CASE walk' = [walk EXCEPT ![s] = Opened]
    BY <2>1, WhatIsOpened, OneWalkChanges DEF NightlyInv
  <2>2. CASE walk' = [walk EXCEPT ![s] = NotOpen]
    BY <2>2, ShutIsFine, OneWalkChanges DEF NightlyInv
  <2>. QED
    BY <2>1, <2>2, StandsStill DEF Fire, OpenCheckin, Reload, NightlyInv
<1>3. FiresInv'
  <2>1. night' = night /\ night \in Nat
    BY <1>1 DEF NightsStay, NightlyInv, NightsInv
  <2>. QED
    BY <2>1 DEF Fire, OpenCheckin, Reload, FiresInv, NightlyInv
<1>. QED
  BY <1>1, <1>2, <1>3, StandsStill DEF NightlyInv

LEMMA HourKeeps ==
    ASSUME NightlyInv, HourPasses
    PROVE  NightlyInv'
<1>1. TopicsStay /\ walk' = walk /\ UNCHANGED <<workEnd, overrides, checkinLog, firedFor>>
  BY DEF HourPasses, agendaVars, TopicsStay
<1>2. NightsInv'
  <2>1. hour \in Int /\ night \in 1..Nights /\ LastHour \in Nat /\ Nights \in Nat
    BY NightlyAssumption DEF NightlyInv, NightsInv
  <2>2. CASE hour < LastHour
    BY <1>1, <2>1, <2>2 DEF NightlyInv, NightsInv, HourPasses
  <2>3. CASE ~(hour < LastHour)
    <3>1. hour' = 0 /\ night' = night + 1 /\ night < Nights
      BY <2>3 DEF HourPasses
    <3>. QED
      BY <1>1, <2>1, <3>1 DEF NightlyInv, NightsInv
  <2>. QED
    BY <2>2, <2>3
<1>3. FiresInv'
  BY <1>1 DEF NightlyInv, FiresInv, HourPasses
<1>. QED
  BY <1>1, <1>2, <1>3, StandsStill DEF NightlyInv

LEMMA CalendarKeeps ==
    ASSUME NightlyInv, NEW h \in 0..LastHour \cup {Never}, CalendarMoves(h)
    PROVE  NightlyInv'
<1>1. TopicsStay /\ FiresStay /\ walk' = walk /\ UNCHANGED <<night, hour, overrides, checkinLog>>
  BY DEF CalendarMoves, agendaVars, TopicsStay, FiresStay
<1>2. workEnd' = [workEnd EXCEPT ![night] = h] /\ h \in Int
  BY NightlyAssumption DEF CalendarMoves, Never
<1>3. NightsInv'
  BY <1>1, <1>2 DEF NightlyInv, NightsInv
<1>. QED
  BY <1>1, <1>3, StandsStill DEF NightlyInv

LEMMA TopicStepsKeep ==
    ASSUME NightlyInv,
           \/ Raise \/ ArchiveDone \/ \E a \in agenda : ToggleTopic(a) \/ RemoveTopic(a)
           \/ \E x \in Sorts : WaitingChanges(x)
    PROVE  NightlyInv'
<1>1. Agendas
  BY DEF Raise, ArchiveDone, ToggleTopic, RemoveTopic, WaitingChanges
<1>2. NightsStay /\ FiresStay /\ walk' = walk
  BY <1>1 DEF Agendas, clockVars, NightsStay, FiresStay
<1>3. (\E x \in Sorts : WaitingChanges(x)) => TopicsStay
  BY DEF WaitingChanges, TopicsStay
<1>4. TopicsInv'
  BY <1>3, RaiseKeeps, FilingKeeps, ToggleKeeps, RemoveKeeps, StandsStill DEF NightlyInv
<1>. QED
  BY <1>2, <1>4, StandsStill DEF NightlyInv

LEMMA NightlyStays == NightlyInv /\ [NightlyNext]_nightlyVars => NightlyInv'
<1> SUFFICES ASSUME NightlyInv, [NightlyNext]_nightlyVars PROVE NightlyInv'
  OBVIOUS
<1>1. CASE UNCHANGED nightlyVars
  BY <1>1, StandsStill DEF nightlyVars, TopicsStay, NightsStay, FiresStay, NightlyInv
<1>2. ASSUME NEW s \in Clocks,
             \/ StartCheckin(s) \/ BackOne(s) \/ SkipStep(s) \/ NextStep(s) \/ CloseCheckin(s)
             \/ \E h \in 0..LastHour : SetTomorrow(s, h)
      PROVE  NightlyInv'
  BY <1>2, MovingOnKeeps, MovingOnStays, StandsStill DEF NightlyInv
<1>. QED
  BY <1>1, <1>2, FinishKeeps, OpeningKeeps, HourKeeps, CalendarKeeps, TopicStepsKeep DEF NightlyNext

-----------------------------------------------------------------------------

LEMMA FixedCounts == Cardinality(Always) = 3 /\ Len(Sections) = 8
<1>1. Cardinality({"prompt"}) = 1 /\ IsFiniteSet({"prompt"})
  BY FS_Singleton
<1>2. Cardinality({"prompt", "status"}) = 2 /\ IsFiniteSet({"prompt", "status"})
  BY <1>1, FS_AddElement, {"prompt"} \cup {"status"} = {"prompt", "status"}
<1>3. Cardinality({"prompt", "status", "time"}) = 3
  BY <1>2, FS_AddElement, {"prompt", "status"} \cup {"time"} = {"prompt", "status", "time"}
<1>. QED
  BY <1>3 DEF Always, Sections

LEMMA NightlyInvSays == NightlyInv => EveningsAddUp
<1> SUFFICES ASSUME NightlyInv PROVE EveningsAddUp
  OBVIOUS
<1>1. UNION ToSet(filings) = FiledTopics
  BY DEF ToSet, FiledTopics
<1>2. ASSUME NEW n \in 1..Nights, CheckinDone(n), ~checkinLog[n].back
      PROVE  /\ checkinLog[n].covered >= 1
             /\ checkinLog[n].covered + checkinLog[n].skipped \in Cardinality(Always)..Len(Sections)
  BY SMTT(30), <1>2, FixedCounts DEF NightlyInv, NightsInv, AddsUp, CheckinDone
<1>3. \A s \in Clocks : pounced[s] <= 1
  BY DEF NightlyInv, FiresInv
<1>4. LiveTopics \cap FiledTopics = {} /\ LiveTopics \cup FiledTopics \cup dropped = 1..raised
  BY DEF NightlyInv, TopicsInv
<1>. QED
  BY <1>1, <1>2, <1>3, <1>4 DEF EveningsAddUp, LiveTopics

LEMMA StepsHold == NightlyInv /\ [NightlyNext]_nightlyVars => StepHolds
<1> SUFFICES ASSUME NightlyInv, [NightlyNext]_nightlyVars, NEW s \in Clocks,
                    walk[s].started, walk'[s].started, walk'[s].i = walk[s].i
             PROVE  Shown(s)' = Shown(s)
  BY DEF StepHolds
<1>1. walk \in [Clocks -> WalkRecord] /\ walk[s] \in WalkRecord /\ walk[s].on
  BY DEF NightlyInv, WalksInv
<1>2. walk'[s].steps = walk[s].steps
  <2>1. CASE walk' = walk
    BY <2>1
  <2>2. ASSUME NEW t \in Clocks, NEW w, walk' = [walk EXCEPT ![t] = w], t # s
        PROVE  walk'[s].steps = walk[s].steps
    BY <1>1, <2>2
  <2>3. ~NotOpen.started /\ ~Opened.started
    BY ShutIsFine, WhatIsOpened DEF NightlyInv
  <2>4. ASSUME NEW t \in Clocks, NightlyNext, walk' # walk,
               \/ Fire(t) \/ OpenCheckin(t) \/ Finish(t) \/ CloseCheckin(t) \/ Reload(t)
        PROVE  walk'[s].steps = walk[s].steps
    <3>1. walk' = [walk EXCEPT ![t] = NotOpen] \/ walk' = [walk EXCEPT ![t] = Opened]
      BY <2>4 DEF Fire, OpenCheckin, Finish, CloseCheckin, Reload, Walks
    <3>. QED
      BY <1>1, <2>2, <2>3, <3>1
  <2>5. ASSUME NEW t \in Clocks,
               StartCheckin(t) \/ BackOne(t) \/ SkipStep(t) \/ NextStep(t) \/ \E h \in 0..LastHour : SetTomorrow(t, h)
        PROVE  walk'[s].steps = walk[s].steps
    <3>1. PICK w : walk' = [walk EXCEPT ![t] = w] /\ w.steps = walk[t].steps
      <4>1. walk[t] \in WalkRecord
        BY <1>1
      <4>. QED
        <5> DEFINE K(w) == walk' = [walk EXCEPT ![t] = w] /\ w.steps = walk[t].steps
        <5>1. ASSUME StartCheckin(t) PROVE K([walk[t] EXCEPT !.started = TRUE, !.i = 1])
          BY <5>1, <4>1 DEF StartCheckin, Walks, WalkRecord
        <5>2. ASSUME BackOne(t) PROVE K([walk[t] EXCEPT !.i = @ - 1, !.back = TRUE])
          BY <5>2, <4>1 DEF BackOne, Walks, WalkRecord
        <5>3. ASSUME SkipStep(t) PROVE K([walk[t] EXCEPT !.i = @ + 1, !.skipped = @ + 1])
          BY <5>3, <4>1 DEF SkipStep, Walks, WalkRecord
        <5>4. ASSUME NextStep(t) PROVE K([walk[t] EXCEPT !.i = @ + 1])
          BY <5>4, <4>1 DEF NextStep, Walks, WalkRecord
        <5>5. ASSUME NEW h \in 0..LastHour, SetTomorrow(t, h) PROVE K([walk[t] EXCEPT !.time = h])
          BY <5>5, <4>1 DEF SetTomorrow, Walks, WalkRecord
        <5> HIDE DEF K
        <5>6. \E w : K(w)
          BY <2>5, <5>1, <5>2, <5>3, <5>4, <5>5
        <5> QED BY <5>6 DEF K
    <3>. QED
      BY <1>1, <3>1
  <2>6. Raise \/ ArchiveDone \/ HourPasses => walk' = walk
    BY DEF Raise, ArchiveDone, HourPasses, Agendas
  <2>7. \A a \in agenda : ToggleTopic(a) \/ RemoveTopic(a) => walk' = walk
    BY DEF ToggleTopic, RemoveTopic, Agendas
  <2>8. /\ \A x \in Sorts : WaitingChanges(x) => walk' = walk
        /\ \A h \in 0..LastHour \cup {Never} : CalendarMoves(h) => walk' = walk
    BY DEF WaitingChanges, CalendarMoves, Agendas
  <2>. QED
    BY <2>1, <2>4, <2>5, <2>6, <2>7, <2>8 DEF NightlyNext, nightlyVars
<1>. QED
  BY <1>2 DEF Shown, StepsOf

\* No step of a walkthrough goes away under whoever reads it, and what an evening leaves
\* behind adds up (App.jsx:6109-6162, 4138-4144, 1098-1106).
THEOREM WalksHold == NightlySpec => WalkthroughHolds
<1>1. NightlyInv /\ [NightlyNext]_nightlyVars => [StepHolds]_nightlyVars
  BY StepsHold
<1>. QED
  BY <1>1, NightlyInvSays, NightlyBegins, NightlyStays, PTL DEF NightlySpec, WalkthroughHolds

------------------------------------------------------------------------------
(***************************************************************************)
(* What is left of a sequence when some places are dropped (Sublists).     *)
(*                                                                         *)
(* The k-th place that stays is the one of rank k, and ranks count the     *)
(* places up to the size of what stays: no place is lost and no two become *)
(* one.                                                                    *)
(***************************************************************************)
\* Later places have higher ranks.
LEMMA RanksGrow ==
    ASSUME NEW n \in Nat, NEW S \in SUBSET (1..n)
    PROVE  /\ IsFiniteSet(S) /\ Cardinality(S) \in Nat
           /\ \A i \in S : Rank(S, i) \in 1..Cardinality(S)
           /\ \A i, j \in S : i < j => Rank(S, i) < Rank(S, j)
<1>1. IsFiniteSet(1..n)
  BY FS_Interval
<1>2. IsFiniteSet(S)
  BY <1>1, FS_Subset
<1>3. Cardinality(S) \in Nat
  BY <1>2, FS_CardinalityType
<1>4. ASSUME NEW i \in S PROVE Rank(S, i) \in 1..Cardinality(S)
  <2> DEFINE U == {j \in S : j <= i}
  <2>1. U \subseteq S /\ i \in U
    OBVIOUS
  <2>2. IsFiniteSet(U) /\ Cardinality(U) <= Cardinality(S)
    BY <2>1, <1>2, FS_Subset
  <2>3. Cardinality(U) \in Nat /\ Cardinality(U) # 0
    BY <2>1, <2>2, FS_CardinalityType, FS_EmptySet
  <2> QED BY <2>2, <2>3, <1>3 DEF Rank
<1>5. ASSUME NEW i \in S, NEW j \in S, i < j PROVE Rank(S, i) < Rank(S, j)
  <2> DEFINE U == {k \in S : k <= i}
             V == {k \in S : k <= j}
  <2>1. U \subseteq V /\ j \in V /\ j \notin U
    <3>1. i \in Int /\ j \in Int
      OBVIOUS
    <3>2. \A k \in S : k \in Int
      OBVIOUS
    <3>3. j \in V /\ j \notin U
      BY <3>1, <1>5
    <3>4. ASSUME NEW k \in U PROVE k \in V
      <4>1. k \in S /\ k <= i /\ k \in Int
        BY <3>2
      <4>2. k <= j
        BY <4>1, <3>1, <1>5
      <4> QED BY <4>1, <4>2
    <3> QED BY <3>3, <3>4
  <2>2. IsFiniteSet(V)
    BY <1>2, FS_Subset
  <2>3. IsFiniteSet(U) /\ Cardinality(U) <= Cardinality(V) /\ (Cardinality(U) = Cardinality(V) => U = V)
    BY <2>1, <2>2, FS_Subset
  <2>4. Cardinality(U) \in Nat /\ Cardinality(V) \in Nat /\ Cardinality(U) # Cardinality(V)
    BY <2>1, <2>2, <2>3, FS_CardinalityType
  <2> HIDE DEF U, V
  <2>5. Cardinality(U) < Cardinality(V)
    BY <2>3, <2>4
  <2> QED BY <2>5 DEF U, V, Rank
<1> QED BY <1>2, <1>3, <1>4, <1>5

\* Every number up to the size of S is the rank of a place of it.
LEMMA EveryPlaceIsThere ==
    ASSUME NEW n \in Nat, NEW S \in SUBSET (1..n), NEW k \in 1..Cardinality(S)
    PROVE  PlaceOf(S, k) \in S /\ Rank(S, PlaceOf(S, k)) = k
<1> DEFINE m == Cardinality(S)
           f == [i \in S |-> Rank(S, i)]
<1>1. IsFiniteSet(S) /\ m \in Nat /\ \A i \in S : f[i] \in 1..m
  BY RanksGrow
<1>2. \A i, j \in S : f[i] = f[j] => i = j
  <2> SUFFICES ASSUME NEW i \in S, NEW j \in S, f[i] = f[j], i # j PROVE FALSE
    OBVIOUS
  <2>1. i \in Int /\ j \in Int
    OBVIOUS
  <2>2. f[i] \in Int /\ f[j] \in Int
    BY <1>1
  <2>3. i < j \/ j < i
    BY <2>1
  <2>4. Rank(S, i) < Rank(S, j) \/ Rank(S, j) < Rank(S, i)
    BY <2>3, RanksGrow
  <2> QED BY <2>2, <2>4
<1>3. IsFiniteSet(1..m) /\ Cardinality(1..m) = m
  BY <1>1, FS_Interval
<1>4. f \in Injection(S, 1..m)
  BY <1>1, <1>2 DEF Injection, IsInjective
<1>5. f \in Surjection(S, 1..m)
  BY <1>3, <1>4, FS_Injection
<1>6. \E i \in S : Rank(S, i) = k
  BY <1>5 DEF Surjection
<1> QED BY <1>6 DEF PlaceOf

\* What is left out of a sequence is what is at the other places, and of what stays no
\* two places become one.
LEMMA WhatStays ==
    ASSUME NEW T, NEW s \in Seq(T), NEW S \in SUBSET (1..Len(s))
    PROVE  /\ AtPlaces(s, S) \in Seq(T) /\ Len(AtPlaces(s, S)) = Cardinality(S)
           /\ \A k \in 1..Len(AtPlaces(s, S)) :
                 PlaceOf(S, k) \in S /\ AtPlaces(s, S)[k] = s[PlaceOf(S, k)]
           /\ \A j, k \in 1..Len(AtPlaces(s, S)) : j # k => PlaceOf(S, j) # PlaceOf(S, k)
           /\ \A i \in S : \E k \in 1..Len(AtPlaces(s, S)) : PlaceOf(S, k) = i
<1> DEFINE m == Cardinality(S)
           n == Len(s)
<1>1. n \in Nat
  OBVIOUS
<1>2. m \in Nat /\ (\A i \in S : Rank(S, i) \in 1..m) /\ \A i, j \in S : i < j => Rank(S, i) < Rank(S, j)
  BY <1>1, RanksGrow
<1>3. \A k \in 1..m : PlaceOf(S, k) \in S /\ Rank(S, PlaceOf(S, k)) = k
  BY <1>1, EveryPlaceIsThere
<1>4. \A k \in 1..m : s[PlaceOf(S, k)] \in T
  <2> SUFFICES ASSUME NEW k \in 1..m PROVE s[PlaceOf(S, k)] \in T
    OBVIOUS
  <2>1. PlaceOf(S, k) \in 1..Len(s)
    BY <1>3
  <2> HIDE DEF m
  <2> QED BY <2>1
<1>5. AtPlaces(s, S) \in Seq(T) /\ Len(AtPlaces(s, S)) = m
  BY <1>2, <1>4 DEF AtPlaces
<1>6. \A k \in 1..m : AtPlaces(s, S)[k] = s[PlaceOf(S, k)]
  BY DEF AtPlaces
<1>7. \A i \in S : PlaceOf(S, Rank(S, i)) = i
  <2> SUFFICES ASSUME NEW i \in S PROVE PlaceOf(S, Rank(S, i)) = i
    OBVIOUS
  <2> DEFINE r == Rank(S, i)
             j == PlaceOf(S, r)
  <2>1. r \in 1..m
    BY <1>2
  <2>2. j \in S /\ Rank(S, j) = r
    BY <2>1, <1>3
  <2>3. \A x \in S : x \in 1..n
    OBVIOUS
  <2> HIDE DEF j
  <2>5. i \in Int /\ j \in Int /\ r \in Int
    BY <2>1, <2>2, <2>3, <1>1, <1>2
  <2>4. ~(i < j) /\ ~(j < i)
    BY <2>2, <2>3, <1>2
  <2>6. i = j
    BY <2>4, <2>5
  <2> QED BY <2>6 DEF j
<1> QED BY <1>2, <1>3, <1>5, <1>6, <1>7

------------------------------------------------------------------------------
(***************************************************************************)
(* What is entered on a list stands where it was entered, for any number   *)
(* of lists, entries, displays and people (Lists).                         *)
(*                                                                         *)
(* Between its entry and its line in the document an item may be asked     *)
(* about, and the screen that asks may be passed on, or its list removed   *)
(* by another: it is then written nowhere, by one screen alone             *)
(* (AskedIsHeld), and what nobody asks about stands on one list once       *)
(* (EnteredStands).                                                        *)
(***************************************************************************)
AsksAbout(d, n) == desk[d].asking = "item" /\ desk[d].about = n
AnItem == [id : 1..Len(enteredOn), done : BOOLEAN, by : Marks]
Speaks(item) == item.by.locked => item.by.person = Me
Distinct(items) == \A j, k \in 1..Len(items) : j # k => items[j].id # items[k].id
Ids(items) == {items[k].id : k \in 1..Len(items)}
Stands(n, on) == n \in Ids(lists[on])

ListedTypes ==
    /\ listed \in Nat /\ DOMAIN lists \subseteq 1..listed
    /\ enteredOn \in Seq(1..listed)
    /\ away \subseteq Entered /\ undone \subseteq Entered
    /\ \A id \in DOMAIN lists : lists[id] \in Seq(AnItem) /\ Distinct(lists[id]) /\ \A k \in 1..Len(lists[id]) : Speaks(lists[id][k])
    /\ desk \in [Desks -> [on : BOOLEAN, open : 0..listed, who : Housemates \cup {Unnamed},
                           asking : {"no", "list", "item", "switch"}, about : Nat]]

\* What is asked about is written nowhere yet, by one screen, and will be written where it
\* was entered, unless it went elsewhere or its list is gone.
AskedIsHeld ==
    \A d \in Desks : desk[d].asking = "item" =>
       /\ desk[d].about \in Entered
       /\ \A id \in DOMAIN lists : ~Stands(desk[d].about, id)
       /\ \A e \in Desks : desk[e].asking = "item" /\ desk[e].about = desk[d].about => d = e
       /\ desk[d].about \notin away \cup undone => Shows(d) /\ desk[d].open = enteredOn[desk[d].about]

\* What is not asked about stands where it was entered and nowhere else.
EnteredStands ==
    \A n \in Entered \ (away \cup undone) :
       \/ /\ enteredOn[n] \in DOMAIN lists /\ Stands(n, enteredOn[n])
          /\ \A id \in DOMAIN lists : Stands(n, id) => id = enteredOn[n]
       \/ (\A id \in DOMAIN lists : ~Stands(n, id)) /\ \E d \in Desks : AsksAbout(d, n)

ListsInv == ListedTypes /\ AskedIsHeld /\ EnteredStands

LEMMA ListsStart == ListsInit => ListsInv
<1> SUFFICES ASSUME ListsInit PROVE ListsInv
  OBVIOUS
<1>1. DOMAIN lists = {} /\ listed = 0 /\ enteredOn = <<>> /\ Entered = {} /\ away = {} /\ undone = {}
  BY DEF ListsInit, Entered
<1>2. desk = [d \in Desks |-> NoDesk]
  BY DEF ListsInit
<1>3. ListedTypes
  BY <1>1, <1>2 DEF ListedTypes, NoDesk
<1> QED BY <1>1, <1>2, <1>3 DEF ListsInv, AskedIsHeld, EnteredStands, NoDesk

\* A change of the items of the list on a screen, that drops none but what was taken off.
LEMMA ItemsChange ==
    ASSUME ListsInv, NEW d \in Desks, NEW items \in Seq(AnItem), ChangesItems(d, items),
           Distinct(items), \A k \in 1..Len(items) : Speaks(items[k]),
           Ids(items) \subseteq Ids(OnScreen(d)), undone \subseteq undone', undone' \subseteq Entered,
           Ids(OnScreen(d)) \ Ids(items) \subseteq undone'
    PROVE  ListsInv'
<1> DEFINE on == desk[d].open
<1>1. /\ on \in DOMAIN lists /\ OnScreen(d) = lists[on] /\ lists' = [i \in DOMAIN lists |-> IF i = on THEN items ELSE lists[i]]
      /\ desk' = desk /\ listed' = listed /\ enteredOn' = enteredOn /\ away' = away /\ Entered' = Entered
  BY DEF ChangesItems, Shows, IsThere, OnScreen, ItemsOf, WithItems, Entered
<1> HIDE DEF on
<1>2. AnItem' = AnItem
  BY <1>1 DEF AnItem
<1>3. DOMAIN lists' = DOMAIN lists /\ \A i \in DOMAIN lists : lists'[i] = (IF i = on THEN items ELSE lists[i])
  BY <1>1
<1>4. ListedTypes'
  <2>1. /\ listed' \in Nat /\ DOMAIN lists' \subseteq 1..listed' /\ enteredOn' \in Seq(1..listed')
        /\ away' \subseteq Entered' /\ undone' \subseteq Entered'
    BY <1>1, <1>3 DEF ListsInv, ListedTypes
  <2>2. desk' \in [Desks -> [on : BOOLEAN, open : 0..listed', who : Housemates \cup {Unnamed},
                            asking : {"no", "list", "item", "switch"}, about : Nat]]
    BY <1>1 DEF ListsInv, ListedTypes
  <2>3. ASSUME NEW i \in DOMAIN lists
        PROVE  lists'[i] \in Seq(AnItem) /\ Distinct(lists'[i]) /\ \A k \in 1..Len(lists'[i]) : Speaks(lists'[i][k])
    <3>1. CASE i = on
      BY <3>1, <1>3
    <3>2. CASE i # on
      <4>1. lists'[i] = lists[i]
        BY <3>2, <1>3
      <4> QED BY <4>1 DEF ListsInv, ListedTypes
    <3> QED BY <3>1, <3>2
  <2> QED BY <2>1, <2>2, <2>3, <1>2, <1>3 DEF ListedTypes, Distinct, Speaks
<1> DEFINE was(i) == Ids(lists[i])
           is(i) == Ids(lists'[i])
<1>5. \A i \in DOMAIN lists : is(i) \subseteq was(i) /\ was(i) \ is(i) \subseteq undone'
  BY <1>1, <1>3
<1>a. \A n, i : Stands(n, i) <=> n \in was(i)
  BY DEF Stands
<1>b. \A n, i : Stands(n, i)' <=> n \in is(i)
  BY DEF Stands, Ids
<1> HIDE DEF was, is
<1>6. \A n, i : i \in DOMAIN lists => (Stands(n, i)' => Stands(n, i)) /\ (n \notin undone' /\ Stands(n, i) => Stands(n, i)')
  BY <1>5, <1>a, <1>b
<1>7. AskedIsHeld'
  BY <1>1, <1>3, <1>6 DEF ListsInv, AskedIsHeld, Shows, IsThere
<1>8. EnteredStands'
  <2> SUFFICES ASSUME NEW n \in Entered \ (away \cup undone')
               PROVE  \/ /\ enteredOn[n] \in DOMAIN lists /\ Stands(n, enteredOn[n])'
                         /\ \A id \in DOMAIN lists : Stands(n, id)' => id = enteredOn[n]
                      \/ (\A id \in DOMAIN lists : ~Stands(n, id)') /\ \E e \in Desks : AsksAbout(e, n)
    BY <1>1, <1>3 DEF EnteredStands, AsksAbout, Stands
  <2>1. n \in Entered \ (away \cup undone)
    OBVIOUS
  <2>2. n \notin undone' /\ \A id \in DOMAIN lists : Stands(n, id)' <=> Stands(n, id)
    BY <1>6
  <2>3. \/ /\ enteredOn[n] \in DOMAIN lists /\ Stands(n, enteredOn[n])
           /\ \A id \in DOMAIN lists : Stands(n, id) => id = enteredOn[n]
        \/ (\A id \in DOMAIN lists : ~Stands(n, id)) /\ \E e \in Desks : AsksAbout(e, n)
    BY <2>1 DEF ListsInv, EnteredStands
  <2> QED BY <2>2, <2>3, <1>1
<1> QED BY <1>4, <1>7, <1>8 DEF ListsInv

\* What is taken out of a sequence at some places takes their entries with it and no other.
LEMMA LeavingOut ==
    ASSUME NEW T, NEW items \in Seq(T), NEW S \in SUBSET (1..Len(items))
    PROVE  /\ AtPlaces(items, S) \in Seq(T)
           /\ Distinct(items) => Distinct(AtPlaces(items, S))
           /\ Ids(AtPlaces(items, S)) = {items[i].id : i \in S}
           /\ \A k \in 1..Len(AtPlaces(items, S)) : \E i \in S : AtPlaces(items, S)[k] = items[i]
<1> DEFINE left == AtPlaces(items, S)
<1>1. /\ left \in Seq(T)
      /\ \A k \in 1..Len(left) : PlaceOf(S, k) \in S /\ left[k] = items[PlaceOf(S, k)]
      /\ \A j, k \in 1..Len(left) : j # k => PlaceOf(S, j) # PlaceOf(S, k)
      /\ \A i \in S : \E k \in 1..Len(left) : PlaceOf(S, k) = i
  BY WhatStays
<1> HIDE DEF left
<1>2. Distinct(items) => Distinct(left)
  <2> SUFFICES ASSUME Distinct(items), NEW j \in 1..Len(left), NEW k \in 1..Len(left), j # k
               PROVE  left[j].id # left[k].id
    BY DEF Distinct
  <2>1. PlaceOf(S, j) \in 1..Len(items) /\ PlaceOf(S, k) \in 1..Len(items) /\ PlaceOf(S, j) # PlaceOf(S, k)
    BY <1>1
  <2>2. items[PlaceOf(S, j)].id # items[PlaceOf(S, k)].id
    BY <2>1 DEF Distinct
  <2> QED BY <2>2, <1>1
<1>3. Ids(left) = {items[i].id : i \in S}
  <2>1. ASSUME NEW k \in 1..Len(left) PROVE \E i \in S : left[k].id = items[i].id
    BY <1>1
  <2>2. ASSUME NEW i \in S PROVE \E k \in 1..Len(left) : left[k].id = items[i].id
    BY <1>1
  <2>3. Ids(left) \subseteq {items[i].id : i \in S}
    BY <2>1 DEF Ids
  <2>4. {items[i].id : i \in S} \subseteq Ids(left)
    BY <2>2 DEF Ids
  <2> QED BY <2>3, <2>4
<1> QED BY <1>1, <1>2, <1>3 DEF left

\* What the buttons of an item make of the items of a list.
LEMMA ItemsStay ==
    ASSUME NEW items \in Seq(AnItem), Distinct(items), \A k \in 1..Len(items) : Speaks(items[k]),
           NEW k \in 1..Len(items)
    PROVE  /\ LET new == Toggled(items, items[k].id)
              IN  new \in Seq(AnItem) /\ Distinct(new) /\ Ids(new) = Ids(items) /\ \A j \in 1..Len(new) : Speaks(new[j])
           /\ \A to \in 1..Len(items) : LET new == Moved(items, k, to)
              IN  new \in Seq(AnItem) /\ Distinct(new) /\ Ids(new) = Ids(items) /\ \A j \in 1..Len(new) : Speaks(new[j])
           /\ \A p \in Housemates \cup {Unnamed} : CanReattribute(items[k]) =>
              LET new == Reattributed(items, items[k].id, p)
              IN  new \in Seq(AnItem) /\ Distinct(new) /\ Ids(new) = Ids(items) /\ \A j \in 1..Len(new) : Speaks(new[j])
<1>0. Len(items) \in Nat /\ \A j \in 1..Len(items) : items[j] \in AnItem
  OBVIOUS
<1>1. ASSUME NEW new, new = Toggled(items, items[k].id)
      PROVE  new \in Seq(AnItem) /\ Distinct(new) /\ Ids(new) = Ids(items) /\ \A j \in 1..Len(new) : Speaks(new[j])
  <2>1. \A j \in 1..Len(items) : /\ new[j] \in AnItem /\ new[j].id = items[j].id /\ new[j].by = items[j].by
    BY <1>0, <1>1 DEF Toggled, AnItem
  <2>2. Len(new) = Len(items) /\ new \in Seq(AnItem)
    BY <1>0, <1>1, <2>1 DEF Toggled
  <2>3. Distinct(new)
    BY <2>1, <2>2 DEF Distinct
  <2>4. Ids(new) = Ids(items)
    BY <2>1, <2>2 DEF Ids
  <2>5. \A j \in 1..Len(new) : Speaks(new[j])
    BY <2>1, <2>2 DEF Speaks
  <2> QED BY <2>2, <2>3, <2>4, <2>5
<1>2. ASSUME NEW to \in 1..Len(items), NEW new, new = Moved(items, k, to)
      PROVE  new \in Seq(AnItem) /\ Distinct(new) /\ Ids(new) = Ids(items) /\ \A j \in 1..Len(new) : Speaks(new[j])
  <2> DEFINE was(j) == IF j = to THEN k ELSE IF j = k THEN to ELSE j
  <2>1. \A j \in 1..Len(items) : was(j) \in 1..Len(items) /\ new[j] = items[was(j)] /\ was(was(j)) = j
    BY <1>0, <1>2 DEF Moved
  <2>2. Len(new) = Len(items) /\ new \in Seq(AnItem)
    BY <1>0, <1>2 DEF Moved
  <2> HIDE DEF was
  <2>3. Distinct(new)
    <3> SUFFICES ASSUME NEW i \in 1..Len(items), NEW j \in 1..Len(items), i # j PROVE new[i].id # new[j].id
      BY <2>2 DEF Distinct
    <3>1. was(i) \in 1..Len(items) /\ was(j) \in 1..Len(items) /\ was(i) # was(j)
      BY <2>1
    <3>2. items[was(i)].id # items[was(j)].id
      BY <3>1 DEF Distinct
    <3> QED BY <2>1, <3>2
  <2>5. \A j \in 1..Len(new) : Speaks(new[j])
    BY <2>1, <2>2
  <2>4. Ids(new) = Ids(items)
    BY <2>1, <2>2 DEF Ids
  <2> QED BY <2>2, <2>3, <2>4, <2>5
<1>3. ASSUME NEW p \in Housemates \cup {Unnamed}, CanReattribute(items[k]), NEW new, new = Reattributed(items, items[k].id, p)
      PROVE  new \in Seq(AnItem) /\ Distinct(new) /\ Ids(new) = Ids(items) /\ \A j \in 1..Len(new) : Speaks(new[j])
  <2>1. \A j \in 1..Len(items) : j # k => items[j].id # items[k].id
    BY DEF Distinct
  <2>2. \A j \in 1..Len(items) : new[j] = (IF j = k THEN [items[j] EXCEPT !.by.person = p] ELSE items[j])
    BY <1>3, <2>1 DEF Reattributed
  <2>3. [items[k] EXCEPT !.by.person = p] \in AnItem /\ [items[k] EXCEPT !.by.person = p].id = items[k].id
    BY <1>0 DEF AnItem, Marks
  <2>4. ~[items[k] EXCEPT !.by.person = p].by.locked
    BY <1>0, <1>3 DEF AnItem, Marks, CanReattribute
  <2>5. DOMAIN new = 1..Len(items) /\ \A j \in 1..Len(items) : new[j] \in AnItem /\ new[j].id = items[j].id /\ Speaks(new[j])
    BY <1>0, <1>3, <2>2, <2>3, <2>4 DEF Speaks, Reattributed
  <2>6. Len(new) = Len(items) /\ new \in Seq(AnItem)
    BY <1>0, <1>3, <2>5 DEF Reattributed
  <2> QED BY <2>5, <2>6 DEF Distinct, Ids
<1> QED BY <1>1, <1>2, <1>3

\* An entry that is written down comes last.
LEMMA Appending ==
    ASSUME NEW T, NEW items \in Seq(T), NEW item \in T
    PROVE  /\ Append(items, item) \in Seq(T) /\ Len(Append(items, item)) = Len(items) + 1
           /\ Ids(Append(items, item)) = Ids(items) \cup {item.id}
           /\ Distinct(items) /\ item.id \notin Ids(items) => Distinct(Append(items, item))
           /\ \A k \in 1..Len(Append(items, item)) : Append(items, item)[k] = item \/ \E j \in 1..Len(items) : Append(items, item)[k] = items[j]
<1> DEFINE n == Len(items)
           new == Append(items, item)
<1>1. n \in Nat /\ new \in Seq(T) /\ Len(new) = n + 1
  OBVIOUS
<1>2. new[n + 1] = item /\ \A k \in 1..n : new[k] = items[k]
  OBVIOUS
<1> HIDE DEF n, new
<1>3. \A k \in 1..(n + 1) : k = n + 1 \/ k \in 1..n
  BY <1>1
<1>4. 1..n \subseteq 1..(n + 1) /\ n + 1 \in 1..(n + 1)
  BY <1>1
<1>5. Ids(new) = {items[k].id : k \in 1..n} \cup {item.id}
  BY <1>1, <1>2, <1>3, <1>4 DEF Ids
<1>6. Distinct(items) /\ item.id \notin {items[k].id : k \in 1..n} => Distinct(new)
  <2> SUFFICES ASSUME Distinct(items), item.id \notin {items[k].id : k \in 1..n},
                      NEW j \in 1..(n + 1), NEW k \in 1..(n + 1), j # k
               PROVE  new[j].id # new[k].id
    BY <1>1 DEF Distinct
  <2>1. CASE j \in 1..n /\ k \in 1..n
    BY <2>1, <1>2 DEF Distinct, n
  <2>2. CASE j = n + 1 /\ k \in 1..n
    BY <2>2, <1>2
  <2>3. CASE j \in 1..n /\ k = n + 1
    BY <2>3, <1>2
  <2> QED BY <2>1, <2>2, <2>3, <1>3
<1> QED BY <1>1, <1>2, <1>3, <1>5, <1>6 DEF Ids, n, new

\* An entry is written down: on the list that is open, if it is there.
LEMMA Writing ==
    ASSUME ListsInv, NEW d \in Desks, NEW n \in Nat, NEW person \in Housemates \cup {Unnamed}, WritesItem(d, n, person),
           enteredOn' \in Seq(1..listed), Entered \subseteq Entered', n \in Entered', listed' = listed,
           \A id \in DOMAIN lists : ~Stands(n, id)
    PROVE  /\ DOMAIN lists' = DOMAIN lists
           /\ \A id \in DOMAIN lists : \A m : Stands(m, id)' <=> Stands(m, id) \/ (m = n /\ id = desk[d].open)
           /\ \A id \in DOMAIN lists : /\ lists'[id] \in Seq(AnItem') /\ Distinct(lists'[id])
                                      /\ \A k \in 1..Len(lists'[id]) : Speaks(lists'[id][k])
<1> DEFINE on == desk[d].open
           item == Item(n, Attribute(d, person))
           new == Append(lists[on], item)
           A == AnItem'
<1>1. DOMAIN lists' = DOMAIN lists /\ \A id \in DOMAIN lists : lists'[id] = (IF id = on THEN new ELSE lists[id])
  BY DEF WritesItem, WithItems, ItemsOf, IsThere
<1>2. item \in A /\ item.id = n /\ Speaks(item)
  BY ListsAssumption DEF Item, Attribute, AnItem, Entered, Marks, Speaks
<1>3. AnItem \subseteq A
  BY DEF AnItem, Entered
<1>4. \A id \in DOMAIN lists : /\ lists[id] \in Seq(AnItem) /\ Distinct(lists[id])
                              /\ \A k \in 1..Len(lists[id]) : Speaks(lists[id][k])
  BY DEF ListsInv, ListedTypes
<1>5. \A id \in DOMAIN lists : lists[id] \in Seq(A)
  BY <1>3, <1>4
<1>6. \A id \in DOMAIN lists : n \notin Ids(lists[id])
  BY DEF Stands
<1> HIDE DEF A, item, on
<1>7. ASSUME on \in DOMAIN lists
      PROVE  /\ new \in Seq(A) /\ Distinct(new) /\ Ids(new) = Ids(lists[on]) \cup {n}
             /\ \A k \in 1..Len(new) : Speaks(new[k])
  BY <1>2, <1>4, <1>5, <1>6, <1>7, Appending
<1> HIDE DEF new
<1>8. \A id \in DOMAIN lists : /\ lists'[id] \in Seq(A) /\ Distinct(lists'[id])
                              /\ \A k \in 1..Len(lists'[id]) : Speaks(lists'[id][k])
  BY <1>1, <1>4, <1>5, <1>7
<1>9. \A id \in DOMAIN lists : Ids(lists'[id]) = Ids(lists[id]) \cup (IF id = on THEN {n} ELSE {})
  BY <1>1, <1>7
<1>10. \A m, id : Stands(m, id)' <=> m \in Ids(lists'[id])
  BY DEF Stands, Ids
<1>11. \A id \in DOMAIN lists : \A m : Stands(m, id)' <=> Stands(m, id) \/ (m = n /\ id = on)
  BY <1>9, <1>10 DEF Stands
<1> QED BY <1>1, <1>8, <1>11 DEF A, on

LEMMA ItemIsAdded == ASSUME ListsInv, NEW d \in Desks, AddItem(d) PROVE ListsInv'
<1> DEFINE n == Len(enteredOn) + 1
           on == desk[d].open
<1>1. /\ Len(enteredOn) \in Nat /\ n \in Nat /\ enteredOn' = Append(enteredOn, on) /\ listed' = listed /\ away' = away /\ undone' = undone
      /\ listed \in Nat /\ on \in DOMAIN lists /\ on \in 1..listed /\ desk[d].on
  BY DEF ListsInv, ListedTypes, AddItem, Shows, IsThere
<1>2. /\ enteredOn' \in Seq(1..listed) /\ Len(enteredOn') = n /\ Entered' = Entered \cup {n} /\ n \notin Entered
      /\ \A m \in Entered : enteredOn'[m] = enteredOn[m]
      /\ enteredOn'[n] = on
  BY <1>1 DEF ListsInv, ListedTypes, Entered
<1>3. \A id \in DOMAIN lists : ~Stands(n, id)
  <2> SUFFICES ASSUME NEW id \in DOMAIN lists PROVE n \notin Ids(lists[id])
    BY DEF Stands
  <2>1. lists[id] \in Seq(AnItem)
    BY DEF ListsInv, ListedTypes
  <2>2. \A k \in 1..Len(lists[id]) : lists[id][k] \in AnItem
    BY <2>1
  <2>3. \A k \in 1..Len(lists[id]) : lists[id][k].id \in Entered
    BY <2>2 DEF AnItem, Entered
  <2> QED BY <2>3, <1>2 DEF Ids
<1>4. away \subseteq Entered /\ undone \subseteq Entered /\ \A e \in Desks : desk[e].asking = "item" => desk[e].about \in Entered
  BY DEF ListsInv, ListedTypes, AskedIsHeld
<1>5. desk \in [Desks -> [on : BOOLEAN, open : 0..listed, who : Housemates \cup {Unnamed},
                        asking : {"no", "list", "item", "switch"}, about : Nat]]
  BY DEF ListsInv, ListedTypes
<1>6. \A e \in Desks : desk[e].asking = "item" =>
       /\ \A id \in DOMAIN lists : ~Stands(desk[e].about, id)
       /\ \A f \in Desks : desk[f].asking = "item" /\ desk[f].about = desk[e].about => e = f
       /\ desk[e].about \notin away \cup undone => Shows(e) /\ desk[e].open = enteredOn[desk[e].about]
  BY DEF ListsInv, AskedIsHeld
<1>7. \A m \in Entered \ (away \cup undone) :
       \/ /\ enteredOn[m] \in DOMAIN lists /\ Stands(m, enteredOn[m])
          /\ \A id \in DOMAIN lists : Stands(m, id) => id = enteredOn[m]
       \/ (\A id \in DOMAIN lists : ~Stands(m, id)) /\ \E e \in Desks : AsksAbout(e, m)
  BY DEF ListsInv, EnteredStands
<1> HIDE DEF n, on
<1>8. CASE MustAsk(d)
  <2>1. /\ lists' = lists /\ desk' = [desk EXCEPT ![d].asking = "item", ![d].about = n]
    BY <1>1, <1>2, <1>8 DEF AddItem
  <2>2. AnItem \subseteq AnItem'
    BY <1>1, <1>2 DEF AnItem, n
  <2>3. ListedTypes'
    <3>1. \A id \in DOMAIN lists : lists[id] \in Seq(AnItem')
      BY <2>2 DEF ListsInv, ListedTypes
    <3>2. desk' \in [Desks -> [on : BOOLEAN, open : 0..listed, who : Housemates \cup {Unnamed},
                        asking : {"no", "list", "item", "switch"}, about : Nat]]
      <4> DEFINE R == [on : BOOLEAN, open : 0..listed, who : Housemates \cup {Unnamed},
                       asking : {"no", "list", "item", "switch"}, about : Nat]
                 w == [desk[d] EXCEPT !.asking = "item", !.about = n]
      <4>1. desk[d] \in R /\ n \in Nat
        BY <1>1, <1>5
      <4>2. w \in R
        BY <4>1
      <4>3. desk' = [desk EXCEPT ![d] = w]
        BY <2>1, <1>5
      <4> HIDE DEF w, R
      <4>4. desk \in [Desks -> R]
        BY <1>5 DEF R
      <4>5. desk' \in [Desks -> R]
        BY <4>2, <4>3, <4>4
      <4> QED BY <4>5 DEF R
    <3>3. DOMAIN lists \subseteq 1..listed /\ \A id \in DOMAIN lists : Distinct(lists[id]) /\ \A k \in 1..Len(lists[id]) : Speaks(lists[id][k])
      BY DEF ListsInv, ListedTypes
    <3>4. away \subseteq Entered' /\ undone \subseteq Entered'
      BY <1>2, <1>4
    <3> QED BY <3>1, <3>2, <3>3, <3>4, <2>1, <1>1, <1>2 DEF ListedTypes, Distinct, Speaks
  <2>4. \A e \in Desks : desk'[e] = (IF e = d THEN [desk[d] EXCEPT !.asking = "item", !.about = n] ELSE desk[e])
    BY <2>1, <1>5
  <2>5. desk'[d].asking = "item" /\ desk'[d].about = n /\ desk'[d].open = on /\ desk'[d].on = desk[d].on
    BY <2>4, <1>5 DEF on
  <2>6. \A m, id : Stands(m, id)' <=> Stands(m, id)
    BY <2>1 DEF Stands
  <2>7. AskedIsHeld'
    <3> SUFFICES ASSUME NEW e \in Desks, desk'[e].asking = "item"
                 PROVE  /\ desk'[e].about \in Entered'
                        /\ \A id \in DOMAIN lists : ~Stands(desk'[e].about, id)
                        /\ \A f \in Desks : desk'[f].asking = "item" /\ desk'[f].about = desk'[e].about => e = f
                        /\ desk'[e].about \notin away \cup undone => Shows(e)' /\ desk'[e].open = enteredOn'[desk'[e].about]
      BY <2>1, <1>1 DEF AskedIsHeld, Stands
    <3>0. \A f \in Desks \ {d} : desk'[f] = desk[f] /\ (desk[f].asking = "item" => desk[f].about # n)
      BY <2>4, <1>2, <1>4
    <3>1. CASE e = d
      <4>1. desk'[e].about = n /\ n \in Entered' /\ \A id \in DOMAIN lists : ~Stands(n, id)
        BY <3>1, <2>5, <1>2, <1>3
      <4>2. \A f \in Desks : desk'[f].asking = "item" /\ desk'[f].about = desk'[e].about => e = f
        BY <3>0, <3>1, <4>1
      <4>3. Shows(e)' /\ desk'[e].open = enteredOn'[desk'[e].about]
        BY <3>1, <4>1, <2>1, <2>5, <1>1, <1>2 DEF Shows, IsThere
      <4> QED BY <4>1, <4>2, <4>3
    <3>2. CASE e # d
      <4>1. desk'[e] = desk[e] /\ desk[e].asking = "item" /\ desk[e].about # n /\ desk[e].about \in Entered
        BY <3>0, <3>2, <1>4
      <4>2. \A f \in Desks : desk'[f].asking = "item" /\ desk'[f].about = desk'[e].about => e = f
        BY <3>0, <4>1, <2>5, <1>6
      <4>3. desk'[e].about \notin away \cup undone => Shows(e)' /\ desk'[e].open = enteredOn'[desk'[e].about]
        BY <4>1, <2>1, <1>2, <1>6 DEF Shows, IsThere
      <4> QED BY <4>1, <4>2, <4>3, <1>2, <1>6
    <3> QED BY <3>1, <3>2
  <2>8. EnteredStands'
    <3> SUFFICES ASSUME NEW m \in Entered' \ (away \cup undone)
                 PROVE  \/ /\ enteredOn'[m] \in DOMAIN lists /\ Stands(m, enteredOn'[m])
                           /\ \A id \in DOMAIN lists : Stands(m, id) => id = enteredOn'[m]
                        \/ (\A id \in DOMAIN lists : ~Stands(m, id)) /\ \E e \in Desks : AsksAbout(e, m)'
      BY <2>1, <1>1 DEF EnteredStands, Stands
    <3>1. CASE m = n
      BY <3>1, <1>3, <2>5 DEF AsksAbout
    <3>2. CASE m # n
      <4>1. m \in Entered \ (away \cup undone) /\ enteredOn'[m] = enteredOn[m]
        BY <3>2, <1>2
      <4>2. \A e \in Desks : AsksAbout(e, m) => e # d
        BY <1>8, <1>1 DEF AddItem, AsksAbout
      <4>3. \A e \in Desks : AsksAbout(e, m) => AsksAbout(e, m)'
        BY <4>2, <2>4 DEF AsksAbout
      <4> QED BY <4>1, <4>3, <1>7
    <3> QED BY <3>1, <3>2
  <2> QED BY <2>3, <2>7, <2>8 DEF ListsInv
<1>9. CASE ~MustAsk(d)
  <2>1. WritesItem(d, n, desk[d].who) /\ desk' = desk
    BY <1>1, <1>2, <1>9 DEF AddItem
  <2>2. /\ DOMAIN lists' = DOMAIN lists
        /\ \A id \in DOMAIN lists : \A m : Stands(m, id)' <=> Stands(m, id) \/ (m = n /\ id = on)
        /\ \A id \in DOMAIN lists : /\ lists'[id] \in Seq(AnItem') /\ Distinct(lists'[id])
                                   /\ \A k \in 1..Len(lists'[id]) : Speaks(lists'[id][k])
    BY <1>1, <1>2, <1>3, <1>5, <2>1, Writing DEF on
  <2>3. ListedTypes'
    BY <2>1, <2>2, <1>1, <1>2, <1>4, <1>5 DEF ListsInv, ListedTypes, Distinct, Speaks
  <2>4. AskedIsHeld'
    <3> SUFFICES ASSUME NEW e \in Desks, desk[e].asking = "item"
                 PROVE  /\ desk[e].about \in Entered'
                        /\ \A id \in DOMAIN lists : ~Stands(desk[e].about, id)'
                        /\ \A f \in Desks : desk[f].asking = "item" /\ desk[f].about = desk[e].about => e = f
                        /\ desk[e].about \notin away \cup undone => Shows(e)' /\ desk[e].open = enteredOn'[desk[e].about]
      BY <2>1, <2>2, <1>1 DEF AskedIsHeld, Stands
    <3>1. desk[e].about \in Entered /\ desk[e].about # n
      BY <1>2, <1>4
    <3> QED BY <3>1, <2>1, <2>2, <1>2, <1>6 DEF Shows, IsThere
  <2>5. EnteredStands'
    <3> DEFINE is(m, id) == m \in Ids(lists'[id])
    <3>a. \A m, id : Stands(m, id)' <=> is(m, id)
      BY DEF Stands, Ids
    <3>0. \A id \in DOMAIN lists : \A m : is(m, id) <=> Stands(m, id) \/ (m = n /\ id = on)
      BY <2>2, <3>a
    <3>1. EnteredStands' <=> \A m \in Entered' \ (away \cup undone) :
                              \/ /\ enteredOn'[m] \in DOMAIN lists /\ is(m, enteredOn'[m])
                                 /\ \A id \in DOMAIN lists : is(m, id) => id = enteredOn'[m]
                              \/ (\A id \in DOMAIN lists : ~is(m, id)) /\ \E e \in Desks : AsksAbout(e, m)
      BY <2>1, <2>2, <1>1 DEF EnteredStands, Stands, AsksAbout, Ids
    <3> HIDE DEF is
    <3>2. ASSUME NEW m \in Entered' \ (away \cup undone)
          PROVE  \/ /\ enteredOn'[m] \in DOMAIN lists /\ is(m, enteredOn'[m])
                    /\ \A id \in DOMAIN lists : is(m, id) => id = enteredOn'[m]
                 \/ (\A id \in DOMAIN lists : ~is(m, id)) /\ \E e \in Desks : AsksAbout(e, m)
      <4>1. CASE m = n
        BY <4>1, <1>1, <1>2, <1>3, <3>0
      <4>2. CASE m # n
        <5>1. m \in Entered \ (away \cup undone) /\ enteredOn'[m] = enteredOn[m]
          BY <4>2, <1>2
        <5> QED BY <5>1, <4>2, <1>7, <3>0
      <4> QED BY <4>1, <4>2
    <3> QED BY <3>1, <3>2
  <2> QED BY <2>3, <2>4, <2>5 DEF ListsInv
<1> QED BY <1>8, <1>9

\* A screen goes elsewhere, or a list is made or removed: nothing is written.
LEMMA ScreenChanges ==
    ASSUME ListsInv, NEW d \in Desks, ListedTypes', enteredOn' = enteredOn, away \subseteq away', undone \subseteq undone',
           \A e \in Desks \ {d} : desk'[e] = desk[e],
           desk'[d].asking = "item" => desk[d].asking = "item" /\ desk'[d].about = desk[d].about,
           desk'[d].asking = "item" /\ desk'[d].about \notin away' \cup undone'
              => desk'[d].on = desk[d].on /\ desk'[d].open = desk[d].open,
           desk[d].asking = "item" /\ desk'[d].asking # "item" => desk[d].about \in away',
           \A id \in DOMAIN lists' : \A m \in Ids(lists'[id]) : id \in DOMAIN lists /\ m \in Ids(lists[id]),
           \A id \in DOMAIN lists : \A m \in Ids(lists[id]) \ undone' : id \in DOMAIN lists' /\ m \in Ids(lists'[id]),
           \A id \in DOMAIN lists \ DOMAIN lists' : \A m \in Entered : enteredOn[m] = id => m \in undone'
    PROVE  ListsInv'
<1> DEFINE was(m, id) == m \in Ids(lists[id])
           is(m, id) == m \in Ids(lists'[id])
<1>1. \A m, id : (Stands(m, id) <=> was(m, id)) /\ (Stands(m, id)' <=> is(m, id))
  BY DEF Stands, Ids
<1>2. Entered' = Entered
  BY DEF Entered
<1>3. \A e \in Desks : desk[e].asking = "item" =>
       /\ desk[e].about \in Entered
       /\ \A id \in DOMAIN lists : ~was(desk[e].about, id)
       /\ \A f \in Desks : desk[f].asking = "item" /\ desk[f].about = desk[e].about => e = f
       /\ desk[e].about \notin away \cup undone => Shows(e) /\ desk[e].open = enteredOn[desk[e].about]
  BY <1>1 DEF ListsInv, AskedIsHeld
<1>4. \A m \in Entered \ (away \cup undone) :
       \/ /\ enteredOn[m] \in DOMAIN lists /\ was(m, enteredOn[m])
          /\ \A id \in DOMAIN lists : was(m, id) => id = enteredOn[m]
       \/ (\A id \in DOMAIN lists : ~was(m, id)) /\ \E e \in Desks : AsksAbout(e, m)
  BY <1>1 DEF ListsInv, EnteredStands
<1>5. /\ \A id \in DOMAIN lists' : \A m : is(m, id) => id \in DOMAIN lists /\ was(m, id)
      /\ \A id \in DOMAIN lists : \A m : was(m, id) /\ m \notin undone' => id \in DOMAIN lists' /\ is(m, id)
  OBVIOUS
<1>6. AskedIsHeld'
  <2>1. AskedIsHeld' <=> \A e \in Desks : desk'[e].asking = "item" =>
           /\ desk'[e].about \in Entered
           /\ \A id \in DOMAIN lists' : ~is(desk'[e].about, id)
           /\ \A f \in Desks : desk'[f].asking = "item" /\ desk'[f].about = desk'[e].about => e = f
           /\ desk'[e].about \notin away' \cup undone' => Shows(e)' /\ desk'[e].open = enteredOn[desk'[e].about]
    BY <1>2 DEF AskedIsHeld, Stands, Ids
  <2> HIDE DEF is, was
  <2>2. ASSUME NEW e \in Desks, desk'[e].asking = "item"
        PROVE  /\ desk'[e].about \in Entered
               /\ \A id \in DOMAIN lists' : ~is(desk'[e].about, id)
               /\ \A f \in Desks : desk'[f].asking = "item" /\ desk'[f].about = desk'[e].about => e = f
               /\ desk'[e].about \notin away' \cup undone' => Shows(e)' /\ desk'[e].open = enteredOn[desk'[e].about]
    <3>1. \A f \in Desks : desk'[f].asking = "item" => desk[f].asking = "item" /\ desk'[f].about = desk[f].about
      OBVIOUS
    <3>2. desk'[e].about \in Entered /\ \A id \in DOMAIN lists' : ~is(desk'[e].about, id)
      BY <2>2, <3>1, <1>3, <1>5
    <3>3. \A f \in Desks : desk'[f].asking = "item" /\ desk'[f].about = desk'[e].about => e = f
      BY <2>2, <3>1, <1>3
    <3>4. ASSUME desk'[e].about \notin away' \cup undone'
          PROVE  Shows(e)' /\ desk'[e].open = enteredOn[desk'[e].about]
      <4>1. desk'[e].on = desk[e].on /\ desk'[e].open = desk[e].open
        BY <2>2, <3>4
      <4>2. Shows(e) /\ desk[e].open = enteredOn[desk[e].about] /\ desk[e].about \in Entered
        BY <2>2, <3>1, <3>4, <1>3
      <4>3. enteredOn[desk[e].about] \in DOMAIN lists'
        BY <4>2, <2>2, <3>1, <3>4 DEF Shows, IsThere
      <4> QED BY <2>2, <3>1, <4>1, <4>2, <4>3 DEF Shows, IsThere
    <3> QED BY <3>2, <3>3, <3>4
  <2> QED BY <2>1, <2>2
<1>7. EnteredStands'
  <2>1. EnteredStands' <=> \A m \in Entered \ (away' \cup undone') :
             \/ /\ enteredOn[m] \in DOMAIN lists' /\ is(m, enteredOn[m])
                /\ \A id \in DOMAIN lists' : is(m, id) => id = enteredOn[m]
             \/ (\A id \in DOMAIN lists' : ~is(m, id)) /\ \E e \in Desks : desk'[e].asking = "item" /\ desk'[e].about = m
    BY <1>2 DEF EnteredStands, Stands, AsksAbout, Ids
  <2> HIDE DEF is, was
  <2>2. ASSUME NEW m \in Entered \ (away' \cup undone')
        PROVE  \/ /\ enteredOn[m] \in DOMAIN lists' /\ is(m, enteredOn[m])
                  /\ \A id \in DOMAIN lists' : is(m, id) => id = enteredOn[m]
               \/ (\A id \in DOMAIN lists' : ~is(m, id)) /\ \E e \in Desks : desk'[e].asking = "item" /\ desk'[e].about = m
    <3>1. m \in Entered \ (away \cup undone)
      OBVIOUS
    <3>2. CASE enteredOn[m] \in DOMAIN lists /\ was(m, enteredOn[m]) /\ \A id \in DOMAIN lists : was(m, id) => id = enteredOn[m]
      BY <3>2, <1>5
    <3>3. CASE (\A id \in DOMAIN lists : ~was(m, id)) /\ \E e \in Desks : AsksAbout(e, m)
      <4>1. PICK e \in Desks : desk[e].asking = "item" /\ desk[e].about = m
        BY <3>3 DEF AsksAbout
      <4>2. desk'[e].asking = "item" /\ desk'[e].about = m
        BY <4>1
      <4> QED BY <3>3, <4>2, <1>5
    <3> QED BY <3>1, <3>2, <3>3, <1>4
  <2> QED BY <2>1, <2>2
<1> QED BY <1>6, <1>7 DEF ListsInv

ScreenType == [on : BOOLEAN, open : 0..listed, who : Housemates \cup {Unnamed},
               asking : {"no", "list", "item", "switch"}, about : Nat]

\* A list is started on a screen that asks no more, or goes on asking for another list.
LEMMA ListIsStarted ==
    ASSUME ListsInv, NEW d \in Desks, NEW w \in ScreenType, StartsList(d, w), UNCHANGED <<enteredOn, undone>>,
           away \subseteq away', away' \subseteq Entered,
           w.asking = "item" => desk[d].asking = "item" /\ w.about = desk[d].about /\ w.about \in away',
           desk[d].asking = "item" /\ w.asking # "item" => desk[d].about \in away'
    PROVE  ListsInv'
<1>0. listed \in Nat /\ enteredOn \in Seq(1..listed) /\ DOMAIN lists \subseteq 1..listed /\ desk \in [Desks -> ScreenType]
      /\ undone \subseteq Entered
      /\ \A id \in DOMAIN lists : lists[id] \in Seq(AnItem) /\ Distinct(lists[id]) /\ \A k \in 1..Len(lists[id]) : Speaks(lists[id][k])
  BY DEF ListsInv, ListedTypes, ScreenType
<1>1. /\ listed' = listed + 1 /\ desk' = [desk EXCEPT ![d] = [w EXCEPT !.open = listed']]
      /\ lists' = [i \in DOMAIN lists \cup {listed'} |-> IF i = listed' THEN <<>> ELSE lists[i]]
      /\ enteredOn' = enteredOn /\ undone' = undone /\ Entered' = Entered
  BY DEF StartsList, CreateList, Entered
<1>2. DOMAIN lists' = DOMAIN lists \cup {listed'} /\ listed' \notin DOMAIN lists
  BY <1>0, <1>1
<1>3. lists'[listed'] = <<>> /\ \A i \in DOMAIN lists : lists'[i] = lists[i]
  BY <1>1, <1>2
<1>4. ListedTypes'
  <2>1. [w EXCEPT !.open = listed'] \in ScreenType'
    <3>1. listed' \in 0..listed'
      BY <1>0, <1>1
    <3> QED BY <3>1 DEF ScreenType
  <2>2. ScreenType \subseteq ScreenType'
    <3>1. 0..listed \subseteq 0..listed'
      BY <1>0, <1>1
    <3> QED BY <3>1 DEF ScreenType
  <2>3. desk' \in [Desks -> ScreenType']
    BY <1>0, <1>1, <2>1, <2>2
  <2>4. enteredOn \in Seq(1..listed') /\ DOMAIN lists' \subseteq 1..listed' /\ listed' \in Nat
    <3>1. 1..listed \subseteq 1..listed' /\ listed' \in Nat /\ listed' \in 1..listed'
      BY <1>0, <1>1
    <3> QED BY <3>1, <1>0, <1>2
  <2>5. AnItem' = AnItem
    BY <1>1 DEF AnItem
  <2>6. \A id \in DOMAIN lists' : /\ lists'[id] \in Seq(AnItem) /\ Distinct(lists'[id])
                                /\ \A k \in 1..Len(lists'[id]) : Speaks(lists'[id][k])
    <3>1. <<>> \in Seq(AnItem) /\ Distinct(<<>>)
      BY DEF Distinct
    <3>2. \A k \in 1..Len(<<>>) : FALSE
      OBVIOUS
    <3> QED BY <3>1, <3>2, <1>0, <1>2, <1>3
  <2> QED BY SMTT(30), <2>3, <2>4, <2>5, <2>6, <1>0, <1>1 DEF ListedTypes, ScreenType, Distinct, Speaks
<1>5. desk'[d] = [w EXCEPT !.open = listed'] /\ \A e \in Desks \ {d} : desk'[e] = desk[e]
  BY <1>0, <1>1
<1>6. desk'[d].asking = w.asking /\ desk'[d].about = w.about
  BY <1>5 DEF ScreenType
<1>7. Ids(<<>>) = {}
  BY DEF Ids
<1>8. \A id \in DOMAIN lists' : \A m \in Ids(lists'[id]) : id \in DOMAIN lists /\ m \in Ids(lists[id])
  BY <1>2, <1>3, <1>7
<1>9. \A id \in DOMAIN lists : \A m \in Ids(lists[id]) : id \in DOMAIN lists' /\ m \in Ids(lists'[id])
  BY <1>2, <1>3
<1>10. \A id \in DOMAIN lists : id \in DOMAIN lists'
  BY <1>2
<1>11. desk'[d].asking = "item" => desk[d].asking = "item" /\ desk'[d].about = desk[d].about /\ desk'[d].about \in away'
  BY <1>6
<1>12. desk[d].asking = "item" /\ desk'[d].asking # "item" => desk[d].about \in away'
  BY <1>6
<1> HIDE DEF ListsInv
<1> QED BY <1>1, <1>4, <1>5, <1>8, <1>9, <1>10, <1>11, <1>12, ScreenChanges

\* Lists that stay what they are, if they stay.
LEMMA SameTypes ==
    ASSUME ListsInv, UNCHANGED <<listed, enteredOn>>, DOMAIN lists' \subseteq DOMAIN lists,
           \A id \in DOMAIN lists' : lists'[id] = lists[id],
           away' \subseteq Entered, undone' \subseteq Entered, desk' \in [Desks -> ScreenType]
    PROVE  ListedTypes'
<1>1. AnItem' = AnItem /\ Entered' = Entered
  BY DEF AnItem, Entered
<1>2. listed \in Nat /\ DOMAIN lists' \subseteq 1..listed /\ enteredOn \in Seq(1..listed)
  BY DEF ListsInv, ListedTypes
<1>3. \A id \in DOMAIN lists' : /\ lists'[id] \in Seq(AnItem) /\ Distinct(lists'[id])
                              /\ \A k \in 1..Len(lists'[id]) : Speaks(lists'[id][k])
  BY DEF ListsInv, ListedTypes
<1> QED BY <1>1, <1>2, <1>3 DEF ListedTypes, ScreenType, Distinct, Speaks

LEMMA UndoneWasEntered == ListsInv => away \subseteq Entered /\ undone \subseteq Entered
BY DEF ListsInv, ListedTypes

LEMMA LeavingIsNoted ==
    ASSUME ListsInv, NEW d \in Desks, Leaves(d)
    PROVE  /\ away \subseteq away' /\ away' \subseteq Entered
           /\ desk[d].asking = "item" => desk[d].about \in away'
BY DEF ListsInv, ListedTypes, AskedIsHeld, Leaves

LEMMA ListIsAdded == ASSUME ListsInv, NEW d \in Desks, AddList(d) PROVE ListsInv'
<1>1. /\ away \subseteq away' /\ away' \subseteq Entered
      /\ desk[d].asking = "item" => desk[d].about \in away'
  BY LeavingIsNoted DEF AddList
<1>2. desk \in [Desks -> ScreenType] /\ UNCHANGED <<enteredOn, undone>>
  BY DEF ListsInv, ListedTypes, ScreenType, AddList
<1>3. CASE ~MustAsk(d)
  <2>1. StartsList(d, desk[d]) /\ desk[d] \in ScreenType
    BY <1>2, <1>3 DEF AddList
  <2> QED BY <1>1, <1>2, <2>1, ListIsStarted
<1>4. CASE MustAsk(d)
  <2>1. desk' = [desk EXCEPT ![d].asking = "list"] /\ lists' = lists /\ listed' = listed
    BY <1>4 DEF AddList
  <2>2. desk' \in [Desks -> ScreenType] /\ desk'[d].asking = "list" /\ \A e \in Desks \ {d} : desk'[e] = desk[e]
    BY <1>2, <2>1 DEF ScreenType
  <2>3. ListedTypes'
    BY <1>1, <1>2, <2>1, <2>2, SameTypes, UndoneWasEntered
  <2> QED BY <1>1, <1>2, <2>1, <2>2, <2>3, ScreenChanges
<1> QED BY <1>3, <1>4

LEMMA ScreenIsPassedOn == ASSUME ListsInv, NEW d \in Desks, HandOver(d) PROVE ListsInv'
<1>1. /\ away \subseteq away' /\ away' \subseteq Entered
      /\ desk[d].asking = "item" => desk[d].about \in away'
  BY LeavingIsNoted DEF HandOver
<1>2. desk \in [Desks -> ScreenType] /\ UNCHANGED <<lists, listed, enteredOn, undone>>
  BY DEF ListsInv, ListedTypes, ScreenType, HandOver
<1>3. desk' = [desk EXCEPT ![d].asking = "switch"]
  BY DEF HandOver
<1>4. desk' \in [Desks -> ScreenType] /\ desk'[d].asking = "switch" /\ \A e \in Desks \ {d} : desk'[e] = desk[e]
  BY <1>2, <1>3 DEF ScreenType
<1>5. ListedTypes'
  BY <1>1, <1>2, <1>4, SameTypes, UndoneWasEntered
<1> QED BY <1>1, <1>2, <1>4, <1>5, ScreenChanges

LEMMA TabIsOpened == ASSUME ListsInv, NEW d \in Desks, OpenListTab(d) PROVE ListsInv'
<1>1. desk \in [Desks -> ScreenType] /\ UNCHANGED <<lists, listed, enteredOn, away, undone>>
  BY DEF ListsInv, ListedTypes, ScreenType, OpenListTab
<1>2. /\ desk' \in [Desks -> ScreenType] /\ \A e \in Desks \ {d} : desk'[e] = desk[e]
      /\ desk'[d].asking = desk[d].asking /\ desk'[d].about = desk[d].about /\ desk'[d].open = desk[d].open
      /\ ~desk[d].on
  BY <1>1 DEF ScreenType, OpenListTab
<1>3. ListedTypes'
  BY <1>1, <1>2, SameTypes, UndoneWasEntered
<1>4. ~(desk[d].asking = "item" /\ desk[d].about \notin away \cup undone)
  BY <1>2 DEF ListsInv, AskedIsHeld, Shows
<1> QED BY <1>1, <1>2, <1>3, <1>4, ScreenChanges

LEMMA TabIsLeft == ASSUME ListsInv, NEW d \in Desks, LeaveTab(d) PROVE ListsInv'
<1>1. /\ away \subseteq away' /\ away' \subseteq Entered
      /\ desk[d].asking = "item" => desk[d].about \in away'
  BY LeavingIsNoted DEF LeaveTab
<1>2. desk \in [Desks -> ScreenType] /\ UNCHANGED <<lists, listed, enteredOn, undone>> /\ listed \in Nat
  BY DEF ListsInv, ListedTypes, ScreenType, LeaveTab
<1>3. NoDesk \in ScreenType /\ NoDesk.asking = "no"
  BY <1>2 DEF ScreenType, NoDesk
<1>4. desk' \in [Desks -> ScreenType] /\ desk'[d].asking = "no" /\ \A e \in Desks \ {d} : desk'[e] = desk[e]
  BY <1>2, <1>3 DEF LeaveTab
<1>5. ListedTypes'
  BY <1>1, <1>2, <1>4, SameTypes, UndoneWasEntered
<1> QED BY <1>1, <1>2, <1>4, <1>5, ScreenChanges

LEMMA ListIsOpened == ASSUME ListsInv, NEW d \in Desks, NEW id \in 1..listed, OpenList(d, id) PROVE ListsInv'
<1>1. desk \in [Desks -> ScreenType] /\ UNCHANGED <<lists, listed, enteredOn, away, undone>> /\ ~Shows(d)
  BY DEF ListsInv, ListedTypes, ScreenType, OpenList
<1>2. /\ desk' \in [Desks -> ScreenType] /\ \A e \in Desks \ {d} : desk'[e] = desk[e]
      /\ desk'[d].asking = desk[d].asking /\ desk'[d].about = desk[d].about
  BY <1>1 DEF ScreenType, OpenList
<1>3. ListedTypes'
  BY <1>1, <1>2, SameTypes, UndoneWasEntered
<1>4. ~(desk[d].asking = "item" /\ desk[d].about \notin away \cup undone)
  BY <1>1 DEF ListsInv, AskedIsHeld
<1> QED BY <1>1, <1>2, <1>3, <1>4, ScreenChanges

LEMMA ListIsShut == ASSUME ListsInv, NEW d \in Desks, BackToShelf(d) PROVE ListsInv'
<1>1. /\ away \subseteq away' /\ away' \subseteq Entered
      /\ desk[d].asking = "item" => desk[d].about \in away'
  BY LeavingIsNoted DEF BackToShelf
<1>2. desk \in [Desks -> ScreenType] /\ UNCHANGED <<lists, listed, enteredOn, undone>> /\ listed \in Nat
  BY DEF ListsInv, ListedTypes, ScreenType, BackToShelf
<1>3. /\ desk' \in [Desks -> ScreenType] /\ \A e \in Desks \ {d} : desk'[e] = desk[e]
      /\ desk'[d].asking = desk[d].asking /\ desk'[d].about = desk[d].about
  BY <1>2 DEF ScreenType, BackToShelf
<1>4. ListedTypes'
  BY <1>1, <1>2, <1>3, SameTypes, UndoneWasEntered
<1> QED BY <1>1, <1>2, <1>3, <1>4, ScreenChanges

LEMMA ListIsRemoved == ASSUME ListsInv, NEW d \in Desks, RemoveList(d) PROVE ListsInv'
<1> DEFINE on == desk[d].open
<1>1. /\ away \subseteq away' /\ away' \subseteq Entered
      /\ desk[d].asking = "item" => desk[d].about \in away'
  BY LeavingIsNoted DEF RemoveList
<1>2. desk \in [Desks -> ScreenType] /\ UNCHANGED <<listed, enteredOn>> /\ listed \in Nat /\ on \in DOMAIN lists
  BY DEF ListsInv, ListedTypes, ScreenType, RemoveList, Shows, IsThere
<1>3. /\ desk' \in [Desks -> ScreenType] /\ \A e \in Desks \ {d} : desk'[e] = desk[e]
      /\ desk'[d].asking = desk[d].asking /\ desk'[d].about = desk[d].about
  BY <1>2 DEF ScreenType, RemoveList
<1>4. /\ DOMAIN lists' = DOMAIN lists \ {on} /\ \A id \in DOMAIN lists' : lists'[id] = lists[id]
      /\ undone' = undone \cup {n \in Entered : enteredOn[n] = on} \cup Ids(lists[on])
  BY <1>2 DEF RemoveList, OnScreen, ItemsOf, IsThere, Ids
<1>5. Ids(lists[on]) \subseteq Entered
  <2>1. lists[on] \in Seq(AnItem)
    BY <1>2 DEF ListsInv, ListedTypes
  <2>2. \A k \in 1..Len(lists[on]) : lists[on][k] \in AnItem
    BY <2>1
  <2>3. \A k \in 1..Len(lists[on]) : lists[on][k].id \in Entered
    BY <2>2 DEF AnItem, Entered
  <2> QED BY <2>3 DEF Ids
<1> HIDE DEF on
<1>6. ListedTypes'
  BY <1>1, <1>2, <1>3, <1>4, <1>5, SameTypes, UndoneWasEntered
<1>7. \A id \in DOMAIN lists : \A m \in Ids(lists[id]) \ undone' : id \in DOMAIN lists' /\ m \in Ids(lists'[id])
  BY <1>4
<1>8. \A id \in DOMAIN lists' : \A m \in Ids(lists'[id]) : id \in DOMAIN lists /\ m \in Ids(lists[id])
  BY <1>4
<1>9. \A id \in DOMAIN lists \ DOMAIN lists' : \A m \in Entered : enteredOn[m] = id => m \in undone'
  BY <1>4
<1> QED BY <1>1, <1>2, <1>3, <1>4, <1>6, <1>7, <1>8, <1>9, ScreenChanges

LEMMA WhoIsAnswered ==
    ASSUME ListsInv, NEW d \in Desks, NEW person \in Housemates \cup {Unnamed}, AnswerWho(d, person) PROVE ListsInv'
<1> DEFINE w == [desk[d] EXCEPT !.who = person, !.asking = "no", !.about = 0]
           n == desk[d].about
           on == desk[d].open
<1>1. /\ desk \in [Desks -> ScreenType] /\ UNCHANGED <<enteredOn, away, undone>> /\ listed \in Nat /\ Entered' = Entered
      /\ enteredOn \in Seq(1..listed) /\ away \subseteq Entered /\ undone \subseteq Entered /\ DOMAIN lists \subseteq 1..listed
  BY DEF ListsInv, ListedTypes, ScreenType, AnswerWho, Entered
<1>2. w \in ScreenType /\ w.asking = "no"
  BY <1>1 DEF ScreenType
<1>3. CASE desk[d].asking # "item"
  <2>1. StartsList(d, w)
    BY <1>3 DEF AnswerWho
  <2> HIDE DEF w
  <2> QED BY <1>1, <1>2, <1>3, <2>1, ListIsStarted
<1>4. CASE desk[d].asking = "item"
  <2>1. WritesItem(d, n, person) /\ desk' = [desk EXCEPT ![d] = w] /\ listed' = listed
    BY <1>4 DEF AnswerWho
  <2>2. /\ n \in Entered /\ n \in Nat /\ \A id \in DOMAIN lists : ~Stands(n, id)
        /\ n \notin away \cup undone => Shows(d) /\ on = enteredOn[n]
    BY <1>4 DEF ListsInv, AskedIsHeld, Entered
  <2> HIDE DEF w, n, on
  <2>3. /\ DOMAIN lists' = DOMAIN lists
        /\ \A id \in DOMAIN lists : \A m : Stands(m, id)' <=> Stands(m, id) \/ (m = n /\ id = on)
        /\ \A id \in DOMAIN lists : /\ lists'[id] \in Seq(AnItem') /\ Distinct(lists'[id])
                                   /\ \A k \in 1..Len(lists'[id]) : Speaks(lists'[id][k])
    BY <1>1, <2>1, <2>2, Writing DEF on
  <2>4. desk' \in [Desks -> ScreenType] /\ desk'[d].asking = "no" /\ \A e \in Desks \ {d} : desk'[e] = desk[e]
    BY <1>1, <1>2, <2>1
  <2>5. ListedTypes'
    BY <1>1, <2>1, <2>3, <2>4 DEF ListedTypes, ScreenType, Distinct, Speaks
  <2> DEFINE is(m, id) == m \in Ids(lists'[id])
  <2>6. \A m, id : Stands(m, id)' <=> is(m, id)
    BY DEF Stands, Ids
  <2>7. \A id \in DOMAIN lists : \A m : is(m, id) <=> Stands(m, id) \/ (m = n /\ id = on)
    BY <2>3, <2>6
  <2>8. \A e \in Desks : desk'[e].asking = "item" =>
           /\ e # d /\ desk'[e] = desk[e] /\ desk[e].about \in Entered /\ desk[e].about # n
           /\ \A id \in DOMAIN lists : ~Stands(desk[e].about, id)
           /\ \A f \in Desks : desk[f].asking = "item" /\ desk[f].about = desk[e].about => e = f
           /\ desk[e].about \notin away \cup undone => Shows(e) /\ desk[e].open = enteredOn[desk[e].about]
    BY <1>4, <2>4 DEF ListsInv, AskedIsHeld, n
  <2>9. AskedIsHeld'
    <3>1. AskedIsHeld' <=> \A e \in Desks : desk'[e].asking = "item" =>
             /\ desk'[e].about \in Entered
             /\ \A id \in DOMAIN lists : ~is(desk'[e].about, id)
             /\ \A f \in Desks : desk'[f].asking = "item" /\ desk'[f].about = desk'[e].about => e = f
             /\ desk'[e].about \notin away \cup undone => Shows(e)' /\ desk'[e].open = enteredOn[desk'[e].about]
      BY <1>1, <2>3 DEF AskedIsHeld, Stands, Ids
    <3> HIDE DEF is
    <3>2. \A e \in Desks : desk'[e] = desk[e] => (Shows(e)' <=> Shows(e))
      BY <2>3 DEF Shows, IsThere
    <3> QED BY <3>1, <3>2, <2>7, <2>8
  <2>10. EnteredStands'
    <3>1. EnteredStands' <=> \A m \in Entered \ (away \cup undone) :
             \/ /\ enteredOn[m] \in DOMAIN lists /\ is(m, enteredOn[m])
                /\ \A id \in DOMAIN lists : is(m, id) => id = enteredOn[m]
             \/ (\A id \in DOMAIN lists : ~is(m, id)) /\ \E e \in Desks : desk'[e].asking = "item" /\ desk'[e].about = m
      BY <1>1, <2>3 DEF EnteredStands, Stands, AsksAbout, Ids
    <3> HIDE DEF is
    <3>2. ASSUME NEW m \in Entered \ (away \cup undone)
          PROVE  \/ /\ enteredOn[m] \in DOMAIN lists /\ is(m, enteredOn[m])
                    /\ \A id \in DOMAIN lists : is(m, id) => id = enteredOn[m]
                 \/ (\A id \in DOMAIN lists : ~is(m, id)) /\ \E e \in Desks : desk'[e].asking = "item" /\ desk'[e].about = m
      <4>1. CASE m = n
        <5>1. on \in DOMAIN lists /\ on = enteredOn[m] /\ \A id \in DOMAIN lists : ~Stands(m, id)
          BY <4>1, <2>2 DEF Shows, IsThere, on
        <5> QED BY <4>1, <5>1, <2>7
      <4>2. CASE m # n
        <5>1. \/ /\ enteredOn[m] \in DOMAIN lists /\ Stands(m, enteredOn[m])
                 /\ \A id \in DOMAIN lists : Stands(m, id) => id = enteredOn[m]
              \/ (\A id \in DOMAIN lists : ~Stands(m, id)) /\ \E e \in Desks : AsksAbout(e, m)
          BY DEF ListsInv, EnteredStands
        <5>2. \A e \in Desks : AsksAbout(e, m) => desk'[e].asking = "item" /\ desk'[e].about = m
          BY <4>2, <2>4 DEF AsksAbout, n
        <5> QED BY <4>2, <5>1, <5>2, <2>7
      <4> QED BY <4>1, <4>2
    <3> QED BY <3>1, <3>2
  <2> QED BY <2>5, <2>9, <2>10 DEF ListsInv
<1> QED BY <1>3, <1>4

LEMMA ItemsWereEntered ==
    ASSUME NEW items \in Seq(AnItem)
    PROVE  Len(items) \in Nat /\ \A j \in 1..Len(items) : items[j] \in AnItem /\ items[j].id \in Entered
<1>1. Len(items) \in Nat /\ \A j \in 1..Len(items) : items[j] \in AnItem
  OBVIOUS
<1>2. \A i \in AnItem : i.id \in Entered
  BY DEF AnItem, Entered
<1> QED BY <1>1, <1>2

\* The buttons of a list that is open.
LEMMA ItemsAreChanged ==
    ASSUME ListsInv, NEW d \in Desks, NEW k \in 1..Len(OnScreen(d)),
           \/ ToggleItem(d, k) \/ RemoveItem(d, k) \/ (\E to \in {k - 1, k + 1} : MoveItem(d, k, to))
           \/ \E person \in Housemates \cup {Unnamed} : AttributeItem(d, k, person)
    PROVE  ListsInv'
<1> DEFINE items == OnScreen(d)
<1>1. desk[d].open \in DOMAIN lists /\ items = lists[desk[d].open]
  BY DEF ToggleItem, RemoveItem, MoveItem, AttributeItem, ChangesItems, Shows, IsThere, OnScreen, ItemsOf
<1>2. items \in Seq(AnItem) /\ Distinct(items) /\ (\A j \in 1..Len(items) : Speaks(items[j])) /\ undone \subseteq Entered
  BY <1>1 DEF ListsInv, ListedTypes
<1>3. Len(items) \in Nat /\ \A j \in 1..Len(items) : items[j] \in AnItem /\ items[j].id \in Entered
  BY <1>2, ItemsWereEntered
<1> HIDE DEF items
<1>4. CASE ToggleItem(d, k)
  <2>1. ChangesItems(d, Toggled(items, items[k].id)) /\ undone' = undone
    BY <1>4 DEF ToggleItem, items
  <2> QED BY <2>1, <1>2, ItemsStay, ItemsChange DEF items
<1>5. CASE \E to \in {k - 1, k + 1} : MoveItem(d, k, to)
  <2>1. PICK to \in 1..Len(items) : ChangesItems(d, Moved(items, k, to)) /\ undone' = undone
    BY <1>5 DEF MoveItem, items
  <2> QED BY <2>1, <1>2, ItemsStay, ItemsChange DEF items
<1>6. CASE \E person \in Housemates \cup {Unnamed} : AttributeItem(d, k, person)
  <2>1. PICK p \in Housemates \cup {Unnamed} : CanReattribute(items[k]) /\ ChangesItems(d, Reattributed(items, items[k].id, p)) /\ undone' = undone
    BY <1>6 DEF AttributeItem, items
  <2> QED BY <2>1, <1>2, ItemsStay, ItemsChange DEF items
<1>7. CASE RemoveItem(d, k)
  <2> DEFINE S == {j \in 1..Len(items) : items[j].id # items[k].id}
             new == AtPlaces(items, S)
  <2>1. ChangesItems(d, new) /\ undone' = undone \cup {items[k].id}
    BY <1>7 DEF RemoveItem, Removed, items
  <2>2. /\ new \in Seq(AnItem) /\ Distinct(new) /\ Ids(new) = {items[i].id : i \in S}
        /\ \A j \in 1..Len(new) : \E i \in S : new[j] = items[i]
    <3>1. S \in SUBSET (1..Len(items))
      OBVIOUS
    <3>2. items \in Seq(AnItem) /\ Distinct(items)
      BY <1>2
    <3> HIDE DEF S
    <3> QED BY <3>1, <3>2, LeavingOut
  <2>3. k \in 1..Len(items)
    BY DEF items
  <2>4. Ids(new) \subseteq Ids(items) /\ Ids(items) \ Ids(new) \subseteq undone' /\ undone' \subseteq Entered
    BY <1>2, <1>3, <2>1, <2>2, <2>3 DEF Ids
  <2>5. \A j \in 1..Len(new) : Speaks(new[j])
    BY <1>2, <2>2
  <2> HIDE DEF new
  <2> QED BY <2>1, <2>2, <2>4, <2>5, <1>2, ItemsChange DEF items
<1> QED BY <1>4, <1>5, <1>6, <1>7

LEMMA TickedAreCleared == ASSUME ListsInv, NEW d \in Desks, ClearTicked(d) PROVE ListsInv'
<1> DEFINE items == OnScreen(d)
           S == {j \in 1..Len(items) : ~items[j].done}
           new == AtPlaces(items, S)
<1>1. desk[d].open \in DOMAIN lists /\ items = lists[desk[d].open]
  BY DEF ClearTicked, ChangesItems, Shows, IsThere, OnScreen, ItemsOf
<1>2. items \in Seq(AnItem) /\ Distinct(items) /\ (\A j \in 1..Len(items) : Speaks(items[j])) /\ undone \subseteq Entered
  BY <1>1 DEF ListsInv, ListedTypes
<1>3. Len(items) \in Nat /\ \A j \in 1..Len(items) : items[j] \in AnItem /\ items[j].id \in Entered
  BY <1>2, ItemsWereEntered
<1>4. ChangesItems(d, new) /\ undone' = undone \cup {items[k].id : k \in {k \in 1..Len(items) : items[k].done}}
  BY DEF ClearTicked, ClearDone
<1> HIDE DEF items
<1>5. /\ new \in Seq(AnItem) /\ Distinct(new) /\ Ids(new) = {items[i].id : i \in S}
      /\ \A j \in 1..Len(new) : \E i \in S : new[j] = items[i]
  <2>1. S \in SUBSET (1..Len(items))
    OBVIOUS
  <2> HIDE DEF S
  <2> QED BY <2>1, <1>2, LeavingOut
<1>6. Ids(new) \subseteq Ids(items) /\ Ids(items) \ Ids(new) \subseteq undone' /\ undone' \subseteq Entered
  BY <1>2, <1>3, <1>4, <1>5 DEF Ids
<1>7. \A j \in 1..Len(new) : Speaks(new[j])
  BY <1>2, <1>5
<1> HIDE DEF new
<1> QED BY <1>2, <1>4, <1>5, <1>6, <1>7, ItemsChange DEF items

LEMMA ListsStep == ListsInv /\ [ListsNext]_listVars => ListsInv'
<1> SUFFICES ASSUME ListsInv, [ListsNext]_listVars PROVE ListsInv'
  OBVIOUS
<1>1. CASE UNCHANGED listVars
  <2>1. UNCHANGED <<lists, desk, listed, enteredOn, away, undone>>
    BY <1>1 DEF listVars
  <2>2. ListedTypes'
    <3>1. desk \in [Desks -> ScreenType]
      BY DEF ListsInv, ListedTypes, ScreenType
    <3> QED BY <2>1, <3>1, SameTypes, UndoneWasEntered
  <2>3. AskedIsHeld'
    BY <2>1 DEF ListsInv, AskedIsHeld, Stands, Ids, Shows, IsThere, Entered
  <2>4. EnteredStands'
    BY <2>1 DEF ListsInv, EnteredStands, Stands, Ids, AsksAbout, Entered
  <2> QED BY <2>2, <2>3, <2>4 DEF ListsInv
<1>2. CASE ListsNext
  <2>1. PICK d \in Desks :
           \/ AddList(d) \/ AddItem(d) \/ HandOver(d) \/ ClearTicked(d) \/ RemoveList(d)
           \/ OpenListTab(d) \/ LeaveTab(d) \/ BackToShelf(d)
           \/ \E person \in Housemates \cup {Unnamed} : AnswerWho(d, person)
           \/ \E id \in 1..listed : OpenList(d, id)
           \/ \E k \in 1..Len(OnScreen(d)) :
                 \/ ToggleItem(d, k) \/ RemoveItem(d, k)
                 \/ \E to \in {k - 1, k + 1} : MoveItem(d, k, to)
                 \/ \E person \in Housemates \cup {Unnamed} : AttributeItem(d, k, person)
    BY <1>2 DEF ListsNext
  <2> QED BY <2>1, ListIsAdded, ItemIsAdded, ScreenIsPassedOn, TickedAreCleared, ListIsRemoved, TabIsOpened,
             TabIsLeft, ListIsShut, WhoIsAnswered, ListIsOpened, ItemsAreChanged
<1> QED BY <1>1, <1>2

LEMMA ListsInvGives == ListsInv => EntriesStand
<1> SUFFICES ASSUME ListsInv PROVE EntriesStand
  OBVIOUS
<1>1. listed \in Nat /\ DOMAIN lists \subseteq 1..listed
  BY DEF ListsInv, ListedTypes
<1>2. \A n : Written(n) = {id \in DOMAIN lists : Stands(n, id)}
  <2> SUFFICES ASSUME NEW n PROVE Written(n) = {id \in DOMAIN lists : Stands(n, id)}
    OBVIOUS
  <2>1. ASSUME NEW id \in 1..listed
        PROVE  (\E k \in 1..Len(ItemsOf(id)) : ItemsOf(id)[k].id = n) <=> id \in DOMAIN lists /\ Stands(n, id)
    <3>1. CASE id \in DOMAIN lists
      BY <3>1 DEF ItemsOf, IsThere, Stands, Ids
    <3>2. CASE id \notin DOMAIN lists
      <4>1. ItemsOf(id) = <<>> /\ Len(<<>>) = 0
        BY <3>2 DEF ItemsOf, IsThere
      <4> QED BY <3>2, <4>1
    <3> QED BY <3>1, <3>2
  <2> QED BY <1>1, <2>1 DEF Written
<1>3. ASSUME NEW n \in Entered \ (away \cup undone)
      PROVE  \/ Written(n) = {enteredOn[n]}
             \/ Written(n) = {} /\ \E d \in Desks : desk[d].asking = "item" /\ desk[d].about = n
  BY <1>2 DEF ListsInv, EnteredStands, AsksAbout
<1>4. ASSUME NEW id \in 1..listed
      PROVE  /\ \A j, k \in 1..Len(ItemsOf(id)) : j # k => ItemsOf(id)[j].id # ItemsOf(id)[k].id
             /\ \A k \in 1..Len(ItemsOf(id)) : ItemsOf(id)[k].by.locked => ItemsOf(id)[k].by.person = Me
  <2>1. CASE id \in DOMAIN lists
    BY <2>1 DEF ListsInv, ListedTypes, ItemsOf, IsThere, Distinct, Speaks
  <2>2. CASE id \notin DOMAIN lists
    <3>1. ItemsOf(id) = <<>> /\ Len(<<>>) = 0
      BY <2>2 DEF ItemsOf, IsThere
    <3> QED BY <3>1
  <2> QED BY <2>1, <2>2
<1> QED BY <1>3, <1>4 DEF EntriesStand

------------------------------------------------------------------------------
(***************************************************************************)
(* What is planned for a day stands there, and no copy is put twice, for   *)
(* any number of days, dishes and dialogs (Kitchen).                       *)
(*                                                                         *)
(* A dialog writes its day as its draft has it, so a draft must know what  *)
(* was planned: it has it, it took it off, or it came while the day was    *)
(* open (DraftKnows).  Copies only add what is not there (CopiesArePut).   *)
(***************************************************************************)
Titled == {e \in Meal : e.title # NoTitle}
\* Of two that are equal, at most one was copied.
OneCopy(entries) == \A j, k \in 1..Len(entries) : j # k /\ Key(entries[j]) = Key(entries[k]) => ~(entries[j].copied /\ entries[k].copied)

\* What is meant for the day of a draft is in it, was taken off it, or came after.
DraftKnows(w, planned) ==
    /\ OneCopy(w.rows)
    /\ w.day # NoDay => planned[w.day] \subseteq Keys(w.rows) \cup w.took \cup w.unseen

\* What is meant for a day is there, and has a name.
DayHolds(entries, planned) == OneCopy(entries) /\ planned \subseteq Keys(entries) /\ \A x \in planned : x[1] # NoTitle

KitchenInv ==
    /\ KitchenTypeOK
    /\ \A s \in Cooks : DraftKnows(dialog[s], meant)
    /\ \A d \in MealDays : DayHolds(meals[d], meant[d])

Draft == [day : MealDays \cup {NoDay}, rows : Seq(Meal), took : SUBSET KeyPairs, unseen : SUBSET KeyPairs]

LEMMA KeysArePairs == ASSUME NEW entries \in Seq(Meal) PROVE Keys(entries) \subseteq KeyPairs
<1>1. \A k \in 1..Len(entries) : entries[k] \in Meal
  OBVIOUS
<1>2. \A e \in Meal : Key(e) \in KeyPairs
  BY DEF Meal, Key, KeyPairs
<1> QED BY <1>1, <1>2 DEF Keys

LEMMA KeptRows ==
    ASSUME NEW entries \in Seq(Meal), NEW S \in SUBSET (1..Len(entries))
    PROVE  /\ AtPlaces(entries, S) \in Seq(Meal)
           /\ OneCopy(entries) => OneCopy(AtPlaces(entries, S))
           /\ \A i \in S : Key(entries[i]) \in Keys(AtPlaces(entries, S))
           /\ Keys(AtPlaces(entries, S)) \subseteq Keys(entries)
           /\ \A k \in 1..Len(AtPlaces(entries, S)) : \E i \in S : AtPlaces(entries, S)[k] = entries[i]
<1> DEFINE left == AtPlaces(entries, S)
<1>1. /\ left \in Seq(Meal)
      /\ \A k \in 1..Len(left) : PlaceOf(S, k) \in S /\ left[k] = entries[PlaceOf(S, k)]
      /\ \A j, k \in 1..Len(left) : j # k => PlaceOf(S, j) # PlaceOf(S, k)
      /\ \A i \in S : \E k \in 1..Len(left) : PlaceOf(S, k) = i
  BY WhatStays
<1> HIDE DEF left
<1>2. OneCopy(entries) => OneCopy(left)
  <2> SUFFICES ASSUME OneCopy(entries), NEW j \in 1..Len(left), NEW k \in 1..Len(left), j # k, Key(left[j]) = Key(left[k])
               PROVE  ~(left[j].copied /\ left[k].copied)
    BY DEF OneCopy
  <2>1. PlaceOf(S, j) \in 1..Len(entries) /\ PlaceOf(S, k) \in 1..Len(entries) /\ PlaceOf(S, j) # PlaceOf(S, k)
    BY <1>1
  <2>2. left[j] = entries[PlaceOf(S, j)] /\ left[k] = entries[PlaceOf(S, k)]
    BY <1>1
  <2> QED BY <2>1, <2>2 DEF OneCopy
<1>3. \A i \in S : Key(entries[i]) \in Keys(left)
  <2> SUFFICES ASSUME NEW i \in S PROVE \E k \in 1..Len(left) : Key(left[k]) = Key(entries[i])
    BY DEF Keys
  <2> QED BY <1>1
<1>4. \A k \in 1..Len(left) : \E i \in S : left[k] = entries[i]
  BY <1>1
<1>5. Keys(left) \subseteq Keys(entries)
  BY <1>4 DEF Keys
<1> QED BY <1>1, <1>2, <1>3, <1>4, <1>5 DEF left

LEMMA CleanRows ==
    ASSUME NEW entries \in Seq(Meal)
    PROVE  /\ Clean(entries) \in Seq(Titled)
           /\ OneCopy(entries) => OneCopy(Clean(entries))
           /\ Keys(Clean(entries)) \subseteq Keys(entries)
           /\ \A x \in Keys(entries) : x[1] # NoTitle => x \in Keys(Clean(entries))
<1> DEFINE S == {k \in 1..Len(entries) : entries[k].title # NoTitle}
           left == AtPlaces(entries, S)
<1>1. S \in SUBSET (1..Len(entries)) /\ \A i \in S : entries[i].title # NoTitle
  OBVIOUS
<1>2. \A x \in Keys(entries) : x[1] # NoTitle => \E i \in S : x = Key(entries[i])
  BY DEF Keys, Key
<1>3. Clean(entries) = left
  BY DEF Clean
<1> HIDE DEF S
<1>4. /\ left \in Seq(Meal)
      /\ OneCopy(entries) => OneCopy(left)
      /\ \A i \in S : Key(entries[i]) \in Keys(left)
      /\ Keys(left) \subseteq Keys(entries)
      /\ \A k \in 1..Len(left) : \E i \in S : left[k] = entries[i]
  BY <1>1, KeptRows
<1> HIDE DEF left
<1>5. \A k \in 1..Len(left) : left[k] \in Titled
  BY <1>1, <1>4 DEF Titled
<1>6. left \in Seq(Titled)
  BY <1>4, <1>5
<1> QED BY <1>2, <1>3, <1>4, <1>6

\* Copies come after what is there, and no key is copied that is there.
LEMMA CopiesArePut ==
    ASSUME NEW entries \in Seq(Titled), NEW more \in Seq(Titled), OneCopy(entries)
    PROVE  /\ PutCopies(entries, more) \in Seq(Titled)
           /\ OneCopy(PutCopies(entries, more))
           /\ Keys(entries) \subseteq Keys(PutCopies(entries, more))
<1> DEFINE S == Missing(entries, more)
           new == AtPlaces(more, S)
           cop == [k \in DOMAIN new |-> [new[k] EXCEPT !.copied = TRUE]]
           all == entries \o cop
           n == Len(entries)
           m == Len(cop)
<1>1. /\ S \in SUBSET (1..Len(more))
      /\ \A i \in S : Key(more[i]) \notin Keys(entries)
      /\ \A i, j \in S : j < i => Key(more[j]) # Key(more[i])
  <2>1. DOMAIN more = 1..Len(more) /\ Len(more) \in Nat
    OBVIOUS
  <2>2. ASSUME NEW i \in S, NEW j \in S, j < i PROVE Key(more[j]) # Key(more[i])
    <3>1. i \in 1..Len(more) /\ j \in 1..Len(more)
      BY <2>1 DEF Missing
    <3>2. j \in 1..(i - 1)
      BY <2>1, <2>2, <3>1
    <3> QED BY <3>2 DEF Missing
  <2> QED BY <2>1, <2>2 DEF Missing
<1> HIDE DEF S
<1>2. /\ new \in Seq(Titled)
      /\ \A k \in 1..Len(new) : PlaceOf(S, k) \in S /\ new[k] = more[PlaceOf(S, k)]
      /\ \A j, k \in 1..Len(new) : j # k => PlaceOf(S, j) # PlaceOf(S, k)
  BY <1>1, WhatStays
<1>3. /\ \A k \in 1..Len(new) : Key(new[k]) \notin Keys(entries)
      /\ \A j, k \in 1..Len(new) : j # k => Key(new[j]) # Key(new[k])
  <2>1. \A i, j \in S : i # j => Key(more[j]) # Key(more[i])
    <3> SUFFICES ASSUME NEW i \in S, NEW j \in S, i # j PROVE Key(more[j]) # Key(more[i])
      OBVIOUS
    <3>1. i \in Int /\ j \in Int
      <4>1. i \in 1..Len(more) /\ j \in 1..Len(more)
        BY <1>1
      <4> QED BY <4>1
    <3>2. i < j \/ j < i
      BY <3>1
    <3> QED BY <3>2, <1>1
  <2> QED BY <2>1, <1>1, <1>2
<1> HIDE DEF new
<1>4. DOMAIN new = 1..Len(new) /\ Len(new) \in Nat /\ \A k \in 1..Len(new) : new[k] \in Titled
  BY <1>2
<1>5. \A e \in Titled : [e EXCEPT !.copied = TRUE] \in Titled /\ Key([e EXCEPT !.copied = TRUE]) = Key(e)
  BY DEF Titled, Meal, Key
<1>6. cop \in Seq(Titled) /\ m = Len(new) /\ \A k \in 1..m : Key(cop[k]) = Key(new[k])
  BY <1>4, <1>5
<1>7. /\ \A k \in 1..m : Key(cop[k]) \notin Keys(entries)
      /\ \A j, k \in 1..m : j # k => Key(cop[j]) # Key(cop[k])
  BY <1>3, <1>6
<1> HIDE DEF cop
<1>8. /\ all \in Seq(Titled) /\ n \in Nat /\ m \in Nat /\ Len(all) = n + m
      /\ \A k \in 1..n : all[k] = entries[k]
      /\ \A k \in (n + 1)..(n + m) : all[k] = cop[k - n] /\ k - n \in 1..m
  <2>1. entries \in Seq(Titled) /\ cop \in Seq(Titled)
    BY <1>6
  <2>2. n \in Nat /\ m \in Nat /\ all \in Seq(Titled) /\ Len(all) = n + m
    BY <2>1
  <2>3. \A k \in 1..n : all[k] = entries[k]
    BY <2>1
  <2>4. ASSUME NEW k \in (n + 1)..(n + m) PROVE all[k] = cop[k - n] /\ k - n \in 1..m
    <3>1. k \in Int /\ n < k /\ k <= n + m
      BY <2>2
    <3>2. all[k] = cop[k - n]
      BY <2>1, <3>1, <2>2
    <3> HIDE DEF n, m
    <3>3. k - n \in 1..m
      BY <3>1, <2>2
    <3> QED BY <3>2, <3>3
  <2> QED BY <2>2, <2>3, <2>4
<1> HIDE DEF all, n, m
<1>9. \A k \in 1..(n + m) : k \in 1..n \/ k \in (n + 1)..(n + m)
  BY <1>8
<1>10. OneCopy(all)
  <2> SUFFICES ASSUME NEW j \in 1..(n + m), NEW k \in 1..(n + m), j # k, Key(all[j]) = Key(all[k])
               PROVE  ~(all[j].copied /\ all[k].copied)
    BY <1>8 DEF OneCopy
  <2>1. \A i \in 1..n : Key(all[i]) \in Keys(entries)
    BY <1>8 DEF Keys, n
  <2>2. \A i \in (n + 1)..(n + m) : Key(all[i]) \notin Keys(entries)
    BY <1>7, <1>8
  <2>3. CASE j \in 1..n /\ k \in 1..n
    BY <2>3, <1>8 DEF OneCopy, n
  <2>4. CASE j \in (n + 1)..(n + m) /\ k \in (n + 1)..(n + m)
    <3>1. j - n \in 1..m /\ k - n \in 1..m /\ j - n # k - n
      BY <2>4, <1>8
    <3> QED BY <2>4, <3>1, <1>7, <1>8
  <2> QED BY <2>1, <2>2, <2>3, <2>4, <1>9
<1>11. Keys(entries) \subseteq Keys(all)
  <2> SUFFICES ASSUME NEW i \in 1..n PROVE \E k \in 1..Len(all) : Key(entries[i]) = Key(all[k])
    BY DEF Keys, n
  <2>1. i \in 1..Len(all)
    BY <1>8
  <2> QED BY <2>1, <1>8
<1>12. PutCopies(entries, more) = all
  BY DEF PutCopies, all, cop, new, S
<1> QED BY <1>8, <1>10, <1>11, <1>12

-----------------------------------------------------------------------------
(* The steps.                                                              *)

LEMMA KitchenStart == KitchenInit => KitchenInv
<1> SUFFICES ASSUME KitchenInit PROVE KitchenInv
  OBVIOUS
<1>1. meals = [d \in MealDays |-> <<>>] /\ dialog = [s \in Cooks |-> DialogShut] /\ meant = [d \in MealDays |-> {}]
  BY DEF KitchenInit
<1>2. <<>> \in Seq(Titled) /\ DialogShut \in Draft
  BY DEF DialogShut, Draft
<1>3. KitchenTypeOK
  BY <1>1, <1>2 DEF KitchenTypeOK, Titled, Draft
<1>4. OneCopy(<<>>)
  BY DEF OneCopy
<1>5. DialogShut.rows = <<>> /\ DialogShut.day = NoDay
  BY DEF DialogShut
<1> QED BY <1>1, <1>3, <1>4, <1>5 DEF KitchenInv, DraftKnows, DayHolds

LEMMA KitchenKnows ==
    KitchenInv => /\ meals \in [MealDays -> Seq(Titled)] /\ dialog \in [Cooks -> Draft] /\ meant \in [MealDays -> SUBSET KeyPairs]
                  /\ \A s \in Cooks : DraftKnows(dialog[s], meant)
                  /\ \A d \in MealDays : DayHolds(meals[d], meant[d])
BY DEF KitchenInv, KitchenTypeOK, Titled, Draft

LEMMA KitchenFrom ==
    ASSUME meals' \in [MealDays -> Seq(Titled)], dialog' \in [Cooks -> Draft], meant' \in [MealDays -> SUBSET KeyPairs],
           \A s \in Cooks : DraftKnows(dialog'[s], meant'),
           \A d \in MealDays : DayHolds(meals'[d], meant'[d])
    PROVE  KitchenInv'
BY DEF KitchenInv, KitchenTypeOK, Titled, Draft, KeyPairs, DraftKnows, DayHolds, OneCopy, Keys, Key, Meal

\* One dialog changes and nothing is written.
LEMMA DraftChanges ==
    ASSUME KitchenInv, NEW s \in Cooks, NEW w \in Draft, dialog' = [dialog EXCEPT ![s] = w], UNCHANGED <<meals, meant>>,
           DraftKnows(w, meant)
    PROVE  KitchenInv'
<1>1. dialog' \in [Cooks -> Draft] /\ \A t \in Cooks : dialog'[t] = (IF t = s THEN w ELSE dialog[t])
  BY KitchenKnows
<1>2. \A t \in Cooks : DraftKnows(dialog'[t], meant')
  BY <1>1, KitchenKnows
<1> QED BY <1>1, <1>2, KitchenKnows, KitchenFrom

\* What is taken off the draft is noted.
LEMMA DraftIsEdited ==
    ASSUME KitchenInv, NEW s \in Cooks, NEW entries \in Seq(Meal), NEW taken \in SUBSET KeyPairs, Redraft(s, entries, taken), MealDrafts(s),
           OneCopy(entries), Keys(dialog[s].rows) \subseteq Keys(entries) \cup taken
    PROVE  KitchenInv'
<1> DEFINE w == [dialog[s] EXCEPT !.rows = entries, !.took = @ \cup taken]
<1>1. dialog[s] \in Draft /\ DraftKnows(dialog[s], meant)
  BY KitchenKnows
<1>2. /\ w \in Draft /\ w.rows = entries /\ w.took = dialog[s].took \cup taken /\ w.day = dialog[s].day
      /\ w.unseen = dialog[s].unseen
  BY <1>1 DEF Draft
<1>3. dialog' = [dialog EXCEPT ![s] = w] /\ UNCHANGED <<meals, meant>>
  BY KitchenKnows DEF Redraft
<1> HIDE DEF w
<1>4. DraftKnows(w, meant)
  BY <1>1, <1>2 DEF DraftKnows
<1> QED BY <1>2, <1>3, <1>4, DraftChanges

LEMMA DayIsOpened == ASSUME KitchenInv, NEW s \in Cooks, NEW d \in MealDays, OpenMeal(s, d) PROVE KitchenInv'
<1> DEFINE w == [DialogShut EXCEPT !.day = d, !.rows = meals[d]]
<1>1. meals[d] \in Seq(Titled) /\ Titled \subseteq Meal /\ DayHolds(meals[d], meant[d])
  BY KitchenKnows DEF Titled
<1>2. meals[d] \in Seq(Meal)
  BY <1>1
<1>3. w \in Draft /\ w.day = d /\ w.rows = meals[d] /\ w.took = {} /\ w.unseen = {}
  BY <1>2 DEF DialogShut, Draft
<1>4. dialog' = [dialog EXCEPT ![s] = w] /\ UNCHANGED <<meals, meant>>
  BY DEF OpenMeal
<1> HIDE DEF w
<1>5. DraftKnows(w, meant)
  BY <1>1, <1>3 DEF DraftKnows, DayHolds
<1> QED BY <1>3, <1>4, <1>5, DraftChanges

LEMMA DraftIsShut == ASSUME KitchenInv, NEW s \in Cooks, CloseMeal(s) PROVE KitchenInv'
<1>1. DialogShut \in Draft /\ DialogShut.rows = <<>> /\ DialogShut.day = NoDay
  BY DEF DialogShut, Draft
<1>2. DraftKnows(DialogShut, meant)
  BY <1>1 DEF DraftKnows, OneCopy
<1> QED BY <1>1, <1>2, DraftChanges DEF CloseMeal

LEMMA EntryIsAdded == ASSUME KitchenInv, NEW s \in Cooks, NEW p \in Eaters \cup {Shared}, AddEntry(s, p) PROVE KitchenInv'
<1> DEFINE old == dialog[s].rows
           e == [title |-> NoTitle, person |-> p, copied |-> FALSE]
           new == Append(old, e)
           n == Len(old)
<1>1. old \in Seq(Meal) /\ OneCopy(old) /\ e \in Meal
  BY KitchenKnows DEF Draft, DraftKnows, Meal
<1>2. ~e.copied /\ Redraft(s, new, {}) /\ MealDrafts(s)
  BY DEF AddEntry
<1> HIDE DEF old, e
<1>3. n \in Nat /\ new \in Seq(Meal) /\ Len(new) = n + 1 /\ new[n + 1] = e /\ \A k \in 1..n : new[k] = old[k]
  BY <1>1
<1> HIDE DEF new, n
<1>4. \A k \in 1..(n + 1) : k = n + 1 \/ k \in 1..n
  BY <1>3
<1>5. OneCopy(new)
  <2> SUFFICES ASSUME NEW j \in 1..(n + 1), NEW k \in 1..(n + 1), j # k, Key(new[j]) = Key(new[k])
               PROVE  ~(new[j].copied /\ new[k].copied)
    BY <1>3 DEF OneCopy
  <2>1. CASE j \in 1..n /\ k \in 1..n
    BY <2>1, <1>1, <1>3 DEF OneCopy, n
  <2>2. CASE j = n + 1 \/ k = n + 1
    BY <2>2, <1>2, <1>3
  <2> QED BY <2>1, <2>2, <1>4
<1>6. Keys(old) \subseteq Keys(new)
  <2> SUFFICES ASSUME NEW i \in 1..n PROVE \E k \in 1..Len(new) : Key(old[i]) = Key(new[k])
    BY DEF Keys, n
  <2>1. i \in 1..Len(new)
    BY <1>3
  <2> QED BY <2>1, <1>3
<1> QED BY <1>2, <1>3, <1>5, <1>6, DraftIsEdited DEF old

LEMMA EntryIsSet ==
    ASSUME KitchenInv, NEW s \in Cooks, NEW k \in 1..Len(dialog[s].rows), NEW title \in Dishes \cup {NoTitle},
           NEW p \in Eaters \cup {Shared}, SetEntry(s, k, title, p)
    PROVE  KitchenInv'
<1> DEFINE old == dialog[s].rows
           e == [title |-> title, person |-> p, copied |-> FALSE]
           new == [old EXCEPT ![k] = e]
<1>1. old \in Seq(Meal) /\ OneCopy(old) /\ e \in Meal /\ k \in 1..Len(old)
  BY KitchenKnows DEF Draft, DraftKnows, Meal
<1>2. ~e.copied /\ Redraft(s, new, {Key(old[k])}) /\ MealDrafts(s)
  BY DEF SetEntry
<1> HIDE DEF old, e
<1>3. new \in Seq(Meal) /\ Len(new) = Len(old) /\ \A j \in 1..Len(old) : new[j] = (IF j = k THEN e ELSE old[j])
  BY <1>1
<1> HIDE DEF new
<1>4. OneCopy(new)
  BY <1>1, <1>2, <1>3 DEF OneCopy
<1>5. Keys(old) \subseteq Keys(new) \cup {Key(old[k])}
  BY <1>3 DEF Keys
<1>6. {Key(old[k])} \in SUBSET KeyPairs
  BY <1>1, KeysArePairs DEF Keys
<1> QED BY <1>2, <1>3, <1>4, <1>5, <1>6, DraftIsEdited DEF old

LEMMA EntryIsRemoved ==
    ASSUME KitchenInv, NEW s \in Cooks, NEW k \in 1..Len(dialog[s].rows), RemoveEntry(s, k)
    PROVE  KitchenInv'
<1> DEFINE old == dialog[s].rows
           S == DOMAIN old \ {k}
           new == AtPlaces(old, S)
<1>1. old \in Seq(Meal) /\ OneCopy(old) /\ k \in 1..Len(old)
  BY KitchenKnows DEF Draft, DraftKnows
<1>2. Redraft(s, new, {Key(old[k])}) /\ MealDrafts(s)
  BY DEF RemoveEntry
<1> HIDE DEF old
<1>3. S \in SUBSET (1..Len(old)) /\ \A i \in 1..Len(old) : i \in S \/ i = k
  BY <1>1
<1> HIDE DEF S
<1>4. new \in Seq(Meal) /\ OneCopy(new) /\ \A i \in S : Key(old[i]) \in Keys(new)
  BY <1>1, <1>3, KeptRows
<1> HIDE DEF new
<1>5. Keys(old) \subseteq Keys(new) \cup {Key(old[k])}
  BY <1>3, <1>4 DEF Keys
<1>6. {Key(old[k])} \in SUBSET KeyPairs
  BY <1>1, KeysArePairs DEF Keys
<1> QED BY <1>2, <1>4, <1>5, <1>6, DraftIsEdited DEF old

\* The days are written: the dialog's own as its draft has it, the others with copies added.
LEMMA DaysAreWritten ==
    ASSUME KitchenInv, NEW s \in Cooks, MealDrafts(s), NEW all \in [MealDays -> Seq(Titled)], NEW after \in Draft,
           Writes(s, all, after), all[dialog[s].day] = Clean(dialog[s].rows),
           \A d \in MealDays \ {dialog[s].day} : OneCopy(all[d]) /\ Keys(meals[d]) \subseteq Keys(all[d]),
           after.day = NoDay \/ after.day = dialog[s].day, after.rows = dialog[s].rows \/ after = DialogShut
    PROVE  KitchenInv'
<1> DEFINE w == dialog[s]
           own == w.day
           given == [d \in MealDays |-> Keys(all[d]) \ Keys(meals[d])]
           lost == (w.took \cup w.unseen) \ Keys(all[own])
<1>1. w \in Draft /\ DraftKnows(w, meant) /\ own \in MealDays /\ NoDay \notin MealDays
  BY KitchenKnows, KitchenAssumption DEF MealDrafts, Draft, NoDay
<1>2. /\ meals' = all
      /\ meant' = [d \in MealDays |-> given[d] \cup IF d = own THEN meant[d] \ lost ELSE meant[d]]
      /\ dialog' = [t \in Cooks |-> IF t = s THEN after
                                    ELSE IF dialog[t].day = NoDay THEN dialog[t]
                                    ELSE [dialog[t] EXCEPT !.unseen = @ \cup given[dialog[t].day]]]
  BY DEF Writes
<1>3. \A d \in MealDays : Keys(all[d]) \subseteq KeyPairs /\ \A x \in Keys(all[d]) : x[1] # NoTitle
  <2> SUFFICES ASSUME NEW d \in MealDays PROVE Keys(all[d]) \subseteq KeyPairs /\ \A x \in Keys(all[d]) : x[1] # NoTitle
    OBVIOUS
  <2>1. all[d] \in Seq(Titled)
    OBVIOUS
  <2>2. \A k \in 1..Len(all[d]) : all[d][k] \in Titled
    BY <2>1
  <2>3. \A e \in Titled : Key(e) \in KeyPairs /\ Key(e)[1] # NoTitle
    BY DEF Titled, Meal, Key, KeyPairs
  <2> QED BY <2>2, <2>3 DEF Keys
<1>4. \A d \in MealDays : given[d] \in SUBSET KeyPairs /\ given[d] \subseteq Keys(all[d])
  BY <1>3
<1>5. /\ w.rows \in Seq(Meal) /\ OneCopy(w.rows)
      /\ meant[own] \subseteq Keys(w.rows) \cup w.took \cup w.unseen
  BY <1>1 DEF Draft, DraftKnows, MealDrafts
<1>6. /\ OneCopy(all[own]) /\ Keys(all[own]) \subseteq Keys(w.rows)
      /\ \A x \in Keys(w.rows) : x[1] # NoTitle => x \in Keys(all[own])
  BY <1>5, CleanRows
<1>7. /\ meant[own] \ lost \subseteq Keys(all[own])
      /\ \A x \in meant[own] : x[1] # NoTitle
  <2>1. \A x \in meant[own] : x[1] # NoTitle
    BY <1>1, KitchenKnows DEF DayHolds
  <2> QED BY <1>5, <1>6, <2>1
<1> HIDE DEF given, lost
<1>8. meant' \in [MealDays -> SUBSET KeyPairs]
  BY <1>2, <1>4, KitchenKnows
<1>9. ASSUME NEW d \in MealDays PROVE DayHolds(meals'[d], meant'[d])
  <2>1. meals'[d] = all[d] /\ meant'[d] = given[d] \cup (IF d = own THEN meant[d] \ lost ELSE meant[d])
    BY <1>2
  <2>2. CASE d = own
    BY <2>1, <2>2, <1>3, <1>4, <1>6, <1>7 DEF DayHolds
  <2>3. CASE d # own
    <3>1. OneCopy(all[d]) /\ Keys(meals[d]) \subseteq Keys(all[d])
      BY <2>3
    <3>2. meant[d] \subseteq Keys(meals[d])
      BY KitchenKnows DEF DayHolds
    <3> QED BY <2>1, <2>3, <3>1, <3>2, <1>3, <1>4 DEF DayHolds
  <2> QED BY <2>2, <2>3
<1>10. ASSUME NEW t \in Cooks PROVE dialog'[t] \in Draft /\ DraftKnows(dialog'[t], meant')
  <2>1. CASE t = s
    <3>1. dialog'[t] = after
      BY <2>1, <1>2
    <3>2. OneCopy(after.rows)
      BY <1>5 DEF DialogShut, OneCopy
    <3>3. CASE after.day = NoDay
      BY <3>1, <3>2, <3>3 DEF DraftKnows
    <3>4. CASE after.day = own
      <4>1. after.rows = w.rows
        BY <3>4, <1>1 DEF DialogShut
      <4>2. meant'[own] = given[own] \cup (meant[own] \ lost)
        BY <1>1, <1>2
      <4>3. meant'[own] \subseteq Keys(after.rows)
        BY <4>1, <4>2, <1>1, <1>4, <1>6, <1>7
      <4> QED BY <3>1, <3>2, <3>4, <4>3 DEF DraftKnows
    <3> QED BY <3>3, <3>4
  <2>2. CASE t # s
    <3> DEFINE v == dialog[t]
    <3>1. v \in Draft /\ DraftKnows(v, meant)
      BY KitchenKnows
    <3>2. CASE v.day = NoDay
      <4>1. dialog'[t] = v
        BY <2>2, <3>2, <1>2
      <4> QED BY <3>1, <3>2, <4>1 DEF DraftKnows
    <3>3. CASE v.day # NoDay
      <4> DEFINE n == [v EXCEPT !.unseen = @ \cup given[v.day]]
      <4>1. v.day \in MealDays
        BY <3>1, <3>3 DEF Draft
      <4>2. dialog'[t] = n
        BY <2>2, <3>3, <1>2
      <4>3. n \in Draft /\ n.day = v.day /\ n.rows = v.rows /\ n.took = v.took /\ n.unseen = v.unseen \cup given[v.day]
        BY <3>1, <4>1, <1>4 DEF Draft
      <4> HIDE DEF n
      <4>4. meant'[v.day] \subseteq given[v.day] \cup meant[v.day]
        BY <4>1, <1>2
      <4>5. meant[v.day] \subseteq Keys(v.rows) \cup v.took \cup v.unseen
        BY <3>1, <3>3 DEF DraftKnows
      <4> QED BY <3>1, <4>2, <4>3, <4>4, <4>5 DEF DraftKnows
    <3> QED BY <3>2, <3>3
  <2> QED BY <2>1, <2>2
<1>11. meals' \in [MealDays -> Seq(Titled)] /\ dialog' \in [Cooks -> Draft]
  BY <1>2, <1>10
<1> QED BY <1>8, <1>9, <1>10, <1>11, KitchenFrom

\* What a day is written as, before anything is copied.
LEMMA DayIsCommitted ==
    ASSUME KitchenInv, NEW s \in Cooks, MealDrafts(s)
    PROVE  /\ dialog[s].day \in MealDays /\ dialog[s].rows \in Seq(Meal)
           /\ Clean(dialog[s].rows) \in Seq(Titled) /\ OneCopy(Clean(dialog[s].rows))
           /\ CommitDay(s) \in [MealDays -> Seq(Titled)]
           /\ CommitDay(s)[dialog[s].day] = Clean(dialog[s].rows)
           /\ \A d \in MealDays \ {dialog[s].day} : CommitDay(s)[d] = meals[d] /\ OneCopy(meals[d])
<1>1. dialog[s].day \in MealDays /\ dialog[s].rows \in Seq(Meal) /\ OneCopy(dialog[s].rows)
  BY KitchenKnows DEF MealDrafts, Draft, DraftKnows
<1>2. Clean(dialog[s].rows) \in Seq(Titled) /\ OneCopy(Clean(dialog[s].rows))
  BY <1>1, CleanRows
<1> QED BY <1>1, <1>2, KitchenKnows DEF CommitDay, DayHolds

LEMMA DayIsSaved == ASSUME KitchenInv, NEW s \in Cooks, Save(s) PROVE KitchenInv'
<1>1. MealDrafts(s) /\ Writes(s, CommitDay(s), DialogShut)
  BY DEF Save
<1>2. DialogShut \in Draft /\ DialogShut.day = NoDay
  BY DEF DialogShut, Draft
<1>3. \A d \in MealDays \ {dialog[s].day} : OneCopy(CommitDay(s)[d]) /\ Keys(meals[d]) \subseteq Keys(CommitDay(s)[d])
  BY <1>1, DayIsCommitted
<1> QED BY <1>1, <1>2, <1>3, DayIsCommitted, DaysAreWritten

LEMMA MealsAreCopied ==
    ASSUME KitchenInv, NEW s \in Cooks, MealDrafts(s), NEW dates \in TargetDates(s), NEW more \in Seq(Titled),
           Copies(s, dates, more)
    PROVE  KitchenInv'
<1> DEFINE saved == CommitDay(s)
           all == [d \in MealDays |-> IF d \in dates THEN PutCopies(saved[d], more) ELSE saved[d]]
           after == [dialog[s] EXCEPT !.took = {}, !.unseen = {}]
<1>1. Writes(s, all, after)
  BY DEF Copies
<1>2. dialog[s].day \notin dates /\ dates \subseteq MealDays
  BY DEF TargetDates
<1>3. dialog[s] \in Draft
  BY KitchenKnows
<1>4. after \in Draft /\ after.day = dialog[s].day /\ after.rows = dialog[s].rows
  BY <1>3 DEF Draft
<1> HIDE DEF after, saved
<1>5. /\ saved \in [MealDays -> Seq(Titled)] /\ saved[dialog[s].day] = Clean(dialog[s].rows) /\ dialog[s].day \in MealDays
      /\ \A d \in MealDays \ {dialog[s].day} : saved[d] = meals[d] /\ OneCopy(meals[d])
  BY DayIsCommitted DEF saved
<1>6. \A d \in dates : /\ PutCopies(saved[d], more) \in Seq(Titled) /\ OneCopy(PutCopies(saved[d], more))
                       /\ Keys(meals[d]) \subseteq Keys(PutCopies(saved[d], more))
  <2> SUFFICES ASSUME NEW d \in dates
               PROVE  /\ PutCopies(saved[d], more) \in Seq(Titled) /\ OneCopy(PutCopies(saved[d], more))
                      /\ Keys(meals[d]) \subseteq Keys(PutCopies(saved[d], more))
    OBVIOUS
  <2>1. d \in MealDays \ {dialog[s].day}
    BY <1>2
  <2>2. saved[d] \in Seq(Titled) /\ OneCopy(saved[d]) /\ saved[d] = meals[d]
    BY <2>1, <1>5
  <2> QED BY <2>2, CopiesArePut
<1>7. all \in [MealDays -> Seq(Titled)]
  BY <1>5, <1>6
<1>8. all[dialog[s].day] = Clean(dialog[s].rows)
  BY <1>2, <1>5
<1>9. \A d \in MealDays \ {dialog[s].day} : OneCopy(all[d]) /\ Keys(meals[d]) \subseteq Keys(all[d])
  BY <1>5, <1>6
<1> HIDE DEF all
<1> QED BY <1>1, <1>4, <1>7, <1>8, <1>9, DaysAreWritten

LEMMA KitchenStep == KitchenInv /\ [KitchenNext]_kitchenVars => KitchenInv'
<1> SUFFICES ASSUME KitchenInv, [KitchenNext]_kitchenVars PROVE KitchenInv'
  OBVIOUS
<1>1. CASE UNCHANGED kitchenVars
  BY <1>1, KitchenKnows, KitchenFrom DEF kitchenVars
<1>2. ASSUME NEW s \in Cooks, Save(s) PROVE KitchenInv'
  BY <1>2, DayIsSaved
<1>3. ASSUME NEW s \in Cooks, CloseMeal(s) PROVE KitchenInv'
  BY <1>3, DraftIsShut
<1>4. ASSUME NEW s \in Cooks, NEW d \in MealDays, OpenMeal(s, d) PROVE KitchenInv'
  BY <1>4, DayIsOpened
<1>5. ASSUME NEW s \in Cooks, NEW p \in Eaters \cup {Shared}, AddEntry(s, p) PROVE KitchenInv'
  BY <1>5, EntryIsAdded
<1>6. ASSUME NEW s \in Cooks, NEW dates \in TargetDates(s), CopyWholeDay(s, dates) PROVE KitchenInv'
  <2>1. MealDrafts(s) /\ Copies(s, dates, Clean(dialog[s].rows))
    BY <1>6 DEF CopyWholeDay
  <2> QED BY <2>1, DayIsCommitted, MealsAreCopied
<1>7. ASSUME NEW s \in Cooks, NEW k \in 1..Len(dialog[s].rows), RemoveEntry(s, k) PROVE KitchenInv'
  BY <1>7, EntryIsRemoved
<1>8. ASSUME NEW s \in Cooks, NEW k \in 1..Len(dialog[s].rows), NEW title \in Dishes \cup {NoTitle},
             NEW p \in Eaters \cup {Shared}, SetEntry(s, k, title, p)
      PROVE  KitchenInv'
  BY <1>8, EntryIsSet
<1>9. ASSUME NEW s \in Cooks, NEW k \in 1..Len(dialog[s].rows), NEW dates \in TargetDates(s), RepeatEntry(s, k, dates)
      PROVE  KitchenInv'
  <2>1. MealDrafts(s) /\ dialog[s].rows[k].title # NoTitle /\ Copies(s, dates, <<dialog[s].rows[k]>>)
    BY <1>9 DEF RepeatEntry
  <2>2. dialog[s].rows \in Seq(Meal)
    BY <2>1, DayIsCommitted
  <2>3. dialog[s].rows[k] \in Titled
    BY <2>1, <2>2 DEF Titled
  <2>4. <<dialog[s].rows[k]>> \in Seq(Titled)
    BY <2>3
  <2> QED BY <2>1, <2>4, MealsAreCopied
<1> QED BY <1>1, <1>2, <1>3, <1>4, <1>5, <1>6, <1>7, <1>8, <1>9 DEF KitchenNext

LEMMA KitchenInvGives == KitchenInv => PlansStand
<1> SUFFICES ASSUME KitchenInv, NEW d \in MealDays
             PROVE  /\ \A j, k \in 1..Len(meals[d]) : j < k /\ Key(meals[d][j]) = Key(meals[d][k])
                          => ~(meals[d][j].copied /\ meals[d][k].copied)
                    /\ meant[d] \subseteq Keys(meals[d])
  BY DEF PlansStand
<1>1. DayHolds(meals[d], meant[d]) /\ meals[d] \in Seq(Titled)
  BY KitchenKnows
<1>2. \A j, k \in 1..Len(meals[d]) : j < k => j # k
  OBVIOUS
<1> QED BY <1>1, <1>2 DEF DayHolds, OneCopy

------------------------------------------------------------------------------
(***************************************************************************)
(* An import takes nothing of the household, and of the file it passes     *)
(* over only what it takes for something else (Import), for any            *)
(* households, files and ids.                                              *)
(*                                                                         *)
(* What comes gets ids that nobody has, one each (NumbersAre), so a person *)
(* or a jar of the file becomes exactly one of the household's, of the     *)
(* same name (JoinedIs, FollowIs), and an entry is told from all others    *)
(* (RowsInOrder, MealsInOrder); the rows there were keep their jar because *)
(* an id that both have is that of the same jar (RowsStay).  A household   *)
(* that has everything of a file once is given nothing more by it          *)
(* (SameAgain).                                                            *)
(***************************************************************************)
\* No file has a meal of that id.
Fresh(id) == \A f \in OldHomes : id \notin IdsOf(f.meals)

\* What the household's document, or one that the button was pressed over, always is: what
\* came into it says what it said in a file.
Sound(h) ==
    /\ h \in HouseDocument /\ InOrder(h)
    /\ \A e \in h.rows : e.was # NoId =>
          \E f \in OldHomes : BroughtByAFile(e, {Unpacked(q) : q \in f.rows})
    /\ \A e \in h.meals : e.was # NoId /\ ~Fresh(e.was) => \E f \in OldHomes : BroughtByAFile(e, f.meals)
    /\ \A f \in OldHomes : SameJars(Normalized(f, NoId).jars, h.jars)

\* And what is found in a file.
Orderly(add) ==
    /\ add \in HouseDocument /\ InOrder(add)
    /\ \A r, s \in add.rows : r # s => r.id # s.id
    /\ NoId \notin IdsOf(add.meals)
    /\ \E f \in OldHomes : add.jars = Normalized(f, NoId).jars /\ add.rows = f.rows
    /\ \A m \in add.meals : Fresh(m.id) \/ \E f \in OldHomes : m \in f.meals

\* A meal that got its id when it was read is one thing, wherever it is.
Agreed(docs, adds) ==
    \A add \in adds : \A m \in add.meals : Fresh(m.id) =>
       /\ \A h \in docs : \A e \in h.meals : e.was = m.id => e.says = m.says
       /\ \A other \in adds : \A n \in other.meals : n.id = m.id => n.says = m.says

\* A household that has what is in a file, rows without an id aside.
HasAll(doc, add) ==
    /\ \A t \in add.people : \E p \in doc.people : p.name = t.name
    /\ \A t \in add.jars : \E j \in doc.jars : j.name = t.name
    /\ \A r \in add.rows : r.id # NoId => Duplicate(doc.rows, r)
    /\ \A m \in add.meals : \E e \in doc.meals : e.was = m.id
    /\ \A t \in add.scores : \A p \in add.people :
          p.id = t.owner => \E q \in doc.people, s \in doc.scores : q.name = p.name /\ s.owner = q.id

ImportIsRight(l) ==
    /\ NothingIsChanged(l) /\ EveryoneIsFollowed(l) /\ EverythingArrives(l)
    /\ l.again => NothingTwice(l)

PanelInv ==
    ~mixed => \/ reading = {}
              \/ /\ proposal = {} /\ applying = {} /\ ~arrived
                 /\ \E f \in OldHomes : reading = {f} /\ picked = {f}

ImportInv ==
    /\ ImportTypeOK /\ Sound(ours)
    /\ \A add \in proposal : Orderly(add)
    /\ \A a \in applying : Sound(a.doc) /\ Orderly(a.add) /\ (a.again => HasAll(a.doc, a.add))
    /\ \A add \in stands : HasAll(ours, add)
    /\ \A l \in imported : ImportIsRight(l)
    /\ OfferedIsPicked /\ PanelInv /\ Agreed(PressedOver, FoundInFiles)

LEMMA NoIdIsNone == NoId \notin EntryIds
  BY ImportAssumption

\* A name of its own, and an id of its own.
LEMMA NameOfIs ==
    ASSUME NEW named, NamesDiffer(named), NEW p \in named
    PROVE  NameOf(named, p.id) = {p.name}
  BY DEF NameOf, NamesDiffer

LEMMA NobodysName ==
    ASSUME NEW named, NEW id, id \notin IdsOf(named)
    PROVE  NameOf(named, id) = {}
  BY DEF NameOf, IdsOf

\* What is found in a file, part by part.
LEMMA NormalizedIs ==
    ASSUME NEW f \in OldHomes, NEW id \in OrNone(EntryIds)
    PROVE  /\ Normalized(f, id) \in HouseDocument
           /\ Normalized(f, id).people = f.people /\ Normalized(f, id).rows = f.rows
           /\ Normalized(f, id).scores = f.scores
           /\ Normalized(f, id).jars = (IF f.jars = {} THEN StartJars ELSE f.jars)
           /\ Normalized(f, id).meals = {IF m.id = NoId THEN [m EXCEPT !.id = id] ELSE m : m \in f.meals}
<1>1. f \in HouseDocument /\ StartJars \subseteq Named
  BY ImportAssumption
<1> DEFINE js == IF f.jars = {} THEN StartJars ELSE f.jars
           ms == {IF m.id = NoId THEN [m EXCEPT !.id = id] ELSE m : m \in f.meals}
<1>2. js \in SUBSET Named
  BY <1>1 DEF HouseDocument
<1>3. ms \in SUBSET Meals
  BY <1>1 DEF HouseDocument, Meals
<1>4. Normalized(f, id) = [f EXCEPT !.jars = js, !.meals = ms]
  BY DEF Normalized
<1> HIDE DEF js, ms
<1>5. Normalized(f, id) = [people |-> f.people, jars |-> js, rows |-> f.rows, meals |-> ms, scores |-> f.scores]
  BY <1>1, <1>4 DEF HouseDocument
<1>6. Normalized(f, id) \in HouseDocument
  BY <1>1, <1>2, <1>3, <1>5 DEF HouseDocument
<1>7. Normalized(f, id).jars = js /\ Normalized(f, id).meals = ms
  BY <1>5
<1> QED BY <1>5, <1>6, <1>7 DEF js, ms

\* An id that is in no file makes the one dish a meal like the others.
LEMMA FoundIs ==
    ASSUME NEW f \in OldHomes, NEW u, NEW id \in Spare(u)
    PROVE  Orderly(Normalized(f, id))
<1> DEFINE n == Normalized(f, id)
           z == Normalized(f, NoId)
<1>1. id \in EntryIds /\ id \notin UsedIn(f) /\ Fresh(id)
  BY DEF Spare, UsedIn, Fresh
<1>2. InOrder(z) /\ OneEach(z)
  BY ImportAssumption
<1>3. /\ z.people = f.people /\ z.rows = f.rows /\ z.scores = f.scores
      /\ z.jars = (IF f.jars = {} THEN StartJars ELSE f.jars)
      /\ z.meals = {IF m.id = NoId THEN [m EXCEPT !.id = NoId] ELSE m : m \in f.meals}
  BY NormalizedIs DEF OrNone
<1>4. /\ n \in HouseDocument /\ n.people = f.people /\ n.rows = f.rows /\ n.scores = f.scores
      /\ n.jars = (IF f.jars = {} THEN StartJars ELSE f.jars)
      /\ n.meals = {IF m.id = NoId THEN [m EXCEPT !.id = id] ELSE m : m \in f.meals}
  BY <1>1, NormalizedIs DEF OrNone
<1> HIDE DEF n, z
<1>5. f.meals \subseteq Meals
  BY ImportAssumption DEF HouseDocument
<1>6. z.meals = f.meals
  <2>1. \A m \in f.meals : m.id = NoId => [m EXCEPT !.id = NoId] = m
    BY <1>5 DEF Meals
  <2> QED BY <1>3, <2>1
<1>7. \A m \in n.meals : \E k \in f.meals : m.owner = k.owner /\ m.id = (IF k.id = NoId THEN id ELSE k.id)
        /\ m = (IF k.id = NoId THEN [k EXCEPT !.id = id] ELSE k)
  BY <1>4, <1>5 DEF Meals
<1>8. \A k \in f.meals : k.id # id
  BY <1>1 DEF UsedIn, IdsOf
<1>9. \A m, o \in n.meals : m # o => m.id # o.id
  <2> SUFFICES ASSUME NEW m \in n.meals, NEW o \in n.meals, m.id = o.id PROVE m = o
    OBVIOUS
  <2>1. PICK k \in f.meals : m.id = (IF k.id = NoId THEN id ELSE k.id) /\ m = (IF k.id = NoId THEN [k EXCEPT !.id = id] ELSE k)
    BY <1>7
  <2>2. PICK q \in f.meals : o.id = (IF q.id = NoId THEN id ELSE q.id) /\ o = (IF q.id = NoId THEN [q EXCEPT !.id = id] ELSE q)
    BY <1>7
  <2>3. k.id = q.id
    BY <1>8, <2>1, <2>2
  <2>4. k = q
    BY <1>2, <1>6, <2>3 DEF InOrder
  <2> QED BY <2>1, <2>2, <2>4
<1>10. NoId \notin IdsOf(n.meals)
  BY <1>1, <1>7, NoIdIsNone DEF IdsOf
<1>11. InOrder(n)
  <2>1. \A e \in n.meals : e.owner \in OrNone(IdsOf(n.people))
    BY <1>2, <1>3, <1>4, <1>6, <1>7 DEF InOrder
  <2> QED BY <1>2, <1>3, <1>4, <1>9, <2>1 DEF InOrder
<1>12. n.jars = Normalized(f, NoId).jars
  BY <1>3, <1>4 DEF z
<1>13. \A r, s \in n.rows : r # s => r.id # s.id
  BY <1>2, <1>3, <1>4 DEF OneEach
<1>14. \A m \in n.meals : Fresh(m.id) \/ m \in f.meals
  BY <1>1, <1>7
<1>15. Orderly(n)
  BY <1>4, <1>10, <1>11, <1>12, <1>13, <1>14 DEF Orderly
<1> QED BY <1>15 DEF n

\* Who comes gets an id of its own, that nobody has.
LEMMA NumbersAre ==
    ASSUME NEW doc, NEW add, Sound(doc), Orderly(add), NEW new \in Numberings(doc, add)
    PROVE  /\ \A i \in Arriving(doc, add) : new[i] \in EntryIds /\ new[i] \notin Taken(doc)
           /\ \A i \in IdsOf(NewMeals(doc, add)) : new[i] \in EntryIds /\ new[i] \notin UsedIn(doc)
           /\ \A i, j \in Arriving(doc, add) \cup IdsOf(NewMeals(doc, add)) : i # j => new[i] # new[j]
           /\ \A i \in Arriving(doc, add) :
                 new[i] = i \/ \A f \in OldHomes : new[i] \notin IdsOf(f.jars) \cup IdsOf(StartJars)
<1> DEFINE A == Arriving(doc, add)
           B == Renewed(doc, add)
           S == Spare(UsedIn(doc) \cup UsedIn(add))
<1>1. PICK fresh \in [B -> S] :
          /\ \A i, j \in B : i # j => fresh[i] # fresh[j]
          /\ new = [i \in A \cup B |-> IF i \in B THEN fresh[i] ELSE i]
  BY DEF Numberings
<1>2. \A i \in S : /\ i \in EntryIds /\ i \notin UsedIn(doc) /\ i \notin UsedIn(add)
                   /\ \A f \in OldHomes : i \notin IdsOf(f.jars) \cup IdsOf(StartJars)
  BY DEF Spare, UsedIn, Taken
<1>3. A \subseteq UsedIn(add) \cup {NoId}
  BY DEF Arriving, UsedIn, Taken, NewOnes, NewRows, IdsOf
<1>4. \A i \in A : i \notin B => i # NoId /\ i \notin Taken(doc) /\ i \in UsedIn(add)
  BY <1>3 DEF Renewed
<1>5. UsedIn(add) \subseteq OrNone(EntryIds)
  BY DEF Orderly, HouseDocument, UsedIn, Taken, IdsOf, Named, ListRows, Meals, OrNone
<1>6. IdsOf(NewMeals(doc, add)) \subseteq B
  BY DEF Renewed
<1>7. Taken(doc) \subseteq UsedIn(doc)
  BY DEF UsedIn
<1> HIDE DEF A, B, S
<1>8. \A i \in B : new[i] = fresh[i] /\ fresh[i] \in S
  BY <1>1
<1>9. \A i \in A : i \notin B => new[i] = i
  BY <1>1
<1>10. \A i \in A : new[i] \in EntryIds /\ new[i] \notin Taken(doc)
  BY <1>2, <1>4, <1>5, <1>7, <1>8, <1>9 DEF OrNone
<1>11. \A i \in IdsOf(NewMeals(doc, add)) : new[i] \in EntryIds /\ new[i] \notin UsedIn(doc)
  BY <1>2, <1>6, <1>8
<1>12. \A i, j \in A \cup B : i # j => new[i] # new[j]
  BY <1>1, <1>2, <1>4, <1>8, <1>9
<1>13. \A i \in A : new[i] = i \/ \A f \in OldHomes : new[i] \notin IdsOf(f.jars) \cup IdsOf(StartJars)
  BY <1>2, <1>8, <1>9
<1> QED BY <1>6, <1>10, <1>11, <1>12, <1>13 DEF A

\* One of those that come, for one of the file or of the household.
JoinedByName(mine, theirs, new, map, all) ==
    /\ all \in SUBSET Named /\ NamesDiffer(all) /\ mine \subseteq all
    /\ \A p \in all : p \in mine \/ \E t \in NewOnes(mine, theirs) : p.id = new[t.id] /\ p.name = t.name
    /\ DOMAIN map = IdsOf(theirs)
    /\ \A t \in theirs : \E p \in all : p.id = map[t.id] /\ p.name = t.name
    /\ \A t \in theirs : \A m \in mine : m.name = t.name => map[t.id] = m.id

\* The household's own with those whose name it lacks.
LEMMA JoinedIs ==
    ASSUME NEW mine \in SUBSET Named, NEW theirs \in SUBSET Named, NamesDiffer(mine), NamesDiffer(theirs), NEW new,
           \A t \in NewOnes(mine, theirs) : new[t.id] \in EntryIds /\ new[t.id] \notin IdsOf(mine),
           \A t, u \in NewOnes(mine, theirs) : t # u => new[t.id] # new[u.id]
    PROVE  JoinedByName(mine, theirs, new, Matched(mine, theirs, new),
                  mine \cup Renumbered(NewOnes(mine, theirs), new))
<1> DEFINE all == mine \cup Renumbered(NewOnes(mine, theirs), new)
<1> DEFINE N == NewOnes(mine, theirs)
<1>1. \A t \in N : t \in theirs /\ t \in Named /\ \A m \in mine : m.name # t.name
  BY DEF NewOnes
<1>0. all = mine \cup Renumbered(N, new)
  OBVIOUS
<1>2. \A p \in Renumbered(N, new) : \E t \in N : p = [id |-> new[t.id], name |-> t.name]
  BY <1>1 DEF Renumbered, Named
<1>3. \A t \in N : [id |-> new[t.id], name |-> t.name] \in Renumbered(N, new)
  <2> SUFFICES ASSUME NEW t \in N PROVE [id |-> new[t.id], name |-> t.name] \in Renumbered(N, new)
    OBVIOUS
  <2>1. [t EXCEPT !.id = new[t.id]] = [id |-> new[t.id], name |-> t.name]
    BY <1>1 DEF Named
  <2>2. [t EXCEPT !.id = new[t.id]] \in Renumbered(N, new)
    BY DEF Renumbered
  <2> QED BY <2>1, <2>2
<1> HIDE DEF N, all
<1>4. \A p \in all : p \in mine \/ \E t \in N : p = [id |-> new[t.id], name |-> t.name]
  BY <1>0, <1>2
<1>5. all \in SUBSET Named
  BY <1>0, <1>1, <1>4 DEF Named, N
<1>6. NamesDiffer(all)
  <2> SUFFICES ASSUME NEW p \in all, NEW q \in all, p # q PROVE p.id # q.id /\ p.name # q.name
    BY DEF NamesDiffer
  <2>1. CASE p \in mine /\ q \in mine
    BY <2>1 DEF NamesDiffer
  <2>2. CASE p \in mine /\ q \notin mine
    <3>1. PICK t \in N : q = [id |-> new[t.id], name |-> t.name]
      BY <1>4, <2>2
    <3>2. new[t.id] \notin IdsOf(mine)
      BY DEF N
    <3> QED BY <1>1, <2>2, <3>1, <3>2 DEF IdsOf
  <2>3. CASE p \notin mine /\ q \in mine
    <3>1. PICK t \in N : p = [id |-> new[t.id], name |-> t.name]
      BY <1>4, <2>3
    <3>2. new[t.id] \notin IdsOf(mine)
      BY DEF N
    <3> QED BY <1>1, <2>3, <3>1, <3>2 DEF IdsOf
  <2>4. CASE p \notin mine /\ q \notin mine
    <3>1. PICK t \in N : p = [id |-> new[t.id], name |-> t.name]
      BY <1>4, <2>4
    <3>2. PICK u \in N : q = [id |-> new[u.id], name |-> u.name]
      BY <1>4, <2>4
    <3>3. t # u
      BY <3>1, <3>2
    <3>4. new[t.id] # new[u.id] /\ t.name # u.name
      BY <1>1, <3>3 DEF N, NamesDiffer
    <3> QED BY <3>1, <3>2, <3>4
  <2> QED BY <2>1, <2>2, <2>3, <2>4
<1>7. \A t \in theirs : (CHOOSE o \in theirs : o.id = t.id) = t
  BY DEF NamesDiffer
<1>8. \A m \in mine : (CHOOSE o \in mine : o.name = m.name) = m
  BY DEF NamesDiffer
<1>9. DOMAIN Matched(mine, theirs, new) = IdsOf(theirs)
  BY DEF Matched
<1>10. ASSUME NEW t \in theirs
       PROVE  Matched(mine, theirs, new)[t.id] =
                 IF \E m \in mine : m.name = t.name THEN (CHOOSE m \in mine : m.name = t.name).id ELSE new[t.id]
  <2> DEFINE Of(name) ==
                 IF \E m \in mine : m.name = name THEN (CHOOSE m \in mine : m.name = name).id ELSE new[t.id]
  <2>1. t.id \in IdsOf(theirs)
    BY DEF IdsOf
  <2>2. Matched(mine, theirs, new)[t.id] = Of((CHOOSE o \in theirs : o.id = t.id).name)
    BY <2>1 DEF Matched
  <2>3. (CHOOSE o \in theirs : o.id = t.id).name = t.name
    BY <1>7
  <2> HIDE DEF Of
  <2>4. Matched(mine, theirs, new)[t.id] = Of(t.name)
    BY <2>2, <2>3
  <2> QED BY <2>4 DEF Of
<1>11. \A t \in theirs : \A m \in mine : m.name = t.name => Matched(mine, theirs, new)[t.id] = m.id
  <2> SUFFICES ASSUME NEW t \in theirs, NEW m \in mine, m.name = t.name PROVE Matched(mine, theirs, new)[t.id] = m.id
    OBVIOUS
  <2>1. (CHOOSE o \in mine : o.name = t.name) = m
    BY <1>8
  <2> QED BY <1>10, <2>1
<1>12. ASSUME NEW t \in theirs PROVE \E p \in all : p.id = Matched(mine, theirs, new)[t.id] /\ p.name = t.name
  <2>1. CASE \E m \in mine : m.name = t.name
    <3>1. PICK m \in mine : m.name = t.name
      BY <2>1
    <3> QED BY <1>0, <1>11, <3>1
  <2>2. CASE ~\E m \in mine : m.name = t.name
    <3>1. t \in N
      BY <2>2 DEF N, NewOnes
    <3>2. [id |-> new[t.id], name |-> t.name] \in all
      BY <1>0, <1>3, <3>1
    <3> QED BY <1>10, <2>2, <3>2
  <2> QED BY <2>1, <2>2
<1>13. \A p \in all : p \in mine \/ \E t \in N : p.id = new[t.id] /\ p.name = t.name
  BY <1>4
<1>14. mine \subseteq all
  BY <1>0
<1>15. JoinedByName(mine, theirs, new, Matched(mine, theirs, new), all)
  BY <1>5, <1>6, <1>9, <1>11, <1>12, <1>13, <1>14 DEF N, JoinedByName
<1> QED BY <1>15 DEF all

\* Who is referred to in the file is there then, under the same name.
LEMMA FollowIs ==
    ASSUME NEW mine \in SUBSET Named, NEW theirs \in SUBSET Named, NEW map, NEW all \in SUBSET Named,
           NamesDiffer(all), NamesDiffer(theirs), DOMAIN map = IdsOf(theirs),
           \A t \in theirs : \E p \in all : p.id = map[t.id] /\ p.name = t.name,
           NEW owner \in OrNone(IdsOf(theirs))
    PROVE  /\ Follow(map, owner) \in OrNone(IdsOf(all))
           /\ owner # NoId => Follow(map, owner) \in IdsOf(all) /\ Follow(map, owner) # NoId
           /\ NameOf(all, Follow(map, owner)) = NameOf(theirs, owner)
<1>1. NoId \notin IdsOf(theirs) /\ NoId \notin IdsOf(all)
  BY NoIdIsNone DEF IdsOf, Named
<1>2. CASE owner = NoId
  <2>1. Follow(map, owner) = NoId
    BY <1>1, <1>2 DEF Follow
  <2> QED BY <1>1, <1>2, <2>1, NobodysName DEF OrNone
<1>3. CASE owner # NoId
  <2>1. PICK t \in theirs : t.id = owner
    BY <1>3 DEF OrNone, IdsOf
  <2>2. PICK p \in all : p.id = map[t.id] /\ p.name = t.name
    OBVIOUS
  <2>3. Follow(map, owner) = p.id
    BY <2>1, <2>2, <1>3 DEF Follow, OrNone
  <2>4. p.id \in IdsOf(all)
    BY DEF IdsOf
  <2>5. NameOf(all, p.id) = {p.name} /\ NameOf(theirs, t.id) = {t.name}
    BY NameOfIs
  <2> QED BY <1>1, <2>1, <2>2, <2>3, <2>4, <2>5 DEF OrNone
<1> QED BY <1>2, <1>3

-------------------------------------------------------------------------------
\* What a row and a meal of the file become.
RowOf(r, new, person, jar) ==
    [collection |-> r.collection, id |-> new[r.id], was |-> r.id, says |-> Unpacked(r).says,
     owner |-> Follow(person, r.owner), jar |-> Follow(jar, r.jar)]
MealOf(m, new, person) ==
    [id |-> new[m.id], was |-> m.id, says |-> m.says, owner |-> Follow(person, m.owner)]

LEMMA PeopleAreJoined ==
    ASSUME NEW doc, NEW add, Sound(doc), Orderly(add), NEW new \in Numberings(doc, add)
    PROVE  JoinedByName(doc.people, add.people, new, Matched(doc.people, add.people, new),
                  doc.people \cup Renumbered(NewOnes(doc.people, add.people), new))
<1> DEFINE N == NewOnes(doc.people, add.people)
<1>1. /\ doc.people \in SUBSET Named /\ add.people \in SUBSET Named
      /\ NamesDiffer(doc.people) /\ NamesDiffer(add.people)
  BY DEF Sound, Orderly, HouseDocument, InOrder
<1>2. \A t \in N : t.id \in Arriving(doc, add) /\ t \in add.people
  BY DEF Arriving, IdsOf, NewOnes
<1>3. IdsOf(doc.people) \subseteq Taken(doc)
  BY DEF Taken
<1>4. \A i, j \in Arriving(doc, add) : i # j => new[i] # new[j]
  BY NumbersAre
<1>5. \A t \in N : new[t.id] \in EntryIds /\ new[t.id] \notin IdsOf(doc.people)
  BY <1>2, <1>3, NumbersAre
<1>6. \A t, u \in N : t # u => new[t.id] # new[u.id]
  BY <1>1, <1>2, <1>4 DEF NamesDiffer
<1> QED BY <1>1, <1>5, <1>6, JoinedIs

LEMMA JarsAreJoined ==
    ASSUME NEW doc, NEW add, Sound(doc), Orderly(add), NEW new \in Numberings(doc, add)
    PROVE  JoinedByName(doc.jars, add.jars, new, Matched(doc.jars, add.jars, new),
                  doc.jars \cup Renumbered(NewOnes(doc.jars, add.jars), new))
<1> DEFINE N == NewOnes(doc.jars, add.jars)
<1>1. /\ doc.jars \in SUBSET Named /\ add.jars \in SUBSET Named
      /\ NamesDiffer(doc.jars) /\ NamesDiffer(add.jars)
  BY DEF Sound, Orderly, HouseDocument, InOrder
<1>2. \A t \in N : t.id \in Arriving(doc, add) /\ t \in add.jars
  BY DEF Arriving, IdsOf, NewOnes
<1>3. IdsOf(doc.jars) \subseteq Taken(doc)
  BY DEF Taken
<1>4. \A i, j \in Arriving(doc, add) : i # j => new[i] # new[j]
  BY NumbersAre
<1>5. \A t \in N : new[t.id] \in EntryIds /\ new[t.id] \notin IdsOf(doc.jars)
  BY <1>2, <1>3, NumbersAre
<1>6. \A t, u \in N : t # u => new[t.id] # new[u.id]
  BY <1>1, <1>2, <1>4 DEF NamesDiffer
<1> QED BY <1>1, <1>5, <1>6, JoinedIs

\* An idea of the household keeps its jar: if the file has one with that id, it is the same.
LEMMA RowsStay ==
    ASSUME NEW doc, NEW add, Sound(doc), Orderly(add), NEW new \in Numberings(doc, add), NEW r \in doc.rows
    PROVE  [r EXCEPT !.jar = Follow(Matched(doc.jars, add.jars, new), r.jar)] = r
<1> DEFINE jar == Matched(doc.jars, add.jars, new)
           all == doc.jars \cup Renumbered(NewOnes(doc.jars, add.jars), new)
<1>0. JoinedByName(doc.jars, add.jars, new, jar, all)
  BY JarsAreJoined
<1> HIDE DEF jar, all
<1>1. /\ DOMAIN jar = IdsOf(add.jars)
      /\ \A t \in add.jars : \A m \in doc.jars : m.name = t.name => jar[t.id] = m.id
  BY <1>0 DEF JoinedByName
<1>2. r \in ListRows /\ r.jar \in OrNone(IdsOf(doc.jars)) /\ NoId \notin IdsOf(add.jars)
  BY SMTT(30), NoIdIsNone DEF Sound, Orderly, HouseDocument, InOrder, IdsOf, Named
<1>3. Follow(jar, r.jar) = r.jar
  <2>1. CASE r.jar \notin IdsOf(add.jars)
    BY <1>1, <2>1 DEF Follow
  <2>2. CASE r.jar \in IdsOf(add.jars)
    <3>1. PICK t \in add.jars : t.id = r.jar
      BY <2>2 DEF IdsOf
    <3>2. PICK k \in doc.jars : k.id = r.jar
      BY <1>2, <2>2 DEF IdsOf, OrNone
    <3>3. t.name = k.name
      BY <3>1, <3>2 DEF Sound, Orderly, SameJars
    <3> QED BY <1>1, <2>2, <3>1, <3>2, <3>3 DEF Follow
  <2> QED BY <2>1, <2>2
<1> QED BY <1>2, <1>3 DEF ListRows, jar

\* What an import makes, part by part.
\* Three parts of an entry change.
LEMMA RowChanged ==
    ASSUME NEW r \in ListRows, NEW i, NEW o
    PROVE  Came(r, i, o) = [collection |-> r.collection, id |-> i, was |-> r.id, says |-> r.says, owner |-> o, jar |-> r.jar]
<1> DEFINE w == r.id
           b == [r EXCEPT !.id = i]
           c == [b EXCEPT !.was = w]
           d == [c EXCEPT !.owner = o]
<1> HIDE DEF w
<1>1. [r EXCEPT !.id = i, !.was = w, !.owner = o] = d
  BY DEF ListRows
<1>2. b = [collection |-> r.collection, id |-> i, was |-> r.was, says |-> r.says, owner |-> r.owner, jar |-> r.jar]
  BY DEF ListRows
<1> HIDE DEF b
<1>3. c = [collection |-> r.collection, id |-> i, was |-> w, says |-> r.says, owner |-> r.owner, jar |-> r.jar]
  BY <1>2
<1> HIDE DEF c
<1>4. d = [collection |-> r.collection, id |-> i, was |-> w, says |-> r.says, owner |-> o, jar |-> r.jar]
  BY <1>3
<1> QED BY <1>1, <1>4 DEF w, Came

LEMMA UnpackedIs ==
    ASSUME NEW r \in ListRows
    PROVE  /\ Unpacked(r) \in ListRows /\ Unpacked(r).collection = r.collection /\ Unpacked(r).id = r.id
           /\ Unpacked(r).owner = r.owner /\ Unpacked(r).jar = r.jar
           /\ r.collection \notin Sentences => Unpacked(r).says = r.says
<1> DEFINE s == IF r.collection \in Sentences THEN Letters ELSE r.says
<1>1. Unpacked(r) = [r EXCEPT !.says = s]
  BY DEF Unpacked
<1>2. s \in EntryNames \cup {Letters}
  BY DEF ListRows
<1>3. r.collection \notin Sentences => s = r.says
  OBVIOUS
<1> HIDE DEF s
<1> QED BY <1>1, <1>2, <1>3 DEF ListRows

LEMMA MealChanged ==
    ASSUME NEW m \in Meals, NEW i, NEW o
    PROVE  Came(m, i, o) = [id |-> i, was |-> m.id, says |-> m.says, owner |-> o]
<1> DEFINE w == m.id
           b == [m EXCEPT !.id = i]
           c == [b EXCEPT !.was = w]
           d == [c EXCEPT !.owner = o]
<1> HIDE DEF w
<1>1. [m EXCEPT !.id = i, !.was = w, !.owner = o] = d
  BY DEF Meals
<1>2. b = [id |-> i, was |-> m.was, says |-> m.says, owner |-> m.owner]
  BY DEF Meals
<1> HIDE DEF b
<1>3. c = [id |-> i, was |-> w, says |-> m.says, owner |-> m.owner]
  BY <1>2
<1> HIDE DEF c
<1>4. d = [id |-> i, was |-> w, says |-> m.says, owner |-> o]
  BY <1>3
<1> QED BY <1>1, <1>4 DEF w, Came

LEMMA MergeImportIs ==
    ASSUME NEW doc, NEW add, Sound(doc), Orderly(add), NEW new \in Numberings(doc, add),
           NEW person, person = Matched(doc.people, add.people, new),
           NEW jar, jar = Matched(doc.jars, add.jars, new),
           NEW into, into = MergeImport(doc, add, new)
    PROVE  /\ JoinedByName(doc.people, add.people, new, person, into.people)
           /\ JoinedByName(doc.jars, add.jars, new, jar, into.jars)
           /\ into.rows = doc.rows \cup {RowOf(r, new, person, jar) : r \in NewRows(doc, add)}
           /\ into.meals = doc.meals \cup {MealOf(m, new, person) : m \in NewMeals(doc, add)}
           /\ into.scores = Scored(doc.scores, add.scores, person)
           /\ into = [people |-> into.people, jars |-> into.jars, rows |-> into.rows, meals |-> into.meals,
                      scores |-> into.scores]
<1> DEFINE P == doc.people \cup Renumbered(NewOnes(doc.people, add.people), new)
           J == doc.jars \cup Renumbered(NewOnes(doc.jars, add.jars), new)
           U == {Unpacked(r) : r \in NewRows(doc, add)}
           R == Rejarred(doc.rows \cup Brought(U, new, person), jar)
           M == doc.meals \cup Brought(NewMeals(doc, add), new, person)
           S == Scored(doc.scores, add.scores, person)
<1>1. into = [people |-> P, jars |-> J, rows |-> R, meals |-> M, scores |-> S]
  BY DEF MergeImport
<1>2. JoinedByName(doc.people, add.people, new, person, P) /\ JoinedByName(doc.jars, add.jars, new, jar, J)
  BY PeopleAreJoined, JarsAreJoined
<1>3. R = doc.rows \cup {RowOf(r, new, person, jar) : r \in NewRows(doc, add)}
  <2>1. \A r \in doc.rows : [r EXCEPT !.jar = Follow(jar, r.jar)] = r
    BY RowsStay
  <2>2. ASSUME NEW r \in NewRows(doc, add)
        PROVE  LET b == Came(Unpacked(r), new[r.id], Follow(person, r.owner))
               IN  [b EXCEPT !.jar = Follow(jar, b.jar)] = RowOf(r, new, person, jar)
    <3>1. r \in ListRows
      BY DEF NewRows, Orderly, HouseDocument
    <3>2. /\ Unpacked(r) \in ListRows /\ Unpacked(r).collection = r.collection /\ Unpacked(r).id = r.id
          /\ Unpacked(r).jar = r.jar
      BY <3>1, UnpackedIs
    <3>3. Came(Unpacked(r), new[r.id], Follow(person, r.owner))
             = [collection |-> r.collection, id |-> new[r.id], was |-> r.id, says |-> Unpacked(r).says,
                owner |-> Follow(person, r.owner), jar |-> r.jar]
      BY <3>2, RowChanged
    <3> QED BY <3>3 DEF RowOf
  <2>3. Brought(U, new, person)
           = {Came(Unpacked(r), new[r.id], Follow(person, r.owner)) : r \in NewRows(doc, add)}
    <3>1. \A r \in NewRows(doc, add) : Unpacked(r).id = r.id /\ Unpacked(r).owner = r.owner
      BY UnpackedIs DEF NewRows, Orderly, HouseDocument
    <3> QED BY <3>1 DEF Brought
  <2>4. R \subseteq doc.rows \cup {RowOf(r, new, person, jar) : r \in NewRows(doc, add)}
    <3> SUFFICES ASSUME NEW c \in doc.rows \cup Brought(U, new, person)
                 PROVE  [c EXCEPT !.jar = Follow(jar, c.jar)]
                           \in doc.rows \cup {RowOf(r, new, person, jar) : r \in NewRows(doc, add)}
      BY DEF Rejarred
    <3>1. CASE c \in doc.rows
      BY <2>1, <3>1
    <3>2. CASE c \in Brought(U, new, person)
      <4>1. PICK r \in NewRows(doc, add) : c = Came(Unpacked(r), new[r.id], Follow(person, r.owner))
        BY <2>3, <3>2
      <4>2. [c EXCEPT !.jar = Follow(jar, c.jar)] = RowOf(r, new, person, jar)
        BY <2>2, <4>1
      <4> QED BY <4>2
    <3> QED BY <3>1, <3>2
  <2>5. ASSUME NEW r \in doc.rows PROVE r \in R
    BY <2>1 DEF Rejarred
  <2>6. ASSUME NEW r \in NewRows(doc, add) PROVE RowOf(r, new, person, jar) \in R
    <3> DEFINE b == Came(Unpacked(r), new[r.id], Follow(person, r.owner))
               X == doc.rows \cup Brought(U, new, person)
    <3>1. b \in X
      BY <2>3
    <3>2. [b EXCEPT !.jar = Follow(jar, b.jar)] = RowOf(r, new, person, jar)
      BY <2>2
    <3> HIDE DEF b, X
    <3>3. [b EXCEPT !.jar = Follow(jar, b.jar)] \in Rejarred(X, jar)
      BY <3>1 DEF Rejarred
    <3> QED BY <3>2, <3>3 DEF X
  <2> QED BY <2>4, <2>5, <2>6
<1>4. M = doc.meals \cup {MealOf(m, new, person) : m \in NewMeals(doc, add)}
  <2>1. ASSUME NEW m \in NewMeals(doc, add)
        PROVE  Came(m, new[m.id], Follow(person, m.owner)) = MealOf(m, new, person)
    <3>1. m \in Meals
      BY DEF NewMeals, Orderly, HouseDocument
    <3> QED BY <3>1, MealChanged DEF MealOf
  <2> QED BY <2>1 DEF Brought
<1> HIDE DEF P, J, R, M, S
<1>5. into.people = P /\ into.jars = J /\ into.rows = R /\ into.meals = M /\ into.scores = S
  BY <1>1
<1>6. into.scores = Scored(doc.scores, add.scores, person)
  BY <1>5 DEF S
<1> QED BY <1>1, <1>2, <1>3, <1>4, <1>5, <1>6

\* How the persons and jars of the file are followed.
LEMMA PeopleAreFollowed ==
    ASSUME NEW mine \in SUBSET Named, NEW theirs \in SUBSET Named, NamesDiffer(theirs), NEW new, NEW map, NEW all,
           JoinedByName(mine, theirs, new, map, all), NEW owner \in OrNone(IdsOf(theirs))
    PROVE  /\ Follow(map, owner) \in OrNone(IdsOf(all))
           /\ owner # NoId => Follow(map, owner) \in IdsOf(all) /\ Follow(map, owner) # NoId
           /\ NameOf(all, Follow(map, owner)) = NameOf(theirs, owner)
<1>1. /\ all \in SUBSET Named /\ NamesDiffer(all) /\ DOMAIN map = IdsOf(theirs)
      /\ \A t \in theirs : \E p \in all : p.id = map[t.id] /\ p.name = t.name
  BY DEF JoinedByName
<1> QED BY <1>1, FollowIs

\* Two of the file stay two.
LEMMA FollowedApart ==
    ASSUME NEW mine \in SUBSET Named, NEW theirs \in SUBSET Named, NamesDiffer(theirs), NEW new, NEW map, NEW all,
           JoinedByName(mine, theirs, new, map, all), NEW a \in IdsOf(theirs), NEW b \in IdsOf(theirs), a # b
    PROVE  Follow(map, a) # Follow(map, b)
<1>1. PICK t \in theirs : t.id = a
  BY DEF IdsOf
<1>2. PICK u \in theirs : u.id = b
  BY DEF IdsOf
<1>3. t # u /\ t.name # u.name
  BY <1>1, <1>2 DEF NamesDiffer
<1>4. NameOf(theirs, a) = {t.name} /\ NameOf(theirs, b) = {u.name}
  BY <1>1, <1>2, NameOfIs
<1>5. a \in OrNone(IdsOf(theirs)) /\ b \in OrNone(IdsOf(theirs))
  BY DEF OrNone
<1>6. NameOf(all, Follow(map, a)) = {t.name} /\ NameOf(all, Follow(map, b)) = {u.name}
  BY <1>4, <1>5, PeopleAreFollowed
<1> QED BY <1>3, <1>6

-------------------------------------------------------------------------------
\* The rows of the household and of the file are told apart, and what they name is there.
LEMMA RowsInOrder ==
    ASSUME NEW doc, NEW add, Sound(doc), Orderly(add), NEW new \in Numberings(doc, add),
           NEW into, into = MergeImport(doc, add, new)
    PROVE  /\ into.rows \in SUBSET ListRows
           /\ \A r, s \in into.rows : r # s /\ r.id # NoId => r.id # s.id
           /\ \A r \in into.rows : r.owner \in OrNone(IdsOf(into.people)) /\ r.jar \in OrNone(IdsOf(into.jars))
           /\ \A r \in into.rows : r \in doc.rows \/ \E q \in NewRows(doc, add) :
                 r.id = new[q.id] /\ r.was = q.id /\ r.says = Unpacked(q).says
<1> DEFINE person == Matched(doc.people, add.people, new)
           jar == Matched(doc.jars, add.jars, new)
           N == NewRows(doc, add)
<1>1. /\ JoinedByName(doc.people, add.people, new, person, into.people)
      /\ JoinedByName(doc.jars, add.jars, new, jar, into.jars)
      /\ into.rows = doc.rows \cup {RowOf(r, new, person, jar) : r \in N}
  BY MergeImportIs
<1>2. /\ doc.rows \subseteq ListRows /\ add.rows \subseteq ListRows
      /\ doc.people \in SUBSET Named /\ add.people \in SUBSET Named /\ NamesDiffer(add.people)
      /\ doc.jars \in SUBSET Named /\ add.jars \in SUBSET Named /\ NamesDiffer(add.jars)
  BY DEF Sound, Orderly, HouseDocument, InOrder
<1>3. \A r \in N : r \in add.rows /\ r \in ListRows /\ r.id \in Arriving(doc, add)
  BY <1>2 DEF NewRows, Arriving, IdsOf
<1> HIDE DEF person, jar, N
<1>4. \A r \in N : new[r.id] \in EntryIds /\ new[r.id] \notin Taken(doc) /\ new[r.id] # NoId
  BY <1>3, NumbersAre, NoIdIsNone
<1>5. \A r, s \in N : r # s => new[r.id] # new[s.id]
  <2>1. \A i, j \in Arriving(doc, add) : i # j => new[i] # new[j]
    BY NumbersAre
  <2>2. \A r, s \in add.rows : r # s => r.id # s.id
    BY DEF Orderly
  <2> QED BY <1>3, <2>1, <2>2
<1>6. ASSUME NEW r \in N
      PROVE  Follow(person, r.owner) \in OrNone(IdsOf(into.people)) /\ Follow(jar, r.jar) \in OrNone(IdsOf(into.jars))
  <2>1. r.owner \in OrNone(IdsOf(add.people)) /\ r.jar \in OrNone(IdsOf(add.jars))
    BY <1>3 DEF Orderly, InOrder
  <2> QED BY <1>1, <1>2, <2>1, PeopleAreFollowed
<1>7. IdsOf(into.people) \subseteq EntryIds /\ IdsOf(into.jars) \subseteq EntryIds
      /\ IdsOf(doc.people) \subseteq IdsOf(into.people) /\ IdsOf(doc.jars) \subseteq IdsOf(into.jars)
  BY <1>1 DEF JoinedByName, IdsOf, Named
<1>8. \A r \in N : /\ RowOf(r, new, person, jar).id = new[r.id]
                   /\ RowOf(r, new, person, jar).owner = Follow(person, r.owner)
                   /\ RowOf(r, new, person, jar).jar = Follow(jar, r.jar)
                   /\ RowOf(r, new, person, jar).was = r.id
                   /\ RowOf(r, new, person, jar).says = Unpacked(r).says
  BY DEF RowOf
<1>9. \A r \in N : RowOf(r, new, person, jar) \in ListRows
  <2>1. \A r \in N : Unpacked(r).says \in EntryNames \cup {Letters}
    BY <1>3, UnpackedIs DEF ListRows
  <2> QED BY <1>3, <1>4, <1>6, <1>7, <2>1 DEF RowOf, ListRows, OrNone
<1>10. \A r \in doc.rows : r.id = NoId \/ r.id \in Taken(doc)
  BY DEF Taken, IdsOf
<1>11. \A r, s \in into.rows : r # s /\ r.id # NoId => r.id # s.id
  <2>1. \A r, s \in doc.rows : r # s /\ r.id # NoId => r.id # s.id
    BY DEF Sound, InOrder
  <2> QED BY <1>1, <1>4, <1>5, <1>8, <1>10, <2>1
<1>12. \A r \in into.rows : r.owner \in OrNone(IdsOf(into.people)) /\ r.jar \in OrNone(IdsOf(into.jars))
  <2>1. \A r \in doc.rows : r.owner \in OrNone(IdsOf(doc.people)) /\ r.jar \in OrNone(IdsOf(doc.jars))
    BY DEF Sound, InOrder
  <2> QED BY <1>1, <1>6, <1>7, <1>8, <2>1 DEF OrNone
<1>13. \A r \in into.rows : r \in doc.rows \/ \E q \in N :
          r.id = new[q.id] /\ r.was = q.id /\ r.says = Unpacked(q).says
  BY <1>1, <1>8
<1>14. into.rows \in SUBSET ListRows
  BY <1>1, <1>2, <1>9
<1> QED BY <1>11, <1>12, <1>13, <1>14 DEF N

LEMMA MealsInOrder ==
    ASSUME NEW doc, NEW add, Sound(doc), Orderly(add), NEW new \in Numberings(doc, add),
           NEW into, into = MergeImport(doc, add, new)
    PROVE  /\ into.meals \in SUBSET Meals
           /\ \A m, o \in into.meals : m # o => m.id # o.id
           /\ \A m \in into.meals : m.owner \in OrNone(IdsOf(into.people))
           /\ \A e \in into.meals : e \in doc.meals \/ \E m \in add.meals : e.was = m.id /\ e.says = m.says
<1> DEFINE person == Matched(doc.people, add.people, new)
           N == NewMeals(doc, add)
<1>1. /\ JoinedByName(doc.people, add.people, new, person, into.people)
      /\ into.meals = doc.meals \cup {MealOf(m, new, person) : m \in N}
  BY MergeImportIs
<1>2. /\ doc.meals \subseteq Meals /\ add.meals \subseteq Meals
      /\ doc.people \in SUBSET Named /\ add.people \in SUBSET Named /\ NamesDiffer(add.people)
  BY DEF Sound, Orderly, HouseDocument, InOrder
<1>3. \A m \in N : m \in add.meals /\ m \in Meals /\ m.id \in IdsOf(NewMeals(doc, add))
  BY <1>2 DEF NewMeals, IdsOf
<1> HIDE DEF person, N
<1>4. \A m \in N : new[m.id] \in EntryIds /\ new[m.id] \notin IdsOf(doc.meals)
  <2>1. IdsOf(doc.meals) \subseteq UsedIn(doc)
    BY DEF UsedIn
  <2> QED BY <1>3, <2>1, NumbersAre
<1>5. \A m, o \in N : m # o => new[m.id] # new[o.id]
  <2>1. \A i, j \in IdsOf(NewMeals(doc, add)) : i # j => new[i] # new[j]
    BY NumbersAre
  <2>2. \A m, o \in add.meals : m # o => m.id # o.id
    BY DEF Orderly, InOrder
  <2> QED BY <1>3, <2>1, <2>2
<1>6. ASSUME NEW m \in N PROVE Follow(person, m.owner) \in OrNone(IdsOf(into.people))
  <2>1. m.owner \in OrNone(IdsOf(add.people))
    BY <1>3 DEF Orderly, InOrder
  <2> QED BY <1>1, <1>2, <2>1, PeopleAreFollowed
<1>7. IdsOf(into.people) \subseteq EntryIds /\ IdsOf(doc.people) \subseteq IdsOf(into.people)
  BY <1>1 DEF JoinedByName, IdsOf, Named
<1>8. \A m \in N : MealOf(m, new, person).id = new[m.id] /\ MealOf(m, new, person).owner = Follow(person, m.owner)
  BY DEF MealOf
<1>9. \A m \in N : MealOf(m, new, person) \in Meals
  BY <1>3, <1>4, <1>6, <1>7 DEF MealOf, Meals, OrNone
<1>10. \A m \in doc.meals : m.id \in IdsOf(doc.meals)
  BY DEF IdsOf
<1>11. \A m, o \in into.meals : m # o => m.id # o.id
  <2>1. \A m, o \in doc.meals : m # o => m.id # o.id
    BY DEF Sound, InOrder
  <2> QED BY <1>1, <1>4, <1>5, <1>8, <1>10, <2>1
<1>12. \A m \in into.meals : m.owner \in OrNone(IdsOf(into.people))
  <2>1. \A m \in doc.meals : m.owner \in OrNone(IdsOf(doc.people))
    BY DEF Sound, InOrder
  <2> QED BY <1>1, <1>6, <1>7, <1>8, <2>1 DEF OrNone
<1>13. into.meals \in SUBSET Meals
  BY <1>1, <1>2, <1>9
<1>14. \A e \in into.meals : e \in doc.meals \/ \E m \in add.meals : e.was = m.id /\ e.says = m.says
  <2>1. \A m \in N : MealOf(m, new, person).was = m.id /\ MealOf(m, new, person).says = m.says
    BY DEF MealOf
  <2> QED BY <1>1, <1>3, <2>1
<1> QED BY <1>11, <1>12, <1>13, <1>14

LEMMA ScoresInOrder ==
    ASSUME NEW doc, NEW add, Sound(doc), Orderly(add), NEW new \in Numberings(doc, add),
           NEW into, into = MergeImport(doc, add, new), NEW person, person = Matched(doc.people, add.people, new)
    PROVE  /\ into.scores \in SUBSET Scores /\ NobodyTwice(into.scores) /\ doc.scores \subseteq into.scores
           /\ \A s \in into.scores : s.owner \in IdsOf(into.people)
           /\ \A s \in into.scores : s \in doc.scores \/ \E t \in add.scores :
                 s.says = t.says /\ s.owner = Follow(person, t.owner)
           /\ \A t \in add.scores : \E s \in into.scores : s.owner = Follow(person, t.owner)
           /\ (\A t \in add.scores : \E s \in doc.scores : s.owner = Follow(person, t.owner)) => into.scores = doc.scores
<1> DEFINE came == {[t EXCEPT !.owner = Follow(person, t.owner)] : t \in add.scores}
           late == {s \in came : ~\E m \in doc.scores : m.owner = s.owner}
<1>1. /\ JoinedByName(doc.people, add.people, new, person, into.people)
      /\ into.scores = doc.scores \cup late
  BY MergeImportIs DEF Scored
<1>2. /\ doc.scores \subseteq Scores /\ add.scores \subseteq Scores
      /\ doc.people \in SUBSET Named /\ add.people \in SUBSET Named /\ NamesDiffer(add.people)
      /\ NobodyTwice(doc.scores) /\ NobodyTwice(add.scores)
      /\ \A s \in doc.scores : s.owner \in IdsOf(doc.people)
      /\ \A s \in add.scores : s.owner \in IdsOf(add.people)
  BY DEF Sound, Orderly, HouseDocument, InOrder
<1>3. ASSUME NEW t \in add.scores
      PROVE  /\ [t EXCEPT !.owner = Follow(person, t.owner)] = [owner |-> Follow(person, t.owner), says |-> t.says]
             /\ Follow(person, t.owner) \in IdsOf(into.people)
  <2>1. t \in Scores /\ t.owner \in OrNone(IdsOf(add.people)) /\ t.owner # NoId
    BY <1>2, NoIdIsNone DEF OrNone, Scores
  <2>2. Follow(person, t.owner) \in IdsOf(into.people)
    BY <1>1, <1>2, <2>1, PeopleAreFollowed
  <2> QED BY <2>1, <2>2 DEF Scores
<1>4. \A s \in came : \E t \in add.scores : s = [owner |-> Follow(person, t.owner), says |-> t.says]
  BY <1>3
<1>5. \A t \in add.scores : [owner |-> Follow(person, t.owner), says |-> t.says] \in came
  BY <1>3
<1>6. IdsOf(into.people) \subseteq EntryIds /\ IdsOf(doc.people) \subseteq IdsOf(into.people)
  BY <1>1 DEF JoinedByName, IdsOf, Named
<1> HIDE DEF came
<1>7. into.scores \in SUBSET Scores
  <2>1. came \subseteq Scores
    BY <1>2, <1>3, <1>4, <1>6 DEF Scores
  <2> QED BY <1>1, <1>2, <2>1
<1>8. ASSUME NEW s \in into.scores PROVE s.owner \in IdsOf(into.people)
  <2>1. CASE s \in doc.scores
    BY <1>2, <1>6, <2>1
  <2>2. CASE s \in came
    <3>1. PICK t \in add.scores : s = [owner |-> Follow(person, t.owner), says |-> t.says]
      BY <1>4, <2>2
    <3> QED BY <1>3, <3>1
  <2> QED BY <1>1, <2>1, <2>2
<1>9. \A s, u \in came : s # u => s.owner # u.owner
  <2> SUFFICES ASSUME NEW s \in came, NEW u \in came, s # u PROVE s.owner # u.owner
    OBVIOUS
  <2>1. PICK t \in add.scores : s = [owner |-> Follow(person, t.owner), says |-> t.says]
    BY <1>4
  <2>2. PICK v \in add.scores : u = [owner |-> Follow(person, v.owner), says |-> v.says]
    BY <1>4
  <2>3. t # v
    BY <2>1, <2>2
  <2>4. t.owner # v.owner /\ t.owner \in IdsOf(add.people) /\ v.owner \in IdsOf(add.people)
    BY <1>2, <2>3 DEF NobodyTwice
  <2>5. Follow(person, t.owner) # Follow(person, v.owner)
    BY <1>1, <1>2, <2>4, FollowedApart
  <2> QED BY <2>1, <2>2, <2>5
<1>10. NobodyTwice(into.scores)
  BY <1>1, <1>2, <1>9 DEF NobodyTwice
<1>11. \A s \in into.scores : s \in doc.scores \/ \E t \in add.scores : s.says = t.says /\ s.owner = Follow(person, t.owner)
  BY <1>1, <1>4
<1>12. ASSUME NEW t \in add.scores PROVE \E s \in into.scores : s.owner = Follow(person, t.owner)
  <2> DEFINE s == [owner |-> Follow(person, t.owner), says |-> t.says]
  <2>1. s \in came /\ s.owner = Follow(person, t.owner)
    BY <1>5
  <2>2. CASE \E m \in doc.scores : m.owner = s.owner
    BY <1>1, <2>1, <2>2
  <2>3. CASE ~\E m \in doc.scores : m.owner = s.owner
    BY <1>1, <2>1, <2>3
  <2> QED BY <2>2, <2>3
<1>13. ASSUME \A t \in add.scores : \E s \in doc.scores : s.owner = Follow(person, t.owner) PROVE late = {}
  BY <1>4, <1>13
<1> QED BY <1>1, <1>7, <1>8, <1>10, <1>11, <1>12, <1>13

\* What an import makes is a household like any other.
LEMMA MergeIsSound ==
    ASSUME NEW doc, NEW add, Sound(doc), Orderly(add), NEW new \in Numberings(doc, add),
           NEW into, into = MergeImport(doc, add, new)
    PROVE  Sound(into)
<1> DEFINE person == Matched(doc.people, add.people, new)
           jar == Matched(doc.jars, add.jars, new)
           P == NewOnes(doc.people, add.people)
           J == NewOnes(doc.jars, add.jars)
           R == NewRows(doc, add)
<1>1. /\ JoinedByName(doc.people, add.people, new, person, into.people)
      /\ JoinedByName(doc.jars, add.jars, new, jar, into.jars)
      /\ into = [people |-> into.people, jars |-> into.jars, rows |-> into.rows, meals |-> into.meals,
                 scores |-> into.scores]
  BY MergeImportIs
<1>2. /\ into.people \in SUBSET Named /\ NamesDiffer(into.people)
      /\ into.jars \in SUBSET Named /\ NamesDiffer(into.jars)
      /\ \A p \in into.people : p \in doc.people \/ \E t \in P : p.id = new[t.id]
      /\ \A k \in into.jars : k \in doc.jars \/ \E t \in J : k.id = new[t.id] /\ k.name = t.name
  BY <1>1 DEF JoinedByName
<1>3. /\ into.rows \in SUBSET ListRows
      /\ \A r, s \in into.rows : r # s /\ r.id # NoId => r.id # s.id
      /\ \A r \in into.rows : r.owner \in OrNone(IdsOf(into.people)) /\ r.jar \in OrNone(IdsOf(into.jars))
      /\ \A r \in into.rows : r \in doc.rows \/ \E q \in R :
            r.id = new[q.id] /\ r.was = q.id /\ r.says = Unpacked(q).says
  BY RowsInOrder
<1>4. /\ into.meals \in SUBSET Meals
      /\ \A m, o \in into.meals : m # o => m.id # o.id
      /\ \A m \in into.meals : m.owner \in OrNone(IdsOf(into.people))
      /\ \A e \in into.meals : e \in doc.meals \/ \E m \in add.meals : e.was = m.id /\ e.says = m.says
  BY MealsInOrder
<1>5. /\ into.scores \in SUBSET Scores /\ NobodyTwice(into.scores)
      /\ \A s \in into.scores : s.owner \in IdsOf(into.people)
  BY ScoresInOrder
<1>6. into \in HouseDocument
  BY <1>1, <1>2, <1>3, <1>4, <1>5 DEF HouseDocument
<1>7. /\ \A i \in Arriving(doc, add) : new[i] \in EntryIds /\ new[i] # NoId /\ new[i] \notin Taken(doc)
      /\ \A i, j \in Arriving(doc, add) : i # j => new[i] # new[j]
  BY NumbersAre, NoIdIsNone
<1>8. /\ \A t \in P : t.id \in Arriving(doc, add) /\ t \in add.people
      /\ \A t \in J : t.id \in Arriving(doc, add) /\ t \in add.jars
      /\ \A r \in R : r.id \in Arriving(doc, add) /\ r \in add.rows
  BY DEF Arriving, IdsOf, NewOnes, NewRows
<1> HIDE DEF P, J, R, person, jar
<1>9. /\ \A p \in doc.people : p.id \in Taken(doc) /\ p.id # NoId
      /\ \A k \in doc.jars : k.id \in Taken(doc) /\ k.id # NoId
      /\ \A r \in doc.rows : r.id = NoId \/ r.id \in Taken(doc)
  BY NoIdIsNone DEF Sound, HouseDocument, Named, Taken, IdsOf
<1>10. /\ \A p \in doc.people : (\A k \in doc.jars : p.id # k.id) /\ (\A r \in doc.rows : p.id # r.id)
       /\ \A k \in doc.jars : \A r \in doc.rows : k.id # r.id
  BY DEF Sound, InOrder, IdsOf
<1>11. /\ \A p \in add.people : (\A k \in add.jars : p.id # k.id) /\ (\A r \in add.rows : p.id # r.id)
       /\ \A k \in add.jars : \A r \in add.rows : k.id # r.id
  BY DEF Orderly, InOrder, IdsOf
<1>12. \A p \in into.people : \A k \in into.jars : p.id # k.id
  BY <1>2, <1>7, <1>8, <1>9, <1>10, <1>11
<1>13. \A p \in into.people : \A r \in into.rows : p.id # r.id
  BY <1>2, <1>3, <1>7, <1>8, <1>9, <1>10, <1>11
<1>14. \A k \in into.jars : \A r \in into.rows : k.id # r.id
  BY <1>2, <1>3, <1>7, <1>8, <1>9, <1>10, <1>11
<1>15. /\ IdsOf(into.people) \cap (IdsOf(into.jars) \cup IdsOf(into.rows)) = {}
       /\ IdsOf(into.jars) \cap IdsOf(into.rows) = {}
  BY <1>12, <1>13, <1>14 DEF IdsOf
<1>16. InOrder(into)
  BY <1>2, <1>3, <1>4, <1>5, <1>15 DEF InOrder
<1>17. ASSUME NEW f \in OldHomes PROVE SameJars(Normalized(f, NoId).jars, into.jars)
  <2> SUFFICES ASSUME NEW j \in Normalized(f, NoId).jars, NEW k \in into.jars, j.id = k.id PROVE j.name = k.name
    BY DEF SameJars
  <2>1. CASE k \in doc.jars
    BY <2>1 DEF Sound, SameJars
  <2>2. CASE k \notin doc.jars
    <3>1. PICK t \in J : k.id = new[t.id] /\ k.name = t.name
      BY <1>2, <2>2
    <3>2. PICK g \in OldHomes : add.jars = Normalized(g, NoId).jars
      BY DEF Orderly
    <3>3. \A e \in OldHomes : Normalized(e, NoId).jars = (IF e.jars = {} THEN StartJars ELSE e.jars)
      BY NormalizedIs DEF OrNone
    <3>4. t \in g.jars \cup StartJars
      BY <1>8, <3>2, <3>3
    <3>5. new[t.id] = t.id \/ \A e \in OldHomes : new[t.id] \notin IdsOf(e.jars) \cup IdsOf(StartJars)
      BY <1>8, NumbersAre
    <3>6. j.id \in IdsOf(f.jars) \cup IdsOf(StartJars)
      BY <3>3 DEF IdsOf
    <3>7. j.id = t.id
      BY <3>1, <3>5, <3>6
    <3>8. SameJars(Normalized(f, NoId).jars, g.jars \cup StartJars)
      BY ImportAssumption
    <3>9. j.name = t.name
      BY <3>4, <3>7, <3>8 DEF SameJars
    <3> QED BY <3>1, <3>9
  <2> QED BY <2>1, <2>2
<1>18. ASSUME NEW e \in into.rows, e.was # NoId
       PROVE  \E f \in OldHomes : BroughtByAFile(e, {Unpacked(q) : q \in f.rows})
  <2>1. CASE e \in doc.rows
    BY <1>18, <2>1 DEF Sound
  <2>2. CASE e \notin doc.rows
    <3>1. PICK q \in R : e.was = q.id /\ e.says = Unpacked(q).says
      BY <1>3, <2>2
    <3>2. PICK f \in OldHomes : add.rows = f.rows
      BY DEF Orderly
    <3>3. q \in f.rows /\ q \in ListRows
      BY <1>8, <3>1, <3>2 DEF Orderly, HouseDocument
    <3>4. Unpacked(q).id = q.id
      BY <3>3, UnpackedIs
    <3> QED BY <3>1, <3>3, <3>4 DEF BroughtByAFile
  <2> QED BY <2>1, <2>2
<1>19. ASSUME NEW e \in into.meals, e.was # NoId, ~Fresh(e.was)
       PROVE  \E f \in OldHomes : BroughtByAFile(e, f.meals)
  <2>1. CASE e \in doc.meals
    BY <1>19, <2>1 DEF Sound
  <2>2. CASE e \notin doc.meals
    <3>1. PICK m \in add.meals : e.was = m.id /\ e.says = m.says
      BY <1>4, <2>2
    <3>2. PICK f \in OldHomes : m \in f.meals
      BY <1>19, <3>1 DEF Orderly
    <3> QED BY <3>1, <3>2 DEF BroughtByAFile
  <2> QED BY <2>1, <2>2
<1> QED BY <1>6, <1>16, <1>17, <1>18, <1>19 DEF Sound

\* All that stood stands, who and what comes is as the file has it, and nothing is left behind.
LEMMA MergeIsRight ==
    ASSUME NEW doc, NEW add, Sound(doc), Orderly(add), NEW new \in Numberings(doc, add),
           NEW into, into = MergeImport(doc, add, new),
           \A m \in add.meals, e \in doc.meals : Fresh(m.id) /\ e.was = m.id => e.says = m.says,
           NEW l, l.from = doc, l.add = add, l.into = into
    PROVE  NothingIsChanged(l) /\ EveryoneIsFollowed(l) /\ EverythingArrives(l) /\ HasAll(into, add)
<1> DEFINE person == Matched(doc.people, add.people, new)
           jar == Matched(doc.jars, add.jars, new)
           R == NewRows(doc, add)
           N == NewMeals(doc, add)
<1>1. /\ JoinedByName(doc.people, add.people, new, person, into.people)
      /\ JoinedByName(doc.jars, add.jars, new, jar, into.jars)
      /\ into.rows = doc.rows \cup {RowOf(r, new, person, jar) : r \in R}
      /\ into.meals = doc.meals \cup {MealOf(m, new, person) : m \in N}
  BY MergeImportIs
<1>2. /\ doc.scores \subseteq into.scores
      /\ \A s \in into.scores : s \in doc.scores \/ \E t \in add.scores :
            s.says = t.says /\ s.owner = Follow(person, t.owner)
      /\ \A t \in add.scores : \E s \in into.scores : s.owner = Follow(person, t.owner)
  BY ScoresInOrder
<1>3. /\ doc.people \in SUBSET Named /\ add.people \in SUBSET Named /\ NamesDiffer(add.people)
      /\ doc.jars \in SUBSET Named /\ add.jars \in SUBSET Named /\ NamesDiffer(add.jars)
      /\ \A s \in add.scores : s.owner \in IdsOf(add.people)
      /\ \A r \in add.rows : r.owner \in OrNone(IdsOf(add.people)) /\ r.jar \in OrNone(IdsOf(add.jars))
      /\ \A m \in add.meals : m.owner \in OrNone(IdsOf(add.people))
      /\ \A m \in add.meals : m.id # NoId
  BY DEF Sound, Orderly, HouseDocument, InOrder, IdsOf
<1>4. (\A r \in R : r \in add.rows) /\ (\A m \in N : m \in add.meals)
  BY DEF NewRows, NewMeals
<1>5. /\ \A t \in add.people : \E p \in into.people : p.id = person[t.id] /\ p.name = t.name
      /\ \A t \in add.jars : \E p \in into.jars : p.id = jar[t.id] /\ p.name = t.name
      /\ DOMAIN person = IdsOf(add.people)
      /\ doc.people \subseteq into.people /\ doc.jars \subseteq into.jars
  BY <1>1 DEF JoinedByName
<1>6. \A r \in add.rows : r \in R \/ Duplicate(doc.rows, r)
  BY DEF NewRows
<1>7. \A m \in add.meals : m \in N \/ \E e \in doc.meals : e.was = m.id
  BY DEF NewMeals
<1> HIDE DEF person, jar, R, N
<1>8. NothingIsChanged(l)
  BY <1>1, <1>2, <1>5 DEF NothingIsChanged
<1>9. EveryoneIsFollowed(l)
  <2>1. ASSUME NEW e \in into.rows \ doc.rows
        PROVE  \E r \in add.rows : /\ e.says = Unpacked(r).says /\ e.was = r.id
                                   /\ NameOf(into.people, e.owner) = NameOf(add.people, r.owner)
                                   /\ NameOf(into.jars, e.jar) = NameOf(add.jars, r.jar)
    <3>1. PICK r \in R : e = RowOf(r, new, person, jar)
      BY <1>1
    <3>2. r \in add.rows /\ r.owner \in OrNone(IdsOf(add.people)) /\ r.jar \in OrNone(IdsOf(add.jars))
      BY <1>3, <1>4
    <3>3. /\ NameOf(into.people, Follow(person, r.owner)) = NameOf(add.people, r.owner)
          /\ NameOf(into.jars, Follow(jar, r.jar)) = NameOf(add.jars, r.jar)
      BY <1>1, <1>3, <3>2, PeopleAreFollowed
    <3>4. e.says = Unpacked(r).says /\ e.was = r.id /\ e.owner = Follow(person, r.owner) /\ e.jar = Follow(jar, r.jar)
      BY <3>1 DEF RowOf
    <3> QED BY <3>2, <3>3, <3>4
  <2>2. ASSUME NEW e \in into.meals \ doc.meals
        PROVE  \E m \in add.meals :
                  e.says = m.says /\ NameOf(into.people, e.owner) = NameOf(add.people, m.owner)
    <3>1. PICK m \in N : e = MealOf(m, new, person)
      BY <1>1
    <3>2. m \in add.meals /\ m.owner \in OrNone(IdsOf(add.people))
      BY <1>3, <1>4
    <3>3. NameOf(into.people, Follow(person, m.owner)) = NameOf(add.people, m.owner)
      BY <1>1, <1>3, <3>2, PeopleAreFollowed
    <3>4. e.says = m.says /\ e.owner = Follow(person, m.owner)
      BY <3>1 DEF MealOf
    <3> QED BY <3>2, <3>3, <3>4
  <2>3. ASSUME NEW s \in into.scores \ doc.scores
        PROVE  \E t \in add.scores :
                  s.says = t.says /\ NameOf(into.people, s.owner) = NameOf(add.people, t.owner)
    <3>1. PICK t \in add.scores : s.says = t.says /\ s.owner = Follow(person, t.owner)
      BY <1>2
    <3>2. t.owner \in OrNone(IdsOf(add.people))
      BY <1>3 DEF OrNone
    <3>3. NameOf(into.people, Follow(person, t.owner)) = NameOf(add.people, t.owner)
      BY <1>1, <1>3, <3>2, PeopleAreFollowed
    <3> QED BY <3>1, <3>3
  <2> QED BY <2>1, <2>2, <2>3 DEF EveryoneIsFollowed
<1>10. ASSUME NEW t \in add.scores
       PROVE  \E s \in into.scores : /\ s.owner = Follow(person, t.owner)
                                    /\ NameOf(into.people, s.owner) = NameOf(add.people, t.owner)
  <2>1. t.owner \in OrNone(IdsOf(add.people))
    BY <1>3 DEF OrNone
  <2>2. NameOf(into.people, Follow(person, t.owner)) = NameOf(add.people, t.owner)
    BY <1>1, <1>3, <2>1, PeopleAreFollowed
  <2> QED BY <1>2, <2>2
<1>11. \A m \in add.meals : \E e \in into.meals : e.was = m.id
  <2> SUFFICES ASSUME NEW m \in add.meals PROVE \E e \in into.meals : e.was = m.id
    OBVIOUS
  <2>1. CASE m \in N
    <3>1. MealOf(m, new, person) \in into.meals /\ MealOf(m, new, person).was = m.id
      BY <1>1, <2>1 DEF MealOf
    <3> QED BY <3>1
  <2>2. CASE \E e \in doc.meals : e.was = m.id
    BY <1>1, <2>2
  <2> QED BY <1>7, <2>1, <2>2
<1>12. ASSUME NEW r \in R
       PROVE  \E e \in into.rows : e.collection = r.collection /\ e.was = r.id /\ e.says = Unpacked(r).says
  <2>1. RowOf(r, new, person, jar) \in into.rows
    BY <1>1
  <2>2. /\ RowOf(r, new, person, jar).collection = r.collection /\ RowOf(r, new, person, jar).was = r.id
        /\ RowOf(r, new, person, jar).says = Unpacked(r).says
    BY DEF RowOf
  <2> QED BY <2>1, <2>2
<1>13. ASSUME NEW r \in add.rows
       PROVE  \/ PassedOver(l, r)
              \/ \E e \in into.rows : /\ e.collection = r.collection /\ r.id \in {e.id, e.was}
                                      /\ e.says \in {r.says, Unpacked(r).says}
  <2>1. CASE r \in R
    BY <1>12, <2>1
  <2>2. CASE Duplicate(doc.rows, r)
    <3>1. PICK e \in doc.rows : /\ e.collection = r.collection
                                /\ (r.id # NoId /\ e.was = r.id) \/ (e.id = r.id /\ SameTitle(e, r))
      BY <2>2 DEF Duplicate
    <3>2. CASE r.id # NoId /\ e.was = r.id
      <4>1. \E f \in OldHomes : BroughtByAFile(e, {Unpacked(q) : q \in f.rows})
        BY <3>2 DEF Sound
      <4> QED BY <3>1, <3>2, <4>1 DEF PassedOver
    <3>3. CASE e.id = r.id /\ r.collection \in Untitled
      BY <3>1, <3>3 DEF PassedOver
    <3>4. CASE e.id = r.id /\ e.says = r.says
      BY <1>1, <3>1, <3>4
    <3> QED BY <3>1, <3>2, <3>3, <3>4 DEF SameTitle
  <2> QED BY <1>6, <2>1, <2>2
<1>20. ASSUME NEW m \in add.meals
       PROVE  MealPassedOver(l, m) \/ \E e \in into.meals : e.was = m.id /\ e.says = m.says
  <2>1. CASE m \in N
    <3>1. MealOf(m, new, person) \in into.meals /\ MealOf(m, new, person).was = m.id
          /\ MealOf(m, new, person).says = m.says
      BY <1>1, <2>1 DEF MealOf
    <3> QED BY <3>1
  <2>2. CASE m \notin N
    <3>1. PICK e \in doc.meals : e.was = m.id
      BY <1>7, <2>2
    <3>2. CASE Fresh(m.id)
      <4>1. e.says = m.says /\ e \in into.meals
        BY <1>1, <3>1, <3>2
      <4> QED BY <3>1, <4>1
    <3>3. CASE ~Fresh(m.id)
      <4>1. \E f \in OldHomes : BroughtByAFile(e, f.meals)
        BY <1>3, <3>1, <3>3 DEF Sound
      <4> QED BY <3>1, <4>1 DEF MealPassedOver
    <3> QED BY <3>2, <3>3
  <2> QED BY <2>1, <2>2
<1>14. EverythingArrives(l)
  BY <1>5, <1>10, <1>13, <1>20 DEF EverythingArrives
<1>15. \A r \in add.rows : r.id # NoId => Duplicate(into.rows, r)
  <2> SUFFICES ASSUME NEW r \in add.rows, r.id # NoId PROVE Duplicate(into.rows, r)
    OBVIOUS
  <2>1. CASE r \in R
    BY <1>12, <2>1 DEF Duplicate
  <2>2. CASE Duplicate(doc.rows, r)
    BY <1>1, <2>2 DEF Duplicate
  <2> QED BY <1>6, <2>1, <2>2
<1>16. \A t \in add.scores : \A p \in add.people :
          p.id = t.owner => \E q \in into.people, s \in into.scores : q.name = p.name /\ s.owner = q.id
  <2> SUFFICES ASSUME NEW t \in add.scores, NEW p \in add.people, p.id = t.owner
               PROVE  \E q \in into.people, s \in into.scores : q.name = p.name /\ s.owner = q.id
    OBVIOUS
  <2>1. PICK q \in into.people : q.id = person[p.id] /\ q.name = p.name
    BY <1>5
  <2>2. Follow(person, t.owner) = q.id
    BY <1>5, <2>1 DEF Follow, IdsOf
  <2> QED BY <1>2, <2>1, <2>2
<1>17. HasAll(into, add)
  BY <1>5, <1>11, <1>15, <1>16 DEF HasAll
<1> QED BY <1>8, <1>9, <1>14, <1>17

\* A household that has everything is given nothing more.
LEMMA SameAgain ==
    ASSUME NEW doc, NEW add, Sound(doc), Orderly(add), NEW new \in Numberings(doc, add),
           NEW into, into = MergeImport(doc, add, new), HasAll(doc, add),
           NEW l, l.from = doc, l.add = add, l.into = into
    PROVE  NothingTwice(l)
<1> DEFINE person == Matched(doc.people, add.people, new)
           jar == Matched(doc.jars, add.jars, new)
<1>1. /\ JoinedByName(doc.people, add.people, new, person, into.people)
      /\ JoinedByName(doc.jars, add.jars, new, jar, into.jars)
      /\ into.rows = doc.rows \cup {RowOf(r, new, person, jar) : r \in NewRows(doc, add)}
      /\ into.meals = doc.meals \cup {MealOf(m, new, person) : m \in NewMeals(doc, add)}
  BY MergeImportIs
<1>2. \A r \in NewRows(doc, add) : RowOf(r, new, person, jar).was = NoId
  BY DEF NewRows, HasAll, RowOf
<1>3. NewMeals(doc, add) = {}
  BY DEF NewMeals, HasAll, Orderly, IdsOf
<1>4. NewOnes(doc.people, add.people) = {} /\ NewOnes(doc.jars, add.jars) = {}
  BY DEF NewOnes, HasAll
<1>5. /\ (\A t \in add.scores : \E s \in doc.scores : s.owner = Follow(person, t.owner)) => into.scores = doc.scores
      /\ \A s \in add.scores : s.owner \in IdsOf(add.people)
  BY ScoresInOrder DEF Orderly, InOrder
<1> HIDE DEF person, jar
<1>6. into.people = doc.people /\ into.jars = doc.jars
  BY <1>1, <1>4 DEF JoinedByName
<1>7. DOMAIN person = IdsOf(add.people)
      /\ \A t \in add.people : \A m \in doc.people : m.name = t.name => person[t.id] = m.id
  BY <1>1 DEF JoinedByName
<1>8. ASSUME NEW t \in add.scores PROVE \E s \in doc.scores : s.owner = Follow(person, t.owner)
  <2>1. PICK p \in add.people : p.id = t.owner
    BY <1>5 DEF IdsOf
  <2>2. PICK q \in doc.people, s \in doc.scores : q.name = p.name /\ s.owner = q.id
    BY <2>1 DEF HasAll
  <2>3. Follow(person, t.owner) = q.id
    BY <1>7, <2>1, <2>2 DEF Follow, IdsOf
  <2> QED BY <2>2, <2>3
<1>9. into.scores = doc.scores
  BY <1>5, <1>8
<1>10. into.meals = doc.meals /\ \A e \in into.rows \ doc.rows : e.was = NoId
  BY <1>1, <1>2, <1>3
<1> QED BY <1>6, <1>9, <1>10 DEF NothingTwice

-------------------------------------------------------------------------------
LEMMA ImportInitially == ImportInit => ImportInv
<1> SUFFICES ASSUME ImportInit PROVE ImportInv
  OBVIOUS
<1>1. ours \in HouseDocument /\ InOrder(ours)
  BY ImportAssumption DEF ImportInit
<1>2. \A f \in OldHomes : SameJars(Normalized(f, NoId).jars, ours.jars)
  BY ImportAssumption DEF ImportInit, SameJars
<1>3. ImportTypeOK
  <2>1. MaxChanges \in Nat
    BY ImportAssumption
  <2>2. 0 \in 0..MaxChanges
    BY <2>1
  <2> QED BY <1>1, <2>2 DEF ImportInit, ImportTypeOK
<1>4. Sound(ours)
  BY <1>1, <1>2, ImportAssumption DEF ImportInit, Sound
<1>5. Agreed(PressedOver, FoundInFiles)
  BY DEF ImportInit, Agreed, PressedOver, FoundInFiles
<1> QED BY <1>1, <1>3, <1>4, <1>5 DEF ImportInit, ImportInv, OfferedIsPicked, PanelInv

\* It stays one thing where nothing but what was found comes into a household.
LEMMA StillAgreed ==
    ASSUME NEW docs, NEW adds, Agreed(docs, adds), NEW docs2, NEW adds2, adds2 \subseteq adds,
           \A h \in docs2 : \A e \in h.meals :
              \/ \E k \in docs : e \in k.meals
              \/ \E add \in adds : \E m \in add.meals : e.was = m.id /\ e.says = m.says
    PROVE  Agreed(docs2, adds2)
<1> SUFFICES ASSUME NEW add \in adds2, NEW m \in add.meals, Fresh(m.id)
             PROVE  /\ \A h \in docs2 : \A e \in h.meals : e.was = m.id => e.says = m.says
                    /\ \A other \in adds2 : \A n \in other.meals : n.id = m.id => n.says = m.says
  BY DEF Agreed
<1>1. add \in adds
  OBVIOUS
<1>2. /\ \A h \in docs : \A e \in h.meals : e.was = m.id => e.says = m.says
      /\ \A other \in adds : \A n \in other.meals : n.id = m.id => n.says = m.says
  BY <1>1 DEF Agreed
<1>3. ASSUME NEW h \in docs2, NEW e \in h.meals, e.was = m.id PROVE e.says = m.says
  <2>1. CASE \E k \in docs : e \in k.meals
    BY <1>2, <1>3, <2>1
  <2>2. CASE \E o \in adds : \E n \in o.meals : e.was = n.id /\ e.says = n.says
    BY <1>2, <1>3, <2>2
  <2> QED BY <2>1, <2>2
<1> QED BY <1>2, <1>3

\* What is being added goes on without its button.
LEMMA LeftIs ==
    ASSUME applying \subseteq Additions
    PROVE  /\ Left \subseteq Additions
           /\ \A b \in Left : \E a \in applying : b.doc = a.doc /\ b.add = a.add /\ b.again = a.again
           /\ applying = {} => Left = {}
<1>1. \A a \in applying : /\ [a EXCEPT !.shown = FALSE] \in Additions
                         /\ [a EXCEPT !.shown = FALSE].doc = a.doc
                         /\ [a EXCEPT !.shown = FALSE].add = a.add
                         /\ [a EXCEPT !.shown = FALSE].again = a.again
  BY DEF Additions
<1> QED BY <1>1 DEF Left

LEMMA PickFileKeeps ==
    ASSUME ImportInv, NEW f \in OldHomes, PickFile(f)
    PROVE  ImportInv'
<1> USE DEF ImportInv
<1>1. /\ ~arrived /\ picked' = {f} /\ reading' = reading \cup {f} /\ proposal' = {} /\ applying' = Left
      /\ mixed' = (reading # {} \/ applying # {})
      /\ UNCHANGED <<ours, arrived, changes, imported, stands>>
  BY DEF PickFile
<1>2. /\ applying' \subseteq Additions
      /\ \A b \in applying' : \E a \in applying : b.doc = a.doc /\ b.add = a.add /\ b.again = a.again
      /\ applying = {} => applying' = {}
  BY <1>1, LeftIs DEF ImportTypeOK
<1>3. ImportTypeOK'
  <2>1. mixed' \in BOOLEAN
    BY <1>1
  <2> QED BY <1>1, <1>2, <2>1 DEF ImportTypeOK
<1>4. \A b \in applying' : Sound(b.doc) /\ Orderly(b.add) /\ (b.again => HasAll(b.doc, b.add))
  BY <1>2
<1>5. PanelInv'
  BY <1>1, <1>2 DEF PanelInv
<1>6. OfferedIsPicked'
  BY <1>1 DEF OfferedIsPicked
<1>7. PressedOver' \subseteq PressedOver /\ FoundInFiles' \subseteq FoundInFiles
  BY <1>1, <1>2 DEF PressedOver, FoundInFiles
<1>8. Agreed(PressedOver', FoundInFiles')
  BY <1>7, StillAgreed
<1> QED BY <1>1, <1>3, <1>4, <1>5, <1>6, <1>8

LEMMA FileIsReadKeeps ==
    ASSUME ImportInv, NEW f \in OldHomes, FileIsRead(f)
    PROVE  ImportInv'
<1> USE DEF ImportInv
<1>1. /\ f \in reading /\ reading' = reading \ {f}
      /\ UNCHANGED <<ours, picked, applying, arrived, changes, imported, stands, mixed>>
  BY DEF FileIsRead
<1> DEFINE u == UNION {UsedIn(h) \cup {m.was : m \in h.meals} : h \in PressedOver \cup FoundInFiles}
<1>2. PICK id \in Spare(u) : proposal' = {Normalized(f, id)}
  BY DEF FileIsRead
<1>3. Orderly(Normalized(f, id))
  BY FoundIs
<1>4. id \in EntryIds
  BY DEF Spare
<1>5. ImportTypeOK'
  BY <1>1, <1>2, <1>3 DEF ImportTypeOK, Orderly
<1>6. OfferedIsPicked' /\ PanelInv'
  BY <1>1, <1>2, <1>4 DEF OfferedIsPicked, PanelInv
<1> DEFINE found == Normalized(f, id)
<1>7. \A m \in found.meals : m.id = id \/ m \in f.meals
  <2>1. found.meals = {IF m.id = NoId THEN [m EXCEPT !.id = id] ELSE m : m \in f.meals}
    BY <1>4, NormalizedIs DEF OrNone
  <2>2. f.meals \subseteq Meals
    BY ImportAssumption DEF HouseDocument
  <2> HIDE DEF found
  <2> QED BY <2>1, <2>2 DEF Meals
<1>8. \A m \in found.meals : Fresh(m.id) => m.id = id
  BY <1>7 DEF Fresh, IdsOf
<1>9. /\ \A h \in PressedOver : \A e \in h.meals : e.was # id
      /\ \A add \in FoundInFiles : \A m \in add.meals : m.id # id
  <2>1. id \notin u
    BY DEF Spare
  <2>2. \A h \in PressedOver \cup FoundInFiles : UsedIn(h) \cup {m.was : m \in h.meals} \subseteq u
    OBVIOUS
  <2> HIDE DEF u
  <2> QED BY <2>1, <2>2 DEF UsedIn, IdsOf
<1>10. \A m, n \in found.meals : m.id = n.id => m.says = n.says
  BY <1>3 DEF Orderly, InOrder
<1>11. PressedOver' = PressedOver /\ FoundInFiles' \subseteq FoundInFiles \cup {found}
  BY <1>1, <1>2 DEF PressedOver, FoundInFiles
<1> HIDE DEF found
<1>12. Agreed(PressedOver', FoundInFiles')
  <2> SUFFICES ASSUME NEW add \in FoundInFiles', NEW m \in add.meals, Fresh(m.id)
               PROVE  /\ \A h \in PressedOver : \A e \in h.meals : e.was = m.id => e.says = m.says
                      /\ \A other \in FoundInFiles' : \A n \in other.meals : n.id = m.id => n.says = m.says
    BY <1>11 DEF Agreed
  <2>1. CASE add = found
    <3>1. m.id = id
      BY <1>8, <2>1
    <3> QED BY <1>9, <1>10, <1>11, <2>1, <3>1
  <2>2. CASE add \in FoundInFiles
    <3>1. m.id # id
      BY <1>9, <2>2
    <3>2. \A n \in found.meals : n.id # m.id
      BY <1>8, <3>1
    <3>3. /\ \A h \in PressedOver : \A e \in h.meals : e.was = m.id => e.says = m.says
          /\ \A other \in FoundInFiles : \A n \in other.meals : n.id = m.id => n.says = m.says
      BY <2>2 DEF Agreed
    <3> QED BY <1>11, <3>2, <3>3
  <2> QED BY <1>11, <2>1, <2>2
<1>13. \A add \in proposal' : Orderly(add)
  BY <1>2, <1>3
<1> QED BY <1>1, <1>5, <1>6, <1>12, <1>13

LEMMA FileIsRefusedKeeps ==
    ASSUME ImportInv, NEW f \in OldHomes, FileIsRefused(f)
    PROVE  ImportInv'
<1> USE DEF ImportInv
<1>1. /\ reading' = reading \ {f}
      /\ UNCHANGED <<ours, picked, proposal, applying, arrived, changes, imported, stands, mixed>>
  BY DEF FileIsRefused
<1>2. ImportTypeOK'
  BY <1>1 DEF ImportTypeOK
<1>3. OfferedIsPicked' /\ PanelInv'
  BY <1>1 DEF OfferedIsPicked, PanelInv
<1>4. PressedOver' = PressedOver /\ FoundInFiles' = FoundInFiles
  BY <1>1 DEF PressedOver, FoundInFiles
<1> QED BY <1>1, <1>2, <1>3, <1>4

LEMMA StartOverKeeps ==
    ASSUME ImportInv, StartOver
    PROVE  ImportInv'
<1> USE DEF ImportInv
<1>1. /\ proposal # {} \/ arrived
      /\ picked' = {} /\ proposal' = {} /\ arrived' = FALSE /\ applying' = Left
      /\ UNCHANGED <<ours, reading, changes, imported, stands, mixed>>
  BY DEF StartOver
<1>2. /\ applying' \subseteq Additions
      /\ \A b \in applying' : \E a \in applying : b.doc = a.doc /\ b.add = a.add /\ b.again = a.again
  BY <1>1, LeftIs DEF ImportTypeOK
<1>3. ImportTypeOK'
  BY <1>1, <1>2 DEF ImportTypeOK
<1>4. \A b \in applying' : Sound(b.doc) /\ Orderly(b.add) /\ (b.again => HasAll(b.doc, b.add))
  BY <1>2
<1>5. PanelInv' /\ OfferedIsPicked'
  BY <1>1 DEF PanelInv, OfferedIsPicked
<1>6. PressedOver' \subseteq PressedOver /\ FoundInFiles' \subseteq FoundInFiles
  BY <1>1, <1>2 DEF PressedOver, FoundInFiles
<1>7. Agreed(PressedOver', FoundInFiles')
  BY <1>6, StillAgreed
<1> QED BY <1>1, <1>3, <1>4, <1>5, <1>7

LEMMA PressAddKeeps ==
    ASSUME ImportInv, PressAdd
    PROVE  ImportInv'
<1> USE DEF ImportInv
<1>1. UNCHANGED <<ours, picked, reading, proposal, arrived, changes, imported, stands, mixed>>
  BY DEF PressAdd
<1>2. PICK add \in proposal :
          applying' = applying \cup {[doc |-> ours, add |-> add, shown |-> TRUE, again |-> add \in stands]}
  BY DEF PressAdd
<1>3. ImportTypeOK'
  <2>1. [doc |-> ours, add |-> add, shown |-> TRUE, again |-> add \in stands] \in Additions
    BY DEF ImportTypeOK, Additions
  <2> QED BY <1>1, <1>2, <2>1 DEF ImportTypeOK
<1>4. ASSUME NEW a \in applying' PROVE Sound(a.doc) /\ Orderly(a.add) /\ (a.again => HasAll(a.doc, a.add))
  <2>1. CASE a \in applying
    BY <2>1
  <2>2. CASE a = [doc |-> ours, add |-> add, shown |-> TRUE, again |-> add \in stands]
    <3>1. a.doc = ours /\ a.add = add /\ a.again = (add \in stands)
      BY <2>2
    <3> QED BY <3>1
  <2> QED BY <1>2, <2>1, <2>2
<1>5. PanelInv' /\ OfferedIsPicked'
  BY <1>1 DEF PanelInv, OfferedIsPicked
<1>6. PressedOver' \subseteq PressedOver /\ FoundInFiles' \subseteq FoundInFiles
  <2>1. \A a \in applying' : (a.doc = ours /\ a.add \in proposal) \/ a \in applying
    BY <1>2
  <2> QED BY <1>1, <2>1 DEF PressedOver, FoundInFiles
<1>7. Agreed(PressedOver', FoundInFiles')
  BY <1>6, StillAgreed
<1> QED BY <1>1, <1>3, <1>4, <1>5, <1>7

LEMMA AddIsDoneKeeps ==
    ASSUME ImportInv, AddIsDone
    PROVE  ImportInv'
<1> USE DEF ImportInv
<1>1. PICK a \in applying : \E new \in Numberings(a.doc, a.add) :
          /\ ours' = MergeImport(a.doc, a.add, new)
          /\ imported' = {[from |-> a.doc, add |-> a.add, into |-> ours', again |-> a.again]}
          /\ stands' = {a.add}
          /\ \/ /\ arrived' = TRUE /\ proposal' = {} /\ picked' = {}
                /\ applying' = {[o EXCEPT !.shown = FALSE] : o \in applying \ {a}}
             \/ applying' = applying \ {a} /\ UNCHANGED <<arrived, proposal, picked>>
  BY DEF AddIsDone
<1>2. PICK new \in Numberings(a.doc, a.add) :
          /\ ours' = MergeImport(a.doc, a.add, new)
          /\ imported' = {[from |-> a.doc, add |-> a.add, into |-> ours', again |-> a.again]}
          /\ stands' = {a.add}
          /\ \/ /\ arrived' = TRUE /\ proposal' = {} /\ picked' = {}
                /\ applying' = {[o EXCEPT !.shown = FALSE] : o \in applying \ {a}}
             \/ applying' = applying \ {a} /\ UNCHANGED <<arrived, proposal, picked>>
  BY <1>1
<1>3. UNCHANGED <<reading, changes, mixed>>
  BY DEF AddIsDone
<1>4. /\ Sound(a.doc) /\ Orderly(a.add) /\ (a.again => HasAll(a.doc, a.add))
      /\ a \in Additions /\ applying \subseteq Additions
  BY DEF ImportTypeOK
<1>5. Sound(ours')
  BY <1>2, <1>4, MergeIsSound
<1> DEFINE l == [from |-> a.doc, add |-> a.add, into |-> ours', again |-> a.again]
<1>6. l.from = a.doc /\ l.add = a.add /\ l.into = ours' /\ l.again = a.again
  OBVIOUS
<1>7. imported' = {l}
  BY <1>2
<1>8. l \in [from : HouseDocument, add : HouseDocument, into : HouseDocument, again : BOOLEAN]
  BY <1>4, <1>5 DEF Additions, Sound
<1> HIDE DEF l
<1>9. NothingIsChanged(l) /\ EveryoneIsFollowed(l) /\ EverythingArrives(l) /\ HasAll(ours', a.add)
  <2>1. \A m \in a.add.meals, e \in a.doc.meals : Fresh(m.id) /\ e.was = m.id => e.says = m.says
    BY DEF Agreed, PressedOver, FoundInFiles
  <2> QED BY <1>2, <1>4, <1>6, <2>1, MergeIsRight
<1>10. l.again => NothingTwice(l)
  BY <1>2, <1>4, <1>6, SameAgain
<1>11. /\ applying' \subseteq Additions
       /\ \A b \in applying' : \E o \in applying : b.doc = o.doc /\ b.add = o.add /\ b.again = o.again
  <2>1. \A o \in applying : /\ [o EXCEPT !.shown = FALSE] \in Additions
                           /\ [o EXCEPT !.shown = FALSE].doc = o.doc
                           /\ [o EXCEPT !.shown = FALSE].add = o.add
                           /\ [o EXCEPT !.shown = FALSE].again = o.again
    BY <1>4 DEF Additions
  <2>2. CASE applying' = {[o EXCEPT !.shown = FALSE] : o \in applying \ {a}}
    BY <2>1, <2>2
  <2>3. CASE applying' = applying \ {a}
    BY <1>4, <2>3
  <2> QED BY <1>2, <2>2, <2>3
<1>12. ImportTypeOK'
  <2>1. stands' \subseteq HouseDocument /\ ours' \in HouseDocument /\ imported' \subseteq
           [from : HouseDocument, add : HouseDocument, into : HouseDocument, again : BOOLEAN]
    BY <1>2, <1>4, <1>5, <1>7, <1>8 DEF Sound, Orderly
  <2> QED BY <1>2, <1>3, <1>11, <2>1 DEF ImportTypeOK
<1>13. \A b \in applying' : Sound(b.doc) /\ Orderly(b.add) /\ (b.again => HasAll(b.doc, b.add))
  BY <1>11
<1>14. (\A add \in proposal' : Orderly(add)) /\ (\A add \in stands' : HasAll(ours', add))
  BY <1>2, <1>9
<1>15. \A k \in imported' : ImportIsRight(k)
  BY <1>7, <1>9, <1>10 DEF ImportIsRight
<1>16. OfferedIsPicked'
  BY <1>2, <1>3 DEF OfferedIsPicked
<1>17. PanelInv'
  BY <1>3 DEF PanelInv
<1>18. FoundInFiles' \subseteq FoundInFiles /\ PressedOver' \subseteq PressedOver \cup {ours'}
  BY <1>2, <1>11 DEF PressedOver, FoundInFiles
<1>19. \A e \in ours'.meals : e \in a.doc.meals \/ \E m \in a.add.meals : e.was = m.id /\ e.says = m.says
  BY <1>2, <1>4, MealsInOrder
<1>20. a.doc \in PressedOver /\ a.add \in FoundInFiles
  BY DEF PressedOver, FoundInFiles
<1>21. Agreed(PressedOver', FoundInFiles')
  BY <1>18, <1>19, <1>20, StillAgreed
<1> QED BY <1>5, <1>12, <1>13, <1>14, <1>15, <1>16, <1>17, <1>21

\* One more row takes nothing away.
LEMMA HasMore ==
    ASSUME NEW h, NEW g, NEW add, HasAll(h, add),
           g.people = h.people, g.jars = h.jars, g.meals = h.meals, g.scores = h.scores,
           \A r : Duplicate(h.rows, r) => Duplicate(g.rows, r)
    PROVE  HasAll(g, add)
<1>1. (\A t \in add.people : \E p \in g.people : p.name = t.name) /\ (\A t \in add.jars : \E j \in g.jars : j.name = t.name)
  BY DEF HasAll
<1>2. \A r \in add.rows : r.id # NoId => Duplicate(g.rows, r)
  BY DEF HasAll
<1>3. \A m \in add.meals : \E e \in g.meals : e.was = m.id
  BY DEF HasAll
<1>4. \A t \in add.scores : \A p \in add.people :
          p.id = t.owner => \E q \in g.people, s \in g.scores : q.name = p.name /\ s.owner = q.id
  BY DEF HasAll
<1> QED BY <1>1, <1>2, <1>3, <1>4 DEF HasAll

LEMMA WriteRowKeeps ==
    ASSUME ImportInv, NEW collection \in Collections, NEW says \in EntryNames, WriteRow(collection, says)
    PROVE  ImportInv'
<1> USE DEF ImportInv
<1>1. /\ changes < MaxChanges /\ changes' = changes + 1
      /\ UNCHANGED <<picked, reading, proposal, applying, arrived, imported, stands, mixed>>
  BY DEF WriteRow
<1>2. PICK id \in (IF collection \in Unnumbered THEN {NoId} ELSE Spare(UsedIn(ours))) :
          ours' = [ours EXCEPT !.rows = @ \cup {[collection |-> collection, id |-> id, was |-> NoId,
                                                 says |-> says, owner |-> NoId, jar |-> NoId]}]
  BY DEF WriteRow
<1> DEFINE row == [collection |-> collection, id |-> id, was |-> NoId, says |-> says, owner |-> NoId, jar |-> NoId]
<1>3. id \in OrNone(EntryIds) /\ (id = NoId \/ id \notin UsedIn(ours))
  BY DEF Spare, OrNone
<1>4. row \in ListRows /\ row.id = id /\ row.owner = NoId /\ row.jar = NoId /\ row.was = NoId
  BY <1>3 DEF ListRows, OrNone
<1>5. ours' = [ours EXCEPT !.rows = ours.rows \cup {row}]
  BY <1>2
<1> HIDE DEF row
<1>6. /\ ours' \in HouseDocument /\ ours'.people = ours.people /\ ours'.jars = ours.jars
      /\ ours'.meals = ours.meals /\ ours'.scores = ours.scores /\ ours'.rows = ours.rows \cup {row}
  BY <1>4, <1>5 DEF ImportTypeOK, HouseDocument
<1>7. /\ id \notin IdsOf(ours.people) /\ id \notin IdsOf(ours.jars)
      /\ \A r \in ours.rows : r.id = id => id = NoId
  <2>1. NoId \notin IdsOf(ours.people) /\ NoId \notin IdsOf(ours.jars)
    BY NoIdIsNone DEF ImportTypeOK, HouseDocument, Named, IdsOf
  <2> QED BY <1>3, <2>1 DEF UsedIn, Taken, IdsOf
<1>8. InOrder(ours')
  <2>1. InOrder(ours)
    BY DEF Sound
  <2>2. IdsOf(ours'.rows) = IdsOf(ours.rows) \cup {id}
    BY <1>4, <1>6 DEF IdsOf
  <2>3. \A r, s \in ours'.rows : r # s /\ r.id # NoId => r.id # s.id
    BY <1>4, <1>6, <1>7, <2>1 DEF InOrder
  <2>4. /\ \A e \in ours'.rows \cup ours'.meals : e.owner \in OrNone(IdsOf(ours'.people))
        /\ \A r \in ours'.rows : r.jar \in OrNone(IdsOf(ours'.jars))
    BY <1>4, <1>6, <2>1 DEF InOrder, OrNone
  <2> QED BY <1>6, <1>7, <2>1, <2>2, <2>3, <2>4 DEF InOrder
<1>9. Sound(ours')
  BY <1>4, <1>6, <1>8 DEF Sound
<1>10. \A add \in stands' : HasAll(ours', add)
  <2> SUFFICES ASSUME NEW add \in stands PROVE HasAll(ours', add)
    BY <1>1
  <2>1. HasAll(ours, add)
    OBVIOUS
  <2>2. \A r : Duplicate(ours.rows, r) => Duplicate(ours'.rows, r)
    BY <1>6 DEF Duplicate
  <2> QED BY <1>6, <2>1, <2>2, HasMore
<1>11. ImportTypeOK'
  <2>1. changes' \in 0..MaxChanges
    BY <1>1, ImportAssumption DEF ImportTypeOK
  <2> QED BY <1>1, <1>6, <2>1 DEF ImportTypeOK
<1>12. OfferedIsPicked' /\ PanelInv'
  BY <1>1 DEF OfferedIsPicked, PanelInv
<1>13. FoundInFiles' = FoundInFiles /\ \A h \in PressedOver' : \E k \in PressedOver : h.meals = k.meals
  BY <1>1, <1>6 DEF FoundInFiles, PressedOver
<1>14. Agreed(PressedOver', FoundInFiles')
  BY <1>13, StillAgreed
<1> QED BY <1>1, <1>9, <1>10, <1>11, <1>12, <1>14

LEMMA RemoveRowKeeps ==
    ASSUME ImportInv, NEW r \in ours.rows, RemoveRow(r)
    PROVE  ImportInv'
<1> USE DEF ImportInv
<1>1. /\ changes < MaxChanges /\ changes' = changes + 1 /\ stands' = {}
      /\ ours' = [ours EXCEPT !.rows = ours.rows \ {r}]
      /\ UNCHANGED <<picked, reading, proposal, applying, arrived, imported, mixed>>
  BY DEF RemoveRow
<1>2. /\ ours' \in HouseDocument /\ ours'.people = ours.people /\ ours'.jars = ours.jars
      /\ ours'.meals = ours.meals /\ ours'.scores = ours.scores /\ ours'.rows = ours.rows \ {r}
  BY <1>1 DEF ImportTypeOK, HouseDocument
<1>3. InOrder(ours')
  <2>1. InOrder(ours)
    BY DEF Sound
  <2>2. IdsOf(ours'.rows) \subseteq IdsOf(ours.rows)
    BY <1>2 DEF IdsOf
  <2>3. \A q, s \in ours'.rows : q # s /\ q.id # NoId => q.id # s.id
    BY <1>2, <2>1 DEF InOrder
  <2>4. /\ \A e \in ours'.rows \cup ours'.meals : e.owner \in OrNone(IdsOf(ours'.people))
        /\ \A q \in ours'.rows : q.jar \in OrNone(IdsOf(ours'.jars))
    BY <1>2, <2>1 DEF InOrder
  <2> QED BY <1>2, <2>1, <2>2, <2>3, <2>4 DEF InOrder
<1>4. Sound(ours')
  BY <1>2, <1>3 DEF Sound
<1>5. ImportTypeOK'
  <2>1. changes' \in 0..MaxChanges
    BY <1>1, ImportAssumption DEF ImportTypeOK
  <2> QED BY <1>1, <1>2, <2>1 DEF ImportTypeOK
<1>6. OfferedIsPicked' /\ PanelInv'
  BY <1>1 DEF OfferedIsPicked, PanelInv
<1>7. FoundInFiles' = FoundInFiles /\ \A h \in PressedOver' : \E k \in PressedOver : h.meals = k.meals
  BY <1>1, <1>2 DEF FoundInFiles, PressedOver
<1>8. Agreed(PressedOver', FoundInFiles')
  BY <1>7, StillAgreed
<1> QED BY <1>1, <1>4, <1>5, <1>6, <1>8

LEMMA ImportStep ==
    ASSUME ImportInv, [ImportNext]_importVars
    PROVE  ImportInv'
<1>1. CASE StartOver
  BY <1>1, StartOverKeeps
<1>2. CASE PressAdd
  BY <1>2, PressAddKeeps
<1>3. CASE AddIsDone
  BY <1>3, AddIsDoneKeeps
<1>4. ASSUME NEW f \in OldHomes, PickFile(f) \/ FileIsRead(f) \/ FileIsRefused(f) PROVE ImportInv'
  BY <1>4, PickFileKeeps, FileIsReadKeeps, FileIsRefusedKeeps
<1>5. ASSUME NEW collection \in Collections, NEW says \in EntryNames, WriteRow(collection, says) PROVE ImportInv'
  BY <1>5, WriteRowKeeps
<1>6. ASSUME NEW r \in ours.rows, RemoveRow(r) PROVE ImportInv'
  BY <1>6, RemoveRowKeeps
<1>7. CASE UNCHANGED importVars
  BY <1>7 DEF importVars, ImportInv, ImportTypeOK, OfferedIsPicked, PanelInv, PressedOver, FoundInFiles
<1> QED BY <1>1, <1>2, <1>3, <1>4, <1>5, <1>6, <1>7 DEF ImportNext

LEMMA ImportHolds == ImportInv => ImportsStand
<1> SUFFICES ASSUME ImportInv PROVE ImportsStand
  OBVIOUS
<1>1. ImportsOnlyAdd
  BY DEF ImportInv, ImportIsRight, ImportsOnlyAdd, Sound
<1> QED BY <1>1 DEF ImportInv, ImportsStand

\* Whatever is brought over, when, how often and by which files: nothing of the household
\* changes; what comes names whom it named in the file; whatever the file has is there then,
\* unless it was taken for what another file brought under its id, or for a row without a
\* title that has its id; done again, only entries without an id are added; and what the
\* panel offers is of the file it lists (legacy-import.js:333-505, ImportPanel.jsx:44-131).
THEOREM ImportsAlwaysStand == ImportSpec => []ImportsStand
<1> QED BY ImportInitially, ImportStep, ImportHolds, PTL DEF ImportSpec

------------------------------------------------------------------------------
(***************************************************************************)
(* A copy of the old database is read whole, for any number of pages and   *)
(* of writes (OldDatabase).                                                *)
(*                                                                         *)
(* Up to where the log is written, its frames continue each other, and     *)
(* what lies behind is older: no commit behind the last one can be taken   *)
(* for a sequel of it (NoCommitBehind).  A commit that the main file has   *)
(* not been brought beyond is the pages up to there (CommitsAgree).        *)
(***************************************************************************)
\* The frames since the log began continue each other.
Sequel ==
    \A j \in 1..end : /\ log[j].salt = salt
                      /\ log[j].after = IF j = 1 THEN 0 ELSE log[j - 1].no

\* What lies behind was written before.
Earlier == \A j \in 1..Len(log) : log[j].no <= written /\ log[j].after < log[j].no /\ log[j].salt <= salt

Everything == 1..Len(log)
NoCommitBehind == \A j \in (mx + 1)..Len(log) : Chained(Everything, j) => ~log[j].commit

CommitsAgree ==
    /\ \A i \in 1..mx : log[i].commit /\ i >= filled => PagesAt(i) = log[i].leaves
    /\ PagesAt(mx) = stored /\ PagesAt(end) = working
    /\ mx > 0 => log[mx].commit

DatabaseInv == DatabaseTypeOK /\ Sequel /\ Earlier /\ NoCommitBehind /\ CommitsAgree /\ CopiesReadWhole

\* Among the first places some are taken, so one of them is the last.
LEMMA LastExists ==
    ASSUME NEW n \in Nat, NEW T \in SUBSET (0..n), T # {}
    PROVE  \E x \in T : \A y \in T : y <= x
<1> DEFINE D == {k \in 0..n : n - k \in T}
<1>1. PICK z \in T : TRUE
  OBVIOUS
<1>2. n - z \in D
  BY <1>1
<1>6. D \in SUBSET Nat
  OBVIOUS
<1>7. D # {}
  BY <1>2
<1> HIDE DEF D
<1>3. PICK d \in D : \A y \in D : d <= y
  BY <1>6, <1>7, FirstExists
<1> USE DEF D
<1>4. n - d \in T
  BY <1>3
<1>5. ASSUME NEW y \in T PROVE y <= n - d
  <2>1. n - y \in D /\ y \in 0..n
    OBVIOUS
  <2>2. d <= n - y /\ d \in 0..n
    BY <1>3, <2>1
  <2> QED BY <2>1, <2>2
<1> QED BY <1>4, <1>5

\* A page has a latest frame as soon as it has one.
LEMMA LatestIs ==
    ASSUME NEW f, NEW p, NEW n \in Nat
    PROVE  Latest(f, p, n) # {} <=> \E j \in 1..n : f[j].page = p
<1>1. ASSUME NEW i \in 1..n, f[i].page = p PROVE Latest(f, p, n) # {}
  <2> DEFINE T == {j \in 1..n : f[j].page = p}
  <2>1. T \in SUBSET (0..n) /\ T # {}
    BY <1>1
  <2>2. PICK x \in T : \A y \in T : y <= x
    BY <2>1, LastExists
  <2>3. ASSUME NEW k \in (x + 1)..n PROVE f[k].page # p
    BY <2>2
  <2> QED BY <2>2, <2>3 DEF Latest
<1> QED BY <1>1 DEF Latest

LEMMA PagesAre ==
    ASSUME NEW f \in Seq(Frames), NEW g \in PageContents, NEW n \in 0..Len(f)
    PROVE  PagesIn(g, f, n) \in PageContents
<1> SUFFICES ASSUME NEW p \in TablePages
             PROVE  Page(g, f, p, n) \in 0..MaxWrites
  BY DEF PagesIn, PageContents
<1>1. CASE Latest(f, p, n) = {}
  BY <1>1 DEF Page, PageContents
<1>2. CASE Latest(f, p, n) # {}
  <2>1. (CHOOSE j \in Latest(f, p, n) : TRUE) \in 1..Len(f)
    BY <1>2 DEF Latest
  <2>2. f[CHOOSE j \in Latest(f, p, n) : TRUE] \in Frames
    BY <2>1
  <2> QED BY <1>2, <2>2, OldDatabaseAssumption DEF Page, Frames
<1> QED BY <1>1, <1>2

LEMMA SamePage ==
    ASSUME NEW f, NEW g, NEW p, NEW n, NEW m, Latest(f, p, n) = Latest(f, p, m)
    PROVE  Page(g, f, p, n) = Page(g, f, p, m)
<1> DEFINE P(s) == IF s = {} THEN g[p] ELSE f[CHOOSE j \in s : TRUE].no
<1>1. Page(g, f, p, n) = P(Latest(f, p, n)) /\ Page(g, f, p, m) = P(Latest(f, p, m))
  BY Zenon DEF Page
<1> HIDE DEF P
<1> QED BY <1>1

\* Before the first frame there is the main file.
LEMMA PagesBefore ==
    ASSUME NEW f, NEW g \in PageContents
    PROVE  PagesIn(g, f, 0) = g
<1>1. ASSUME NEW p \in TablePages PROVE Latest(f, p, 0) = {}
  BY DEF Latest
<1>2. PagesIn(g, f, 0) = [p \in TablePages |-> g[p]]
  BY <1>1 DEF PagesIn, Page
<1> QED BY <1>2 DEF PageContents

LEMMA ReplayIs ==
    ASSUME DatabaseTypeOK, NEW came
    PROVE  /\ ReplayWal(came) \in 0..Len(log)
           /\ ReplayWal(came) = 0
                \/ (log[ReplayWal(came)].commit /\ Chained(came, ReplayWal(came)))
           /\ \A j \in (ReplayWal(came) + 1)..Len(log) : ~(log[j].commit /\ Chained(came, j))
<1> DEFINE T == {0} \cup {i \in 1..Len(log) : log[i].commit /\ Chained(came, i)}
<1>0. Len(log) \in Nat
  BY DEF DatabaseTypeOK
<1>1. T \in SUBSET (0..Len(log)) /\ T # {}
  BY <1>0
<1>2. PICK x \in T : \A y \in T : y <= x
  BY <1>0, <1>1, LastExists
<1>3. x \in 0..Len(log) /\ (x = 0 \/ (log[x].commit /\ Chained(came, x)))
  BY <1>0, <1>2
<1>4. ASSUME NEW j \in (x + 1)..Len(log) PROVE ~(log[j].commit /\ Chained(came, j))
  BY <1>0, <1>2
<1> QED BY <1>3, <1>4 DEF ReplayWal

LEMMA DatabaseInitially == DatabaseInit => DatabaseInv
<1> SUFFICES ASSUME DatabaseInit PROVE DatabaseInv
  OBVIOUS
<1>1. AtFirst \in PageContents
  BY OldDatabaseAssumption DEF AtFirst, PageContents
<1>2. DatabaseTypeOK
  BY <1>1, OldDatabaseAssumption DEF DatabaseInit, DatabaseTypeOK, Readings
<1>4. PagesAt(0) = AtFirst
  BY <1>1, PagesBefore DEF PagesAt, DatabaseInit
<1> QED
  BY <1>2, <1>4 DEF DatabaseInit, DatabaseInv, Sequel, Earlier, NoCommitBehind, CommitsAgree, CopiesReadWhole

LEMMA OpenDatabaseKeeps ==
    ASSUME DatabaseInv, OpenDatabase
    PROVE  DatabaseInv'
<1> USE DEF DatabaseInv
<1>1. PICK came \in SUBSET (1..Len(log)) :
          copy' = [read |-> TRUE, pages |-> PagesAt(ReplayWal(came)), missingWal |-> ReplayWal(came) = 0,
                   whole |-> 1..mx \subseteq came, upTo |-> ReplayWal(came)]
  BY DEF OpenDatabase
<1> DEFINE u == ReplayWal(came)
<1>2. /\ u \in 0..Len(log) /\ (u = 0 \/ (log[u].commit /\ Chained(came, u)))
      /\ \A j \in (u + 1)..Len(log) : ~(log[j].commit /\ Chained(came, j))
  BY ReplayIs
<1> HIDE DEF u
<1>3. Len(log) \in Nat /\ end \in 0..Len(log) /\ mx \in 0..end /\ filled \in 0..mx
  BY DEF DatabaseTypeOK
<1>4. u <= mx
  <2> SUFFICES ASSUME u > mx PROVE FALSE
    BY <1>2, <1>3
  <2>1. u # 0 /\ u \in (mx + 1)..Len(log)
    BY <1>2, <1>3
  <2>2. Chained(Everything, u)
    BY <1>2, <2>1 DEF Chained, Everything
  <2> QED BY <1>2, <2>1, <2>2 DEF NoCommitBehind
<1>5. 1..mx \subseteq came => u = mx
  <2> SUFFICES ASSUME 1..mx \subseteq came, mx > 0 PROVE u >= mx
    BY <1>2, <1>3, <1>4
  <2>1. Chained(came, mx)
    BY <1>3 DEF Chained, Sequel
  <2> QED BY <1>2, <1>3, <2>1 DEF CommitsAgree
<1>6. PagesAt(u) \in PageContents
  BY <1>2, PagesAre DEF PagesAt, DatabaseTypeOK
<1>7. UNCHANGED <<main, log, salt, end, mx, written, working, stored, filled>>
  BY DEF OpenDatabase
<1>8. copy'.read /\ copy'.pages = PagesAt(u) /\ copy'.upTo = u /\ copy'.whole = (1..mx \subseteq came)
  BY <1>1 DEF u
<1>9. CopiesReadWhole'
  <2>1. PagesAt(mx) = stored /\ \A i \in 1..mx : log[i].commit /\ i >= filled => PagesAt(i) = log[i].leaves
    BY DEF CommitsAgree
  <2>2. copy.whole' => copy.pages' = stored'
    BY <1>5, <1>7, <1>8, <2>1
  <2>3. copy.upTo' > 0 /\ copy.upTo' >= filled' => copy.pages' = log'[copy.upTo'].leaves
    BY <1>2, <1>3, <1>4, <1>7, <1>8, <2>1
  <2> QED BY <2>2, <2>3 DEF CopiesReadWhole
<1>10. copy' \in Readings
  BY <1>1, <1>2, <1>3, <1>6 DEF Readings, u
<1>11. DatabaseTypeOK'
  BY <1>7, <1>10 DEF DatabaseTypeOK
<1>12. Sequel' /\ Earlier' /\ NoCommitBehind' /\ CommitsAgree'
  BY <1>7 DEF Sequel, Earlier, NoCommitBehind, CommitsAgree, Chained, Everything, PagesAt
<1> QED BY <1>9, <1>11, <1>12

LEMMA WriteFrameKeeps ==
    ASSUME DatabaseInv, NEW p \in TablePages, NEW commit \in BOOLEAN, WriteFrame(p, commit)
    PROVE  DatabaseInv'
<1> USE DEF DatabaseInv
<1> DEFINE frame == [page |-> p, no |-> written', salt |-> salt,
                     after |-> IF end = 0 THEN 0 ELSE log[end].no,
                     commit |-> commit, leaves |-> working']
<1>1. Len(log) \in Nat /\ end \in 0..Len(log) /\ mx \in 0..end /\ filled \in 0..mx /\ written \in 0..MaxWrites
      /\ \A j \in 1..Len(log) : log[j] \in Frames
  BY DEF DatabaseTypeOK
<1>2. written' = written + 1 /\ written' \in 1..MaxWrites /\ end' = end + 1
  BY <1>1, OldDatabaseAssumption DEF WriteFrame
<1>3. working' = [working EXCEPT ![p] = written'] /\ working' \in PageContents
  BY <1>2 DEF WriteFrame, DatabaseTypeOK, PageContents
<1>4. frame.after \in 0..written /\ frame \in Frames
  <2>1. end # 0 => log[end].no \in 1..written
    BY <1>1 DEF Earlier, Frames
  <2> QED BY <1>1, <1>2, <1>3, <2>1, OldDatabaseAssumption DEF DatabaseTypeOK, Frames
<1>5. log' = IF end < Len(log) THEN [log EXCEPT ![end + 1] = frame] ELSE Append(log, frame)
  BY DEF WriteFrame
<1> HIDE DEF frame
<1>6. /\ log' \in Seq(Frames) /\ Len(log') \in Nat /\ Len(log') >= Len(log) /\ end + 1 <= Len(log')
      /\ Len(log') = IF end < Len(log) THEN Len(log) ELSE Len(log) + 1
      /\ log'[end + 1] = frame /\ \A j \in 1..Len(log') : j # end + 1 => j \in 1..Len(log) /\ log'[j] = log[j]
  <2>1. CASE end < Len(log)
    BY <1>1, <1>4, <1>5, <2>1 DEF DatabaseTypeOK
  <2>2. CASE end = Len(log)
    BY <1>1, <1>4, <1>5, <2>2 DEF DatabaseTypeOK
  <2> QED BY <1>1, <2>1, <2>2
<1>7. UNCHANGED <<main, salt, copy, filled>> /\ ~copy.read
  BY DEF WriteFrame
<1>8. frame.no = written + 1 /\ frame.page = p /\ frame.commit = commit /\ frame.salt = salt /\ frame.leaves = working'
      /\ frame.after = IF end = 0 THEN 0 ELSE log[end].no
  BY <1>2 DEF frame
<1>9. ASSUME NEW q, NEW n \in 0..end PROVE Latest(log', q, n) = Latest(log, q, n)
  <2>1. \A j \in 1..n : log'[j] = log[j]
    BY <1>1, <1>6
  <2>2. \A j \in 1..n : (j + 1)..n \subseteq 1..n
    OBVIOUS
  <2> QED BY <2>1, <2>2 DEF Latest
<1>10. ASSUME NEW n \in 0..end PROVE PagesIn(main, log', n) = PagesIn(main, log, n)
  <2>1. ASSUME NEW q \in TablePages PROVE Page(main, log', q, n) = Page(main, log, q, n)
    <3>1. CASE Latest(log, q, n) = {}
      BY <3>1, <1>9 DEF Page
    <3>2. CASE Latest(log, q, n) # {}
      <4>1. (CHOOSE j \in Latest(log, q, n) : TRUE) \in 1..n
        BY <3>2 DEF Latest
      <4>2. log'[CHOOSE j \in Latest(log, q, n) : TRUE] = log[CHOOSE j \in Latest(log, q, n) : TRUE]
        BY <4>1, <1>1, <1>6
      <4>3. Latest(log', q, n) = Latest(log, q, n)
        BY <1>9
      <4> QED BY <3>2, <4>2, <4>3 DEF Page
    <3> QED BY <3>1, <3>2
  <2> QED BY <2>1 DEF PagesIn
<1>11. ASSUME NEW q \in TablePages PROVE Page(main, log', q, end + 1) = working'[q]
  <2>1. Page(main, log, q, end) = working[q]
    BY DEF CommitsAgree, PagesAt, PagesIn
  <2>2. CASE q = p
    <3>1. Latest(log', q, end + 1) = {end + 1}
      BY <1>1, <1>6, <1>8, <2>2 DEF Latest
    <3>2. Page(main, log', q, end + 1) = log'[end + 1].no
      BY <3>1 DEF Page
    <3> QED BY <1>2, <1>3, <1>6, <1>8, <2>2, <3>2 DEF DatabaseTypeOK, PageContents
  <2>3. CASE q # p
    <3>1. Latest(log', q, end + 1) = Latest(log', q, end)
      <4>1. log'[end + 1].page # q
        BY <1>6, <1>8, <2>3
      <4>2. 1..(end + 1) = (1..end) \cup {end + 1}
        BY <1>1
      <4>3. \A j \in 1..end : (j + 1)..(end + 1) = ((j + 1)..end) \cup {end + 1}
        BY <1>1
      <4>4. \A j \in 1..end :
               (\A k \in (j + 1)..(end + 1) : log'[k].page # q) <=> (\A k \in (j + 1)..end : log'[k].page # q)
        BY <4>1, <4>3
      <4> QED BY <4>1, <4>2, <4>4 DEF Latest
    <3>2. Page(main, log', q, end + 1) = Page(main, log', q, end)
      BY <3>1, SamePage
    <3>3. PagesIn(main, log', end) = PagesIn(main, log, end)
      BY <1>1, <1>10
    <3>4. Page(main, log', q, end) = Page(main, log, q, end)
      BY <3>3 DEF PagesIn
    <3> QED BY <1>3, <2>1, <2>3, <3>2, <3>4 DEF DatabaseTypeOK, PageContents
  <2> QED BY <2>2, <2>3
<1>12. PagesIn(main, log', end + 1) = working'
  <2>1. PagesIn(main, log', end + 1) = [q \in TablePages |-> Page(main, log', q, end + 1)]
    BY DEF PagesIn
  <2>2. working' = [q \in TablePages |-> working'[q]]
    BY <1>3 DEF PageContents
  <2> QED BY <1>11, <2>1, <2>2
<1>13. Sequel'
  <2> SUFFICES ASSUME NEW j \in 1..(end + 1)
               PROVE  log'[j].salt = salt /\ log'[j].after = IF j = 1 THEN 0 ELSE log'[j - 1].no
    BY <1>2, <1>7 DEF Sequel
  <2>1. CASE j = end + 1
    BY <1>1, <1>6, <1>8, <2>1
  <2>2. CASE j # end + 1
    <3>1. j \in 1..end /\ log'[j] = log[j] /\ (j # 1 => log'[j - 1] = log[j - 1])
      BY <1>1, <1>6, <2>2
    <3> QED BY <3>1 DEF Sequel
  <2> QED BY <2>1, <2>2
<1>14. Earlier'
  <2> SUFFICES ASSUME NEW j \in 1..Len(log')
               PROVE  log'[j].no <= written' /\ log'[j].after < log'[j].no /\ log'[j].salt <= salt
    BY <1>7 DEF Earlier
  <2>1. CASE j = end + 1
    BY <1>1, <1>2, <1>4, <1>6, <1>8, <2>1 DEF DatabaseTypeOK
  <2>2. CASE j # end + 1
    <3>1. j \in 1..Len(log) /\ log'[j] = log[j]
      BY <1>6, <2>2
    <3>2. log[j].no \in 1..MaxWrites
      BY <1>1, <3>1 DEF Frames
    <3> QED BY <1>1, <1>2, <3>1, <3>2, OldDatabaseAssumption DEF Earlier
  <2> QED BY <2>1, <2>2
<1>15. mx' = (IF commit THEN end + 1 ELSE mx) /\ stored' = (IF commit THEN working' ELSE stored)
  BY <1>2 DEF WriteFrame
<1>16. NoCommitBehind'
  <2> SUFFICES ASSUME NEW j \in (mx' + 1)..Len(log'), Chained(Everything, j)' PROVE ~log'[j].commit
    BY DEF NoCommitBehind
  <2>0. j \in 1..Len(log')
    BY <1>1, <1>6, <1>15
  <2>1. \A k \in 1..j : log'[k].salt = salt /\ log'[k].after = IF k = 1 THEN 0 ELSE log'[k - 1].no
    BY <1>7 DEF Chained
  <2>2. CASE j <= end
    <3>1. ~commit /\ mx' = mx
      BY <1>15, <1>1, <1>6, <2>2
    <3>2. \A k \in 1..j : log'[k] = log[k] /\ k \in Everything
      BY <1>1, <1>6, <2>0, <2>2 DEF Everything
    <3>3. Chained(Everything, j)
      BY <2>0, <2>1, <3>2, <1>6 DEF Chained
    <3>4. j \in (mx + 1)..Len(log) /\ j \in 1..j
      BY <1>1, <2>0, <2>2, <3>1
    <3> QED BY <3>2, <3>3, <3>4 DEF NoCommitBehind
  <2>3. CASE j = end + 1
    BY <1>1, <1>6, <1>8, <1>15, <2>3
  <2>4. CASE j > end + 1
    <3>1. end + 2 \in 1..j /\ end + 2 \in 1..Len(log') /\ end + 2 # end + 1
      BY <1>1, <1>6, <2>0, <2>4
    <3>2. log'[end + 2].after = log'[end + 1].no
      BY <1>1, <2>1, <3>1
    <3>3. log'[end + 2] = log[end + 2] /\ end + 2 \in 1..Len(log)
      BY <1>6, <3>1
    <3>4. log[end + 2].after < log[end + 2].no /\ log[end + 2].no <= written
      BY <3>3 DEF Earlier
    <3>5. log[end + 2].after = written + 1
      BY <1>6, <1>8, <3>2, <3>3
    <3>6. log[end + 2] \in Frames
      BY <1>1, <3>3
    <3>7. log[end + 2].after \in Nat /\ log[end + 2].no \in Nat
      BY <3>6 DEF Frames
    <3> QED BY <1>1, <3>4, <3>5, <3>7
  <2> QED BY <1>1, <2>0, <2>2, <2>3, <2>4
<1>17. CommitsAgree'
  <2>1. PagesIn(main, log', mx') = stored' /\ (mx' > 0 => log'[mx'].commit)
    <3>1. CASE commit
      BY <3>1, <1>12, <1>15, <1>6, <1>8
    <3>2. CASE ~commit
      <4>1. mx' = mx /\ stored' = stored /\ mx \in 0..end
        BY <3>2, <1>1, <1>15
      <4>2. mx > 0 => log'[mx] = log[mx]
        BY <4>1, <1>1, <1>6
      <4>3. PagesIn(main, log', mx) = PagesIn(main, log, mx)
        BY <4>1, <1>10
      <4> QED BY <4>1, <4>2, <4>3 DEF CommitsAgree, PagesAt
    <3> QED BY <3>1, <3>2
  <2>2. ASSUME NEW i \in 1..mx', log'[i].commit, i >= filled PROVE PagesIn(main, log', i) = log'[i].leaves
    <3>1. CASE i = end + 1
      BY <3>1, <1>6, <1>8, <1>12
    <3>2. CASE i # end + 1
      <4>1. i \in 1..end /\ i \in 0..end /\ log'[i] = log[i]
        BY <3>2, <1>1, <1>6, <1>15
      <4>2. i \in 1..mx
        \* What was written since the last commit is not one.
        <5>1. Chained(Everything, i)
          BY <4>1, <1>1 DEF Chained, Everything, Sequel
        <5>2. i \notin (mx + 1)..Len(log)
          BY <5>1, <4>1, <2>2 DEF NoCommitBehind
        <5> QED BY <5>2, <4>1, <1>1
      <4>3. PagesIn(main, log', i) = PagesIn(main, log, i)
        BY <4>1, <1>10
      <4> QED BY <4>1, <4>2, <4>3, <2>2 DEF CommitsAgree, PagesAt
    <3> QED BY <3>1, <3>2
  <2> QED BY <2>1, <2>2, <1>2, <1>7, <1>12 DEF CommitsAgree, PagesAt
<1>18. DatabaseTypeOK'
  BY <1>1, <1>2, <1>3, <1>6, <1>7, <1>15 DEF DatabaseTypeOK
<1>19. CopiesReadWhole'
  BY <1>7 DEF CopiesReadWhole
<1> QED BY <1>13, <1>14, <1>16, <1>17, <1>18, <1>19

\* What is taken back is written over later.
LEMMA RollBackKeeps ==
    ASSUME DatabaseInv, RollBack
    PROVE  DatabaseInv'
<1> USE DEF DatabaseInv
<1>1. /\ end' = mx /\ working' = stored /\ ~copy.read
      /\ UNCHANGED <<main, log, salt, mx, written, copy, stored, filled>>
  BY DEF RollBack
<1>2. Len(log) \in Nat /\ end \in 0..Len(log) /\ mx \in 0..end
  BY DEF DatabaseTypeOK
<1>3. DatabaseTypeOK'
  BY <1>1, <1>2 DEF DatabaseTypeOK
<1>4. Sequel'
  BY <1>1, <1>2 DEF Sequel
<1>5. Earlier' /\ NoCommitBehind' /\ CopiesReadWhole'
  BY <1>1 DEF Earlier, NoCommitBehind, Chained, Everything, CopiesReadWhole
<1>6. CommitsAgree'
  BY <1>1 DEF CommitsAgree, PagesAt
<1> QED BY <1>3, <1>4, <1>5, <1>6

\* A page that is brought up to the last commit reads as it did.
LEMMA BackfillKeeps ==
    ASSUME DatabaseInv, NEW p \in TablePages, Backfill(p)
    PROVE  DatabaseInv'
<1> USE DEF DatabaseInv
<1>1. /\ main' = [main EXCEPT ![p] = Page(main, log, p, mx)] /\ filled' = mx /\ mx > 0 /\ ~copy.read
      /\ UNCHANGED <<log, salt, end, mx, written, copy, working, stored>>
  BY DEF Backfill
<1>2. Len(log) \in Nat /\ end \in 0..Len(log) /\ mx \in 0..end /\ main \in PageContents /\ log \in Seq(Frames)
  BY DEF DatabaseTypeOK
<1>3. main' \in PageContents
  <2>1. PagesIn(main, log, mx) \in PageContents
    BY <1>2, PagesAre
  <2>2. Page(main, log, p, mx) \in 0..MaxWrites
    BY <2>1 DEF PagesIn, PageContents
  <2> QED BY <1>1, <1>2, <2>2 DEF PageContents
<1>4. ASSUME NEW n \in mx..Len(log) PROVE PagesIn(main', log, n) = PagesIn(main, log, n)
  <2>1. ASSUME NEW q \in TablePages PROVE Page(main', log, q, n) = Page(main, log, q, n)
    <3>1. CASE Latest(log, q, n) # {}
      BY <3>1 DEF Page
    <3>2. CASE Latest(log, q, n) = {}
      <4>1. Latest(log, q, mx) = {}
        BY <3>2, <1>2, LatestIs
      <4>2. main'[q] = main[q]
        BY <4>1, <1>1, <1>2 DEF Page, PageContents
      <4> QED BY <3>2, <4>2 DEF Page
    <3> QED BY <3>1, <3>2
  <2> QED BY <2>1 DEF PagesIn
<1>5. PagesIn(main', log, mx) = PagesIn(main, log, mx) /\ PagesIn(main', log, end) = PagesIn(main, log, end)
  BY <1>2, <1>4
<1>6. CommitsAgree'
  <2>1. PagesIn(main', log, mx) = stored /\ PagesIn(main', log, end) = working /\ (mx > 0 => log[mx].commit)
    BY <1>5 DEF CommitsAgree, PagesAt
  <2>2. ASSUME NEW i \in 1..mx, log[i].commit, i >= mx PROVE PagesIn(main', log, i) = log[i].leaves
    <3>1. i = mx /\ i >= filled
      BY <1>2, <2>2 DEF DatabaseTypeOK
    <3> QED BY <3>1, <2>2, <1>5 DEF CommitsAgree, PagesAt
  <2> QED BY <2>1, <2>2, <1>1 DEF CommitsAgree, PagesAt
<1>7. DatabaseTypeOK'
  BY <1>1, <1>2, <1>3 DEF DatabaseTypeOK
<1>8. Sequel' /\ Earlier' /\ NoCommitBehind' /\ CopiesReadWhole'
  BY <1>1 DEF Sequel, Earlier, NoCommitBehind, Chained, Everything, CopiesReadWhole
<1> QED BY <1>6, <1>7, <1>8

\* Everything in the log is of an earlier generation then.
LEMMA RestartLogKeeps ==
    ASSUME DatabaseInv, RestartLog
    PROVE  DatabaseInv'
<1> USE DEF DatabaseInv
<1>1. /\ mx > 0 /\ end = mx /\ main = stored /\ ~copy.read
      /\ salt' = salt + 1 /\ end' = 0 /\ mx' = 0 /\ filled' = 0
      /\ UNCHANGED <<main, log, written, copy, working, stored>>
  BY DEF RestartLog
<1>2. Len(log) \in Nat /\ main \in PageContents /\ salt \in Nat /\ mx \in Nat
      /\ \A j \in 1..Len(log) : log[j] \in Frames
  BY DEF DatabaseTypeOK
<1>3. DatabaseTypeOK'
  BY <1>1, <1>2 DEF DatabaseTypeOK
<1>4. Sequel'
  BY <1>1 DEF Sequel
<1>5. Earlier'
  <2>1. \A j \in 1..Len(log) : log[j].salt \in Nat
    BY <1>2 DEF Frames
  <2> QED BY <1>1, <1>2, <2>1 DEF Earlier
<1>6. NoCommitBehind'
  <2> SUFFICES ASSUME NEW j \in 1..Len(log), Chained(Everything, j)' PROVE FALSE
    BY <1>1 DEF NoCommitBehind
  <2>1. 1 \in 1..j /\ 1 \in 1..Len(log)
    OBVIOUS
  <2>2. log[1].salt = salt + 1
    BY <1>1, <2>1 DEF Chained
  <2>3. log[1].salt <= salt
    BY <2>1 DEF Earlier
  <2> QED BY <1>2, <2>2, <2>3
<1>7. CommitsAgree'
  <2>1. PagesIn(main, log, 0) = main /\ working = stored
    BY <1>1, <1>2, PagesBefore DEF CommitsAgree
  <2> QED BY <1>1, <2>1 DEF CommitsAgree, PagesAt
<1>8. CopiesReadWhole'
  BY <1>1 DEF CopiesReadWhole
<1> QED BY <1>3, <1>4, <1>5, <1>6, <1>7, <1>8

LEMMA DatabaseStep ==
    ASSUME DatabaseInv, [DatabaseNext]_databaseVars
    PROVE  DatabaseInv'
<1>1. CASE OpenDatabase
  BY <1>1, OpenDatabaseKeeps
<1>2. CASE RollBack
  BY <1>2, RollBackKeeps
<1>3. CASE RestartLog
  BY <1>3, RestartLogKeeps
<1>4. ASSUME NEW p \in TablePages, Backfill(p) PROVE DatabaseInv'
  BY <1>4, BackfillKeeps
<1>5. ASSUME NEW p \in TablePages, NEW commit \in BOOLEAN, WriteFrame(p, commit) PROVE DatabaseInv'
  BY <1>5, WriteFrameKeeps
<1>6. CASE UNCHANGED databaseVars
  BY <1>6 DEF databaseVars, DatabaseInv, DatabaseTypeOK, Sequel, Earlier, NoCommitBehind, Chained, Everything,
              CommitsAgree, CopiesReadWhole, PagesAt
<1> QED BY <1>1, <1>2, <1>3, <1>4, <1>5, <1>6 DEF DatabaseNext

\* A copy of the old database is read with every transaction that was committed, and one
\* whose log was damaged as some commit left it.
\* A copy of the old household's two files is read as a commit left it, the last one when
\* the log came whole, whatever the old server wrote, took back, moved to its main file or
\* began again before (sqlite.js:145-193).
THEOREM CopiesAreReadWhole == DatabaseSpec => []CopiesReadWhole
<1>1. DatabaseInv => CopiesReadWhole
  BY DEF DatabaseInv
<1> QED BY <1>1, DatabaseInitially, DatabaseStep, PTL DEF DatabaseSpec

------------------------------------------------------------------------------
(***************************************************************************)
(* What is written stands: the four together (ListsAndMeals).              *)
(***************************************************************************)
\* What an item of a list was written down for is kept through every step of every screen,
\* and so is a meal, unless it was planned while somebody else's dialog was open over its day;
\* an import takes nothing from the household it was pressed over, and passes over only what
\* it takes for something else; and the old database is read as a commit left it
\* (lists.js:33-35, App.jsx:6691, legacy-import.js:333-505, sqlite.js:145-193).
THEOREM EverythingWrittenStands == WrittenSpec => []WhatIsWrittenStands
<1> DEFINE AllStands == ListsInv /\ KitchenInv /\ ImportInv /\ DatabaseInv
           vars == <<listVars, kitchenVars, importVars, databaseVars>>
<1>1. WrittenInit => AllStands
  BY ListsStart, KitchenStart, ImportInitially, DatabaseInitially DEF WrittenInit
<1>2. AllStands /\ [WrittenNext]_vars => AllStands'
  <2> SUFFICES ASSUME AllStands, [WrittenNext]_vars PROVE AllStands'
    OBVIOUS
  <2>1. [ListsNext]_listVars /\ [KitchenNext]_kitchenVars
    BY DEF WrittenNext
  <2>2. [ImportNext]_importVars /\ [DatabaseNext]_databaseVars
    BY DEF WrittenNext
  <2>3. ImportInv'
    BY <2>2, ImportStep
  <2>4. DatabaseInv'
    BY <2>2, DatabaseStep
  <2> QED BY <2>1, <2>3, <2>4, ListsStep, KitchenStep
<1>3. AllStands => WhatIsWrittenStands
  <2>1. DatabaseInv => CopiesReadWhole
    BY DEF DatabaseInv
  <2> QED BY <2>1, ListsInvGives, KitchenInvGives, ImportHolds DEF WhatIsWrittenStands
<1> HIDE DEF AllStands
<1> QED BY <1>1, <1>2, <1>3, PTL DEF WrittenSpec

==============================================================================

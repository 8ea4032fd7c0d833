------------------------------ MODULE RateLimit ------------------------------
(***************************************************************************)
(* One bucket of server/src/middleware/ratelimit.js: consume, the refund   *)
(* of a refused request, which is a statement of its own, and the sweep    *)
(* that drops old rows.  Time is what a bucket earns in it: a row holds    *)
(* tokens as of updated_at and credit stands for (now() - updated_at) *    *)
(* perSecond.                                                              *)
(***************************************************************************)
EXTENDS Integers

CONSTANTS
    Capacity,   \* the most a bucket holds
    Cost,       \* what a request takes
    DayRefill,  \* what a bucket earns until its row is a day old
    InFlight,   \* bound: refused requests whose refund is on its way
    Crashes,    \* bound: refunds lost with a process
    Horizon     \* bound: how much is earned while a client is observed

\* The slowest bucket of the code holds 5 and earns 432 in a day.
ASSUME RateLimitAssumption ==
    /\ Cost \in Nat \ {0} /\ Capacity \in Nat /\ Capacity >= Cost
    /\ InFlight \in Nat /\ Crashes \in Nat /\ Horizon \in Nat
    /\ DayRefill \in Nat /\ DayRefill >= Capacity + Cost * (InFlight + Crashes)

VARIABLES
    kept,       \* the bucket has a row
    tokens,     \* its tokens: below zero while a refund is due
    credit,     \* earned since updated_at
    refunds,    \* refused requests whose UPDATE is still to come
    lost,       \* refused requests whose UPDATE never comes
    watched     \* auxiliary: what was admitted and earned since a moment, and the
                \* refunds that were due at that moment

bucketVars == <<kept, tokens, credit, refunds, lost, watched>>

BucketTypeOK ==
    /\ kept \in BOOLEAN
    /\ tokens \in Int /\ credit \in Nat
    /\ refunds \in Nat /\ lost \in Nat
    /\ watched \in [admitted : Nat, earned : Nat, due : Nat]

BucketInit ==
    /\ kept = FALSE /\ tokens = Capacity /\ credit = 0
    /\ refunds = 0 /\ lost = 0
    /\ watched = [admitted |-> 0, earned |-> 0, due |-> 0]

\* Mutant: what the time has earned is not cut off at the capacity.
Overflowing == tokens + credit

\* LEAST(capacity, tokens + elapsed * perSecond); a missing row is a full bucket.
Balance == IF tokens + credit < Capacity THEN tokens + credit ELSE Capacity

\* The upsert: one statement that takes the tokens whether they are there or not.
Take ==
    /\ kept' = TRUE /\ credit' = 0
    /\ tokens' = Balance - Cost

Admit ==
    /\ Balance >= Cost
    /\ Take
    /\ watched' = [watched EXCEPT !.admitted = @ + 1]
    /\ UNCHANGED <<refunds, lost>>

Refuse ==
    /\ Balance < Cost /\ refunds < InFlight
    /\ Take
    /\ refunds' = refunds + 1
    /\ UNCHANGED <<lost, watched>>

PutBack == tokens + Cost

\* UPDATE rate_limits SET tokens = tokens + cost: nothing happens to a row that
\* has been swept away.
Refund ==
    /\ refunds > 0
    /\ refunds' = refunds - 1
    /\ tokens' = IF kept THEN PutBack ELSE tokens
    /\ UNCHANGED <<kept, credit, lost, watched>>

LoseRefund ==
    /\ refunds > 0 /\ lost < Crashes
    /\ refunds' = refunds - 1 /\ lost' = lost + 1
    /\ UNCHANGED <<kept, tokens, credit, watched>>

Earn ==
    /\ watched.earned < Horizon
    /\ watched' = [watched EXCEPT !.earned = @ + 1]
    /\ credit' = IF kept /\ credit < DayRefill THEN credit + 1 ELSE credit
    /\ UNCHANGED <<kept, tokens, refunds, lost>>

\* sweepRateLimits
SweepBucket ==
    /\ kept /\ credit >= DayRefill
    /\ kept' = FALSE /\ tokens' = Capacity /\ credit' = 0
    /\ UNCHANGED <<refunds, lost, watched>>

\* A client may be observed from any moment on.
Observe ==
    /\ watched' = [admitted |-> 0, earned |-> 0, due |-> refunds]
    /\ UNCHANGED <<kept, tokens, credit, refunds, lost>>

BucketNext ==
    \/ Admit \/ Refuse \/ Refund \/ LoseRefund \/ Earn \/ SweepBucket \/ Observe

BucketSpec == BucketInit /\ [][BucketNext]_bucketVars

-----------------------------------------------------------------------------

\* From whatever moment on one counts, however the requests overlap, and with
\* the row swept away or not, a client gets no more through than a full bucket,
\* what the time has earned since, and the refunds that were due when the
\* counting began (middleware/ratelimit.js:8-10, the upsert that concurrent
\* requests cannot all see full).
BurstBounded ==
    Cost * watched.admitted <= Capacity + watched.earned + Cost * watched.due

\* "A rejected request must not deepen the hole": below zero a bucket is only by
\* what its refused requests have yet to get back, or never will because the
\* process stopped between the two statements (middleware/ratelimit.js:43-46).
RefusalsLeaveNoHole ==
    tokens + credit + Cost * (refunds + lost) >= 0

\* A bucket is fair both ways: a burst gets no more through than it holds, and
\* what it turned away costs nobody anything.
FairBucket == BurstBounded /\ RefusalsLeaveNoHole

=============================================================================

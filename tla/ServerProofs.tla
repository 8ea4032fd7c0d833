---------------------------- MODULE ServerProofs -----------------------------
(***************************************************************************)
(* What is proved of the household server beside its vault: fair buckets,  *)
(* a log that verifies, accounts, consent, upgrades and its start.  One    *)
(* section for each component, in which its invariant is stated and shown  *)
(* inductive.                                                              *)
(***************************************************************************)
EXTENDS RateLimit, Audit, Accounts, Consent, Upgrades, Startup, FiniteSetTheorems,
        TLAPS, WellFoundedInduction

(***************************************************************************)
(* A bucket is fair both ways, for every capacity, cost and refill,        *)
(* however many refused requests wait for their refund (RateLimit).        *)
(*                                                                         *)
(* The argument is about what is still owed.  A refused request takes      *)
(* tokens below zero only for as long as its refund is due or lost, so a   *)
(* day's refill fills any bucket and the sweep, which drops its row, gives *)
(* nobody anything.  And what a bucket has, with what it is about to get   *)
(* back, never exceeds what it held when the counting began, what time has *)
(* earned since and what was due then, less what was admitted.             *)
(***************************************************************************)
\* A missing row is a full bucket, and the bounds are kept.
RowOrFull ==
    /\ ~kept => tokens = Capacity /\ credit = 0
    /\ refunds <= InFlight /\ lost <= Crashes

\* The tokens alone are below zero only by refunds that are due or lost.
OnlyRefundsAreOwed == tokens + Cost * (refunds + lost) >= 0

\* What is there and what comes back is paid for.
NothingForFree ==
    Cost * watched.admitted + Balance + Cost * refunds
        <= Capacity + watched.earned + Cost * watched.due

FairInv == BucketTypeOK /\ RowOrFull /\ OnlyRefundsAreOwed /\ NothingForFree /\ BurstBounded

\* Multiplying by the cost.
LEMMA CostTimes ==
    ASSUME NEW n \in Nat
    PROVE  /\ Cost * n \in Nat
           /\ Cost * (n + 1) = Cost * n + Cost
           /\ n > 0 => Cost * (n - 1) = Cost * n - Cost
<1>1. Cost \in Nat BY RateLimitAssumption
<1> QED BY <1>1

\* More costs more.
LEMMA CostGrows ==
    ASSUME NEW m \in Nat, NEW n \in Nat, m <= n
    PROVE  Cost * m <= Cost * n
<1>1. Cost \in Nat BY RateLimitAssumption
<1> QED BY <1>1

-----------------------------------------------------------------------------
(* The steps, one after the other.                                         *)

LEMMA FairInit == BucketInit => FairInv
<1> SUFFICES ASSUME BucketInit PROVE FairInv OBVIOUS
<1>1. Cost \in Nat /\ Cost * 0 = 0 /\ Capacity \in Nat /\ InFlight \in Nat /\ Crashes \in Nat
  BY RateLimitAssumption
<1>2. BucketTypeOK /\ RowOrFull
  <2>1. kept \in BOOLEAN
    BY DEF BucketInit
  <2>2. tokens \in Int /\ credit \in Nat /\ refunds \in Nat /\ lost \in Nat
        /\ watched \in [admitted : Nat, earned : Nat, due : Nat]
    BY <1>1 DEF BucketInit
  <2>3. tokens = Capacity /\ credit = 0 /\ refunds <= InFlight /\ lost <= Crashes
    BY <1>1 DEF BucketInit
  <2> QED BY <2>1, <2>2, <2>3 DEF BucketTypeOK, RowOrFull
<1>3. Balance = Capacity
  BY <1>1 DEF BucketInit, Balance
<1> QED BY <1>1, <1>2, <1>3 DEF BucketInit, FairInv, OnlyRefundsAreOwed, NothingForFree, BurstBounded

\* The balance is no more than there is, nor than there may be.
LEMMA BalanceIs ==
    ASSUME BucketTypeOK
    PROVE  /\ Balance \in Int /\ Balance <= Capacity
           /\ Balance <= tokens + credit
           /\ Balance = Capacity \/ Balance = tokens + credit
BY RateLimitAssumption DEF BucketTypeOK, Balance

\* An admitted request is paid for at once.
LEMMA AdmitKeeps ==
    ASSUME FairInv, Admit
    PROVE  FairInv'
<1> USE RateLimitAssumption
<1>1. BucketTypeOK /\ RowOrFull /\ OnlyRefundsAreOwed /\ NothingForFree BY DEF FairInv
<1>2. Balance \in Int /\ Balance >= Cost /\ tokens' = Balance - Cost /\ kept' = TRUE /\ credit' = 0
  BY <1>1, BalanceIs DEF Admit, Take
<1>3. watched'.admitted = watched.admitted + 1 /\ watched'.earned = watched.earned /\ watched'.due = watched.due
      /\ refunds' = refunds /\ lost' = lost
      /\ watched' \in [admitted : Nat, earned : Nat, due : Nat]
  BY <1>1 DEF Admit, BucketTypeOK
<1>4. BucketTypeOK' /\ RowOrFull'
  BY <1>1, <1>2, <1>3 DEF BucketTypeOK, RowOrFull
<1>5. Cost * (refunds + lost) \in Nat /\ Cost * refunds \in Nat
      /\ Cost * (watched.admitted + 1) = Cost * watched.admitted + Cost
      /\ Cost * watched.admitted \in Nat /\ Cost * watched.due \in Nat
  BY <1>1, CostTimes DEF BucketTypeOK
<1>6. OnlyRefundsAreOwed'
  BY <1>2, <1>3, <1>5 DEF OnlyRefundsAreOwed
<1>7. Balance' = Balance - Cost
  BY <1>1, <1>2, BalanceIs DEF Balance
<1>8. NothingForFree'
  BY <1>1, <1>2, <1>3, <1>5, <1>7 DEF NothingForFree, BucketTypeOK
<1>9. BurstBounded'
  BY <1>1, <1>2, <1>3, <1>5 DEF NothingForFree, BurstBounded, BucketTypeOK
<1> QED BY <1>4, <1>6, <1>8, <1>9 DEF FairInv

\* A refused one is short of what its refund will bring.
LEMMA RefuseKeeps ==
    ASSUME FairInv, Refuse
    PROVE  FairInv'
<1> USE RateLimitAssumption
<1>1. BucketTypeOK /\ RowOrFull /\ OnlyRefundsAreOwed /\ NothingForFree /\ BurstBounded BY DEF FairInv
<1>2. Balance \in Int /\ Balance < Cost /\ tokens' = Balance - Cost /\ kept' = TRUE /\ credit' = 0
      /\ Balance = tokens + credit
  BY <1>1, BalanceIs DEF Refuse, Take
<1>3. refunds' = refunds + 1 /\ refunds < InFlight /\ lost' = lost /\ watched' = watched
  BY DEF Refuse
<1>4. BucketTypeOK' /\ RowOrFull'
  BY <1>1, <1>2, <1>3 DEF BucketTypeOK, RowOrFull
<1>5. /\ Cost * ((refunds + lost) + 1) = Cost * (refunds + lost) + Cost
      /\ Cost * (refunds + lost) \in Nat /\ Cost * refunds \in Nat
      /\ Cost * (refunds + 1) = Cost * refunds + Cost
      /\ Cost * watched.admitted \in Nat /\ Cost * watched.due \in Nat
      /\ (refunds + 1) + lost = (refunds + lost) + 1
  BY <1>1, CostTimes DEF BucketTypeOK
<1>6. OnlyRefundsAreOwed'
  BY <1>1, <1>2, <1>3, <1>5 DEF OnlyRefundsAreOwed, BucketTypeOK
<1>7. Balance' = Balance - Cost
  BY <1>1, <1>2, BalanceIs DEF Balance
<1>8. NothingForFree'
  BY <1>1, <1>2, <1>3, <1>5, <1>7 DEF NothingForFree, BucketTypeOK
<1>9. BurstBounded'
  BY <1>1, <1>3 DEF BurstBounded
<1> QED BY <1>4, <1>6, <1>8, <1>9 DEF FairInv

\* A refund makes good what one refused request took; on a row that is gone it does nothing.
LEMMA RefundKeeps ==
    ASSUME FairInv, Refund
    PROVE  FairInv'
<1> USE RateLimitAssumption
<1>1. BucketTypeOK /\ RowOrFull /\ OnlyRefundsAreOwed /\ NothingForFree /\ BurstBounded BY DEF FairInv
<1>2. refunds > 0 /\ refunds' = refunds - 1 /\ lost' = lost /\ watched' = watched /\ kept' = kept /\ credit' = credit
      /\ tokens' = IF kept THEN tokens + Cost ELSE tokens
  BY DEF Refund, PutBack
<1>3. BucketTypeOK' /\ RowOrFull'
  BY <1>1, <1>2 DEF BucketTypeOK, RowOrFull
<1>4. /\ Cost * ((refunds + lost) - 1) = Cost * (refunds + lost) - Cost
      /\ Cost * (refunds + lost) \in Nat /\ Cost * refunds \in Nat
      /\ Cost * (refunds - 1) = Cost * refunds - Cost
      /\ Cost * ((refunds + lost) - 1) \in Nat
      /\ Cost * watched.admitted \in Nat /\ Cost * watched.due \in Nat
      /\ (refunds - 1) + lost = (refunds + lost) - 1
  <2>1. refunds + lost \in Nat /\ refunds + lost > 0 /\ (refunds + lost) - 1 \in Nat
    BY <1>1, <1>2 DEF BucketTypeOK
  <2> QED BY <2>1, <1>1, <1>2, CostTimes DEF BucketTypeOK
<1>5. OnlyRefundsAreOwed'
  BY <1>1, <1>2, <1>4 DEF OnlyRefundsAreOwed, BucketTypeOK, RowOrFull
<1>6. Balance \in Int /\ Balance' \in Int /\ Balance' <= Balance + Cost
  BY <1>1, <1>2, <1>3 DEF Balance, BucketTypeOK
<1>7. NothingForFree'
  BY <1>1, <1>2, <1>4, <1>6 DEF NothingForFree, BucketTypeOK
<1>8. BurstBounded'
  BY <1>1, <1>2 DEF BurstBounded
<1> QED BY <1>3, <1>5, <1>7, <1>8 DEF FairInv

\* A refund that is lost was owed before and is owed after.
LEMMA LoseRefundKeeps ==
    ASSUME FairInv, LoseRefund
    PROVE  FairInv'
<1> USE RateLimitAssumption
<1>1. BucketTypeOK /\ RowOrFull /\ OnlyRefundsAreOwed /\ NothingForFree /\ BurstBounded BY DEF FairInv
<1>2. refunds > 0 /\ refunds' = refunds - 1 /\ lost < Crashes /\ lost' = lost + 1
      /\ UNCHANGED <<kept, tokens, credit, watched>>
  BY DEF LoseRefund
<1>3. BucketTypeOK' /\ RowOrFull' /\ refunds' + lost' = refunds + lost
  BY <1>1, <1>2 DEF BucketTypeOK, RowOrFull
<1>4. Cost * (refunds - 1) = Cost * refunds - Cost /\ Cost * refunds \in Nat
      /\ Cost * watched.admitted \in Nat /\ Cost * watched.due \in Nat
  BY <1>1, <1>2, CostTimes DEF BucketTypeOK
<1>5. Balance' = Balance /\ Balance \in Int
  BY <1>1, <1>2, BalanceIs DEF Balance
<1>6. OnlyRefundsAreOwed'
  BY <1>1, <1>2, <1>3 DEF OnlyRefundsAreOwed
<1>7. NothingForFree'
  BY <1>1, <1>2, <1>4, <1>5 DEF NothingForFree, BucketTypeOK
<1> QED BY <1>1, <1>2, <1>3, <1>6, <1>7 DEF FairInv, BurstBounded

\* Time gives a bucket at most what it is counted for.
LEMMA EarnKeeps ==
    ASSUME FairInv, Earn
    PROVE  FairInv'
<1> USE RateLimitAssumption
<1>1. BucketTypeOK /\ RowOrFull /\ OnlyRefundsAreOwed /\ NothingForFree /\ BurstBounded BY DEF FairInv
<1>2. watched'.admitted = watched.admitted /\ watched'.earned = watched.earned + 1 /\ watched'.due = watched.due
      /\ watched' \in [admitted : Nat, earned : Nat, due : Nat]
      /\ UNCHANGED <<kept, tokens, refunds, lost>>
  BY <1>1 DEF Earn, BucketTypeOK
<1>3. credit' = credit \/ (kept /\ credit' = credit + 1)
  BY DEF Earn
<1>4. BucketTypeOK' /\ RowOrFull'
  BY <1>1, <1>2, <1>3 DEF BucketTypeOK, RowOrFull, Earn
<1>5. Cost * refunds \in Nat /\ Cost * watched.admitted \in Nat /\ Cost * watched.due \in Nat
  BY <1>1, CostTimes DEF BucketTypeOK
<1>6. Balance \in Int /\ Balance' \in Int /\ Balance' <= Balance + 1
  BY <1>1, <1>2, <1>3 DEF Balance, BucketTypeOK
<1>7. NothingForFree'
  BY <1>1, <1>2, <1>5, <1>6 DEF NothingForFree, BucketTypeOK
<1>8. BurstBounded'
  BY <1>1, <1>2, <1>5 DEF BurstBounded, BucketTypeOK
<1>9. OnlyRefundsAreOwed'
  BY <1>1, <1>2 DEF OnlyRefundsAreOwed
<1> QED BY <1>4, <1>7, <1>8, <1>9 DEF FairInv

\* A row that is swept away was full: a day earns more than refunds can be short of.
LEMMA SweepKeeps ==
    ASSUME FairInv, SweepBucket
    PROVE  FairInv'
<1> USE RateLimitAssumption
<1>1. BucketTypeOK /\ RowOrFull /\ OnlyRefundsAreOwed /\ NothingForFree /\ BurstBounded BY DEF FairInv
<1>2. credit >= DayRefill /\ kept' = FALSE /\ tokens' = Capacity /\ credit' = 0
      /\ UNCHANGED <<refunds, lost, watched>>
  BY DEF SweepBucket
<1>3. Cost * (refunds + lost) <= Cost * (InFlight + Crashes)
  <2>1. refunds + lost \in Nat /\ InFlight + Crashes \in Nat /\ refunds + lost <= InFlight + Crashes
    BY <1>1 DEF BucketTypeOK, RowOrFull
  <2> QED BY <2>1, CostGrows
<1>4. Cost * (refunds + lost) \in Nat /\ Cost * (InFlight + Crashes) \in Nat
  BY <1>1, CostTimes DEF BucketTypeOK
<1>5. tokens + credit >= Capacity
  BY <1>1, <1>2, <1>3, <1>4 DEF OnlyRefundsAreOwed, BucketTypeOK
<1>6. Balance = Capacity /\ Balance' = Capacity
  BY <1>1, <1>2, <1>5 DEF Balance, BucketTypeOK
<1>7. BucketTypeOK' /\ RowOrFull'
  <2>1. kept' \in BOOLEAN
    BY <1>2
  <2>2. tokens' \in Int /\ credit' \in Nat /\ refunds' \in Nat /\ lost' \in Nat
        /\ watched' \in [admitted : Nat, earned : Nat, due : Nat]
    BY <1>1, <1>2 DEF BucketTypeOK
  <2>3. tokens' = Capacity /\ credit' = 0 /\ refunds' <= InFlight /\ lost' <= Crashes
    BY <1>1, <1>2 DEF RowOrFull
  <2> QED BY <2>1, <2>2, <2>3 DEF BucketTypeOK, RowOrFull
<1>8. OnlyRefundsAreOwed'
  BY <1>2, <1>4 DEF OnlyRefundsAreOwed
<1>9. NothingForFree' /\ BurstBounded'
  BY <1>1, <1>2, <1>6 DEF NothingForFree, BurstBounded
<1> QED BY <1>7, <1>8, <1>9 DEF FairInv

\* Counting may begin anywhere: what is there is at most a full bucket.
LEMMA ObserveKeeps ==
    ASSUME FairInv, Observe
    PROVE  FairInv'
<1> USE RateLimitAssumption
<1>1. BucketTypeOK /\ RowOrFull /\ OnlyRefundsAreOwed BY DEF FairInv
<1>2. watched' = [admitted |-> 0, earned |-> 0, due |-> refunds] /\ UNCHANGED <<kept, tokens, credit, refunds, lost>>
  BY DEF Observe
<1>3. Cost * 0 = 0 /\ Cost * refunds \in Nat
  BY <1>1, CostTimes DEF BucketTypeOK
<1>4. Balance' = Balance /\ Balance <= Capacity /\ Balance \in Int
  BY <1>1, <1>2, BalanceIs DEF Balance
<1>5. BucketTypeOK' /\ RowOrFull' /\ OnlyRefundsAreOwed'
  BY <1>1, <1>2 DEF BucketTypeOK, RowOrFull, OnlyRefundsAreOwed
<1>6. NothingForFree' /\ BurstBounded'
  BY <1>1, <1>2, <1>3, <1>4 DEF NothingForFree, BurstBounded, BucketTypeOK
<1> QED BY <1>5, <1>6 DEF FairInv

-----------------------------------------------------------------------------

\* A bucket is fair both ways, in every behaviour: no burst gets more through than a full
\* bucket, the time and the refunds due allow, and what was refused costs nothing
\* (server/src/middleware/ratelimit.js:27-50 and 85-90).
THEOREM BucketsAreFair == BucketSpec => []FairBucket
<1>1. BucketInit => FairInv
  BY FairInit
<1>2. FairInv /\ [BucketNext]_bucketVars => FairInv'
  <2> SUFFICES ASSUME FairInv, [BucketNext]_bucketVars PROVE FairInv' OBVIOUS
  <2>1. CASE Admit BY <2>1, AdmitKeeps
  <2>2. CASE Refuse BY <2>2, RefuseKeeps
  <2>3. CASE Refund BY <2>3, RefundKeeps
  <2>4. CASE LoseRefund BY <2>4, LoseRefundKeeps
  <2>5. CASE Earn BY <2>5, EarnKeeps
  <2>6. CASE SweepBucket BY <2>6, SweepKeeps
  <2>7. CASE Observe BY <2>7, ObserveKeeps
  <2>8. CASE UNCHANGED bucketVars
    BY <2>8 DEF bucketVars, FairInv, BucketTypeOK, RowOrFull, OnlyRefundsAreOwed, NothingForFree, BurstBounded, Balance
  <2> QED BY <2>1, <2>2, <2>3, <2>4, <2>5, <2>6, <2>7, <2>8 DEF BucketNext
<1>3. FairInv => FairBucket
  <2> SUFFICES ASSUME FairInv PROVE FairBucket OBVIOUS
  <2>1. Cost * (refunds + lost) \in Nat
    BY CostTimes DEF FairInv, BucketTypeOK
  <2> QED BY <2>1 DEF FairInv, FairBucket, RefusalsLeaveNoHole, OnlyRefundsAreOwed, BucketTypeOK
<1> QED BY <1>1, <1>2, <1>3, PTL DEF BucketSpec

------------------------------------------------------------------------------
(***************************************************************************)
(* The log verifies, whatever was appended and however much of it failed,  *)
(* for any number of requests and rows (Audit).                            *)
(*                                                                         *)
(* Whoever appends holds the lock, and so the row it follows is the last   *)
(* one and its own will be: between the two nobody else writes (AuditInv). *)
(***************************************************************************)
AuditSpec == AuditInit /\ [][AuditNext]_auditVars

\* Whoever is appending holds the lock, has read the last entry there is and takes
\* an id that is greater than any before it.
AuditInv ==
    /\ AuditTypeOK /\ ChainVerifies
    /\ \A id \in Ids : id <= serial
    /\ \A r \in Requests :
          writer[r].at # "idle" =>
             /\ heldBy = r /\ LastHash(writer[r].prev, Ids)
             /\ writer[r].at = "inserted" =>
                   writer[r].id \in 1..serial /\ \A id \in Ids : id < writer[r].id

LEMMA AuditInitially == AuditInit => AuditInv
BY AuditAssumption DEF AuditInit, AuditInv, AuditTypeOK, ChainVerifies, Broken, Ids, Idle

\* A row that follows the last one breaks nothing.
LEMMA AppendingKeepsTheChain ==
    ASSUME AuditTypeOK, ChainVerifies,
           NEW new \in [id : 1..LogBound, prev : 0..LogBound],
           LastHash(new.prev, Ids), \A id \in Ids : id < new.id,
           auditLog' = auditLog \cup {new}
    PROVE  ChainVerifies'
<1>1. Ids' = Ids \cup {new.id} /\ new.id \in Nat /\ Ids \subseteq Nat
  BY AuditAssumption DEF Ids, AuditTypeOK
<1>2. {id \in Ids' : id < new.id} = Ids
  <2> DEFINE all == Ids'
             old == Ids
  <2>1. \A id \in all : id < new.id <=> id \in old
    BY <1>1
  <2>2. old \subseteq all
    BY <1>1
  <2> HIDE DEF all, old
  <2>3. {id \in all : id < new.id} = old
    BY <2>1, <2>2
  <2>. QED
    BY <2>3 DEF all, old
<1>3. \A entry \in auditLog : {id \in Ids' : id < entry.id} = {id \in Ids : id < entry.id}
  <2> SUFFICES ASSUME NEW entry \in auditLog
               PROVE  {id \in Ids' : id < entry.id} = {id \in Ids : id < entry.id}
    OBVIOUS
  <2>1. entry.id \in Ids /\ entry.id \in Nat
    BY <1>1 DEF Ids
  <2>2. ~(new.id < entry.id)
    BY <1>1, <2>1
  <2>. QED
    BY <1>1, <2>2
<1>4. \A entry \in auditLog' : LET before == {id \in Ids' : id < entry.id} IN
                                  before = {} \/ LastHash(entry.prev, before)
  BY <1>2, <1>3 DEF ChainVerifies, Broken
<1>. QED
  BY <1>4 DEF ChainVerifies, Broken, LastHash

LEMMA AuditStep == AuditInv /\ [AuditNext]_auditVars => AuditInv'
<1> SUFFICES ASSUME AuditInv, [AuditNext]_auditVars PROVE AuditInv' OBVIOUS
<1> USE AuditAssumption
<1>1. CASE UNCHANGED auditVars
  BY <1>1 DEF AuditInv, AuditTypeOK, ChainVerifies, Broken, Ids, LastHash, auditVars
<1>2. AuditTypeOK /\ serial \in Nat
  BY DEF AuditInv, AuditTypeOK
<1>3. ASSUME NEW r \in Requests, ReadTail(r) PROVE AuditInv'
  <2>1. PICK prev \in 0..LogBound :
          LastHash(prev, Ids) /\ writer' = [writer EXCEPT ![r] = [at |-> "read", id |-> 0, prev |-> prev]]
    BY <1>3 DEF ReadTail
  <2>2. /\ heldBy = Nobody /\ heldBy' = r /\ auditLog' = auditLog /\ serial' = serial /\ Ids' = Ids
        /\ (ChainVerifies => ChainVerifies')
    BY <1>3 DEF ReadTail, MayAppend, Ids, ChainVerifies, Broken, LastHash
  <2>3. AuditTypeOK'
    BY <1>2, <2>1, <2>2 DEF AuditTypeOK
  <2>4. \A w \in Requests : writer'[w].at # "idle" => w = r /\ writer'[w].at = "read" /\ writer'[w].prev = prev
    BY <1>2, <2>1, <2>2 DEF AuditTypeOK, AuditInv
  <2>. QED
    BY <2>1, <2>2, <2>3, <2>4 DEF AuditInv, LastHash
<1>4. ASSUME NEW r \in Requests, InsertEntry(r) PROVE AuditInv'
  <2>1. /\ writer[r].at = "read" /\ serial < LogBound /\ serial' = serial + 1 /\ heldBy' = heldBy
        /\ writer' = [writer EXCEPT ![r].at = "inserted", ![r].id = serial + 1]
        /\ auditLog' = auditLog /\ Ids' = Ids /\ (ChainVerifies => ChainVerifies')
    BY <1>4 DEF InsertEntry, Ids, ChainVerifies, Broken, LastHash
  <2>2. AuditTypeOK'
    <3>1. serial + 1 \in 0..LogBound
      BY <1>2, <2>1 DEF AuditTypeOK
    <3>. QED
      BY <1>2, <2>1, <3>1 DEF AuditTypeOK
  <2>3. /\ writer'[r].at = "inserted" /\ writer'[r].id = serial + 1 /\ writer'[r].prev = writer[r].prev
        /\ \A w \in Requests : w # r => writer'[w] = writer[w]
    BY <1>2, <2>1 DEF AuditTypeOK
  <2>4. Ids \subseteq Nat
    BY <1>2 DEF AuditTypeOK, Ids
  <2>5. \A id \in Ids : id <= serial' /\ id < writer'[r].id
    BY <1>2, <2>1, <2>3, <2>4 DEF AuditInv
  <2>6. \A w \in Requests : w # r => writer[w].at = "idle"
    BY <2>1 DEF AuditInv
  <2>7. heldBy = r /\ LastHash(writer[r].prev, Ids) /\ ChainVerifies
    BY <2>1 DEF AuditInv
  <2>8. writer'[r].id \in 1..serial'
    BY <1>2, <2>1, <2>3
  <2>9. \A w \in Requests : writer'[w].at # "idle" => w = r
    BY <2>3, <2>6
  <2>10. heldBy' = r /\ LastHash(writer'[r].prev, Ids') /\ ChainVerifies'
    BY <2>1, <2>3, <2>7
  <2>11. \A id \in Ids' : id <= serial' /\ id < writer'[r].id
    BY <2>1, <2>5
  <2>. QED
    BY <2>2, <2>8, <2>9, <2>10, <2>11 DEF AuditInv
<1>5. ASSUME NEW r \in Requests, CommitEntry(r) PROVE AuditInv'
  <2> DEFINE new == [id |-> writer[r].id, prev |-> writer[r].prev]
  <2>1. /\ writer[r].at = "inserted" /\ heldBy = r /\ LastHash(writer[r].prev, Ids) /\ ChainVerifies
        /\ writer[r].id \in 1..serial /\ \A id \in Ids : id < writer[r].id
    BY <1>5 DEF CommitEntry, AuditInv
  <2>2. /\ auditLog' = auditLog \cup {new} /\ serial' = serial /\ heldBy' = Nobody
        /\ writer' = [writer EXCEPT ![r] = Idle]
    BY <1>5, <2>1 DEF CommitEntry
  <2>3. new \in [id : 1..LogBound, prev : 0..LogBound] /\ new.id = writer[r].id /\ new.prev = writer[r].prev
    BY <1>2, <2>1 DEF AuditTypeOK
  <2> HIDE DEF new
  <2>4. AuditTypeOK'
    BY <1>2, <2>2, <2>3 DEF AuditTypeOK, Idle
  <2>5. ChainVerifies'
    BY <1>2, <2>1, <2>2, <2>3, AppendingKeepsTheChain
  <2>6. \A w \in Requests : writer'[w].at = "idle"
    BY <1>2, <2>1, <2>2 DEF AuditInv, AuditTypeOK, Idle
  <2>7. \A id \in Ids' : id <= serial'
    <3>1. \A id \in Ids : id <= serial
      BY DEF AuditInv
    <3>2. Ids' = Ids \cup {writer[r].id} /\ writer[r].id <= serial
      BY <1>2, <2>1, <2>2, <2>3 DEF Ids
    <3>. QED
      BY <2>2, <3>1, <3>2
  <2>. QED
    BY <2>4, <2>5, <2>6, <2>7 DEF AuditInv
<1>6. ASSUME NEW r \in Requests, SwallowFailure(r) PROVE AuditInv'
  <2>1. /\ heldBy = r /\ heldBy' = Nobody /\ writer' = [writer EXCEPT ![r] = Idle]
        /\ auditLog' = auditLog /\ serial' = serial /\ Ids' = Ids /\ (ChainVerifies => ChainVerifies')
    <3>1. writer[r].at # "idle"
      BY <1>2, <1>6 DEF SwallowFailure, AuditInv, AuditTypeOK, Idle
    <3>. QED
      BY <1>6, <3>1 DEF SwallowFailure, AuditInv, Ids, ChainVerifies, Broken, LastHash
  <2>2. AuditTypeOK' /\ \A w \in Requests : writer'[w].at = "idle"
    BY <1>2, <2>1 DEF AuditInv, AuditTypeOK, Idle
  <2>. QED
    BY <2>1, <2>2 DEF AuditInv
<1>. QED
  BY <1>1, <1>3, <1>4, <1>5, <1>6 DEF AuditNext

\* Whatever requests record at once, whichever fail half way and whatever ids they
\* skip, the log verifies (services/audit.js:35-54, :62-87).
THEOREM TheChainVerifies == AuditSpec => []ChainVerifies
<1>1. AuditInv => ChainVerifies
  BY DEF AuditInv
<1>. QED
  BY <1>1, AuditInitially, AuditStep, PTL DEF AuditSpec

------------------------------------------------------------------------------
(***************************************************************************)
(* Who was cut off stays out, the keys follow the password and a second    *)
(* factor is proven, for any number of requests and sessions (Accounts).   *)
(*                                                                         *)
(* Each request works with what it read before, so the argument is about   *)
(* what a late one may still carry: a login holds the hash the account has *)
(* unless a change overtook it (KeysAgree), and a change that was to cut   *)
(* sessions off has marked every login that was on its way                 *)
(* (CutOffArrivals).                                                       *)
(***************************************************************************)
AccountsSpec == AccountsInit /\ [][AccountsNext]_accountVars

VisitRecord ==
    [op : Ops, at : {"none", "read", "wrong", "written"}, session : SessionIds \cup {0},
     password : 0..MaxPasswords, failed : 0..MaxFailed, flag : BOOLEAN, secret : 0..MaxSecrets,
     late : BOOLEAN]
SessionRecord ==
    [state : {"none", "live", "revoked", "deleted"}, persistent : BOOLEAN,
     password : 0..MaxPasswords, late : BOOLEAN, clock : {"fresh", "quiet", "idle", "expired"}]

\* A visit that may still open a session, and is not one of those marked late.
Arrives(v) == visit[v].op \in {"register", "login"} /\ ~visit[v].late

\* Without an account there is nobody to visit it but those who register.
NobodyYet ==
    ~account.exists =>
       /\ \A s \in SessionIds : sessions[s].state # "live"
       /\ \A v \in Visits : visit[v].op # "none" => visit[v].op = "register" /\ visit[v].at = "read"
       /\ cut.others = 0 /\ ~cut.remembered

\* A login on its way carries the hash of the account, unless a change overtook one.
KeysAgree ==
    \/ crossed.login
    \/ /\ account.hash = account.key
       /\ \A v \in Visits : visit[v].op = "login" /\ visit[v].at = "read" => visit[v].password = account.hash

\* One request sets the second factor up, and what it read still holds.
FactorAlone ==
    /\ \A v \in Visits : visit[v].op = "enable" => visit[v].secret # 0
    /\ ~crossed.factor =>
       /\ \A v, w \in Visits : visit[v].op \in FactorOps /\ visit[w].op \in FactorOps => v = w
       /\ \A v \in Visits : /\ visit[v].op = "start" => ~account.on
                            /\ visit[v].op = "enable" => visit[v].secret = account.secret

\* After the others were cut off, whoever still arrives has the new password, or is
\* not to be remembered.
CutOffArrivals ==
    /\ cut.others # 0 =>
          \A v \in Visits : Arrives(v) => visit[v].op = "login" /\
                                          (visit[v].at # "wrong" => visit[v].password = account.hash)
    /\ cut.remembered => ~account.policy /\ \A v \in Visits : Arrives(v) => ~visit[v].flag

AccountsInv ==
    /\ AccountsTypeOK /\ NobodyYet /\ KeysAgree
    /\ FactorAlone /\ SecondFactorIsProven
    /\ CutOffArrivals /\ CutSessionsStayOut

-----------------------------------------------------------------------------

LEMMA RecordsAre ==
    /\ NoVisit \in VisitRecord /\ NoVisit.op = "none" /\ NoVisit.at = "none" /\ ~NoVisit.flag /\ ~NoVisit.late
    /\ NoSession \in SessionRecord /\ NoSession.state = "none" /\ ~NoSession.late
BY AccountsAssumption DEF NoVisit, VisitRecord, Ops, NoSession, SessionRecord

LEMMA AccountsTypesAre ==
    ASSUME AccountsTypeOK
    PROVE  visit \in [Visits -> VisitRecord] /\ sessions \in [SessionIds -> SessionRecord]
BY DEF AccountsTypeOK, VisitRecord, SessionRecord

LEMMA AccountsInitially == AccountsInit => AccountsInv
<1> SUFFICES ASSUME AccountsInit PROVE AccountsInv OBVIOUS
<1>1. AccountsTypeOK
  BY RecordsAre, AccountsAssumption DEF AccountsInit, AccountsTypeOK, VisitRecord, SessionRecord
<1>2. /\ ~account.exists /\ account.hash = account.key /\ ~account.on /\ cut.others = 0 /\ ~cut.remembered
      /\ \A v \in Visits : visit[v].op = "none"
      /\ \A s \in SessionIds : sessions[s].state = "none"
  BY RecordsAre DEF AccountsInit
<1>3. NobodyYet /\ KeysAgree /\ FactorAlone /\ SecondFactorIsProven /\ CutOffArrivals /\ CutSessionsStayOut
  BY <1>2 DEF NobodyYet, KeysAgree, FactorAlone, SecondFactorIsProven, CutOffArrivals, CutSessionsStayOut, FactorOps
<1>. QED
  BY <1>1, <1>3 DEF AccountsInv

\* Sessions that end, or are used, cut nothing loose.
LEMMA SessionsFade ==
    ASSUME AccountsInv, UNCHANGED <<account, visit, chosen, factorVars, cut, crossed>>,
           sessions' \in [SessionIds -> SessionRecord],
           \A s \in SessionIds : sessions'[s].state = "live" =>
              /\ sessions[s].state = "live" /\ sessions'[s].password = sessions[s].password
              /\ sessions'[s].persistent = sessions[s].persistent /\ sessions'[s].late = sessions[s].late
    PROVE  AccountsInv'
<1>1. AccountsTypeOK'
  BY DEF AccountsInv, AccountsTypeOK, SessionRecord, factorVars
<1>2. NobodyYet'
  BY DEF AccountsInv, NobodyYet
<1>3. KeysAgree' /\ FactorAlone' /\ SecondFactorIsProven' /\ CutOffArrivals'
  BY DEF AccountsInv, KeysAgree, FactorAlone, SecondFactorIsProven, CutOffArrivals, Arrives, factorVars
<1>4. CutSessionsStayOut'
  BY DEF AccountsInv, CutSessionsStayOut, Live
<1>. QED
  BY <1>1, <1>2, <1>3, <1>4 DEF AccountsInv

LEMMA TouchingIs ==
    ASSUME AccountsInv, NEW s \in SessionIds, Admits(s)
    PROVE  /\ Touched(s) \in [SessionIds -> SessionRecord] /\ account.exists
           /\ \A t \in SessionIds : /\ Touched(s)[t].state = sessions[t].state
                                    /\ Touched(s)[t].password = sessions[t].password
                                    /\ Touched(s)[t].persistent = sessions[t].persistent
                                    /\ Touched(s)[t].late = sessions[t].late
<1>1. sessions \in [SessionIds -> SessionRecord]
  BY AccountsTypesAre DEF AccountsInv
<1>2. account.exists
  BY <1>1 DEF AccountsInv, NobodyYet, Admits, AccountsTypeOK
<1>. QED
  BY <1>1, <1>2 DEF Touched, SessionRecord

LEMMA SessionsKeep ==
    ASSUME AccountsInv, NEW s \in SessionIds,
           \/ TouchSession(s) \/ PresentIdleSession(s) \/ SessionAges(s) \/ ExpireSessions
           \/ \E t \in SessionIds : RevokeSession(s, t)
    PROVE  AccountsInv'
<1>1. sessions \in [SessionIds -> SessionRecord]
  BY AccountsTypesAre DEF AccountsInv
<1>2. CASE TouchSession(s)
  BY <1>2, TouchingIs, SessionsFade DEF TouchSession
<1>3. CASE PresentIdleSession(s)
  BY <1>1, <1>3, SessionsFade DEF PresentIdleSession, SessionRecord
<1>4. CASE SessionAges(s)
  <2>1. PICK next \in {"quiet", "expired", "idle"} : sessions' = [sessions EXCEPT ![s].clock = next]
    BY <1>1, <1>4 DEF SessionAges, SessionRecord
  <2>2. UNCHANGED <<account, visit, chosen, factorVars, cut, crossed>>
    BY <1>4 DEF SessionAges
  <2>. QED
    BY <1>1, <2>1, <2>2, SessionsFade DEF SessionRecord
<1>5. CASE ExpireSessions
  <2>1. [NoSession EXCEPT !.state = "deleted"] \in SessionRecord /\ [NoSession EXCEPT !.state = "deleted"].state # "live"
    BY RecordsAre DEF SessionRecord
  <2>. QED
    BY <1>1, <1>5, <2>1, SessionsFade DEF ExpireSessions
<1>6. ASSUME NEW t \in SessionIds, RevokeSession(s, t) PROVE AccountsInv'
  <2>1. Admits(s) /\ sessions' = [Touched(s) EXCEPT ![t].state = "revoked"]
        /\ UNCHANGED <<account, visit, chosen, factorVars, cut, crossed>>
    BY <1>6 DEF RevokeSession
  <2> DEFINE old == Touched(s)
  <2>2. /\ old \in [SessionIds -> SessionRecord]
        /\ \A u \in SessionIds : old[u].state = sessions[u].state /\ old[u].password = sessions[u].password
                                 /\ old[u].persistent = sessions[u].persistent /\ old[u].late = sessions[u].late
    BY <2>1, TouchingIs
  <2>3. sessions' = [old EXCEPT ![t].state = "revoked"]
    BY <2>1
  <2> HIDE DEF old
  <2>4. sessions' \in [SessionIds -> SessionRecord]
    BY <2>2, <2>3 DEF SessionRecord
  <2>5. \A u \in SessionIds : sessions'[u].state = "live" =>
              /\ sessions[u].state = "live" /\ sessions'[u].password = sessions[u].password
              /\ sessions'[u].persistent = sessions[u].persistent /\ sessions'[u].late = sessions[u].late
    BY <2>2, <2>3 DEF SessionRecord
  <2>. QED
    BY <2>1, <2>4, <2>5, SessionsFade
<1>. QED
  BY <1>2, <1>3, <1>4, <1>5, <1>6

\* A request that has read the account.
LEMMA EnteringKeeps ==
    ASSUME AccountsInv, NEW v \in Visits, NEW new \in VisitRecord, Enter(v, new), visit[v].op = "none",
           UNCHANGED <<account, factorVars, cut>>,
           chosen' \in [password : 0..MaxPasswords, secret : 0..MaxSecrets],
           crossed' \in [login : BOOLEAN, factor : BOOLEAN], crossed'.login = crossed.login,
           crossed.factor => crossed'.factor,
           sessions' \in [SessionIds -> SessionRecord],
           \A s \in SessionIds : /\ sessions'[s].state = sessions[s].state
                                 /\ sessions'[s].password = sessions[s].password
                                 /\ sessions'[s].persistent = sessions[s].persistent
                                 /\ sessions'[s].late = sessions[s].late,
           account.exists \/ (new.op = "register" /\ new.at = "read"),
           new.op = "register" => ~account.exists,
           new.op = "login" /\ new.at # "wrong" => new.password = account.hash,
           new.op \in {"register", "login"} /\ new.flag => account.policy,
           new.op \in FactorOps => crossed'.factor \/ ~\E w \in Visits \ {v} : visit[w].op \in FactorOps,
           new.op = "start" => ~account.on,
           new.op = "enable" => new.secret = account.secret /\ new.secret # 0
    PROVE  AccountsInv'
<1>1. visit \in [Visits -> VisitRecord] /\ AccountsTypeOK
  BY AccountsTypesAre DEF AccountsInv
<1>2. visit'[v] = new /\ \A w \in Visits : w # v => visit'[w] = visit[w]
  BY <1>1 DEF Enter
<1>3. visit' \in [Visits -> VisitRecord]
  BY <1>1 DEF Enter
<1>4. AccountsTypeOK'
  BY <1>1, <1>3 DEF AccountsTypeOK, VisitRecord, SessionRecord, factorVars
<1>5. NobodyYet'
  BY <1>2 DEF AccountsInv, NobodyYet
<1>6. KeysAgree'
  BY <1>2 DEF AccountsInv, KeysAgree
<1>7. FactorAlone'
  BY <1>2 DEF AccountsInv, FactorAlone, factorVars
<1>8. SecondFactorIsProven' /\ CutSessionsStayOut'
  BY DEF AccountsInv, SecondFactorIsProven, CutSessionsStayOut, Live, factorVars
<1>9. CutOffArrivals'
  BY <1>2 DEF AccountsInv, CutOffArrivals, Arrives, NobodyYet
<1>. QED
  BY <1>4, <1>5, <1>6, <1>7, <1>8, <1>9 DEF AccountsInv

LEMMA ReadingKeeps ==
    ASSUME AccountsInv, NEW v \in Visits, RegisterRead(v) \/ LoginRead(v) \/ PasswordRead(v) \/ FactorRead(v)
    PROVE  AccountsInv'
<1>1. /\ AccountsTypeOK /\ sessions \in [SessionIds -> SessionRecord] /\ visit[v].op = "none"
      /\ account.secret \in 0..MaxSecrets /\ account.failed \in 0..MaxFailed /\ account.policy \in BOOLEAN
      /\ account.hash \in 0..MaxPasswords
  BY RecordsAre, AccountsTypesAre DEF AccountsInv, RegisterRead, LoginRead, PasswordRead, FactorRead, AccountsTypeOK
<1>2. CASE RegisterRead(v)
  <2> DEFINE new == [NoVisit EXCEPT !.op = "register", !.at = "read", !.password = chosen.password + 1]
  <2>1. chosen.password + 1 \in 0..MaxPasswords /\ chosen' \in [password : 0..MaxPasswords, secret : 0..MaxSecrets]
    BY <1>1, <1>2, AccountsAssumption DEF RegisterRead, AccountsTypeOK
  <2>2. new \in VisitRecord /\ new.op = "register" /\ new.at = "read" /\ new.flag = FALSE
    BY <2>1, RecordsAre DEF VisitRecord, Ops
  <2>3. Enter(v, new) /\ ~account.exists /\ UNCHANGED <<account, sessions, factorVars, cut, crossed>>
    BY <1>2 DEF RegisterRead
  <2> HIDE DEF new
  <2>. QED
    BY <1>1, <2>1, <2>2, <2>3, EnteringKeeps DEF AccountsTypeOK, FactorOps
<1>3. CASE LoginRead(v)
  <2>1. account.exists /\ UNCHANGED <<account, sessions, chosen, factorVars, cut, crossed>>
    BY <1>3 DEF LoginRead
  <2>2. PICK new \in VisitRecord :
          /\ Enter(v, new) /\ new.op = "login" /\ new.at \in {"read", "wrong"}
          /\ new.at # "wrong" => new.password = account.hash
          /\ new.flag => account.policy
    <3>1. PICK p \in 1..chosen.password, remember \in BOOLEAN :
              \/ /\ p = account.hash
                 /\ Enter(v, [NoVisit EXCEPT !.op = "login", !.at = "read", !.password = p,
                                             !.flag = remember /\ account.policy])
              \/ Enter(v, [NoVisit EXCEPT !.op = "login", !.at = "wrong", !.failed = account.failed])
      BY <1>3 DEF LoginRead
    <3> DEFINE right == [NoVisit EXCEPT !.op = "login", !.at = "read", !.password = p,
                                        !.flag = remember /\ account.policy]
               wrong == [NoVisit EXCEPT !.op = "login", !.at = "wrong", !.failed = account.failed]
    <3>2. p \in 0..MaxPasswords
      BY <1>1, AccountsAssumption DEF AccountsTypeOK
    <3>3. /\ right \in VisitRecord /\ right.op = "login" /\ right.at = "read"
          /\ right.flag = (remember /\ account.policy) /\ right.password = p
      BY <1>1, <3>2, RecordsAre DEF VisitRecord, Ops
    <3>4. wrong \in VisitRecord /\ wrong.op = "login" /\ wrong.at = "wrong" /\ wrong.flag = FALSE
      BY <1>1, RecordsAre DEF VisitRecord, Ops
    <3> HIDE DEF right, wrong
    <3>5. (p = account.hash /\ Enter(v, right)) \/ Enter(v, wrong)
      BY <3>1 DEF right, wrong
    <3>. QED
      BY <3>3, <3>4, <3>5
  <2>. QED
    BY <1>1, <2>1, <2>2, EnteringKeeps DEF AccountsTypeOK, FactorOps
<1>4. CASE PasswordRead(v)
  <2>1. PICK s \in SessionIds, others \in BOOLEAN :
          /\ Admits(s) /\ sessions' = Touched(s)
          /\ Enter(v, [NoVisit EXCEPT !.op = "password", !.at = "read", !.session = s, !.flag = others,
                                      !.password = chosen.password + 1])
    BY <1>4 DEF PasswordRead
  <2> DEFINE new == [NoVisit EXCEPT !.op = "password", !.at = "read", !.session = s, !.flag = others,
                                    !.password = chosen.password + 1]
  <2>2. chosen.password + 1 \in 0..MaxPasswords /\ chosen' \in [password : 0..MaxPasswords, secret : 0..MaxSecrets]
    <3>1. chosen.password < MaxPasswords /\ chosen' = [chosen EXCEPT !.password = chosen.password + 1]
      BY <1>4 DEF PasswordRead
    <3>. QED
      BY <1>1, <3>1, AccountsAssumption DEF AccountsTypeOK
  <2>3. new \in VisitRecord /\ new.op = "password"
    BY <2>2, RecordsAre DEF VisitRecord, Ops
  <2>4. Enter(v, new) /\ UNCHANGED <<account, factorVars, cut, crossed>>
    BY <1>4, <2>1 DEF PasswordRead
  <2> HIDE DEF new
  <2>. QED
    BY <1>1, <2>1, <2>2, <2>3, <2>4, TouchingIs, EnteringKeeps DEF AccountsTypeOK, FactorOps
<1>5. CASE FactorRead(v)
  <2>1. PICK s \in SessionIds :
          /\ Admits(s) /\ sessions' = Touched(s)
          /\ \/ ~account.on /\ Enter(v, [NoVisit EXCEPT !.op = "start", !.at = "read", !.session = s])
             \/ /\ account.secret # 0
                /\ Enter(v, [NoVisit EXCEPT !.op = "enable", !.at = "read", !.session = s, !.secret = account.secret])
             \/ Enter(v, [NoVisit EXCEPT !.op = "disable", !.at = "read", !.session = s])
    BY <1>5 DEF FactorRead, MayStart, CodeMatches
  <2>2. PICK new \in VisitRecord :
          /\ Enter(v, new) /\ new.op \in FactorOps
          /\ new.op = "start" => ~account.on
          /\ new.op = "enable" => new.secret = account.secret /\ new.secret # 0
    <3> DEFINE start == [NoVisit EXCEPT !.op = "start", !.at = "read", !.session = s]
               enable == [NoVisit EXCEPT !.op = "enable", !.at = "read", !.session = s, !.secret = account.secret]
               disable == [NoVisit EXCEPT !.op = "disable", !.at = "read", !.session = s]
    <3>1. /\ start \in VisitRecord /\ start.op = "start"
          /\ enable \in VisitRecord /\ enable.op = "enable" /\ enable.secret = account.secret
          /\ disable \in VisitRecord /\ disable.op = "disable"
      BY <1>1, RecordsAre DEF VisitRecord, Ops
    <3>2. (~account.on /\ Enter(v, start)) \/ (account.secret # 0 /\ Enter(v, enable)) \/ Enter(v, disable)
      BY <2>1
    <3> HIDE DEF start, enable, disable
    <3>. QED
      BY <3>1, <3>2 DEF FactorOps
  <2>3. /\ UNCHANGED <<account, chosen, factorVars, cut>>
        /\ crossed' \in [login : BOOLEAN, factor : BOOLEAN] /\ crossed'.login = crossed.login
        /\ crossed'.factor <=> crossed.factor \/ Meets(v)
    <3>1. crossed' = [crossed EXCEPT !.factor = crossed.factor \/ Meets(v)]
      BY <1>5 DEF FactorRead
    <3>2. Meets(v) \in BOOLEAN
      BY DEF Meets
    <3>. QED
      BY <1>1, <1>5, <3>1, <3>2 DEF FactorRead, AccountsTypeOK
  <2>. QED
    BY SMTT(30), <1>1, <2>1, <2>2, <2>3, TouchingIs, EnteringKeeps DEF AccountsTypeOK, FactorOps, Meets
<1>. QED
  BY <1>2, <1>3, <1>4, <1>5

\* A request that is through with what it did.
LEMMA VisitIs ==
    ASSUME AccountsInv, NEW v \in Visits
    PROVE  /\ visit \in [Visits -> VisitRecord] /\ sessions \in [SessionIds -> SessionRecord] /\ AccountsTypeOK
           /\ visit[v] \in VisitRecord
           /\ visit[v].op # "none" /\ ~(visit[v].op = "register" /\ visit[v].at = "read") => account.exists
BY AccountsTypesAre DEF AccountsInv, NobodyYet, AccountsTypeOK

LEMMA LeavingIs ==
    ASSUME AccountsInv, NEW v \in Visits, Leave(v)
    PROVE  /\ visit' \in [Visits -> VisitRecord] /\ visit'[v] = NoVisit
           /\ \A w \in Visits : w # v => visit'[w] = visit[w]
BY RecordsAre, VisitIs DEF Leave

LEMMA RegisteringKeeps ==
    ASSUME AccountsInv, NEW v \in Visits, RegisterInsert(v)
    PROVE  AccountsInv'
<1>1. visit[v].op = "register" /\ visit[v].at = "read" /\ UNCHANGED <<sessions, chosen, factorVars, cut, crossed>>
      /\ AccountsTypeOK /\ visit \in [Visits -> VisitRecord] /\ visit[v].password \in 0..MaxPasswords
  BY VisitIs DEF RegisterInsert, VisitRecord
<1>2. CASE account.exists
  <2>1. Leave(v) /\ account' = account
    BY <1>2 DEF RegisterInsert
  <2>2. AccountsTypeOK'
    BY <1>1, <2>1, LeavingIs DEF AccountsTypeOK, VisitRecord, factorVars
  <2>3. NobodyYet' /\ KeysAgree' /\ FactorAlone' /\ SecondFactorIsProven'
    BY <1>1, <1>2, <2>1, LeavingIs, RecordsAre
       DEF AccountsInv, NobodyYet, KeysAgree, FactorAlone, SecondFactorIsProven, factorVars, FactorOps
  <2>4. CutOffArrivals' /\ CutSessionsStayOut'
    BY <1>1, <2>1, LeavingIs, RecordsAre DEF AccountsInv, CutOffArrivals, Arrives, CutSessionsStayOut, Live
  <2>. QED
    BY <2>2, <2>3, <2>4 DEF AccountsInv
<1>3. CASE ~account.exists
  <2>1. /\ account' = [account EXCEPT !.exists = TRUE, !.hash = visit[v].password, !.key = visit[v].password]
        /\ visit' = [visit EXCEPT ![v].at = "written"]
    BY <1>3 DEF RegisterInsert
  <2>2. /\ account'.exists /\ account'.hash = account'.key /\ account'.on = account.on
        /\ account'.secret = account.secret /\ account'.policy = account.policy
    BY <1>1, <2>1 DEF AccountsTypeOK
  <2>3. /\ visit' \in [Visits -> VisitRecord]
        /\ \A w \in Visits : visit'[w].op = visit[w].op /\ visit'[w].secret = visit[w].secret
    BY <1>1, <2>1 DEF VisitRecord
  <2>4. /\ cut.others = 0 /\ ~cut.remembered
        /\ \A w \in Visits : visit[w].op \in {"none", "register"}
    BY <1>3 DEF AccountsInv, NobodyYet
  <2>5. AccountsTypeOK'
    BY <1>1, <2>1, <2>3 DEF AccountsTypeOK, VisitRecord, factorVars
  <2>6. NobodyYet' /\ KeysAgree' /\ FactorAlone' /\ SecondFactorIsProven'
    BY <1>1, <2>2, <2>3, <2>4
       DEF AccountsInv, NobodyYet, KeysAgree, FactorAlone, SecondFactorIsProven, factorVars, FactorOps
  <2>7. CutOffArrivals' /\ CutSessionsStayOut'
    BY <1>1, <2>4 DEF CutOffArrivals, CutSessionsStayOut
  <2>. QED
    BY <2>5, <2>6, <2>7 DEF AccountsInv
<1>. QED
  BY <1>2, <1>3

\* The session that a login or a registration ends in is marked as its visit was.
LEMMA OpeningKeeps ==
    ASSUME AccountsInv, NEW v \in Visits, OpenSession(v)
    PROVE  AccountsInv'
<1>1. /\ visit[v].op \in {"register", "login"} /\ visit[v].at = "written" /\ Leave(v)
      /\ UNCHANGED <<account, chosen, factorVars, cut, crossed>>
  BY DEF OpenSession
<1>2. PICK s \in SessionIds :
        sessions' = [sessions EXCEPT ![s] = [NoSession EXCEPT !.state = "live", !.persistent = visit[v].flag,
                                                              !.password = visit[v].password,
                                                              !.late = visit[v].late]]
  BY DEF OpenSession
<1> DEFINE new == [NoSession EXCEPT !.state = "live", !.persistent = visit[v].flag,
                                    !.password = visit[v].password, !.late = visit[v].late]
<1>3. /\ new \in SessionRecord /\ new.persistent = visit[v].flag
      /\ new.password = visit[v].password /\ new.late = visit[v].late
  BY VisitIs, RecordsAre DEF VisitRecord, SessionRecord
<1> HIDE DEF new
<1>4. /\ sessions'[s] = new /\ sessions' \in [SessionIds -> SessionRecord]
      /\ \A t \in SessionIds : t # s => sessions'[t] = sessions[t]
  BY <1>2, <1>3, VisitIs DEF new
<1>5. AccountsTypeOK'
  BY <1>1, <1>4, LeavingIs, VisitIs DEF AccountsTypeOK, VisitRecord, SessionRecord, factorVars
<1>6. NobodyYet' /\ KeysAgree' /\ FactorAlone' /\ SecondFactorIsProven' /\ CutOffArrivals'
  BY <1>1, LeavingIs, RecordsAre, VisitIs
     DEF AccountsInv, NobodyYet, KeysAgree, FactorAlone, SecondFactorIsProven, CutOffArrivals, Arrives, factorVars, FactorOps
<1>7. CutSessionsStayOut'
  BY <1>1, <1>3, <1>4 DEF AccountsInv, CutSessionsStayOut, CutOffArrivals, Arrives, Live
<1>. QED
  BY <1>5, <1>6, <1>7 DEF AccountsInv

LEMMA LoginsKeep ==
    ASSUME AccountsInv, NEW v \in Visits, LoginWrong(v) \/ LoginRight(v)
    PROVE  AccountsInv'
<1>1. /\ visit[v].op = "login" /\ account.exists /\ AccountsTypeOK /\ visit[v].password \in 0..MaxPasswords
      /\ visit[v].failed \in 0..MaxFailed /\ visit \in [Visits -> VisitRecord]
      /\ UNCHANGED <<sessions, chosen, factorVars, crossed>>
  BY VisitIs DEF LoginWrong, LoginRight, VisitRecord
<1>2. CASE LoginWrong(v)
  <2> DEFINE failed == IF visit[v].failed < MaxFailed THEN visit[v].failed + 1 ELSE MaxFailed
  <2>1. failed \in 0..MaxFailed
    BY <1>1, AccountsAssumption
  <2>2. Leave(v) /\ cut' = cut /\ account' = [account EXCEPT !.failed = failed, !.locked = account.locked \/ failed >= MaxFailed]
    BY <1>2 DEF LoginWrong
  <2> HIDE DEF failed
  <2>3. /\ account'.exists /\ account'.hash = account.hash /\ account'.key = account.key
        /\ account'.on = account.on /\ account'.secret = account.secret /\ account'.policy = account.policy
    BY <1>1, <2>2 DEF AccountsTypeOK
  <2>4. AccountsTypeOK'
    BY <1>1, <2>1, <2>2, LeavingIs DEF AccountsTypeOK, VisitRecord, factorVars
  <2>5. NobodyYet' /\ KeysAgree' /\ FactorAlone' /\ SecondFactorIsProven'
    BY <1>1, <2>2, <2>3, LeavingIs, RecordsAre
       DEF AccountsInv, NobodyYet, KeysAgree, FactorAlone, SecondFactorIsProven, factorVars, FactorOps
  <2>6. CutOffArrivals' /\ CutSessionsStayOut'
    BY <1>1, <2>2, <2>3, LeavingIs, RecordsAre DEF AccountsInv, CutOffArrivals, Arrives, CutSessionsStayOut, Live
  <2>. QED
    BY <2>4, <2>5, <2>6 DEF AccountsInv
<1>3. CASE LoginRight(v)
  <2>1. /\ account' = [account EXCEPT !.failed = 0, !.locked = FALSE, !.hash = visit[v].password]
        /\ cut' = IF visit[v].password = account.hash THEN cut ELSE [cut EXCEPT !.others = 0]
        /\ visit' = [visit EXCEPT ![v].at = "written"] /\ visit[v].at = "read"
    BY <1>3 DEF LoginRight
  <2>2. /\ account'.exists /\ account'.hash = visit[v].password /\ account'.key = account.key
        /\ account'.on = account.on /\ account'.secret = account.secret /\ account'.policy = account.policy
    BY <1>1, <2>1 DEF AccountsTypeOK
  <2>3. /\ visit' \in [Visits -> VisitRecord] /\ visit'[v].at = "written"
        /\ \A w \in Visits : /\ visit'[w].op = visit[w].op /\ visit'[w].secret = visit[w].secret
                             /\ visit'[w].password = visit[w].password /\ visit'[w].flag = visit[w].flag
                             /\ visit'[w].late = visit[w].late /\ (w # v => visit'[w] = visit[w])
    BY <1>1, <2>1 DEF VisitRecord
  <2>4. /\ cut'.remembered = cut.remembered
        /\ cut'.others # 0 => cut'.others = cut.others /\ account'.hash = account.hash
    BY <1>1, <2>1, <2>2 DEF AccountsTypeOK
  <2>5. AccountsTypeOK'
    <3>1. account' \in [exists : BOOLEAN, hash : 0..MaxPasswords, key : 0..MaxPasswords, failed : 0..MaxFailed,
                         locked : BOOLEAN, policy : BOOLEAN, on : BOOLEAN, secret : 0..MaxSecrets]
      <4>1. 0 \in 0..MaxFailed
        BY AccountsAssumption
      <4>. QED
        BY <1>1, <2>1, <4>1 DEF AccountsTypeOK
    <3>2. cut' \in [others : SessionIds \cup {0}, remembered : BOOLEAN]
      BY <1>1, <2>1 DEF AccountsTypeOK
    <3>. QED
      BY <1>1, <2>3, <3>1, <3>2 DEF AccountsTypeOK, VisitRecord, factorVars
  <2>6. NobodyYet' /\ KeysAgree' /\ FactorAlone' /\ SecondFactorIsProven'
    BY <1>1, <2>1, <2>2, <2>3
       DEF AccountsInv, NobodyYet, KeysAgree, FactorAlone, SecondFactorIsProven, factorVars, FactorOps
  <2>7. CutOffArrivals' /\ CutSessionsStayOut'
    BY <1>1, <2>1, <2>2, <2>3, <2>4 DEF AccountsInv, CutOffArrivals, Arrives, CutSessionsStayOut, Live
  <2>. QED
    BY <2>5, <2>6, <2>7 DEF AccountsInv
<1>. QED
  BY <1>2, <1>3

AccountRecord ==
    [exists : BOOLEAN, hash : 0..MaxPasswords, key : 0..MaxPasswords, failed : 0..MaxFailed,
     locked : BOOLEAN, policy : BOOLEAN, on : BOOLEAN, secret : 0..MaxSecrets]

\* A change of password cuts nobody off before its second statement.
LEMMA PasswordsKeep ==
    ASSUME AccountsInv, NEW v \in Visits, PasswordWrite(v)
    PROVE  AccountsInv'
<1>1. /\ visit[v].op = "password" /\ visit[v].at = "read" /\ account.exists /\ AccountsTypeOK
      /\ visit[v].password \in 0..MaxPasswords /\ visit \in [Visits -> VisitRecord]
      /\ UNCHANGED <<sessions, chosen, factorVars>>
  BY VisitIs DEF PasswordWrite, VisitRecord
<1>2. /\ account' \in AccountRecord /\ account'.exists /\ account'.hash = account'.key
      /\ account'.on = account.on /\ account'.secret = account.secret /\ account'.policy = account.policy
  BY <1>1 DEF PasswordWrite, NewPassword, AccountsTypeOK, AccountRecord
<1>3. cut' \in [others : SessionIds \cup {0}, remembered : BOOLEAN] /\ cut'.others = 0 /\ cut'.remembered = cut.remembered
  BY <1>1 DEF PasswordWrite, AccountsTypeOK
<1>4. /\ crossed' \in [login : BOOLEAN, factor : BOOLEAN] /\ crossed'.factor = crossed.factor
      /\ (crossed.login \/ \E w \in Visits : visit[w].op = "login" /\ visit[w].at = "read") => crossed'.login
  <2> DEFINE met == \E w \in Visits : visit[w].op = "login" /\ visit[w].at = "read"
  <2>1. met \in BOOLEAN /\ crossed' = [crossed EXCEPT !.login = crossed.login \/ met]
    BY DEF PasswordWrite
  <2> HIDE DEF met
  <2>2. /\ crossed' \in [login : BOOLEAN, factor : BOOLEAN] /\ crossed'.factor = crossed.factor
        /\ (crossed.login \/ met) => crossed'.login
    BY <1>1, <2>1 DEF AccountsTypeOK
  <2>. QED
    BY <2>2 DEF met
<1>5. /\ visit' \in [Visits -> VisitRecord] /\ (\A w \in Visits : w # v => visit'[w] = visit[w])
      /\ visit'[v].op \in {"none", "password"}
  <2>1. CASE visit[v].flag
    <3>1. visit' = [visit EXCEPT ![v].at = "written"]
      BY <2>1 DEF PasswordWrite
    <3>. QED
      BY <1>1, <3>1 DEF VisitRecord
  <2>2. CASE ~visit[v].flag
    <3>1. Leave(v)
      BY <2>2 DEF PasswordWrite
    <3>. QED
      BY <3>1, LeavingIs, RecordsAre
  <2>. QED
    BY <2>1, <2>2
<1>6. AccountsTypeOK'
  BY <1>1, <1>2, <1>3, <1>4, <1>5 DEF AccountsTypeOK, VisitRecord, AccountRecord, factorVars
<1>7. NobodyYet' /\ KeysAgree' /\ FactorAlone' /\ SecondFactorIsProven'
  BY <1>1, <1>2, <1>4, <1>5
     DEF AccountsInv, NobodyYet, KeysAgree, FactorAlone, SecondFactorIsProven, factorVars, FactorOps
<1>8. CutOffArrivals' /\ CutSessionsStayOut'
  BY <1>1, <1>2, <1>3, <1>5 DEF AccountsInv, CutOffArrivals, Arrives, CutSessionsStayOut, Live
<1>. QED
  BY <1>6, <1>7, <1>8 DEF AccountsInv

LEMMA PoliciesKeep ==
    ASSUME AccountsInv, NEW v \in Visits, PolicyWrite(v)
    PROVE  AccountsInv'
<1>1. PICK s \in SessionIds, policy \in BOOLEAN :
        /\ Admits(s) /\ sessions' = Touched(s) /\ account' = [account EXCEPT !.policy = policy]
        /\ \/ visit' = visit
           \/ Enter(v, [NoVisit EXCEPT !.op = "policy", !.at = "written", !.session = s])
  BY DEF PolicyWrite
<1>2. /\ visit[v] = NoVisit /\ account.exists /\ AccountsTypeOK /\ visit \in [Visits -> VisitRecord]
      /\ UNCHANGED <<chosen, factorVars, crossed>> /\ cut' = [cut EXCEPT !.remembered = FALSE]
  BY VisitIs DEF PolicyWrite
<1>3. /\ account' \in AccountRecord /\ account'.exists /\ account'.hash = account.hash /\ account'.key = account.key
      /\ account'.on = account.on /\ account'.secret = account.secret
  BY <1>1, <1>2 DEF AccountsTypeOK, AccountRecord
<1>4. cut' \in [others : SessionIds \cup {0}, remembered : BOOLEAN] /\ cut'.others = cut.others /\ ~cut'.remembered
  BY <1>2 DEF AccountsTypeOK
<1>5. /\ visit' \in [Visits -> VisitRecord] /\ (\A w \in Visits : w # v => visit'[w] = visit[w])
      /\ visit'[v].op \in {"none", "policy"}
  <2> DEFINE new == [NoVisit EXCEPT !.op = "policy", !.at = "written", !.session = s]
  <2>1. new \in VisitRecord /\ new.op = "policy"
    BY RecordsAre DEF VisitRecord, Ops
  <2>2. visit' = visit \/ visit' = [visit EXCEPT ![v] = new]
    BY <1>1 DEF Enter
  <2> HIDE DEF new
  <2>. QED
    BY <1>2, <2>1, <2>2, RecordsAre
<1>6. AccountsTypeOK'
  BY <1>1, <1>2, <1>3, <1>4, <1>5, TouchingIs DEF AccountsTypeOK, VisitRecord, SessionRecord, AccountRecord, factorVars
<1>7. NobodyYet' /\ KeysAgree' /\ FactorAlone' /\ SecondFactorIsProven'
  BY <1>2, <1>3, <1>5
     DEF AccountsInv, NobodyYet, KeysAgree, FactorAlone, SecondFactorIsProven, factorVars, FactorOps
<1>8. CutOffArrivals' /\ CutSessionsStayOut'
  BY <1>1, <1>3, <1>4, <1>5, TouchingIs DEF AccountsInv, CutOffArrivals, Arrives, CutSessionsStayOut, Live
<1>. QED
  BY <1>6, <1>7, <1>8 DEF AccountsInv

\* Whoever was on the way in is late from here on.
LEMMA RevokingKeeps ==
    ASSUME AccountsInv, NEW v \in Visits, RevokeOthers(v)
    PROVE  AccountsInv'
<1>1. /\ visit[v].op \in {"policy", "password"} /\ account.exists /\ AccountsTypeOK /\ visit[v] \in VisitRecord
      /\ visit \in [Visits -> VisitRecord] /\ sessions \in [SessionIds -> SessionRecord]
      /\ UNCHANGED <<account, chosen, factorVars, crossed>>
  BY VisitIs DEF RevokeOthers
<1>2. /\ sessions' \in [SessionIds -> SessionRecord]
      /\ \A s \in SessionIds : sessions'[s].state = "live" =>
            /\ sessions[s].state = "live" /\ s \notin CutOff(v) /\ sessions'[s].password = sessions[s].password
            /\ sessions'[s].persistent = sessions[s].persistent /\ sessions'[s].late = sessions[s].late
  BY <1>1 DEF RevokeOthers, SessionRecord
<1>3. /\ visit' \in [Visits -> VisitRecord] /\ visit'[v].op = "none"
      /\ \A w \in Visits : visit'[w].op # "none" =>
            /\ visit'[w].op = visit[w].op /\ visit'[w].at = visit[w].at /\ visit'[w].secret = visit[w].secret
            /\ visit'[w].password = visit[w].password
            /\ visit'[w].op \in {"register", "login"} => visit'[w].late
  <2> DEFINE marked == [w \in Visits |-> IF visit[w].op \in {"register", "login"}
                                         THEN [visit[w] EXCEPT !.late = TRUE] ELSE visit[w]]
  <2>1. marked \in [Visits -> VisitRecord]
    BY <1>1 DEF VisitRecord
  <2>2. \A w \in Visits : /\ marked[w].op = visit[w].op /\ marked[w].at = visit[w].at
                          /\ marked[w].secret = visit[w].secret /\ marked[w].password = visit[w].password
                          /\ marked[w].op \in {"register", "login"} => marked[w].late
    BY <1>1 DEF VisitRecord
  <2>3. visit' = [marked EXCEPT ![v] = NoVisit]
    BY DEF RevokeOthers
  <2> HIDE DEF marked
  <2>. QED
    BY <2>1, <2>2, <2>3, RecordsAre
<1>4. /\ cut' \in [others : SessionIds \cup {0}, remembered : BOOLEAN]
      /\ visit[v].op = "policy" => cut'.others = cut.others /\ cut'.remembered = ~account.policy
      /\ visit[v].op # "policy" => cut'.others = visit[v].session /\ cut'.remembered = cut.remembered
  BY <1>1 DEF RevokeOthers, AccountsTypeOK, VisitRecord
<1>5. AccountsTypeOK'
  BY <1>1, <1>2, <1>3, <1>4 DEF AccountsTypeOK, VisitRecord, SessionRecord, factorVars
<1>6. NobodyYet' /\ KeysAgree' /\ FactorAlone' /\ SecondFactorIsProven'
  BY <1>1, <1>3
     DEF AccountsInv, NobodyYet, KeysAgree, FactorAlone, SecondFactorIsProven, factorVars, FactorOps
<1>7. CutOffArrivals'
  BY <1>1, <1>3, <1>4 DEF AccountsInv, CutOffArrivals, Arrives
<1>8. CutSessionsStayOut'
  <2>1. CASE visit[v].op = "policy"
    BY <1>1, <1>2, <1>4, <2>1 DEF AccountsInv, CutSessionsStayOut, Live, CutOff
  <2>2. CASE visit[v].op # "policy"
    BY <1>1, <1>2, <1>4, <2>2 DEF AccountsInv, CutSessionsStayOut, Live, CutOff
  <2>. QED
    BY <2>1, <2>2
<1>. QED
  BY <1>5, <1>6, <1>7, <1>8 DEF AccountsInv

LEMMA FactorsKeep ==
    ASSUME AccountsInv, NEW v \in Visits, StartWrite(v) \/ EnableWrite(v) \/ DisableWrite(v)
    PROVE  AccountsInv'
<1>1. /\ visit[v].op \in FactorOps /\ Leave(v) /\ account.exists /\ AccountsTypeOK /\ visit[v] \in VisitRecord
      /\ UNCHANGED <<sessions, cut, crossed>>
  BY VisitIs DEF StartWrite, EnableWrite, DisableWrite, FactorOps
<1>2. /\ account' \in AccountRecord /\ account'.exists /\ account'.hash = account.hash /\ account'.key = account.key
      /\ account'.policy = account.policy
      /\ chosen' \in [password : 0..MaxPasswords, secret : 0..MaxSecrets]
      /\ phone' \in 0..MaxSecrets /\ proven \subseteq proven'
  <2>1. CASE StartWrite(v)
    <3>1. chosen.secret + 1 \in 0..MaxSecrets
      BY <1>1, <2>1, AccountsAssumption DEF StartWrite, AccountsTypeOK
    <3>. QED
      BY <1>1, <2>1, <3>1 DEF StartWrite, AccountsTypeOK, AccountRecord
  <2>2. CASE EnableWrite(v)
    BY <1>1, <2>2 DEF EnableWrite, AccountsTypeOK, AccountRecord
  <2>3. CASE DisableWrite(v)
    <3>1. 0 \in 0..MaxSecrets
      BY AccountsAssumption
    <3>. QED
      BY <1>1, <2>3, <3>1 DEF DisableWrite, AccountsTypeOK, AccountRecord, factorVars
  <2>. QED
    BY <2>1, <2>2, <2>3
<1>3. KeysAgree' /\ NobodyYet' /\ CutOffArrivals' /\ CutSessionsStayOut'
  BY <1>1, <1>2, LeavingIs, RecordsAre
     DEF AccountsInv, KeysAgree, NobodyYet, CutOffArrivals, Arrives, CutSessionsStayOut, Live
<1>4. FactorAlone'
  BY <1>1, LeavingIs, RecordsAre DEF AccountsInv, FactorAlone, FactorOps
<1>5. SecondFactorIsProven'
  <2>1. CASE StartWrite(v)
    BY <1>1, <2>1 DEF AccountsInv, FactorAlone, StartWrite, SecondFactorIsProven, AccountsTypeOK
  <2>2. CASE EnableWrite(v)
    BY <1>1, <2>2 DEF AccountsInv, FactorAlone, EnableWrite, SecondFactorIsProven, AccountsTypeOK
  <2>3. CASE DisableWrite(v)
    BY <1>1, <2>3 DEF DisableWrite, SecondFactorIsProven, AccountsTypeOK
  <2>. QED
    BY <1>1, <2>1, <2>2, <2>3
<1>6. proven' \subseteq 1..MaxSecrets
  <2>1. CASE EnableWrite(v)
    <3>1. visit[v].secret \in 0..MaxSecrets /\ visit[v].secret # 0
      BY <1>1, <2>1 DEF AccountsInv, FactorAlone, EnableWrite, VisitRecord
    <3>2. visit[v].secret \in 1..MaxSecrets
      BY <3>1, AccountsAssumption
    <3>. QED
      BY <1>1, <2>1, <3>2 DEF EnableWrite, AccountsTypeOK
  <2>2. CASE ~EnableWrite(v)
    BY <1>1, <2>2 DEF StartWrite, DisableWrite, AccountsTypeOK, factorVars
  <2>. QED
    BY <2>1, <2>2
<1>7. AccountsTypeOK'
  BY <1>1, <1>2, <1>6, LeavingIs DEF AccountsTypeOK, VisitRecord, AccountRecord
<1>. QED
  BY <1>3, <1>4, <1>5, <1>7 DEF AccountsInv

\* A lockout that ends changes nothing else; a server that stops forgets its visits.
LEMMA AccountsStoppingKeeps ==
    ASSUME AccountsInv, LockoutEnds \/ StopAuthServer
    PROVE  AccountsInv'
<1>1. AccountsTypeOK /\ visit \in [Visits -> VisitRecord]
  BY AccountsTypesAre DEF AccountsInv
<1>2. CASE LockoutEnds
  <2>1. /\ account' \in AccountRecord /\ account'.exists = account.exists /\ account'.hash = account.hash
        /\ account'.key = account.key /\ account'.on = account.on /\ account'.secret = account.secret
        /\ account'.policy = account.policy
        /\ UNCHANGED <<sessions, visit, chosen, factorVars, cut, crossed>>
    BY <1>1, <1>2 DEF LockoutEnds, AccountsTypeOK, AccountRecord
  <2>2. AccountsTypeOK'
    BY <1>1, <2>1 DEF AccountsTypeOK, AccountRecord, factorVars
  <2>3. NobodyYet' /\ KeysAgree' /\ FactorAlone' /\ SecondFactorIsProven' /\ CutOffArrivals' /\ CutSessionsStayOut'
    BY <2>1 DEF AccountsInv, NobodyYet, KeysAgree, FactorAlone, SecondFactorIsProven, CutOffArrivals, Arrives,
                CutSessionsStayOut, Live, factorVars
  <2>. QED
    BY <2>2, <2>3 DEF AccountsInv
<1>3. CASE StopAuthServer
  <2>1. /\ visit' \in [Visits -> VisitRecord] /\ \A v \in Visits : visit'[v].op = "none"
        /\ UNCHANGED <<account, sessions, chosen, factorVars, cut, crossed>>
    BY <1>3, RecordsAre DEF StopAuthServer
  <2>2. AccountsTypeOK'
    BY <1>1, <2>1 DEF AccountsTypeOK, VisitRecord, factorVars
  <2>3. NobodyYet' /\ KeysAgree' /\ FactorAlone' /\ SecondFactorIsProven' /\ CutOffArrivals' /\ CutSessionsStayOut'
    BY <2>1 DEF AccountsInv, NobodyYet, KeysAgree, FactorAlone, FactorOps, SecondFactorIsProven, CutOffArrivals,
                Arrives, CutSessionsStayOut, Live, factorVars
  <2>. QED
    BY <2>2, <2>3 DEF AccountsInv
<1>. QED
  BY <1>2, <1>3

LEMMA AccountsStep == AccountsInv /\ [AccountsNext]_accountVars => AccountsInv'
<1> SUFFICES ASSUME AccountsInv, [AccountsNext]_accountVars PROVE AccountsInv' OBVIOUS
<1>1. CASE UNCHANGED accountVars
  <2>1. UNCHANGED <<account, sessions, visit, chosen, factorVars, cut, crossed>>
    BY <1>1 DEF accountVars, factorVars
  <2>. QED
    BY <2>1 DEF AccountsInv, AccountsTypeOK, NobodyYet, KeysAgree, FactorAlone, SecondFactorIsProven,
                CutOffArrivals, Arrives, CutSessionsStayOut, Live, factorVars
<1>2. ASSUME NEW s \in SessionIds,
             \/ TouchSession(s) \/ PresentIdleSession(s) \/ SessionAges(s)
             \/ \E t \in SessionIds : RevokeSession(s, t)
      PROVE  AccountsInv'
  BY <1>2, SessionsKeep
<1>3. CASE ExpireSessions
  <2>1. PICK s \in SessionIds : TRUE
    BY <1>3 DEF ExpireSessions
  <2>. QED
    BY <1>3, <2>1, SessionsKeep
<1>4. CASE LockoutEnds \/ StopAuthServer
  BY <1>4, AccountsStoppingKeeps
<1>5. ASSUME NEW v \in Visits,
             \/ RegisterRead(v) \/ RegisterInsert(v) \/ OpenSession(v)
             \/ LoginRead(v) \/ LoginWrong(v) \/ LoginRight(v)
             \/ PasswordRead(v) \/ PasswordWrite(v) \/ PolicyWrite(v) \/ RevokeOthers(v)
             \/ FactorRead(v) \/ StartWrite(v) \/ EnableWrite(v) \/ DisableWrite(v)
      PROVE  AccountsInv'
  BY <1>5, ReadingKeeps, RegisteringKeeps, OpeningKeeps, LoginsKeep, PasswordsKeep, PoliciesKeep,
     RevokingKeeps, FactorsKeep
<1>. QED
  BY <1>1, <1>2, <1>3, <1>4, <1>5 DEF AccountsNext

LEMMA AccountsAlways == AccountsSpec => []AccountsInv
BY AccountsInitially, AccountsStep, PTL DEF AccountsSpec

\* Whatever requests run side by side, a live session that a change of password or
\* of policy was to cut off is one whose login was on its way then (routes/auth.js:417-430, :556-571).
THEOREM CutOffSessions == AccountsSpec => []CutSessionsStayOut
<1>1. AccountsInv => CutSessionsStayOut
  BY DEF AccountsInv
<1>. QED
  BY <1>1, AccountsAlways, PTL

\* The password that logs in opens the keys (routes/auth.js:392-397), for as long as no
\* change of password lands between a login's check and its write.
THEOREM OnePassword == AccountsSpec => []KeyFollowsPassword
<1>1. AccountsInv => KeyFollowsPassword
  BY DEF AccountsInv, KeysAgree, KeyFollowsPassword
<1>. QED
  BY <1>1, AccountsAlways, PTL

\* A login is asked for a code only of a secret an authenticator has shown to hold
\* (routes/auth.js:462-494), for as long as no two requests set the factor up at once.
THEOREM CodesAreProven == AccountsSpec => []SecondFactorIsProven
<1>1. AccountsInv => SecondFactorIsProven
  BY DEF AccountsInv
<1>. QED
  BY <1>1, AccountsAlways, PTL

------------------------------------------------------------------------------
(***************************************************************************)
(* Nothing is wiped against an admin and nobody goes with others' data,    *)
(* for any household, proposals and calls (Consent).                       *)
(*                                                                         *)
(* A decision is recorded and resolved under the row's lock (OneRecorder), *)
(* so an open proposal that somebody has refused is about to be closed by  *)
(* that very call (RefusalsResolve), and whoever counts consents counts    *)
(* every admin there is (CountsHold).                                      *)
(***************************************************************************)
ConsentSpec == ConsentInit /\ [][ConsentNext]_consentVars

CallRecord ==
    [act : ConsentActs \cup {"none"},
     at : {"none", "sent", "recorded", "agreed", "wiped", "counted"},
     by : People \cup {"nobody"}, on : Proposals \cup {"none"}, vote : {"none", "approve", "deny"},
     seen : SUBSET People, late : SUBSET People]
KinRecord == [account : BOOLEAN, status : {"out", "pending", "active"}, role : {"admin", "adult"}]

Recording(c) == CallAt(c, "decide", "recorded")

\* The row lock: one decision on a proposal at a time is recorded and not resolved.
OneRecorder == \A c, d \in Calls : Recording(c) /\ Recording(d) /\ call[c].on = call[d].on => c = d

\* Of an open proposal, whoever has refused it is about to have it resolved.
RefusalsResolve ==
    \A x \in Proposals, p \in People :
       votes[x][p] = "deny" =>
          /\ proposal[x] # "none"
          /\ proposal[x] = "open" =>
                \E c \in Calls : Recording(c) /\ call[c].on = x /\ call[c].by = p /\ call[c].vote = "deny"

\* Who an erasure leaves behind, as long as nobody else's standing has changed.
LeavesAnAdmin(p) == ActiveAdmins = {} \/ ActiveAdmins \ {p} # {} \/ ActiveMembers \subseteq {p}

\* Whoever has come in since a request counted is remembered by it.
CountsHold ==
    \A c \in Calls :
       /\ call[c].act = "decide" => call[c].by \in People /\ call[c].on \in Proposals
       /\ Recording(c) => ActiveAdmins \subseteq call[c].seen \cup call[c].late
       /\ call[c].at = "counted" => call[c].by \in People
       /\ call[c].at = "counted" /\ call[c].seen = {call[c].by} =>
             ActiveMembers \subseteq {call[c].by} \cup call[c].late
       /\ CallAt(c, "delete", "counted") => call[c].seen = {call[c].by}
       /\ CallAt(c, "erase", "counted") /\ call[c].late \subseteq {call[c].by} => LeavesAnAdmin(call[c].by)

ConsentInv == ConsentTypeOK /\ OneRecorder /\ RefusalsResolve /\ CountsHold

LEMMA ConsentTypesAre ==
    ConsentTypeOK <=>
       /\ kin \in [People -> KinRecord] /\ household \in {"open", "gone"}
       /\ proposal \in [Proposals -> {"none", "open", "expired", "approved", "denied",
                                      "applied", "withdrawn", "gone"}]
       /\ raisedBy \in [Proposals -> People \cup {"nobody"}]
       /\ votes \in [Proposals -> [People -> {"none", "approve", "deny"}]]
       /\ archive \in [keeping : BOOLEAN, kept : BOOLEAN] /\ call \in [Calls -> CallRecord]
BY DEF ConsentTypeOK, KinRecord, CallRecord

LEMMA NoCallIs ==
    NoCall \in CallRecord /\ NoCall.act = "none" /\ NoCall.at = "none" /\ NoCall.on = "none"
BY DEF NoCall, CallRecord

LEMMA ConsentInitially == ConsentInit => ConsentInv
<1> SUFFICES ASSUME ConsentInit PROVE ConsentInv OBVIOUS
<1>1. ConsentTypeOK
  <2>1. archive \in [keeping : BOOLEAN, kept : BOOLEAN] /\ kin \in [People -> KinRecord]
    BY DEF ConsentInit, KinRecord
  <2>2. call \in [Calls -> CallRecord]
    BY NoCallIs DEF ConsentInit
  <2>. QED
    BY <2>1, <2>2, ConsentTypesAre DEF ConsentInit
<1>2. \A c \in Calls : call[c].act = "none" /\ call[c].at = "none"
  BY NoCallIs DEF ConsentInit
<1>3. OneRecorder /\ CountsHold
  BY <1>2 DEF OneRecorder, CountsHold, Recording, CallAt
<1>4. RefusalsResolve
  BY DEF ConsentInit, RefusalsResolve
<1>. QED
  BY <1>1, <1>3, <1>4 DEF ConsentInv

-----------------------------------------------------------------------------
(* Who is in the household.                                                *)

LEMMA StandingChanges ==
    ASSUME ConsentInv, NEW p \in People, NEW to \in KinRecord, Changes(p, to),
           to.status = "active" /\ to.role = "admin" => ActiveAdmins # {}
    PROVE  ConsentInv'
<1>1. /\ ConsentTypeOK /\ kin \in [People -> KinRecord] /\ call \in [Calls -> CallRecord]
      /\ UNCHANGED <<household, proposal, votes, archive, raisedBy>>
      /\ kin' = [kin EXCEPT ![p] = to]
  BY ConsentTypesAre DEF ConsentInv, Changes
<1>2. /\ call' \in [Calls -> CallRecord]
      /\ \A c \in Calls : /\ call'[c].act = call[c].act /\ call'[c].at = call[c].at
                          /\ call'[c].by = call[c].by /\ call'[c].on = call[c].on
                          /\ call'[c].vote = call[c].vote /\ call'[c].seen = call[c].seen
                          /\ call'[c].late = IF Counting(c) THEN call[c].late \cup {p} ELSE call[c].late
  BY <1>1 DEF Changes, CallRecord
<1>3. ConsentTypeOK'
  BY <1>1, <1>2 DEF ConsentTypeOK, KinRecord, CallRecord
<1>4. OneRecorder' /\ RefusalsResolve'
  <2>1. \A c \in Calls : Recording(c)' <=> Recording(c)
    BY <1>2 DEF Recording, CallAt
  <2>2. OneRecorder'
    BY <1>2, <2>1 DEF ConsentInv, OneRecorder
  <2>3. \A x \in Proposals, q \in People :
          (\E c \in Calls : Recording(c) /\ call[c].on = x /\ call[c].by = q /\ call[c].vote = "deny") =>
             \E c \in Calls : Recording(c)' /\ call'[c].on = x /\ call'[c].by = q /\ call'[c].vote = "deny"
    BY <1>2, <2>1
  <2>. QED
    BY <1>1, <2>2, <2>3 DEF ConsentInv, RefusalsResolve
<1>5. ActiveMembers' \subseteq ActiveMembers \cup {p} /\ ActiveAdmins' \subseteq ActiveAdmins \cup {p}
  BY <1>1 DEF ActiveMembers, ActiveAdmins
<1>6. \A q \in People \ {p} : /\ q \in ActiveMembers' <=> q \in ActiveMembers
                              /\ q \in ActiveAdmins' <=> q \in ActiveAdmins
  BY <1>1 DEF ActiveMembers, ActiveAdmins
<1>7. ActiveAdmins = {} => ActiveAdmins' = {}
  <2>1. p \in ActiveAdmins' => to.status = "active" /\ to.role = "admin"
    BY <1>1 DEF ActiveMembers, ActiveAdmins
  <2>. QED
    BY <1>5, <2>1
<1>8. CountsHold'
  <2> SUFFICES ASSUME NEW c \in Calls
               PROVE  /\ call'[c].act = "decide" => call'[c].by \in People /\ call'[c].on \in Proposals
                      /\ Recording(c)' => ActiveAdmins' \subseteq call'[c].seen \cup call'[c].late
                      /\ call'[c].at = "counted" => call'[c].by \in People
                      /\ call'[c].at = "counted" /\ call'[c].seen = {call'[c].by} =>
                            ActiveMembers' \subseteq {call'[c].by} \cup call'[c].late
                      /\ CallAt(c, "delete", "counted")' => call'[c].seen = {call'[c].by}
                      /\ CallAt(c, "erase", "counted")' /\ call'[c].late \subseteq {call'[c].by} =>
                            LeavesAnAdmin(call[c].by)'
    BY <1>2 DEF CountsHold, LeavesAnAdmin
  <2>1. Recording(c)' => ActiveAdmins' \subseteq call'[c].seen \cup call'[c].late
    BY <1>2, <1>5 DEF ConsentInv, CountsHold, Recording, CallAt, Counting
  <2>2. call'[c].at = "counted" /\ call'[c].seen = {call'[c].by} =>
           ActiveMembers' \subseteq {call'[c].by} \cup call'[c].late
    BY <1>2, <1>5 DEF ConsentInv, CountsHold, Counting
  <2>3. ASSUME CallAt(c, "erase", "counted")', call'[c].late \subseteq {call'[c].by}
        PROVE  LeavesAnAdmin(p)' /\ call[c].by = p
    <3>1. call'[c].late = call[c].late \cup {p} /\ call[c].by = p /\ LeavesAnAdmin(p)
      BY <1>2, <2>3 DEF ConsentInv, CountsHold, CallAt, Counting
    <3>. QED
      BY <1>5, <1>6, <1>7, <3>1 DEF LeavesAnAdmin, ActiveMembers, ActiveAdmins
  <2>. QED
    BY <1>2, <2>1, <2>2, <2>3 DEF ConsentInv, CountsHold, CallAt, LeavesAnAdmin
<1>. QED
  BY <1>3, <1>4, <1>8 DEF ConsentInv

LEMMA MembersKeep ==
    ASSUME ConsentInv, NEW p \in People,
           \/ AcceptInvitation(p) \/ GrantAccess(p) \/ PartWith(p)
           \/ \E role \in {"admin", "adult"} : SetRole(p, role)
    PROVE  ConsentInv'
<1>1. kin[p] \in KinRecord
  BY ConsentTypesAre DEF ConsentInv
<1>2. CASE AcceptInvitation(p)
  <2> DEFINE to == [kin[p] EXCEPT !.status = "pending", !.role = "adult"]
  <2>1. to \in KinRecord /\ to.status = "pending"
    BY <1>1 DEF KinRecord
  <2>2. Changes(p, to)
    BY <1>2 DEF AcceptInvitation
  <2> HIDE DEF to
  <2>. QED
    BY <2>1, <2>2, StandingChanges
<1>3. CASE GrantAccess(p)
  <2> DEFINE to == [kin[p] EXCEPT !.status = "active"]
  <2>1. to \in KinRecord
    BY <1>1 DEF KinRecord
  <2>2. Changes(p, to) /\ ActiveAdmins # {}
    BY <1>3 DEF GrantAccess
  <2> HIDE DEF to
  <2>. QED
    BY <2>1, <2>2, StandingChanges
<1>4. CASE PartWith(p)
  <2> DEFINE to == [kin[p] EXCEPT !.status = "out"]
  <2>1. to \in KinRecord /\ to.status = "out"
    BY <1>1 DEF KinRecord
  <2>2. Changes(p, to)
    BY <1>4 DEF PartWith
  <2> HIDE DEF to
  <2>. QED
    BY <2>1, <2>2, StandingChanges
<1>5. ASSUME NEW role \in {"admin", "adult"}, SetRole(p, role)
      PROVE  ConsentInv'
  <2> DEFINE to == [kin[p] EXCEPT !.role = role]
  <2>1. to \in KinRecord
    BY <1>1 DEF KinRecord
  <2>2. Changes(p, to) /\ ActiveAdmins # {}
    BY <1>5 DEF SetRole
  <2> HIDE DEF to
  <2>. QED
    BY <2>1, <2>2, StandingChanges
<1>. QED
  BY <1>2, <1>3, <1>4, <1>5

-----------------------------------------------------------------------------
(* Proposals.                                                              *)

\* A proposal that is not open any more, or is new, and a vote for it.
LEMMA ProposalsKeep ==
    ASSUME ConsentInv, NEW x \in Proposals, UNCHANGED <<kin, household, archive, call>>,
           NEW to \in {"open", "expired", "withdrawn", "gone"}, proposal' = [proposal EXCEPT ![x] = to],
           raisedBy' \in [Proposals -> People \cup {"nobody"}],
           \/ votes' = votes
           \/ \E p \in People : votes' = [votes EXCEPT ![x][p] = "approve"],
           to = "open" => proposal[x] = "none"
    PROVE  ConsentInv'
<1>1. /\ ConsentTypeOK /\ proposal' \in [Proposals -> {"none", "open", "expired", "approved", "denied",
                                                       "applied", "withdrawn", "gone"}]
      /\ votes \in [Proposals -> [People -> {"none", "approve", "deny"}]]
      /\ proposal'[x] = to /\ \A y \in Proposals \ {x} : proposal'[y] = proposal[y]
  BY ConsentTypesAre DEF ConsentInv
<1>2. /\ votes' \in [Proposals -> [People -> {"none", "approve", "deny"}]]
      /\ \A y \in Proposals, q \in People : votes'[y][q] = "deny" => votes[y][q] = "deny"
  <2>1. CASE votes' = votes
    BY <1>1, <2>1
  <2>2. ASSUME NEW p \in People, votes' = [votes EXCEPT ![x][p] = "approve"]
        PROVE  /\ votes' \in [Proposals -> [People -> {"none", "approve", "deny"}]]
               /\ \A y \in Proposals, q \in People : votes'[y][q] = "deny" => votes[y][q] = "deny"
    BY <1>1, <2>2
  <2>. QED
    BY <2>1, <2>2
<1>3. ConsentTypeOK'
  BY <1>1, <1>2 DEF ConsentTypeOK
<1>4. OneRecorder' /\ CountsHold'
  BY DEF ConsentInv, OneRecorder, CountsHold, Recording, CallAt, LeavesAnAdmin, ActiveAdmins, ActiveMembers
<1>5. RefusalsResolve'
  <2>1. \A c \in Calls : Recording(c)' <=> Recording(c)
    BY DEF Recording, CallAt
  <2>. QED
    BY <1>1, <1>2, <2>1 DEF ConsentInv, RefusalsResolve
<1>. QED
  BY <1>3, <1>4, <1>5 DEF ConsentInv

LEMMA RaisingKeeps ==
    ASSUME ConsentInv, NEW p \in People, NEW x \in Proposals,
           CreateProposal(p, x) \/ WithdrawProposal(p, x) \/ ProposalLapses(x)
    PROVE  ConsentInv'
<1>1. raisedBy \in [Proposals -> People \cup {"nobody"}]
  BY ConsentTypesAre DEF ConsentInv
<1>2. CASE CreateProposal(p, x)
  <2>1. /\ UNCHANGED <<kin, household, archive, call>> /\ proposal' = [proposal EXCEPT ![x] = "open"]
        /\ raisedBy' = [raisedBy EXCEPT ![x] = p] /\ votes' = [votes EXCEPT ![x][p] = "approve"]
        /\ proposal[x] = "none"
    BY <1>2 DEF CreateProposal
  <2>. QED
    BY <1>1, <2>1, ProposalsKeep
<1>3. CASE WithdrawProposal(p, x)
  BY <1>1, <1>3, ProposalsKeep DEF WithdrawProposal
<1>4. CASE ProposalLapses(x)
  BY <1>1, <1>4, ProposalsKeep DEF ProposalLapses
<1>. QED
  BY <1>2, <1>3, <1>4

-----------------------------------------------------------------------------
(* Requests.                                                               *)

\* A request that gets on: what it has counted is so.
LEMMA CallsMove ==
    ASSUME ConsentInv, NEW c \in Calls, NEW new \in CallRecord, Begin(c, new), UNCHANGED kin,
           new.act = "decide" => new.by \in People /\ new.on \in Proposals,
           new.act = "decide" /\ new.at = "recorded" =>
              /\ ActiveAdmins \subseteq new.seen
              /\ \A d \in Calls \ {c} : Recording(d) => call[d].on # new.on,
           new.at = "counted" =>
              /\ new.by \in People
              /\ new.seen = {new.by} => ActiveMembers \subseteq {new.by}
              /\ new.act = "delete" => new.seen = {new.by}
              /\ new.act = "erase" => LeavesAnAdmin(new.by)
    PROVE  /\ OneRecorder' /\ CountsHold'
           /\ call' \in [Calls -> CallRecord] /\ call'[c] = new /\ \A d \in Calls \ {c} : call'[d] = call[d]
<1>1. call \in [Calls -> CallRecord] /\ call' = [call EXCEPT ![c] = new]
  BY ConsentTypesAre DEF ConsentInv, Begin
<1>2. call' \in [Calls -> CallRecord] /\ call'[c] = new /\ \A d \in Calls \ {c} : call'[d] = call[d]
  BY <1>1
<1>3. OneRecorder'
  BY <1>2 DEF ConsentInv, OneRecorder, Recording, CallAt
<1>4. ActiveMembers' = ActiveMembers /\ ActiveAdmins' = ActiveAdmins
  BY DEF ActiveMembers, ActiveAdmins
<1>5. CountsHold'
  BY <1>2, <1>4 DEF ConsentInv, CountsHold, Recording, CallAt, LeavesAnAdmin
<1>. QED
  BY <1>2, <1>3, <1>5

\* As long as it is not recorded, and was not, it has nothing to do with refusals.
LEMMA QuietCallsMove ==
    ASSUME ConsentInv, NEW c \in Calls, NEW new \in CallRecord, Begin(c, new), UNCHANGED kin,
           household' \in {"open", "gone"}, archive' \in [keeping : BOOLEAN, kept : BOOLEAN],
           UNCHANGED <<votes, raisedBy>>, ~Recording(c),
           proposal' \in [Proposals -> {"none", "open", "expired", "approved", "denied",
                                        "applied", "withdrawn", "gone"}],
           \A x \in Proposals : proposal'[x] # proposal[x] => proposal'[x] = "applied",
           new.act = "decide" => new.by \in People /\ new.on \in Proposals /\ new.at # "recorded",
           new.at = "counted" =>
              /\ new.by \in People
              /\ new.seen = {new.by} => ActiveMembers \subseteq {new.by}
              /\ new.act = "delete" => new.seen = {new.by}
              /\ new.act = "erase" => LeavesAnAdmin(new.by)
    PROVE  ConsentInv'
<1>1. /\ OneRecorder' /\ CountsHold' /\ call' \in [Calls -> CallRecord] /\ call'[c] = new
      /\ \A d \in Calls \ {c} : call'[d] = call[d]
  BY CallsMove
<1>2. ConsentTypeOK'
  BY <1>1 DEF ConsentInv, ConsentTypeOK, CallRecord
<1>3. \A d \in Calls : Recording(d) => d # c /\ Recording(d)'
  BY <1>1 DEF Recording, CallAt
<1>4. RefusalsResolve'
  BY <1>1, <1>3 DEF ConsentInv, RefusalsResolve
<1>. QED
  BY <1>1, <1>2, <1>4 DEF ConsentInv

LEMMA AskingKeeps ==
    ASSUME ConsentInv, NEW c \in Calls, NEW p \in People,
           CountOthers(c, p) \/ CountForErasure(c, p) \/ \E x \in Proposals : SendDecision(c, p, x)
    PROVE  ConsentInv'
<1>1. ~Recording(c) /\ UNCHANGED <<kin, household, proposal, votes, archive, raisedBy>> /\ ConsentTypeOK
  BY NoCallIs DEF ConsentInv, Recording, CallAt, CountOthers, CountForErasure, SendDecision
<1>2. CASE CountOthers(c, p)
  <2> DEFINE new == [NoCall EXCEPT !.act = "delete", !.at = "counted", !.by = p, !.seen = {p}]
  <2>1. new \in CallRecord /\ new.act = "delete" /\ new.at = "counted" /\ new.by = p /\ new.seen = {p}
    BY NoCallIs DEF CallRecord, ConsentActs
  <2>2. Begin(c, new) /\ ActiveMembers \subseteq {p}
    BY <1>2 DEF CountOthers, Others
  <2> HIDE DEF new
  <2>. QED
    BY <1>1, <2>1, <2>2, QuietCallsMove DEF ConsentTypeOK
<1>3. CASE CountForErasure(c, p)
  <2> DEFINE seen == IF p \in ActiveMembers /\ Others(p) = {} THEN {p} ELSE {}
             new == [NoCall EXCEPT !.act = "erase", !.at = "counted", !.by = p, !.seen = seen]
  <2>1. seen \in SUBSET People /\ (seen = {p} => ActiveMembers \subseteq {p})
    BY DEF Others
  <2>2. Begin(c, new)
    BY <1>3 DEF CountForErasure
  <2> HIDE DEF seen
  <2>3. new \in CallRecord /\ new.act = "erase" /\ new.at = "counted" /\ new.by = p /\ new.seen = seen
    BY <2>1, NoCallIs DEF CallRecord, ConsentActs
  <2>4. LeavesAnAdmin(p)
    <3>1. ~(p \in ActiveMembers /\ ActiveAdmins = {p} /\ Others(p) # {})
      BY <1>3 DEF CountForErasure
    <3>. QED
      BY <3>1 DEF LeavesAnAdmin, Others, ActiveAdmins
  <2> HIDE DEF new
  <2>. QED
    BY <1>1, <2>1, <2>2, <2>3, <2>4, QuietCallsMove DEF ConsentTypeOK
<1>4. ASSUME NEW x \in Proposals, SendDecision(c, p, x)
      PROVE  ConsentInv'
  <2>1. PICK vote \in {"approve", "deny"} :
          Begin(c, [NoCall EXCEPT !.act = "decide", !.at = "sent", !.by = p, !.on = x, !.vote = vote])
    BY <1>4 DEF SendDecision
  <2> DEFINE new == [NoCall EXCEPT !.act = "decide", !.at = "sent", !.by = p, !.on = x, !.vote = vote]
  <2>2. new \in CallRecord /\ new.act = "decide" /\ new.at = "sent" /\ new.by = p /\ new.on = x
    BY NoCallIs DEF CallRecord, ConsentActs
  <2>3. Begin(c, new)
    BY <2>1
  <2> HIDE DEF new
  <2>. QED
    BY <1>1, <2>2, <2>3, QuietCallsMove DEF ConsentTypeOK
<1>. QED
  BY <1>2, <1>3, <1>4

LEMMA DecisionsAreRecorded ==
    ASSUME ConsentInv, NEW c \in Calls, RecordDecision(c)
    PROVE  ConsentInv'
<1> DEFINE x == call[c].on
           p == call[c].by
<1>1. /\ ConsentTypeOK /\ call[c] \in CallRecord /\ call[c].act = "decide" /\ ~Recording(c)
      /\ votes \in [Proposals -> [People -> {"none", "approve", "deny"}]]
      /\ ~Locked(x) /\ UNCHANGED <<kin, household, proposal, archive, raisedBy>> /\ x \in Proposals /\ p \in People
  BY ConsentTypesAre DEF ConsentInv, RecordDecision, CountsHold, Recording, CallAt
<1>2. CASE proposal[x] # "open"
  <2>1. Begin(c, NoCall) /\ votes' = votes
    BY <1>2 DEF RecordDecision, Answer, Begin
  <2>. QED
    BY <1>1, <2>1, NoCallIs, QuietCallsMove DEF ConsentTypeOK
<1>3. CASE proposal[x] = "open"
  <2> DEFINE new == [call[c] EXCEPT !.at = "recorded", !.seen = ActiveAdmins]
  <2>1. /\ new \in CallRecord /\ new.act = "decide" /\ new.at = "recorded" /\ new.seen = ActiveAdmins
        /\ new.on = x /\ new.by = p /\ new.vote = call[c].vote
    BY <1>1 DEF CallRecord, ActiveAdmins, ActiveMembers
  <2>2. Begin(c, new) /\ votes' = [votes EXCEPT ![x][p] = call[c].vote]
    BY <1>3 DEF RecordDecision
  <2>3. \A d \in Calls : Recording(d) => call[d].on # x
    BY <1>1 DEF Locked, Recording, CallAt
  <2> HIDE DEF new
  <2>4. /\ OneRecorder' /\ CountsHold' /\ call' \in [Calls -> CallRecord] /\ call'[c] = new
        /\ \A d \in Calls \ {c} : call'[d] = call[d]
    BY <1>1, <2>1, <2>2, <2>3, CallsMove
  <2>5. /\ votes' \in [Proposals -> [People -> {"none", "approve", "deny"}]] /\ votes'[x][p] = call[c].vote
        /\ \A y \in Proposals, q \in People : (y # x \/ q # p) => votes'[y][q] = votes[y][q]
    <3>1. call[c].vote \in {"none", "approve", "deny"}
      BY <1>1 DEF CallRecord
    <3>. QED
      BY <1>1, <2>2, <3>1
  <2>6. ConsentTypeOK'
    BY <1>1, <2>4, <2>5 DEF ConsentTypeOK, CallRecord
  <2>7. Recording(c)' /\ \A d \in Calls : Recording(d) => d # c /\ Recording(d)'
    BY <1>1, <2>1, <2>4 DEF Recording, CallAt
  <2>8. RefusalsResolve'
    <3>1. \A q \in People : votes[x][q] # "deny"
      BY <1>1, <1>3, <2>3 DEF ConsentInv, RefusalsResolve
    <3>2. ASSUME NEW y \in Proposals \ {x}, NEW q \in People, votes'[y][q] = "deny"
          PROVE  /\ proposal'[y] # "none"
                 /\ proposal'[y] = "open" =>
                       \E d \in Calls : Recording(d)' /\ call'[d].on = y /\ call'[d].by = q /\ call'[d].vote = "deny"
      BY <1>1, <2>4, <2>5, <2>7, <3>2 DEF ConsentInv, RefusalsResolve
    <3>3. ASSUME NEW q \in People, votes'[x][q] = "deny"
          PROVE  /\ proposal'[x] # "none"
                 /\ \E d \in Calls : Recording(d)' /\ call'[d].on = x /\ call'[d].by = q /\ call'[d].vote = "deny"
      <4>1. q = p /\ call[c].vote = "deny"
        BY <1>1, <2>5, <3>1, <3>3
      <4>. QED
        BY <1>1, <1>3, <2>1, <2>4, <2>7, <4>1
    <3>. QED
      BY <3>2, <3>3 DEF RefusalsResolve
  <2>. QED
    BY <2>4, <2>6, <2>8 DEF ConsentInv
<1>. QED
  BY <1>2, <1>3

\* Nobody has refused a proposal whose last decision, an approval, is being resolved.
LEMMA NobodyRefused ==
    ASSUME ConsentInv, NEW c \in Calls, Recording(c), call[c].vote # "deny", proposal[call[c].on] = "open"
    PROVE  \A p \in People : votes[call[c].on][p] # "deny"
BY DEF ConsentInv, RefusalsResolve, OneRecorder, CountsHold, Recording, CallAt

LEMMA DecisionsAreResolved ==
    ASSUME ConsentInv, NEW c \in Calls, ResolveDecision(c)
    PROVE  ConsentInv'
<1> DEFINE x == call[c].on
<1>1. /\ ConsentTypeOK /\ call[c] \in CallRecord /\ Recording(c) /\ x \in Proposals
      /\ proposal \in [Proposals -> {"none", "open", "expired", "approved", "denied",
                                     "applied", "withdrawn", "gone"}]
      /\ UNCHANGED <<kin, household, votes, archive, raisedBy>>
  BY ConsentTypesAre DEF ConsentInv, ResolveDecision, CountsHold, Recording, CallAt
<1>2. PICK to \in {proposal[x], "denied", "approved"} :
        proposal' = [proposal EXCEPT ![x] = to] /\ (call[c].vote = "deny" => to = "denied")
  BY <1>1 DEF ResolveDecision
<1>3. PICK new \in CallRecord : Begin(c, new) /\ new.act # "decide" /\ new.at # "counted"
  <2> DEFINE agreed == [call[c] EXCEPT !.act = "apply", !.at = "agreed", !.seen = {}, !.late = {}]
  <2>1. agreed \in CallRecord /\ agreed.act = "apply" /\ agreed.at = "agreed"
    BY <1>1 DEF CallRecord, ConsentActs
  <2>2. Begin(c, agreed) \/ Begin(c, NoCall)
    BY DEF ResolveDecision, Answer, Begin
  <2> HIDE DEF agreed
  <2>. QED
    BY <2>1, <2>2, NoCallIs
<1>4. /\ OneRecorder' /\ CountsHold' /\ call' \in [Calls -> CallRecord] /\ call'[c] = new
      /\ \A d \in Calls \ {c} : call'[d] = call[d]
  BY <1>1, <1>3, CallsMove
<1>5. ConsentTypeOK'
  <2>1. proposal' \in [Proposals -> {"none", "open", "expired", "approved", "denied",
                                       "applied", "withdrawn", "gone"}]
    BY <1>1, <1>2
  <2>. QED
    BY <1>1, <1>4, <2>1 DEF ConsentTypeOK, CallRecord
<1>6. \A d \in Calls \ {c} : Recording(d) => Recording(d)'
  BY <1>4 DEF Recording, CallAt
<1>7. RefusalsResolve'
  <2>1. ASSUME NEW y \in Proposals \ {x}, NEW p \in People, votes[y][p] = "deny"
        PROVE  /\ proposal'[y] # "none"
               /\ proposal'[y] = "open" =>
                     \E d \in Calls : Recording(d)' /\ call'[d].on = y /\ call'[d].by = p /\ call'[d].vote = "deny"
    <3>1. proposal'[y] = proposal[y] /\ proposal[y] # "none"
      BY <1>1, <1>2, <2>1 DEF ConsentInv, RefusalsResolve
    <3>2. ASSUME proposal[y] = "open"
          PROVE  \E d \in Calls : d # c /\ Recording(d) /\ call[d].on = y /\ call[d].by = p /\ call[d].vote = "deny"
      BY <2>1, <3>2 DEF ConsentInv, RefusalsResolve
    <3>. QED
      BY <1>4, <1>6, <3>1, <3>2
  <2>2. ASSUME NEW p \in People, votes[x][p] = "deny"
        PROVE  proposal'[x] \notin {"none", "open"}
    <3>1. proposal[x] # "none" /\ (proposal[x] = "open" => call[c].vote = "deny")
      BY <1>1, <2>2, NobodyRefused DEF ConsentInv, RefusalsResolve
    <3>. QED
      BY <1>1, <1>2, <3>1
  <2>. QED
    BY <1>1, <2>1, <2>2 DEF RefusalsResolve
<1>. QED
  BY <1>4, <1>5, <1>7 DEF ConsentInv

LEMMA AgreementsKeep ==
    ASSUME ConsentInv, NEW c \in Calls, WipeArchive(c) \/ MarkApplied(c)
    PROVE  ConsentInv'
<1>1. /\ ConsentTypeOK /\ call[c] \in CallRecord /\ ~Recording(c) /\ call[c].act = "apply"
      /\ UNCHANGED <<kin, household, votes, raisedBy>>
      /\ proposal \in [Proposals -> {"none", "open", "expired", "approved", "denied",
                                     "applied", "withdrawn", "gone"}]
  BY ConsentTypesAre DEF ConsentInv, WipeArchive, MarkApplied, Recording, CallAt
<1>2. CASE WipeArchive(c)
  <2> DEFINE new == [call[c] EXCEPT !.at = "wiped"]
  <2>1. new \in CallRecord /\ new.act = "apply" /\ new.at = "wiped"
    BY <1>1 DEF CallRecord
  <2>2. Begin(c, new) /\ archive' = [keeping |-> FALSE, kept |-> FALSE] /\ proposal' = proposal
    BY <1>2 DEF WipeArchive
  <2> HIDE DEF new
  <2>. QED
    BY <1>1, <2>1, <2>2, QuietCallsMove DEF ConsentTypeOK
<1>3. CASE MarkApplied(c)
  <2>1. Begin(c, NoCall) /\ archive' = archive
    BY <1>3 DEF MarkApplied, Answer, Begin
  <2>2. proposal' = proposal \/ proposal' = [proposal EXCEPT ![call[c].on] = "applied"]
    BY <1>3 DEF MarkApplied
  <2>3. /\ proposal' \in [Proposals -> {"none", "open", "expired", "approved", "denied",
                                       "applied", "withdrawn", "gone"}]
        /\ \A x \in Proposals : proposal'[x] # proposal[x] => proposal'[x] = "applied"
    BY <1>1, <2>2
  <2>. QED
    BY <1>1, <2>1, <2>3, NoCallIs, QuietCallsMove DEF ConsentTypeOK
<1>. QED
  BY <1>2, <1>3

-----------------------------------------------------------------------------
(* Leaving for good.                                                       *)

LEMMA DissolvedIs ==
    ASSUME ConsentTypeOK
    PROVE  Dissolve \in [People -> KinRecord] /\ \A p \in People : Dissolve[p].status = "out"
<1>1. kin \in [People -> KinRecord]
  BY ConsentTypesAre
<1>2. \A p \in People : [kin[p] EXCEPT !.status = "out"] \in KinRecord /\ [kin[p] EXCEPT !.status = "out"].status = "out"
  BY <1>1 DEF KinRecord
<1>. QED
  BY <1>2 DEF Dissolve

\* In a household that nobody is in, whatever has been counted holds.
LEMMA NobodyLeft ==
    ASSUME ConsentInv, kin' \in [People -> KinRecord], \A p \in People : kin'[p].status = "out",
           household' \in {"open", "gone"}, UNCHANGED <<proposal, votes, archive, raisedBy>>,
           NEW c \in Calls, ~Recording(c), Answer(c) \/ call' = call
    PROVE  ConsentInv'
<1>1. ActiveMembers' = {} /\ ActiveAdmins' = {}
  BY DEF ActiveMembers, ActiveAdmins
<1>2. ConsentTypeOK /\ call \in [Calls -> CallRecord]
  BY ConsentTypesAre DEF ConsentInv
<1>3. /\ call' \in [Calls -> CallRecord] /\ (call'[c] = NoCall \/ call'[c] = call[c])
      /\ \A d \in Calls \ {c} : call'[d] = call[d]
  BY <1>2, NoCallIs DEF Answer
<1>4. ConsentTypeOK'
  BY <1>2, <1>3 DEF ConsentTypeOK, CallRecord, KinRecord
<1>5. \A d \in Calls : Recording(d)' <=> Recording(d) /\ d # c
  BY <1>3, NoCallIs DEF Recording, CallAt
<1>6. OneRecorder'
  BY <1>3, <1>5 DEF ConsentInv, OneRecorder
<1>7. CountsHold'
  BY <1>1, <1>3, <1>5, NoCallIs DEF ConsentInv, CountsHold, CallAt, LeavesAnAdmin
<1>8. RefusalsResolve'
  BY <1>3, <1>5 DEF ConsentInv, RefusalsResolve
<1>. QED
  BY <1>4, <1>6, <1>7, <1>8 DEF ConsentInv

LEMMA DeletingKeeps ==
    ASSUME ConsentInv, NEW c \in Calls, DeleteHousehold(c) \/ SweepOrphan
    PROVE  ConsentInv'
<1>1. CASE DeleteHousehold(c)
  BY <1>1, DissolvedIs, NobodyLeft DEF ConsentInv, DeleteHousehold, Recording, CallAt
<1>2. CASE SweepOrphan
  <2>1. kin' = Dissolve /\ household' = "gone" /\ UNCHANGED <<proposal, votes, archive, call, raisedBy>>
    BY <1>2 DEF SweepOrphan
  <2>2. ActiveMembers' = {} /\ ActiveAdmins' = {}
    BY <2>1, DissolvedIs DEF ConsentInv, ActiveMembers, ActiveAdmins
  <2>3. ConsentTypeOK'
    BY <2>1, DissolvedIs DEF ConsentInv, ConsentTypeOK, KinRecord
  <2>4. \A d \in Calls : Recording(d)' <=> Recording(d)
    BY <2>1 DEF Recording, CallAt
  <2>5. OneRecorder' /\ RefusalsResolve'
    BY <2>1, <2>4 DEF ConsentInv, OneRecorder, RefusalsResolve
  <2>6. CountsHold'
    BY <2>1, <2>2, <2>4 DEF ConsentInv, CountsHold, CallAt, LeavesAnAdmin
  <2>. QED
    BY <2>3, <2>5, <2>6 DEF ConsentInv
<1>. QED
  BY <1>1, <1>2

LEMMA ErasureIs ==
    ASSUME ConsentInv, NEW c \in Calls, EraseAccount(c)
    PROVE  /\ call[c].by \in People /\ kin' \in [People -> KinRecord] /\ household' \in {"open", "gone"}
           /\ kin'[call[c].by].status = "out" /\ ~kin'[call[c].by].account
           /\ \/ household' = "gone" /\ call[c].seen = {call[c].by} /\ \A q \in People : kin'[q].status = "out"
              \/ household' = household /\ \A q \in People \ {call[c].by} : kin'[q] = kin[q]
<1> DEFINE p == call[c].by
           gone == [account |-> FALSE, status |-> "out", role |-> "adult"]
<1>1. p \in People /\ kin \in [People -> KinRecord] /\ household \in {"open", "gone"} /\ ConsentTypeOK
  BY ConsentTypesAre DEF ConsentInv, CountsHold, EraseAccount, CallAt
<1>2. gone \in KinRecord /\ gone.status = "out" /\ ~gone.account
  BY DEF KinRecord
<1>3. \/ household' = "gone" /\ call[c].seen = {p} /\ kin' = [Dissolve EXCEPT ![p] = gone]
      \/ household' = household /\ kin' = [kin EXCEPT ![p] = gone]
  BY DEF EraseAccount
<1> HIDE DEF gone
<1>4. CASE household' = "gone" /\ call[c].seen = {p} /\ kin' = [Dissolve EXCEPT ![p] = gone]
  BY <1>1, <1>2, <1>4, DissolvedIs
<1>5. CASE household' = household /\ kin' = [kin EXCEPT ![p] = gone]
  BY <1>1, <1>2, <1>5
<1>. QED
  BY <1>3, <1>4, <1>5

LEMMA ErasingKeeps ==
    ASSUME ConsentInv, NEW c \in Calls, EraseAccount(c)
    PROVE  ConsentInv'
<1> DEFINE p == call[c].by
<1>1. /\ ConsentTypeOK /\ call \in [Calls -> CallRecord] /\ p \in People /\ ~Recording(c)
      /\ votes \in [Proposals -> [People -> {"none", "approve", "deny"}]]
      /\ proposal \in [Proposals -> {"none", "open", "expired", "approved", "denied",
                                     "applied", "withdrawn", "gone"}]
      /\ UNCHANGED <<archive, raisedBy>>
  BY ErasureIs, ConsentTypesAre DEF ConsentInv, EraseAccount, Recording, CallAt
<1>2. /\ votes' \in [Proposals -> [People -> {"none", "approve", "deny"}]]
      /\ \A x \in Proposals, q \in People : votes'[x][q] = "deny" => votes[x][q] = "deny"
  BY <1>1 DEF EraseAccount
<1>3. /\ proposal' \in [Proposals -> {"none", "open", "expired", "approved", "denied",
                                      "applied", "withdrawn", "gone"}]
      /\ \A x \in Proposals : proposal'[x] # proposal[x] => proposal'[x] = "gone"
  BY <1>1 DEF EraseAccount
<1>4. /\ call' \in [Calls -> CallRecord] /\ call'[c] = NoCall
      /\ \A d \in Calls \ {c} : /\ call'[d].act = call[d].act /\ call'[d].at = call[d].at
                                /\ call'[d].by = call[d].by /\ call'[d].on = call[d].on
                                /\ call'[d].vote = call[d].vote /\ call'[d].seen = call[d].seen
                                /\ call'[d].late = IF Counting(d) THEN call[d].late \cup {p} ELSE call[d].late
  <2> DEFINE met(d) == [call[d] EXCEPT !.late = call[d].late \cup {p}]
  <2>1. \A d \in Calls : /\ met(d) \in CallRecord /\ met(d).act = call[d].act /\ met(d).at = call[d].at
                         /\ met(d).by = call[d].by /\ met(d).on = call[d].on /\ met(d).vote = call[d].vote
                         /\ met(d).seen = call[d].seen /\ met(d).late = call[d].late \cup {p}
    <3>1. \A old \in CallRecord, q \in People :
            LET to == [old EXCEPT !.late = old.late \cup {q}] IN
            /\ to \in CallRecord /\ to.act = old.act /\ to.at = old.at /\ to.by = old.by /\ to.on = old.on
            /\ to.vote = old.vote /\ to.seen = old.seen /\ to.late = old.late \cup {q}
      BY DEF CallRecord
    <3>. QED
      BY <1>1, <3>1
  <2>2. call' = [d \in Calls |-> IF d = c THEN NoCall ELSE IF Counting(d) THEN met(d) ELSE call[d]]
    BY DEF EraseAccount
  <2> HIDE DEF met
  <2>. QED
    BY <1>1, <2>1, <2>2, NoCallIs
<1>5. ConsentTypeOK'
  BY <1>1, <1>2, <1>3, <1>4, ErasureIs DEF ConsentTypeOK, CallRecord, KinRecord
<1>6. \A d \in Calls : Recording(d)' <=> Recording(d) /\ d # c
  BY <1>1, <1>4, NoCallIs DEF Recording, CallAt
<1>7. OneRecorder'
  BY <1>4, <1>6 DEF ConsentInv, OneRecorder
<1>8. RefusalsResolve'
  <2>1. ASSUME NEW x \in Proposals, NEW q \in People, votes'[x][q] = "deny"
        PROVE  /\ proposal'[x] # "none"
               /\ proposal'[x] = "open" =>
                     \E d \in Calls : Recording(d)' /\ call'[d].on = x /\ call'[d].by = q /\ call'[d].vote = "deny"
    <3>1. /\ proposal[x] # "none"
          /\ proposal[x] = "open" =>
                \E d \in Calls : Recording(d) /\ call[d].on = x /\ call[d].by = q /\ call[d].vote = "deny"
      BY <1>2, <2>1 DEF ConsentInv, RefusalsResolve
    <3>2. proposal'[x] = proposal[x] \/ proposal'[x] = "gone"
      BY <1>3
    <3>3. \A d \in Calls : Recording(d) => /\ Recording(d)' /\ call'[d].on = call[d].on
                                           /\ call'[d].by = call[d].by /\ call'[d].vote = call[d].vote
      BY <1>1, <1>4, <1>6
    <3>. QED
      BY <3>1, <3>2, <3>3
  <2>. QED
    BY <2>1 DEF RefusalsResolve
<1>9. /\ ActiveMembers' \subseteq ActiveMembers \ {p} /\ ActiveAdmins' \subseteq ActiveAdmins \ {p}
      /\ \/ ActiveMembers' = {} /\ ActiveAdmins' = {}
         \/ ActiveMembers' = ActiveMembers \ {p} /\ ActiveAdmins' = ActiveAdmins \ {p}
  BY <1>1, ErasureIs DEF ActiveMembers, ActiveAdmins
<1>10. CountsHold'
  <2>1. ASSUME NEW d \in Calls \ {c}
        PROVE  /\ Recording(d)' => ActiveAdmins' \subseteq call'[d].seen \cup call'[d].late
               /\ call'[d].at = "counted" /\ call'[d].seen = {call'[d].by} =>
                     ActiveMembers' \subseteq {call'[d].by} \cup call'[d].late
    <3>1. call[d].late \subseteq call'[d].late /\ call'[d].seen = call[d].seen /\ call'[d].by = call[d].by
          /\ call'[d].at = call[d].at
      BY <1>4
    <3>. QED
      BY <1>6, <1>9, <3>1 DEF ConsentInv, CountsHold
  <2>2. ASSUME NEW d \in Calls \ {c}, CallAt(d, "erase", "counted")', call'[d].late \subseteq {call'[d].by}
        PROVE  \/ ActiveAdmins' = {} \/ ActiveAdmins' \ {call'[d].by} # {}
               \/ ActiveMembers' \subseteq {call'[d].by}
    <3>1. CallAt(d, "erase", "counted") /\ Counting(d)
      BY <1>4, <2>2 DEF CallAt, Counting
    <3>2. call'[d].by = call[d].by /\ call'[d].late = call[d].late \cup {p}
      BY <1>4, <3>1
    <3>3. call[d].by = p /\ LeavesAnAdmin(call[d].by)
      BY <2>2, <3>1, <3>2 DEF ConsentInv, CountsHold
    <3>. QED
      BY <1>9, <3>2, <3>3 DEF LeavesAnAdmin
  <2>3. \A d \in Calls \ {c} :
          /\ call'[d].act = "decide" => call'[d].by \in People /\ call'[d].on \in Proposals
          /\ call'[d].at = "counted" => call'[d].by \in People
          /\ CallAt(d, "delete", "counted")' => call'[d].seen = {call'[d].by}
    BY <1>4 DEF ConsentInv, CountsHold, CallAt
  <2>4. call'[c].act = "none" /\ call'[c].at = "none" /\ ~Recording(c)'
    BY <1>4, <1>6, NoCallIs
  <2>. QED
    BY <2>1, <2>2, <2>3, <2>4 DEF CountsHold, CallAt, LeavesAnAdmin
<1>. QED
  BY <1>5, <1>7, <1>8, <1>10 DEF ConsentInv

LEMMA AbandoningKeeps ==
    ASSUME ConsentInv, NEW c \in Calls, Abandon(c)
    PROVE  ConsentInv'
<1>1. /\ ConsentTypeOK /\ call \in [Calls -> CallRecord] /\ Begin(c, NoCall)
      /\ votes \in [Proposals -> [People -> {"none", "approve", "deny"}]]
      /\ UNCHANGED <<kin, household, proposal, archive, raisedBy>>
  BY ConsentTypesAre DEF ConsentInv, Abandon, Answer, Begin
<1>2. /\ OneRecorder' /\ CountsHold' /\ call' \in [Calls -> CallRecord] /\ call'[c] = NoCall
      /\ \A d \in Calls \ {c} : call'[d] = call[d]
  BY <1>1, NoCallIs, CallsMove
<1>3. /\ votes' \in [Proposals -> [People -> {"none", "approve", "deny"}]]
      /\ \A x \in Proposals, q \in People : votes'[x][q] = "deny" =>
            votes[x][q] = "deny" /\ ~(Recording(c) /\ call[c].on = x /\ call[c].by = q)
  <2>1. CASE ~Recording(c)
    BY <1>1, <2>1 DEF Abandon, Recording
  <2>2. CASE Recording(c)
    <3>1. votes' = [votes EXCEPT ![call[c].on][call[c].by] = "none"] /\ call[c].on \in Proposals /\ call[c].by \in People
      BY <2>2 DEF ConsentInv, CountsHold, Abandon, Recording, CallAt
    <3>. QED
      BY <1>1, <3>1
  <2>. QED
    BY <2>1, <2>2
<1>4. ConsentTypeOK'
  BY <1>1, <1>2, <1>3 DEF ConsentTypeOK, CallRecord
<1>5. \A d \in Calls \ {c} : Recording(d)' <=> Recording(d)
  BY <1>2 DEF Recording, CallAt
<1>6. RefusalsResolve'
  BY <1>1, <1>2, <1>3, <1>5 DEF ConsentInv, RefusalsResolve
<1>. QED
  BY <1>2, <1>4, <1>6 DEF ConsentInv

LEMMA ConsentStep == ConsentInv /\ [ConsentNext]_consentVars => ConsentInv'
<1> SUFFICES ASSUME ConsentInv, [ConsentNext]_consentVars PROVE ConsentInv' OBVIOUS
<1>1. CASE UNCHANGED consentVars
  BY SMTT(30), <1>1 DEF consentVars, ConsentInv, ConsentTypeOK, OneRecorder, RefusalsResolve, CountsHold, Recording, CallAt,
              LeavesAnAdmin, ActiveAdmins, ActiveMembers
<1>2. ASSUME NEW p \in People,
             \/ AcceptInvitation(p) \/ GrantAccess(p) \/ PartWith(p)
             \/ \E role \in {"admin", "adult"} : SetRole(p, role)
      PROVE  ConsentInv'
  BY <1>2, MembersKeep
<1>3. ASSUME NEW p \in People, EnableArchive(p) PROVE ConsentInv'
  <2>1. /\ UNCHANGED <<kin, household, proposal, votes, call, raisedBy>>
        /\ archive' \in [keeping : BOOLEAN, kept : BOOLEAN]
    BY <1>3 DEF EnableArchive
  <2>2. ConsentTypeOK'
    BY <2>1 DEF ConsentInv, ConsentTypeOK
  <2>. QED
    BY <2>1, <2>2 DEF ConsentInv, OneRecorder, RefusalsResolve, CountsHold, Recording, CallAt,
                      LeavesAnAdmin, ActiveAdmins, ActiveMembers
<1>4. ASSUME NEW p \in People, NEW x \in Proposals, CreateProposal(p, x) \/ WithdrawProposal(p, x)
      PROVE  ConsentInv'
  BY <1>4, RaisingKeeps
<1>5. ASSUME NEW x \in Proposals, ProposalLapses(x) PROVE ConsentInv'
  <2>1. PICK p \in People : TRUE
    BY ConsentAssumption
  <2>. QED
    BY <1>5, <2>1, RaisingKeeps
<1>6. ASSUME NEW p \in People, NEW c \in Calls,
             CountOthers(c, p) \/ CountForErasure(c, p) \/ \E x \in Proposals : SendDecision(c, p, x)
      PROVE  ConsentInv'
  BY <1>6, AskingKeeps
<1>7. ASSUME NEW c \in Calls,
             \/ RecordDecision(c) \/ ResolveDecision(c) \/ WipeArchive(c) \/ MarkApplied(c)
             \/ DeleteHousehold(c) \/ EraseAccount(c) \/ Abandon(c)
      PROVE  ConsentInv'
  BY <1>7, DecisionsAreRecorded, DecisionsAreResolved, AgreementsKeep, DeletingKeeps, ErasingKeeps, AbandoningKeeps
<1>8. CASE SweepOrphan
  <2>1. /\ kin' = Dissolve /\ household' = "gone" /\ UNCHANGED <<proposal, votes, archive, call, raisedBy>>
    BY <1>8 DEF SweepOrphan
  <2>2. CASE Calls = {}
    BY <2>1, <2>2, DissolvedIs DEF ConsentInv, ConsentTypeOK, OneRecorder, RefusalsResolve, CountsHold, KinRecord
  <2>3. CASE Calls # {}
    BY <1>8, <2>3, DeletingKeeps
  <2>. QED
    BY <2>2, <2>3
<1>. QED
  BY <1>1, <1>2, <1>3, <1>4, <1>5, <1>6, <1>7, <1>8 DEF ConsentNext

LEMMA ConsentAlways == ConsentSpec => []ConsentInv
BY ConsentInitially, ConsentStep, PTL DEF ConsentSpec

-----------------------------------------------------------------------------

\* An approval that satisfies the tally is everybody's the request counted.
LEMMA SatisfiedIsAll ==
    ASSUME ConsentTypeOK, NEW x \in Proposals, NEW admins, admins \subseteq People, Satisfied(x, admins)
    PROVE  \A p \in admins : votes[x][p] = "approve"
<1>1. IsFiniteSet(admins)
  BY ConsentAssumption, FS_Subset
<1>2. Approvals(x, admins) \subseteq admins
  BY DEF Approvals
<1>3. /\ IsFiniteSet(Approvals(x, admins)) /\ Cardinality(Approvals(x, admins)) <= Cardinality(admins)
      /\ Cardinality(admins) = Cardinality(Approvals(x, admins)) => Approvals(x, admins) = admins
  BY <1>1, <1>2, FS_Subset
<1>4. Cardinality(Approvals(x, admins)) \in Nat /\ Cardinality(admins) \in Nat
  BY <1>1, <1>3, FS_CardinalityType
<1>5. Approvals(x, admins) = admins
  BY <1>3, <1>4 DEF Satisfied
<1>. QED
  BY <1>5 DEF Approvals

LEMMA ApprovalsAreEverybodys ==
    ASSUME ConsentInv, [ConsentNext]_consentVars, NEW x \in Proposals,
           proposal[x] = "open", proposal'[x] = "approved"
    PROVE  Agreed(x)
<1>1. PICK c \in Calls : ResolveDecision(c)
  <2>1. proposal \in [Proposals -> {"none", "open", "expired", "approved", "denied",
                                    "applied", "withdrawn", "gone"}]
    BY ConsentTypesAre DEF ConsentInv
  <2>2. ASSUME NEW p \in People,
               \/ AcceptInvitation(p) \/ GrantAccess(p) \/ PartWith(p) \/ EnableArchive(p)
               \/ \E role \in {"admin", "adult"} : SetRole(p, role)
               \/ \E c \in Calls : \/ CountOthers(c, p) \/ CountForErasure(c, p)
                                   \/ \E y \in Proposals : SendDecision(c, p, y)
        PROVE  FALSE
    BY <2>2 DEF AcceptInvitation, GrantAccess, PartWith, EnableArchive, SetRole, Changes, CountOthers,
                CountForErasure, SendDecision
  <2>3. ASSUME NEW p \in People, NEW y \in Proposals, CreateProposal(p, y) \/ WithdrawProposal(p, y)
        PROVE  FALSE
    BY <2>1, <2>3 DEF CreateProposal, WithdrawProposal
  <2>4. ASSUME NEW y \in Proposals, ProposalLapses(y) PROVE FALSE
    BY <2>1, <2>4 DEF ProposalLapses
  <2>5. ASSUME NEW c \in Calls,
               \/ RecordDecision(c) \/ WipeArchive(c) \/ DeleteHousehold(c) \/ Abandon(c) \/ SweepOrphan
               \/ UNCHANGED consentVars
        PROVE  FALSE
    BY <2>5 DEF RecordDecision, WipeArchive, DeleteHousehold, Abandon, SweepOrphan, consentVars
  <2>6. ASSUME NEW c \in Calls, MarkApplied(c) \/ EraseAccount(c) PROVE FALSE
    BY <2>1, <2>6 DEF MarkApplied, EraseAccount
  <2>7. ASSUME SweepOrphan \/ UNCHANGED consentVars PROVE FALSE
    BY <2>7 DEF SweepOrphan, consentVars
  <2>. QED
    BY <2>2, <2>3, <2>4, <2>5, <2>6, <2>7 DEF ConsentNext
<1>2. /\ ConsentTypeOK /\ Recording(c) /\ call[c].on = x /\ call[c].vote # "deny"
      /\ Satisfied(x, call[c].seen) /\ call[c].seen \subseteq People
      /\ ActiveAdmins \subseteq call[c].seen \cup call[c].late
  BY <1>1 DEF ResolveDecision, ConsentInv, CountsHold, Recording, CallAt, ConsentTypeOK
<1>3. \A p \in People : votes[x][p] # "deny"
  BY <1>2, NobodyRefused
<1>4. \A p \in call[c].seen : votes[x][p] = "approve"
  BY <1>2, SatisfiedIsAll
<1>. QED
  BY <1>2, <1>3, <1>4 DEF Agreed

\* Nothing is wiped without the consent of everybody who was an admin when it was
\* counted, and against nobody's (routes/proposals.js:8-10).
THEOREM EveryAdminAgreed == ConsentSpec => WipeNeedsEveryAdmin
<1>1. ConsentInv /\ [ConsentNext]_consentVars =>
        [\A x \in Proposals :
           proposal[x] = "open" /\ proposal'[x] = "approved" => Agreed(x)]_consentVars
  BY ApprovalsAreEverybodys
<1>. QED
  BY <1>1, ConsentAlways, PTL DEF ConsentSpec, WipeNeedsEveryAdmin

LEMMA GoingSpares ==
    ASSUME ConsentInv, [ConsentNext]_consentVars
    PROVE  /\ household' # household => \E p \in People : ActiveMembers \subseteq {p} \cup Newcomers
           /\ \A p \in People :
                kin[p].account /\ ~kin'[p].account /\ ActiveAdmins # {} =>
                  \/ ActiveMembers' = {} \/ ActiveAdmins' # {}
                  \/ Newcomers \ {p} # {}
<1>1. ConsentTypeOK /\ kin \in [People -> KinRecord] /\ call \in [Calls -> CallRecord]
  BY ConsentTypesAre DEF ConsentInv
<1>2. \A c \in Calls : call[c].late \subseteq Newcomers
  BY DEF Newcomers
<1>3. ASSUME NEW c \in Calls, EraseAccount(c)
      PROVE  /\ household' # household => \E p \in People : ActiveMembers \subseteq {p} \cup Newcomers
             /\ \A p \in People :
                  kin[p].account /\ ~kin'[p].account /\ ActiveAdmins # {} =>
                    \/ ActiveMembers' = {} \/ ActiveAdmins' # {} \/ Newcomers \ {p} # {}
  <2> DEFINE p == call[c].by
  <2>1. CallAt(c, "erase", "counted") /\ p \in People
    BY <1>3, ErasureIs DEF EraseAccount
  <2>2. CASE household' # household
    <3>1. call[c].seen = {p} /\ \A q \in People : kin'[q].status = "out"
      BY <1>3, <2>2, ErasureIs
    <3>2. ActiveMembers \subseteq {p} \cup call[c].late
      BY <2>1, <3>1 DEF ConsentInv, CountsHold, CallAt
    <3>3. ActiveMembers' = {}
      BY <3>1 DEF ActiveMembers
    <3>. QED
      BY <1>2, <2>1, <3>2, <3>3
  <2>3. CASE \A q \in People : kin'[q].status = "out"
    BY <2>2, <2>3 DEF ActiveMembers
  <2>4. CASE household' = household /\ \A q \in People \ {p} : kin'[q] = kin[q]
    <3>1. ActiveMembers \ {p} = ActiveMembers' /\ ActiveAdmins \ {p} = ActiveAdmins'
      BY <1>3, ErasureIs, <2>4 DEF ActiveMembers, ActiveAdmins
    <3>2. \A q \in People : kin[q].account /\ ~kin'[q].account => q = p
      BY <2>4
    <3>3. ~(call[c].late \subseteq {p}) \/ LeavesAnAdmin(p)
      BY <2>1 DEF ConsentInv, CountsHold
    <3>. QED
      BY <1>2, <2>4, <3>1, <3>2, <3>3 DEF LeavesAnAdmin
  <2>. QED
    BY <1>3, ErasureIs, <2>2, <2>3, <2>4
<1>4. ASSUME NEW c \in Calls, DeleteHousehold(c)
      PROVE  /\ \E p \in People : ActiveMembers \subseteq {p} \cup Newcomers
             /\ \A p \in People : kin'[p].account <=> kin[p].account
  <2>1. ActiveMembers \subseteq {call[c].by} \cup call[c].late /\ call[c].by \in People
    BY <1>4 DEF DeleteHousehold, ConsentInv, CountsHold, CallAt
  <2>2. \A p \in People : kin'[p].account <=> kin[p].account
    BY <1>1, <1>4 DEF DeleteHousehold, Dissolve, KinRecord
  <2>. QED
    BY <1>2, <2>1, <2>2
<1>5. ASSUME SweepOrphan
      PROVE  /\ \E p \in People : ActiveMembers \subseteq {p} \cup Newcomers
             /\ \A p \in People : kin'[p].account <=> kin[p].account
  BY <1>1, <1>5, ConsentAssumption DEF SweepOrphan, Dissolve, KinRecord
<1>6. ASSUME NEW p \in People, NEW to \in KinRecord, Changes(p, to), to.account = kin[p].account
      PROVE  household' = household /\ \A q \in People : kin'[q].account <=> kin[q].account
  BY <1>1, <1>6 DEF Changes, KinRecord
<1>7. ASSUME NEW p \in People,
             \/ AcceptInvitation(p) \/ GrantAccess(p) \/ PartWith(p)
             \/ \E role \in {"admin", "adult"} : SetRole(p, role)
      PROVE  household' = household /\ \A q \in People : kin'[q].account <=> kin[q].account
  <2>1. PICK to : Changes(p, to) /\ to \in KinRecord /\ to.account = kin[p].account
    <3>1. kin[p] \in KinRecord
      BY <1>1
    <3>2. \A status \in {"out", "active"} :
             [kin[p] EXCEPT !.status = status] \in KinRecord /\ [kin[p] EXCEPT !.status = status].account = kin[p].account
      BY <3>1 DEF KinRecord
    <3>3. \A role \in {"admin", "adult"} :
             [kin[p] EXCEPT !.role = role] \in KinRecord /\ [kin[p] EXCEPT !.role = role].account = kin[p].account
      BY <3>1 DEF KinRecord
    <3>4. [kin[p] EXCEPT !.status = "pending", !.role = "adult"] \in KinRecord
          /\ [kin[p] EXCEPT !.status = "pending", !.role = "adult"].account = kin[p].account
      BY <3>1 DEF KinRecord
    <3>. QED
      BY <1>7, <3>2, <3>3, <3>4, Zenon DEF AcceptInvitation, GrantAccess, PartWith, SetRole
  <2>. QED
    BY <1>6, <2>1
<1>8. ASSUME UNCHANGED <<kin, household>>
      PROVE  household' = household /\ \A q \in People : kin'[q].account <=> kin[q].account
  BY <1>8
<1>9. ASSUME NEW p \in People,
             \/ EnableArchive(p)
             \/ \E x \in Proposals : CreateProposal(p, x) \/ WithdrawProposal(p, x) \/ ProposalLapses(x)
             \/ \E c \in Calls : CountOthers(c, p) \/ CountForErasure(c, p) \/ \E x \in Proposals : SendDecision(c, p, x)
      PROVE  UNCHANGED <<kin, household>>
  BY <1>9 DEF EnableArchive, CreateProposal, WithdrawProposal, ProposalLapses, CountOthers, CountForErasure, SendDecision
<1>10. ASSUME NEW c \in Calls,
              \/ RecordDecision(c) \/ ResolveDecision(c) \/ WipeArchive(c) \/ MarkApplied(c) \/ Abandon(c)
       PROVE  UNCHANGED <<kin, household>>
  BY <1>10 DEF RecordDecision, ResolveDecision, WipeArchive, MarkApplied, Abandon
<1>11. ASSUME NEW x \in Proposals, ProposalLapses(x) PROVE UNCHANGED <<kin, household>>
  BY <1>11 DEF ProposalLapses
<1>12. ASSUME UNCHANGED consentVars PROVE UNCHANGED <<kin, household>>
  BY <1>12 DEF consentVars
<1>. QED
  BY <1>3, <1>4, <1>5, <1>7, <1>8, <1>9, <1>10, <1>11, <1>12 DEF ConsentNext

\* A household ends with nobody's data in it but that of the one who ends it and of
\* those who came in after the count, and whoever erases an account leaves an admin
\* (routes/households.js:198-203, routes/privacy.js:235-268).
THEOREM OthersAreSpared == ConsentSpec => GoingSparesTheOthers
<1>1. ConsentInv /\ [ConsentNext]_consentVars =>
        [/\ household' # household =>
              \E p \in People : ActiveMembers \subseteq {p} \cup Newcomers
         /\ \A p \in People :
              kin[p].account /\ ~kin'[p].account /\ ActiveAdmins # {} =>
                \/ ActiveMembers' = {} \/ ActiveAdmins' # {}
                \/ Newcomers \ {p} # {}]_consentVars
  BY GoingSpares
<1>. QED
  BY <1>1, ConsentAlways, PTL DEF ConsentSpec, GoingSparesTheOthers

------------------------------------------------------------------------------
(***************************************************************************)
(* Nothing goes out unreviewed, for any number of super-admins' requests   *)
(* at a time, wherever the server stops (Upgrades).                        *)
(*                                                                         *)
(* The argument is that a job only moves on: what is under review has      *)
(* passed the gate and the tests (Passed), and what was refused is never   *)
(* offered for review again, so that whoever still works on it began       *)
(* before (Doubts).                                                        *)
(***************************************************************************)
InReview == \E r \in Reviews : review[r] # "none"

\* A worker works, and a review reviews what has been worked on and passed.
Passed ==
    /\ worker => upgrade.status \in Phases
    /\ upgrade.status = "testing" => upgrade.guarded
    /\ upgrade.status = "awaiting_review" \/ InReview => upgrade.guarded /\ upgrade.tested
    /\ InReview => upgrade.status \notin Phases \cup {"none"}

\* What was refused does not come back; who has it still had it then.
Doubts ==
    refused =>
        /\ upgrade.status \notin Phases \cup {"none", "awaiting_review"}
        /\ \A r \in Reviews : review[r] # "none" => r \in doubted

UpgradesInv == UpgradesTypeOK /\ Passed /\ Doubts

USE DEF Phases

-----------------------------------------------------------------------------

LEMMA UpgradesInitially == UpgradesInit => UpgradesInv
<1> SUFFICES ASSUME UpgradesInit PROVE UpgradesInv OBVIOUS
<1>1. /\ upgrade = [status |-> "none", guarded |-> FALSE, tested |-> FALSE] /\ upgrade.status = "none"
      /\ ~worker /\ ~refused /\ ~InReview
  BY DEF UpgradesInit, InReview
<1>2. worker \in BOOLEAN /\ out \in BOOLEAN /\ refused \in BOOLEAN
  BY DEF UpgradesInit
<1>3. UpgradesTypeOK
  BY <1>1, <1>2 DEF UpgradesInit, UpgradesTypeOK
<1>4. Passed /\ Doubts
  BY <1>1 DEF Passed, Doubts
<1> QED BY <1>3, <1>4 DEF UpgradesInv

\* A job moves on without anybody reviewing it.
LEMMA JobKeeps ==
    ASSUME UpgradesInv, QueueUpgrade \/ Advance \/ GiveUp
    PROVE  UpgradesInv'
<1>1. CASE QueueUpgrade
  BY <1>1 DEF QueueUpgrade, SetStatus, UpgradesInv, UpgradesTypeOK, Passed, Doubts, InReview
<1>2. CASE Advance
  <2>1. /\ upgrade.status \in Phases /\ upgrade'.status = Following[upgrade.status]
        /\ upgrade'.guarded = (upgrade.guarded \/ upgrade.status = "verifying")
        /\ upgrade'.tested = (upgrade.tested \/ upgrade.status = "testing")
        /\ worker' = (upgrade'.status # "awaiting_review")
        /\ UNCHANGED <<review, out, refused, doubted>>
    BY <1>2 DEF Advance
  <2>2. Following[upgrade.status] \in (Phases \ {"queued"}) \cup {"awaiting_review"}
        /\ (Following[upgrade.status] = "testing" => upgrade.status = "verifying")
        /\ (Following[upgrade.status] = "awaiting_review" => upgrade.status = "testing")
    BY <2>1 DEF Following
  <2>3. UpgradesTypeOK'
    BY <1>2, <2>1, <2>2 DEF Advance, UpgradesInv, UpgradesTypeOK
  <2>4. ~InReview /\ ~refused
    BY <2>1 DEF UpgradesInv, Passed, Doubts
  <2>5. Passed'
    BY <2>1, <2>2, <2>4 DEF UpgradesInv, UpgradesTypeOK, Passed, InReview
  <2>6. Doubts'
    BY <2>1, <2>4 DEF Doubts
  <2> QED BY <2>3, <2>5, <2>6 DEF UpgradesInv
<1>3. CASE GiveUp
  <2>1. ~InReview /\ ~refused
    BY <1>3 DEF GiveUp, UpgradesInv, Passed, Doubts
  <2> QED BY <1>3, <2>1 DEF GiveUp, SetStatus, UpgradesInv, UpgradesTypeOK, Passed, Doubts, InReview
<1> QED BY <1>1, <1>2, <1>3

\* A request takes up the review of a job that awaits it.
LEMMA CheckKeeps ==
    ASSUME UpgradesInv, NEW r \in Reviews, CheckUpgrade(r)
    PROVE  UpgradesInv'
<1>1. upgrade.status = "awaiting_review" /\ ~refused
  BY DEF CheckUpgrade, Reviewable, UpgradesInv, Doubts
<1>2. UNCHANGED <<upgrade, worker, out, refused>> /\ review' = [review EXCEPT ![r] = "checked"]
      /\ doubted' = doubted \ {r}
  BY DEF CheckUpgrade, Goes
<1> QED BY <1>1, <1>2 DEF UpgradesInv, UpgradesTypeOK, Passed, Doubts, InReview

\* The steps of a review under way: they give the job a status of its own.
LEMMA ReviewKeeps ==
    ASSUME UpgradesInv, NEW r \in Reviews, review[r] # "none",
           NEW to \in {"publishing", "found", "pushing", "none"}, review' = [review EXCEPT ![r] = to],
           \/ upgrade' = upgrade
           \/ \E status \in {"approved", "pushed", "failed"} : upgrade' = [upgrade EXCEPT !.status = status],
           UNCHANGED <<worker, out, refused, doubted>>
    PROVE  UpgradesInv'
<1>1. InReview
  BY DEF InReview
<1>2. /\ upgrade'.guarded = upgrade.guarded /\ upgrade'.tested = upgrade.tested
      /\ upgrade'.status \in {"approved", "pushed", "failed", upgrade.status}
      /\ upgrade.guarded /\ upgrade.tested
  BY <1>1 DEF UpgradesInv, UpgradesTypeOK, Passed
<1>3. UpgradesTypeOK'
  BY DEF UpgradesInv, UpgradesTypeOK
<1>4. \A q \in Reviews : review'[q] # "none" => review[q] # "none"
  BY DEF UpgradesInv, UpgradesTypeOK
<1>5. ~worker /\ upgrade.status \notin Phases \cup {"none"}
  BY <1>1 DEF UpgradesInv, Passed
<1>6. Passed'
  BY <1>2, <1>5 DEF Passed
<1>7. Doubts'
  BY <1>2, <1>4 DEF UpgradesInv, Doubts
<1> QED BY <1>3, <1>6, <1>7 DEF UpgradesInv

LEMMA UpgradesStep == UpgradesInv /\ [UpgradesNext]_upgradeVars => UpgradesInv'
<1> SUFFICES ASSUME UpgradesInv, [UpgradesNext]_upgradeVars PROVE UpgradesInv' OBVIOUS
<1>1. CASE QueueUpgrade \/ Advance \/ GiveUp
  BY <1>1, JobKeeps
<1>2. CASE StopUpgradeServer
  BY <1>2 DEF StopUpgradeServer, UpgradesInv, UpgradesTypeOK, Passed, Doubts, InReview
<1>3. CASE RejectUpgrade
  <2>1. /\ upgrade.status \in {"awaiting_review", "failed"} /\ upgrade'.status = "rejected"
        /\ upgrade'.guarded = upgrade.guarded /\ upgrade'.tested = upgrade.tested
        /\ refused' /\ doubted' = doubted \cup {r \in Reviews : review[r] # "none"}
        /\ UNCHANGED <<worker, review, out>>
    BY <1>3 DEF RejectUpgrade, SetStatus, UpgradesInv, UpgradesTypeOK
  <2>2. UpgradesTypeOK'
    BY <1>3 DEF RejectUpgrade, SetStatus, UpgradesInv, UpgradesTypeOK
  <2>3. Passed' /\ Doubts'
    BY <2>1 DEF UpgradesInv, Passed, Doubts, InReview
  <2> QED BY <2>2, <2>3 DEF UpgradesInv
<1>4. ASSUME NEW r \in Reviews, CheckUpgrade(r) PROVE UpgradesInv'
  BY <1>4, CheckKeeps
<1>5. ASSUME NEW r \in Reviews, ApproveUpgrade(r) \/ ReadApproved(r) \/ StartPublishing(r)
                                  \/ FinishPublishing(r) \/ PublishingFails(r)
      PROVE  UpgradesInv'
  BY <1>5, ReviewKeeps
     DEF ApproveUpgrade, ReadApproved, StartPublishing, FinishPublishing, PublishingFails, Goes, SetStatus
<1>6. ASSUME NEW r \in Reviews, PushBranch(r) PROVE UpgradesInv'
  BY <1>6 DEF PushBranch, UpgradesInv, UpgradesTypeOK, Passed, Doubts, InReview
<1>7. CASE UNCHANGED upgradeVars
  BY <1>7 DEF upgradeVars, UpgradesInv, UpgradesTypeOK, Passed, Doubts, InReview
<1> QED BY <1>1, <1>2, <1>3, <1>4, <1>5, <1>6, <1>7 DEF UpgradesNext

-----------------------------------------------------------------------------

\* A branch is pushed only after the gate and the tests have passed it, and after a
\* rejection only by an approval that was under way (services/upgrades.js:349-353,
\* routes/admin.js:402-440).
THEOREM ReviewedBeforeItGoesOut == UpgradesSpec => OnlyReviewedWorkGoesOut
<1> DEFINE Reviewed == ~out /\ out' => /\ upgrade.guarded /\ upgrade.tested
                                       /\ refused => \E r \in doubted : review[r] = "pushing"
<1>1. UpgradesInv /\ [UpgradesNext]_upgradeVars => [Reviewed]_upgradeVars
  <2> SUFFICES ASSUME UpgradesInv, UpgradesNext, ~out, out'
               PROVE  /\ upgrade.guarded /\ upgrade.tested
                      /\ refused => \E r \in doubted : review[r] = "pushing"
    OBVIOUS
  <2>1. PICK r \in Reviews : PushBranch(r)
    BY DEF UpgradesNext, QueueUpgrade, Advance, GiveUp, StopUpgradeServer, RejectUpgrade, CheckUpgrade,
           ApproveUpgrade, ReadApproved, StartPublishing, FinishPublishing, PublishingFails
  <2> QED BY <2>1 DEF PushBranch, UpgradesInv, Passed, Doubts, InReview
<1> QED BY UpgradesInitially, UpgradesStep, <1>1, PTL DEF UpgradesSpec, OnlyReviewedWorkGoesOut

------------------------------------------------------------------------------
(***************************************************************************)
(* A server that listens has its schema, for any number of servers, builds *)
(* and migrations, wherever they are killed (Startup).                     *)
(*                                                                         *)
(* Whoever reads or applies holds the lock, so the ledger it has read is   *)
(* the ledger (HolderReads); rows are only added to it, and what a server  *)
(* found there when it began to listen stays (Served).                     *)
(***************************************************************************)
StartupSpec == StartupInit /\ [][StartupNext]_startupVars

\* The lock is that of whoever reads or applies, and what it read of the ledger is the
\* ledger: nobody else writes to it.
HolderReads(s) ==
    /\ server[s].at \in {"reading", "applying"} => lock = s
    /\ server[s].at = "applying" => server[s].applied = ledger
    /\ server[s].open # 0 => server[s].at = "applying" /\ server[s].open \in Shipped(s)

\* What a server found recorded when it began to listen stays recorded.
Served(s) ==
    server[s].at \in {"up", "closing"} => \A v \in Shipped(s) : ledger[v] = server[s].build[v]

StartupInv ==
    /\ StartupTypeOK /\ schema = ledger
    /\ \A s \in Servers : HolderReads(s) /\ Served(s)

Process ==
    [at : {"off", "booting", "queueing", "reading", "applying", "up", "closing"},
     build : Builds \cup {Blank}, applied : [Versions -> Checksums], open : Versions \cup {0}]

LEMMA OffIs == Off \in Process /\ Off.at = "off" /\ Off.open = 0
<1>1. Blank \in [Versions -> Checksums]
  BY DEF Blank, Checksums
<1>. QED
  BY <1>1 DEF Off, Process

\* Of some numbers one is the least.
LEMMA LeastExists ==
    ASSUME NEW T \in SUBSET Nat, T # {}
    PROVE  \E x \in T : \A y \in T : x <= y
<1> DEFINE Before == {ss \in Nat \X Nat : ss[1] < ss[2]}
<1>1. IsWellFoundedOn(Before, Nat)
  BY NatLessThanWellFounded DEF OpToRel
<1> HIDE DEF Before
<1>2. PICK x \in T : \A y \in T : ~(<<y, x>> \in Before)
  BY <1>1, WFMin
<1>3. \A y \in T : ~(y < x)
  BY <1>2 DEF Before
<1>. QED
  BY <1>3

LEMMA StartupInitially == StartupInit => StartupInv
<1> SUFFICES ASSUME StartupInit PROVE StartupInv OBVIOUS
<1>1. Blank \in [Versions -> Checksums]
  BY DEF Blank, Checksums
<1>2. StartupTypeOK
  BY <1>1 DEF StartupInit, StartupTypeOK, Off
<1>3. \A s \in Servers : HolderReads(s) /\ Served(s)
  BY DEF StartupInit, Off, HolderReads, Served
<1>. QED
  BY <1>2, <1>3 DEF StartupInit, StartupInv

\* What a step of one server leaves to the others.
LEMMA OthersGoOn ==
    ASSUME StartupInv, NEW s \in Servers, NEW t \in Servers, t # s, server'[t] = server[t],
           lock' = lock \/ lock' = Unlocked(s) \/ (lock = NoServer /\ lock' = s),
           ledger' = ledger \/ (lock = s /\ \A v \in Versions : ledger'[v] = ledger[v] \/ ledger[v] = 0)
    PROVE  HolderReads(t)' /\ Served(t)'
<1>1. HolderReads(t) /\ Served(t) /\ t # NoServer /\ s # NoServer
  BY StartupAssumption DEF StartupInv
<1>2. HolderReads(t)'
  BY <1>1 DEF HolderReads, Unlocked, Shipped
<1>3. Served(t)'
  BY <1>1 DEF Served, Shipped
<1>. QED
  BY <1>2, <1>3

\* A process that ends holds nothing.
LEMMA StartupStoppingKeeps ==
    ASSUME StartupInv, NEW s \in Servers, Stops(s), UNCHANGED <<hasLedger, ledger, schema>>
    PROVE  StartupInv'
<1>1. Off.at = "off" /\ Off.open = 0 /\ Blank \in [Versions -> Checksums]
  BY DEF Off, Blank, Checksums
<1>2. server'[s] = Off /\ \A t \in Servers : t # s => server'[t] = server[t]
  BY DEF Stops, StartupInv, StartupTypeOK
<1>3. StartupTypeOK'
  <2>1. lock' \in Servers \cup {NoServer}
    BY DEF Stops, Unlocked, StartupInv, StartupTypeOK
  <2>. QED
    BY <1>1, <2>1 DEF Stops, Off, StartupInv, StartupTypeOK
<1>4. HolderReads(s)' /\ Served(s)'
  BY <1>1, <1>2 DEF HolderReads, Served
<1>5. ASSUME NEW t \in Servers, t # s PROVE HolderReads(t)' /\ Served(t)'
  BY <1>2, <1>5, OthersGoOn DEF Stops
<1>. QED
  BY <1>3, <1>4, <1>5 DEF StartupInv

LEMMA BootingKeeps ==
    ASSUME StartupInv, NEW s \in Servers, EnsureLedger(s) \/ \E build \in Builds : Boot(s, build)
    PROVE  StartupInv'
<1>1. StartupTypeOK /\ HolderReads(s) /\ hasLedger' \in BOOLEAN /\ UNCHANGED <<ledger, schema, lock>>
  BY DEF EnsureLedger, Boot, StartupInv, StartupTypeOK
<1>2. /\ server' \in [Servers -> Process] /\ server'[s].at \in {"booting", "queueing"} /\ server'[s].open = 0
      /\ \A t \in Servers : t # s => server'[t] = server[t]
  <2>1. CASE EnsureLedger(s)
    BY <1>1, <2>1 DEF EnsureLedger, StartupTypeOK, HolderReads, Process
  <2>2. ASSUME NEW build \in Builds, Boot(s, build)
        PROVE  /\ server' \in [Servers -> Process] /\ server'[s].at = "booting" /\ server'[s].open = 0
               /\ \A t \in Servers : t # s => server'[t] = server[t]
    <3> DEFINE new == [Off EXCEPT !.at = "booting", !.build = build]
    <3>1. new \in Process /\ new.at = "booting" /\ new.open = 0
      BY OffIs DEF Process
    <3>2. server' = [server EXCEPT ![s] = new]
      BY <2>2 DEF Boot
    <3> HIDE DEF new
    <3>. QED
      BY <1>1, <3>1, <3>2 DEF StartupTypeOK, Process
  <2>. QED
    BY <2>1, <2>2
<1>3. StartupTypeOK'
  BY <1>1, <1>2 DEF StartupTypeOK, Process
<1>4. HolderReads(s)' /\ Served(s)'
  BY <1>2 DEF HolderReads, Served
<1>5. ASSUME NEW t \in Servers, t # s PROVE HolderReads(t)' /\ Served(t)'
  BY <1>1, <1>2, <1>5, OthersGoOn
<1>. QED
  BY <1>1, <1>3, <1>4, <1>5 DEF StartupInv

LEMMA LockingKeeps ==
    ASSUME StartupInv, NEW s \in Servers, TakeLock(s) \/ ReadLedger(s)
    PROVE  StartupInv'
<1>0. StartupTypeOK /\ HolderReads(s) /\ server[s].at \in {"queueing", "reading"}
  BY DEF StartupInv, TakeLock, ReadLedger
<1>1. CASE TakeLock(s) /\ Stops(s) /\ UNCHANGED <<hasLedger, ledger, schema>>
  BY <1>1, StartupStoppingKeeps
<1>2. CASE \/ TakeLock(s) /\ lock = NoServer /\ lock' = s /\ server' = [server EXCEPT ![s].at = "reading"]
           \/ ReadLedger(s)
  <2>1. UNCHANGED <<hasLedger, ledger, schema>> /\ lock' = s
    BY <1>0, <1>2 DEF TakeLock, ReadLedger, HolderReads
  <2>2. /\ server'[s].at \in {"reading", "applying"} /\ server'[s].open = 0
        /\ server'[s].at = "applying" => server'[s].applied = ledger
        /\ \A t \in Servers : t # s => server'[t] = server[t]
    BY <1>0, <1>2 DEF TakeLock, ReadLedger, HolderReads, StartupTypeOK
  <2>3. StartupTypeOK'
    <3>1. server[s] \in Process /\ server \in [Servers -> Process] /\ ledger \in [Versions -> Checksums]
      BY <1>0 DEF StartupTypeOK, Process
    <3>2. [server[s] EXCEPT !.at = "reading"] \in Process
          /\ [server[s] EXCEPT !.at = "applying", !.applied = ledger] \in Process
      BY <3>1 DEF Process
    <3>3. \/ server' = [server EXCEPT ![s] = [server[s] EXCEPT !.at = "reading"]]
          \/ server' = [server EXCEPT ![s] = [server[s] EXCEPT !.at = "applying", !.applied = ledger]]
      BY <1>2, <3>1 DEF ReadLedger
    <3>4. server' \in [Servers -> Process]
      BY <3>1, <3>2, <3>3
    <3>. QED
      BY <1>0, <2>1, <3>4 DEF StartupTypeOK, Process
  <2>4. HolderReads(s)' /\ Served(s)'
    BY <2>1, <2>2 DEF HolderReads, Served
  <2>5. ASSUME NEW t \in Servers, t # s PROVE HolderReads(t)' /\ Served(t)'
    <3>1. lock' = lock \/ (lock = NoServer /\ lock' = s)
      BY <1>0, <1>2 DEF TakeLock, ReadLedger
    <3>. QED
      BY <2>1, <2>2, <2>5, <3>1, OthersGoOn
  <2>. QED
    BY <2>1, <2>3, <2>4, <2>5 DEF StartupInv
<1>. QED
  BY <1>1, <1>2 DEF TakeLock

LEMMA BeginningKeeps ==
    ASSUME StartupInv, NEW s \in Servers, BeginMigration(s)
    PROVE  StartupInv'
<1>1. Pending(s) # {} /\ Pending(s) \subseteq Shipped(s) /\ Shipped(s) \subseteq Versions
  BY DEF BeginMigration, Pending, Shipped
<1>2. First(Pending(s)) \in Shipped(s)
  <2>1. \E v \in Pending(s) : \A u \in Pending(s) : v <= u
    BY <1>1, StartupAssumption, LeastExists
  <2>. QED
    BY <1>1, <2>1 DEF First
<1>3. StartupTypeOK /\ HolderReads(s) /\ server[s].at = "applying" /\ UNCHANGED <<hasLedger, ledger, schema, lock>>
  BY DEF StartupInv, BeginMigration
<1>4. /\ server'[s].at = "applying" /\ server'[s].open \in Shipped(s)
      /\ server'[s].build = server[s].build /\ server'[s].applied = server[s].applied
      /\ \A t \in Servers : t # s => server'[t] = server[t]
  BY <1>2, <1>3 DEF BeginMigration, StartupTypeOK
<1>5. StartupTypeOK'
  BY <1>1, <1>2, <1>3 DEF BeginMigration, StartupTypeOK
<1>6. HolderReads(s)' /\ Served(s)'
  BY <1>3, <1>4 DEF HolderReads, Served, Shipped
<1>7. ASSUME NEW t \in Servers, t # s PROVE HolderReads(t)' /\ Served(t)'
  BY <1>3, <1>4, <1>7, OthersGoOn
<1>. QED
  BY <1>3, <1>5, <1>6, <1>7 DEF StartupInv

\* What is recorded was not recorded before, and nobody else has the lock.
LEMMA MigratingKeeps ==
    ASSUME StartupInv, NEW s \in Servers, Migrate(s)
    PROVE  StartupInv'
<1>1. CASE Stops(s) /\ UNCHANGED <<hasLedger, ledger, schema>>
  BY <1>1, StartupStoppingKeeps
<1>2. CASE /\ ledger[server[s].open] = 0
           /\ schema' = [schema EXCEPT ![server[s].open] = server[s].build[server[s].open]]
           /\ ledger' = [ledger EXCEPT ![server[s].open] = server[s].build[server[s].open]]
           /\ server' = [server EXCEPT ![s].open = 0,
                                       ![s].applied[server[s].open] = server[s].build[server[s].open]]
           /\ UNCHANGED <<lock, hasLedger>>
  <2> DEFINE v == server[s].open
             sum == server[s].build[v]
  <2>1. StartupTypeOK /\ HolderReads(s) /\ schema = ledger /\ v # 0
    BY DEF StartupInv, Migrate
  <2>2. /\ server[s].at = "applying" /\ lock = s /\ server[s].applied = ledger /\ v \in Versions
        /\ server[s].build \in Builds
    BY <2>1 DEF HolderReads, Shipped, StartupTypeOK, Blank
  <2>3. sum \in Checksums
    BY <2>2 DEF Checksums
  <2>4. /\ server'[s].at = "applying" /\ server'[s].open = 0 /\ server'[s].applied = ledger'
        /\ \A t \in Servers : t # s => server'[t] = server[t]
    BY <1>2, <2>1, <2>2 DEF StartupTypeOK
  <2>5. StartupTypeOK'
    <3>1. server[s] \in Process /\ server \in [Servers -> Process]
      BY <2>1 DEF StartupTypeOK, Process
    <3>2. [server[s] EXCEPT !.open = 0, !.applied[v] = sum] \in Process
      BY <2>2, <2>3, <3>1 DEF Process
    <3>3. server' = [server EXCEPT ![s] = [server[s] EXCEPT !.open = 0, !.applied[v] = sum]]
      BY <1>2, <3>1
    <3>4. server' \in [Servers -> Process]
      BY <3>1, <3>2, <3>3
    <3>5. ledger' \in [Versions -> Checksums] /\ schema' \in [Versions -> Checksums]
      BY <1>2, <2>1, <2>2, <2>3 DEF StartupTypeOK
    <3>. QED
      BY <1>2, <2>1, <3>4, <3>5 DEF StartupTypeOK, Process
  <2>6. HolderReads(s)' /\ Served(s)'
    BY <1>2, <2>2, <2>4 DEF HolderReads, Served
  <2>7. ASSUME NEW t \in Servers, t # s PROVE HolderReads(t)' /\ Served(t)'
    <3>1. \A u \in Versions : ledger'[u] = ledger[u] \/ ledger[u] = 0
      BY <1>2, <2>1 DEF StartupTypeOK
    <3>. QED
      BY <1>2, <2>2, <2>4, <2>7, <3>1, OthersGoOn
  <2>. QED
    BY <1>2, <2>1, <2>5, <2>6, <2>7 DEF StartupInv
<1>. QED
  BY <1>1, <1>2 DEF Migrate

\* Nothing is pending: what is recorded is what the build ships.
LEMMA ServingKeeps ==
    ASSUME StartupInv, NEW s \in Servers, Listen(s) \/ Shutdown(s)
    PROVE  StartupInv'
<1>1. StartupTypeOK /\ HolderReads(s) /\ Served(s) /\ UNCHANGED <<hasLedger, ledger, schema>>
  BY DEF StartupInv, Listen, Shutdown
<1>2. \A v \in Shipped(s) : ledger[v] = server[s].build[v]
  <2>1. CASE Listen(s)
    BY <1>1, <2>1 DEF Listen, Pending, AppliedAsShipped, HolderReads
  <2>2. CASE Shutdown(s)
    BY <1>1, <2>2 DEF Shutdown, Served
  <2>. QED
    BY <2>1, <2>2
<1>3. /\ server'[s].at \in {"up", "closing"} /\ server'[s].open = 0
      /\ server'[s].build = server[s].build
      /\ \A t \in Servers : t # s => server'[t] = server[t]
  BY <1>1 DEF Listen, Shutdown, HolderReads, StartupTypeOK
<1>4. StartupTypeOK'
  <2>1. lock' \in Servers \cup {NoServer}
    BY <1>1 DEF Listen, Shutdown, Unlocked, StartupTypeOK
  <2>2. server' \in [Servers -> Process]
    <3>1. server[s] \in Process /\ server \in [Servers -> Process]
      BY <1>1 DEF StartupTypeOK, Process
    <3>2. [server[s] EXCEPT !.at = "up"] \in Process /\ [server[s] EXCEPT !.at = "closing"] \in Process
      BY <3>1 DEF Process
    <3>3. \/ server' = [server EXCEPT ![s] = [server[s] EXCEPT !.at = "up"]]
          \/ server' = [server EXCEPT ![s] = [server[s] EXCEPT !.at = "closing"]]
      BY <3>1 DEF Listen, Shutdown
    <3>. QED
      BY <3>1, <3>2, <3>3
  <2>. QED
    BY <1>1, <2>1, <2>2 DEF StartupTypeOK, Process
<1>5. HolderReads(s)' /\ Served(s)'
  BY <1>1, <1>2, <1>3 DEF HolderReads, Served, Shipped
<1>6. ASSUME NEW t \in Servers, t # s PROVE HolderReads(t)' /\ Served(t)'
  <2>1. lock' = lock \/ lock' = Unlocked(s)
    BY DEF Listen, Shutdown
  <2>. QED
    BY <1>1, <1>3, <1>6, <2>1, OthersGoOn
<1>. QED
  BY <1>1, <1>4, <1>5, <1>6 DEF StartupInv

LEMMA StartupStep == StartupInv /\ [StartupNext]_startupVars => StartupInv'
<1> SUFFICES ASSUME StartupInv, [StartupNext]_startupVars PROVE StartupInv' OBVIOUS
<1>1. ASSUME NEW s \in Servers, RefuseEdited(s) \/ Exit(s) \/ Crash(s) PROVE StartupInv'
  BY <1>1, StartupStoppingKeeps DEF RefuseEdited, Exit, Crash
<1>2. CASE UNCHANGED startupVars
  BY <1>2 DEF startupVars, StartupInv, StartupTypeOK, HolderReads, Served, Shipped
<1>. QED
  BY <1>1, <1>2, BootingKeeps, LockingKeeps, BeginningKeeps, MigratingKeeps, ServingKeeps DEF StartupNext

\* A server that answers requests runs on a schema that every migration of its own build
\* has made, however many started beside it, were killed half-way or came from another
\* build (db/migrate.js:3-7, index.js).
THEOREM ServingMeansMigrated == StartupSpec => []UpMeansMigrated
<1>1. StartupInv => UpMeansMigrated
  BY DEF StartupInv, Served, UpMeansMigrated
<1>. QED
  BY <1>1, StartupInitially, StartupStep, PTL DEF StartupSpec

==============================================================================

----------------------------- MODULE BillingProofs -----------------------------
(***************************************************************************)
(* Every invoice has an address of its own, and a subscription is extended *)
(* once for each that is paid as long as sweeps do not overlap: for any    *)
(* number of invoices, sweeps and wallets, and any amount (Billing).       *)
(*                                                                         *)
(* Addresses: an index is given out once (Numbered).  Extensions: a sweep  *)
(* has each invoice at hand once (Apart), it is the only one (Alone), and  *)
(* what it has at hand nobody has settled (Unsettled), so what it settles  *)
(* is new.                                                                 *)
(***************************************************************************)
EXTENDS Billing, FiniteSetTheorems, WellFoundedInduction, TLAPS

Live(i) == invoice[i].status # "none"
Paid == {i \in Invoices : invoice[i].status = "paid"}

Sweeping == [running : BOOLEAN, rows : SUBSET Rows, told : [row : Rows \cup {NoRow}, seen : Receipts]]

\* What a sweep has listed and not dealt with.
Hand(r) == {w.id : w \in r.rows} \cup ({r.told.row.id} \ {0})
AtHand(s) == Hand(sweep[s])

\* Each of it once.
Tidy(r) ==
    /\ Hand(r) # {} => r.running
    /\ \A v, w \in r.rows : v.id = w.id => v = w
    /\ \A w \in r.rows : w.id # r.told.row.id

Numbered ==
    /\ \A i \in Invoices : Live(i) => /\ invoice[i].address \in Wallets \X Nat
                                      /\ invoice[i].address[2] < wallet.nextIndex
    /\ \A i, j \in Invoices : i # j /\ Live(i) /\ Live(j) =>
          invoice[i].address[2] # invoice[j].address[2]

Listed == \A s \in Sweeps : \A i \in AtHand(s) : i \in Invoices /\ Live(i)

Apart == \A s \in Sweeps : Tidy(sweep[s])

Alone == \A s, t \in Sweeps : sweep[s].running /\ sweep[t].running => s = t
Unsettled == \A s \in Sweeps : \A i \in AtHand(s) : i \notin Paid
Once == ~overlapped => Alone /\ Unsettled /\ periods = Cardinality(Paid)

BillInv == BillingTypeOK /\ Numbered /\ Listed /\ Apart /\ Once

\* Nobody pays more than is owed.
Funded == \A i \in Invoices : chain[i].confirmed + chain[i].pending <= Owed

-----------------------------------------------------------------------------
(* Sweeps.                                                                 *)

LEMMA RestingIs ==
    /\ Resting \in Sweeping /\ ~Resting.running /\ Resting.rows = {}
    /\ Resting.told.row = NoRow /\ Resting.told.row.id = 0 /\ Hand(Resting) = {} /\ Tidy(Resting)
<1>1. Unpaid \in Receipts
  BY BillingAssumption DEF Unpaid, Receipts
<1>2. /\ Resting.running = FALSE /\ Resting.rows = {} /\ Resting.told = [row |-> NoRow, seen |-> Unpaid]
      /\ Resting.told.row.id = 0
  BY DEF Resting, NoRow
<1>3. Resting \in Sweeping
  BY <1>1 DEF Resting, Sweeping
<1> QED BY <1>2, <1>3 DEF Hand, Tidy

\* What is told of has an id, unless there is nothing.
LEMMA ToldIs ==
    ASSUME NEW r \in Sweeping
    PROVE  /\ r.told.row.id # 0 => r.told.row.id \in Invoices /\ r.told.row.id \in Hand(r)
           /\ \A w \in r.rows : w.id \in Invoices /\ w.id # 0 /\ w.id \in Hand(r)
           /\ \A i \in Hand(r) : i \in Invoices
BY BillingAssumption DEF Sweeping, Hand, Rows, NoRow

LEMMA SweepsAre ==
    ASSUME BillingTypeOK
    PROVE  sweep \in [Sweeps -> Sweeping]
BY DEF BillingTypeOK, Sweeping

\* A set of numbers has a first one.
LEMMA FirstExists ==
    ASSUME NEW T \in SUBSET Nat, T # {}
    PROVE  \E x \in T : \A y \in T : x <= y
<1> DEFINE Before == {ss \in Nat \X Nat : ss[1] < ss[2]}
<1>1. IsWellFoundedOn(Before, Nat)
  BY NatLessThanWellFounded DEF OpToRel
<1> HIDE DEF Before
<1>2. PICK x \in T : \A y \in T : ~(<<y, x>> \in Before)
  BY <1>1, WFMin
<1>3. \A y \in T : ~(y < x)
  BY <1>2 DEF Before
<1> QED BY <1>3

\* The oldest of the rows is one of them.
LEMMA NextRowIs ==
    ASSUME BillInv, NEW s \in Sweeps, sweep[s].rows # {}
    PROVE  NextRow(s) \in sweep[s].rows
<1> DEFINE indices == {invoice[w.id].address[2] : w \in sweep[s].rows}
<1>1. sweep[s] \in Sweeping
  BY SweepsAre DEF BillInv
<1>2. \A w \in sweep[s].rows : w.id \in Invoices /\ Live(w.id)
  BY <1>1, ToldIs DEF BillInv, Listed, AtHand
<1>3. \A w \in sweep[s].rows : invoice[w.id].address[2] \in Nat
  BY <1>2 DEF BillInv, Numbered
<1>4. PICK x \in indices : \A y \in indices : x <= y
  BY <1>3, FirstExists
<1>5. PICK w \in sweep[s].rows : x = invoice[w.id].address[2]
  BY <1>4
<1>6. ASSUME NEW v \in sweep[s].rows PROVE ~Older(v.id, w.id)
  <2>1. invoice[v.id].address[2] \in indices
    OBVIOUS
  <2>2. x <= invoice[v.id].address[2]
    BY <1>4, <2>1
  <2> HIDE DEF indices
  <2>3. invoice[v.id].address[2] \in Nat /\ x \in Nat
    BY <1>3, <1>5
  <2> QED BY <1>5, <2>2, <2>3 DEF Older
<1> QED BY <1>6 DEF NextRow

\* A sweep that goes on with no more than it had at hand.
LEMMA SweepGoesOn ==
    ASSUME BillInv, NEW s \in Sweeps, NEW r \in Sweeping,
           sweep' = [sweep EXCEPT ![s] = r], BillingTypeOK',
           UNCHANGED <<invoice, wallet, periods, overlapped>>,
           Hand(r) \subseteq AtHand(s), Tidy(r), r.running => sweep[s].running
    PROVE  BillInv'
<1>1. sweep \in [Sweeps -> Sweeping]
  BY SweepsAre DEF BillInv
<1>2. sweep'[s] = r /\ \A t \in Sweeps \ {s} : sweep'[t] = sweep[t]
  BY <1>1
<1>3. \A t \in Sweeps : Hand(sweep'[t]) \subseteq Hand(sweep[t]) /\ (sweep'[t].running => sweep[t].running)
  BY <1>2 DEF AtHand
<1>4. Numbered'
  BY DEF BillInv, Numbered, Live
<1>5. Listed'
  BY <1>3 DEF BillInv, Listed, AtHand, Live
<1>6. Apart'
  BY <1>2 DEF BillInv, Apart
<1>7. Paid' = Paid
  BY DEF Paid
<1>8. Once'
  BY <1>3, <1>7 DEF BillInv, Once, Alone, Unsettled, AtHand
<1> QED BY <1>4, <1>5, <1>6, <1>8 DEF BillInv

LEMMA StartSweepKeeps ==
    ASSUME BillInv, NEW s \in Sweeps, StartSweep(s)
    PROVE  BillInv'
<1> DEFINE rows == {[id |-> i, status |-> invoice[i].status] : i \in Watched}
           r == [Resting EXCEPT !.running = TRUE, !.rows = rows]
<1>1. rows \subseteq Rows
  BY DEF Watched, Rows
<1>2. r.running = TRUE /\ r.rows = rows /\ r.told = Resting.told /\ r \in Sweeping
  BY <1>1, RestingIs DEF Sweeping
<1>3. Hand(r) = Watched
  <2>1. {w.id : w \in rows} = Watched
    <3>1. ASSUME NEW i \in Watched PROVE i \in {w.id : w \in rows}
      <4>1. [id |-> i, status |-> invoice[i].status] \in rows
        OBVIOUS
      <4> QED BY <4>1
    <3> QED BY <3>1
  <2> HIDE DEF r, rows
  <2> QED BY <1>2, <2>1, RestingIs DEF Hand
<1>4. /\ \A v, w \in rows : v.id = w.id => v = w
      /\ \A w \in rows : w.id # Resting.told.row.id
  BY RestingIs, BillingAssumption DEF Watched
<1>5. Tidy(r)
  BY <1>2, <1>4 DEF Tidy
<1>6. sweep' = [sweep EXCEPT ![s] = r] /\ overlapped' = (overlapped \/ \E t \in Sweeps : sweep[t].running)
      /\ UNCHANGED <<tables, quote, chain, age, noticed>>
  BY DEF StartSweep
<1> HIDE DEF r, rows
<1>7. sweep \in [Sweeps -> Sweeping] /\ overlapped \in BOOLEAN
  BY SweepsAre DEF BillInv, BillingTypeOK
<1>8. sweep'[s] = r /\ \A t \in Sweeps \ {s} : sweep'[t] = sweep[t]
  BY <1>6, <1>7
<1>9. sweep' \in [Sweeps -> Sweeping] /\ overlapped' \in BOOLEAN
  BY <1>2, <1>6, <1>7
<1>10. BillingTypeOK'
  BY <1>6, <1>9 DEF BillInv, BillingTypeOK, Sweeping, tables, books
<1>11. UNCHANGED <<invoice, wallet, periods>> /\ Paid' = Paid
  BY <1>6 DEF tables, books, Paid
<1>12. Numbered'
  BY <1>11 DEF BillInv, Numbered, Live
<1>13. Listed'
  BY <1>3, <1>8, <1>11 DEF BillInv, Listed, AtHand, Live, Watched
<1>14. Apart'
  BY <1>5, <1>8 DEF BillInv, Apart
<1>15. ASSUME ~overlapped' PROVE Alone' /\ Unsettled' /\ periods' = Cardinality(Paid')
  <2>1. ~overlapped /\ \A t \in Sweeps : ~sweep[t].running
    BY <1>6, <1>7, <1>15
  <2>2. Alone'
    BY <1>8, <2>1 DEF Alone
  <2>3. \A i \in Hand(r) : i \notin Paid
    BY <1>3 DEF Watched, Paid
  <2>4. Unsettled'
    BY <1>8, <1>11, <2>1, <2>3 DEF BillInv, Once, Unsettled, AtHand
  <2> QED BY <1>11, <2>1, <2>2, <2>4 DEF BillInv, Once
<1> QED BY <1>10, <1>12, <1>13, <1>14, <1>15 DEF BillInv, Once

LEMMA SkipInvoiceKeeps ==
    ASSUME BillInv, NEW s \in Sweeps, SkipInvoice(s)
    PROVE  BillInv'
<1> DEFINE r == [sweep[s] EXCEPT !.rows = @ \ {NextRow(s)}]
<1>1. sweep \in [Sweeps -> Sweeping] /\ sweep[s] \in Sweeping
  BY SweepsAre DEF BillInv
<1>2. /\ r \in Sweeping /\ r.running = sweep[s].running /\ r.told = sweep[s].told
      /\ r.rows = sweep[s].rows \ {NextRow(s)}
  BY <1>1 DEF Sweeping
<1>3. sweep' = [sweep EXCEPT ![s] = r] /\ UNCHANGED <<tables, quote, chain, age, noticed, overlapped>>
  BY <1>1 DEF SkipInvoice
<1> HIDE DEF r
<1>4. Hand(r) \subseteq AtHand(s)
  BY <1>2 DEF Hand, AtHand
<1>5. Tidy(r)
  BY <1>2, <1>4 DEF BillInv, Apart, Tidy, AtHand
<1>6. sweep' \in [Sweeps -> Sweeping]
  BY <1>1, <1>2, <1>3
<1>7. BillingTypeOK'
  BY <1>3, <1>6 DEF BillInv, BillingTypeOK, Sweeping, tables, books
<1>8. UNCHANGED <<invoice, wallet, periods, overlapped>>
  BY <1>3 DEF tables, books
<1> QED BY <1>2, <1>3, <1>4, <1>5, <1>7, <1>8, SweepGoesOn

LEMMA CheckAddressKeeps ==
    ASSUME BillInv, NEW s \in Sweeps, CheckAddress(s)
    PROVE  BillInv'
<1> DEFINE told == [row |-> NextRow(s), seen |-> chain[NextRow(s).id]]
           r == [sweep[s] EXCEPT !.rows = @ \ {NextRow(s)}, !.told = told]
<1>1. sweep \in [Sweeps -> Sweeping] /\ sweep[s] \in Sweeping
  BY SweepsAre DEF BillInv
<1>2. NextRow(s) \in sweep[s].rows /\ sweep[s].told = Resting.told
  BY NextRowIs DEF CheckAddress, Between
<1>3. NextRow(s) \in Rows /\ NextRow(s).id \in Invoices /\ NextRow(s).id # 0
  BY <1>1, <1>2, ToldIs DEF Sweeping
<1>4. told \in [row : Rows \cup {NoRow}, seen : Receipts]
  BY <1>3 DEF BillInv, BillingTypeOK
<1>5. /\ r \in Sweeping /\ r.running = sweep[s].running /\ r.told.row = NextRow(s)
      /\ r.rows = sweep[s].rows \ {NextRow(s)}
  BY <1>1, <1>4 DEF Sweeping
<1>6. sweep' = [sweep EXCEPT ![s] = r] /\ UNCHANGED <<tables, quote, chain, age, noticed, overlapped>>
  BY <1>1 DEF CheckAddress
<1> HIDE DEF r, told
<1>7. Hand(r) \subseteq AtHand(s)
  BY <1>2, <1>5 DEF Hand, AtHand
<1>8. Tidy(sweep[s])
  BY DEF BillInv, Apart
<1>9. Tidy(r)
  BY <1>2, <1>5, <1>7, <1>8 DEF Tidy, AtHand
<1>10. sweep' \in [Sweeps -> Sweeping]
  BY <1>1, <1>5, <1>6
<1>11. BillingTypeOK'
  BY <1>6, <1>10 DEF BillInv, BillingTypeOK, Sweeping, tables, books
<1>12. UNCHANGED <<invoice, wallet, periods, overlapped>>
  BY <1>6 DEF tables, books
<1> QED BY <1>5, <1>6, <1>7, <1>9, <1>11, <1>12, SweepGoesOn

LEMMA EndSweepKeeps ==
    ASSUME BillInv, NEW s \in Sweeps, EndSweep(s)
    PROVE  BillInv'
<1>1. sweep \in [Sweeps -> Sweeping]
  BY SweepsAre DEF BillInv
<1>2. sweep' = [sweep EXCEPT ![s] = Resting] /\ UNCHANGED <<tables, quote, chain, age, noticed, overlapped>>
  BY DEF EndSweep
<1>3. sweep' \in [Sweeps -> Sweeping]
  BY <1>1, <1>2, RestingIs
<1>4. BillingTypeOK'
  BY <1>2, <1>3 DEF BillInv, BillingTypeOK, Sweeping, tables, books
<1>5. UNCHANGED <<invoice, wallet, periods, overlapped>>
  BY <1>2 DEF tables, books
<1> QED BY <1>2, <1>4, <1>5, RestingIs, SweepGoesOn

LEMMA StopServerKeeps ==
    ASSUME BillInv, StopServer
    PROVE  BillInv'
<1>1. sweep \in [Sweeps -> Sweeping]
  BY SweepsAre DEF BillInv
<1>2. sweep' = [s \in Sweeps |-> Resting] /\ UNCHANGED <<tables, quote, chain, age, noticed, overlapped>>
  BY DEF StopServer
<1>3. sweep' \in [Sweeps -> Sweeping]
  BY <1>2, RestingIs
<1>5. BillingTypeOK'
  BY <1>2, <1>3 DEF BillInv, BillingTypeOK, Sweeping, tables, books
<1>6. UNCHANGED <<invoice, wallet, periods, overlapped>> /\ Paid' = Paid
  BY <1>2 DEF tables, books, Paid
<1>7. \A s \in Sweeps : sweep'[s] = Resting
  BY <1>2
<1>8. Numbered'
  BY <1>6 DEF BillInv, Numbered, Live
<1>9. Listed' /\ Apart' /\ Alone' /\ Unsettled'
  BY <1>7, RestingIs DEF Listed, Apart, Alone, Unsettled, AtHand
<1> QED BY <1>5, <1>6, <1>8, <1>9 DEF BillInv, Once

-----------------------------------------------------------------------------
(* Invoices.                                                               *)

\* What was told of has been written: nothing of it stays at hand.
LEMMA WrittenIs ==
    ASSUME BillInv, NEW s \in Sweeps, Written(s), sweep[s].told.row.id # 0
    PROVE  /\ sweep' \in [Sweeps -> Sweeping]
           /\ \A t \in Sweeps : sweep'[t].running = sweep[t].running
           /\ \A t \in Sweeps : Hand(sweep'[t]) \subseteq AtHand(t)
           /\ sweep[s].told.row.id \notin Hand(sweep'[s])
           /\ Apart'
<1> DEFINE r == [sweep[s] EXCEPT !.told = Resting.told]
<1>1. sweep \in [Sweeps -> Sweeping] /\ sweep[s] \in Sweeping
  BY SweepsAre DEF BillInv
<1>2. Resting \in Sweeping /\ Resting.told.row.id = 0
  BY RestingIs
<1>3. /\ r \in Sweeping /\ r.running = sweep[s].running /\ r.rows = sweep[s].rows
      /\ r.told = Resting.told
  BY <1>1, <1>2 DEF Sweeping
<1>4. sweep' = [sweep EXCEPT ![s] = r]
  BY <1>1 DEF Written
<1> HIDE DEF r
<1>5. sweep'[s] = r /\ \A t \in Sweeps \ {s} : sweep'[t] = sweep[t]
  BY <1>1, <1>4
<1>6. sweep' \in [Sweeps -> Sweeping]
  BY <1>1, <1>3, <1>4
<1>7. Tidy(sweep[s])
  BY DEF BillInv, Apart
<1>8. Hand(r) \subseteq Hand(sweep[s]) /\ sweep[s].told.row.id \notin Hand(r)
  BY <1>2, <1>3, <1>7 DEF Hand, Tidy
<1>9. \A w \in sweep[s].rows : w.id # 0
  BY <1>1, ToldIs
<1>10. Tidy(r)
  BY <1>2, <1>3, <1>7, <1>8, <1>9 DEF Tidy
<1>11. Apart'
  BY <1>5, <1>10 DEF BillInv, Apart
<1> QED BY <1>3, <1>5, <1>6, <1>8, <1>11 DEF AtHand

\* Statuses change, the invoices there are and their addresses do not.
LEMMA AddressesKeep ==
    ASSUME BillInv, UNCHANGED wallet,
           \A i \in Invoices : invoice'[i].address = invoice[i].address /\ (Live(i) <=> Live(i)'),
           \A s \in Sweeps : Hand(sweep'[s]) \subseteq AtHand(s)
    PROVE  Numbered' /\ Listed'
<1>1. Numbered'
  BY DEF BillInv, Numbered
<1>2. Listed'
  BY DEF BillInv, Listed, AtHand
<1> QED BY <1>1, <1>2

\* An invoice that is written again with another status.
LEMMA StatusIs ==
    ASSUME BillingTypeOK, NEW i \in Invoices, NEW status \in Statuses,
           invoice' = [invoice EXCEPT ![i].status = status]
    PROVE  /\ invoice' \in [Invoices -> [status : Statuses, address : (Wallets \X Nat) \cup {<<>>}]]
           /\ invoice'[i].status = status
           /\ \A j \in Invoices : invoice'[j].address = invoice[j].address
           /\ \A j \in Invoices \ {i} : invoice'[j] = invoice[j]
BY DEF BillingTypeOK

\* One more invoice is paid.
LEMMA PaidGrows ==
    ASSUME NEW T, NEW i, IsFiniteSet(Invoices), T \subseteq Invoices, i \notin T
    PROVE  Cardinality(T \cup {i}) = Cardinality(T) + 1
<1>1. IsFiniteSet(T)
  BY FS_Subset
<1> QED BY <1>1, FS_AddElement

LEMMA MarkPaidKeeps ==
    ASSUME BillInv, NEW s \in Sweeps, MarkPaid(s)
    PROVE  BillInv'
<1> DEFINE i == sweep[s].told.row.id
<1>1. sweep \in [Sweeps -> Sweeping] /\ BillingTypeOK
  BY SweepsAre DEF BillInv
<1>2. /\ i # 0 /\ invoice' = [invoice EXCEPT ![i].status = "paid"] /\ periods' = periods + 1
      /\ standing' = "active" /\ Written(s) /\ UNCHANGED <<wallet, quote, chain, age, noticed, overlapped>>
  BY DEF MarkPaid
<1>3. i \in Invoices /\ i \in AtHand(s)
  BY <1>1, <1>2, ToldIs DEF AtHand
<1>4. Live(i)
  BY <1>3 DEF BillInv, Listed
<1>5. "paid" \in Statuses
  BY DEF Statuses
<1> HIDE DEF i
<1>6. /\ invoice' \in [Invoices -> [status : Statuses, address : (Wallets \X Nat) \cup {<<>>}]]
      /\ invoice'[i].status = "paid"
      /\ \A j \in Invoices : invoice'[j].address = invoice[j].address
      /\ \A j \in Invoices \ {i} : invoice'[j] = invoice[j]
  BY <1>1, <1>2, <1>3, <1>5, StatusIs
<1>7. /\ sweep' \in [Sweeps -> Sweeping] /\ Apart'
      /\ \A t \in Sweeps : sweep'[t].running = sweep[t].running
      /\ \A t \in Sweeps : Hand(sweep'[t]) \subseteq AtHand(t)
      /\ i \notin Hand(sweep'[s])
  BY <1>2, WrittenIs DEF i
<1>8. BillingTypeOK'
  BY <1>1, <1>2, <1>6, <1>7 DEF BillingTypeOK, Sweeping
<1>9. Numbered' /\ Listed'
  <2>1. \A j \in Invoices : Live(j) <=> Live(j)'
    BY <1>4, <1>6 DEF Live
  <2> QED BY <1>2, <1>6, <1>7, <2>1, AddressesKeep
<1>10. ASSUME ~overlapped' PROVE Alone' /\ Unsettled' /\ periods' = Cardinality(Paid')
  <2>1. Alone /\ Unsettled /\ periods = Cardinality(Paid) /\ periods \in Nat
    BY <1>1, <1>2, <1>10 DEF BillInv, Once, BillingTypeOK
  <2>2. Paid' = Paid \cup {i}
    BY <1>3, <1>6 DEF Paid
  <2>3. i \notin Paid
    BY <1>3, <2>1 DEF Unsettled
  <2>4. IsFiniteSet(Invoices) /\ Paid \subseteq Invoices
    BY BillingAssumption DEF Paid
  <2>5. Cardinality(Paid') = Cardinality(Paid) + 1
    BY <2>2, <2>3, <2>4, PaidGrows
  <2>6. \A t \in Sweeps : sweep[t].running => t = s
    <3>1. Tidy(sweep[s]) /\ Hand(sweep[s]) # {}
      BY <1>3 DEF BillInv, Apart, AtHand
    <3>2. sweep[s].running
      BY <3>1 DEF Tidy
    <3> QED BY <2>1, <3>2 DEF Alone
  <2>7. \A t \in Sweeps \ {s} : AtHand(t) = {}
    BY <2>6 DEF BillInv, Apart, Tidy, AtHand
  <2>8. \A t \in Sweeps : i \notin Hand(sweep'[t])
    BY <1>7, <2>7
  <2>9. Unsettled'
    BY <1>7, <2>1, <2>2, <2>8 DEF Unsettled, AtHand
  <2>10. Alone'
    BY <1>7, <2>1 DEF Alone
  <2> QED BY <1>2, <2>1, <2>5, <2>9, <2>10
<1> QED BY <1>7, <1>8, <1>9, <1>10 DEF BillInv, Once

LEMMA RecordProgressKeeps ==
    ASSUME BillInv, NEW s \in Sweeps, RecordProgress(s)
    PROVE  BillInv'
<1> DEFINE i == sweep[s].told.row.id
           status == StatusAfter(s)
<1>1. sweep \in [Sweeps -> Sweeping] /\ BillingTypeOK
  BY SweepsAre DEF BillInv
<1>2. /\ i # 0 /\ invoice' = [invoice EXCEPT ![i].status = status]
      /\ Written(s) /\ UNCHANGED <<wallet, periods, standing, quote, chain, age, overlapped>>
      /\ noticed' = IF status = "detected" THEN noticed \cup {i} ELSE noticed
  BY DEF RecordProgress
<1>3. i \in Invoices /\ i \in AtHand(s)
  BY <1>1, <1>2, ToldIs DEF AtHand
<1>4. Live(i)
  BY <1>3 DEF BillInv, Listed
<1>5. /\ status \in Statuses /\ status # "none"
      /\ status = "paid" => invoice[i].status = "paid"
  BY <1>1, <1>3, <1>4 DEF StatusAfter, Statuses, Live, BillingTypeOK
<1> HIDE DEF i, status
<1>6. /\ invoice' \in [Invoices -> [status : Statuses, address : (Wallets \X Nat) \cup {<<>>}]]
      /\ invoice'[i].status = status
      /\ \A j \in Invoices : invoice'[j].address = invoice[j].address
      /\ \A j \in Invoices \ {i} : invoice'[j] = invoice[j]
  BY <1>1, <1>2, <1>3, <1>5, StatusIs
<1>7. /\ sweep' \in [Sweeps -> Sweeping] /\ Apart'
      /\ \A t \in Sweeps : sweep'[t].running = sweep[t].running
      /\ \A t \in Sweeps : Hand(sweep'[t]) \subseteq AtHand(t)
  BY <1>2, WrittenIs DEF i
<1>8. noticed' \subseteq Invoices
  BY <1>1, <1>2, <1>3 DEF BillingTypeOK
<1>9. BillingTypeOK'
  BY <1>1, <1>2, <1>6, <1>7, <1>8 DEF BillingTypeOK, Sweeping
<1>10. Numbered' /\ Listed'
  <2>1. \A j \in Invoices : Live(j) <=> Live(j)'
    BY <1>4, <1>5, <1>6 DEF Live
  <2> QED BY <1>2, <1>6, <1>7, <2>1, AddressesKeep
<1>11. ASSUME ~overlapped' PROVE Alone' /\ Unsettled' /\ periods' = Cardinality(Paid')
  <2>1. Alone /\ Unsettled /\ periods = Cardinality(Paid)
    BY <1>2, <1>11 DEF BillInv, Once
  <2>2. i \notin Paid
    BY <1>3, <2>1 DEF Unsettled
  <2>3. Paid' = Paid
    BY <1>3, <1>5, <1>6, <2>2 DEF Paid
  <2>4. Alone' /\ Unsettled'
    BY <1>7, <2>1, <2>3 DEF Alone, Unsettled, AtHand
  <2> QED BY <1>2, <2>1, <2>3, <2>4
<1> QED BY <1>7, <1>9, <1>10, <1>11 DEF BillInv, Once

\* The index is the next one, and with it the invoice's address is new.
LEMMA CreateInvoiceKeeps ==
    ASSUME BillInv, NEW i \in Invoices, CreateInvoice(i)
    PROVE  BillInv'
<1> DEFINE new == [status |-> "pending", address |-> <<quote, wallet.nextIndex>>]
<1>1. BillingTypeOK /\ wallet.nextIndex \in Nat
  BY DEF BillInv, BillingTypeOK
<1>2. /\ quote # <<>> /\ invoice[i].status = "none"
      /\ wallet' = [wallet EXCEPT !.nextIndex = @ + 1] /\ invoice' = [invoice EXCEPT ![i] = new]
      /\ quote' = <<>> /\ UNCHANGED <<periods, standing, chain, age, sweep, noticed, overlapped>>
  BY DEF CreateInvoice, DeriveAddress, ReserveIndex
<1>3. quote \in Wallets
  BY <1>1, <1>2 DEF BillingTypeOK
<1>4. /\ new \in [status : Statuses, address : (Wallets \X Nat) \cup {<<>>}]
      /\ new.status = "pending" /\ new.address = <<quote, wallet.nextIndex>>
  BY <1>1, <1>3 DEF Statuses
<1> HIDE DEF new
<1>5. invoice'[i] = new /\ \A j \in Invoices \ {i} : invoice'[j] = invoice[j]
  BY <1>1, <1>2 DEF BillingTypeOK
<1>6. /\ wallet' \in [key : Wallets, enabled : BOOLEAN, nextIndex : Nat]
      /\ wallet'.nextIndex = wallet.nextIndex + 1
  BY <1>1, <1>2 DEF BillingTypeOK
<1>7. invoice' \in [Invoices -> [status : Statuses, address : (Wallets \X Nat) \cup {<<>>}]]
  BY <1>1, <1>2, <1>4 DEF BillingTypeOK
<1>8. BillingTypeOK'
  BY <1>1, <1>2, <1>6, <1>7 DEF BillingTypeOK
<1>9. /\ new.address \in Wallets \X Nat /\ new.address[2] = wallet.nextIndex
      /\ \A j \in Invoices \ {i} : Live(j)' <=> Live(j)
  BY <1>1, <1>3, <1>4, <1>5 DEF Live
<1>10. Numbered'
  <2>1. ASSUME NEW j \in Invoices, Live(j)'
        PROVE  invoice'[j].address \in Wallets \X Nat /\ invoice'[j].address[2] < wallet'.nextIndex
    BY <1>1, <1>5, <1>6, <1>9, <2>1 DEF BillInv, Numbered
  <2>2. ASSUME NEW j \in Invoices, NEW k \in Invoices, j # k, Live(j)', Live(k)'
        PROVE  invoice'[j].address[2] # invoice'[k].address[2]
    <3>1. \A l \in Invoices : Live(l) => invoice[l].address[2] \in Nat /\ invoice[l].address[2] < wallet.nextIndex
      BY DEF BillInv, Numbered
    <3> QED BY <1>1, <1>5, <1>9, <2>2, <3>1 DEF BillInv, Numbered
  <2> QED BY <2>1, <2>2 DEF Numbered
<1>11. Listed'
  <2>1. \A s \in Sweeps : i \notin AtHand(s)
    BY <1>2 DEF BillInv, Listed, Live
  <2>2. \A s \in Sweeps : AtHand(s)' = AtHand(s)
    BY <1>2 DEF AtHand
  <2> QED BY <1>9, <2>1, <2>2 DEF BillInv, Listed
<1>12. Apart'
  BY <1>2 DEF BillInv, Apart
<1>13. Paid' = Paid
  BY <1>2, <1>4, <1>5 DEF Paid
<1>14. Once'
  BY <1>2, <1>13 DEF BillInv, Once, Alone, Unsettled, AtHand
<1> QED BY <1>8, <1>10, <1>11, <1>12, <1>14 DEF BillInv

LEMMA ExpireInvoicesKeeps ==
    ASSUME BillInv, ExpireInvoices
    PROVE  BillInv'
<1> DEFINE T == [status : Statuses, address : (Wallets \X Nat) \cup {<<>>}]
<1>1. BillingTypeOK /\ \A i \in Invoices : invoice[i] \in T
  BY DEF BillInv, BillingTypeOK
<1>2. /\ invoice' = [i \in Invoices |->
                       IF i \in Expirable THEN [invoice[i] EXCEPT !.status = "expired"] ELSE invoice[i]]
      /\ UNCHANGED <<wallet, periods, standing, quote, chain, age, sweep, noticed, overlapped>>
  BY DEF ExpireInvoices
<1>3. ASSUME NEW i \in Invoices
      PROVE  /\ invoice'[i] \in T /\ invoice'[i].address = invoice[i].address
             /\ Live(i) <=> Live(i)'
             /\ invoice'[i].status = "paid" <=> invoice[i].status = "paid"
  BY <1>1, <1>2 DEF Expirable, Statuses, Live
<1>4. invoice' \in [Invoices -> T]
  BY <1>2, <1>3
<1>5. BillingTypeOK'
  BY <1>1, <1>2, <1>4 DEF BillingTypeOK
<1>6. Numbered' /\ Listed'
  BY <1>2, <1>3, AddressesKeep DEF AtHand
<1>7. Apart'
  BY <1>2 DEF BillInv, Apart
<1>8. Paid' = Paid
  BY <1>3 DEF Paid
<1>9. Once'
  BY <1>2, <1>8 DEF BillInv, Once, Alone, Unsettled, AtHand
<1> QED BY <1>5, <1>6, <1>7, <1>9 DEF BillInv

-----------------------------------------------------------------------------

\* The operator's other steps, the payer's, the blocks' and the time's leave the
\* invoices and the sweeps alone.
LEMMA Untouched ==
    ASSUME BillInv, BillingTypeOK', wallet'.nextIndex = wallet.nextIndex,
           UNCHANGED <<invoice, sweep, periods, overlapped>>
    PROVE  BillInv'
<1>1. Numbered' /\ Listed' /\ Apart'
  BY DEF BillInv, Numbered, Listed, Apart, AtHand, Live
<1>2. Once'
  BY DEF BillInv, Once, Alone, Unsettled, AtHand, Paid
<1> QED BY <1>1, <1>2 DEF BillInv

LEMMA OthersKeep ==
    ASSUME BillInv, Funded,
           \/ ConfigureWallet \/ SuspendHousehold \/ QuoteInvoice \/ UNCHANGED billingVars
           \/ \E i \in Invoices : Confirm(i)
           \/ \E i \in Payable : GrowOld(i) \/ \E n \in 1..Owed : Pay(i, n)
    PROVE  BillInv'
<1>1. BillingTypeOK /\ Payable \subseteq Invoices /\ Owed \in Nat
  BY BillingAssumption DEF BillInv
<1>2. CASE ConfigureWallet
  <2>1. /\ wallet' \in [key : Wallets, enabled : BOOLEAN, nextIndex : Nat]
        /\ wallet'.nextIndex = wallet.nextIndex
    BY <1>1, <1>2 DEF ConfigureWallet, BillingTypeOK
  <2>2. UNCHANGED <<invoice, periods, standing, quote, chain, age, sweep, noticed, overlapped>>
    BY <1>2 DEF ConfigureWallet, books
  <2>3. BillingTypeOK'
    BY <1>1, <2>1, <2>2 DEF BillingTypeOK
  <2> QED BY <2>1, <2>2, <2>3, Untouched
<1>3. CASE SuspendHousehold
  <2>1. BillingTypeOK' /\ UNCHANGED <<wallet, invoice, sweep, periods, overlapped>>
    BY <1>1, <1>3 DEF SuspendHousehold, BillingTypeOK
  <2> QED BY <2>1, Untouched
<1>4. CASE QuoteInvoice
  <2>1. UNCHANGED <<wallet, invoice, periods, standing, chain, age, sweep, noticed, overlapped>>
        /\ quote' \in Wallets
    BY <1>1, <1>4 DEF QuoteInvoice, tables, books, BillingTypeOK
  <2>2. BillingTypeOK'
    BY <1>1, <2>1 DEF BillingTypeOK
  <2> QED BY <2>1, <2>2, Untouched
<1>5. ASSUME NEW i \in Invoices, Confirm(i) PROVE BillInv'
  <2>1. UNCHANGED <<wallet, invoice, periods, standing, quote, age, sweep, noticed, overlapped>>
    BY <1>5 DEF Confirm, tables, books
  <2>2. chain' \in [Invoices -> Receipts]
    <3>1. chain[i] \in Receipts /\ chain \in [Invoices -> Receipts]
      BY <1>1 DEF BillingTypeOK
    <3>2. chain' = [chain EXCEPT ![i] = [confirmed |-> chain[i].confirmed + chain[i].pending, pending |-> 0]]
      BY <1>5 DEF Confirm
    <3>3. chain[i].confirmed + chain[i].pending \in 0..Owed
      BY <1>1, <3>1 DEF Receipts, Funded
    <3> QED BY <1>1, <3>1, <3>2, <3>3 DEF Receipts
  <2>3. BillingTypeOK'
    BY <1>1, <2>1, <2>2 DEF BillingTypeOK
  <2> QED BY <2>1, <2>3, Untouched
<1>6. ASSUME NEW i \in Payable, GrowOld(i) PROVE BillInv'
  <2>1. UNCHANGED <<wallet, invoice, periods, standing, quote, chain, sweep, noticed, overlapped>>
        /\ age' \in [Invoices -> {"open", "late", "gone"}]
    BY <1>1, <1>6 DEF GrowOld, tables, books, BillingTypeOK
  <2>2. BillingTypeOK'
    BY <1>1, <2>1 DEF BillingTypeOK
  <2> QED BY <2>1, <2>2, Untouched
<1>7. ASSUME NEW i \in Payable, NEW n \in 1..Owed, Pay(i, n) PROVE BillInv'
  <2>1. UNCHANGED <<wallet, invoice, periods, standing, quote, age, sweep, noticed, overlapped>>
    BY <1>7 DEF Pay, tables, books
  <2>2. chain' \in [Invoices -> Receipts]
    <3>1. chain[i] \in Receipts /\ chain \in [Invoices -> Receipts] /\ i \in Invoices
      BY <1>1 DEF BillingTypeOK
    <3>2. chain' = [chain EXCEPT ![i].pending = @ + n] /\ chain[i].confirmed + chain[i].pending + n <= Owed
      BY <1>7 DEF Pay
    <3>3. chain[i].pending + n \in 0..Owed
      BY <1>1, <3>1, <3>2 DEF Receipts
    <3> QED BY <3>1, <3>2, <3>3 DEF Receipts
  <2>3. BillingTypeOK'
    BY <1>1, <2>1, <2>2 DEF BillingTypeOK
  <2> QED BY <2>1, <2>3, Untouched
<1>8. CASE UNCHANGED billingVars
  <2>1. UNCHANGED <<wallet, invoice, periods, standing, quote, chain, age, sweep, noticed, overlapped>>
    BY <1>8 DEF billingVars, tables, books
  <2>2. BillingTypeOK'
    BY <1>1, <2>1 DEF BillingTypeOK
  <2> QED BY <2>1, <2>2, Untouched
<1> QED BY <1>2, <1>3, <1>4, <1>5, <1>6, <1>7, <1>8

LEMMA BillingInitially == BillingInit => BillInv /\ Funded
<1> SUFFICES ASSUME BillingInit PROVE BillInv /\ Funded
  OBVIOUS
<1> USE DEF BillingInit
<1>1. Unpaid \in Receipts /\ Owed \in Nat
  BY BillingAssumption DEF Unpaid, Receipts
<1>2. sweep \in [Sweeps -> Sweeping] /\ \A s \in Sweeps : sweep[s] = Resting
  BY RestingIs
<1>3. invoice \in [Invoices -> [status : Statuses, address : (Wallets \X Nat) \cup {<<>>}]]
  BY DEF Statuses
<1>4. BillingTypeOK
  <2>1. wallet \in [key : Wallets, enabled : BOOLEAN, nextIndex : Nat]
    <3>1. PICK key \in Wallets : wallet = [key |-> key, enabled |-> TRUE, nextIndex |-> 0]
      <4>1. wallet = [key |-> wallet.key, enabled |-> wallet.enabled, nextIndex |-> wallet.nextIndex]
        OBVIOUS
      <4>2. wallet.key \in Wallets /\ wallet.enabled = TRUE /\ wallet.nextIndex = 0
        OBVIOUS
      <4> QED BY <4>1, <4>2
    <3>2. TRUE \in BOOLEAN /\ 0 \in Nat
      OBVIOUS
    <3> HIDE DEF BillingInit
    <3> QED BY <3>1, <3>2
  <2>2. chain \in [Invoices -> Receipts] /\ age \in [Invoices -> {"open", "late", "gone"}]
    BY <1>1
  <2>3. noticed \subseteq Invoices /\ (overlapped \in BOOLEAN) /\ quote \in Wallets \cup {<<>>}
        /\ periods \in Nat /\ standing \in {"active", "suspended"}
    OBVIOUS
  <2> QED BY <1>2, <1>3, <2>1, <2>2, <2>3 DEF BillingTypeOK, Sweeping
<1>5. \A i \in Invoices : ~Live(i) /\ invoice[i].status # "paid"
  BY DEF Live
<1>6. Numbered /\ Listed /\ Apart /\ Alone /\ Unsettled
  BY <1>2, <1>5, RestingIs DEF Numbered, Listed, Apart, Alone, Unsettled, AtHand
<1>7. Paid = {}
  BY <1>5 DEF Paid
<1>8. periods = Cardinality(Paid)
  BY <1>7, FS_EmptySet
<1>9. Funded
  BY <1>1 DEF Funded, Unpaid
<1> QED BY <1>4, <1>6, <1>8, <1>9 DEF BillInv, Once

\* A payment is confirmed once.
LEMMA FundedStep == BillInv /\ Funded /\ [BillingNext]_billingVars => Funded'
<1> SUFFICES ASSUME BillInv, Funded, [BillingNext]_billingVars PROVE Funded'
  OBVIOUS
<1>1. chain \in [Invoices -> Receipts] /\ Payable \subseteq Invoices /\ Owed \in Nat
  BY BillingAssumption DEF BillInv, BillingTypeOK
<1>2. ASSUME NEW i \in Invoices, Confirm(i) PROVE Funded'
  <2>1. chain' = [chain EXCEPT ![i] = [confirmed |-> chain[i].confirmed + chain[i].pending, pending |-> 0]]
    BY <1>2 DEF Confirm
  <2>2. chain[i].confirmed \in Nat /\ chain[i].pending \in Nat
    BY <1>1 DEF Receipts
  <2>3. chain'[i].confirmed + chain'[i].pending <= Owed
    BY <1>1, <2>1, <2>2 DEF Funded
  <2> QED BY <1>1, <2>1, <2>3 DEF Funded
<1>3. ASSUME NEW i \in Payable, NEW n \in 1..Owed, Pay(i, n) PROVE Funded'
  <2>1. chain' = [chain EXCEPT ![i].pending = @ + n] /\ chain[i].confirmed + chain[i].pending + n <= Owed
    BY <1>3 DEF Pay
  <2>2. chain[i] \in Receipts /\ i \in Invoices
    BY <1>1
  <2>3. chain'[i].confirmed = chain[i].confirmed /\ chain'[i].pending = chain[i].pending + n
    BY <1>1, <2>1, <2>2 DEF Receipts
  <2>4. chain'[i].confirmed + chain'[i].pending <= Owed
    BY <1>1, <2>1, <2>2, <2>3 DEF Receipts
  <2> QED BY <1>1, <2>1, <2>4 DEF Funded
<1>4. UNCHANGED chain => Funded'
  BY DEF Funded
<1>5. ASSUME NEW s \in Sweeps, SweepStep(s) PROVE UNCHANGED chain
  BY <1>5 DEF SweepStep, StartSweep, SkipInvoice, CheckAddress, MarkPaid, RecordProgress, EndSweep
<1>6. ASSUME NEW i \in Invoices, CreateInvoice(i) PROVE UNCHANGED chain
  BY <1>6 DEF CreateInvoice
<1>7. ASSUME NEW i \in Payable, GrowOld(i) PROVE UNCHANGED chain
  BY <1>7 DEF GrowOld
<1>8. ConfigureWallet \/ SuspendHousehold \/ QuoteInvoice \/ ExpireInvoices \/ StopServer
      \/ UNCHANGED billingVars => UNCHANGED chain
  BY DEF ConfigureWallet, SuspendHousehold, QuoteInvoice, ExpireInvoices, StopServer, billingVars
<1> QED BY <1>2, <1>3, <1>4, <1>5, <1>6, <1>7, <1>8 DEF BillingNext

LEMMA BillingStep == BillInv /\ Funded /\ [BillingNext]_billingVars => BillInv'
<1> SUFFICES ASSUME BillInv, Funded, [BillingNext]_billingVars PROVE BillInv'
  OBVIOUS
<1>1. ASSUME NEW s \in Sweeps, SweepStep(s) PROVE BillInv'
  BY <1>1, StartSweepKeeps, SkipInvoiceKeeps, CheckAddressKeeps, MarkPaidKeeps,
     RecordProgressKeeps, EndSweepKeeps DEF SweepStep
<1>2. CASE StopServer
  BY <1>2, StopServerKeeps
<1>3. CASE ExpireInvoices
  BY <1>3, ExpireInvoicesKeeps
<1>4. ASSUME NEW i \in Invoices, CreateInvoice(i) PROVE BillInv'
  BY <1>4, CreateInvoiceKeeps
<1> QED BY <1>1, <1>2, <1>3, <1>4, OthersKeep DEF BillingNext

-----------------------------------------------------------------------------

\* Two invoices never show a payer the same address, whatever the operator does
\* to the wallet while one is being written: next_index is taken and increased in
\* one statement, inside the transaction (services/billing.js).
THEOREM AddressesStayFresh == BillingSpec => []AddressesAreFresh
<1>1. BillInv => AddressesAreFresh
  BY DEF BillInv, Numbered, Live, AddressesAreFresh
<1> QED BY <1>1, BillingInitially, BillingStep, FundedStep, PTL DEF BillingSpec

\* As long as one sweep ends before the next begins, each paid invoice has
\* extended its subscription once: also when the server stops in the middle of a
\* sweep, or the node's answer is old when it is written down
\* (services/billing.js, jobs/maintenance.js).
THEOREM OncePerInvoice == BillingSpec => []ExtendedOncePerInvoice
<1>1. BillInv => ExtendedOncePerInvoice
  BY DEF BillInv, Once, Paid, ExtendedOncePerInvoice
<1> QED BY <1>1, BillingInitially, BillingStep, FundedStep, PTL DEF BillingSpec

\* Both together, which is what keeps one invoice's money from counting for
\* another (services/billing.js).
THEOREM InvoicesApart == BillingSpec => []InvoicesStandApart
<1>1. AddressesAreFresh /\ ExtendedOncePerInvoice => InvoicesStandApart
  BY DEF InvoicesStandApart
<1> QED BY <1>1, AddressesStayFresh, OncePerInvoice, PTL

=============================================================================

------------------------------- MODULE Billing -------------------------------
(***************************************************************************)
(* Invoices in a coin, each with an address of its own, watched for        *)
(* payment: server/src/services/billing.js   createInvoice,                *)
(* checkPendingInvoices, markPaid server/src/jobs/maintenance.js           *)
(* expireInvoices, and the tick that starts a sweep without waiting for    *)
(* the one before server/src/routes/admin.js       wallets, invoices,      *)
(* check-now, and suspending a household A sweep lists the open invoices,  *)
(* asks a node about each of them and then writes what it was told; the    *)
(* node, the payers and the time run on in between.  One asset stands for  *)
(* the three.                                                              *)
(***************************************************************************)
EXTENDS Naturals, FiniteSets

CONSTANTS
    Invoices,   \* ids an invoice may be given
    Sweeps,     \* sweeps at a time: the ticks of maintenance and check-now
    Wallets,    \* extended public keys an operator may configure
    Owed,       \* what an invoice asks for, in units a payment can be split in
    Payable     \* bound: the invoices that are paid into and grow old

ASSUME BillingAssumption ==
    /\ Owed \in Nat \ {0}
    /\ IsFiniteSet(Invoices) /\ 0 \notin Invoices /\ Payable \subseteq Invoices

VARIABLES
    wallet,     \* wallet_config: the key, whether it is enabled, next_index
    invoice,    \* invoices, by id
    quote,      \* the configuration createInvoice read before its transaction
    chain,      \* per invoice, what has arrived at its address
    age,        \* "open" until expires_at, "late" for 24 hours, then "gone"
    sweep,      \* the sweeps in progress
    periods,    \* subscriptions: plan intervals added to current_period_end
    standing,   \* households.status
    noticed,    \* auxiliary: the invoices that have ever been detected
    overlapped  \* auxiliary: two sweeps have run at a time

books == <<invoice, periods, standing>>
tables == <<wallet, books>>
billingVars == <<tables, quote, chain, age, sweep, noticed, overlapped>>

Unpaid == [confirmed |-> 0, pending |-> 0]
NoRow == [id |-> 0, status |-> "none"]
Resting == [running |-> FALSE, rows |-> {}, told |-> [row |-> NoRow, seen |-> Unpaid]]

Statuses == {"none", "pending", "detected", "paid", "underpaid", "expired"}
Receipts == [confirmed : 0..Owed, pending : 0..Owed]
Rows == [id : Invoices, status : {"pending", "detected"}]

BillingTypeOK ==
    /\ wallet \in [key : Wallets, enabled : BOOLEAN, nextIndex : Nat]
    /\ invoice \in [Invoices -> [status : Statuses, address : (Wallets \X Nat) \cup {<<>>}]]
    /\ quote \in Wallets \cup {<<>>}
    /\ chain \in [Invoices -> Receipts]
    /\ age \in [Invoices -> {"open", "late", "gone"}]
    /\ sweep \in [Sweeps -> [running : BOOLEAN, rows : SUBSET Rows,
                             told : [row : Rows \cup {NoRow}, seen : Receipts]]]
    /\ periods \in Nat
    /\ standing \in {"active", "suspended"}
    /\ noticed \subseteq Invoices
    /\ overlapped \in BOOLEAN

BillingInit ==
    /\ wallet \in [key : Wallets, enabled : {TRUE}, nextIndex : {0}]
    /\ invoice = [i \in Invoices |-> [status |-> "none", address |-> <<>>]]
    /\ quote = <<>>
    /\ chain = [i \in Invoices |-> Unpaid]
    /\ age = [i \in Invoices |-> "open"]
    /\ sweep = [s \in Sweeps |-> Resting]
    /\ periods = 0
    /\ standing = "active"
    /\ noticed = {}
    /\ overlapped = FALSE

-----------------------------------------------------------------------------
(* The operator.                                                           *)

\* A field left out keeps its value, except enabled, which becomes false.
ConfigureWallet ==
    /\ \E key \in Wallets, enabled \in BOOLEAN :
          wallet' = [wallet EXCEPT !.key = key, !.enabled = enabled]
    /\ UNCHANGED <<books, quote, chain, age, sweep, noticed, overlapped>>

SuspendHousehold ==
    /\ standing = "active"
    /\ standing' = "suspended"
    /\ UNCHANGED <<wallet, invoice, periods, quote, chain, age, sweep, noticed, overlapped>>

\* The configuration is read, and after it the plan and the rates ...
QuoteInvoice ==
    /\ quote = <<>> /\ wallet.enabled
    /\ \E i \in Invoices : invoice[i].status = "none"
    /\ quote' = wallet.key
    /\ UNCHANGED <<tables, chain, age, sweep, noticed, overlapped>>

\* Mutant: the index is the number of invoices there are.
IndexByCount == Cardinality({i \in Invoices : invoice[i].status \in {"pending", "detected"}})

\* UPDATE wallet_config SET next_index = next_index + 1 RETURNING next_index - 1
ReserveIndex == wallet.nextIndex

DeriveAddress(key, index) == <<key, index>>

\* ... and the invoice is written with an index reserved in its transaction.
CreateInvoice(i) ==
    /\ quote # <<>>
    /\ invoice[i].status = "none"
    /\ wallet' = [wallet EXCEPT !.nextIndex = @ + 1]
    /\ invoice' = [invoice EXCEPT ![i] =
                     [status |-> "pending", address |-> DeriveAddress(quote, ReserveIndex)]]
    /\ quote' = <<>>
    /\ UNCHANGED <<periods, standing, chain, age, sweep, noticed, overlapped>>

-----------------------------------------------------------------------------
(* The payer, the blocks and the time.                                     *)

Pay(i, amount) ==
    /\ invoice[i].status # "none"
    /\ chain[i].confirmed + chain[i].pending + amount <= Owed
    /\ chain' = [chain EXCEPT ![i].pending = @ + amount]
    /\ UNCHANGED <<tables, quote, age, sweep, noticed, overlapped>>

Confirm(i) ==
    /\ chain[i].pending > 0
    /\ chain' = [chain EXCEPT ![i] = [confirmed |-> @.confirmed + @.pending, pending |-> 0]]
    /\ UNCHANGED <<tables, quote, age, sweep, noticed, overlapped>>

\* The hour or so an invoice lives for, and the day after it: both pass whether or
\* not a node has answered in the meantime.
GrowOld(i) ==
    /\ invoice[i].status # "none" /\ age[i] # "gone"
    /\ age' = [age EXCEPT ![i] = IF @ = "open" THEN "late" ELSE "gone"]
    /\ UNCHANGED <<tables, quote, chain, sweep, noticed, overlapped>>

\* Mutant: detected invoices expire too.
ExpireOpen == {i \in Invoices : invoice[i].status \in {"pending", "detected"} /\ age[i] # "open"}

\* WHERE status = 'pending' AND expires_at < now()
Expirable == {i \in Invoices : invoice[i].status = "pending" /\ age[i] # "open"}

ExpireInvoices ==
    /\ Expirable # {}
    /\ invoice' = [i \in Invoices |->
                     IF i \in Expirable THEN [invoice[i] EXCEPT !.status = "expired"] ELSE invoice[i]]
    /\ UNCHANGED <<wallet, periods, standing, quote, chain, age, sweep, noticed, overlapped>>

-----------------------------------------------------------------------------
(* A sweep.                                                                *)

Watched == {i \in Invoices : invoice[i].status \in {"pending", "detected"} /\ age[i] # "gone"}

\* The tick does not wait for the sweep before it.
StartSweep(s) ==
    /\ ~sweep[s].running /\ Watched # {}
    /\ sweep' = [sweep EXCEPT ![s] =
                   [Resting EXCEPT !.running = TRUE,
                                   !.rows = {[id |-> i, status |-> invoice[i].status] : i \in Watched}]]
    /\ overlapped' = (overlapped \/ \E t \in Sweeps : sweep[t].running)
    /\ UNCHANGED <<tables, quote, chain, age, noticed>>

\* ORDER BY created_at
Older(i, j) == invoice[i].address[2] < invoice[j].address[2]
NextRow(s) == CHOOSE w \in sweep[s].rows : \A v \in sweep[s].rows : ~Older(v.id, w.id)
Between(s) == sweep[s].running /\ sweep[s].told = Resting.told

\* A payment method switched off is skipped, and so is a node that fails.
SkipInvoice(s) ==
    /\ Between(s) /\ sweep[s].rows # {}
    /\ sweep' = [sweep EXCEPT ![s].rows = @ \ {NextRow(s)}]
    /\ UNCHANGED <<tables, quote, chain, age, noticed, overlapped>>

\* checkAddress: the node's answer, as old as the rest of the iteration is slow.
CheckAddress(s) ==
    /\ Between(s) /\ sweep[s].rows # {} /\ wallet.enabled
    /\ sweep' = [sweep EXCEPT ![s].rows = @ \ {NextRow(s)},
                              ![s].told = [row |-> NextRow(s), seen |-> chain[NextRow(s).id]]]
    /\ UNCHANGED <<tables, quote, chain, age, noticed, overlapped>>

\* Mutant: an invoice that is settled stays at hand and is settled again.
StillAtHand(s) == UNCHANGED sweep

Written(s) == sweep' = [sweep EXCEPT ![s].told = Resting.told]

Settles(seen) == seen.confirmed >= Owed

\* One transaction: the invoice unless it is paid already, the subscription and
\* the household in any case.
MarkPaid(s) ==
    LET i == sweep[s].told.row.id IN
    /\ i # 0 /\ Settles(sweep[s].told.seen)
    /\ invoice' = [invoice EXCEPT ![i].status = "paid"]
    /\ periods' = periods + 1
    /\ standing' = "active"
    /\ Written(s)
    /\ UNCHANGED <<wallet, quote, chain, age, noticed, overlapped>>

StatusAfter(s) ==
    LET told == sweep[s].told IN
    IF told.seen.confirmed > 0 THEN "underpaid"
    ELSE IF told.seen.pending > 0 /\ told.row.status = "pending" THEN "detected"
    ELSE invoice[told.row.id].status

\* Less than is owed, or nothing confirmed yet: UPDATE ... WHERE id, whatever
\* the invoice has become since it was listed.
RecordProgress(s) ==
    LET i == sweep[s].told.row.id IN
    /\ i # 0 /\ ~Settles(sweep[s].told.seen)
    /\ invoice' = [invoice EXCEPT ![i].status = StatusAfter(s)]
    /\ Written(s)
    /\ noticed' = IF StatusAfter(s) = "detected" THEN noticed \cup {i} ELSE noticed
    /\ UNCHANGED <<wallet, periods, standing, quote, chain, age, overlapped>>

EndSweep(s) ==
    /\ Between(s) /\ sweep[s].rows = {}
    /\ sweep' = [sweep EXCEPT ![s] = Resting]
    /\ UNCHANGED <<tables, quote, chain, age, noticed, overlapped>>

\* The process stops; what was told and not written has to be asked again.
StopServer ==
    /\ \E s \in Sweeps : sweep[s].running
    /\ sweep' = [s \in Sweeps |-> Resting]
    /\ UNCHANGED <<tables, quote, chain, age, noticed, overlapped>>

-----------------------------------------------------------------------------

SweepStep(s) ==
    \/ StartSweep(s) \/ SkipInvoice(s) \/ CheckAddress(s)
    \/ MarkPaid(s) \/ RecordProgress(s) \/ EndSweep(s)

BillingNext ==
    \/ ConfigureWallet \/ SuspendHousehold \/ QuoteInvoice
    \/ \E i \in Invoices :
          CreateInvoice(i) \/ Confirm(i)
    \/ \E i \in Payable : GrowOld(i) \/ \E n \in 1..Owed : Pay(i, n)
    \/ ExpireInvoices
    \/ \E s \in Sweeps : SweepStep(s)
    \/ StopServer

BillingSpec == BillingInit /\ [][BillingNext]_billingVars

LooksAt(s, i) == sweep'[s].told.row.id = i

\* The interval starts sweeps and their promises settle (a sweep has one step at a
\* time it can take), a node that is asked about an invoice again and again answers
\* at times, and the server is not restarted for ever.
BillingFairness ==
    /\ \A s \in Sweeps :
          /\ WF_billingVars(SweepStep(s))
          /\ \A i \in Payable : SF_billingVars(CheckAddress(s) /\ LooksAt(s, i))
    /\ <>[][~StopServer]_billingVars

-----------------------------------------------------------------------------
(* Properties.                                                             *)

\* No two invoices share an address, whatever the operator does to the wallet
\* between the quote and the transaction: payments would be indistinguishable.
AddressesAreFresh ==
    \A i, j \in Invoices :
        i # j /\ invoice[i].status # "none" /\ invoice[j].status # "none"
        => invoice[i].address # invoice[j].address

\* As long as no two sweeps ran at a time, a subscription has been extended once
\* for each paid invoice: restarts in mid-sweep and answers grown old included.
ExtendedOncePerInvoice ==
    ~overlapped => periods = Cardinality({i \in Invoices : invoice[i].status = "paid"})

\* Both: what a payer is asked for and what is paid for are told apart by invoice.
InvoicesStandApart == AddressesAreFresh /\ ExtendedOncePerInvoice

\* "Silently discarding someone's money is unacceptable" (billing.js:258): money
\* confirmed for an open invoice is written down as the payment or as a part of it,
\* unless the operator switches the method off, the day after the invoice's hour is
\* over before a node answers, or the invoice expires without ever having been
\* detected.  An invoice that was detected keeps its day: no expiry takes it.
PaymentRecorded(i) == invoice[i].status \in {"paid", "underpaid"}
ExpiredUnnoticed(i) == invoice[i].status = "expired" /\ i \notin noticed

NoMoneyGoesUnrecorded ==
    \A i \in Invoices :
        chain[i].confirmed > 0 /\ invoice[i].status \in {"pending", "detected"}
        ~> PaymentRecorded(i) \/ ExpiredUnnoticed(i) \/ age[i] = "gone" \/ ~wallet.enabled

=============================================================================

------------------------------ MODULE Payables ------------------------------
(***************************************************************************)
(* The foreign-currency accounts-payable subledger: purchase bills,        *)
(* supplier payments with their direct and later ("unapplied") allocations,*)
(* debit-note allocations, and the period-end FX revaluation that gives a  *)
(* bill a carrying layer (FxMonetaryBalance) beside its source balance.    *)
(*                                                                         *)
(* Bills and payments are in one foreign currency.  Every open amount is   *)
(* kept twice, in the transaction currency and in the base currency, both  *)
(* counted in units of the last decimal place that roundMoney keeps.  A    *)
(* rate is a natural over RateScale.                                       *)
(*                                                                         *)
(* As in Receivables, a handler that decides on rows it read before it     *)
(* locked them is a ...Read and a ...Commit action, and Abort is every     *)
(* other way a transaction ends.  FxCarryingBalanceService locks the bill  *)
(* row (FOR UPDATE) before it reads the layer, and revaluations are        *)
(* SERIALIZABLE and lock the same rows: from that lock to the commit a     *)
(* handler is one step.  Drafts, supplier refunds (refused in a foreign    *)
(* currency) and the refusal of back-dated revaluations are left out.      *)
(***************************************************************************)
EXTENDS Integers, Sequences, SequencesExt, Totals

CONSTANTS
    Bills,          \* ids of PurchaseBill rows
    Payments,       \* ids of SupplierPayment rows; also their idempotency keys
    Allocations,    \* ids of SupplierPaymentUnappliedAllocation rows
    DebitNotes,     \* ids of PurchaseDebitNote rows
    DebitAllocations, \* ids of PurchaseDebitNoteAllocation rows
    Runs,           \* ids of FxRevaluationRun rows
    Workers,        \* requests the API serves at the same time
    Amounts,        \* amounts of payments and of what they settle
    BillTotals,     \* transaction totals of bills
    DebitTotals,    \* base totals and applied amounts of debit notes
    BillRates,      \* exchange rates of bills, over RateScale
    PaymentRates,   \* of payments
    ClosingRates,   \* of revaluations
    RateScale,
    BillDates,      \* days of bills: the later of billDate and finalizedAt
    Dates,          \* revaluation dates
    None            \* a null reference

ASSUME FiniteRows ==
    /\ IsFiniteSet(Bills) /\ IsFiniteSet(Payments)
    /\ IsFiniteSet(Allocations) /\ IsFiniteSet(DebitNotes)
    /\ IsFiniteSet(DebitAllocations)

ASSUME Positive ==
    /\ Amounts \cup BillTotals \cup DebitTotals \subseteq Nat \ {0}
    /\ BillRates \cup PaymentRates \cup ClosingRates \subseteq Nat \ {0}
    /\ RateScale \in Nat \ {0}
    /\ Dates \cup BillDates \subseteq Nat

\* Rows of different tables never share an id.
ASSUME IdsDistinct == Payments \cap (Bills \cup Allocations) = {}

ASSUME NoneIsNoRow == None \notin Bills \cup Payments \cup DebitNotes \cup Runs

VARIABLES
    bill,           \* PurchaseBill rows
    payment,        \* SupplierPayment rows with their direct allocations
    allocation,     \* SupplierPaymentUnappliedAllocation rows
    debitNote,      \* PurchaseDebitNote rows
    debitAllocation, \* PurchaseDebitNoteAllocation rows
    layer,          \* FxMonetaryBalance row of each bill, or NoLayer
    run,            \* FxRevaluationRun rows with their lines
    payable,        \* net credit that posted journals leave on account 210
    request         \* what each worker keeps from the reads of its handler

vars == <<bill, payment, allocation, debitNote, debitAllocation, layer, run,
          payable, request>>

rows == <<bill, payment, allocation, debitNote, debitAllocation, layer, run,
          payable>>

-----------------------------------------------------------------------------
(* Rows. *)

Bill == [status: {"NONE", "FINALIZED", "VOIDED"}, date: Nat, rate: Nat,
         transactionTotal: Nat, total: Nat,
         transactionBalanceDue: Nat, balanceDue: Nat]

NoBill == [status |-> "NONE", date |-> 0, rate |-> 0, transactionTotal |-> 0,
           total |-> 0, transactionBalanceDue |-> 0, balanceDue |-> 0]

\* What one allocation takes: transaction amount, carrying base of the bill,
\* source base of the bill, base of the payment; and the revaluation (its
\* line for the bill) whose layer the carrying base came from.
Split == [transaction: Nat, document: Nat, source: Nat, settlement: Nat,
          line: Runs \cup {None}]

NoSplit == [transaction |-> 0, document |-> 0, source |-> 0, settlement |-> 0,
            line |-> None]

\* posted is the debit of the payment's journal on the AP account.
Payment == [status: {"NONE", "POSTED", "VOIDED"}, rate: Nat,
            transactionAmountPaid: Nat, amountPaid: Nat,
            transactionUnappliedAmount: Nat, unappliedAmount: Nat,
            splits: [Bills -> Split], posted: Nat]

Allocation == [status: {"NONE", "ACTIVE", "REVERSED"},
               payment: Payments \cup {None}, bill: Bills \cup {None},
               split: Split]

DebitNote == [status: {"NONE", "FINALIZED", "VOIDED"}, total: Nat,
              unappliedAmount: Nat]

DebitAllocation == [status: {"NONE", "ACTIVE", "REVERSED"},
                    debitNote: DebitNotes \cup {None},
                    bill: Bills \cup {None}, amount: Nat]

NoLayer == [line |-> None]

Layer == {NoLayer} \cup
         [line: Runs, open: Nat, source: Nat, carrying: Nat, rate: Nat]

NoLine == [open |-> 0]

Line == {NoLine} \cup
        [open: Nat, source: Nat, carrying: Nat, revalued: Nat,
         prior: Runs \cup {None}]

Run == [status: {"NONE", "DRAFT", "REVIEWED", "POSTED", "REVERSED", "FAILED"},
        date: Dates \cup {0}, rate: Nat, lines: [Bills -> Line]]

Idle == [op |-> "idle"]

Request ==
    {Idle}
    \cup [op: {"createPayment"}, payment: Payments, amountPaid: Nat, rate: Nat,
          allocations: Seq([bill: Bills, amount: Nat]), seen: [Bills -> Bill]]
    \cup [op: {"applyUnapplied"}, allocation: Allocations, payment: Payments,
          bill: Bills, amount: Nat, seenBill: Bill, seenPayment: Payment]
    \cup [op: {"voidPayment"}, payment: Payments]
    \cup [op: {"voidDebitNote"}, debitNote: DebitNotes]

\* The types; balances and layers never go below zero.
TypeOK ==
    /\ bill \in [Bills -> Bill]
    /\ payment \in [Payments -> Payment]
    /\ allocation \in [Allocations -> Allocation]
    /\ debitNote \in [DebitNotes -> DebitNote]
    /\ debitAllocation \in [DebitAllocations -> DebitAllocation]
    /\ layer \in [Bills -> Layer]
    /\ run \in [Runs -> Run]
    /\ payable \in Int
    /\ request \in [Workers -> Request]

Init ==
    /\ bill = [b \in Bills |-> NoBill]
    /\ payment = [p \in Payments |->
         [status |-> "NONE", rate |-> 0, transactionAmountPaid |-> 0,
          amountPaid |-> 0, transactionUnappliedAmount |-> 0,
          unappliedAmount |-> 0, splits |-> [b \in Bills |-> NoSplit],
          posted |-> 0]]
    /\ allocation = [u \in Allocations |->
         [status |-> "NONE", payment |-> None, bill |-> None,
          split |-> NoSplit]]
    /\ debitNote = [d \in DebitNotes |->
         [status |-> "NONE", total |-> 0, unappliedAmount |-> 0]]
    /\ debitAllocation = [k \in DebitAllocations |->
         [status |-> "NONE", debitNote |-> None, bill |-> None, amount |-> 0]]
    /\ layer = [b \in Bills |-> NoLayer]
    /\ run = [r \in Runs |->
         [status |-> "NONE", date |-> 0, rate |-> 0,
          lines |-> [b \in Bills |-> NoLine]]]
    /\ payable = 0
    /\ request = [w \in Workers |-> Idle]

Begin(w, r) ==
    /\ request[w] = Idle
    /\ request' = [request EXCEPT ![w] = r]
    /\ UNCHANGED rows

Running(w, op) == request[w].op = op

Finish(w) == request' = [request EXCEPT ![w] = Idle]

Abort(w) ==
    /\ request[w] # Idle
    /\ Finish(w)
    /\ UNCHANGED rows

-----------------------------------------------------------------------------
(* Arithmetic of packages/accounting-core. *)

\* roundMoney of a fraction: half up.
Round(numerator, denominator) ==
    (2 * numerator + denominator) \div (2 * denominator)

\* convertTransactionToBaseAmount.
ToBase(amount, rate) == Round(amount * rate, RateScale)

\* FxCarryingBalanceService.resolve: the bases a settlement of a bill
\* consumes, from the bill as it was read and the layer as it is.
Basis(b, seen) ==
    IF layer[b] = NoLayer
    THEN [line |-> None, carrying |-> seen.balanceDue, rate |-> seen.rate]
    ELSE [line |-> layer[b].line, carrying |-> layer[b].carrying,
          rate |-> layer[b].rate]

\* resolve refuses a layer that does not match the bill that was read.
BasisMatches(b, seen) ==
    layer[b] # NoLayer =>
      /\ layer[b].open = seen.transactionBalanceDue
      /\ layer[b].source = seen.balanceDue

\* What a settlement of amount takes from a base residual: all of it when
\* the amount is final, its proportion under a layer, its value at the rate
\* of the bill otherwise.
BaseShare(amount, residual, basis, seen) ==
    IF amount = seen.transactionBalanceDue THEN residual
    ELSE IF basis.line # None
         THEN Round(amount * residual, seen.transactionBalanceDue)
         ELSE ToBase(amount, seen.rate)

\* Mutant of SettlementShare: never less than the value at the rate.
SettlementShareWhole(amount, rate, transactionOpen, baseOpen) ==
    IF amount = transactionOpen THEN baseOpen ELSE ToBase(amount, rate)

\* What it takes from the payment: all of it when final, the value at the
\* rate of the payment, or what is left, otherwise.
SettlementShare(amount, rate, transactionOpen, baseOpen) ==
    IF amount = transactionOpen \/ ToBase(amount, rate) > baseOpen
    THEN baseOpen ELSE ToBase(amount, rate)

\* allocateForeignSettlement.
SplitOf(b, amount, seen, rate, transactionOpen, baseOpen) ==
    LET basis == Basis(b, seen)
    IN  [transaction |-> amount,
         document |-> BaseShare(amount, basis.carrying, basis, seen),
         source |-> BaseShare(amount, seen.balanceDue, basis, seen),
         settlement |-> SettlementShare(amount, rate, transactionOpen, baseOpen),
         line |-> basis.line]

\* Its refusals, and those of the handler before it.
Settles(b, amount, seen, split) ==
    /\ seen.status = "FINALIZED"
    /\ amount <= seen.transactionBalanceDue
    /\ BasisMatches(b, seen)
    /\ split.document <= Basis(b, seen).carrying
    /\ split.source <= seen.balanceDue

\* The conditional updates of the bill and, under a layer, of the layer
\* (applySettlement).
Claimable(b, split) ==
    /\ bill[b].status = "FINALIZED"
    /\ bill[b].balanceDue >= split.source
    /\ bill[b].transactionBalanceDue >= split.transaction
    /\ split.line # None =>
         /\ layer[b].line = split.line
         /\ layer[b].open >= split.transaction
         /\ layer[b].source >= split.source
         /\ layer[b].carrying >= split.document

Take(row, split) ==
    [row EXCEPT !.balanceDue = @ - split.source,
                !.transactionBalanceDue = @ - split.transaction]

TakeLayer(row, split) ==
    IF split.line = None THEN row
    ELSE [row EXCEPT !.open = @ - split.transaction,
                     !.source = @ - split.source,
                     !.carrying = @ - split.document]

\* Giving back (restoreSettlement): the layer must be the one the split came
\* from, and the limits are the totals of the bill.
Restorable(b, split) ==
    /\ bill[b].status = "FINALIZED"
    /\ BasisMatches(b, bill[b])
    /\ layer[b].line = split.line
    /\ bill[b].balanceDue + split.source <= bill[b].total
    /\ bill[b].transactionBalanceDue + split.transaction
         <= bill[b].transactionTotal

\* Mutant of GiveBack: the bill gets back its carrying amount.
GiveBackDocument(row, split) ==
    [row EXCEPT !.balanceDue = @ + split.document,
                !.transactionBalanceDue = @ + split.transaction]

GiveBack(row, split) ==
    [row EXCEPT !.balanceDue = @ + split.source,
                !.transactionBalanceDue = @ + split.transaction]

GiveBackLayer(row, split) ==
    IF split.line = None THEN row
    ELSE [row EXCEPT !.open = @ + split.transaction,
                     !.source = @ + split.source,
                     !.carrying = @ + split.document]

-----------------------------------------------------------------------------
(* Purchase bills. *)

\* finalize() of a draft with one line.
FinalizeBill(b, date, transactionTotal, rate) ==
    LET total == ToBase(transactionTotal, rate)
    IN  /\ bill[b].status = "NONE"
        /\ total > 0
        /\ bill' = [bill EXCEPT ![b] =
             [status |-> "FINALIZED", date |-> date, rate |-> rate,
              transactionTotal |-> transactionTotal, total |-> total,
              transactionBalanceDue |-> transactionTotal, balanceDue |-> total]]
        /\ payable' = payable + total
        /\ UNCHANGED <<payment, allocation, debitNote, debitAllocation, layer,
                       run, request>>

\* The three counts of void(), taken under the lock on the bill.
HasActiveApplications(b) ==
    \/ \E p \in Payments :
         /\ payment[p].status = "POSTED"
         /\ payment[p].splits[b].transaction > 0
    \/ \E k \in DebitAllocations :
         /\ debitAllocation[k].status = "ACTIVE" /\ debitAllocation[k].bill = b
         /\ debitNote[debitAllocation[k].debitNote].status = "FINALIZED"
    \/ \E u \in Allocations :
         /\ allocation[u].status = "ACTIVE" /\ allocation[u].bill = b
         /\ payment[allocation[u].payment].status = "POSTED"

\* Mutant of MutationAllowed: a carrying layer is no obstacle.
MutationAllowedRevalued(b) == bill[b].status = "FINALIZED"

\* assertSupplierMutationAllowed: voids and debit notes only touch bills
\* without a carrying layer.
MutationAllowed(b) == bill[b].status = "FINALIZED" /\ layer[b] = NoLayer

VoidBill(b) ==
    /\ MutationAllowed(b)
    /\ ~HasActiveApplications(b)
    /\ bill' = [bill EXCEPT ![b].status = "VOIDED", ![b].balanceDue = 0,
                            ![b].transactionBalanceDue = 0]
    /\ payable' = payable - bill[b].total
    /\ UNCHANGED <<payment, allocation, debitNote, debitAllocation, layer, run,
                   request>>

-----------------------------------------------------------------------------
(* Supplier payments. *)

Listed(allocations) == ToSet(allocations)

SumOf(allocations) ==
    Total(DOMAIN allocations, [n \in DOMAIN allocations |-> allocations[n].amount])

\* What create() reads of the bills it allocates to, before it locks them.
CreatePaymentRead(w, p, amountPaid, rate, allocations) ==
    /\ payment[p].status = "NONE"
    /\ SumOf(allocations) <= amountPaid
    /\ \A a \in Listed(allocations) :
         /\ bill[a.bill].status = "FINALIZED"
         /\ a.amount <= bill[a.bill].transactionBalanceDue
    /\ Begin(w, [op |-> "createPayment", payment |-> p,
                 amountPaid |-> amountPaid, rate |-> rate,
                 allocations |-> allocations,
                 seen |-> [b \in Bills |->
                   IF \E a \in Listed(allocations) : a.bill = b THEN bill[b]
                   ELSE NoBill]])

\* What allocation a takes from what is left of the payment.
PlanOne(left, a, seen, rate) ==
    LET split == SplitOf(a.bill, a.amount, seen[a.bill], rate,
                         left.transaction, left.base)
    IN  [transaction |-> left.transaction - split.transaction,
         base |-> left.base - split.settlement,
         splits |-> [left.splits EXCEPT ![a.bill] = split]]

\* The allocations in the order of the request, each taking from what the
\* ones before left of the payment.
Plan(amountPaid, rate, allocations, seen) ==
    LET left[n \in 0 .. Len(allocations)] ==
          IF n = 0 THEN [transaction |-> amountPaid, base |-> ToBase(amountPaid, rate),
                         splits |-> [b \in Bills |-> NoSplit]]
          ELSE PlanOne(left[n - 1], allocations[n], seen, rate)
    IN  left[Len(allocations)]

\* assertJournalFxContext: at each rate, the debits of the journal are worth
\* their transaction amounts, up to one unit for every line.
JournalRounds(paymentRate, plan, seen) ==
    LET rateOf(b) == Basis(b, seen[b]).rate
        paid == {b \in Bills : plan.splits[b].transaction > 0}
    IN  \A r \in {rateOf(b) : b \in paid} \cup {paymentRate} :
          LET at == {b \in paid : rateOf(b) = r}
              unapplied == r = paymentRate /\ plan.transaction > 0
              amount == Total(at, [b \in at |-> plan.splits[b].transaction])
                          + (IF unapplied THEN plan.transaction ELSE 0)
              base == Total(at, [b \in at |-> plan.splits[b].document])
                          + (IF unapplied THEN plan.base ELSE 0)
              lines == Cardinality(at) + (IF unapplied THEN 1 ELSE 0)
          IN  /\ base - ToBase(amount, r) <= lines
              /\ ToBase(amount, r) - base <= lines

\* status "NONE" again: the unique (organizationId, idempotencyKey) index.
CreatePaymentCommit(w) ==
    /\ Running(w, "createPayment")
    /\ LET p == request[w].payment
           amountPaid == request[w].amountPaid
           rate == request[w].rate
           seen == request[w].seen
           plan == Plan(amountPaid, rate, request[w].allocations, seen)
           paid == {a.bill : a \in Listed(request[w].allocations)}
           unapplied == IF plan.transaction > 0 THEN plan.base ELSE 0
           posted == Total(paid, [b \in paid |-> plan.splits[b].document])
                       + unapplied
       IN  /\ payment[p].status = "NONE"
           /\ \A b \in paid :
                /\ Settles(b, plan.splits[b].transaction, seen[b],
                           plan.splits[b])
                /\ Claimable(b, plan.splits[b])
           /\ JournalRounds(rate, plan, seen)
           /\ bill' = [b \in Bills |-> Take(bill[b], plan.splits[b])]
           /\ layer' = [b \in Bills |-> TakeLayer(layer[b], plan.splits[b])]
           /\ payment' = [payment EXCEPT ![p] =
                [status |-> "POSTED", rate |-> rate,
                 transactionAmountPaid |-> amountPaid,
                 amountPaid |-> ToBase(amountPaid, rate),
                 transactionUnappliedAmount |-> plan.transaction,
                 unappliedAmount |-> plan.base,
                 splits |-> plan.splits, posted |-> posted]]
           /\ payable' = payable - posted
    /\ Finish(w)
    /\ UNCHANGED <<allocation, debitNote, debitAllocation, run>>

ApplyUnappliedRead(w, u, p, b, amount) ==
    /\ allocation[u].status = "NONE"
    /\ payment[p].status = "POSTED"
    /\ amount <= payment[p].transactionUnappliedAmount
    /\ bill[b].status = "FINALIZED"
    /\ amount <= bill[b].transactionBalanceDue
    /\ Begin(w, [op |-> "applyUnapplied", allocation |-> u, payment |-> p,
                 bill |-> b, amount |-> amount, seenBill |-> bill[b],
                 seenPayment |-> payment[p]])

\* Mutant of PaymentClaim: the claim asks for the status alone.
PaymentClaimByStatus(p, split) == payment[p].status = "POSTED"

PaymentClaim(p, split) ==
    /\ payment[p].status = "POSTED"
    /\ payment[p].unappliedAmount >= split.settlement
    /\ payment[p].transactionUnappliedAmount >= split.transaction

\* The realized gain or loss has a journal of its own on the AP account.
ApplyUnappliedCommit(w) ==
    /\ Running(w, "applyUnapplied")
    /\ LET u == request[w].allocation
           p == request[w].payment
           b == request[w].bill
           seen == request[w].seenPayment
           split == SplitOf(b, request[w].amount, request[w].seenBill, seen.rate,
                            seen.transactionUnappliedAmount, seen.unappliedAmount)
       IN  /\ allocation[u].status = "NONE"
           /\ Settles(b, split.transaction, request[w].seenBill, split)
           /\ PaymentClaim(p, split)
           /\ Claimable(b, split)
           /\ payment' = [payment EXCEPT
                ![p].unappliedAmount = @ - split.settlement,
                ![p].transactionUnappliedAmount = @ - split.transaction]
           /\ bill' = [bill EXCEPT ![b] = Take(@, split)]
           /\ layer' = [layer EXCEPT ![b] = TakeLayer(@, split)]
           /\ allocation' = [allocation EXCEPT ![u] =
                [status |-> "ACTIVE", payment |-> p, bill |-> b,
                 split |-> split]]
           /\ payable' = payable + split.settlement - split.document
    /\ Finish(w)
    /\ UNCHANGED <<debitNote, debitAllocation, run>>

Unapply(row, split) ==
    [row EXCEPT !.unappliedAmount = @ + split.settlement,
                !.transactionUnappliedAmount = @ + split.transaction]

ReverseUnappliedAllocation(u) ==
    LET p == allocation[u].payment
        b == allocation[u].bill
        split == allocation[u].split
    IN  /\ allocation[u].status = "ACTIVE"
        /\ payment[p].status = "POSTED"
        /\ payment[p].unappliedAmount + split.settlement <= payment[p].amountPaid
        /\ payment[p].transactionUnappliedAmount + split.transaction
             <= payment[p].transactionAmountPaid
        /\ Restorable(b, split)
        /\ allocation' = [allocation EXCEPT ![u].status = "REVERSED"]
        /\ payment' = [payment EXCEPT ![p] = Unapply(@, split)]
        /\ bill' = [bill EXCEPT ![b] = GiveBack(@, split)]
        /\ layer' = [layer EXCEPT ![b] = GiveBackLayer(@, split)]
        /\ payable' = payable - (split.settlement - split.document)
        /\ UNCHANGED <<debitNote, debitAllocation, run, request>>

\* void() counts the later allocations before it claims the payment.
VoidPaymentRead(w, p) ==
    /\ payment[p].status = "POSTED"
    /\ \A u \in Allocations :
         allocation[u].status = "ACTIVE" => allocation[u].payment # p
    /\ Begin(w, [op |-> "voidPayment", payment |-> p])

VoidPaymentCommit(w) ==
    /\ Running(w, "voidPayment")
    /\ LET p == request[w].payment
           splits == payment[p].splits
       IN  /\ payment[p].status = "POSTED"
           /\ \A b \in Bills :
                splits[b].transaction > 0 => Restorable(b, splits[b])
           /\ payment' = [payment EXCEPT ![p].status = "VOIDED"]
           /\ bill' = [b \in Bills |-> GiveBack(bill[b], splits[b])]
           /\ layer' = [b \in Bills |-> GiveBackLayer(layer[b], splits[b])]
           /\ payable' = payable + payment[p].posted
    /\ Finish(w)
    /\ UNCHANGED <<allocation, debitNote, debitAllocation, run>>

-----------------------------------------------------------------------------
(* Debit notes: amounts in base currency, matched to the base balance of a  *)
(* bill alone.                                                              *)

FinalizeDebitNote(d, total) ==
    /\ debitNote[d].status = "NONE"
    /\ debitNote' = [debitNote EXCEPT ![d] =
         [status |-> "FINALIZED", total |-> total, unappliedAmount |-> total]]
    /\ payable' = payable - total
    /\ UNCHANGED <<bill, payment, allocation, debitAllocation, layer, run,
                   request>>

ApplyDebitNote(k, d, b, amount) ==
    /\ debitAllocation[k].status = "NONE"
    /\ debitNote[d].status = "FINALIZED"
    /\ amount <= debitNote[d].unappliedAmount
    /\ MutationAllowed(b)
    /\ amount <= bill[b].balanceDue
    /\ debitNote' = [debitNote EXCEPT ![d].unappliedAmount = @ - amount]
    /\ bill' = [bill EXCEPT ![b].balanceDue = @ - amount]
    /\ debitAllocation' = [debitAllocation EXCEPT ![k] =
         [status |-> "ACTIVE", debitNote |-> d, bill |-> b, amount |-> amount]]
    /\ UNCHANGED <<payment, allocation, layer, run, payable, request>>

ReverseDebitAllocation(k) ==
    LET d == debitAllocation[k].debitNote
        b == debitAllocation[k].bill
        amount == debitAllocation[k].amount
    IN  /\ debitAllocation[k].status = "ACTIVE"
        /\ debitNote[d].status = "FINALIZED"
        /\ MutationAllowed(b)
        /\ debitNote[d].unappliedAmount + amount <= debitNote[d].total
        /\ bill[b].balanceDue + amount <= bill[b].total
        /\ debitAllocation' = [debitAllocation EXCEPT ![k].status = "REVERSED"]
        /\ debitNote' = [debitNote EXCEPT ![d].unappliedAmount = @ + amount]
        /\ bill' = [bill EXCEPT ![b].balanceDue = @ + amount]
        /\ UNCHANGED <<payment, allocation, layer, run, payable, request>>

\* void() counts the active allocations before it claims the debit note.
VoidDebitNoteRead(w, d) ==
    /\ debitNote[d].status = "FINALIZED"
    /\ \A k \in DebitAllocations :
         debitAllocation[k].status = "ACTIVE" => debitAllocation[k].debitNote # d
    /\ Begin(w, [op |-> "voidDebitNote", debitNote |-> d])

VoidDebitNoteCommit(w) ==
    /\ Running(w, "voidDebitNote")
    /\ LET d == request[w].debitNote
       IN  /\ debitNote[d].status = "FINALIZED"
           /\ debitNote' = [debitNote EXCEPT ![d].status = "VOIDED"]
           /\ payable' = payable + debitNote[d].total
    /\ Finish(w)
    /\ UNCHANGED <<bill, payment, allocation, debitAllocation, layer, run>>

-----------------------------------------------------------------------------
(* Period-end revaluation. *)

\* The open bills of a revaluation date; later bills are no part of it.
Eligible(date) ==
    {b \in Bills : /\ bill[b].status = "FINALIZED"
                   /\ bill[b].date <= date
                   /\ bill[b].transactionBalanceDue > 0}

\* activeScopeKey: one draft, reviewed or posted run for each date.
ActiveAt(date) ==
    {r \in Runs : /\ run[r].date = date
                  /\ run[r].status \in {"DRAFT", "REVIEWED", "POSTED"}}

\* revalueMonetaryBalance of a bill, kept as the line of a run.
Revalue(b, rate) ==
    [open |-> bill[b].transactionBalanceDue, source |-> bill[b].balanceDue,
     carrying |-> Basis(b, bill[b]).carrying,
     revalued |-> ToBase(bill[b].transactionBalanceDue, rate),
     prior |-> layer[b].line]

\* A new preview supersedes the unposted run of its date.
PreviewRevaluation(r, date, rate) ==
    /\ run[r].status = "NONE"
    /\ Eligible(date) # {}
    /\ \A b \in Eligible(date) :
         /\ BasisMatches(b, bill[b])
         /\ layer[b] # NoLayer => run[layer[b].line].date <= date
    /\ \A s \in ActiveAt(date) : run[s].status # "POSTED"
    /\ run' = [s \in Runs |->
         IF s = r
         THEN [status |-> "DRAFT", date |-> date, rate |-> rate,
               lines |-> [b \in Bills |-> IF b \in Eligible(date)
                                          THEN Revalue(b, rate) ELSE NoLine]]
         ELSE IF s \in ActiveAt(date) THEN [run[s] EXCEPT !.status = "FAILED"]
         ELSE run[s]]
    /\ UNCHANGED <<bill, payment, allocation, debitNote, debitAllocation, layer,
                   payable, request>>

ReviewRevaluation(r) ==
    /\ run[r].status = "DRAFT"
    /\ run' = [run EXCEPT ![r].status = "REVIEWED"]
    /\ UNCHANGED <<bill, payment, allocation, debitNote, debitAllocation, layer,
                   payable, request>>

Lines(r) == {b \in Bills : run[r].lines[b] # NoLine}

\* The AP side of the journal: what revaluing the lines adds to the payable.
RevaluedBy(r) == Total(Lines(r), [b \in Lines(r) |-> run[r].lines[b].revalued])
CarriedBy(r) == Total(Lines(r), [b \in Lines(r) |-> run[r].lines[b].carrying])

\* Mutant of LineCurrent: post() trusts the amounts of the preview.
LineUnchecked(r, b) == layer[b].line = run[r].lines[b].prior

\* post() checks each line against the locked bill and its layer.
LineCurrent(r, b) ==
    LET line == run[r].lines[b]
    IN  /\ bill[b].transactionBalanceDue = line.open
        /\ bill[b].balanceDue = line.source
        /\ layer[b].line = line.prior
        /\ layer[b] # NoLayer =>
             /\ layer[b].carrying = line.carrying
             /\ layer[b].open = line.open
             /\ layer[b].source = line.source

PostRevaluation(r) ==
    /\ run[r].status = "REVIEWED"
    /\ Lines(r) = Eligible(run[r].date)
    /\ \A b \in Lines(r) : LineCurrent(r, b)
    /\ layer' = [b \in Bills |->
         IF b \in Lines(r)
         THEN [line |-> r, open |-> run[r].lines[b].open,
               source |-> run[r].lines[b].source,
               carrying |-> run[r].lines[b].revalued, rate |-> run[r].rate]
         ELSE layer[b]]
    /\ payable' = payable + RevaluedBy(r) - CarriedBy(r)
    /\ run' = [run EXCEPT ![r].status = "POSTED"]
    /\ UNCHANGED <<bill, payment, allocation, debitNote, debitAllocation,
                   request>>

\* Mutant of LineUntouched: the amounts are compared, not whose they are.
LineSameAmounts(r, b) ==
    LET line == run[r].lines[b]
    IN  /\ layer[b] # NoLayer
        /\ layer[b].open = line.open
        /\ layer[b].source = line.source
        /\ layer[b].carrying = line.revalued

\* reverse() refuses once a later revaluation or a settlement touched it.
LineUntouched(r, b) ==
    LET line == run[r].lines[b]
    IN  /\ layer[b].line = r
        /\ layer[b].open = line.open
        /\ layer[b].source = line.source
        /\ layer[b].carrying = line.revalued

ReverseRevaluation(r) ==
    /\ run[r].status = "POSTED"
    /\ \A b \in Lines(r) : LineUntouched(r, b)
    /\ layer' = [b \in Bills |->
         IF b \notin Lines(r) THEN layer[b]
         ELSE LET line == run[r].lines[b]
              IN  IF line.prior = None THEN NoLayer
                  ELSE [layer[b] EXCEPT !.carrying = line.carrying,
                                        !.rate = run[line.prior].rate,
                                        !.line = line.prior]]
    /\ payable' = payable - (RevaluedBy(r) - CarriedBy(r))
    /\ run' = [run EXCEPT ![r].status = "REVERSED"]
    /\ UNCHANGED <<bill, payment, allocation, debitNote, debitAllocation,
                   request>>

-----------------------------------------------------------------------------
\* Allocations of a payment: of any bills, each once.
AllocationLists ==
    UNION {{list \in [1 .. n -> [bill: Bills, amount: Amounts]] :
              \A i, j \in 1 .. n : list[i].bill = list[j].bill => i = j} :
           n \in 0 .. Cardinality(Bills)}

BillNext ==
    \E b \in Bills :
      \/ \E date \in BillDates, total \in BillTotals, rate \in BillRates :
           FinalizeBill(b, date, total, rate)
      \/ VoidBill(b)

PaymentNext ==
    \/ \E w \in Workers :
         \/ \E p \in Payments :
              \/ \E amount \in Amounts, rate \in PaymentRates, list \in AllocationLists :
                   CreatePaymentRead(w, p, amount, rate, list)
              \/ \E u \in Allocations, b \in Bills, amount \in Amounts :
                   ApplyUnappliedRead(w, u, p, b, amount)
              \/ VoidPaymentRead(w, p)
         \/ CreatePaymentCommit(w)
         \/ ApplyUnappliedCommit(w)
         \/ VoidPaymentCommit(w)
    \/ \E u \in Allocations : ReverseUnappliedAllocation(u)

DebitNoteNext ==
    \/ \E d \in DebitNotes :
         \/ \E total \in DebitTotals : FinalizeDebitNote(d, total)
         \/ \E k \in DebitAllocations, b \in Bills, amount \in DebitTotals :
              ApplyDebitNote(k, d, b, amount)
         \/ \E w \in Workers : VoidDebitNoteRead(w, d)
    \/ \E k \in DebitAllocations : ReverseDebitAllocation(k)
    \/ \E w \in Workers : VoidDebitNoteCommit(w)

RevaluationNext ==
    \E r \in Runs :
      \/ \E date \in Dates, rate \in ClosingRates : PreviewRevaluation(r, date, rate)
      \/ ReviewRevaluation(r)
      \/ PostRevaluation(r)
      \/ ReverseRevaluation(r)

Next ==
    \/ BillNext
    \/ PaymentNext
    \/ DebitNoteNext
    \/ RevaluationNext
    \/ \E w \in Workers : Abort(w)

Spec == Init /\ [][Next]_vars

-----------------------------------------------------------------------------
(* Properties that hold whatever the handlers interleave with. *)

\* The splits that are in force: direct ones of posted payments and active
\* later ones.
DirectOf(b) ==
    [p \in Payments |-> IF payment[p].status = "POSTED"
                        THEN payment[p].splits[b] ELSE NoSplit]

LaterOf(b) ==
    [u \in Allocations |->
       IF allocation[u].status = "ACTIVE" /\ allocation[u].bill = b
       THEN allocation[u].split ELSE NoSplit]

DebitedTo(b) ==
    [k \in DebitAllocations |->
       IF debitAllocation[k].status = "ACTIVE" /\ debitAllocation[k].bill = b
       THEN debitAllocation[k].amount ELSE 0]

\* A finalized bill is open for its total less what is in force against it,
\* in both currencies: whatever rates, roundings, finals and stale reads the
\* splits came from, what was taken is what is given back.
BillConserved ==
    \A b \in Bills : bill[b].status = "FINALIZED" =>
      LET direct == DirectOf(b)
          later == LaterOf(b)
      IN  /\ bill[b].transactionTotal = bill[b].transactionBalanceDue
               + Total(Payments, [p \in Payments |-> direct[p].transaction])
               + Total(Allocations, [u \in Allocations |-> later[u].transaction])
          /\ bill[b].total = bill[b].balanceDue
               + Total(Payments, [p \in Payments |-> direct[p].source])
               + Total(Allocations, [u \in Allocations |-> later[u].source])
               + Total(DebitAllocations, DebitedTo(b))

TakenFrom(p) ==
    [u \in Allocations |->
       IF allocation[u].status = "ACTIVE" /\ allocation[u].payment = p
       THEN allocation[u].split ELSE NoSplit]

\* The base amount of a posted payment is its allocations at settlement value
\* and what is unapplied, and so is its transaction amount: the sum of the
\* rounded parts never exceeds the rounded whole, so nothing is overdrawn.
PaymentConserved ==
    \A p \in Payments : payment[p].status = "POSTED" =>
      LET splits == payment[p].splits
          later == TakenFrom(p)
      IN  /\ payment[p].unappliedAmount >= 0
          /\ payment[p].transactionAmountPaid
               = payment[p].transactionUnappliedAmount
               + Total(Bills, [b \in Bills |-> splits[b].transaction])
               + Total(Allocations, [u \in Allocations |-> later[u].transaction])
          /\ payment[p].amountPaid = payment[p].unappliedAmount
               + Total(Bills, [b \in Bills |-> splits[b].settlement])
               + Total(Allocations, [u \in Allocations |-> later[u].settlement])

\* A carrying layer follows its bill through every settlement, reversal and
\* revaluation that races it, and its carrying amount is the revalued amount
\* less what was settled under it; a bill settled in full strands none of it.
LayerConserved ==
    \A b \in Bills : layer[b] # NoLayer =>
      LET under(split) == IF split.line = layer[b].line THEN split.document ELSE 0
          direct == DirectOf(b)
          later == LaterOf(b)
      IN  /\ bill[b].status = "FINALIZED"
          /\ layer[b].open = bill[b].transactionBalanceDue
          /\ layer[b].source = bill[b].balanceDue
          /\ run[layer[b].line].lines[b].revalued = layer[b].carrying
               + Total(Payments, [p \in Payments |-> under(direct[p])])
               + Total(Allocations, [u \in Allocations |-> under(later[u])])
          /\ layer[b].open = 0 => layer[b].carrying = 0 /\ layer[b].source = 0

\* No revaluation is reversed under what was built on it: the layers, the
\* later runs and the settlements in force all rest on posted runs.
RevaluationsStand ==
    \A b \in Bills :
      /\ layer[b] # NoLayer => run[layer[b].line].status = "POSTED"
      /\ \A r \in Runs : run[r].status = "POSTED" =>
           /\ run[r].lines[b] # NoLine /\ run[r].lines[b].prior # None
                => run[run[r].lines[b].prior].status = "POSTED"
      /\ \A p \in Payments : DirectOf(b)[p].line # None =>
           run[DirectOf(b)[p].line].status = "POSTED"
      /\ \A u \in Allocations : LaterOf(b)[u].line # None =>
           run[LaterOf(b)[u].line].status = "POSTED"

CarryingOf(b) ==
    IF bill[b].status # "FINALIZED" THEN 0
    ELSE IF layer[b] = NoLayer THEN bill[b].balanceDue ELSE layer[b].carrying

\* What later allocations and debit notes still take from bills after the
\* void of their payment or debit note reversed the journal that paid for it,
\* because the count of that void came before them; and what the void of the
\* bill, which looks past them, then takes back once more.
LeftBehind ==
    [u \in Allocations |->
       IF /\ allocation[u].status = "ACTIVE"
          /\ payment[allocation[u].payment].status = "VOIDED"
       THEN allocation[u].split.settlement ELSE 0]

DebitLeftBehind ==
    [k \in DebitAllocations |->
       IF /\ debitAllocation[k].status = "ACTIVE"
          /\ debitNote[debitAllocation[k].debitNote].status = "VOIDED"
       THEN debitAllocation[k].amount ELSE 0]

OfVoidedBill(b) ==
    IF bill[b].status = "VOIDED"
    THEN Total(Allocations, [u \in Allocations |-> LaterOf(b)[u].source])
           + Total(DebitAllocations, DebitedTo(b))
    ELSE 0

\* The AP control account is the carrying value of the open bills less
\* unapplied payments and debit notes: every handler posts the realized or
\* unrealized difference that its split or revaluation calls for, and the one
\* drift that interleavings cause is what those voids leave behind.
ControlAccountTiesOut ==
    payable = Total(Bills, [b \in Bills |-> CarryingOf(b)])
      - Total(Payments, [p \in Payments |-> IF payment[p].status = "POSTED"
                                            THEN payment[p].unappliedAmount
                                            ELSE 0])
      - Total(DebitNotes, [d \in DebitNotes |-> IF debitNote[d].status = "FINALIZED"
                                                THEN debitNote[d].unappliedAmount
                                                ELSE 0])
      + Total(Allocations, LeftBehind)
      + Total(DebitAllocations, DebitLeftBehind)
      - Total(Bills, [b \in Bills |-> OfVoidedBill(b)])

-----------------------------------------------------------------------------
(* Bills and payments are open items in their transaction currency, and     *)
(* payments and later allocations are uses of them.                         *)

Items == Bills \cup Payments
Uses == Payments \cup Allocations

StateOf(status) ==
    CASE status = "NONE" -> "NONE"
      [] status = "VOIDED" -> "CLOSED"
      [] OTHER -> "OPEN"

ItemState ==
    [x \in Items |-> IF x \in Bills THEN StateOf(bill[x].status)
                     ELSE StateOf(payment[x].status)]

ItemAmount ==
    [x \in Items |->
       IF ItemState[x] # "OPEN" THEN 0
       ELSE IF x \in Bills THEN bill[x].transactionTotal
       ELSE payment[x].transactionAmountPaid]

ItemRemaining ==
    [x \in Items |->
       IF ItemState[x] # "OPEN" THEN 0
       ELSE IF x \in Bills THEN bill[x].transactionBalanceDue
       ELSE payment[x].transactionUnappliedAmount]

\* A payment takes its direct allocations from the bills and from itself.
TakenByPayment(p, x) ==
    IF payment[p].status # "POSTED" THEN 0
    ELSE IF x = p
         THEN Total(Bills, [b \in Bills |-> payment[p].splits[b].transaction])
    ELSE IF x \in Bills THEN payment[p].splits[x].transaction ELSE 0

TakenByAllocation(u, x) ==
    IF /\ allocation[u].status = "ACTIVE"
       /\ x \in {allocation[u].payment, allocation[u].bill}
    THEN allocation[u].split.transaction ELSE 0

ItemsTaken ==
    [u \in Uses |-> [x \in Items |->
       IF u \in Payments THEN TakenByPayment(u, x) ELSE TakenByAllocation(u, x)]]

Subledger == INSTANCE OpenItems WITH
    state <- ItemState, amount <- ItemAmount,
    remaining <- ItemRemaining, taken <- ItemsTaken

\* In the transaction currency every payment, allocation, reversal and void is
\* one exact step on the bills and payments it names, whatever the rates, the
\* rounding, the revaluations and the debit notes do to their base amounts,
\* and however stale the balances were that the handler split it by.
ImplementsOpenItems == Subledger!Spec
=============================================================================

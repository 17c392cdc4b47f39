---------------------------- MODULE Receivables ----------------------------
(***************************************************************************)
(* The accounts-receivable subledger of the API: sales invoices, customer  *)
(* payments with their direct and later ("unapplied") allocations, credit  *)
(* notes with their allocations, and customer refunds, together with the   *)
(* balance of the AR control account 120 that their journals post.         *)
(*                                                                         *)
(* Every document is in the organization's base currency (rate one, no FX  *)
(* carrying balance) and belongs to one customer.  The rows keep the       *)
(* columns the handlers guard on.  Amounts are naturals.                   *)
(*                                                                         *)
(* Handlers run in READ COMMITTED database transactions.  Rows they claim  *)
(* with a conditional updateMany stay locked until commit, so claims and   *)
(* writes are one step.  What a handler reads BEFORE its claims may be     *)
(* stale by then.  A handler is                                            *)
(*   - one action, when its claims re-check everything it read, or what it *)
(*     read cannot change any more;                                        *)
(*   - a ...Read and a ...Commit action of a worker otherwise, with what   *)
(*     it keeps from the read in request[w].                               *)
(* Abort is every other way a transaction ends: an exception of a guard, a *)
(* closed fiscal period, a lost connection, a deadlock victim.             *)
(***************************************************************************)
EXTENDS Integers, Totals

CONSTANTS
    Invoices,       \* ids of SalesInvoice rows
    Payments,       \* ids of CustomerPayment rows; also their idempotency keys
    CreditNotes,    \* ids of CreditNote rows
    Allocations,    \* ids (and keys) of CustomerPaymentUnappliedAllocation rows
    CreditAllocations, \* ids of CreditNoteAllocation rows
    Refunds,        \* ids of CustomerRefund rows
    Workers,        \* requests the API serves at the same time
    Amounts,        \* the amounts a request may name
    FxConfigured,   \* realized FX gain and loss accounts are configured
    None            \* a null reference

ASSUME FiniteRows ==
    /\ IsFiniteSet(Invoices) /\ IsFiniteSet(Payments)
    /\ IsFiniteSet(CreditNotes) /\ IsFiniteSet(Allocations)
    /\ IsFiniteSet(CreditAllocations) /\ IsFiniteSet(Refunds)

ASSUME AmountsPositive == Amounts \subseteq Nat \ {0}

\* Rows of different tables never share an id.
ASSUME IdsDistinct ==
    /\ Invoices \cap Payments = {}
    /\ CreditNotes \cap (Invoices \cup Payments) = {}
    /\ Allocations \cap (Payments \cup CreditAllocations \cup Refunds) = {}
    /\ Payments \cap (CreditAllocations \cup Refunds) = {}
    /\ CreditAllocations \cap Refunds = {}

ASSUME NoneIsNoRow == None \notin Invoices \cup Payments \cup CreditNotes

ASSUME FxConfiguredType == FxConfigured \in BOOLEAN

VARIABLES
    invoice,        \* SalesInvoice rows
    payment,        \* CustomerPayment rows with their direct allocations
    creditNote,     \* CreditNote rows
    allocation,     \* CustomerPaymentUnappliedAllocation rows
    creditAllocation, \* CreditNoteAllocation rows
    refund,         \* CustomerRefund rows
    receivable,     \* net debit that posted journals leave on account 120
    request         \* what each worker keeps from the reads of its handler

vars == <<invoice, payment, creditNote, allocation, creditAllocation, refund,
          receivable, request>>

rows == <<invoice, payment, creditNote, allocation, creditAllocation, refund,
          receivable>>

-----------------------------------------------------------------------------
(* Rows.  "NONE" is an id not used yet.  "DELETED" keeps the last contents  *)
(* of a row that remove() deleted: no handler sees it, the properties do.   *)
(* posted is the AR amount of the journal that finalizing posted and no     *)
(* void reversed.                                                           *)

DocumentStatus == {"NONE", "DRAFT", "FINALIZED", "VOIDED", "DELETED"}

Invoice == [status: DocumentStatus, total: Nat, balanceDue: Nat,
            transactionBalanceDue: Nat, posted: Nat]

CreditNote == [status: DocumentStatus, total: Nat, unappliedAmount: Nat,
               posted: Nat, originalInvoice: Invoices \cup {None}]

\* allocations[i] is the amount a CustomerPaymentAllocation row gives to i.
Payment == [status: {"NONE", "POSTED", "VOIDED"}, amountReceived: Nat,
            unappliedAmount: Nat, transactionUnappliedAmount: Nat,
            allocations: [Invoices -> Nat]]

\* The three amounts agree at rate one unless a final allocation took a
\* residual balance (allocateForeignSettlement).
Allocation == [status: {"NONE", "ACTIVE", "REVERSED"},
               payment: Payments \cup {None}, invoice: Invoices \cup {None},
               transactionAmount: Nat, sourceBaseAmount: Nat,
               settlementBaseAmount: Nat]

\* "CASCADED": deleted with its credit note by ON DELETE CASCADE.
CreditAllocation == [status: {"NONE", "ACTIVE", "REVERSED", "CASCADED"},
                     creditNote: CreditNotes \cup {None},
                     invoice: Invoices \cup {None}, amount: Nat]

Refund == [status: {"NONE", "POSTED", "VOIDED"},
           source: Payments \cup CreditNotes \cup {None}, amount: Nat]

Idle == [op |-> "idle"]

Request ==
    {Idle}
    \cup [op: {"finalizeInvoice"}, invoice: Invoices, total: Nat]
    \cup [op: {"removeInvoice"}, invoice: Invoices]
    \cup [op: {"createPayment"}, payment: Payments, amountReceived: Nat,
          allocations: [Invoices -> Nat]]
    \cup [op: {"applyUnapplied"}, allocation: Allocations, row: Allocation]
    \cup [op: {"voidPayment"}, payment: Payments]
    \cup [op: {"createCreditNote", "updateCreditNote", "finalizeCreditNote"},
          creditNote: CreditNotes, total: Nat,
          originalInvoice: Invoices \cup {None}]
    \cup [op: {"removeCreditNote"}, creditNote: CreditNotes]

TypeOK ==
    /\ invoice \in [Invoices -> Invoice]
    /\ payment \in [Payments -> Payment]
    /\ creditNote \in [CreditNotes -> CreditNote]
    /\ allocation \in [Allocations -> Allocation]
    /\ creditAllocation \in [CreditAllocations -> CreditAllocation]
    /\ refund \in [Refunds -> Refund]
    /\ receivable \in Int
    /\ request \in [Workers -> Request]

Init ==
    /\ invoice = [i \in Invoices |->
         [status |-> "NONE", total |-> 0, balanceDue |-> 0,
          transactionBalanceDue |-> 0, posted |-> 0]]
    /\ payment = [p \in Payments |->
         [status |-> "NONE", amountReceived |-> 0, unappliedAmount |-> 0,
          transactionUnappliedAmount |-> 0,
          allocations |-> [i \in Invoices |-> 0]]]
    /\ creditNote = [c \in CreditNotes |->
         [status |-> "NONE", total |-> 0, unappliedAmount |-> 0, posted |-> 0,
          originalInvoice |-> None]]
    /\ allocation = [u \in Allocations |->
         [status |-> "NONE", payment |-> None, invoice |-> None,
          transactionAmount |-> 0, sourceBaseAmount |-> 0,
          settlementBaseAmount |-> 0]]
    /\ creditAllocation = [k \in CreditAllocations |->
         [status |-> "NONE", creditNote |-> None, invoice |-> None,
          amount |-> 0]]
    /\ refund = [r \in Refunds |->
         [status |-> "NONE", source |-> None, amount |-> 0]]
    /\ receivable = 0
    /\ request = [w \in Workers |-> Idle]

-----------------------------------------------------------------------------
(* Workers. *)

Begin(w, r) ==
    /\ request[w] = Idle
    /\ request' = [request EXCEPT ![w] = r]
    /\ UNCHANGED rows

Running(w, op) == request[w].op = op

Finish(w) == request' = [request EXCEPT ![w] = Idle]

Abort(w) ==
    /\ request[w] # Idle
    /\ Finish(w)
    /\ UNCHANGED rows

-----------------------------------------------------------------------------
(* Sales invoices. *)

CreateInvoice(i, total) ==
    /\ invoice[i].status = "NONE"
    /\ invoice' = [invoice EXCEPT ![i] =
         [status |-> "DRAFT", total |-> total, balanceDue |-> total,
          transactionBalanceDue |-> total, posted |-> 0]]
    /\ UNCHANGED <<payment, creditNote, allocation, creditAllocation, refund,
                   receivable, request>>

\* Mutant of UpdateInvoice: the claim does not ask for DRAFT.
UpdateInvoiceAnyStatus(i, total) ==
    /\ invoice[i].status \in {"DRAFT", "FINALIZED"}
    /\ invoice' = [invoice EXCEPT ![i].total = total]
    /\ UNCHANGED <<payment, creditNote, allocation, creditAllocation, refund,
                   receivable, request>>

\* The claim asks for DRAFT and for the updatedAt it read: an update that
\* commits acted on the current row.
UpdateInvoice(i, total) ==
    /\ invoice[i].status = "DRAFT"
    /\ invoice' = [invoice EXCEPT ![i].total = total,
                                  ![i].balanceDue = total,
                                  ![i].transactionBalanceDue = total]
    /\ UNCHANGED <<payment, creditNote, allocation, creditAllocation, refund,
                   receivable, request>>

FinalizeInvoiceRead(w, i) ==
    /\ invoice[i].status = "DRAFT"
    /\ Begin(w, [op |-> "finalizeInvoice", invoice |-> i,
                 total |-> invoice[i].total])

\* Mutant of FinalizeClaim: a second finalize is not refused.
FinalizeClaimRepeatable(i) == invoice[i].status \in {"DRAFT", "FINALIZED"}

\* where status DRAFT and journalEntryId null.
FinalizeClaim(i) == invoice[i].status = "DRAFT"

\* The claim checks the status only; balance and journal take the total read
\* before it.
FinalizeInvoiceCommit(w) ==
    /\ Running(w, "finalizeInvoice")
    /\ LET i == request[w].invoice
           total == request[w].total
       IN  /\ FinalizeClaim(i)
           /\ invoice' = [invoice EXCEPT ![i].status = "FINALIZED",
                                         ![i].balanceDue = total,
                                         ![i].transactionBalanceDue = total,
                                         ![i].posted = total]
           /\ receivable' = receivable + total
    /\ Finish(w)
    /\ UNCHANGED <<payment, creditNote, allocation, creditAllocation, refund>>

\* Mutant of HasActiveApplications: credit allocations are not counted.
HasActivePayments(i) ==
    \/ \E p \in Payments :
         payment[p].status = "POSTED" /\ payment[p].allocations[i] > 0
    \/ \E u \in Allocations :
         /\ allocation[u].status = "ACTIVE" /\ allocation[u].invoice = i
         /\ payment[allocation[u].payment].status # "VOIDED"

\* The three counts void() takes after its claim.
HasActiveApplications(i) ==
    \/ \E p \in Payments :
         payment[p].status = "POSTED" /\ payment[p].allocations[i] > 0
    \/ \E u \in Allocations :
         /\ allocation[u].status = "ACTIVE" /\ allocation[u].invoice = i
         /\ payment[allocation[u].payment].status # "VOIDED"
    \/ \E k \in CreditAllocations :
         /\ creditAllocation[k].status = "ACTIVE"
         /\ creditAllocation[k].invoice = i
         /\ creditNote[creditAllocation[k].creditNote].status # "VOIDED"

\* Mutant of VoidInvoice: no reversal journal.
VoidInvoiceUnposted(i) ==
    /\ \/ invoice[i].status = "DRAFT"
       \/ invoice[i].status = "FINALIZED" /\ ~HasActiveApplications(i)
    /\ invoice' = [invoice EXCEPT ![i].status = "VOIDED",
                                  ![i].balanceDue = 0,
                                  ![i].transactionBalanceDue = 0,
                                  ![i].posted = 0]
    /\ UNCHANGED <<payment, creditNote, allocation, creditAllocation, refund,
                   receivable, request>>

VoidInvoice(i) ==
    /\ \/ invoice[i].status = "DRAFT"
       \/ invoice[i].status = "FINALIZED" /\ ~HasActiveApplications(i)
    /\ invoice' = [invoice EXCEPT ![i].status = "VOIDED",
                                  ![i].balanceDue = 0,
                                  ![i].transactionBalanceDue = 0,
                                  ![i].posted = 0]
    /\ receivable' = receivable - invoice[i].posted
    /\ UNCHANGED <<payment, creditNote, allocation, creditAllocation, refund,
                   request>>

RemoveInvoiceRead(w, i) ==
    /\ invoice[i].status = "DRAFT"
    /\ Begin(w, [op |-> "removeInvoice", invoice |-> i])

\* Rows that reference an invoice and make the database refuse its deletion.
Referenced(i) ==
    \/ \E p \in Payments : payment[p].allocations[i] > 0
    \/ \E u \in Allocations : allocation[u].invoice = i
    \/ \E k \in CreditAllocations :
         /\ creditAllocation[k].invoice = i
         /\ creditAllocation[k].status # "CASCADED"

\* delete by id alone, whatever the status has become; credit notes lose
\* their reference (ON DELETE SET NULL).
RemoveInvoiceCommit(w) ==
    /\ Running(w, "removeInvoice")
    /\ LET i == request[w].invoice
       IN  /\ invoice[i].status # "DELETED"
           /\ ~Referenced(i)
           /\ invoice' = [invoice EXCEPT ![i].status = "DELETED"]
           /\ creditNote' = [c \in CreditNotes |->
                IF creditNote[c].originalInvoice = i
                THEN [creditNote[c] EXCEPT !.originalInvoice = None]
                ELSE creditNote[c]]
    /\ Finish(w)
    /\ UNCHANGED <<payment, allocation, creditAllocation, refund, receivable>>

-----------------------------------------------------------------------------
(* Customer payments.  SourceBase and SettlementBase are what               *)
(* allocateForeignSettlement takes from the invoice and from the payment at *)
(* rate one: the amount itself, except that an allocation of the whole      *)
(* transaction balance is "final" and takes the whole base balance.         *)

SourceBase(amount, transactionOpen, baseOpen) ==
    IF amount = transactionOpen THEN baseOpen ELSE amount

SettlementBase(amount, transactionOpen, baseOpen) ==
    IF amount = transactionOpen \/ amount > baseOpen THEN baseOpen ELSE amount

\* Mutant of InvoiceClaim: the balance is not checked again.
InvoiceClaimByStatus(i, base, transaction) == invoice[i].status = "FINALIZED"

\* The conditional updates that take an amount from an invoice or a payment.
InvoiceClaim(i, base, transaction) ==
    /\ invoice[i].status = "FINALIZED"
    /\ invoice[i].balanceDue >= base
    /\ invoice[i].transactionBalanceDue >= transaction

PaymentClaim(p, base, transaction) ==
    /\ payment[p].status = "POSTED"
    /\ payment[p].unappliedAmount >= base
    /\ payment[p].transactionUnappliedAmount >= transaction

\* Invoices must be finalized with the amounts open; the payment's journal
\* refuses a line whose base amount is not its transaction amount.
CreatePaymentRead(w, p, amountReceived, allocations) ==
    /\ payment[p].status = "NONE"
    /\ \E i \in Invoices : allocations[i] > 0
    /\ Total(Invoices, allocations) <= amountReceived
    /\ \A i \in Invoices : allocations[i] > 0 =>
         /\ invoice[i].status = "FINALIZED"
         /\ allocations[i] <= invoice[i].transactionBalanceDue
         /\ allocations[i] <= invoice[i].balanceDue
         /\ SourceBase(allocations[i], invoice[i].transactionBalanceDue,
                       invoice[i].balanceDue) = allocations[i]
    /\ Begin(w, [op |-> "createPayment", payment |-> p,
                 amountReceived |-> amountReceived,
                 allocations |-> allocations])

\* status "NONE" again: the unique (organizationId, idempotencyKey) index.
CreatePaymentCommit(w) ==
    /\ Running(w, "createPayment")
    /\ LET p == request[w].payment
           received == request[w].amountReceived
           allocs == request[w].allocations
           unapplied == received - Total(Invoices, allocs)
       IN  /\ payment[p].status = "NONE"
           /\ \A i \in Invoices :
                allocs[i] > 0 => InvoiceClaim(i, allocs[i], allocs[i])
           /\ invoice' = [i \in Invoices |->
                [invoice[i] EXCEPT
                   !.balanceDue = @ - allocs[i],
                   !.transactionBalanceDue = @ - allocs[i]]]
           /\ payment' = [payment EXCEPT ![p] =
                [status |-> "POSTED", amountReceived |-> received,
                 unappliedAmount |-> unapplied,
                 transactionUnappliedAmount |-> unapplied,
                 allocations |-> allocs]]
           /\ receivable' = receivable - received
    /\ Finish(w)
    /\ UNCHANGED <<creditNote, allocation, creditAllocation, refund>>

\* The split between base amounts is computed from the balances read here.
ApplyUnappliedRead(w, u, p, i, amount) ==
    LET source == SourceBase(amount, invoice[i].transactionBalanceDue,
                             invoice[i].balanceDue)
        settlement == SettlementBase(amount,
                             payment[p].transactionUnappliedAmount,
                             payment[p].unappliedAmount)
    IN  /\ allocation[u].status = "NONE"
        /\ payment[p].status = "POSTED"
        /\ amount <= payment[p].transactionUnappliedAmount
        /\ invoice[i].status = "FINALIZED"
        /\ amount <= invoice[i].transactionBalanceDue
        /\ source <= invoice[i].balanceDue
        /\ settlement = source \/ FxConfigured
        /\ Begin(w, [op |-> "applyUnapplied", allocation |-> u,
                     row |-> [status |-> "ACTIVE", payment |-> p,
                              invoice |-> i, transactionAmount |-> amount,
                              sourceBaseAmount |-> source,
                              settlementBaseAmount |-> settlement]])

ApplyUnappliedCommit(w) ==
    /\ Running(w, "applyUnapplied")
    /\ LET u == request[w].allocation
           a == request[w].row
           p == a.payment
           i == a.invoice
       IN  /\ allocation[u].status = "NONE"
           /\ PaymentClaim(p, a.settlementBaseAmount, a.transactionAmount)
           /\ InvoiceClaim(i, a.sourceBaseAmount, a.transactionAmount)
           /\ payment' = [payment EXCEPT
                ![p].unappliedAmount = @ - a.settlementBaseAmount,
                ![p].transactionUnappliedAmount = @ - a.transactionAmount]
           /\ invoice' = [invoice EXCEPT
                ![i].balanceDue = @ - a.sourceBaseAmount,
                ![i].transactionBalanceDue = @ - a.transactionAmount]
           /\ allocation' = [allocation EXCEPT ![u] = a]
           /\ receivable' = receivable
                + a.settlementBaseAmount - a.sourceBaseAmount
    /\ Finish(w)
    /\ UNCHANGED <<creditNote, creditAllocation, refund>>

\* The limits are the immutable totals less the amounts given back.
ReverseUnappliedAllocation(u) ==
    LET a == allocation[u]
        p == a.payment
        i == a.invoice
    IN  /\ a.status = "ACTIVE"
        /\ payment[p].status = "POSTED"
        /\ payment[p].unappliedAmount + a.settlementBaseAmount
             <= payment[p].amountReceived
        /\ payment[p].transactionUnappliedAmount + a.transactionAmount
             <= payment[p].amountReceived
        /\ invoice[i].status = "FINALIZED"
        /\ invoice[i].balanceDue + a.sourceBaseAmount <= invoice[i].total
        /\ invoice[i].transactionBalanceDue + a.transactionAmount
             <= invoice[i].total
        /\ allocation' = [allocation EXCEPT ![u].status = "REVERSED"]
        /\ payment' = [payment EXCEPT
             ![p].unappliedAmount = @ + a.settlementBaseAmount,
             ![p].transactionUnappliedAmount = @ + a.transactionAmount]
        /\ invoice' = [invoice EXCEPT
             ![i].balanceDue = @ + a.sourceBaseAmount,
             ![i].transactionBalanceDue = @ + a.transactionAmount]
        /\ receivable' = receivable
             - (a.settlementBaseAmount - a.sourceBaseAmount)
        /\ UNCHANGED <<creditNote, creditAllocation, refund, request>>

\* What void() counts, before its claim, of what was taken from a payment.
HasDependents(p) ==
    \/ \E r \in Refunds : refund[r].status = "POSTED" /\ refund[r].source = p
    \/ \E u \in Allocations :
         allocation[u].status = "ACTIVE" /\ allocation[u].payment = p

VoidPaymentRead(w, p) ==
    /\ payment[p].status = "POSTED"
    /\ ~HasDependents(p)
    /\ Begin(w, [op |-> "voidPayment", payment |-> p])

VoidPaymentCommit(w) ==
    /\ Running(w, "voidPayment")
    /\ LET p == request[w].payment
       IN  /\ payment[p].status = "POSTED"
           /\ \A i \in Invoices : payment[p].allocations[i] > 0 =>
                invoice[i].status = "FINALIZED"
           /\ payment' = [payment EXCEPT ![p].status = "VOIDED"]
           /\ invoice' = [i \in Invoices |->
                [invoice[i] EXCEPT
                   !.balanceDue = @ + payment[p].allocations[i],
                   !.transactionBalanceDue = @ + payment[p].allocations[i]]]
           /\ receivable' = receivable + payment[p].amountReceived
    /\ Finish(w)
    /\ UNCHANGED <<creditNote, allocation, creditAllocation, refund>>

-----------------------------------------------------------------------------
(* Credit notes. *)

\* Amounts of the other credit notes that count against an original invoice.
CreditsAgainst(i, except) ==
    [c \in CreditNotes |->
       IF /\ c # except
          /\ creditNote[c].originalInvoice = i
          /\ creditNote[c].status \in {"DRAFT", "FINALIZED"}
       THEN creditNote[c].total ELSE 0]

\* validateOriginalInvoiceReference: an unlocked aggregate.
OriginalInvoiceCovers(c, total, i) ==
    i # None =>
      /\ invoice[i].status = "FINALIZED"
      /\ total + Total(CreditNotes, CreditsAgainst(i, c)) <= invoice[i].total

CreditNoteRequest(op, c, total, i) ==
    [op |-> op, creditNote |-> c, total |-> total, originalInvoice |-> i]

CreateCreditNoteRead(w, c, total, i) ==
    /\ creditNote[c].status = "NONE"
    /\ OriginalInvoiceCovers(c, total, i)
    /\ Begin(w, CreditNoteRequest("createCreditNote", c, total, i))

\* The foreign key refuses a reference to an invoice deleted meanwhile.
CreateCreditNoteCommit(w) ==
    /\ Running(w, "createCreditNote")
    /\ LET r == request[w]
       IN  /\ creditNote[r.creditNote].status = "NONE"
           /\ r.originalInvoice # None =>
                invoice[r.originalInvoice].status # "DELETED"
           /\ creditNote' = [creditNote EXCEPT ![r.creditNote] =
                [status |-> "DRAFT", total |-> r.total,
                 unappliedAmount |-> r.total, posted |-> 0,
                 originalInvoice |-> r.originalInvoice]]
    /\ Finish(w)
    /\ UNCHANGED <<invoice, payment, allocation, creditAllocation, refund,
                   receivable>>

\* The row is claimed (DRAFT, unchanged updatedAt) before the aggregate is
\* taken and stays locked, so only the other credit notes can move.
UpdateCreditNoteRead(w, c, total, i) ==
    /\ creditNote[c].status = "DRAFT"
    /\ OriginalInvoiceCovers(c, total, i)
    /\ Begin(w, CreditNoteRequest("updateCreditNote", c, total, i))

UpdateCreditNoteCommit(w) ==
    /\ Running(w, "updateCreditNote")
    /\ LET r == request[w]
       IN  /\ creditNote[r.creditNote].status = "DRAFT"
           /\ r.originalInvoice # None =>
                invoice[r.originalInvoice].status # "DELETED"
           /\ creditNote' = [creditNote EXCEPT
                ![r.creditNote].total = r.total,
                ![r.creditNote].unappliedAmount = r.total,
                ![r.creditNote].originalInvoice = r.originalInvoice]
    /\ Finish(w)
    /\ UNCHANGED <<invoice, payment, allocation, creditAllocation, refund,
                   receivable>>

FinalizeCreditNoteRead(w, c) ==
    LET total == creditNote[c].total
        i == creditNote[c].originalInvoice
    IN  /\ creditNote[c].status = "DRAFT"
        /\ OriginalInvoiceCovers(c, total, i)
        /\ Begin(w, CreditNoteRequest("finalizeCreditNote", c, total, i))

FinalizeCreditNoteCommit(w) ==
    /\ Running(w, "finalizeCreditNote")
    /\ LET c == request[w].creditNote
           total == request[w].total
       IN  /\ creditNote[c].status = "DRAFT"
           /\ creditNote' = [creditNote EXCEPT ![c].status = "FINALIZED",
                                               ![c].unappliedAmount = total,
                                               ![c].posted = total]
           /\ receivable' = receivable - total
    /\ Finish(w)
    /\ UNCHANGED <<invoice, payment, allocation, creditAllocation, refund>>

\* The two counts void() takes after its claim.
HasActiveUses(c) ==
    \/ \E k \in CreditAllocations :
         /\ creditAllocation[k].status = "ACTIVE"
         /\ creditAllocation[k].creditNote = c
    \/ \E r \in Refunds : refund[r].status = "POSTED" /\ refund[r].source = c

VoidCreditNote(c) ==
    /\ \/ creditNote[c].status = "DRAFT"
       \/ creditNote[c].status = "FINALIZED" /\ ~HasActiveUses(c)
    /\ creditNote' = [creditNote EXCEPT ![c].status = "VOIDED", ![c].posted = 0]
    /\ receivable' = receivable + creditNote[c].posted
    /\ UNCHANGED <<invoice, payment, allocation, creditAllocation, refund,
                   request>>

RemoveCreditNoteRead(w, c) ==
    /\ creditNote[c].status = "DRAFT"
    /\ Begin(w, [op |-> "removeCreditNote", creditNote |-> c])

\* delete by id alone; its allocations go with it (ON DELETE CASCADE).
RemoveCreditNoteCommit(w) ==
    /\ Running(w, "removeCreditNote")
    /\ LET c == request[w].creditNote
       IN  /\ creditNote[c].status # "DELETED"
           /\ creditNote' = [creditNote EXCEPT ![c].status = "DELETED"]
           /\ creditAllocation' = [k \in CreditAllocations |->
                IF /\ creditAllocation[k].creditNote = c
                   /\ creditAllocation[k].status = "ACTIVE"
                THEN [creditAllocation[k] EXCEPT !.status = "CASCADED"]
                ELSE creditAllocation[k]]
    /\ Finish(w)
    /\ UNCHANGED <<invoice, payment, allocation, refund, receivable>>

\* Matches an AR credit to an invoice: base balances only, no journal.
ApplyCreditNote(k, c, i, amount) ==
    /\ creditAllocation[k].status = "NONE"
    /\ creditNote[c].status = "FINALIZED"
    /\ creditNote[c].unappliedAmount >= amount
    /\ invoice[i].status = "FINALIZED"
    /\ invoice[i].balanceDue >= amount
    /\ creditNote' = [creditNote EXCEPT ![c].unappliedAmount = @ - amount]
    /\ invoice' = [invoice EXCEPT ![i].balanceDue = @ - amount]
    /\ creditAllocation' = [creditAllocation EXCEPT ![k] =
         [status |-> "ACTIVE", creditNote |-> c, invoice |-> i,
          amount |-> amount]]
    /\ UNCHANGED <<payment, allocation, refund, receivable, request>>

\* Mutant of CreditReversalClaim: an allocation is reversed twice.
CreditReversalUnclaimed(k) == creditAllocation[k].status # "NONE"

\* where reversedAt null.
CreditReversalClaim(k) == creditAllocation[k].status = "ACTIVE"

ReverseCreditAllocation(k) ==
    LET a == creditAllocation[k]
        c == a.creditNote
        i == a.invoice
    IN  /\ CreditReversalClaim(k)
        /\ creditNote[c].status = "FINALIZED"
        /\ creditNote[c].unappliedAmount + a.amount <= creditNote[c].total
        /\ invoice[i].status = "FINALIZED"
        /\ invoice[i].balanceDue + a.amount <= invoice[i].total
        /\ creditAllocation' = [creditAllocation EXCEPT ![k].status = "REVERSED"]
        /\ creditNote' = [creditNote EXCEPT ![c].unappliedAmount = @ + a.amount]
        /\ invoice' = [invoice EXCEPT ![i].balanceDue = @ + a.amount]
        /\ UNCHANGED <<payment, allocation, refund, receivable, request>>

-----------------------------------------------------------------------------
(* Customer refunds of a payment's or a credit note's unapplied amount.  A  *)
(* payment's transactionUnappliedAmount is left as it is.                   *)

CreateRefundFromPayment(r, p, amount) ==
    /\ refund[r].status = "NONE"
    /\ payment[p].status = "POSTED"
    /\ payment[p].unappliedAmount >= amount
    /\ payment' = [payment EXCEPT ![p].unappliedAmount = @ - amount]
    /\ refund' = [refund EXCEPT ![r] =
         [status |-> "POSTED", source |-> p, amount |-> amount]]
    /\ receivable' = receivable + amount
    /\ UNCHANGED <<invoice, creditNote, allocation, creditAllocation, request>>

CreateRefundFromCreditNote(r, c, amount) ==
    /\ refund[r].status = "NONE"
    /\ creditNote[c].status = "FINALIZED"
    /\ creditNote[c].unappliedAmount >= amount
    /\ creditNote' = [creditNote EXCEPT ![c].unappliedAmount = @ - amount]
    /\ refund' = [refund EXCEPT ![r] =
         [status |-> "POSTED", source |-> c, amount |-> amount]]
    /\ receivable' = receivable + amount
    /\ UNCHANGED <<invoice, payment, allocation, creditAllocation, request>>

\* Mutant of RefundVoidClaim: a competing void is not refused.
RefundVoidUnclaimed(r) == refund[r].status # "NONE"

\* where status POSTED.
RefundVoidClaim(r) == refund[r].status = "POSTED"

VoidRefundOfPayment(r) ==
    LET p == refund[r].source
        amount == refund[r].amount
    IN  /\ RefundVoidClaim(r)
        /\ p \in Payments
        /\ payment[p].status = "POSTED"
        /\ payment[p].unappliedAmount + amount <= payment[p].amountReceived
        /\ refund' = [refund EXCEPT ![r].status = "VOIDED"]
        /\ payment' = [payment EXCEPT ![p].unappliedAmount = @ + amount]
        /\ receivable' = receivable - amount
        /\ UNCHANGED <<invoice, creditNote, allocation, creditAllocation,
                       request>>

VoidRefundOfCreditNote(r) ==
    LET c == refund[r].source
        amount == refund[r].amount
    IN  /\ RefundVoidClaim(r)
        /\ c \in CreditNotes
        /\ creditNote[c].status = "FINALIZED"
        /\ creditNote[c].unappliedAmount + amount <= creditNote[c].total
        /\ refund' = [refund EXCEPT ![r].status = "VOIDED"]
        /\ creditNote' = [creditNote EXCEPT ![c].unappliedAmount = @ + amount]
        /\ receivable' = receivable - amount
        /\ UNCHANGED <<invoice, payment, allocation, creditAllocation, request>>

-----------------------------------------------------------------------------
AllocationLists == [Invoices -> Amounts \cup {0}]

InvoiceNext ==
    \/ \E i \in Invoices :
         \/ \E total \in Amounts : CreateInvoice(i, total) \/ UpdateInvoice(i, total)
         \/ VoidInvoice(i)
         \/ \E w \in Workers : FinalizeInvoiceRead(w, i) \/ RemoveInvoiceRead(w, i)
    \/ \E w \in Workers : FinalizeInvoiceCommit(w) \/ RemoveInvoiceCommit(w)

PaymentNext ==
    \/ \E w \in Workers :
         \/ \E p \in Payments :
              \/ \E received \in Amounts, allocs \in AllocationLists :
                   CreatePaymentRead(w, p, received, allocs)
              \/ \E u \in Allocations, i \in Invoices, amount \in Amounts :
                   ApplyUnappliedRead(w, u, p, i, amount)
              \/ VoidPaymentRead(w, p)
         \/ CreatePaymentCommit(w)
         \/ ApplyUnappliedCommit(w)
         \/ VoidPaymentCommit(w)
    \/ \E u \in Allocations : ReverseUnappliedAllocation(u)

CreditNoteNext ==
    \/ \E w \in Workers :
         \/ \E c \in CreditNotes :
              \/ \E total \in Amounts, i \in Invoices \cup {None} :
                   \/ CreateCreditNoteRead(w, c, total, i)
                   \/ UpdateCreditNoteRead(w, c, total, i)
              \/ FinalizeCreditNoteRead(w, c)
              \/ RemoveCreditNoteRead(w, c)
         \/ CreateCreditNoteCommit(w)
         \/ UpdateCreditNoteCommit(w)
         \/ FinalizeCreditNoteCommit(w)
         \/ RemoveCreditNoteCommit(w)
    \/ \E c \in CreditNotes :
         \/ VoidCreditNote(c)
         \/ \E k \in CreditAllocations, i \in Invoices, amount \in Amounts :
              ApplyCreditNote(k, c, i, amount)
    \/ \E k \in CreditAllocations : ReverseCreditAllocation(k)

RefundNext ==
    \E r \in Refunds :
      \/ \E p \in Payments, amount \in Amounts : CreateRefundFromPayment(r, p, amount)
      \/ \E c \in CreditNotes, amount \in Amounts : CreateRefundFromCreditNote(r, c, amount)
      \/ VoidRefundOfPayment(r)
      \/ VoidRefundOfCreditNote(r)

Next ==
    \/ InvoiceNext
    \/ PaymentNext
    \/ CreditNoteNext
    \/ RefundNext
    \/ \E w \in Workers : Abort(w)

Spec == Init /\ [][Next]_vars

-----------------------------------------------------------------------------
(* Properties that hold whatever the handlers interleave with. *)

\* What takes from the balance of invoice i: direct allocations of posted
\* payments, active later allocations, credit allocations not given back.
PaidTo(i) ==
    [p \in Payments |->
       IF payment[p].status = "POSTED" THEN payment[p].allocations[i] ELSE 0]

AppliedTo(i) ==
    [u \in Allocations |->
       IF allocation[u].status = "ACTIVE" /\ allocation[u].invoice = i
       THEN allocation[u].sourceBaseAmount ELSE 0]

CreditedTo(i) ==
    [k \in CreditAllocations |->
       IF /\ creditAllocation[k].status \in {"ACTIVE", "CASCADED"}
          /\ creditAllocation[k].invoice = i
       THEN creditAllocation[k].amount ELSE 0]

\* The balance due of a finalized invoice is the amount its journal posted
\* less everything applied to it: no claim is lost, taken twice or given back
\* twice by concurrent payments, allocations, credits, reversals and voids.
InvoiceConserved ==
    \A i \in Invoices : invoice[i].status = "FINALIZED" =>
      invoice[i].balanceDue + Total(Payments, PaidTo(i))
        + Total(Allocations, AppliedTo(i))
        + Total(CreditAllocations, CreditedTo(i)) = invoice[i].posted

\* What was taken from payment p.
SettledFrom(p) ==
    [u \in Allocations |->
       IF allocation[u].status = "ACTIVE" /\ allocation[u].payment = p
       THEN allocation[u].settlementBaseAmount ELSE 0]

TransactionSettledFrom(p) ==
    [u \in Allocations |->
       IF allocation[u].status = "ACTIVE" /\ allocation[u].payment = p
       THEN allocation[u].transactionAmount ELSE 0]

RefundedFrom(s) ==
    [r \in Refunds |->
       IF refund[r].status = "POSTED" /\ refund[r].source = s
       THEN refund[r].amount ELSE 0]

\* The amount received by a posted payment is exactly its allocations, its
\* posted refunds and what is still unapplied, and the same holds for the
\* transaction amounts, which refunds leave alone: money received is never
\* spent twice by concurrent allocations and refunds.
PaymentConserved ==
    \A p \in Payments : payment[p].status = "POSTED" =>
      /\ payment[p].unappliedAmount + Total(Invoices, payment[p].allocations)
           + Total(Allocations, SettledFrom(p))
           + Total(Refunds, RefundedFrom(p)) = payment[p].amountReceived
      /\ payment[p].transactionUnappliedAmount
           + Total(Invoices, payment[p].allocations)
           + Total(Allocations, TransactionSettledFrom(p))
             = payment[p].amountReceived

CreditedFrom(c) ==
    [k \in CreditAllocations |->
       IF creditAllocation[k].status = "ACTIVE" /\ creditAllocation[k].creditNote = c
       THEN creditAllocation[k].amount ELSE 0]

\* The amount posted by a finalized credit note is exactly its active
\* allocations, its posted refunds and what is still unapplied.
CreditNoteConserved ==
    \A c \in CreditNotes : creditNote[c].status = "FINALIZED" =>
      creditNote[c].unappliedAmount + Total(CreditAllocations, CreditedFrom(c))
        + Total(Refunds, RefundedFrom(c)) = creditNote[c].posted

\* Voiding claims the row first and counts afterwards: no invoice is voided
\* or deleted under a posted payment's allocation, and no invoice or credit
\* note under an active credit allocation or a refund.
ApplicationsBacked ==
    /\ \A p \in Payments, i \in Invoices :
         payment[p].status = "POSTED" /\ payment[p].allocations[i] > 0
           => invoice[i].status = "FINALIZED"
    /\ \A u \in Allocations : allocation[u].status = "ACTIVE" =>
         (payment[allocation[u].payment].status = "POSTED"
            => invoice[allocation[u].invoice].status = "FINALIZED")
    /\ \A k \in CreditAllocations : creditAllocation[k].status = "ACTIVE" =>
         /\ invoice[creditAllocation[k].invoice].status = "FINALIZED"
         /\ creditNote[creditAllocation[k].creditNote].status = "FINALIZED"
    /\ \A r \in Refunds :
         refund[r].status = "POSTED" /\ refund[r].source \in CreditNotes
           => creditNote[refund[r].source].status \in {"FINALIZED", "DELETED"}

\* A finalized or voided invoice keeps its total and, until it is voided, its
\* journal's amount, and is never a draft again, whatever update or finalize
\* was already under way.
PostedInvoicesFrozen ==
    [][\A i \in Invoices : invoice[i].status \in {"FINALIZED", "VOIDED"} =>
         /\ invoice'[i].total = invoice[i].total
         /\ \/ invoice'[i].posted = invoice[i].posted
            \/ invoice'[i].status = "VOIDED" /\ invoice'[i].posted = 0
         /\ invoice'[i].status \in {invoice[i].status, "VOIDED", "DELETED"}]_vars

-----------------------------------------------------------------------------
(* Invoices, payments and credit notes are open items; allocations and      *)
(* refunds are uses of them.                                                *)

Items == Invoices \cup Payments \cup CreditNotes
Uses == Payments \cup Allocations \cup CreditAllocations \cup Refunds

StateOf(status) ==
    CASE status \in {"NONE", "DRAFT"} -> "NONE"
      [] status \in {"FINALIZED", "POSTED"} -> "OPEN"
      [] OTHER -> "CLOSED"

ItemState ==
    [x \in Items |-> CASE x \in Invoices -> StateOf(invoice[x].status)
                       [] x \in Payments -> StateOf(payment[x].status)
                       [] OTHER -> StateOf(creditNote[x].status)]

ItemAmount ==
    [x \in Items |->
       CASE x \in Invoices ->
              IF invoice[x].status = "FINALIZED" THEN invoice[x].posted ELSE 0
         [] x \in Payments ->
              IF payment[x].status = "POSTED" THEN payment[x].amountReceived ELSE 0
         [] OTHER ->
              IF creditNote[x].status = "FINALIZED" THEN creditNote[x].posted ELSE 0]

ItemRemaining ==
    [x \in Items |->
       CASE x \in Invoices ->
              IF invoice[x].status = "FINALIZED" THEN invoice[x].balanceDue ELSE 0
         [] x \in Payments ->
              IF payment[x].status = "POSTED" THEN payment[x].unappliedAmount ELSE 0
         [] OTHER ->
              IF creditNote[x].status = "FINALIZED"
              THEN creditNote[x].unappliedAmount ELSE 0]

\* A payment takes its direct allocations from the invoices and from itself.
TakenByPayment(p, x) ==
    IF payment[p].status # "POSTED" THEN 0
    ELSE IF x = p THEN Total(Invoices, payment[p].allocations)
    ELSE IF x \in Invoices THEN payment[p].allocations[x] ELSE 0

TakenByAllocation(u, x) ==
    IF allocation[u].status # "ACTIVE" THEN 0
    ELSE IF x = allocation[u].payment THEN allocation[u].settlementBaseAmount
    ELSE IF x = allocation[u].invoice THEN allocation[u].sourceBaseAmount ELSE 0

TakenByCredit(k, x) ==
    IF /\ creditAllocation[k].status \in {"ACTIVE", "CASCADED"}
       /\ x \in {creditAllocation[k].creditNote, creditAllocation[k].invoice}
    THEN creditAllocation[k].amount ELSE 0

TakenByRefund(r, x) ==
    IF refund[r].status = "POSTED" /\ refund[r].source = x
    THEN refund[r].amount ELSE 0

ItemsTaken ==
    [u \in Uses |-> [x \in Items |->
       CASE u \in Payments -> TakenByPayment(u, x)
         [] u \in Allocations -> TakenByAllocation(u, x)
         [] u \in CreditAllocations -> TakenByCredit(u, x)
         [] OTHER -> TakenByRefund(u, x)]]

Subledger == INSTANCE OpenItems WITH
    state <- ItemState, amount <- ItemAmount,
    remaining <- ItemRemaining, taken <- ItemsTaken

\* Whatever they interleave with, the handlers of receivables, which decide on
\* balances they read before their claims, behave as if every payment,
\* allocation, credit, refund, reversal and void were one exact step on the
\* items it names: none takes more than remains, from a closed item or in
\* part, and none is given back twice or to a closed item.
ImplementsOpenItems == Subledger!Spec

-----------------------------------------------------------------------------
(* The control account.                                                     *)

\* A document deleted after it was finalized keeps its journal.
Posted(row) ==
    \/ row.status = "FINALIZED"
    \/ row.status = "DELETED" /\ row.posted > 0

\* The subledger: open invoices less unapplied payments and credits.
OpenInvoices ==
    [i \in Invoices |-> IF Posted(invoice[i]) THEN invoice[i].balanceDue ELSE 0]

OpenPayments ==
    [p \in Payments |-> IF payment[p].status = "POSTED"
                        THEN payment[p].unappliedAmount ELSE 0]

OpenCreditNotes ==
    [c \in CreditNotes |-> IF Posted(creditNote[c])
                           THEN creditNote[c].unappliedAmount ELSE 0]

\* What refunds and later allocations still take from a payment after its
\* void, which counted before them, reversed its journal; and what the void of
\* the invoice, which looks past them, then takes back once more.
RefundsLeftBehind ==
    [r \in Refunds |->
       IF /\ refund[r].status = "POSTED" /\ refund[r].source \in Payments
          /\ payment[refund[r].source].status = "VOIDED"
       THEN refund[r].amount ELSE 0]

AllocationsLeftBehind ==
    [u \in Allocations |->
       IF /\ allocation[u].status = "ACTIVE"
          /\ payment[allocation[u].payment].status = "VOIDED"
       THEN allocation[u].settlementBaseAmount ELSE 0]

OfVoidedInvoices ==
    [u \in Allocations |->
       IF /\ allocation[u].status = "ACTIVE"
          /\ ~Posted(invoice[allocation[u].invoice])
       THEN allocation[u].sourceBaseAmount ELSE 0]

\* The void of an invoice looks past the allocations of a deleted credit note,
\* and its deletion afterwards changes nothing of that.
CreditOfVoidedInvoices ==
    [k \in CreditAllocations |->
       IF /\ creditAllocation[k].status = "CASCADED"
          /\ ~Posted(invoice[creditAllocation[k].invoice])
       THEN creditAllocation[k].amount ELSE 0]

\* The AR control account equals the customer subledger, up to what voids and
\* deletions leave behind: every handler posts the journal (or none, for
\* matching) that its balance changes call for, and no other interleaving of
\* them makes the account drift.
ControlAccountTiesOut ==
    receivable = Total(Invoices, OpenInvoices)
                   - Total(Payments, OpenPayments)
                   - Total(CreditNotes, OpenCreditNotes)
                   + Total(Refunds, RefundsLeftBehind)
                   + Total(Allocations, AllocationsLeftBehind)
                   - Total(Allocations, OfVoidedInvoices)
                   - Total(CreditAllocations, CreditOfVoidedInvoices)
=============================================================================

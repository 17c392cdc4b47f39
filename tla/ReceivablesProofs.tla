------------------------- MODULE ReceivablesProofs -------------------------
(***************************************************************************)
(* Proofs about Receivables for every number of rows, workers and amounts. *)
(*                                                                         *)
(* The conservation laws are not inductive alone.  They need the types, of *)
(* which the claims keep the balances natural; what a request that is      *)
(* under way has established (Requests); that a row in use names real rows *)
(* (References); and that what is not posted yet is not used yet, which    *)
(* makes the step that posts it start from an empty sum.                   *)
(*                                                                         *)
(* The laws about several documents at once follow from what a step does   *)
(* to the rows (RowChange), whichever handler takes it: that nothing in    *)
(* force rests on a voided document (BackedInv), that the control account  *)
(* is the sum of the open documents, and that every step is one step, or   *)
(* none, of the abstract subledger OpenItems.                              *)
(***************************************************************************)
EXTENDS Receivables, TotalsProofs

\* What the guards of a Read action leave true until its Commit action.
WellFormed(r) ==
    /\ r.op = "createPayment" =>
         Total(Invoices, r.allocations) <= r.amountReceived
    /\ r.op = "applyUnapplied" =>
         /\ r.row.status = "ACTIVE"
         /\ r.row.payment \in Payments
         /\ r.row.invoice \in Invoices

Requests == \A w \in Workers : WellFormed(request[w])

\* Rows in use reference rows.
References ==
    /\ \A u \in Allocations : allocation[u].status # "NONE" =>
         allocation[u].payment \in Payments /\ allocation[u].invoice \in Invoices
    /\ \A k \in CreditAllocations : creditAllocation[k].status # "NONE" =>
         /\ creditAllocation[k].creditNote \in CreditNotes
         /\ creditAllocation[k].invoice \in Invoices

TypeInv == TypeOK /\ Requests /\ References

\* The law of one invoice: conserved once finalized, nothing applied before.
InvoiceLaw(i) ==
    /\ invoice[i].status = "FINALIZED" =>
         invoice[i].balanceDue + Total(Payments, PaidTo(i))
           + Total(Allocations, AppliedTo(i))
           + Total(CreditAllocations, CreditedTo(i)) = invoice[i].posted
    /\ invoice[i].status \in {"NONE", "DRAFT"} =>
         /\ \A p \in Payments : PaidTo(i)[p] = 0
         /\ \A u \in Allocations : AppliedTo(i)[u] = 0
         /\ \A k \in CreditAllocations : CreditedTo(i)[k] = 0

InvoiceInv == \A i \in Invoices : InvoiceLaw(i)

\* The law of one payment: conserved while posted, nothing taken before.
PaymentLaw(p) ==
    /\ payment[p].status = "POSTED" =>
         /\ payment[p].unappliedAmount + Total(Invoices, payment[p].allocations)
              + Total(Allocations, SettledFrom(p))
              + Total(Refunds, RefundedFrom(p)) = payment[p].amountReceived
         /\ payment[p].transactionUnappliedAmount
              + Total(Invoices, payment[p].allocations)
              + Total(Allocations, TransactionSettledFrom(p))
                = payment[p].amountReceived
    /\ payment[p].status = "NONE" =>
         /\ \A u \in Allocations :
              SettledFrom(p)[u] = 0 /\ TransactionSettledFrom(p)[u] = 0
         /\ \A r \in Refunds : RefundedFrom(p)[r] = 0

PaymentInv == \A p \in Payments : PaymentLaw(p)

\* The law of one credit note: conserved once finalized, nothing taken before.
CreditNoteLaw(c) ==
    /\ creditNote[c].status = "FINALIZED" =>
         creditNote[c].unappliedAmount + Total(CreditAllocations, CreditedFrom(c))
           + Total(Refunds, RefundedFrom(c)) = creditNote[c].posted
    /\ creditNote[c].status \in {"NONE", "DRAFT"} =>
         /\ \A k \in CreditAllocations : CreditedFrom(c)[k] = 0
         /\ \A r \in Refunds : RefundedFrom(c)[r] = 0

CreditNoteInv == \A c \in CreditNotes : CreditNoteLaw(c)

IInv == TypeInv /\ InvoiceInv /\ PaymentInv /\ CreditNoteInv

-----------------------------------------------------------------------------
(* Types. *)

\* What a running handler kept from its read.
LEMMA RequestTypes ==
    ASSUME TypeInv, NEW w \in Workers
    PROVE  /\ Running(w, "finalizeInvoice") =>
                request[w].invoice \in Invoices /\ request[w].total \in Nat
           /\ Running(w, "removeInvoice") => request[w].invoice \in Invoices
           /\ Running(w, "createPayment") =>
                /\ request[w].payment \in Payments
                /\ request[w].amountReceived \in Nat
                /\ request[w].allocations \in [Invoices -> Nat]
                /\ Total(Invoices, request[w].allocations) <= request[w].amountReceived
           /\ Running(w, "applyUnapplied") =>
                /\ request[w].allocation \in Allocations
                /\ request[w].row \in Allocation
                /\ request[w].row.status = "ACTIVE"
                /\ request[w].row.payment \in Payments
                /\ request[w].row.invoice \in Invoices
           /\ Running(w, "voidPayment") => request[w].payment \in Payments
           /\ Running(w, "createCreditNote") \/ Running(w, "updateCreditNote")
                \/ Running(w, "finalizeCreditNote") =>
                /\ request[w].creditNote \in CreditNotes
                /\ request[w].total \in Nat
                /\ request[w].originalInvoice \in Invoices \cup {None}
           /\ Running(w, "removeCreditNote") => request[w].creditNote \in CreditNotes
<1>1. request[w] \in Request /\ WellFormed(request[w])
  BY DEF TypeInv, TypeOK, Requests
<1>2. Running(w, "finalizeInvoice") =>
        request[w].invoice \in Invoices /\ request[w].total \in Nat
  BY <1>1 DEF Request, Idle, Running
<1>3. Running(w, "removeInvoice") => request[w].invoice \in Invoices
  BY <1>1 DEF Request, Idle, Running
<1>4. Running(w, "createPayment") =>
        /\ request[w].payment \in Payments
        /\ request[w].amountReceived \in Nat
        /\ request[w].allocations \in [Invoices -> Nat]
  BY <1>1 DEF Request, Idle, Running
<1>5. Running(w, "applyUnapplied") =>
        request[w].allocation \in Allocations /\ request[w].row \in Allocation
  BY <1>1 DEF Request, Idle, Running
<1>6. Running(w, "voidPayment") => request[w].payment \in Payments
  BY <1>1 DEF Request, Idle, Running
<1>7. Running(w, "createCreditNote") \/ Running(w, "updateCreditNote")
        \/ Running(w, "finalizeCreditNote") =>
        /\ request[w].creditNote \in CreditNotes
        /\ request[w].total \in Nat
        /\ request[w].originalInvoice \in Invoices \cup {None}
  BY <1>1 DEF Request, Idle, Running
<1>8. Running(w, "removeCreditNote") => request[w].creditNote \in CreditNotes
  BY <1>1 DEF Request, Idle, Running
<1>9. QED
  BY <1>1, <1>2, <1>3, <1>4, <1>5, <1>6, <1>7, <1>8 DEF WellFormed, Running

\* A Read action keeps the types when the request it begins is well formed.
LEMMA BeginType ==
    ASSUME TypeInv, NEW w \in Workers, NEW r \in Request, WellFormed(r),
           Begin(w, r)
    PROVE  TypeInv'
<1>1. UNCHANGED rows /\ request' = [request EXCEPT ![w] = r]
  BY DEF Begin
<1>2. request' \in [Workers -> Request]
  BY <1>1 DEF TypeInv, TypeOK
<1>3. Requests'
  BY <1>1 DEF TypeInv, TypeOK, Requests
<1>4. QED
  BY <1>1, <1>2, <1>3 DEF rows, TypeInv, TypeOK, References

\* An action that ends a request keeps the requests well formed.
LEMMA FinishType ==
    ASSUME TypeInv, NEW w \in Workers, Finish(w)
    PROVE  request' \in [Workers -> Request] /\ Requests'
<1>1. Idle \in Request /\ WellFormed(Idle)
  BY DEF Idle, Request, WellFormed
<1>2. request' = [request EXCEPT ![w] = Idle]
  BY DEF Finish
<1>3. QED
  BY <1>1, <1>2 DEF TypeInv, TypeOK, Requests

-----------------------------------------------------------------------------
(* Sums over rows of which one changes. *)

\* The sums of the conservation laws add naturals.
AmountsTyped ==
    /\ \A i \in Invoices :
         /\ PaidTo(i) \in [Payments -> Nat]
         /\ AppliedTo(i) \in [Allocations -> Nat]
         /\ CreditedTo(i) \in [CreditAllocations -> Nat]
    /\ \A p \in Payments :
         /\ payment[p].allocations \in [Invoices -> Nat]
         /\ SettledFrom(p) \in [Allocations -> Nat]
         /\ TransactionSettledFrom(p) \in [Allocations -> Nat]
    /\ \A c \in CreditNotes : CreditedFrom(c) \in [CreditAllocations -> Nat]
    /\ \A s \in Payments \cup CreditNotes : RefundedFrom(s) \in [Refunds -> Nat]

\* Typed rows have typed amounts.
LEMMA AmountTypes == TypeOK => AmountsTyped
<1> SUFFICES ASSUME TypeOK
             PROVE  AmountsTyped
  OBVIOUS
<1>1. \A i \in Invoices : PaidTo(i) \in [Payments -> Nat]
  BY DEF TypeOK, Payment, PaidTo
<1>2. \A i \in Invoices : AppliedTo(i) \in [Allocations -> Nat]
  BY DEF TypeOK, Allocation, AppliedTo
<1>3. \A i \in Invoices : CreditedTo(i) \in [CreditAllocations -> Nat]
  BY DEF TypeOK, CreditAllocation, CreditedTo
<1>4. \A p \in Payments : SettledFrom(p) \in [Allocations -> Nat]
  BY DEF TypeOK, Allocation, SettledFrom
<1>5. \A p \in Payments : TransactionSettledFrom(p) \in [Allocations -> Nat]
  BY DEF TypeOK, Allocation, TransactionSettledFrom
<1>6. \A c \in CreditNotes : CreditedFrom(c) \in [CreditAllocations -> Nat]
  BY DEF TypeOK, CreditAllocation, CreditedFrom
<1>7. \A s \in Payments \cup CreditNotes : RefundedFrom(s) \in [Refunds -> Nat]
  BY DEF TypeOK, Refund, RefundedFrom
<1>8. \A p \in Payments : payment[p].allocations \in [Invoices -> Nat]
  BY DEF TypeOK, Payment
<1>9. QED
  BY <1>1, <1>2, <1>3, <1>4, <1>5, <1>6, <1>7, <1>8 DEF AmountsTyped

\* The same after a step.
LEMMA AmountTypesNext == TypeOK' => AmountsTyped'
  BY AmountTypes, PTL

\* The totals are naturals.
LEMMA TotalTypes ==
    ASSUME AmountsTyped
    PROVE  /\ \A i \in Invoices : /\ Total(Payments, PaidTo(i)) \in Nat
                                  /\ Total(Allocations, AppliedTo(i)) \in Nat
                                  /\ Total(CreditAllocations, CreditedTo(i)) \in Nat
           /\ \A p \in Payments : /\ Total(Invoices, payment[p].allocations) \in Nat
                                  /\ Total(Allocations, SettledFrom(p)) \in Nat
                                  /\ Total(Allocations, TransactionSettledFrom(p)) \in Nat
           /\ \A c \in CreditNotes : Total(CreditAllocations, CreditedFrom(c)) \in Nat
           /\ \A s \in Payments \cup CreditNotes : Total(Refunds, RefundedFrom(s)) \in Nat
<1> USE TotalType, FiniteRows DEF AmountsTyped
<1>1. \A i \in Invoices : Total(Payments, PaidTo(i)) \in Nat
  OBVIOUS
<1>2. \A i \in Invoices : Total(Allocations, AppliedTo(i)) \in Nat
  OBVIOUS
<1>3. \A i \in Invoices : Total(CreditAllocations, CreditedTo(i)) \in Nat
  OBVIOUS
<1>4. \A p \in Payments : Total(Invoices, payment[p].allocations) \in Nat
  OBVIOUS
<1>5. \A p \in Payments : Total(Allocations, SettledFrom(p)) \in Nat
  OBVIOUS
<1>6. \A p \in Payments : Total(Allocations, TransactionSettledFrom(p)) \in Nat
  OBVIOUS
<1>7. \A c \in CreditNotes : Total(CreditAllocations, CreditedFrom(c)) \in Nat
  OBVIOUS
<1>8. \A s \in Payments \cup CreditNotes : Total(Refunds, RefundedFrom(s)) \in Nat
  OBVIOUS
<1>9. QED
  BY <1>1, <1>2, <1>3, <1>4, <1>5, <1>6, <1>7, <1>8

\* One payment changes.
LEMMA PaidToChange ==
    ASSUME TypeOK, TypeOK', NEW p \in Payments,
           \A q \in Payments \ {p} : payment'[q] = payment[q]
    PROVE  \A i \in Invoices :
             /\ Total(Payments, PaidTo(i))'
                  = Total(Payments, PaidTo(i)) - PaidTo(i)[p] + PaidTo(i)'[p]
             /\ PaidTo(i)[p] \in Nat /\ PaidTo(i)'[p] \in Nat
             /\ \A q \in Payments \ {p} : PaidTo(i)'[q] = PaidTo(i)[q]
<1> TAKE i \in Invoices
<1>1. PaidTo(i) \in [Payments -> Nat] /\ PaidTo(i)' \in [Payments -> Nat]
  BY AmountTypes, AmountTypesNext DEF AmountsTyped
<1>2. \A q \in Payments \ {p} : PaidTo(i)[q] = PaidTo(i)'[q]
  BY DEF PaidTo
<1>3. QED
  BY <1>1, <1>2, TotalUpdate, FiniteRows

\* One later allocation changes.
LEMMA AppliedChange ==
    ASSUME TypeOK, TypeOK', NEW u \in Allocations,
           \A v \in Allocations \ {u} : allocation'[v] = allocation[v]
    PROVE  /\ \A i \in Invoices :
                /\ Total(Allocations, AppliedTo(i))'
                     = Total(Allocations, AppliedTo(i)) - AppliedTo(i)[u]
                         + AppliedTo(i)'[u]
                /\ \A v \in Allocations \ {u} : AppliedTo(i)'[v] = AppliedTo(i)[v]
           /\ \A p \in Payments :
                /\ Total(Allocations, SettledFrom(p))'
                     = Total(Allocations, SettledFrom(p)) - SettledFrom(p)[u]
                         + SettledFrom(p)'[u]
                /\ Total(Allocations, TransactionSettledFrom(p))'
                     = Total(Allocations, TransactionSettledFrom(p))
                         - TransactionSettledFrom(p)[u]
                         + TransactionSettledFrom(p)'[u]
                /\ \A v \in Allocations \ {u} :
                     /\ SettledFrom(p)'[v] = SettledFrom(p)[v]
                     /\ TransactionSettledFrom(p)'[v] = TransactionSettledFrom(p)[v]
<1>1. ASSUME NEW i \in Invoices
      PROVE  /\ AppliedTo(i) \in [Allocations -> Nat]
             /\ AppliedTo(i)' \in [Allocations -> Nat]
             /\ \A v \in Allocations \ {u} : AppliedTo(i)[v] = AppliedTo(i)'[v]
  <2>1. \A v \in Allocations \ {u} : AppliedTo(i)[v] = AppliedTo(i)'[v]
    BY DEF AppliedTo
  <2>2. QED
    BY <2>1, AmountTypes, AmountTypesNext DEF AmountsTyped
<1>2. ASSUME NEW p \in Payments
      PROVE  /\ SettledFrom(p) \in [Allocations -> Nat]
             /\ SettledFrom(p)' \in [Allocations -> Nat]
             /\ \A v \in Allocations \ {u} : SettledFrom(p)[v] = SettledFrom(p)'[v]
  <2>1. \A v \in Allocations \ {u} : SettledFrom(p)[v] = SettledFrom(p)'[v]
    BY DEF SettledFrom
  <2>2. QED
    BY <2>1, AmountTypes, AmountTypesNext DEF AmountsTyped
<1>3. ASSUME NEW p \in Payments
      PROVE  /\ TransactionSettledFrom(p) \in [Allocations -> Nat]
             /\ TransactionSettledFrom(p)' \in [Allocations -> Nat]
             /\ \A v \in Allocations \ {u} :
                  TransactionSettledFrom(p)[v] = TransactionSettledFrom(p)'[v]
  <2>1. \A v \in Allocations \ {u} :
          TransactionSettledFrom(p)[v] = TransactionSettledFrom(p)'[v]
    BY DEF TransactionSettledFrom
  <2>2. QED
    BY <2>1, AmountTypes, AmountTypesNext DEF AmountsTyped
<1>4. ASSUME NEW i \in Invoices
      PROVE  Total(Allocations, AppliedTo(i))'
               = Total(Allocations, AppliedTo(i)) - AppliedTo(i)[u] + AppliedTo(i)'[u]
  BY <1>1, TotalUpdate, FiniteRows
<1>5. ASSUME NEW p \in Payments
      PROVE  Total(Allocations, SettledFrom(p))'
               = Total(Allocations, SettledFrom(p)) - SettledFrom(p)[u] + SettledFrom(p)'[u]
  BY <1>2, TotalUpdate, FiniteRows
<1>6. ASSUME NEW p \in Payments
      PROVE  Total(Allocations, TransactionSettledFrom(p))'
               = Total(Allocations, TransactionSettledFrom(p))
                   - TransactionSettledFrom(p)[u] + TransactionSettledFrom(p)'[u]
  BY <1>3, TotalUpdate, FiniteRows
<1>7. QED
  BY <1>1, <1>2, <1>3, <1>4, <1>5, <1>6

\* One credit allocation changes.
LEMMA CreditedChange ==
    ASSUME TypeOK, TypeOK', NEW k \in CreditAllocations,
           \A l \in CreditAllocations \ {k} : creditAllocation'[l] = creditAllocation[l]
    PROVE  /\ \A i \in Invoices :
                /\ Total(CreditAllocations, CreditedTo(i))'
                     = Total(CreditAllocations, CreditedTo(i)) - CreditedTo(i)[k]
                         + CreditedTo(i)'[k]
                /\ \A l \in CreditAllocations \ {k} :
                     CreditedTo(i)'[l] = CreditedTo(i)[l]
           /\ \A c \in CreditNotes :
                /\ Total(CreditAllocations, CreditedFrom(c))'
                     = Total(CreditAllocations, CreditedFrom(c)) - CreditedFrom(c)[k]
                         + CreditedFrom(c)'[k]
                /\ \A l \in CreditAllocations \ {k} :
                     CreditedFrom(c)'[l] = CreditedFrom(c)[l]
<1>1. ASSUME NEW i \in Invoices
      PROVE  \A l \in CreditAllocations \ {k} : CreditedTo(i)[l] = CreditedTo(i)'[l]
  BY DEF CreditedTo
<1>2. ASSUME NEW i \in Invoices
      PROVE  /\ CreditedTo(i) \in [CreditAllocations -> Nat]
             /\ CreditedTo(i)' \in [CreditAllocations -> Nat]
  BY AmountTypes, AmountTypesNext DEF AmountsTyped
<1>3. ASSUME NEW c \in CreditNotes
      PROVE  \A l \in CreditAllocations \ {k} : CreditedFrom(c)[l] = CreditedFrom(c)'[l]
  BY DEF CreditedFrom
<1>4. ASSUME NEW c \in CreditNotes
      PROVE  /\ CreditedFrom(c) \in [CreditAllocations -> Nat]
             /\ CreditedFrom(c)' \in [CreditAllocations -> Nat]
  BY AmountTypes, AmountTypesNext DEF AmountsTyped
<1>5. ASSUME NEW i \in Invoices
      PROVE  Total(CreditAllocations, CreditedTo(i))'
               = Total(CreditAllocations, CreditedTo(i)) - CreditedTo(i)[k]
                   + CreditedTo(i)'[k]
  BY <1>1, <1>2, TotalUpdate, FiniteRows
<1>6. ASSUME NEW c \in CreditNotes
      PROVE  Total(CreditAllocations, CreditedFrom(c))'
               = Total(CreditAllocations, CreditedFrom(c)) - CreditedFrom(c)[k]
                   + CreditedFrom(c)'[k]
  BY <1>3, <1>4, TotalUpdate, FiniteRows
<1>7. QED
  BY <1>1, <1>3, <1>5, <1>6

\* One refund changes.
LEMMA RefundedChange ==
    ASSUME TypeOK, TypeOK', NEW r \in Refunds,
           \A q \in Refunds \ {r} : refund'[q] = refund[q]
    PROVE  \A s \in Payments \cup CreditNotes :
             /\ Total(Refunds, RefundedFrom(s))'
                  = Total(Refunds, RefundedFrom(s)) - RefundedFrom(s)[r]
                      + RefundedFrom(s)'[r]
             /\ \A q \in Refunds \ {r} : RefundedFrom(s)'[q] = RefundedFrom(s)[q]
<1> TAKE s \in Payments \cup CreditNotes
<1>1. \A q \in Refunds \ {r} : RefundedFrom(s)[q] = RefundedFrom(s)'[q]
  BY DEF RefundedFrom
<1>2. /\ RefundedFrom(s) \in [Refunds -> Nat]
      /\ RefundedFrom(s)' \in [Refunds -> Nat]
  BY AmountTypes, AmountTypesNext DEF AmountsTyped
<1>3. Total(Refunds, RefundedFrom(s))'
        = Total(Refunds, RefundedFrom(s)) - RefundedFrom(s)[r] + RefundedFrom(s)'[r]
  BY <1>1, <1>2, TotalUpdate, FiniteRows
<1>4. QED
  BY <1>1, <1>3

-----------------------------------------------------------------------------
(* What a conservation law does not mention does not disturb it. *)

\* The balances of the invoices.
LEMMA InvoiceFrame ==
    ASSUME InvoiceInv, UNCHANGED <<invoice, payment, allocation, creditAllocation>>
    PROVE  InvoiceInv'
<1>1. \A i \in Invoices : /\ PaidTo(i)' = PaidTo(i)
                          /\ AppliedTo(i)' = AppliedTo(i)
                          /\ CreditedTo(i)' = CreditedTo(i)
  BY DEF PaidTo, AppliedTo, CreditedTo
<1>2. QED
  BY <1>1 DEF InvoiceInv, InvoiceLaw

\* The unapplied amounts of the payments.
LEMMA PaymentFrame ==
    ASSUME PaymentInv, UNCHANGED <<payment, allocation, refund>>
    PROVE  PaymentInv'
<1>1. \A p \in Payments : /\ SettledFrom(p)' = SettledFrom(p)
                          /\ TransactionSettledFrom(p)' = TransactionSettledFrom(p)
                          /\ RefundedFrom(p)' = RefundedFrom(p)
  BY DEF SettledFrom, TransactionSettledFrom, RefundedFrom
<1>2. QED
  BY <1>1 DEF PaymentInv, PaymentLaw

\* The unapplied amounts of the credit notes.
LEMMA CreditNoteFrame ==
    ASSUME CreditNoteInv, UNCHANGED <<creditNote, creditAllocation, refund>>
    PROVE  CreditNoteInv'
<1>1. \A c \in CreditNotes : /\ CreditedFrom(c)' = CreditedFrom(c)
                             /\ RefundedFrom(c)' = RefundedFrom(c)
  BY DEF CreditedFrom, RefundedFrom
<1>2. QED
  BY <1>1 DEF CreditNoteInv, CreditNoteLaw

-----------------------------------------------------------------------------
(* One amount moves between a balance and a sum. *)

\* Between invoices and a payment's direct allocations.
LEMMA PaidKeepsInvoices ==
    ASSUME InvoiceInv, TypeOK, TypeOK', NEW p \in Payments,
           \A q \in Payments \ {p} : payment'[q] = payment[q],
           UNCHANGED <<allocation, creditAllocation>>,
           \A i \in Invoices :
             /\ invoice'[i].status = invoice[i].status
             /\ invoice'[i].posted = invoice[i].posted
             /\ invoice[i].status # "FINALIZED" => PaidTo(i)'[p] = PaidTo(i)[p]
             /\ invoice'[i].balanceDue + PaidTo(i)'[p]
                  = invoice[i].balanceDue + PaidTo(i)[p]
    PROVE  InvoiceInv'
<1> SUFFICES ASSUME NEW i \in Invoices
             PROVE  InvoiceLaw(i)'
  BY DEF InvoiceInv
<1>1. /\ AppliedTo(i)' = AppliedTo(i) /\ CreditedTo(i)' = CreditedTo(i)
      /\ Total(Allocations, AppliedTo(i)) \in Nat
      /\ Total(CreditAllocations, CreditedTo(i)) \in Nat
      /\ Total(Payments, PaidTo(i)) \in Nat
  BY AmountTypes, TotalTypes DEF AppliedTo, CreditedTo
<1>2. invoice[i].balanceDue \in Nat /\ invoice'[i].balanceDue \in Nat
  BY DEF TypeOK, Invoice
<1>3. InvoiceLaw(i)
  BY DEF InvoiceInv
<1>4. /\ Total(Payments, PaidTo(i))'
           = Total(Payments, PaidTo(i)) - PaidTo(i)[p] + PaidTo(i)'[p]
      /\ PaidTo(i)[p] \in Nat /\ PaidTo(i)'[p] \in Nat
      /\ \A q \in Payments \ {p} : PaidTo(i)'[q] = PaidTo(i)[q]
  BY PaidToChange
<1>5. invoice'[i].status = invoice[i].status /\ invoice'[i].posted = invoice[i].posted
  OBVIOUS
<1>6. CASE invoice[i].status = "FINALIZED"
  BY <1>1, <1>2, <1>3, <1>4, <1>5, <1>6 DEF InvoiceLaw
<1>7. CASE invoice[i].status # "FINALIZED"
  BY <1>1, <1>3, <1>4, <1>5, <1>7 DEF InvoiceLaw
<1>8. QED
  BY <1>6, <1>7

\* Between invoices and a later allocation.
LEMMA AppliedKeepsInvoices ==
    ASSUME InvoiceInv, TypeOK, TypeOK', NEW u \in Allocations,
           \A v \in Allocations \ {u} : allocation'[v] = allocation[v],
           UNCHANGED creditAllocation,
           \A i \in Invoices :
             /\ invoice'[i].status = invoice[i].status
             /\ invoice'[i].posted = invoice[i].posted
             /\ PaidTo(i)' = PaidTo(i)
             /\ invoice[i].status # "FINALIZED" => AppliedTo(i)'[u] = AppliedTo(i)[u]
             /\ invoice'[i].balanceDue + AppliedTo(i)'[u]
                  = invoice[i].balanceDue + AppliedTo(i)[u]
    PROVE  InvoiceInv'
<1> SUFFICES ASSUME NEW i \in Invoices
             PROVE  InvoiceLaw(i)'
  BY DEF InvoiceInv
<1>1. /\ CreditedTo(i)' = CreditedTo(i)
      /\ Total(Allocations, AppliedTo(i)) \in Nat
      /\ Total(CreditAllocations, CreditedTo(i)) \in Nat
      /\ Total(Payments, PaidTo(i)) \in Nat
  BY AmountTypes, TotalTypes DEF CreditedTo
<1>2. /\ invoice[i].balanceDue \in Nat /\ invoice'[i].balanceDue \in Nat
      /\ AppliedTo(i)[u] \in Nat /\ AppliedTo(i)'[u] \in Nat
  BY AmountTypes, AmountTypesNext DEF TypeOK, Invoice, AmountsTyped
<1>3. InvoiceLaw(i)
  BY DEF InvoiceInv
<1>4. /\ Total(Allocations, AppliedTo(i))'
           = Total(Allocations, AppliedTo(i)) - AppliedTo(i)[u] + AppliedTo(i)'[u]
      /\ \A v \in Allocations \ {u} : AppliedTo(i)'[v] = AppliedTo(i)[v]
  BY AppliedChange
<1>5. invoice'[i].status = invoice[i].status /\ invoice'[i].posted = invoice[i].posted
  OBVIOUS
<1>6. CASE invoice[i].status = "FINALIZED"
  BY <1>1, <1>2, <1>3, <1>4, <1>5, <1>6 DEF InvoiceLaw
<1>7. CASE invoice[i].status # "FINALIZED"
  BY <1>1, <1>3, <1>4, <1>5, <1>7 DEF InvoiceLaw
<1>8. QED
  BY <1>6, <1>7

\* Between invoices and a credit allocation.
LEMMA CreditedKeepsInvoices ==
    ASSUME InvoiceInv, TypeOK, TypeOK', NEW k \in CreditAllocations,
           \A l \in CreditAllocations \ {k} : creditAllocation'[l] = creditAllocation[l],
           UNCHANGED <<payment, allocation>>,
           \A i \in Invoices :
             /\ invoice'[i].status = invoice[i].status
             /\ invoice'[i].posted = invoice[i].posted
             /\ invoice[i].status # "FINALIZED" => CreditedTo(i)'[k] = CreditedTo(i)[k]
             /\ invoice'[i].balanceDue + CreditedTo(i)'[k]
                  = invoice[i].balanceDue + CreditedTo(i)[k]
    PROVE  InvoiceInv'
<1> SUFFICES ASSUME NEW i \in Invoices
             PROVE  InvoiceLaw(i)'
  BY DEF InvoiceInv
<1>1. /\ PaidTo(i)' = PaidTo(i) /\ AppliedTo(i)' = AppliedTo(i)
      /\ Total(Allocations, AppliedTo(i)) \in Nat
      /\ Total(CreditAllocations, CreditedTo(i)) \in Nat
      /\ Total(Payments, PaidTo(i)) \in Nat
  BY AmountTypes, TotalTypes DEF PaidTo, AppliedTo
<1>2. /\ invoice[i].balanceDue \in Nat /\ invoice'[i].balanceDue \in Nat
      /\ CreditedTo(i)[k] \in Nat /\ CreditedTo(i)'[k] \in Nat
  BY AmountTypes, AmountTypesNext DEF TypeOK, Invoice, AmountsTyped
<1>3. InvoiceLaw(i)
  BY DEF InvoiceInv
<1>4. /\ Total(CreditAllocations, CreditedTo(i))'
           = Total(CreditAllocations, CreditedTo(i)) - CreditedTo(i)[k] + CreditedTo(i)'[k]
      /\ \A l \in CreditAllocations \ {k} : CreditedTo(i)'[l] = CreditedTo(i)[l]
  BY CreditedChange
<1>5. invoice'[i].status = invoice[i].status /\ invoice'[i].posted = invoice[i].posted
  OBVIOUS
<1>6. CASE invoice[i].status = "FINALIZED"
  BY <1>1, <1>2, <1>3, <1>4, <1>5, <1>6 DEF InvoiceLaw
<1>7. CASE invoice[i].status # "FINALIZED"
  BY <1>1, <1>3, <1>4, <1>5, <1>7 DEF InvoiceLaw
<1>8. QED
  BY <1>6, <1>7

\* Between payments and a later allocation.
LEMMA AppliedKeepsPayments ==
    ASSUME PaymentInv, TypeOK, TypeOK', NEW u \in Allocations,
           \A v \in Allocations \ {u} : allocation'[v] = allocation[v],
           UNCHANGED refund,
           \A p \in Payments :
             /\ payment'[p].status = payment[p].status
             /\ payment'[p].amountReceived = payment[p].amountReceived
             /\ payment'[p].allocations = payment[p].allocations
             /\ payment[p].status # "POSTED" =>
                  /\ SettledFrom(p)'[u] = SettledFrom(p)[u]
                  /\ TransactionSettledFrom(p)'[u] = TransactionSettledFrom(p)[u]
             /\ payment'[p].unappliedAmount + SettledFrom(p)'[u]
                  = payment[p].unappliedAmount + SettledFrom(p)[u]
             /\ payment'[p].transactionUnappliedAmount + TransactionSettledFrom(p)'[u]
                  = payment[p].transactionUnappliedAmount + TransactionSettledFrom(p)[u]
    PROVE  PaymentInv'
<1> SUFFICES ASSUME NEW p \in Payments
             PROVE  PaymentLaw(p)'
  BY DEF PaymentInv
<1>1. /\ RefundedFrom(p)' = RefundedFrom(p)
      /\ Total(Refunds, RefundedFrom(p)) \in Nat
      /\ Total(Allocations, SettledFrom(p)) \in Nat
      /\ Total(Allocations, TransactionSettledFrom(p)) \in Nat
      /\ Total(Invoices, payment[p].allocations) \in Nat
  BY AmountTypes, TotalTypes DEF RefundedFrom
<1>2. /\ payment[p].unappliedAmount \in Nat /\ payment'[p].unappliedAmount \in Nat
      /\ payment[p].transactionUnappliedAmount \in Nat
      /\ payment'[p].transactionUnappliedAmount \in Nat
  BY DEF TypeOK, Payment
<1>3. /\ SettledFrom(p)[u] \in Nat /\ SettledFrom(p)'[u] \in Nat
      /\ TransactionSettledFrom(p)[u] \in Nat /\ TransactionSettledFrom(p)'[u] \in Nat
  BY AmountTypes, AmountTypesNext DEF AmountsTyped
<1>4. PaymentLaw(p)
  BY DEF PaymentInv
<1>5. /\ Total(Allocations, SettledFrom(p))'
           = Total(Allocations, SettledFrom(p)) - SettledFrom(p)[u] + SettledFrom(p)'[u]
      /\ Total(Allocations, TransactionSettledFrom(p))'
           = Total(Allocations, TransactionSettledFrom(p))
               - TransactionSettledFrom(p)[u] + TransactionSettledFrom(p)'[u]
      /\ \A v \in Allocations \ {u} :
           /\ SettledFrom(p)'[v] = SettledFrom(p)[v]
           /\ TransactionSettledFrom(p)'[v] = TransactionSettledFrom(p)[v]
  BY AppliedChange
<1>6. QED
  BY <1>1, <1>2, <1>3, <1>4, <1>5 DEF PaymentLaw

\* Between payments and a refund.
LEMMA RefundedKeepsPayments ==
    ASSUME PaymentInv, TypeOK, TypeOK', NEW r \in Refunds,
           \A q \in Refunds \ {r} : refund'[q] = refund[q],
           UNCHANGED allocation,
           \A p \in Payments :
             /\ payment'[p].status = payment[p].status
             /\ payment'[p].amountReceived = payment[p].amountReceived
             /\ payment'[p].allocations = payment[p].allocations
             /\ payment'[p].transactionUnappliedAmount
                  = payment[p].transactionUnappliedAmount
             /\ payment[p].status # "POSTED" => RefundedFrom(p)'[r] = RefundedFrom(p)[r]
             /\ payment'[p].unappliedAmount + RefundedFrom(p)'[r]
                  = payment[p].unappliedAmount + RefundedFrom(p)[r]
    PROVE  PaymentInv'
<1> SUFFICES ASSUME NEW p \in Payments
             PROVE  PaymentLaw(p)'
  BY DEF PaymentInv
<1>1. /\ SettledFrom(p)' = SettledFrom(p)
      /\ TransactionSettledFrom(p)' = TransactionSettledFrom(p)
      /\ Total(Refunds, RefundedFrom(p)) \in Nat
      /\ Total(Allocations, SettledFrom(p)) \in Nat
      /\ Total(Allocations, TransactionSettledFrom(p)) \in Nat
      /\ Total(Invoices, payment[p].allocations) \in Nat
  BY AmountTypes, TotalTypes DEF SettledFrom, TransactionSettledFrom
<1>2. /\ payment[p].unappliedAmount \in Nat /\ payment'[p].unappliedAmount \in Nat
      /\ RefundedFrom(p)[r] \in Nat /\ RefundedFrom(p)'[r] \in Nat
  BY AmountTypes, AmountTypesNext DEF TypeOK, Payment, AmountsTyped
<1>3. PaymentLaw(p)
  BY DEF PaymentInv
<1>4. /\ Total(Refunds, RefundedFrom(p))'
           = Total(Refunds, RefundedFrom(p)) - RefundedFrom(p)[r] + RefundedFrom(p)'[r]
      /\ \A q \in Refunds \ {r} : RefundedFrom(p)'[q] = RefundedFrom(p)[q]
  BY RefundedChange
<1>5. QED
  BY <1>1, <1>2, <1>3, <1>4 DEF PaymentLaw

\* Between credit notes and a credit allocation.
LEMMA CreditedKeepsCreditNotes ==
    ASSUME CreditNoteInv, TypeOK, TypeOK', NEW k \in CreditAllocations,
           \A l \in CreditAllocations \ {k} : creditAllocation'[l] = creditAllocation[l],
           UNCHANGED refund,
           \A c \in CreditNotes :
             /\ creditNote'[c].status = creditNote[c].status
             /\ creditNote'[c].posted = creditNote[c].posted
             /\ creditNote[c].status # "FINALIZED" =>
                  CreditedFrom(c)'[k] = CreditedFrom(c)[k]
             /\ creditNote'[c].unappliedAmount + CreditedFrom(c)'[k]
                  = creditNote[c].unappliedAmount + CreditedFrom(c)[k]
    PROVE  CreditNoteInv'
<1> SUFFICES ASSUME NEW c \in CreditNotes
             PROVE  CreditNoteLaw(c)'
  BY DEF CreditNoteInv
<1>1. /\ RefundedFrom(c)' = RefundedFrom(c)
      /\ Total(Refunds, RefundedFrom(c)) \in Nat
      /\ Total(CreditAllocations, CreditedFrom(c)) \in Nat
  BY AmountTypes, TotalTypes DEF RefundedFrom
<1>2. /\ creditNote[c].unappliedAmount \in Nat /\ creditNote'[c].unappliedAmount \in Nat
      /\ CreditedFrom(c)[k] \in Nat /\ CreditedFrom(c)'[k] \in Nat
  BY AmountTypes, AmountTypesNext DEF TypeOK, CreditNote, AmountsTyped
<1>3. CreditNoteLaw(c)
  BY DEF CreditNoteInv
<1>4. /\ Total(CreditAllocations, CreditedFrom(c))'
           = Total(CreditAllocations, CreditedFrom(c)) - CreditedFrom(c)[k]
               + CreditedFrom(c)'[k]
      /\ \A l \in CreditAllocations \ {k} : CreditedFrom(c)'[l] = CreditedFrom(c)[l]
  BY CreditedChange
<1>5. QED
  BY <1>1, <1>2, <1>3, <1>4 DEF CreditNoteLaw

\* Between credit notes and a refund.
LEMMA RefundedKeepsCreditNotes ==
    ASSUME CreditNoteInv, TypeOK, TypeOK', NEW r \in Refunds,
           \A q \in Refunds \ {r} : refund'[q] = refund[q],
           UNCHANGED creditAllocation,
           \A c \in CreditNotes :
             /\ creditNote'[c].status = creditNote[c].status
             /\ creditNote'[c].posted = creditNote[c].posted
             /\ creditNote[c].status # "FINALIZED" =>
                  RefundedFrom(c)'[r] = RefundedFrom(c)[r]
             /\ creditNote'[c].unappliedAmount + RefundedFrom(c)'[r]
                  = creditNote[c].unappliedAmount + RefundedFrom(c)[r]
    PROVE  CreditNoteInv'
<1> SUFFICES ASSUME NEW c \in CreditNotes
             PROVE  CreditNoteLaw(c)'
  BY DEF CreditNoteInv
<1>1. /\ CreditedFrom(c)' = CreditedFrom(c)
      /\ Total(Refunds, RefundedFrom(c)) \in Nat
      /\ Total(CreditAllocations, CreditedFrom(c)) \in Nat
  BY AmountTypes, TotalTypes DEF CreditedFrom
<1>2. /\ creditNote[c].unappliedAmount \in Nat /\ creditNote'[c].unappliedAmount \in Nat
      /\ RefundedFrom(c)[r] \in Nat /\ RefundedFrom(c)'[r] \in Nat
  BY AmountTypes, AmountTypesNext DEF TypeOK, CreditNote, AmountsTyped
<1>3. CreditNoteLaw(c)
  BY DEF CreditNoteInv
<1>4. /\ Total(Refunds, RefundedFrom(c))'
           = Total(Refunds, RefundedFrom(c)) - RefundedFrom(c)[r] + RefundedFrom(c)'[r]
      /\ \A q \in Refunds \ {r} : RefundedFrom(c)'[q] = RefundedFrom(c)[q]
  BY RefundedChange
<1>5. QED
  BY <1>1, <1>2, <1>3, <1>4 DEF CreditNoteLaw

-----------------------------------------------------------------------------
(* Documents change their status. *)

\* An invoice that becomes finalized was a draft and is due what was posted.
LEMMA InvoiceStatusKeepsInvoices ==
    ASSUME InvoiceInv, TypeOK', UNCHANGED <<payment, allocation, creditAllocation>>,
           \A i \in Invoices :
             \/ invoice'[i] = invoice[i]
             \/ invoice'[i].status = "DRAFT" /\ invoice[i].status \in {"NONE", "DRAFT"}
             \/ /\ invoice'[i].status = "FINALIZED" /\ invoice[i].status = "DRAFT"
                /\ invoice'[i].balanceDue = invoice'[i].posted
             \/ invoice'[i].status \in {"VOIDED", "DELETED"}
    PROVE  InvoiceInv'
<1> SUFFICES ASSUME NEW i \in Invoices
             PROVE  InvoiceLaw(i)'
  BY DEF InvoiceInv
<1>1. PaidTo(i)' = PaidTo(i) /\ AppliedTo(i)' = AppliedTo(i) /\ CreditedTo(i)' = CreditedTo(i)
  BY DEF PaidTo, AppliedTo, CreditedTo
<1>2. InvoiceLaw(i)
  BY DEF InvoiceInv
<1>3. CASE invoice'[i] = invoice[i]
  BY <1>1, <1>2, <1>3 DEF InvoiceLaw
<1>4. CASE invoice'[i].status = "DRAFT" /\ invoice[i].status \in {"NONE", "DRAFT"}
  BY <1>1, <1>2, <1>4 DEF InvoiceLaw
<1>5. CASE /\ invoice'[i].status = "FINALIZED" /\ invoice[i].status = "DRAFT"
           /\ invoice'[i].balanceDue = invoice'[i].posted
  <2>1. /\ \A p \in Payments : PaidTo(i)'[p] = 0
        /\ \A u \in Allocations : AppliedTo(i)'[u] = 0
        /\ \A k \in CreditAllocations : CreditedTo(i)'[k] = 0
    BY <1>1, <1>2, <1>5 DEF InvoiceLaw
  <2>2. /\ PaidTo(i)' \in [Payments -> Nat]
        /\ AppliedTo(i)' \in [Allocations -> Nat]
        /\ CreditedTo(i)' \in [CreditAllocations -> Nat]
        /\ invoice'[i].posted \in Nat
    BY AmountTypesNext DEF AmountsTyped, TypeOK, Invoice
  <2>3. /\ Total(Payments, PaidTo(i)') = 0
        /\ Total(Allocations, AppliedTo(i)') = 0
        /\ Total(CreditAllocations, CreditedTo(i)') = 0
    BY <2>1, <2>2, TotalZero
  <2>4. QED
    BY <1>5, <2>2, <2>3 DEF InvoiceLaw
<1>6. CASE invoice'[i].status \in {"VOIDED", "DELETED"}
  BY <1>6 DEF InvoiceLaw
<1>7. QED
  BY <1>3, <1>4, <1>5, <1>6

\* A payment that becomes posted is new and splits what it received.
LEMMA PaymentStatusKeepsPayments ==
    ASSUME PaymentInv, TypeOK', UNCHANGED <<allocation, refund>>,
           \A p \in Payments :
             \/ payment'[p] = payment[p]
             \/ /\ payment[p].status = "NONE" /\ payment'[p].status = "POSTED"
                /\ payment'[p].unappliedAmount + Total(Invoices, payment'[p].allocations)
                     = payment'[p].amountReceived
                /\ payment'[p].transactionUnappliedAmount = payment'[p].unappliedAmount
             \/ payment'[p].status = "VOIDED"
    PROVE  PaymentInv'
<1> SUFFICES ASSUME NEW p \in Payments
             PROVE  PaymentLaw(p)'
  BY DEF PaymentInv
<1>1. /\ SettledFrom(p)' = SettledFrom(p)
      /\ TransactionSettledFrom(p)' = TransactionSettledFrom(p)
      /\ RefundedFrom(p)' = RefundedFrom(p)
  BY DEF SettledFrom, TransactionSettledFrom, RefundedFrom
<1>2. PaymentLaw(p)
  BY DEF PaymentInv
<1>3. CASE payment'[p] = payment[p]
  BY <1>1, <1>2, <1>3 DEF PaymentLaw
<1>4. CASE /\ payment[p].status = "NONE" /\ payment'[p].status = "POSTED"
           /\ payment'[p].unappliedAmount + Total(Invoices, payment'[p].allocations)
                = payment'[p].amountReceived
           /\ payment'[p].transactionUnappliedAmount = payment'[p].unappliedAmount
  <2>1. /\ \A u \in Allocations :
             SettledFrom(p)'[u] = 0 /\ TransactionSettledFrom(p)'[u] = 0
        /\ \A r \in Refunds : RefundedFrom(p)'[r] = 0
    BY <1>1, <1>2, <1>4 DEF PaymentLaw
  <2>2. /\ SettledFrom(p)' \in [Allocations -> Nat]
        /\ TransactionSettledFrom(p)' \in [Allocations -> Nat]
        /\ RefundedFrom(p)' \in [Refunds -> Nat]
        /\ payment'[p].allocations \in [Invoices -> Nat]
        /\ payment'[p].unappliedAmount \in Nat
    BY AmountTypesNext DEF AmountsTyped, TypeOK, Payment
  <2>3. /\ Total(Allocations, SettledFrom(p)') = 0
        /\ Total(Allocations, TransactionSettledFrom(p)') = 0
        /\ Total(Refunds, RefundedFrom(p)') = 0
    BY <2>1, <2>2, TotalZero
  <2>4. Total(Invoices, payment'[p].allocations) \in Nat
    BY <2>2, TotalType, FiniteRows
  <2>5. QED
    BY <1>4, <2>2, <2>3, <2>4 DEF PaymentLaw
<1>5. CASE payment'[p].status = "VOIDED"
  BY <1>5 DEF PaymentLaw
<1>6. QED
  BY <1>3, <1>4, <1>5

\* A credit note that becomes finalized was a draft with all of it unapplied.
LEMMA CreditNoteStatusKeepsCreditNotes ==
    ASSUME CreditNoteInv, TypeOK', UNCHANGED <<creditAllocation, refund>>,
           \A c \in CreditNotes :
             \/ /\ creditNote'[c].status = creditNote[c].status
                /\ creditNote'[c].unappliedAmount = creditNote[c].unappliedAmount
                /\ creditNote'[c].posted = creditNote[c].posted
             \/ /\ creditNote'[c].status = "DRAFT"
                /\ creditNote[c].status \in {"NONE", "DRAFT"}
             \/ /\ creditNote'[c].status = "FINALIZED" /\ creditNote[c].status = "DRAFT"
                /\ creditNote'[c].unappliedAmount = creditNote'[c].posted
             \/ creditNote'[c].status \in {"VOIDED", "DELETED"}
    PROVE  CreditNoteInv'
<1> SUFFICES ASSUME NEW c \in CreditNotes
             PROVE  CreditNoteLaw(c)'
  BY DEF CreditNoteInv
<1>1. CreditedFrom(c)' = CreditedFrom(c) /\ RefundedFrom(c)' = RefundedFrom(c)
  BY DEF CreditedFrom, RefundedFrom
<1>2. CreditNoteLaw(c)
  BY DEF CreditNoteInv
<1>3. CASE /\ creditNote'[c].status = creditNote[c].status
           /\ creditNote'[c].unappliedAmount = creditNote[c].unappliedAmount
           /\ creditNote'[c].posted = creditNote[c].posted
  BY <1>1, <1>2, <1>3 DEF CreditNoteLaw
<1>4. CASE creditNote'[c].status = "DRAFT" /\ creditNote[c].status \in {"NONE", "DRAFT"}
  BY <1>1, <1>2, <1>4 DEF CreditNoteLaw
<1>5. CASE /\ creditNote'[c].status = "FINALIZED" /\ creditNote[c].status = "DRAFT"
           /\ creditNote'[c].unappliedAmount = creditNote'[c].posted
  <2>1. /\ \A k \in CreditAllocations : CreditedFrom(c)'[k] = 0
        /\ \A r \in Refunds : RefundedFrom(c)'[r] = 0
    BY <1>1, <1>2, <1>5 DEF CreditNoteLaw
  <2>2. /\ CreditedFrom(c)' \in [CreditAllocations -> Nat]
        /\ RefundedFrom(c)' \in [Refunds -> Nat]
        /\ creditNote'[c].posted \in Nat
    BY AmountTypesNext DEF AmountsTyped, TypeOK, CreditNote
  <2>3. /\ Total(CreditAllocations, CreditedFrom(c)') = 0
        /\ Total(Refunds, RefundedFrom(c)') = 0
    BY <2>1, <2>2, TotalZero
  <2>4. QED
    BY <1>5, <2>2, <2>3 DEF CreditNoteLaw
<1>6. CASE creditNote'[c].status \in {"VOIDED", "DELETED"}
  BY <1>6 DEF CreditNoteLaw
<1>7. QED
  BY <1>3, <1>4, <1>5, <1>6

-----------------------------------------------------------------------------
(* One lemma per action that writes rows: it keeps the invariant. *)

\* A later allocation takes its source base amount from the invoice and its
\* settlement amounts from the payment, both claimed.
LEMMA ApplyUnappliedStep ==
    ASSUME IInv, NEW w \in Workers, ApplyUnappliedCommit(w)
    PROVE  IInv'
<1> DEFINE u == request[w].allocation
           a == request[w].row
<1>1. u \in Allocations /\ a \in Allocation
  BY RequestTypes DEF ApplyUnappliedCommit, IInv
<1>2. a.status = "ACTIVE" /\ a.payment \in Payments /\ a.invoice \in Invoices
  BY RequestTypes DEF ApplyUnappliedCommit, IInv
<1>3. /\ allocation[u].status = "NONE"
      /\ InvoiceClaim(a.invoice, a.sourceBaseAmount, a.transactionAmount)
      /\ PaymentClaim(a.payment, a.settlementBaseAmount, a.transactionAmount)
      /\ invoice' = [invoice EXCEPT
              ![a.invoice].balanceDue = @ - a.sourceBaseAmount,
              ![a.invoice].transactionBalanceDue = @ - a.transactionAmount]
      /\ payment' = [payment EXCEPT
              ![a.payment].unappliedAmount = @ - a.settlementBaseAmount,
              ![a.payment].transactionUnappliedAmount = @ - a.transactionAmount]
      /\ allocation' = [allocation EXCEPT ![u] = a]
      /\ receivable' = receivable + a.settlementBaseAmount - a.sourceBaseAmount
      /\ Finish(w)
      /\ UNCHANGED <<creditNote, creditAllocation, refund>>
  BY DEF ApplyUnappliedCommit
<1> HIDE DEF u, a
<1>4. TypeInv'
  <2>1. invoice' \in [Invoices -> Invoice]
    BY <1>1, <1>2, <1>3 DEF IInv, TypeInv, TypeOK, Invoice, Allocation, InvoiceClaim
  <2>2. payment' \in [Payments -> Payment]
    BY <1>1, <1>2, <1>3 DEF IInv, TypeInv, TypeOK, Payment, Allocation, PaymentClaim
  <2>3. /\ allocation' \in [Allocations -> Allocation]
        /\ receivable' \in Int
        /\ References'
    BY <1>1, <1>2, <1>3 DEF IInv, TypeInv, TypeOK, Allocation, References
  <2>4. QED
    BY <1>3, <2>1, <2>2, <2>3, FinishType DEF IInv, TypeInv, TypeOK
<1>5. TypeOK /\ TypeOK' /\ AmountsTyped
  BY <1>4, AmountTypes DEF IInv, TypeInv
<1>6. \A p \in Payments :
        /\ payment'[p].status = payment[p].status
        /\ payment'[p].amountReceived = payment[p].amountReceived
        /\ payment'[p].allocations = payment[p].allocations
        /\ payment'[p].unappliedAmount =
             IF a.payment = p THEN payment[p].unappliedAmount - a.settlementBaseAmount
             ELSE payment[p].unappliedAmount
        /\ payment'[p].transactionUnappliedAmount =
             IF a.payment = p
             THEN payment[p].transactionUnappliedAmount - a.transactionAmount
             ELSE payment[p].transactionUnappliedAmount
        /\ payment[p].unappliedAmount \in Nat
        /\ payment[p].transactionUnappliedAmount \in Nat
  <2> DEFINE row == [payment[a.payment] EXCEPT
                       !.unappliedAmount = @ - a.settlementBaseAmount,
                       !.transactionUnappliedAmount = @ - a.transactionAmount]
  <2>1. payment \in [Payments -> Payment]
    BY <1>5 DEF TypeOK
  <2>2. payment' = [payment EXCEPT ![a.payment] = row]
    BY <1>2, <1>3, <2>1, Zenon
  <2>3. QED
    BY <1>2, <2>1, <2>2 DEF Payment
<1>7. InvoiceInv'
  <2>1. \A i \in Invoices : PaidTo(i)' = PaidTo(i)
    BY <1>6 DEF PaidTo
  <2>2. \A i \in Invoices :
          /\ AppliedTo(i)[u] = 0
          /\ AppliedTo(i)'[u] = IF a.invoice = i THEN a.sourceBaseAmount ELSE 0
    BY <1>1, <1>2, <1>3, <1>5 DEF AppliedTo, TypeOK
  <2>3. \A i \in Invoices :
          /\ invoice'[i].status = invoice[i].status
          /\ invoice'[i].posted = invoice[i].posted
          /\ invoice'[i].balanceDue = IF a.invoice = i
                                      THEN invoice[i].balanceDue - a.sourceBaseAmount
                                      ELSE invoice[i].balanceDue
          /\ invoice[i].balanceDue \in Nat
    BY <1>2, <1>3, <1>5 DEF TypeOK, Invoice
  <2>4. invoice[a.invoice].status = "FINALIZED" /\ a.sourceBaseAmount \in Nat
    BY <1>1, <1>3 DEF InvoiceClaim, Allocation
  <2>5. \A i \in Invoices :
          /\ invoice[i].status # "FINALIZED" => AppliedTo(i)'[u] = AppliedTo(i)[u]
          /\ invoice'[i].balanceDue + AppliedTo(i)'[u]
               = invoice[i].balanceDue + AppliedTo(i)[u]
    BY <2>2, <2>3, <2>4
  <2>6. /\ \A v \in Allocations \ {u} : allocation'[v] = allocation[v]
        /\ UNCHANGED creditAllocation /\ InvoiceInv
    BY <1>1, <1>3, <1>5 DEF IInv, TypeOK
  <2>7. QED
    BY <1>1, <1>5, <2>1, <2>3, <2>5, <2>6, AppliedKeepsInvoices
<1>8. PaymentInv'
  <2>1. \A p \in Payments :
          /\ SettledFrom(p)[u] = 0 /\ TransactionSettledFrom(p)[u] = 0
          /\ SettledFrom(p)'[u] = IF a.payment = p THEN a.settlementBaseAmount ELSE 0
          /\ TransactionSettledFrom(p)'[u] = IF a.payment = p THEN a.transactionAmount ELSE 0
    BY <1>1, <1>2, <1>3, <1>5 DEF SettledFrom, TransactionSettledFrom, TypeOK
  <2>2. /\ payment[a.payment].status = "POSTED"
        /\ a.settlementBaseAmount \in Nat /\ a.transactionAmount \in Nat
    BY <1>1, <1>3 DEF PaymentClaim, Allocation
  <2>3. /\ \A v \in Allocations \ {u} : allocation'[v] = allocation[v]
        /\ UNCHANGED refund /\ PaymentInv
    BY <1>1, <1>3, <1>5 DEF IInv, TypeOK
  <2>4. QED
    BY <1>1, <1>5, <1>6, <2>1, <2>2, <2>3, AppliedKeepsPayments
<1>9. CreditNoteInv'
  BY <1>3, CreditNoteFrame DEF IInv
<1>10. QED
  BY <1>4, <1>7, <1>8, <1>9 DEF IInv

\* The steps that only read.
LEMMA ReadStep ==
    ASSUME IInv, TypeInv', UNCHANGED rows
    PROVE  IInv'
  BY InvoiceFrame, PaymentFrame, CreditNoteFrame DEF rows, IInv

\* An invoice is drafted, changed or voided.
LEMMA InvoiceDraftStep ==
    ASSUME IInv, NEW i \in Invoices, NEW total \in Amounts,
           CreateInvoice(i, total) \/ UpdateInvoice(i, total)
    PROVE  IInv'
<1>1. /\ invoice[i].status \in {"NONE", "DRAFT"}
      /\ UNCHANGED <<payment, creditNote, allocation, creditAllocation, refund,
                     receivable, request>>
  BY DEF CreateInvoice, UpdateInvoice
<1>2. /\ invoice' \in [Invoices -> Invoice]
      /\ invoice'[i].status = "DRAFT"
      /\ \A j \in Invoices \ {i} : invoice'[j] = invoice[j]
  <2>1. CASE CreateInvoice(i, total)
    BY <2>1, AmountsPositive DEF CreateInvoice, IInv, TypeInv, TypeOK, Invoice, DocumentStatus
  <2>2. CASE UpdateInvoice(i, total)
    <3>1. /\ invoice[i].status = "DRAFT"
          /\ invoice' = [invoice EXCEPT ![i].total = total, ![i].balanceDue = total,
                                        ![i].transactionBalanceDue = total]
      BY <2>2 DEF UpdateInvoice
    <3> DEFINE row == [invoice[i] EXCEPT !.total = total, !.balanceDue = total,
                                         !.transactionBalanceDue = total]
    <3>2. /\ invoice \in [Invoices -> Invoice] /\ invoice[i] \in Invoice
          /\ total \in Nat
      BY AmountsPositive DEF IInv, TypeInv, TypeOK
    <3>3. row \in Invoice /\ row.status = "DRAFT"
      BY <3>1, <3>2, Zenon DEF Invoice
    <3>4. invoice' = [invoice EXCEPT ![i] = row]
      BY <3>1, <3>2, Zenon
    <3> HIDE DEF row
    <3>5. QED
      BY <3>2, <3>3, <3>4
  <2>3. QED
    BY <2>1, <2>2
<1>3. TypeInv'
  BY <1>1, <1>2 DEF IInv, TypeInv, TypeOK, Requests, References
<1>4. \A j \in Invoices : \/ invoice'[j] = invoice[j]
                          \/ /\ invoice'[j].status = "DRAFT"
                             /\ invoice[j].status \in {"NONE", "DRAFT"}
  BY <1>1, <1>2
<1>5. InvoiceInv'
  BY <1>1, <1>3, <1>4, InvoiceStatusKeepsInvoices DEF IInv, TypeInv
<1>6. QED
  BY <1>1, <1>3, <1>5, PaymentFrame, CreditNoteFrame DEF IInv

\* A voided invoice has no law to keep.
LEMMA VoidInvoiceStep ==
    ASSUME IInv, NEW i \in Invoices, VoidInvoice(i)
    PROVE  IInv'
<1>1. /\ invoice' = [invoice EXCEPT ![i].status = "VOIDED",
                                   ![i].balanceDue = 0,
                                   ![i].transactionBalanceDue = 0,
                                   ![i].posted = 0]
      /\ receivable' = receivable - invoice[i].posted
      /\ UNCHANGED <<payment, creditNote, allocation, creditAllocation, refund,
                     request>>
  BY DEF VoidInvoice
<1>2. invoice' \in [Invoices -> Invoice] /\ receivable' \in Int
  <2>1. invoice' \in [Invoices -> Invoice]
    <3> DEFINE row == [invoice[i] EXCEPT !.status = "VOIDED", !.balanceDue = 0,
                                         !.transactionBalanceDue = 0,
                                         !.posted = 0]
    <3>1. /\ invoice \in [Invoices -> Invoice] /\ invoice[i] \in Invoice
          /\ "VOIDED" \in DocumentStatus /\ 0 \in Nat
      BY DEF IInv, TypeInv, TypeOK, DocumentStatus
    <3>2. row \in Invoice
      BY <3>1, Zenon DEF Invoice
    <3>3. invoice' = [invoice EXCEPT ![i] = row]
      BY <1>1, <3>1, Zenon
    <3> HIDE DEF row
    <3>4. QED
      BY <3>1, <3>2, <3>3
  <2>2. receivable \in Int /\ invoice[i].posted \in Nat
    BY DEF IInv, TypeInv, TypeOK, Invoice
  <2>3. QED
    BY <1>1, <2>1, <2>2
<1>3. TypeInv'
  BY <1>1, <1>2 DEF IInv, TypeInv, TypeOK, Requests, References
<1>4. \A j \in Invoices : invoice'[j] = invoice[j] \/ invoice'[j].status = "VOIDED"
  BY <1>1 DEF IInv, TypeInv, TypeOK, Invoice
<1>5. InvoiceInv'
  BY <1>1, <1>3, <1>4, InvoiceStatusKeepsInvoices DEF IInv, TypeInv
<1>6. QED
  BY <1>1, <1>3, <1>5, PaymentFrame, CreditNoteFrame DEF IInv

\* Finalizing posts the total it read, and the balance is that total.
LEMMA FinalizeInvoiceStep ==
    ASSUME IInv, NEW w \in Workers, FinalizeInvoiceCommit(w)
    PROVE  IInv'
<1> DEFINE i == request[w].invoice
           total == request[w].total
<1>1. i \in Invoices /\ total \in Nat
  BY RequestTypes DEF FinalizeInvoiceCommit, IInv
<1>2. /\ invoice[i].status = "DRAFT"
      /\ invoice' = [invoice EXCEPT ![i].status = "FINALIZED",
                                   ![i].balanceDue = total,
                                   ![i].transactionBalanceDue = total,
                                   ![i].posted = total]
      /\ receivable' = receivable + total
      /\ Finish(w)
      /\ UNCHANGED <<payment, creditNote, allocation, creditAllocation, refund>>
  BY DEF FinalizeInvoiceCommit, FinalizeClaim
<1> HIDE DEF i, total
<1>3. invoice' \in [Invoices -> Invoice] /\ receivable' \in Int
  <2>1. invoice' \in [Invoices -> Invoice]
    <3> DEFINE row == [invoice[i] EXCEPT !.status = "FINALIZED",
                                         !.balanceDue = total,
                                         !.transactionBalanceDue = total,
                                         !.posted = total]
    <3>1. /\ invoice \in [Invoices -> Invoice] /\ invoice[i] \in Invoice
          /\ "FINALIZED" \in DocumentStatus
      BY <1>1 DEF IInv, TypeInv, TypeOK, DocumentStatus
    <3>2. row \in Invoice
      BY <1>1, <3>1, Zenon DEF Invoice
    <3>3. invoice' = [invoice EXCEPT ![i] = row]
      BY <1>1, <1>2, <3>1, Zenon
    <3> HIDE DEF row
    <3>4. QED
      BY <1>1, <3>1, <3>2, <3>3
  <2>2. receivable \in Int
    BY DEF IInv, TypeInv, TypeOK
  <2>3. QED
    BY <1>1, <1>2, <2>1, <2>2
<1>4. TypeInv'
  BY <1>2, <1>3, FinishType DEF IInv, TypeInv, TypeOK, References
<1>5. \A j \in Invoices :
        \/ invoice'[j] = invoice[j]
        \/ /\ invoice'[j].status = "FINALIZED" /\ invoice[j].status = "DRAFT"
           /\ invoice'[j].balanceDue = invoice'[j].posted
  BY <1>1, <1>2 DEF IInv, TypeInv, TypeOK, Invoice
<1>6. InvoiceInv'
  BY <1>2, <1>4, <1>5, InvoiceStatusKeepsInvoices DEF IInv, TypeInv
<1>7. QED
  BY <1>2, <1>4, <1>6, PaymentFrame, CreditNoteFrame DEF IInv

\* Deleting clears the references of credit notes.
LEMMA RemoveInvoiceStep ==
    ASSUME IInv, NEW w \in Workers, RemoveInvoiceCommit(w)
    PROVE  IInv'
<1> DEFINE i == request[w].invoice
<1>1. i \in Invoices
  BY RequestTypes DEF RemoveInvoiceCommit, IInv
<1>2. /\ invoice' = [invoice EXCEPT ![i].status = "DELETED"]
      /\ creditNote' = [c \in CreditNotes |->
           IF creditNote[c].originalInvoice = i
           THEN [creditNote[c] EXCEPT !.originalInvoice = None]
           ELSE creditNote[c]]
      /\ Finish(w)
      /\ UNCHANGED <<payment, allocation, creditAllocation, refund, receivable>>
  BY DEF RemoveInvoiceCommit
<1> HIDE DEF i
<1>3. invoice' \in [Invoices -> Invoice]
  BY <1>1, <1>2 DEF IInv, TypeInv, TypeOK, Invoice, DocumentStatus
<1>4. creditNote' \in [CreditNotes -> CreditNote]
  BY <1>2 DEF IInv, TypeInv, TypeOK, CreditNote
<1>5. TypeInv'
  BY <1>2, <1>3, <1>4, FinishType DEF IInv, TypeInv, TypeOK, References
<1>6. \A j \in Invoices : invoice'[j] = invoice[j] \/ invoice'[j].status = "DELETED"
  BY <1>1, <1>2 DEF IInv, TypeInv, TypeOK, Invoice
<1>7. InvoiceInv'
  BY <1>2, <1>5, <1>6, InvoiceStatusKeepsInvoices DEF IInv, TypeInv
<1>8. \A c \in CreditNotes :
        /\ creditNote'[c].status = creditNote[c].status
        /\ creditNote'[c].unappliedAmount = creditNote[c].unappliedAmount
        /\ creditNote'[c].posted = creditNote[c].posted
  BY <1>2 DEF IInv, TypeInv, TypeOK, CreditNote
<1>9. CreditNoteInv'
  BY <1>2, <1>5, <1>8, CreditNoteStatusKeepsCreditNotes DEF IInv, TypeInv
<1>10. QED
  BY <1>2, <1>5, <1>7, <1>9, PaymentFrame DEF IInv

\* A payment is posted with its direct allocations, all of them claimed.
LEMMA CreatePaymentStep ==
    ASSUME IInv, NEW w \in Workers, CreatePaymentCommit(w)
    PROVE  IInv'
<1> DEFINE p == request[w].payment
           received == request[w].amountReceived
           allocs == request[w].allocations
           unapplied == received - Total(Invoices, allocs)
<1>1. /\ p \in Payments /\ received \in Nat /\ allocs \in [Invoices -> Nat]
      /\ Total(Invoices, allocs) <= received
  BY RequestTypes DEF CreatePaymentCommit, IInv
<1>2. unapplied \in Nat /\ Total(Invoices, allocs) \in Nat
                        /\ unapplied + Total(Invoices, allocs) = received
  <2>1. Total(Invoices, allocs) \in Nat
    BY <1>1, TotalType, FiniteRows
  <2> HIDE DEF allocs, received
  <2>2. QED
    BY <1>1, <2>1
<1>3. /\ payment[p].status = "NONE"
      /\ \A i \in Invoices : allocs[i] > 0 => InvoiceClaim(i, allocs[i], allocs[i])
      /\ invoice' = [i \in Invoices |->
           [invoice[i] EXCEPT !.balanceDue = @ - allocs[i],
                              !.transactionBalanceDue = @ - allocs[i]]]
      /\ payment' = [payment EXCEPT ![p] =
           [status |-> "POSTED", amountReceived |-> received,
            unappliedAmount |-> unapplied,
            transactionUnappliedAmount |-> unapplied, allocations |-> allocs]]
      /\ receivable' = receivable - received
      /\ Finish(w)
      /\ UNCHANGED <<creditNote, allocation, creditAllocation, refund>>
  BY DEF CreatePaymentCommit
<1> HIDE DEF p, received, allocs, unapplied
<1>4. /\ invoice \in [Invoices -> Invoice]
      /\ payment \in [Payments -> Payment]
      /\ receivable \in Int
  BY DEF IInv, TypeInv, TypeOK
<1>5. \A i \in Invoices :
        /\ allocs[i] \in Nat
        /\ allocs[i] # 0 => invoice[i].status = "FINALIZED"
        /\ invoice[i].balanceDue - allocs[i] \in Nat
        /\ invoice[i].transactionBalanceDue - allocs[i] \in Nat
  <2> TAKE i \in Invoices
  <2>1. allocs[i] > 0 => InvoiceClaim(i, allocs[i], allocs[i])
    BY <1>3
  <2>2. /\ invoice[i].balanceDue \in Nat /\ invoice[i].transactionBalanceDue \in Nat
        /\ allocs[i] \in Nat
    BY <1>1, <1>4 DEF Invoice
  <2>3. QED
    BY <2>1, <2>2 DEF InvoiceClaim
<1>6. TypeInv'
  <2>1. invoice' \in [Invoices -> Invoice]
    BY <1>3, <1>4, <1>5 DEF Invoice
  <2>2. payment' \in [Payments -> Payment]
    BY <1>1, <1>2, <1>3, <1>4 DEF Payment
  <2>3. receivable' \in Int
    <3>1. receivable' = receivable - received
      BY <1>3
    <3>2. QED
      BY <1>1, <1>4, <3>1
  <2>4. QED
    BY <1>3, <2>1, <2>2, <2>3, FinishType DEF IInv, TypeInv, TypeOK, References
<1>7. InvoiceInv'
  <2>1. \A i \in Invoices : PaidTo(i)[p] = 0 /\ PaidTo(i)'[p] = allocs[i]
    BY <1>1, <1>3, <1>4 DEF PaidTo
  <2>2. \A i \in Invoices :
          /\ invoice'[i].status = invoice[i].status
          /\ invoice'[i].posted = invoice[i].posted
          /\ invoice'[i].balanceDue = invoice[i].balanceDue - allocs[i]
          /\ invoice[i].balanceDue \in Nat
    BY <1>3, <1>4 DEF Invoice
  <2>3. \A i \in Invoices :
          /\ invoice[i].status # "FINALIZED" => PaidTo(i)'[p] = PaidTo(i)[p]
          /\ invoice'[i].balanceDue + PaidTo(i)'[p] = invoice[i].balanceDue + PaidTo(i)[p]
    BY <1>5, <2>1, <2>2
  <2>4. \A q \in Payments \ {p} : payment'[q] = payment[q]
    BY <1>1, <1>3, <1>4
  <2>5. QED
    BY <1>1, <1>3, <1>6, <2>2, <2>3, <2>4, PaidKeepsInvoices DEF IInv, TypeInv
<1>8. PaymentInv'
  <2>1. \A q \in Payments :
          \/ payment'[q] = payment[q]
          \/ /\ payment[q].status = "NONE" /\ payment'[q].status = "POSTED"
             /\ payment'[q].unappliedAmount + Total(Invoices, payment'[q].allocations)
                  = payment'[q].amountReceived
             /\ payment'[q].transactionUnappliedAmount = payment'[q].unappliedAmount
    BY <1>1, <1>2, <1>3, <1>4
  <2>2. QED
    BY <1>3, <1>6, <2>1, PaymentStatusKeepsPayments DEF IInv, TypeInv
<1>9. QED
  BY <1>3, <1>6, <1>7, <1>8, CreditNoteFrame DEF IInv

\* Voiding gives the direct allocations back, as long as no invoice refuses.
LEMMA VoidPaymentStep ==
    ASSUME IInv, NEW w \in Workers, VoidPaymentCommit(w)
    PROVE  IInv'
<1> DEFINE p == request[w].payment
           allocs == payment[p].allocations
<1>1. p \in Payments
  BY RequestTypes DEF VoidPaymentCommit, IInv
<1>2. /\ payment[p].status = "POSTED"
      /\ \A i \in Invoices : allocs[i] > 0 => invoice[i].status = "FINALIZED"
      /\ payment' = [payment EXCEPT ![p].status = "VOIDED"]
      /\ invoice' = [i \in Invoices |->
           [invoice[i] EXCEPT !.balanceDue = @ + allocs[i],
                              !.transactionBalanceDue = @ + allocs[i]]]
      /\ receivable' = receivable + payment[p].amountReceived
      /\ Finish(w)
      /\ UNCHANGED <<creditNote, allocation, creditAllocation, refund>>
  BY DEF VoidPaymentCommit
<1>3. /\ invoice \in [Invoices -> Invoice]
      /\ payment \in [Payments -> Payment]
      /\ receivable \in Int
  BY DEF IInv, TypeInv, TypeOK
<1>4. allocs \in [Invoices -> Nat] /\ payment[p].amountReceived \in Nat
  BY <1>1, <1>3 DEF Payment
<1> HIDE DEF p, allocs
<1>5. TypeInv'
  <2>1. invoice' \in [Invoices -> Invoice]
    <3>1. ASSUME NEW i \in Invoices
          PROVE  [invoice[i] EXCEPT !.balanceDue = @ + allocs[i],
                                    !.transactionBalanceDue = @ + allocs[i]] \in Invoice
      <4>1. /\ invoice[i] \in Invoice
            /\ invoice[i].balanceDue + allocs[i] \in Nat
            /\ invoice[i].transactionBalanceDue + allocs[i] \in Nat
        BY <1>3, <1>4 DEF Invoice
      <4>2. QED
        BY <4>1 DEF Invoice
    <3>2. QED
      BY <1>2, <3>1
  <2>2. payment' \in [Payments -> Payment]
    BY <1>1, <1>2, <1>3 DEF Payment
  <2>3. receivable' \in Int
    <3>1. receivable' = receivable + payment[p].amountReceived
      BY <1>2
    <3>2. QED
      BY <1>3, <1>4, <3>1
  <2>4. QED
    BY <1>2, <2>1, <2>2, <2>3, FinishType DEF IInv, TypeInv, TypeOK, References
<1>6. InvoiceInv'
  <2>1. \A i \in Invoices : PaidTo(i)[p] = allocs[i] /\ PaidTo(i)'[p] = 0
    BY <1>1, <1>2, <1>3 DEF PaidTo, Payment, allocs
  <2>2. \A i \in Invoices :
          /\ invoice'[i].status = invoice[i].status
          /\ invoice'[i].posted = invoice[i].posted
          /\ invoice'[i].balanceDue = invoice[i].balanceDue + allocs[i]
          /\ invoice[i].balanceDue \in Nat
          /\ allocs[i] \in Nat
    BY <1>2, <1>3, <1>4 DEF Invoice
  <2>3. \A i \in Invoices :
          /\ invoice[i].status # "FINALIZED" => PaidTo(i)'[p] = PaidTo(i)[p]
          /\ invoice'[i].balanceDue + PaidTo(i)'[p] = invoice[i].balanceDue + PaidTo(i)[p]
    <3>1. \A i \in Invoices : allocs[i] > 0 => invoice[i].status = "FINALIZED"
      BY <1>2
    <3>2. QED
      BY <2>1, <2>2, <3>1
  <2>4. \A q \in Payments \ {p} : payment'[q] = payment[q]
    BY <1>1, <1>2, <1>3
  <2>5. QED
    BY <1>1, <1>2, <1>5, <2>2, <2>3, <2>4, PaidKeepsInvoices DEF IInv, TypeInv
<1>7. PaymentInv'
  <2>1. \A q \in Payments : payment'[q] = payment[q] \/ payment'[q].status = "VOIDED"
    BY <1>1, <1>2, <1>3 DEF Payment
  <2>2. QED
    BY <1>2, <1>5, <2>1, PaymentStatusKeepsPayments DEF IInv, TypeInv
<1>8. QED
  BY <1>2, <1>5, <1>6, <1>7, CreditNoteFrame DEF IInv

\* Reversing a later allocation gives back exactly what it took.
LEMMA ReverseUnappliedStep ==
    ASSUME IInv, NEW u \in Allocations, ReverseUnappliedAllocation(u)
    PROVE  IInv'
<1> DEFINE a == allocation[u]
<1>1. /\ a.status = "ACTIVE"
      /\ payment[a.payment].status = "POSTED"
      /\ invoice[a.invoice].status = "FINALIZED"
      /\ allocation' = [allocation EXCEPT ![u].status = "REVERSED"]
      /\ payment' = [payment EXCEPT
           ![a.payment].unappliedAmount = @ + a.settlementBaseAmount,
           ![a.payment].transactionUnappliedAmount = @ + a.transactionAmount]
      /\ invoice' = [invoice EXCEPT
           ![a.invoice].balanceDue = @ + a.sourceBaseAmount,
           ![a.invoice].transactionBalanceDue = @ + a.transactionAmount]
      /\ receivable' = receivable - (a.settlementBaseAmount - a.sourceBaseAmount)
      /\ UNCHANGED <<creditNote, creditAllocation, refund, request>>
  BY DEF ReverseUnappliedAllocation
<1>2. /\ invoice \in [Invoices -> Invoice]
      /\ payment \in [Payments -> Payment]
      /\ allocation \in [Allocations -> Allocation]
      /\ receivable \in Int
  BY DEF IInv, TypeInv, TypeOK
<1>3. /\ a.payment \in Payments /\ a.invoice \in Invoices
      /\ a.settlementBaseAmount \in Nat /\ a.sourceBaseAmount \in Nat
      /\ a.transactionAmount \in Nat
  BY <1>1, <1>2 DEF IInv, TypeInv, References, Allocation
<1>4. TypeInv'
  <2>1. invoice' \in [Invoices -> Invoice]
    <3> DEFINE row == [invoice[a.invoice] EXCEPT
                         !.balanceDue = @ + a.sourceBaseAmount,
                         !.transactionBalanceDue = @ + a.transactionAmount]
    <3>1. /\ invoice[a.invoice] \in Invoice
          /\ invoice[a.invoice].balanceDue + a.sourceBaseAmount \in Nat
          /\ invoice[a.invoice].transactionBalanceDue + a.transactionAmount \in Nat
      BY <1>2, <1>3 DEF Invoice
    <3>2. row \in Invoice
      BY <3>1, Zenon DEF Invoice
    <3>3. invoice' = [invoice EXCEPT ![a.invoice] = row]
      BY <1>1, <1>2, <1>3, Zenon
    <3> HIDE DEF row
    <3>4. QED
      BY <1>2, <1>3, <3>2, <3>3
  <2>2. payment' \in [Payments -> Payment]
    <3> DEFINE row == [payment[a.payment] EXCEPT
                         !.unappliedAmount = @ + a.settlementBaseAmount,
                         !.transactionUnappliedAmount = @ + a.transactionAmount]
    <3>1. /\ payment[a.payment] \in Payment
          /\ payment[a.payment].unappliedAmount + a.settlementBaseAmount \in Nat
          /\ payment[a.payment].transactionUnappliedAmount + a.transactionAmount \in Nat
      BY <1>2, <1>3 DEF Payment
    <3>2. row \in Payment
      BY <3>1, Zenon DEF Payment
    <3>3. payment' = [payment EXCEPT ![a.payment] = row]
      BY <1>1, <1>2, <1>3, Zenon
    <3> HIDE DEF row
    <3>4. QED
      BY <1>2, <1>3, <3>2, <3>3
  <2>3. allocation' \in [Allocations -> Allocation] /\ References'
    BY <1>1, <1>2 DEF Allocation, References, IInv, TypeInv
  <2>4. receivable' \in Int
    BY <1>1, <1>2, <1>3
  <2>5. QED
    BY <1>1, <2>1, <2>2, <2>3, <2>4 DEF IInv, TypeInv, TypeOK, Requests
<1>5. /\ \A v \in Allocations \ {u} : allocation'[v] = allocation[v]
      /\ allocation'[u].status = "REVERSED"
  BY <1>1, <1>2 DEF Allocation
<1>6. InvoiceInv'
  <2>1. \A i \in Invoices : PaidTo(i)' = PaidTo(i)
    BY <1>1, <1>2 DEF PaidTo, Payment
  <2>2. \A i \in Invoices :
          /\ AppliedTo(i)[u] = IF a.invoice = i THEN a.sourceBaseAmount ELSE 0
          /\ AppliedTo(i)'[u] = 0
    BY <1>1, <1>5 DEF AppliedTo
  <2>3. \A i \in Invoices :
          /\ invoice'[i].status = invoice[i].status
          /\ invoice'[i].posted = invoice[i].posted
          /\ invoice'[i].balanceDue = IF a.invoice = i
                                      THEN invoice[i].balanceDue + a.sourceBaseAmount
                                      ELSE invoice[i].balanceDue
          /\ invoice[i].balanceDue \in Nat
    BY <1>1, <1>2, <1>3 DEF Invoice
  <2>4. \A i \in Invoices :
          /\ invoice[i].status # "FINALIZED" => AppliedTo(i)'[u] = AppliedTo(i)[u]
          /\ invoice'[i].balanceDue + AppliedTo(i)'[u]
               = invoice[i].balanceDue + AppliedTo(i)[u]
    <3> HIDE DEF a
    <3> TAKE i \in Invoices
    <3>1. CASE a.invoice = i
      <4>1. invoice[i].status = "FINALIZED"
        BY <1>1, <3>1
      <4>2. QED
        BY <1>3, <2>2, <2>3, <3>1, <4>1
    <3>2. CASE a.invoice # i
      BY <2>2, <2>3, <3>2
    <3>3. QED
      BY <3>1, <3>2
  <2>5. TypeOK /\ TypeOK' /\ InvoiceInv /\ UNCHANGED creditAllocation
    BY <1>1, <1>4 DEF IInv, TypeInv
  <2>6. QED
    BY <1>5, <2>1, <2>3, <2>4, <2>5, AppliedKeepsInvoices
<1>7. PaymentInv'
  <2>1. \A p \in Payments :
          /\ SettledFrom(p)[u] = IF a.payment = p THEN a.settlementBaseAmount ELSE 0
          /\ TransactionSettledFrom(p)[u] = IF a.payment = p THEN a.transactionAmount ELSE 0
          /\ SettledFrom(p)'[u] = 0 /\ TransactionSettledFrom(p)'[u] = 0
    BY <1>1, <1>5 DEF SettledFrom, TransactionSettledFrom
  <2>2. \A p \in Payments :
          /\ payment'[p].status = payment[p].status
          /\ payment'[p].amountReceived = payment[p].amountReceived
          /\ payment'[p].allocations = payment[p].allocations
          /\ payment'[p].unappliedAmount =
               IF a.payment = p THEN payment[p].unappliedAmount + a.settlementBaseAmount
               ELSE payment[p].unappliedAmount
          /\ payment'[p].transactionUnappliedAmount =
               IF a.payment = p
               THEN payment[p].transactionUnappliedAmount + a.transactionAmount
               ELSE payment[p].transactionUnappliedAmount
          /\ payment[p].unappliedAmount \in Nat
          /\ payment[p].transactionUnappliedAmount \in Nat
    BY <1>1, <1>2, <1>3 DEF Payment
  <2>3. \A p \in Payments :
          /\ payment[p].status # "POSTED" =>
               /\ SettledFrom(p)'[u] = SettledFrom(p)[u]
               /\ TransactionSettledFrom(p)'[u] = TransactionSettledFrom(p)[u]
          /\ payment'[p].unappliedAmount + SettledFrom(p)'[u]
               = payment[p].unappliedAmount + SettledFrom(p)[u]
          /\ payment'[p].transactionUnappliedAmount + TransactionSettledFrom(p)'[u]
               = payment[p].transactionUnappliedAmount + TransactionSettledFrom(p)[u]
    <3> HIDE DEF a
    <3> TAKE p \in Payments
    <3>1. CASE a.payment = p
      <4>1. payment[p].status = "POSTED"
        BY <1>1, <3>1
      <4>2. QED
        BY <1>3, <2>1, <2>2, <3>1, <4>1
    <3>2. CASE a.payment # p
      BY <2>1, <2>2, <3>2
    <3>3. QED
      BY <3>1, <3>2
  <2>4. TypeOK /\ TypeOK' /\ PaymentInv /\ UNCHANGED refund
    BY <1>1, <1>4 DEF IInv, TypeInv
  <2>5. QED
    BY <1>5, <2>2, <2>3, <2>4, AppliedKeepsPayments
<1>8. QED
  BY <1>1, <1>4, <1>6, <1>7, CreditNoteFrame DEF IInv

\* A credit note is drafted or changed.
LEMMA CreditNoteDraftStep ==
    ASSUME IInv, NEW w \in Workers, CreateCreditNoteCommit(w) \/ UpdateCreditNoteCommit(w)
    PROVE  IInv'
<1> DEFINE r == request[w]
           c == r.creditNote
<1>1. /\ c \in CreditNotes /\ r.total \in Nat
      /\ r.originalInvoice \in Invoices \cup {None}
  BY RequestTypes DEF CreateCreditNoteCommit, UpdateCreditNoteCommit, IInv
<1>2. /\ creditNote[c].status \in {"NONE", "DRAFT"}
      /\ Finish(w)
      /\ UNCHANGED <<invoice, payment, allocation, creditAllocation, refund,
                     receivable>>
  BY DEF CreateCreditNoteCommit, UpdateCreditNoteCommit
<1>3. creditNote \in [CreditNotes -> CreditNote]
  BY DEF IInv, TypeInv, TypeOK
<1>4. /\ creditNote' \in [CreditNotes -> CreditNote]
      /\ creditNote'[c].status = "DRAFT"
      /\ \A d \in CreditNotes \ {c} : creditNote'[d] = creditNote[d]
  <2>1. CASE CreateCreditNoteCommit(w)
    <3>1. creditNote' = [creditNote EXCEPT ![c] =
            [status |-> "DRAFT", total |-> r.total, unappliedAmount |-> r.total,
             posted |-> 0, originalInvoice |-> r.originalInvoice]]
      BY <2>1 DEF CreateCreditNoteCommit
    <3> HIDE DEF c, r
    <3>2. QED
      BY <1>1, <1>3, <3>1 DEF CreditNote, DocumentStatus
  <2>2. CASE UpdateCreditNoteCommit(w)
    <3>1. /\ creditNote[c].status = "DRAFT"
          /\ creditNote' = [creditNote EXCEPT
               ![c].total = r.total, ![c].unappliedAmount = r.total,
               ![c].originalInvoice = r.originalInvoice]
      BY <2>2 DEF UpdateCreditNoteCommit
    <3> DEFINE row == [creditNote[c] EXCEPT !.total = r.total,
                                            !.unappliedAmount = r.total,
                                            !.originalInvoice = r.originalInvoice]
    <3> HIDE DEF c, r
    <3>2. creditNote[c] \in CreditNote
      BY <1>1, <1>3
    <3>3. row \in CreditNote /\ row.status = "DRAFT"
      BY <1>1, <3>1, <3>2, Zenon DEF CreditNote
    <3>4. creditNote' = [creditNote EXCEPT ![c] = row]
      BY <1>1, <1>3, <3>1, Zenon
    <3> HIDE DEF row
    <3>5. QED
      BY <1>1, <1>3, <3>3, <3>4
  <2>3. QED
    BY <2>1, <2>2
<1> HIDE DEF c, r
<1>5. TypeInv'
  BY <1>2, <1>4, FinishType DEF IInv, TypeInv, TypeOK, References
<1>6. CreditNoteInv'
  BY <1>1, <1>2, <1>4, <1>5, CreditNoteStatusKeepsCreditNotes DEF IInv, TypeInv
<1>7. QED
  BY <1>2, <1>5, <1>6, InvoiceFrame, PaymentFrame DEF IInv

\* Finalizing posts the total it read, all of it unapplied.
LEMMA FinalizeCreditNoteStep ==
    ASSUME IInv, NEW w \in Workers, FinalizeCreditNoteCommit(w)
    PROVE  IInv'
<1> DEFINE c == request[w].creditNote
           total == request[w].total
<1>1. c \in CreditNotes /\ total \in Nat
  BY RequestTypes DEF FinalizeCreditNoteCommit, IInv
<1>2. /\ creditNote[c].status = "DRAFT"
      /\ creditNote' = [creditNote EXCEPT ![c].status = "FINALIZED",
                                          ![c].unappliedAmount = total,
                                          ![c].posted = total]
      /\ Finish(w)
      /\ UNCHANGED <<invoice, payment, allocation, creditAllocation, refund>>
  BY DEF FinalizeCreditNoteCommit
<1>3. receivable' = receivable - total
  BY DEF FinalizeCreditNoteCommit
<1>4. /\ creditNote \in [CreditNotes -> CreditNote]
      /\ receivable \in Int
      /\ "FINALIZED" \in DocumentStatus
  BY DEF IInv, TypeInv, TypeOK, DocumentStatus
<1> HIDE DEF c, total
<1>5. creditNote' \in [CreditNotes -> CreditNote]
  <2> DEFINE row == [creditNote[c] EXCEPT !.status = "FINALIZED",
                                          !.unappliedAmount = total,
                                          !.posted = total]
  <2>1. creditNote[c] \in CreditNote
    BY <1>1, <1>4
  <2>2. row \in CreditNote
    BY <1>1, <1>4, <2>1, Zenon DEF CreditNote
  <2>3. creditNote' = [creditNote EXCEPT ![c] = row]
    BY <1>1, <1>2, <1>4, Zenon
  <2> HIDE DEF row
  <2>4. QED
    BY <1>1, <1>4, <2>2, <2>3
<1>6. receivable' \in Int
  BY <1>1, <1>3, <1>4
<1>7. TypeInv'
  BY <1>2, <1>5, <1>6, FinishType DEF IInv, TypeInv, TypeOK, References
<1>8. \A d \in CreditNotes :
        \/ creditNote'[d] = creditNote[d]
        \/ /\ creditNote'[d].status = "FINALIZED" /\ creditNote[d].status = "DRAFT"
           /\ creditNote'[d].unappliedAmount = creditNote'[d].posted
  BY <1>1, <1>2, <1>4 DEF CreditNote
<1>9. CreditNoteInv'
  BY <1>2, <1>7, <1>8, CreditNoteStatusKeepsCreditNotes DEF IInv, TypeInv
<1>10. QED
  BY <1>2, <1>7, <1>9, InvoiceFrame, PaymentFrame DEF IInv

\* A voided credit note has no law to keep.
LEMMA VoidCreditNoteStep ==
    ASSUME IInv, NEW c \in CreditNotes, VoidCreditNote(c)
    PROVE  IInv'
<1>1. /\ creditNote' = [creditNote EXCEPT ![c].status = "VOIDED", ![c].posted = 0]
      /\ UNCHANGED <<invoice, payment, allocation, creditAllocation, refund, request>>
  BY DEF VoidCreditNote
<1>2. receivable' = receivable + creditNote[c].posted
  BY DEF VoidCreditNote
<1>3. /\ creditNote \in [CreditNotes -> CreditNote]
      /\ receivable \in Int
      /\ "VOIDED" \in DocumentStatus /\ 0 \in Nat
  BY DEF IInv, TypeInv, TypeOK, DocumentStatus
<1>4. /\ creditNote' \in [CreditNotes -> CreditNote]
      /\ \A d \in CreditNotes : \/ creditNote'[d] = creditNote[d]
                               \/ creditNote'[d].status = "VOIDED"
  <2> DEFINE row == [creditNote[c] EXCEPT !.status = "VOIDED", !.posted = 0]
  <2>1. row \in CreditNote /\ row.status = "VOIDED"
    BY <1>3, Zenon DEF CreditNote
  <2>2. creditNote' = [creditNote EXCEPT ![c] = row]
    BY <1>1, Zenon
  <2> HIDE DEF row
  <2>3. QED
    BY <1>3, <2>1, <2>2
<1>5. receivable' \in Int
  BY <1>2, <1>3 DEF CreditNote
<1>6. TypeInv'
  BY <1>1, <1>4, <1>5 DEF IInv, TypeInv, TypeOK, Requests, References
<1>7. CreditNoteInv'
  BY <1>1, <1>4, <1>6, CreditNoteStatusKeepsCreditNotes DEF IInv, TypeInv
<1>8. QED
  BY <1>1, <1>6, <1>7, InvoiceFrame, PaymentFrame DEF IInv

\* Deleting cascades to the allocations, which still count against invoices.
LEMMA RemoveCreditNoteStep ==
    ASSUME IInv, NEW w \in Workers, RemoveCreditNoteCommit(w)
    PROVE  IInv'
<1> DEFINE c == request[w].creditNote
<1>1. c \in CreditNotes
  BY RequestTypes DEF RemoveCreditNoteCommit, IInv
<1>2. /\ creditNote' = [creditNote EXCEPT ![c].status = "DELETED"]
      /\ creditAllocation' = [k \in CreditAllocations |->
           IF /\ creditAllocation[k].creditNote = c
              /\ creditAllocation[k].status = "ACTIVE"
           THEN [creditAllocation[k] EXCEPT !.status = "CASCADED"]
           ELSE creditAllocation[k]]
      /\ Finish(w)
      /\ UNCHANGED <<invoice, payment, allocation, refund, receivable>>
  BY DEF RemoveCreditNoteCommit
<1> HIDE DEF c
<1>3. /\ creditNote \in [CreditNotes -> CreditNote]
      /\ creditAllocation \in [CreditAllocations -> CreditAllocation]
      /\ "DELETED" \in DocumentStatus
  BY DEF IInv, TypeInv, TypeOK, DocumentStatus
<1>4. TypeInv'
  <2>1. creditNote' \in [CreditNotes -> CreditNote]
    BY <1>1, <1>2, <1>3 DEF CreditNote
  <2>2. creditAllocation' \in [CreditAllocations -> CreditAllocation]
    BY <1>2, <1>3 DEF CreditAllocation
  <2>3. References'
    BY <1>2, <1>3 DEF IInv, TypeInv, References, CreditAllocation
  <2>4. QED
    BY <1>2, <2>1, <2>2, <2>3, FinishType DEF IInv, TypeInv, TypeOK
<1>5. InvoiceInv'
  <2>1. \A i \in Invoices : /\ PaidTo(i)' = PaidTo(i)
                            /\ AppliedTo(i)' = AppliedTo(i)
    BY <1>2 DEF PaidTo, AppliedTo
  <2>2. \A i \in Invoices : CreditedTo(i)' = CreditedTo(i)
    BY <1>2, <1>3 DEF CreditedTo, CreditAllocation
  <2>3. QED
    BY <1>2, <2>1, <2>2 DEF IInv, InvoiceInv, InvoiceLaw
<1>6. CreditNoteInv'
  <2> SUFFICES ASSUME NEW d \in CreditNotes
               PROVE  CreditNoteLaw(d)'
    BY DEF CreditNoteInv
  <2>1. CASE d = c
    <3>1. creditNote'[d].status = "DELETED"
      BY <1>1, <1>2, <1>3, <2>1 DEF CreditNote
    <3>2. QED
      BY <3>1 DEF CreditNoteLaw
  <2>2. CASE d # c
    <3>1. creditNote'[d] = creditNote[d] /\ RefundedFrom(d)' = RefundedFrom(d)
      BY <1>2, <1>3, <2>2 DEF RefundedFrom
    <3>2. CreditedFrom(d)' = CreditedFrom(d)
      BY <1>2, <1>3, <2>2 DEF CreditedFrom, CreditAllocation
    <3>3. QED
      BY <3>1, <3>2 DEF IInv, CreditNoteInv, CreditNoteLaw
  <2>3. QED
    BY <2>1, <2>2
<1>7. QED
  BY <1>2, <1>4, <1>5, <1>6, PaymentFrame DEF IInv

\* An allocation takes its amount from the credit note and the invoice.
LEMMA ApplyCreditNoteStep ==
    ASSUME IInv, NEW k \in CreditAllocations, NEW c \in CreditNotes,
           NEW i \in Invoices, NEW amount \in Amounts, ApplyCreditNote(k, c, i, amount)
    PROVE  IInv'
<1>1. /\ creditAllocation[k].status = "NONE"
      /\ creditNote[c].status = "FINALIZED"
      /\ creditNote[c].unappliedAmount >= amount
      /\ invoice[i].status = "FINALIZED"
      /\ invoice[i].balanceDue >= amount
      /\ creditNote' = [creditNote EXCEPT ![c].unappliedAmount = @ - amount]
      /\ invoice' = [invoice EXCEPT ![i].balanceDue = @ - amount]
      /\ creditAllocation' = [creditAllocation EXCEPT ![k] =
           [status |-> "ACTIVE", creditNote |-> c, invoice |-> i, amount |-> amount]]
      /\ UNCHANGED <<payment, allocation, refund, receivable, request>>
  BY DEF ApplyCreditNote
<1>2. /\ invoice \in [Invoices -> Invoice]
      /\ creditNote \in [CreditNotes -> CreditNote]
      /\ creditAllocation \in [CreditAllocations -> CreditAllocation]
      /\ amount \in Nat
  BY AmountsPositive DEF IInv, TypeInv, TypeOK
<1>3. TypeInv'
  <2>1. invoice' \in [Invoices -> Invoice]
    BY <1>1, <1>2 DEF Invoice
  <2>2. creditNote' \in [CreditNotes -> CreditNote]
    BY <1>1, <1>2 DEF CreditNote
  <2>3. creditAllocation' \in [CreditAllocations -> CreditAllocation] /\ References'
    BY <1>1, <1>2 DEF CreditAllocation, References, IInv, TypeInv
  <2>4. QED
    BY <1>1, <2>1, <2>2, <2>3 DEF IInv, TypeInv, TypeOK, Requests
<1>4. /\ TypeOK /\ TypeOK' /\ InvoiceInv /\ CreditNoteInv
      /\ \A l \in CreditAllocations \ {k} : creditAllocation'[l] = creditAllocation[l]
      /\ UNCHANGED <<payment, allocation, refund>>
  BY <1>1, <1>2, <1>3 DEF IInv, TypeInv
<1>5. InvoiceInv'
  <2>1. \A j \in Invoices :
          /\ CreditedTo(j)[k] = 0
          /\ CreditedTo(j)'[k] = IF j = i THEN amount ELSE 0
    BY <1>1, <1>2 DEF CreditedTo
  <2>2. \A j \in Invoices :
          /\ invoice'[j].status = invoice[j].status
          /\ invoice'[j].posted = invoice[j].posted
          /\ invoice'[j].balanceDue = IF j = i THEN invoice[j].balanceDue - amount
                                      ELSE invoice[j].balanceDue
          /\ invoice[j].balanceDue \in Nat
    BY <1>1, <1>2 DEF Invoice
  <2>3. \A j \in Invoices :
          /\ invoice[j].status # "FINALIZED" => CreditedTo(j)'[k] = CreditedTo(j)[k]
          /\ invoice'[j].balanceDue + CreditedTo(j)'[k]
               = invoice[j].balanceDue + CreditedTo(j)[k]
    BY <1>1, <1>2, <2>1, <2>2
  <2>4. QED
    BY <1>4, <2>2, <2>3, CreditedKeepsInvoices
<1>6. CreditNoteInv'
  <2>1. \A d \in CreditNotes :
          /\ CreditedFrom(d)[k] = 0
          /\ CreditedFrom(d)'[k] = IF d = c THEN amount ELSE 0
    BY <1>1, <1>2 DEF CreditedFrom
  <2>2. \A d \in CreditNotes :
          /\ creditNote'[d].status = creditNote[d].status
          /\ creditNote'[d].posted = creditNote[d].posted
          /\ creditNote'[d].unappliedAmount =
               IF d = c THEN creditNote[d].unappliedAmount - amount
               ELSE creditNote[d].unappliedAmount
          /\ creditNote[d].unappliedAmount \in Nat
    BY <1>1, <1>2 DEF CreditNote
  <2>3. \A d \in CreditNotes :
          /\ creditNote[d].status # "FINALIZED" => CreditedFrom(d)'[k] = CreditedFrom(d)[k]
          /\ creditNote'[d].unappliedAmount + CreditedFrom(d)'[k]
               = creditNote[d].unappliedAmount + CreditedFrom(d)[k]
    BY <1>1, <1>2, <2>1, <2>2
  <2>4. QED
    BY <1>4, <2>2, <2>3, CreditedKeepsCreditNotes
<1>7. QED
  BY <1>3, <1>4, <1>5, <1>6, PaymentFrame DEF IInv

\* Reversing an allocation gives its amount back to both.
LEMMA ReverseCreditStep ==
    ASSUME IInv, NEW k \in CreditAllocations, ReverseCreditAllocation(k)
    PROVE  IInv'
<1> DEFINE a == creditAllocation[k]
<1>1. /\ a.status = "ACTIVE"
      /\ creditNote[a.creditNote].status = "FINALIZED"
      /\ invoice[a.invoice].status = "FINALIZED"
      /\ creditAllocation' = [creditAllocation EXCEPT ![k].status = "REVERSED"]
      /\ creditNote' = [creditNote EXCEPT ![a.creditNote].unappliedAmount = @ + a.amount]
      /\ invoice' = [invoice EXCEPT ![a.invoice].balanceDue = @ + a.amount]
      /\ UNCHANGED <<payment, allocation, refund, receivable, request>>
  BY DEF ReverseCreditAllocation, CreditReversalClaim
<1>2. /\ invoice \in [Invoices -> Invoice]
      /\ creditNote \in [CreditNotes -> CreditNote]
      /\ creditAllocation \in [CreditAllocations -> CreditAllocation]
  BY DEF IInv, TypeInv, TypeOK
<1>3. a.creditNote \in CreditNotes /\ a.invoice \in Invoices /\ a.amount \in Nat
  BY <1>1, <1>2 DEF IInv, TypeInv, References, CreditAllocation
<1>4. TypeInv'
  <2>1. invoice' \in [Invoices -> Invoice]
    BY <1>1, <1>2, <1>3 DEF Invoice
  <2>2. creditNote' \in [CreditNotes -> CreditNote]
    BY <1>1, <1>2, <1>3 DEF CreditNote
  <2>3. creditAllocation' \in [CreditAllocations -> CreditAllocation] /\ References'
    BY <1>1, <1>2 DEF CreditAllocation, References, IInv, TypeInv
  <2>4. QED
    BY <1>1, <2>1, <2>2, <2>3 DEF IInv, TypeInv, TypeOK, Requests
<1>5. /\ TypeOK /\ TypeOK' /\ InvoiceInv /\ CreditNoteInv
      /\ \A l \in CreditAllocations \ {k} : creditAllocation'[l] = creditAllocation[l]
      /\ creditAllocation'[k].status = "REVERSED"
      /\ UNCHANGED <<payment, allocation, refund>>
  BY <1>1, <1>2, <1>4 DEF IInv, TypeInv, CreditAllocation
<1>6. InvoiceInv'
  <2>1. \A j \in Invoices :
          /\ CreditedTo(j)[k] = IF a.invoice = j THEN a.amount ELSE 0
          /\ CreditedTo(j)'[k] = 0
    BY <1>1, <1>5 DEF CreditedTo
  <2>2. \A j \in Invoices :
          /\ invoice'[j].status = invoice[j].status
          /\ invoice'[j].posted = invoice[j].posted
          /\ invoice'[j].balanceDue = IF a.invoice = j THEN invoice[j].balanceDue + a.amount
                                      ELSE invoice[j].balanceDue
          /\ invoice[j].balanceDue \in Nat
    BY <1>1, <1>2, <1>3 DEF Invoice
  <2> HIDE DEF a
  <2>3. \A j \in Invoices :
          /\ invoice[j].status # "FINALIZED" => CreditedTo(j)'[k] = CreditedTo(j)[k]
          /\ invoice'[j].balanceDue + CreditedTo(j)'[k]
               = invoice[j].balanceDue + CreditedTo(j)[k]
    BY <1>1, <1>3, <2>1, <2>2
  <2>4. QED
    BY <1>5, <2>2, <2>3, CreditedKeepsInvoices
<1>7. CreditNoteInv'
  <2>1. \A d \in CreditNotes :
          /\ CreditedFrom(d)[k] = IF a.creditNote = d THEN a.amount ELSE 0
          /\ CreditedFrom(d)'[k] = 0
    BY <1>1, <1>5 DEF CreditedFrom
  <2>2. \A d \in CreditNotes :
          /\ creditNote'[d].status = creditNote[d].status
          /\ creditNote'[d].posted = creditNote[d].posted
          /\ creditNote'[d].unappliedAmount =
               IF a.creditNote = d THEN creditNote[d].unappliedAmount + a.amount
               ELSE creditNote[d].unappliedAmount
          /\ creditNote[d].unappliedAmount \in Nat
    BY <1>1, <1>2, <1>3 DEF CreditNote
  <2> HIDE DEF a
  <2>3. \A d \in CreditNotes :
          /\ creditNote[d].status # "FINALIZED" => CreditedFrom(d)'[k] = CreditedFrom(d)[k]
          /\ creditNote'[d].unappliedAmount + CreditedFrom(d)'[k]
               = creditNote[d].unappliedAmount + CreditedFrom(d)[k]
    BY <1>1, <1>3, <2>1, <2>2
  <2>4. QED
    BY <1>5, <2>2, <2>3, CreditedKeepsCreditNotes
<1>8. QED
  BY <1>1, <1>4, <1>6, <1>7, PaymentFrame DEF IInv

\* A refund takes its amount from a payment.
LEMMA CreateRefundFromPaymentStep ==
    ASSUME IInv, NEW r \in Refunds, NEW p \in Payments,
           NEW amount \in Amounts, CreateRefundFromPayment(r, p, amount)
    PROVE  IInv'
<1>1. /\ refund[r].status = "NONE"
      /\ payment[p].status = "POSTED"
      /\ payment[p].unappliedAmount >= amount
      /\ payment' = [payment EXCEPT ![p].unappliedAmount = @ - amount]
      /\ refund' = [refund EXCEPT ![r] =
           [status |-> "POSTED", source |-> p, amount |-> amount]]
      /\ UNCHANGED <<invoice, creditNote, allocation, creditAllocation, request>>
  BY DEF CreateRefundFromPayment
<1>2. receivable' = receivable + amount
  BY DEF CreateRefundFromPayment
<1>3. /\ payment \in [Payments -> Payment]
      /\ refund \in [Refunds -> Refund]
      /\ receivable \in Int
  BY DEF IInv, TypeInv, TypeOK
<1>4. amount \in Nat
  BY AmountsPositive
<1>5. /\ \A q \in Refunds \ {r} : refund'[q] = refund[q]
      /\ \A x \in Payments \cup CreditNotes :
           /\ RefundedFrom(x)[r] = 0
           /\ RefundedFrom(x)'[r] = IF x = p THEN amount ELSE 0
  BY <1>1, <1>3 DEF RefundedFrom
<1>6. refund' \in [Refunds -> Refund]
  BY <1>1, <1>3, <1>4 DEF Refund
<1>7. payment' \in [Payments -> Payment] /\ receivable' \in Int
  <2>1. payment' \in [Payments -> Payment]
    BY <1>1, <1>3, <1>4 DEF Payment
  <2>2. QED
    BY <1>2, <1>3, <1>4, <2>1
<1>8. TypeInv'
  BY <1>1, <1>6, <1>7 DEF IInv, TypeInv, TypeOK, Requests, References
<1>9. TypeOK /\ TypeOK' /\ PaymentInv /\ CreditNoteInv
  BY <1>8 DEF IInv, TypeInv
<1>10. PaymentInv'
  <2>1. \A x \in Payments :
          /\ payment'[x].status = payment[x].status
          /\ payment'[x].amountReceived = payment[x].amountReceived
          /\ payment'[x].allocations = payment[x].allocations
          /\ payment'[x].transactionUnappliedAmount
               = payment[x].transactionUnappliedAmount
          /\ payment'[x].unappliedAmount =
               IF x = p THEN payment[x].unappliedAmount - amount
               ELSE payment[x].unappliedAmount
          /\ payment[x].unappliedAmount \in Nat
    BY <1>1, <1>3, <1>4 DEF Payment
  <2>2. \A x \in Payments :
          /\ payment[x].status # "POSTED" => RefundedFrom(x)'[r] = RefundedFrom(x)[r]
          /\ payment'[x].unappliedAmount + RefundedFrom(x)'[r]
               = payment[x].unappliedAmount + RefundedFrom(x)[r]
    BY <1>1, <1>4, <1>5, <2>1
  <2>3. QED
    BY <1>1, <1>5, <1>9, <2>1, <2>2, RefundedKeepsPayments
<1>11. CreditNoteInv'
  <2>1. \A x \in CreditNotes : RefundedFrom(x)'[r] = RefundedFrom(x)[r]
    BY <1>1, <1>5, IdsDistinct
  <2>2. QED
    BY <1>1, <1>5, <1>9, <2>1, RefundedKeepsCreditNotes
<1>12. InvoiceInv'
  <2>1. \A i \in Invoices : /\ PaidTo(i)' = PaidTo(i)
                            /\ AppliedTo(i)' = AppliedTo(i)
                            /\ CreditedTo(i)' = CreditedTo(i)
    BY <1>1, <1>3 DEF PaidTo, AppliedTo, CreditedTo, Payment
  <2>2. QED
    BY <1>1, <2>1 DEF IInv, InvoiceInv, InvoiceLaw
<1>13. QED
  BY <1>8, <1>10, <1>11, <1>12 DEF IInv

\* A refund takes its amount from a credit note.
LEMMA CreateRefundFromCreditNoteStep ==
    ASSUME IInv, NEW r \in Refunds, NEW c \in CreditNotes,
           NEW amount \in Amounts, CreateRefundFromCreditNote(r, c, amount)
    PROVE  IInv'
<1>1. /\ refund[r].status = "NONE"
      /\ creditNote[c].status = "FINALIZED"
      /\ creditNote[c].unappliedAmount >= amount
      /\ creditNote' = [creditNote EXCEPT ![c].unappliedAmount = @ - amount]
      /\ refund' = [refund EXCEPT ![r] =
           [status |-> "POSTED", source |-> c, amount |-> amount]]
      /\ UNCHANGED <<invoice, payment, allocation, creditAllocation, request>>
  BY DEF CreateRefundFromCreditNote
<1>2. receivable' = receivable + amount
  BY DEF CreateRefundFromCreditNote
<1>3. /\ creditNote \in [CreditNotes -> CreditNote]
      /\ refund \in [Refunds -> Refund]
      /\ receivable \in Int
  BY DEF IInv, TypeInv, TypeOK
<1>4. amount \in Nat
  BY AmountsPositive
<1>5. /\ \A q \in Refunds \ {r} : refund'[q] = refund[q]
      /\ \A x \in Payments \cup CreditNotes :
           /\ RefundedFrom(x)[r] = 0
           /\ RefundedFrom(x)'[r] = IF x = c THEN amount ELSE 0
  BY <1>1, <1>3 DEF RefundedFrom
<1>6. refund' \in [Refunds -> Refund]
  BY <1>1, <1>3, <1>4 DEF Refund
<1>7. creditNote' \in [CreditNotes -> CreditNote] /\ receivable' \in Int
  <2>1. creditNote' \in [CreditNotes -> CreditNote]
    BY <1>1, <1>3, <1>4 DEF CreditNote
  <2>2. QED
    BY <1>2, <1>3, <1>4, <2>1
<1>8. TypeInv'
  BY <1>1, <1>6, <1>7 DEF IInv, TypeInv, TypeOK, Requests, References
<1>9. TypeOK /\ TypeOK' /\ PaymentInv /\ CreditNoteInv
  BY <1>8 DEF IInv, TypeInv
<1>10. CreditNoteInv'
  <2>1. \A x \in CreditNotes :
          /\ creditNote'[x].status = creditNote[x].status
          /\ creditNote'[x].posted = creditNote[x].posted
          /\ creditNote'[x].unappliedAmount =
               IF x = c THEN creditNote[x].unappliedAmount - amount
               ELSE creditNote[x].unappliedAmount
          /\ creditNote[x].unappliedAmount \in Nat
    BY <1>1, <1>3, <1>4 DEF CreditNote
  <2>2. \A x \in CreditNotes :
          /\ creditNote[x].status # "FINALIZED" => RefundedFrom(x)'[r] = RefundedFrom(x)[r]
          /\ creditNote'[x].unappliedAmount + RefundedFrom(x)'[r]
               = creditNote[x].unappliedAmount + RefundedFrom(x)[r]
    BY <1>1, <1>4, <1>5, <2>1
  <2>3. QED
    BY <1>1, <1>5, <1>9, <2>1, <2>2, RefundedKeepsCreditNotes
<1>11. PaymentInv'
  <2>1. \A x \in Payments : RefundedFrom(x)'[r] = RefundedFrom(x)[r]
    BY <1>1, <1>5, IdsDistinct
  <2>2. QED
    BY <1>1, <1>5, <1>9, <2>1, RefundedKeepsPayments
<1>12. QED
  BY <1>1, <1>8, <1>10, <1>11, InvoiceFrame DEF IInv

\* Voiding a refund gives its amount back to the payment.
LEMMA VoidRefundOfPaymentStep ==
    ASSUME IInv, NEW r \in Refunds, VoidRefundOfPayment(r)
    PROVE  IInv'
<1> DEFINE p == refund[r].source
           amount == refund[r].amount
<1>1. /\ refund[r].status = "POSTED"
      /\ p \in Payments
      /\ payment[p].status = "POSTED"
      /\ payment' = [payment EXCEPT ![p].unappliedAmount = @ + amount]
      /\ refund' = [refund EXCEPT ![r].status = "VOIDED"]
      /\ UNCHANGED <<invoice, creditNote, allocation, creditAllocation, request>>
  BY DEF VoidRefundOfPayment, RefundVoidClaim
<1>2. receivable' = receivable - amount
  BY DEF VoidRefundOfPayment
<1>3. /\ payment \in [Payments -> Payment]
      /\ refund \in [Refunds -> Refund]
      /\ receivable \in Int
  BY DEF IInv, TypeInv, TypeOK
<1>4. amount \in Nat
  BY <1>3 DEF Refund
<1>5. /\ \A q \in Refunds \ {r} : refund'[q] = refund[q]
      /\ \A x \in Payments \cup CreditNotes :
           /\ RefundedFrom(x)[r] = IF x = p THEN amount ELSE 0
           /\ RefundedFrom(x)'[r] = 0
  BY <1>1, <1>3 DEF RefundedFrom, Refund
<1>6. refund' \in [Refunds -> Refund]
  BY <1>1, <1>3, <1>4 DEF Refund
<1> HIDE DEF p, amount
<1>7. payment' \in [Payments -> Payment] /\ receivable' \in Int
  <2>1. payment' \in [Payments -> Payment]
    BY <1>1, <1>3, <1>4 DEF Payment
  <2>2. QED
    BY <1>2, <1>3, <1>4, <2>1
<1>8. TypeInv'
  BY <1>1, <1>6, <1>7 DEF IInv, TypeInv, TypeOK, Requests, References
<1>9. TypeOK /\ TypeOK' /\ PaymentInv /\ CreditNoteInv
  BY <1>8 DEF IInv, TypeInv
<1>10. PaymentInv'
  <2>1. \A x \in Payments :
          /\ payment'[x].status = payment[x].status
          /\ payment'[x].amountReceived = payment[x].amountReceived
          /\ payment'[x].allocations = payment[x].allocations
          /\ payment'[x].transactionUnappliedAmount
               = payment[x].transactionUnappliedAmount
          /\ payment'[x].unappliedAmount =
               IF x = p THEN payment[x].unappliedAmount + amount
               ELSE payment[x].unappliedAmount
          /\ payment[x].unappliedAmount \in Nat
    BY <1>1, <1>3, <1>4 DEF Payment
  <2>2. \A x \in Payments :
          /\ payment[x].status # "POSTED" => RefundedFrom(x)'[r] = RefundedFrom(x)[r]
          /\ payment'[x].unappliedAmount + RefundedFrom(x)'[r]
               = payment[x].unappliedAmount + RefundedFrom(x)[r]
    BY <1>1, <1>4, <1>5, <2>1
  <2>3. QED
    BY <1>1, <1>5, <1>9, <2>1, <2>2, RefundedKeepsPayments
<1>11. CreditNoteInv'
  <2>1. \A x \in CreditNotes : RefundedFrom(x)'[r] = RefundedFrom(x)[r]
    BY <1>1, <1>5, IdsDistinct
  <2>2. QED
    BY <1>1, <1>5, <1>9, <2>1, RefundedKeepsCreditNotes
<1>12. InvoiceInv'
  <2>1. \A i \in Invoices : /\ PaidTo(i)' = PaidTo(i)
                            /\ AppliedTo(i)' = AppliedTo(i)
                            /\ CreditedTo(i)' = CreditedTo(i)
    BY <1>1, <1>3 DEF PaidTo, AppliedTo, CreditedTo, Payment
  <2>2. QED
    BY <1>1, <2>1 DEF IInv, InvoiceInv, InvoiceLaw
<1>13. QED
  BY <1>8, <1>10, <1>11, <1>12 DEF IInv

\* Voiding a refund gives its amount back to the credit note.
LEMMA VoidRefundOfCreditNoteStep ==
    ASSUME IInv, NEW r \in Refunds, VoidRefundOfCreditNote(r)
    PROVE  IInv'
<1> DEFINE c == refund[r].source
           amount == refund[r].amount
<1>1. /\ refund[r].status = "POSTED"
      /\ c \in CreditNotes
      /\ creditNote[c].status = "FINALIZED"
      /\ creditNote' = [creditNote EXCEPT ![c].unappliedAmount = @ + amount]
      /\ refund' = [refund EXCEPT ![r].status = "VOIDED"]
      /\ UNCHANGED <<invoice, payment, allocation, creditAllocation, request>>
  BY DEF VoidRefundOfCreditNote, RefundVoidClaim
<1>2. receivable' = receivable - amount
  BY DEF VoidRefundOfCreditNote
<1>3. /\ creditNote \in [CreditNotes -> CreditNote]
      /\ refund \in [Refunds -> Refund]
      /\ receivable \in Int
  BY DEF IInv, TypeInv, TypeOK
<1>4. amount \in Nat
  BY <1>3 DEF Refund
<1>5. /\ \A q \in Refunds \ {r} : refund'[q] = refund[q]
      /\ \A x \in Payments \cup CreditNotes :
           /\ RefundedFrom(x)[r] = IF x = c THEN amount ELSE 0
           /\ RefundedFrom(x)'[r] = 0
  BY <1>1, <1>3 DEF RefundedFrom, Refund
<1>6. refund' \in [Refunds -> Refund]
  BY <1>1, <1>3, <1>4 DEF Refund
<1> HIDE DEF c, amount
<1>7. creditNote' \in [CreditNotes -> CreditNote] /\ receivable' \in Int
  <2>1. creditNote' \in [CreditNotes -> CreditNote]
    BY <1>1, <1>3, <1>4 DEF CreditNote
  <2>2. QED
    BY <1>2, <1>3, <1>4, <2>1
<1>8. TypeInv'
  BY <1>1, <1>6, <1>7 DEF IInv, TypeInv, TypeOK, Requests, References
<1>9. TypeOK /\ TypeOK' /\ PaymentInv /\ CreditNoteInv
  BY <1>8 DEF IInv, TypeInv
<1>10. CreditNoteInv'
  <2>1. \A x \in CreditNotes :
          /\ creditNote'[x].status = creditNote[x].status
          /\ creditNote'[x].posted = creditNote[x].posted
          /\ creditNote'[x].unappliedAmount =
               IF x = c THEN creditNote[x].unappliedAmount + amount
               ELSE creditNote[x].unappliedAmount
          /\ creditNote[x].unappliedAmount \in Nat
    BY <1>1, <1>3, <1>4 DEF CreditNote
  <2>2. \A x \in CreditNotes :
          /\ creditNote[x].status # "FINALIZED" => RefundedFrom(x)'[r] = RefundedFrom(x)[r]
          /\ creditNote'[x].unappliedAmount + RefundedFrom(x)'[r]
               = creditNote[x].unappliedAmount + RefundedFrom(x)[r]
    BY <1>1, <1>4, <1>5, <2>1
  <2>3. QED
    BY <1>1, <1>5, <1>9, <2>1, <2>2, RefundedKeepsCreditNotes
<1>11. PaymentInv'
  <2>1. \A x \in Payments : RefundedFrom(x)'[r] = RefundedFrom(x)[r]
    BY <1>1, <1>5, IdsDistinct
  <2>2. QED
    BY <1>1, <1>5, <1>9, <2>1, RefundedKeepsPayments
<1>12. QED
  BY <1>1, <1>8, <1>10, <1>11, InvoiceFrame DEF IInv
-----------------------------------------------------------------------------
(* The Read actions begin well-formed requests. *)

\* finalize() of an invoice has read the total it will post.
LEMMA FinalizeInvoiceReadStep ==
    ASSUME IInv, NEW w \in Workers, NEW i \in Invoices,
           FinalizeInvoiceRead(w, i)
    PROVE  IInv'
<1> DEFINE r == [op |-> "finalizeInvoice", invoice |-> i, total |-> invoice[i].total]
<1>1. r \in Request
  BY DEF Request, IInv, TypeInv, TypeOK, Invoice
<1>2. WellFormed(r)
  BY DEF WellFormed
<1>3. Begin(w, r)
  BY DEF FinalizeInvoiceRead
<1> HIDE DEF r
<1>4. TypeInv' /\ UNCHANGED rows
  BY <1>1, <1>2, <1>3, BeginType DEF IInv, Begin
<1>5. QED
  BY <1>4, ReadStep

\* remove() of an invoice has read a draft.
LEMMA RemoveInvoiceReadStep ==
    ASSUME IInv, NEW w \in Workers, NEW i \in Invoices,
           RemoveInvoiceRead(w, i)
    PROVE  IInv'
<1> DEFINE r == [op |-> "removeInvoice", invoice |-> i]
<1>1. r \in Request
  BY DEF Request
<1>2. WellFormed(r)
  BY DEF WellFormed
<1>3. Begin(w, r)
  BY DEF RemoveInvoiceRead
<1> HIDE DEF r
<1>4. TypeInv' /\ UNCHANGED rows
  BY <1>1, <1>2, <1>3, BeginType DEF IInv, Begin
<1>5. QED
  BY <1>4, ReadStep

\* create() of a payment allocates no more than it received.
LEMMA CreatePaymentReadStep ==
    ASSUME IInv, NEW w \in Workers, NEW p \in Payments,
           NEW received \in Amounts, NEW allocs \in AllocationLists,
           CreatePaymentRead(w, p, received, allocs)
    PROVE  IInv'
<1> DEFINE r == [op |-> "createPayment", payment |-> p,
                 amountReceived |-> received, allocations |-> allocs]
<1>1. r \in Request
  BY AmountsPositive DEF Request, AllocationLists
<1>2. WellFormed(r)
  BY DEF CreatePaymentRead, WellFormed
<1>3. Begin(w, r)
  BY DEF CreatePaymentRead
<1> HIDE DEF r
<1>4. TypeInv' /\ UNCHANGED rows
  BY <1>1, <1>2, <1>3, BeginType DEF IInv, Begin
<1>5. QED
  BY <1>4, ReadStep

\* applyUnapplied() has computed an active row of a payment and an invoice.
LEMMA ApplyUnappliedReadStep ==
    ASSUME IInv, NEW w \in Workers, NEW u \in Allocations, NEW p \in Payments,
           NEW i \in Invoices, NEW amount \in Amounts,
           ApplyUnappliedRead(w, u, p, i, amount)
    PROVE  IInv'
<1> DEFINE r == [op |-> "applyUnapplied", allocation |-> u,
                 row |-> [status |-> "ACTIVE", payment |-> p,
                         invoice |-> i, transactionAmount |-> amount,
                         sourceBaseAmount |-> SourceBase(amount, invoice[i].transactionBalanceDue,
                                       invoice[i].balanceDue),
                         settlementBaseAmount |-> SettlementBase(amount, payment[p].transactionUnappliedAmount,
                                       payment[p].unappliedAmount)]]
<1>1. r \in Request
  BY AmountsPositive DEF Request, IInv, TypeInv, TypeOK, Invoice, Payment, Allocation, SourceBase, SettlementBase
<1>2. WellFormed(r)
  BY DEF WellFormed
<1>3. Begin(w, r)
  BY DEF ApplyUnappliedRead
<1> HIDE DEF r
<1>4. TypeInv' /\ UNCHANGED rows
  BY <1>1, <1>2, <1>3, BeginType DEF IInv, Begin
<1>5. QED
  BY <1>4, ReadStep

\* void() of a payment has counted its dependents.
LEMMA VoidPaymentReadStep ==
    ASSUME IInv, NEW w \in Workers, NEW p \in Payments, VoidPaymentRead(w, p)
    PROVE  IInv'
<1> DEFINE r == [op |-> "voidPayment", payment |-> p]
<1>1. r \in Request
  BY DEF Request
<1>2. WellFormed(r)
  BY DEF WellFormed
<1>3. Begin(w, r)
  BY DEF VoidPaymentRead
<1> HIDE DEF r
<1>4. TypeInv' /\ UNCHANGED rows
  BY <1>1, <1>2, <1>3, BeginType DEF IInv, Begin
<1>5. QED
  BY <1>4, ReadStep

\* create() of a credit note has checked the original invoice.
LEMMA CreateCreditNoteReadStep ==
    ASSUME IInv, NEW w \in Workers, NEW c \in CreditNotes,
           NEW total \in Amounts, NEW i \in Invoices \cup {None},
           CreateCreditNoteRead(w, c, total, i)
    PROVE  IInv'
<1> DEFINE r == CreditNoteRequest("createCreditNote", c, total, i)
<1>1. r \in Request
  BY AmountsPositive DEF Request, CreditNoteRequest
<1>2. WellFormed(r)
  BY DEF WellFormed, CreditNoteRequest
<1>3. Begin(w, r)
  BY DEF CreateCreditNoteRead
<1> HIDE DEF r
<1>4. TypeInv' /\ UNCHANGED rows
  BY <1>1, <1>2, <1>3, BeginType DEF IInv, Begin
<1>5. QED
  BY <1>4, ReadStep

\* update() of a credit note has checked the original invoice.
LEMMA UpdateCreditNoteReadStep ==
    ASSUME IInv, NEW w \in Workers, NEW c \in CreditNotes,
           NEW total \in Amounts, NEW i \in Invoices \cup {None},
           UpdateCreditNoteRead(w, c, total, i)
    PROVE  IInv'
<1> DEFINE r == CreditNoteRequest("updateCreditNote", c, total, i)
<1>1. r \in Request
  BY AmountsPositive DEF Request, CreditNoteRequest
<1>2. WellFormed(r)
  BY DEF WellFormed, CreditNoteRequest
<1>3. Begin(w, r)
  BY DEF UpdateCreditNoteRead
<1> HIDE DEF r
<1>4. TypeInv' /\ UNCHANGED rows
  BY <1>1, <1>2, <1>3, BeginType DEF IInv, Begin
<1>5. QED
  BY <1>4, ReadStep

\* finalize() of a credit note has read the total it will post.
LEMMA FinalizeCreditNoteReadStep ==
    ASSUME IInv, NEW w \in Workers, NEW c \in CreditNotes,
           FinalizeCreditNoteRead(w, c)
    PROVE  IInv'
<1> DEFINE r == CreditNoteRequest("finalizeCreditNote", c,
                             creditNote[c].total, creditNote[c].originalInvoice)
<1>1. r \in Request
  BY DEF Request, IInv, TypeInv, TypeOK, CreditNote, CreditNoteRequest
<1>2. WellFormed(r)
  BY DEF WellFormed, CreditNoteRequest
<1>3. Begin(w, r)
  BY DEF FinalizeCreditNoteRead
<1> HIDE DEF r
<1>4. TypeInv' /\ UNCHANGED rows
  BY <1>1, <1>2, <1>3, BeginType DEF IInv, Begin
<1>5. QED
  BY <1>4, ReadStep

\* remove() of a credit note has read a draft.
LEMMA RemoveCreditNoteReadStep ==
    ASSUME IInv, NEW w \in Workers, NEW c \in CreditNotes,
           RemoveCreditNoteRead(w, c)
    PROVE  IInv'
<1> DEFINE r == [op |-> "removeCreditNote", creditNote |-> c]
<1>1. r \in Request
  BY DEF Request
<1>2. WellFormed(r)
  BY DEF WellFormed
<1>3. Begin(w, r)
  BY DEF RemoveCreditNoteRead
<1> HIDE DEF r
<1>4. TypeInv' /\ UNCHANGED rows
  BY <1>1, <1>2, <1>3, BeginType DEF IInv, Begin
<1>5. QED
  BY <1>4, ReadStep
-----------------------------------------------------------------------------
(* The theorems. *)

\* Nothing is used, claimed or requested at first.
LEMMA InitInv == Init => IInv
<1> SUFFICES ASSUME Init
             PROVE  IInv
  OBVIOUS
<1>1. TypeOK
  BY DEF Init, TypeOK, Invoice, Payment, CreditNote, Allocation, CreditAllocation,
         Refund, Request, DocumentStatus
<1>2. Requests /\ References
  BY DEF Init, Requests, References, WellFormed, Idle
<1>3. InvoiceInv
  BY DEF Init, InvoiceInv, InvoiceLaw, PaidTo, AppliedTo, CreditedTo
<1>4. PaymentInv
  BY DEF Init, PaymentInv, PaymentLaw, SettledFrom, TransactionSettledFrom, RefundedFrom
<1>5. CreditNoteInv
  BY DEF Init, CreditNoteInv, CreditNoteLaw, CreditedFrom, RefundedFrom
<1>6. QED
  BY <1>1, <1>2, <1>3, <1>4, <1>5 DEF IInv, TypeInv

\* Every action keeps the invariant.
LEMMA StepInv == IInv /\ [Next]_vars => IInv'
<1> SUFFICES ASSUME IInv, [Next]_vars
             PROVE  IInv'
  OBVIOUS
<1>1. CASE InvoiceNext
  BY <1>1, InvoiceDraftStep, VoidInvoiceStep, FinalizeInvoiceReadStep,
     RemoveInvoiceReadStep, FinalizeInvoiceStep, RemoveInvoiceStep DEF InvoiceNext
<1>2. CASE PaymentNext
  BY <1>2, CreatePaymentReadStep, ApplyUnappliedReadStep, VoidPaymentReadStep,
     CreatePaymentStep, ApplyUnappliedStep, VoidPaymentStep, ReverseUnappliedStep
     DEF PaymentNext
<1>3. CASE CreditNoteNext
  BY <1>3, CreateCreditNoteReadStep, UpdateCreditNoteReadStep,
     FinalizeCreditNoteReadStep, RemoveCreditNoteReadStep, CreditNoteDraftStep,
     FinalizeCreditNoteStep, RemoveCreditNoteStep, VoidCreditNoteStep,
     ApplyCreditNoteStep, ReverseCreditStep DEF CreditNoteNext
<1>4. CASE RefundNext
  BY <1>4, CreateRefundFromPaymentStep, CreateRefundFromCreditNoteStep,
     VoidRefundOfPaymentStep, VoidRefundOfCreditNoteStep DEF RefundNext
<1>5. ASSUME NEW w \in Workers, Abort(w)
      PROVE  IInv'
  <2>1. UNCHANGED rows /\ Finish(w)
    BY <1>5 DEF Abort
  <2>2. TypeInv'
    BY <2>1, FinishType DEF IInv, TypeInv, TypeOK, References, rows
  <2>3. QED
    BY <2>1, <2>2, ReadStep
<1>6. CASE UNCHANGED vars
  <2>1. UNCHANGED rows /\ TypeInv'
    BY <1>6 DEF vars, rows, IInv, TypeInv, TypeOK, Requests, References
  <2>2. QED
    BY <2>1, ReadStep
<1>7. QED
  BY <1>1, <1>2, <1>3, <1>4, <1>5, <1>6 DEF Next

\* The invariant holds in every reachable state.
THEOREM Invariance == Spec => []IInv
<1>1. QED
  BY InitInv, StepInv, PTL DEF Spec

\* Balances, unapplied amounts and allocations stay natural numbers: no
\* interleaving of the claims takes more than there is.
THEOREM TypeCorrect == Spec => []TypeOK
<1>1. IInv => TypeOK
  BY DEF IInv, TypeInv
<1>2. QED
  BY <1>1, Invariance, PTL

\* A finalized invoice is due what it posted less what is applied to it.
THEOREM InvoicesConserve == Spec => []InvoiceConserved
<1>1. IInv => InvoiceConserved
  BY DEF IInv, InvoiceInv, InvoiceLaw, InvoiceConserved
<1>2. QED
  BY <1>1, Invariance, PTL

\* A posted payment is spent exactly once.
THEOREM PaymentsConserve == Spec => []PaymentConserved
<1>1. IInv => PaymentConserved
  BY DEF IInv, PaymentInv, PaymentLaw, PaymentConserved
<1>2. QED
  BY <1>1, Invariance, PTL

\* A finalized credit note is used exactly once.
THEOREM CreditNotesConserve == Spec => []CreditNoteConserved
<1>1. IInv => CreditNoteConserved
  BY DEF IInv, CreditNoteInv, CreditNoteLaw, CreditNoteConserved
<1>2. QED
  BY <1>1, Invariance, PTL

-----------------------------------------------------------------------------
(* What a step does to the rows, row by row.  The theorems below follow from *)
(* these changes and never look at an action again.                          *)

OnlyInvoice(i) == \A j \in Invoices \ {i} : invoice'[j] = invoice[j]
OnlyPayment(p) == \A q \in Payments \ {p} : payment'[q] = payment[q]
OnlyCreditNote(c) == \A d \in CreditNotes \ {c} : creditNote'[d] = creditNote[d]
OnlyAllocation(u) == \A v \in Allocations \ {u} : allocation'[v] = allocation[v]
OnlyCredit(k) ==
    \A l \in CreditAllocations \ {k} : creditAllocation'[l] = creditAllocation[l]
OnlyRefund(r) == \A q \in Refunds \ {r} : refund'[q] = refund[q]

\* The balance of invoice i becomes due, and nothing else of it changes.
InvoiceDue(i, due) ==
    /\ invoice'[i].status = invoice[i].status
    /\ invoice'[i].total = invoice[i].total
    /\ invoice'[i].posted = invoice[i].posted
    /\ invoice'[i].balanceDue = due

\* The unapplied amount of payment p becomes open.
PaymentOpen(p, open) ==
    /\ payment'[p].status = payment[p].status
    /\ payment'[p].amountReceived = payment[p].amountReceived
    /\ payment'[p].allocations = payment[p].allocations
    /\ payment'[p].unappliedAmount = open

\* The unapplied amount of credit note c becomes open.
CreditNoteOpen(c, open) ==
    /\ creditNote'[c].status = creditNote[c].status
    /\ creditNote'[c].posted = creditNote[c].posted
    /\ creditNote'[c].unappliedAmount = open

InvoiceDrafted(i) ==
    /\ invoice[i].status \in {"NONE", "DRAFT"}
    /\ invoice'[i].status = "DRAFT"
    /\ invoice'[i].posted \in {0, invoice[i].posted}
    /\ OnlyInvoice(i)
    /\ UNCHANGED <<payment, creditNote, allocation, creditAllocation, refund,
                   receivable>>

InvoiceFinalized(i) ==
    /\ invoice[i].status = "DRAFT"
    /\ invoice'[i].status = "FINALIZED"
    /\ invoice'[i].balanceDue = invoice'[i].posted
    /\ OnlyInvoice(i)
    /\ receivable' = receivable + invoice'[i].posted
    /\ UNCHANGED <<payment, creditNote, allocation, creditAllocation, refund>>

InvoiceVoided(i) ==
    /\ invoice[i].status \in {"DRAFT", "FINALIZED"}
    /\ invoice[i].status = "FINALIZED" => ~HasActiveApplications(i)
    /\ invoice'[i].status = "VOIDED"
    /\ invoice'[i].posted = 0
    /\ invoice'[i].total = invoice[i].total
    /\ OnlyInvoice(i)
    /\ receivable' = receivable - invoice[i].posted
    /\ UNCHANGED <<payment, creditNote, allocation, creditAllocation, refund>>

InvoiceRemoved(i) ==
    /\ invoice[i].status # "DELETED"
    /\ ~Referenced(i)
    /\ invoice'[i].status = "DELETED"
    /\ invoice'[i].total = invoice[i].total
    /\ invoice'[i].posted = invoice[i].posted
    /\ invoice'[i].balanceDue = invoice[i].balanceDue
    /\ OnlyInvoice(i)
    /\ \A c \in CreditNotes : CreditNoteOpen(c, creditNote[c].unappliedAmount)
    /\ UNCHANGED <<payment, allocation, creditAllocation, refund, receivable>>

PaymentCreated(p) ==
    LET received == payment'[p].amountReceived
        allocs == payment'[p].allocations
    IN  /\ payment[p].status = "NONE"
        /\ payment'[p].status = "POSTED"
        /\ payment'[p].unappliedAmount + Total(Invoices, allocs) = received
        /\ OnlyPayment(p)
        /\ \A i \in Invoices :
             /\ InvoiceDue(i, invoice[i].balanceDue - allocs[i])
             /\ allocs[i] > 0 => invoice[i].status = "FINALIZED"
        /\ receivable' = receivable - received
        /\ UNCHANGED <<creditNote, allocation, creditAllocation, refund>>

PaymentVoided(p) ==
    /\ payment[p].status = "POSTED"
    /\ payment'[p].status = "VOIDED"
    /\ payment'[p].allocations = payment[p].allocations
    /\ OnlyPayment(p)
    /\ \A i \in Invoices :
         /\ InvoiceDue(i, invoice[i].balanceDue + payment[p].allocations[i])
         /\ payment[p].allocations[i] > 0 => invoice[i].status = "FINALIZED"
    /\ receivable' = receivable + payment[p].amountReceived
    /\ UNCHANGED <<creditNote, allocation, creditAllocation, refund>>

AllocationApplied(u) ==
    LET p == allocation'[u].payment
        i == allocation'[u].invoice
        settlement == allocation'[u].settlementBaseAmount
        source == allocation'[u].sourceBaseAmount
    IN  /\ allocation[u].status = "NONE"
        /\ allocation'[u].status = "ACTIVE"
        /\ p \in Payments /\ payment[p].status = "POSTED"
        /\ i \in Invoices /\ invoice[i].status = "FINALIZED"
        /\ OnlyAllocation(u) /\ OnlyPayment(p) /\ OnlyInvoice(i)
        /\ PaymentOpen(p, payment[p].unappliedAmount - settlement)
        /\ InvoiceDue(i, invoice[i].balanceDue - source)
        /\ receivable' = receivable + settlement - source
        /\ UNCHANGED <<creditNote, creditAllocation, refund>>

AllocationReversed(u) ==
    LET p == allocation[u].payment
        i == allocation[u].invoice
        settlement == allocation[u].settlementBaseAmount
        source == allocation[u].sourceBaseAmount
    IN  /\ allocation[u].status = "ACTIVE"
        /\ allocation'[u].status = "REVERSED"
        /\ p \in Payments /\ payment[p].status = "POSTED"
        /\ i \in Invoices /\ invoice[i].status = "FINALIZED"
        /\ OnlyAllocation(u) /\ OnlyPayment(p) /\ OnlyInvoice(i)
        /\ PaymentOpen(p, payment[p].unappliedAmount + settlement)
        /\ InvoiceDue(i, invoice[i].balanceDue + source)
        /\ receivable' = receivable - settlement + source
        /\ UNCHANGED <<creditNote, creditAllocation, refund>>

CreditNoteDrafted(c) ==
    /\ creditNote[c].status \in {"NONE", "DRAFT"}
    /\ creditNote'[c].status = "DRAFT"
    /\ creditNote'[c].posted \in {0, creditNote[c].posted}
    /\ OnlyCreditNote(c)
    /\ UNCHANGED <<invoice, payment, allocation, creditAllocation, refund,
                   receivable>>

CreditNoteFinalized(c) ==
    /\ creditNote[c].status = "DRAFT"
    /\ creditNote'[c].status = "FINALIZED"
    /\ creditNote'[c].unappliedAmount = creditNote'[c].posted
    /\ OnlyCreditNote(c)
    /\ receivable' = receivable - creditNote'[c].posted
    /\ UNCHANGED <<invoice, payment, allocation, creditAllocation, refund>>

CreditNoteVoided(c) ==
    /\ creditNote[c].status \in {"DRAFT", "FINALIZED"}
    /\ creditNote[c].status = "FINALIZED" => ~HasActiveUses(c)
    /\ creditNote'[c].status = "VOIDED"
    /\ creditNote'[c].posted = 0
    /\ OnlyCreditNote(c)
    /\ receivable' = receivable + creditNote[c].posted
    /\ UNCHANGED <<invoice, payment, allocation, creditAllocation, refund>>

\* Its active allocations go with a credit note.
CreditNoteRemoved(c) ==
    /\ creditNote[c].status # "DELETED"
    /\ creditNote'[c].status = "DELETED"
    /\ creditNote'[c].posted = creditNote[c].posted
    /\ creditNote'[c].unappliedAmount = creditNote[c].unappliedAmount
    /\ OnlyCreditNote(c)
    /\ \A k \in CreditAllocations :
         \/ /\ creditAllocation[k].creditNote # c \/ creditAllocation[k].status # "ACTIVE"
            /\ creditAllocation'[k] = creditAllocation[k]
         \/ /\ creditAllocation[k].creditNote = c
            /\ creditAllocation[k].status = "ACTIVE"
            /\ creditAllocation'[k].status = "CASCADED"
            /\ creditAllocation'[k].creditNote = creditAllocation[k].creditNote
            /\ creditAllocation'[k].invoice = creditAllocation[k].invoice
            /\ creditAllocation'[k].amount = creditAllocation[k].amount
    /\ UNCHANGED <<invoice, payment, allocation, refund, receivable>>

CreditApplied(k) ==
    LET c == creditAllocation'[k].creditNote
        i == creditAllocation'[k].invoice
        amount == creditAllocation'[k].amount
    IN  /\ creditAllocation[k].status = "NONE"
        /\ creditAllocation'[k].status = "ACTIVE"
        /\ c \in CreditNotes /\ creditNote[c].status = "FINALIZED"
        /\ i \in Invoices /\ invoice[i].status = "FINALIZED"
        /\ OnlyCredit(k) /\ OnlyCreditNote(c) /\ OnlyInvoice(i)
        /\ CreditNoteOpen(c, creditNote[c].unappliedAmount - amount)
        /\ InvoiceDue(i, invoice[i].balanceDue - amount)
        /\ UNCHANGED <<payment, allocation, refund, receivable>>

CreditReversed(k) ==
    LET c == creditAllocation[k].creditNote
        i == creditAllocation[k].invoice
        amount == creditAllocation[k].amount
    IN  /\ creditAllocation[k].status = "ACTIVE"
        /\ creditAllocation'[k].status = "REVERSED"
        /\ c \in CreditNotes /\ creditNote[c].status = "FINALIZED"
        /\ i \in Invoices /\ invoice[i].status = "FINALIZED"
        /\ OnlyCredit(k) /\ OnlyCreditNote(c) /\ OnlyInvoice(i)
        /\ CreditNoteOpen(c, creditNote[c].unappliedAmount + amount)
        /\ InvoiceDue(i, invoice[i].balanceDue + amount)
        /\ UNCHANGED <<payment, allocation, refund, receivable>>

PaymentRefunded(r) ==
    LET p == refund'[r].source
        amount == refund'[r].amount
    IN  /\ refund[r].status = "NONE" /\ refund'[r].status = "POSTED"
        /\ p \in Payments /\ payment[p].status = "POSTED"
        /\ OnlyRefund(r) /\ OnlyPayment(p)
        /\ PaymentOpen(p, payment[p].unappliedAmount - amount)
        /\ receivable' = receivable + amount
        /\ UNCHANGED <<invoice, creditNote, allocation, creditAllocation>>

CreditNoteRefunded(r) ==
    LET c == refund'[r].source
        amount == refund'[r].amount
    IN  /\ refund[r].status = "NONE" /\ refund'[r].status = "POSTED"
        /\ c \in CreditNotes /\ creditNote[c].status = "FINALIZED"
        /\ OnlyRefund(r) /\ OnlyCreditNote(c)
        /\ CreditNoteOpen(c, creditNote[c].unappliedAmount - amount)
        /\ receivable' = receivable + amount
        /\ UNCHANGED <<invoice, payment, allocation, creditAllocation>>

PaymentRefundVoided(r) ==
    LET p == refund[r].source
        amount == refund[r].amount
    IN  /\ refund[r].status = "POSTED" /\ refund'[r].status = "VOIDED"
        /\ p \in Payments /\ payment[p].status = "POSTED"
        /\ OnlyRefund(r) /\ OnlyPayment(p)
        /\ PaymentOpen(p, payment[p].unappliedAmount + amount)
        /\ receivable' = receivable - amount
        /\ UNCHANGED <<invoice, creditNote, allocation, creditAllocation>>

CreditNoteRefundVoided(r) ==
    LET c == refund[r].source
        amount == refund[r].amount
    IN  /\ refund[r].status = "POSTED" /\ refund'[r].status = "VOIDED"
        /\ c \in CreditNotes /\ creditNote[c].status = "FINALIZED"
        /\ OnlyRefund(r) /\ OnlyCreditNote(c)
        /\ CreditNoteOpen(c, creditNote[c].unappliedAmount + amount)
        /\ receivable' = receivable - amount
        /\ UNCHANGED <<invoice, payment, allocation, creditAllocation>>

\* Every step changes the rows in one of these ways, or not at all.
RowChange ==
    \/ UNCHANGED rows
    \/ \E i \in Invoices : \/ InvoiceDrafted(i) \/ InvoiceFinalized(i)
                           \/ InvoiceVoided(i) \/ InvoiceRemoved(i)
    \/ \E p \in Payments : PaymentCreated(p) \/ PaymentVoided(p)
    \/ \E u \in Allocations : AllocationApplied(u) \/ AllocationReversed(u)
    \/ \E c \in CreditNotes : \/ CreditNoteDrafted(c) \/ CreditNoteFinalized(c)
                              \/ CreditNoteVoided(c) \/ CreditNoteRemoved(c)
    \/ \E k \in CreditAllocations : CreditApplied(k) \/ CreditReversed(k)
    \/ \E r \in Refunds : \/ PaymentRefunded(r) \/ CreditNoteRefunded(r)
                          \/ PaymentRefundVoided(r) \/ CreditNoteRefundVoided(r)

\* Drafts of invoices.
LEMMA InvoiceDraftChange ==
    ASSUME TypeInv, NEW i \in Invoices, NEW total \in Amounts,
           CreateInvoice(i, total) \/ UpdateInvoice(i, total)
    PROVE  InvoiceDrafted(i)
<1>1. invoice \in [Invoices -> Invoice]
  BY DEF TypeInv, TypeOK
<1>2. CASE CreateInvoice(i, total)
  BY <1>1, <1>2 DEF CreateInvoice, InvoiceDrafted, OnlyInvoice
<1>3. CASE UpdateInvoice(i, total)
  <2>1. /\ invoice[i].status = "DRAFT"
        /\ invoice'[i].status = "DRAFT" /\ invoice'[i].posted = invoice[i].posted
        /\ \A j \in Invoices \ {i} : invoice'[j] = invoice[j]
    BY <1>1, <1>3 DEF UpdateInvoice, Invoice
  <2>2. QED
    BY <1>3, <2>1 DEF UpdateInvoice, InvoiceDrafted, OnlyInvoice
<1>4. QED
  BY <1>2, <1>3

\* The claim of finalize.
LEMMA FinalizeInvoiceChange ==
    ASSUME TypeInv, NEW w \in Workers, FinalizeInvoiceCommit(w)
    PROVE  \E i \in Invoices : InvoiceFinalized(i)
<1> DEFINE i == request[w].invoice
           total == request[w].total
<1>1. i \in Invoices /\ total \in Nat
  BY RequestTypes DEF FinalizeInvoiceCommit
<1>2. /\ invoice[i].status = "DRAFT"
      /\ invoice' = [invoice EXCEPT ![i].status = "FINALIZED",
                                    ![i].balanceDue = total,
                                    ![i].transactionBalanceDue = total,
                                    ![i].posted = total]
      /\ receivable' = receivable + total
      /\ UNCHANGED <<payment, creditNote, allocation, creditAllocation, refund>>
  BY DEF FinalizeInvoiceCommit, FinalizeClaim
<1>3. invoice \in [Invoices -> Invoice]
  BY DEF TypeInv, TypeOK
<1> HIDE DEF i, total
<1>4. /\ invoice'[i].status = "FINALIZED"
      /\ invoice'[i].balanceDue = total /\ invoice'[i].posted = total
      /\ \A j \in Invoices \ {i} : invoice'[j] = invoice[j]
  BY <1>1, <1>2, <1>3 DEF Invoice
<1>5. InvoiceFinalized(i)
  BY <1>2, <1>4 DEF InvoiceFinalized, OnlyInvoice
<1>6. QED
  BY <1>1, <1>5

\* void() of an invoice.
LEMMA VoidInvoiceChange ==
    ASSUME TypeInv, NEW i \in Invoices, VoidInvoice(i)
    PROVE  InvoiceVoided(i)
<1>1. invoice \in [Invoices -> Invoice]
  BY DEF TypeInv, TypeOK
<1>2. /\ invoice'[i].status = "VOIDED" /\ invoice'[i].posted = 0
      /\ invoice'[i].total = invoice[i].total
      /\ \A j \in Invoices \ {i} : invoice'[j] = invoice[j]
  BY <1>1 DEF VoidInvoice, Invoice
<1>3. QED
  BY <1>2 DEF VoidInvoice, InvoiceVoided, OnlyInvoice

\* remove() of an invoice.
LEMMA RemoveInvoiceChange ==
    ASSUME TypeInv, NEW w \in Workers, RemoveInvoiceCommit(w)
    PROVE  \E i \in Invoices : InvoiceRemoved(i)
<1> DEFINE i == request[w].invoice
<1>1. i \in Invoices
  BY RequestTypes DEF RemoveInvoiceCommit
<1>2. /\ invoice[i].status # "DELETED" /\ ~Referenced(i)
      /\ invoice' = [invoice EXCEPT ![i].status = "DELETED"]
      /\ creditNote' = [c \in CreditNotes |->
           IF creditNote[c].originalInvoice = i
           THEN [creditNote[c] EXCEPT !.originalInvoice = None]
           ELSE creditNote[c]]
      /\ UNCHANGED <<payment, allocation, creditAllocation, refund, receivable>>
  BY DEF RemoveInvoiceCommit
<1>3. invoice \in [Invoices -> Invoice] /\ creditNote \in [CreditNotes -> CreditNote]
  BY DEF TypeInv, TypeOK
<1> HIDE DEF i
<1>4. /\ invoice'[i].status = "DELETED" /\ invoice'[i].total = invoice[i].total
      /\ invoice'[i].posted = invoice[i].posted
      /\ invoice'[i].balanceDue = invoice[i].balanceDue
      /\ \A j \in Invoices \ {i} : invoice'[j] = invoice[j]
  BY <1>1, <1>2, <1>3 DEF Invoice
<1>5. \A c \in CreditNotes : CreditNoteOpen(c, creditNote[c].unappliedAmount)
  BY <1>2, <1>3 DEF CreditNote, CreditNoteOpen
<1>6. InvoiceRemoved(i)
  BY <1>2, <1>4, <1>5 DEF InvoiceRemoved, OnlyInvoice
<1>7. QED
  BY <1>1, <1>6

\* A payment with its claims.
LEMMA CreatePaymentChange ==
    ASSUME TypeInv, NEW w \in Workers, CreatePaymentCommit(w)
    PROVE  \E p \in Payments : PaymentCreated(p)
<1> DEFINE p == request[w].payment
           received == request[w].amountReceived
           allocs == request[w].allocations
           unapplied == received - Total(Invoices, allocs)
<1>1. p \in Payments /\ received \in Nat /\ allocs \in [Invoices -> Nat]
  BY RequestTypes DEF CreatePaymentCommit
<1>2. Total(Invoices, allocs) \in Nat
  BY <1>1, TotalType, FiniteRows
<1>3. /\ payment[p].status = "NONE"
      /\ \A i \in Invoices : allocs[i] > 0 => InvoiceClaim(i, allocs[i], allocs[i])
      /\ invoice' = [i \in Invoices |->
           [invoice[i] EXCEPT !.balanceDue = @ - allocs[i],
                              !.transactionBalanceDue = @ - allocs[i]]]
      /\ payment' = [payment EXCEPT ![p] =
           [status |-> "POSTED", amountReceived |-> received,
            unappliedAmount |-> unapplied,
            transactionUnappliedAmount |-> unapplied, allocations |-> allocs]]
      /\ receivable' = receivable - received
      /\ UNCHANGED <<creditNote, allocation, creditAllocation, refund>>
  BY DEF CreatePaymentCommit
<1>4. invoice \in [Invoices -> Invoice] /\ payment \in [Payments -> Payment]
  BY DEF TypeInv, TypeOK
<1>5. unapplied + Total(Invoices, allocs) = received
  <2> HIDE DEF allocs, received
  <2>1. QED
    BY <1>1, <1>2
<1> HIDE DEF p, received, allocs, unapplied
<1>6. /\ payment'[p].status = "POSTED" /\ payment'[p].amountReceived = received
      /\ payment'[p].unappliedAmount = unapplied /\ payment'[p].allocations = allocs
      /\ \A q \in Payments \ {p} : payment'[q] = payment[q]
  BY <1>1, <1>3, <1>4
<1>7. \A i \in Invoices :
        /\ InvoiceDue(i, invoice[i].balanceDue - allocs[i])
        /\ allocs[i] > 0 => invoice[i].status = "FINALIZED"
  BY <1>3, <1>4 DEF Invoice, InvoiceDue, InvoiceClaim
<1>8. PaymentCreated(p)
  BY <1>3, <1>5, <1>6, <1>7 DEF PaymentCreated, OnlyPayment
<1>9. QED
  BY <1>1, <1>8

\* void() of a payment.
LEMMA VoidPaymentChange ==
    ASSUME TypeInv, NEW w \in Workers, VoidPaymentCommit(w)
    PROVE  \E p \in Payments : PaymentVoided(p)
<1> DEFINE p == request[w].payment
<1>1. p \in Payments
  BY RequestTypes DEF VoidPaymentCommit
<1>2. /\ payment[p].status = "POSTED"
      /\ \A i \in Invoices :
           payment[p].allocations[i] > 0 => invoice[i].status = "FINALIZED"
      /\ payment' = [payment EXCEPT ![p].status = "VOIDED"]
      /\ invoice' = [i \in Invoices |->
           [invoice[i] EXCEPT
              !.balanceDue = @ + payment[p].allocations[i],
              !.transactionBalanceDue = @ + payment[p].allocations[i]]]
      /\ receivable' = receivable + payment[p].amountReceived
      /\ UNCHANGED <<creditNote, allocation, creditAllocation, refund>>
  BY DEF VoidPaymentCommit
<1>3. invoice \in [Invoices -> Invoice] /\ payment \in [Payments -> Payment]
  BY DEF TypeInv, TypeOK
<1> HIDE DEF p
<1>4. /\ payment'[p].status = "VOIDED"
      /\ payment'[p].allocations = payment[p].allocations
      /\ \A q \in Payments \ {p} : payment'[q] = payment[q]
  BY <1>1, <1>2, <1>3 DEF Payment
<1>5. \A i \in Invoices :
        InvoiceDue(i, invoice[i].balanceDue + payment[p].allocations[i])
  BY <1>2, <1>3 DEF Invoice, InvoiceDue
<1>6. PaymentVoided(p)
  BY <1>2, <1>4, <1>5 DEF PaymentVoided, OnlyPayment
<1>7. QED
  BY <1>1, <1>6

\* A later allocation with its claims.
LEMMA ApplyUnappliedChange ==
    ASSUME TypeInv, NEW w \in Workers, ApplyUnappliedCommit(w)
    PROVE  \E u \in Allocations : AllocationApplied(u)
<1> DEFINE u == request[w].allocation
           a == request[w].row
<1>1. /\ u \in Allocations /\ a \in Allocation /\ a.status = "ACTIVE"
      /\ a.payment \in Payments /\ a.invoice \in Invoices
  BY RequestTypes DEF ApplyUnappliedCommit
<1>2. /\ allocation[u].status = "NONE"
      /\ PaymentClaim(a.payment, a.settlementBaseAmount, a.transactionAmount)
      /\ InvoiceClaim(a.invoice, a.sourceBaseAmount, a.transactionAmount)
      /\ payment' = [payment EXCEPT
           ![a.payment].unappliedAmount = @ - a.settlementBaseAmount,
           ![a.payment].transactionUnappliedAmount = @ - a.transactionAmount]
      /\ invoice' = [invoice EXCEPT
           ![a.invoice].balanceDue = @ - a.sourceBaseAmount,
           ![a.invoice].transactionBalanceDue = @ - a.transactionAmount]
      /\ allocation' = [allocation EXCEPT ![u] = a]
      /\ receivable' = receivable + a.settlementBaseAmount - a.sourceBaseAmount
      /\ UNCHANGED <<creditNote, creditAllocation, refund>>
  BY DEF ApplyUnappliedCommit
<1>3. /\ invoice \in [Invoices -> Invoice] /\ payment \in [Payments -> Payment]
      /\ allocation \in [Allocations -> Allocation]
  BY DEF TypeInv, TypeOK
<1> HIDE DEF u, a
<1>4. /\ PaymentOpen(a.payment, payment[a.payment].unappliedAmount - a.settlementBaseAmount)
      /\ OnlyPayment(a.payment)
  BY <1>1, <1>2, <1>3 DEF Payment, PaymentOpen, OnlyPayment
<1>5. /\ InvoiceDue(a.invoice, invoice[a.invoice].balanceDue - a.sourceBaseAmount)
      /\ OnlyInvoice(a.invoice)
  BY <1>1, <1>2, <1>3 DEF Invoice, InvoiceDue, OnlyInvoice
<1>6. allocation'[u] = a /\ OnlyAllocation(u)
  BY <1>1, <1>2, <1>3 DEF OnlyAllocation
<1>7. payment[a.payment].status = "POSTED" /\ invoice[a.invoice].status = "FINALIZED"
  BY <1>2 DEF PaymentClaim, InvoiceClaim
<1>8. AllocationApplied(u)
  BY <1>1, <1>2, <1>4, <1>5, <1>6, <1>7 DEF AllocationApplied
<1>9. QED
  BY <1>1, <1>8

\* The reversal of a later allocation.
LEMMA ReverseUnappliedChange ==
    ASSUME TypeInv, NEW u \in Allocations, ReverseUnappliedAllocation(u)
    PROVE  AllocationReversed(u)
<1> DEFINE a == allocation[u]
<1>1. /\ a.status = "ACTIVE"
      /\ payment[a.payment].status = "POSTED"
      /\ invoice[a.invoice].status = "FINALIZED"
      /\ allocation' = [allocation EXCEPT ![u].status = "REVERSED"]
      /\ payment' = [payment EXCEPT
           ![a.payment].unappliedAmount = @ + a.settlementBaseAmount,
           ![a.payment].transactionUnappliedAmount = @ + a.transactionAmount]
      /\ invoice' = [invoice EXCEPT
           ![a.invoice].balanceDue = @ + a.sourceBaseAmount,
           ![a.invoice].transactionBalanceDue = @ + a.transactionAmount]
      /\ receivable' = receivable - (a.settlementBaseAmount - a.sourceBaseAmount)
      /\ UNCHANGED <<creditNote, creditAllocation, refund>>
  BY DEF ReverseUnappliedAllocation
<1>2. /\ invoice \in [Invoices -> Invoice] /\ payment \in [Payments -> Payment]
      /\ allocation \in [Allocations -> Allocation] /\ receivable \in Int
  BY DEF TypeInv, TypeOK
<1>3. /\ a.payment \in Payments /\ a.invoice \in Invoices
      /\ a.settlementBaseAmount \in Nat /\ a.sourceBaseAmount \in Nat
  BY <1>1, <1>2 DEF TypeInv, References, Allocation
<1>4. allocation'[u].status = "REVERSED" /\ OnlyAllocation(u)
  BY <1>1, <1>2 DEF Allocation, OnlyAllocation
<1> HIDE DEF a
<1>5. /\ PaymentOpen(a.payment, payment[a.payment].unappliedAmount + a.settlementBaseAmount)
      /\ OnlyPayment(a.payment)
  BY <1>1, <1>2, <1>3 DEF Payment, PaymentOpen, OnlyPayment
<1>6. /\ InvoiceDue(a.invoice, invoice[a.invoice].balanceDue + a.sourceBaseAmount)
      /\ OnlyInvoice(a.invoice)
  BY <1>1, <1>2, <1>3 DEF Invoice, InvoiceDue, OnlyInvoice
<1>7. receivable' = receivable - a.settlementBaseAmount + a.sourceBaseAmount
  BY <1>1, <1>2, <1>3
<1>8. QED
  BY <1>1, <1>3, <1>4, <1>5, <1>6, <1>7 DEF AllocationReversed, a

\* Drafts of credit notes.
LEMMA CreditNoteDraftChange ==
    ASSUME TypeInv, NEW w \in Workers,
           CreateCreditNoteCommit(w) \/ UpdateCreditNoteCommit(w)
    PROVE  \E c \in CreditNotes : CreditNoteDrafted(c)
<1> DEFINE r == request[w]
           c == r.creditNote
<1>1. creditNote \in [CreditNotes -> CreditNote]
  BY DEF TypeInv, TypeOK
<1>2. c \in CreditNotes
  BY RequestTypes DEF CreateCreditNoteCommit, UpdateCreditNoteCommit
<1>3. CASE CreateCreditNoteCommit(w)
  <2>1. /\ creditNote[c].status = "NONE"
        /\ creditNote' = [creditNote EXCEPT ![c] =
             [status |-> "DRAFT", total |-> r.total, unappliedAmount |-> r.total,
              posted |-> 0, originalInvoice |-> r.originalInvoice]]
        /\ UNCHANGED <<invoice, payment, allocation, creditAllocation, refund,
                       receivable>>
    BY <1>3 DEF CreateCreditNoteCommit
  <2> HIDE DEF c, r
  <2>2. CreditNoteDrafted(c)
    BY <1>1, <1>2, <2>1 DEF CreditNoteDrafted, OnlyCreditNote
  <2>3. QED
    BY <1>2, <2>2
<1>4. CASE UpdateCreditNoteCommit(w)
  <2>1. /\ creditNote[c].status = "DRAFT"
        /\ creditNote' = [creditNote EXCEPT
             ![c].total = r.total,
             ![c].unappliedAmount = r.total,
             ![c].originalInvoice = r.originalInvoice]
        /\ UNCHANGED <<invoice, payment, allocation, creditAllocation, refund,
                       receivable>>
    BY <1>4 DEF UpdateCreditNoteCommit
  <2> HIDE DEF c, r
  <2>2. /\ creditNote'[c].status = "DRAFT" /\ creditNote'[c].posted = creditNote[c].posted
        /\ \A d \in CreditNotes \ {c} : creditNote'[d] = creditNote[d]
    BY <1>1, <1>2, <2>1 DEF CreditNote
  <2>3. CreditNoteDrafted(c)
    BY <2>1, <2>2 DEF CreditNoteDrafted, OnlyCreditNote
  <2>4. QED
    BY <1>2, <2>3
<1>5. QED
  BY <1>3, <1>4

\* The claim of finalize.
LEMMA FinalizeCreditNoteChange ==
    ASSUME TypeInv, NEW w \in Workers, FinalizeCreditNoteCommit(w)
    PROVE  \E c \in CreditNotes : CreditNoteFinalized(c)
<1> DEFINE c == request[w].creditNote
           total == request[w].total
<1>1. c \in CreditNotes /\ total \in Nat
  BY RequestTypes DEF FinalizeCreditNoteCommit
<1>2. /\ creditNote[c].status = "DRAFT"
      /\ creditNote' = [creditNote EXCEPT ![c].status = "FINALIZED",
                                          ![c].unappliedAmount = total,
                                          ![c].posted = total]
      /\ receivable' = receivable - total
      /\ UNCHANGED <<invoice, payment, allocation, creditAllocation, refund>>
  BY DEF FinalizeCreditNoteCommit
<1>3. creditNote \in [CreditNotes -> CreditNote]
  BY DEF TypeInv, TypeOK
<1> HIDE DEF c, total
<1>4. /\ creditNote'[c].status = "FINALIZED"
      /\ creditNote'[c].unappliedAmount = total /\ creditNote'[c].posted = total
      /\ \A d \in CreditNotes \ {c} : creditNote'[d] = creditNote[d]
  BY <1>1, <1>2, <1>3 DEF CreditNote
<1>5. CreditNoteFinalized(c)
  BY <1>2, <1>4 DEF CreditNoteFinalized, OnlyCreditNote
<1>6. QED
  BY <1>1, <1>5

\* void() of a credit note.
LEMMA VoidCreditNoteChange ==
    ASSUME TypeInv, NEW c \in CreditNotes, VoidCreditNote(c)
    PROVE  CreditNoteVoided(c)
<1>1. creditNote \in [CreditNotes -> CreditNote]
  BY DEF TypeInv, TypeOK
<1>2. /\ creditNote'[c].status = "VOIDED" /\ creditNote'[c].posted = 0
      /\ \A d \in CreditNotes \ {c} : creditNote'[d] = creditNote[d]
  BY <1>1 DEF VoidCreditNote, CreditNote
<1>3. QED
  BY <1>2 DEF VoidCreditNote, CreditNoteVoided, OnlyCreditNote

\* remove() of a credit note, with the allocations that go with it.
LEMMA RemoveCreditNoteChange ==
    ASSUME TypeInv, NEW w \in Workers, RemoveCreditNoteCommit(w)
    PROVE  \E c \in CreditNotes : CreditNoteRemoved(c)
<1> DEFINE c == request[w].creditNote
<1>1. c \in CreditNotes
  BY RequestTypes DEF RemoveCreditNoteCommit
<1>2. /\ creditNote[c].status # "DELETED"
      /\ creditNote' = [creditNote EXCEPT ![c].status = "DELETED"]
      /\ creditAllocation' = [k \in CreditAllocations |->
           IF creditAllocation[k].creditNote = c /\ creditAllocation[k].status = "ACTIVE"
           THEN [creditAllocation[k] EXCEPT !.status = "CASCADED"]
           ELSE creditAllocation[k]]
      /\ UNCHANGED <<invoice, payment, allocation, refund, receivable>>
  BY DEF RemoveCreditNoteCommit
<1>3. /\ creditNote \in [CreditNotes -> CreditNote]
      /\ creditAllocation \in [CreditAllocations -> CreditAllocation]
  BY DEF TypeInv, TypeOK
<1> HIDE DEF c
<1>4. /\ creditNote'[c].status = "DELETED" /\ creditNote'[c].posted = creditNote[c].posted
      /\ creditNote'[c].unappliedAmount = creditNote[c].unappliedAmount
      /\ \A d \in CreditNotes \ {c} : creditNote'[d] = creditNote[d]
  BY <1>1, <1>2, <1>3 DEF CreditNote
<1>5. ASSUME NEW k \in CreditAllocations
      PROVE  \/ /\ creditAllocation[k].creditNote # c \/ creditAllocation[k].status # "ACTIVE"
                /\ creditAllocation'[k] = creditAllocation[k]
             \/ /\ creditAllocation[k].creditNote = c
                /\ creditAllocation[k].status = "ACTIVE"
                /\ creditAllocation'[k].status = "CASCADED"
                /\ creditAllocation'[k].creditNote = creditAllocation[k].creditNote
                /\ creditAllocation'[k].invoice = creditAllocation[k].invoice
                /\ creditAllocation'[k].amount = creditAllocation[k].amount
  <2>1. CASE creditAllocation[k].creditNote = c /\ creditAllocation[k].status = "ACTIVE"
    <3>1. /\ creditAllocation[k] \in CreditAllocation
          /\ creditAllocation'[k] = [creditAllocation[k] EXCEPT !.status = "CASCADED"]
      BY <1>2, <1>3, <2>1
    <3>2. QED
      BY <2>1, <3>1 DEF CreditAllocation
  <2>2. CASE ~(creditAllocation[k].creditNote = c /\ creditAllocation[k].status = "ACTIVE")
    BY <1>2, <2>2
  <2>3. QED
    BY <2>1, <2>2
<1>6. CreditNoteRemoved(c)
  BY <1>2, <1>4, <1>5 DEF CreditNoteRemoved, OnlyCreditNote
<1>7. QED
  BY <1>1, <1>6

\* A credit allocation with its claims.
LEMMA ApplyCreditNoteChange ==
    ASSUME TypeInv, NEW k \in CreditAllocations, NEW c \in CreditNotes,
           NEW i \in Invoices, NEW amount \in Amounts, ApplyCreditNote(k, c, i, amount)
    PROVE  CreditApplied(k)
<1>1. /\ invoice \in [Invoices -> Invoice] /\ creditNote \in [CreditNotes -> CreditNote]
      /\ creditAllocation \in [CreditAllocations -> CreditAllocation]
  BY DEF TypeInv, TypeOK
<1>2. CreditNoteOpen(c, creditNote[c].unappliedAmount - amount) /\ OnlyCreditNote(c)
  BY <1>1 DEF ApplyCreditNote, CreditNote, CreditNoteOpen, OnlyCreditNote
<1>3. InvoiceDue(i, invoice[i].balanceDue - amount) /\ OnlyInvoice(i)
  BY <1>1 DEF ApplyCreditNote, Invoice, InvoiceDue, OnlyInvoice
<1>4. /\ creditAllocation'[k].status = "ACTIVE" /\ creditAllocation'[k].creditNote = c
      /\ creditAllocation'[k].invoice = i /\ creditAllocation'[k].amount = amount
      /\ OnlyCredit(k)
  BY <1>1 DEF ApplyCreditNote, OnlyCredit
<1>5. QED
  BY <1>2, <1>3, <1>4 DEF ApplyCreditNote, CreditApplied

\* The reversal of a credit allocation.
LEMMA ReverseCreditChange ==
    ASSUME TypeInv, NEW k \in CreditAllocations, ReverseCreditAllocation(k)
    PROVE  CreditReversed(k)
<1> DEFINE c == creditAllocation[k].creditNote
           i == creditAllocation[k].invoice
           amount == creditAllocation[k].amount
<1>1. /\ invoice \in [Invoices -> Invoice] /\ creditNote \in [CreditNotes -> CreditNote]
      /\ creditAllocation \in [CreditAllocations -> CreditAllocation]
  BY DEF TypeInv, TypeOK
<1>2. /\ creditAllocation[k].status = "ACTIVE"
      /\ creditNote[c].status = "FINALIZED" /\ invoice[i].status = "FINALIZED"
      /\ creditAllocation' = [creditAllocation EXCEPT ![k].status = "REVERSED"]
      /\ creditNote' = [creditNote EXCEPT ![c].unappliedAmount = @ + amount]
      /\ invoice' = [invoice EXCEPT ![i].balanceDue = @ + amount]
      /\ UNCHANGED <<payment, allocation, refund, receivable>>
  BY DEF ReverseCreditAllocation, CreditReversalClaim
<1>3. c \in CreditNotes /\ i \in Invoices
  BY <1>2 DEF TypeInv, References
<1>4. creditAllocation'[k].status = "REVERSED" /\ OnlyCredit(k)
  BY <1>1, <1>2 DEF CreditAllocation, OnlyCredit
<1> HIDE DEF c, i, amount
<1>5. CreditNoteOpen(c, creditNote[c].unappliedAmount + amount) /\ OnlyCreditNote(c)
  BY <1>1, <1>2, <1>3 DEF CreditNote, CreditNoteOpen, OnlyCreditNote
<1>6. InvoiceDue(i, invoice[i].balanceDue + amount) /\ OnlyInvoice(i)
  BY <1>1, <1>2, <1>3 DEF Invoice, InvoiceDue, OnlyInvoice
<1>7. QED
  BY <1>2, <1>3, <1>4, <1>5, <1>6 DEF CreditReversed, c, i, amount

\* Refunds of a payment and of a credit note, and their voids.
LEMMA RefundChange ==
    ASSUME TypeInv, RefundNext
    PROVE  \E q \in Refunds : \/ PaymentRefunded(q) \/ CreditNoteRefunded(q)
                              \/ PaymentRefundVoided(q) \/ CreditNoteRefundVoided(q)
<1>1. /\ payment \in [Payments -> Payment] /\ creditNote \in [CreditNotes -> CreditNote]
      /\ refund \in [Refunds -> Refund]
  BY DEF TypeInv, TypeOK
<1>2. ASSUME NEW q \in Refunds, NEW p \in Payments, NEW amount \in Amounts,
             CreateRefundFromPayment(q, p, amount)
      PROVE  PaymentRefunded(q)
  <2>1. PaymentOpen(p, payment[p].unappliedAmount - amount) /\ OnlyPayment(p)
    BY <1>1, <1>2 DEF CreateRefundFromPayment, Payment, PaymentOpen, OnlyPayment
  <2>2. /\ refund'[q].status = "POSTED" /\ refund'[q].source = p
        /\ refund'[q].amount = amount /\ OnlyRefund(q)
    BY <1>1, <1>2 DEF CreateRefundFromPayment, OnlyRefund
  <2>3. QED
    BY <1>2, <2>1, <2>2 DEF CreateRefundFromPayment, PaymentRefunded
<1>3. ASSUME NEW q \in Refunds, NEW c \in CreditNotes, NEW amount \in Amounts,
             CreateRefundFromCreditNote(q, c, amount)
      PROVE  CreditNoteRefunded(q)
  <2>1. CreditNoteOpen(c, creditNote[c].unappliedAmount - amount) /\ OnlyCreditNote(c)
    BY <1>1, <1>3 DEF CreateRefundFromCreditNote, CreditNote, CreditNoteOpen, OnlyCreditNote
  <2>2. /\ refund'[q].status = "POSTED" /\ refund'[q].source = c
        /\ refund'[q].amount = amount /\ OnlyRefund(q)
    BY <1>1, <1>3 DEF CreateRefundFromCreditNote, OnlyRefund
  <2>3. QED
    BY <1>3, <2>1, <2>2 DEF CreateRefundFromCreditNote, CreditNoteRefunded
<1>4. ASSUME NEW q \in Refunds, VoidRefundOfPayment(q)
      PROVE  PaymentRefundVoided(q)
  <2> DEFINE p == refund[q].source
             amount == refund[q].amount
  <2>1. /\ refund[q].status = "POSTED" /\ p \in Payments /\ payment[p].status = "POSTED"
        /\ refund' = [refund EXCEPT ![q].status = "VOIDED"]
        /\ payment' = [payment EXCEPT ![p].unappliedAmount = @ + amount]
        /\ receivable' = receivable - amount
        /\ UNCHANGED <<invoice, creditNote, allocation, creditAllocation>>
    BY <1>4 DEF VoidRefundOfPayment, RefundVoidClaim
  <2>2. refund'[q].status = "VOIDED" /\ OnlyRefund(q)
    BY <1>1, <2>1 DEF Refund, OnlyRefund
  <2> HIDE DEF p, amount
  <2>3. PaymentOpen(p, payment[p].unappliedAmount + amount) /\ OnlyPayment(p)
    BY <1>1, <2>1 DEF Payment, PaymentOpen, OnlyPayment
  <2>4. QED
    BY <2>1, <2>2, <2>3 DEF PaymentRefundVoided, p, amount
<1>5. ASSUME NEW q \in Refunds, VoidRefundOfCreditNote(q)
      PROVE  CreditNoteRefundVoided(q)
  <2> DEFINE c == refund[q].source
             amount == refund[q].amount
  <2>1. /\ refund[q].status = "POSTED" /\ c \in CreditNotes
        /\ creditNote[c].status = "FINALIZED"
        /\ refund' = [refund EXCEPT ![q].status = "VOIDED"]
        /\ creditNote' = [creditNote EXCEPT ![c].unappliedAmount = @ + amount]
        /\ receivable' = receivable - amount
        /\ UNCHANGED <<invoice, payment, allocation, creditAllocation>>
    BY <1>5 DEF VoidRefundOfCreditNote, RefundVoidClaim
  <2>2. refund'[q].status = "VOIDED" /\ OnlyRefund(q)
    BY <1>1, <2>1 DEF Refund, OnlyRefund
  <2> HIDE DEF c, amount
  <2>3. CreditNoteOpen(c, creditNote[c].unappliedAmount + amount) /\ OnlyCreditNote(c)
    BY <1>1, <2>1 DEF CreditNote, CreditNoteOpen, OnlyCreditNote
  <2>4. QED
    BY <2>1, <2>2, <2>3 DEF CreditNoteRefundVoided, c, amount
<1>6. QED
  BY <1>2, <1>3, <1>4, <1>5 DEF RefundNext

\* The Read actions write nothing.
LEMMA ReadsChangeNothing ==
    ASSUME NEW w \in Workers
    PROVE  /\ \A i \in Invoices : FinalizeInvoiceRead(w, i) \/ RemoveInvoiceRead(w, i)
                => UNCHANGED rows
           /\ \A p \in Payments, received \in Amounts, allocs \in AllocationLists :
                CreatePaymentRead(w, p, received, allocs) => UNCHANGED rows
           /\ \A p \in Payments, u \in Allocations, i \in Invoices, amount \in Amounts :
                ApplyUnappliedRead(w, u, p, i, amount) => UNCHANGED rows
           /\ \A p \in Payments : VoidPaymentRead(w, p) => UNCHANGED rows
           /\ \A c \in CreditNotes, total \in Amounts, i \in Invoices \cup {None} :
                CreateCreditNoteRead(w, c, total, i) \/ UpdateCreditNoteRead(w, c, total, i)
                  => UNCHANGED rows
           /\ \A c \in CreditNotes : FinalizeCreditNoteRead(w, c) \/ RemoveCreditNoteRead(w, c)
                => UNCHANGED rows
           /\ Abort(w) => UNCHANGED rows
<1>1. \A r : Begin(w, r) => UNCHANGED rows
  BY DEF Begin
<1>2. QED
  BY <1>1 DEF FinalizeInvoiceRead, RemoveInvoiceRead, CreatePaymentRead,
     ApplyUnappliedRead, VoidPaymentRead, CreateCreditNoteRead, UpdateCreditNoteRead,
     FinalizeCreditNoteRead, RemoveCreditNoteRead, Abort

\* Every step is a change of the rows.
LEMMA StepChangesRows ==
    ASSUME TypeInv, [Next]_vars
    PROVE  RowChange
<1>1. CASE InvoiceNext
  <2>1. CASE \E i \in Invoices, total \in Amounts :
               CreateInvoice(i, total) \/ UpdateInvoice(i, total)
    BY <2>1, InvoiceDraftChange DEF RowChange
  <2>2. CASE \E i \in Invoices : VoidInvoice(i)
    BY <2>2, VoidInvoiceChange DEF RowChange
  <2>3. CASE \E i \in Invoices, w \in Workers :
               FinalizeInvoiceRead(w, i) \/ RemoveInvoiceRead(w, i)
    BY <2>3, ReadsChangeNothing DEF RowChange
  <2>4. CASE \E w \in Workers : FinalizeInvoiceCommit(w) \/ RemoveInvoiceCommit(w)
    BY <2>4, FinalizeInvoiceChange, RemoveInvoiceChange DEF RowChange
  <2>5. QED
    BY <1>1, <2>1, <2>2, <2>3, <2>4 DEF InvoiceNext
<1>2. CASE PaymentNext
  <2>1. CASE \E w \in Workers, p \in Payments :
               \/ \E received \in Amounts, allocs \in AllocationLists :
                    CreatePaymentRead(w, p, received, allocs)
               \/ \E u \in Allocations, i \in Invoices, amount \in Amounts :
                    ApplyUnappliedRead(w, u, p, i, amount)
               \/ VoidPaymentRead(w, p)
    BY <2>1, ReadsChangeNothing DEF RowChange
  <2>2. CASE \E w \in Workers : \/ CreatePaymentCommit(w) \/ ApplyUnappliedCommit(w)
                                \/ VoidPaymentCommit(w)
    BY <2>2, CreatePaymentChange, ApplyUnappliedChange, VoidPaymentChange DEF RowChange
  <2>3. CASE \E u \in Allocations : ReverseUnappliedAllocation(u)
    BY <2>3, ReverseUnappliedChange DEF RowChange
  <2>4. QED
    BY <1>2, <2>1, <2>2, <2>3 DEF PaymentNext
<1>3. CASE CreditNoteNext
  <2>1. CASE \E w \in Workers, c \in CreditNotes :
               \/ \E total \in Amounts, i \in Invoices \cup {None} :
                    \/ CreateCreditNoteRead(w, c, total, i)
                    \/ UpdateCreditNoteRead(w, c, total, i)
               \/ FinalizeCreditNoteRead(w, c)
               \/ RemoveCreditNoteRead(w, c)
    BY <2>1, ReadsChangeNothing DEF RowChange
  <2>2. CASE \E w \in Workers : \/ CreateCreditNoteCommit(w) \/ UpdateCreditNoteCommit(w)
                                \/ FinalizeCreditNoteCommit(w)
                                \/ RemoveCreditNoteCommit(w)
    BY <2>2, CreditNoteDraftChange, FinalizeCreditNoteChange, RemoveCreditNoteChange
       DEF RowChange
  <2>3. CASE \E c \in CreditNotes : VoidCreditNote(c)
    BY <2>3, VoidCreditNoteChange DEF RowChange
  <2>4. CASE \E c \in CreditNotes, k \in CreditAllocations, i \in Invoices,
               amount \in Amounts : ApplyCreditNote(k, c, i, amount)
    BY <2>4, ApplyCreditNoteChange DEF RowChange
  <2>5. CASE \E k \in CreditAllocations : ReverseCreditAllocation(k)
    BY <2>5, ReverseCreditChange DEF RowChange
  <2>6. QED
    BY <1>3, <2>1, <2>2, <2>3, <2>4, <2>5 DEF CreditNoteNext
<1>4. CASE RefundNext
  BY <1>4, RefundChange DEF RowChange
<1>5. CASE \E w \in Workers : Abort(w)
  BY <1>5, ReadsChangeNothing DEF RowChange
<1>6. CASE UNCHANGED vars
  BY <1>6 DEF vars, rows, RowChange
<1>7. QED
  BY <1>1, <1>2, <1>3, <1>4, <1>5, <1>6 DEF Next

-----------------------------------------------------------------------------
(* Applications are backed. *)

\* A later allocation never names a payment that is not created yet, which
\* would be posted under it.
AllocationsOfPayments ==
    \A u \in Allocations : allocation[u].status = "ACTIVE" =>
      payment[allocation[u].payment].status # "NONE"

BackedInv == TypeInv /\ ApplicationsBacked /\ AllocationsOfPayments

\* Changes of invoices.
LEMMA InvoiceChangeBacked ==
    ASSUME BackedInv, TypeOK', NEW i \in Invoices,
           \/ InvoiceDrafted(i) \/ InvoiceFinalized(i)
           \/ InvoiceVoided(i) \/ InvoiceRemoved(i)
    PROVE  ApplicationsBacked' /\ AllocationsOfPayments'
<1>1. ApplicationsBacked /\ AllocationsOfPayments /\ References
  BY DEF BackedInv, TypeInv
<1>2. CASE InvoiceDrafted(i)
  BY <1>1, <1>2 DEF InvoiceDrafted, OnlyInvoice, ApplicationsBacked,
     AllocationsOfPayments, References
<1>3. CASE InvoiceFinalized(i)
  BY <1>1, <1>3 DEF InvoiceFinalized, OnlyInvoice, ApplicationsBacked,
     AllocationsOfPayments, References
<1>4. CASE InvoiceVoided(i)
  BY <1>1, <1>4 DEF InvoiceVoided, OnlyInvoice, ApplicationsBacked,
     AllocationsOfPayments, References, HasActiveApplications
<1>5. CASE InvoiceRemoved(i)
  BY <1>1, <1>5 DEF InvoiceRemoved, OnlyInvoice, CreditNoteOpen, ApplicationsBacked,
     AllocationsOfPayments, References, Referenced
<1>6. QED
  BY <1>2, <1>3, <1>4, <1>5

\* Changes of payments and of their later allocations.
LEMMA PaymentChangeBacked ==
    ASSUME BackedInv, TypeOK',
           \/ \E p \in Payments : PaymentCreated(p) \/ PaymentVoided(p)
           \/ \E u \in Allocations : AllocationApplied(u) \/ AllocationReversed(u)
    PROVE  ApplicationsBacked' /\ AllocationsOfPayments'
<1>1. ApplicationsBacked /\ AllocationsOfPayments /\ References
  BY DEF BackedInv, TypeInv
<1>2. ASSUME NEW p \in Payments, PaymentCreated(p)
      PROVE  ApplicationsBacked' /\ AllocationsOfPayments'
  BY <1>1, <1>2 DEF PaymentCreated, OnlyPayment, InvoiceDue, ApplicationsBacked,
     AllocationsOfPayments, References
<1>3. ASSUME NEW p \in Payments, PaymentVoided(p)
      PROVE  ApplicationsBacked' /\ AllocationsOfPayments'
  BY <1>1, <1>3 DEF PaymentVoided, OnlyPayment, InvoiceDue, ApplicationsBacked,
     AllocationsOfPayments, References
<1>4. ASSUME NEW u \in Allocations, AllocationApplied(u)
      PROVE  ApplicationsBacked' /\ AllocationsOfPayments'
  <2>1. /\ \A j \in Invoices : invoice'[j].status = invoice[j].status
        /\ \A p \in Payments : /\ payment'[p].status = payment[p].status
                               /\ payment'[p].allocations = payment[p].allocations
        /\ \A v \in Allocations \ {u} : allocation'[v] = allocation[v]
        /\ UNCHANGED <<creditNote, creditAllocation, refund>>
    BY <1>4 DEF AllocationApplied, OnlyAllocation, OnlyPayment, OnlyInvoice,
       PaymentOpen, InvoiceDue
  <2>2. /\ allocation'[u].payment \in Payments /\ allocation'[u].invoice \in Invoices
        /\ payment[allocation'[u].payment].status = "POSTED"
        /\ invoice[allocation'[u].invoice].status = "FINALIZED"
    BY <1>4 DEF AllocationApplied
  <2>3. QED
    BY <1>1, <2>1, <2>2 DEF ApplicationsBacked, AllocationsOfPayments, References
<1>5. ASSUME NEW u \in Allocations, AllocationReversed(u)
      PROVE  ApplicationsBacked' /\ AllocationsOfPayments'
  <2>1. /\ \A j \in Invoices : invoice'[j].status = invoice[j].status
        /\ \A p \in Payments : /\ payment'[p].status = payment[p].status
                               /\ payment'[p].allocations = payment[p].allocations
        /\ \A v \in Allocations \ {u} : allocation'[v] = allocation[v]
        /\ UNCHANGED <<creditNote, creditAllocation, refund>>
    BY <1>5 DEF AllocationReversed, OnlyAllocation, OnlyPayment, OnlyInvoice,
       PaymentOpen, InvoiceDue
  <2>2. allocation'[u].status = "REVERSED"
    BY <1>5 DEF AllocationReversed
  <2>3. QED
    BY <1>1, <2>1, <2>2 DEF ApplicationsBacked, AllocationsOfPayments, References
<1>6. QED
  BY <1>2, <1>3, <1>4, <1>5

\* Changes of credit notes and of their allocations.
LEMMA CreditNoteChangeBacked ==
    ASSUME BackedInv, TypeOK',
           \/ \E c \in CreditNotes : \/ CreditNoteDrafted(c) \/ CreditNoteFinalized(c)
                                     \/ CreditNoteVoided(c) \/ CreditNoteRemoved(c)
           \/ \E k \in CreditAllocations : CreditApplied(k) \/ CreditReversed(k)
    PROVE  ApplicationsBacked' /\ AllocationsOfPayments'
<1>1. ApplicationsBacked /\ AllocationsOfPayments /\ References
  BY DEF BackedInv, TypeInv
<1>2. ASSUME NEW c \in CreditNotes, CreditNoteDrafted(c) \/ CreditNoteFinalized(c)
      PROVE  ApplicationsBacked' /\ AllocationsOfPayments'
  BY <1>1, <1>2 DEF CreditNoteDrafted, CreditNoteFinalized, OnlyCreditNote,
     ApplicationsBacked, AllocationsOfPayments, References
<1>3. ASSUME NEW c \in CreditNotes, CreditNoteVoided(c)
      PROVE  ApplicationsBacked' /\ AllocationsOfPayments'
  BY <1>1, <1>3 DEF CreditNoteVoided, OnlyCreditNote, HasActiveUses,
     ApplicationsBacked, AllocationsOfPayments, References
<1>4. ASSUME NEW c \in CreditNotes, CreditNoteRemoved(c)
      PROVE  ApplicationsBacked' /\ AllocationsOfPayments'
  BY <1>1, <1>4 DEF CreditNoteRemoved, OnlyCreditNote,
     ApplicationsBacked, AllocationsOfPayments, References
<1>5. ASSUME NEW k \in CreditAllocations, CreditApplied(k)
      PROVE  ApplicationsBacked' /\ AllocationsOfPayments'
  <2>1. /\ \A j \in Invoices : invoice'[j].status = invoice[j].status
        /\ \A d \in CreditNotes : creditNote'[d].status = creditNote[d].status
        /\ \A l \in CreditAllocations \ {k} : creditAllocation'[l] = creditAllocation[l]
        /\ UNCHANGED <<payment, allocation, refund>>
    BY <1>5 DEF CreditApplied, OnlyCredit, OnlyCreditNote, OnlyInvoice,
       CreditNoteOpen, InvoiceDue
  <2>2. /\ creditAllocation'[k].creditNote \in CreditNotes
        /\ creditAllocation'[k].invoice \in Invoices
        /\ creditNote[creditAllocation'[k].creditNote].status = "FINALIZED"
        /\ invoice[creditAllocation'[k].invoice].status = "FINALIZED"
    BY <1>5 DEF CreditApplied
  <2>3. QED
    BY <1>1, <2>1, <2>2 DEF ApplicationsBacked, AllocationsOfPayments, References
<1>6. ASSUME NEW k \in CreditAllocations, CreditReversed(k)
      PROVE  ApplicationsBacked' /\ AllocationsOfPayments'
  <2>1. /\ \A j \in Invoices : invoice'[j].status = invoice[j].status
        /\ \A d \in CreditNotes : creditNote'[d].status = creditNote[d].status
        /\ \A l \in CreditAllocations \ {k} : creditAllocation'[l] = creditAllocation[l]
        /\ UNCHANGED <<payment, allocation, refund>>
    BY <1>6 DEF CreditReversed, OnlyCredit, OnlyCreditNote, OnlyInvoice,
       CreditNoteOpen, InvoiceDue
  <2>2. creditAllocation'[k].status = "REVERSED"
    BY <1>6 DEF CreditReversed
  <2>3. QED
    BY <1>1, <2>1, <2>2 DEF ApplicationsBacked, AllocationsOfPayments, References
<1>7. QED
  BY <1>2, <1>3, <1>4, <1>5, <1>6

\* Changes of refunds.
LEMMA RefundChangeBacked ==
    ASSUME BackedInv, TypeOK', NEW r \in Refunds,
           \/ PaymentRefunded(r) \/ CreditNoteRefunded(r)
           \/ PaymentRefundVoided(r) \/ CreditNoteRefundVoided(r)
    PROVE  ApplicationsBacked' /\ AllocationsOfPayments'
<1>1. ApplicationsBacked /\ AllocationsOfPayments /\ References
  BY DEF BackedInv, TypeInv
<1>2. CASE PaymentRefunded(r)
  BY <1>1, <1>2, IdsDistinct DEF PaymentRefunded, OnlyRefund, OnlyPayment, PaymentOpen,
     ApplicationsBacked, AllocationsOfPayments, References
<1>3. CASE CreditNoteRefunded(r)
  BY <1>1, <1>3 DEF CreditNoteRefunded, OnlyRefund, OnlyCreditNote, CreditNoteOpen,
     ApplicationsBacked, AllocationsOfPayments, References
<1>4. CASE PaymentRefundVoided(r)
  BY <1>1, <1>4 DEF PaymentRefundVoided, OnlyRefund, OnlyPayment, PaymentOpen,
     ApplicationsBacked, AllocationsOfPayments, References
<1>5. CASE CreditNoteRefundVoided(r)
  BY <1>1, <1>5 DEF CreditNoteRefundVoided, OnlyRefund, OnlyCreditNote, CreditNoteOpen,
     ApplicationsBacked, AllocationsOfPayments, References
<1>6. QED
  BY <1>2, <1>3, <1>4, <1>5

\* No step leaves an application without its documents.
LEMMA BackedStep ==
    ASSUME BackedInv, TypeInv', RowChange
    PROVE  BackedInv'
<1>1. TypeOK'
  BY DEF TypeInv
<1>2. CASE UNCHANGED rows
  BY <1>2 DEF rows, BackedInv, ApplicationsBacked, AllocationsOfPayments
<1>3. QED
  BY <1>1, <1>2, InvoiceChangeBacked, PaymentChangeBacked, CreditNoteChangeBacked,
     RefundChangeBacked DEF RowChange, BackedInv

\* The strengthening is inductive.
THEOREM BackedInvariance == Spec => []BackedInv
<1>1. Init => ApplicationsBacked /\ AllocationsOfPayments
  BY DEF Init, ApplicationsBacked, AllocationsOfPayments
<1>2. IInv => TypeInv
  BY DEF IInv
<1>3. ASSUME BackedInv, TypeInv', [Next]_vars
      PROVE  BackedInv'
  BY <1>3, BackedStep, StepChangesRows DEF BackedInv
<1>4. TypeInv /\ ApplicationsBacked /\ AllocationsOfPayments <=> BackedInv
  BY DEF BackedInv
<1>5. QED
  BY <1>1, <1>2, <1>3, <1>4, Invariance, InitInv, PTL DEF Spec

\* No document is voided or deleted under what is in force against it.
THEOREM ApplicationsAreBacked == Spec => []ApplicationsBacked
<1>1. BackedInv => ApplicationsBacked
  BY DEF BackedInv
<1>2. QED
  BY <1>1, BackedInvariance, PTL

\* Posted invoices stay as they were posted until a void or a deletion.
THEOREM PostedInvoicesKept == Spec => PostedInvoicesFrozen
<1> DEFINE Frozen(i) ==
      invoice[i].status \in {"FINALIZED", "VOIDED"} =>
         /\ invoice'[i].total = invoice[i].total
         /\ \/ invoice'[i].posted = invoice[i].posted
            \/ invoice'[i].status = "VOIDED" /\ invoice'[i].posted = 0
         /\ invoice'[i].status \in {invoice[i].status, "VOIDED", "DELETED"}
<1>1. ASSUME TypeInv, [Next]_vars, NEW j \in Invoices
      PROVE  Frozen(j)
  <2>1. RowChange
    BY <1>1, StepChangesRows
  <2>2. CASE UNCHANGED invoice
    BY <2>2
  <2>3. CASE \E i \in Invoices : \/ InvoiceDrafted(i) \/ InvoiceFinalized(i)
                                 \/ InvoiceVoided(i) \/ InvoiceRemoved(i)
    BY <2>3 DEF InvoiceDrafted, InvoiceFinalized, InvoiceVoided, InvoiceRemoved,
       OnlyInvoice
  <2>4. CASE \/ \E p \in Payments : PaymentCreated(p) \/ PaymentVoided(p)
             \/ \E u \in Allocations : AllocationApplied(u) \/ AllocationReversed(u)
             \/ \E k \in CreditAllocations : CreditApplied(k) \/ CreditReversed(k)
    BY <2>4 DEF PaymentCreated, PaymentVoided, AllocationApplied, AllocationReversed,
       CreditApplied, CreditReversed, OnlyInvoice, InvoiceDue
  <2>5. CASE \E c \in CreditNotes : \/ CreditNoteDrafted(c) \/ CreditNoteFinalized(c)
                                    \/ CreditNoteVoided(c) \/ CreditNoteRemoved(c)
    BY <2>5 DEF CreditNoteDrafted, CreditNoteFinalized, CreditNoteVoided, CreditNoteRemoved
  <2>6. CASE \E r \in Refunds : \/ PaymentRefunded(r) \/ CreditNoteRefunded(r)
                                \/ PaymentRefundVoided(r) \/ CreditNoteRefundVoided(r)
    BY <2>6 DEF PaymentRefunded, CreditNoteRefunded, PaymentRefundVoided,
       CreditNoteRefundVoided
  <2>7. QED
    BY <2>1, <2>2, <2>3, <2>4, <2>5, <2>6 DEF RowChange, rows
<1>2. IInv => TypeInv
  BY DEF IInv
<1>3. TypeInv /\ [Next]_vars => [\A i \in Invoices : Frozen(i)]_vars
  BY <1>1
<1>4. QED
  BY <1>2, <1>3, Invariance, PTL DEF PostedInvoicesFrozen, Spec

-----------------------------------------------------------------------------
(* The control account ties out. *)

\* What is not finalized, or voided, has no journal.
Unposted ==
    /\ \A i \in Invoices : invoice[i].status \in {"NONE", "DRAFT", "VOIDED"} =>
         invoice[i].posted = 0
    /\ \A c \in CreditNotes : creditNote[c].status \in {"NONE", "DRAFT", "VOIDED"} =>
         creditNote[c].posted = 0

ControlInv == IInv /\ BackedInv /\ Unposted /\ ControlAccountTiesOut

\* The sums of the subledger add naturals.
SubledgerTyped ==
    /\ OpenInvoices \in [Invoices -> Nat]
    /\ OpenPayments \in [Payments -> Nat]
    /\ OpenCreditNotes \in [CreditNotes -> Nat]
    /\ RefundsLeftBehind \in [Refunds -> Nat]
    /\ AllocationsLeftBehind \in [Allocations -> Nat]
    /\ OfVoidedInvoices \in [Allocations -> Nat]
    /\ CreditOfVoidedInvoices \in [CreditAllocations -> Nat]

\* The amounts the subledger adds up are typed.
LEMMA SubledgerTypes == TypeOK => SubledgerTyped
<1> SUFFICES ASSUME TypeOK
             PROVE  SubledgerTyped
  OBVIOUS
<1>1. OpenInvoices \in [Invoices -> Nat]
  BY DEF TypeOK, Invoice, OpenInvoices
<1>2. OpenPayments \in [Payments -> Nat]
  BY DEF TypeOK, Payment, OpenPayments
<1>3. OpenCreditNotes \in [CreditNotes -> Nat]
  BY DEF TypeOK, CreditNote, OpenCreditNotes
<1>4. RefundsLeftBehind \in [Refunds -> Nat]
  BY DEF TypeOK, Refund, RefundsLeftBehind
<1>5. AllocationsLeftBehind \in [Allocations -> Nat]
  BY DEF TypeOK, Allocation, AllocationsLeftBehind
<1>6. OfVoidedInvoices \in [Allocations -> Nat]
  BY DEF TypeOK, Allocation, OfVoidedInvoices
<1>7. CreditOfVoidedInvoices \in [CreditAllocations -> Nat]
  BY DEF TypeOK, CreditAllocation, CreditOfVoidedInvoices
<1>8. QED
  BY <1>1, <1>2, <1>3, <1>4, <1>5, <1>6, <1>7 DEF SubledgerTyped

\* They are typed after a step.
LEMMA SubledgerTypesNext == TypeOK' => SubledgerTyped'
  BY SubledgerTypes, PTL

\* The totals of the subledger are naturals.
SubledgerTotals ==
    /\ Total(Invoices, OpenInvoices) \in Nat
    /\ Total(Payments, OpenPayments) \in Nat
    /\ Total(CreditNotes, OpenCreditNotes) \in Nat
    /\ Total(Refunds, RefundsLeftBehind) \in Nat
    /\ Total(Allocations, AllocationsLeftBehind) \in Nat
    /\ Total(Allocations, OfVoidedInvoices) \in Nat
    /\ Total(CreditAllocations, CreditOfVoidedInvoices) \in Nat

\* The sums of the subledger are typed.
LEMMA SubledgerTotalTypes == TypeOK => SubledgerTotals
<1> SUFFICES ASSUME TypeOK
             PROVE  SubledgerTotals
  OBVIOUS
<1> USE SubledgerTypes, TotalType, FiniteRows DEF SubledgerTyped
<1>1. Total(Invoices, OpenInvoices) \in Nat
  OBVIOUS
<1>2. Total(Payments, OpenPayments) \in Nat
  OBVIOUS
<1>3. Total(CreditNotes, OpenCreditNotes) \in Nat
  OBVIOUS
<1>4. Total(Refunds, RefundsLeftBehind) \in Nat
  OBVIOUS
<1>5. Total(Allocations, AllocationsLeftBehind) \in Nat
  OBVIOUS
<1>6. Total(Allocations, OfVoidedInvoices) \in Nat
  OBVIOUS
<1>7. Total(CreditAllocations, CreditOfVoidedInvoices) \in Nat
  OBVIOUS
<1>8. QED
  BY <1>1, <1>2, <1>3, <1>4, <1>5, <1>6, <1>7 DEF SubledgerTotals

\* They are typed after a step.
LEMMA SubledgerTotalTypesNext == TypeOK' => SubledgerTotals'
  BY SubledgerTotalTypes, PTL

\* One open item changes.
LEMMA OneOpenInvoice ==
    ASSUME TypeOK, TypeOK', NEW i \in Invoices, OnlyInvoice(i)
    PROVE  /\ OpenInvoices[i] \in Nat /\ OpenInvoices'[i] \in Nat
           /\ Total(Invoices, OpenInvoices)' =
                Total(Invoices, OpenInvoices) - OpenInvoices[i] + OpenInvoices'[i]
<1>1. OpenInvoices \in [Invoices -> Nat] /\ OpenInvoices' \in [Invoices -> Nat]
  BY SubledgerTypes, SubledgerTypesNext DEF SubledgerTyped
<1>2. \A j \in Invoices \ {i} : OpenInvoices[j] = OpenInvoices'[j]
  BY DEF OnlyInvoice, OpenInvoices, Posted
<1>3. QED
  BY <1>1, <1>2, TotalUpdate, FiniteRows

\* A change of one payment changes the open payments by its own amount.
LEMMA OneOpenPayment ==
    ASSUME TypeOK, TypeOK', NEW p \in Payments, OnlyPayment(p)
    PROVE  /\ OpenPayments[p] \in Nat /\ OpenPayments'[p] \in Nat
           /\ Total(Payments, OpenPayments)' =
                Total(Payments, OpenPayments) - OpenPayments[p] + OpenPayments'[p]
<1>1. OpenPayments \in [Payments -> Nat] /\ OpenPayments' \in [Payments -> Nat]
  BY SubledgerTypes, SubledgerTypesNext DEF SubledgerTyped
<1>2. \A q \in Payments \ {p} : OpenPayments[q] = OpenPayments'[q]
  BY DEF OnlyPayment, OpenPayments
<1>3. QED
  BY <1>1, <1>2, TotalUpdate, FiniteRows

\* The same for one credit note.
LEMMA OneOpenCreditNote ==
    ASSUME TypeOK, TypeOK', NEW c \in CreditNotes, OnlyCreditNote(c)
    PROVE  /\ OpenCreditNotes[c] \in Nat /\ OpenCreditNotes'[c] \in Nat
           /\ Total(CreditNotes, OpenCreditNotes)' =
                Total(CreditNotes, OpenCreditNotes) - OpenCreditNotes[c]
                  + OpenCreditNotes'[c]
<1>1. OpenCreditNotes \in [CreditNotes -> Nat] /\ OpenCreditNotes' \in [CreditNotes -> Nat]
  BY SubledgerTypes, SubledgerTypesNext DEF SubledgerTyped
<1>2. \A d \in CreditNotes \ {c} : OpenCreditNotes[d] = OpenCreditNotes'[d]
  BY DEF OnlyCreditNote, OpenCreditNotes, Posted
<1>3. QED
  BY <1>1, <1>2, TotalUpdate, FiniteRows

\* Sums a change leaves alone.
OpenKept ==
    /\ UNCHANGED invoice => OpenInvoices' = OpenInvoices
    /\ UNCHANGED payment => OpenPayments' = OpenPayments
    /\ (\A c \in CreditNotes : CreditNoteOpen(c, creditNote[c].unappliedAmount))
         => OpenCreditNotes' = OpenCreditNotes
    /\ UNCHANGED creditNote => OpenCreditNotes' = OpenCreditNotes

\* What is open depends on the documents alone.
LEMMA OpenKeeps == OpenKept
<1>1. UNCHANGED invoice => OpenInvoices' = OpenInvoices
  BY DEF OpenInvoices, Posted
<1>2. UNCHANGED payment => OpenPayments' = OpenPayments
  BY DEF OpenPayments
<1>3. UNCHANGED creditNote => OpenCreditNotes' = OpenCreditNotes
  BY DEF OpenCreditNotes, Posted
<1>4. (\A c \in CreditNotes : CreditNoteOpen(c, creditNote[c].unappliedAmount))
         => OpenCreditNotes' = OpenCreditNotes
  BY DEF OpenCreditNotes, Posted, CreditNoteOpen
<1>5. QED
  BY <1>1, <1>2, <1>3, <1>4 DEF OpenKept

\* Nothing new is left behind while payments keep their statuses.
LEMMA LeftBehindKept ==
    ASSUME TypeInv, \A p \in Payments : payment'[p].status = payment[p].status
    PROVE  /\ UNCHANGED refund => RefundsLeftBehind' = RefundsLeftBehind
           /\ UNCHANGED allocation => AllocationsLeftBehind' = AllocationsLeftBehind
<1>1. UNCHANGED refund => RefundsLeftBehind' = RefundsLeftBehind
  BY DEF RefundsLeftBehind
<1>2. ASSUME UNCHANGED allocation
      PROVE  AllocationsLeftBehind' = AllocationsLeftBehind
  <2>1. \A u \in Allocations : allocation[u].status = "ACTIVE" =>
          payment'[allocation[u].payment].status = payment[allocation[u].payment].status
    BY DEF TypeInv, References
  <2>2. QED
    BY <1>2, <2>1 DEF AllocationsLeftBehind
<1>3. QED
  BY <1>1, <1>2

\* Nor is anything taken back while invoices keep their journals.
LEMMA VoidedKept ==
    ASSUME TypeInv, \A i \in Invoices : Posted(invoice'[i]) <=> Posted(invoice[i])
    PROVE  /\ UNCHANGED allocation => OfVoidedInvoices' = OfVoidedInvoices
           /\ UNCHANGED creditAllocation => CreditOfVoidedInvoices' = CreditOfVoidedInvoices
<1>1. ASSUME UNCHANGED allocation
      PROVE  OfVoidedInvoices' = OfVoidedInvoices
  <2>1. \A u \in Allocations : allocation[u].status = "ACTIVE" =>
          (Posted(invoice'[allocation[u].invoice]) <=> Posted(invoice[allocation[u].invoice]))
    BY DEF TypeInv, References
  <2>2. QED
    BY <1>1, <2>1 DEF OfVoidedInvoices, Posted
<1>2. ASSUME UNCHANGED creditAllocation
      PROVE  CreditOfVoidedInvoices' = CreditOfVoidedInvoices
  <2>1. \A k \in CreditAllocations : creditAllocation[k].status = "CASCADED" =>
          (Posted(invoice'[creditAllocation[k].invoice])
             <=> Posted(invoice[creditAllocation[k].invoice]))
    BY DEF TypeInv, References
  <2>2. QED
    BY <1>2, <2>1 DEF CreditOfVoidedInvoices, Posted
<1>3. QED
  BY <1>1, <1>2

\* Changes of invoices.
LEMMA InvoiceDraftTies ==
    ASSUME ControlInv, TypeOK', NEW i \in Invoices, InvoiceDrafted(i)
    PROVE  Unposted' /\ ControlAccountTiesOut'
<1> USE DEF InvoiceDrafted, OnlyInvoice
<1>1. TypeInv /\ TypeOK /\ Unposted /\ ControlAccountTiesOut
  BY DEF ControlInv, IInv, TypeInv
<1>2. Unposted'
  BY <1>1 DEF Unposted
<1>3. \A j \in Invoices : Posted(invoice'[j]) <=> Posted(invoice[j])
  BY DEF Posted
<1>4. OpenInvoices' = OpenInvoices
  BY <1>3 DEF OpenInvoices, Posted
<1>5. /\ OpenPayments' = OpenPayments /\ OpenCreditNotes' = OpenCreditNotes
      /\ RefundsLeftBehind' = RefundsLeftBehind
      /\ AllocationsLeftBehind' = AllocationsLeftBehind
      /\ OfVoidedInvoices' = OfVoidedInvoices
      /\ CreditOfVoidedInvoices' = CreditOfVoidedInvoices
  BY <1>1, <1>3, OpenKeeps, LeftBehindKept, VoidedKept DEF OpenKept
<1>6. QED
  BY <1>1, <1>2, <1>4, <1>5 DEF ControlAccountTiesOut

\* Finalizing an invoice keeps the control account tied out.
LEMMA InvoiceFinalizedTies ==
    ASSUME ControlInv, TypeOK', NEW i \in Invoices, InvoiceFinalized(i)
    PROVE  Unposted' /\ ControlAccountTiesOut'
<1> USE DEF InvoiceFinalized, OnlyInvoice
<1>1. /\ TypeInv /\ TypeOK /\ Unposted /\ ControlAccountTiesOut /\ InvoiceLaw(i)
      /\ References
  BY DEF ControlInv, IInv, TypeInv, InvoiceInv
<1>2. Unposted'
  BY <1>1 DEF Unposted
<1>3. /\ OpenInvoices[i] = 0 /\ OpenInvoices'[i] = invoice'[i].posted
      /\ invoice'[i].posted \in Nat
  BY DEF OpenInvoices, Posted, TypeOK, Invoice
<1>4. Total(Invoices, OpenInvoices)' =
        Total(Invoices, OpenInvoices) - OpenInvoices[i] + OpenInvoices'[i]
  BY <1>1, OneOpenInvoice
<1>5. /\ OpenPayments' = OpenPayments /\ OpenCreditNotes' = OpenCreditNotes
      /\ RefundsLeftBehind' = RefundsLeftBehind
      /\ AllocationsLeftBehind' = AllocationsLeftBehind
  BY <1>1, OpenKeeps, LeftBehindKept DEF OpenKept
<1>6. OfVoidedInvoices' = OfVoidedInvoices
  <2>1. ASSUME NEW u \in Allocations, allocation[u].status = "ACTIVE",
               allocation[u].invoice = i
        PROVE  allocation[u].sourceBaseAmount = 0
    BY <1>1, <2>1 DEF InvoiceLaw, AppliedTo
  <2>2. ASSUME NEW u \in Allocations, allocation[u].status = "ACTIVE",
               allocation[u].invoice # i
        PROVE  Posted(invoice'[allocation[u].invoice])
                 <=> Posted(invoice[allocation[u].invoice])
    BY <1>1, <2>2 DEF References, Posted
  <2>3. QED
    BY <2>1, <2>2 DEF OfVoidedInvoices, Posted
<1>7. CreditOfVoidedInvoices' = CreditOfVoidedInvoices
  <2>1. ASSUME NEW k \in CreditAllocations, creditAllocation[k].status = "CASCADED",
               creditAllocation[k].invoice = i
        PROVE  creditAllocation[k].amount = 0
    BY <1>1, <2>1 DEF InvoiceLaw, CreditedTo
  <2>2. ASSUME NEW k \in CreditAllocations, creditAllocation[k].status = "CASCADED",
               creditAllocation[k].invoice # i
        PROVE  Posted(invoice'[creditAllocation[k].invoice])
                 <=> Posted(invoice[creditAllocation[k].invoice])
    BY <1>1, <2>2 DEF References, Posted
  <2>3. QED
    BY <2>1, <2>2 DEF CreditOfVoidedInvoices, Posted
<1>8. SubledgerTotals
  BY <1>1, SubledgerTotalTypes
<1>9. receivable \in Int /\ receivable' = receivable + invoice'[i].posted
  BY <1>1 DEF TypeOK
<1> QED
  BY <1>1, <1>2, <1>3, <1>4, <1>5, <1>6, <1>7, <1>8, <1>9
     DEF ControlAccountTiesOut, SubledgerTotals

\* A void takes back the journal: what was paid and credited and is not given
\* back stays behind.
LEMMA InvoiceVoidedTies ==
    ASSUME ControlInv, TypeOK', NEW i \in Invoices, InvoiceVoided(i)
    PROVE  Unposted' /\ ControlAccountTiesOut'
<1> USE DEF InvoiceVoided, OnlyInvoice
<1>1. /\ TypeInv /\ TypeOK /\ Unposted /\ ControlAccountTiesOut /\ InvoiceLaw(i)
      /\ References /\ ApplicationsBacked
  BY DEF ControlInv, IInv, TypeInv, InvoiceInv, BackedInv
<1>2. Unposted'
  BY <1>1 DEF Unposted
<1>3. /\ OpenPayments' = OpenPayments /\ OpenCreditNotes' = OpenCreditNotes
      /\ RefundsLeftBehind' = RefundsLeftBehind
      /\ AllocationsLeftBehind' = AllocationsLeftBehind
  BY <1>1, OpenKeeps, LeftBehindKept DEF OpenKept
<1>4. receivable \in Int /\ receivable' = receivable - invoice[i].posted
  BY <1>1 DEF TypeOK
<1>5. Total(Invoices, OpenInvoices)' =
        Total(Invoices, OpenInvoices) - OpenInvoices[i] + OpenInvoices'[i]
  BY <1>1, OneOpenInvoice
<1>6. OpenInvoices'[i] = 0
  BY DEF OpenInvoices, Posted
<1>7. SubledgerTotals
  BY <1>1, SubledgerTotalTypes
<1>8. CASE invoice[i].status = "DRAFT"
  <2>1. \A j \in Invoices : Posted(invoice'[j]) <=> Posted(invoice[j])
    BY <1>8 DEF Posted
  <2>2. OfVoidedInvoices' = OfVoidedInvoices
        /\ CreditOfVoidedInvoices' = CreditOfVoidedInvoices
    BY <1>1, <2>1, VoidedKept
  <2>3. OpenInvoices[i] = 0 /\ invoice[i].posted = 0
    BY <1>1, <1>8 DEF OpenInvoices, Posted, Unposted
  <2>4. QED
    BY <1>1, <1>2, <1>3, <1>4, <1>5, <1>6, <1>7, <2>2, <2>3
       DEF ControlAccountTiesOut, SubledgerTotals
<1>9. CASE invoice[i].status = "FINALIZED"
  <2>1. OpenInvoices[i] = invoice[i].balanceDue /\ OpenInvoices[i] \in Nat
    BY <1>1, <1>9 DEF OpenInvoices, Posted, TypeOK, Invoice
  <2>2. /\ PaidTo(i) \in [Payments -> Nat] /\ AppliedTo(i) \in [Allocations -> Nat]
        /\ CreditedTo(i) \in [CreditAllocations -> Nat]
    BY <1>1, AmountTypes DEF AmountsTyped
  <2>3. Total(Payments, PaidTo(i)) = 0
    <3>1. \A p \in Payments : payment[p].allocations[i] \in Nat
      BY <1>1 DEF TypeOK, Payment
    <3>2. \A p \in Payments : PaidTo(i)[p] = 0
      BY <1>9, <3>1 DEF HasActiveApplications, PaidTo
    <3>3. QED
      BY <2>2, <3>2, TotalZero
  <2>4. ASSUME NEW u \in Allocations
        PROVE  OfVoidedInvoices'[u] = OfVoidedInvoices[u] + AppliedTo(i)[u]
    <3>0. allocation[u].sourceBaseAmount \in Nat
      BY <1>1 DEF TypeOK, Allocation
    <3>1. CASE allocation[u].status # "ACTIVE"
      BY <3>1 DEF OfVoidedInvoices, AppliedTo
    <3>2. CASE allocation[u].status = "ACTIVE" /\ allocation[u].invoice = i
      BY <1>9, <3>0, <3>2 DEF OfVoidedInvoices, AppliedTo, Posted
    <3>3. CASE allocation[u].status = "ACTIVE" /\ allocation[u].invoice # i
      <4>1. invoice'[allocation[u].invoice] = invoice[allocation[u].invoice]
        BY <1>1, <3>3 DEF References
      <4>2. QED
        BY <3>0, <3>3, <4>1 DEF OfVoidedInvoices, AppliedTo, Posted
    <3>4. QED
      BY <3>1, <3>2, <3>3
  <2>5. Total(Allocations, OfVoidedInvoices)' =
          Total(Allocations, OfVoidedInvoices) + Total(Allocations, AppliedTo(i))
    BY <1>1, <2>2, <2>4, SubledgerTypes, SubledgerTypesNext, TotalPlus, FiniteRows
       DEF SubledgerTyped
  <2>6. ASSUME NEW k \in CreditAllocations
        PROVE  CreditOfVoidedInvoices'[k] = CreditOfVoidedInvoices[k] + CreditedTo(i)[k]
    <3>0. creditAllocation[k].amount \in Nat
      BY <1>1 DEF TypeOK, CreditAllocation
    <3>1. CASE creditAllocation[k].status \notin {"ACTIVE", "CASCADED"}
      BY <3>1 DEF CreditOfVoidedInvoices, CreditedTo
    <3>2. CASE creditAllocation[k].status = "ACTIVE"
      <4>1. creditAllocation[k].invoice # i
        BY <1>1, <1>9, <3>2 DEF ApplicationsBacked, HasActiveApplications
      <4>2. QED
        BY <3>2, <4>1 DEF CreditOfVoidedInvoices, CreditedTo
    <3>3. CASE creditAllocation[k].status = "CASCADED" /\ creditAllocation[k].invoice = i
      BY <1>9, <3>0, <3>3 DEF CreditOfVoidedInvoices, CreditedTo, Posted
    <3>4. CASE creditAllocation[k].status = "CASCADED" /\ creditAllocation[k].invoice # i
      <4>1. invoice'[creditAllocation[k].invoice] = invoice[creditAllocation[k].invoice]
        BY <1>1, <3>4 DEF References
      <4>2. QED
        BY <3>0, <3>4, <4>1 DEF CreditOfVoidedInvoices, CreditedTo, Posted
    <3>5. QED
      BY <3>1, <3>2, <3>3, <3>4
  <2>7. Total(CreditAllocations, CreditOfVoidedInvoices)' =
          Total(CreditAllocations, CreditOfVoidedInvoices)
            + Total(CreditAllocations, CreditedTo(i))
    BY <1>1, <2>2, <2>6, SubledgerTypes, SubledgerTypesNext, TotalPlus, FiniteRows
       DEF SubledgerTyped
  <2>8. invoice[i].balanceDue + Total(Payments, PaidTo(i))
          + Total(Allocations, AppliedTo(i))
          + Total(CreditAllocations, CreditedTo(i)) = invoice[i].posted
    BY <1>1, <1>9 DEF InvoiceLaw
  <2>9. Total(Allocations, AppliedTo(i)) \in Nat
        /\ Total(CreditAllocations, CreditedTo(i)) \in Nat
    BY <2>2, TotalType, FiniteRows
  <2>10. QED
    BY <1>1, <1>2, <1>3, <1>4, <1>5, <1>6, <1>7, <2>1, <2>3, <2>5, <2>7, <2>8, <2>9
       DEF ControlAccountTiesOut, SubledgerTotals
<1>10. QED
  BY <1>8, <1>9

\* A finalized invoice of amount zero is the only one that loses its journal by
\* a deletion, and nothing is open of it or applied to it.
LEMMA InvoiceRemovedTies ==
    ASSUME ControlInv, TypeOK', NEW i \in Invoices, InvoiceRemoved(i)
    PROVE  Unposted' /\ ControlAccountTiesOut'
<1> USE DEF InvoiceRemoved, OnlyInvoice
<1>1. /\ TypeInv /\ TypeOK /\ Unposted /\ ControlAccountTiesOut /\ InvoiceLaw(i)
      /\ References
  BY DEF ControlInv, IInv, TypeInv, InvoiceInv
<1>2. Unposted'
  BY <1>1 DEF Unposted, CreditNoteOpen
<1>3. \A p \in Payments : payment'[p].status = payment[p].status
  OBVIOUS
<1>4. /\ OpenPayments' = OpenPayments /\ OpenCreditNotes' = OpenCreditNotes
      /\ RefundsLeftBehind' = RefundsLeftBehind
      /\ AllocationsLeftBehind' = AllocationsLeftBehind
  BY <1>1, <1>3, OpenKeeps, LeftBehindKept DEF OpenKept
<1>5. UNCHANGED receivable
  OBVIOUS
<1>6. CASE Posted(invoice[i]) => invoice[i].posted > 0
  <2>1. Posted(invoice'[i]) <=> Posted(invoice[i])
    <3>1. invoice[i].posted > 0 => invoice[i].status = "FINALIZED"
      BY <1>1 DEF Unposted, TypeOK, Invoice, DocumentStatus
    <3>2. QED
      BY <1>6, <3>1 DEF Posted
  <2>2. \A j \in Invoices : Posted(invoice'[j]) <=> Posted(invoice[j])
    BY <2>1 DEF Posted
  <2>3. OpenInvoices' = OpenInvoices
    BY <2>2 DEF OpenInvoices, Posted
  <2>4. QED
    BY <1>1, <1>2, <1>4, <1>5, <2>2, <2>3, VoidedKept DEF ControlAccountTiesOut
<1>7. CASE ~(Posted(invoice[i]) => invoice[i].posted > 0)
  <2>1. invoice[i].status = "FINALIZED" /\ invoice[i].posted = 0
        /\ invoice[i].balanceDue \in Nat
    BY <1>1, <1>7 DEF Posted, TypeOK, Invoice
  <2>2. /\ Total(Payments, PaidTo(i)) \in Nat
        /\ Total(Allocations, AppliedTo(i)) \in Nat
        /\ Total(CreditAllocations, CreditedTo(i)) \in Nat
    BY <1>1, AmountTypes, TotalTypes
  <2>3. invoice[i].balanceDue + Total(Payments, PaidTo(i))
          + Total(Allocations, AppliedTo(i))
          + Total(CreditAllocations, CreditedTo(i)) = invoice[i].posted
    BY <1>1, <2>1 DEF InvoiceLaw
  <2>4. invoice[i].balanceDue = 0 /\ Total(CreditAllocations, CreditedTo(i)) = 0
    BY <2>1, <2>2, <2>3
  <2>5. \A k \in CreditAllocations : CreditedTo(i)[k] = 0
    <3>1. CreditedTo(i) \in [CreditAllocations -> Nat]
      BY <1>1, AmountTypes DEF AmountsTyped
    <3>2. \A k \in CreditAllocations : CreditedTo(i)[k] <= 0 /\ CreditedTo(i)[k] \in Nat
      BY <2>4, <3>1, TotalBounds, FiniteRows
    <3>3. QED
      BY <3>2
  <2>6. OpenInvoices' = OpenInvoices
    BY <2>1, <2>4 DEF OpenInvoices, Posted
  <2>7. OfVoidedInvoices' = OfVoidedInvoices
    <3>1. ASSUME NEW u \in Allocations, allocation[u].status = "ACTIVE"
          PROVE  Posted(invoice'[allocation[u].invoice])
                   <=> Posted(invoice[allocation[u].invoice])
      BY <1>1, <3>1 DEF References, Posted, Referenced
    <3>2. QED
      BY <3>1 DEF OfVoidedInvoices, Posted
  <2>8. CreditOfVoidedInvoices' = CreditOfVoidedInvoices
    <3>1. ASSUME NEW k \in CreditAllocations, creditAllocation[k].status = "CASCADED",
                 creditAllocation[k].invoice = i
          PROVE  creditAllocation[k].amount = 0
      BY <2>5, <3>1 DEF CreditedTo
    <3>2. ASSUME NEW k \in CreditAllocations, creditAllocation[k].status = "CASCADED",
                 creditAllocation[k].invoice # i
          PROVE  Posted(invoice'[creditAllocation[k].invoice])
                   <=> Posted(invoice[creditAllocation[k].invoice])
      BY <1>1, <3>2 DEF References, Posted
    <3>3. QED
      BY <3>1, <3>2 DEF CreditOfVoidedInvoices, Posted
  <2>9. QED
    BY <1>1, <1>2, <1>4, <1>5, <2>6, <2>7, <2>8 DEF ControlAccountTiesOut
<1>8. QED
  BY <1>6, <1>7

\* While every document keeps its status and its journal.
StatusesKept ==
    /\ \A i \in Invoices : /\ invoice'[i].status = invoice[i].status
                           /\ invoice'[i].posted = invoice[i].posted
    /\ \A p \in Payments : payment'[p].status = payment[p].status
    /\ \A c \in CreditNotes : /\ creditNote'[c].status = creditNote[c].status
                              /\ creditNote'[c].posted = creditNote[c].posted

\* A step that keeps the statuses keeps what voided documents left behind.
LEMMA StatusesKeep ==
    ASSUME TypeInv, Unposted, StatusesKept
    PROVE  /\ Unposted'
           /\ UNCHANGED refund => RefundsLeftBehind' = RefundsLeftBehind
           /\ UNCHANGED allocation =>
                /\ AllocationsLeftBehind' = AllocationsLeftBehind
                /\ OfVoidedInvoices' = OfVoidedInvoices
           /\ UNCHANGED creditAllocation => CreditOfVoidedInvoices' = CreditOfVoidedInvoices
<1>1. Unposted'
  BY DEF StatusesKept, Unposted
<1>2. \A i \in Invoices : Posted(invoice'[i]) <=> Posted(invoice[i])
  BY DEF StatusesKept, Posted
<1>3. \A p \in Payments : payment'[p].status = payment[p].status
  BY DEF StatusesKept
<1>4. QED
  BY <1>1, <1>2, <1>3, LeftBehindKept, VoidedKept

\* Changes of payments.
LEMMA PaymentCreatedTies ==
    ASSUME ControlInv, TypeOK', NEW p \in Payments, PaymentCreated(p)
    PROVE  Unposted' /\ ControlAccountTiesOut'
<1> DEFINE received == payment'[p].amountReceived
           allocs == payment'[p].allocations
           unapplied == payment'[p].unappliedAmount
<1>1. /\ TypeInv /\ TypeOK /\ Unposted /\ ControlAccountTiesOut /\ References
  BY DEF ControlInv, IInv, TypeInv
<1>2. /\ payment[p].status = "NONE" /\ payment'[p].status = "POSTED"
      /\ unapplied + Total(Invoices, allocs) = received
      /\ OnlyPayment(p)
      /\ \A i \in Invoices :
           /\ InvoiceDue(i, invoice[i].balanceDue - allocs[i])
           /\ allocs[i] > 0 => invoice[i].status = "FINALIZED"
      /\ receivable' = receivable - received
      /\ UNCHANGED <<creditNote, allocation, creditAllocation, refund>>
  BY DEF PaymentCreated
<1>3. /\ payment' \in [Payments -> Payment] /\ invoice \in [Invoices -> Invoice]
      /\ invoice' \in [Invoices -> Invoice]
  BY <1>1 DEF TypeOK
<1>4. allocs \in [Invoices -> Nat] /\ unapplied \in Nat /\ received \in Nat
  BY <1>3 DEF Payment
<1> HIDE DEF received, allocs, unapplied
<1>5. Unposted'
  BY <1>1, <1>2 DEF Unposted, InvoiceDue
<1>6. \A i \in Invoices : Posted(invoice'[i]) <=> Posted(invoice[i])
  BY <1>2 DEF Posted, InvoiceDue
<1>7. /\ OpenCreditNotes' = OpenCreditNotes
      /\ OfVoidedInvoices' = OfVoidedInvoices
      /\ CreditOfVoidedInvoices' = CreditOfVoidedInvoices
  BY <1>1, <1>2, <1>6, OpenKeeps, VoidedKept DEF OpenKept
<1>8. RefundsLeftBehind' = RefundsLeftBehind
  <2>1. \A q \in Payments : payment'[q].status = "VOIDED" <=> payment[q].status = "VOIDED"
    BY <1>2 DEF OnlyPayment
  <2>2. QED
    BY <1>2, <2>1 DEF RefundsLeftBehind
<1>9. AllocationsLeftBehind' = AllocationsLeftBehind
  <2>1. ASSUME NEW u \in Allocations, allocation[u].status = "ACTIVE"
        PROVE  payment'[allocation[u].payment].status = "VOIDED"
                 <=> payment[allocation[u].payment].status = "VOIDED"
    BY <1>1, <1>2, <2>1 DEF OnlyPayment, References
  <2>2. QED
    BY <1>2, <2>1 DEF AllocationsLeftBehind
<1>10. ASSUME NEW i \in Invoices
       PROVE  OpenInvoices[i] = OpenInvoices'[i] + allocs[i]
  <2>1. /\ invoice[i].balanceDue \in Nat /\ invoice'[i].balanceDue \in Nat
        /\ allocs[i] \in Nat
    BY <1>3, <1>4 DEF Invoice
  <2>2. invoice'[i].balanceDue = invoice[i].balanceDue - allocs[i]
    BY <1>2 DEF InvoiceDue
  <2>3. CASE Posted(invoice[i])
    <3>1. OpenInvoices[i] = invoice[i].balanceDue /\ OpenInvoices'[i] = invoice'[i].balanceDue
      BY <1>6, <2>3 DEF OpenInvoices, Posted
    <3>2. QED
      BY <2>1, <2>2, <3>1
  <2>4. CASE ~Posted(invoice[i])
    <3>1. OpenInvoices[i] = 0 /\ OpenInvoices'[i] = 0
      BY <1>6, <2>4 DEF OpenInvoices, Posted
    <3>2. allocs[i] = 0
      BY <1>2, <2>1, <2>4 DEF Posted
    <3>3. QED
      BY <3>1, <3>2
  <2>5. QED
    BY <2>3, <2>4
<1>11. Total(Invoices, OpenInvoices) = Total(Invoices, OpenInvoices)' + Total(Invoices, allocs)
  BY <1>1, <1>4, <1>10, SubledgerTypes, SubledgerTypesNext, TotalPlus, FiniteRows
     DEF SubledgerTyped
<1>12. Total(Payments, OpenPayments)' =
         Total(Payments, OpenPayments) - OpenPayments[p] + OpenPayments'[p]
  BY <1>1, <1>2, OneOpenPayment
<1>13. OpenPayments[p] = 0 /\ OpenPayments'[p] = unapplied
  BY <1>2 DEF OpenPayments, unapplied
<1>14. SubledgerTotals /\ SubledgerTotals' /\ Total(Invoices, allocs) \in Nat
  BY <1>1, <1>4, SubledgerTotalTypes, SubledgerTotalTypesNext, TotalType, FiniteRows
<1>15. receivable \in Int
  BY <1>1 DEF TypeOK
<1> QED
  BY <1>1, <1>2, <1>4, <1>5, <1>7, <1>8, <1>9, <1>11, <1>12, <1>13, <1>14, <1>15
     DEF ControlAccountTiesOut, SubledgerTotals

\* A void opens its allocations again and leaves behind what else was taken.
LEMMA PaymentVoidedTies ==
    ASSUME ControlInv, TypeOK', NEW p \in Payments, PaymentVoided(p)
    PROVE  Unposted' /\ ControlAccountTiesOut'
<1> DEFINE received == payment[p].amountReceived
           allocs == payment[p].allocations
           unapplied == payment[p].unappliedAmount
<1>1. /\ TypeInv /\ TypeOK /\ Unposted /\ ControlAccountTiesOut /\ References
      /\ PaymentLaw(p)
  BY DEF ControlInv, IInv, TypeInv, PaymentInv
<1>2. /\ payment[p].status = "POSTED" /\ payment'[p].status = "VOIDED"
      /\ OnlyPayment(p)
      /\ \A i \in Invoices :
           /\ InvoiceDue(i, invoice[i].balanceDue + allocs[i])
           /\ allocs[i] > 0 => invoice[i].status = "FINALIZED"
      /\ receivable' = receivable + received
      /\ UNCHANGED <<creditNote, allocation, creditAllocation, refund>>
  BY DEF PaymentVoided
<1>3. /\ payment \in [Payments -> Payment] /\ invoice \in [Invoices -> Invoice]
      /\ invoice' \in [Invoices -> Invoice]
  BY <1>1 DEF TypeOK
<1>4. allocs \in [Invoices -> Nat] /\ unapplied \in Nat /\ received \in Nat
  BY <1>3 DEF Payment
<1>5. unapplied + Total(Invoices, allocs) + Total(Allocations, SettledFrom(p))
        + Total(Refunds, RefundedFrom(p)) = received
  BY <1>1, <1>2 DEF PaymentLaw
<1>6. OpenPayments[p] = unapplied /\ OpenPayments'[p] = 0
  BY <1>2 DEF OpenPayments
<1> HIDE DEF received, allocs, unapplied
<1>7. Unposted'
  BY <1>1, <1>2 DEF Unposted, InvoiceDue
<1>8. \A i \in Invoices : Posted(invoice'[i]) <=> Posted(invoice[i])
  BY <1>2 DEF Posted, InvoiceDue
<1>9. /\ OpenCreditNotes' = OpenCreditNotes
      /\ OfVoidedInvoices' = OfVoidedInvoices
      /\ CreditOfVoidedInvoices' = CreditOfVoidedInvoices
  BY <1>1, <1>2, <1>8, OpenKeeps, VoidedKept DEF OpenKept
<1>10. /\ SettledFrom(p) \in [Allocations -> Nat] /\ RefundedFrom(p) \in [Refunds -> Nat]
  BY <1>1, AmountTypes DEF AmountsTyped
<1>11. ASSUME NEW r \in Refunds
       PROVE  RefundsLeftBehind'[r] = RefundsLeftBehind[r] + RefundedFrom(p)[r]
  <2>1. refund[r].amount \in Nat
    BY <1>1 DEF TypeOK, Refund
  <2>2. CASE refund[r].status = "POSTED" /\ refund[r].source = p
    BY <1>2, <2>1, <2>2 DEF RefundsLeftBehind, RefundedFrom
  <2>3. CASE refund[r].status = "POSTED" /\ refund[r].source # p
    <3>1. refund[r].source \in Payments =>
            payment'[refund[r].source] = payment[refund[r].source]
      BY <1>2, <2>3 DEF OnlyPayment
    <3>2. QED
      BY <1>2, <2>1, <2>3, <3>1 DEF RefundsLeftBehind, RefundedFrom
  <2>4. CASE refund[r].status # "POSTED"
    BY <1>2, <2>4 DEF RefundsLeftBehind, RefundedFrom
  <2>5. QED
    BY <2>2, <2>3, <2>4
<1>12. Total(Refunds, RefundsLeftBehind)' =
         Total(Refunds, RefundsLeftBehind) + Total(Refunds, RefundedFrom(p))
  BY <1>1, <1>10, <1>11, SubledgerTypes, SubledgerTypesNext, TotalPlus, FiniteRows
     DEF SubledgerTyped
<1>13. ASSUME NEW u \in Allocations
       PROVE  AllocationsLeftBehind'[u] = AllocationsLeftBehind[u] + SettledFrom(p)[u]
  <2>1. allocation[u].settlementBaseAmount \in Nat
    BY <1>1 DEF TypeOK, Allocation
  <2>2. CASE allocation[u].status = "ACTIVE" /\ allocation[u].payment = p
    BY <1>2, <2>1, <2>2 DEF AllocationsLeftBehind, SettledFrom
  <2>3. CASE allocation[u].status = "ACTIVE" /\ allocation[u].payment # p
    <3>1. payment'[allocation[u].payment] = payment[allocation[u].payment]
      BY <1>1, <1>2, <2>3 DEF OnlyPayment, References
    <3>2. QED
      BY <1>2, <2>1, <2>3, <3>1 DEF AllocationsLeftBehind, SettledFrom
  <2>4. CASE allocation[u].status # "ACTIVE"
    BY <1>2, <2>4 DEF AllocationsLeftBehind, SettledFrom
  <2>5. QED
    BY <2>2, <2>3, <2>4
<1>14. Total(Allocations, AllocationsLeftBehind)' =
         Total(Allocations, AllocationsLeftBehind) + Total(Allocations, SettledFrom(p))
  BY <1>1, <1>10, <1>13, SubledgerTypes, SubledgerTypesNext, TotalPlus, FiniteRows
     DEF SubledgerTyped
<1>15. ASSUME NEW i \in Invoices
       PROVE  OpenInvoices'[i] = OpenInvoices[i] + allocs[i]
  <2>1. /\ invoice[i].balanceDue \in Nat /\ invoice'[i].balanceDue \in Nat
        /\ allocs[i] \in Nat
    BY <1>3, <1>4 DEF Invoice
  <2>2. invoice'[i].balanceDue = invoice[i].balanceDue + allocs[i]
    BY <1>2 DEF InvoiceDue
  <2>3. CASE Posted(invoice[i])
    <3>1. OpenInvoices[i] = invoice[i].balanceDue /\ OpenInvoices'[i] = invoice'[i].balanceDue
      BY <1>8, <2>3 DEF OpenInvoices, Posted
    <3>2. QED
      BY <2>2, <3>1
  <2>4. CASE ~Posted(invoice[i])
    <3>1. OpenInvoices[i] = 0 /\ OpenInvoices'[i] = 0
      BY <1>8, <2>4 DEF OpenInvoices, Posted
    <3>2. allocs[i] = 0
      BY <1>2, <2>1, <2>4 DEF Posted
    <3>3. QED
      BY <3>1, <3>2
  <2>5. QED
    BY <2>3, <2>4
<1>16. Total(Invoices, OpenInvoices)' = Total(Invoices, OpenInvoices) + Total(Invoices, allocs)
  BY <1>1, <1>4, <1>15, SubledgerTypes, SubledgerTypesNext, TotalPlus, FiniteRows
     DEF SubledgerTyped
<1>17. Total(Payments, OpenPayments)' =
         Total(Payments, OpenPayments) - OpenPayments[p] + OpenPayments'[p]
  BY <1>1, <1>2, OneOpenPayment
<1>18. /\ SubledgerTotals /\ Total(Invoices, allocs) \in Nat
       /\ Total(Allocations, SettledFrom(p)) \in Nat
       /\ Total(Refunds, RefundedFrom(p)) \in Nat
  BY <1>1, <1>4, <1>10, SubledgerTotalTypes, TotalType, FiniteRows
<1>19. receivable \in Int
  BY <1>1 DEF TypeOK
<1> QED
  BY <1>1, <1>2, <1>4, <1>5, <1>6, <1>7, <1>9, <1>12, <1>14, <1>16, <1>17, <1>18, <1>19
     DEF ControlAccountTiesOut, SubledgerTotals

\* Later allocations.
LEMMA AllocationTies ==
    ASSUME ControlInv, TypeOK', NEW u \in Allocations,
           AllocationApplied(u) \/ AllocationReversed(u)
    PROVE  Unposted' /\ ControlAccountTiesOut'
<1>1. TypeInv /\ TypeOK /\ Unposted /\ ControlAccountTiesOut /\ References
  BY DEF ControlInv, IInv, TypeInv
<1>2. PICK p \in Payments, i \in Invoices, settlement \in Int, source \in Int :
        /\ payment[p].status = "POSTED" /\ invoice[i].status = "FINALIZED"
        /\ OnlyAllocation(u) /\ OnlyPayment(p) /\ OnlyInvoice(i)
        /\ PaymentOpen(p, payment[p].unappliedAmount - settlement)
        /\ InvoiceDue(i, invoice[i].balanceDue - source)
        /\ receivable' = receivable + settlement - source
        /\ \/ allocation[u].status # "ACTIVE"
           \/ allocation[u].payment = p /\ allocation[u].invoice = i
        /\ \/ allocation'[u].status # "ACTIVE"
           \/ allocation'[u].payment = p /\ allocation'[u].invoice = i
        /\ UNCHANGED <<creditNote, creditAllocation, refund>>
  <2>1. CASE AllocationApplied(u)
    <3> DEFINE p == allocation'[u].payment
               i == allocation'[u].invoice
               settlement == allocation'[u].settlementBaseAmount
               source == allocation'[u].sourceBaseAmount
    <3>1. /\ p \in Payments /\ i \in Invoices
          /\ allocation[u].status # "ACTIVE"
          /\ payment[p].status = "POSTED" /\ invoice[i].status = "FINALIZED"
          /\ OnlyAllocation(u) /\ OnlyPayment(p) /\ OnlyInvoice(i)
          /\ PaymentOpen(p, payment[p].unappliedAmount - settlement)
          /\ InvoiceDue(i, invoice[i].balanceDue - source)
          /\ receivable' = receivable + settlement - source
          /\ UNCHANGED <<creditNote, creditAllocation, refund>>
      BY <2>1 DEF AllocationApplied
    <3>2. settlement \in Int /\ source \in Int
      BY DEF TypeOK, Allocation
    <3>3. QED
      BY <3>1, <3>2
  <2>2. CASE AllocationReversed(u)
    <3> DEFINE p == allocation[u].payment
               i == allocation[u].invoice
               settlement == 0 - allocation[u].settlementBaseAmount
               source == 0 - allocation[u].sourceBaseAmount
    <3>1. /\ p \in Payments /\ i \in Invoices
          /\ allocation'[u].status = "REVERSED"
          /\ payment[p].status = "POSTED" /\ invoice[i].status = "FINALIZED"
          /\ OnlyAllocation(u) /\ OnlyPayment(p) /\ OnlyInvoice(i)
          /\ UNCHANGED <<creditNote, creditAllocation, refund>>
      BY <2>2 DEF AllocationReversed
    <3>2. /\ allocation[u].settlementBaseAmount \in Nat
          /\ allocation[u].sourceBaseAmount \in Nat
      BY <1>1 DEF TypeOK, Allocation
    <3>3. payment[p].unappliedAmount \in Nat /\ invoice[i].balanceDue \in Nat
          /\ receivable \in Int
      BY <1>1, <3>1 DEF TypeOK, Payment, Invoice
    <3>4. /\ PaymentOpen(p, payment[p].unappliedAmount - settlement)
          /\ InvoiceDue(i, invoice[i].balanceDue - source)
          /\ receivable' = receivable + settlement - source
      BY <2>2, <3>2, <3>3 DEF AllocationReversed, PaymentOpen, InvoiceDue
    <3>5. settlement \in Int /\ source \in Int
      BY <3>2
    <3>6. QED
      BY <3>1, <3>4, <3>5
  <2>3. QED
    BY <2>1, <2>2
<1>3. StatusesKept
  BY <1>2 DEF StatusesKept, OnlyPayment, OnlyInvoice, PaymentOpen, InvoiceDue
<1>4. /\ Unposted' /\ RefundsLeftBehind' = RefundsLeftBehind
      /\ CreditOfVoidedInvoices' = CreditOfVoidedInvoices
      /\ OpenCreditNotes' = OpenCreditNotes
  BY <1>1, <1>2, <1>3, StatusesKeep, OpenKeeps DEF OpenKept
<1>5. AllocationsLeftBehind' = AllocationsLeftBehind
  <2>1. ASSUME NEW v \in Allocations
        PROVE  AllocationsLeftBehind'[v] = AllocationsLeftBehind[v]
    <3>1. CASE v = u
      BY <1>2, <1>3, <3>1 DEF AllocationsLeftBehind, StatusesKept
    <3>2. CASE v # u
      <4>1. allocation'[v] = allocation[v]
        BY <1>2, <3>2 DEF OnlyAllocation
      <4>2. allocation[v].status = "ACTIVE" =>
              payment'[allocation[v].payment].status = payment[allocation[v].payment].status
        BY <1>1, <1>3 DEF References, StatusesKept
      <4>3. QED
        BY <4>1, <4>2 DEF AllocationsLeftBehind
    <3>3. QED
      BY <3>1, <3>2
  <2>2. QED
    BY <1>1, <2>1, SubledgerTypes, SubledgerTypesNext DEF SubledgerTyped
<1>6. OfVoidedInvoices' = OfVoidedInvoices
  <2>1. ASSUME NEW v \in Allocations
        PROVE  OfVoidedInvoices'[v] = OfVoidedInvoices[v]
    <3>1. CASE v = u
      BY <1>2, <1>3, <3>1 DEF OfVoidedInvoices, StatusesKept, Posted
    <3>2. CASE v # u
      <4>1. allocation'[v] = allocation[v]
        BY <1>2, <3>2 DEF OnlyAllocation
      <4>2. allocation[v].status = "ACTIVE" =>
              (Posted(invoice'[allocation[v].invoice])
                 <=> Posted(invoice[allocation[v].invoice]))
        BY <1>1, <1>3 DEF References, StatusesKept, Posted
      <4>3. QED
        BY <4>1, <4>2 DEF OfVoidedInvoices, Posted
    <3>3. QED
      BY <3>1, <3>2
  <2>2. QED
    BY <1>1, <2>1, SubledgerTypes, SubledgerTypesNext DEF SubledgerTyped
<1>7. /\ Total(Payments, OpenPayments)' =
           Total(Payments, OpenPayments) - OpenPayments[p] + OpenPayments'[p]
      /\ Total(Invoices, OpenInvoices)' =
           Total(Invoices, OpenInvoices) - OpenInvoices[i] + OpenInvoices'[i]
      /\ OpenPayments[p] \in Nat /\ OpenInvoices[i] \in Nat
  BY <1>1, <1>2, OneOpenPayment, OneOpenInvoice
<1>8. OpenPayments'[p] = OpenPayments[p] - settlement
  BY <1>2 DEF OpenPayments, PaymentOpen
<1>9. OpenInvoices'[i] = OpenInvoices[i] - source
  BY <1>2 DEF OpenInvoices, Posted, InvoiceDue
<1>10. SubledgerTotals /\ receivable \in Int
  BY <1>1, SubledgerTotalTypes DEF TypeOK
<1> QED
  BY <1>1, <1>2, <1>4, <1>5, <1>6, <1>7, <1>8, <1>9, <1>10
     DEF ControlAccountTiesOut, SubledgerTotals

\* Changes of credit notes.
LEMMA CreditNoteTies ==
    ASSUME ControlInv, TypeOK', NEW c \in CreditNotes,
           \/ CreditNoteDrafted(c) \/ CreditNoteFinalized(c) \/ CreditNoteVoided(c)
    PROVE  Unposted' /\ ControlAccountTiesOut'
<1>1. /\ TypeInv /\ TypeOK /\ Unposted /\ ControlAccountTiesOut /\ CreditNoteLaw(c)
  BY DEF ControlInv, IInv, TypeInv, CreditNoteInv
<1>2. OnlyCreditNote(c) /\ UNCHANGED <<invoice, payment, allocation, creditAllocation, refund>>
  BY DEF CreditNoteDrafted, CreditNoteFinalized, CreditNoteVoided
<1>3. \A i \in Invoices : Posted(invoice'[i]) <=> Posted(invoice[i])
  BY <1>2 DEF Posted
<1>4. /\ OpenInvoices' = OpenInvoices /\ OpenPayments' = OpenPayments
      /\ RefundsLeftBehind' = RefundsLeftBehind
      /\ AllocationsLeftBehind' = AllocationsLeftBehind
      /\ OfVoidedInvoices' = OfVoidedInvoices
      /\ CreditOfVoidedInvoices' = CreditOfVoidedInvoices
  BY <1>1, <1>2, <1>3, OpenKeeps, LeftBehindKept, VoidedKept DEF OpenKept
<1>5. Total(CreditNotes, OpenCreditNotes)' =
        Total(CreditNotes, OpenCreditNotes) - OpenCreditNotes[c] + OpenCreditNotes'[c]
  BY <1>1, <1>2, OneOpenCreditNote
<1>6. SubledgerTotals /\ receivable \in Int
  BY <1>1, SubledgerTotalTypes DEF TypeOK
<1>7. /\ creditNote[c].posted \in Nat /\ creditNote[c].unappliedAmount \in Nat
      /\ creditNote'[c].posted \in Nat
  BY <1>1 DEF TypeOK, CreditNote
<1>8. Unposted' /\ receivable' = receivable + OpenCreditNotes[c] - OpenCreditNotes'[c]
  <2>1. CASE CreditNoteDrafted(c)
    <3>1. Unposted'
      BY <1>1, <1>2, <2>1 DEF CreditNoteDrafted, OnlyCreditNote, Unposted
    <3>2. OpenCreditNotes[c] = 0 /\ OpenCreditNotes'[c] = 0
      BY <2>1 DEF CreditNoteDrafted, OpenCreditNotes, Posted
    <3>3. receivable' = receivable
      BY <2>1 DEF CreditNoteDrafted
    <3>4. QED
      BY <1>6, <3>1, <3>2, <3>3
  <2>2. CASE CreditNoteFinalized(c)
    <3>1. Unposted'
      BY <1>1, <1>2, <2>2 DEF CreditNoteFinalized, OnlyCreditNote, Unposted
    <3>2. OpenCreditNotes[c] = 0 /\ OpenCreditNotes'[c] = creditNote'[c].posted
      BY <2>2 DEF CreditNoteFinalized, OpenCreditNotes, Posted
    <3>3. receivable' = receivable - creditNote'[c].posted
      BY <2>2 DEF CreditNoteFinalized
    <3>4. QED
      BY <1>6, <1>7, <3>1, <3>2, <3>3
  <2>3. CASE CreditNoteVoided(c)
    <3>1. Unposted'
      BY <1>1, <1>2, <2>3 DEF CreditNoteVoided, OnlyCreditNote, Unposted
    <3>2. OpenCreditNotes'[c] = 0
      BY <2>3 DEF CreditNoteVoided, OpenCreditNotes, Posted
    <3>3. receivable' = receivable + creditNote[c].posted
      BY <2>3 DEF CreditNoteVoided
    <3>4. OpenCreditNotes[c] = creditNote[c].posted
      <4>1. CASE creditNote[c].status = "DRAFT"
        BY <1>1, <4>1 DEF OpenCreditNotes, Posted, Unposted
      <4>2. CASE creditNote[c].status = "FINALIZED"
        <5>1. CreditedFrom(c) \in [CreditAllocations -> Nat]
              /\ RefundedFrom(c) \in [Refunds -> Nat]
          BY <1>1, AmountTypes DEF AmountsTyped
        <5>2. \A k \in CreditAllocations : CreditedFrom(c)[k] = 0
          BY <2>3, <4>2 DEF CreditNoteVoided, HasActiveUses, CreditedFrom
        <5>3. \A r \in Refunds : RefundedFrom(c)[r] = 0
          BY <2>3, <4>2 DEF CreditNoteVoided, HasActiveUses, RefundedFrom
        <5>4. Total(CreditAllocations, CreditedFrom(c)) = 0
              /\ Total(Refunds, RefundedFrom(c)) = 0
          BY <5>1, <5>2, <5>3, TotalZero
        <5>5. creditNote[c].unappliedAmount + Total(CreditAllocations, CreditedFrom(c))
                + Total(Refunds, RefundedFrom(c)) = creditNote[c].posted
          BY <1>1, <4>2 DEF CreditNoteLaw
        <5>6. OpenCreditNotes[c] = creditNote[c].unappliedAmount
          BY <4>2 DEF OpenCreditNotes, Posted
        <5>7. QED
          BY <1>7, <5>4, <5>5, <5>6
      <4>3. QED
        BY <2>3, <4>1, <4>2 DEF CreditNoteVoided
    <3>5. QED
      BY <1>6, <1>7, <3>1, <3>2, <3>3, <3>4
  <2>4. QED
    BY <2>1, <2>2, <2>3
<1>9. OpenCreditNotes[c] \in Nat /\ OpenCreditNotes'[c] \in Nat
  BY <1>1, <1>2, OneOpenCreditNote
<1> QED
  BY <1>1, <1>4, <1>5, <1>6, <1>8, <1>9 DEF ControlAccountTiesOut, SubledgerTotals

\* A deletion cascades to allocations of finalized invoices only.
LEMMA CreditNoteRemovedTies ==
    ASSUME ControlInv, TypeOK', NEW c \in CreditNotes, CreditNoteRemoved(c)
    PROVE  Unposted' /\ ControlAccountTiesOut'
<1>1. /\ TypeInv /\ TypeOK /\ Unposted /\ ControlAccountTiesOut /\ CreditNoteLaw(c)
      /\ ApplicationsBacked
  BY DEF ControlInv, IInv, TypeInv, CreditNoteInv, BackedInv
<1>2. /\ OnlyCreditNote(c) /\ UNCHANGED <<invoice, payment, allocation, refund, receivable>>
      /\ creditNote[c].status # "DELETED" /\ creditNote'[c].status = "DELETED"
      /\ creditNote'[c].posted = creditNote[c].posted
      /\ creditNote'[c].unappliedAmount = creditNote[c].unappliedAmount
  BY DEF CreditNoteRemoved
<1>3. \A i \in Invoices : Posted(invoice'[i]) <=> Posted(invoice[i])
  BY <1>2 DEF Posted
<1>4. /\ OpenInvoices' = OpenInvoices /\ OpenPayments' = OpenPayments
      /\ RefundsLeftBehind' = RefundsLeftBehind
      /\ AllocationsLeftBehind' = AllocationsLeftBehind
      /\ OfVoidedInvoices' = OfVoidedInvoices
  BY <1>1, <1>2, <1>3, OpenKeeps, LeftBehindKept, VoidedKept DEF OpenKept
<1>5. Unposted'
  BY <1>1, <1>2 DEF OnlyCreditNote, Unposted
<1>6. Total(CreditNotes, OpenCreditNotes)' =
        Total(CreditNotes, OpenCreditNotes) - OpenCreditNotes[c] + OpenCreditNotes'[c]
      /\ OpenCreditNotes[c] \in Nat
  BY <1>1, <1>2, OneOpenCreditNote
<1>7. OpenCreditNotes'[c] = OpenCreditNotes[c]
  <2>1. creditNote[c].posted \in Nat /\ creditNote[c].unappliedAmount \in Nat
    BY <1>1 DEF TypeOK, CreditNote
  <2>2. CASE creditNote[c].posted > 0
    <3>1. creditNote[c].status = "FINALIZED"
      BY <1>1, <1>2, <2>2 DEF Unposted, TypeOK, CreditNote, DocumentStatus
    <3>2. QED
      BY <1>2, <2>2, <3>1 DEF OpenCreditNotes, Posted
  <2>3. CASE creditNote[c].posted = 0
    <3>1. OpenCreditNotes'[c] = 0
      BY <1>2, <2>3 DEF OpenCreditNotes, Posted
    <3>2. CASE creditNote[c].status = "FINALIZED"
      <4>1. /\ Total(CreditAllocations, CreditedFrom(c)) \in Nat
            /\ Total(Refunds, RefundedFrom(c)) \in Nat
        BY <1>1, AmountTypes, TotalTypes
      <4>2. creditNote[c].unappliedAmount + Total(CreditAllocations, CreditedFrom(c))
              + Total(Refunds, RefundedFrom(c)) = creditNote[c].posted
        BY <1>1, <3>2 DEF CreditNoteLaw
      <4>3. creditNote[c].unappliedAmount = 0
        BY <2>1, <2>3, <4>1, <4>2
      <4>4. QED
        BY <3>1, <3>2, <4>3 DEF OpenCreditNotes, Posted
    <3>3. CASE creditNote[c].status # "FINALIZED"
      BY <1>2, <3>1, <3>3 DEF OpenCreditNotes, Posted
    <3>4. QED
      BY <3>2, <3>3
  <2>4. QED
    BY <2>1, <2>2, <2>3
<1>8. CreditOfVoidedInvoices' = CreditOfVoidedInvoices
  <2>1. ASSUME NEW k \in CreditAllocations
        PROVE  CreditOfVoidedInvoices'[k] = CreditOfVoidedInvoices[k]
    <3>1. CASE creditAllocation'[k] = creditAllocation[k]
      BY <1>2, <3>1 DEF CreditOfVoidedInvoices, Posted
    <3>2. CASE /\ creditAllocation[k].status = "ACTIVE"
               /\ creditAllocation'[k].status = "CASCADED"
               /\ creditAllocation'[k].invoice = creditAllocation[k].invoice
      BY <1>1, <1>2, <3>2 DEF CreditOfVoidedInvoices, Posted, ApplicationsBacked
    <3>3. QED
      BY <3>1, <3>2 DEF CreditNoteRemoved
  <2>2. QED
    BY <1>1, <2>1, SubledgerTypes, SubledgerTypesNext DEF SubledgerTyped
<1>9. SubledgerTotals
  BY <1>1, SubledgerTotalTypes
<1> QED
  BY <1>1, <1>2, <1>4, <1>5, <1>6, <1>7, <1>8, <1>9
     DEF ControlAccountTiesOut, SubledgerTotals

\* Matching posts no journal: invoice and credit note move together.
LEMMA CreditTies ==
    ASSUME ControlInv, TypeOK', NEW k \in CreditAllocations,
           CreditApplied(k) \/ CreditReversed(k)
    PROVE  Unposted' /\ ControlAccountTiesOut'
<1>1. TypeInv /\ TypeOK /\ Unposted /\ ControlAccountTiesOut /\ References
  BY DEF ControlInv, IInv, TypeInv
<1>2. PICK c \in CreditNotes, i \in Invoices, amount \in Int :
        /\ creditNote[c].status = "FINALIZED" /\ invoice[i].status = "FINALIZED"
        /\ OnlyCredit(k) /\ OnlyCreditNote(c) /\ OnlyInvoice(i)
        /\ CreditNoteOpen(c, creditNote[c].unappliedAmount - amount)
        /\ InvoiceDue(i, invoice[i].balanceDue - amount)
  <2>1. CASE CreditApplied(k)
    <3>1. creditAllocation'[k].amount \in Int
      BY DEF TypeOK, CreditAllocation
    <3>2. QED
      BY <2>1, <3>1 DEF CreditApplied
  <2>2. CASE CreditReversed(k)
    <3> DEFINE c == creditAllocation[k].creditNote
               i == creditAllocation[k].invoice
               amount == 0 - creditAllocation[k].amount
    <3>1. /\ c \in CreditNotes /\ i \in Invoices
          /\ creditNote[c].status = "FINALIZED" /\ invoice[i].status = "FINALIZED"
          /\ OnlyCredit(k) /\ OnlyCreditNote(c) /\ OnlyInvoice(i)
      BY <2>2 DEF CreditReversed
    <3>2. creditAllocation[k].amount \in Nat
      BY <1>1 DEF TypeOK, CreditAllocation
    <3>3. creditNote[c].unappliedAmount \in Nat /\ invoice[i].balanceDue \in Nat
      BY <1>1, <3>1 DEF TypeOK, CreditNote, Invoice
    <3>4. /\ CreditNoteOpen(c, creditNote[c].unappliedAmount - amount)
          /\ InvoiceDue(i, invoice[i].balanceDue - amount)
      BY <2>2, <3>2, <3>3 DEF CreditReversed, CreditNoteOpen, InvoiceDue
    <3>5. amount \in Int
      BY <3>2
    <3>6. QED
      BY <3>1, <3>4, <3>5
  <2>3. QED
    BY <2>1, <2>2
<1>3. /\ UNCHANGED <<payment, allocation, refund, receivable>>
      /\ creditAllocation[k].status # "CASCADED"
      /\ creditAllocation'[k].status # "CASCADED"
  BY DEF CreditApplied, CreditReversed
<1>4. StatusesKept
  BY <1>2, <1>3 DEF StatusesKept, OnlyCreditNote, OnlyInvoice, CreditNoteOpen, InvoiceDue
<1>5. /\ Unposted' /\ RefundsLeftBehind' = RefundsLeftBehind
      /\ AllocationsLeftBehind' = AllocationsLeftBehind
      /\ OfVoidedInvoices' = OfVoidedInvoices
      /\ OpenPayments' = OpenPayments
  BY <1>1, <1>3, <1>4, StatusesKeep, OpenKeeps DEF OpenKept
<1>6. CreditOfVoidedInvoices' = CreditOfVoidedInvoices
  <2>1. ASSUME NEW l \in CreditAllocations
        PROVE  CreditOfVoidedInvoices'[l] = CreditOfVoidedInvoices[l]
    <3>1. CASE l = k
      BY <1>3, <3>1 DEF CreditOfVoidedInvoices
    <3>2. CASE l # k
      <4>1. creditAllocation'[l] = creditAllocation[l]
        BY <1>2, <3>2 DEF OnlyCredit
      <4>2. creditAllocation[l].status = "CASCADED" =>
              (Posted(invoice'[creditAllocation[l].invoice])
                 <=> Posted(invoice[creditAllocation[l].invoice]))
        BY <1>1, <1>4 DEF References, StatusesKept, Posted
      <4>3. QED
        BY <4>1, <4>2 DEF CreditOfVoidedInvoices, Posted
    <3>3. QED
      BY <3>1, <3>2
  <2>2. QED
    BY <1>1, <2>1, SubledgerTypes, SubledgerTypesNext DEF SubledgerTyped
<1>7. /\ Total(CreditNotes, OpenCreditNotes)' =
           Total(CreditNotes, OpenCreditNotes) - OpenCreditNotes[c] + OpenCreditNotes'[c]
      /\ Total(Invoices, OpenInvoices)' =
           Total(Invoices, OpenInvoices) - OpenInvoices[i] + OpenInvoices'[i]
      /\ OpenCreditNotes[c] \in Nat /\ OpenInvoices[i] \in Nat
  BY <1>1, <1>2, OneOpenCreditNote, OneOpenInvoice
<1>8. OpenCreditNotes'[c] = OpenCreditNotes[c] - amount
  BY <1>2 DEF OpenCreditNotes, Posted, CreditNoteOpen
<1>9. OpenInvoices'[i] = OpenInvoices[i] - amount
  BY <1>2 DEF OpenInvoices, Posted, InvoiceDue
<1>10. SubledgerTotals /\ receivable \in Int
  BY <1>1, SubledgerTotalTypes DEF TypeOK
<1> QED
  BY <1>1, <1>2, <1>3, <1>5, <1>6, <1>7, <1>8, <1>9, <1>10
     DEF ControlAccountTiesOut, SubledgerTotals

\* Changes of refunds.
LEMMA PaymentRefundTies ==
    ASSUME ControlInv, TypeOK', NEW r \in Refunds,
           PaymentRefunded(r) \/ PaymentRefundVoided(r)
    PROVE  Unposted' /\ ControlAccountTiesOut'
<1>1. TypeInv /\ TypeOK /\ Unposted /\ ControlAccountTiesOut
  BY DEF ControlInv, IInv, TypeInv
<1>2. PICK p \in Payments, amount \in Int :
        /\ payment[p].status = "POSTED"
        /\ OnlyRefund(r) /\ OnlyPayment(p)
        /\ PaymentOpen(p, payment[p].unappliedAmount - amount)
        /\ receivable' = receivable + amount
        /\ refund[r].status = "POSTED" => refund[r].source = p
        /\ refund'[r].status = "POSTED" => refund'[r].source = p
  <2>1. CASE PaymentRefunded(r)
    <3>1. refund'[r].amount \in Int
      BY DEF TypeOK, Refund
    <3>2. QED
      BY <2>1, <3>1 DEF PaymentRefunded
  <2>2. CASE PaymentRefundVoided(r)
    <3> DEFINE p == refund[r].source
               amount == 0 - refund[r].amount
    <3>1. /\ p \in Payments /\ payment[p].status = "POSTED"
          /\ OnlyRefund(r) /\ OnlyPayment(p) /\ refund'[r].status = "VOIDED"
      BY <2>2 DEF PaymentRefundVoided
    <3>2. refund[r].amount \in Nat /\ receivable \in Int
      BY <1>1 DEF TypeOK, Refund
    <3>3. payment[p].unappliedAmount \in Nat
      BY <1>1, <3>1 DEF TypeOK, Payment
    <3>4. PaymentOpen(p, payment[p].unappliedAmount - amount)
          /\ receivable' = receivable + amount
      BY <2>2, <3>2, <3>3 DEF PaymentRefundVoided, PaymentOpen
    <3>5. amount \in Int
      BY <3>2
    <3>6. QED
      BY <3>1, <3>4, <3>5
  <2>3. QED
    BY <2>1, <2>2
<1>3. UNCHANGED <<invoice, creditNote, allocation, creditAllocation>>
  BY DEF PaymentRefunded, PaymentRefundVoided
<1>4. StatusesKept
  BY <1>2, <1>3 DEF StatusesKept, OnlyPayment, PaymentOpen
<1>5. /\ Unposted' /\ OpenInvoices' = OpenInvoices /\ OpenCreditNotes' = OpenCreditNotes
      /\ AllocationsLeftBehind' = AllocationsLeftBehind
      /\ OfVoidedInvoices' = OfVoidedInvoices
      /\ CreditOfVoidedInvoices' = CreditOfVoidedInvoices
  BY <1>1, <1>3, <1>4, StatusesKeep, OpenKeeps DEF OpenKept
<1>6. RefundsLeftBehind' = RefundsLeftBehind
  <2>1. ASSUME NEW q \in Refunds
        PROVE  RefundsLeftBehind'[q] = RefundsLeftBehind[q]
    <3>1. CASE q = r
      BY <1>2, <1>4, <3>1 DEF RefundsLeftBehind, StatusesKept
    <3>2. CASE q # r
      BY <1>2, <1>4, <3>2 DEF OnlyRefund, RefundsLeftBehind, StatusesKept
    <3>3. QED
      BY <3>1, <3>2
  <2>2. QED
    BY <1>1, <2>1, SubledgerTypes, SubledgerTypesNext DEF SubledgerTyped
<1>7. /\ Total(Payments, OpenPayments)' =
           Total(Payments, OpenPayments) - OpenPayments[p] + OpenPayments'[p]
      /\ OpenPayments[p] \in Nat
  BY <1>1, <1>2, OneOpenPayment
<1>8. OpenPayments'[p] = OpenPayments[p] - amount
  BY <1>2 DEF OpenPayments, PaymentOpen
<1>9. SubledgerTotals /\ receivable \in Int
  BY <1>1, SubledgerTotalTypes DEF TypeOK
<1> QED
  BY <1>1, <1>2, <1>5, <1>6, <1>7, <1>8, <1>9 DEF ControlAccountTiesOut, SubledgerTotals

\* A credit note's refund and its voiding keep the control account tied out.
LEMMA CreditNoteRefundTies ==
    ASSUME ControlInv, TypeOK', NEW r \in Refunds,
           CreditNoteRefunded(r) \/ CreditNoteRefundVoided(r)
    PROVE  Unposted' /\ ControlAccountTiesOut'
<1>1. TypeInv /\ TypeOK /\ Unposted /\ ControlAccountTiesOut
  BY DEF ControlInv, IInv, TypeInv
<1>2. PICK c \in CreditNotes, amount \in Int :
        /\ creditNote[c].status = "FINALIZED"
        /\ OnlyRefund(r) /\ OnlyCreditNote(c)
        /\ CreditNoteOpen(c, creditNote[c].unappliedAmount - amount)
        /\ receivable' = receivable + amount
        /\ refund[r].status = "POSTED" => refund[r].source = c
        /\ refund'[r].status = "POSTED" => refund'[r].source = c
  <2>1. CASE CreditNoteRefunded(r)
    <3>1. refund'[r].amount \in Int
      BY DEF TypeOK, Refund
    <3>2. QED
      BY <2>1, <3>1 DEF CreditNoteRefunded
  <2>2. CASE CreditNoteRefundVoided(r)
    <3> DEFINE c == refund[r].source
               amount == 0 - refund[r].amount
    <3>1. /\ c \in CreditNotes /\ creditNote[c].status = "FINALIZED"
          /\ OnlyRefund(r) /\ OnlyCreditNote(c) /\ refund'[r].status = "VOIDED"
      BY <2>2 DEF CreditNoteRefundVoided
    <3>2. refund[r].amount \in Nat /\ receivable \in Int
      BY <1>1 DEF TypeOK, Refund
    <3>3. creditNote[c].unappliedAmount \in Nat
      BY <1>1, <3>1 DEF TypeOK, CreditNote
    <3>4. CreditNoteOpen(c, creditNote[c].unappliedAmount - amount)
          /\ receivable' = receivable + amount
      BY <2>2, <3>2, <3>3 DEF CreditNoteRefundVoided, CreditNoteOpen
    <3>5. amount \in Int
      BY <3>2
    <3>6. QED
      BY <3>1, <3>4, <3>5
  <2>3. QED
    BY <2>1, <2>2
<1>3. UNCHANGED <<invoice, payment, allocation, creditAllocation>>
  BY DEF CreditNoteRefunded, CreditNoteRefundVoided
<1>4. StatusesKept
  BY <1>2, <1>3 DEF StatusesKept, OnlyCreditNote, CreditNoteOpen
<1>5. /\ Unposted' /\ OpenInvoices' = OpenInvoices /\ OpenPayments' = OpenPayments
      /\ AllocationsLeftBehind' = AllocationsLeftBehind
      /\ OfVoidedInvoices' = OfVoidedInvoices
      /\ CreditOfVoidedInvoices' = CreditOfVoidedInvoices
  BY <1>1, <1>3, <1>4, StatusesKeep, OpenKeeps DEF OpenKept
<1>6. RefundsLeftBehind' = RefundsLeftBehind
  <2>0. c \notin Payments
    BY IdsDistinct
  <2>1. ASSUME NEW q \in Refunds
        PROVE  RefundsLeftBehind'[q] = RefundsLeftBehind[q]
    <3>1. CASE q = r
      BY <1>2, <2>0, <3>1 DEF RefundsLeftBehind
    <3>2. CASE q # r
      BY <1>2, <1>3, <3>2 DEF OnlyRefund, RefundsLeftBehind
    <3>3. QED
      BY <3>1, <3>2
  <2>2. QED
    BY <1>1, <2>1, SubledgerTypes, SubledgerTypesNext DEF SubledgerTyped
<1>7. /\ Total(CreditNotes, OpenCreditNotes)' =
           Total(CreditNotes, OpenCreditNotes) - OpenCreditNotes[c] + OpenCreditNotes'[c]
      /\ OpenCreditNotes[c] \in Nat
  BY <1>1, <1>2, OneOpenCreditNote
<1>8. OpenCreditNotes'[c] = OpenCreditNotes[c] - amount
  BY <1>2 DEF OpenCreditNotes, Posted, CreditNoteOpen
<1>9. SubledgerTotals /\ receivable \in Int
  BY <1>1, SubledgerTotalTypes DEF TypeOK
<1> QED
  BY <1>1, <1>2, <1>5, <1>6, <1>7, <1>8, <1>9 DEF ControlAccountTiesOut, SubledgerTotals

\* No change of the rows makes the account drift.
LEMMA ControlStep ==
    ASSUME ControlInv, TypeOK', RowChange
    PROVE  Unposted' /\ ControlAccountTiesOut'
<1>1. CASE UNCHANGED rows
  <2>1. /\ UNCHANGED <<invoice, payment, creditNote, allocation, creditAllocation,
                       refund, receivable>>
        /\ TypeInv /\ Unposted /\ ControlAccountTiesOut
    BY <1>1 DEF rows, ControlInv, IInv
  <2>2. StatusesKept
    BY <2>1 DEF StatusesKept
  <2>3. Unposted'
    BY <2>1 DEF Unposted
  <2>4. /\ OpenInvoices' = OpenInvoices /\ OpenPayments' = OpenPayments
        /\ OpenCreditNotes' = OpenCreditNotes
        /\ RefundsLeftBehind' = RefundsLeftBehind
        /\ AllocationsLeftBehind' = AllocationsLeftBehind
        /\ OfVoidedInvoices' = OfVoidedInvoices
        /\ CreditOfVoidedInvoices' = CreditOfVoidedInvoices
    BY <2>1, <2>2, StatusesKeep, OpenKeeps DEF OpenKept
  <2>5. QED
    BY <2>1, <2>3, <2>4 DEF ControlAccountTiesOut
<1>2. QED
  BY <1>1, InvoiceDraftTies, InvoiceFinalizedTies, InvoiceVoidedTies, InvoiceRemovedTies,
     PaymentCreatedTies, PaymentVoidedTies, AllocationTies, CreditNoteTies,
     CreditNoteRemovedTies, CreditTies, PaymentRefundTies, CreditNoteRefundTies
     DEF RowChange

\* With no document yet every sum is zero.
LEMMA ControlInit == Init => Unposted /\ ControlAccountTiesOut
<1> SUFFICES ASSUME Init
             PROVE  Unposted /\ ControlAccountTiesOut
  OBVIOUS
<1>1. Unposted
  BY DEF Init, Unposted
<1>2. SubledgerTyped
  BY InitInv, SubledgerTypes DEF IInv, TypeInv
<1>3. \A i \in Invoices : OpenInvoices[i] = 0
  BY DEF Init, OpenInvoices, Posted
<1>4. \A p \in Payments : OpenPayments[p] = 0
  BY DEF Init, OpenPayments
<1>5. \A c \in CreditNotes : OpenCreditNotes[c] = 0
  BY DEF Init, OpenCreditNotes, Posted
<1>6. \A r \in Refunds : RefundsLeftBehind[r] = 0
  BY DEF Init, RefundsLeftBehind
<1>7. \A u \in Allocations : AllocationsLeftBehind[u] = 0 /\ OfVoidedInvoices[u] = 0
  BY DEF Init, AllocationsLeftBehind, OfVoidedInvoices
<1>8. \A k \in CreditAllocations : CreditOfVoidedInvoices[k] = 0
  BY DEF Init, CreditOfVoidedInvoices
<1>9. /\ Total(Invoices, OpenInvoices) = 0 /\ Total(Payments, OpenPayments) = 0
      /\ Total(CreditNotes, OpenCreditNotes) = 0
      /\ Total(Refunds, RefundsLeftBehind) = 0
      /\ Total(Allocations, AllocationsLeftBehind) = 0
      /\ Total(Allocations, OfVoidedInvoices) = 0
      /\ Total(CreditAllocations, CreditOfVoidedInvoices) = 0
  BY <1>2, <1>3, <1>4, <1>5, <1>6, <1>7, <1>8, TotalZero DEF SubledgerTyped
<1>10. receivable = 0
  BY DEF Init
<1>11. QED
  BY <1>1, <1>9, <1>10 DEF ControlAccountTiesOut

\* The AR control account is the customer subledger, up to what voids and
\* deletions leave behind.
THEOREM ControlAccountTies == Spec => []ControlAccountTiesOut
<1>1. Init => Unposted /\ ControlAccountTiesOut
  BY ControlInit
<1>2. IInv /\ BackedInv /\ Unposted /\ ControlAccountTiesOut /\ IInv' /\ [Next]_vars
        => Unposted' /\ ControlAccountTiesOut'
  BY ControlStep, StepChangesRows DEF ControlInv, IInv, TypeInv
<1>3. QED
  BY <1>1, <1>2, Invariance, BackedInvariance, PTL DEF Spec

-----------------------------------------------------------------------------
(* The refinement.  First the values of the mapping, row by row.            *)

SameItem(x) ==
    /\ ItemState'[x] = ItemState[x]
    /\ ItemAmount'[x] = ItemAmount[x]
    /\ ItemRemaining'[x] = ItemRemaining[x]

SameUse(u) == \A x \in Items : ItemsTaken'[u][x] = ItemsTaken[u][x]

\* What the mapping says of an item.
ValuesOfItems ==
    /\ \A i \in Invoices :
         /\ i \in Items
         /\ ItemState[i] = StateOf(invoice[i].status)
         /\ ItemAmount[i] =
              IF invoice[i].status = "FINALIZED" THEN invoice[i].posted ELSE 0
         /\ ItemRemaining[i] =
              IF invoice[i].status = "FINALIZED" THEN invoice[i].balanceDue ELSE 0
    /\ \A p \in Payments :
         /\ p \in Items
         /\ ItemState[p] = StateOf(payment[p].status)
         /\ ItemAmount[p] =
              IF payment[p].status = "POSTED" THEN payment[p].amountReceived ELSE 0
         /\ ItemRemaining[p] =
              IF payment[p].status = "POSTED" THEN payment[p].unappliedAmount ELSE 0
    /\ \A c \in CreditNotes :
         /\ c \in Items
         /\ ItemState[c] = StateOf(creditNote[c].status)
         /\ ItemAmount[c] =
              IF creditNote[c].status = "FINALIZED" THEN creditNote[c].posted ELSE 0
         /\ ItemRemaining[c] =
              IF creditNote[c].status = "FINALIZED"
              THEN creditNote[c].unappliedAmount ELSE 0

\* The items have these values in every state.
LEMMA ItemValues == ValuesOfItems
<1>1. \A p \in Payments : p \notin Invoices
  BY IdsDistinct
<1>2. \A c \in CreditNotes : c \notin Invoices /\ c \notin Payments
  BY IdsDistinct
<1>3. \A i \in Invoices :
         /\ i \in Items
         /\ ItemState[i] = StateOf(invoice[i].status)
         /\ ItemAmount[i] =
              IF invoice[i].status = "FINALIZED" THEN invoice[i].posted ELSE 0
         /\ ItemRemaining[i] =
              IF invoice[i].status = "FINALIZED" THEN invoice[i].balanceDue ELSE 0
  BY <1>1 DEF Items, ItemState, ItemAmount, ItemRemaining
<1>4. \A p \in Payments :
         /\ p \in Items
         /\ ItemState[p] = StateOf(payment[p].status)
         /\ ItemAmount[p] =
              IF payment[p].status = "POSTED" THEN payment[p].amountReceived ELSE 0
         /\ ItemRemaining[p] =
              IF payment[p].status = "POSTED" THEN payment[p].unappliedAmount ELSE 0
  BY <1>1 DEF Items, ItemState, ItemAmount, ItemRemaining
<1>5. \A c \in CreditNotes :
         /\ c \in Items
         /\ ItemState[c] = StateOf(creditNote[c].status)
         /\ ItemAmount[c] =
              IF creditNote[c].status = "FINALIZED" THEN creditNote[c].posted ELSE 0
         /\ ItemRemaining[c] =
              IF creditNote[c].status = "FINALIZED"
              THEN creditNote[c].unappliedAmount ELSE 0
  BY <1>2 DEF Items, ItemState, ItemAmount, ItemRemaining
<1>6. QED
  BY <1>3, <1>4, <1>5 DEF ValuesOfItems

\* The same after a step.
LEMMA ItemValuesNext == ValuesOfItems'
  BY ItemValues, PTL

\* What the mapping says of a use.
ValuesOfUses ==
    \A x \in Items :
      /\ \A p \in Payments : ItemsTaken[p][x] = TakenByPayment(p, x)
      /\ \A u \in Allocations : ItemsTaken[u][x] = TakenByAllocation(u, x)
      /\ \A k \in CreditAllocations : ItemsTaken[k][x] = TakenByCredit(k, x)
      /\ \A r \in Refunds : ItemsTaken[r][x] = TakenByRefund(r, x)

\* The uses have these values in every state.
LEMMA UseValues == ValuesOfUses
<1>1. \A u \in Allocations : u \notin Payments
  BY IdsDistinct
<1>2. \A k \in CreditAllocations : k \notin Payments /\ k \notin Allocations
  BY IdsDistinct
<1>3. \A r \in Refunds :
        r \notin Payments /\ r \notin Allocations /\ r \notin CreditAllocations
  BY IdsDistinct
<1> SUFFICES ASSUME NEW x \in Items
             PROVE  /\ \A p \in Payments : ItemsTaken[p][x] = TakenByPayment(p, x)
                    /\ \A u \in Allocations : ItemsTaken[u][x] = TakenByAllocation(u, x)
                    /\ \A k \in CreditAllocations : ItemsTaken[k][x] = TakenByCredit(k, x)
                    /\ \A r \in Refunds : ItemsTaken[r][x] = TakenByRefund(r, x)
  BY DEF ValuesOfUses
<1>4. \A p \in Payments : ItemsTaken[p][x] = TakenByPayment(p, x)
  BY <1>1, <1>2, <1>3 DEF ItemsTaken, Uses
<1>5. \A u \in Allocations : ItemsTaken[u][x] = TakenByAllocation(u, x)
  BY <1>1, <1>2, <1>3 DEF ItemsTaken, Uses
<1>6. \A k \in CreditAllocations : ItemsTaken[k][x] = TakenByCredit(k, x)
  BY <1>2, <1>3 DEF ItemsTaken, Uses
<1>7. \A r \in Refunds : ItemsTaken[r][x] = TakenByRefund(r, x)
  BY <1>3 DEF ItemsTaken, Uses
<1>8. QED
  BY <1>4, <1>5, <1>6, <1>7

\* The same after a step.
LEMMA UseValuesNext == ValuesOfUses'
  BY UseValues, PTL

\* Mapped amounts are naturals.
MappedTypes ==
    \A x \in Items :
      /\ ItemAmount[x] \in Nat
      /\ ItemRemaining[x] \in Nat
      /\ \A u \in Uses : ItemsTaken[u][x] \in Nat

\* The mapped amounts are typed.
LEMMA MappedAmounts == TypeOK => MappedTypes
<1> SUFFICES ASSUME TypeOK, NEW x \in Items
             PROVE  /\ ItemAmount[x] \in Nat
                    /\ ItemRemaining[x] \in Nat
                    /\ \A u \in Uses : ItemsTaken[u][x] \in Nat
  BY DEF MappedTypes
<1>1. ItemAmount[x] \in Nat /\ ItemRemaining[x] \in Nat
  BY ItemValues DEF ValuesOfItems, TypeOK, Invoice, Payment, CreditNote, Items
<1>2. \A p \in Payments : TakenByPayment(p, x) \in Nat
  BY AmountTypes, TotalTypes DEF AmountsTyped, TakenByPayment
<1>3. \A u \in Allocations : TakenByAllocation(u, x) \in Nat
  BY DEF TypeOK, Allocation, TakenByAllocation
<1>4. \A k \in CreditAllocations : TakenByCredit(k, x) \in Nat
  BY DEF TypeOK, CreditAllocation, TakenByCredit
<1>5. \A r \in Refunds : TakenByRefund(r, x) \in Nat
  BY DEF TypeOK, Refund, TakenByRefund
<1>6. QED
  BY <1>1, <1>2, <1>3, <1>4, <1>5, UseValues DEF ValuesOfUses, Uses

\* The same after a step.
LEMMA MappedAmountsNext == TypeOK' => MappedTypes'
  BY MappedAmounts, PTL

\* A function that differs from f in one place.
LEMMA UpdatedFunction ==
    ASSUME NEW S, NEW f, NEW g, f = [y \in S |-> f[y]], g = [y \in S |-> g[y]],
           NEW x \in S, \A y \in S \ {x} : g[y] = f[y]
    PROVE  g = [f EXCEPT ![x] = g[x]]
  OBVIOUS

\* The mapped variables are functions.
AreFunctions ==
    /\ ItemState = [x \in Items |-> ItemState[x]]
    /\ ItemAmount = [x \in Items |-> ItemAmount[x]]
    /\ ItemRemaining = [x \in Items |-> ItemRemaining[x]]
    /\ ItemsTaken = [u \in Uses |-> ItemsTaken[u]]
    /\ \A u \in Uses : ItemsTaken[u] = [x \in Items |-> ItemsTaken[u][x]]

\* The mapped variables are functions on items and uses.
LEMMA MappedFunctions == AreFunctions
<1>1. ItemState = [x \in Items |-> ItemState[x]]
  BY DEF ItemState
<1>2. ItemAmount = [x \in Items |-> ItemAmount[x]]
  BY DEF ItemAmount
<1>3. ItemRemaining = [x \in Items |-> ItemRemaining[x]]
  BY DEF ItemRemaining
<1>4. ItemsTaken = [u \in Uses |-> ItemsTaken[u]]
  BY DEF ItemsTaken
<1>5. \A u \in Uses : ItemsTaken[u] = [x \in Items |-> ItemsTaken[u][x]]
  BY DEF ItemsTaken
<1>6. QED
  BY <1>1, <1>2, <1>3, <1>4, <1>5 DEF AreFunctions

\* The same after a step.
LEMMA MappedFunctionsNext == AreFunctions'
  BY MappedFunctions, PTL

-----------------------------------------------------------------------------
(* The actions of OpenItems, item by item.                                  *)

\* Nothing mapped changes.
LEMMA Stutters ==
    ASSUME \A x \in Items : SameItem(x), \A u \in Uses : SameUse(u)
    PROVE  UNCHANGED Subledger!vars
<1> USE MappedFunctions, MappedFunctionsNext DEF AreFunctions
<1>1. ItemState' = ItemState
  BY DEF SameItem
<1>2. ItemAmount' = ItemAmount
  BY DEF SameItem
<1>3. ItemRemaining' = ItemRemaining
  BY DEF SameItem
<1>4. ItemsTaken' = ItemsTaken
  <2>1. \A u \in Uses : ItemsTaken'[u] = ItemsTaken[u]
    BY DEF SameUse
  <2>2. QED
    BY <2>1
<1>5. QED
  BY <1>1, <1>2, <1>3, <1>4 DEF Subledger!vars

\* An item opens.
LEMMA Opens ==
    ASSUME NEW x \in Items, ItemState[x] = "NONE", ItemState'[x] = "OPEN",
           ItemAmount'[x] \in Nat, ItemRemaining'[x] = ItemAmount'[x],
           \A y \in Items \ {x} : SameItem(y), \A u \in Uses : SameUse(u)
    PROVE  Subledger!Next
<1> USE MappedFunctions, MappedFunctionsNext DEF AreFunctions
<1>1. ItemState' = [ItemState EXCEPT ![x] = "OPEN"]
  BY DEF SameItem
<1>2. ItemAmount' = [ItemAmount EXCEPT ![x] = ItemAmount'[x]]
  BY UpdatedFunction DEF SameItem
<1>3. ItemRemaining' = [ItemRemaining EXCEPT ![x] = ItemAmount'[x]]
  BY UpdatedFunction DEF SameItem
<1>4. ItemsTaken' = ItemsTaken
  <2>1. \A u \in Uses : ItemsTaken'[u] = ItemsTaken[u]
    BY DEF SameUse
  <2>2. QED
    BY <2>1
<1>5. Subledger!Open(x, ItemAmount'[x])
  BY <1>1, <1>2, <1>3, <1>4 DEF Subledger!Open
<1>6. QED
  BY <1>5 DEF Subledger!Next

\* An item closes.
LEMMA Closes ==
    ASSUME NEW x \in Items, ItemState[x] # "CLOSED", ItemState'[x] = "CLOSED",
           ItemAmount'[x] = 0, ItemRemaining'[x] = 0,
           \A y \in Items \ {x} : SameItem(y), \A u \in Uses : SameUse(u)
    PROVE  Subledger!Next
<1> USE MappedFunctions, MappedFunctionsNext DEF AreFunctions
<1>1. ItemState' = [ItemState EXCEPT ![x] = "CLOSED"]
  BY DEF SameItem
<1>2. ItemAmount' = [ItemAmount EXCEPT ![x] = 0]
  BY DEF SameItem
<1>3. ItemRemaining' = [ItemRemaining EXCEPT ![x] = 0]
  BY DEF SameItem
<1>4. ItemsTaken' = ItemsTaken
  <2>1. \A u \in Uses : ItemsTaken'[u] = ItemsTaken[u]
    BY DEF SameUse
  <2>2. QED
    BY <2>1
<1>5. Subledger!Close(x)
  BY <1>1, <1>2, <1>3, <1>4 DEF Subledger!Close
<1>6. QED
  BY <1>5 DEF Subledger!Next

\* A use takes its amounts; one of no amounts goes unnoticed.
LEMMA Takes ==
    ASSUME MappedTypes, MappedTypes', NEW u \in Uses,
           \A v \in Uses \ {u} : SameUse(v),
           \A x \in Items :
             /\ ItemState'[x] = ItemState[x] /\ ItemAmount'[x] = ItemAmount[x]
             /\ ItemsTaken[u][x] = 0
             /\ ItemsTaken'[u][x] > 0 => ItemState[x] = "OPEN"
             /\ ItemRemaining'[x] = ItemRemaining[x] - ItemsTaken'[u][x]
    PROVE  [Subledger!Next]_(Subledger!vars)
<1> USE MappedFunctions, MappedFunctionsNext DEF AreFunctions
<1>1. \A x \in Items : /\ ItemRemaining[x] \in Nat /\ ItemRemaining'[x] \in Nat
                       /\ ItemsTaken'[u][x] \in Nat
  BY DEF MappedTypes
<1>2. CASE \A x \in Items : ItemsTaken'[u][x] = 0
  <2>1. \A x \in Items : SameItem(x)
    BY <1>1, <1>2 DEF SameItem
  <2>2. SameUse(u)
    BY <1>2 DEF SameUse
  <2>3. QED
    BY <2>1, <2>2, Stutters
<1>3. CASE \E x \in Items : ItemsTaken'[u][x] # 0
  <2> DEFINE take == ItemsTaken'[u]
  <2>1. \E x \in Items : take[x] > 0
    BY <1>1, <1>3
  <2>2. take \in [Items -> Nat]
    BY <1>1
  <2>3. \A x \in Items : take[x] > 0 => ItemState[x] = "OPEN" /\ take[x] <= ItemRemaining[x]
    BY <1>1
  <2>4. ItemRemaining' = [x \in Items |-> ItemRemaining[x] - take[x]]
    OBVIOUS
  <2>5. ItemsTaken' = [ItemsTaken EXCEPT ![u] = take]
    <3>1. \A v \in Uses \ {u} : ItemsTaken'[v] = ItemsTaken[v]
      BY DEF SameUse
    <3>2. QED
      BY <3>1, UpdatedFunction
  <2>6. ItemState' = ItemState
    OBVIOUS
  <2>7. ItemAmount' = ItemAmount
    OBVIOUS
  <2>8. ~Subledger!InForce(u)
    BY DEF Subledger!InForce
  <2> HIDE DEF take
  <2>9. Subledger!Take(u, take)
    BY <2>1, <2>2, <2>3, <2>4, <2>5, <2>6, <2>7, <2>8 DEF Subledger!Take
  <2>10. QED
    BY <2>9 DEF Subledger!Next, take
<1>4. QED
  BY <1>2, <1>3

\* A use is given back.
LEMMA GivesBack ==
    ASSUME MappedTypes, MappedTypes', NEW u \in Uses,
           \A v \in Uses \ {u} : SameUse(v),
           \A x \in Items :
             /\ ItemState'[x] = ItemState[x] /\ ItemAmount'[x] = ItemAmount[x]
             /\ ItemsTaken'[u][x] = 0
             /\ ItemsTaken[u][x] > 0 => ItemState[x] = "OPEN"
             /\ ItemRemaining'[x] = ItemRemaining[x] + ItemsTaken[u][x]
    PROVE  [Subledger!Next]_(Subledger!vars)
<1> USE MappedFunctions, MappedFunctionsNext DEF AreFunctions
<1>1. \A x \in Items : /\ ItemRemaining[x] \in Nat /\ ItemRemaining'[x] \in Nat
                       /\ ItemsTaken[u][x] \in Nat
  BY DEF MappedTypes
<1>2. CASE \A x \in Items : ItemsTaken[u][x] = 0
  <2>1. \A x \in Items : SameItem(x)
    BY <1>1, <1>2 DEF SameItem
  <2>2. SameUse(u)
    BY <1>2 DEF SameUse
  <2>3. QED
    BY <2>1, <2>2, Stutters
<1>3. CASE \E x \in Items : ItemsTaken[u][x] # 0
  <2>1. Subledger!InForce(u)
    BY <1>1, <1>3 DEF Subledger!InForce
  <2>2. ItemRemaining' = [x \in Items |-> ItemRemaining[x] + ItemsTaken[u][x]]
    OBVIOUS
  <2>3. ItemsTaken' = [ItemsTaken EXCEPT ![u] = Subledger!Nothing]
    <3>1. \A v \in Uses \ {u} : ItemsTaken'[v] = ItemsTaken[v]
      BY DEF SameUse
    <3>2. ItemsTaken'[u] = Subledger!Nothing
      BY DEF Subledger!Nothing
    <3>3. QED
      BY <3>1, <3>2, UpdatedFunction
  <2>4. ItemState' = ItemState
    OBVIOUS
  <2>5. ItemAmount' = ItemAmount
    OBVIOUS
  <2>6. Subledger!GiveBack(u)
    BY <2>1, <2>2, <2>3, <2>4, <2>5 DEF Subledger!GiveBack
  <2>7. QED
    BY <2>6 DEF Subledger!Next
<1>4. QED
  BY <1>2, <1>3

\* A payment opens with the use of its direct allocations.
LEMMA OpensTaking ==
    ASSUME MappedTypes, MappedTypes', NEW p \in Items \cap Uses,
           ItemState[p] = "NONE", ItemState'[p] = "OPEN",
           ItemRemaining'[p] = ItemAmount'[p] - ItemsTaken'[p][p],
           \A v \in Uses \ {p} : SameUse(v),
           \A x \in Items : ItemsTaken[p][x] = 0,
           \A x \in Items \ {p} :
             /\ ItemState'[x] = ItemState[x] /\ ItemAmount'[x] = ItemAmount[x]
             /\ ItemsTaken'[p][x] > 0 => ItemState[x] = "OPEN"
             /\ ItemRemaining'[x] = ItemRemaining[x] - ItemsTaken'[p][x]
    PROVE  Subledger!Next
<1> USE MappedFunctions, MappedFunctionsNext DEF AreFunctions
<1> DEFINE take == ItemsTaken'[p]
           n == ItemAmount'[p]
<1>1. \A x \in Items : /\ ItemRemaining[x] \in Nat /\ ItemRemaining'[x] \in Nat
                       /\ take[x] \in Nat
  BY DEF MappedTypes
<1>2. n \in Nat
  BY DEF MappedTypes
<1>3. take \in [Items -> Nat] /\ take[p] <= n
  BY <1>1, <1>2
<1>4. \A x \in Items \ {p} : take[x] > 0 =>
        ItemState[x] = "OPEN" /\ take[x] <= ItemRemaining[x]
  BY <1>1
<1>5. ItemState' = [ItemState EXCEPT ![p] = "OPEN"]
  BY UpdatedFunction
<1>6. ItemAmount' = [ItemAmount EXCEPT ![p] = n]
  BY UpdatedFunction
<1>7. ItemRemaining' = [x \in Items |->
        IF x = p THEN n - take[p] ELSE ItemRemaining[x] - take[x]]
  OBVIOUS
<1>8. ItemsTaken' = [ItemsTaken EXCEPT ![p] = take]
  <2>1. \A v \in Uses \ {p} : ItemsTaken'[v] = ItemsTaken[v]
    BY DEF SameUse
  <2>2. QED
    BY <2>1, UpdatedFunction
<1>9. ~Subledger!InForce(p)
  BY DEF Subledger!InForce
<1> HIDE DEF take, n
<1>10. Subledger!OpenTaking(p, n, take)
  BY <1>2, <1>3, <1>4, <1>5, <1>6, <1>7, <1>8, <1>9 DEF Subledger!OpenTaking
<1>11. QED
  BY <1>10 DEF Subledger!Next, take, n

\* A payment closes and gives that use back.
LEMMA ClosesGivingBack ==
    ASSUME NEW p \in Items \cap Uses,
           ItemState[p] = "OPEN", ItemState'[p] = "CLOSED",
           ItemAmount'[p] = 0, ItemRemaining'[p] = 0,
           \A v \in Uses \ {p} : SameUse(v),
           \A x \in Items :
             /\ ItemsTaken'[p][x] = 0
             /\ ItemsTaken[p][x] > 0 => ItemState[x] = "OPEN",
           \A x \in Items \ {p} :
             /\ ItemState'[x] = ItemState[x] /\ ItemAmount'[x] = ItemAmount[x]
             /\ ItemRemaining'[x] = ItemRemaining[x] + ItemsTaken[p][x]
    PROVE  Subledger!Next
<1> USE MappedFunctions, MappedFunctionsNext DEF AreFunctions
<1>1. ItemState' = [ItemState EXCEPT ![p] = "CLOSED"]
  BY UpdatedFunction
<1>2. ItemAmount' = [ItemAmount EXCEPT ![p] = 0]
  BY UpdatedFunction
<1>3. ItemRemaining' = [x \in Items |->
        IF x = p THEN 0 ELSE ItemRemaining[x] + ItemsTaken[p][x]]
  OBVIOUS
<1>4. ItemsTaken' = [ItemsTaken EXCEPT ![p] = Subledger!Nothing]
  <2>1. \A v \in Uses \ {p} : ItemsTaken'[v] = ItemsTaken[v]
    BY DEF SameUse
  <2>2. ItemsTaken'[p] = Subledger!Nothing
    BY DEF Subledger!Nothing
  <2>3. QED
    BY <2>1, <2>2, UpdatedFunction
<1>5. Subledger!CloseGivingBack(p)
  BY <1>1, <1>2, <1>3, <1>4 DEF Subledger!CloseGivingBack
<1>6. QED
  BY <1>5 DEF Subledger!Next

-----------------------------------------------------------------------------
(* The changes of the rows, seen through the mapping.                       *)

\* Rows that keep what the mapping reads of them.
LEMMA KeptItems ==
    /\ \A i \in Invoices :
         /\ invoice'[i].status = invoice[i].status
         /\ invoice'[i].posted = invoice[i].posted
         /\ invoice'[i].balanceDue = invoice[i].balanceDue
         => SameItem(i)
    /\ \A p \in Payments :
         /\ payment'[p].status = payment[p].status
         /\ payment'[p].amountReceived = payment[p].amountReceived
         /\ payment'[p].unappliedAmount = payment[p].unappliedAmount
         => SameItem(p)
    /\ \A c \in CreditNotes :
         /\ creditNote'[c].status = creditNote[c].status
         /\ creditNote'[c].posted = creditNote[c].posted
         /\ creditNote'[c].unappliedAmount = creditNote[c].unappliedAmount
         => SameItem(c)
  BY ItemValues, ItemValuesNext DEF ValuesOfItems, SameItem

\* Uses that keep what the mapping reads of them.
LEMMA KeptUses ==
    /\ \A p \in Payments : /\ payment'[p].status = payment[p].status
                           /\ payment'[p].allocations = payment[p].allocations
         => SameUse(p)
    /\ \A u \in Allocations : allocation'[u] = allocation[u] => SameUse(u)
    /\ \A k \in CreditAllocations :
         creditAllocation'[k] = creditAllocation[k] => SameUse(k)
    /\ \A r \in Refunds : refund'[r] = refund[r] => SameUse(r)
<1> USE UseValues, UseValuesNext DEF ValuesOfUses, SameUse
<1>1. \A p \in Payments : /\ payment'[p].status = payment[p].status
                          /\ payment'[p].allocations = payment[p].allocations
        => SameUse(p)
  BY DEF TakenByPayment
<1>2. \A u \in Allocations : allocation'[u] = allocation[u] => SameUse(u)
  BY DEF TakenByAllocation
<1>3. \A k \in CreditAllocations :
        creditAllocation'[k] = creditAllocation[k] => SameUse(k)
  BY DEF TakenByCredit
<1>4. \A r \in Refunds : refund'[r] = refund[r] => SameUse(r)
  BY DEF TakenByRefund
<1>5. QED
  BY <1>1, <1>2, <1>3, <1>4

\* Every item is a row, and every use.
LEMMA RowsOfItems ==
    /\ \A x \in Items : x \in Invoices \/ x \in Payments \/ x \in CreditNotes
    /\ \A u \in Uses : \/ u \in Payments \/ u \in Allocations
                       \/ u \in CreditAllocations \/ u \in Refunds
    /\ Payments \subseteq Uses /\ Allocations \subseteq Uses
    /\ CreditAllocations \subseteq Uses /\ Refunds \subseteq Uses
  BY DEF Items, Uses

\* Finalizing opens an item, voids and deletions close one.
LEMMA InvoiceChangeMapped ==
    ASSUME TypeOK, TypeOK', NEW i \in Invoices,
           \/ InvoiceDrafted(i) \/ InvoiceFinalized(i)
           \/ InvoiceVoided(i) \/ InvoiceRemoved(i)
    PROVE  [Subledger!Next]_(Subledger!vars)
<1>1. UNCHANGED <<payment, allocation, creditAllocation, refund>>
  BY DEF InvoiceDrafted, InvoiceFinalized, InvoiceVoided, InvoiceRemoved
<1>2. \A u \in Uses : SameUse(u)
  BY <1>1, KeptUses, RowsOfItems
<1>3. \A x \in Items \ {i} : SameItem(x)
  <2>1. OnlyInvoice(i)
    BY DEF InvoiceDrafted, InvoiceFinalized, InvoiceVoided, InvoiceRemoved
  <2>2. \A c \in CreditNotes : /\ creditNote'[c].status = creditNote[c].status
                               /\ creditNote'[c].posted = creditNote[c].posted
                               /\ creditNote'[c].unappliedAmount = creditNote[c].unappliedAmount
    BY DEF InvoiceDrafted, InvoiceFinalized, InvoiceVoided, InvoiceRemoved, CreditNoteOpen
  <2>3. QED
    BY <1>1, <2>1, <2>2, KeptItems, RowsOfItems DEF OnlyInvoice
<1>4. /\ i \in Items
      /\ invoice[i].status \in DocumentStatus
      /\ ItemState[i] = StateOf(invoice[i].status)
      /\ ItemState'[i] = StateOf(invoice'[i].status)
      /\ ItemAmount'[i] = IF invoice'[i].status = "FINALIZED" THEN invoice'[i].posted ELSE 0
      /\ ItemRemaining'[i] =
           IF invoice'[i].status = "FINALIZED" THEN invoice'[i].balanceDue ELSE 0
      /\ ItemAmount[i] = IF invoice[i].status = "FINALIZED" THEN invoice[i].posted ELSE 0
      /\ ItemRemaining[i] =
           IF invoice[i].status = "FINALIZED" THEN invoice[i].balanceDue ELSE 0
  BY ItemValues, ItemValuesNext DEF ValuesOfItems, TypeOK, Invoice
<1>5. invoice'[i].posted \in Nat
  BY DEF TypeOK, Invoice
<1>6. CASE InvoiceDrafted(i)
  <2>1. SameItem(i)
    BY <1>4, <1>6 DEF InvoiceDrafted, SameItem, StateOf
  <2>2. QED
    BY <1>2, <1>3, <2>1, Stutters
<1>7. CASE InvoiceFinalized(i)
  <2>1. /\ ItemState[i] = "NONE" /\ ItemState'[i] = "OPEN"
        /\ ItemAmount'[i] \in Nat /\ ItemRemaining'[i] = ItemAmount'[i]
    BY <1>4, <1>5, <1>7 DEF InvoiceFinalized, StateOf
  <2>2. QED
    BY <1>2, <1>3, <1>4, <2>1, Opens
<1>8. CASE InvoiceVoided(i) \/ InvoiceRemoved(i)
  <2>1. /\ ItemState'[i] = "CLOSED"
        /\ ItemAmount'[i] = 0 /\ ItemRemaining'[i] = 0
    BY <1>4, <1>8 DEF InvoiceVoided, InvoiceRemoved, StateOf
  <2>2. CASE ItemState[i] = "CLOSED"
    <3>1. invoice[i].status \notin {"FINALIZED"}
      BY <1>4, <2>2 DEF StateOf
    <3>2. SameItem(i)
      BY <1>4, <2>1, <2>2, <3>1 DEF SameItem
    <3>3. QED
      BY <1>2, <1>3, <3>2, Stutters
  <2>3. CASE ItemState[i] # "CLOSED"
    BY <1>2, <1>3, <1>4, <2>1, <2>3, Closes
  <2>4. QED
    BY <2>2, <2>3
<1>9. QED
  BY <1>6, <1>7, <1>8

\* The same for credit notes; the allocations deleted with one keep what they
\* took from invoices.
LEMMA CreditNoteChangeMapped ==
    ASSUME TypeOK, TypeOK', NEW c \in CreditNotes,
           \/ CreditNoteDrafted(c) \/ CreditNoteFinalized(c)
           \/ CreditNoteVoided(c) \/ CreditNoteRemoved(c)
    PROVE  [Subledger!Next]_(Subledger!vars)
<1>1. UNCHANGED <<invoice, payment, allocation, refund>> /\ OnlyCreditNote(c)
  BY DEF CreditNoteDrafted, CreditNoteFinalized, CreditNoteVoided, CreditNoteRemoved
<1>2. \A u \in Uses : SameUse(u)
  <2>1. ASSUME NEW k \in CreditAllocations
        PROVE  SameUse(k)
    <3>1. CASE creditAllocation'[k] = creditAllocation[k]
      BY <3>1, KeptUses
    <3>2. CASE creditAllocation'[k] # creditAllocation[k]
      <4>1. /\ creditAllocation[k].status = "ACTIVE"
            /\ creditAllocation'[k].status = "CASCADED"
            /\ creditAllocation'[k].creditNote = creditAllocation[k].creditNote
            /\ creditAllocation'[k].invoice = creditAllocation[k].invoice
            /\ creditAllocation'[k].amount = creditAllocation[k].amount
        BY <3>2 DEF CreditNoteDrafted, CreditNoteFinalized, CreditNoteVoided,
           CreditNoteRemoved
      <4>2. QED
        BY <4>1, UseValues, UseValuesNext DEF ValuesOfUses, SameUse, TakenByCredit
    <3>3. QED
      BY <3>1, <3>2
  <2>2. QED
    BY <1>1, <2>1, KeptUses, RowsOfItems
<1>3. \A x \in Items \ {c} : SameItem(x)
  BY <1>1, KeptItems, RowsOfItems DEF OnlyCreditNote
<1>4. /\ c \in Items
      /\ creditNote[c].status \in DocumentStatus
      /\ ItemState[c] = StateOf(creditNote[c].status)
      /\ ItemState'[c] = StateOf(creditNote'[c].status)
      /\ ItemAmount'[c] =
           IF creditNote'[c].status = "FINALIZED" THEN creditNote'[c].posted ELSE 0
      /\ ItemRemaining'[c] =
           IF creditNote'[c].status = "FINALIZED" THEN creditNote'[c].unappliedAmount ELSE 0
      /\ ItemAmount[c] =
           IF creditNote[c].status = "FINALIZED" THEN creditNote[c].posted ELSE 0
      /\ ItemRemaining[c] =
           IF creditNote[c].status = "FINALIZED" THEN creditNote[c].unappliedAmount ELSE 0
  BY ItemValues, ItemValuesNext DEF ValuesOfItems, TypeOK, CreditNote
<1>5. creditNote'[c].posted \in Nat
  BY DEF TypeOK, CreditNote
<1>6. CASE CreditNoteDrafted(c)
  <2>1. SameItem(c)
    BY <1>4, <1>6 DEF CreditNoteDrafted, SameItem, StateOf
  <2>2. QED
    BY <1>2, <1>3, <2>1, Stutters
<1>7. CASE CreditNoteFinalized(c)
  <2>1. /\ ItemState[c] = "NONE" /\ ItemState'[c] = "OPEN"
        /\ ItemAmount'[c] \in Nat /\ ItemRemaining'[c] = ItemAmount'[c]
    BY <1>4, <1>5, <1>7 DEF CreditNoteFinalized, StateOf
  <2>2. QED
    BY <1>2, <1>3, <1>4, <2>1, Opens
<1>8. CASE CreditNoteVoided(c) \/ CreditNoteRemoved(c)
  <2>1. /\ ItemState'[c] = "CLOSED"
        /\ ItemAmount'[c] = 0 /\ ItemRemaining'[c] = 0
    BY <1>4, <1>8 DEF CreditNoteVoided, CreditNoteRemoved, StateOf
  <2>2. CASE ItemState[c] = "CLOSED"
    <3>1. creditNote[c].status # "FINALIZED"
      BY <1>4, <2>2 DEF StateOf
    <3>2. SameItem(c)
      BY <1>4, <2>1, <2>2, <3>1 DEF SameItem
    <3>3. QED
      BY <1>2, <1>3, <3>2, Stutters
  <2>3. CASE ItemState[c] # "CLOSED"
    BY <1>2, <1>3, <1>4, <2>1, <2>3, Closes
  <2>4. QED
    BY <2>2, <2>3
<1>9. QED
  BY <1>6, <1>7, <1>8

\* An allocation takes from its payment and its invoice, and gives back.
LEMMA AllocationChangeMapped ==
    ASSUME TypeOK, TypeOK', References, NEW u \in Allocations,
           AllocationApplied(u) \/ AllocationReversed(u)
    PROVE  [Subledger!Next]_(Subledger!vars)
<1>1. MappedTypes /\ MappedTypes' /\ u \in Uses
  BY MappedAmounts, MappedAmountsNext, RowsOfItems
<1>2. \A v \in Uses \ {u} : SameUse(v)
  <2>1. /\ \A p \in Payments : /\ payment'[p].status = payment[p].status
                               /\ payment'[p].allocations = payment[p].allocations
        /\ \A v \in Allocations \ {u} : allocation'[v] = allocation[v]
        /\ UNCHANGED <<creditAllocation, refund>>
    BY DEF AllocationApplied, AllocationReversed, OnlyAllocation, OnlyPayment, PaymentOpen
  <2>2. QED
    BY <2>1, KeptUses, RowsOfItems
<1>3. /\ \A j \in Invoices : /\ invoice'[j].status = invoice[j].status
                             /\ invoice'[j].posted = invoice[j].posted
      /\ \A q \in Payments : /\ payment'[q].status = payment[q].status
                             /\ payment'[q].amountReceived = payment[q].amountReceived
      /\ UNCHANGED creditNote
  BY DEF AllocationApplied, AllocationReversed, OnlyPayment, OnlyInvoice, PaymentOpen,
     InvoiceDue
<1>4. \A x \in Items : ItemState'[x] = ItemState[x] /\ ItemAmount'[x] = ItemAmount[x]
  BY <1>3, ItemValues, ItemValuesNext, RowsOfItems DEF ValuesOfItems
<1>5. CASE AllocationApplied(u)
  <2> DEFINE p == allocation'[u].payment
             i == allocation'[u].invoice
             settlement == allocation'[u].settlementBaseAmount
             source == allocation'[u].sourceBaseAmount
  <2>1. /\ p \in Payments /\ payment[p].status = "POSTED"
        /\ i \in Invoices /\ invoice[i].status = "FINALIZED"
        /\ payment'[p].unappliedAmount = payment[p].unappliedAmount - settlement
        /\ invoice'[i].balanceDue = invoice[i].balanceDue - source
        /\ \A q \in Payments \ {p} : payment'[q] = payment[q]
        /\ \A j \in Invoices \ {i} : invoice'[j] = invoice[j]
        /\ UNCHANGED creditNote
    BY <1>5 DEF AllocationApplied, OnlyPayment, OnlyInvoice, PaymentOpen, InvoiceDue
  <2>2. \A x \in Items :
          /\ ItemsTaken[u][x] = 0
          /\ ItemsTaken'[u][x] = IF x = p THEN settlement ELSE IF x = i THEN source ELSE 0
    BY <1>5, UseValues, UseValuesNext DEF ValuesOfUses, TakenByAllocation, AllocationApplied
  <2> HIDE DEF p, i, settlement, source
  <2>3. p # i /\ p \notin CreditNotes /\ i \notin CreditNotes
    BY <2>1, IdsDistinct
  <2>4. ASSUME NEW x \in Items
        PROVE  /\ ItemsTaken'[u][x] > 0 => ItemState[x] = "OPEN"
               /\ ItemRemaining'[x] = ItemRemaining[x] - ItemsTaken'[u][x]
    <3>1. CASE x = p
      BY <1>3, <2>1, <2>2, <3>1, ItemValues, ItemValuesNext DEF ValuesOfItems, StateOf
    <3>2. CASE x = i
      BY <1>3, <2>1, <2>2, <2>3, <3>2, ItemValues, ItemValuesNext DEF ValuesOfItems, StateOf
    <3>3. CASE x # p /\ x # i
      <4>1. ItemsTaken'[u][x] = 0
        BY <2>2, <3>3
      <4>2. SameItem(x)
        BY <2>1, <3>3, KeptItems, RowsOfItems
      <4>3. ItemRemaining[x] \in Nat
        BY <1>1 DEF MappedTypes
      <4>4. QED
        BY <4>1, <4>2, <4>3 DEF SameItem
    <3>4. QED
      BY <3>1, <3>2, <3>3
  <2>5. QED
    BY <1>1, <1>2, <1>4, <2>2, <2>4, Takes
<1>6. CASE AllocationReversed(u)
  <2> DEFINE p == allocation[u].payment
             i == allocation[u].invoice
             settlement == allocation[u].settlementBaseAmount
             source == allocation[u].sourceBaseAmount
  <2>1. /\ p \in Payments /\ payment[p].status = "POSTED"
        /\ i \in Invoices /\ invoice[i].status = "FINALIZED"
        /\ payment'[p].unappliedAmount = payment[p].unappliedAmount + settlement
        /\ invoice'[i].balanceDue = invoice[i].balanceDue + source
        /\ \A q \in Payments \ {p} : payment'[q] = payment[q]
        /\ \A j \in Invoices \ {i} : invoice'[j] = invoice[j]
        /\ UNCHANGED creditNote
    BY <1>6 DEF AllocationReversed, OnlyPayment, OnlyInvoice, PaymentOpen, InvoiceDue
  <2>2. \A x \in Items :
          /\ ItemsTaken'[u][x] = 0
          /\ ItemsTaken[u][x] = IF x = p THEN settlement ELSE IF x = i THEN source ELSE 0
    BY <1>6, UseValues, UseValuesNext DEF ValuesOfUses, TakenByAllocation, AllocationReversed
  <2> HIDE DEF p, i, settlement, source
  <2>3. p # i /\ p \notin CreditNotes /\ i \notin CreditNotes
    BY <2>1, IdsDistinct
  <2>4. ASSUME NEW x \in Items
        PROVE  /\ ItemsTaken[u][x] > 0 => ItemState[x] = "OPEN"
               /\ ItemRemaining'[x] = ItemRemaining[x] + ItemsTaken[u][x]
    <3>1. CASE x = p
      BY <1>3, <2>1, <2>2, <3>1, ItemValues, ItemValuesNext DEF ValuesOfItems, StateOf
    <3>2. CASE x = i
      BY <1>3, <2>1, <2>2, <2>3, <3>2, ItemValues, ItemValuesNext DEF ValuesOfItems, StateOf
    <3>3. CASE x # p /\ x # i
      <4>1. ItemsTaken[u][x] = 0
        BY <2>2, <3>3
      <4>2. SameItem(x)
        BY <2>1, <3>3, KeptItems, RowsOfItems
      <4>3. ItemRemaining[x] \in Nat
        BY <1>1 DEF MappedTypes
      <4>4. QED
        BY <4>1, <4>2, <4>3 DEF SameItem
    <3>4. QED
      BY <3>1, <3>2, <3>3
  <2>5. QED
    BY <1>1, <1>2, <1>4, <2>2, <2>4, GivesBack
<1>7. QED
  BY <1>5, <1>6

\* A credit allocation takes from its credit note and its invoice, and gives
\* back.
LEMMA CreditChangeMapped ==
    ASSUME TypeOK, TypeOK', NEW k \in CreditAllocations,
           CreditApplied(k) \/ CreditReversed(k)
    PROVE  [Subledger!Next]_(Subledger!vars)
<1>1. MappedTypes /\ MappedTypes' /\ k \in Uses
  BY MappedAmounts, MappedAmountsNext, RowsOfItems
<1>2. \A v \in Uses \ {k} : SameUse(v)
  <2>1. /\ \A l \in CreditAllocations \ {k} : creditAllocation'[l] = creditAllocation[l]
        /\ UNCHANGED <<payment, allocation, refund>>
    BY DEF CreditApplied, CreditReversed, OnlyCredit
  <2>2. QED
    BY <2>1, KeptUses, RowsOfItems
<1>3. /\ \A j \in Invoices : /\ invoice'[j].status = invoice[j].status
                             /\ invoice'[j].posted = invoice[j].posted
      /\ \A d \in CreditNotes : /\ creditNote'[d].status = creditNote[d].status
                                /\ creditNote'[d].posted = creditNote[d].posted
      /\ UNCHANGED payment
  BY DEF CreditApplied, CreditReversed, OnlyCreditNote, OnlyInvoice, CreditNoteOpen,
     InvoiceDue
<1>4. \A x \in Items : ItemState'[x] = ItemState[x] /\ ItemAmount'[x] = ItemAmount[x]
  BY <1>3, ItemValues, ItemValuesNext, RowsOfItems DEF ValuesOfItems
<1>5. CASE CreditApplied(k)
  <2> DEFINE c == creditAllocation'[k].creditNote
             i == creditAllocation'[k].invoice
             taken == creditAllocation'[k].amount
  <2>1. /\ c \in CreditNotes /\ creditNote[c].status = "FINALIZED"
        /\ i \in Invoices /\ invoice[i].status = "FINALIZED"
        /\ creditNote'[c].unappliedAmount = creditNote[c].unappliedAmount - taken
        /\ invoice'[i].balanceDue = invoice[i].balanceDue - taken
        /\ \A d \in CreditNotes \ {c} : creditNote'[d] = creditNote[d]
        /\ \A j \in Invoices \ {i} : invoice'[j] = invoice[j]
    BY <1>5 DEF CreditApplied, OnlyCreditNote, OnlyInvoice, CreditNoteOpen, InvoiceDue
  <2>2. \A x \in Items :
          /\ ItemsTaken[k][x] = 0
          /\ ItemsTaken'[k][x] = IF x \in {c, i} THEN taken ELSE 0
    BY <1>5, UseValues, UseValuesNext DEF ValuesOfUses, TakenByCredit, CreditApplied
  <2> HIDE DEF c, i, taken
  <2>3. c # i
    BY <2>1, IdsDistinct
  <2>4. ASSUME NEW x \in Items
        PROVE  /\ ItemsTaken'[k][x] > 0 => ItemState[x] = "OPEN"
               /\ ItemRemaining'[x] = ItemRemaining[x] - ItemsTaken'[k][x]
    <3>1. CASE x = c
      BY <1>3, <2>1, <2>2, <3>1, ItemValues, ItemValuesNext DEF ValuesOfItems, StateOf
    <3>2. CASE x = i
      BY <1>3, <2>1, <2>2, <3>2, ItemValues, ItemValuesNext DEF ValuesOfItems, StateOf
    <3>3. CASE x # c /\ x # i
      <4>1. ItemsTaken'[k][x] = 0
        BY <2>2, <3>3
      <4>2. SameItem(x)
        BY <1>3, <2>1, <3>3, KeptItems, RowsOfItems
      <4>3. ItemRemaining[x] \in Nat
        BY <1>1 DEF MappedTypes
      <4>4. QED
        BY <4>1, <4>2, <4>3 DEF SameItem
    <3>4. QED
      BY <3>1, <3>2, <3>3
  <2>5. QED
    BY <1>1, <1>2, <1>4, <2>2, <2>4, Takes
<1>6. CASE CreditReversed(k)
  <2> DEFINE c == creditAllocation[k].creditNote
             i == creditAllocation[k].invoice
             taken == creditAllocation[k].amount
  <2>1. /\ c \in CreditNotes /\ creditNote[c].status = "FINALIZED"
        /\ i \in Invoices /\ invoice[i].status = "FINALIZED"
        /\ creditNote'[c].unappliedAmount = creditNote[c].unappliedAmount + taken
        /\ invoice'[i].balanceDue = invoice[i].balanceDue + taken
        /\ \A d \in CreditNotes \ {c} : creditNote'[d] = creditNote[d]
        /\ \A j \in Invoices \ {i} : invoice'[j] = invoice[j]
    BY <1>6 DEF CreditReversed, OnlyCreditNote, OnlyInvoice, CreditNoteOpen, InvoiceDue
  <2>2. \A x \in Items :
          /\ ItemsTaken'[k][x] = 0
          /\ ItemsTaken[k][x] = IF x \in {c, i} THEN taken ELSE 0
    BY <1>6, UseValues, UseValuesNext DEF ValuesOfUses, TakenByCredit, CreditReversed
  <2> HIDE DEF c, i, taken
  <2>3. c # i
    BY <2>1, IdsDistinct
  <2>4. ASSUME NEW x \in Items
        PROVE  /\ ItemsTaken[k][x] > 0 => ItemState[x] = "OPEN"
               /\ ItemRemaining'[x] = ItemRemaining[x] + ItemsTaken[k][x]
    <3>1. CASE x = c
      BY <1>3, <2>1, <2>2, <3>1, ItemValues, ItemValuesNext DEF ValuesOfItems, StateOf
    <3>2. CASE x = i
      BY <1>3, <2>1, <2>2, <3>2, ItemValues, ItemValuesNext DEF ValuesOfItems, StateOf
    <3>3. CASE x # c /\ x # i
      <4>1. ItemsTaken[k][x] = 0
        BY <2>2, <3>3
      <4>2. SameItem(x)
        BY <1>3, <2>1, <3>3, KeptItems, RowsOfItems
      <4>3. ItemRemaining[x] \in Nat
        BY <1>1 DEF MappedTypes
      <4>4. QED
        BY <4>1, <4>2, <4>3 DEF SameItem
    <3>4. QED
      BY <3>1, <3>2, <3>3
  <2>5. QED
    BY <1>1, <1>2, <1>4, <2>2, <2>4, GivesBack
<1>7. QED
  BY <1>5, <1>6

\* A refund takes from its source, which its void gives back.
LEMMA RefundChangeMapped ==
    ASSUME TypeOK, TypeOK', NEW r \in Refunds,
           \/ PaymentRefunded(r) \/ CreditNoteRefunded(r)
           \/ PaymentRefundVoided(r) \/ CreditNoteRefundVoided(r)
    PROVE  [Subledger!Next]_(Subledger!vars)
<1>1. MappedTypes /\ MappedTypes' /\ r \in Uses
  BY MappedAmounts, MappedAmountsNext, RowsOfItems
<1>2. /\ \A p \in Payments : /\ payment'[p].status = payment[p].status
                             /\ payment'[p].allocations = payment[p].allocations
                             /\ payment'[p].amountReceived = payment[p].amountReceived
      /\ \A d \in CreditNotes : /\ creditNote'[d].status = creditNote[d].status
                                /\ creditNote'[d].posted = creditNote[d].posted
      /\ \A q \in Refunds \ {r} : refund'[q] = refund[q]
      /\ UNCHANGED <<invoice, allocation, creditAllocation>>
  BY DEF PaymentRefunded, CreditNoteRefunded, PaymentRefundVoided, CreditNoteRefundVoided,
     OnlyRefund, OnlyPayment, OnlyCreditNote, PaymentOpen, CreditNoteOpen
<1>3. \A v \in Uses \ {r} : SameUse(v)
  BY <1>2, KeptUses, RowsOfItems
<1>4. \A x \in Items : ItemState'[x] = ItemState[x] /\ ItemAmount'[x] = ItemAmount[x]
  BY <1>2, ItemValues, ItemValuesNext, RowsOfItems DEF ValuesOfItems
<1>5. \A x \in Items : ItemRemaining[x] \in Nat
  BY <1>1 DEF MappedTypes
<1>6. CASE PaymentRefunded(r) \/ CreditNoteRefunded(r)
  <2> DEFINE s == refund'[r].source
             taken == refund'[r].amount
  <2>1. \A x \in Items : /\ ItemsTaken[r][x] = 0
                         /\ ItemsTaken'[r][x] = IF s = x THEN taken ELSE 0
    BY <1>6, UseValues, UseValuesNext DEF ValuesOfUses, TakenByRefund, PaymentRefunded,
       CreditNoteRefunded
  <2>2. /\ s \in Items /\ ItemState[s] = "OPEN"
        /\ ItemRemaining'[s] = ItemRemaining[s] - taken
        /\ \A x \in Items \ {s} : SameItem(x)
    <3>1. CASE PaymentRefunded(r)
      <4>1. /\ s \in Payments /\ payment[s].status = "POSTED"
            /\ payment'[s].unappliedAmount = payment[s].unappliedAmount - taken
            /\ \A q \in Payments \ {s} : payment'[q] = payment[q]
            /\ UNCHANGED <<invoice, creditNote>>
        BY <3>1 DEF PaymentRefunded, OnlyPayment, PaymentOpen
      <4> HIDE DEF s, taken
      <4>2. s \in Items /\ ItemState[s] = "OPEN" /\ ItemRemaining'[s] = ItemRemaining[s] - taken
        BY <1>2, <4>1, ItemValues, ItemValuesNext DEF ValuesOfItems, StateOf
      <4>3. \A x \in Items \ {s} : SameItem(x)
        BY <4>1, KeptItems, RowsOfItems
      <4>4. QED
        BY <4>2, <4>3
    <3>2. CASE CreditNoteRefunded(r)
      <4>1. /\ s \in CreditNotes /\ creditNote[s].status = "FINALIZED"
            /\ creditNote'[s].unappliedAmount = creditNote[s].unappliedAmount - taken
            /\ \A q \in CreditNotes \ {s} : creditNote'[q] = creditNote[q]
            /\ UNCHANGED <<invoice, payment>>
        BY <3>2 DEF CreditNoteRefunded, OnlyCreditNote, CreditNoteOpen
      <4> HIDE DEF s, taken
      <4>2. s \in Items /\ ItemState[s] = "OPEN" /\ ItemRemaining'[s] = ItemRemaining[s] - taken
        BY <1>2, <4>1, ItemValues, ItemValuesNext DEF ValuesOfItems, StateOf
      <4>3. \A x \in Items \ {s} : SameItem(x)
        BY <4>1, KeptItems, RowsOfItems
      <4>4. QED
        BY <4>2, <4>3
    <3>3. QED
      BY <1>6, <3>1, <3>2
  <2> HIDE DEF s, taken
  <2>3. ASSUME NEW x \in Items
        PROVE  /\ ItemsTaken'[r][x] > 0 => ItemState[x] = "OPEN"
               /\ ItemRemaining'[x] = ItemRemaining[x] - ItemsTaken'[r][x]
    BY <1>5, <2>1, <2>2 DEF SameItem
  <2>4. QED
    BY <1>1, <1>3, <1>4, <2>1, <2>3, Takes
<1>7. CASE PaymentRefundVoided(r) \/ CreditNoteRefundVoided(r)
  <2> DEFINE s == refund[r].source
             taken == refund[r].amount
  <2>1. \A x \in Items : /\ ItemsTaken'[r][x] = 0
                         /\ ItemsTaken[r][x] = IF s = x THEN taken ELSE 0
    BY <1>7, UseValues, UseValuesNext DEF ValuesOfUses, TakenByRefund, PaymentRefundVoided,
       CreditNoteRefundVoided
  <2>2. /\ s \in Items /\ ItemState[s] = "OPEN"
        /\ ItemRemaining'[s] = ItemRemaining[s] + taken
        /\ \A x \in Items \ {s} : SameItem(x)
    <3>1. CASE PaymentRefundVoided(r)
      <4>1. /\ s \in Payments /\ payment[s].status = "POSTED"
            /\ payment'[s].unappliedAmount = payment[s].unappliedAmount + taken
            /\ \A q \in Payments \ {s} : payment'[q] = payment[q]
            /\ UNCHANGED <<invoice, creditNote>>
        BY <3>1 DEF PaymentRefundVoided, OnlyPayment, PaymentOpen
      <4> HIDE DEF s, taken
      <4>2. s \in Items /\ ItemState[s] = "OPEN" /\ ItemRemaining'[s] = ItemRemaining[s] + taken
        BY <1>2, <4>1, ItemValues, ItemValuesNext DEF ValuesOfItems, StateOf
      <4>3. \A x \in Items \ {s} : SameItem(x)
        BY <4>1, KeptItems, RowsOfItems
      <4>4. QED
        BY <4>2, <4>3
    <3>2. CASE CreditNoteRefundVoided(r)
      <4>1. /\ s \in CreditNotes /\ creditNote[s].status = "FINALIZED"
            /\ creditNote'[s].unappliedAmount = creditNote[s].unappliedAmount + taken
            /\ \A q \in CreditNotes \ {s} : creditNote'[q] = creditNote[q]
            /\ UNCHANGED <<invoice, payment>>
        BY <3>2 DEF CreditNoteRefundVoided, OnlyCreditNote, CreditNoteOpen
      <4> HIDE DEF s, taken
      <4>2. s \in Items /\ ItemState[s] = "OPEN" /\ ItemRemaining'[s] = ItemRemaining[s] + taken
        BY <1>2, <4>1, ItemValues, ItemValuesNext DEF ValuesOfItems, StateOf
      <4>3. \A x \in Items \ {s} : SameItem(x)
        BY <4>1, KeptItems, RowsOfItems
      <4>4. QED
        BY <4>2, <4>3
    <3>3. QED
      BY <1>7, <3>1, <3>2
  <2> HIDE DEF s, taken
  <2>3. ASSUME NEW x \in Items
        PROVE  /\ ItemsTaken[r][x] > 0 => ItemState[x] = "OPEN"
               /\ ItemRemaining'[x] = ItemRemaining[x] + ItemsTaken[r][x]
    BY <1>5, <2>1, <2>2 DEF SameItem
  <2>4. QED
    BY <1>1, <1>3, <1>4, <2>1, <2>3, GivesBack
<1>8. QED
  BY <1>6, <1>7

\* A payment opens with its direct allocations and closes giving them back.
LEMMA PaymentChangeMapped ==
    ASSUME TypeOK, TypeOK', NEW p \in Payments, PaymentCreated(p) \/ PaymentVoided(p)
    PROVE  [Subledger!Next]_(Subledger!vars)
<1>1. MappedTypes /\ MappedTypes' /\ p \in Items \cap Uses
  BY MappedAmounts, MappedAmountsNext DEF Items, Uses
<1>2. /\ \A q \in Payments \ {p} : payment'[q] = payment[q]
      /\ \A j \in Invoices : /\ invoice'[j].status = invoice[j].status
                             /\ invoice'[j].posted = invoice[j].posted
      /\ UNCHANGED <<creditNote, allocation, creditAllocation, refund>>
  BY DEF PaymentCreated, PaymentVoided, OnlyPayment, InvoiceDue
<1>3. \A v \in Uses \ {p} : SameUse(v)
  BY <1>2, KeptUses, RowsOfItems
<1>4. \A x \in Items \ {p} : ItemState'[x] = ItemState[x] /\ ItemAmount'[x] = ItemAmount[x]
  BY <1>2, ItemValues, ItemValuesNext, RowsOfItems DEF ValuesOfItems
<1>5. p \notin Invoices /\ \A x \in Items : ItemRemaining[x] \in Nat
  BY <1>1, IdsDistinct DEF MappedTypes
<1>6. /\ ItemState[p] = StateOf(payment[p].status)
      /\ ItemState'[p] = StateOf(payment'[p].status)
      /\ ItemAmount'[p] =
           IF payment'[p].status = "POSTED" THEN payment'[p].amountReceived ELSE 0
      /\ ItemRemaining'[p] =
           IF payment'[p].status = "POSTED" THEN payment'[p].unappliedAmount ELSE 0
  BY ItemValues, ItemValuesNext DEF ValuesOfItems
<1>7. CASE PaymentCreated(p)
  <2> DEFINE allocs == payment'[p].allocations
             sum == Total(Invoices, allocs)
  <2>1. /\ payment[p].status = "NONE" /\ payment'[p].status = "POSTED"
        /\ payment'[p].unappliedAmount + sum = payment'[p].amountReceived
        /\ \A i \in Invoices :
             /\ invoice'[i].balanceDue = invoice[i].balanceDue - allocs[i]
             /\ allocs[i] > 0 => invoice[i].status = "FINALIZED"
    BY <1>7 DEF PaymentCreated, InvoiceDue
  <2>2. \A x \in Items :
          /\ ItemsTaken[p][x] = 0
          /\ ItemsTaken'[p][x] = IF x = p THEN sum
                                 ELSE IF x \in Invoices THEN allocs[x] ELSE 0
    BY <2>1, UseValues, UseValuesNext DEF ValuesOfUses, TakenByPayment
  <2>3. /\ sum \in Nat /\ allocs \in [Invoices -> Nat]
        /\ payment'[p].unappliedAmount \in Nat /\ payment'[p].amountReceived \in Nat
        /\ \A i \in Invoices : invoice[i].balanceDue \in Nat
    BY TotalType, FiniteRows DEF TypeOK, Payment, Invoice
  <2> HIDE DEF sum, allocs
  <2>4. /\ ItemState[p] = "NONE" /\ ItemState'[p] = "OPEN"
        /\ ItemRemaining'[p] = ItemAmount'[p] - ItemsTaken'[p][p]
    BY <1>1, <1>6, <2>1, <2>2, <2>3 DEF StateOf
  <2>5. ASSUME NEW x \in Items \ {p}
        PROVE  /\ ItemsTaken'[p][x] > 0 => ItemState[x] = "OPEN"
               /\ ItemRemaining'[x] = ItemRemaining[x] - ItemsTaken'[p][x]
    <3>1. CASE x \in Invoices
      <4>1. ItemsTaken'[p][x] = allocs[x] /\ allocs[x] \in Nat
        BY <2>2, <2>3, <3>1
      <4>2. /\ invoice'[x].status = invoice[x].status
            /\ invoice'[x].balanceDue = invoice[x].balanceDue - allocs[x]
            /\ allocs[x] > 0 => invoice[x].status = "FINALIZED"
        BY <1>2, <2>1, <3>1
      <4>3. /\ ItemState[x] = StateOf(invoice[x].status)
            /\ ItemRemaining[x] =
                 IF invoice[x].status = "FINALIZED" THEN invoice[x].balanceDue ELSE 0
            /\ ItemRemaining'[x] =
                 IF invoice'[x].status = "FINALIZED" THEN invoice'[x].balanceDue ELSE 0
        BY <3>1, ItemValues, ItemValuesNext DEF ValuesOfItems
      <4>4. QED
        BY <4>1, <4>2, <4>3 DEF StateOf
    <3>2. CASE x \notin Invoices
      <4>1. SameItem(x) /\ ItemsTaken'[p][x] = 0
        BY <1>2, <2>2, <3>2, KeptItems, RowsOfItems
      <4>2. QED
        BY <1>5, <4>1 DEF SameItem
    <3>3. QED
      BY <3>1, <3>2
  <2>6. QED
    BY <1>1, <1>3, <1>4, <2>2, <2>4, <2>5, OpensTaking
<1>8. CASE PaymentVoided(p)
  <2> DEFINE allocs == payment[p].allocations
             sum == Total(Invoices, allocs)
  <2>1. /\ payment[p].status = "POSTED" /\ payment'[p].status = "VOIDED"
        /\ \A i \in Invoices :
             /\ invoice'[i].balanceDue = invoice[i].balanceDue + allocs[i]
             /\ allocs[i] > 0 => invoice[i].status = "FINALIZED"
    BY <1>8 DEF PaymentVoided, InvoiceDue
  <2>2. \A x \in Items :
          /\ ItemsTaken'[p][x] = 0
          /\ ItemsTaken[p][x] = IF x = p THEN sum
                                ELSE IF x \in Invoices THEN allocs[x] ELSE 0
    BY <2>1, UseValues, UseValuesNext DEF ValuesOfUses, TakenByPayment
  <2>3. /\ allocs \in [Invoices -> Nat]
        /\ \A i \in Invoices : invoice[i].balanceDue \in Nat
    BY DEF TypeOK, Payment, Invoice
  <2> HIDE DEF sum, allocs
  <2>4. /\ ItemState[p] = "OPEN" /\ ItemState'[p] = "CLOSED"
        /\ ItemAmount'[p] = 0 /\ ItemRemaining'[p] = 0
    BY <1>6, <2>1 DEF StateOf
  <2>5. ASSUME NEW x \in Items \ {p}
        PROVE  /\ ItemsTaken[p][x] > 0 => ItemState[x] = "OPEN"
               /\ ItemRemaining'[x] = ItemRemaining[x] + ItemsTaken[p][x]
    <3>1. CASE x \in Invoices
      <4>1. ItemsTaken[p][x] = allocs[x] /\ allocs[x] \in Nat
        BY <2>2, <2>3, <3>1
      <4>2. QED
        BY <1>2, <2>1, <2>3, <3>1, <4>1, ItemValues, ItemValuesNext
           DEF ValuesOfItems, StateOf
    <3>2. CASE x \notin Invoices
      <4>1. SameItem(x) /\ ItemsTaken[p][x] = 0
        BY <1>2, <2>2, <3>2, KeptItems, RowsOfItems
      <4>2. QED
        BY <1>5, <4>1 DEF SameItem
    <3>3. QED
      BY <3>1, <3>2
  <2>6. QED
    BY <1>1, <1>3, <1>4, <2>2, <2>4, <2>5, ClosesGivingBack
<1>9. QED
  BY <1>7, <1>8

\* The initial rows map to no items and no uses.
LEMMA InitMapped == Init => Subledger!Init
<1> SUFFICES ASSUME Init
             PROVE  Subledger!Init
  OBVIOUS
<1>1. /\ \A i \in Invoices : invoice[i].status = "NONE"
      /\ \A p \in Payments : payment[p].status = "NONE"
      /\ \A c \in CreditNotes : creditNote[c].status = "NONE"
      /\ \A u \in Allocations : allocation[u].status = "NONE"
      /\ \A k \in CreditAllocations : creditAllocation[k].status = "NONE"
      /\ \A r \in Refunds : refund[r].status = "NONE"
  BY DEF Init
<1>2. \A x \in Items : ItemState[x] = "NONE" /\ ItemAmount[x] = 0 /\ ItemRemaining[x] = 0
  BY <1>1, ItemValues, RowsOfItems DEF ValuesOfItems, StateOf
<1>3. \A u \in Uses, x \in Items : ItemsTaken[u][x] = 0
  BY <1>1, UseValues, RowsOfItems DEF ValuesOfUses, TakenByPayment, TakenByAllocation,
     TakenByCredit, TakenByRefund
<1> USE MappedFunctions DEF AreFunctions
<1>4. ItemState = [x \in Items |-> "NONE"]
  BY <1>2
<1>5. ItemAmount = [x \in Items |-> 0] /\ ItemRemaining = [x \in Items |-> 0]
  BY <1>2
<1>6. ItemsTaken = [u \in Uses |-> [x \in Items |-> 0]]
  <2>1. \A u \in Uses : ItemsTaken[u] = [x \in Items |-> 0]
    BY <1>3
  <2>2. QED
    BY <2>1
<1>7. QED
  BY <1>4, <1>5, <1>6 DEF Subledger!Init, Subledger!Nothing

\* Every step is one exact step of the open items, or unseen by them.
LEMMA StepMapped ==
    ASSUME TypeInv, TypeInv', [Next]_vars
    PROVE  [Subledger!Next]_(Subledger!vars)
<1>1. TypeOK /\ TypeOK' /\ References /\ RowChange
  BY StepChangesRows DEF TypeInv
<1>2. CASE UNCHANGED rows
  <2>1. \A x \in Items : SameItem(x)
    BY <1>2, KeptItems, RowsOfItems DEF rows
  <2>2. \A u \in Uses : SameUse(u)
    BY <1>2, KeptUses, RowsOfItems DEF rows
  <2>3. QED
    BY <2>1, <2>2, Stutters
<1>3. QED
  BY <1>1, <1>2, InvoiceChangeMapped, PaymentChangeMapped, AllocationChangeMapped,
     CreditNoteChangeMapped, CreditChangeMapped, RefundChangeMapped DEF RowChange

\* Whatever they interleave with, the handlers behave as exact steps on items.
THEOREM OpenItemsImplemented == Spec => ImplementsOpenItems
<1>1. IInv => TypeInv
  BY DEF IInv
<1>2. TypeInv /\ TypeInv' /\ [Next]_vars => [Subledger!Next]_(Subledger!vars)
  BY StepMapped
<1>3. QED
  BY <1>1, <1>2, InitMapped, Invariance, PTL DEF Spec, ImplementsOpenItems, Subledger!Spec
=============================================================================

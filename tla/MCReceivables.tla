--------------------------- MODULE MCReceivables ---------------------------
(* Instances of Receivables for TLC. *)
EXTENDS Receivables, TLC

Symmetry ==
    Permutations(Invoices) \cup Permutations(Payments)
      \cup Permutations(CreditNotes) \cup Permutations(Allocations)
      \cup Permutations(CreditAllocations) \cup Permutations(Refunds)
      \cup Permutations(Workers)
=============================================================================

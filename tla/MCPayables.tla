----------------------------- MODULE MCPayables -----------------------------
(* Instances of Payables for TLC. *)
EXTENDS Payables, TLC

Symmetry ==
    Permutations(Bills) \cup Permutations(Payments)
      \cup Permutations(Allocations) \cup Permutations(DebitNotes)
      \cup Permutations(DebitAllocations) \cup Permutations(Runs)
      \cup Permutations(Workers)
=============================================================================

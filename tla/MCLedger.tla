------------------------------ MODULE MCLedger ------------------------------
(* Ledger with symmetric rows and workers for TLC.  Days are numbers and   *)
(* Amounts are signed, so neither is a symmetry set.                       *)
EXTENDS Ledger, TLC

\* The lines of a request credit the first account.
Credits == {-2}

Symmetry ==
    Permutations(Entries) \cup Permutations(Periods) \cup Permutations(Workers)
=============================================================================

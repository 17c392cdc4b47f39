--------------------------- MODULE MCEmailOutbox ---------------------------
(* A row, two workers and a processor; retries, stale locks and long runs. *)
EXTENDS EmailOutbox, TLC

CONSTANTS e1, w1, w2, p1

OneEmail == {e1}
TwoWorkers == {w1, w2}
OneProcessor == {p1}

Symmetry == Permutations(TwoWorkers)
=============================================================================

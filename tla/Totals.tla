------------------------------ MODULE Totals ------------------------------
(***************************************************************************)
(* Sums of amounts.  Amounts are naturals (a Decimal(20,4) column counted  *)
(* in its smallest unit), so the sum of f over S is the number of pairs    *)
(* <<x, n>> with n \in 1 .. f[x]: one pair for every unit of every amount. *)
(* The definition needs no recursion, which lets TotalsProofs derive what  *)
(* changing one amount does to a sum from the theorems about Cardinality.  *)
(***************************************************************************)
EXTENDS Naturals, FiniteSets

\* The units of the amounts f assigns to the members of S.
Units(S, f) == UNION {{x} \X (1 .. f[x]) : x \in S}

\* A `reduce((sum, row) => sum.plus(row.amount), 0)` or `_sum` aggregate.
Total(S, f) == Cardinality(Units(S, f))
=============================================================================

\* A payment of up to two bills and a later allocation race with a chain of
\* two revaluations.  A payment of 5 at 0.25 is worth 1, and so is each part of
\* 2: the second part takes what is left.  A bill of 4 is settled by two parts
\* of 2, the last one final: 3 and 2 of its 5, or 1 and 0 of a layer of 1.
SPECIFICATION Spec
CONSTANTS
    Bills = {b1, b2}
    Payments = {p1}
    Allocations = {u1}
    DebitNotes = {}
    DebitAllocations = {}
    Runs = {r1, r2}
    Workers = {w1, w2}
    Amounts = {2, 5}
    BillTotals = {4}
    DebitTotals = {1}
    BillRates = {130}
    PaymentRates = {25}
    ClosingRates = {30}
    RateScale = 100
    BillDates = {1}
    Dates = {1, 2}
    None = None
SYMMETRY Symmetry
INVARIANTS
    LayerConserved
    RevaluationsStand
    PaymentConserved
\* The run ends when every row is used and every worker is idle.
CHECK_DEADLOCK FALSE

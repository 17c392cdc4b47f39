\* Two requests at a time pay, debit, void and revalue one bill: a payment of 1
\* or 2 and two later allocations of it, in parts or in full.  A bill dated 2
\* is no part of the revaluation of day 1.
SPECIFICATION Spec
CONSTANTS
    Bills = {b1}
    Payments = {p1}
    Allocations = {u1, u2}
    DebitNotes = {d1}
    DebitAllocations = {k1}
    Runs = {r1}
    Workers = {w1, w2}
    Amounts = {1, 2}
    BillTotals = {2}
    DebitTotals = {1}
    BillRates = {13}
    PaymentRates = {14}
    ClosingRates = {6}
    RateScale = 10
    BillDates = {1, 2}
    Dates = {1}
    None = None
SYMMETRY Symmetry
INVARIANTS
    TypeOK
    BillConserved
    ControlAccountTiesOut
PROPERTY ImplementsOpenItems
\* The run ends when every row is used and every worker is idle.
CHECK_DEADLOCK FALSE

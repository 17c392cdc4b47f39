\* Rows of every kind: every handler interleaves with
\* every other.
CONSTANTS
    Invoices = {i1}
    Payments = {p1}
    CreditNotes = {c1}
    Allocations = {u1}
    CreditAllocations = {k1}
    Refunds = {r1}
    Workers = {w1, w2}
    Amounts = {1, 2}
    FxConfigured = TRUE
    None = None
SPECIFICATION Spec
SYMMETRY Symmetry
INVARIANTS
    TypeOK
    ApplicationsBacked
    CreditNoteConserved
    ControlAccountTiesOut
PROPERTY ImplementsOpenItems
\* Every id used and every document voided: no request is left to make.
CHECK_DEADLOCK FALSE

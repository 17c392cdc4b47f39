\* Two payments with later allocations and a refund compete for one invoice.
CONSTANTS
    Invoices = {i1}
    Payments = {p1, p2}
    CreditNotes = {}
    Allocations = {u1, u2}
    CreditAllocations = {}
    Refunds = {r1}
    Workers = {w1, w2}
    Amounts = {1, 2, 3}
    FxConfigured = TRUE
    None = None
SPECIFICATION Spec
SYMMETRY Symmetry
INVARIANTS
    InvoiceConserved
    PaymentConserved
PROPERTY PostedInvoicesFrozen
\* Every id used and every document voided: no request is left to make.
CHECK_DEADLOCK FALSE

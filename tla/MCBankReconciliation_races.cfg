\* Two requests at a time over a row, a deposit and two reconciliations; the
\* run ends at the first race.
SPECIFICATION Spec
CONSTANTS
    x1 = x1
    Rows = {x1}
    DateOf <- FirstDay
    Imports = {m1}
    Deposits = {b1}
    Reconciliations = {c1, c2}
    Users = {s1, s2}
    Admins = {}
    Workers = {w1, w2}
    Days = {1, 2}
    MaxJournals = 2
    Tolerated = {}
    None = None
SYMMETRY Symmetry
INVARIANTS
    TypeOK
    CategorizedOnce
    DepositsMatchRows
    ClosedPeriodsDisjoint
    ClosedRowsRecorded
\* The run ends at the first race or with every id used.
CHECK_DEADLOCK FALSE

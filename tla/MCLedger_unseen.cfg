\* Two requests at a time over one entry and two periods: what the checks of
\* dates and totals keep right, and what others must have written unseen for
\* them to fail.  Two updates may leave both their lines (MaxSide); the
\* reversal of an entry needs a second one and is in MCLedger_races.
SPECIFICATION Spec
CONSTANTS
    Entries = {e1}
    Periods = {p1, p2}
    Days = {1, 2}
    Today = 1
    Amounts = {1}
    MaxSide = 2
    Workers = {w1, w2}
    None = None
SYMMETRY Symmetry
INVARIANTS
    PeriodsDisjoint
    TotalsMatchLines
PROPERTY ClosedPeriodsBlockPostings

\* Two requests at a time over three entries and one period: every race of
\* update, post and reverse on the same entry.  Lines move -2, or -4 where
\* two updates leave both theirs.
SPECIFICATION Spec
CONSTANTS
    Entries = {e1, e2, e3}
    Periods = {p1}
    Days = {1}
    Today = 1
    Amounts <- Credits
    MaxSide = 4
    Workers = {w1, w2}
    None = None
SYMMETRY Symmetry
INVARIANTS
    TypeOK
    ReversalMirrors
    ReversedOnce
PROPERTY PostedLinesFrozen

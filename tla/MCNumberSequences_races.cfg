\* Documents and settings, two requests at a time.
SPECIFICATION NumbersSpec
CONSTANTS
    Documents = {d1, d2, d3}
    Prefixes <- TwoPrefixes
    Paddings = {3}
    NextNumbers = {2, 4}
    DefaultPadding = 6
    MaxNumber = 4
    Requests = {w1, w2}
    Unset = Unset
SYMMETRY Symmetry
INVARIANTS
    NumbersTypeOK
    NoGaps
\* Every document created and every number issued.
CHECK_DEADLOCK FALSE

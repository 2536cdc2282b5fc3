SPECIFICATION Spec
CONSTANTS
    N = 3
    M = 2
    resource <- MCResource
    max <- MCMax
    MaxReturn = 2
    MaxEntry = 4
    MaxOwed = 1
INVARIANTS
    Conserved
    AlwaysSafe
    NeverTooStrict
\* the user may quit
CHECK_DEADLOCK FALSE

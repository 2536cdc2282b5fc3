SPECIFICATION Spec
CONSTANTS
    max_num = 3
    Base = 0
INVARIANTS
    MutualExclusion
    OneStaysBack
PROPERTY EveryThreadLeaves
\* every thread passes once
CHECK_DEADLOCK FALSE

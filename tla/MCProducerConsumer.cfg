SPECIFICATION Spec
CONSTANTS
    p1 = p1
    p2 = p2
    c1 = c1
    c2 = c2
    Producers = {p1, p2}
    Consumers = {c1, c2}
    BUFFER_SIZE = 2
    MAX_ITEM_NUM = 3
INVARIANTS
    TypeOK
    MutualExclusion
    SlotsConserved
    StockConserved
    StockIntact
    TakenInOrder
PROPERTIES
    QueueSpec
    AllExit
\* the threads end, and may hang when an item is left behind (run pc_lost)
CHECK_DEADLOCK FALSE

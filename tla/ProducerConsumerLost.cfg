SPECIFICATION Spec
CONSTANTS
    p1 = p1
    c1 = c1
    Producers = {p1}
    Consumers = {c1}
    BUFFER_SIZE = 2
    MAX_ITEM_NUM = 2
INVARIANT NothingLeftBehind
CHECK_DEADLOCK FALSE

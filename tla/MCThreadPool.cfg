SPECIFICATION Spec
CONSTANTS
    w1 = w1
    w2 = w2
    w3 = w3
    Workers = {w1, w2, w3}
    TASK_QUEUE_MAX_SIZE = 3
    TASK_NUM = 4
    UseMutex = TRUE
INVARIANTS
    AllFinished
    NoEarlyExit
PROPERTIES
    QueueSpec
    Terminates
\* the program ends
CHECK_DEADLOCK FALSE

SPECIFICATION Spec
CONSTANTS
    w1 = w1
    w2 = w2
    Workers = {w1, w2}
    TASK_QUEUE_MAX_SIZE = 3
    TASK_NUM = 2
    UseMutex = FALSE
INVARIANT TasksAtMostOnce
CHECK_DEADLOCK FALSE

SPECIFICATION Spec
CONSTANTS
    max_num = 2
    Base = 1
INVARIANT NotKilled
CHECK_DEADLOCK FALSE

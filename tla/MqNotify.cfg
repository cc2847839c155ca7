CONSTANTS
    MQ_MSG_NUM_MAX = 10
    Leftover = 1
SPECIFICATION FairSpec
INVARIANTS TypeOK NoLostWakeup 
PROPERTIES EveryMessageReceived
CHECK_DEADLOCK FALSE

CONSTANTS
    Clients = {c1, c2}
    FDs = {3, 4, 5}
    Backlog = 0
    NoConn = none
SPECIFICATION FairSpec
INVARIANTS BitsNotStale NoSigpipe OwnAnswers
PROPERTIES EveryClientServed
CHECK_DEADLOCK FALSE

CONSTANTS
    EC = {e1, e2, e3, e4}
    NULL = NULL
    NUM_PRIORITIES = 2
    MAX_ECS = 3
SPECIFICATION FairSpec
INVARIANTS
    TypeOK
    Accounting
    IdleMeansBlocked
PROPERTIES
    HighestPriorityRuns
    FifoAmongReady
    
CHECK_DEADLOCK FALSE

CONSTANTS
    root = root
    high = high
    high2 = high2
    low = low
    srv1 = srv1
    srv2 = srv2
    NULL = NULL
    NUM_PRIORITIES = 2
    MAX_ECS = 8
    EC <- Chain
    RootEc = root
    Values = {7}
    FRAME = 1000
    Program <- ChainProgram
    Reach <- ChainReach
    BasePriority <- ChainBase
SPECIFICATION Spec
INVARIANTS
    SendersRegistered
CHECK_DEADLOCK FALSE

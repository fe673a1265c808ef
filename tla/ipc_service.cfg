CONSTANTS
    root = root
    high = high
    high2 = high2
    low = low
    srv1 = srv1
    srv2 = srv2
    NULL = NULL
    NUM_PRIORITIES = 2
    MAX_ECS = 8
    EC <- Parties
    RootEc = root
    Values = {7, 8}
    FRAME = 1000
    Program <- ServiceProgram
    Reach <- ServiceReach
    BasePriority <- ServiceBase
SPECIFICATION Spec
INVARIANTS
    SenderListExact
    ReceiverMarked
    WaitsWhileBlocked
    PriorityInheritance
    BoostNeedsSender
    NeverHalts
PROPERTIES
    ImplementsRendezvous
CHECK_DEADLOCK FALSE

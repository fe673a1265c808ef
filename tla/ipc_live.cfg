CONSTANTS
    root = root
    high = high
    high2 = high2
    low = low
    srv1 = srv1
    srv2 = srv2
    NULL = NULL
    NUM_PRIORITIES = 2
    MAX_ECS = 8
    EC <- Crowd
    RootEc = root
    Values = {7}
    FRAME = 1000
    Program <- CrowdProgram
    Reach <- CrowdReach
    BasePriority <- CrowdBase
SPECIFICATION FairSpec
PROPERTIES
    TopSendCompletes
CHECK_DEADLOCK FALSE

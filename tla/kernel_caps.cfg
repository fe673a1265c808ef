CONSTANTS
    root = root
    e2 = e2
    e3 = e3
    NULL = NULL
    NUM_PRIORITIES = 2
    MAX_ECS = 8
    EC <- Builders
    RootEc = root
    Values = {7}
    FRAME = 1000
    Program <- BuilderProgram
    PD = {d0, d1, d2}
    RootPd = d0
    MAX_CAPS = 3
    NewPriority = {0}
SPECIFICATION Spec
SYMMETRY Symmetry
INVARIANTS
    PdTree
    AuthorityFlowsDown
    CapsMatchEcs
PROPERTIES
    SlotsKeepMeaning
CHECK_DEADLOCK FALSE

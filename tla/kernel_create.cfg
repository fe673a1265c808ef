CONSTANTS
    root = root
    e2 = e2
    e3 = e3
    NULL = NULL
    NUM_PRIORITIES = 2
    MAX_ECS = 8
    EC <- Builders
    RootEc = root
    Values = {7}
    FRAME = 1000
    Program <- BuilderProgram
    PD = {d0, d1, d2}
    RootPd = d0
    MAX_CAPS = 2
    NewPriority = {0}
SPECIFICATION Spec
SYMMETRY Symmetry
PROPERTIES
    CreateReported
CHECK_DEADLOCK FALSE

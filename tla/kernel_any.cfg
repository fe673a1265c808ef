CONSTANTS
    root = root
    e2 = e2
    e3 = e3
    NULL = NULL
    NUM_PRIORITIES = 2
    MAX_ECS = 8
    EC <- Builders
    RootEc = root
    Values = {7}
    FRAME = 1000
    Program <- AnyProgram
    PD = {d0, d1}
    RootPd = d0
    MAX_CAPS = 2
    NewPriority = {0,1}
SPECIFICATION Spec
SYMMETRY Symmetry
INVARIANTS
    TypeOK
    CurrentsAgree
    Accounting
    
    
CHECK_DEADLOCK FALSE

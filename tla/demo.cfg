CONSTANTS
    reducer = reducer
    mapper0 = mapper0
    mapper1 = mapper1
    mapper2 = mapper2
    NULL = NULL
    NUM_PRIORITIES = 2
    MAX_ECS = 8
    EC = {main, reducer, mapper0, mapper1, mapper2}
    RootEc = main
    Values = {5, 4, 1}
    FRAME = 1000
    Program <- EveryCall
    PD = {d0, d1, d2}
    RootPd = d0
    MAX_CAPS = 8
    NewPriority = {0}
    Inputs <- DemoInputs
    ReducerPriority = {0, 1, 10}
    LAST_PRIORITY = 10
SPECIFICATION DemoSpec
INVARIANTS
    NoCallFails
    OnlyTheSum
PROPERTIES
    ResultArrives
CHECK_DEADLOCK FALSE

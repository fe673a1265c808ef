CONSTANTS
    EC = {e1, e2, e3}
    NULL = NULL
    NUM_PRIORITIES = 2
    MAX_ECS = 3
SPECIFICATION Spec
INVARIANTS
    TypeOK
    RingGeometry
PROPERTIES
    ImplementsFifo
SYMMETRY Symmetry
CHECK_DEADLOCK FALSE

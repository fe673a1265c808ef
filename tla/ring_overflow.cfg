CONSTANTS
    EC = {e1, e2, e3}
    NULL = NULL
    NUM_PRIORITIES = 2
    MAX_ECS = 2
SPECIFICATION Spec
PROPERTIES
    PanicsOnlyIdle
SYMMETRY Symmetry
CHECK_DEADLOCK FALSE

CONSTANTS
    PAGE_SIZE = 4
    POOL_F = 20
    POOL_E = 80
    Sizes = {2, 3}
    PTES = 4
    DIRS = 10
    LOAD_DIRS = 1
    LINK_DIR = 3
    LINK_DIRS = 4
    LINK_P = 4
    REMAP_DIR = 9
    EC = {root, e1, e2}
    RootEc = root
    NULL = NULL
    Images <- MCImages
    EC_SIZE = 3
    PD_SIZE = 2
    KSTCK = 31
    IOBMP = 32
    Points = {1, 2}
    USER_HEAP_START = 3
    USER_HEAP_END = 9
    USER_MAIN_STACK_START = 9
    KERN_STACK_SIZE = 3
    USER_STACK_PAGES = 1
    mempool_f = 3
    mempool_e = 9
    user_stack_bottom = 9
    MAIN_STACK_PAGES = 2
SPECIFICATION Spec
INVARIANTS
    TypeOK
    NoOverlap
    TlbCoherent
    NoAliasing
    UserKernelSplit
    StacksGuarded
    SegmentsMapped
PROPERTIES
    ResumesWhereItLeft
CHECK_DEADLOCK FALSE

SPECIFICATION Spec
CONSTANTS
    p1 = p1 p2 = p2  Main = Main  Cleaner = Cleaner  NoDir = NoDir  NoChild = NoChild
    Child <- MCChild
    W = 64
    PAGE = 4
    HeapStart = 16
    HeapSize = 16
    Stack <- MCStack
    Ticks = 3
    Second = 10
    ctors <- MCCtors
    dtors <- MCDtors
    Argument <- MCArgument
    main = 10
    MaxCalls = 3
INVARIANTS
    TypeOK BlocksAccounted BreakBacked Answered CrtOrder HaltsExplained
SYMMETRY Alike
CHECK_DEADLOCK FALSE

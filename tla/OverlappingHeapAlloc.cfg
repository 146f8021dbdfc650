SPECIFICATION Spec
CONSTANTS
    t1 = t1
    t2 = t2
    Caller <- MCCaller
    NoRequest = NoRequest
    Requests = {49, 1008, 1009, 1300}
    HeapStart = 1072
    HeapSize = 3700
    PageSize = 1024
    MaxHeld = 3
    Overlap = TRUE
INVARIANTS BlocksApart

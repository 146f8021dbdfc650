SPECIFICATION FairSpec
CONSTANTS
    Main = Main
    Idle = Idle
    Cleaner = Cleaner
    NoThread = NoThread
    p1 = p1
    p2 = p2
    Process <- MCProcess
    priority <- MCPriority
    quota <- MCQuota
    CleanerNap = 3
    MaxNap = 2
    Rounds = 2
INVARIANTS TypeOK OnePlace FlagsMatch SliceBound NoInversion WakesOnTime
PROPERTIES NoOvertaking EveryProcessReaped EveryThreadRuns

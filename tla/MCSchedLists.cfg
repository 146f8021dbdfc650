SPECIFICATION Spec
CONSTANTS
    Main = Main
    Idle = Idle
    Cleaner = Cleaner
    NoThread = NoThread
    p1 = p1
    p2 = p2
    Process <- MCProcess
    priority <- MCPriority
    quota <- MCQuota
    CleanerNap = 3
    MaxNap = 2
    Rounds = 2
    PRIORITY_MAX = 2
    SleptHead = SleptHead
    ZombieHead = ZombieHead
    Interruptible = FALSE
INVARIANTS ChainsWhole LinksMatch
PROPERTIES Refines

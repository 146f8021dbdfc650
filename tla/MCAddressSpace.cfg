SPECIFICATION Spec
CONSTANTS
    Main = Main  NoEntry = NoEntry  OnDemand = OnDemand  NoPage = NoPage
    p1 = p1 p2 = p2  k1 = k1 k2 = k2 k3 = k3 c = c u1 = u1
    S960 = S960 S961 = S961 S959 = S959 S0 = S0  Rec = Rec
    f1 = f1 f2 = f2 f3 = f3 f4 = f4 f5 = f5 f6 = f6 f7 = f7 f8 = f8
    MMU_PD = MMU_PD  MMU_PT = MMU_PT
    Process <- MCProcess
    UserPage <- MCUser
    KernelSlot <- MCKernelSlot
    UserSlot <- MCUserSlot
    BootSlot = S960
    ClonePage = c
    Pool <- MCPool
    KernelPage <- BootKernel
    slot <- BootSlots
INVARIANTS
    TypeOK
    OneUse
    KernelShared
    TlbFresh
PROPERTY
    KeptOutsideMark
SYMMETRY Alike
CHECK_DEADLOCK TRUE

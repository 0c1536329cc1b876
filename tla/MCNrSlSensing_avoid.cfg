SPECIFICATION Spec
CONSTANTS
    Senders = {"strong", "weak"}
    Sci <- StrongAndWeak
    Pool <- TwoOfThree
    SensWindLen = 6
    Tproc0 = 1
    T1 = 1
    T2 = 4
    PRsvpTx = 6
    CResel = 2
    ThresRsrp <- MidThres
    ResourcePercentage = 50
    MaxTx = 2
    SlotMod = 64
    FirstSlot = 6
    LastSlot = 15
    TotalSubCh = 2
CHECK_DEADLOCK FALSE
INVARIANTS
    StaleIsShortLived
    WindowKept
    AnnouncedIsAvoided
    StrongIsExcluded
    FreeIsOffered
    DrawEnds

SPECIFICATION Spec
CONSTANTS
    Sdus = 5
    Sizes = {3}
    TxBytes = {3, 9}
    MaxBuffer = 6
    MaxLi = 2
    SnMod = 8
    Window = 4
    MaxLate = 2
    MaxWaiting = 1
    MaxFaults = 1
CHECK_DEADLOCK FALSE
INVARIANTS
    SduIsIntact
    NoImpossibleTransition
PROPERTIES
    ImplementsService
    BufferDrains

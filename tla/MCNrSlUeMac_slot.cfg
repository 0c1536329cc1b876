SPECIFICATION Spec
CONSTANTS
    Dst = {d1, d2}
    NoDst = NoDst
    NumSidelinkProcess = 2
    T1 = 1
    T2 = 2
    ResvPeriod = 3
    MaxTx = 2
    MaxNumPerReserve = 2
    ReselCounters = {1, 2}
    CReselFactor = 2
    PsschSymStart = 1
    PsschSymLength = 12
    GapMod = 256
    EnableSensing = TRUE
    EnableBlindReTx = TRUE
    MaxTxBufferSize = 1
    TbSize = 1
SYMMETRY Symmetry
INVARIANTS
    OneTbPerSlot

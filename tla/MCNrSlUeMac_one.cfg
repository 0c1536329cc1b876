SPECIFICATION FairSpec
CONSTANTS
    Dst = {d1}
    NoDst = NoDst
    NumSidelinkProcess = 2
    T1 = 1
    T2 = 3
    ResvPeriod = 4
    MaxTx = 3
    MaxNumPerReserve = 2
    ReselCounters = {1, 2}
    CReselFactor = 2
    PsschSymStart = 1
    PsschSymLength = 12
    GapMod = 256
    EnableSensing = FALSE
    EnableBlindReTx = TRUE
    MaxTxBufferSize = 2
    TbSize = 1
INVARIANTS
    TypeOK EveryTbIsIndicated
PROPERTIES
    DataIsServed ProcessIsReleased

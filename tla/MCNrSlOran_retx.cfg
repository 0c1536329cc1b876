SPECIFICATION Spec
CONSTANTS
    Dst = {d1, d2}
    NoDst = NoDst
    NumSidelinkProcess = 2
    SimTime = 3
    NSelected = 2
    TbTxCounter = 1
    MaxDstPerMessage = 1
    AllowLate = TRUE
    EnableBlindReTx = TRUE
INVARIANTS
    AbortForWantOfProcess
    ProcessHeldForReTx

    

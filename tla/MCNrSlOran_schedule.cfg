SPECIFICATION Spec
CONSTANTS
    Dst = {d1, d2}
    NoDst = NoDst
    NumSidelinkProcess = 2
    SimTime = 4
    NSelected = 1
    TbTxCounter = 0
    MaxDstPerMessage = 1
    AllowLate = FALSE
    EnableBlindReTx = TRUE
SYMMETRY Symmetry
PROPERTIES
    FollowsSchedule

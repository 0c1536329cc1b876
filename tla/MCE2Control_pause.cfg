SPECIFICATION Spec
CONSTANTS
    Answer <- TwoParts
    Rounds = 2
    Others = 1
    MsgLen = 3
INVARIANTS
    Reassembled
    MovesOnWithSchedule
    ResumedByOwnAnswer
PROPERTY
    PauseEnds

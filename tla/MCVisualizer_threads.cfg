SPECIFICATION Spec
CONSTANTS
    UserEvents = 4
    MaxPauses = 2
INVARIANTS
    NoMessageLost
    PauseComesToRest
PROPERTIES
    QuitEnds
    MessageIsShown

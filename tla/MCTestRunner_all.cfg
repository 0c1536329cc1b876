SPECIFICATION Spec
CONSTANTS
    Suites = {"routing", "speed"}
    Performance = {"speed"}
    Examples = {"udp-echo"}
    PyExamples = {"mixed-wireless"}
    DoRun = {"udp-echo", "mixed-wireless"}
    PythonBindings = FALSE
    Unlisted = {"Invalid test type"}
    ValgrindSkips = {"routing"}
    Constraints = {"", "performance", "pyexample"}
    CommandLines <- Representative
    Workers = {"w1", "w2"}
    MayGarble = TRUE
INVARIANTS
    EveryThreadReturns
    NoJobLost
    ZeroMeansAllWell
    ResultsAgree
PROPERTY
    RunEnds

SPECIFICATION Spec
CONSTANTS
    Threads = {main, task}
    Engine = main
    Locks = {lock}
    TheMap = shared
    Rank <- MCRank
    Keys = {k}
    Absent = absent
    MaxVal = 2
    Tokens = {token}
    NoToken = noToken
    Signals = {2, 10}
    Sigint = 2
    Program <- MCProgram
    PostedOps = {"withLock", "withCancel"}
    HandlerOps = {"set", "delete"}
    HandlersThrow = FALSE
    None = none
    MaxDepth = 2
    MaxEvents = 3
INVARIANTS ScopesExact PostedExact HandlersRun NoWaitCycle
PROPERTIES ImplementsAtomicMap
CHECK_DEADLOCK FALSE

CONSTANTS
    c1 = c1
    c2 = c2
    t1 = t1
    t2 = t2
    Goroutines = {c1, c2}
    Targets = {t1, t2}
    MaxConcurrency = 1
SPECIFICATION FairAgentSpec
INVARIANTS
    AgentTypeOK
    ConcurrencyBounded
    NothingOutlivesStart
    CleanReturn
PROPERTIES
    AddWhileCounted
    ShutdownCompletes
    EveryCheckRuns
    StopReturns
CHECK_DEADLOCK FALSE

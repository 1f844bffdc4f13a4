CONSTANTS
    c1 = c1
    t1 = t1
    Goroutines = {c1}
    Targets = {t1}
    MaxConcurrency = 1
SPECIFICATION FairAgentSpec
PROPERTIES
    SignalStops
CHECK_DEADLOCK FALSE

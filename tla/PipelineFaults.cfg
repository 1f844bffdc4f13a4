CONSTANTS
    r1 = r1
    r2 = r2
    t1 = t1
    b1 = b1
    n1 = n1
    h1 = h1
    h2 = h2
    NoState = NoState
    NoEvent = NoEvent
    Replicas = {r1, r2}
    Targets = {t1, b1}
    Keys <- Spread
    Filed <- Defaulted
    Nodes = {n1}
    Handlers = {h1, h2}
    DefaultConsecutiveFailures = 2
    DefaultRecoverySuccesses = 1
    CreationGaps <- Bursty
    MaxResults = 5
    Disturbances = {"failures", "restarts", "cleanups"}
    MaxDisturbances = 1
SPECIFICATION FairSpec
INVARIANTS
    NoLostAlert
    EventsAreDecided
    EventsTrackEngine
    ProcessorAgreesWithEngine
PROPERTIES
    AlertEventuallyVisible
CHECK_DEADLOCK FALSE

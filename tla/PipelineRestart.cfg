CONSTANTS
    r1 = r1
    t1 = t1
    b1 = b1
    n1 = n1
    h1 = h1
    NoState = NoState
    NoEvent = NoEvent
    Replicas = {r1}
    Targets = {t1}
    Keys <- Single
    Filed <- Own
    Nodes = {n1}
    Handlers = {h1}
    DefaultConsecutiveFailures = 2
    DefaultRecoverySuccesses = 1
    CreationGaps <- Spaced
    MaxResults = 4
    Disturbances = {"restarts"}
    MaxDisturbances = 1
SPECIFICATION Spec
INVARIANTS
    RecoveredIsResolved
CHECK_DEADLOCK FALSE

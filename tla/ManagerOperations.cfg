CONSTANTS
    k1 = k1
    NoAlert = NoAlert
    Keys = {k1}
    MaxAlerts = 3
    MaxOps = 6
    MaxRestarts = 1
    Durations = {0, 2}
    Retention = 2
SPECIFICATION FairSpec
INVARIANTS
    StoreMirrorsActive
    EventLogExplainsState
    OneOpenAlert
    RoutedOnce
PROPERTIES
    SilenceEnds
    AlertsLive
CHECK_DEADLOCK FALSE

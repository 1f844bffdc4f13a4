CONSTANTS
    NoLabels = NoLabels
    NoRoute = NoRoute
    Alerts <- SomeAlerts
    Keys = {"k1", "k2"}
    Rules <- SomeRules
    Channels = {"pagerduty", "slack", "email"}
    Untimed = {"email"}
    DefaultCooldown = 4
    MaxRetries = 2
    RetryBackoff = 1
    SendTimeout = 1
SPECIFICATION Spec
INVARIANTS
    HoldBounded
PROPERTIES
    CooldownRespected
    EveryChannelTried

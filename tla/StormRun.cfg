CONSTANTS
    Groups = {g1, g2}
    NoGroup = NoGroup
    MaxAlertsPerGroup = 2
    CooldownPeriod = 2
    SuppressionWindow = 9
SPECIFICATION FairSpec
INVARIANTS CooldownBetweenSends StormBounded
PROPERTY SuppressionLifts

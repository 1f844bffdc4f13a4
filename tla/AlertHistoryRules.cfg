CONSTANTS
    t1 = t1
    NoRule = NoRule
    r1 = r1
    r2 = r2
    Targets = {t1}
    RuleNames = {r1, r2}
    RuleSpecs <- SomeRuleSpecs
    DefaultConsecutiveFailures = 2
    DefaultRecoverySuccesses = 2
    MaxHistory = 5
SPECIFICATION Spec
INVARIANTS
    AlertJustified
    AlertNotMissed

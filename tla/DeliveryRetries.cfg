SPECIFICATION Spec
CONSTANTS
    Submitters = {s1, s2}
    Target = t1
    NoRule = noRule
    MaxResults = 2
    MaxRetries = 2
    CallTimeout = 2
    RetryBackoff = 1
    Remaining = {0, 4}
    DefaultConsecutiveFailures = 3
    DefaultRecoverySuccesses = 2
INVARIANTS
    AlertNeedsFailures
    SubmissionBounded
PROPERTY
    DeliversAtLeastOnce
CHECK_DEADLOCK FALSE

CONSTANTS
    Reporters = {n1, n2}
    Handlers = {h1, h2}
    Modes = {"pod", "host"}
    Codes = {tcp_refused, dns_timeout}
    TimeWindow = 2
    MinNodesForPattern = 2
    MaxFailures = 3
    MaxTime = 3
SPECIFICATION CorrelationSpec
SYMMETRY Symmetry
INVARIANTS WindowExact AffectedRecent PatternHasNodes
CHECK_DEADLOCK FALSE

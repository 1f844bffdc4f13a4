CONSTANTS
    Nodes = {n1, n2, n3, n4}
    Zones = {z1, z2, z3}
    NoZone = NoZone
    ClusterWideThreshold = 75
    MaxChanges = 1
SPECIFICATION FairSpec
INVARIANTS RadiusMonotone NeverOverstates ExactWhenFresh
PROPERTY TopologyCatchesUp

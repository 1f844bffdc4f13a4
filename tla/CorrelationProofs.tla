---------------------------- MODULE CorrelationProofs ---------------------------
(***************************************************************************)
(* The topology analyzer, and the correlation engine that asks it.         *)
(*                                                                         *)
(* Analyzer: every known node is in the list of its zone, so that the      *)
(* zones of any affected nodes are among those with a list.  From this it  *)
(* follows how the blast radii of two failures, and of two pictures of the *)
(* cluster, compare, for any number of nodes and zones and any threshold.  *)
(*                                                                         *)
(* Engine: the window is always that of the failure recorded last, so that *)
(* what any handler reads of it, however late, are nodes that failed       *)
(* within the time window before the handler's own failure, or since.      *)
(***************************************************************************)
EXTENDS Correlation, Topology, FiniteSetTheorems, TLAPS

LEMMA InitType == Init => TypeOK
BY TopologyAssumption DEF Init, TypeOK, Known

LEMMA NextType == TypeOK /\ [Next]_vars => TypeOK'
<1> SUFFICES ASSUME TypeOK, [Next]_vars PROVE TypeOK'
    OBVIOUS
<1> USE TopologyAssumption DEF TypeOK, Known
<1>1. ASSUME NEW n \in Nodes, NEW z \in Zones \cup {NoZone}, ClusterChanges(n, z)
      PROVE  TypeOK'
    BY <1>1 DEF ClusterChanges
<1>2. CASE List
    BY <1>2 DEF List, Up
<1>3. ASSUME NEW n \in Nodes, NEW z \in Zones, UpdateNode(n, z)
      PROVE  TypeOK'
    BY <1>3 DEF UpdateNode
<1>4. CASE UNCHANGED vars
    BY <1>4 DEF vars
<1> QED BY <1>1, <1>2, <1>3, <1>4 DEF Next, Load

-----------------------------------------------------------------------------
(* The zones of affected nodes all have a list, and more nodes have no     *)
(* fewer of them.                                                          *)
LEMMA ZonesListed ==
    ASSUME TypeOK, NEW A \in SUBSET Nodes
    PROVE  /\ AffectedZones(A) \subseteq KnownZones
           /\ IsFiniteSet(KnownZones) /\ IsFiniteSet(A) /\ IsFiniteSet(Known)
           /\ Cardinality(AffectedZones(A)) \in Nat /\ Cardinality(KnownZones) \in Nat
           /\ Cardinality(A) \in Nat /\ Cardinality(Known) \in Nat
           /\ Cardinality(AffectedZones(A)) <= Cardinality(KnownZones)
<1>1. AffectedZones(A) \subseteq KnownZones
    BY DEF AffectedZones, KnownZones, Known, TypeOK
<1>2. IsFiniteSet(KnownZones) /\ IsFiniteSet(A) /\ IsFiniteSet(Known)
    BY TopologyAssumption, FS_Subset DEF KnownZones, Known
<1>3. /\ IsFiniteSet(AffectedZones(A))
      /\ Cardinality(AffectedZones(A)) <= Cardinality(KnownZones)
    BY <1>1, <1>2, FS_Subset
<1> QED BY <1>1, <1>2, <1>3, FS_CardinalityType

LEMMA MoreNodesMoreZones ==
    ASSUME TypeOK, NEW B \in SUBSET Nodes, NEW A \in SUBSET B
    PROVE  /\ Cardinality(A) <= Cardinality(B)
           /\ Cardinality(AffectedZones(A)) <= Cardinality(AffectedZones(B))
<1>1. AffectedZones(A) \subseteq AffectedZones(B)
    BY DEF AffectedZones
<1>2. IsFiniteSet(AffectedZones(B)) /\ IsFiniteSet(B)
    BY ZonesListed, FS_Subset
<1> QED BY <1>1, <1>2, FS_Subset

(* More affected nodes or zones do not make the radius smaller; nor do     *)
(* fewer nodes or zones in all.                                            *)
LEMMA RadiusGrowsWithFailure ==
    ASSUME NEW a \in Nat, NEW b \in Nat, a <= b, NEW s \in Nat, NEW t \in Nat, s <= t,
           NEW nodes \in Nat, NEW total \in Nat, t <= total
    PROVE  Rank[Radius(a, s, nodes, total)] <= Rank[Radius(b, t, nodes, total)]
<1>1. PICK threshold \in Int : threshold = (nodes * ClusterWideThreshold) \div 100
    <2>1. nodes * ClusterWideThreshold \in Int
        BY TopologyAssumption
    <2> QED BY <2>1
<1> QED BY <1>1 DEF Radius, Rank

LEMMA ThresholdGrows ==
    ASSUME NEW m \in Nat, NEW n \in Nat, m <= n
    PROVE  /\ (m * ClusterWideThreshold) \div 100 \in Int
           /\ (n * ClusterWideThreshold) \div 100 \in Int
           /\ (m * ClusterWideThreshold) \div 100 <= (n * ClusterWideThreshold) \div 100
<1>1. PICK x \in Int : x = m * ClusterWideThreshold
    BY TopologyAssumption
<1>2. PICK y \in Int : y = n * ClusterWideThreshold
    BY TopologyAssumption
<1>3. x <= y
    BY <1>1, <1>2, TopologyAssumption
<1>4. x \div 100 \in Int /\ y \div 100 \in Int /\ x \div 100 <= y \div 100
    BY <1>3
<1> QED BY <1>1, <1>2, <1>4

LEMMA RadiusShrinksWithCluster ==
    ASSUME NEW a \in Nat, NEW s \in Nat, NEW m \in Nat \ {0}, NEW n \in Nat, m <= n,
           NEW k \in Nat, NEW total \in Nat, s <= k, k <= total
    PROVE  Rank[Radius(a, s, n, total)] <= Rank[Radius(a, s, m, k)]
BY ThresholdGrows DEF Radius, Rank

(* No failure is given a smaller radius than a part of it                  *)
(* (topology.go ClassifyBlastRadius).                                      *)
THEOREM RadiusGrows == Spec => []RadiusMonotone
<1>1. TypeOK => RadiusMonotone
    BY ZonesListed, MoreNodesMoreZones, RadiusGrowsWithFailure
    DEF RadiusMonotone, ClassifyBlastRadius
<1> QED BY <1>1, InitType, NextType, PTL DEF Spec

(* Of nodes that are there and known where they are, the reference is the  *)
(* classification with the true numbers of nodes and zones.                *)
LEMMA ZonesTrue ==
    ASSUME TypeOK, UpToDate, NEW A \in SUBSET Up
    PROVE  /\ AffectedZones(A) = ZonesOf(A)
           /\ Up \subseteq Known /\ ZonesOf(A) \subseteq ZonesOf(Up)
           /\ ZonesOf(Up) \subseteq KnownZones
<1>1. Up \subseteq Known /\ ZonesOf(A) \subseteq ZonesOf(Up)
    BY DEF UpToDate, Up, Known, ZonesOf
<1>2. AffectedZones(A) = ZonesOf(A)
    BY <1>1 DEF AffectedZones, ZonesOf, UpToDate, Up
<1>3. ZonesOf(Up) \subseteq KnownZones
    <2>1. ASSUME NEW n \in Up PROVE cluster[n] \in KnownZones
        <3>1. n \in Known /\ nodeZone[n] = cluster[n] /\ cluster[n] \in Zones
            BY <1>1 DEF UpToDate, Up, TypeOK
        <3>2. n \in zones[cluster[n]]
            BY <3>1 DEF TypeOK
        <3> QED BY <3>1, <3>2 DEF KnownZones
    <2> QED BY <2>1 DEF ZonesOf
<1> QED BY <1>1, <1>2, <1>3

LEMMA NumbersTrue ==
    ASSUME TypeOK, UpToDate, NEW A \in SUBSET Up
    PROVE  /\ Cardinality(A) \in Nat /\ Cardinality(Up) \in Nat /\ Cardinality(Known) \in Nat
           /\ Cardinality(ZonesOf(A)) \in Nat /\ Cardinality(ZonesOf(Up)) \in Nat
           /\ Cardinality(KnownZones) \in Nat
           /\ Cardinality(A) <= Cardinality(Up) /\ Cardinality(Up) <= Cardinality(Known)
           /\ Cardinality(ZonesOf(A)) <= Cardinality(ZonesOf(Up))
           /\ Cardinality(ZonesOf(Up)) <= Cardinality(KnownZones)
           /\ Cardinality(ZonesOf(A)) = Cardinality(ZonesOf(Up)) <=> ZonesOf(A) = ZonesOf(Up)
           /\ Cardinality(A) < 2 => Cardinality(ZonesOf(A)) < 2
<1>1. IsFiniteSet(Known) /\ IsFiniteSet(Up) /\ IsFiniteSet(A) /\ IsFiniteSet(KnownZones)
    BY TopologyAssumption, FS_Subset DEF Known, Up, KnownZones
<1>2. IsFiniteSet(ZonesOf(Up)) /\ IsFiniteSet(ZonesOf(A))
    BY <1>1, ZonesTrue, FS_Subset
<1>3. Cardinality(A) < 2 => Cardinality(ZonesOf(A)) < 2
    <2>1. CASE A = {}
        BY <2>1, FS_EmptySet DEF ZonesOf
    <2>2. CASE \E x : A = {x}
        <3>1. PICK x : A = {x}
            BY <2>2
        <3>2. ZonesOf(A) = {cluster[x]}
            BY <3>1 DEF ZonesOf
        <3> QED BY <3>2, FS_Singleton
    <2>3. Cardinality(A) < 2 => A = {} \/ \E x : A = {x}
        <3>1. Cardinality(A) \in Nat
            BY <1>1, FS_CardinalityType
        <3>2. Cardinality(A) < 2 => Cardinality(A) = 0 \/ Cardinality(A) = 1
            BY <3>1
        <3> QED BY <1>1, <3>2, FS_EmptySet, FS_Singleton
    <2> QED BY <2>1, <2>2, <2>3
<1>4. /\ Cardinality(A) <= Cardinality(Up) /\ Cardinality(Up) <= Cardinality(Known)
      /\ Cardinality(ZonesOf(A)) <= Cardinality(ZonesOf(Up))
      /\ Cardinality(ZonesOf(Up)) <= Cardinality(KnownZones)
      /\ Cardinality(ZonesOf(A)) = Cardinality(ZonesOf(Up)) <=> ZonesOf(A) = ZonesOf(Up)
    BY <1>1, <1>2, ZonesTrue, FS_Subset
<1> QED BY <1>1, <1>2, <1>3, <1>4, FS_CardinalityType

LEMMA TrueRadiusIsRadius ==
    ASSUME TypeOK, UpToDate, NEW A \in SUBSET Up
    PROVE  TrueRadius(A) = Radius(Cardinality(A), Cardinality(ZonesOf(A)),
                                  Cardinality(Up), Cardinality(ZonesOf(Up)))
<1>1. PICK a \in Nat, m \in Nat, s \in Nat, t \in Nat :
          /\ a = Cardinality(A) /\ m = Cardinality(Up)
          /\ s = Cardinality(ZonesOf(A)) /\ t = Cardinality(ZonesOf(Up))
          /\ a <= m /\ s <= t /\ (s = t <=> ZonesOf(A) = ZonesOf(Up))
          /\ a < 2 => s < 2
    BY NumbersTrue
<1>2. PICK x \in Int : x = m * ClusterWideThreshold /\ x = ClusterWideThreshold * m
    BY TopologyAssumption
<1>3. 100 * a > x <=> a > x \div 100
    OBVIOUS
<1>4. x \div 100 \in Int /\ (x \div 100 >= 0)
    BY <1>2, TopologyAssumption
<1> QED BY <1>1, <1>2, <1>3, <1>4 DEF TrueRadius, Radius

(* What the analyzer keeps of the past makes no failure look larger than   *)
(* it is (topology.go UpdateNode, ClassifyBlastRadius).                    *)
THEOREM RadiusNotOverstated == Spec => []NeverOverstates
<1>1. TypeOK => NeverOverstates
    <2> SUFFICES ASSUME TypeOK, UpToDate, NEW A \in SUBSET Up
                 PROVE  Rank[ClassifyBlastRadius(A)] <= Rank[TrueRadius(A)]
        BY DEF NeverOverstates
    <2>1. CASE Cardinality(Up) = 0
        <3>1. Cardinality(A) = 0 /\ Cardinality(ZonesOf(A)) < 2
            BY <2>1, NumbersTrue
        <3>2. PICK n \in Nat, k \in Nat : n = Cardinality(Known) /\ k = Cardinality(KnownZones)
            BY NumbersTrue
        <3>3. ClassifyBlastRadius(A) = "node"
            BY <3>1, <3>2, NumbersTrue, ZonesTrue DEF ClassifyBlastRadius, Radius
        <3>4. TrueRadius(A) = "node"
            BY <3>1 DEF TrueRadius
        <3> QED BY <3>3, <3>4 DEF Rank
    <2>2. CASE Cardinality(Up) # 0
        BY <2>2, NumbersTrue, ZonesTrue, TrueRadiusIsRadius, RadiusShrinksWithCluster
        DEF ClassifyBlastRadius
    <2> QED BY <2>1, <2>2
<1> QED BY <1>1, InitType, NextType, PTL DEF Spec

(* Where it keeps nothing of the past, it is exact.                        *)
THEOREM RadiusExact == Spec => []ExactWhenFresh
<1>1. TypeOK => ExactWhenFresh
    <2> SUFFICES ASSUME TypeOK, UpToDate, Fresh, NEW A \in SUBSET Up
                 PROVE  ClassifyBlastRadius(A) = TrueRadius(A)
        BY DEF ExactWhenFresh
    <2>1. Known = Up
        BY DEF Known, Up, Fresh, UpToDate, TypeOK
    <2>2. KnownZones = ZonesOf(Up)
        BY TopologyAssumption DEF KnownZones, ZonesOf, Fresh, Up, TypeOK
    <2> QED BY <2>1, <2>2, ZonesTrue, TrueRadiusIsRadius DEF ClassifyBlastRadius
<1> QED BY <1>1, InitType, NextType, PTL DEF Spec

(* Types, and the agreement of nodeZone and zones (topology.go).           *)
THEOREM TypeCorrect == Spec => []TypeOK
BY InitType, NextType, PTL DEF Spec

-----------------------------------------------------------------------------
(* The correlation engine.                                                 *)

(* The failure of node m is the last that was recorded, and the window is  *)
(* what it was when that was done.                                         *)
LatestAt(m) ==
    LET latest == lastFailure[m]
    IN  /\ latest \in 0..now
        /\ \A n \in Reporters : lastFailure[n] <= latest
        /\ \A e \in failureWindow :
               e.timestamp > latest - TimeWindow /\ e.timestamp <= lastFailure[e.node]
        /\ \A n \in Recent(latest) :
               \E e \in failureWindow : e.node = n /\ e.timestamp = lastFailure[n]
        /\ \A h \in Handlers : handlers[h].recorded <= latest

Nothing ==
    /\ failures = 0 /\ failureWindow = {}
    /\ \A n \in Reporters : lastFailure[n] = -TimeWindow
    /\ \A h \in Handlers : handlers[h] = Idle

Windowed == Nothing \/ (failures > 0 /\ \E m \in Reporters : LatestAt(m))

(* What a handler has made of the windows it has read so far.              *)
Reported(h) ==
    /\ handlers[h].affected \subseteq Recent(handlers[h].recorded)
    /\ handlers[h].pattern = "target_outage" =>
           Cardinality(Recent(handlers[h].recorded)) >= MinNodesForPattern
    /\ handlers[h].pattern = "zone_issue" => Cardinality(Recent(handlers[h].recorded)) > 1
    /\ handlers[h].pc \in {"idle", "recorded"} =>
           handlers[h].affected = {} /\ handlers[h].pattern = "unknown"

IInv == CorrelationTypeOK /\ Windowed /\ \A h \in Handlers : Reported(h)

-----------------------------------------------------------------------------
LEMMA NodesRecent ==
    ASSUME CorrelationTypeOK, NEW m \in Reporters, LatestAt(m)
    PROVE  NodesOf(failureWindow) = Recent(lastFailure[m])
<1>1. ASSUME NEW e \in failureWindow
      PROVE  e.node \in Recent(lastFailure[m])
    <2>1. e.node \in Reporters /\ e.timestamp \in Nat /\ lastFailure[e.node] \in Int
          /\ lastFailure[m] \in Int
        BY DEF CorrelationTypeOK, FailureEvents
    <2>2. e.timestamp > lastFailure[m] - TimeWindow /\ e.timestamp <= lastFailure[e.node]
        BY DEF LatestAt
    <2>3. lastFailure[e.node] > lastFailure[m] - TimeWindow
        BY <2>1, <2>2, CorrelationAssumption
    <2> QED BY <2>1, <2>3 DEF Recent
<1>2. ASSUME NEW n \in Recent(lastFailure[m])
      PROVE  \E e \in failureWindow : e.node = n
    BY DEF LatestAt
<1> QED BY <1>1, <1>2 DEF NodesOf

(* What a handler reads names only nodes that failed recently enough.      *)
LEMMA ReadsRecent ==
    ASSUME CorrelationTypeOK, Windowed, NEW h \in Handlers
    PROVE  NodesOf(failureWindow) \subseteq Recent(handlers[h].recorded)
<1>1. CASE Nothing
    BY <1>1 DEF Nothing, NodesOf
<1>2. ASSUME NEW m \in Reporters, LatestAt(m)
      PROVE  NodesOf(failureWindow) \subseteq Recent(handlers[h].recorded)
    <2>1. NodesOf(failureWindow) = Recent(lastFailure[m])
        BY <1>2, NodesRecent
    <2>2. handlers[h].recorded <= lastFailure[m] /\ handlers[h].recorded \in Int
          /\ lastFailure[m] \in Int
        BY <1>2 DEF LatestAt, CorrelationTypeOK, HandlerStates
    <2>3. \A n \in Reporters : lastFailure[n] \in Int
        BY DEF CorrelationTypeOK
    <2> QED BY <2>1, <2>2, <2>3, CorrelationAssumption DEF Recent
<1> QED BY <1>1, <1>2 DEF Windowed

LEMMA RecentFinite ==
    ASSUME NEW since
    PROVE  IsFiniteSet(Recent(since)) /\ Cardinality(Recent(since)) \in Nat
<1>1. Recent(since) \subseteq Reporters
    BY DEF Recent
<1> QED BY <1>1, CorrelationAssumption, FS_Subset, FS_CardinalityType

LEMMA ReadsFewer ==
    ASSUME CorrelationTypeOK, Windowed, NEW h \in Handlers
    PROVE  /\ Cardinality(NodesOf(failureWindow)) \in Nat
           /\ Cardinality(NodesOf(failureWindow))
                  <= Cardinality(Recent(handlers[h].recorded))
<1>1. NodesOf(failureWindow) \subseteq Recent(handlers[h].recorded)
    BY ReadsRecent
<1> QED BY <1>1, RecentFinite, FS_Subset, FS_CardinalityType

Patterns == {"unknown", "cni_issue", "node_routing_issue", "target_outage",
             "zone_issue", "node_issue"}

(* A handler takes a step of its report, or is done with it; the window    *)
(* and the times stay.                                                     *)
Reports(h) == GenerateReport(h) \/ Return(h)

LEMMA ReportsLeave ==
    ASSUME CorrelationTypeOK, NEW h \in Handlers, Reports(h)
    PROVE  /\ UNCHANGED <<now, failureWindow, failures, lastFailure>>
           /\ handlers[h].pc # "idle"
           /\ \A g \in Handlers \ {h} : handlers'[g] = handlers[g]
           /\ handlers'[h].recorded = handlers[h].recorded \/ handlers'[h] = Idle
<1>1. handlers[h] \in HandlerStates /\ handlers \in [Handlers -> HandlerStates]
    BY DEF CorrelationTypeOK
<1> USE DEF HandlerStates
<1>2. CASE Alerts(h)
    BY <1>1, <1>2 DEF Alerts
<1>3. CASE GetAffectedNodes(h)
    BY <1>1, <1>3 DEF GetAffectedNodes
<1>4. CASE DetectPattern(h)
    <2>1. \/ \E pattern \in Patterns :
                handlers' = [handlers EXCEPT ![h].pc = "classify", ![h].pattern = pattern]
          \/ handlers' = [handlers EXCEPT ![h].pc = "zone",
                             ![h].nodeFailures = Cardinality(NodesOf(failureWindow))]
        BY <1>4 DEF DetectPattern, Patterns
    <2>2. handlers[h].pc = "detect" /\ UNCHANGED <<now, failureWindow, failures, lastFailure>>
        BY <1>4 DEF DetectPattern
    <2> QED BY <1>1, <2>1, <2>2
<1>5. CASE DetectZone(h)
    BY <1>1, <1>5 DEF DetectZone
<1>6. CASE Classify(h)
    BY <1>1, <1>6 DEF Classify
<1>7. CASE Return(h)
    BY <1>1, <1>7 DEF Return
<1> QED BY <1>2, <1>3, <1>4, <1>5, <1>6, <1>7 DEF Reports, GenerateReport

(* The records that the steps of a report make of a handler's.             *)
LEMMA RecordsTyped ==
    ASSUME NEW r \in HandlerStates, NEW affected \in SUBSET Reporters, NEW count \in Nat,
           NEW pattern \in Patterns, NEW radius \in {"node", "zone", "cluster"}
    PROVE  /\ [r EXCEPT !.pc = "detect", !.affected = affected] \in HandlerStates
           /\ [r EXCEPT !.pc = "classify", !.pattern = pattern] \in HandlerStates
           /\ [r EXCEPT !.pc = "zone", !.nodeFailures = count] \in HandlerStates
           /\ [r EXCEPT !.pc = "reported", !.radius = radius] \in HandlerStates
<1>1. [r EXCEPT !.pc = "detect", !.affected = affected] \in HandlerStates
    BY DEF HandlerStates
<1>2. [r EXCEPT !.pc = "classify", !.pattern = pattern] \in HandlerStates
    BY DEF HandlerStates, Patterns
<1>3. [r EXCEPT !.pc = "zone", !.nodeFailures = count] \in HandlerStates
    BY DEF HandlerStates
<1>4. [r EXCEPT !.pc = "reported", !.radius = radius] \in HandlerStates
    BY DEF HandlerStates
<1> QED BY <1>1, <1>2, <1>3, <1>4

LEMMA ReportsType ==
    ASSUME CorrelationTypeOK, Windowed, NEW h \in Handlers, Reports(h)
    PROVE  handlers' \in [Handlers -> HandlerStates]
<1>1. NodesOf(failureWindow) \in SUBSET Reporters
    BY DEF NodesOf, CorrelationTypeOK, FailureEvents
<1>2. Cardinality(NodesOf(failureWindow)) \in Nat
    BY ReadsFewer
<1>3. handlers[h] \in HandlerStates /\ handlers \in [Handlers -> HandlerStates]
    BY DEF CorrelationTypeOK
<1>5. CASE Alerts(h)
    BY <1>3, <1>5 DEF Alerts, HandlerStates
<1>6. CASE GetAffectedNodes(h)
    <2>1. handlers' = [handlers EXCEPT ![h] =
                          [handlers[h] EXCEPT !.pc = "detect",
                              !.affected = NodesOf(failureWindow)]]
        BY <1>3, <1>6 DEF GetAffectedNodes
    <2>2. [handlers[h] EXCEPT !.pc = "detect", !.affected = NodesOf(failureWindow)]
              \in HandlerStates
        BY <1>1, <1>3, RecordsTyped DEF Patterns
    <2> QED BY ONLY <1>3, <2>1, <2>2
<1>7. ASSUME NEW pattern \in Patterns,
             handlers' = [handlers EXCEPT ![h].pc = "classify", ![h].pattern = pattern]
      PROVE  handlers' \in [Handlers -> HandlerStates]
    <2>1. handlers' = [handlers EXCEPT ![h] =
                          [handlers[h] EXCEPT !.pc = "classify", !.pattern = pattern]]
        BY <1>3, <1>7
    <2>2. [handlers[h] EXCEPT !.pc = "classify", !.pattern = pattern] \in HandlerStates
        BY <1>1, <1>3, RecordsTyped
    <2> QED BY ONLY <1>3, <2>1, <2>2
<1>8. CASE DetectPattern(h)
    <2>1. CASE handlers' = [handlers EXCEPT ![h].pc = "zone",
                               ![h].nodeFailures = Cardinality(NodesOf(failureWindow))]
        <3>1. handlers' = [handlers EXCEPT ![h] = [handlers[h] EXCEPT
                  !.pc = "zone", !.nodeFailures = Cardinality(NodesOf(failureWindow))]]
            BY <1>3, <2>1
        <3>2. [handlers[h] EXCEPT !.pc = "zone",
                  !.nodeFailures = Cardinality(NodesOf(failureWindow))] \in HandlerStates
            BY <1>2, <1>3, RecordsTyped DEF Patterns
        <3> QED BY ONLY <1>3, <3>1, <3>2
    <2> QED BY <1>7, <1>8, <2>1 DEF DetectPattern, Patterns
<1>9. CASE DetectZone(h)
    BY <1>7, <1>9 DEF DetectZone, Patterns
<1>10. CASE Classify(h)
    <2>1. PICK radius \in {"node", "zone", "cluster"} :
              handlers' = [handlers EXCEPT ![h].pc = "reported", ![h].radius = radius]
        BY <1>10 DEF Classify, Radii
    <2>2. handlers' = [handlers EXCEPT ![h] =
                          [handlers[h] EXCEPT !.pc = "reported", !.radius = radius]]
        BY <1>3, <2>1
    <2>3. [handlers[h] EXCEPT !.pc = "reported", !.radius = radius] \in HandlerStates
        BY <1>1, <1>3, RecordsTyped DEF Patterns
    <2> QED BY ONLY <1>3, <2>2, <2>3
<1>11. CASE Return(h)
    BY <1>3, <1>11 DEF Return, Idle, HandlerStates
<1> QED BY <1>5, <1>6, <1>8, <1>9, <1>10, <1>11 DEF Reports, GenerateReport

LEMMA ReportsReported ==
    ASSUME IInv, NEW h \in Handlers, Reports(h)
    PROVE  Reported(h)'
<1> DEFINE recent == Recent(handlers[h].recorded)
<1>1. CorrelationTypeOK /\ Windowed /\ Reported(h)
    BY DEF IInv
<1>2. NodesOf(failureWindow) \subseteq recent
    BY <1>1, ReadsRecent
<1>3. /\ Cardinality(NodesOf(failureWindow)) \in Nat /\ Cardinality(recent) \in Nat
      /\ Cardinality(NodesOf(failureWindow)) <= Cardinality(recent)
    BY <1>1, ReadsFewer, RecentFinite
<1>4. handlers[h] \in HandlerStates /\ handlers \in [Handlers -> HandlerStates]
    BY <1>1 DEF CorrelationTypeOK
<1>5. \A since : Recent(since)' = Recent(since')
    <2>1. lastFailure' = lastFailure
        BY <1>1, ReportsLeave
    <2> QED BY <2>1 DEF Recent
<1>6. CASE Return(h)
    <2>1. handlers'[h] = Idle
        BY <1>4, <1>6 DEF Return
    <2> QED BY <2>1 DEF Reported, Idle
<1>7. CASE GenerateReport(h)
    <2>1. CASE Alerts(h)
        BY <1>1, <1>4, <2>1 DEF Alerts, Reported, Recent, HandlerStates
    <2>2. CASE GetAffectedNodes(h)
        BY <1>1, <1>2, <1>4, <2>2 DEF GetAffectedNodes, Reported, Recent, HandlerStates
    <2>3. CASE DetectPattern(h)
        <3>1. /\ handlers'[h].recorded = handlers[h].recorded
              /\ handlers'[h].affected = handlers[h].affected
              /\ handlers'[h].pc \notin {"idle", "recorded"}
              /\ \/ handlers'[h].pattern = handlers[h].pattern
                 \/ handlers'[h].pattern \notin {"target_outage", "zone_issue"}
                 \/ handlers'[h].pattern = "target_outage" /\ Outage(failureWindow)
            <4>1. handlers[h].pc = "detect"
                BY <2>3 DEF DetectPattern
            <4>2. ASSUME NEW pattern \in Patterns,
                         handlers' = [handlers EXCEPT ![h].pc = "classify", ![h].pattern = pattern]
                  PROVE  /\ handlers'[h].recorded = handlers[h].recorded
                         /\ handlers'[h].affected = handlers[h].affected
                         /\ handlers'[h].pc = "classify" /\ handlers'[h].pattern = pattern
                BY <1>4, <4>2 DEF HandlerStates
            <4>3. ASSUME NEW count,
                         handlers' = [handlers EXCEPT ![h].pc = "zone", ![h].nodeFailures = count]
                  PROVE  /\ handlers'[h].recorded = handlers[h].recorded
                         /\ handlers'[h].affected = handlers[h].affected
                         /\ handlers'[h].pc = "zone" /\ handlers'[h].pattern = handlers[h].pattern
                BY <1>4, <4>3 DEF HandlerStates
            <4>4. \/ \E pattern \in Patterns :
                        /\ handlers' = [handlers EXCEPT ![h].pc = "classify", ![h].pattern = pattern]
                        /\ \/ pattern \notin {"target_outage", "zone_issue"}
                           \/ pattern = "target_outage" /\ Outage(failureWindow)
                  \/ \E count :
                        handlers' = [handlers EXCEPT ![h].pc = "zone", ![h].nodeFailures = count]
                BY <2>3 DEF DetectPattern, Patterns
            <4> QED BY <4>2, <4>3, <4>4
        <3>2. Outage(failureWindow) =>
                  Cardinality(NodesOf(failureWindow)) >= MinNodesForPattern
            BY DEF Outage
        <3>3. Recent(handlers[h].recorded)' = recent
            BY <1>1, <3>1, ReportsLeave DEF Recent
        <3>4. MinNodesForPattern \in Nat
            BY CorrelationAssumption
        <3> HIDE DEF recent
        <3>5. /\ handlers'[h].affected \subseteq recent
              /\ handlers'[h].pattern = "target_outage" => Cardinality(recent) >= MinNodesForPattern
              /\ handlers'[h].pattern = "zone_issue" => Cardinality(recent) > 1
            BY <1>1, <1>3, <3>1, <3>2, <3>4 DEF Reported, recent
        <3> QED BY <3>1, <3>3, <3>5 DEF Reported
    <2>4. CASE DetectZone(h)
        BY <1>1, <1>3, <1>4, <2>4 DEF DetectZone, Radii, Reported, Recent, HandlerStates
    <2>5. CASE Classify(h)
        BY <1>1, <1>4, <2>5 DEF Classify, Reported, Recent, HandlerStates
    <2> QED BY <1>7, <2>1, <2>2, <2>3, <2>4, <2>5 DEF GenerateReport
<1> QED BY <1>6, <1>7 DEF Reports

LEMMA ReportsStep ==
    ASSUME IInv, NEW h \in Handlers, Reports(h)
    PROVE  IInv'
<1>1. CorrelationTypeOK /\ Windowed
    BY DEF IInv
<1>2. /\ UNCHANGED <<now, failureWindow, failures, lastFailure>>
      /\ handlers[h].pc # "idle"
      /\ \A g \in Handlers \ {h} : handlers'[g] = handlers[g]
      /\ handlers'[h].recorded = handlers[h].recorded \/ handlers'[h] = Idle
    BY <1>1, ReportsLeave
<1>3. CorrelationTypeOK'
    BY <1>1, <1>2, ReportsType DEF CorrelationTypeOK
<1>4. Windowed'
    <2>1. ~Nothing
        BY <1>2 DEF Nothing, Idle
    <2>2. PICK m \in Reporters : LatestAt(m)
        BY <1>1, <2>1 DEF Windowed
    <2>3. \A g \in Handlers : handlers'[g].recorded <= lastFailure[m]
        BY <1>1, <1>2, <2>2 DEF LatestAt, Idle
    <2>4. LatestAt(m)'
        BY <1>2, <2>2, <2>3 DEF LatestAt, Recent
    <2> QED BY <1>1, <1>2, <2>1, <2>4 DEF Windowed
<1>5. ASSUME NEW g \in Handlers
      PROVE  Reported(g)'
    <2>1. CASE g = h
        BY <2>1, ReportsReported
    <2>2. CASE g # h
        BY <1>2, <2>2 DEF IInv, Reported, Recent
    <2> QED BY <2>1, <2>2
<1> QED BY <1>3, <1>4, <1>5 DEF IInv

-----------------------------------------------------------------------------
(* No failure is later than the clock, and those of a node are in order.   *)
LEMMA TimesPast ==
    ASSUME CorrelationTypeOK, Windowed
    PROVE  /\ \A n \in Reporters : lastFailure[n] \in Int /\ lastFailure[n] <= now
           /\ \A g \in Handlers : handlers[g].recorded \in Nat /\ handlers[g].recorded <= now
           /\ \A e \in failureWindow : /\ e.node \in Reporters /\ e.timestamp \in Nat
                                       /\ e.timestamp <= lastFailure[e.node]
           /\ \A n \in Reporters : lastFailure[n] > now - TimeWindow =>
                  \E e \in failureWindow : e.node = n /\ e.timestamp = lastFailure[n]
<1>1. /\ now \in Nat /\ TimeWindow \in Nat \ {0}
      /\ \A n \in Reporters : lastFailure[n] \in Int
    BY CorrelationAssumption DEF CorrelationTypeOK
<1>2. \A g \in Handlers : handlers[g].recorded \in Nat
    BY DEF CorrelationTypeOK, HandlerStates
<1>3. \A e \in failureWindow : e.node \in Reporters /\ e.timestamp \in Nat
    BY DEF CorrelationTypeOK, FailureEvents
<1>4. CASE Nothing
    BY <1>1, <1>2, <1>3, <1>4 DEF Nothing, Idle
<1>5. ASSUME NEW m \in Reporters, LatestAt(m)
      PROVE  /\ \A n \in Reporters : lastFailure[n] <= now
             /\ \A g \in Handlers : handlers[g].recorded <= now
             /\ \A e \in failureWindow : e.timestamp <= lastFailure[e.node]
             /\ \A n \in Reporters : lastFailure[n] > now - TimeWindow =>
                    \E e \in failureWindow : e.node = n /\ e.timestamp = lastFailure[n]
    BY <1>1, <1>2, <1>3, <1>5 DEF LatestAt, Recent
<1> QED BY <1>1, <1>2, <1>3, <1>4, <1>5 DEF Windowed

LEMMA RecordFailureStep ==
    ASSUME IInv, NEW h \in Handlers, NEW node \in Reporters, NEW mode \in Modes,
           NEW code \in Codes, RecordFailure(h, node, mode, code)
    PROVE  IInv'
<1> DEFINE event == FailureEvent(node, mode, code)
<1>1. CorrelationTypeOK /\ Windowed /\ \A g \in Handlers : Reported(g)
    BY DEF IInv
<1>2. now \in Nat /\ failures \in Nat /\ TimeWindow \in Nat \ {0}
    BY <1>1, CorrelationAssumption DEF CorrelationTypeOK
<1>3. /\ handlers \in [Handlers -> HandlerStates] /\ lastFailure \in [Reporters -> Int]
      /\ failureWindow \subseteq FailureEvents /\ IsFiniteSet(failureWindow)
    BY <1>1 DEF CorrelationTypeOK
<1>4. /\ now' = now /\ failures' = failures + 1
      /\ lastFailure' = [lastFailure EXCEPT ![node] = now]
      /\ failureWindow' = {e \in failureWindow \cup {event} : e.timestamp > now - TimeWindow}
    BY DEF RecordFailure, CleanupOldEvents
<1>5. event.node = node /\ event.timestamp = now /\ event \in FailureEvents
    BY <1>2 DEF FailureEvent, FailureEvents
<1>6. /\ handlers[h].pc = "idle"
      /\ handlers' = [handlers EXCEPT ![h] =
                         [handlers[h] EXCEPT !.pc = "recorded", !.recorded = now]]
    BY <1>3 DEF RecordFailure
<1>7. [handlers[h] EXCEPT !.pc = "recorded", !.recorded = now] \in HandlerStates
    BY <1>2, <1>3 DEF HandlerStates
<1>8. handlers' \in [Handlers -> HandlerStates]
    BY ONLY <1>3, <1>6, <1>7
<1>9. /\ handlers'[h].pc = "recorded" /\ handlers'[h].recorded = now
      /\ handlers'[h].affected = handlers[h].affected
      /\ handlers'[h].pattern = handlers[h].pattern
      /\ \A g \in Handlers \ {h} : handlers'[g] = handlers[g]
    <2>1. handlers[h] \in HandlerStates
        BY <1>3
    <2> QED BY <1>3, <1>6, <2>1 DEF HandlerStates
<1>10. CorrelationTypeOK'
    <2>1. IsFiniteSet(failureWindow')
        <3>1. IsFiniteSet(failureWindow \cup {event})
            BY <1>3, FS_AddElement
        <3> QED BY <1>4, <3>1, FS_Subset
    <2>2. failureWindow' \subseteq FailureEvents
        BY <1>3, <1>4, <1>5
    <2>3. lastFailure' \in [Reporters -> Int]
        BY <1>2, <1>3, <1>4
    <2> QED BY <1>2, <1>4, <1>8, <2>1, <2>2, <2>3 DEF CorrelationTypeOK
<1>11. lastFailure'[node] = now /\ \A n \in Reporters \ {node} : lastFailure'[n] = lastFailure[n]
    BY <1>3, <1>4
<1> HIDE DEF event
<1>12. LatestAt(node)'
    <2>1. lastFailure'[node] \in 0..now'
        BY <1>2, <1>4, <1>11
    <2>2. \A n \in Reporters : lastFailure'[n] <= lastFailure'[node]
        BY <1>1, <1>2, <1>11, TimesPast
    <2>3. ASSUME NEW e \in failureWindow'
          PROVE  /\ e.timestamp > lastFailure'[node] - TimeWindow
                 /\ e.timestamp <= lastFailure'[e.node]
        <3>1. e.timestamp > now - TimeWindow
            BY <1>4, <2>3
        <3>2. CASE e = event
            BY <1>2, <1>5, <1>11, <3>1, <3>2
        <3>3. CASE e \in failureWindow
            <4>1. /\ e.node \in Reporters /\ e.timestamp \in Nat /\ lastFailure[e.node] \in Int
                  /\ e.timestamp <= lastFailure[e.node] /\ lastFailure[e.node] <= now
                BY <1>1, <3>3, TimesPast
            <4> QED BY <1>2, <1>11, <3>1, <4>1
        <3> QED BY <1>4, <3>2, <3>3
    <2>4. ASSUME NEW n \in Reporters, lastFailure'[n] > now - TimeWindow
          PROVE  \E e \in failureWindow' : e.node = n /\ e.timestamp = lastFailure'[n]
        <3>1. CASE n = node
            BY <1>2, <1>4, <1>5, <1>11, <3>1
        <3>2. CASE n # node
            <4>1. PICK e \in failureWindow : e.node = n /\ e.timestamp = lastFailure[n]
                BY <1>1, <1>11, <2>4, <3>2, TimesPast
            <4> QED BY <1>4, <1>11, <2>4, <3>2, <4>1
        <3> QED BY <3>1, <3>2
    <2>5. \A g \in Handlers : handlers'[g].recorded <= lastFailure'[node]
        BY <1>1, <1>2, <1>9, <1>11, TimesPast
    <2> QED BY <1>11, <2>1, <2>2, <2>3, <2>4, <2>5 DEF LatestAt, Recent
<1>13. Windowed'
    BY <1>2, <1>4, <1>12 DEF Windowed
<1>14. ASSUME NEW g \in Handlers
       PROVE  Reported(g)'
    <2>1. CASE g = h
        <3>1. handlers'[h].affected = {} /\ handlers'[h].pattern = "unknown"
            BY <1>1, <1>6, <1>9 DEF Reported
        <3> QED BY <2>1, <3>1 DEF Reported
    <2>2. CASE g # h
        <3> DEFINE old == Recent(handlers[g].recorded)
                   new == Recent(handlers[g].recorded)'
        <3>1. handlers'[g] = handlers[g]
            BY <1>9, <2>2
        <3>2. new = {n \in Reporters : lastFailure'[n] > handlers[g].recorded - TimeWindow}
            BY <3>1 DEF Recent
        <3>3. old \subseteq new
            <4>1. \A n \in Reporters : lastFailure[n] \in Int /\ lastFailure[n] <= lastFailure'[n]
                BY <1>1, <1>2, <1>11, TimesPast
            <4>2. handlers[g].recorded \in Nat /\ \A n \in Reporters : lastFailure'[n] \in Int
                BY <1>1, <1>2, <1>11, TimesPast
            <4> QED BY <1>2, <3>2, <4>1, <4>2 DEF Recent
        <3>4. IsFiniteSet(new)
            BY <3>2, CorrelationAssumption, FS_Subset
        <3>5. /\ Cardinality(old) \in Nat /\ Cardinality(new) \in Nat
              /\ Cardinality(old) <= Cardinality(new)
            BY <3>3, <3>4, RecentFinite, FS_Subset, FS_CardinalityType
        <3>6. Reported(g) /\ MinNodesForPattern \in Nat
            BY <1>1, CorrelationAssumption
        <3> HIDE DEF old, new
        <3>7. /\ handlers[g].affected \subseteq old
              /\ handlers[g].pattern = "target_outage" => Cardinality(old) >= MinNodesForPattern
              /\ handlers[g].pattern = "zone_issue" => Cardinality(old) > 1
              /\ handlers[g].pc \in {"idle", "recorded"} =>
                     handlers[g].affected = {} /\ handlers[g].pattern = "unknown"
            BY <3>6 DEF Reported, old
        <3>8. /\ handlers'[g].affected \subseteq new
              /\ handlers'[g].pattern = "target_outage" => Cardinality(new) >= MinNodesForPattern
              /\ handlers'[g].pattern = "zone_issue" => Cardinality(new) > 1
              /\ handlers'[g].pc \in {"idle", "recorded"} =>
                     handlers'[g].affected = {} /\ handlers'[g].pattern = "unknown"
            BY <3>1, <3>3, <3>5, <3>6, <3>7
        <3> QED BY <3>1, <3>8 DEF Reported, new
    <2> QED BY <2>1, <2>2
<1> QED BY <1>10, <1>13, <1>14 DEF IInv

-----------------------------------------------------------------------------
LEMMA InitInvariant == CorrelationInit => IInv
<1> SUFFICES ASSUME CorrelationInit PROVE IInv
    OBVIOUS
<1>1. CorrelationTypeOK
    <2>1. Idle \in HandlerStates
        BY DEF Idle, HandlerStates
    <2>2. -TimeWindow \in Int
        BY CorrelationAssumption
    <2> QED BY <2>1, <2>2, FS_EmptySet DEF CorrelationInit, CorrelationTypeOK
<1>2. Nothing
    BY DEF CorrelationInit, Nothing
<1>3. \A h \in Handlers : Reported(h)
    BY DEF CorrelationInit, Idle, Reported
<1> QED BY <1>1, <1>2, <1>3 DEF IInv, Windowed

LEMMA NextInvariant == IInv /\ [CorrelationNext]_correlationVars => IInv'
<1> SUFFICES ASSUME IInv, [CorrelationNext]_correlationVars PROVE IInv'
    OBVIOUS
<1>1. ASSUME NEW h \in Handlers, NEW node \in Reporters, NEW mode \in Modes, NEW code \in Codes,
             RecordFailure(h, node, mode, code)
      PROVE  IInv'
    BY <1>1, RecordFailureStep
<1>2. ASSUME NEW h \in Handlers, Reports(h)
      PROVE  IInv'
    BY <1>2, ReportsStep
<1>3. ASSUME UNCHANGED <<failureWindow, handlers, failures, lastFailure>>,
             now' \in Nat, now' >= now
      PROVE  IInv'
    <2>1. CorrelationTypeOK'
        BY <1>3 DEF IInv, CorrelationTypeOK
    <2>2. now \in Nat
        BY DEF IInv, CorrelationTypeOK
    <2>3. \A m \in Reporters : LatestAt(m) => LatestAt(m)'
        BY <1>3, <2>2 DEF LatestAt, Recent
    <2>4. Nothing => Nothing'
        BY <1>3 DEF Nothing
    <2>5. Windowed'
        BY <1>3, <2>3, <2>4 DEF IInv, Windowed
    <2>6. \A h \in Handlers : Reported(h)'
        BY <1>3 DEF IInv, Reported, Recent
    <2> QED BY <2>1, <2>5, <2>6 DEF IInv
<1>4. CASE Tick
    <2>1. now \in Nat
        BY DEF IInv, CorrelationTypeOK
    <2> QED BY <1>3, <1>4, <2>1 DEF Tick
<1>5. CASE UNCHANGED correlationVars
    <2>1. now \in Nat
        BY DEF IInv, CorrelationTypeOK
    <2> QED BY <1>3, <1>5, <2>1 DEF correlationVars
<1> QED BY <1>1, <1>2, <1>4, <1>5 DEF CorrelationNext, Reports

(* The inductive invariant of the engine (correlation.go).                 *)
THEOREM Invariant == CorrelationSpec => []IInv
BY InitInvariant, NextInvariant, PTL DEF CorrelationSpec

(* The type invariant of the window, of the reports and of the times.      *)
THEOREM CorrelationTypeCorrect == CorrelationSpec => []CorrelationTypeOK
<1>1. IInv => CorrelationTypeOK
    BY DEF IInv
<1> QED BY <1>1, Invariant, PTL

(* The window holds exactly the nodes that failed within the time window   *)
(* before the failure recorded last (RecordFailure, cleanupOldEvents).     *)
THEOREM WindowIsExact == CorrelationSpec => []WindowExact
<1>1. IInv => WindowExact
    <2> SUFFICES ASSUME IInv, failures > 0
                 PROVE  NodesOf(failureWindow)
                            = Recent(Max({lastFailure[n] : n \in Reporters}))
        BY DEF WindowExact
    <2>1. PICK m \in Reporters : LatestAt(m)
        BY DEF IInv, Windowed, Nothing
    <2>2. \A n \in Reporters : lastFailure[n] \in Int /\ lastFailure[n] <= lastFailure[m]
        BY <2>1 DEF IInv, CorrelationTypeOK, LatestAt
    <2>3. Max({lastFailure[n] : n \in Reporters}) = lastFailure[m]
        BY <2>2 DEF Max
    <2> QED BY <2>1, <2>3, NodesRecent DEF IInv
<1> QED BY <1>1, Invariant, PTL

(* A report only names nodes that failed within the time window before the *)
(* failure it answers, or since, whatever other handlers record meanwhile  *)
(* (GenerateReport).                                                       *)
THEOREM AffectedAreRecent == CorrelationSpec => []AffectedRecent
<1>1. IInv => AffectedRecent
    BY DEF IInv, Reported, AffectedRecent
<1> QED BY <1>1, Invariant, PTL

(* An outage is never concluded from fewer nodes than asked for, nor a     *)
(* zone's failure from a single one (DetectPattern).                       *)
THEOREM PatternsHaveNodes == CorrelationSpec => []PatternHasNodes
<1>1. IInv => PatternHasNodes
    BY DEF IInv, Reported, PatternHasNodes
<1> QED BY <1>1, Invariant, PTL

-----------------------------------------------------------------------------
(* The engine's reports take the blast radius to be any of Radii: what it  *)
(* leaves out, the analyzer never says.                                    *)
RadiusAllowed ==
    \A affected \in SUBSET Nodes :
        ClassifyBlastRadius(affected) \in Radii(Cardinality(affected))

LEMMA FewNodesFewZones ==
    ASSUME TypeOK, NEW A \in SUBSET Nodes, Cardinality(A) < 2
    PROVE  Cardinality(AffectedZones(A)) < 2
<1>1. IsFiniteSet(A) /\ Cardinality(A) \in Nat
    BY ZonesListed
<1>2. Cardinality(A) = 0 \/ Cardinality(A) = 1
    BY <1>1
<1>3. CASE A = {}
    <2>1. AffectedZones(A) = {}
        BY <1>3 DEF AffectedZones
    <2> QED BY <2>1, FS_EmptySet
<1>4. CASE \E n : A = {n}
    <2>1. PICK n : A = {n}
        BY <1>4
    <2>2. AffectedZones(A) \subseteq {nodeZone[n]}
        BY <2>1 DEF AffectedZones
    <2>3. IsFiniteSet({nodeZone[n]}) /\ Cardinality({nodeZone[n]}) = 1
        BY FS_Singleton
    <2>4. Cardinality(AffectedZones(A)) \in Nat /\ Cardinality(AffectedZones(A)) <= 1
        BY <2>2, <2>3, FS_Subset, ZonesListed
    <2> QED BY <2>4
<1> QED BY <1>1, <1>2, <1>3, <1>4, FS_EmptySet, FS_Singleton

(* Whatever the topology has become, the analyzer's answer about the nodes *)
(* a report has read is one that the engine's model allows (correlation.go *)
(* DetectPattern and GenerateReport, topology.go ClassifyBlastRadius).     *)
THEOREM RadiiCover == Spec => []RadiusAllowed
<1>1. ASSUME TypeOK, NEW affected \in SUBSET Nodes
      PROVE  ClassifyBlastRadius(affected) \in Radii(Cardinality(affected))
    <2>1. /\ Cardinality(affected) \in Nat /\ Cardinality(AffectedZones(affected)) \in Nat
          /\ Cardinality(affected) < 2 => Cardinality(AffectedZones(affected)) < 2
        BY <1>1, ZonesListed, FewNodesFewZones
    <2>2. ClassifyBlastRadius(affected) \in {"node", "zone", "cluster"}
        BY DEF ClassifyBlastRadius, Radius
    <2>3. Cardinality(affected) < 2 => ClassifyBlastRadius(affected) = "node"
        BY <2>1 DEF ClassifyBlastRadius, Radius
    <2> QED BY <2>1, <2>2, <2>3 DEF Radii
<1>2. TypeOK => RadiusAllowed
    BY <1>1 DEF RadiusAllowed
<1> QED BY <1>2, InitType, NextType, PTL DEF Spec
=============================================================================

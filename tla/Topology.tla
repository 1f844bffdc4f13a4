------------------------------ MODULE Topology -------------------------------
(***************************************************************************)
(* The aggregator's picture of the cluster, and the blast radius it makes  *)
(* of it.  Every 30 seconds all nodes are listed, and each of them is      *)
(* entered under a lock of its own; an entry is never taken out, and a     *)
(* node that comes back in another zone stays in the list of the old one.  *)
(* In between the cluster changes, and blast radii are asked for.          *)
(*                                                                         *)
(* The nodes and their labels are external.  A node without a zone label   *)
(* is in the zone "unknown", one of Zones.  A List that fails changes      *)
(* nothing and is repeated at the next tick.  RemoveNode has no caller.    *)
(***************************************************************************)
EXTENDS Integers, FiniteSets

CONSTANTS
    Nodes, Zones,
    NoZone,                \* of a node that is not there, or not known
    ClusterWideThreshold,  \* TopologyConfig.ClusterWideThreshold, in percent
    MaxChanges             \* bound on the changes of the cluster

ASSUME TopologyAssumption ==
    /\ IsFiniteSet(Nodes) /\ IsFiniteSet(Zones)
    /\ NoZone \notin Zones
    /\ ClusterWideThreshold \in Nat /\ MaxChanges \in Nat

VARIABLES
    cluster,   \* the zone of every node that is there
    listed,    \* what List returned and loadNodes has yet to enter
    nodeZone,  \* TopologyAnalyzer.nodeZone, and the keys of nodes
    zones,     \* TopologyAnalyzer.zones
    changes    \* changes of the cluster so far

vars == <<cluster, listed, nodeZone, zones, changes>>

Up == {n \in Nodes : cluster[n] # NoZone}

Known == {n \in Nodes : nodeZone[n] # NoZone}

(* The zones with a list of nodes.                                         *)
KnownZones == {z \in Zones : zones[z] # {}}

AffectedZones(affected) == {nodeZone[n] : n \in affected \cap Known}

(* Mutant: a single zone that is affected is every zone.                   *)
RadiusOneZone(affectedCount, affectedZones, totalNodes, totalZones) ==
    LET clusterThreshold == (totalNodes * ClusterWideThreshold) \div 100
    IN  IF totalNodes = 0 THEN "node"
        ELSE IF \/ affectedCount > clusterThreshold /\ affectedZones > 1
                \/ affectedZones = totalZones /\ affectedCount > 1
             THEN "cluster"
        ELSE IF affectedCount > 1 \/ affectedZones > 1 THEN "zone" ELSE "node"

(* Mutant: only the threshold makes a failure cluster-wide.                *)
RadiusByCount(affectedCount, affectedZones, totalNodes, totalZones) ==
    LET clusterThreshold == (totalNodes * ClusterWideThreshold) \div 100
    IN  IF totalNodes = 0 THEN "node"
        ELSE IF affectedCount > clusterThreshold /\ affectedZones > 1 THEN "cluster"
        ELSE IF affectedCount > 1 \/ affectedZones > 1 THEN "zone" ELSE "node"

Radius(affectedCount, affectedZones, totalNodes, totalZones) ==
    LET clusterThreshold == (totalNodes * ClusterWideThreshold) \div 100
    IN  IF totalNodes = 0 THEN "node"
        ELSE IF \/ affectedCount > clusterThreshold /\ affectedZones > 1
                \/ affectedZones = totalZones /\ totalZones > 1 /\ affectedCount > 1
             THEN "cluster"
        ELSE IF affectedCount > 1 \/ affectedZones > 1 THEN "zone" ELSE "node"

ClassifyBlastRadius(affected) ==
    Radius(Cardinality(affected), Cardinality(AffectedZones(affected)),
           Cardinality(Known), Cardinality(KnownZones))

-----------------------------------------------------------------------------
Init ==
    /\ cluster \in [Nodes -> Zones \cup {NoZone}]
    /\ listed = {}
    /\ nodeZone = [n \in Nodes |-> NoZone]
    /\ zones = [z \in Zones |-> {}]
    /\ changes = 0

(* A node joins, leaves, or has come back with another label.              *)
ClusterChanges(n, z) ==
    /\ changes < MaxChanges
    /\ z # cluster[n]
    /\ cluster' = [cluster EXCEPT ![n] = z]
    /\ changes' = changes + 1
    /\ UNCHANGED <<listed, nodeZone, zones>>

(* loadNodes begins.                                                       *)
List ==
    /\ listed = {}
    /\ listed' = {<<n, cluster[n]>> : n \in Up}
    /\ UNCHANGED <<cluster, nodeZone, zones, changes>>

(* Mutant: the list of a zone only gets nodes that are new.                *)
UpdateNodeUnindexed(n, z) ==
    /\ <<n, z>> \in listed
    /\ listed' = listed \ {<<n, z>>}
    /\ nodeZone' = [nodeZone EXCEPT ![n] = z]
    /\ zones' = IF n \in Known THEN zones ELSE [zones EXCEPT ![z] = @ \cup {n}]
    /\ UNCHANGED <<cluster, changes>>

(* Mutant: a node that is known is not entered again.                      *)
UpdateNodeOnce(n, z) ==
    /\ <<n, z>> \in listed
    /\ listed' = listed \ {<<n, z>>}
    /\ nodeZone' = IF n \in Known THEN nodeZone ELSE [nodeZone EXCEPT ![n] = z]
    /\ zones' = [zones EXCEPT ![z] = @ \cup {n}]
    /\ UNCHANGED <<cluster, changes>>

UpdateNode(n, z) ==
    /\ <<n, z>> \in listed
    /\ listed' = listed \ {<<n, z>>}
    /\ nodeZone' = [nodeZone EXCEPT ![n] = z]
    /\ zones' = [zones EXCEPT ![z] = @ \cup {n}]
    /\ UNCHANGED <<cluster, changes>>

Load == List \/ \E n \in Nodes, z \in Zones : UpdateNode(n, z)

Next ==
    \/ \E n \in Nodes, z \in Zones \cup {NoZone} : ClusterChanges(n, z)
    \/ Load

Spec == Init /\ [][Next]_vars

(* The ticker goes on and the API server answers again and again.          *)
FairSpec == Spec /\ WF_vars(Load)

-----------------------------------------------------------------------------
(* The types of the variables; every known node is in the list of its      *)
(* zone.                                                                   *)
TypeOK ==
    /\ cluster \in [Nodes -> Zones \cup {NoZone}]
    /\ listed \subseteq Nodes \X Zones
    /\ nodeZone \in [Nodes -> Zones \cup {NoZone}]
    /\ zones \in [Zones -> SUBSET Nodes]
    /\ \A n \in Known : n \in zones[nodeZone[n]]
    /\ changes \in 0..MaxChanges

Rank == [node |-> 0, zone |-> 1, cluster |-> 2]

ZonesOf(S) == {cluster[n] : n \in S}

(* What the radius of nodes that are all there should be.                  *)
TrueRadius(affected) ==
    IF Cardinality(affected) < 2 THEN "node"
    ELSE IF /\ Cardinality(ZonesOf(affected)) > 1
            /\ \/ ZonesOf(affected) = ZonesOf(Up)
               \/ 100 * Cardinality(affected) > ClusterWideThreshold * Cardinality(Up)
         THEN "cluster"
    ELSE "zone"

(* Every node that is there is known where it is.                          *)
UpToDate == \A n \in Up : nodeZone[n] = cluster[n]

(* No failure is given a smaller blast radius than a part of it, whatever  *)
(* the cluster was and what the analyzer has seen of it                    *)
(* (ClassifyBlastRadius; zone lists that only grow, nodes of which the     *)
(* analyzer has not heard).                                                *)
RadiusMonotone ==
    \A B \in SUBSET Nodes : \A A \in SUBSET B :
        Rank[ClassifyBlastRadius(A)] <= Rank[ClassifyBlastRadius(B)]

(* What the analyzer keeps of nodes that are gone or have moved never      *)
(* makes a failure of nodes that are there look larger than it is          *)
(* (UpdateNode, which takes nothing out; ClassifyBlastRadius).             *)
NeverOverstates ==
    UpToDate => \A A \in SUBSET Up :
                    Rank[ClassifyBlastRadius(A)] <= Rank[TrueRadius(A)]

(* Nor smaller, unless it keeps something of the kind.                     *)
Fresh == \A z \in Zones : zones[z] = {n \in Nodes : cluster[n] = z}

ExactWhenFresh ==
    UpToDate /\ Fresh => \A A \in SUBSET Up : ClassifyBlastRadius(A) = TrueRadius(A)

(* A cluster that no longer changes is known in the end, the nodes that    *)
(* have moved included (main.go watchNodes, UpdateNode).                   *)
TopologyCatchesUp == <>[]UpToDate
=============================================================================

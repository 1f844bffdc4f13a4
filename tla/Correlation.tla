----------------------------- MODULE Correlation -----------------------------
(***************************************************************************)
(* The correlation engine: the failures of a target within a time window,  *)
(* and the report made of them when the target alerts.  Handlers record    *)
(* failures and make reports at the same time.  GenerateReport holds the   *)
(* lock only for each of its reads, so that it sees up to three windows;   *)
(* the window is only cleaned when a failure is recorded, so that what is  *)
(* read may have grown old.                                                *)
(*                                                                         *)
(* Targets share nothing; one is modelled.  Of the topology a report needs *)
(* the blast radius, which is any that module Topology allows for a number *)
(* of nodes.  Zones, layer and start time of a report have no reader.      *)
(* ClearTarget has no caller.                                              *)
(***************************************************************************)
EXTENDS Integers, FiniteSetsExt

CONSTANTS
    Reporters,           \* the nodes whose agents check the target
    Handlers,
    Modes,               \* "pod" and "host"
    Codes,
    TimeWindow,          \* CorrelationConfig
    MinNodesForPattern,
    MaxFailures,         \* bound on the failures recorded
    MaxTime              \* bound on the clock

ASSUME CorrelationAssumption ==
    /\ IsFiniteSet(Reporters)
    /\ Modes \subseteq {"pod", "host"}
    /\ TimeWindow \in Nat \ {0} /\ MinNodesForPattern \in Nat \ {0}
    /\ MaxFailures \in Nat /\ MaxTime \in Nat

VARIABLES
    now,            \* time.Now
    failureWindow,  \* CorrelationEngine.failureWindow of the target: its events, numbered
                    \*   in the order they came, which is that of their timestamps
    handlers,       \* what each handler is doing, and its report
    failures,       \* failures recorded so far
    lastFailure     \* ghost: when a failure of the node was recorded last

correlationVars == <<now, failureWindow, handlers, failures, lastFailure>>

Idle ==
    [pc |-> "idle", recorded |-> 0, affected |-> {}, nodeFailures |-> 0,
     pattern |-> "unknown", radius |-> "node"]

(* Mutant: an event as old as the window is kept.                          *)
CleanupOldEventsLate(events) ==
    {e \in events : e.timestamp >= now - TimeWindow}

CleanupOldEvents(events) ==
    {e \in events : e.timestamp > now - TimeWindow}

FailureEvent(node, mode, code) ==
    [number |-> failures + 1, node |-> node, mode |-> mode, code |-> code, timestamp |-> now]

NodesOf(events) == {e.node : e \in events}

(* What ClassifyBlastRadius may say of so many nodes (Topology): nothing   *)
(* but "node" of one, and of more also before any node is known.           *)
Radii(count) == IF count > 1 THEN {"node", "zone", "cluster"} ELSE {"node"}

(* Mutant: failures are counted for nodes.                                 *)
OutageOfEvents(events) ==
    /\ Cardinality(events) >= MinNodesForPattern
    /\ \A e, first \in events : e.code = first.code

Outage(events) ==
    /\ Cardinality(NodesOf(events)) >= MinNodesForPattern
    /\ \A e, first \in events : e.code = first.code

-----------------------------------------------------------------------------
CorrelationInit ==
    /\ now = 0
    /\ failureWindow = {}
    /\ handlers = [h \in Handlers |-> Idle]
    /\ failures = 0
    /\ lastFailure = [n \in Reporters |-> -TimeWindow]

(* Mutant: the window is left to grow.                                     *)
RecordFailureUncleaned(h, node, mode, code) ==
    /\ handlers[h].pc = "idle"
    /\ failures < MaxFailures
    /\ failures' = failures + 1
    /\ failureWindow' = failureWindow \cup {FailureEvent(node, mode, code)}
    /\ handlers' = [handlers EXCEPT ![h].pc = "recorded", ![h].recorded = now]
    /\ lastFailure' = [lastFailure EXCEPT ![node] = now]
    /\ UNCHANGED now

RecordFailure(h, node, mode, code) ==
    /\ handlers[h].pc = "idle"
    /\ failures < MaxFailures
    /\ failures' = failures + 1
    /\ failureWindow' =
           CleanupOldEvents(failureWindow \cup {FailureEvent(node, mode, code)})
    /\ handlers' = [handlers EXCEPT ![h].pc = "recorded", ![h].recorded = now]
    /\ lastFailure' = [lastFailure EXCEPT ![node] = now]
    /\ UNCHANGED now

(* GenerateReport begins, or the decision is not to alert.  The window it  *)
(* looks at first is not empty: a failure was recorded before.             *)
Alerts(h) ==
    /\ handlers[h].pc = "recorded"
    /\ handlers' = [handlers EXCEPT ![h].pc = "affected"]
    /\ UNCHANGED <<now, failureWindow, failures, lastFailure>>

GetAffectedNodes(h) ==
    /\ handlers[h].pc = "affected"
    /\ handlers' = [handlers EXCEPT ![h].pc = "detect", ![h].affected = NodesOf(failureWindow)]
    /\ UNCHANGED <<now, failureWindow, failures, lastFailure>>

(* The network mode is looked at first.                                    *)
DetectPattern(h) ==
    LET modes  == {e.mode : e \in failureWindow}
        Found(pattern) ==
            handlers' = [handlers EXCEPT ![h].pc = "classify", ![h].pattern = pattern]
    IN  /\ handlers[h].pc = "detect"
        /\ IF Cardinality(failureWindow) < MinNodesForPattern THEN Found("unknown")
           ELSE IF modes = {"pod"} THEN Found("cni_issue")
           ELSE IF modes = {"host"} THEN Found("node_routing_issue")
           ELSE IF Outage(failureWindow) THEN Found("target_outage")
           ELSE handlers' = [handlers EXCEPT ![h].pc = "zone",
                                 ![h].nodeFailures = Cardinality(NodesOf(failureWindow))]
        /\ UNCHANGED <<now, failureWindow, failures, lastFailure>>

(* DetectPattern reads the affected nodes again, for their blast radius.   *)
DetectZone(h) ==
    /\ handlers[h].pc = "zone"
    /\ \E radius \in Radii(Cardinality(NodesOf(failureWindow))) :
          handlers' = [handlers EXCEPT ![h].pc = "classify",
             ![h].pattern = IF radius = "zone" THEN "zone_issue"
                            ELSE IF handlers[h].nodeFailures = 1 THEN "node_issue"
                            ELSE "unknown"]
    /\ UNCHANGED <<now, failureWindow, failures, lastFailure>>

Classify(h) ==
    /\ handlers[h].pc = "classify"
    /\ \E radius \in Radii(Cardinality(handlers[h].affected)) :
          handlers' = [handlers EXCEPT ![h].pc = "reported", ![h].radius = radius]
    /\ UNCHANGED <<now, failureWindow, failures, lastFailure>>

(* HandleResult returns, with or without a report.                         *)
Return(h) ==
    /\ handlers[h].pc \in {"recorded", "reported"}
    /\ handlers' = [handlers EXCEPT ![h] = Idle]
    /\ UNCHANGED <<now, failureWindow, failures, lastFailure>>

Tick ==
    /\ now < MaxTime
    /\ now' = now + 1
    /\ UNCHANGED <<failureWindow, handlers, failures, lastFailure>>

GenerateReport(h) ==
    Alerts(h) \/ GetAffectedNodes(h) \/ DetectPattern(h) \/ DetectZone(h) \/ Classify(h)

CorrelationNext ==
    \/ \E h \in Handlers :
          \/ \E node \in Reporters, mode \in Modes, code \in Codes :
                 RecordFailure(h, node, mode, code)
          \/ GenerateReport(h) \/ Return(h)
    \/ Tick

CorrelationSpec == CorrelationInit /\ [][CorrelationNext]_correlationVars

-----------------------------------------------------------------------------
FailureEvents ==
    [number : Nat, node : Reporters, mode : Modes, code : Codes, timestamp : Nat]

HandlerStates ==
    [pc : {"idle", "recorded", "affected", "detect", "zone", "classify", "reported"},
     recorded : Nat, affected : SUBSET Reporters, nodeFailures : Nat,
     pattern : {"unknown", "cni_issue", "node_routing_issue", "target_outage",
                "zone_issue", "node_issue"},
     radius : {"node", "zone", "cluster"}]

(* The types of the window, the reports and the times.                     *)
CorrelationTypeOK ==
    /\ now \in Nat /\ failures \in Nat
    /\ failureWindow \subseteq FailureEvents /\ IsFiniteSet(failureWindow)
    /\ handlers \in [Handlers -> HandlerStates]
    /\ lastFailure \in [Reporters -> Int]

Recent(since) == {n \in Reporters : lastFailure[n] > since - TimeWindow}

(* The window holds the nodes that failed within the time window before    *)
(* the failure recorded last, and no others (RecordFailure,                *)
(* cleanupOldEvents).                                                      *)
WindowExact ==
    failures > 0 =>
        NodesOf(failureWindow) = Recent(Max({lastFailure[n] : n \in Reporters}))

(* However late a handler gets to its report and whatever others record    *)
(* meanwhile, the report only names nodes that failed within the time      *)
(* window before the failure it answers, or since (GenerateReport).        *)
AffectedRecent ==
    \A h \in Handlers : handlers[h].affected \subseteq Recent(handlers[h].recorded)

(* An outage of the target is never concluded from fewer nodes than asked  *)
(* for, nor a zone's from a single one, in any mixture of the windows a    *)
(* report has read (DetectPattern).                                        *)
PatternHasNodes ==
    \A h \in Handlers :
        LET nodes == Cardinality(Recent(handlers[h].recorded))
        IN  /\ handlers[h].pattern = "target_outage" => nodes >= MinNodesForPattern
            /\ handlers[h].pattern = "zone_issue" => nodes > 1
=============================================================================

--------------------------- MODULE ResultPipeline ----------------------------
(***************************************************************************)
(* The aggregator: ResultHandler.HandleResult run by the goroutines of the *)
(* gRPC server, on one or more replicas.  A handler feeds its result to    *)
(* the stream processor, the correlation window and the decision engine    *)
(* one after the other, each under its own lock, and turns the engine's    *)
(* decision into calls of the Kubernetes API that create or resolve an     *)
(* AlertEvent.  Between any two of these steps other handlers run.         *)
(*                                                                         *)
(* Replicas share the AlertEvents and nothing else; what a replica knows   *)
(* is in its memory and is gone when it restarts.                          *)
(*                                                                         *)
(* A target is what a result names, namespace and name.  Its AlertEvents   *)
(* are filed under that, except that "default" stands in for a namespace   *)
(* that is not given, which may be the name of another target.             *)
(***************************************************************************)
EXTENDS Integers, FiniteSets

CONSTANTS
    Replicas, Targets, Nodes,
    Keys,                        \* replicas and the targets whose results reach them
    Filed,                       \* of each target: the name its AlertEvents are filed under
    Handlers,                    \* goroutines serving SubmitResult
    NoState, NoEvent,
    DefaultConsecutiveFailures,
    DefaultRecoverySuccesses,
    CreationGaps,                \* seconds that may pass between two creations
    MaxResults,                  \* bound on the results received
    Disturbances,                \* which of these may happen: "failures" of API calls,
                                 \*   "restarts" of replicas, "cleanups" of expired states
    MaxDisturbances              \* bound on all of them together

ASSUME PipelineAssumption ==
    /\ Keys \subseteq Replicas \X Targets /\ Keys # {} /\ Nodes # {}
    /\ CreationGaps \subseteq Nat /\ CreationGaps # {}
    /\ MaxResults \in Nat /\ MaxDisturbances \in Nat

VARIABLES
    states,         \* StreamProcessor.states of every replica
    failureWindow,  \* CorrelationEngine.failureWindow: nodes that failed lately
    targetStates,   \* AlertDecisionEngine.targetStates of every replica
    handlers,       \* what each handler is doing
    events,         \* the AlertEvent objects in the API server
    issued,         \* object names handed out (UnixNano), and the last
    second,         \*   creation timestamp, which counts seconds only
    decided,        \* ghost: alert and resolve decisions made for targets of a filed
                    \*   name, and which targets those were
    spent,          \* results, API failures, restarts and cleanups so far
    serial          \* ghost: so far results were handled one at a time, all by one
                    \*   replica, and no two events were created in one second

engineState == <<states, failureWindow, targetStates>>
cluster == <<events, second>>
vars == <<states, failureWindow, targetStates, handlers, events, issued, second,
          decided, spent, serial>>

FiledNames == {Filed[t] : t \in Targets}

Processor == INSTANCE StreamProcessor WITH Targets <- Keys, Agents <- Nodes

(* No caller installs a rule in the shipped binary: rules stay empty.      *)
Engine == INSTANCE AlertEngine
    WITH Targets <- Keys, RuleNames <- {}, RuleSpecs <- {}, NoRule <- NoState,
         rules <- [n \in {} |-> NoState]

AlertEvents ==
    [name : Nat, target : FiledNames, created : Nat,
     status : {"firing", "resolved"}, affected : SUBSET Nodes]

HandlerPCs ==
    {"idle", "correlate", "decide", "report", "create", "list", "update"}

HandlerStates ==
    [pc : HandlerPCs, key : Keys, success : BOOLEAN, node : Nodes,
     name : Nat, affected : SUBSET Nodes, latest : AlertEvents \cup {NoEvent}]

Spend(what) == spent' = [spent EXCEPT ![what] = @ + 1]

Disturb(what) ==
    /\ what \in Disturbances
    /\ spent.failures + spent.restarts + spent.cleanups < MaxDisturbances
    /\ Spend(what)

Idle ==
    [pc |-> "idle", key |-> CHOOSE k \in Keys : TRUE, success |-> TRUE,
     node |-> CHOOSE n \in Nodes : TRUE, name |-> 0, affected |-> {},
     latest |-> NoEvent]

Quiet == \A h \in Handlers : handlers[h].pc = "idle"

(* The handler returns; what it held is forgotten.                         *)
Finish(h) == handlers' = [handlers EXCEPT ![h] = Idle]

-----------------------------------------------------------------------------
Init ==
    /\ Processor!ProcessorInit
    /\ failureWindow = [k \in Keys |-> {}]
    /\ targetStates = [k \in Keys |-> Engine!NewTargetState]
    /\ handlers = [h \in Handlers |-> Idle]
    /\ events = {}
    /\ issued = 0
    /\ second = 0
    /\ decided = [f \in FiledNames |-> [alert |-> 0, resolve |-> 0, by |-> {}]]
    /\ spent = [results |-> 0, failures |-> 0, restarts |-> 0, cleanups |-> 0]
    /\ serial = TRUE

(* SubmitResult of a valid request: HandleResult starts and the processor  *)
(* takes the result in.                                                    *)
Submit(h) ==
    /\ handlers[h].pc = "idle"
    /\ spent.results < MaxResults
    /\ Spend("results")
    /\ \E k \in Keys, n \in Nodes, success \in BOOLEAN :
          /\ Processor!ProcessResult(k, n, success)
          /\ serial' = (serial /\ Quiet /\ k[1] = CHOOSE r \in Replicas : TRUE)
          /\ handlers' = [handlers EXCEPT ![h] =
                [Idle EXCEPT !.pc = IF success THEN "decide" ELSE "correlate",
                             !.key = k, !.success = success, !.node = n]]
    /\ UNCHANGED <<failureWindow, targetStates, cluster, issued, decided>>

(* RecordFailure adds the failure and drops those older than the window;   *)
(* how many are that old is left open.                                     *)
RecordFailure(h) ==
    /\ handlers[h].pc = "correlate"
    /\ \E kept \in SUBSET failureWindow[handlers[h].key] :
          failureWindow' = [failureWindow EXCEPT
              ![handlers[h].key] = kept \cup {handlers[h].node}]
    /\ handlers' = [handlers EXCEPT ![h].pc = "decide"]
    /\ UNCHANGED <<states, targetStates, cluster, issued, decided, spent, serial>>

(* One decision more, for this target.                                     *)
Tally(d, decision, t) ==
    [alert   |-> IF decision = "alert" THEN d.alert + 1 ELSE d.alert,
     resolve |-> IF decision = "resolve" THEN d.resolve + 1 ELSE d.resolve,
     by      |-> d.by \cup {t}]

Decide(h) ==
    LET k == handlers[h].key
    IN  /\ handlers[h].pc = "decide"
        /\ \E decision \in Engine!Decisions :
              /\ Engine!ProcessResult(k, handlers[h].success, decision)
              /\ \/ /\ decision = "none"
                    /\ Finish(h)
                    /\ UNCHANGED decided
                 \/ /\ decision # "none"
                    /\ handlers' = [handlers EXCEPT ![h].pc =
                                       IF decision = "alert" THEN "report" ELSE "list"]
                    /\ decided' = [decided EXCEPT ![Filed[k[2]]] = Tally(@, decision, k[2])]
        /\ UNCHANGED <<states, failureWindow, cluster, issued, spent, serial>>

(* Mutant: the key of the lookup is never that of a record.                *)
GenerateReportEmpty(h) ==
    /\ handlers[h].pc = "report"
    /\ handlers' = [handlers EXCEPT ![h].pc = "create", ![h].name = issued + 1,
                       ![h].affected = {}]
    /\ issued' = issued + 1
    /\ UNCHANGED <<engineState, cluster, decided, spent, serial>>

(* Mutant: without a report there is no event.                             *)
GenerateReportOrReturn(h) ==
    LET f == <<handlers[h].key[1], Filed[handlers[h].key[2]]>>
    IN  /\ handlers[h].pc = "report"
        /\ IF f \in Keys /\ failureWindow[f] # {}
             THEN handlers' = [handlers EXCEPT ![h].pc = "create", ![h].name = issued + 1,
                                  ![h].affected = failureWindow[f]]
             ELSE Finish(h)
        /\ issued' = issued + 1
        /\ UNCHANGED <<engineState, cluster, decided, spent, serial>>

(* GenerateReport reads the window of the filed name as it is by now, which *)
(* is the target's own unless its namespace was not given; without one     *)
(* there is no report, and the event names no node.  Then the event gets   *)
(* its name from the clock.                                                *)
GenerateReport(h) ==
    LET k == handlers[h].key
        f == <<k[1], Filed[k[2]]>>
    IN  /\ handlers[h].pc = "report"
        /\ handlers' = [handlers EXCEPT ![h].pc = "create", ![h].name = issued + 1,
                           ![h].affected = IF f \in Keys THEN failureWindow[f] ELSE {}]
        /\ issued' = issued + 1
        /\ UNCHANGED <<engineState, cluster, decided, spent, serial>>

(* Mutant: on an error the whole upsert is tried again.                    *)
CreateRetried(h) ==
    /\ handlers[h].pc = "create"
    /\ \E gap \in CreationGaps :
          /\ second' = second + gap
          /\ serial' = (serial /\ gap > 0)
          /\ events' = events \cup
                {[name |-> handlers[h].name, target |-> Filed[handlers[h].key[2]],
                  created |-> second + gap, status |-> "firing",
                  affected |-> handlers[h].affected]}
    /\ Finish(h) \/ handlers' = [handlers EXCEPT ![h].pc = "report"]
    /\ UNCHANGED <<engineState, issued, decided, spent>>

(* The API server stamps the event with its own clock, to the second.  A   *)
(* call that commits and then reports an error ends the handler the same   *)
(* way: nothing retries.                                                   *)
Create(h) ==
    /\ handlers[h].pc = "create"
    /\ \E gap \in CreationGaps :
          /\ second' = second + gap
          /\ serial' = (serial /\ gap > 0)
          /\ events' = events \cup
                {[name |-> handlers[h].name, target |-> Filed[handlers[h].key[2]],
                  created |-> second + gap, status |-> "firing",
                  affected |-> handlers[h].affected]}
    /\ Finish(h)
    /\ UNCHANGED <<engineState, issued, decided, spent>>

(* The loop over the list, which comes in the order of the names: the      *)
(* first of those with the latest creation timestamp.                      *)
Latest(items) ==
    CHOOSE e \in items : \A f \in items :
        e.created > f.created \/ (e.created = f.created /\ e.name <= f.name)

(* resolveLatestAlertEvent up to the Update: nothing to do without events, *)
(* or when the latest is resolved.                                         *)
List(h) ==
    LET items == {e \in events : e.target = Filed[handlers[h].key[2]]}
    IN  /\ handlers[h].pc = "list"
        /\ IF items = {} \/ Latest(items).status = "resolved"
             THEN Finish(h)
             ELSE handlers' = [handlers EXCEPT ![h].pc = "update",
                                               ![h].latest = Latest(items)]
        /\ UNCHANGED <<engineState, cluster, issued, decided, spent, serial>>

(* Mutant: every firing event of the target is resolved.                   *)
UpdateAll(h) ==
    /\ handlers[h].pc = "update"
    /\ LET t == handlers[h].latest.target
       IN  events' = {IF e.target = t THEN [e EXCEPT !.status = "resolved"] ELSE e :
                         e \in events}
    /\ Finish(h)
    /\ UNCHANGED <<engineState, second, issued, decided, spent, serial>>

(* The Update carries the listed object's resourceVersion: if it changed   *)
(* since, the call fails with a conflict, which is not retried.            *)
Update(h) ==
    /\ handlers[h].pc = "update"
    /\ LET e == handlers[h].latest
       IN  events' = IF e \in events
                       THEN (events \ {e}) \cup {[e EXCEPT !.status = "resolved"]}
                       ELSE events
    /\ Finish(h)
    /\ UNCHANGED <<engineState, second, issued, decided, spent, serial>>

(* An API call fails: HandleResult returns the error, SubmitResult answers *)
(* "not accepted", and the decision is not taken back.                     *)
ApiError(h) ==
    /\ handlers[h].pc \in {"create", "list", "update"}
    /\ Disturb("failures")
    /\ Finish(h)
    /\ UNCHANGED <<engineState, cluster, issued, decided, serial>>

(* A replica crashes or is replaced: memory and running handlers are gone. *)
Restart(r) ==
    /\ Disturb("restarts")
    /\ states' = [k \in Keys |-> IF k[1] = r THEN NoState ELSE states[k]]
    /\ failureWindow' = [k \in Keys |-> IF k[1] = r THEN {} ELSE failureWindow[k]]
    /\ targetStates' =
          [k \in Keys |-> IF k[1] = r THEN Engine!NewTargetState ELSE targetStates[k]]
    /\ handlers' =
          [h \in Handlers |-> IF handlers[h].key[1] = r THEN Idle ELSE handlers[h]]
    /\ UNCHANGED <<cluster, issued, decided, serial>>

(* cleanupLoop: targets no result came in for during StateExpiration; none *)
(* of their handlers is still running after that long.  A run that finds   *)
(* none changes nothing.                                                   *)
Cleanup ==
    /\ Disturb("cleanups")
    /\ \E expired \in SUBSET Processor!Known \ {{}} :
          /\ \A h \in Handlers : handlers[h].pc # "idle" => handlers[h].key \notin expired
          /\ Processor!CleanupExpiredStates(expired)
    /\ UNCHANGED <<failureWindow, targetStates, handlers, cluster, issued, decided, serial>>

Step(h) ==
    \/ RecordFailure(h) \/ Decide(h) \/ GenerateReport(h)
    \/ Create(h) \/ List(h) \/ Update(h)

Next ==
    \/ \E h \in Handlers : Submit(h) \/ Step(h) \/ ApiError(h)
    \/ \E r \in Replicas : Restart(r)
    \/ Cleanup

Spec == Init /\ [][Next]_vars

(* A running handler's goroutine is scheduled, and the API answers it.     *)
FairSpec == Spec /\ \A h \in Handlers : WF_vars(Step(h))

-----------------------------------------------------------------------------
(* The type of the aggregator's state, of every replica and handler; the   *)
(* counters of a target never go below zero.                               *)
TypeOK ==
    /\ Processor!ProcessorTypeOK
    /\ failureWindow \in [Keys -> SUBSET Nodes]
    /\ targetStates \in [Keys -> Engine!TargetState]
    /\ handlers \in [Handlers -> HandlerStates]
    /\ events \subseteq AlertEvents
    /\ issued \in Nat /\ second \in Nat
    /\ decided \in [FiledNames -> [alert : Nat, resolve : Nat, by : SUBSET Targets]]
    /\ spent \in [results : 0..MaxResults, failures : 0..MaxDisturbances,
                  restarts : 0..MaxDisturbances, cleanups : 0..MaxDisturbances]
    /\ serial \in BOOLEAN

Of(f, status) == {e \in events : e.target = f /\ e.status = status}

Alerting(t) == \E k \in Keys : k[2] = t /\ targetStates[k].IsAlerting

(* No decision about another target has touched the events of this one.    *)
Sole(t) == decided[Filed[t]].by \subseteq {t}

(* However handlers interleave, calls fail and replicas restart, there are *)
(* never more AlertEvents than decisions to alert, nor more resolved ones  *)
(* than decisions to resolve, and a firing event names a node that failed, *)
(* unless it may be about a target whose namespace was not given           *)
(* (cmd/aggregator HandleResult, upsertAlertEvent).                        *)
EventsAreDecided ==
    \A f \in FiledNames :
        /\ Cardinality(Of(f, "firing") \cup Of(f, "resolved")) <= decided[f].alert
        /\ Cardinality(Of(f, "resolved")) <= decided[f].resolve
        /\ decided[f].by \subseteq {f} => \A e \in Of(f, "firing") : e.affected # {}

(* No call has failed and no replica has restarted.                        *)
Undisturbed == spent.failures = 0 /\ spent.restarts = 0

(* While the API answers and the replicas stay up, no interleaving of      *)
(* handlers loses an alert: once they are done, an alerting target has a   *)
(* firing event under its name, also when others share that name           *)
(* (cmd/aggregator HandleResult).                                          *)
NoLostAlert ==
    Undisturbed /\ Quiet =>
        \A t \in Targets : Alerting(t) => Of(Filed[t], "firing") # {}

(* With one result handled at a time and creations a second apart, the     *)
(* firing events are exactly those of the targets that are alerting: one   *)
(* each, however often a target fails and recovers, unless targets share   *)
(* their events (cmd/aggregator HandleResult, resolveLatestAlertEvent).    *)
EventsTrackEngine ==
    serial /\ Undisturbed /\ Quiet => \A t \in Targets : Sole(t) =>
                Cardinality(Of(Filed[t], "firing")) = IF Alerting(t) THEN 1 ELSE 0

(* With one result handled at a time the processor and the engine agree on *)
(* a target's health; a cleanup makes the processor forget, never run      *)
(* ahead (cmd/aggregator HandleResult, processor.go, alerting.go).         *)
ProcessorAgreesWithEngine ==
    serial /\ Quiet => \A k \in Processor!Known :
        /\ states[k].counters.ConsecutiveFailures <= targetStates[k].ConsecutiveFailures
        /\ states[k].counters.ConsecutiveSuccesses <= targetStates[k].ConsecutiveSuccesses
        /\ states[k].State = "Unhealthy" <=> targetStates[k].ConsecutiveFailures > 0

(* An alert the engine raises becomes visible as a firing event unless the *)
(* target recovers first, a call fails or a replica restarts               *)
(* (cmd/aggregator HandleResult).                                          *)
AlertEventuallyVisible ==
    \A t \in Targets :
        Alerting(t) ~> (Of(Filed[t], "firing") # {} \/ ~Alerting(t) \/ ~Undisturbed)

(* The state of alerts survives a restart: a target all its replicas saw   *)
(* recover has no event still firing (cmd/aggregator HandleResult).        *)
RecoveredIsResolved ==
    Quiet => \A t \in Targets :
        (\A k \in Keys : k[2] = t =>
            targetStates[k].ConsecutiveSuccesses >= DefaultRecoverySuccesses)
        => Of(Filed[t], "firing") = {}

=============================================================================

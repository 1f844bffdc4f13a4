------------------------ MODULE ResultPipelineProofs -------------------------
(***************************************************************************)
(* The aggregator's handlers keep the AlertEvents true to the decisions of *)
(* the engine, for any number of replicas, targets, nodes and handlers.    *)
(*                                                                         *)
(* Handlers interleave, so the properties are counted: a handler that has  *)
(* decided and not yet acted stands for the event it will create or        *)
(* resolve.  The counts hold in every state; that events and decisions     *)
(* agree when all handlers are done follows from them.                     *)
(***************************************************************************)
EXTENDS ResultPipeline, FiniteSetTheorems, TLAPS

(* The name the events of a handler's target are filed under.  Below, t is *)
(* such a name.                                                            *)
FiledAs(h) == Filed[handlers[h].key[2]]

(* The events of a name, the ones that are firing among them.              *)
EventsOf(t) == {e \in events : e.target = t}

(* What is later in the list that resolveLatestAlertEvent walks.           *)
Later(e, f) == e.created > f.created \/ (e.created = f.created /\ e.name <= f.name)

(* Latest has a value: some event is later than all of the name's.         *)
HasLatest(t) ==
    EventsOf(t) # {} => \E e \in EventsOf(t) : \A f \in EventsOf(t) : Later(e, f)

Stamped ==
    /\ \A t \in FiledNames : HasLatest(t)
    /\ \A e \in events : e.created <= second

-----------------------------------------------------------------------------
(* Types.                                                                  *)
LEMMA KeyParts ==
    ASSUME NEW k \in Keys
    PROVE  /\ k[1] \in Replicas /\ k[2] \in Targets /\ k = <<k[1], k[2]>>
           /\ Filed[k[2]] \in FiledNames
BY PipelineAssumption DEF FiledNames

LEMMA IdleIsState == Idle \in HandlerStates
<1>1. \E k : k \in Keys
    BY PipelineAssumption
<1>2. (CHOOSE k \in Keys : TRUE) \in Keys
    BY <1>1
<1>3. (CHOOSE n \in Nodes : TRUE) \in Nodes
    BY PipelineAssumption
<1> QED BY <1>2, <1>3 DEF Idle, HandlerStates, HandlerPCs

(* What one result does to its target's counters.  Whatever the thresholds *)
(* are, an alert is decided when it was off, and a recovery when it was on.*)
LEMMA ResultDecides ==
    ASSUME targetStates \in [Keys -> Engine!TargetState], NEW k \in Keys,
           NEW success \in BOOLEAN, NEW decision,
           Engine!ProcessResult(k, success, decision)
    PROVE  /\ targetStates' \in [Keys -> Engine!TargetState]
           /\ \A j \in Keys \ {k} : targetStates'[j] = targetStates[j]
           /\ targetStates'[k].ConsecutiveFailures =
                  IF success THEN 0 ELSE targetStates[k].ConsecutiveFailures + 1
           /\ targetStates'[k].ConsecutiveSuccesses =
                  IF success THEN targetStates[k].ConsecutiveSuccesses + 1 ELSE 0
           /\ \/ /\ decision = "none"
                 /\ targetStates'[k].IsAlerting = targetStates[k].IsAlerting
              \/ /\ decision = "alert" /\ ~success
                 /\ ~targetStates[k].IsAlerting /\ targetStates'[k].IsAlerting
              \/ /\ decision = "resolve" /\ success
                 /\ targetStates[k].IsAlerting /\ ~targetStates'[k].IsAlerting
<1> DEFINE old == targetStates[k]
           counted == IF success THEN Engine!CountSuccess(old) ELSE Engine!CountFailure(old)
           Set(b) == Engine!SetAlerting(counted, b)
<1>1. /\ old \in Engine!TargetState
      /\ old.ConsecutiveFailures \in Nat /\ old.ConsecutiveSuccesses \in Nat
      /\ old.IsAlerting \in BOOLEAN
    BY DEF Engine!TargetState
<1>2. /\ counted \in Engine!TargetState /\ counted.IsAlerting = old.IsAlerting
      /\ counted.ConsecutiveFailures = IF success THEN 0 ELSE old.ConsecutiveFailures + 1
      /\ counted.ConsecutiveSuccesses = IF success THEN old.ConsecutiveSuccesses + 1 ELSE 0
    BY <1>1 DEF Engine!CountSuccess, Engine!CountFailure, Engine!State, Engine!TargetState
<1>3. ASSUME NEW b \in BOOLEAN
      PROVE  /\ Set(b) \in Engine!TargetState /\ Set(b).IsAlerting = b
             /\ Set(b).ConsecutiveFailures = counted.ConsecutiveFailures
             /\ Set(b).ConsecutiveSuccesses = counted.ConsecutiveSuccesses
    BY <1>1, <1>2 DEF Engine!SetAlerting, Engine!State, Engine!TargetState
<1>4. \/ /\ decision = "none"
         /\ targetStates' = [targetStates EXCEPT ![k] = counted]
      \/ /\ decision = "alert" /\ ~success /\ ~counted.IsAlerting
         /\ targetStates' = [targetStates EXCEPT ![k] = Set(TRUE)]
      \/ /\ decision = "resolve" /\ success /\ counted.IsAlerting
         /\ targetStates' = [targetStates EXCEPT ![k] = Set(FALSE)]
    BY DEF Engine!ProcessResult, Engine!ProcessSuccess, Engine!ProcessFailure
<1> HIDE DEF counted, Set
<1>5. CASE decision = "none" /\ targetStates' = [targetStates EXCEPT ![k] = counted]
    BY <1>2, <1>5
<1>6. CASE /\ decision = "alert" /\ ~success /\ ~counted.IsAlerting
           /\ targetStates' = [targetStates EXCEPT ![k] = Set(TRUE)]
    BY <1>2, <1>3, <1>6
<1>7. CASE /\ decision = "resolve" /\ success /\ counted.IsAlerting
           /\ targetStates' = [targetStates EXCEPT ![k] = Set(FALSE)]
    BY <1>2, <1>3, <1>7
<1> QED BY <1>4, <1>5, <1>6, <1>7

(* What one result does to the processor's view of its target.             *)
LEMMA ResultProcessed ==
    ASSUME Processor!ProcessorTypeOK, NEW k \in Keys, NEW n \in Nodes, NEW success \in BOOLEAN,
           Processor!ProcessResult(k, n, success)
    PROVE  /\ Processor!ProcessorTypeOK'
           /\ \A j \in Keys \ {k} : states'[j] = states[j]
           /\ states'[k].State = IF success THEN "Healthy" ELSE "Unhealthy"
           /\ LET old == IF states[k] = NoState THEN Processor!Zero ELSE states[k].counters
              IN  /\ old \in Processor!Counters
                  /\ states'[k].counters = Processor!Count(old, success)
<1> DEFINE old == IF states[k] = NoState THEN Processor!InitialState ELSE states[k]
           new == [counters    |-> Processor!Count(old.counters, success),
                   State       |-> IF success THEN "Healthy" ELSE "Unhealthy",
                   AgentStates |-> Processor!UpdateAgentState(old.AgentStates, n, success)]
<1>1. Processor!InitialState \in Processor!TargetState
      /\ Processor!InitialState.counters = Processor!Zero
    BY DEF Processor!InitialState, Processor!TargetState, Processor!Zero, Processor!Counters
<1>2. old \in Processor!TargetState
    BY <1>1 DEF Processor!ProcessorTypeOK
<1>3. old.counters \in Processor!Counters /\ old.AgentStates \in [Nodes -> Processor!Counters]
    BY <1>2 DEF Processor!TargetState
<1>4. ASSUME NEW c \in Processor!Counters
      PROVE  Processor!Count(c, success) \in Processor!Counters
    BY DEF Processor!Count, Processor!Counters
<1>5. new.AgentStates \in [Nodes -> Processor!Counters]
    BY <1>3, <1>4 DEF Processor!UpdateAgentState
<1>6. new \in Processor!TargetState
    BY <1>3, <1>4, <1>5 DEF Processor!TargetState
<1>7. states' = [states EXCEPT ![k] = new]
    BY DEF Processor!ProcessResult
<1>8. states'[k] = new
    BY <1>7 DEF Processor!ProcessorTypeOK
<1>9. Processor!ProcessorTypeOK'
    BY <1>6, <1>7 DEF Processor!ProcessorTypeOK
<1>10. old.counters = IF states[k] = NoState THEN Processor!Zero ELSE states[k].counters
    BY <1>1
<1> QED BY <1>3, <1>7, <1>8, <1>9, <1>10 DEF Processor!ProcessorTypeOK

LEMMA LatestIsEvent ==
    ASSUME NEW t \in FiledNames, HasLatest(t), EventsOf(t) # {}
    PROVE  Latest(EventsOf(t)) \in EventsOf(t)
           /\ \A f \in EventsOf(t) : Later(Latest(EventsOf(t)), f)
BY DEF HasLatest, Latest, Later

-----------------------------------------------------------------------------
(* Handlers take turns: what a step of one of them does to all.            *)
HandlersTyped == handlers \in [Handlers -> HandlerStates]

LEMMA HandlerFields ==
    ASSUME HandlersTyped, NEW h \in Handlers
    PROVE  /\ handlers[h] \in HandlerStates
           /\ handlers[h].pc \in HandlerPCs /\ handlers[h].key \in Keys
           /\ handlers[h].success \in BOOLEAN /\ handlers[h].node \in Nodes
           /\ handlers[h].name \in Nat /\ handlers[h].affected \in SUBSET Nodes
           /\ handlers[h].latest \in AlertEvents \cup {NoEvent}
           /\ handlers[h].key[1] \in Replicas /\ handlers[h].key[2] \in Targets
           /\ FiledAs(h) \in FiledNames
BY KeyParts DEF HandlersTyped, HandlerStates, FiledAs

(* The handler's next record, and the other handlers as they were.         *)
Moves(h, pc) ==
    /\ handlers' \in [Handlers -> HandlerStates]
    /\ \A g \in Handlers \ {h} : handlers'[g] = handlers[g]
    /\ handlers'[h].pc = pc
    /\ pc # "idle" => /\ handlers'[h].key = handlers[h].key
                      /\ handlers'[h].success = handlers[h].success

LEMMA FinishMoves ==
    ASSUME HandlersTyped, NEW h \in Handlers, Finish(h)
    PROVE  Moves(h, "idle")
<1>1. handlers' = [handlers EXCEPT ![h] = Idle]
    BY DEF Finish
<1>2. Idle.pc = "idle"
    BY DEF Idle
<1> QED BY <1>1, <1>2, IdleIsState DEF Moves, HandlersTyped

LEMMA SetPcMoves ==
    ASSUME HandlersTyped, NEW h \in Handlers, NEW pc \in HandlerPCs,
           handlers' = [handlers EXCEPT ![h].pc = pc]
    PROVE  Moves(h, pc) /\ handlers'[h] = [handlers[h] EXCEPT !.pc = pc]
<1>1. handlers[h] \in HandlerStates
    BY HandlerFields
<1>2. [handlers[h] EXCEPT !.pc = pc] \in HandlerStates
    BY <1>1 DEF HandlerStates
<1>3. handlers' = [handlers EXCEPT ![h] = [handlers[h] EXCEPT !.pc = pc]]
    BY DEF HandlersTyped
<1>4. /\ [handlers[h] EXCEPT !.pc = pc].pc = pc
      /\ [handlers[h] EXCEPT !.pc = pc].key = handlers[h].key
      /\ [handlers[h] EXCEPT !.pc = pc].success = handlers[h].success
    BY <1>1 DEF HandlerStates
<1> QED BY <1>2, <1>3, <1>4 DEF Moves, HandlersTyped

(* Each action, as what it does to its handler and to the rest.            *)
LEMMA SubmitDoes ==
    ASSUME TypeOK, NEW h \in Handlers, Submit(h)
    PROVE  \E k \in Keys, n \in Nodes, success \in BOOLEAN :
              /\ handlers[h].pc = "idle"
              /\ Processor!ProcessResult(k, n, success)
              /\ serial' = (serial /\ Quiet /\ k[1] = CHOOSE r \in Replicas : TRUE)
              /\ handlers' \in [Handlers -> HandlerStates]
              /\ \A g \in Handlers \ {h} : handlers'[g] = handlers[g]
              /\ handlers'[h].pc = IF success THEN "decide" ELSE "correlate"
              /\ handlers'[h].key = k /\ handlers'[h].success = success
<1>1. PICK k \in Keys, n \in Nodes, success \in BOOLEAN :
          /\ Processor!ProcessResult(k, n, success)
          /\ serial' = (serial /\ Quiet /\ k[1] = CHOOSE r \in Replicas : TRUE)
          /\ handlers' = [handlers EXCEPT ![h] =
                [Idle EXCEPT !.pc = IF success THEN "decide" ELSE "correlate",
                             !.key = k, !.success = success, !.node = n]]
    BY DEF Submit
<1> DEFINE new == [Idle EXCEPT !.pc = IF success THEN "decide" ELSE "correlate",
                               !.key = k, !.success = success, !.node = n]
<1>2. /\ new \in HandlerStates /\ new.pc = (IF success THEN "decide" ELSE "correlate")
      /\ new.key = k /\ new.success = success
    BY IdleIsState DEF HandlerStates, HandlerPCs
<1>3. handlers \in [Handlers -> HandlerStates]
    BY DEF TypeOK
<1>4. handlers' = [handlers EXCEPT ![h] = new]
    BY <1>1
<1> HIDE DEF new
<1> QED BY <1>1, <1>2, <1>3, <1>4 DEF Submit

LEMMA RecordDoes ==
    ASSUME TypeOK, NEW h \in Handlers, RecordFailure(h)
    PROVE  /\ handlers[h].pc = "correlate" /\ Moves(h, "decide")
           /\ failureWindow' \in [Keys -> SUBSET Nodes]
           /\ failureWindow'[handlers[h].key] # {}
           /\ \A k \in Keys : k # handlers[h].key => failureWindow'[k] = failureWindow[k]
<1>1. HandlersTyped /\ failureWindow \in [Keys -> SUBSET Nodes]
    BY DEF TypeOK, HandlersTyped
<1>2. handlers[h].key \in Keys /\ handlers[h].node \in Nodes
    BY <1>1, HandlerFields
<1>3. Moves(h, "decide")
    BY <1>1, SetPcMoves DEF RecordFailure, HandlerPCs
<1>4. PICK kept \in SUBSET failureWindow[handlers[h].key] :
          failureWindow' = [failureWindow EXCEPT
              ![handlers[h].key] = kept \cup {handlers[h].node}]
    BY DEF RecordFailure
<1> QED BY <1>1, <1>2, <1>3, <1>4 DEF RecordFailure

(* A decision for the handler's target is counted under its name.          *)
Decided(h, decision) ==
    decided' = [decided EXCEPT ![FiledAs(h)] = Tally(@, decision, handlers[h].key[2])]

LEMMA DecideDoes ==
    ASSUME TypeOK, NEW h \in Handlers, Decide(h)
    PROVE  /\ handlers[h].pc = "decide"
           /\ \E decision \in Engine!Decisions :
                 /\ Engine!ProcessResult(handlers[h].key, handlers[h].success, decision)
                 /\ \/ decision = "none" /\ Moves(h, "idle") /\ UNCHANGED decided
                    \/ /\ decision = "alert" /\ Moves(h, "report")
                       /\ Decided(h, "alert")
                    \/ /\ decision = "resolve" /\ Moves(h, "list")
                       /\ Decided(h, "resolve")
<1>0. HandlersTyped
    BY DEF TypeOK, HandlersTyped
<1>1. PICK decision \in Engine!Decisions :
          /\ Engine!ProcessResult(handlers[h].key, handlers[h].success, decision)
          /\ \/ /\ decision = "none"
                /\ Finish(h)
                /\ UNCHANGED decided
             \/ /\ decision # "none"
                /\ handlers' = [handlers EXCEPT ![h].pc =
                                   IF decision = "alert" THEN "report" ELSE "list"]
                /\ Decided(h, decision)
    BY DEF Decide, Decided, FiledAs
<1>2. CASE decision = "none"
    BY <1>0, <1>1, <1>2, FinishMoves DEF Decide
<1>3. CASE decision = "alert"
    <2>1. Moves(h, "report")
        BY <1>0, <1>1, <1>3, SetPcMoves DEF HandlerPCs
    <2> QED BY <1>1, <1>3, <2>1 DEF Decide
<1>4. CASE decision = "resolve"
    <2>1. Moves(h, "list")
        BY <1>0, <1>1, <1>4, SetPcMoves DEF HandlerPCs
    <2> QED BY <1>1, <1>4, <2>1 DEF Decide
<1> QED BY <1>1, <1>2, <1>3, <1>4 DEF Engine!Decisions

(* The handler's record with its report.                                   *)
Reporting(s, name, affected) ==
    [s EXCEPT !.pc = "create", !.name = name, !.affected = affected]

LEMMA ReportingIsState ==
    ASSUME NEW s \in HandlerStates, NEW name \in Nat, NEW affected \in SUBSET Nodes
    PROVE  LET n == Reporting(s, name, affected)
           IN  /\ n \in HandlerStates /\ n.pc = "create" /\ n.key = s.key
               /\ n.success = s.success /\ n.name = name /\ n.affected = affected
BY DEF Reporting, HandlerStates, HandlerPCs

LEMMA ReportDoes ==
    ASSUME TypeOK, NEW h \in Handlers, GenerateReport(h)
    PROVE  /\ handlers[h].pc = "report" /\ Moves(h, "create")
           /\ handlers'[h].name = issued + 1
           /\ FiledAs(h) = handlers[h].key[2] =>
                  handlers'[h].affected = failureWindow[handlers[h].key]
           /\ issued' = issued + 1
<1> DEFINE k == handlers[h].key
           own == <<k[1], Filed[k[2]]>>
           affected == IF own \in Keys THEN failureWindow[own] ELSE {}
           new == Reporting(handlers[h], issued + 1, affected)
<1>1. handlers \in [Handlers -> HandlerStates] /\ issued \in Nat
      /\ failureWindow \in [Keys -> SUBSET Nodes]
    BY DEF TypeOK
<1>2. /\ handlers[h] \in HandlerStates /\ k \in Keys
      /\ FiledAs(h) = k[2] => affected = failureWindow[k]
    BY <1>1, HandlerFields, KeyParts DEF HandlersTyped, FiledAs
<1>3. issued + 1 \in Nat /\ affected \in SUBSET Nodes
    BY <1>1, <1>2
<1>4. handlers' = [handlers EXCEPT ![h] = new]
    BY <1>1 DEF GenerateReport, Reporting
<1> HIDE DEF affected
<1>5. /\ new \in HandlerStates /\ new.pc = "create" /\ new.key = handlers[h].key
      /\ new.success = handlers[h].success /\ new.name = issued + 1
      /\ new.affected = affected
    BY <1>2, <1>3, ReportingIsState
<1> HIDE DEF new
<1>6. Moves(h, "create") /\ handlers'[h] = new
    BY <1>1, <1>4, <1>5 DEF Moves
<1> QED BY <1>2, <1>5, <1>6 DEF GenerateReport

(* The event a handler creates, at some time.                              *)
Event(h, time) ==
    [name |-> handlers[h].name, target |-> FiledAs(h),
     created |-> time, status |-> "firing", affected |-> handlers[h].affected]

LEMMA CreateDoes ==
    ASSUME TypeOK, NEW h \in Handlers, Create(h)
    PROVE  /\ handlers[h].pc = "create" /\ Moves(h, "idle")
           /\ \E gap \in CreationGaps :
                 /\ gap \in Nat /\ second' = second + gap
                 /\ serial' = (serial /\ gap > 0)
                 /\ Event(h, second + gap) \in AlertEvents
                 /\ events' = events \cup {Event(h, second + gap)}
<1>0. HandlersTyped /\ second \in Nat
    BY DEF TypeOK, HandlersTyped
<1>1. PICK gap \in CreationGaps :
          /\ second' = second + gap
          /\ serial' = (serial /\ gap > 0)
          /\ events' = events \cup {Event(h, second + gap)}
    BY DEF Create, Event, FiledAs
<1>2. gap \in Nat /\ second + gap \in Nat
    BY <1>0, PipelineAssumption
<1>3. Event(h, second + gap) \in AlertEvents
    BY <1>0, <1>2, HandlerFields DEF Event, AlertEvents
<1> QED BY <1>0, <1>1, <1>2, <1>3, FinishMoves DEF Create

LEMMA ListDoes ==
    ASSUME TypeOK, NEW h \in Handlers, List(h), HasLatest(FiledAs(h))
    PROVE  LET t == FiledAs(h) IN
           /\ handlers[h].pc = "list"
           /\ \/ /\ Moves(h, "idle")
                 /\ EventsOf(t) = {} \/ Latest(EventsOf(t)).status = "resolved"
              \/ /\ Moves(h, "update")
                 /\ handlers'[h].latest = Latest(EventsOf(t))
                 /\ Latest(EventsOf(t)) \in EventsOf(t)
                 /\ Latest(EventsOf(t)).status = "firing"
<1> DEFINE t == FiledAs(h)
           e == Latest(EventsOf(t))
           new == [handlers[h] EXCEPT !.pc = "update", !.latest = e]
<1>0. HandlersTyped /\ events \subseteq AlertEvents
    BY DEF TypeOK, HandlersTyped
<1>1. t \in FiledNames /\ handlers[h] \in HandlerStates
    BY <1>0, HandlerFields
<1>2. CASE EventsOf(t) = {} \/ e.status = "resolved"
    <2>1. Finish(h) /\ handlers[h].pc = "list"
        BY <1>2 DEF List, EventsOf, FiledAs
    <2> QED BY <1>0, <1>2, <2>1, FinishMoves
<1>3. CASE ~(EventsOf(t) = {} \/ e.status = "resolved")
    <2>1. e \in EventsOf(t) /\ e \in AlertEvents /\ e.status = "firing"
        <3>1. e \in EventsOf(t)
            BY <1>1, <1>3, LatestIsEvent
        <3>2. e \in AlertEvents
            BY <1>0, <3>1 DEF EventsOf
        <3> QED BY <1>3, <3>1, <3>2 DEF AlertEvents
    <2>2. handlers' = [handlers EXCEPT ![h].pc = "update", ![h].latest = e]
        BY <1>3 DEF List, EventsOf, FiledAs
    <2>3. handlers' = [handlers EXCEPT ![h] = new]
        BY <1>0, <2>2 DEF HandlersTyped
    <2>4. /\ new \in HandlerStates /\ new.pc = "update" /\ new.key = handlers[h].key
          /\ new.success = handlers[h].success /\ new.latest = e
        BY <1>1, <2>1 DEF HandlerStates, HandlerPCs
    <2>5. handlers[h].pc = "list"
        BY DEF List
    <2> HIDE DEF new, e
    <2>6. Moves(h, "update") /\ handlers'[h].latest = e
        BY <1>0, <2>3, <2>4 DEF Moves, HandlersTyped
    <2> QED BY <2>1, <2>5, <2>6 DEF e
<1> QED BY <1>2, <1>3

Resolved(e) == [e EXCEPT !.status = "resolved"]

LEMMA ResolvedIsEvent ==
    ASSUME NEW e \in AlertEvents
    PROVE  /\ Resolved(e) \in AlertEvents /\ Resolved(e).status = "resolved"
           /\ Resolved(e).name = e.name /\ Resolved(e).target = e.target
           /\ Resolved(e).created = e.created /\ Resolved(e).affected = e.affected
BY DEF AlertEvents, Resolved

LEMMA UpdateDoes ==
    ASSUME TypeOK, NEW h \in Handlers, Update(h)
    PROVE  /\ handlers[h].pc = "update" /\ Moves(h, "idle")
           /\ \/ handlers[h].latest \notin events /\ events' = events
              \/ /\ handlers[h].latest \in events
                 /\ events' = (events \ {handlers[h].latest}) \cup {Resolved(handlers[h].latest)}
<1>1. HandlersTyped
    BY DEF TypeOK, HandlersTyped
<1> QED BY <1>1, FinishMoves DEF Update, Resolved

LEMMA RestartDoes ==
    ASSUME TypeOK, NEW r \in Replicas, Restart(r)
    PROVE  /\ handlers' \in [Handlers -> HandlerStates]
           /\ \A h \in Handlers : \/ handlers'[h] = handlers[h] /\ handlers[h].key[1] # r
                                  \/ handlers'[h].pc = "idle" /\ handlers'[h] = Idle
           /\ spent'.failures > 0 \/ spent'.restarts > 0
           /\ spent'.restarts > 0
           /\ UNCHANGED <<cluster, issued, decided, serial>>
<1>1. Idle.pc = "idle"
    BY DEF Idle
<1>2. handlers \in [Handlers -> HandlerStates]
    BY DEF TypeOK
<1>3. handlers' = [h \in Handlers |-> IF handlers[h].key[1] = r THEN Idle ELSE handlers[h]]
    BY DEF Restart
<1>4. spent'.restarts > 0
    <2>1. spent' = [spent EXCEPT !.restarts = @ + 1]
        BY DEF Restart, Disturb, Spend
    <2>2. spent \in [results : 0..MaxResults, failures : 0..MaxDisturbances,
                     restarts : 0..MaxDisturbances, cleanups : 0..MaxDisturbances]
        BY DEF TypeOK
    <2> QED BY <2>1, <2>2, PipelineAssumption
<1> QED BY <1>1, <1>2, <1>3, <1>4, IdleIsState DEF Restart

LEMMA ErrorDoes ==
    ASSUME TypeOK, NEW h \in Handlers, ApiError(h)
    PROVE  /\ Moves(h, "idle") /\ handlers[h].pc \in {"create", "list", "update"}
           /\ spent'.failures > 0
           /\ UNCHANGED <<engineState, cluster, issued, decided, serial>>
<1>1. HandlersTyped
    BY DEF TypeOK, HandlersTyped
<1>2. spent'.failures > 0
    <2>1. spent' = [spent EXCEPT !.failures = @ + 1]
        BY DEF ApiError, Disturb, Spend
    <2>2. spent \in [results : 0..MaxResults, failures : 0..MaxDisturbances,
                     restarts : 0..MaxDisturbances, cleanups : 0..MaxDisturbances]
        BY DEF TypeOK
    <2> QED BY <2>1, <2>2, PipelineAssumption
<1> QED BY <1>1, <1>2, FinishMoves DEF ApiError

-----------------------------------------------------------------------------
Spendings ==
    [results : 0..MaxResults, failures : 0..MaxDisturbances,
     restarts : 0..MaxDisturbances, cleanups : 0..MaxDisturbances]

LEMMA SpentTyped ==
    ASSUME spent \in Spendings,
           \/ spent.results < MaxResults /\ Spend("results")
           \/ \E what \in {"failures", "restarts", "cleanups"} : Disturb(what)
    PROVE  spent' \in Spendings
<1> USE PipelineAssumption
<1>1. CASE spent.results < MaxResults /\ Spend("results")
    BY <1>1 DEF Spend, Spendings
<1>2. CASE Disturb("failures")
    BY <1>2 DEF Disturb, Spend, Spendings
<1>3. CASE Disturb("restarts")
    BY <1>3 DEF Disturb, Spend, Spendings
<1>4. CASE Disturb("cleanups")
    BY <1>4 DEF Disturb, Spend, Spendings
<1> QED BY <1>1, <1>2, <1>3, <1>4

Counts == [alert : Nat, resolve : Nat, by : SUBSET Targets]

LEMMA DecidedAdds ==
    ASSUME decided \in [FiledNames -> Counts], HandlersTyped, NEW h \in Handlers,
           NEW decision \in {"alert", "resolve"}, Decided(h, decision)
    PROVE  /\ decided' \in [FiledNames -> Counts]
           /\ \A t \in FiledNames \ {FiledAs(h)} : decided'[t] = decided[t]
           /\ decided'[FiledAs(h)].alert =
                  decided[FiledAs(h)].alert + IF decision = "alert" THEN 1 ELSE 0
           /\ decided'[FiledAs(h)].resolve =
                  decided[FiledAs(h)].resolve + IF decision = "resolve" THEN 1 ELSE 0
           /\ decided'[FiledAs(h)].by = decided[FiledAs(h)].by \cup {handlers[h].key[2]}
<1> DEFINE old == decided[FiledAs(h)]
           new == Tally(old, decision, handlers[h].key[2])
<1>1. FiledAs(h) \in FiledNames /\ handlers[h].key[2] \in Targets
    BY HandlerFields
<1>2. old \in Counts
    BY <1>1
<1>3. /\ new \in Counts
      /\ new.alert = old.alert + IF decision = "alert" THEN 1 ELSE 0
      /\ new.resolve = old.resolve + IF decision = "resolve" THEN 1 ELSE 0
      /\ new.by = old.by \cup {handlers[h].key[2]}
    BY <1>1, <1>2 DEF Tally, Counts
<1>4. decided' = [decided EXCEPT ![FiledAs(h)] = new]
    BY DEF Decided
<1> HIDE DEF new
<1> QED BY <1>1, <1>3, <1>4

(* What the rest of a step's types come from, once its handlers are typed. *)
LEMMA MovesTyped ==
    ASSUME NEW h \in Handlers, NEW pc, Moves(h, pc)
    PROVE  handlers' \in [Handlers -> HandlerStates]
BY DEF Moves

LEMMA StepTypes == TypeOK /\ Stamped /\ [Next]_vars => TypeOK'
<1> SUFFICES ASSUME TypeOK, Stamped, [Next]_vars PROVE TypeOK'
    OBVIOUS
<1>0. /\ HandlersTyped /\ events \subseteq AlertEvents /\ spent \in Spendings
      /\ serial \in BOOLEAN /\ decided \in [FiledNames -> Counts]
      /\ issued \in Nat /\ second \in Nat /\ targetStates \in [Keys -> Engine!TargetState]
      /\ failureWindow \in [Keys -> SUBSET Nodes] /\ Processor!ProcessorTypeOK
    BY DEF TypeOK, HandlersTyped, Spendings, Counts
<1>1. ASSUME NEW h \in Handlers, Submit(h)
      PROVE  TypeOK'
    <2>1. PICK k \in Keys, n \in Nodes, success \in BOOLEAN :
              /\ Processor!ProcessResult(k, n, success)
              /\ serial' = (serial /\ Quiet /\ k[1] = CHOOSE r \in Replicas : TRUE)
              /\ handlers' \in [Handlers -> HandlerStates]
        BY <1>1, SubmitDoes
    <2>2. Processor!ProcessorTypeOK'
        BY <1>0, <2>1, ResultProcessed
    <2>3. spent' \in Spendings
        BY <1>0, <1>1, SpentTyped DEF Submit
    <2>4. serial' \in BOOLEAN
        BY <2>1
    <2>5. UNCHANGED <<failureWindow, targetStates, events, second, issued, decided>>
        BY <1>1 DEF Submit, cluster
    <2> QED BY <1>0, <2>1, <2>2, <2>3, <2>4, <2>5 DEF TypeOK, Spendings, Counts
<1>2. ASSUME NEW h \in Handlers, RecordFailure(h)
      PROVE  TypeOK'
    <2>1. failureWindow' \in [Keys -> SUBSET Nodes] /\ handlers' \in [Handlers -> HandlerStates]
        BY <1>2, RecordDoes DEF Moves
    <2>2. UNCHANGED <<states, targetStates, events, second, issued, decided, spent, serial>>
        BY <1>2 DEF RecordFailure, cluster
    <2>3. Processor!ProcessorTypeOK'
        BY <1>0, <2>2 DEF Processor!ProcessorTypeOK
    <2> QED BY <1>0, <2>1, <2>2, <2>3 DEF TypeOK, Spendings, Counts
<1>3. ASSUME NEW h \in Handlers, Decide(h)
      PROVE  TypeOK'
    <2>1. UNCHANGED <<states, failureWindow, events, second, issued, spent, serial>>
        BY <1>3 DEF Decide, cluster
    <2>2. handlers[h].key \in Keys /\ handlers[h].success \in BOOLEAN
        BY <1>0, HandlerFields
    <2>3. PICK decision \in Engine!Decisions :
              /\ Engine!ProcessResult(handlers[h].key, handlers[h].success, decision)
              /\ \/ decision = "none" /\ Moves(h, "idle") /\ UNCHANGED decided
                 \/ /\ decision = "alert" /\ Moves(h, "report")
                    /\ Decided(h, "alert")
                 \/ /\ decision = "resolve" /\ Moves(h, "list")
                    /\ Decided(h, "resolve")
        BY <1>3, DecideDoes
    <2>4. targetStates' \in [Keys -> Engine!TargetState]
        BY <1>0, <2>2, <2>3, ResultDecides
    <2>5. handlers' \in [Handlers -> HandlerStates]
        BY <2>3, MovesTyped
    <2>6. decided' \in [FiledNames -> Counts]
        BY <1>0, <2>2, <2>3, DecidedAdds
    <2>7. Processor!ProcessorTypeOK'
        BY <1>0, <2>1 DEF Processor!ProcessorTypeOK
    <2> QED BY <1>0, <2>1, <2>4, <2>5, <2>6, <2>7 DEF TypeOK, Spendings, Counts
<1>4. ASSUME NEW h \in Handlers, GenerateReport(h)
      PROVE  TypeOK'
    <2>1. issued' = issued + 1 /\ handlers' \in [Handlers -> HandlerStates]
        BY <1>4, ReportDoes DEF Moves
    <2>2. UNCHANGED <<states, failureWindow, targetStates, events, second, decided, spent, serial>>
        BY <1>4 DEF GenerateReport, cluster, engineState
    <2>3. Processor!ProcessorTypeOK'
        BY <1>0, <2>2 DEF Processor!ProcessorTypeOK
    <2> QED BY <1>0, <2>1, <2>2, <2>3 DEF TypeOK, Spendings, Counts
<1>5. ASSUME NEW h \in Handlers, Create(h)
      PROVE  TypeOK'
    <2>1. PICK gap \in CreationGaps :
              /\ gap \in Nat /\ second' = second + gap
              /\ serial' = (serial /\ gap > 0)
              /\ Event(h, second + gap) \in AlertEvents
              /\ events' = events \cup {Event(h, second + gap)}
        BY <1>5, CreateDoes
    <2>2. handlers' \in [Handlers -> HandlerStates]
        BY <1>5, CreateDoes DEF Moves
    <2>3. UNCHANGED <<states, failureWindow, targetStates, issued, decided, spent>>
        BY <1>5 DEF Create, engineState
    <2>4. Processor!ProcessorTypeOK'
        BY <1>0, <2>3 DEF Processor!ProcessorTypeOK
    <2>5. serial' \in BOOLEAN /\ second' \in Nat /\ events' \subseteq AlertEvents
        BY <1>0, <2>1
    <2> QED BY <1>0, <2>2, <2>3, <2>4, <2>5 DEF TypeOK, Spendings, Counts
<1>6. ASSUME NEW h \in Handlers, List(h) \/ ApiError(h)
      PROVE  TypeOK'
    <2>1. handlers' \in [Handlers -> HandlerStates]
        <3>1. HasLatest(FiledAs(h))
            BY <1>0, HandlerFields DEF Stamped
        <3> QED BY <1>6, <3>1, ListDoes, ErrorDoes DEF Moves
    <2>2. spent' \in Spendings
        BY <1>0, <1>6, SpentTyped DEF List, ApiError
    <2>3. UNCHANGED <<states, failureWindow, targetStates, events, second, issued, decided, serial>>
        BY <1>6 DEF List, ApiError, engineState, cluster
    <2>4. Processor!ProcessorTypeOK'
        BY <1>0, <2>3 DEF Processor!ProcessorTypeOK
    <2> QED BY <1>0, <2>1, <2>2, <2>3, <2>4 DEF TypeOK, Spendings, Counts
<1>7. ASSUME NEW h \in Handlers, Update(h)
      PROVE  TypeOK'
    <2>1. handlers' \in [Handlers -> HandlerStates]
        BY <1>7, UpdateDoes DEF Moves
    <2>2. events' \subseteq AlertEvents
        BY <1>0, <1>7, UpdateDoes, ResolvedIsEvent
    <2>3. UNCHANGED <<states, failureWindow, targetStates, second, issued, decided, spent, serial>>
        BY <1>7 DEF Update, engineState
    <2>4. Processor!ProcessorTypeOK'
        BY <1>0, <2>3 DEF Processor!ProcessorTypeOK
    <2> QED BY <1>0, <2>1, <2>2, <2>3, <2>4 DEF TypeOK, Spendings, Counts
<1>8. ASSUME NEW r \in Replicas, Restart(r)
      PROVE  TypeOK'
    <2>1. handlers' \in [Handlers -> HandlerStates]
        BY <1>8, RestartDoes
    <2>2. UNCHANGED <<events, second, issued, decided, serial>>
        BY <1>8 DEF Restart, cluster
    <2>3. spent' \in Spendings
        BY <1>0, <1>8, SpentTyped DEF Restart
    <2>4. failureWindow' \in [Keys -> SUBSET Nodes]
        BY <1>0, <1>8 DEF Restart
    <2>5. targetStates' \in [Keys -> Engine!TargetState]
        <3>1. Engine!NewTargetState \in Engine!TargetState
            BY DEF Engine!NewTargetState, Engine!State, Engine!TargetState
        <3> QED BY <1>0, <1>8, <3>1 DEF Restart
    <2>6. Processor!ProcessorTypeOK'
        BY <1>0, <1>8 DEF Restart, Processor!ProcessorTypeOK
    <2> QED BY <1>0, <2>1, <2>2, <2>3, <2>4, <2>5, <2>6 DEF TypeOK, Spendings, Counts
<1>9. CASE Cleanup
    <2>1. UNCHANGED <<failureWindow, targetStates, handlers, events, second, issued, decided, serial>>
        BY <1>9 DEF Cleanup, cluster
    <2>2. spent' \in Spendings
        BY <1>0, <1>9, SpentTyped DEF Cleanup
    <2>3. Processor!ProcessorTypeOK'
        BY <1>0, <1>9 DEF Cleanup, Processor!CleanupExpiredStates, Processor!ProcessorTypeOK
    <2> QED BY <1>0, <2>1, <2>2, <2>3 DEF TypeOK, Spendings, Counts, HandlersTyped
<1>10. CASE UNCHANGED vars
    BY <1>10 DEF vars, engineState, cluster, TypeOK, Processor!ProcessorTypeOK
<1> QED BY <1>1, <1>2, <1>3, <1>4, <1>5, <1>6, <1>7, <1>8, <1>9, <1>10 DEF Next, Step

-----------------------------------------------------------------------------
(* Creation times: a new event is no earlier than any other.               *)
LEMMA EventFields ==
    ASSUME NEW e \in AlertEvents
    PROVE  /\ e.created \in Nat /\ e.name \in Nat /\ e.target \in FiledNames
           /\ e.status \in {"firing", "resolved"} /\ e.affected \in SUBSET Nodes
BY DEF AlertEvents

(* The four fields of a new event that something reads.                    *)
LEMMA NewEvent ==
    ASSUME NEW h, NEW time
    PROVE  /\ Event(h, time).name = handlers[h].name
           /\ Event(h, time).target = FiledAs(h)
           /\ Event(h, time).created = time
           /\ Event(h, time).status = "firing"
           /\ Event(h, time).affected = handlers[h].affected
BY DEF Event

LEMMA StillEvents ==
    ASSUME [Next]_vars
    PROVE  \/ \E h \in Handlers : Create(h) \/ Update(h)
           \/ UNCHANGED <<events, second>>
BY DEF Next, Step, Submit, RecordFailure, Decide, GenerateReport, List, ApiError, Restart,
       Cleanup, vars, cluster

LEMMA LaterFromAll ==
    ASSUME NEW n \in AlertEvents, NEW S \in SUBSET AlertEvents,
           \A f \in S : f.created <= n.created,
           S # {} => \E e \in S : \A f \in S : Later(e, f)
    PROVE  \E e \in S \cup {n} : \A f \in S \cup {n} : Later(e, f)
<1>1. \A f \in S \cup {n} : f.created \in Nat /\ f.name \in Nat
    BY EventFields
<1>2. CASE S = {}
    BY <1>1, <1>2 DEF Later
<1>3. CASE S # {}
    <2>1. PICK e \in S : \A f \in S : Later(e, f)
        BY <1>3
    <2>2. CASE Later(e, n)
        <3>1. \A f \in S \cup {n} : Later(e, f)
            BY <2>1, <2>2
        <3> QED BY <3>1
    <2>3. CASE ~Later(e, n)
        <3>0. /\ e.created \in Nat /\ e.name \in Nat /\ n.created \in Nat /\ n.name \in Nat
              /\ e.created <= n.created
            BY <1>1
        <3>1. n.created > e.created \/ (e.created = n.created /\ n.name < e.name)
            BY <2>3, <3>0 DEF Later
        <3>2. ASSUME NEW f \in S PROVE Later(n, f)
            <4>1. Later(e, f)
                BY <2>1
            <4> QED BY <1>1, <2>1, <3>1, <4>1 DEF Later
        <3>3. Later(n, n)
            BY <1>1 DEF Later
        <3>4. \A f \in S \cup {n} : Later(n, f)
            BY <3>2, <3>3
        <3> QED BY <3>4
    <2> QED BY <2>2, <2>3
<1> QED BY <1>2, <1>3

LEMMA StampedStep == TypeOK /\ Stamped /\ [Next]_vars => Stamped'
<1> SUFFICES ASSUME TypeOK, Stamped, [Next]_vars PROVE Stamped'
    OBVIOUS
<1>0. /\ HandlersTyped /\ events \subseteq AlertEvents /\ second \in Nat
      /\ \A e \in events : e.created \in Nat /\ e.created <= second
    BY EventFields DEF TypeOK, HandlersTyped, Stamped
<1>1. ASSUME NEW h \in Handlers, Create(h)
      PROVE  Stamped'
    <2>1. PICK gap \in CreationGaps :
              /\ gap \in Nat /\ second' = second + gap
              /\ Event(h, second + gap) \in AlertEvents
              /\ events' = events \cup {Event(h, second + gap)}
        BY <1>1, CreateDoes
    <2> DEFINE n == Event(h, second + gap)
    <2>2. n.created = second + gap /\ second + gap \in Nat
        BY <1>0, <2>1, NewEvent
    <2> HIDE DEF n
    <2>3. \A e \in events' : e.created <= second'
        BY <1>0, <2>1, <2>2 DEF n
    <2>4. ASSUME NEW t \in FiledNames, n.target # t
          PROVE  HasLatest(t)'
        <3>1. EventsOf(t)' = EventsOf(t)
            BY <2>1, <2>4 DEF n, EventsOf
        <3> QED BY <3>1 DEF HasLatest, Stamped
    <2>5. ASSUME NEW t \in FiledNames, n.target = t
          PROVE  HasLatest(t)'
        <3>1. EventsOf(t)' = EventsOf(t) \cup {n}
            BY <2>1, <2>5 DEF n, EventsOf
        <3>2. EventsOf(t) \in SUBSET AlertEvents /\ \A f \in EventsOf(t) : f.created <= n.created
            BY <1>0, <2>1, <2>2 DEF EventsOf
        <3>3. EventsOf(t) # {} => \E e \in EventsOf(t) : \A f \in EventsOf(t) : Later(e, f)
            BY DEF Stamped, HasLatest
        <3>4. n \in AlertEvents
            BY <2>1 DEF n
        <3>5. \E e \in EventsOf(t) \cup {n} : \A f \in EventsOf(t) \cup {n} : Later(e, f)
            BY <3>2, <3>3, <3>4, LaterFromAll
        <3> QED BY <3>1, <3>5 DEF HasLatest, Later
    <2> QED BY <2>3, <2>4, <2>5 DEF Stamped
<1>2. ASSUME NEW h \in Handlers, Update(h)
      PROVE  Stamped'
    <2> DEFINE e == handlers[h].latest
    <2>1. second' = second
        BY <1>2 DEF Update
    <2>2. CASE events' = events
        BY <2>1, <2>2 DEF Stamped, HasLatest, EventsOf
    <2>3. CASE e \in events /\ events' = (events \ {e}) \cup {Resolved(e)}
        <3>1. /\ Resolved(e).target = e.target
              /\ Resolved(e).created = e.created /\ Resolved(e).name = e.name
            BY <1>0, <2>3, ResolvedIsEvent
        <3>2. \A f \in events' : f.created <= second'
            BY <1>0, <2>1, <2>3, <3>1
        <3>3. ASSUME NEW t \in FiledNames
              PROVE  HasLatest(t)'
            <4>1. CASE e.target # t
                <5>1. EventsOf(t)' = EventsOf(t)
                    BY <2>3, <3>1, <4>1 DEF EventsOf
                <5> QED BY <5>1 DEF HasLatest, Stamped
            <4>2. CASE e.target = t
                <5>1. EventsOf(t)' = (EventsOf(t) \ {e}) \cup {Resolved(e)} /\ e \in EventsOf(t)
                    BY <2>3, <3>1, <4>2 DEF EventsOf
                <5>2. PICK l \in EventsOf(t) : \A f \in EventsOf(t) : Later(l, f)
                    BY <5>1 DEF Stamped, HasLatest
                <5> DEFINE m == IF l = e THEN Resolved(e) ELSE l
                <5>3. m \in EventsOf(t)' /\ m.created = l.created /\ m.name = l.name
                    BY <3>1, <5>1, <5>2
                <5> HIDE DEF m
                <5>4. ASSUME NEW f \in EventsOf(t)'
                      PROVE  Later(m, f)
                    <6>1. Later(l, e) /\ (f \in EventsOf(t) => Later(l, f))
                        BY <5>1, <5>2
                    <6>2. f \in EventsOf(t) \/ (f.created = e.created /\ f.name = e.name)
                        BY <3>1, <5>1, <5>4
                    <6> QED BY <5>3, <6>1, <6>2 DEF Later
                <5> QED BY <5>3, <5>4 DEF HasLatest, Later
            <4> QED BY <4>1, <4>2
        <3> QED BY <3>2, <3>3 DEF Stamped
    <2> QED BY <1>2, <2>2, <2>3, UpdateDoes
<1>3. CASE UNCHANGED <<events, second>>
    BY <1>3 DEF Stamped, HasLatest, EventsOf
<1> QED BY <1>1, <1>2, <1>3, StillEvents

-----------------------------------------------------------------------------
(* What a handler knows while it runs.  A window never becomes empty while *)
(* a handler that has put its failure there is running, and that is the    *)
(* window it reports unless the events are filed under another name.       *)
HandlerSound(h) ==
    LET s == handlers[h] IN
    /\ s.pc = "correlate" => ~s.success
    /\ s.pc = "report" \/ (s.pc = "decide" /\ ~s.success) => failureWindow[s.key] # {}
    /\ s.pc = "create" => /\ s.name <= issued
                          /\ FiledAs(h) = s.key[2] => s.affected # {}
    /\ s.pc = "update" => /\ s.latest \in AlertEvents
                          /\ s.latest.target = FiledAs(h) /\ s.latest.status = "firing"

Sound == \A h \in Handlers : HandlerSound(h)

(* Whose alerts and recoveries a name stands for.                          *)
Acting(h) == handlers[h].pc \in {"report", "create", "list", "update"}

Accounted ==
    /\ \A h \in Handlers : Acting(h) => handlers[h].key[2] \in decided[FiledAs(h)].by
    /\ \A k \in Keys : targetStates[k].IsAlerting => k[2] \in decided[Filed[k[2]]].by

(* No two events, created or about to be, share a name; those of a target  *)
(* that is filed under its own name, alone, name nodes.                    *)
Creating(h) == handlers[h].pc = "create"

Explained(e) ==
    e.status = "firing" /\ decided[e.target].by \subseteq {e.target} => e.affected # {}

Named ==
    /\ \A e \in events : e.name <= issued /\ Explained(e)
    /\ \A h \in Handlers : Creating(h) => \A e \in events : e.name # handlers[h].name
    /\ \A h, g \in Handlers :
           Creating(h) /\ Creating(g) /\ handlers[h].name = handlers[g].name => h = g

(* A handler that moves nowhere special, or stays, and a window no smaller.*)
LEMMA SoundWhenStill ==
    ASSUME TypeOK, Sound, NEW h \in Handlers, handlers'[h] = handlers[h],
           failureWindow'[handlers[h].key] = failureWindow[handlers[h].key]
              \/ failureWindow'[handlers[h].key] # {},
           issued' = issued \/ issued' = issued + 1
    PROVE  HandlerSound(h)'
<1>1. HandlerSound(h) /\ issued \in Nat
    BY DEF Sound, TypeOK
<1>2. handlers[h].pc = "create" => handlers[h].name \in Nat
    BY HandlerFields DEF TypeOK, HandlersTyped
<1> QED BY <1>1, <1>2 DEF HandlerSound, FiledAs

LEMMA SoundStep == TypeOK /\ Stamped /\ Sound /\ [Next]_vars => Sound'
<1> SUFFICES ASSUME TypeOK, Stamped, Sound, [Next]_vars, NEW g \in Handlers
             PROVE  HandlerSound(g)'
    BY DEF Sound
<1>0. /\ HandlersTyped /\ issued \in Nat /\ failureWindow \in [Keys -> SUBSET Nodes]
      /\ handlers[g].key \in Keys
      /\ \A h \in Handlers : HandlerSound(h) /\ HasLatest(FiledAs(h))
    BY HandlerFields DEF TypeOK, HandlersTyped, Sound, Stamped
<1>1. ASSUME NEW h \in Handlers, Submit(h)
      PROVE  HandlerSound(g)'
    <2>1. UNCHANGED <<failureWindow, issued>>
        BY <1>1 DEF Submit
    <2> QED BY <1>1, <2>1, SubmitDoes, SoundWhenStill DEF HandlerSound
<1>2. ASSUME NEW h \in Handlers, RecordFailure(h)
      PROVE  HandlerSound(g)'
    <2>1. issued' = issued
        BY <1>2 DEF RecordFailure
    <2>2. CASE g = h
        BY <1>2, <2>2, RecordDoes DEF HandlerSound, Moves
    <2>3. CASE g # h
        BY <1>0, <1>2, <2>1, <2>3, RecordDoes, SoundWhenStill DEF Moves
    <2> QED BY <2>2, <2>3
<1>3. ASSUME NEW h \in Handlers, Decide(h)
      PROVE  HandlerSound(g)'
    <2>1. UNCHANGED <<failureWindow, issued>>
        BY <1>3 DEF Decide
    <2>2. CASE g # h
        BY <1>0, <1>3, <2>1, <2>2, DecideDoes, SoundWhenStill DEF Moves
    <2>3. CASE g = h
        <3>1. PICK decision \in Engine!Decisions :
                  /\ Engine!ProcessResult(handlers[h].key, handlers[h].success, decision)
                  /\ \/ decision = "none" /\ Moves(h, "idle")
                     \/ decision = "alert" /\ Moves(h, "report")
                     \/ decision = "resolve" /\ Moves(h, "list")
            BY <1>3, DecideDoes
        <3>2. handlers[h].key \in Keys /\ handlers[h].success \in BOOLEAN
            BY <1>0, HandlerFields
        <3>3. decision = "alert" => ~handlers[h].success
            BY <3>1, <3>2, ResultDecides DEF TypeOK
        <3>4. handlers[h].pc = "decide" /\ HandlerSound(h)
            BY <1>0, <1>3 DEF Decide
        <3> QED BY <2>1, <2>3, <3>1, <3>3, <3>4 DEF Moves, HandlerSound
    <2> QED BY <2>2, <2>3
<1>4. ASSUME NEW h \in Handlers, GenerateReport(h)
      PROVE  HandlerSound(g)'
    <2>1. failureWindow' = failureWindow /\ issued' = issued + 1
        BY <1>4 DEF GenerateReport, engineState
    <2>2. CASE g # h
        BY <1>0, <1>4, <2>1, <2>2, ReportDoes, SoundWhenStill DEF Moves
    <2>3. CASE g = h
        BY <1>0, <1>4, <2>1, <2>3, ReportDoes DEF Moves, HandlerSound, FiledAs
    <2> QED BY <2>2, <2>3
<1>5. ASSUME NEW h \in Handlers, Create(h) \/ Update(h) \/ ApiError(h)
      PROVE  HandlerSound(g)'
    <2>1. UNCHANGED <<failureWindow, issued>> /\ Moves(h, "idle")
        BY <1>5, CreateDoes, UpdateDoes, ErrorDoes DEF Create, Update, ApiError, engineState
    <2> QED BY <1>0, <2>1, SoundWhenStill DEF Moves, HandlerSound
<1>6. ASSUME NEW h \in Handlers, List(h)
      PROVE  HandlerSound(g)'
    <2>1. UNCHANGED <<failureWindow, issued>>
        BY <1>6 DEF List, engineState
    <2>2. CASE g # h
        BY <1>0, <1>6, <2>1, <2>2, ListDoes, SoundWhenStill DEF Moves
    <2>3. CASE g = h
        <3>1. \/ Moves(h, "idle")
              \/ /\ Moves(h, "update")
                 /\ handlers'[h].latest = Latest(EventsOf(FiledAs(h)))
                 /\ Latest(EventsOf(FiledAs(h))) \in EventsOf(FiledAs(h))
                 /\ Latest(EventsOf(FiledAs(h))).status = "firing"
            BY <1>0, <1>6, ListDoes
        <3>2. \A e \in EventsOf(FiledAs(h)) :
                  e \in AlertEvents /\ e.target = FiledAs(h)
            BY DEF EventsOf, TypeOK
        <3> QED BY <2>3, <3>1, <3>2 DEF Moves, HandlerSound, FiledAs
    <2> QED BY <2>2, <2>3
<1>7. ASSUME NEW r \in Replicas, Restart(r)
      PROVE  HandlerSound(g)'
    <2>1. CASE handlers'[g].pc = "idle"
        BY <2>1 DEF HandlerSound
    <2>2. CASE handlers'[g] = handlers[g] /\ handlers[g].key[1] # r
        <3>1. failureWindow'[handlers[g].key] = failureWindow[handlers[g].key]
            BY <1>0, <1>7, <2>2 DEF Restart
        <3> QED BY <1>7, <2>2, <3>1, SoundWhenStill, RestartDoes
    <2> QED BY <1>7, <2>1, <2>2, RestartDoes
<1>8. CASE Cleanup \/ UNCHANGED vars
    <2>1. UNCHANGED <<handlers, failureWindow, issued>>
        BY <1>8 DEF Cleanup, vars, engineState
    <2> QED BY <2>1, SoundWhenStill
<1> QED BY <1>1, <1>2, <1>3, <1>4, <1>5, <1>6, <1>7, <1>8 DEF Next, Step

(* A name stands for no fewer targets, and for one more only when a handler *)
(* decides.                                                                *)
LEMMA OnlyDecisions ==
    ASSUME [Next]_vars, \A h \in Handlers : ~Decide(h)
    PROVE  decided' = decided
BY DEF Next, Step, Submit, RecordFailure, GenerateReport, Create, List, Update, ApiError,
       Restart, Cleanup, vars

LEMMA DecidersAdd ==
    ASSUME TypeOK, NEW h \in Handlers, Decide(h)
    PROVE  /\ \A t \in FiledNames : decided[t].by \subseteq decided'[t].by
           /\ \/ Moves(h, "idle")
              \/ /\ Moves(h, "report") \/ Moves(h, "list")
                 /\ handlers[h].key[2] \in decided'[FiledAs(h)].by
           /\ \A k \in Keys : targetStates'[k].IsAlerting =>
                  targetStates[k].IsAlerting \/ k[2] \in decided'[Filed[k[2]]].by
<1>0. /\ HandlersTyped /\ decided \in [FiledNames -> Counts]
      /\ targetStates \in [Keys -> Engine!TargetState]
      /\ handlers[h].key \in Keys /\ handlers[h].success \in BOOLEAN
    BY HandlerFields DEF TypeOK, HandlersTyped, Counts
<1>1. PICK decision \in Engine!Decisions :
          /\ Engine!ProcessResult(handlers[h].key, handlers[h].success, decision)
          /\ \/ decision = "none" /\ Moves(h, "idle") /\ UNCHANGED decided
             \/ decision = "alert" /\ Moves(h, "report") /\ Decided(h, "alert")
             \/ decision = "resolve" /\ Moves(h, "list") /\ Decided(h, "resolve")
    BY DecideDoes
<1>2. /\ \A j \in Keys \ {handlers[h].key} : targetStates'[j] = targetStates[j]
      /\ targetStates'[handlers[h].key].IsAlerting =>
             targetStates[handlers[h].key].IsAlerting \/ decision = "alert"
    BY <1>0, <1>1, ResultDecides
<1>3. CASE decision = "none" /\ Moves(h, "idle") /\ UNCHANGED decided
    BY <1>2, <1>3
<1>4. CASE \/ decision = "alert" /\ Moves(h, "report") /\ Decided(h, "alert")
           \/ decision = "resolve" /\ Moves(h, "list") /\ Decided(h, "resolve")
    <2>1. /\ \A t \in FiledNames \ {FiledAs(h)} : decided'[t] = decided[t]
          /\ decided'[FiledAs(h)].by = decided[FiledAs(h)].by \cup {handlers[h].key[2]}
        BY <1>0, <1>4, DecidedAdds
    <2> QED BY <1>2, <1>4, <2>1 DEF FiledAs
<1> QED BY <1>1, <1>3, <1>4

LEMMA AccountsGrow ==
    ASSUME TypeOK, [Next]_vars, NEW t \in FiledNames
    PROVE  decided[t].by \subseteq decided'[t].by
BY OnlyDecisions, DecidersAdd

(* Every other step leaves the handlers that act and the targets that are  *)
(* alerting among those there were.                                        *)
LEMMA OthersAct ==
    ASSUME TypeOK, Stamped, [Next]_vars, \A h \in Handlers : ~Decide(h)
    PROVE  /\ \A h \in Handlers :
                 Acting(h)' => Acting(h) /\ handlers'[h].key = handlers[h].key
           /\ \A k \in Keys : targetStates'[k].IsAlerting => targetStates[k].IsAlerting
<1>0. HandlersTyped /\ \A h \in Handlers : HasLatest(FiledAs(h))
    BY HandlerFields DEF TypeOK, HandlersTyped, Stamped
<1>1. ASSUME NEW h \in Handlers, Submit(h)
      PROVE  \A g \in Handlers :
                 Acting(g)' => Acting(g) /\ handlers'[g].key = handlers[g].key
    BY <1>1, SubmitDoes DEF Acting
<1>2. ASSUME NEW h \in Handlers,
             RecordFailure(h) \/ GenerateReport(h) \/ Create(h) \/ List(h) \/ Update(h)
               \/ ApiError(h)
      PROVE  \A g \in Handlers :
                 Acting(g)' => Acting(g) /\ handlers'[g].key = handlers[g].key
    <2>1. \/ Moves(h, "decide") \/ Moves(h, "idle")
          \/ (Moves(h, "create") \/ Moves(h, "update")) /\ Acting(h)
        BY <1>0, <1>2, RecordDoes, ReportDoes, CreateDoes, ListDoes, UpdateDoes, ErrorDoes
           DEF Acting
    <2> QED BY <2>1 DEF Moves, Acting
<1>3. ASSUME NEW r \in Replicas, Restart(r)
      PROVE  /\ \A g \in Handlers :
                    Acting(g)' => Acting(g) /\ handlers'[g].key = handlers[g].key
             /\ \A k \in Keys : targetStates'[k].IsAlerting => targetStates[k].IsAlerting
    <2>1. ~Engine!NewTargetState.IsAlerting
        BY DEF Engine!NewTargetState, Engine!State
    <2> QED BY <1>3, <2>1, RestartDoes DEF Restart, Acting
<1>4. CASE Cleanup \/ UNCHANGED vars
    BY <1>4 DEF Cleanup, vars, Acting, engineState
<1>5. (\A r \in Replicas : ~Restart(r)) => targetStates' = targetStates
    BY DEF Next, Step, Submit, RecordFailure, GenerateReport, Create, List, Update, ApiError,
           Cleanup, vars, engineState
<1> QED BY <1>1, <1>2, <1>3, <1>4, <1>5 DEF Next, Step

LEMMA AccountedStep == TypeOK /\ Stamped /\ Accounted /\ [Next]_vars => Accounted'
<1> SUFFICES ASSUME TypeOK, Stamped, Accounted, [Next]_vars PROVE Accounted'
    OBVIOUS
<1>0. /\ \A t \in FiledNames : decided[t].by \subseteq decided'[t].by
      /\ \A h \in Handlers : FiledAs(h) \in FiledNames
      /\ \A k \in Keys : Filed[k[2]] \in FiledNames
    BY AccountsGrow, HandlerFields, KeyParts DEF TypeOK, HandlersTyped
<1>1. ASSUME NEW h \in Handlers, Decide(h)
      PROVE  Accounted'
    <2>1. \/ Moves(h, "idle")
          \/ /\ Moves(h, "report") \/ Moves(h, "list")
             /\ handlers[h].key[2] \in decided'[FiledAs(h)].by
        BY <1>1, DecidersAdd
    <2>2. ASSUME NEW g \in Handlers, Acting(g)'
          PROVE  handlers'[g].key[2] \in decided'[Filed[handlers'[g].key[2]]].by
        <3>1. CASE g = h
            BY <2>1, <2>2, <3>1 DEF Moves, Acting, FiledAs
        <3>2. CASE g # h
            <4>1. handlers'[g] = handlers[g]
                BY <2>1, <3>2 DEF Moves
            <4>2. handlers[g].key[2] \in decided[FiledAs(g)].by
                BY <2>2, <4>1 DEF Acting, Accounted
            <4> QED BY <1>0, <4>1, <4>2 DEF FiledAs
        <3> QED BY <3>1, <3>2
    <2>3. \A k \in Keys : targetStates'[k].IsAlerting => k[2] \in decided'[Filed[k[2]]].by
        BY <1>0, <1>1, DecidersAdd DEF Accounted
    <2> QED BY <2>2, <2>3 DEF Accounted, FiledAs
<1>2. CASE \A h \in Handlers : ~Decide(h)
    BY <1>0, <1>2, OthersAct DEF Accounted, FiledAs
<1> QED BY <1>1, <1>2

(* A step that leaves the events alone, and makes no handler one that is   *)
(* about to create an event.                                               *)
LEMMA NamedWhenStill ==
    ASSUME TypeOK, Named, UNCHANGED <<events, issued>>,
           \A t \in FiledNames : decided[t].by \subseteq decided'[t].by,
           \A g \in Handlers : handlers'[g] = handlers[g] \/ handlers'[g].pc # "create"
    PROVE  Named'
<1>1. \A e \in events : e.target \in FiledNames
    BY EventFields DEF TypeOK
<1>2. \A e \in events : Explained(e) => Explained(e)'
    BY <1>1 DEF Explained
<1> QED BY <1>2 DEF Named, Creating

LEMMA NamedStep ==
    TypeOK /\ Stamped /\ Sound /\ Accounted /\ Named /\ [Next]_vars => Named'
<1> SUFFICES ASSUME TypeOK, Stamped, Sound, Accounted, Named, [Next]_vars PROVE Named'
    OBVIOUS
<1>00. \A t \in FiledNames : decided[t].by \subseteq decided'[t].by
    BY AccountsGrow
<1>0. /\ HandlersTyped /\ events \subseteq AlertEvents /\ issued \in Nat
      /\ \A h \in Handlers : HandlerSound(h) /\ HasLatest(FiledAs(h))
      /\ \A h \in Handlers : handlers[h].name \in Nat
      /\ \A e \in events : e.name \in Nat
    BY HandlerFields, EventFields DEF TypeOK, HandlersTyped, Sound, Stamped
<1>1. ASSUME NEW h \in Handlers, Submit(h)
      PROVE  Named'
    <2>1. UNCHANGED <<events, issued>>
        BY <1>1 DEF Submit, cluster
    <2>2. \A g \in Handlers : handlers'[g] = handlers[g] \/ handlers'[g].pc # "create"
        BY <1>1, SubmitDoes
    <2> QED BY <2>1, <2>2, <1>00, NamedWhenStill
<1>2. ASSUME NEW h \in Handlers, RecordFailure(h) \/ Decide(h) \/ List(h) \/ ApiError(h)
      PROVE  Named'
    <2>1. UNCHANGED <<events, issued>>
        BY <1>2 DEF RecordFailure, Decide, List, ApiError, cluster
    <2>2. \A g \in Handlers : handlers'[g] = handlers[g] \/ handlers'[g].pc # "create"
        BY <1>0, <1>2, RecordDoes, DecideDoes, ListDoes, ErrorDoes DEF Moves
    <2> QED BY <2>1, <2>2, <1>00, NamedWhenStill
<1>3. ASSUME NEW h \in Handlers, GenerateReport(h)
      PROVE  Named'
    <2>1. events' = events /\ issued' = issued + 1
        BY <1>3 DEF GenerateReport, cluster
    <2>2. /\ handlers'[h].name = issued + 1
          /\ \A g \in Handlers \ {h} : handlers'[g] = handlers[g]
        BY <1>3, ReportDoes DEF Moves
    <2>3. \A e \in events : e.name <= issued /\ e.name # issued + 1
        BY <1>0 DEF Named
    <2>4. ASSUME NEW g \in Handlers, g # h, Creating(g)'
          PROVE  /\ handlers'[g].name # issued + 1 /\ Creating(g)
                 /\ handlers'[g].name = handlers[g].name
        <3>1. Creating(g) /\ handlers'[g] = handlers[g]
            BY <2>2, <2>4 DEF Creating
        <3>2. handlers[g].name <= issued /\ handlers[g].name \in Nat
            BY <1>0, <3>1 DEF HandlerSound, Creating
        <3> QED BY <1>0, <3>1, <3>2
    <2>50. decided' = decided
        BY <1>3 DEF GenerateReport
    <2>5. \A e \in events' : e.name <= issued' /\ Explained(e)'
        BY <1>0, <2>1, <2>3, <2>50 DEF Named, Explained
    <2>6. \A g \in Handlers : Creating(g)' => \A e \in events' : e.name # handlers'[g].name
        BY <2>1, <2>2, <2>3, <2>4 DEF Named
    <2>7. \A g, f \in Handlers :
              Creating(g)' /\ Creating(f)' /\ handlers'[g].name = handlers'[f].name => g = f
        BY <2>2, <2>4 DEF Named
    <2> QED BY <2>5, <2>6, <2>7 DEF Named
<1>4. ASSUME NEW h \in Handlers, Create(h)
      PROVE  Named'
    <2>1. PICK gap \in CreationGaps : events' = events \cup {Event(h, second + gap)}
        BY <1>4, CreateDoes
    <2>2. issued' = issued /\ Creating(h) /\ ~Creating(h)'
          /\ \A g \in Handlers \ {h} : handlers'[g] = handlers[g]
        BY <1>4, CreateDoes DEF Create, Creating, Moves
    <2> DEFINE n == Event(h, second + gap)
    <2>3. /\ n.name = handlers[h].name /\ n.affected = handlers[h].affected
          /\ n.target = FiledAs(h)
        BY NewEvent
    <2>4. n.name <= issued /\ (FiledAs(h) = handlers[h].key[2] => n.affected # {})
        BY <1>0, <2>2, <2>3 DEF HandlerSound, Creating
    <2>40. handlers[h].key[2] \in decided[FiledAs(h)].by /\ decided' = decided
        BY <1>4, <2>2 DEF Accounted, Acting, Creating, Create
    <2> HIDE DEF n
    <2>41. Explained(n)
        BY <2>3, <2>4, <2>40 DEF Explained
    <2>5. \A e \in events' : e.name <= issued' /\ Explained(e)'
        BY <2>1, <2>2, <2>4, <2>40, <2>41 DEF Named, Explained, n
    <2>6. ASSUME NEW g \in Handlers, Creating(g)'
          PROVE  g # h /\ Creating(g) /\ handlers'[g].name = handlers[g].name
        BY <2>2, <2>6 DEF Creating
    <2>7. ASSUME NEW g \in Handlers, Creating(g)', NEW e \in events'
          PROVE  e.name # handlers'[g].name
        BY <2>1, <2>2, <2>3, <2>6, <2>7 DEF Named, n
    <2> QED BY <2>5, <2>6, <2>7 DEF Named
<1>5. ASSUME NEW h \in Handlers, Update(h)
      PROVE  Named'
    <2> DEFINE e == handlers[h].latest
    <2>1. Moves(h, "idle") /\ issued' = issued
        BY <1>5, UpdateDoes DEF Update
    <2>2. \A g \in Handlers : handlers'[g] = handlers[g] \/ handlers'[g].pc # "create"
        BY <2>1 DEF Moves
    <2>3. CASE events' = events
        BY <2>1, <2>2, <2>3, <1>00, NamedWhenStill
    <2>4. CASE e \in events /\ events' = (events \ {e}) \cup {Resolved(e)}
        <3>1. Resolved(e).name = e.name /\ Resolved(e).status = "resolved"
            BY <1>0, <2>4, ResolvedIsEvent
        <3>20. decided' = decided
            BY <1>5 DEF Update
        <3>2. \A f \in events' : f.name <= issued' /\ Explained(f)'
            BY <2>1, <2>4, <3>1, <3>20 DEF Named, Explained
        <3>3. \A g \in Handlers : Creating(g)' => Creating(g) /\ handlers'[g] = handlers[g]
            BY <2>2 DEF Creating
        <3>4. \A g \in Handlers : Creating(g)' => \A f \in events' : f.name # handlers'[g].name
            BY <2>4, <3>1, <3>3 DEF Named
        <3> QED BY <3>2, <3>3, <3>4 DEF Named
    <2> QED BY <1>5, <2>3, <2>4, UpdateDoes
<1>6. ASSUME NEW r \in Replicas, Restart(r)
      PROVE  Named'
    <2>1. UNCHANGED <<events, issued>>
        BY <1>6 DEF Restart, cluster
    <2>2. \A g \in Handlers : handlers'[g] = handlers[g] \/ handlers'[g].pc # "create"
        BY <1>6, RestartDoes
    <2> QED BY <2>1, <2>2, <1>00, NamedWhenStill
<1>7. CASE Cleanup \/ UNCHANGED vars
    <2>1. UNCHANGED <<events, issued, handlers>>
        BY <1>7 DEF Cleanup, vars, cluster
    <2> QED BY <2>1, <1>00, NamedWhenStill
<1> QED BY <1>1, <1>2, <1>3, <1>4, <1>5, <1>6, <1>7 DEF Next, Step

-----------------------------------------------------------------------------
(* Counting.  The handlers that are going to create or to resolve an event *)
(* of a name, and the replicas and targets that are alerting under it.     *)
Raising(t) ==
    {h \in Handlers : handlers[h].pc \in {"report", "create"} /\ FiledAs(h) = t}

Resolving(t) ==
    {h \in Handlers : handlers[h].pc \in {"list", "update"} /\ FiledAs(h) = t}

AlertingAt(t) == {k \in Keys : Filed[k[2]] = t /\ targetStates[k].IsAlerting}

(* How a step changes the sets of one name; there is no other way.         *)
Unconcerned(t) ==
    /\ UNCHANGED <<Raising(t), Resolving(t), AlertingAt(t), EventsOf(t)>>
    /\ decided'[t] = decided[t]

Abandons(t) ==
    /\ Raising(t)' \subseteq Raising(t) /\ Resolving(t)' \subseteq Resolving(t)
    /\ AlertingAt(t)' \subseteq AlertingAt(t)
    /\ EventsOf(t)' = EventsOf(t) /\ decided'[t] = decided[t]
    /\ ~Undisturbed'

Alerts(t, h, k) ==
    /\ handlers[h].pc = "decide" /\ handlers[h].key = k
    /\ h \notin Raising(t) /\ Raising(t)' = Raising(t) \cup {h}
    /\ k \notin AlertingAt(t) /\ AlertingAt(t)' = AlertingAt(t) \cup {k}
    /\ decided'[t].alert = decided[t].alert + 1
    /\ decided'[t].resolve = decided[t].resolve
    /\ Resolving(t)' = Resolving(t) /\ EventsOf(t)' = EventsOf(t)

Recovers(t, h, k) ==
    /\ handlers[h].pc = "decide" /\ handlers[h].key = k
    /\ h \notin Resolving(t) /\ Resolving(t)' = Resolving(t) \cup {h}
    /\ k \in AlertingAt(t) /\ AlertingAt(t)' = AlertingAt(t) \ {k}
    /\ decided'[t].resolve = decided[t].resolve + 1
    /\ decided'[t].alert = decided[t].alert
    /\ Raising(t)' = Raising(t) /\ EventsOf(t)' = EventsOf(t)

Creates(t, h, e) ==
    /\ h \in Raising(t) /\ Raising(t)' = Raising(t) \ {h}
    /\ e \notin EventsOf(t) /\ EventsOf(t)' = EventsOf(t) \cup {e} /\ e.status = "firing"
    /\ serial' => \A f \in EventsOf(t) : f.created < e.created
    /\ UNCHANGED <<Resolving(t), AlertingAt(t)>> /\ decided'[t] = decided[t]

Skips(t, h) ==
    /\ \/ handlers[h].pc = "list"
          /\ (EventsOf(t) = {} \/ Latest(EventsOf(t)).status = "resolved")
       \/ handlers[h].pc = "update" /\ handlers[h].latest \notin events
    /\ h \in Resolving(t) /\ Resolving(t)' = Resolving(t) \ {h}
    /\ UNCHANGED <<Raising(t), AlertingAt(t), EventsOf(t)>> /\ decided'[t] = decided[t]

Resolves(t, h, e) ==
    /\ h \in Resolving(t) /\ Resolving(t)' = Resolving(t) \ {h}
    /\ e \in EventsOf(t) /\ e.status = "firing"
    /\ EventsOf(t)' = (EventsOf(t) \ {e}) \cup {Resolved(e)}
    /\ Resolved(e).status = "resolved"
    /\ UNCHANGED <<Raising(t), AlertingAt(t)>> /\ decided'[t] = decided[t]

ToRaise == {"report", "create"}
ToResolve == {"list", "update"}

LEMMA MovesSets ==
    ASSUME HandlersTyped, NEW h \in Handlers, NEW pc, Moves(h, pc), NEW t
    PROVE  /\ FiledAs(h) # t => UNCHANGED <<Raising(t), Resolving(t)>>
           /\ (handlers[h].pc \in ToRaise <=> pc \in ToRaise) => Raising(t)' = Raising(t)
           /\ (handlers[h].pc \in ToResolve <=> pc \in ToResolve) => Resolving(t)' = Resolving(t)
           /\ pc \in ToRaise /\ FiledAs(h) = t => Raising(t)' = Raising(t) \cup {h}
           /\ pc \in ToResolve /\ FiledAs(h) = t => Resolving(t)' = Resolving(t) \cup {h}
           /\ pc \notin ToRaise => Raising(t)' = Raising(t) \ {h}
           /\ pc \notin ToResolve => Resolving(t)' = Resolving(t) \ {h}
<1>1. ASSUME NEW g \in Handlers, g # h
      PROVE  (g \in Raising(t)' <=> g \in Raising(t)) /\ (g \in Resolving(t)' <=> g \in Resolving(t))
    BY <1>1 DEF Moves, Raising, Resolving, FiledAs
<1>2. /\ h \in Raising(t)' <=> pc \in ToRaise /\ FiledAs(h) = t
      /\ h \in Resolving(t)' <=> pc \in ToResolve /\ FiledAs(h) = t
      /\ h \in Raising(t) <=> handlers[h].pc \in ToRaise /\ FiledAs(h) = t
      /\ h \in Resolving(t) <=> handlers[h].pc \in ToResolve /\ FiledAs(h) = t
    BY DEF Moves, Raising, Resolving, ToRaise, ToResolve, FiledAs
<1>3. /\ Raising(t) \subseteq Handlers /\ Raising(t)' \subseteq Handlers
      /\ Resolving(t) \subseteq Handlers /\ Resolving(t)' \subseteq Handlers
    BY DEF Raising, Resolving
<1> QED BY <1>1, <1>2, <1>3

LEMMA InSets ==
    ASSUME NEW h \in Handlers, NEW t
    PROVE  /\ h \in Raising(t) <=> handlers[h].pc \in {"report", "create"} /\ FiledAs(h) = t
           /\ h \in Resolving(t) <=> handlers[h].pc \in {"list", "update"} /\ FiledAs(h) = t
BY DEF Raising, Resolving

LEMMA SetsStep ==
    ASSUME TypeOK, Stamped, Sound, Named, [Next]_vars, NEW t \in FiledNames
    PROVE  \/ Unconcerned(t) \/ Abandons(t)
           \/ \E h \in Handlers, k \in Keys : Alerts(t, h, k) \/ Recovers(t, h, k)
           \/ \E h \in Handlers : Skips(t, h)
           \/ \E h \in Handlers, e \in AlertEvents : Creates(t, h, e) \/ Resolves(t, h, e)
<1>0. /\ HandlersTyped /\ events \subseteq AlertEvents
      /\ targetStates \in [Keys -> Engine!TargetState]
      /\ decided \in [FiledNames -> Counts]
      /\ \A h \in Handlers : HandlerSound(h) /\ HasLatest(FiledAs(h))
    BY HandlerFields DEF TypeOK, HandlersTyped, Sound, Stamped, Counts
<1>1. ASSUME NEW h \in Handlers, Submit(h)
      PROVE  Unconcerned(t)
    <2>1. UNCHANGED <<targetStates, events, decided>>
        BY <1>1 DEF Submit, cluster
    <2>2. /\ handlers[h].pc = "idle" /\ handlers'[h].pc \in {"decide", "correlate"}
          /\ \A g \in Handlers \ {h} : handlers'[g] = handlers[g]
        BY <1>1, SubmitDoes
    <2>3. UNCHANGED <<Raising(t), Resolving(t)>>
        BY <2>2 DEF Raising, Resolving, FiledAs
    <2> QED BY <2>1, <2>3 DEF Unconcerned, AlertingAt, EventsOf
<1>2. ASSUME NEW h \in Handlers, RecordFailure(h)
      PROVE  Unconcerned(t)
    <2>1. UNCHANGED <<targetStates, events, decided>>
        BY <1>2 DEF RecordFailure, cluster
    <2>2. UNCHANGED <<Raising(t), Resolving(t)>>
        BY <1>0, <1>2, RecordDoes, MovesSets, InSets DEF ToRaise, ToResolve
    <2> QED BY <2>1, <2>2 DEF Unconcerned, AlertingAt, EventsOf
<1>3. ASSUME NEW h \in Handlers, Decide(h)
      PROVE  \/ Unconcerned(t)
             \/ \E g \in Handlers, j \in Keys : Alerts(t, g, j) \/ Recovers(t, g, j)
    <2> DEFINE k == handlers[h].key
    <2>1. EventsOf(t)' = EventsOf(t) /\ handlers[h].pc = "decide"
        BY <1>3 DEF Decide, cluster, EventsOf
    <2>2. /\ k \in Keys /\ handlers[h].success \in BOOLEAN
          /\ k[1] \in Replicas /\ k[2] \in Targets /\ k = <<k[1], k[2]>>
        BY <1>0, HandlerFields, KeyParts
    <2>3. PICK decision \in Engine!Decisions :
              /\ Engine!ProcessResult(k, handlers[h].success, decision)
              /\ \/ decision = "none" /\ Moves(h, "idle") /\ UNCHANGED decided
                 \/ /\ decision = "alert" /\ Moves(h, "report")
                    /\ Decided(h, "alert")
                 \/ /\ decision = "resolve" /\ Moves(h, "list")
                    /\ Decided(h, "resolve")
        BY <1>3, DecideDoes
    <2>4. /\ \A j \in Keys \ {k} : targetStates'[j] = targetStates[j]
          /\ \/ /\ decision = "none"
                /\ targetStates'[k].IsAlerting = targetStates[k].IsAlerting
             \/ /\ decision = "alert"
                /\ ~targetStates[k].IsAlerting /\ targetStates'[k].IsAlerting
             \/ /\ decision = "resolve"
                /\ targetStates[k].IsAlerting /\ ~targetStates'[k].IsAlerting
        BY <1>0, <2>2, <2>3, ResultDecides
    <2>5. Filed[k[2]] = FiledAs(h) /\ k \in Keys
        BY <2>2 DEF FiledAs
    <2>50. decision # "none" =>
               /\ \A n \in FiledNames \ {FiledAs(h)} : decided'[n] = decided[n]
               /\ decided'[FiledAs(h)].alert =
                      decided[FiledAs(h)].alert + IF decision = "alert" THEN 1 ELSE 0
               /\ decided'[FiledAs(h)].resolve =
                      decided[FiledAs(h)].resolve + IF decision = "resolve" THEN 1 ELSE 0
        BY <1>0, <2>3, DecidedAdds
    <2>6. h \notin Raising(t) /\ h \notin Resolving(t)
        BY <2>1, InSets
    <2>7. CASE decision = "none"
        <3>1. AlertingAt(t)' = AlertingAt(t)
            BY <2>4, <2>5, <2>7 DEF AlertingAt
        <3>2. UNCHANGED <<Raising(t), Resolving(t), decided>>
            BY <1>0, <2>1, <2>3, <2>7, MovesSets DEF ToRaise, ToResolve
        <3> QED BY <2>1, <3>1, <3>2 DEF Unconcerned
    <2>8. CASE decision # "none" /\ FiledAs(h) # t
        <3>1. AlertingAt(t)' = AlertingAt(t)
            BY <2>4, <2>5, <2>8 DEF AlertingAt
        <3>2. UNCHANGED <<Raising(t), Resolving(t)>>
            BY <1>0, <2>1, <2>3, <2>8, MovesSets DEF ToRaise, ToResolve
        <3>3. decided'[t] = decided[t]
            BY <2>8, <2>50
        <3> QED BY <2>1, <3>1, <3>2, <3>3 DEF Unconcerned
    <2>9. CASE decision = "alert" /\ FiledAs(h) = t
        <3>1. k \notin AlertingAt(t) /\ AlertingAt(t)' = AlertingAt(t) \cup {k}
            BY <2>2, <2>4, <2>5, <2>9 DEF AlertingAt
        <3>2. Raising(t)' = Raising(t) \cup {h} /\ Resolving(t)' = Resolving(t)
            BY <1>0, <2>1, <2>3, <2>9, MovesSets DEF ToRaise, ToResolve
        <3>3. /\ decided'[t].alert = decided[t].alert + 1
              /\ decided'[t].resolve = decided[t].resolve
            BY <1>0, <2>9, <2>50 DEF Counts
        <3> QED BY <2>1, <2>2, <2>6, <2>9, <3>1, <3>2, <3>3 DEF Alerts
    <2>10. CASE decision = "resolve" /\ FiledAs(h) = t
        <3>1. k \in AlertingAt(t) /\ AlertingAt(t)' = AlertingAt(t) \ {k}
            BY <2>2, <2>4, <2>5, <2>10 DEF AlertingAt
        <3>2. Resolving(t)' = Resolving(t) \cup {h} /\ Raising(t)' = Raising(t)
            BY <1>0, <2>1, <2>3, <2>10, MovesSets DEF ToRaise, ToResolve
        <3>3. /\ decided'[t].resolve = decided[t].resolve + 1
              /\ decided'[t].alert = decided[t].alert
            BY <1>0, <2>10, <2>50 DEF Counts
        <3> QED BY <2>1, <2>2, <2>6, <2>10, <3>1, <3>2, <3>3 DEF Recovers
    <2> QED BY <2>3, <2>7, <2>8, <2>9, <2>10
<1>4. ASSUME NEW h \in Handlers, GenerateReport(h)
      PROVE  Unconcerned(t)
    <2>1. UNCHANGED <<targetStates, events, decided>>
        BY <1>4 DEF GenerateReport, cluster, engineState
    <2>2. UNCHANGED <<Raising(t), Resolving(t)>>
        BY <1>0, <1>4, ReportDoes, MovesSets, InSets DEF ToRaise, ToResolve
    <2> QED BY <2>1, <2>2 DEF Unconcerned, AlertingAt, EventsOf
<1>5. ASSUME NEW h \in Handlers, Create(h)
      PROVE  Unconcerned(t) \/ \E g \in Handlers, e \in AlertEvents : Creates(t, g, e)
    <2>1. PICK gap \in CreationGaps :
              /\ gap \in Nat /\ serial' = (serial /\ gap > 0)
              /\ Event(h, second + gap) \in AlertEvents
              /\ events' = events \cup {Event(h, second + gap)}
        BY <1>5, CreateDoes
    <2> DEFINE n == Event(h, second + gap)
    <2>2. UNCHANGED <<AlertingAt(t), decided>> /\ Moves(h, "idle") /\ handlers[h].pc = "create"
        BY <1>5, CreateDoes DEF Create, engineState, AlertingAt
    <2>3. n.name = handlers[h].name /\ n.target = FiledAs(h) /\ n.status = "firing"
        BY NewEvent
    <2>4. n \notin events
        BY <2>2, <2>3 DEF Named, Creating
    <2>40. n.created = second + gap
        BY NewEvent
    <2> HIDE DEF n
    <2>41. serial' => \A f \in EventsOf(t) : f.created < n.created
        <3>1. \A f \in EventsOf(t) : f.created \in Nat /\ f.created <= second
            BY <1>0, EventFields DEF Stamped, EventsOf
        <3>2. second \in Nat
            BY DEF TypeOK
        <3>3. serial' => gap > 0
            BY <2>1, Zenon
        <3>4. ASSUME gap > 0, NEW f \in EventsOf(t)
              PROVE  f.created < n.created
            BY <2>1, <2>40, <3>1, <3>2, <3>4
        <3> QED BY <3>3, <3>4
    <2>5. Resolving(t)' = Resolving(t) /\ Raising(t)' = Raising(t) \ {h}
          /\ (h \in Raising(t) <=> FiledAs(h) = t)
        BY <1>0, <2>2, MovesSets, InSets DEF ToRaise, ToResolve
    <2>6. CASE FiledAs(h) = t
        <3>1. EventsOf(t)' = EventsOf(t) \cup {n} /\ n \notin EventsOf(t)
            BY <2>1, <2>3, <2>4, <2>6 DEF EventsOf, n
        <3>2. n \in AlertEvents
            BY <2>1 DEF n
        <3>3. UNCHANGED <<Resolving(t), AlertingAt(t)>> /\ decided'[t] = decided[t]
            BY <2>2, <2>5
        <3>4. h \in Raising(t) /\ Raising(t)' = Raising(t) \ {h} /\ n.status = "firing"
            BY <2>3, <2>5, <2>6
        <3>5. Creates(t, h, n)
            BY ONLY <2>41, <3>1, <3>3, <3>4 DEF Creates
        <3> QED BY <3>2, <3>5
    <2>7. CASE FiledAs(h) # t
        <3>1. EventsOf(t)' = EventsOf(t)
            BY <2>1, <2>3, <2>7 DEF EventsOf, n
        <3> QED BY <2>2, <2>5, <2>7, <3>1 DEF Unconcerned
    <2> QED BY <2>6, <2>7
<1>6. ASSUME NEW h \in Handlers, List(h)
      PROVE  Unconcerned(t) \/ \E g \in Handlers : Skips(t, g)
    <2>1. UNCHANGED <<AlertingAt(t), EventsOf(t), decided>>
        BY <1>6 DEF List, cluster, engineState, AlertingAt, EventsOf
    <2> DEFINE items == EventsOf(FiledAs(h))
    <2>2. /\ handlers[h].pc = "list"
          /\ \/ Moves(h, "idle") /\ (items = {} \/ Latest(items).status = "resolved")
             \/ Moves(h, "update")
        BY <1>0, <1>6, ListDoes
    <2>3. CASE Moves(h, "update") \/ FiledAs(h) # t
        <3>1. UNCHANGED <<Raising(t), Resolving(t)>>
            BY <1>0, <2>2, <2>3, MovesSets DEF ToRaise, ToResolve
        <3> QED BY <2>1, <3>1 DEF Unconcerned
    <2>4. CASE /\ Moves(h, "idle") /\ FiledAs(h) = t
               /\ items = {} \/ Latest(items).status = "resolved"
        <3>1. /\ Raising(t)' = Raising(t)
              /\ h \in Resolving(t) /\ Resolving(t)' = Resolving(t) \ {h}
            BY <1>0, <2>2, <2>4, MovesSets, InSets DEF ToRaise, ToResolve
        <3> QED BY <2>1, <2>2, <2>4, <3>1 DEF Skips
    <2> QED BY <2>2, <2>3, <2>4
<1>7. ASSUME NEW h \in Handlers, Update(h)
      PROVE  \/ Unconcerned(t) \/ \E g \in Handlers : Skips(t, g)
             \/ \E g \in Handlers, e \in AlertEvents : Resolves(t, g, e)
    <2> DEFINE e == handlers[h].latest
    <2>1. UNCHANGED <<AlertingAt(t), decided>> /\ Moves(h, "idle") /\ handlers[h].pc = "update"
        BY <1>7, UpdateDoes DEF Update, engineState, AlertingAt
    <2>2. Raising(t)' = Raising(t) /\ Resolving(t)' = Resolving(t) \ {h}
          /\ (h \in Resolving(t) <=> FiledAs(h) = t)
        BY <1>0, <2>1, MovesSets, InSets DEF ToRaise, ToResolve
    <2>3. e \in AlertEvents /\ e.target = FiledAs(h) /\ e.status = "firing"
        BY <1>0, <2>1 DEF HandlerSound
    <2>4. Resolved(e).target = e.target /\ Resolved(e).status = "resolved"
        BY <2>3, ResolvedIsEvent
    <2>5. CASE e \notin events /\ events' = events
        <3>1. EventsOf(t)' = EventsOf(t)
            BY <2>5 DEF EventsOf
        <3>2. CASE h \in Resolving(t)
            BY <2>1, <2>2, <2>5, <3>1, <3>2 DEF Skips
        <3>3. CASE h \notin Resolving(t)
            BY <2>1, <2>2, <3>1, <3>3 DEF Unconcerned
        <3> QED BY <3>2, <3>3
    <2>6. CASE e \in events /\ events' = (events \ {e}) \cup {Resolved(e)}
        <3>1. CASE FiledAs(h) = t
            <4>1. EventsOf(t)' = (EventsOf(t) \ {e}) \cup {Resolved(e)} /\ e \in EventsOf(t)
                BY <2>3, <2>4, <2>6, <3>1 DEF EventsOf
            <4>2. Resolves(t, h, e)
                BY <2>1, <2>2, <2>3, <2>4, <3>1, <4>1 DEF Resolves
            <4> QED BY <2>3, <4>2
        <3>2. CASE FiledAs(h) # t
            <4>1. EventsOf(t)' = EventsOf(t)
                BY <2>3, <2>4, <2>6, <3>2 DEF EventsOf
            <4> QED BY <2>1, <2>2, <3>2, <4>1 DEF Unconcerned
        <3> QED BY <3>1, <3>2
    <2> QED BY <1>7, <2>5, <2>6, UpdateDoes
<1>8. ASSUME NEW h \in Handlers, ApiError(h)
      PROVE  Abandons(t)
    <2>1. Moves(h, "idle") /\ spent'.failures > 0
          /\ UNCHANGED <<AlertingAt(t), EventsOf(t), decided>>
        BY <1>8, ErrorDoes DEF engineState, cluster, AlertingAt, EventsOf
    <2>2. Raising(t)' \subseteq Raising(t) /\ Resolving(t)' \subseteq Resolving(t)
        BY <1>0, <2>1, MovesSets DEF ToRaise, ToResolve
    <2>3. ~Undisturbed'
        BY <2>1 DEF Undisturbed
    <2> QED BY <2>1, <2>2, <2>3 DEF Abandons
<1>9. ASSUME NEW r \in Replicas, Restart(r)
      PROVE  Abandons(t)
    <2>1. spent'.restarts > 0 /\ UNCHANGED <<EventsOf(t), decided>>
        BY <1>9, RestartDoes DEF cluster, EventsOf
    <2>2. Raising(t)' \subseteq Raising(t) /\ Resolving(t)' \subseteq Resolving(t)
        BY <1>9, RestartDoes DEF Raising, Resolving, FiledAs
    <2>3. AlertingAt(t)' \subseteq AlertingAt(t)
        <3>1. ~Engine!NewTargetState.IsAlerting
            BY DEF Engine!NewTargetState, Engine!State
        <3> QED BY <1>9, <3>1 DEF Restart, AlertingAt
    <2>4. ~Undisturbed'
        BY <2>1 DEF Undisturbed
    <2> QED BY <2>1, <2>2, <2>3, <2>4 DEF Abandons
<1>10. CASE Cleanup \/ UNCHANGED vars
    <2>1. UNCHANGED <<handlers, targetStates, events, decided>>
        BY <1>10 DEF Cleanup, vars, cluster, engineState
    <2> QED BY <2>1 DEF Unconcerned, Raising, Resolving, AlertingAt, EventsOf, FiledAs
<1> QED BY <1>1, <1>2, <1>3, <1>4, <1>5, <1>6, <1>7, <1>8, <1>9, <1>10 DEF Next, Step

-----------------------------------------------------------------------------
Finite(t) ==
    /\ IsFiniteSet(EventsOf(t)) /\ IsFiniteSet(AlertingAt(t))
    /\ IsFiniteSet(Raising(t)) /\ IsFiniteSet(Resolving(t))

(* An event that exists or is about to be was decided; so was a resolved   *)
(* one.  And as long as nothing failed, an alert that is on has an event   *)
(* that fires, or is about to, that no recovery is about to resolve.       *)
Counted(t) ==
    /\ Cardinality(EventsOf(t)) + Cardinality(Raising(t)) <= decided[t].alert
    /\ Cardinality(Of(t, "resolved")) + Cardinality(Resolving(t)) <= decided[t].resolve
    /\ Undisturbed =>
           Cardinality(AlertingAt(t)) + Cardinality(Resolving(t))
               <= Cardinality(Of(t, "firing")) + Cardinality(Raising(t))

Tallied == \A t \in FiledNames : Finite(t) /\ Counted(t)

LEMMA OfEvents ==
    ASSUME NEW t, NEW status
    PROVE  /\ Of(t, status) = {e \in EventsOf(t) : e.status = status}
           /\ Of(t, status)' = {e \in EventsOf(t)' : e.status = status}
BY DEF Of, EventsOf

LEMMA Sizes ==
    ASSUME NEW t, Finite(t)
    PROVE  /\ Cardinality(EventsOf(t)) \in Nat /\ Cardinality(AlertingAt(t)) \in Nat
           /\ Cardinality(Raising(t)) \in Nat /\ Cardinality(Resolving(t)) \in Nat
           /\ \A status : /\ IsFiniteSet(Of(t, status)) /\ Cardinality(Of(t, status)) \in Nat
<1>1. ASSUME NEW status
      PROVE  IsFiniteSet(Of(t, status)) /\ Cardinality(Of(t, status)) \in Nat
    <2>1. Of(t, status) \subseteq EventsOf(t)
        BY OfEvents
    <2> QED BY <2>1, FS_Subset, FS_CardinalityType DEF Finite
<1> QED BY <1>1, FS_CardinalityType DEF Finite

LEMMA StaysDisturbed ==
    ASSUME TypeOK, [Next]_vars, Undisturbed'
    PROVE  Undisturbed
<1>1. spent \in Spendings
    BY DEF TypeOK, Spendings, Counts
<1>2. \/ spent' = spent
      \/ \E what \in {"results", "failures", "restarts", "cleanups"} : Spend(what)
    BY DEF Next, Step, Submit, RecordFailure, Decide, GenerateReport, Create, List, Update,
           ApiError, Restart, Cleanup, Disturb, vars
<1>3. spent'.failures >= spent.failures /\ spent'.restarts >= spent.restarts
    <2>1. CASE spent' = spent
        BY <1>1, <2>1 DEF Spendings
    <2>2. CASE Spend("results") \/ Spend("failures") \/ Spend("restarts") \/ Spend("cleanups")
        BY <1>1, <2>2 DEF Spend, Spendings
    <2> QED BY <1>2, <2>1, <2>2
<1> QED BY <1>1, <1>3 DEF Undisturbed, Spendings

LEMMA TalliedStep == TypeOK /\ Stamped /\ Sound /\ Named /\ Tallied /\ [Next]_vars => Tallied'
<1> SUFFICES ASSUME TypeOK, Stamped, Sound, Named, Tallied, [Next]_vars, NEW t \in FiledNames
             PROVE  Finite(t)' /\ Counted(t)'
    BY DEF Tallied
<1>0. /\ Finite(t) /\ Counted(t) /\ (Undisturbed' => Undisturbed)
      /\ decided[t].alert \in Nat /\ decided[t].resolve \in Nat
    BY StaysDisturbed DEF Tallied, TypeOK, Counts
<1> DEFINE E == Cardinality(EventsOf(t))
           A == Cardinality(AlertingAt(t))
           C == Cardinality(Raising(t))
           R == Cardinality(Resolving(t))
           F == Cardinality(Of(t, "firing"))
           D == Cardinality(Of(t, "resolved"))
<1>00. /\ E \in Nat /\ A \in Nat /\ C \in Nat /\ R \in Nat /\ F \in Nat /\ D \in Nat
       /\ E + C <= decided[t].alert /\ D + R <= decided[t].resolve
       /\ Undisturbed => A + R <= F + C
    BY <1>0, Sizes DEF Counted
<1>1. ASSUME EventsOf(t)' = EventsOf(t)
      PROVE  E' = E /\ F' = F /\ D' = D
    BY <1>1, OfEvents
<1>2. CASE Unconcerned(t)
    BY <1>0, <1>00, <1>1, <1>2 DEF Unconcerned, Finite, Counted
<1>3. CASE Abandons(t)
    <2>1. /\ IsFiniteSet(Raising(t)') /\ C' <= C /\ C' \in Nat
          /\ IsFiniteSet(Resolving(t)') /\ R' <= R /\ R' \in Nat
          /\ IsFiniteSet(AlertingAt(t)')
        BY <1>0, <1>3, FS_Subset, FS_CardinalityType DEF Abandons, Finite
    <2> QED BY <1>0, <1>00, <1>1, <1>3, <2>1 DEF Abandons, Finite, Counted
<1>4. ASSUME NEW h \in Handlers, NEW k \in Keys, Alerts(t, h, k)
      PROVE  Finite(t)' /\ Counted(t)'
    <2>1. IsFiniteSet(Raising(t)') /\ C' = C + 1
        BY <1>0, <1>4, FS_AddElement DEF Alerts, Finite
    <2>2. IsFiniteSet(AlertingAt(t)') /\ A' = A + 1
        BY <1>0, <1>4, FS_AddElement DEF Alerts, Finite
    <2>3. /\ Resolving(t)' = Resolving(t) /\ EventsOf(t)' = EventsOf(t) /\ R' = R
          /\ decided'[t].alert = decided[t].alert + 1
          /\ decided'[t].resolve = decided[t].resolve
        BY <1>4 DEF Alerts
    <2> QED BY <1>0, <1>00, <1>1, <2>1, <2>2, <2>3 DEF Finite, Counted
<1>5. ASSUME NEW h \in Handlers, NEW k \in Keys, Recovers(t, h, k)
      PROVE  Finite(t)' /\ Counted(t)'
    <2>1. IsFiniteSet(Resolving(t)') /\ R' = R + 1
        BY <1>0, <1>5, FS_AddElement DEF Recovers, Finite
    <2>2. IsFiniteSet(AlertingAt(t)') /\ A' = A - 1
        BY <1>0, <1>5, FS_RemoveElement DEF Recovers, Finite
    <2>3. /\ Raising(t)' = Raising(t) /\ EventsOf(t)' = EventsOf(t) /\ C' = C
          /\ decided'[t].resolve = decided[t].resolve + 1
          /\ decided'[t].alert = decided[t].alert
        BY <1>5 DEF Recovers
    <2> QED BY <1>0, <1>00, <1>1, <2>1, <2>2, <2>3 DEF Finite, Counted
<1>6. ASSUME NEW h \in Handlers, Skips(t, h)
      PROVE  Finite(t)' /\ Counted(t)'
    <2>1. IsFiniteSet(Resolving(t)') /\ R' = R - 1
        BY <1>0, <1>6, FS_RemoveElement DEF Skips, Finite
    <2>2. /\ UNCHANGED <<Raising(t), AlertingAt(t)>> /\ EventsOf(t)' = EventsOf(t)
          /\ C' = C /\ A' = A /\ decided'[t] = decided[t]
        BY <1>6 DEF Skips
    <2> QED BY <1>0, <1>00, <1>1, <2>1, <2>2 DEF Finite, Counted
<1>7. ASSUME NEW h \in Handlers, NEW e \in AlertEvents, Creates(t, h, e)
      PROVE  Finite(t)' /\ Counted(t)'
    <2>1. IsFiniteSet(Raising(t)') /\ C' = C - 1
        BY <1>0, <1>7, FS_RemoveElement DEF Creates, Finite
    <2>2. IsFiniteSet(EventsOf(t)') /\ E' = E + 1
        BY <1>0, <1>7, FS_AddElement DEF Creates, Finite
    <2>3. /\ Of(t, "firing")' = Of(t, "firing") \cup {e} /\ e \notin Of(t, "firing")
          /\ Of(t, "resolved")' = Of(t, "resolved")
        BY <1>7, OfEvents DEF Creates
    <2>4. F' = F + 1 /\ D' = D
        BY <1>0, <2>3, Sizes, FS_AddElement
    <2>5. UNCHANGED <<Resolving(t), AlertingAt(t)>> /\ R' = R /\ A' = A /\ decided'[t] = decided[t]
        BY <1>7 DEF Creates
    <2> QED BY <1>0, <1>00, <2>1, <2>2, <2>4, <2>5 DEF Finite, Counted
<1>8. ASSUME NEW h \in Handlers, NEW e \in AlertEvents, Resolves(t, h, e)
      PROVE  Finite(t)' /\ Counted(t)'
    <2>1. IsFiniteSet(Resolving(t)') /\ R' = R - 1
        BY <1>0, <1>8, FS_RemoveElement DEF Resolves, Finite
    <2>2. IsFiniteSet(EventsOf(t)') /\ E' <= E /\ E' \in Nat
        <3>1. /\ IsFiniteSet(EventsOf(t) \ {e})
              /\ Cardinality(EventsOf(t) \ {e}) = E - 1
            BY <1>0, <1>8, FS_RemoveElement DEF Resolves, Finite
        <3>2. EventsOf(t)' = (EventsOf(t) \ {e}) \cup {Resolved(e)}
            BY <1>8 DEF Resolves
        <3>3. /\ IsFiniteSet(EventsOf(t)') /\ E' \in {E - 1, E - 1 + 1}
            <4> DEFINE X == EventsOf(t) \ {e}
            <4>1. IsFiniteSet(X \cup {Resolved(e)})
                  /\ Cardinality(X \cup {Resolved(e)}) \in {Cardinality(X), Cardinality(X) + 1}
                BY <3>1, FS_AddElement
            <4> QED BY <3>1, <3>2, <4>1
        <3> QED BY <1>00, <3>3, FS_CardinalityType
    <2>3. /\ Of(t, "firing")' = Of(t, "firing") \ {e} /\ e \in Of(t, "firing")
          /\ Of(t, "resolved")' = Of(t, "resolved") \cup {Resolved(e)}
        BY <1>8, OfEvents DEF Resolves
    <2>4. F' = F - 1 /\ D' <= D + 1 /\ D' \in Nat
        <3>1. F' = F - 1
            BY <1>0, <2>3, Sizes, FS_RemoveElement
        <3>2. D' \in {D, D + 1}
            BY <1>0, <2>3, Sizes, FS_AddElement
        <3> QED BY <1>00, <3>1, <3>2
    <2>5. UNCHANGED <<Raising(t), AlertingAt(t)>> /\ C' = C /\ A' = A /\ decided'[t] = decided[t]
        BY <1>8 DEF Resolves
    <2> QED BY <1>0, <1>00, <2>1, <2>2, <2>4, <2>5 DEF Finite, Counted
<1> QED BY <1>2, <1>3, <1>4, <1>5, <1>6, <1>7, <1>8, SetsStep

-----------------------------------------------------------------------------
(* The beginning: nothing is known, running, created or counted.           *)
LEMMA InitTypes == Init => TypeOK
<1> SUFFICES ASSUME Init PROVE TypeOK
    OBVIOUS
<1>1. Processor!ProcessorTypeOK
    BY DEF Init, Processor!ProcessorInit, Processor!ProcessorTypeOK
<1>2. targetStates \in [Keys -> Engine!TargetState]
    BY DEF Init, Engine!NewTargetState, Engine!State, Engine!TargetState
<1>3. handlers \in [Handlers -> HandlerStates]
    BY IdleIsState DEF Init
<1>4. spent \in [results : 0..MaxResults, failures : 0..MaxDisturbances,
                 restarts : 0..MaxDisturbances, cleanups : 0..MaxDisturbances]
    BY PipelineAssumption DEF Init
<1>5. /\ failureWindow \in [Keys -> SUBSET Nodes] /\ events \subseteq AlertEvents
      /\ issued \in Nat /\ second \in Nat /\ serial \in BOOLEAN
    BY DEF Init
<1>6. decided \in [FiledNames -> Counts]
    BY DEF Init, Counts
<1> QED BY <1>1, <1>2, <1>3, <1>4, <1>5, <1>6 DEF TypeOK, Counts

LEMMA InitQuiet ==
    ASSUME Init
    PROVE  /\ \A h \in Handlers : handlers[h].pc = "idle"
           /\ \A k \in Keys : states[k] = NoState
           /\ \A t : Raising(t) = {} /\ Resolving(t) = {} /\ EventsOf(t) = {}
           /\ \A t \in FiledNames : AlertingAt(t) = {}
<1>1. \A h \in Handlers : handlers[h].pc = "idle"
    BY DEF Init, Idle
<1>2. \A k \in Keys : states[k] = NoState
    BY DEF Init, Processor!ProcessorInit
<1>3. ASSUME NEW t
      PROVE  Raising(t) = {} /\ Resolving(t) = {} /\ EventsOf(t) = {}
    BY <1>1 DEF Init, Raising, Resolving, EventsOf
<1>4. \A t \in FiledNames : AlertingAt(t) = {}
    <2>1. ~Engine!NewTargetState.IsAlerting
        BY DEF Engine!NewTargetState, Engine!State
    <2> QED BY <2>1 DEF Init, AlertingAt
<1> QED BY <1>1, <1>2, <1>3, <1>4

LEMMA InitCounts == Init => Stamped /\ Sound /\ Accounted /\ Named /\ Tallied
<1> SUFFICES ASSUME Init PROVE Stamped /\ Sound /\ Accounted /\ Named /\ Tallied
    OBVIOUS
<1>1. Stamped
    BY InitQuiet DEF Stamped, HasLatest, Init
<1>2. Sound
    BY InitQuiet DEF Sound, HandlerSound
<1>3. Named
    BY InitQuiet DEF Named, Creating, Init
<1>30. Accounted
    <2>1. ~Engine!NewTargetState.IsAlerting
        BY DEF Engine!NewTargetState, Engine!State
    <2> QED BY <2>1, InitQuiet DEF Accounted, Acting, Init
<1>4. ASSUME NEW t \in FiledNames
      PROVE  Finite(t) /\ Counted(t)
    <2>1. /\ Raising(t) = {} /\ Resolving(t) = {} /\ EventsOf(t) = {} /\ AlertingAt(t) = {}
          /\ Of(t, "firing") = {} /\ Of(t, "resolved") = {}
        BY InitQuiet, OfEvents
    <2>2. decided[t].alert = 0 /\ decided[t].resolve = 0
        BY DEF Init
    <2> QED BY <2>1, <2>2, FS_EmptySet DEF Finite, Counted
<1> QED BY <1>1, <1>2, <1>3, <1>30, <1>4 DEF Tallied

-----------------------------------------------------------------------------
(* However handlers interleave, calls fail and replicas restart.           *)
CountInv == TypeOK /\ Stamped /\ Sound /\ Accounted /\ Named /\ Tallied

LEMMA Counting == Spec => []CountInv
<1>1. Init => CountInv
    BY InitTypes, InitCounts DEF CountInv
<1>2. CountInv /\ [Next]_vars => CountInv'
    BY StepTypes, StampedStep, SoundStep, AccountedStep, NamedStep, TalliedStep DEF CountInv
<1> QED BY <1>1, <1>2, PTL DEF Spec

(* The aggregator's state keeps its type (cmd/aggregator resultHandler,    *)
(* processor.go, alerting.go).                                             *)
THEOREM TypeCorrect == Spec => []TypeOK
<1>1. CountInv => TypeOK
    BY DEF CountInv
<1> QED BY <1>1, Counting, PTL

(* There are never more AlertEvents than decisions to alert, nor more      *)
(* resolved ones than decisions to resolve, and every firing one names a   *)
(* node unless a target filed under another's name may have caused it      *)
(* (cmd/aggregator HandleResult, upsertAlertEvent).                        *)
THEOREM EventsDecided == Spec => []EventsAreDecided
<1>1. ASSUME CountInv, NEW t \in FiledNames
      PROVE  /\ Cardinality(Of(t, "firing") \cup Of(t, "resolved")) <= decided[t].alert
             /\ Cardinality(Of(t, "resolved")) <= decided[t].resolve
             /\ decided[t].by \subseteq {t} => \A e \in Of(t, "firing") : e.affected # {}
    <2>1. Finite(t) /\ Counted(t) /\ Named /\ events \subseteq AlertEvents
          /\ decided[t].alert \in Nat /\ decided[t].resolve \in Nat
        BY <1>1 DEF CountInv, Tallied, TypeOK, Counts
    <2>2. Of(t, "firing") \cup Of(t, "resolved") = EventsOf(t)
        <3>1. \A e \in EventsOf(t) : e.status \in {"firing", "resolved"}
            BY <2>1 DEF EventsOf, AlertEvents
        <3> QED BY <3>1, OfEvents
    <2>3. decided[t].by \subseteq {t} => \A e \in Of(t, "firing") : e.affected # {}
        BY <2>1 DEF Of, Named, Explained
    <2>4. /\ Cardinality(EventsOf(t)) <= decided[t].alert
          /\ Cardinality(Of(t, "resolved")) <= decided[t].resolve
        BY <2>1, Sizes DEF Counted
    <2> QED BY <2>2, <2>3, <2>4
<1>2. CountInv => EventsAreDecided
    BY <1>1 DEF EventsAreDecided
<1> QED BY <1>2, Counting, PTL

(* While the API answers and the replicas stay up, no interleaving of the  *)
(* handlers loses an alert (cmd/aggregator HandleResult).                  *)
THEOREM AlertsKept == Spec => []NoLostAlert
<1>1. ASSUME CountInv, Undisturbed, Quiet, NEW u \in Targets, Alerting(u)
      PROVE  Of(Filed[u], "firing") # {}
    <2> DEFINE t == Filed[u]
    <2>0. t \in FiledNames /\ AlertingAt(t) # {}
        BY <1>1 DEF FiledNames, Alerting, AlertingAt
    <2> HIDE DEF t
    <2>1. Finite(t) /\ Counted(t)
        BY <1>1, <2>0 DEF CountInv, Tallied
    <2>2. Raising(t) = {} /\ Resolving(t) = {}
        BY <1>1 DEF Quiet, Raising, Resolving
    <2>3. Cardinality(AlertingAt(t)) \in Nat /\ Cardinality(AlertingAt(t)) # 0
        BY <2>0, <2>1, FS_EmptySet, Sizes DEF Finite
    <2>4. Cardinality(Of(t, "firing")) # 0
        BY <1>1, <2>1, <2>2, <2>3, FS_EmptySet, Sizes DEF Counted
    <2> QED BY <2>4, FS_EmptySet DEF t
<1>2. CountInv => NoLostAlert
    BY <1>1 DEF NoLostAlert
<1> QED BY <1>2, Counting, PTL

-----------------------------------------------------------------------------
(* One at a time.  While results are handled that way one handler is busy, *)
(* for the one replica.                                                    *)
Leader == CHOOSE r \in Replicas : TRUE

Busy(h) == handlers[h].pc # "idle"

Alone ==
    serial => \A h \in Handlers : Busy(h) =>
        /\ handlers[h].key[1] = Leader
        /\ \A g \in Handlers : Busy(g) => g = h

(* A result is only taken in when every handler is done; every other step  *)
(* is of a busy handler, or makes some of them stop.                       *)
Begins(h) ==
    /\ serial' => serial /\ Quiet /\ handlers'[h].key[1] = Leader
    /\ \A g \in Handlers \ {h} : handlers'[g] = handlers[g]

Continues ==
    /\ serial' => serial
    /\ \A h \in Handlers : Busy(h)' => Busy(h) /\ handlers'[h].key = handlers[h].key

LEMMA MoveContinues ==
    ASSUME NEW h \in Handlers, NEW pc, Moves(h, pc), Busy(h), serial' = serial
    PROVE  Continues
BY DEF Moves, Busy, Continues

LEMMA TurnsTaken ==
    ASSUME TypeOK, Stamped, [Next]_vars
    PROVE  Continues \/ \E h \in Handlers : Begins(h)
<1>0. HandlersTyped /\ \A h \in Handlers : HasLatest(FiledAs(h))
    BY HandlerFields DEF TypeOK, HandlersTyped, Stamped
<1>1. ASSUME NEW h \in Handlers, Submit(h)
      PROVE  Begins(h)
    <2>1. PICK k \in Keys, n \in Nodes, success \in BOOLEAN :
              /\ serial' = (serial /\ Quiet /\ k[1] = CHOOSE r \in Replicas : TRUE)
              /\ \A g \in Handlers \ {h} : handlers'[g] = handlers[g]
              /\ handlers'[h].key = k
        BY <1>1, SubmitDoes
    <2>2. serial' => serial /\ Quiet /\ k[1] = Leader
        BY <2>1, Zenon DEF Leader
    <2> QED BY <2>1, <2>2 DEF Begins
<1>2. ASSUME NEW h \in Handlers,
             RecordFailure(h) \/ Decide(h) \/ GenerateReport(h) \/ List(h) \/ Update(h)
               \/ ApiError(h)
      PROVE  Continues
    <2>1. serial' = serial
        BY <1>2 DEF RecordFailure, Decide, GenerateReport, List, Update, ApiError
    <2>2. Busy(h)
        BY <1>2 DEF RecordFailure, Decide, GenerateReport, List, Update, ApiError, Busy
    <2>3. \E pc : Moves(h, pc)
        BY <1>0, <1>2, RecordDoes, DecideDoes, ReportDoes, ListDoes, UpdateDoes, ErrorDoes
    <2> QED BY <2>1, <2>2, <2>3, MoveContinues
<1>3. ASSUME NEW h \in Handlers, Create(h)
      PROVE  Continues
    <2>1. Moves(h, "idle") /\ Busy(h)
        BY <1>3, CreateDoes DEF Busy
    <2>2. PICK gap : serial' = (serial /\ gap > 0)
        BY <1>3, CreateDoes
    <2>3. serial' => serial
        BY <2>2, Zenon
    <2> QED BY <2>1, <2>3 DEF Moves, Busy, Continues
<1>4. ASSUME NEW r \in Replicas, Restart(r)
      PROVE  Continues
    BY <1>4, RestartDoes DEF Continues, Busy
<1>5. CASE Cleanup \/ UNCHANGED vars
    BY <1>5 DEF Cleanup, vars, Continues, Busy
<1> QED BY <1>1, <1>2, <1>3, <1>4, <1>5 DEF Next, Step

LEMMA AloneStep == TypeOK /\ Stamped /\ Alone /\ [Next]_vars => Alone'
<1> SUFFICES ASSUME TypeOK, Stamped, Alone, [Next]_vars, serial',
                    NEW h \in Handlers, Busy(h)'
             PROVE  /\ handlers'[h].key[1] = Leader
                    /\ \A g \in Handlers : Busy(g)' => g = h
    BY DEF Alone
<1>1. CASE Continues
    BY <1>1 DEF Continues, Alone
<1>2. ASSUME NEW f \in Handlers, Begins(f)
      PROVE  /\ handlers'[h].key[1] = Leader
             /\ \A g \in Handlers : Busy(g)' => g = h
    <2>1. \A g \in Handlers : Busy(g)' => g = f
        BY <1>2 DEF Begins, Busy, Quiet
    <2> QED BY <1>2, <2>1 DEF Begins
<1> QED BY <1>1, <1>2, TurnsTaken

-----------------------------------------------------------------------------
(* The processor is told of a result first, the engine after it: while a   *)
(* handler has its result still to tell the engine, the processor is one   *)
(* result ahead.                                                           *)
Due(h, k) == handlers[h].pc \in {"correlate", "decide"} /\ handlers[h].key = k

Settled(s, e) ==
    /\ s.counters.ConsecutiveFailures <= e.ConsecutiveFailures
    /\ s.counters.ConsecutiveSuccesses <= e.ConsecutiveSuccesses
    /\ s.State = "Unhealthy" <=> e.ConsecutiveFailures > 0

Ahead(s, e, success) ==
    IF success
      THEN /\ s.counters.ConsecutiveFailures = 0
           /\ s.counters.ConsecutiveSuccesses <= e.ConsecutiveSuccesses + 1
           /\ s.State = "Healthy"
      ELSE /\ s.counters.ConsecutiveFailures <= e.ConsecutiveFailures + 1
           /\ s.counters.ConsecutiveSuccesses = 0
           /\ s.State = "Unhealthy"

Agrees(k) ==
    /\ \A h \in Handlers : Due(h, k) => Ahead(states[k], targetStates[k], handlers[h].success)
    /\ (\A h \in Handlers : ~Due(h, k)) => Settled(states[k], targetStates[k])

Agreed == serial => \A k \in Keys : states[k] # NoState => Agrees(k)

(* A key no step of a handler is about.                                    *)
LEMMA AgreesWhenStill ==
    ASSUME NEW k \in Keys, Agrees(k), UNCHANGED <<states[k], targetStates[k]>>,
           \A h \in Handlers : Due(h, k)' <=> Due(h, k),
           \A h \in Handlers : Due(h, k) => handlers'[h].success = handlers[h].success
    PROVE  Agrees(k)'
BY DEF Agrees

(* The processor runs one result ahead of an engine it agrees with, and    *)
(* the engine catches up.                                                  *)
LEMMA RunsAhead ==
    ASSUME NEW e, e \in Engine!TargetState, NEW success \in BOOLEAN, NEW old, NEW new,
           old \in Processor!Counters, new.counters = Processor!Count(old, success),
           old.ConsecutiveFailures <= e.ConsecutiveFailures,
           old.ConsecutiveSuccesses <= e.ConsecutiveSuccesses,
           new.State = IF success THEN "Healthy" ELSE "Unhealthy"
    PROVE  Ahead(new, e, success)
BY DEF Ahead, Processor!Counters, Processor!Count, Engine!TargetState

LEMMA CatchesUp ==
    ASSUME NEW s, NEW e, e \in Engine!TargetState, NEW success \in BOOLEAN,
           Ahead(s, e, success), NEW new, new \in Engine!TargetState,
           new.ConsecutiveFailures = IF success THEN 0 ELSE e.ConsecutiveFailures + 1,
           new.ConsecutiveSuccesses = IF success THEN e.ConsecutiveSuccesses + 1 ELSE 0
    PROVE  Settled(s, new)
BY DEF Ahead, Settled, Engine!TargetState

LEMMA SubmitAlone ==
    ASSUME TypeOK, NEW h \in Handlers, Submit(h)
    PROVE  serial' => Quiet
<1>1. PICK k : serial' = (serial /\ Quiet /\ k[1] = CHOOSE r \in Replicas : TRUE)
    BY SubmitDoes
<1> QED BY <1>1, Zenon

LEMMA AgreedStep == TypeOK /\ Stamped /\ Alone /\ Agreed /\ [Next]_vars => Agreed'
<1> SUFFICES ASSUME TypeOK, Stamped, Alone, Agreed, [Next]_vars, serial',
                    NEW k \in Keys, states'[k] # NoState
             PROVE  Agrees(k)'
    BY DEF Agreed
<1>0. /\ HandlersTyped /\ Processor!ProcessorTypeOK
      /\ targetStates \in [Keys -> Engine!TargetState]
      /\ \A h \in Handlers : HasLatest(FiledAs(h))
    BY HandlerFields DEF TypeOK, HandlersTyped, Stamped
<1>00. serial
    BY TurnsTaken DEF Continues, Begins
<1>1. ASSUME NEW h \in Handlers, Submit(h)
      PROVE  Agrees(k)'
    <2>1. PICK j \in Keys, n \in Nodes, success \in BOOLEAN :
              /\ Processor!ProcessResult(j, n, success)
              /\ \A g \in Handlers \ {h} : handlers'[g] = handlers[g]
              /\ handlers'[h].pc = IF success THEN "decide" ELSE "correlate"
              /\ handlers'[h].key = j /\ handlers'[h].success = success
        BY ONLY TypeOK, <1>1, SubmitDoes
    <2>2. Quiet
        BY <1>1, SubmitAlone
    <2>3. /\ \A g \in Handlers : ~Due(g, k)
          /\ \A g \in Handlers : Due(g, k)' <=> g = h /\ j = k
        BY <2>1, <2>2 DEF Quiet, Due
    <2>4. targetStates' = targetStates
        BY <1>1 DEF Submit
    <2>5. /\ \A i \in Keys \ {j} : states'[i] = states[i]
          /\ states'[j].State = IF success THEN "Healthy" ELSE "Unhealthy"
          /\ LET old == IF states[j] = NoState THEN Processor!Zero ELSE states[j].counters
             IN  /\ old \in Processor!Counters
                 /\ states'[j].counters = Processor!Count(old, success)
        BY <1>0, <2>1, ResultProcessed
    <2>6. CASE j # k
        <3>1. Agrees(k)
            BY <1>00, <2>5, <2>6 DEF Agreed
        <3> QED BY <2>3, <2>4, <2>5, <2>6, <3>1, AgreesWhenStill
    <2>7. CASE j = k
        <3> DEFINE old == IF states[k] = NoState THEN Processor!Zero ELSE states[k].counters
        <3>1. targetStates[k] \in Engine!TargetState
            BY <1>0
        <3>2. /\ old.ConsecutiveFailures <= targetStates[k].ConsecutiveFailures
              /\ old.ConsecutiveSuccesses <= targetStates[k].ConsecutiveSuccesses
            <4>1. CASE states[k] = NoState
                BY <3>1, <4>1 DEF Processor!Zero, Engine!TargetState
            <4>2. CASE states[k] # NoState
                BY <1>00, <2>3, <4>2 DEF Agreed, Agrees, Settled
            <4> QED BY <4>1, <4>2
        <3>3. /\ old \in Processor!Counters /\ states'[k].counters = Processor!Count(old, success)
              /\ states'[k].State = IF success THEN "Healthy" ELSE "Unhealthy"
            BY <2>5, <2>7
        <3> HIDE DEF old
        <3>4. Ahead(states'[k], targetStates[k], success)
            BY <3>1, <3>2, <3>3, RunsAhead
        <3> QED BY <2>1, <2>3, <2>4, <2>7, <3>4 DEF Agrees
    <2> QED BY <2>6, <2>7
<1>2. ASSUME NEW h \in Handlers, RecordFailure(h)
      PROVE  Agrees(k)'
    <2>1. UNCHANGED <<states, targetStates>>
        BY <1>2 DEF RecordFailure
    <2>2. handlers[h].pc = "correlate" /\ Moves(h, "decide")
        BY <1>2, RecordDoes
    <2>3. \A g \in Handlers : /\ Due(g, k)' <=> Due(g, k)
                              /\ handlers'[g].success = handlers[g].success
        BY <2>2 DEF Moves, Due
    <2> QED BY <1>00, <2>1, <2>3, AgreesWhenStill DEF Agreed
<1>3. ASSUME NEW h \in Handlers, Decide(h)
      PROVE  Agrees(k)'
    <2> DEFINE j == handlers[h].key
    <2>1. states' = states /\ handlers[h].pc = "decide" /\ j \in Keys
             /\ handlers[h].success \in BOOLEAN
        BY <1>0, <1>3, HandlerFields DEF Decide
    <2>2. PICK decision : /\ Engine!ProcessResult(j, handlers[h].success, decision)
                          /\ \E pc \in {"idle", "report", "list"} : Moves(h, pc)
        BY <1>3, DecideDoes
    <2>3. /\ targetStates' \in [Keys -> Engine!TargetState]
          /\ \A i \in Keys \ {j} : targetStates'[i] = targetStates[i]
          /\ targetStates'[j].ConsecutiveFailures =
                 IF handlers[h].success THEN 0 ELSE targetStates[j].ConsecutiveFailures + 1
          /\ targetStates'[j].ConsecutiveSuccesses =
                 IF handlers[h].success THEN targetStates[j].ConsecutiveSuccesses + 1 ELSE 0
        BY <1>0, <2>1, <2>2, ResultDecides
    <2>4. \A g \in Handlers : /\ Due(g, k) <=> g = h /\ j = k
                              /\ ~Due(g, k)'
        <3>1. \A g \in Handlers : Busy(g) => g = h
            BY <1>00, <2>1 DEF Alone, Busy
        <3>2. \A g \in Handlers : Due(g, k) => g = h
            BY <3>1 DEF Busy, Due
        <3>3. \A g \in Handlers : Due(g, k)' => Due(g, k) /\ g # h
            BY <2>2 DEF Moves, Due
        <3> QED BY <2>1, <3>2, <3>3 DEF Due
    <2>5. Agrees(k)
        BY <1>00, <2>1 DEF Agreed
    <2>6. CASE j # k
        <3>1. UNCHANGED <<states[k], targetStates[k]>>
            BY <2>1, <2>3, <2>6
        <3> QED BY <2>4, <2>5, <2>6, <3>1, AgreesWhenStill
    <2>7. CASE j = k
        <3>1. Ahead(states[k], targetStates[k], handlers[h].success)
            BY <2>4, <2>5, <2>7 DEF Agrees
        <3>2. targetStates[k] \in Engine!TargetState /\ targetStates'[k] \in Engine!TargetState
            BY <1>0, <2>3
        <3>3. Settled(states[k], targetStates'[k])
            BY <2>1, <2>3, <2>7, <3>1, <3>2, CatchesUp
        <3> QED BY <2>1, <2>4, <3>3 DEF Agrees
    <2> QED BY <2>6, <2>7
<1>4. ASSUME NEW h \in Handlers,
             GenerateReport(h) \/ Create(h) \/ List(h) \/ Update(h) \/ ApiError(h)
      PROVE  Agrees(k)'
    <2>1. UNCHANGED <<states, targetStates>>
        BY <1>4 DEF GenerateReport, Create, List, Update, ApiError, engineState
    <2>2. /\ handlers[h].pc \in {"report", "create", "list", "update"}
          /\ \E pc \in {"create", "idle", "update"} : Moves(h, pc)
        BY <1>0, <1>4, ReportDoes, CreateDoes, ListDoes, UpdateDoes, ErrorDoes
    <2>3. \A g \in Handlers : /\ Due(g, k)' <=> Due(g, k)
                              /\ Due(g, k) => handlers'[g].success = handlers[g].success
        BY <2>2 DEF Moves, Due
    <2> QED BY <1>00, <2>1, <2>3, AgreesWhenStill DEF Agreed
<1>5. ASSUME NEW r \in Replicas, Restart(r)
      PROVE  Agrees(k)'
    <2>1. k[1] # r /\ UNCHANGED <<states[k], targetStates[k]>>
        BY <1>5 DEF Restart
    <2>2. \A g \in Handlers : \/ handlers'[g] = handlers[g] /\ handlers[g].key[1] # r
                              \/ handlers'[g].pc = "idle" /\ handlers[g].key[1] = r
        <3>1. Idle.pc = "idle" /\ handlers' = [g \in Handlers |->
                  IF handlers[g].key[1] = r THEN Idle ELSE handlers[g]]
            BY <1>5 DEF Restart, Idle
        <3> QED BY <3>1
    <2>3. \A g \in Handlers : /\ Due(g, k)' <=> Due(g, k)
                              /\ Due(g, k) => handlers'[g].success = handlers[g].success
        BY <2>1, <2>2 DEF Due
    <2> QED BY <1>00, <2>1, <2>3, AgreesWhenStill DEF Agreed
<1>6. CASE Cleanup
    <2>1. UNCHANGED <<handlers, targetStates>> /\ states'[k] = states[k]
        BY <1>6 DEF Cleanup, Processor!CleanupExpiredStates
    <2>2. Agrees(k)
        BY <1>00, <2>1 DEF Agreed
    <2> QED BY <2>1, <2>2, AgreesWhenStill DEF Due
<1>7. CASE UNCHANGED vars
    BY <1>00, <1>7, AgreesWhenStill DEF vars, Agreed, Due
<1> QED BY <1>1, <1>2, <1>3, <1>4, <1>5, <1>6, <1>7 DEF Next, Step

AgreeInv == TypeOK /\ Stamped /\ Alone /\ Agreed

LEMMA Agreeing == Spec => []AgreeInv
<1>1. ASSUME Init PROVE AgreeInv
    <2>1. Alone
        BY <1>1, InitQuiet DEF Alone, Busy
    <2>2. Agreed
        BY <1>1, InitQuiet DEF Agreed
    <2> QED BY <1>1, <2>1, <2>2, InitTypes, InitCounts DEF AgreeInv
<1>2. AgreeInv /\ [Next]_vars => AgreeInv'
    BY StepTypes, StampedStep, AloneStep, AgreedStep DEF AgreeInv
<1> QED BY <1>1, <1>2, PTL DEF Spec

(* With one result handled at a time the processor and the engine agree on *)
(* a target's health (cmd/aggregator HandleResult, processor.go,           *)
(* alerting.go).                                                           *)
THEOREM ProcessorAgrees == Spec => []ProcessorAgreesWithEngine
<1>1. ASSUME AgreeInv, serial, Quiet, NEW k \in Processor!Known
      PROVE  Settled(states[k], targetStates[k])
    <2>1. k \in Keys /\ states[k] # NoState
        BY <1>1 DEF Processor!Known
    <2>2. \A h \in Handlers : ~Due(h, k)
        BY <1>1 DEF Quiet, Due
    <2> QED BY <1>1, <2>1, <2>2 DEF AgreeInv, Agreed, Agrees
<1>2. AgreeInv => ProcessorAgreesWithEngine
    BY <1>1 DEF ProcessorAgreesWithEngine, Settled
<1> QED BY <1>2, Agreeing, PTL

-----------------------------------------------------------------------------
(* Alerts and events.  One at a time, and undisturbed, a target that is    *)
(* alerting has the one event that fires, later than all others it had,    *)
(* except while the handler that decided is on its way to create it or to  *)
(* resolve it; as long as the name stands for that target only.            *)
OnLeader == serial => \A t \in FiledNames : \A k \in AlertingAt(t) : k[1] = Leader

OneTarget(t) == \E u \in Targets : decided[t].by \subseteq {u}

Current ==
    serial => \A h \in Handlers : handlers[h].pc = "update" => handlers[h].latest \in events

Newest(t) ==
    \A e \in Of(t, "firing") : \A f \in EventsOf(t) \ {e} : f.created < e.created

Tracked(t) ==
    /\ Raising(t) # {} => AlertingAt(t) # {} /\ Of(t, "firing") = {}
    /\ Resolving(t) # {} => AlertingAt(t) = {} /\ Of(t, "firing") # {}
    /\ Raising(t) = {} /\ Resolving(t) = {} =>
           (AlertingAt(t) # {} <=> Of(t, "firing") # {})

Tracking ==
    serial /\ Undisturbed =>
        \A t \in FiledNames : OneTarget(t) => Newest(t) /\ Tracked(t)

(* Only the handler itself changes the event that it is about to resolve.  *)
LEMMA CurrentStep == TypeOK /\ Stamped /\ Alone /\ Current /\ [Next]_vars => Current'
<1> SUFFICES ASSUME TypeOK, Stamped, Alone, Current, [Next]_vars, serial',
                    NEW h \in Handlers, handlers'[h].pc = "update"
             PROVE  handlers'[h].latest \in events'
    BY DEF Current
<1>0. /\ HandlersTyped
      /\ \A g \in Handlers : HasLatest(FiledAs(g))
    BY HandlerFields DEF TypeOK, HandlersTyped, Stamped
<1>00. serial
    BY TurnsTaken DEF Continues, Begins
<1>1. ASSUME handlers'[h] = handlers[h], UNCHANGED events
      PROVE  handlers'[h].latest \in events'
    BY <1>1, <1>00 DEF Current
<1>2. ASSUME NEW g \in Handlers, Submit(g)
      PROVE  handlers'[h].latest \in events'
    <2>1. /\ \A f \in Handlers \ {g} : handlers'[f] = handlers[f]
          /\ handlers'[g].pc \in {"decide", "correlate"}
        BY ONLY TypeOK, <1>2, SubmitDoes
    <2>2. UNCHANGED events
        BY <1>2 DEF Submit, cluster
    <2> QED BY <1>1, <2>1, <2>2
<1>3. ASSUME NEW g \in Handlers,
             RecordFailure(g) \/ Decide(g) \/ GenerateReport(g) \/ ApiError(g)
      PROVE  handlers'[h].latest \in events'
    <2>1. \E pc \in {"decide", "idle", "report", "list", "create"} : Moves(g, pc)
        BY <1>3, RecordDoes, DecideDoes, ReportDoes, ErrorDoes
    <2>2. UNCHANGED events
        BY <1>3 DEF RecordFailure, Decide, GenerateReport, ApiError, cluster
    <2>3. handlers'[h] = handlers[h]
        BY <2>1 DEF Moves
    <2> QED BY <1>1, <2>2, <2>3
<1>4. ASSUME NEW g \in Handlers, Create(g) \/ Update(g)
      PROVE  FALSE
    <2>1. Moves(g, "idle") /\ Busy(g)
        BY <1>4, CreateDoes, UpdateDoes DEF Busy
    <2>2. h # g /\ handlers'[h] = handlers[h]
        BY <2>1 DEF Moves
    <2>3. Busy(h)
        BY <2>2 DEF Busy
    <2> QED BY <1>00, <2>1, <2>2, <2>3 DEF Alone
<1>5. ASSUME NEW g \in Handlers, List(g)
      PROVE  handlers'[h].latest \in events'
    <2>1. UNCHANGED events
        BY <1>5 DEF List, cluster
    <2>2. \/ Moves(g, "idle")
          \/ Moves(g, "update") /\ handlers'[g].latest \in EventsOf(FiledAs(g))
        BY <1>0, <1>5, ListDoes
    <2>3. CASE h = g
        BY <2>1, <2>2, <2>3 DEF Moves, EventsOf
    <2>4. CASE h # g
        BY <1>1, <2>1, <2>2, <2>4 DEF Moves
    <2> QED BY <2>3, <2>4
<1>6. ASSUME NEW r \in Replicas, Restart(r)
      PROVE  handlers'[h].latest \in events'
    <2>1. UNCHANGED events
        BY <1>6 DEF Restart, cluster
    <2>2. handlers'[h] = handlers[h]
        BY <1>6, RestartDoes
    <2> QED BY <1>1, <2>1, <2>2
<1>7. CASE Cleanup \/ UNCHANGED vars
    BY <1>1, <1>7 DEF Cleanup, vars, cluster
<1> QED BY <1>2, <1>3, <1>4, <1>5, <1>6, <1>7 DEF Next, Step

LEMMA OnLeaderStep ==
    TypeOK /\ Stamped /\ Sound /\ Named /\ Alone /\ OnLeader /\ [Next]_vars => OnLeader'
<1> SUFFICES ASSUME TypeOK, Stamped, Sound, Named, Alone, OnLeader, [Next]_vars, serial',
                    NEW t \in FiledNames
             PROVE  \A k \in AlertingAt(t)' : k[1] = Leader
    BY DEF OnLeader
<1>1. serial /\ \A k \in AlertingAt(t) : k[1] = Leader
    BY TurnsTaken DEF Continues, Begins, OnLeader
<1>2. ASSUME NEW h \in Handlers, NEW k \in Keys, Alerts(t, h, k)
      PROVE  \A j \in AlertingAt(t)' : j[1] = Leader
    <2>1. k[1] = Leader
        BY <1>1, <1>2 DEF Alerts, Alone, Busy
    <2> QED BY <1>1, <1>2, <2>1 DEF Alerts
<1>3. CASE \/ Unconcerned(t) \/ Abandons(t)
           \/ \E h \in Handlers, k \in Keys : Recovers(t, h, k)
           \/ \E h \in Handlers : Skips(t, h)
           \/ \E h \in Handlers, e \in AlertEvents : Creates(t, h, e) \/ Resolves(t, h, e)
    <2>1. AlertingAt(t)' \subseteq AlertingAt(t)
        BY <1>3 DEF Unconcerned, Abandons, Recovers, Skips, Creates, Resolves
    <2> QED BY <1>1, <2>1
<1> QED BY <1>2, <1>3, SetsStep

(* The alone handler is the only one on its way.                           *)
LEMMA OnlyMine ==
    ASSUME serial, Alone, NEW h \in Handlers, Busy(h), NEW t
    PROVE  /\ Raising(t) \subseteq {h} /\ Resolving(t) \subseteq {h}
           /\ h \notin Raising(t) => Raising(t) = {}
           /\ h \notin Resolving(t) => Resolving(t) = {}
BY DEF Alone, Busy, Raising, Resolving

(* At most one event fires, and it is the latest.                          *)
LEMMA OneFires ==
    ASSUME events \subseteq AlertEvents, NEW t \in FiledNames, Newest(t),
           NEW e \in Of(t, "firing")
    PROVE  /\ Of(t, "firing") = {e}
           /\ HasLatest(t) => Latest(EventsOf(t)) = e
<1>1. /\ \A f \in EventsOf(t) : f.created \in Nat
      /\ e \in EventsOf(t) /\ Of(t, "firing") \subseteq EventsOf(t)
    BY OfEvents, EventFields DEF EventsOf
<1>2. ASSUME NEW f \in Of(t, "firing"), f # e
      PROVE  FALSE
    <2>1. f.created < e.created /\ e.created < f.created
        BY <1>1, <1>2 DEF Newest
    <2> QED BY <1>1, <2>1
<1>3. ASSUME HasLatest(t)
      PROVE  Latest(EventsOf(t)) = e
    <2> DEFINE l == Latest(EventsOf(t))
    <2>1. l \in EventsOf(t) /\ Later(l, e)
        BY <1>1, <1>3, LatestIsEvent
    <2>2. l # e => l.created < e.created
        BY <2>1 DEF Newest
    <2>3. l.created >= e.created
        BY <1>1, <2>1 DEF Later
    <2> QED BY <1>1, <2>1, <2>2, <2>3
<1> QED BY <1>2, <1>3

LEMMA TrackingStep ==
    TypeOK /\ Stamped /\ Sound /\ Accounted /\ Named /\ Alone /\ OnLeader /\ Current /\ Tracking
        /\ [Next]_vars => Tracking'
<1> SUFFICES ASSUME TypeOK, Stamped, Sound, Accounted, Named, Alone, OnLeader, Current,
                    Tracking, [Next]_vars, serial', Undisturbed', NEW t \in FiledNames,
                    OneTarget(t)'
             PROVE  Newest(t)' /\ Tracked(t)'
    BY DEF Tracking, OneTarget
<1>0. /\ serial /\ Undisturbed /\ OneTarget(t)
      /\ Newest(t) /\ Tracked(t) /\ HasLatest(t) /\ events \subseteq AlertEvents
    <2>1. serial
        BY TurnsTaken DEF Continues, Begins
    <2>2. Undisturbed
        BY StaysDisturbed
    <2>3. OneTarget(t)
        BY AccountsGrow DEF OneTarget
    <2> QED BY <2>1, <2>2, <2>3 DEF Tracking, Stamped, TypeOK
<1>00. \E j : AlertingAt(t) \subseteq {j} /\ AlertingAt(t)' \subseteq {j}
    <2>1. OnLeader' /\ Accounted'
        BY OnLeaderStep, AccountedStep
    <2>2. PICK u \in Targets : decided'[t].by \subseteq {u}
        BY DEF OneTarget
    <2>3. decided[t].by \subseteq {u}
        BY <2>2, AccountsGrow
    <2>4. \A k \in AlertingAt(t) : k = <<Leader, u>>
        BY <1>0, <2>3, KeyParts DEF OnLeader, Accounted, AlertingAt
    <2>5. \A k \in AlertingAt(t)' : k = <<Leader, u>>
        BY <2>1, <2>2, KeyParts DEF OnLeader, Accounted, AlertingAt
    <2> QED BY <2>4, <2>5
<1>1. ASSUME EventsOf(t)' = EventsOf(t)
      PROVE  Of(t, "firing")' = Of(t, "firing") /\ Newest(t)'
    <2>1. Of(t, "firing")' = Of(t, "firing")
        BY <1>1, OfEvents
    <2> QED BY <1>0, <1>1, <2>1 DEF Newest
<1>2. CASE Unconcerned(t)
    BY <1>0, <1>1, <1>2 DEF Unconcerned, Tracked
<1>3. CASE Abandons(t)
    BY <1>3 DEF Abandons
<1>4. ASSUME NEW h \in Handlers, NEW k \in Keys, Alerts(t, h, k)
      PROVE  Newest(t)' /\ Tracked(t)'
    <2>1. /\ Busy(h) /\ handlers[h].pc = "decide"
          /\ k \notin AlertingAt(t) /\ AlertingAt(t)' = AlertingAt(t) \cup {k}
        BY <1>4 DEF Alerts, Busy
    <2>2. Raising(t) = {} /\ Resolving(t) = {}
        BY <1>0, <2>1, OnlyMine, InSets
    <2>3. AlertingAt(t) = {} /\ Of(t, "firing") = {}
        BY <1>0, <1>00, <2>1, <2>2 DEF Tracked
    <2>4. /\ AlertingAt(t)' # {} /\ Raising(t)' # {} /\ Resolving(t)' = {}
          /\ EventsOf(t)' = EventsOf(t)
        BY <1>4, <2>2 DEF Alerts
    <2> QED BY <1>1, <2>3, <2>4 DEF Tracked
<1>5. ASSUME NEW h \in Handlers, NEW k \in Keys, Recovers(t, h, k)
      PROVE  Newest(t)' /\ Tracked(t)'
    <2>1. Busy(h) /\ handlers[h].pc = "decide" /\ k \in AlertingAt(t)
        BY <1>5 DEF Recovers, Busy
    <2>2. Raising(t) = {} /\ Resolving(t) = {}
        BY <1>0, <2>1, OnlyMine, InSets
    <2>3. AlertingAt(t) = {k} /\ Of(t, "firing") # {}
        BY <1>0, <1>00, <2>1, <2>2 DEF Tracked
    <2>4. /\ AlertingAt(t)' = {} /\ Raising(t)' = {} /\ Resolving(t)' # {}
          /\ EventsOf(t)' = EventsOf(t)
        BY <1>5, <2>2, <2>3 DEF Recovers
    <2> QED BY <1>1, <2>3, <2>4 DEF Tracked
<1>6. ASSUME NEW h \in Handlers, Skips(t, h)
      PROVE  FALSE
    <2>1. h \in Resolving(t) /\ FiledAs(h) = t
        BY <1>6, InSets DEF Skips
    <2>2. PICK e : e \in Of(t, "firing")
        BY <1>0, <2>1 DEF Tracked
    <2>3. e \in EventsOf(t) /\ e.status = "firing" /\ Latest(EventsOf(t)) = e
        BY <1>0, <2>2, OfEvents, OneFires
    <2>4. handlers[h].pc = "update" => handlers[h].latest \in events
        BY <1>0 DEF Current
    <2> QED BY <1>6, <2>3, <2>4 DEF Skips
<1>7. ASSUME NEW h \in Handlers, NEW e \in AlertEvents, Creates(t, h, e)
      PROVE  Newest(t)' /\ Tracked(t)'
    <2>1. h \in Raising(t) /\ Busy(h) /\ h \notin Resolving(t)
        <3>1. h \in Raising(t)
            BY <1>7 DEF Creates
        <3> QED BY <3>1, InSets DEF Busy
    <2>2. Raising(t) = {h} /\ Resolving(t) = {}
        BY <1>0, <2>1, OnlyMine
    <2>3. AlertingAt(t) # {} /\ Of(t, "firing") = {}
        BY <1>0, <2>2 DEF Tracked
    <2>4. /\ EventsOf(t)' = EventsOf(t) \cup {e}
          /\ \A f \in EventsOf(t) : f.created < e.created
        BY <1>7 DEF Creates
    <2>5. Of(t, "firing")' = {e}
        <3>1. Of(t, "firing")' = Of(t, "firing") \cup {e}
            BY <1>7, OfEvents DEF Creates
        <3> QED BY <2>3, <3>1
    <2>6. AlertingAt(t)' # {} /\ Raising(t)' = {} /\ Resolving(t)' = {}
        BY <1>7, <2>2, <2>3 DEF Creates
    <2> QED BY <2>4, <2>5, <2>6 DEF Newest, Tracked
<1>8. ASSUME NEW h \in Handlers, NEW e \in AlertEvents, Resolves(t, h, e)
      PROVE  Newest(t)' /\ Tracked(t)'
    <2>1. h \in Resolving(t) /\ Busy(h) /\ h \notin Raising(t) /\ e \in Of(t, "firing")
        <3>1. h \in Resolving(t) /\ e \in EventsOf(t) /\ e.status = "firing"
            BY <1>8 DEF Resolves
        <3> QED BY <3>1, InSets, OfEvents DEF Busy
    <2>2. Raising(t) = {} /\ Resolving(t) = {h}
        BY <1>0, <2>1, OnlyMine
    <2>3. AlertingAt(t) = {} /\ Of(t, "firing") = {e}
        BY <1>0, <2>1, <2>2, OneFires DEF Tracked
    <2>4. Of(t, "firing")' = {}
        <3>1. Of(t, "firing")' = Of(t, "firing") \ {e}
            BY <1>8, OfEvents DEF Resolves
        <3> QED BY <2>3, <3>1
    <2>5. AlertingAt(t)' = {} /\ Raising(t)' = {} /\ Resolving(t)' = {}
        BY <1>8, <2>2, <2>3 DEF Resolves
    <2> QED BY <2>4, <2>5 DEF Newest, Tracked
<1> QED BY <1>2, <1>3, <1>4, <1>5, <1>6, <1>7, <1>8, SetsStep

TrackInv ==
    /\ TypeOK /\ Stamped /\ Sound /\ Accounted /\ Named
    /\ Alone /\ OnLeader /\ Current /\ Tracking

LEMMA TrackingHolds == Spec => []TrackInv
<1>1. ASSUME Init PROVE TrackInv
    <2>1. Alone /\ OnLeader /\ Current
        BY <1>1, InitQuiet DEF Alone, Busy, OnLeader, Current
    <2>2. ASSUME NEW t \in FiledNames
          PROVE  Newest(t) /\ Tracked(t)
        <3>1. Of(t, "firing") = {}
            BY <1>1, InitQuiet, OfEvents
        <3> QED BY <1>1, <3>1, InitQuiet DEF Newest, Tracked
    <2> QED BY <1>1, <2>1, <2>2, InitTypes, InitCounts DEF TrackInv, Tracking
<1>2. TrackInv /\ [Next]_vars => TrackInv'
    BY StepTypes, StampedStep, SoundStep, AccountedStep, NamedStep, AloneStep, OnLeaderStep,
       CurrentStep, TrackingStep DEF TrackInv
<1> QED BY <1>1, <1>2, PTL DEF Spec

(* With one result handled at a time and creations a second apart, every   *)
(* alerting target has one firing event and no other target has any, as    *)
(* long as they share their names with no other (cmd/aggregator            *)
(* HandleResult, resolveLatestAlertEvent).                                 *)
THEOREM EventsTrack == Spec => []EventsTrackEngine
<1>1. ASSUME TrackInv, serial, Undisturbed, Quiet, NEW u \in Targets, Sole(u)
      PROVE  Cardinality(Of(Filed[u], "firing")) = IF Alerting(u) THEN 1 ELSE 0
    <2> DEFINE t == Filed[u]
    <2>0. t \in FiledNames /\ OneTarget(t) /\ decided[t].by \subseteq {u}
        BY <1>1 DEF FiledNames, Sole, OneTarget
    <2>3. Alerting(u) <=> AlertingAt(t) # {}
        <3>1. \A k \in AlertingAt(t) : k[2] = u
            BY <1>1, <2>0 DEF TrackInv, Accounted, AlertingAt
        <3> QED BY <3>1 DEF Alerting, AlertingAt
    <2> HIDE DEF t
    <2>1. Newest(t) /\ Tracked(t) /\ events \subseteq AlertEvents
        BY <1>1, <2>0 DEF TrackInv, Tracking, TypeOK
    <2>2. Raising(t) = {} /\ Resolving(t) = {}
        BY <1>1 DEF Quiet, Raising, Resolving
    <2>4. CASE Of(t, "firing") = {}
        BY <2>1, <2>2, <2>3, <2>4, FS_EmptySet DEF Tracked, t
    <2>5. CASE Of(t, "firing") # {}
        <3>1. PICK e : e \in Of(t, "firing")
            BY <2>5
        <3>2. Cardinality(Of(t, "firing")) = 1
            BY <2>0, <2>1, <3>1, OneFires, FS_Singleton
        <3> QED BY <2>1, <2>2, <2>3, <2>5, <3>2 DEF Tracked, t
    <2> QED BY <2>4, <2>5 DEF t
<1>2. TrackInv => EventsTrackEngine
    BY <1>1 DEF EventsTrackEngine
<1> QED BY <1>2, TrackingHolds, PTL

=============================================================================

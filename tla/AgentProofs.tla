----------------------------- MODULE AgentProofs -----------------------------
(***************************************************************************)
(* For every number of check goroutines, every set of targets and every    *)
(* limit: the scheduler's semaphore holds exactly the tokens of the        *)
(* goroutines that took one, and its WaitGroup counts exactly those that   *)
(* are alive, so that Start returns only when all of them are gone.  The   *)
(* agent drives its scheduler through the scheduler's own steps only, so   *)
(* that all of this holds inside the agent; and the agent's WaitGroup      *)
(* counts exactly the goroutines its Start waits for, so that a return     *)
(* before the 30 seconds leaves none of them behind.                       *)
(*                                                                         *)
(* For every timeout and whatever layers a target enables: a check runs    *)
(* over its context by a bounded time, passes only if a server was         *)
(* reached, and passes if the server is in good order.  It rests on what   *)
(* the layers of all checkers have in common (RegistryFits).               *)
(***************************************************************************)
EXTENDS Agent, CheckExecutor, FiniteSetTheorems, SequenceTheorems, TLAPS

(* The watcher, while it runs, counts for one.                             *)
WatcherCount == IF watcher \in {"delay", "loop", "scheduling"} THEN 1 ELSE 0

(* The inductive invariant: what the semaphore and the WaitGroup count.    *)
TokensCounted == Cardinality(Holding) = semaphore /\ semaphore <= MaxConcurrency

AliveCounted == wg = Cardinality(Alive) + WatcherCount

StartOrder ==
    /\ watcher = "none" <=> start = "new"
    /\ start = "returned" => watcher = "done" /\ Alive = {}

IInv == TypeOK /\ TokensCounted /\ AliveCounted /\ StartOrder

(* How a step of one goroutine changes the size of a set of goroutines.    *)
LEMMA Grows ==
    ASSUME NEW S, IsFiniteSet(S), NEW c, c \notin S
    PROVE  /\ IsFiniteSet(S \cup {c})
           /\ Cardinality(S \cup {c}) = Cardinality(S) + 1
           /\ Cardinality(S) \in Nat
BY FS_AddElement, FS_CardinalityType

LEMMA Shrinks ==
    ASSUME NEW S, IsFiniteSet(S), NEW c \in S
    PROVE  /\ Cardinality(S \ {c}) = Cardinality(S) - 1
           /\ Cardinality(S) \in Nat \ {0}
<1>1. Cardinality(S \ {c}) = Cardinality(S) - 1 /\ Cardinality(S) \in Nat
    BY FS_RemoveElement, FS_CardinalityType
<1>2. Cardinality(S) # 0
    BY FS_EmptySet
<1> QED BY <1>1, <1>2

LEMMA SetsFinite == IsFiniteSet(Holding) /\ IsFiniteSet(Alive)
BY FS_Subset, SchedulerAssumption DEF Holding, Alive

(* A goroutine that moves from one place to another changes the sets of    *)
(* those that hold a token and of those alive by itself at most.           *)
LEMMA GotoEffect ==
    ASSUME TypeOK, NEW c \in Goroutines, NEW place \in CheckPCs, Goto(c, place)
    PROVE  /\ Holding' = IF place \in {"delay", "run"} THEN Holding \cup {c} ELSE Holding \ {c}
           /\ Alive' = IF place # "free" THEN Alive \cup {c} ELSE Alive \ {c}
           /\ checks' \in [Goroutines -> CheckPCs]
BY DEF TypeOK, Goto, Holding, Alive

LEMMA InitIInv == Init => IInv
<1> SUFFICES ASSUME Init PROVE IInv
    OBVIOUS
<1>1. Holding = {} /\ Alive = {}
    BY DEF Init, Holding, Alive
<1>2. Cardinality({}) = 0
    BY FS_EmptySet
<1>3. TypeOK
    BY DEF Init, TypeOK, CheckPCs
<1> QED BY <1>1, <1>2, <1>3, SchedulerAssumption
       DEF Init, IInv, TokensCounted, AliveCounted, WatcherCount, StartOrder

(* Steps of Start and of the watcher that touch no check goroutine.        *)
LEMMA OtherSteps ==
    ASSUME IInv,
           \/ Start \/ Cancel \/ Shutdown \/ Return
           \/ \E new \in SUBSET Targets : UpdateTargets(new)
           \/ Loop \/ TickerFires \/ WatcherReturns \/ StopScan
    PROVE  IInv'
<1>1. UNCHANGED <<checks, semaphore>>
    BY DEF Start, Cancel, Shutdown, Return, UpdateTargets, Loop, TickerFires,
           WatcherReturns, StopScan
<1>2. Holding' = Holding /\ Alive' = Alive
    BY <1>1 DEF Holding, Alive
<1>3. Cardinality(Alive) \in Nat
    BY SetsFinite, FS_CardinalityType
<1>4. wg = Cardinality(Alive) + WatcherCount /\ wg \in Nat
    BY DEF IInv, AliveCounted, TypeOK
<1>5. TokensCounted'
    BY <1>1, <1>2 DEF IInv, TokensCounted
<1>6. CASE Return
    <2>1. Alive = {} /\ watcher \notin {"delay", "loop", "scheduling"}
        <3>1. Cardinality(Alive) = 0 /\ WatcherCount = 0
            BY <1>3, <1>4, <1>6 DEF Return, WatcherCount
        <3> QED BY <3>1, SetsFinite, FS_EmptySet DEF WatcherCount
    <2>2. watcher = "done"
        BY <2>1, <1>6 DEF IInv, StartOrder, TypeOK, Return
    <2> QED BY <2>1, <2>2, <1>1, <1>2, <1>4, <1>5, <1>6
            DEF Return, IInv, TypeOK, AliveCounted, WatcherCount, StartOrder
<1>7. CASE WatcherReturns
    BY <1>1, <1>2, <1>3, <1>4, <1>5, <1>7
       DEF WatcherReturns, IInv, TypeOK, AliveCounted, WatcherCount, StartOrder
<1>8. CASE Start
    BY <1>1, <1>2, <1>3, <1>4, <1>5, <1>8
       DEF Start, IInv, TypeOK, AliveCounted, WatcherCount, StartOrder
<1>9. CASE \/ Cancel \/ Shutdown \/ Loop \/ TickerFires \/ StopScan
           \/ \E new \in SUBSET Targets : UpdateTargets(new)
    BY <1>1, <1>2, <1>4, <1>5, <1>9
       DEF Cancel, Shutdown, Loop, TickerFires, StopScan, UpdateTargets,
           IInv, TypeOK, AliveCounted, WatcherCount, StartOrder
<1> QED BY <1>6, <1>7, <1>8, <1>9

LEMMA SpawnStep ==
    ASSUME IInv, NEW c \in Goroutines, NEW t \in Targets, Spawn(c, t)
    PROVE  IInv'
<1>1. /\ Holding' = Holding \ {c}
      /\ Alive' = Alive \cup {c}
      /\ checks' \in [Goroutines -> CheckPCs]
    BY GotoEffect DEF IInv, Spawn, CheckPCs
<1>2. c \notin Holding /\ c \notin Alive
    BY DEF Spawn, Holding, Alive
<1>3. Holding' = Holding /\ Cardinality(Alive') = Cardinality(Alive) + 1
    BY <1>1, <1>2, SetsFinite, Grows
<1>4. Cardinality(Alive) \in Nat /\ wg \in Nat
    BY SetsFinite, FS_CardinalityType DEF IInv, TypeOK
<1>5. TypeOK'
    BY <1>1 DEF IInv, TypeOK, Spawn
<1>6. TokensCounted'
    BY <1>3 DEF IInv, TokensCounted, Spawn
<1>7. AliveCounted'
    BY <1>3, <1>4 DEF IInv, AliveCounted, WatcherCount, Spawn
<1>8. StartOrder'
    BY DEF IInv, StartOrder, Spawn
<1> QED BY <1>5, <1>6, <1>7, <1>8 DEF IInv

LEMMA CheckStep ==
    ASSUME IInv, NEW c \in Goroutines, Check(c)
    PROVE  IInv'
<1>1. /\ Cardinality(Alive) \in Nat /\ Cardinality(Holding) \in Nat
      /\ wg \in Nat /\ semaphore \in Nat
    BY SetsFinite, FS_CardinalityType DEF IInv, TypeOK
<1>2. MaxConcurrency \in Nat
    BY SchedulerAssumption
<1>3. c \in Alive /\ start # "returned"
    BY DEF Check, Acquire, GiveUp, Run, Release, Exit, Alive, IInv, StartOrder
<1>4. UNCHANGED <<ctxDone, shutdown, start, watcher, pending, targets>>
    BY DEF Check, Acquire, GiveUp, Run, Release, Exit
<1>5. CASE Acquire(c)
    <2>1. Holding' = Holding \cup {c} /\ Alive' = Alive
          /\ checks' \in [Goroutines -> CheckPCs]
        BY <1>3, <1>5, GotoEffect DEF IInv, Acquire, CheckPCs
    <2>2. c \notin Holding
        BY <1>5 DEF Acquire, Holding
    <2>3. Cardinality(Holding') = Cardinality(Holding) + 1
        BY <2>1, <2>2, SetsFinite, Grows
    <2> QED BY <2>1, <2>3, <1>1, <1>2, <1>3, <1>4, <1>5
            DEF Acquire, IInv, TypeOK, TokensCounted, AliveCounted, WatcherCount, StartOrder
<1>6. CASE GiveUp(c)
    <2>1. Holding' = Holding /\ Alive' = Alive /\ checks' \in [Goroutines -> CheckPCs]
        <3>1. c \notin Holding
            BY <1>6 DEF GiveUp, Holding
        <3> QED BY <3>1, <1>3, <1>6, GotoEffect DEF IInv, GiveUp, CheckPCs
    <2> QED BY <2>1, <1>1, <1>3, <1>4, <1>6
            DEF GiveUp, IInv, TypeOK, TokensCounted, AliveCounted, WatcherCount, StartOrder
<1>7. CASE Run(c)
    <2>1. Holding' = Holding /\ Alive' = Alive /\ checks' \in [Goroutines -> CheckPCs]
        <3>1. c \in Holding
            BY <1>7 DEF Run, Holding
        <3> QED BY <3>1, <1>3, <1>7, GotoEffect DEF IInv, Run, CheckPCs
    <2> QED BY <2>1, <1>1, <1>3, <1>4, <1>7
            DEF Run, IInv, TypeOK, TokensCounted, AliveCounted, WatcherCount, StartOrder
<1>8. CASE Release(c)
    <2>1. Holding' = Holding \ {c} /\ Alive' = Alive
          /\ checks' \in [Goroutines -> CheckPCs]
        BY <1>3, <1>8, GotoEffect DEF IInv, Release, CheckPCs
    <2>2. c \in Holding
        BY <1>8 DEF Release, Holding
    <2>3. Cardinality(Holding') = Cardinality(Holding) - 1 /\ Cardinality(Holding) # 0
        BY <2>1, <2>2, SetsFinite, Shrinks
    <2> QED BY <2>1, <2>3, <1>1, <1>2, <1>3, <1>4, <1>8
            DEF Release, IInv, TypeOK, TokensCounted, AliveCounted, WatcherCount, StartOrder
<1>9. CASE Exit(c)
    <2>1. Holding' = Holding /\ Alive' = Alive \ {c}
          /\ checks' \in [Goroutines -> CheckPCs]
        <3>1. c \notin Holding
            BY <1>9 DEF Exit, Holding
        <3> QED BY <3>1, <1>9, GotoEffect DEF IInv, Exit, CheckPCs
    <2>2. Cardinality(Alive') = Cardinality(Alive) - 1 /\ Cardinality(Alive) # 0
        BY <2>1, <1>3, SetsFinite, Shrinks
    <2>3. wg = Cardinality(Alive) + WatcherCount /\ WatcherCount \in {0, 1}
        BY DEF IInv, AliveCounted, WatcherCount
    <2> QED BY <2>1, <2>2, <2>3, <1>1, <1>3, <1>4, <1>9
            DEF Exit, IInv, TypeOK, TokensCounted, AliveCounted, WatcherCount, StartOrder
<1> QED BY <1>5, <1>6, <1>7, <1>8, <1>9 DEF Check

LEMMA StepIInv == IInv /\ [Next]_vars => IInv'
<1> SUFFICES ASSUME IInv, [Next]_vars PROVE IInv'
    OBVIOUS
<1>1. ASSUME NEW c \in Goroutines, NEW t \in Targets, Spawn(c, t) PROVE IInv'
    BY <1>1, SpawnStep
<1>2. ASSUME NEW c \in Goroutines, Check(c) PROVE IInv'
    BY <1>2, CheckStep
<1>3. CASE UNCHANGED vars
    BY <1>3 DEF vars, IInv, TypeOK, TokensCounted, AliveCounted, WatcherCount,
                StartOrder, Holding, Alive
<1> QED BY <1>1, <1>2, <1>3, OtherSteps DEF Next

-----------------------------------------------------------------------------
(* The scheduler's state keeps its type; in particular no counter goes     *)
(* below zero (scheduler.go).                                              *)
THEOREM TypeCorrect == Spec => []TypeOK
<1>1. IInv => TypeOK
    BY DEF IInv
<1> QED BY <1>1, InitIInv, StepIInv, PTL DEF Spec

(* Never more than MaxConcurrency checks run, and no token is lost, for    *)
(* any number of goroutines and targets (scheduler.go executeCheck).       *)
THEOREM ChecksBounded == Spec => []ConcurrencyBounded
<1>1. IInv => ConcurrencyBounded
    BY DEF IInv, TokensCounted, ConcurrencyBounded
<1> QED BY <1>1, InitIInv, StepIInv, PTL DEF Spec

(* When Start has returned, neither the watcher nor any check is left      *)
(* (scheduler.go Start).                                                   *)
THEOREM StartWaitsForAll == Spec => []NothingOutlivesStart
<1>1. IInv => NothingOutlivesStart
    BY DEF IInv, StartOrder, NothingOutlivesStart
<1> QED BY <1>1, InitIInv, StepIInv, PTL DEF Spec

(* The WaitGroup is never raised from zero once Start may wait on it: the  *)
(* watcher, which alone adds to it, is counted (scheduler.go               *)
(* scheduleChecks).                                                        *)
THEOREM AddsAreCounted == Spec => AddWhileCounted
<1>1. IInv /\ [Next]_vars => [wg' > wg => start = "new" \/ wg > 0]_vars
    <2> SUFFICES ASSUME IInv, Next, wg' > wg, start # "new" PROVE wg > 0
        OBVIOUS
    <2>1. PICK c \in Goroutines, t \in Targets : Spawn(c, t)
        BY DEF IInv, TypeOK, Next, Start, Cancel, Shutdown, Return, UpdateTargets, Loop,
               TickerFires, WatcherReturns, StopScan, Check, Acquire, GiveUp, Run,
               Release, Exit
    <2>2. WatcherCount = 1 /\ Cardinality(Alive) \in Nat
        BY <2>1, SetsFinite, FS_CardinalityType DEF Spawn, WatcherCount
    <2> QED BY <2>2 DEF IInv, AliveCounted
<1> QED BY <1>1, InitIInv, StepIInv, PTL DEF Spec, AddWhileCounted

-----------------------------------------------------------------------------
Counts(b) == IF b THEN 1 ELSE 0

Started == agent \notin {"new", "failed"}

AgentTypes ==
    /\ agent \in {"new", "failed", "running", "draining", "returned", "forced"}
    /\ stopped \in BOOLEAN
    /\ refresher \in {"none", "select", "load", "update", "done"}
    /\ loaded \subseteq Targets
    /\ http \in {"none", "serving", "done"}

(* What the agent's WaitGroup counts.                                      *)
GoroutinesCounted ==
    agentWg = Counts(Started /\ start # "returned")
              + Counts(refresher \in {"select", "load", "update"})
              + Counts(http = "serving")

AgentOrder ==
    /\ ~Started => start = "new" /\ refresher = "none" /\ http = "none"
    /\ Started => refresher # "none" /\ http # "none"
    /\ agent = "returned" => start = "returned" /\ refresher = "done" /\ http = "done"

AgentInv == AgentTypes /\ GoroutinesCounted /\ AgentOrder

LEMMA AgentInitInv == AgentInit => Init /\ AgentInv
<1> SUFFICES ASSUME AgentInit PROVE Init /\ AgentInv
    OBVIOUS
<1>1. Init
    BY DEF AgentInit
<1>2. /\ start = "new" /\ agent = "new" /\ stopped = FALSE /\ agentWg = 0
      /\ refresher = "none" /\ loaded = {} /\ http = "none"
    BY <1>1 DEF AgentInit, Init
<1>3. AgentTypes
    BY <1>2 DEF AgentTypes
<1>4. GoroutinesCounted
    <2>1. /\ ~(Started /\ start # "returned")
          /\ refresher \notin {"select", "load", "update"}
          /\ http # "serving"
        BY <1>2 DEF Started
    <2> QED BY <1>2, <2>1 DEF GoroutinesCounted, Counts
<1>5. AgentOrder
    BY <1>2 DEF AgentOrder, Started
<1> QED BY <1>1, <1>3, <1>4, <1>5 DEF AgentInv

(* Every step of the agent is one of its scheduler or leaves it alone.     *)
LEMMA StepRefines == AgentInv /\ [AgentNext]_allVars => [Next]_vars
<1> SUFFICES ASSUME AgentInv, [AgentNext]_allVars PROVE [Next]_vars
    OBVIOUS
<1>1. CASE UNCHANGED allVars
    BY <1>1 DEF allVars
<1>2. CASE AgentSteps \/ Stop \/ HTTPFails \/ \E new \in SUBSET Targets : LoadTargets(new)
    BY <1>2 DEF AgentSteps, AgentStart, AgentStartFails, Drain, AgentReturns, DrainTimeout,
                Stop, HTTPFails, LoadTargets
<1>3. CASE SchedulerStart \/ SchedulerReturn \/ Signal
    BY <1>3 DEF SchedulerStart, SchedulerReturn, Signal, Scheduling, Next
<1>4. CASE Refresher
    <2>1. CASE RefreshUpdate
        <3>1. UpdateTargets(loaded) /\ loaded \in SUBSET Targets
            BY <2>1 DEF RefreshUpdate, AgentInv, AgentTypes
        <3> QED BY <3>1 DEF Next
    <2>2. CASE RefreshTick \/ LoadFails \/ RefresherReturns
        BY <2>2 DEF RefreshTick, LoadFails, RefresherReturns
    <2> QED BY <1>4, <2>1, <2>2 DEF Refresher
<1>5. CASE \/ Scheduling(Shutdown) \/ Scheduling(Loop) \/ Scheduling(TickerFires)
           \/ Scheduling(WatcherReturns) \/ Scheduling(StopScan)
    BY <1>5 DEF Scheduling, Next
<1>6. CASE \/ \E c \in Goroutines, t \in Targets : Scheduling(Spawn(c, t))
           \/ \E c \in Goroutines : Scheduling(Check(c))
    BY <1>6 DEF Scheduling, Next
<1> QED BY <1>1, <1>2, <1>3, <1>4, <1>5, <1>6 DEF AgentNext

(* What the scheduler does on its own leaves where its Start is, or takes  *)
(* it from waiting to draining.                                            *)
LEMMA SchedulingKeeps ==
    ASSUME AgentInv,
           \/ Scheduling(Shutdown) \/ Scheduling(Loop) \/ Scheduling(TickerFires)
           \/ Scheduling(WatcherReturns) \/ Scheduling(StopScan) \/ Signal
           \/ \E c \in Goroutines, t \in Targets : Scheduling(Spawn(c, t))
           \/ \E c \in Goroutines : Scheduling(Check(c))
    PROVE  AgentInv'
<1>1. UNCHANGED agentVars /\ (start' = start \/ (start = "waiting" /\ start' = "draining"))
    BY DEF Signal, Scheduling, Shutdown, Loop, TickerFires, WatcherReturns, StopScan, Cancel,
           Spawn, Check, Acquire, GiveUp, Run, Release, Exit
<1> QED BY <1>1 DEF agentVars, AgentInv, AgentTypes, GoroutinesCounted, AgentOrder, Counts,
                    Started

LEMMA AgentStepInv == AgentInv /\ [AgentNext]_allVars => AgentInv'
<1> SUFFICES ASSUME AgentInv, [AgentNext]_allVars PROVE AgentInv'
    OBVIOUS
<1> USE DEF AgentInv, AgentTypes, GoroutinesCounted, AgentOrder, Counts, Started
<1>1. CASE UNCHANGED allVars
    BY <1>1 DEF allVars, vars, agentVars
<1>2. CASE AgentSteps
    BY <1>2 DEF AgentSteps, AgentStart, AgentStartFails, Drain, AgentReturns, DrainTimeout, vars
<1>3. CASE SchedulerStart
    BY <1>3 DEF SchedulerStart, Scheduling, Start, agentVars
<1>4. CASE SchedulerReturn
    BY <1>4 DEF SchedulerReturn, Return, Done
<1>5. CASE Stop
    BY <1>5 DEF Stop, vars
<1>6. CASE Refresher
    BY <1>6 DEF Refresher, RefreshTick, LoadFails, RefreshUpdate, RefresherReturns,
                UpdateTargets, Done, vars
<1>7. CASE \E new \in SUBSET Targets : LoadTargets(new)
    BY <1>7 DEF LoadTargets, vars
<1>8. CASE HTTPFails
    BY <1>8 DEF HTTPFails, Done, vars
<1> QED BY <1>1, <1>2, <1>3, <1>4, <1>5, <1>6, <1>7, <1>8, SchedulingKeeps DEF AgentNext

-----------------------------------------------------------------------------
(* The agent implements its scheduler: whatever is proved of Spec holds in *)
(* the agent, however it is started and stopped (agent.go Start).          *)
THEOREM AgentRefinesScheduler == AgentSpec => Spec
<1> QED BY AgentInitInv, AgentStepInv, StepRefines, PTL DEF AgentSpec, Spec

(* The agent's and the scheduler's state is of its type; the agent's       *)
(* WaitGroup stays between zero and three (agent.go Start).                *)
THEOREM AgentTypeCorrect == AgentSpec => []AgentTypeOK
<1>1. TypeOK /\ AgentInv => AgentTypeOK
    BY DEF AgentTypeOK, AgentInv, AgentTypes, GoroutinesCounted, Counts
<1> QED BY <1>1, AgentInitInv, AgentStepInv, AgentRefinesScheduler, TypeCorrect,
           PTL DEF AgentSpec

(* The limit on concurrent checks, the end of all checks before the end of *)
(* the scheduler and the proper use of its WaitGroup hold in the agent     *)
(* (scheduler.go Start, executeCheck).                                     *)
THEOREM AgentSchedules ==
    AgentSpec => []ConcurrencyBounded /\ []NothingOutlivesStart /\ AddWhileCounted
BY AgentRefinesScheduler, ChecksBounded, StartWaitsForAll, AddsAreCounted, PTL

(* A return before the 30 seconds are over leaves no goroutine behind that *)
(* could use the closed result client (agent.go Start).                    *)
THEOREM ReturnsClean == AgentSpec => []CleanReturn
<1>1. NothingOutlivesStart /\ AgentInv => CleanReturn
    BY DEF NothingOutlivesStart, AgentInv, AgentOrder, CleanReturn
<1> QED BY <1>1, AgentInitInv, AgentStepInv, AgentSchedules, PTL DEF AgentSpec

-----------------------------------------------------------------------------
(* The executor: first what the layers of its checkers have in common.     *)

(* How a layer's conversation may go, and how it begins.                   *)
Conversations ==
    {<<"resolve", "ntp">>, <<"lookup">>, <<"dial">>, <<"get">>, <<"bareGet">>, <<"secret", "get">>,
     <<"dial", "read">>, <<"dial", "secret", "read">>, <<"secret", "dial", "handshake">>}

Opens(l) == l.phases[1]

Timely(answers) == {"timeout", "expired"} \cap DOMAIN answers = {}

(* An error is never taken for success, except by some layers that read,   *)
(* and by one that gets.                                                   *)
Strict(l) == l.timedOut # Passed /\ l.failed # Passed

Sane(l) ==
    /\ l.phases \in Conversations
    /\ l.limit \in {"io", "http", "redis"}
    /\ Opens(l) = "bareGet" => l.limit = "io"
    /\ l.phases \in {<<"dial", "read">>, <<"dial", "secret", "read">>} => l.limit # "http"
    /\ l.phases \in {<<"get">>, <<"bareGet">>, <<"secret", "get">>} => Timely(l.answers)
    /\ l.phases \in {Dial, <<"get">>, <<"secret", "get">>} => Strict(l)
    /\ l.phases = Dial =>
           DOMAIN l.answers = {"accepted"} /\ l.answers["accepted"] = Passed
    /\ l.phases \notin {<<"resolve", "ntp">>, <<"dial", "secret", "read">>} => l.early = {}

(* A server in good order is not taken for a broken one, but for a status  *)
(* that was not expected and for speaking only TLS.                        *)
Sound(l) ==
    /\ \A e \in l.sound \ {"other", "tlsonly"} : e \in DOMAIN l.answers /\ l.answers[e] = Passed
    /\ l.sound = {} => Timely(l.answers) /\ l.timedOut = Passed

(* What the executor relies on in the layers of a type.                    *)
Fits(t, layers) ==
    /\ DOMAIN layers \subseteq 1..7
    /\ \A i \in DOMAIN layers :
           /\ Sane(layers[i])
           /\ Opens(layers[i]) = "resolve" => i = 1
           /\ t \notin Misread => Sound(layers[i])
    /\ \A i, j \in DOMAIN layers :
           Opens(layers[j]) = "bareGet" =>
               /\ Opens(layers[i]) = "bareGet" => i = j
               /\ Opens(layers[i]) = "dial" => layers[i].limit = "io"
    /\ \A i \in DOMAIN layers :
           Opens(layers[i]) = "bareGet" /\ ~Strict(layers[i]) =>
               \E j \in DOMAIN layers :
                   /\ j < i /\ t \in layers[j].always
                   /\ Opens(layers[j]) = "dial" /\ layers[j].name # "L3"

(* The layers, by how they begin.                                          *)
LEMMA SocketSane ==
    ASSUME NEW name, NEW always, NEW answers, NEW failed, NEW sound
    PROVE  /\ Sane(Socket(name, always, answers, failed, sound))
           /\ Opens(Socket(name, always, answers, failed, sound)) = "dial"
           /\ Socket(name, always, answers, failed, sound).limit = "io"
           /\ Socket(name, always, answers, failed, sound).name = name
           /\ Socket(name, always, answers, failed, sound).always = always
BY DEF Sane, Opens, Socket, Layer, Conversations, Dial

LEMMA ConnectionSane ==
    ASSUME NEW name, NEW always
    PROVE  /\ Sane(Connection(name, always)) /\ Sound(Connection(name, always))
           /\ Opens(Connection(name, always)) = "dial"
           /\ Connection(name, always).limit = "io"
BY DEF Sane, Sound, Opens, Strict, Connection, Layer, Conversations, Dial, Passed

LEMMA PageSane ==
    ASSUME NEW name, NEW always, NEW request \in {"get", "bareGet"}, NEW answers,
           Timely(answers)
    PROVE  /\ Sane(Page(name, always, request, answers))
           /\ Opens(Page(name, always, request, answers)) = request
           /\ Strict(Page(name, always, request, answers))
BY DEF Sane, Opens, Strict, Page, Layer, Conversations, Dial, Passed

LEMMA PageSound ==
    ASSUME NEW name, NEW always, NEW request, NEW answers,
           "good" \in DOMAIN answers, answers["good"] = Passed
    PROVE  Sound(Page(name, always, request, answers))
BY DEF Sound, Page, Layer

LEMMA NodeDNSTCPFit ==
    /\ Sane(NodeSanityChecker) /\ Sound(NodeSanityChecker) /\ Opens(NodeSanityChecker) = "resolve"
    /\ Sane(DNSLayer) /\ Sound(DNSLayer) /\ Opens(DNSLayer) = "lookup"
    /\ Sane(TCPLayer) /\ Sound(TCPLayer) /\ Opens(TCPLayer) = "dial" /\ TCPLayer.limit = "io"
<1>1. Sane(NodeSanityChecker) /\ Opens(NodeSanityChecker) = "resolve"
    BY DEF Sane, Opens, NodeSanityChecker, Early, Layer, Conversations, Dial, Passed
<1>2. Sound(NodeSanityChecker)
    BY DEF Sound, NodeSanityChecker, Early, Layer, Passed
<1>3. Sane(DNSLayer) /\ Opens(DNSLayer) = "lookup"
    BY DEF Sane, Opens, DNSLayer, Layer, Conversations, Dial, Passed
<1>4. Sound(DNSLayer)
    BY DEF Sound, DNSLayer, Layer, Passed
<1>5. Sane(TCPLayer) /\ Opens(TCPLayer) = "dial" /\ TCPLayer.limit = "io"
    BY DEF Sane, Opens, Strict, TCPLayer, Layer, Conversations, Dial, Passed
<1>6. Sound(TCPLayer)
    BY DEF Sound, TCPLayer, Layer, Passed
<1> QED BY <1>1, <1>2, <1>3, <1>4, <1>5, <1>6

LEMMA TLSFits == Sane(TLSLayer) /\ Sound(TLSLayer) /\ Opens(TLSLayer) = "secret"
<1>1. Sane(TLSLayer) /\ Opens(TLSLayer) = "secret"
    BY DEF Sane, Opens, TLSLayer, Layer, Conversations, Dial, Passed
<1>2. Sound(TLSLayer)
    BY DEF Sound, TLSLayer, Layer, Passed
<1> QED BY <1>1, <1>2

LEMMA HTTPFit ==
    \A l \in {HTTPProtocolLayer, HTTPAuthLayer, HTTPSemanticLayer} :
        Sane(l) /\ Sound(l) /\ Opens(l) \in {"get", "secret"}
<1>1. Sane(HTTPProtocolLayer) /\ Opens(HTTPProtocolLayer) = "get"
    BY DEF Sane, Opens, Timely, Strict, HTTPProtocolLayer, Scheduled, Layer,
       Conversations, Dial, Passed
<1>2. Sound(HTTPProtocolLayer)
    BY DEF Sound, HTTPProtocolLayer, Scheduled, Layer, Passed
<1>3. Sane(HTTPAuthLayer) /\ Opens(HTTPAuthLayer) = "secret"
    BY DEF Sane, Opens, Timely, Strict, HTTPAuthLayer, Scheduled, Layer, Conversations, Dial, Passed
<1>4. Sound(HTTPAuthLayer)
    BY DEF Sound, HTTPAuthLayer, Scheduled, Layer, Passed
<1>5. Sane(HTTPSemanticLayer) /\ Opens(HTTPSemanticLayer) = "get"
    BY DEF Sane, Opens, Timely, Strict, HTTPSemanticLayer, Scheduled, Layer,
       Conversations, Dial, Passed
<1>6. Sound(HTTPSemanticLayer)
    BY DEF Sound, HTTPSemanticLayer, Scheduled, Layer, Passed
<1> QED BY <1>1, <1>2, <1>3, <1>4, <1>5, <1>6

(* The first three layers and those after them.                            *)
LEMMA Follows ==
    ASSUME NEW a, NEW b, NEW c, NEW S, NEW rest \in Seq(S)
    PROVE  LET s == <<a, b, c>> \o rest
           IN  /\ DOMAIN s = 1..(3 + Len(rest))
               /\ s[1] = a /\ s[2] = b /\ s[3] = c
               /\ \A k \in 1..Len(rest) : s[k + 3] = rest[k]
<1> DEFINE T == S \cup {a, b, c}
<1>1. <<a, b, c>> \in Seq(T) /\ Len(<<a, b, c>>) = 3
    OBVIOUS
<1>2. rest \in Seq(T) /\ Len(rest) \in Nat
    OBVIOUS
<1>3. /\ <<a, b, c>> \o rest \in Seq(T) /\ Len(<<a, b, c>> \o rest) = 3 + Len(rest)
      /\ \A i \in 1 .. 3 + Len(rest) : (<<a, b, c>> \o rest)[i] =
             IF i <= 3 THEN <<a, b, c>>[i] ELSE rest[i - 3]
    BY <1>1, <1>2, ConcatProperties
<1> QED BY <1>2, <1>3

(* Which layers after the first three fit.                                 *)
LEMMA RestFits ==
    ASSUME NEW t, NEW S, NEW rest \in Seq(S), Len(rest) <= 4,
           \A k \in 1..Len(rest) :
               /\ Sane(rest[k]) /\ Opens(rest[k]) # "resolve"
               /\ t \notin Misread => Sound(rest[k]),
           \A k, j \in 1..Len(rest) :
               Opens(rest[j]) = "bareGet" =>
                   /\ Opens(rest[k]) = "bareGet" => k = j
                   /\ Opens(rest[k]) = "dial" => rest[k].limit = "io",
           \A k \in 1..Len(rest) :
               Opens(rest[k]) = "bareGet" /\ ~Strict(rest[k]) =>
                   \E j \in 1..Len(rest) :
                       /\ j < k /\ t \in rest[j].always
                       /\ Opens(rest[j]) = "dial" /\ rest[j].name # "L3"
    PROVE  Fits(t, NodeDNSTCP \o rest)
<1> DEFINE s == NodeDNSTCP \o rest
           len == Len(rest)
<1>1. len \in Nat /\ len <= 4
    OBVIOUS
<1>2. /\ DOMAIN s = 1..(3 + len)
      /\ s[1] = NodeSanityChecker /\ s[2] = DNSLayer /\ s[3] = TCPLayer
      /\ \A k \in 1..len : s[k + 3] = rest[k]
    BY Follows DEF NodeDNSTCP
<1> HIDE DEF s, len
<1>3. ASSUME NEW i \in DOMAIN s
      PROVE  \/ i = 1 /\ s[i] = NodeSanityChecker
             \/ i = 2 /\ s[i] = DNSLayer
             \/ i = 3 /\ s[i] = TCPLayer
             \/ i - 3 \in 1..len /\ s[i] = rest[i - 3]
    <2>1. i \in 1..(3 + len) /\ (i > 3 => i - 3 \in 1..len /\ (i - 3) + 3 = i)
        BY <1>1, <1>2
    <2> QED BY <1>2, <2>1
<1>4. \A i \in DOMAIN s : Sane(s[i]) /\ (Opens(s[i]) = "resolve" => i = 1)
                          /\ (t \notin Misread => Sound(s[i]))
    BY <1>3, NodeDNSTCPFit DEF len
<1>5. ASSUME NEW i \in DOMAIN s, NEW j \in DOMAIN s, Opens(s[j]) = "bareGet"
      PROVE  /\ Opens(s[i]) = "bareGet" => i = j
             /\ Opens(s[i]) = "dial" => s[i].limit = "io"
    <2>1. j - 3 \in 1..len /\ s[j] = rest[j - 3]
        BY <1>3, <1>5, NodeDNSTCPFit
    <2>2. i \in Int /\ j \in Int
        BY <1>1, <1>2
    <2>3. CASE i - 3 \in 1..len /\ s[i] = rest[i - 3]
        BY <1>5, <2>1, <2>2, <2>3 DEF len
    <2> QED BY <1>3, <2>3, NodeDNSTCPFit
<1>6. ASSUME NEW i \in DOMAIN s, Opens(s[i]) = "bareGet", ~Strict(s[i])
      PROVE  \E j \in DOMAIN s : /\ j < i /\ t \in s[j].always
                                 /\ Opens(s[j]) = "dial" /\ s[j].name # "L3"
    <2>1. i - 3 \in 1..len /\ s[i] = rest[i - 3]
        BY <1>3, <1>6, NodeDNSTCPFit
    <2>2. PICK j \in 1..len : /\ j < i - 3 /\ t \in rest[j].always
                              /\ Opens(rest[j]) = "dial" /\ rest[j].name # "L3"
        BY <1>6, <2>1 DEF len
    <2>3. i \in Int /\ j + 3 \in DOMAIN s /\ j + 3 < i /\ s[j + 3] = rest[j]
        BY <1>1, <1>2, <2>2
    <2> QED BY <2>2, <2>3
<1>7. DOMAIN s \subseteq 1..7
    BY <1>1, <1>2
<1> QED BY <1>4, <1>5, <1>6, <1>7 DEF Fits, s

(* The layers that read.                                                   *)
SocketLayers ==
    {PostgreSQLProtocolLayer, PostgreSQLAuthLayer, PostgreSQLSemanticLayer,
     MySQLProtocolLayer, MySQLAuthLayer, MySQLSemanticLayer,
     RedisSemanticLayer, KafkaProtocolLayer, RabbitMQProtocolLayer, MSSQLProtocolLayer}

LEMMA SocketsFit ==
    \A l \in SocketLayers : Sane(l) /\ Opens(l) = "dial" /\ l.limit = "io"
BY SocketSane
DEF SocketLayers, PostgreSQLProtocolLayer, PostgreSQLAuthLayer, PostgreSQLSemanticLayer,
    MySQLProtocolLayer, MySQLAuthLayer, MySQLSemanticLayer,
    RedisSemanticLayer, KafkaProtocolLayer, RabbitMQProtocolLayer, MSSQLProtocolLayer

LEMMA SocketsSound == Sound(RedisSemanticLayer) /\ Sound(MSSQLProtocolLayer)
<1>1. Sound(RedisSemanticLayer)
    BY DEF Sound, RedisSemanticLayer, Socket, Layer, Passed
<1>2. Sound(MSSQLProtocolLayer)
    BY DEF Sound, Timely, MSSQLProtocolLayer, Socket, Layer, Passed
<1> QED BY <1>1, <1>2

LEMMA RedisFits ==
    \A l \in {RedisProtocolLayer, RedisAuthLayer} : Sane(l) /\ Sound(l) /\ Opens(l) = "dial"
<1>1. Sane(RedisProtocolLayer) /\ Opens(RedisProtocolLayer) = "dial"
    BY DEF Sane, Opens, RedisProtocolLayer, Scheduled, Socket, Layer, Conversations, Dial
<1>2. Sound(RedisProtocolLayer)
    BY DEF Sound, RedisProtocolLayer, Scheduled, Socket, Layer, Passed
<1>3. Sane(RedisAuthLayer) /\ Opens(RedisAuthLayer) = "dial"
    BY DEF Sane, Opens, RedisAuthLayer, Early, Layer, Conversations, Dial
<1>4. Sound(RedisAuthLayer)
    BY DEF Sound, RedisAuthLayer, Early, Layer, Passed
<1> QED BY <1>1, <1>2, <1>3, <1>4

(* The layers that only connect.                                           *)
LEMMA ConnectionsFit ==
    \A l \in {MongoDBProtocolLayer, MongoDBAuthLayer, MongoDBSemanticLayer,
              ClickHouseProtocolLayer} :
        Sane(l) /\ Sound(l) /\ Opens(l) = "dial" /\ l.limit = "io"
BY ConnectionSane
DEF MongoDBProtocolLayer, MongoDBAuthLayer, MongoDBSemanticLayer, ClickHouseProtocolLayer

(* The layers that get a page.                                             *)
LEMMA PagesFit ==
    /\ \A l \in {ElasticsearchProtocolLayer, KeycloakProtocolLayer, NginxProtocolLayer,
                 MinIOProtocolLayer, OpenSearchProtocolLayer} :
           Sane(l) /\ Sound(l) /\ Strict(l) /\ Opens(l) = "bareGet"
    /\ \A l \in {ElasticsearchAuthLayer, ElasticsearchSemanticLayer} :
           Sane(l) /\ Sound(l) /\ Opens(l) = "get"
<1>1. /\ Sane(ElasticsearchProtocolLayer) /\ Sound(ElasticsearchProtocolLayer)
      /\ Strict(ElasticsearchProtocolLayer) /\ Opens(ElasticsearchProtocolLayer) = "bareGet"
    BY PageSane, PageSound DEF Timely, ElasticsearchProtocolLayer
<1>2. /\ Sane(KeycloakProtocolLayer) /\ Sound(KeycloakProtocolLayer)
      /\ Strict(KeycloakProtocolLayer) /\ Opens(KeycloakProtocolLayer) = "bareGet"
    BY PageSane, PageSound DEF Timely, KeycloakProtocolLayer
<1>3. /\ Sane(NginxProtocolLayer) /\ Sound(NginxProtocolLayer)
      /\ Strict(NginxProtocolLayer) /\ Opens(NginxProtocolLayer) = "bareGet"
    BY PageSane, PageSound DEF Timely, NginxProtocolLayer
<1>4. /\ Sane(MinIOProtocolLayer) /\ Sound(MinIOProtocolLayer)
      /\ Strict(MinIOProtocolLayer) /\ Opens(MinIOProtocolLayer) = "bareGet"
    BY PageSane, PageSound DEF Timely, MinIOProtocolLayer
<1>5. /\ Sane(OpenSearchProtocolLayer) /\ Sound(OpenSearchProtocolLayer)
      /\ Strict(OpenSearchProtocolLayer) /\ Opens(OpenSearchProtocolLayer) = "bareGet"
    BY PageSane, PageSound DEF Timely, OpenSearchProtocolLayer
<1>6. /\ Sane(ElasticsearchAuthLayer) /\ Sound(ElasticsearchAuthLayer)
      /\ Opens(ElasticsearchAuthLayer) = "get"
    BY PageSane, PageSound DEF Timely, ElasticsearchAuthLayer
<1>7. /\ Sane(ElasticsearchSemanticLayer) /\ Sound(ElasticsearchSemanticLayer)
      /\ Opens(ElasticsearchSemanticLayer) = "get"
    BY PageSane, PageSound DEF Timely, ElasticsearchSemanticLayer
<1> QED BY <1>1, <1>2, <1>3, <1>4, <1>5, <1>6, <1>7

LEMMA RabbitMQFits ==
    /\ Sane(RabbitMQSemanticLayer) /\ Opens(RabbitMQSemanticLayer) = "bareGet"
    /\ "rabbitmq" \in RabbitMQProtocolLayer.always /\ RabbitMQProtocolLayer.name # "L3"
<1>1. Sane(RabbitMQSemanticLayer) /\ Opens(RabbitMQSemanticLayer) = "bareGet"
    BY DEF Sane, Opens, Timely, RabbitMQSemanticLayer, Layer, Conversations, Dial, Passed
<1>2. "rabbitmq" \in RabbitMQProtocolLayer.always /\ RabbitMQProtocolLayer.name # "L3"
    BY SocketSane DEF RabbitMQProtocolLayer
<1> QED BY <1>1, <1>2

LEMMA AppendConcat ==
    ASSUME NEW l
    PROVE  Append(NodeDNSTCP, l) = NodeDNSTCP \o <<l>>
<1> DEFINE T == {NodeSanityChecker, DNSLayer, TCPLayer, l}
<1>1. NodeDNSTCP \in Seq(T) /\ l \in T
    BY DEF NodeDNSTCP
<1> QED BY <1>1, AppendIsConcat

(* After the first three, layers that connect or heed the context.         *)
LEMMA PlainFits ==
    ASSUME NEW t, NEW S, NEW rest \in Seq(S), Len(rest) <= 4,
           \A l \in S : /\ Sane(l) /\ Opens(l) \in {"dial", "get", "secret"}
                        /\ t \notin Misread => Sound(l)
    PROVE  Fits(t, NodeDNSTCP \o rest)
<1>1. \A k \in 1..Len(rest) : rest[k] \in S
    OBVIOUS
<1>2. \A k \in 1..Len(rest) : /\ Sane(rest[k]) /\ Opens(rest[k]) \in {"dial", "get", "secret"}
                              /\ t \notin Misread => Sound(rest[k])
    BY <1>1
<1> QED BY <1>2, RestFits

(* Or also one that gets without the context.                              *)
LEMMA OneBareFits ==
    ASSUME NEW t, NEW S, NEW rest \in Seq(S), Len(rest) <= 4, NEW b \in 1..Len(rest),
           Sane(rest[b]), Sound(rest[b]), Strict(rest[b]), Opens(rest[b]) = "bareGet",
           \A k \in 1..Len(rest) : k # b =>
               /\ Sane(rest[k]) /\ Sound(rest[k]) /\ Opens(rest[k]) \in {"dial", "get", "secret"}
               /\ Opens(rest[k]) = "dial" => rest[k].limit = "io"
    PROVE  Fits(t, NodeDNSTCP \o rest)
<1>1. \A k \in 1..Len(rest) :
          /\ Sane(rest[k]) /\ Sound(rest[k]) /\ Opens(rest[k]) # "resolve"
          /\ Opens(rest[k]) = "bareGet" => k = b /\ Strict(rest[k])
          /\ Opens(rest[k]) = "dial" => rest[k].limit = "io"
    OBVIOUS
<1> QED BY <1>1, RestFits

(* Every type that can be registered has layers that fit.                  *)
LEMMA RegistryFits == \A t \in DOMAIN Registry : Fits(t, Registry[t])
<1>1. \A t : Fits(t, NodeDNSTCP)
    <2>1. ASSUME NEW t PROVE Fits(t, NodeDNSTCP)
        <3>1. /\ DOMAIN NodeDNSTCP = 1..3
              /\ NodeDNSTCP[1] = NodeSanityChecker /\ NodeDNSTCP[2] = DNSLayer
              /\ NodeDNSTCP[3] = TCPLayer
            BY DEF NodeDNSTCP
        <3>2. \A i \in 1..3 : i = 1 \/ i = 2 \/ i = 3
            OBVIOUS
        <3> QED BY <3>1, <3>2, NodeDNSTCPFit DEF Fits
    <2> QED BY <2>1
<1>2. \A t : Fits(t, HTTPLayers) /\ Fits(t, KubernetesLayers) /\ Fits(t, InternalCanaryLayers)
    <2> DEFINE S == {TLSLayer, HTTPProtocolLayer, HTTPAuthLayer, HTTPSemanticLayer}
    <2>1. \A l \in S : Sane(l) /\ Sound(l) /\ Opens(l) \in {"dial", "get", "secret"}
        BY TLSFits, HTTPFit
    <2>2. /\ <<TLSLayer, HTTPProtocolLayer, HTTPAuthLayer, HTTPSemanticLayer>> \in Seq(S)
          /\ <<TLSLayer, HTTPProtocolLayer>> \in Seq(S) /\ <<HTTPProtocolLayer>> \in Seq(S)
        OBVIOUS
    <2>3. /\ Len(<<TLSLayer, HTTPProtocolLayer, HTTPAuthLayer, HTTPSemanticLayer>>) <= 4
          /\ Len(<<TLSLayer, HTTPProtocolLayer>>) <= 4 /\ Len(<<HTTPProtocolLayer>>) <= 4
        OBVIOUS
    <2> HIDE DEF S
    <2> QED BY <2>1, <2>2, <2>3, PlainFits, AppendConcat
        DEF HTTPLayers, KubernetesLayers, InternalCanaryLayers
<1>3. Fits("postgresql", PostgreSQLLayers)
    <2> DEFINE S == {PostgreSQLProtocolLayer, PostgreSQLAuthLayer, PostgreSQLSemanticLayer}
    <2>1. \A l \in S : Sane(l) /\ Opens(l) \in {"dial", "get", "secret"}
        BY SocketsFit DEF SocketLayers
    <2>2. /\ <<PostgreSQLProtocolLayer, PostgreSQLAuthLayer, PostgreSQLSemanticLayer>> \in Seq(S)
          /\ Len(<<PostgreSQLProtocolLayer, PostgreSQLAuthLayer, PostgreSQLSemanticLayer>>) <= 4
        OBVIOUS
    <2> HIDE DEF S
    <2> QED BY <2>1, <2>2, PlainFits DEF PostgreSQLLayers, Misread
<1>4. Fits("mysql", MySQLLayers)
    <2> DEFINE S == {MySQLProtocolLayer, MySQLAuthLayer, MySQLSemanticLayer}
    <2>1. \A l \in S : Sane(l) /\ Opens(l) \in {"dial", "get", "secret"}
        BY SocketsFit DEF SocketLayers
    <2>2. /\ <<MySQLProtocolLayer, MySQLAuthLayer, MySQLSemanticLayer>> \in Seq(S)
          /\ Len(<<MySQLProtocolLayer, MySQLAuthLayer, MySQLSemanticLayer>>) <= 4
        OBVIOUS
    <2> HIDE DEF S
    <2> QED BY <2>1, <2>2, PlainFits DEF MySQLLayers, Misread
<1>5. Fits("redis", RedisLayers)
    <2> DEFINE S == {RedisProtocolLayer, RedisAuthLayer, RedisSemanticLayer}
    <2>1. \A l \in S : Sane(l) /\ Sound(l) /\ Opens(l) \in {"dial", "get", "secret"}
        BY SocketsFit, SocketsSound, RedisFits DEF SocketLayers
    <2>2. /\ <<RedisProtocolLayer, RedisAuthLayer, RedisSemanticLayer>> \in Seq(S)
          /\ Len(<<RedisProtocolLayer, RedisAuthLayer, RedisSemanticLayer>>) <= 4
        OBVIOUS
    <2> HIDE DEF S
    <2> QED BY <2>1, <2>2, PlainFits DEF RedisLayers
<1>6. Fits("mongodb", MongoDBLayers)
    <2> DEFINE S == {MongoDBProtocolLayer, MongoDBAuthLayer, MongoDBSemanticLayer}
    <2>1. \A l \in S : Sane(l) /\ Sound(l) /\ Opens(l) \in {"dial", "get", "secret"}
        BY ConnectionsFit
    <2>2. /\ <<MongoDBProtocolLayer, MongoDBAuthLayer, MongoDBSemanticLayer>> \in Seq(S)
          /\ Len(<<MongoDBProtocolLayer, MongoDBAuthLayer, MongoDBSemanticLayer>>) <= 4
        OBVIOUS
    <2> HIDE DEF S
    <2> QED BY <2>1, <2>2, PlainFits DEF MongoDBLayers
<1>7. Fits("elasticsearch", ElasticsearchLayers)
    <2> DEFINE S == {TLSLayer, ElasticsearchProtocolLayer, ElasticsearchAuthLayer,
                     ElasticsearchSemanticLayer}
               rest == <<TLSLayer, ElasticsearchProtocolLayer, ElasticsearchAuthLayer,
                         ElasticsearchSemanticLayer>>
    <2>1. rest \in Seq(S) /\ Len(rest) = 4
        OBVIOUS
    <2>2. /\ rest[1] = TLSLayer /\ rest[2] = ElasticsearchProtocolLayer
          /\ rest[3] = ElasticsearchAuthLayer /\ rest[4] = ElasticsearchSemanticLayer
        OBVIOUS
    <2>3. ElasticsearchLayers = NodeDNSTCP \o rest
        BY DEF ElasticsearchLayers
    <2> HIDE DEF S, rest
    <2>4. 2 \in 1..Len(rest) /\ \A k \in 1..Len(rest) : k # 2 =>
              /\ Sane(rest[k]) /\ Sound(rest[k]) /\ Opens(rest[k]) \in {"dial", "get", "secret"}
              /\ Opens(rest[k]) = "dial" => rest[k].limit = "io"
        BY <2>1, <2>2, TLSFits, PagesFit
    <2>5. /\ Sane(rest[2]) /\ Sound(rest[2]) /\ Strict(rest[2]) /\ Opens(rest[2]) = "bareGet"
        BY <2>2, PagesFit
    <2>6. Len(rest) <= 4
        BY <2>1
    <2> QED BY <2>1, <2>3, <2>4, <2>5, <2>6, OneBareFits
<1>8. Fits("kafka", KafkaLayers)
    <2> DEFINE S == {KafkaProtocolLayer}
    <2>1. \A l \in S : Sane(l) /\ Opens(l) \in {"dial", "get", "secret"}
        BY SocketsFit DEF SocketLayers
    <2>2. <<KafkaProtocolLayer>> \in Seq(S) /\ Len(<<KafkaProtocolLayer>>) <= 4
        OBVIOUS
    <2> HIDE DEF S
    <2> QED BY <2>1, <2>2, PlainFits, AppendConcat DEF KafkaLayers, Misread
<1>9. Fits("rabbitmq", RabbitMQLayers)
    <2> DEFINE S == {RabbitMQProtocolLayer, RabbitMQSemanticLayer}
               rest == <<RabbitMQProtocolLayer, RabbitMQSemanticLayer>>
    <2>1. /\ rest \in Seq(S) /\ Len(rest) = 2
          /\ rest[1] = RabbitMQProtocolLayer /\ rest[2] = RabbitMQSemanticLayer
        OBVIOUS
    <2>2. RabbitMQLayers = NodeDNSTCP \o rest
        BY DEF RabbitMQLayers
    <2> HIDE DEF S, rest
    <2>3. /\ Sane(rest[1]) /\ Opens(rest[1]) = "dial" /\ rest[1].limit = "io"
          /\ "rabbitmq" \in rest[1].always /\ rest[1].name # "L3"
          /\ Sane(rest[2]) /\ Opens(rest[2]) = "bareGet"
        BY <2>1, SocketsFit, RabbitMQFits DEF SocketLayers
    <2>4. \A k \in 1..Len(rest) : k = 1 \/ k = 2
        BY <2>1
    <2>5. \A k \in 1..Len(rest) :
              /\ Sane(rest[k]) /\ Opens(rest[k]) # "resolve"
              /\ "rabbitmq" \notin Misread => Sound(rest[k])
        BY <2>3, <2>4 DEF Misread
    <2>6. \A k, j \in 1..Len(rest) : Opens(rest[j]) = "bareGet" =>
              /\ Opens(rest[k]) = "bareGet" => k = j
              /\ Opens(rest[k]) = "dial" => rest[k].limit = "io"
        BY <2>3, <2>4
    <2>7. \A k \in 1..Len(rest) : Opens(rest[k]) = "bareGet" /\ ~Strict(rest[k]) =>
              \E j \in 1..Len(rest) : /\ j < k /\ "rabbitmq" \in rest[j].always
                                     /\ Opens(rest[j]) = "dial" /\ rest[j].name # "L3"
        <3>1. \A k \in 1..Len(rest) : Opens(rest[k]) = "bareGet" => k = 2
            BY <2>3, <2>4
        <3>2. 1 \in 1..Len(rest) /\ 1 < 2
            BY <2>1
        <3> QED BY <2>3, <3>1, <3>2
    <2>8. Len(rest) <= 4
        BY <2>1
    <2> QED BY <2>1, <2>2, <2>5, <2>6, <2>7, <2>8, RestFits
<1>10. Fits("keycloak", KeycloakLayers) /\ Fits("opensearch", OpenSearchLayers)
    <2>1. ASSUME NEW t, NEW l \in {KeycloakProtocolLayer, OpenSearchProtocolLayer}
          PROVE  Fits(t, NodeDNSTCP \o <<TLSLayer, l>>)
        <3> DEFINE rest == <<TLSLayer, l>>
        <3>1. rest \in Seq({TLSLayer, l}) /\ Len(rest) = 2 /\ rest[1] = TLSLayer /\ rest[2] = l
            OBVIOUS
        <3> HIDE DEF rest
        <3>2. /\ Sane(rest[1]) /\ Sound(rest[1]) /\ Opens(rest[1]) = "secret"
              /\ Sane(rest[2]) /\ Sound(rest[2]) /\ Strict(rest[2]) /\ Opens(rest[2]) = "bareGet"
            BY <3>1, TLSFits, PagesFit
        <3>3. Len(rest) <= 4 /\ 2 \in 1..Len(rest) /\ \A k \in 1..Len(rest) : k # 2 => k = 1
            BY <3>1
        <3>4. Fits(t, NodeDNSTCP \o rest)
            BY <3>1, <3>2, <3>3, OneBareFits
        <3> QED BY <3>4 DEF rest
    <2> QED BY <2>1 DEF KeycloakLayers, OpenSearchLayers
<1>11. Fits("nginx", NginxLayers) /\ Fits("minio", MinIOLayers)
    <2>1. ASSUME NEW t, NEW l \in {NginxProtocolLayer, MinIOProtocolLayer}
          PROVE  Fits(t, NodeDNSTCP \o <<l>>)
        <3> DEFINE rest == <<l>>
        <3>1. rest \in Seq({l}) /\ Len(rest) = 1 /\ rest[1] = l
            OBVIOUS
        <3> HIDE DEF rest
        <3>2. /\ Sane(rest[1]) /\ Sound(rest[1]) /\ Strict(rest[1])
              /\ Opens(rest[1]) = "bareGet"
            BY <3>1, PagesFit
        <3>3. Len(rest) <= 4 /\ 1 \in 1..Len(rest) /\ \A k \in 1..Len(rest) : k = 1
            BY <3>1
        <3>4. Fits(t, NodeDNSTCP \o rest)
            BY <3>1, <3>2, <3>3, OneBareFits
        <3> QED BY <3>4 DEF rest
    <2> QED BY <2>1, AppendConcat DEF NginxLayers, MinIOLayers
<1>12. Fits("mssql", MSSQLLayers) /\ Fits("clickhouse", ClickHouseLayers)
    <2>1. ASSUME NEW t, NEW l \in {MSSQLProtocolLayer, ClickHouseProtocolLayer}
          PROVE  Fits(t, NodeDNSTCP \o <<l>>)
        <3> DEFINE S == {l}
        <3>1. <<l>> \in Seq(S) /\ Len(<<l>>) <= 4
            OBVIOUS
        <3>2. Sane(l) /\ Sound(l) /\ Opens(l) = "dial"
            BY SocketsFit, SocketsSound, ConnectionsFit DEF SocketLayers
        <3>3. \A m \in S : Sane(m) /\ Sound(m) /\ Opens(m) \in {"dial", "get", "secret"}
            BY <3>2
        <3> HIDE DEF S
        <3> QED BY <3>1, <3>3, PlainFits
    <2> QED BY <2>1, AppendConcat DEF MSSQLLayers, ClickHouseLayers
<1>13. Fits("external_http", ExternalHTTPLayers)
    <2>1. /\ DOMAIN ExternalHTTPLayers = 1..4
          /\ ExternalHTTPLayers[1] = DNSLayer /\ ExternalHTTPLayers[2] = TCPLayer
          /\ ExternalHTTPLayers[3] = TLSLayer /\ ExternalHTTPLayers[4] = HTTPProtocolLayer
        BY DEF ExternalHTTPLayers
    <2>2. \A i \in 1..4 : i = 1 \/ i = 2 \/ i = 3 \/ i = 4
        OBVIOUS
    <2>3. \A i \in 1..4 : /\ Sane(ExternalHTTPLayers[i]) /\ Sound(ExternalHTTPLayers[i])
                          /\ Opens(ExternalHTTPLayers[i]) \notin {"resolve", "bareGet"}
        BY <2>1, <2>2, NodeDNSTCPFit, TLSFits, HTTPFit
    <2> QED BY <2>1, <2>3 DEF Fits
<1>14. Fits("node_to_node", NodeToNodeLayers)
    <2>1. /\ DOMAIN NodeToNodeLayers = 1..2
          /\ NodeToNodeLayers[1] = NodeSanityChecker /\ NodeToNodeLayers[2] = TCPLayer
        BY DEF NodeToNodeLayers
    <2>2. \A i \in 1..2 : i = 1 \/ i = 2
        OBVIOUS
    <2> QED BY <2>1, <2>2, NodeDNSTCPFit DEF Fits
<1> QED BY <1>1, <1>2, <1>3, <1>4, <1>5, <1>6, <1>7, <1>8, <1>9, <1>10, <1>11, <1>12, <1>13, <1>14
    DEF Registry, NetworkLayers, NodeEgressLayers

-----------------------------------------------------------------------------
(* What holds of the check under way.                                      *)
Layers == Registry[target.type]

LayerTimeout(l) ==
    IF l.limit # "io" /\ target.timeout > 0 THEN target.timeout
    ELSE IF l.limit = "http" THEN HTTPTimeout ELSE IOTimeout

BareToCome == \E i \in DOMAIN Layers : i > n /\ Opens(Layers[i]) = "bareGet"

(* A layer that connects for this target.                                  *)
Connecting(l) ==
    Enabled(l, target) /\ Phases(l, target) \notin {<< >>, <<"resolve", "ntp">>, <<"lookup">>}

(* A check under way has not failed, and one that passed ran every layer.  *)
CheckOrder ==
    /\ pc = "idle" => n = 0 /\ overrun = 0
    /\ pc # "returned" => result.success
    /\ pc = "returned" /\ result.success => ToCome = {}

(* The deadline of a connection runs.                                      *)
Deadline == Kind = "read" \/ (Kind = "secret" /\ phase > 1)

(* No layer adds its timeout to those of the layers before, but a bare get *)
(* to that of one connection or to the two of L0.                          *)
OverrunExplained ==
    /\ left > 0 => overrun = 0
    /\ pc = "layers" /\ n = 0 => left > 0
    /\ pc \in {"layers", "talking"} /\ BareToCome =>
           overrun < IOTimeout \/ overrun < 2 * NTPTimeout
    /\ pc = "talking" /\ Kind = "resolve" =>
           wait <= NTPTimeout /\ (left = 0 => overrun + wait < NTPTimeout)
    /\ pc = "talking" /\ Kind = "ntp" =>
           wait <= NTPTimeout /\ (left = 0 => overrun + wait < 2 * NTPTimeout)
    /\ pc = "talking" /\ Deadline =>
           wait <= LayerTimeout(Current) /\ (left = 0 => overrun + wait < LayerTimeout(Current))
    /\ pc = "talking" /\ Kind = "bareGet" =>
           overrun + wait < 2 * IOTimeout \/ overrun + wait < 2 * NTPTimeout + IOTimeout

(* Whatever connecting layer is done has left a server reached.            *)
ServedSince ==
    /\ pc = "talking" /\ (Deadline \/ Kind = "handshake") => served
    /\ pc # "idle" /\ result.success =>
           \A i \in DOMAIN Layers :
               i <= n /\ (pc = "talking" => i < n) /\ Connecting(Layers[i]) => served

ExecutorInv ==
    /\ ExecutorTypeOK /\ CheckOrder
    /\ OverrunExplained /\ OverrunBounded
    /\ ServedSince /\ HealthyPasses

(* The greatest of three, and the least of a few.                          *)
LEMMA MaxOfThree ==
    ASSUME NEW a \in Nat, NEW b \in Nat, NEW c \in Nat
    PROVE  /\ Max({a, b, c}) \in Nat
           /\ Max({a, b, c}) >= a /\ Max({a, b, c}) >= b /\ Max({a, b, c}) >= c
<1>1. \E x \in {a, b, c} : \A y \in {a, b, c} : x >= y
    <2>1. CASE a >= b /\ a >= c BY <2>1
    <2>2. CASE b >= a /\ b >= c BY <2>2
    <2>3. CASE c >= a /\ c >= b BY <2>3
    <2> QED BY <2>1, <2>2, <2>3
<1>2. Max({a, b, c}) \in {a, b, c} /\ \A y \in {a, b, c} : Max({a, b, c}) >= y
    BY <1>1 DEF Max
<1> QED BY <1>2

(* What bounds the overrun.                                                *)
LEMMA Bounds ==
    ASSUME NEW t \in Nat
    PROVE  LET m == Max({2 * IOTimeout, 2 * NTPTimeout + IOTimeout, t})
           IN  m \in Nat /\ m >= 2 * IOTimeout /\ m >= 2 * NTPTimeout + IOTimeout /\ m >= t
<1>1. 2 * IOTimeout \in Nat /\ 2 * NTPTimeout + IOTimeout \in Nat
    BY ExecutorAssumption
<1> QED BY <1>1, MaxOfThree

LEMMA MinOfPlaces ==
    ASSUME NEW S, S \subseteq 1..7, S # {}
    PROVE  Min(S) \in S /\ \A y \in S : Min(S) <= y
<1>1. \E x \in S : \A y \in S : x <= y
    <2>1. \A y \in S : y \in Int /\ (y = 1 \/ y = 2 \/ y = 3 \/ y = 4 \/ y = 5 \/ y = 6 \/ y = 7)
        OBVIOUS
    <2>2. CASE 1 \in S
        BY <2>1, <2>2
    <2>3. CASE 1 \notin S /\ 2 \in S
        BY <2>1, <2>3
    <2>4. CASE 1 \notin S /\ 2 \notin S /\ 3 \in S
        BY <2>1, <2>4
    <2>5. CASE 1 \notin S /\ 2 \notin S /\ 3 \notin S /\ 4 \in S
        BY <2>1, <2>5
    <2>6. CASE 1 \notin S /\ 2 \notin S /\ 3 \notin S /\ 4 \notin S /\ 5 \in S
        BY <2>1, <2>6
    <2>7. CASE 1 \notin S /\ 2 \notin S /\ 3 \notin S /\ 4 \notin S /\ 5 \notin S /\ 6 \in S
        BY <2>1, <2>7
    <2>8. CASE 1 \notin S /\ 2 \notin S /\ 3 \notin S /\ 4 \notin S /\ 5 \notin S /\ 6 \notin S
        <3>1. \A y \in S : y = 7
            BY <2>1, <2>8
        <3>2. PICK z \in S : TRUE
            OBVIOUS
        <3>3. \A y \in S : y = z /\ z <= y
            BY <3>1
        <3> QED BY <3>2, <3>3
    <2> QED BY <2>2, <2>3, <2>4, <2>5, <2>6, <2>7, <2>8
<1> QED BY <1>1 DEF Min

LEMMA UpToThree ==
    ASSUME NEW k \in {1, 2, 3}, NEW p \in 1..k
    PROVE  p \in {1, 2, 3} /\ p <= k /\ (p = 1 \/ (p = 2 /\ k >= 2) \/ (p = 3 /\ k = 3))
OBVIOUS

(* What the layers' facts say of phases and timeouts.                      *)
LEMMA Phased ==
    ASSUME NEW l, Sane(l)
    PROVE  /\ Len(l.phases) \in {1, 2, 3}
           /\ Opens(l) \in {"resolve", "lookup", "dial", "get", "bareGet", "secret"}
           /\ l.phases # << >>
<1>1. l.phases \in Conversations
    BY DEF Sane
<1> QED BY <1>1 DEF Conversations, Opens

(* What may be under way, and at which place of which conversation.        *)
At(c, p, kind) ==
    \/ c \in {<<"lookup">>, <<"dial">>, <<"get">>, <<"bareGet">>} /\ p = 1 /\ c = <<kind>>
       /\ kind \in {"lookup", "dial", "get", "bareGet"} /\ Len(c) = 1
    \/ c = <<"resolve", "ntp">> /\ p = 1 /\ kind = "resolve" /\ Len(c) = 2
    \/ c = <<"resolve", "ntp">> /\ p = 2 /\ kind = "ntp" /\ Len(c) = 2
    \/ c = <<"secret", "get">> /\ p = 1 /\ kind = "secret" /\ Len(c) = 2
    \/ c = <<"secret", "get">> /\ p = 2 /\ kind = "get" /\ Len(c) = 2
    \/ c = <<"dial", "read">> /\ p = 1 /\ kind = "dial" /\ Len(c) = 2
    \/ c = <<"dial", "read">> /\ p = 2 /\ kind = "read" /\ Len(c) = 2
    \/ c = <<"dial", "secret", "read">> /\ p = 1 /\ kind = "dial" /\ Len(c) = 3
    \/ c = <<"dial", "secret", "read">> /\ p = 2 /\ kind = "secret" /\ Len(c) = 3
    \/ c = <<"dial", "secret", "read">> /\ p = 3 /\ kind = "read" /\ Len(c) = 3
    \/ c = <<"secret", "dial", "handshake">> /\ p = 1 /\ kind = "secret" /\ Len(c) = 3
    \/ c = <<"secret", "dial", "handshake">> /\ p = 2 /\ kind = "dial" /\ Len(c) = 3
    \/ c = <<"secret", "dial", "handshake">> /\ p = 3 /\ kind = "handshake" /\ Len(c) = 3

LEMMA ConnectsLast ==
    ASSUME NEW c, NEW p, NEW kind \in {"resolve", "secret", "dial"}, At(c, p, kind), p = Len(c)
    PROVE  c = Dial /\ kind = "dial" /\ Len(c) = 1
<1> DEFINE k == Len(c)
<1>1. At(c, k, kind)
    OBVIOUS
<1>2. \/ c = <<kind>> /\ kind = "dial" /\ k = 1
      \/ k = 1 /\ k \in {2, 3}
      \/ k = 2 /\ k = 3
      \/ kind \in {"ntp", "get", "read", "handshake"}
    <2> HIDE DEF k
    <2>1. k = Len(c)
        BY DEF k
    <2> QED BY <1>1, <2>1 DEF At
<1> HIDE DEF k
<1>3. c = <<kind>> /\ kind = "dial" /\ k = 1
    BY <1>2
<1> QED BY <1>3 DEF Dial, k

LEMMA Places ==
    ASSUME NEW c \in Conversations, NEW p \in {1, 2, 3}, p <= Len(c)
    PROVE  At(c, p, c[p])
<1>1. CASE c \in {<<"lookup">>, <<"dial">>, <<"get">>, <<"bareGet">>}
    <2>1. Len(c) = 1 /\ c = <<c[1]>> /\ c[1] \in {"lookup", "dial", "get", "bareGet"}
        BY <1>1
    <2>2. p = 1
        BY <2>1
    <2> QED BY <1>1, <2>1, <2>2 DEF At
<1>2. CASE c \in {<<"resolve", "ntp">>, <<"secret", "get">>, <<"dial", "read">>}
    <2>1. Len(c) = 2
        BY <1>2
    <2>2. p = 1 \/ p = 2
        BY <2>1
    <2> QED BY <1>2, <2>1, <2>2 DEF At
<1>3. CASE c \in {<<"dial", "secret", "read">>, <<"secret", "dial", "handshake">>}
    <2>1. Len(c) = 3
        BY <1>3
    <2> QED BY <1>3, <2>1 DEF At
<1> QED BY <1>1, <1>2, <1>3 DEF Conversations

LEMMA OfTarget ==
    ASSUME NEW t \in CheckedTargets
    PROVE  /\ t.type \in DOMAIN Registry /\ t.timeout \in Nat
           /\ Fits(t.type, Registry[t.type])
           /\ CheckTimeout(t) \in Nat \ {0}
<1>1. t.type \in Types /\ t.timeout \in Timeouts
    <2> DEFINE E(ty) == IF ty \in ByStatus THEN BOOLEAN ELSE {TRUE}
    <2>1. \A ty : [type : {ty}, layers : SUBSET Names(ty), timeout : Timeouts, exact : E(ty)] =
                 [type : {ty}, layers : SUBSET Names(ty), timeout : Timeouts,
                  exact : IF ty \in ByStatus THEN BOOLEAN ELSE {TRUE}]
        OBVIOUS
    <2> HIDE DEF E
    <2>2. PICK ty \in Types :
              t \in [type : {ty}, layers : SUBSET Names(ty), timeout : Timeouts, exact : E(ty)]
        BY <2>1, Zenon DEF CheckedTargets
    <2> QED BY <2>2
<1>2. t.type \in DOMAIN Registry /\ t.timeout \in Nat
    BY <1>1, ExecutorAssumption
<1>3. CheckTimeout(t) \in Nat \ {0}
    BY <1>2, ExecutorAssumption DEF CheckTimeout
<1> QED BY <1>2, <1>3, RegistryFits

LEMMA LimitIs ==
    ASSUME ExecutorTypeOK, target.timeout \in Nat, NEW l, NEW kind
    PROVE  /\ Limit(l, kind) \in Nat
           /\ kind \in {"resolve", "ntp"} => Limit(l, kind) = NTPTimeout
           /\ kind \notin {"lookup", "resolve", "ntp"} => Limit(l, kind) = LayerTimeout(l)
           /\ LayerTimeout(l) \in Nat \ {0}
           /\ l.limit = "io" => LayerTimeout(l) = IOTimeout
           /\ l.limit # "http" => LayerTimeout(l) <= IOTimeout \/ LayerTimeout(l) = target.timeout
<1>1. left \in Nat
    BY DEF ExecutorTypeOK
<1>2. LayerTimeout(l) \in Nat \ {0}
    BY ExecutorAssumption DEF LayerTimeout
<1>3. kind \notin {"lookup", "resolve", "ntp"} => Limit(l, kind) = LayerTimeout(l)
    BY ExecutorAssumption DEF Limit, LayerTimeout
<1>4. kind = "lookup" => Limit(l, kind) = left
    BY DEF Limit
<1>5. kind \in {"resolve", "ntp"} => Limit(l, kind) = NTPTimeout /\ NTPTimeout \in Nat
    BY ExecutorAssumption DEF Limit
<1>6. /\ l.limit = "io" => LayerTimeout(l) = IOTimeout
      /\ l.limit # "http" => LayerTimeout(l) <= IOTimeout \/ LayerTimeout(l) = target.timeout
    BY ExecutorAssumption DEF LayerTimeout
<1> QED BY <1>1, <1>2, <1>3, <1>4, <1>5, <1>6

(* The layer under way, and its phase.                                     *)
LEMMA UnderWay ==
    ASSUME ExecutorTypeOK, pc = "talking"
    PROVE  /\ target \in CheckedTargets /\ target.timeout \in Nat
           /\ n \in 1..7 /\ n \in DOMAIN Layers /\ Current = Layers[n]
           /\ Sane(Current) /\ Fits(target.type, Layers)
           /\ phase \in {1, 2, 3} /\ phase <= Len(Current.phases)
           /\ Len(Current.phases) \in {1, 2, 3}
           /\ phase = 1 => Kind = Opens(Current)
           /\ At(Current.phases, phase, Kind)
<1>1. target \in CheckedTargets /\ n \in DOMAIN Layers /\ phase \in 1..Len(Current.phases)
    BY DEF ExecutorTypeOK, Layers
<1>2. target.timeout \in Nat /\ Fits(target.type, Layers)
    BY <1>1, OfTarget DEF Layers
<1>3. Current = Layers[n]
    BY DEF Current, Layers
<1>4. Sane(Current) /\ n \in 1..7
    BY <1>1, <1>2, <1>3 DEF Fits
<1>5. phase \in {1, 2, 3} /\ phase <= Len(Current.phases) /\ Len(Current.phases) \in {1, 2, 3}
    <2> DEFINE k == Len(Current.phases)
    <2>1. k \in {1, 2, 3} /\ phase \in 1..k
        BY <1>1, <1>4, Phased
    <2> HIDE DEF k
    <2>2. phase \in {1, 2, 3} /\ phase <= k
        BY <2>1, UpToThree
    <2> QED BY <2>1, <2>2 DEF k
<1>6. phase = 1 => Kind = Opens(Current)
    BY DEF Kind, Opens
<1>7. At(Current.phases, phase, Kind)
    BY <1>4, <1>5, Places DEF Sane, Kind
<1> QED BY ONLY <1>1, <1>2, <1>3, <1>4, <1>5, <1>6, <1>7

(* The codes.  Of a connection that a second phase follows, no error is    *)
(* taken for success.                                                      *)
LEMMA ErrorCodes ==
    ASSUME NEW e, NEW default, default # Passed
    PROVE  ExtractFailureCode(e, default) # Passed
BY DEF ExtractFailureCode, Passed

LEMMA ConnectFails ==
    ASSUME NEW l, NEW e, Len(l.phases) \in {2, 3}
    PROVE  Code(l, "dial", e) # Passed
<1>1. ExtractFailureCode(e, IF l.name = "L3" THEN "tcp_timeout" ELSE "protocol_error") # Passed
    BY ErrorCodes DEF Passed
<1> QED BY <1>1 DEF Code, Passed

(* Nor is a Secret that cannot be read.                                    *)
LEMMA SecretCode ==
    ASSUME NEW l, NEW e
    PROVE  /\ e \in l.early => Code(l, "secret", e) = l.answers[e]
           /\ e \notin l.early => Code(l, "secret", e) # Passed
<1>1. ExtractFailureCode(e, "config_error") # Passed
    BY ErrorCodes DEF Passed
<1> QED BY <1>1 DEF Code

LEMMA LastCode ==
    ASSUME NEW l, NEW kind, NEW e, kind # "secret", kind # "dial" \/ Len(l.phases) = 1
    PROVE  /\ e \in DOMAIN l.answers => Code(l, kind, e) = l.answers[e]
           /\ e \notin DOMAIN l.answers /\ Strict(l) => Code(l, kind, e) # Passed
           /\ e \notin DOMAIN l.answers /\ e = "timeout" => Code(l, kind, e) = l.timedOut
<1>1. l.failed # Passed => ExtractFailureCode(e, l.failed) # Passed
    BY ErrorCodes
<1>2. kind # "secret" /\ ~(kind = "dial" /\ Len(l.phases) > 1)
    <2> DEFINE k == Len(l.phases)
    <2>1. kind # "dial" \/ k = 1
        OBVIOUS
    <2> HIDE DEF k
    <2>2. k = 1 => ~(k > 1)
        OBVIOUS
    <2> QED BY <2>1, <2>2 DEF k
<1>3. Code(l, kind, e) = IF e \in DOMAIN l.answers THEN l.answers[e]
                         ELSE IF e = "timeout" \/ l.failed = Passed THEN l.timedOut
                         ELSE ExtractFailureCode(e, l.failed)
    BY <1>2 DEF Code
<1> QED BY <1>1, <1>3 DEF Strict

(* What the end of a phase comes to.                                       *)
LEMMA PhaseEndsCases ==
    ASSUME ExecutorTypeOK, pc = "talking", NEW e, PhaseEnds(e)
    PROVE  \/ /\ e = "accepted" /\ phase < Len(Current.phases)
              /\ NextPhase /\ phase' = phase + 1 /\ pc' = "talking" /\ result' = result
           \/ /\ Code(Current, Kind, e) = Passed
              /\ pc' = "layers" /\ phase' = 0 /\ wait' = 0
              /\ result' = [result EXCEPT !.finalLayer = Current.name]
           \/ /\ Code(Current, Kind, e) # Passed
              /\ e = "accepted" => phase = Len(Current.phases)
              /\ pc' = "returned" /\ phase' = 0 /\ wait' = 0
              /\ DOMAIN result' = DOMAIN NoResult /\ result'.success = FALSE
<1>1. phase \in {1, 2, 3} /\ phase <= Len(Current.phases) /\ Len(Current.phases) \in {1, 2, 3}
    BY UnderWay
<1>2. CASE e = "accepted" /\ phase < Len(Current.phases)
    <2>1. NextPhase
        BY <1>2 DEF PhaseEnds
    <2> QED BY <1>2, <2>1 DEF NextPhase
<1>3. CASE ~(e = "accepted" /\ phase < Len(Current.phases))
    <2>1. IF Code(Current, Kind, e) = Passed THEN LayerPasses
          ELSE LayerFails(Code(Current, Kind, e))
        BY <1>3 DEF PhaseEnds
    <2>2. CASE Code(Current, Kind, e) = Passed
        BY <2>1, <2>2 DEF LayerPasses
    <2>3. CASE Code(Current, Kind, e) # Passed
        <3>1. DOMAIN result' = DOMAIN NoResult /\ result'.success = FALSE
            BY <2>1, <2>3 DEF LayerFails, NoResult
        <3>2. e = "accepted" => phase = Len(Current.phases)
            BY <1>1, <1>3
        <3> QED BY <2>1, <2>3, <3>1, <3>2 DEF LayerFails
    <2> QED BY <2>2, <2>3
<1> QED BY <1>2, <1>3

(* The next phase of a conversation.                                       *)
LEMMA NextPhaseIs ==
    ASSUME ExecutorTypeOK, pc = "talking", phase < Len(Current.phases), NextPhase,
           UNCHANGED <<target, n>>
    PROVE  /\ phase' \in {2, 3} /\ phase' <= Len(Current.phases) /\ Current' = Current
           /\ wait' \in Nat
           /\ \/ Kind = "resolve" /\ Kind' = "ntp" /\ wait' = NTPTimeout
              \/ Kind = "secret" /\ phase = 1 /\ Kind' \in {"get", "dial"}
              \/ Kind = "dial" /\ Kind' = "handshake"
              \/ Kind = "dial" /\ Kind' \in {"read", "secret"} /\ wait' = LayerTimeout(Current)
              \/ Kind = "secret" /\ phase = 2 /\ Kind' = "read" /\ wait' = wait
<1>1. /\ target.timeout \in Nat /\ phase \in {1, 2, 3} /\ At(Current.phases, phase, Kind)
      /\ Len(Current.phases) \in {1, 2, 3}
    BY UnderWay
<1>2. Current' = Current /\ phase' = phase + 1 /\ Kind' = Current.phases[phase + 1]
    BY DEF Current, NextPhase, Kind
<1>3. wait' = IF Kind = "secret" /\ Kind' = "read" THEN wait ELSE Limit(Current, Kind')
    BY <1>2 DEF NextPhase
<1>4. wait \in Nat
    BY DEF ExecutorTypeOK
<1>5. phase' \in {2, 3} /\ phase' <= Len(Current.phases)
    BY <1>1, <1>2
<1>6. \/ Kind = "resolve" /\ Kind' = "ntp"
      \/ Kind = "secret" /\ phase = 1 /\ Kind' \in {"get", "dial"}
      \/ Kind = "dial" /\ Kind' = "handshake"
      \/ Kind = "dial" /\ Kind' \in {"read", "secret"}
      \/ Kind = "secret" /\ phase = 2 /\ Kind' = "read"
    BY <1>1, <1>2 DEF At
<1>7. /\ Limit(Current, Kind') \in Nat
      /\ Kind' = "ntp" => Limit(Current, Kind') = NTPTimeout
      /\ Kind' \in {"read", "secret"} => Limit(Current, Kind') = LayerTimeout(Current)
    BY <1>1, LimitIs
<1> QED BY <1>2, <1>3, <1>4, <1>5, <1>6, <1>7

(* The layer that begins.                                                  *)
LEMMA NextLayerBegins ==
    ASSUME ExecutorTypeOK, NextLayer
    PROVE  /\ target \in CheckedTargets /\ target.timeout \in Nat
           /\ Fits(target.type, Layers)
           /\ n' \in DOMAIN Layers /\ n' \in 1..7 /\ n' > n
           /\ \A i \in DOMAIN Layers : i > n /\ Enabled(Layers[i], target) => n' <= i
           /\ Sane(Layers[n'])
           /\ \/ /\ Phases(Layers[n'], target) = << >> /\ pc' = "layers"
                 /\ phase' = phase /\ wait' = wait
                 /\ result' = [result EXCEPT !.finalLayer = Layers[n'].name]
              \/ /\ pc' = "talking" /\ phase' = 1 /\ result' = result
                 /\ wait' = Limit(Layers[n'], Opens(Layers[n']))
           /\ UNCHANGED <<target, left, overrun, healthy, served>>
<1>1. target \in CheckedTargets
    BY DEF ExecutorTypeOK, NextLayer
<1>2. target.timeout \in Nat /\ Fits(target.type, Layers)
    BY <1>1, OfTarget DEF Layers
<1>3. ToCome \subseteq 1..7 /\ ToCome # {} /\ ToCome \subseteq DOMAIN Layers
    BY <1>2 DEF ToCome, Fits, Layers, NextLayer
<1>4. n' \in ToCome /\ \A i \in ToCome : n' <= i
    BY <1>3, MinOfPlaces DEF NextLayer
<1>5. /\ n' \in DOMAIN Layers /\ n' \in 1..7 /\ n' > n
      /\ \A i \in DOMAIN Layers : i > n /\ Enabled(Layers[i], target) => n' <= i
    BY <1>3, <1>4 DEF ToCome, Layers
<1>6. Sane(Layers[n'])
    BY <1>2, <1>5 DEF Fits
<1>7. \/ /\ Phases(Layers[n'], target) = << >> /\ pc' = "layers"
         /\ phase' = phase /\ wait' = wait
         /\ result' = [result EXCEPT !.finalLayer = Layers[n'].name]
      \/ /\ pc' = "talking" /\ phase' = 1 /\ result' = result
         /\ wait' = Limit(Layers[n'], Opens(Layers[n']))
    BY DEF NextLayer, Layers, Opens
<1> QED BY <1>1, <1>2, <1>5, <1>6, <1>7 DEF NextLayer

(* The parts of the inductive invariant, each over every action.           *)
LEMMA ExecutorTypeStep ==
    ASSUME ExecutorTypeOK, [ExecutorNext]_executorVars
    PROVE  ExecutorTypeOK'
<1>0. left \in Nat /\ wait \in Nat /\ overrun \in Nat /\ n \in Nat /\ phase \in Nat
    BY DEF ExecutorTypeOK
<1>00. /\ DOMAIN result = DOMAIN NoResult /\ result.success \in BOOLEAN
       /\ healthy \in BOOLEAN /\ served \in BOOLEAN
    BY DEF ExecutorTypeOK
<1>1. CASE Begin
    <2>1. target' \in CheckedTargets /\ pc' = "layers" /\ left' = CheckTimeout(target')
        BY <1>1 DEF Begin
    <2>2. left' \in Nat
        BY <2>1, OfTarget
    <2> QED BY <1>0, <1>00, <1>1, <2>1, <2>2 DEF Begin, ExecutorTypeOK
<1>2. CASE NextLayer
    <2>1. /\ target' \in CheckedTargets /\ target' = target /\ target.timeout \in Nat
          /\ n' \in DOMAIN Layers /\ n' \in Nat /\ Sane(Layers[n'])
          /\ left' \in Nat /\ overrun' \in Nat /\ healthy' \in BOOLEAN /\ served' \in BOOLEAN
        BY <1>0, <1>00, <1>2, NextLayerBegins
    <2>2. CASE pc' = "layers"
        <3>1. /\ phase' = phase /\ wait' = wait
              /\ result' = [result EXCEPT !.finalLayer = Layers[n'].name]
            BY <1>2, <2>2, NextLayerBegins
        <3>2. DOMAIN result' = DOMAIN NoResult /\ result'.success \in BOOLEAN
            BY <1>00, <3>1 DEF NoResult
        <3>3. phase' \in Nat /\ wait' \in Nat
            BY <1>0, <3>1
        <3> QED BY <2>1, <2>2, <3>2, <3>3 DEF ExecutorTypeOK
    <2>3. CASE pc' # "layers"
        <3>1. /\ pc' = "talking" /\ phase' = 1 /\ result' = result
              /\ wait' = Limit(Layers[n'], Opens(Layers[n']))
            BY <1>2, <2>3, NextLayerBegins
        <3>2. wait' \in Nat
            BY <2>1, <3>1, LimitIs
        <3>3. n' \in DOMAIN Registry[target'.type] /\ Current' = Layers[n']
            BY <2>1 DEF Layers, Current
        <3>4. phase' \in 1..Len(Current'.phases)
            <4>1. Len(Layers[n'].phases) \in {1, 2, 3}
                BY <2>1, Phased
            <4>2. \A k \in {1, 2, 3} : 1 \in 1..k
                OBVIOUS
            <4> QED BY <3>1, <3>3, <4>1, <4>2
        <3> QED BY <1>00, <2>1, <3>1, <3>2, <3>3, <3>4 DEF ExecutorTypeOK
    <2> QED BY <2>2, <2>3
<1>3. CASE LayersDone
    BY <1>3 DEF LayersDone, ExecutorTypeOK
<1>4. ASSUME NEW e, pc = "talking", PhaseEnds(e), UNCHANGED <<target, n, left, overrun>>,
             healthy' \in BOOLEAN, served' \in BOOLEAN
      PROVE  ExecutorTypeOK'
    <2>1. /\ target' \in CheckedTargets /\ target.timeout \in Nat
          /\ n' \in DOMAIN Registry[target'.type]
          /\ Current' = Current
        BY <1>4, UnderWay DEF Layers, Current
    <2>2. CASE pc' = "talking"
        <3>1. phase < Len(Current.phases) /\ NextPhase /\ result' = result
            BY <1>4, <2>2, PhaseEndsCases
        <3>2. wait' \in Nat /\ phase' \in {2, 3} /\ phase' <= Len(Current.phases)
            BY <1>4, <3>1, NextPhaseIs
        <3>3. phase' \in 1..Len(Current'.phases)
            <4>1. Len(Current.phases) \in {1, 2, 3}
                BY <1>4, UnderWay
            <4>2. phase' \in 1..Len(Current.phases)
                BY ONLY <3>2, <4>1
            <4> QED BY <2>1, <4>2
        <3> QED BY <1>0, <1>00, <1>4, <2>1, <2>2, <3>1, <3>2, <3>3 DEF ExecutorTypeOK
    <2>3. CASE pc' = "layers"
        <3>1. /\ phase' = 0 /\ wait' = 0
              /\ result' = [result EXCEPT !.finalLayer = Current.name]
            BY <1>4, <2>3, PhaseEndsCases
        <3>2. DOMAIN result' = DOMAIN NoResult /\ result'.success \in BOOLEAN
            BY <1>00, <3>1 DEF NoResult
        <3> QED BY <1>0, <1>4, <2>1, <2>3, <3>1, <3>2 DEF ExecutorTypeOK
    <2>4. CASE pc' \notin {"talking", "layers"}
        <3>1. /\ pc' = "returned" /\ phase' = 0 /\ wait' = 0
              /\ DOMAIN result' = DOMAIN NoResult /\ result'.success = FALSE
            BY <1>4, <2>4, PhaseEndsCases
        <3> QED BY <1>0, <1>4, <2>1, <3>1 DEF ExecutorTypeOK
    <2> QED BY <2>2, <2>3, <2>4
<1>5. CASE Answer
    <2>1. PICK e \in Answers \cup Errors :
              /\ PhaseEnds(e)
              /\ healthy' = (healthy /\ Healthy(e))
              /\ served' = \/ served
                           \/ Kind \notin {"resolve", "ntp", "lookup", "secret"} /\ e \in Answers
        BY <1>5 DEF Answer
    <2>2. healthy' \in BOOLEAN /\ served' \in BOOLEAN
        BY <1>00, <2>1
    <2> QED BY <1>4, <1>5, <2>1, <2>2 DEF Answer
<1>6. CASE Expire
    <2>1. healthy' = (healthy /\ Kind = "read" /\ Current.sound = {}) /\ served' = served
        BY <1>6 DEF Expire
    <2>2. healthy' \in BOOLEAN /\ served' \in BOOLEAN
        BY <1>00, <2>1
    <2> QED BY <1>4, <1>6, <2>2 DEF Expire
<1>7. CASE ContextEnds
    BY <1>00, <1>4, <1>7 DEF ContextEnds
<1>8. CASE Tick
    <2>1. /\ wait' = IF wait > 0 THEN wait - 1 ELSE 0
          /\ left' = IF left > 0 THEN left - 1 ELSE 0
          /\ overrun' \in {0, overrun, overrun + 1}
          /\ UNCHANGED <<pc, target, n, phase, result, healthy, served>>
        BY <1>0, <1>8 DEF Tick
    <2>2. wait' \in Nat /\ left' \in Nat /\ overrun' \in Nat /\ Current' = Current
        BY <1>0, <2>1 DEF Current
    <2> QED BY <2>1, <2>2 DEF ExecutorTypeOK
<1>9. CASE CheckReturns
    BY <1>9 DEF CheckReturns, ExecutorTypeOK, NoResult
<1>10. CASE UNCHANGED executorVars
    BY <1>10 DEF executorVars, ExecutorTypeOK, Current
<1> QED BY <1>1, <1>2, <1>3, <1>5, <1>6, <1>7, <1>8, <1>9, <1>10 DEF ExecutorNext

LEMMA CheckOrderStep ==
    ASSUME ExecutorTypeOK, CheckOrder, [ExecutorNext]_executorVars
    PROVE  CheckOrder'
<1>0. /\ pc = "idle" => n = 0 /\ overrun = 0
      /\ pc # "returned" => result.success
      /\ DOMAIN result = DOMAIN NoResult
    BY DEF CheckOrder, ExecutorTypeOK
<1>1. CASE Begin
    BY <1>0, <1>1 DEF Begin, CheckOrder
<1>2. CASE NextLayer
    <2>1. /\ pc # "returned" /\ pc' \in {"layers", "talking"}
          /\ result' = result \/ result' = [result EXCEPT !.finalLayer = Layers[n'].name]
        BY <1>2, NextLayerBegins DEF NextLayer
    <2>2. result'.success = result.success
        BY <1>0, <2>1 DEF NoResult
    <2> QED BY <1>0, <2>1, <2>2 DEF CheckOrder
<1>3. CASE LayersDone
    <2>1. ToCome' = ToCome /\ pc' = "returned" /\ ToCome = {}
        BY <1>3 DEF LayersDone, ToCome, Enabled
    <2> QED BY <2>1 DEF CheckOrder
<1>4. ASSUME NEW e, pc = "talking", PhaseEnds(e)
      PROVE  CheckOrder'
    <2>1. \/ /\ pc' \in {"layers", "talking"}
             /\ result' = result \/ result' = [result EXCEPT !.finalLayer = Current.name]
          \/ pc' = "returned" /\ result'.success = FALSE
        BY <1>4, PhaseEndsCases
    <2>2. pc' \in {"layers", "talking"} => result'.success = result.success
        BY <1>0, <2>1 DEF NoResult
    <2> QED BY <1>0, <1>4, <2>1, <2>2 DEF CheckOrder
<1>5. CASE Answer
    BY <1>4, <1>5 DEF Answer
<1>6. CASE Expire
    BY <1>4, <1>6 DEF Expire
<1>7. CASE ContextEnds
    BY <1>4, <1>7 DEF ContextEnds
<1>8. CASE Tick
    BY <1>0, <1>8 DEF Tick, CheckOrder
<1>9. CASE CheckReturns
    BY <1>9 DEF CheckReturns, CheckOrder, NoResult
<1>10. CASE UNCHANGED executorVars
    BY <1>10 DEF executorVars, CheckOrder, ToCome, Enabled
<1> QED BY <1>1, <1>2, <1>3, <1>5, <1>6, <1>7, <1>8, <1>9, <1>10 DEF ExecutorNext

(* What a layer that does not heed the context leaves of its time.         *)
LEMMA OverrunStep ==
    ASSUME ExecutorTypeOK, CheckOrder, OverrunExplained, OverrunBounded,
           [ExecutorNext]_executorVars
    PROVE  OverrunExplained' /\ OverrunBounded'
<1>0. /\ left \in Nat /\ wait \in Nat /\ overrun \in Nat /\ n \in Nat
      /\ IOTimeout \in Nat \ {0} /\ NTPTimeout \in Nat \ {0}
    BY ExecutorAssumption DEF ExecutorTypeOK
<1>1. CASE Begin
    <2>1. /\ target' \in CheckedTargets /\ pc' = "layers" /\ left' = CheckTimeout(target')
          /\ n' = 0 /\ overrun' = 0
        BY <1>1 DEF Begin, CheckOrder
    <2>2. left' > 0 /\ left' \in Nat /\ target'.timeout \in Nat
        BY <2>1, OfTarget
    <2>3. OverrunBounded'
        <3> DEFINE m == Max({2 * IOTimeout, 2 * NTPTimeout + IOTimeout, target'.timeout})
        <3>1. m \in Nat /\ m >= 2 * IOTimeout
            BY <2>2, Bounds
        <3> HIDE DEF m
        <3>2. overrun' < m
            BY <1>0, <2>1, <3>1
        <3> QED BY <3>2 DEF OverrunBounded, m
    <2> QED BY <1>0, <2>1, <2>2, <2>3 DEF OverrunExplained
<1>2. CASE NextLayer
    <2>1. /\ target \in CheckedTargets /\ target.timeout \in Nat
          /\ Fits(target.type, Layers)
          /\ n' \in DOMAIN Layers /\ n' \in 1..7 /\ n' > n
          /\ Sane(Layers[n'])
          /\ UNCHANGED <<target, left, overrun, healthy, served>>
          /\ pc = "layers"
        BY <1>2, NextLayerBegins DEF NextLayer
    <2>2. /\ pc' \in {"layers", "talking"}
          /\ pc' = "talking" => phase' = 1 /\ wait' = Limit(Layers[n'], Opens(Layers[n']))
        BY <1>2, NextLayerBegins
    <2>3. /\ Layers' = Layers /\ Current' = Layers[n']
          /\ LayerTimeout(Current)' = LayerTimeout(Layers[n'])
        BY <2>1 DEF Layers, Current, LayerTimeout
    <2>4. pc' = "talking" => Kind' = Opens(Layers[n']) /\ ~Deadline'
                             /\ Kind' \in {"resolve", "lookup", "dial", "get", "bareGet", "secret"}
        <3>1. pc' = "talking" => Kind' = Opens(Layers[n'])
            BY <2>2, <2>3 DEF Kind, Opens
        <3>2. Opens(Layers[n']) \in {"resolve", "lookup", "dial", "get", "bareGet", "secret"}
            BY <2>1, Phased
        <3> QED BY <2>2, <3>1, <3>2 DEF Deadline
    <2>5. OverrunBounded'
        BY <2>1 DEF OverrunBounded
    <2>6. /\ left > 0 => overrun = 0
          /\ n = 0 => left > 0
          /\ BareToCome => overrun < IOTimeout \/ overrun < 2 * NTPTimeout
        BY <2>1 DEF OverrunExplained
    <2>7. (BareToCome)' => BareToCome
        <3>1. \A i \in DOMAIN Layers : i \in Int
            BY <2>1 DEF Fits
        <3>2. \A i \in DOMAIN Layers : i > n' => i > n
            BY <1>0, <2>1, <3>1
        <3> QED BY <2>3, <3>2 DEF BareToCome
    <2>8. pc' = "talking" /\ Kind' = "resolve" =>
              wait' <= NTPTimeout /\ (left' = 0 => overrun' + wait' < NTPTimeout)
        <3>1. SUFFICES ASSUME pc' = "talking", Opens(Layers[n']) = "resolve"
                       PROVE  wait' <= NTPTimeout /\ left' > 0
            BY <1>0, <2>1, <2>4
        <3>2. n' = 1 /\ n = 0
            BY <1>0, <2>1, <3>1 DEF Fits
        <3>3. wait' = NTPTimeout
            BY <2>1, <2>2, <3>1, LimitIs
        <3> QED BY <1>0, <2>1, <2>6, <3>2, <3>3
    <2>9. pc' = "talking" /\ Kind' = "bareGet" =>
              overrun' + wait' < 2 * IOTimeout \/ overrun' + wait' < 2 * NTPTimeout + IOTimeout
        <3>1. SUFFICES ASSUME pc' = "talking", Opens(Layers[n']) = "bareGet"
                       PROVE  \/ overrun' + wait' < 2 * IOTimeout
                              \/ overrun' + wait' < 2 * NTPTimeout + IOTimeout
            BY <2>4
        <3>2. Layers[n'].limit = "io" /\ BareToCome
            BY <2>1, <3>1 DEF Sane, BareToCome
        <3>3. wait' = IOTimeout
            BY <2>1, <2>2, <3>1, <3>2, LimitIs
        <3> QED BY <1>0, <2>1, <2>6, <3>2, <3>3
    <2>10. ~(pc' = "layers" /\ n' = 0)
        BY <2>1
    <2> QED BY <2>1, <2>4, <2>5, <2>6, <2>7, <2>8, <2>9, <2>10 DEF OverrunExplained
<1>3. CASE LayersDone
    BY <1>3 DEF LayersDone, OverrunExplained, OverrunBounded
<1>4. ASSUME NEW e, pc = "talking", PhaseEnds(e), UNCHANGED <<target, n, left, overrun>>,
             e = "accepted" => InTime
      PROVE  OverrunExplained' /\ OverrunBounded'
    <2>1. /\ target.timeout \in Nat /\ n \in 1..7 /\ Layers' = Layers
          /\ LayerTimeout(Current) \in Nat \ {0}
        BY <1>4, UnderWay, LimitIs DEF Layers
    <2>2. OverrunBounded' /\ (BareToCome)' = BareToCome
        BY <1>4 DEF OverrunBounded, BareToCome, Layers
    <2>3. /\ left > 0 => overrun = 0
          /\ BareToCome => overrun < IOTimeout \/ overrun < 2 * NTPTimeout
        BY <1>4 DEF OverrunExplained
    <2>4. CASE pc' = "talking"
        <3>1. e = "accepted" /\ phase < Len(Current.phases) /\ NextPhase
            BY <1>4, <2>4, PhaseEndsCases
        <3>2. Current' = Current /\ phase' \in {2, 3}
            BY <1>4, <3>1, NextPhaseIs
        <3>3. LayerTimeout(Current)' = LayerTimeout(Current)
            BY <1>4, <3>2 DEF LayerTimeout
        <3>4. CASE Kind = "resolve" /\ Kind' = "ntp" /\ wait' = NTPTimeout
            <4>1. left = 0 => overrun + wait < NTPTimeout
                BY <1>4, <3>4 DEF OverrunExplained
            <4>2. wait' <= NTPTimeout /\ (left' = 0 => overrun' + wait' < 2 * NTPTimeout)
                BY <1>0, <1>4, <3>4, <4>1
            <4> QED BY <1>4, <2>2, <2>3, <2>4, <3>4, <4>2 DEF OverrunExplained, Deadline
        <3>5. CASE Kind = "secret" /\ phase = 1 /\ Kind' \in {"get", "dial"}
            BY <1>4, <2>2, <2>3, <2>4, <3>5 DEF OverrunExplained, Deadline
        <3>6. CASE Kind = "dial" /\ Kind' = "handshake"
            BY <1>4, <2>2, <2>3, <2>4, <3>6 DEF OverrunExplained, Deadline
        <3>7. CASE /\ Kind = "dial" /\ Kind' \in {"read", "secret"}
                   /\ wait' = LayerTimeout(Current)
            <4>1. left > 0
                BY <1>4, <3>1, <3>7 DEF InTime, HeedsContext
            <4>2. wait' <= LayerTimeout(Current)' /\ left' # 0
                BY <1>0, <1>4, <2>1, <3>3, <3>7, <4>1
            <4> QED BY <1>4, <2>2, <2>3, <2>4, <3>7, <4>2 DEF OverrunExplained
        <3>8. CASE Kind = "secret" /\ phase = 2 /\ Kind' = "read" /\ wait' = wait
            <4>1. /\ wait <= LayerTimeout(Current)
                  /\ left = 0 => overrun + wait < LayerTimeout(Current)
                BY <1>4, <3>8 DEF OverrunExplained, Deadline
            <4>2. /\ wait' <= LayerTimeout(Current)'
                  /\ left' = 0 => overrun' + wait' < LayerTimeout(Current)'
                BY <1>4, <3>3, <3>8, <4>1
            <4> QED BY <1>4, <2>2, <2>3, <2>4, <3>8, <4>2 DEF OverrunExplained
        <3> QED BY <1>4, <3>1, <3>4, <3>5, <3>6, <3>7, <3>8, NextPhaseIs
    <2>5. CASE pc' # "talking"
        <3>1. pc' \in {"layers", "returned"}
            BY <1>4, <2>5, PhaseEndsCases
        <3>2. n' # 0
            BY <1>4, <2>1
        <3> QED BY <1>4, <2>2, <2>3, <3>1, <3>2 DEF OverrunExplained
    <2> QED BY <2>4, <2>5
<1>5. CASE Answer
    BY <1>4, <1>5 DEF Answer
<1>6. CASE Expire
    BY <1>4, <1>6 DEF Expire
<1>7. CASE ContextEnds
    BY <1>4, <1>7 DEF ContextEnds
<1>8. CASE Tick
    <2>1. /\ pc = "talking"
          /\ Kind = "secret" \/ (wait > 0 /\ (HeedsContext(Kind) => left > 0))
          /\ wait' = IF wait > 0 THEN wait - 1 ELSE 0
          /\ left' = IF left > 0 THEN left - 1 ELSE 0
          /\ UNCHANGED <<pc, target, n, phase, result, healthy, served>>
        BY <1>8 DEF Tick, InTime
    <2>01. /\ left > 0 => overrun' = 0
           /\ left = 0 /\ Kind = "secret" => overrun' = overrun
           /\ left = 0 /\ Kind # "secret" => overrun' = overrun + 1
        BY <1>0, <1>8 DEF Tick
    <2>2. /\ target.timeout \in Nat /\ n \in DOMAIN Layers /\ Current = Layers[n]
          /\ n \in 1..7 /\ Sane(Current) /\ Fits(target.type, Layers)
          /\ phase = 1 => Kind = Opens(Current)
          /\ At(Current.phases, phase, Kind)
        BY <2>1, UnderWay
    <2>3. /\ Layers' = Layers /\ Current' = Current /\ Kind' = Kind /\ Deadline' = Deadline
          /\ LayerTimeout(Current)' = LayerTimeout(Current)
        BY <2>1 DEF Layers, Current, Kind, LayerTimeout, Deadline
    <2>4. (BareToCome)' = BareToCome
        BY <2>1, <2>3 DEF BareToCome
    <2>5. /\ left > 0 => overrun = 0
          /\ BareToCome => overrun < IOTimeout \/ overrun < 2 * NTPTimeout
          /\ Kind = "resolve" =>
                 wait <= NTPTimeout /\ (left = 0 => overrun + wait < NTPTimeout)
          /\ Kind = "ntp" =>
                 wait <= NTPTimeout /\ (left = 0 => overrun + wait < 2 * NTPTimeout)
          /\ Deadline =>
                 /\ wait <= LayerTimeout(Current)
                 /\ left = 0 => overrun + wait < LayerTimeout(Current)
          /\ Kind = "bareGet" =>
                 overrun + wait < 2 * IOTimeout \/ overrun + wait < 2 * NTPTimeout + IOTimeout
        BY <2>1 DEF OverrunExplained
    <2>6. LayerTimeout(Current) \in Nat \ {0}
        BY <2>2, LimitIs
    <2>7. left = 0 => \/ Kind = "secret"
                      \/ wait > 0 /\ Kind \in {"resolve", "ntp", "read", "bareGet"}
        <3>1. Kind \in {"resolve", "ntp", "lookup", "dial", "get", "bareGet", "secret", "read",
                        "handshake"}
            BY <2>2 DEF At
        <3> QED BY <2>1, <3>1 DEF HeedsContext
    <2>8. /\ Kind = "resolve" =>
                 wait' <= NTPTimeout /\ (left' = 0 => overrun' + wait' < NTPTimeout)
          /\ Kind = "ntp" =>
                 wait' <= NTPTimeout /\ (left' = 0 => overrun' + wait' < 2 * NTPTimeout)
          /\ Kind = "bareGet" =>
                 overrun' + wait' < 2 * IOTimeout \/ overrun' + wait' < 2 * NTPTimeout + IOTimeout
          /\ left' > 0 => overrun' = 0
        BY <1>0, <2>1, <2>01, <2>5
    <2>08. Deadline => /\ wait' <= LayerTimeout(Current)
                       /\ left' = 0 => overrun' + wait' < LayerTimeout(Current)
        <3>1. SUFFICES ASSUME Deadline, NEW t \in Nat \ {0}, wait <= t, left = 0 => overrun + wait < t
                       PROVE  wait' <= t /\ (left' = 0 => overrun' + wait' < t)
            BY <2>5, <2>6
        <3>2. CASE Kind = "secret"
            BY <1>0, <2>1, <2>01, <3>1, <3>2
        <3>3. CASE Kind # "secret"
            BY <1>0, <2>1, <2>01, <3>1, <3>3
        <3> QED BY <3>2, <3>3
    <2>9. Kind = "bareGet" => ~BareToCome
        <3>1. SUFFICES ASSUME Kind = "bareGet", NEW i \in DOMAIN Layers, i > n,
                              Opens(Layers[i]) = "bareGet"
                       PROVE  FALSE
            BY DEF BareToCome
        <3>2. Opens(Layers[n]) = "bareGet"
            <4>1. Current.phases = <<"bareGet">>
                BY <2>2, <3>1 DEF At
            <4> QED BY <2>2, <4>1 DEF Opens
        <3>3. i = n
            BY <2>2, <3>1, <3>2 DEF Fits
        <3> QED BY <1>0, <3>1, <3>3
    <2>10. Kind = "read" /\ BareToCome => LayerTimeout(Current) = IOTimeout
        <3>1. SUFFICES ASSUME Kind = "read", NEW j \in DOMAIN Layers,
                              Opens(Layers[j]) = "bareGet"
                       PROVE  Current.limit = "io"
            BY <2>2, LimitIs DEF BareToCome
        <3>2. Current.phases \in {<<"dial", "read">>, <<"dial", "secret", "read">>}
            BY <2>2, <3>1 DEF At
        <3>3. Opens(Layers[n]) = "dial"
            BY <2>2, <3>2 DEF Opens
        <3> QED BY <2>2, <3>1, <3>3 DEF Fits
    <2>11. BareToCome => overrun' < IOTimeout \/ overrun' < 2 * NTPTimeout
        <3>1. SUFFICES ASSUME BareToCome
                       PROVE  overrun' < IOTimeout \/ overrun' < 2 * NTPTimeout
            OBVIOUS
        <3>2. CASE left > 0 \/ Kind = "secret"
            BY <1>0, <2>01, <2>5, <3>1, <3>2
        <3>3. CASE left = 0 /\ Kind = "read"
            <4>1. overrun + wait < IOTimeout
                BY <2>5, <2>10, <3>1, <3>3 DEF Deadline
            <4> QED BY <1>0, <2>01, <2>7, <3>3, <4>1
        <3>4. CASE left = 0 /\ Kind \in {"resolve", "ntp"}
            BY <1>0, <2>01, <2>5, <2>7, <3>4
        <3> QED BY <1>0, <2>7, <2>9, <3>1, <3>2, <3>3, <3>4
    <2>12. OverrunBounded'
        <3> DEFINE m == Max({2 * IOTimeout, 2 * NTPTimeout + IOTimeout, target.timeout})
        <3>1. /\ m \in Nat /\ m >= 2 * IOTimeout /\ m >= 2 * NTPTimeout + IOTimeout
              /\ m >= target.timeout
            BY <2>2, Bounds
        <3>2. overrun < m
            BY DEF OverrunBounded
        <3> HIDE DEF m
        <3>3. Kind = "read" =>
                  LayerTimeout(Current) <= IOTimeout \/ LayerTimeout(Current) = target.timeout
            <4>1. Kind = "read" => Current.limit # "http"
                BY <2>2 DEF Sane, At
            <4> QED BY <2>2, <4>1, LimitIs
        <3>4. overrun' < m
            <4>1. CASE left > 0 \/ Kind = "secret"
                BY <1>0, <2>01, <3>1, <3>2, <4>1
            <4>2. CASE left = 0 /\ Kind = "read"
                <5>1. overrun + wait < LayerTimeout(Current)
                    BY <2>5, <4>2 DEF Deadline
                <5>2. LayerTimeout(Current) <= m
                    BY <1>0, <2>2, <2>6, <3>1, <3>3, <4>2
                <5> QED BY <1>0, <2>01, <2>6, <2>7, <3>1, <4>2, <5>1, <5>2
            <4>3. CASE left = 0 /\ Kind \in {"resolve", "ntp", "bareGet"}
                BY <1>0, <2>01, <2>5, <2>7, <3>1, <4>3
            <4> QED BY <1>0, <2>7, <4>1, <4>2, <4>3
        <3> QED BY <2>1, <3>4 DEF OverrunBounded, m
    <2> QED BY <2>1, <2>3, <2>4, <2>8, <2>08, <2>11, <2>12 DEF OverrunExplained
<1>9. CASE CheckReturns
    <2>1. pc' = "idle" /\ target' = NoTarget /\ left' = 0 /\ overrun' = 0
        BY <1>9 DEF CheckReturns
    <2>2. target'.timeout = 0
        BY <2>1 DEF NoTarget
    <2> DEFINE m == Max({2 * IOTimeout, 2 * NTPTimeout + IOTimeout, target'.timeout})
    <2>3. m \in Nat /\ m >= 2 * IOTimeout
        BY <2>2, Bounds
    <2> HIDE DEF m
    <2>4. overrun' < m
        BY <1>0, <2>1, <2>3
    <2> QED BY <1>0, <2>1, <2>4 DEF OverrunExplained, OverrunBounded, m
<1>10. CASE UNCHANGED executorVars
    BY <1>10 DEF executorVars, OverrunExplained, OverrunBounded, BareToCome, Layers, Kind,
       Current, LayerTimeout, Deadline
<1> QED BY <1>1, <1>2, <1>3, <1>5, <1>6, <1>7, <1>8, <1>9, <1>10 DEF ExecutorNext

(* A layer that connects and passes in its only phase got an answer, or it *)
(* gets a page after a layer that connected before.                        *)
LEMMA PassIsServed ==
    ASSUME ExecutorTypeOK, CheckOrder, ServedSince, pc = "talking",
           NEW e, Code(Current, Kind, e) = Passed, Connecting(Current)
    PROVE  \/ served
           \/ /\ Kind \notin {"resolve", "ntp", "lookup", "secret"}
              /\ e \in Answers /\ e \notin {"timeout", "expired"}
<1>1. /\ target.timeout \in Nat /\ n \in DOMAIN Layers /\ Current = Layers[n] /\ n \in 1..7
      /\ Sane(Current) /\ Fits(target.type, Layers)
      /\ At(Current.phases, phase, Kind)
    BY UnderWay
<1>2. /\ Deadline \/ Kind = "handshake" => served
      /\ \A i \in DOMAIN Layers : i <= n /\ i < n /\ Connecting(Layers[i]) => served
    <2>1. pc # "idle" /\ result.success
        BY DEF CheckOrder
    <2> QED BY <2>1 DEF ServedSince
<1>3. Current.phases \notin {<<"resolve", "ntp">>, <<"lookup">>}
    <2>1. Phases(Current, target) \notin {<< >>, <<"resolve", "ntp">>, <<"lookup">>}
          /\ Phases(Current, target) \in {<< >>, Current.phases}
        BY DEF Connecting, Phases
    <2> QED BY <2>1
<1>4. CASE Deadline \/ Kind = "handshake"
    BY <1>2, <1>4
<1>5. CASE Kind = "secret" /\ ~Deadline
    <2>1. Current.phases \in {<<"secret", "get">>, <<"secret", "dial", "handshake">>}
        BY <1>1, <1>5 DEF At, Deadline
    <2>2. Current.early = {}
        BY <1>1, <2>1 DEF Sane
    <2> QED BY <1>5, <2>2, SecretCode
<1>6. CASE Kind = "dial"
    <2>1. Current.phases = Dial \/ Len(Current.phases) \in {2, 3}
        BY <1>1, <1>6 DEF At, Dial
    <2>2. Current.phases = Dial
        BY <1>6, <2>1, ConnectFails
    <2>3. Strict(Current) /\ DOMAIN Current.answers = {"accepted"} /\ Len(Current.phases) = 1
        BY <1>1, <2>2 DEF Sane, Dial
    <2>4. e = "accepted"
        BY <1>6, <2>3, LastCode
    <2> QED BY <1>6, <2>4 DEF Answers
<1>7. CASE Kind \in {"get", "bareGet"}
    <2>1. Current.phases \in {<<"get">>, <<"bareGet">>, <<"secret", "get">>}
        BY <1>1, <1>7 DEF At
    <2>2. Timely(Current.answers) /\ Current.early = {}
        BY <1>1, <2>1 DEF Sane
    <2>3. CASE Strict(Current)
        <3>1. e \in DOMAIN Current.answers
            BY <1>7, <2>3, LastCode
        <3>2. e \in Answers
            BY <1>7, <2>2, <3>1 DEF Answers
        <3> QED BY <1>7, <2>2, <3>1, <3>2 DEF Timely
    <2>4. CASE ~Strict(Current)
        <3>1. Current.phases = <<"bareGet">>
            BY <1>1, <2>1, <2>4 DEF Sane
        <3>2. PICK j \in DOMAIN Layers :
                  /\ j < n /\ target.type \in Layers[j].always
                  /\ Opens(Layers[j]) = "dial" /\ Layers[j].name # "L3"
            BY <1>1, <2>4, <3>1 DEF Fits, Opens
        <3>3. Sane(Layers[j]) /\ j \in 1..7
            BY <1>1, <3>2 DEF Fits
        <3>4. Connecting(Layers[j])
            <4>1. Layers[j].phases # << >> /\ Layers[j].phases[1] = "dial"
                BY <3>2, <3>3, Phased DEF Opens
            <4>2. Layers[j].phases \notin {<< >>, <<"resolve", "ntp">>, <<"lookup">>}
                BY <4>1
            <4> QED BY <3>2, <4>2 DEF Connecting, Enabled, Phases
        <3>5. j <= n
            BY <1>1, <3>2, <3>3
        <3> QED BY <1>2, <3>2, <3>4, <3>5
    <2> QED BY <2>3, <2>4
<1>8. Kind \in {"dial", "get", "bareGet", "secret", "read", "handshake"}
    BY <1>1, <1>3 DEF At
<1> QED BY <1>4, <1>5, <1>6, <1>7, <1>8 DEF Deadline

LEMMA ServedStep ==
    ASSUME ExecutorTypeOK, CheckOrder, ServedSince, [ExecutorNext]_executorVars
    PROVE  ServedSince'
<1>0. /\ phase \in Nat /\ n \in Nat /\ served \in BOOLEAN /\ DOMAIN result = DOMAIN NoResult
    BY DEF ExecutorTypeOK
<1>00. /\ pc = "talking" /\ (Deadline \/ Kind = "handshake") => served
       /\ pc # "idle" /\ result.success =>
              \A i \in DOMAIN Layers :
                  i <= n /\ (pc = "talking" => i < n) /\ Connecting(Layers[i]) => served
       /\ pc # "returned" => result.success
       /\ pc = "idle" => n = 0
    BY DEF ServedSince, CheckOrder
<1>1. CASE Begin
    <2>1. target' \in CheckedTargets /\ pc' = "layers" /\ n' = 0
        BY <1>00, <1>1 DEF Begin
    <2>2. DOMAIN Layers' \subseteq 1..7
        BY <2>1, OfTarget DEF Layers, Fits
    <2> QED BY <2>1, <2>2 DEF ServedSince
<1>2. CASE NextLayer
    <2>1. /\ n' \in DOMAIN Layers /\ n' \in 1..7 /\ n' > n
          /\ \A i \in DOMAIN Layers : i > n /\ Enabled(Layers[i], target) => n' <= i
          /\ Fits(target.type, Layers)
          /\ UNCHANGED <<target, served>>
          /\ pc = "layers" /\ pc # "talking" /\ pc # "idle" /\ pc # "returned"
        BY <1>2, NextLayerBegins DEF NextLayer
    <2>2. \A i \in DOMAIN Layers : i \in 1..7
        BY <2>1 DEF Fits
    <2>3. /\ Layers' = Layers
          /\ \A i \in DOMAIN Layers : Connecting(Layers[i])' = Connecting(Layers[i])
        BY <2>1 DEF Layers, Connecting, Enabled, Phases
    <2>4. \A i \in DOMAIN Layers : i < n' /\ Connecting(Layers[i]) => served
        <3>1. SUFFICES ASSUME NEW i \in DOMAIN Layers, i < n', Connecting(Layers[i])
                       PROVE  served
            OBVIOUS
        <3>2. i <= n
            BY <1>0, <2>1, <2>2, <3>1 DEF Connecting
        <3> QED BY <1>00, <2>1, <3>1, <3>2
    <2>5. CASE pc' = "layers"
        <3>1. Phases(Layers[n'], target) = << >>
            BY <1>2, <2>5, NextLayerBegins
        <3>2. ~Connecting(Layers[n'])
            BY <3>1 DEF Connecting
        <3>3. \A i \in DOMAIN Layers : i <= n' /\ Connecting(Layers[i]) => served
            BY <2>1, <2>2, <2>4, <3>2
        <3> QED BY <2>1, <2>3, <2>5, <3>3 DEF ServedSince
    <2>6. CASE pc' # "layers"
        <3>1. pc' = "talking" /\ phase' = 1 /\ Sane(Layers[n'])
            BY <1>2, <2>6, NextLayerBegins
        <3>2. Kind' = Opens(Layers[n'])
            BY <2>3, <3>1 DEF Kind, Opens, Current, Layers
        <3>3. ~(Deadline' \/ Kind' = "handshake")
            BY <3>1, <3>2, Phased DEF Deadline
        <3> QED BY <2>1, <2>3, <2>4, <3>1, <3>3 DEF ServedSince
    <2> QED BY <2>5, <2>6
<1>3. CASE LayersDone
    BY <1>00, <1>3 DEF LayersDone, ServedSince, Layers, Connecting, Enabled, Phases
<1>4. ASSUME NEW e, pc = "talking", PhaseEnds(e), UNCHANGED <<target, n>>,
             served => served',
             Kind \notin {"resolve", "ntp", "lookup", "secret"} =>
                 (e \in Answers /\ e \notin {"timeout", "expired"} => served')
      PROVE  ServedSince'
    <2>1. /\ n \in DOMAIN Layers /\ Current = Layers[n] /\ n \in 1..7
          /\ Fits(target.type, Layers)
        BY <1>4, UnderWay
    <2>2. /\ Layers' = Layers
          /\ \A i \in DOMAIN Layers : Connecting(Layers[i])' = Connecting(Layers[i])
        BY <1>4 DEF Layers, Connecting, Enabled, Phases
    <2>3. served => served'
        BY <1>4
    <2>4. \A i \in DOMAIN Layers : i < n /\ Connecting(Layers[i]) => served
        <3>1. \A i \in DOMAIN Layers : i \in 1..7
            BY <2>1 DEF Fits
        <3> QED BY <1>00, <1>4, <2>1, <3>1
    <2>5. CASE pc' = "talking"
        <3>1. e = "accepted" /\ phase < Len(Current.phases) /\ NextPhase
            BY <1>4, <2>5, PhaseEndsCases
        <3>2. Kind = "dial" => served'
            BY <1>4, <3>1 DEF Answers
        <3>3. \/ Kind' \in {"ntp", "get", "dial"}
              \/ Kind = "dial"
              \/ Kind = "secret" /\ phase = 2
            BY <1>4, <3>1, NextPhaseIs
        <3>4. Kind = "secret" /\ phase = 2 => served
            BY <1>00, <1>4 DEF Deadline
        <3>5. Deadline' \/ Kind' = "handshake" => served'
            BY <2>3, <3>2, <3>3, <3>4 DEF Deadline
        <3>6. \A i \in DOMAIN Layers : i < n /\ Connecting(Layers[i]) => served'
            BY <2>3, <2>4
        <3> QED BY <1>4, <2>2, <2>5, <3>5, <3>6 DEF ServedSince
    <2>6. CASE pc' = "layers"
        <3>1. Code(Current, Kind, e) = Passed
            BY <1>4, <2>6, PhaseEndsCases
        <3>2. Connecting(Layers[n]) => served'
            BY <1>4, <2>1, <3>1, PassIsServed
        <3>3. \A i \in DOMAIN Layers : i \in Int
            BY <2>1 DEF Fits
        <3>4. \A i \in DOMAIN Layers : i <= n /\ Connecting(Layers[i]) => served'
            BY <2>1, <2>3, <2>4, <3>2, <3>3
        <3> QED BY <1>4, <2>2, <2>6, <3>4 DEF ServedSince
    <2>7. CASE pc' \notin {"talking", "layers"}
        <3>1. pc' = "returned" /\ result'.success = FALSE
            BY <1>4, <2>7, PhaseEndsCases
        <3> QED BY <3>1 DEF ServedSince
    <2> QED BY <2>5, <2>6, <2>7
<1>5. CASE Answer
    <2>1. PICK e \in Answers \cup Errors :
              /\ PhaseEnds(e)
              /\ served' = \/ served
                           \/ Kind \notin {"resolve", "ntp", "lookup", "secret"} /\ e \in Answers
        BY <1>5 DEF Answer
    <2>2. pc = "talking" /\ UNCHANGED <<target, n>>
        BY <1>5 DEF Answer
    <2>3. served => served'
        BY <1>0, <2>1
    <2>4. Kind \notin {"resolve", "ntp", "lookup", "secret"} /\ e \in Answers => served'
        BY <2>1
    <2> QED BY <1>4, <2>1, <2>2, <2>3, <2>4
<1>6. CASE Expire
    BY <1>0, <1>4, <1>6 DEF Expire
<1>7. CASE ContextEnds
    BY <1>0, <1>4, <1>7 DEF ContextEnds
<1>8. CASE Tick
    BY <1>00, <1>8 DEF Tick, ServedSince, Layers, Connecting, Enabled, Phases, Deadline, Kind,
       Current
<1>9. CASE CheckReturns
    BY <1>9 DEF CheckReturns, ServedSince
<1>10. CASE UNCHANGED executorVars
    BY <1>00, <1>10 DEF executorVars, ServedSince, Layers, Connecting, Enabled, Phases, Deadline,
       Kind, Current
<1> QED BY <1>1, <1>2, <1>3, <1>5, <1>6, <1>7, <1>8, <1>9, <1>10 DEF ExecutorNext

LEMMA HealthyStep ==
    ASSUME ExecutorTypeOK, CheckOrder, HealthyPasses, [ExecutorNext]_executorVars
    PROVE  HealthyPasses'
<1>0. pc # "returned" => result.success
    BY DEF CheckOrder
<1>1. CASE Begin
    BY <1>1 DEF Begin, HealthyPasses
<1>2. CASE NextLayer
    <2>1. pc' # "returned"
        BY <1>2, NextLayerBegins
    <2> QED BY <2>1 DEF HealthyPasses
<1>3. CASE LayersDone
    BY <1>0, <1>3 DEF LayersDone, HealthyPasses
<1>4. ASSUME NEW e, pc = "talking", PhaseEnds(e), target' = target,
             healthy' => \/ Healthy(e)
                         \/ e = "timeout" /\ Kind = "read" /\ Current.sound = {}
      PROVE  HealthyPasses'
    <2>1. SUFFICES ASSUME pc' = "returned", healthy', target.type \notin Misread, target.exact
                   PROVE  FALSE
        BY <1>4 DEF HealthyPasses
    <2>2. Code(Current, Kind, e) # Passed /\ (e = "accepted" => phase = Len(Current.phases))
        BY <1>4, <2>1, PhaseEndsCases
    <2>3. /\ n \in DOMAIN Layers /\ Current = Layers[n] /\ Fits(target.type, Layers)
          /\ Sane(Current) /\ At(Current.phases, phase, Kind)
        BY <1>4, UnderWay
    <2>4. Sound(Current)
        BY <2>1, <2>3 DEF Fits
    <2>5. CASE Kind \in {"resolve", "secret", "dial"} /\ e = "accepted"
        <3>0. phase = Len(Current.phases)
            BY <2>2, <2>5
        <3>1. Current.phases = Dial /\ Kind = "dial" /\ Len(Current.phases) = 1
            BY <2>3, <2>5, <3>0, ConnectsLast
        <3>2. "accepted" \in DOMAIN Current.answers /\ Current.answers["accepted"] = Passed
            BY <2>3, <3>1 DEF Sane
        <3> QED BY <2>2, <2>5, <3>1, <3>2, LastCode
    <2>6. CASE e \in Answers /\ e \in Expected(Current) /\ e # "accepted"
        <3>1. e \in Current.sound \ {"other", "tlsonly"}
            BY <2>1, <2>6 DEF Expected, Misread
        <3>2. e \in DOMAIN Current.answers /\ Current.answers[e] = Passed
            BY <2>4, <3>1 DEF Sound
        <3>3. Kind # "dial"
            BY <2>6 DEF Answers
        <3>4. Kind = "secret" => e \in Current.early
            BY <2>6 DEF Answers
        <3> QED BY <2>2, <3>2, <3>3, <3>4, LastCode, SecretCode
    <2>7. CASE e = "timeout" /\ Kind = "read" /\ Current.sound = {}
        <3>1. e \notin DOMAIN Current.answers /\ Current.timedOut = Passed
            BY <2>4, <2>7 DEF Sound, Timely
        <3> QED BY <2>2, <2>7, <3>1, LastCode
    <2>8. CASE e = "accepted" /\ e \in Expected(Current) /\ Kind \notin {"resolve", "secret", "dial"}
        <3>1. e \in DOMAIN Current.answers /\ Current.answers[e] = Passed
            BY <2>4, <2>8 DEF Expected, Sound
        <3> QED BY <2>2, <2>8, <3>1, LastCode
    <2> QED BY <1>4, <2>1, <2>5, <2>6, <2>7, <2>8 DEF Healthy
<1>5. CASE Answer
    <2>1. PICK e \in Answers \cup Errors :
              PhaseEnds(e) /\ healthy' = (healthy /\ Healthy(e))
        BY <1>5 DEF Answer
    <2> QED BY <1>4, <1>5, <2>1 DEF Answer
<1>6. CASE Expire
    BY <1>4, <1>6 DEF Expire
<1>7. CASE ContextEnds
    BY <1>4, <1>7 DEF ContextEnds
<1>8. CASE Tick
    BY <1>8 DEF Tick, HealthyPasses
<1>9. CASE CheckReturns
    BY <1>9 DEF CheckReturns, HealthyPasses
<1>10. CASE UNCHANGED executorVars
    BY <1>10 DEF executorVars, HealthyPasses
<1> QED BY <1>1, <1>2, <1>3, <1>5, <1>6, <1>7, <1>8, <1>9, <1>10 DEF ExecutorNext

LEMMA ExecutorInitInv == ExecutorInit => ExecutorInv
<1>1. SUFFICES ASSUME ExecutorInit PROVE ExecutorInv
    OBVIOUS
<1>2. ExecutorTypeOK
    BY <1>1 DEF ExecutorInit, ExecutorTypeOK, NoResult
<1>3. CheckOrder /\ OverrunExplained /\ ServedSince /\ HealthyPasses
    BY <1>1 DEF ExecutorInit, CheckOrder, OverrunExplained, ServedSince, HealthyPasses, NoResult
<1>4. OverrunBounded
    <2> DEFINE m == Max({2 * IOTimeout, 2 * NTPTimeout + IOTimeout, target.timeout})
    <2>1. overrun = 0 /\ target.timeout = 0 /\ IOTimeout \in Nat \ {0}
        BY <1>1, ExecutorAssumption DEF ExecutorInit, NoTarget
    <2>2. m \in Nat /\ m >= 2 * IOTimeout
        BY <2>1, Bounds
    <2> HIDE DEF m
    <2>3. overrun < m
        BY <2>1, <2>2
    <2> QED BY <2>3 DEF OverrunBounded, m
<1> QED BY <1>2, <1>3, <1>4 DEF ExecutorInv

(* The inductive invariant.                                                *)
THEOREM ExecutorInvariant == ExecutorSpec => []ExecutorInv
<1>1. ExecutorInv /\ [ExecutorNext]_executorVars => ExecutorInv'
    BY ExecutorTypeStep, CheckOrderStep, OverrunStep, ServedStep, HealthyStep DEF ExecutorInv
<1> QED BY ExecutorInitInv, <1>1, PTL DEF ExecutorSpec

(* The executor's state is of its type: a layer that runs is one of the    *)
(* target's checker, and its phase one of its own (executor.go Execute).   *)
THEOREM ExecutorTypeCorrect == ExecutorSpec => []ExecutorTypeOK
<1>1. ExecutorInv => ExecutorTypeOK
    BY DEF ExecutorInv
<1> QED BY <1>1, ExecutorInvariant, PTL

(* Apart from waiting for Secrets, a check outlives its context by less    *)
(* than two timeouts of a connection, or two of NTP and one of a           *)
(* connection, or its own timeout, whatever the timeouts and the layers    *)
(* (the layers' Check, which mix DialContext and deadlines).               *)
THEOREM OverrunIsBounded == ExecutorSpec => []OverrunBounded
<1>1. ExecutorInv => OverrunBounded
    BY DEF ExecutorInv
<1> QED BY <1>1, ExecutorInvariant, PTL

(* A target in good order passes its check whatever layers are enabled,    *)
(* but for six types, and for HTTP targets that answer with a status other *)
(* than the one expected (executor.go Execute, the layers' Check).         *)
THEOREM HealthyTargetsPass == ExecutorSpec => []HealthyPasses
<1>1. ExecutorInv => HealthyPasses
    BY DEF ExecutorInv
<1> QED BY <1>1, ExecutorInvariant, PTL

(* A check that passes with a layer that connects has reached a server     *)
(* (executor.go Execute, the layers' Check).                               *)
THEOREM SuccessWasServed == ExecutorSpec => []SuccessIsServed
<1>1. ExecutorInv => SuccessIsServed
    <2>1. SUFFICES ASSUME ExecutorInv, pc = "returned", result.success,
                          NEW i \in DOMAIN Layers, Connecting(Layers[i])
                   PROVE  served
        BY DEF SuccessIsServed, Connects, Connecting, Layers
    <2>2. target \in CheckedTargets /\ n \in Nat /\ ToCome = {}
        BY <2>1 DEF ExecutorInv, ExecutorTypeOK, CheckOrder
    <2>3. i \in 1..7
        BY <2>1, <2>2, OfTarget DEF Fits, Layers
    <2>4. ~(i > n)
        BY <2>1, <2>2 DEF ToCome, Layers, Connecting
    <2>5. i <= n
        BY <2>2, <2>3, <2>4
    <2> QED BY <2>1, <2>5 DEF ExecutorInv, ServedSince
<1> QED BY <1>1, ExecutorInvariant, PTL
=============================================================================

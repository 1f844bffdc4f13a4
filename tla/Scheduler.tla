------------------------------ MODULE Scheduler ------------------------------
(***************************************************************************)
(* The agent's check scheduler.  A watcher goroutine starts, at every tick *)
(* of the interval, one goroutine for each target; a check goroutine takes *)
(* a token of the semaphore, waits a jittered delay, runs the check and    *)
(* gives the token back.  When the context ends, Start closes the shutdown *)
(* channel and waits for the WaitGroup to reach zero.                      *)
(***************************************************************************)
EXTENDS Integers, FiniteSets

CONSTANTS
    Goroutines,      \* bound on the check goroutines alive at a time
    Targets,
    MaxConcurrency

ASSUME SchedulerAssumption ==
    /\ IsFiniteSet(Goroutines)
    /\ MaxConcurrency \in Nat \ {0}

VARIABLES
    ctxDone,    \* the context of Start has ended
    shutdown,   \* the shutdown channel is closed
    start,      \* where Start is
    watcher,    \* where watchTargets is
    pending,    \* targets scheduleChecks has still to start
    targets,    \* the targets to monitor
    checks,     \* where each check goroutine is
    semaphore,  \* tokens taken
    wg          \* the WaitGroup's counter

vars == <<ctxDone, shutdown, start, watcher, pending, targets, checks, semaphore, wg>>

Ending == ctxDone \/ shutdown

(* A goroutine that is not started yet, or has ended, is free.             *)
CheckPCs == {"free", "acquire", "delay", "run", "exit"}

Holding == {c \in Goroutines : checks[c] \in {"delay", "run"}}

Alive == {c \in Goroutines : checks[c] # "free"}

Goto(c, pc) == checks' = [checks EXCEPT ![c] = pc]

-----------------------------------------------------------------------------
Init ==
    /\ ctxDone = FALSE
    /\ shutdown = FALSE
    /\ start = "new"
    /\ watcher = "none"
    /\ pending = {}
    /\ targets = {}
    /\ checks = [c \in Goroutines |-> "free"]
    /\ semaphore = 0
    /\ wg = 0

(* Mutant: the watcher is not counted.                                     *)
StartUncounted ==
    /\ start = "new"
    /\ start' = "waiting"
    /\ watcher' = "delay"
    /\ UNCHANGED <<ctxDone, shutdown, pending, targets, checks, semaphore, wg>>

Start ==
    /\ start = "new"
    /\ start' = "waiting"
    /\ wg' = wg + 1
    /\ watcher' = "delay"
    /\ UNCHANGED <<ctxDone, shutdown, pending, targets, checks, semaphore>>

Cancel ==
    /\ ~ctxDone
    /\ ctxDone' = TRUE
    /\ UNCHANGED <<shutdown, start, watcher, pending, targets, checks, semaphore, wg>>

Shutdown ==
    /\ start = "waiting" /\ ctxDone
    /\ start' = "draining"
    /\ shutdown' = TRUE
    /\ UNCHANGED <<ctxDone, watcher, pending, targets, checks, semaphore, wg>>

Return ==
    /\ start = "draining" /\ wg = 0
    /\ start' = "returned"
    /\ UNCHANGED <<ctxDone, shutdown, watcher, pending, targets, checks, semaphore, wg>>

(* UpdateTargets waits while scheduleChecks holds the lock of the targets. *)
UpdateTargets(new) ==
    /\ watcher # "scheduling"
    /\ targets' = new
    /\ UNCHANGED <<ctxDone, shutdown, start, watcher, pending, checks, semaphore, wg>>

(* The initial delay is over, or a scan of the targets is.                 *)
Loop ==
    /\ \/ watcher = "delay"
       \/ watcher = "scheduling" /\ pending = {}
    /\ watcher' = "loop"
    /\ UNCHANGED <<ctxDone, shutdown, start, pending, targets, checks, semaphore, wg>>

(* The select takes the tick even when the context has ended as well.      *)
TickerFires ==
    /\ watcher = "loop"
    /\ watcher' = "scheduling"
    /\ pending' = targets
    /\ UNCHANGED <<ctxDone, shutdown, start, targets, checks, semaphore, wg>>

(* The select of the initial delay does not look at shutdown.              *)
WatcherReturns ==
    /\ \/ watcher = "delay" /\ ctxDone
       \/ watcher = "loop" /\ Ending
    /\ watcher' = "done"
    /\ wg' = wg - 1
    /\ UNCHANGED <<ctxDone, shutdown, start, pending, targets, checks, semaphore>>

(* Mutant: a check goroutine is started without being counted.             *)
SpawnUncounted(c, t) ==
    /\ watcher = "scheduling" /\ t \in pending /\ ~Ending
    /\ checks[c] = "free"
    /\ Goto(c, "acquire")
    /\ pending' = pending \ {t}
    /\ UNCHANGED <<ctxDone, shutdown, start, watcher, targets, semaphore, wg>>

Spawn(c, t) ==
    /\ watcher = "scheduling" /\ t \in pending /\ ~Ending
    /\ checks[c] = "free"
    /\ Goto(c, "acquire")
    /\ wg' = wg + 1
    /\ pending' = pending \ {t}
    /\ UNCHANGED <<ctxDone, shutdown, start, watcher, targets, semaphore>>

(* scheduleChecks gives up the scan.                                       *)
StopScan ==
    /\ watcher = "scheduling" /\ pending # {} /\ Ending
    /\ pending' = {}
    /\ watcher' = "loop"
    /\ UNCHANGED <<ctxDone, shutdown, start, targets, checks, semaphore, wg>>

(* Mutant: off by one at the limit.                                        *)
AcquireOneMore(c) ==
    /\ checks[c] = "acquire" /\ semaphore <= MaxConcurrency
    /\ semaphore' = semaphore + 1
    /\ Goto(c, "delay")
    /\ UNCHANGED <<ctxDone, shutdown, start, watcher, pending, targets, wg>>

Acquire(c) ==
    /\ checks[c] = "acquire" /\ semaphore < MaxConcurrency
    /\ semaphore' = semaphore + 1
    /\ Goto(c, "delay")
    /\ UNCHANGED <<ctxDone, shutdown, start, watcher, pending, targets, wg>>

(* Mutant: a check that never ran is not taken off the WaitGroup.          *)
GiveUpUncounted(c) ==
    /\ checks[c] = "acquire" /\ Ending
    /\ Goto(c, "free")
    /\ UNCHANGED <<ctxDone, shutdown, start, watcher, pending, targets, semaphore, wg>>

(* The context ends while the goroutine waits for a token.                 *)
GiveUp(c) ==
    /\ checks[c] = "acquire" /\ Ending
    /\ Goto(c, "exit")
    /\ UNCHANGED <<ctxDone, shutdown, start, watcher, pending, targets, semaphore, wg>>

(* The delay is over, or there was none, and checkFunc is called.          *)
Run(c) ==
    /\ checks[c] = "delay"
    /\ Goto(c, "run")
    /\ UNCHANGED <<ctxDone, shutdown, start, watcher, pending, targets, semaphore, wg>>

(* Mutant: the token is not given back.                                    *)
ReleaseNothing(c) ==
    /\ \/ checks[c] = "run"
       \/ checks[c] = "delay" /\ Ending
    /\ Goto(c, "exit")
    /\ UNCHANGED <<ctxDone, shutdown, start, watcher, pending, targets, semaphore, wg>>

(* checkFunc returns, or the delay is cut short: the token is given back.  *)
Release(c) ==
    /\ \/ checks[c] = "run"
       \/ checks[c] = "delay" /\ Ending
    /\ semaphore' = semaphore - 1
    /\ Goto(c, "exit")
    /\ UNCHANGED <<ctxDone, shutdown, start, watcher, pending, targets, wg>>

Exit(c) ==
    /\ checks[c] = "exit"
    /\ wg' = wg - 1
    /\ Goto(c, "free")
    /\ UNCHANGED <<ctxDone, shutdown, start, watcher, pending, targets, semaphore>>

Check(c) == Acquire(c) \/ GiveUp(c) \/ Run(c) \/ Release(c) \/ Exit(c)

Next ==
    \/ Start \/ Cancel \/ Shutdown \/ Return
    \/ \E new \in SUBSET Targets : UpdateTargets(new)
    \/ Loop \/ TickerFires \/ WatcherReturns \/ StopScan
    \/ \E c \in Goroutines, t \in Targets : Spawn(c, t)
    \/ \E c \in Goroutines : Check(c)

Spec == Init /\ [][Next]_vars

-----------------------------------------------------------------------------
(* The type of the scheduler's state: in particular neither the WaitGroup  *)
(* nor the semaphore is taken below zero, which Go answers with a panic or *)
(* a goroutine blocked for ever.                                           *)
TypeOK ==
    /\ ctxDone \in BOOLEAN /\ shutdown \in BOOLEAN
    /\ start \in {"new", "waiting", "draining", "returned"}
    /\ watcher \in {"none", "delay", "loop", "scheduling", "done"}
    /\ pending \subseteq Targets /\ targets \subseteq Targets
    /\ checks \in [Goroutines -> CheckPCs]
    /\ semaphore \in Nat
    /\ wg \in Nat

(* "MaxConcurrency is the maximum number of concurrent checks": on every   *)
(* path a goroutine gives back exactly the token it took (scheduler.go     *)
(* executeCheck).                                                          *)
ConcurrencyBounded ==
    /\ Cardinality(Holding) = semaphore
    /\ semaphore <= MaxConcurrency

(* When Start returns, no goroutine it started is left: neither the        *)
(* watcher nor a check spawned while the context was ending (scheduler.go  *)
(* Start, watchTargets, scheduleChecks).                                   *)
NothingOutlivesStart ==
    start = "returned" => watcher = "done" /\ Alive = {}

(* The WaitGroup is never raised from zero once Start may wait on it, as   *)
(* package sync demands: whoever adds is itself counted (scheduler.go      *)
(* scheduleChecks).                                                        *)
AddWhileCounted == [][wg' > wg => start = "new" \/ wg > 0]_vars

(* Ending the context ends a scheduler that was started, whatever the      *)
(* watcher and the checks are doing (scheduler.go Start).                  *)
ShutdownCompletes == start # "new" /\ ctxDone ~> start = "returned"

(* A check that was scheduled runs, unless the agent shuts down first      *)
(* (scheduler.go executeCheck).                                            *)
EveryCheckRuns ==
    \A c \in Goroutines : checks[c] = "acquire" ~> (checks[c] = "run" \/ Ending)

=============================================================================

-------------------------------- MODULE Agent --------------------------------
(***************************************************************************)
(* The agent around its scheduler.  Start runs three goroutines: the       *)
(* scheduler's Start, the loop that reloads the targets, and the HTTP      *)
(* server.  It then waits for the agent's shutdown channel, which Stop     *)
(* closes, and for the goroutines, but no longer than 30 seconds.          *)
(*                                                                         *)
(* The context that the signal handler ends and the channel that Stop      *)
(* closes are two things: the scheduler heeds the one, Start the other.    *)
(***************************************************************************)
EXTENDS Scheduler

VARIABLES
    agent,       \* where the agent's Start is
    stopped,     \* the agent's shutdown channel is closed
    refresher,   \* where refreshConfigLoop is
    loaded,      \* what LoadTargets returned last
    http,        \* where the goroutine of the HTTP server is
    agentWg      \* the agent's WaitGroup

agentVars == <<agent, stopped, refresher, loaded, http, agentWg>>
allVars == <<vars, agentVars>>

(* A step of the scheduler alone.                                          *)
Scheduling(A) == A /\ UNCHANGED agentVars

Done == agentWg' = agentWg - 1

-----------------------------------------------------------------------------
AgentInit ==
    /\ Init
    /\ agent = "new" /\ stopped = FALSE
    /\ refresher = "none" /\ loaded = {} /\ http = "none"
    /\ agentWg = 0

(* The API server does not answer, or the result client cannot be made.    *)
AgentStartFails ==
    /\ agent = "new"
    /\ agent' = "failed"
    /\ UNCHANGED <<vars, stopped, refresher, loaded, http, agentWg>>

AgentStart ==
    /\ agent = "new"
    /\ agent' = "running"
    /\ refresher' = "select" /\ http' = "serving"
    /\ agentWg' = 3
    /\ UNCHANGED <<vars, stopped, loaded>>

(* The goroutine of the scheduler.                                         *)
SchedulerStart == agent # "new" /\ agent # "failed" /\ Scheduling(Start)

SchedulerReturn ==
    /\ Return
    /\ Done
    /\ UNCHANGED <<agent, stopped, refresher, loaded, http>>

(* A signal reaches the process: main's handler cancels the context.       *)
Signal == Scheduling(Cancel)

(* Whoever embeds the agent stops it; a second call would panic.           *)
Stop ==
    /\ ~stopped
    /\ stopped' = TRUE
    /\ UNCHANGED <<vars, agent, refresher, loaded, http, agentWg>>

(* The select takes a tick even when the loop may return as well.          *)
RefreshTick ==
    /\ refresher = "select"
    /\ refresher' = "load"
    /\ UNCHANGED <<vars, agent, stopped, loaded, http, agentWg>>

LoadTargets(new) ==
    /\ refresher = "load" /\ ~ctxDone
    /\ loaded' = new
    /\ refresher' = "update"
    /\ UNCHANGED <<vars, agent, stopped, http, agentWg>>

(* The List fails, as it does on an ended context: the old targets stay.   *)
LoadFails ==
    /\ refresher = "load"
    /\ refresher' = "select"
    /\ UNCHANGED <<vars, agent, stopped, loaded, http, agentWg>>

RefreshUpdate ==
    /\ refresher = "update"
    /\ UpdateTargets(loaded)
    /\ refresher' = "select" /\ loaded' = {}
    /\ UNCHANGED <<agent, stopped, http, agentWg>>

RefresherReturns ==
    /\ refresher = "select" /\ (ctxDone \/ stopped)
    /\ refresher' = "done"
    /\ Done
    /\ UNCHANGED <<vars, agent, stopped, loaded, http>>

(* ListenAndServe only returns with an error: nothing shuts the server     *)
(* down.                                                                   *)
HTTPFails ==
    /\ http = "serving"
    /\ http' = "done"
    /\ Done
    /\ UNCHANGED <<vars, agent, stopped, refresher, loaded>>

Drain ==
    /\ agent = "running" /\ stopped
    /\ agent' = "draining"
    /\ UNCHANGED <<vars, stopped, refresher, loaded, http, agentWg>>

(* Mutant: the agent does not wait for its goroutines.                     *)
AgentReturnsAtOnce ==
    /\ agent = "draining"
    /\ agent' = "returned"
    /\ UNCHANGED <<vars, stopped, refresher, loaded, http, agentWg>>

(* Start returns, and closes the result client.                            *)
AgentReturns ==
    /\ agent = "draining" /\ agentWg = 0
    /\ agent' = "returned"
    /\ UNCHANGED <<vars, stopped, refresher, loaded, http, agentWg>>

(* Mutant: there is no timeout.                                            *)
NoTimeout == FALSE /\ UNCHANGED allVars

(* The 30 seconds may be over before or after any step of the others.      *)
DrainTimeout ==
    /\ agent = "draining"
    /\ agent' = "forced"
    /\ UNCHANGED <<vars, stopped, refresher, loaded, http, agentWg>>

Refresher == RefreshTick \/ LoadFails \/ RefreshUpdate \/ RefresherReturns

AgentSteps == AgentStart \/ AgentStartFails \/ Drain \/ AgentReturns \/ DrainTimeout

AgentNext ==
    \/ AgentSteps
    \/ SchedulerStart \/ SchedulerReturn
    \/ Signal \/ Stop
    \/ Refresher
    \/ \E new \in SUBSET Targets : LoadTargets(new)
    \/ HTTPFails
    \/ Scheduling(Shutdown) \/ Scheduling(Loop) \/ Scheduling(TickerFires)
    \/ Scheduling(WatcherReturns) \/ Scheduling(StopScan)
    \/ \E c \in Goroutines, t \in Targets : Scheduling(Spawn(c, t))
    \/ \E c \in Goroutines : Scheduling(Check(c))

AgentSpec == AgentInit /\ [][AgentNext]_allVars

(* Goroutines that can run do, and checkFunc returns: its context has a    *)
(* timeout.  A select with two ready cases picks at random, so neither     *)
(* loop takes its tick for ever; senders waiting on a channel are served   *)
(* in turn, so none waits for ever for a token.                            *)
Fairness ==
    /\ WF_allVars(AgentSteps)
    /\ WF_allVars(SchedulerStart) /\ WF_allVars(SchedulerReturn)
    /\ WF_allVars(Scheduling(Shutdown)) /\ WF_allVars(Scheduling(Loop))
    /\ WF_allVars(Scheduling(StopScan)) /\ SF_allVars(Scheduling(WatcherReturns))
    /\ WF_allVars(\E c \in Goroutines, t \in Targets : Scheduling(Spawn(c, t)))
    /\ \A c \in Goroutines : /\ SF_allVars(Scheduling(Acquire(c)))
                             /\ WF_allVars(Scheduling(Check(c)))

FairAgentSpec == AgentSpec /\ Fairness

-----------------------------------------------------------------------------
(* The type of the agent's state and its scheduler's: the agent's          *)
(* WaitGroup counts three goroutines and is never taken below zero, which  *)
(* would panic.                                                            *)
AgentTypeOK ==
    /\ TypeOK
    /\ agent \in {"new", "failed", "running", "draining", "returned", "forced"}
    /\ stopped \in BOOLEAN
    /\ refresher \in {"none", "select", "load", "update", "done"}
    /\ loaded \subseteq Targets
    /\ http \in {"none", "serving", "done"}
    /\ agentWg \in 0..3

(* Unless the 30 seconds were over, Start returns and closes the result    *)
(* client only when nothing it started still runs, down to the last check  *)
(* with a result to submit (agent.go Start).                               *)
CleanReturn ==
    agent = "returned" =>
        /\ start = "returned" /\ watcher = "done" /\ Alive = {}
        /\ refresher = "done" /\ http = "done"

(* Stop always gets Start to return, although the HTTP server's goroutine  *)
(* never ends by itself and the scheduler does not hear of Stop (agent.go  *)
(* Start, Stop).                                                           *)
StopReturns == agent = "running" /\ stopped ~> agent \in {"returned", "forced"}

(* "Graceful shutdown with 30s timeout"                                    *)
(* (docs/PHASES_0_1_2_3_FINAL_COMPLETE.md:129): a signal to the process    *)
(* gets the agent to return.                                               *)
SignalStops == agent = "running" /\ ctxDone ~> agent \in {"returned", "forced"}

=============================================================================

--------------------------- MODULE StreamProcessor ---------------------------
(***************************************************************************)
(* The StreamProcessor of the aggregator: for every target it has heard    *)
(* of, the run of failures or successes seen over all agents, the health   *)
(* that follows from the last result, and the same run for each agent.  A  *)
(* target no result of which came in for a day is forgotten.  Every        *)
(* operation holds statesMu, so each is one step.                          *)
(***************************************************************************)
EXTENDS Integers

CONSTANTS
    Targets,   \* target keys
    Agents,    \* agent keys, "node:mode"
    NoState    \* the processor does not know the target

VARIABLE states  \* target key -> TargetState or NoState

(* An agent missing from AgentStates reads as one whose counters are zero. *)
Counters == [ConsecutiveFailures : Nat, ConsecutiveSuccesses : Nat]

Zero == [ConsecutiveFailures |-> 0, ConsecutiveSuccesses |-> 0]

TargetState ==
    [counters : Counters, State : {"Healthy", "Unhealthy"},
     AgentStates : [Agents -> Counters]]

InitialState ==
    [counters |-> Zero, State |-> "Healthy", AgentStates |-> [a \in Agents |-> Zero]]

(* Mutant: a success does not end the run of failures.                     *)
CountOnly(c, success) ==
    [ConsecutiveFailures |-> c.ConsecutiveFailures + (IF success THEN 0 ELSE 1),
     ConsecutiveSuccesses |-> IF success THEN c.ConsecutiveSuccesses + 1 ELSE 0]

Count(c, success) ==
    [ConsecutiveFailures |-> IF success THEN 0 ELSE c.ConsecutiveFailures + 1,
     ConsecutiveSuccesses |-> IF success THEN c.ConsecutiveSuccesses + 1 ELSE 0]

(* The agent's run, counted apart from the target's.                       *)
UpdateAgentState(agentStates, agent, success) ==
    [agentStates EXCEPT ![agent] = Count(@, success)]

-----------------------------------------------------------------------------
ProcessorInit == states = [t \in Targets |-> NoState]

ProcessResult(t, agent, success) ==
    LET old == IF states[t] = NoState THEN InitialState ELSE states[t]
    IN  states' = [states EXCEPT ![t] =
            [counters    |-> Count(old.counters, success),
             State       |-> IF success THEN "Healthy" ELSE "Unhealthy",
             AgentStates |-> UpdateAgentState(old.AgentStates, agent, success)]]

CleanupExpiredStates(expired) ==
    states' = [t \in Targets |-> IF t \in expired THEN NoState ELSE states[t]]

-----------------------------------------------------------------------------
ProcessorTypeOK == states \in [Targets -> TargetState \cup {NoState}]

Known == {t \in Targets : states[t] # NoState}

=============================================================================

----------------------------- MODULE AlertEngine -----------------------------
(***************************************************************************)
(* The AlertDecisionEngine of the aggregator.  Every check result of a     *)
(* target is counted into a run of consecutive failures or of consecutive  *)
(* successes; a long enough run of failures turns the target's alert on,   *)
(* a long enough run of successes turns it off.  How long is enough is     *)
(* read from the AlertRules installed at that moment: the code walks a Go  *)
(* map, in no particular order, and takes the first positive threshold, so *)
(* any of them may be the one.  Every operation holds the engine's mutex,  *)
(* so each is one step.                                                    *)
(***************************************************************************)
EXTENDS Integers

CONSTANTS
    Targets,                     \* target keys, "namespace/name"
    RuleNames,                   \* names an AlertRule may have
    RuleSpecs,                   \* the trigger/recovery settings a rule may carry
    NoRule,                      \* a name under which no rule is installed
    DefaultConsecutiveFailures,
    DefaultRecoverySuccesses

ASSUME EngineAssumption ==
    /\ DefaultConsecutiveFailures \in Nat \ {0}
    /\ DefaultRecoverySuccesses \in Nat \ {0}
    /\ RuleSpecs \subseteq [failures : Int, successes : Int]
    /\ NoRule \notin RuleSpecs

VARIABLES
    targetStates,  \* target key -> its counters and alert flag
    rules          \* rule name -> installed rule or NoRule

engineVars == <<targetStates, rules>>

(* The fields of AlertTargetState that a decision reads.  An entry missing *)
(* from the Go map behaves as one that is all zero.                        *)
TargetState ==
    [ConsecutiveFailures : Nat, ConsecutiveSuccesses : Nat, IsAlerting : BOOLEAN]

(* What ProcessResult tells its caller: ShouldAlert, ShouldResolve, neither. *)
Decisions == {"alert", "resolve", "none"}

Installed == {rules[n] : n \in {m \in RuleNames : rules[m] # NoRule}}

(* The thresholds that may be used under some rules: that of any rule that *)
(* sets one, or the configured default when none does.                     *)
FailuresUnder(specs) ==
    LET set == {r.failures : r \in {q \in specs : q.failures > 0}}
    IN  IF set = {} THEN {DefaultConsecutiveFailures} ELSE set

SuccessesUnder(specs) ==
    LET set == {r.successes : r \in {q \in specs : q.successes > 0}}
    IN  IF set = {} THEN {DefaultRecoverySuccesses} ELSE set

(* Mutant: the rules are not looked at.                                    *)
FailureThresholdsByDefault == {DefaultConsecutiveFailures}

FailureThresholds == FailuresUnder(Installed)

RecoveryThresholds == SuccessesUnder(Installed)

State(failures, successes, alerting) ==
    [ConsecutiveFailures |-> failures, ConsecutiveSuccesses |-> successes,
     IsAlerting |-> alerting]

NewTargetState == State(0, 0, FALSE)

(* Mutant: a success no longer ends the run of failures.                   *)
CountSuccessOnly(st) ==
    State(st.ConsecutiveFailures, st.ConsecutiveSuccesses + 1, st.IsAlerting)

CountSuccess(st) == State(0, st.ConsecutiveSuccesses + 1, st.IsAlerting)

CountFailure(st) == State(st.ConsecutiveFailures + 1, 0, st.IsAlerting)

SetAlerting(st, alerting) ==
    State(st.ConsecutiveFailures, st.ConsecutiveSuccesses, alerting)

-----------------------------------------------------------------------------
EngineInit ==
    /\ targetStates = [t \in Targets |-> NewTargetState]
    /\ rules = [n \in RuleNames |-> NoRule]

(* A success resolves an alerting target whose run reaches the threshold.  *)
ProcessSuccess(t, decision) ==
    LET st == CountSuccess(targetStates[t])
    IN  /\ \/ /\ decision = "resolve"
              /\ st.IsAlerting
              /\ \E threshold \in RecoveryThresholds :
                    st.ConsecutiveSuccesses >= threshold
              /\ targetStates' = [targetStates EXCEPT ![t] = SetAlerting(st, FALSE)]
           \/ /\ decision = "none"
              /\ st.IsAlerting => \E threshold \in RecoveryThresholds :
                                     st.ConsecutiveSuccesses < threshold
              /\ targetStates' = [targetStates EXCEPT ![t] = st]
        /\ UNCHANGED rules

(* A failure raises the alert of a quiet target whose run reaches the      *)
(* threshold.                                                              *)
ProcessFailure(t, decision) ==
    LET st == CountFailure(targetStates[t])
    IN  /\ \/ /\ decision = "alert"
              /\ ~st.IsAlerting
              /\ \E threshold \in FailureThresholds :
                    st.ConsecutiveFailures >= threshold
              /\ targetStates' = [targetStates EXCEPT ![t] = SetAlerting(st, TRUE)]
           \/ /\ decision = "none"
              /\ \/ st.IsAlerting
                 \/ \E threshold \in FailureThresholds :
                       st.ConsecutiveFailures < threshold
              /\ targetStates' = [targetStates EXCEPT ![t] = st]
        /\ UNCHANGED rules

ProcessResult(t, success, decision) ==
    \/ success /\ ProcessSuccess(t, decision)
    \/ ~success /\ ProcessFailure(t, decision)

(* Rules are installed, replaced and removed while results come in; the    *)
(* counters and alerts of the targets are left as they are.                *)
UpdateRule(n, spec) ==
    /\ rules' = [rules EXCEPT ![n] = spec]
    /\ UNCHANGED targetStates

RemoveRule(n) ==
    /\ rules' = [rules EXCEPT ![n] = NoRule]
    /\ UNCHANGED targetStates

-----------------------------------------------------------------------------
EngineTypeOK ==
    /\ targetStates \in [Targets -> TargetState]
    /\ rules \in [RuleNames -> RuleSpecs \cup {NoRule}]

=============================================================================

-------------------------- MODULE AlertHistoryProofs -------------------------
(***************************************************************************)
(* For every set of targets, of rules and of thresholds, and for every     *)
(* sequence of results and rule changes: the engine's counters are the     *)
(* lengths of the run its history ends with, and therefore its alerts are  *)
(* justified and none is missed.  MaxHistory bounds TLC only; the proofs   *)
(* hold for every value of it.                                             *)
(***************************************************************************)
EXTENDS AlertHistory, TLAPS

USE DEF Decisions, State

(* Thresholds are positive integers, and there is always one:              *)
(* getFailureThreshold, getRecoveryThreshold.                              *)
LEMMA ThresholdsUnder ==
    ASSUME NEW specs \in SUBSET RuleSpecs
    PROVE  /\ FailuresUnder(specs) \subseteq Nat \ {0} /\ FailuresUnder(specs) # {}
           /\ SuccessesUnder(specs) \subseteq Nat \ {0} /\ SuccessesUnder(specs) # {}
<1>1. \A r \in RuleSpecs : r.failures \in Int /\ r.successes \in Int
    BY EngineAssumption
<1> QED BY <1>1, EngineAssumption DEF FailuresUnder, SuccessesUnder

LEMMA InstalledTyped ==
    ASSUME TypeOK
    PROVE  Installed \in SUBSET RuleSpecs
BY DEF Installed, TypeOK, EngineTypeOK

(* Appending a result leaves the runs that end before it as they were.     *)
LEMMA AppendKeepsRuns ==
    ASSUME NEW h \in Seq(Results), NEW b \in Results,
           NEW i \in 1..Len(h), NEW n \in Nat \ {0}, NEW outcome \in BOOLEAN
    PROVE  RunEndsAt(Append(h, b), i, n, outcome) <=> RunEndsAt(h, i, n, outcome)
<1>1. \A k \in 1..Len(h) : Append(h, b)[k] = h[k]
    OBVIOUS
<1>2. ASSUME n <= i PROVE (i - n + 1)..i \subseteq 1..Len(h)
    BY <1>2
<1>3. ASSUME n <= i, NEW k \in (i - n + 1)..i
      PROVE  Append(h, b)[k].success = h[k].success
    BY <1>1, <1>2, <1>3
<1> QED BY <1>3, Zenon DEF RunEndsAt

(* A run of n at the end of the history is within the counted run.         *)
LEMMA RunLengthIsCounter ==
    ASSUME NEW h \in Seq(Results), NEW c \in Nat, NEW outcome \in BOOLEAN,
           RunEndsAt(h, Len(h), c, outcome),
           c < Len(h) => h[Len(h) - c].success # outcome,
           NEW n \in Nat \ {0}
    PROVE  RunEndsAt(h, Len(h), n, outcome) <=> n <= c
<1>1. ASSUME n <= c PROVE RunEndsAt(h, Len(h), n, outcome)
    <2>1. c <= Len(h) /\ \A k \in (Len(h) - c + 1)..Len(h) : h[k].success = outcome
        BY DEF RunEndsAt
    <2>2. n <= Len(h) /\ (Len(h) - n + 1)..Len(h) \subseteq (Len(h) - c + 1)..Len(h)
        BY <1>1, <2>1
    <2>3. \A k \in (Len(h) - n + 1)..Len(h) : h[k].success = outcome
        BY <2>1, <2>2, Zenon
    <2> QED BY <2>2, <2>3, Zenon DEF RunEndsAt
<1>2. ASSUME RunEndsAt(h, Len(h), n, outcome), c < n PROVE FALSE
    <2>1. n <= Len(h) /\ \A k \in (Len(h) - n + 1)..Len(h) : h[k].success = outcome
        BY <1>2 DEF RunEndsAt
    <2>2. c < Len(h) /\ Len(h) - c \in (Len(h) - n + 1)..Len(h)
        BY <1>2, <2>1
    <2>3. h[Len(h) - c].success = outcome
        BY <2>1, <2>2, Zenon
    <2> QED BY <2>2, <2>3, Zenon
<1> QED BY <1>1, <1>2

(* One more result extends the counted run by one or ends it.              *)
LEMMA AppendCountsRun ==
    ASSUME NEW h \in Seq(Results), NEW b \in Results, NEW c \in Nat, NEW outcome \in BOOLEAN,
           RunEndsAt(h, Len(h), c, outcome),
           c < Len(h) => h[Len(h) - c].success # outcome
    PROVE  LET g == Append(h, b)
               d == IF b.success = outcome THEN c + 1 ELSE 0
           IN  /\ RunEndsAt(g, Len(g), d, outcome)
               /\ d < Len(g) => g[Len(g) - d].success # outcome
<1> DEFINE g == Append(h, b)
<1>1. /\ \A k \in 1..Len(h) : g[k] = h[k]
      /\ g[Len(h) + 1] = b
      /\ Len(g) = Len(h) + 1
      /\ Len(h) \in Nat
    OBVIOUS
<1>2. c <= Len(h) /\ \A k \in (Len(h) - c + 1)..Len(h) : h[k].success = outcome
    BY DEF RunEndsAt
<1> HIDE DEF g
<1>3. CASE b.success = outcome
    <2>1. RunEndsAt(g, Len(h) + 1, c + 1, outcome)
        BY <1>1, <1>2, <1>3 DEF RunEndsAt
    <2>2. c + 1 < Len(h) + 1 => g[Len(h) + 1 - (c + 1)].success # outcome
        BY <1>1, <1>2
    <2> QED BY <1>1, <1>3, <2>1, <2>2 DEF g
<1>4. CASE b.success # outcome
    <2>1. RunEndsAt(g, Len(h) + 1, 0, outcome)
        BY <1>1 DEF RunEndsAt
    <2> QED BY <1>1, <1>4, <2>1 DEF g
<1> QED BY <1>3, <1>4

-----------------------------------------------------------------------------
(* The inductive invariant: the two safety properties are inductive once   *)
(* the counters are known to measure the run the history ends with.        *)
IInv == TypeOK /\ CountersMatchHistory /\ AlertJustified /\ AlertNotMissed

LEMMA InitIInv == Init => IInv
<1> SUFFICES ASSUME Init PROVE IInv
    OBVIOUS
<1>1. TypeOK
    BY DEF Init, EngineInit, TypeOK, EngineTypeOK, NewTargetState, TargetState
<1>2. CountersMatchHistory
    <2> SUFFICES ASSUME NEW t \in Targets
                 PROVE  LET h == history[t]
                            f == targetStates[t].ConsecutiveFailures
                            s == targetStates[t].ConsecutiveSuccesses
                        IN  /\ RunEndsAt(h, Len(h), f, FALSE)
                            /\ f < Len(h) => h[Len(h) - f].success
                            /\ RunEndsAt(h, Len(h), s, TRUE)
                            /\ s < Len(h) => ~h[Len(h) - s].success
        BY DEF CountersMatchHistory
    <2>1. /\ Len(history[t]) = 0
          /\ targetStates[t].ConsecutiveFailures = 0
          /\ targetStates[t].ConsecutiveSuccesses = 0
        BY DEF Init, EngineInit, NewTargetState
    <2>2. \A outcome \in BOOLEAN : RunEndsAt(history[t], 0, 0, outcome)
        BY DEF RunEndsAt
    <2>3. /\ RunEndsAt(history[t], Len(history[t]), targetStates[t].ConsecutiveFailures, FALSE)
          /\ RunEndsAt(history[t], Len(history[t]), targetStates[t].ConsecutiveSuccesses, TRUE)
        BY <2>1, <2>2, Zenon
    <2>4. /\ ~(targetStates[t].ConsecutiveFailures < Len(history[t]))
          /\ ~(targetStates[t].ConsecutiveSuccesses < Len(history[t]))
        BY <2>1
    <2> QED BY <2>3, <2>4, Zenon
<1>3. AlertJustified /\ AlertNotMissed
    BY DEF Init, EngineInit, NewTargetState, AlertJustified, AlertNotMissed
<1> QED BY <1>1, <1>2, <1>3 DEF IInv

(* What one observed result does to its target, and that it does nothing   *)
(* to the others.                                                          *)
LEMMA ObserveEffect ==
    ASSUME TypeOK, NEW t \in Targets, NEW success \in BOOLEAN, Observe(t, success)
    PROVE  LET st == IF success THEN CountSuccess(targetStates[t])
                                ELSE CountFailure(targetStates[t])
           IN  \E alerting \in BOOLEAN :
                  /\ targetStates' = [targetStates EXCEPT ![t] = SetAlerting(st, alerting)]
                  /\ history' = [history EXCEPT ![t] = Append(@, [success |-> success, specs |-> Installed])]
                  /\ UNCHANGED rules
                  /\ st.IsAlerting /\ ~alerting =>
                        /\ success
                        /\ \E n \in RecoveryThresholds : st.ConsecutiveSuccesses >= n
                  /\ ~st.IsAlerting /\ alerting =>
                        /\ ~success
                        /\ \E n \in FailureThresholds : st.ConsecutiveFailures >= n
                  /\ st.IsAlerting /\ alerting /\ success =>
                        \E n \in RecoveryThresholds : st.ConsecutiveSuccesses < n
                  /\ ~st.IsAlerting /\ ~alerting /\ ~success =>
                        \E n \in FailureThresholds : st.ConsecutiveFailures < n
<1>1. targetStates[t] \in TargetState
    BY DEF TypeOK, EngineTypeOK
<1>2. PICK decision \in Decisions : ProcessResult(t, success, decision)
    BY DEF Observe
<1>3. /\ CountSuccess(targetStates[t]) \in TargetState
      /\ CountFailure(targetStates[t]) \in TargetState
      /\ CountSuccess(targetStates[t]).IsAlerting = targetStates[t].IsAlerting
      /\ CountFailure(targetStates[t]).IsAlerting = targetStates[t].IsAlerting
    BY <1>1 DEF TargetState, CountSuccess, CountFailure
<1>4. \A st \in TargetState : st = SetAlerting(st, st.IsAlerting)
                              /\ st.IsAlerting \in BOOLEAN
    BY DEF TargetState, SetAlerting
<1>5. CASE success
    <2>1. ProcessSuccess(t, decision)
        BY <1>2, <1>5 DEF ProcessResult
    <2> QED BY <2>1, <1>3, <1>4, <1>5 DEF ProcessSuccess, Observe
<1>6. CASE ~success
    <2>1. ProcessFailure(t, decision)
        BY <1>2, <1>6 DEF ProcessResult
    <2> QED BY <2>1, <1>3, <1>4, <1>6 DEF ProcessFailure, Observe
<1> QED BY <1>5, <1>6

(* One observed result preserves the invariant, for the observed target.   *)
LEMMA ObservePreserves ==
    ASSUME IInv, NEW t \in Targets, NEW success \in BOOLEAN, Observe(t, success)
    PROVE  IInv'
<1> DEFINE st == IF success THEN CountSuccess(targetStates[t])
                            ELSE CountFailure(targetStates[t])
           h  == history[t]
           b  == [success |-> success, specs |-> Installed]
           g  == Append(h, b)
           n  == Len(h)
<1> USE DEF IInv
<1>1. PICK alerting \in BOOLEAN :
          /\ targetStates' = [targetStates EXCEPT ![t] = SetAlerting(st, alerting)]
          /\ history' = [history EXCEPT ![t] = g]
          /\ UNCHANGED rules
          /\ st.IsAlerting /\ ~alerting =>
                success /\ \E k \in RecoveryThresholds : st.ConsecutiveSuccesses >= k
          /\ ~st.IsAlerting /\ alerting =>
                ~success /\ \E k \in FailureThresholds : st.ConsecutiveFailures >= k
          /\ st.IsAlerting /\ alerting /\ success =>
                \E k \in RecoveryThresholds : st.ConsecutiveSuccesses < k
          /\ ~st.IsAlerting /\ ~alerting /\ ~success =>
                \E k \in FailureThresholds : st.ConsecutiveFailures < k
    BY ObserveEffect
<1>2. /\ targetStates[t] \in TargetState
      /\ b \in Results /\ b.success = success /\ b.specs = Installed
      /\ h = history[t] /\ n = Len(h)
      /\ g = Append(h, b)
      /\ h \in Seq(Results)
      /\ g \in Seq(Results)
      /\ Len(g) = n + 1
      /\ n \in Nat
      /\ g[n + 1] = b
      /\ \A k \in 1..n : g[k] = h[k]
    <2>1. /\ targetStates[t] \in TargetState /\ history[t] \in Seq(Results)
          /\ Installed \in SUBSET RuleSpecs
        BY InstalledTyped DEF TypeOK, EngineTypeOK
    <2>2. b \in Results /\ b.success = success /\ b.specs = Installed
        BY <2>1 DEF Results
    <2> HIDE DEF b
    <2> QED BY <2>1, <2>2
<1>3. /\ st \in TargetState
      /\ SetAlerting(st, alerting) \in TargetState
      /\ st.IsAlerting = targetStates[t].IsAlerting
      /\ SetAlerting(st, alerting).ConsecutiveFailures = st.ConsecutiveFailures
      /\ SetAlerting(st, alerting).ConsecutiveSuccesses = st.ConsecutiveSuccesses
      /\ SetAlerting(st, alerting).IsAlerting = alerting
      /\ success => st.ConsecutiveFailures = 0
      /\ ~success => st.ConsecutiveSuccesses = 0
    BY <1>2 DEF TargetState, CountSuccess, CountFailure, SetAlerting
<1>4. /\ targetStates'[t] = SetAlerting(st, alerting)
      /\ history'[t] = g
      /\ \A u \in Targets \ {t} : /\ targetStates'[u] = targetStates[u]
                                  /\ history'[u] = history[u]
    BY <1>1 DEF TypeOK, EngineTypeOK
<1>5. TypeOK'
    BY <1>1, <1>2, <1>3 DEF TypeOK, EngineTypeOK
<1> DEFINE cf == st.ConsecutiveFailures
           cs == st.ConsecutiveSuccesses
<1>6. /\ cf \in Nat /\ cs \in Nat
      /\ RunEndsAt(g, Len(g), cf, FALSE)
      /\ cf < Len(g) => g[Len(g) - cf].success # FALSE
      /\ RunEndsAt(g, Len(g), cs, TRUE)
      /\ cs < Len(g) => g[Len(g) - cs].success # TRUE
    <2> DEFINE cf0 == targetStates[t].ConsecutiveFailures
               cs0 == targetStates[t].ConsecutiveSuccesses
    <2>1. /\ cf0 \in Nat /\ cs0 \in Nat
          /\ cf = IF success = FALSE THEN cf0 + 1 ELSE 0
          /\ cs = IF success = TRUE THEN cs0 + 1 ELSE 0
        BY <1>2 DEF TargetState, CountSuccess, CountFailure
    <2>2. /\ RunEndsAt(h, Len(h), cf0, FALSE)
          /\ cf0 < Len(h) => h[Len(h) - cf0].success # FALSE
          /\ RunEndsAt(h, Len(h), cs0, TRUE)
          /\ cs0 < Len(h) => h[Len(h) - cs0].success # TRUE
        BY DEF CountersMatchHistory
    <2> HIDE DEF cf, cs, cf0, cs0, g, h, b
    <2>3. /\ RunEndsAt(g, Len(g), cf, FALSE)
          /\ cf < Len(g) => g[Len(g) - cf].success # FALSE
        BY <2>1, <2>2, <1>2, AppendCountsRun
    <2>4. /\ RunEndsAt(g, Len(g), cs, TRUE)
          /\ cs < Len(g) => g[Len(g) - cs].success # TRUE
        BY <2>1, <2>2, <1>2, AppendCountsRun
    <2>5. cf \in Nat /\ cs \in Nat
        BY <2>1
    <2> QED BY <2>3, <2>4, <2>5
<1> HIDE DEF g, h, n, b, st
<1>7. CountersMatchHistory'
    <2> SUFFICES ASSUME NEW u \in Targets
                 PROVE  LET hu == history'[u]
                            f  == targetStates'[u].ConsecutiveFailures
                            s  == targetStates'[u].ConsecutiveSuccesses
                        IN  /\ RunEndsAt(hu, Len(hu), f, FALSE)
                            /\ f < Len(hu) => hu[Len(hu) - f].success
                            /\ RunEndsAt(hu, Len(hu), s, TRUE)
                            /\ s < Len(hu) => ~hu[Len(hu) - s].success
        BY DEF CountersMatchHistory
    <2>1. CASE u = t
        <3>1. /\ cf < Len(g) => g[Len(g) - cf].success \in BOOLEAN
              /\ cs < Len(g) => g[Len(g) - cs].success \in BOOLEAN
            <4>1. \A k \in 1..Len(g) : g[k].success \in BOOLEAN
                <5>1. \A k \in 1..Len(g) : g[k] \in Results
                    BY <1>2
                <5> QED BY <5>1 DEF Results
            <4>2. /\ cf < Len(g) => Len(g) - cf \in 1..Len(g)
                  /\ cs < Len(g) => Len(g) - cs \in 1..Len(g)
                BY <1>2, <1>6
            <4> QED BY <4>1, <4>2, Zenon
        <3> QED BY <2>1, <3>1, <1>3, <1>4, <1>6
    <2>2. CASE u # t
        BY <2>2, <1>4 DEF CountersMatchHistory
    <2> QED BY <2>1, <2>2
(* Which runs the new last result ends, in terms of the counters.          *)
<1>8. /\ \A k \in Nat \ {0} : RunEndsAt(g, n + 1, k, FALSE) <=> k <= cf
      /\ \A k \in Nat \ {0} : RunEndsAt(g, n + 1, k, TRUE) <=> k <= cs
    <2> HIDE DEF cf, cs
    <2>1. /\ \A k \in Nat \ {0} : RunEndsAt(g, Len(g), k, FALSE) <=> k <= cf
          /\ \A k \in Nat \ {0} : RunEndsAt(g, Len(g), k, TRUE) <=> k <= cs
        BY <1>2, <1>6, RunLengthIsCounter, Zenon
    <2> QED BY <1>2, <2>1
<1>9. \A i \in 1..n, k \in Nat \ {0}, outcome \in BOOLEAN :
          RunEndsAt(g, i, k, outcome) <=> RunEndsAt(h, i, k, outcome)
    BY <1>2, AppendKeepsRuns
<1>10. \A i \in 1..n : /\ MayAlertAt(g, i) <=> MayAlertAt(h, i)
                       /\ MustAlertAt(g, i) <=> MustAlertAt(h, i)
                       /\ MayResolveAt(g, i) <=> MayResolveAt(h, i)
                       /\ MustResolveAt(g, i) <=> MustResolveAt(h, i)
    <2> SUFFICES ASSUME NEW i \in 1..n
                 PROVE  /\ MayAlertAt(g, i) <=> MayAlertAt(h, i)
                        /\ MustAlertAt(g, i) <=> MustAlertAt(h, i)
                        /\ MayResolveAt(g, i) <=> MayResolveAt(h, i)
                        /\ MustResolveAt(g, i) <=> MustResolveAt(h, i)
        OBVIOUS
    <2>1. g[i].specs = h[i].specs /\ h[i].specs \in SUBSET RuleSpecs
        <3>1. g[i] = h[i] /\ h[i] \in Results
            BY <1>2
        <3> QED BY <3>1 DEF Results
    <2> QED BY <1>9, <2>1, ThresholdsUnder
            DEF MayAlertAt, MustAlertAt, MayResolveAt, MustResolveAt
(* The thresholds in force are those of the rules it is recorded with.     *)
<1>11. /\ FailureThresholds = FailuresUnder(g[n + 1].specs)
       /\ RecoveryThresholds = SuccessesUnder(g[n + 1].specs)
       /\ FailureThresholds \subseteq Nat \ {0} /\ FailureThresholds # {}
       /\ RecoveryThresholds \subseteq Nat \ {0} /\ RecoveryThresholds # {}
    BY <1>2, InstalledTyped, ThresholdsUnder DEF FailureThresholds, RecoveryThresholds
<1>12. AlertJustified'
    <2> SUFFICES ASSUME NEW u \in Targets, targetStates'[u].IsAlerting
                 PROVE  \E i \in 1..Len(history'[u]) :
                           /\ MayAlertAt(history'[u], i)
                           /\ \A j \in (i + 1)..Len(history'[u]) :
                                 ~MustResolveAt(history'[u], j)
        BY DEF AlertJustified
    <2>1. CASE u # t
        BY <2>1, <1>4 DEF AlertJustified
    <2>2. CASE u = t /\ st.IsAlerting
        <3>1. PICK i \in 1..n : /\ MayAlertAt(h, i)
                                /\ \A j \in (i + 1)..n : ~MustResolveAt(h, j)
            BY <2>2, <1>2, <1>3 DEF AlertJustified
        <3>2. \E k \in RecoveryThresholds : cs < k
            BY <2>2, <1>1, <1>3, <1>4, <1>11
        <3>3. ~MustResolveAt(g, n + 1)
            <4>1. PICK k \in RecoveryThresholds : cs < k
                BY <3>2
            <4>2. k \in Nat \ {0}
                BY <1>11
            <4>3. ~(k <= cs)
                BY <4>1, <4>2, <1>6
            <4>4. ~RunEndsAt(g, n + 1, k, TRUE)
                BY <4>2, <4>3, <1>8, Zenon
            <4> QED BY <1>11, <4>1, <4>4, Zenon DEF MustResolveAt
        <3> QED BY <2>2, <3>1, <3>3, <1>2, <1>4, <1>10
    <2>3. CASE u = t /\ ~st.IsAlerting
        <3>1. MayAlertAt(g, n + 1)
            BY <2>3, <1>1, <1>3, <1>4, <1>8, <1>11 DEF MayAlertAt, TargetState
        <3> QED BY <2>3, <3>1, <1>2, <1>4
    <2> QED BY <2>1, <2>2, <2>3
<1>13. AlertNotMissed'
    <2> SUFFICES ASSUME NEW u \in Targets, ~targetStates'[u].IsAlerting,
                        NEW i \in 1..Len(history'[u]), MustAlertAt(history'[u], i)
                 PROVE  \E j \in (i + 1)..Len(history'[u]) : MayResolveAt(history'[u], j)
        BY DEF AlertNotMissed
    <2>1. CASE u # t
        BY <2>1, <1>4 DEF AlertNotMissed
    <2>2. CASE u = t /\ st.IsAlerting
        <3>1. MayResolveAt(g, n + 1) /\ success
            BY <2>2, <1>1, <1>3, <1>4, <1>8, <1>11 DEF MayResolveAt, TargetState
        <3>2. i # n + 1
            <4>1. ~MustAlertAt(g, n + 1)
                <5>1. PICK k \in FailureThresholds : TRUE
                    BY <1>11
                <5>2. k \in Nat \ {0} /\ ~(k <= cf)
                    BY <3>1, <1>3, <1>11
                <5>3. ~RunEndsAt(g, n + 1, k, FALSE)
                    BY <5>2, <1>8, Zenon
                <5> QED BY <1>11, <5>1, <5>3, Zenon DEF MustAlertAt
            <4> QED BY <4>1, <2>2, <1>4, Zenon
        <3>3. Len(history'[u]) = n + 1 /\ i \in 1..(n + 1)
            BY <2>2, <1>2, <1>4
        <3>4. n + 1 \in (i + 1)..Len(history'[u])
            BY <3>2, <3>3, <1>2
        <3> QED BY <2>2, <3>1, <3>4, <1>4, Zenon
    <2>3. CASE u = t /\ ~st.IsAlerting
        <3>3. \E k \in FailureThresholds : cf < k
            BY <2>3, <1>1, <1>3, <1>4, <1>11
        <3>1. i # n + 1
            <4>1. ~MustAlertAt(g, n + 1)
                <5>1. PICK k \in FailureThresholds : cf < k
                    BY <3>3
                <5>2. k \in Nat \ {0} /\ ~(k <= cf)
                    BY <5>1, <1>6, <1>11
                <5>3. ~RunEndsAt(g, n + 1, k, FALSE)
                    BY <5>2, <1>8, Zenon
                <5> QED BY <1>11, <5>1, <5>3, Zenon DEF MustAlertAt
            <4> QED BY <4>1, <2>3, <1>4, Zenon
        <3>2. PICK j \in (i + 1)..n : MayResolveAt(h, j)
            BY <2>3, <3>1, <1>2, <1>3, <1>4, <1>10 DEF AlertNotMissed
        <3> QED BY <2>3, <3>2, <1>2, <1>4, <1>10
    <2> QED BY <2>1, <2>2, <2>3
<1> QED BY <1>5, <1>7, <1>12, <1>13

(* Changing rules touches neither the counters nor the history.            *)
LEMMA ChangeRulePreserves ==
    ASSUME IInv, NEW r \in RuleNames, ChangeRule(r)
    PROVE  IInv'
<1>1. UNCHANGED <<targetStates, history>>
    BY DEF ChangeRule, UpdateRule, RemoveRule
<1>2. TypeOK'
    BY <1>1 DEF ChangeRule, UpdateRule, RemoveRule, IInv, TypeOK, EngineTypeOK
<1>3. CountersMatchHistory' /\ AlertJustified' /\ AlertNotMissed'
    BY <1>1 DEF IInv, CountersMatchHistory, AlertJustified, AlertNotMissed
<1> QED BY <1>2, <1>3 DEF IInv

LEMMA StepIInv == IInv /\ [Next]_vars => IInv'
<1> SUFFICES ASSUME IInv, [Next]_vars PROVE IInv'
    OBVIOUS
<1>1. ASSUME NEW t \in Targets, NEW success \in BOOLEAN, Observe(t, success)
      PROVE  IInv'
    BY <1>1, ObservePreserves
<1>2. ASSUME NEW r \in RuleNames, ChangeRule(r)
      PROVE  IInv'
    BY <1>2, ChangeRulePreserves
<1>3. CASE UNCHANGED vars
    BY <1>3 DEF vars, IInv, TypeOK, EngineTypeOK, CountersMatchHistory,
                AlertJustified, AlertNotMissed
<1> QED BY <1>1, <1>2, <1>3 DEF Next

-----------------------------------------------------------------------------
(* The engine's state keeps its type under any results and rules           *)
(* (alerting.go AlertTargetState).                                         *)
THEOREM TypeCorrect == Spec => []TypeOK
<1>1. IInv => TypeOK
    BY DEF IInv
<1> QED BY <1>1, InitIInv, StepIInv, PTL DEF Spec

(* The counters always measure the run the results end with                *)
(* (alerting.go ProcessResult).                                            *)
THEOREM CountersCorrect == Spec => []CountersMatchHistory
<1>1. IInv => CountersMatchHistory
    BY DEF IInv
<1> QED BY <1>1, InitIInv, StepIInv, PTL DEF Spec

(* No alert is raised or kept without the failures that justify it, for    *)
(* every set of rules and every order of results and rule changes          *)
(* (alerting.go ProcessResult).                                            *)
THEOREM AlertsJustified == Spec => []AlertJustified
<1>1. IInv => AlertJustified
    BY DEF IInv
<1> QED BY <1>1, InitIInv, StepIInv, PTL DEF Spec

(* No outage that every rule would report goes unreported, for every set   *)
(* of rules and every order of results and rule changes                    *)
(* (alerting.go ProcessResult).                                            *)
THEOREM AlertsNotMissed == Spec => []AlertNotMissed
<1>1. IInv => AlertNotMissed
    BY DEF IInv
<1> QED BY <1>1, InitIInv, StepIInv, PTL DEF Spec

=============================================================================

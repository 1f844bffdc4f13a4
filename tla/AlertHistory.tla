---------------------------- MODULE AlertHistory -----------------------------
(***************************************************************************)
(* The decision engine under every sequence of results and rule changes.   *)
(* The results of each target are recorded, with the rules each was        *)
(* handled under, in a history variable, so that what the engine decides   *)
(* incrementally can be compared with what the whole history says.         *)
(***************************************************************************)
EXTENDS AlertEngine, Sequences

CONSTANT MaxHistory  \* bound on the results of one target, for TLC

ASSUME HistoryAssumption == MaxHistory \in Nat

VARIABLE history     \* target key -> its results and the rules of their moment

vars == <<targetStates, rules, history>>

Results == [success : BOOLEAN, specs : SUBSET RuleSpecs]

Init == EngineInit /\ history = [t \in Targets |-> <<>>]

Observe(t, success) ==
    /\ Len(history[t]) < MaxHistory
    /\ \E decision \in Decisions : ProcessResult(t, success, decision)
    /\ history' = [history EXCEPT
                     ![t] = Append(@, [success |-> success, specs |-> Installed])]

ChangeRule(n) ==
    /\ RemoveRule(n) \/ \E spec \in RuleSpecs : UpdateRule(n, spec)
    /\ UNCHANGED history

Next ==
    \/ \E t \in Targets, success \in BOOLEAN : Observe(t, success)
    \/ \E n \in RuleNames : ChangeRule(n)

Spec == Init /\ [][Next]_vars

-----------------------------------------------------------------------------
(* The type of the engine's state and of the history.                      *)
TypeOK == EngineTypeOK /\ history \in [Targets -> Seq(Results)]

(* Results i-n+1 .. i of h are n results equal to outcome.                 *)
RunEndsAt(h, i, n, outcome) ==
    /\ n <= i
    /\ \A k \in (i - n + 1)..i : h[k].success = outcome

(* The run of failures at i is long enough under some, or under every,     *)
(* threshold of the rules that result i was handled under; the same for    *)
(* recovery.                                                               *)
MayAlertAt(h, i) == \E n \in FailuresUnder(h[i].specs) : RunEndsAt(h, i, n, FALSE)
MustAlertAt(h, i) == \A n \in FailuresUnder(h[i].specs) : RunEndsAt(h, i, n, FALSE)
MayResolveAt(h, i) == \E n \in SuccessesUnder(h[i].specs) : RunEndsAt(h, i, n, TRUE)
MustResolveAt(h, i) == \A n \in SuccessesUnder(h[i].specs) : RunEndsAt(h, i, n, TRUE)

(* No false alarm and no stuck alarm: a target that is alerting has seen a *)
(* run of failures that one of the rules of its moment called an outage,   *)
(* and since then no run of successes that all the rules of its moment     *)
(* called a recovery (alerting.go ProcessResult, getFailureThreshold).     *)
AlertJustified ==
    \A t \in Targets :
        targetStates[t].IsAlerting =>
            \E i \in 1..Len(history[t]) :
                /\ MayAlertAt(history[t], i)
                /\ \A j \in (i + 1)..Len(history[t]) : ~MustResolveAt(history[t], j)

(* No missed alarm: a target that is not alerting has recovered, under one *)
(* of the rules of that moment, after the last run of failures that all    *)
(* the rules of its moment called an outage.  Where rules agree,           *)
(* AlertJustified and AlertNotMissed say together exactly when a target is *)
(* alerting (alerting.go ProcessResult, getRecoveryThreshold).             *)
AlertNotMissed ==
    \A t \in Targets :
        ~targetStates[t].IsAlerting =>
            \A i \in 1..Len(history[t]) :
                MustAlertAt(history[t], i) =>
                    \E j \in (i + 1)..Len(history[t]) : MayResolveAt(history[t], j)

(* The counters are the lengths of the run the history ends with.          *)
CountersMatchHistory ==
    \A t \in Targets :
        LET h  == history[t]
            cf == targetStates[t].ConsecutiveFailures
            cs == targetStates[t].ConsecutiveSuccesses
        IN  /\ RunEndsAt(h, Len(h), cf, FALSE) /\ (cf < Len(h) => h[Len(h) - cf].success)
            /\ RunEndsAt(h, Len(h), cs, TRUE)  /\ (cs < Len(h) => ~h[Len(h) - cs].success)

=============================================================================

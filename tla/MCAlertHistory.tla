--------------------------- MODULE MCAlertHistory ----------------------------
(* Instances of AlertHistory for TLC.                                     *)
EXTENDS AlertHistory

(* A rule that sets both thresholds, one above and one below its default,  *)
(* and one that only sets the first.                                       *)
SomeRuleSpecs ==
    {[failures |-> 3, successes |-> 1],
     [failures |-> 1, successes |-> 0]}

==============================================================================

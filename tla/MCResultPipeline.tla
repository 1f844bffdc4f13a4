-------------------------- MODULE MCResultPipeline ---------------------------
(* Instances of ResultPipeline for TLC.                                   *)
EXTENDS ResultPipeline

CONSTANTS r1, t1, b1

(* Every target's events under its own name; b1 gives no namespace, and    *)
(* "default" makes it t1.                                                  *)
Own == [t \in Targets |-> t]
Defaulted == [t \in Targets |-> IF t = b1 THEN t1 ELSE t]

(* The results of t1 reach every replica, those of b1 only r1.             *)
Spread == (Replicas \X {t1}) \cup {<<r1, b1>>}
Single == {<<r1, t1>>}

(* Creations a second apart; creations in the same second or apart.        *)
Spaced == {1}
Bursty == {0, 1}

=============================================================================

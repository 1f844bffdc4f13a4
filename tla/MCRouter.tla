------------------------------ MODULE MCRouter -------------------------------
(* Instances of Router for TLC.                                           *)
EXTENDS Router

Alert(key, severity, team) ==
    [key |-> key, severity |-> severity, namespace |-> "ns", blastRadius |-> "node",
     team |-> team]

(* Two keys; alerts that match both rules, one of them, or none.           *)
SomeAlerts ==
    {Alert("k1", "critical", "db"), Alert("k1", "warning", "none"),
     Alert("k2", "critical", "none"), Alert("k2", "info", NoLabels)}

Rule(severities, teams, channels, continue) ==
    [severities |-> severities, namespaces |-> {}, blastRadius |-> {},
     teams |-> teams, channels |-> channels, continue |-> continue]

(* The first rule goes on to the second; "webhook" is not registered.      *)
SomeRules ==
    <<Rule({"critical"}, {}, <<"pagerduty", "webhook">>, TRUE),
      Rule({}, {"db"}, <<"slack", "email">>, FALSE)>>

==============================================================================

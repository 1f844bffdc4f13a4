------------------------------ MODULE AlertLife ------------------------------
(***************************************************************************)
(* What those who read the alerts of a manager may rely on.  An alert      *)
(* moves in single steps and only along these ways; the alerts change one  *)
(* at a time, until a restart forgets them all; and an outage that has an  *)
(* open alert gets no other.                                               *)
(***************************************************************************)
CONSTANTS
    Alarms,     \* the alerts there may be
    Outages,    \* what an alert is about
    NoOutage

VARIABLES
    life,       \* "none", or the state of the alert
    outage      \* what it is about

story == <<life, outage>>

Lives == {"none", "firing", "acknowledged", "silenced", "resolved"}

Init ==
    /\ life = [a \in Alarms |-> "none"]
    /\ outage = [a \in Alarms |-> NoOutage]

Attended(o) == \E a \in Alarms : outage[a] = o /\ life[a] \in {"firing", "acknowledged"}

Raise(a, o) ==
    /\ life[a] = "none" /\ ~Attended(o)
    /\ life' = [life EXCEPT ![a] = "firing"]
    /\ outage' = [outage EXCEPT ![a] = o]

Turn(a, from, to) ==
    /\ life[a] \in from
    /\ life' = [life EXCEPT ![a] = to]
    /\ UNCHANGED outage

Acknowledge(a) == Turn(a, {"firing"}, "acknowledged")

Resolve(a) == Turn(a, {"firing", "acknowledged", "silenced"}, "resolved")

Silence(a) == Turn(a, Lives \ {"none", "silenced"}, "silenced")

FireAgain(a) == Turn(a, {"silenced"}, "firing")

Forget ==
    /\ life' = [a \in Alarms |-> "none"]
    /\ outage' = [a \in Alarms |-> NoOutage]

Next ==
    \/ \E a \in Alarms, o \in Outages : Raise(a, o)
    \/ \E a \in Alarms : Acknowledge(a) \/ Resolve(a) \/ Silence(a) \/ FireAgain(a)
    \/ Forget

Spec == Init /\ [][Next]_story
=============================================================================

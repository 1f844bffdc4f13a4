---------------------------- MODULE AtLeastOnce ------------------------------
(***************************************************************************)
(* What the way from an agent to the aggregator promises for the results   *)
(* of checks: at least once, if it says so, and never more than so many    *)
(* times.  A result may be delivered before and after its sender is told   *)
(* that it was, or given up; one that was given up is never confirmed.     *)
(***************************************************************************)
EXTENDS Naturals

CONSTANTS
    Items,         \* the results there may be
    MaxDeliveries

VARIABLES
    offered,    \* items a sender has handed over
    open,       \* those it waits for
    delivered,  \* how often each item was delivered
    confirmed   \* items whose sender was told that they were delivered

promise == <<offered, open, delivered, confirmed>>

Init ==
    /\ offered = {} /\ open = {} /\ confirmed = {}
    /\ delivered = [i \in Items |-> 0]

Offer(i) ==
    /\ i \notin offered
    /\ offered' = offered \cup {i}
    /\ open' = open \cup {i}
    /\ UNCHANGED <<delivered, confirmed>>

Deliver(i) ==
    /\ i \in offered /\ delivered[i] < MaxDeliveries
    /\ delivered' = [delivered EXCEPT ![i] = @ + 1]
    /\ UNCHANGED <<offered, open, confirmed>>

Confirm(i) ==
    /\ i \in open /\ delivered[i] > 0
    /\ open' = open \ {i}
    /\ confirmed' = confirmed \cup {i}
    /\ UNCHANGED <<offered, delivered>>

GiveUp(i) ==
    /\ i \in open
    /\ open' = open \ {i}
    /\ UNCHANGED <<offered, delivered, confirmed>>

Next == \E i \in Items : Offer(i) \/ Deliver(i) \/ Confirm(i) \/ GiveUp(i)

Spec == Init /\ [][Next]_promise
=============================================================================

---------------------------- MODULE AlertManager -----------------------------
(***************************************************************************)
(* The alert manager and its MemoryStore.  Creating, resolving,            *)
(* acknowledging and silencing an alert, and the hourly cleanup, each hold *)
(* m.mu from start to end, so one of them runs at a time; but each calls   *)
(* the store more than once, Stop closes the store without taking m.mu,    *)
(* and readers of the store do not take it either.  So an operation is     *)
(* split where it calls the store.  The manager keeps its own Alert        *)
(* objects and the store keeps copies, which the operations keep equal.    *)
(*                                                                         *)
(* Times are what is left of them: of a silence until it expires, of a     *)
(* resolved alert until it is past retention.                              *)
(***************************************************************************)
EXTENDS Integers, Sequences, FiniteSets

CONSTANTS
    Keys,           \* what findSimilarAlert compares: target, layer and code
    MaxAlerts,      \* bound on the alerts ever created
    MaxOps,         \* bound on the operations begun
    MaxRestarts,    \* bound on restarts
    Durations,      \* silence durations requests may ask for
    Retention,      \* HistoryRetention
    NoAlert

States == {"firing", "acknowledged", "resolved", "silenced"}

(* left counts down to the end of a silence, or of the retention of a      *)
(* resolved alert; nothing reads the time of the other states.             *)
Alerts == [key : Keys, status : States, left : Nat]

ASSUME ManagerAssumption ==
    /\ MaxAlerts \in Nat /\ MaxOps \in Nat /\ MaxRestarts \in Nat
    /\ Durations \subseteq Nat
    /\ Retention \in Nat \ {0}
    /\ NoAlert \notin Alerts

VARIABLES
    active,   \* Manager.active: the manager's Alert objects
    alerts,   \* MemoryStore.alerts: the copies
    log,      \* MemoryStore.events of every alert
    phase,    \* running, stopping (shutdownCh closed), closed (store closed)
    op,       \* the operation that holds m.mu, past its first store call
    routed,   \* ghost: how often Route was called for each alert
    issued,   \* ghost: ids handed out; uuid.New never repeats one
    spent     \* operations and restarts so far

vars == <<active, alerts, log, phase, op, routed, issued, spent>>

Ids == 1..MaxAlerts

Events == [from : States \cup {"none"}, to : States]

Ops ==
    [kind : {"none"}] \cup [kind : {"log"}, id : Ids, event : Events]
        \cup [kind : {"cleanup"}, pending : SUBSET Ids]

NoOp == [kind |-> "none"]

Active == {id \in Ids : active[id] # NoAlert}

Stored == {id \in Ids : alerts[id] # NoAlert}

Spend(what) == spent' = [spent EXCEPT ![what] = @ + 1]

(* m.mu is free, and this operation takes it.                              *)
Begin ==
    /\ op = NoOp
    /\ spent.ops < MaxOps
    /\ Spend("ops")

(* A store that is closed refuses every call.                              *)
Open == phase # "closed"

-----------------------------------------------------------------------------
Init ==
    /\ active = [id \in Ids |-> NoAlert]
    /\ alerts = [id \in Ids |-> NoAlert]
    /\ log = [id \in Ids |-> <<>>]
    /\ phase = "running"
    /\ op = NoOp
    /\ routed = [id \in Ids |-> 0]
    /\ issued = 0
    /\ spent = [ops |-> 0, restarts |-> 0]

(* Mutant: acknowledged alerts are not deduplicated against.               *)
SimilarFiring(key) ==
    {id \in Active : active[id].key = key /\ active[id].status = "firing"}

Similar(key) ==
    {id \in Active : active[id].key = key
                     /\ active[id].status \notin {"resolved", "silenced"}}

(* An alert similar to one that is open only refreshes that one: its new   *)
(* times and counts are not modelled, so the store's copy stays equal.     *)
Deduplicate(key) ==
    /\ Begin
    /\ Similar(key) # {}
    /\ UNCHANGED <<active, alerts, log, phase, op, routed, issued>>

CreateAlert(key) ==
    LET id    == issued + 1
        alert == [key |-> key, status |-> "firing", left |-> 0]
    IN  /\ Begin
        /\ Similar(key) = {}
        /\ issued < MaxAlerts
        /\ issued' = id
        /\ IF Open
             THEN /\ alerts' = [alerts EXCEPT ![id] = alert]
                  /\ active' = [active EXCEPT ![id] = alert]
                  /\ op' = [kind |-> "log", id |-> id,
                            event |-> [from |-> "none", to |-> "firing"]]
             ELSE UNCHANGED <<alerts, active, op>>
        /\ UNCHANGED <<log, phase, routed>>

(* getAlert: the manager's object, or else a copy of the store's.          *)
Found(id) == id \in Active \/ (id \in Stored /\ Open)

Lookup(id) == IF id \in Active THEN active[id] ELSE alerts[id]

(* The alert changes state and the store is updated; a copy taken from the *)
(* store does not become active.  If the store refuses, the operation ends *)
(* there, with the manager's object already changed.                       *)
Transition(id, status, left) ==
    LET old == Lookup(id)
        new == [old EXCEPT !.status = status, !.left = left]
    IN  /\ active' = IF id \in Active THEN [active EXCEPT ![id] = new] ELSE active
        /\ IF Open
             THEN /\ alerts' = [alerts EXCEPT ![id] = new]
                  /\ op' = [kind |-> "log", id |-> id,
                            event |-> [from |-> old.status, to |-> status]]
             ELSE UNCHANGED <<alerts, op>>
        /\ UNCHANGED <<log, phase, routed, issued>>

ResolveAlert(id) ==
    /\ Begin
    /\ Found(id)
    /\ Lookup(id).status # "resolved"
    /\ Transition(id, "resolved", Retention)

AcknowledgeAlert(id) ==
    /\ Begin
    /\ Found(id)
    /\ Lookup(id).status = "firing"
    /\ Transition(id, "acknowledged", 0)

(* Any alert may be silenced, a resolved or a silenced one too.            *)
SilenceAlert(id, duration) ==
    /\ Begin
    /\ Found(id)
    /\ Transition(id, "silenced", duration)

(* Mutant: every event is routed, not only the first.                      *)
CreateEventRouted ==
    /\ op.kind = "log"
    /\ IF Open
         THEN /\ log' = [log EXCEPT ![op.id] = Append(@, op.event)]
              /\ routed' = [routed EXCEPT ![op.id] = @ + 1]
         ELSE UNCHANGED <<log, routed>>
    /\ op' = NoOp
    /\ UNCHANGED <<active, alerts, phase, issued, spent>>

(* The second half of the four operations: the event, and for a new alert  *)
(* the notifications.                                                      *)
CreateEvent ==
    /\ op.kind = "log"
    /\ IF Open
         THEN /\ log' = [log EXCEPT ![op.id] = Append(@, op.event)]
              /\ routed' = IF op.event.from = "none"
                             THEN [routed EXCEPT ![op.id] = @ + 1] ELSE routed
         ELSE UNCHANGED <<log, routed>>
    /\ op' = NoOp
    /\ UNCHANGED <<active, alerts, phase, issued, spent>>

(* Mutant: Before instead of After.                                        *)
NotOver(id, status) ==
    active[id] # NoAlert /\ active[id].status = status /\ active[id].left > 0

(* The time that ends the alert's state has passed.                        *)
Over(id, status) ==
    active[id] # NoAlert /\ active[id].status = status /\ active[id].left = 0

(* The hourly tick.  Resolved alerts past retention are dropped from the   *)
(* manager, but stay in the store; then the silences that are over end one *)
(* by one, in the order of a map.  The select may still pick the tick when *)
(* the manager is stopping.                                                *)
CleanupStart ==
    LET dropped == {id \in Ids : Over(id, "resolved")}
        lapsed  == {id \in Ids : Over(id, "silenced")}
    IN  /\ op = NoOp
        /\ dropped \cup lapsed # {}
        /\ active' = [id \in Ids |-> IF id \in dropped THEN NoAlert ELSE active[id]]
        /\ op' = IF lapsed = {} THEN NoOp ELSE [kind |-> "cleanup", pending |-> lapsed]
        /\ UNCHANGED <<alerts, log, phase, routed, issued, spent>>

(* Mutant: the store is not told that a silence is over.                   *)
EndSilenceUnsaved(id) ==
    /\ op.kind = "cleanup"
    /\ id \in op.pending
    /\ active' = [active EXCEPT ![id] = [@ EXCEPT !.status = "firing", !.left = 0]]
    /\ op' = IF op.pending = {id} THEN NoOp ELSE [op EXCEPT !.pending = @ \ {id}]
    /\ UNCHANGED <<alerts, log, phase, routed, issued, spent>>

(* Mutant: every silence is over once some silence is.                     *)
EndSilenceOfAll(id) ==
    /\ op.kind = "cleanup"
    /\ id \in op.pending
    /\ active' = [a \in Ids |-> IF a \in Active /\ active[a].status # "acknowledged"
                                  THEN [active[a] EXCEPT !.status = "firing", !.left = 0]
                                  ELSE active[a]]
    /\ alerts' = IF Open THEN [a \in Ids |-> IF a \in Active THEN active'[a] ELSE alerts[a]]
                         ELSE alerts
    /\ op' = NoOp
    /\ UNCHANGED <<log, phase, routed, issued, spent>>

(* A lapsed silence: the alert fires again, with no event and no route, and *)
(* an error of the store is ignored.                                       *)
EndSilence(id) ==
    /\ op.kind = "cleanup"
    /\ id \in op.pending
    /\ active' = [active EXCEPT ![id] = [@ EXCEPT !.status = "firing", !.left = 0]]
    /\ alerts' = IF Open THEN [alerts EXCEPT ![id] = active'[id]] ELSE alerts
    /\ op' = IF op.pending = {id} THEN NoOp ELSE [op EXCEPT !.pending = @ \ {id}]
    /\ UNCHANGED <<log, phase, routed, issued, spent>>

(* Time passes for both copies of an alert.                                *)
Elapse(as) ==
    [id \in Ids |-> IF as[id] # NoAlert /\ as[id].left > 0
                      THEN [as[id] EXCEPT !.left = @ - 1] ELSE as[id]]

Tick ==
    /\ Elapse(active) # active \/ Elapse(alerts) # alerts
    /\ active' = Elapse(active)
    /\ alerts' = Elapse(alerts)
    /\ UNCHANGED <<log, phase, op, routed, issued, spent>>

(* Stop takes no lock: it closes shutdownCh, then the store, whatever is   *)
(* going on, while the API keeps serving.                                  *)
Stop ==
    /\ phase = "running"
    /\ phase' = "stopping"
    /\ UNCHANGED <<active, alerts, log, op, routed, issued, spent>>

Close ==
    /\ phase = "stopping"
    /\ phase' = "closed"
    /\ UNCHANGED <<active, alerts, log, op, routed, issued, spent>>

(* The process ends and a new one starts: its MemoryStore is empty, and so *)
(* is what loadActiveAlerts finds in it.                                   *)
Restart ==
    /\ spent.restarts < MaxRestarts
    /\ Spend("restarts")
    /\ active' = [id \in Ids |-> NoAlert]
    /\ alerts' = [id \in Ids |-> NoAlert]
    /\ log' = [id \in Ids |-> <<>>]
    /\ phase' = "running"
    /\ op' = NoOp
    /\ UNCHANGED <<routed, issued>>

Request ==
    \/ \E key \in Keys : CreateAlert(key) \/ Deduplicate(key)
    \/ \E id \in Ids : \/ ResolveAlert(id)
                       \/ AcknowledgeAlert(id)
                       \/ \E d \in Durations : SilenceAlert(id, d)

Cleanup == CleanupStart \/ \E id \in Ids : EndSilence(id)

Next == Request \/ CreateEvent \/ Cleanup \/ Tick \/ Stop \/ Close \/ Restart

Spec == Init /\ [][Next]_vars

(* The ticker ticks every hour, time passes, and an operation that holds   *)
(* m.mu runs to its end.  Requests and Stop are up to others.              *)
FairSpec == Spec /\ WF_vars(Cleanup) /\ WF_vars(Tick) /\ WF_vars(CreateEvent)

-----------------------------------------------------------------------------
(* The type of the manager's and the store's state: what is left of a      *)
(* silence or of a retention is never negative.                            *)
TypeOK ==
    /\ active \in [Ids -> Alerts \cup {NoAlert}]
    /\ alerts \in [Ids -> Alerts \cup {NoAlert}]
    /\ log \in [Ids -> Seq(Events)]
    /\ phase \in {"running", "stopping", "closed"}
    /\ op \in Ops
    /\ routed \in [Ids -> Nat]
    /\ issued \in 0..MaxAlerts
    /\ spent \in [ops : 0..MaxOps, restarts : 0..MaxRestarts]

Quiet == op = NoOp /\ Open

OpenAlert(id) == active[id].status \in {"firing", "acknowledged"}

(* Between operations the store's copy of an active alert is the manager's *)
(* object, and every alert that still needs attention is active: readers   *)
(* of the store and operations on the manager see the same alert           *)
(* (manager.go ResolveAlert, SilenceAlert, cleanup; store.go Update).      *)
StoreMirrorsActive ==
    Quiet => /\ \A id \in Active : alerts[id] = active[id]
             /\ \A id \in Stored \ Active :
                    alerts[id].status \in {"resolved", "silenced"}

(* The events of an alert tell its state: they start with its firing, each *)
(* continues where the one before ended, and the last one ends in the      *)
(* alert's state; only a lapsed silence goes unrecorded (manager.go        *)
(* CreateAlert, ResolveAlert, AcknowledgeAlert, SilenceAlert, cleanup).    *)
Continues(to, from) == to = from \/ (to = "silenced" /\ from = "firing")

EventLogExplainsState ==
    Quiet => \A id \in Stored :
        /\ Len(log[id]) > 0
        /\ log[id][1].from = "none"
        /\ \A i \in 1..(Len(log[id]) - 1) : Continues(log[id][i].to, log[id][i + 1].from)
        /\ Continues(log[id][Len(log[id])].to, Lookup(id).status)

(* An outage has one open alert, however often it is reported: two similar *)
(* open alerts exist only when one of them came back from a silence        *)
(* (manager.go findSimilarAlert, cleanup).                                 *)
WasSilenced(id) == \E i \in 1..Len(log[id]) : log[id][i].to = "silenced"

OneOpenAlert ==
    Quiet => \A a, b \in Active :
        /\ a # b /\ active[a].key = active[b].key
        /\ OpenAlert(a) /\ OpenAlert(b)
        => WasSilenced(a) \/ WasSilenced(b)

(* Unless the manager is stopped in the middle, every alert it stores has  *)
(* been routed exactly once, and never again when it is deduplicated or    *)
(* when its silence lapses (manager.go CreateAlert).                       *)
RoutedOnce ==
    /\ \A id \in Ids : routed[id] <= 1
    /\ Quiet => \A id \in Stored : routed[id] = 1

(* Silencing is temporary: a silenced active alert fires again or is       *)
(* resolved, as long as the manager runs (manager.go cleanup).             *)
SilenceEnds ==
    \A id \in Ids :
        (active[id] # NoAlert /\ active[id].status = "silenced")
        ~> (phase # "running" \/ active[id] = NoAlert \/ active[id].status # "silenced")

(* Whoever reads the store sees alerts that live as AlertLife says: the    *)
(* copies keep to the lawful transitions although these are decided on the *)
(* manager's objects, and a new alert is about an outage that has no open  *)
(* one in the store either, whatever is stopped, lapses or is forgotten in *)
(* between (manager.go CreateAlert and the other operations, store.go      *)
(* Update).                                                                *)
StoredLife == [id \in Ids |-> IF id \in Stored THEN alerts[id].status ELSE "none"]

StoredOutage == [id \in Ids |-> IF id \in Stored THEN alerts[id].key ELSE NoAlert]

Readers == INSTANCE AlertLife
    WITH Alarms <- Ids, Outages <- Keys, NoOutage <- NoAlert,
         life <- StoredLife, outage <- StoredOutage

AlertsLive == Readers!Spec

=============================================================================

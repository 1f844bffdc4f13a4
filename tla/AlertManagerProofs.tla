------------------------- MODULE AlertManagerProofs --------------------------
(***************************************************************************)
(* Whatever is asked of the alert manager, and whenever it is stopped in   *)
(* between, its own alerts, the store's copies, the event logs and the     *)
(* notifications agree for as long as the store is open.                   *)
(*                                                                         *)
(* The properties speak of the moments between operations.  What makes     *)
(* them inductive is what holds inside one: which event is still to be     *)
(* logged, and which silences a cleanup has yet to end.  Once the store is *)
(* closed it stays so until the restart that empties it, and nothing is    *)
(* claimed in between.                                                     *)
(*                                                                         *)
(* From the same invariant it follows that the store implements AlertLife. *)
(***************************************************************************)
EXTENDS AlertManager, TLAPS

(* An id that was not handed out yet belongs to nothing.                   *)
Fresh ==
    \A id \in Ids : id > issued =>
        active[id] = NoAlert /\ alerts[id] = NoAlert /\ log[id] = <<>> /\ routed[id] = 0

(* An operation that holds m.mu finds what it left behind.                 *)
OpSound ==
    /\ op.kind = "log" => op.id <= issued /\ (Open => op.id \in Stored)
    /\ op.kind = "cleanup" =>
           \A id \in op.pending : id \in Active /\ active[id].status = "silenced"

Mirrored ==
    Open => /\ \A id \in Active : alerts[id] = active[id]
            /\ \A id \in Stored \ Active : alerts[id].status \in {"resolved", "silenced"}

(* The event of the alert that is still to be logged.                      *)
Pending(id) == op.kind = "log" /\ op.id = id

Continued(events) ==
    \A i \in 1..(Len(events) - 1) : Continues(events[i].to, events[i + 1].from)

(* The log, with its pending event, leads from "none" to the alert's state.*)
Explained(id) ==
    /\ log[id] # <<>> => log[id][1].from = "none" /\ Continued(log[id])
    /\ Pending(id) =>
           /\ op.event.to = alerts[id].status
           /\ IF log[id] = <<>> THEN op.event.from = "none"
              ELSE Continues(log[id][Len(log[id])].to, op.event.from)
    /\ ~Pending(id) =>
           log[id] # <<>> /\ Continues(log[id][Len(log[id])].to, alerts[id].status)

Logged == Open => \A id \in Stored : Explained(id)

Notified ==
    /\ \A id \in Ids : routed[id] <= 1
    /\ op.kind = "log" /\ op.event.from = "none" => routed[op.id] = 0
    /\ Open => \A id \in Stored :
           routed[id] = IF Pending(id) /\ op.event.from = "none" THEN 0 ELSE 1

Unique ==
    Open => \A a, b \in Active :
        /\ a # b /\ active[a].key = active[b].key
        /\ OpenAlert(a) /\ OpenAlert(b)
        => WasSilenced(a) \/ WasSilenced(b)

IInv == TypeOK /\ Fresh /\ OpSound /\ Mirrored /\ Logged /\ Notified /\ Unique

-----------------------------------------------------------------------------
LEMMA LookupIsAlert ==
    ASSUME TypeOK, NEW id \in Ids, Found(id)
    PROVE  Lookup(id) \in Alerts
BY DEF TypeOK, Found, Lookup, Active, Stored

LEMMA LeftElapses ==
    ASSUME NEW a \in Alerts, a.left > 0
    PROVE  [a EXCEPT !.left = @ - 1] \in Alerts
<1>1. a.left - 1 \in Nat
    BY DEF Alerts
<1> QED BY <1>1 DEF Alerts

LEMMA InitInv == Init => IInv
<1> SUFFICES ASSUME Init PROVE IInv
    OBVIOUS
<1>1. TypeOK
    BY ManagerAssumption DEF Init, TypeOK, Ops, NoOp, Ids
<1>2. Fresh /\ OpSound
    BY DEF Init, Fresh, OpSound, NoOp
<1>3. Mirrored /\ Logged /\ Unique
    BY DEF Init, Mirrored, Logged, Unique, Active, Stored
<1>4. Notified
    BY DEF Init, Notified, NoOp, Stored
<1> QED BY <1>1, <1>2, <1>3, <1>4 DEF IInv

-----------------------------------------------------------------------------
(* Every step keeps the types.                                             *)
Spendings == [ops : 0..MaxOps, restarts : 0..MaxRestarts]

LEMMA OpsSpent ==
    ASSUME spent \in Spendings, spent.ops < MaxOps, Spend("ops")
    PROVE  spent' \in Spendings
BY ManagerAssumption DEF Spend, Spendings

LEMMA RestartsSpent ==
    ASSUME spent \in Spendings, spent.restarts < MaxRestarts, Spend("restarts")
    PROVE  spent' \in Spendings
BY ManagerAssumption DEF Spend, Spendings

LEMMA BeginSpends == TypeOK /\ Begin => spent' \in Spendings
BY OpsSpent DEF Begin, TypeOK, Spendings

LEMMA TransitionTypes ==
    ASSUME TypeOK, Begin, NEW id \in Ids, Found(id), NEW status \in States, NEW left \in Nat,
           Transition(id, status, left)
    PROVE  TypeOK'
<1> DEFINE new == [Lookup(id) EXCEPT !.status = status, !.left = left]
<1>1. new \in Alerts
    BY LookupIsAlert DEF Alerts
<1>2. Lookup(id).status \in States
    BY LookupIsAlert DEF Alerts
<1>3. active' \in [Ids -> Alerts \cup {NoAlert}]
    BY <1>1 DEF Transition, TypeOK
<1>4. alerts' \in [Ids -> Alerts \cup {NoAlert}]
    BY <1>1 DEF Transition, TypeOK
<1>5. op' \in Ops
    BY <1>2 DEF Transition, TypeOK, Ops, Events
<1> QED BY <1>3, <1>4, <1>5, BeginSpends DEF Transition, TypeOK, Spendings

LEMMA TypeStep == TypeOK /\ OpSound /\ [Next]_vars => TypeOK'
<1> SUFFICES ASSUME TypeOK, OpSound, [Next]_vars PROVE TypeOK'
    OBVIOUS
<1> USE ManagerAssumption
<1>1. ASSUME NEW key \in Keys, CreateAlert(key)
      PROVE  TypeOK'
    <2> DEFINE alert == [key |-> key, status |-> "firing", left |-> 0]
    <2>1. alert \in Alerts /\ issued + 1 \in Ids
        BY <1>1 DEF CreateAlert, Alerts, States, Ids, TypeOK
    <2>2. active' \in [Ids -> Alerts \cup {NoAlert}] /\ alerts' \in [Ids -> Alerts \cup {NoAlert}]
        BY <1>1, <2>1 DEF CreateAlert, TypeOK
    <2>3. op' \in Ops
        BY <1>1, <2>1 DEF CreateAlert, TypeOK, Ops, Events, States
    <2>4. spent' \in Spendings /\ issued' \in 0..MaxAlerts
        BY <1>1, BeginSpends DEF CreateAlert, TypeOK
    <2> QED BY <1>1, <2>2, <2>3, <2>4 DEF CreateAlert, TypeOK, Spendings
<1>2. ASSUME NEW key \in Keys, Deduplicate(key)
      PROVE  TypeOK'
    BY <1>2, BeginSpends DEF Deduplicate, TypeOK, Spendings
<1>3. ASSUME NEW id \in Ids, ResolveAlert(id) \/ AcknowledgeAlert(id)
      PROVE  TypeOK'
    BY <1>3, TransitionTypes DEF ResolveAlert, AcknowledgeAlert, States
<1>4. ASSUME NEW id \in Ids, NEW d \in Durations, SilenceAlert(id, d)
      PROVE  TypeOK'
    BY <1>4, TransitionTypes DEF SilenceAlert, States
<1>5. CASE CreateEvent
    <2>1. op.id \in Ids /\ op.event \in Events /\ NoOp \in Ops
        BY <1>5 DEF CreateEvent, TypeOK, Ops, NoOp
    <2>2. log' \in [Ids -> Seq(Events)]
        <3>1. Append(log[op.id], op.event) \in Seq(Events)
            BY <2>1 DEF TypeOK
        <3> QED BY <1>5, <3>1 DEF CreateEvent, TypeOK
    <2>3. routed' \in [Ids -> Nat]
        <3>1. routed' = routed \/ routed' = [routed EXCEPT ![op.id] = @ + 1]
            BY <1>5 DEF CreateEvent
        <3>2. routed \in [Ids -> Nat]
            BY DEF TypeOK
        <3> QED BY <2>1, <3>1, <3>2
    <2> QED BY <1>5, <2>1, <2>2, <2>3 DEF CreateEvent, TypeOK
<1>6. CASE CleanupStart
    <2>1. op' \in Ops
        BY <1>6 DEF CleanupStart, Ops, NoOp
    <2> QED BY <1>6, <2>1 DEF CleanupStart, TypeOK
<1>7. ASSUME NEW id \in Ids, EndSilence(id)
      PROVE  TypeOK'
    <2>1. [active[id] EXCEPT !.status = "firing", !.left = 0] \in Alerts
        BY <1>7 DEF EndSilence, OpSound, TypeOK, Active, Alerts, States
    <2>2. active' \in [Ids -> Alerts \cup {NoAlert}] /\ active'[id] \in Alerts
        BY <1>7, <2>1 DEF EndSilence, TypeOK
    <2>3. alerts' \in [Ids -> Alerts \cup {NoAlert}]
        BY <1>7, <2>2 DEF EndSilence, TypeOK
    <2>4. op' \in Ops
        BY <1>7 DEF EndSilence, TypeOK, Ops, NoOp
    <2> QED BY <1>7, <2>2, <2>3, <2>4 DEF EndSilence, TypeOK
<1>8. CASE Tick
    <2>1. ASSUME NEW as \in [Ids -> Alerts \cup {NoAlert}]
          PROVE  Elapse(as) \in [Ids -> Alerts \cup {NoAlert}]
        <3>1. ASSUME NEW id \in Ids, as[id] # NoAlert, as[id].left > 0
              PROVE  [as[id] EXCEPT !.left = @ - 1] \in Alerts
            <4>1. as[id] \in Alerts
                BY <3>1
            <4> QED BY <3>1, <4>1, LeftElapses
        <3> QED BY <3>1 DEF Elapse
    <2> QED BY <1>8, <2>1 DEF Tick, TypeOK
<1>9. CASE Stop \/ Close \/ UNCHANGED vars
    BY <1>9 DEF Stop, Close, vars, TypeOK
<1>10. CASE Restart
    <2>1. spent' \in Spendings
        BY <1>10, RestartsSpent DEF Restart, TypeOK, Spendings
    <2>2. NoOp \in Ops /\ [id \in Ids |-> <<>>] \in [Ids -> Seq(Events)]
        BY DEF NoOp, Ops
    <2> QED BY <1>10, <2>1, <2>2 DEF Restart, TypeOK, Spendings
<1> QED BY <1>1, <1>2, <1>3, <1>4, <1>5, <1>6, <1>7, <1>8, <1>9, <1>10 DEF Next, Request, Cleanup

-----------------------------------------------------------------------------
(* What time and the operations do to an alert.                            *)
MaybeAlerts == [Ids -> Alerts \cup {NoAlert}]

LEMMA ElapseKeeps ==
    ASSUME NEW as \in MaybeAlerts, NEW id \in Ids
    PROVE  /\ Elapse(as)[id] = NoAlert <=> as[id] = NoAlert
           /\ as[id] # NoAlert => /\ Elapse(as)[id].status = as[id].status
                                 /\ Elapse(as)[id].key = as[id].key
<1> USE ManagerAssumption
<1>1. CASE as[id] # NoAlert /\ as[id].left > 0
    <2>1. as[id] \in Alerts
        BY <1>1 DEF MaybeAlerts
    <2>2. [as[id] EXCEPT !.left = @ - 1] \in Alerts
        BY <1>1, <2>1, LeftElapses
    <2>3. Elapse(as)[id] = [as[id] EXCEPT !.left = @ - 1]
        BY <1>1 DEF Elapse
    <2> QED BY <1>1, <2>1, <2>2, <2>3 DEF Alerts
<1>2. CASE ~(as[id] # NoAlert /\ as[id].left > 0)
    BY <1>2 DEF Elapse
<1> QED BY <1>1, <1>2

LEMMA TickKeeps ==
    ASSUME TypeOK, Tick, NEW id \in Ids
    PROVE  /\ active'[id] = NoAlert <=> active[id] = NoAlert
           /\ alerts'[id] = NoAlert <=> alerts[id] = NoAlert
           /\ active[id] # NoAlert => /\ active'[id].status = active[id].status
                                     /\ active'[id].key = active[id].key
           /\ alerts[id] # NoAlert => alerts'[id].status = alerts[id].status
<1>1. active \in MaybeAlerts /\ alerts \in MaybeAlerts
    BY DEF TypeOK, MaybeAlerts
<1> QED BY <1>1, ElapseKeeps DEF Tick

(* The common part of resolving, acknowledging and silencing.              *)
Change(id, status, left) ==
    /\ op = NoOp /\ Found(id) /\ Transition(id, status, left)
    /\ status = "acknowledged" => Lookup(id).status = "firing"
    /\ status = "resolved" => Lookup(id).status # "resolved"
    /\ status \in {"resolved", "acknowledged", "silenced"}
    /\ left \in Nat

Changes == \E id \in Ids, status \in States, left \in Nat : Change(id, status, left)

LEMMA RequestsChange ==
    ASSUME NEW id \in Ids,
           ResolveAlert(id) \/ AcknowledgeAlert(id) \/ \E d \in Durations : SilenceAlert(id, d)
    PROVE  Changes
<1> USE ManagerAssumption
<1>1. CASE ResolveAlert(id)
    <2>1. Change(id, "resolved", Retention)
        BY <1>1 DEF ResolveAlert, Change, Begin
    <2> QED BY <2>1 DEF Changes, States
<1>2. CASE AcknowledgeAlert(id)
    <2>1. Change(id, "acknowledged", 0)
        BY <1>2 DEF AcknowledgeAlert, Change, Begin
    <2> QED BY <2>1 DEF Changes, States
<1>3. CASE \E d \in Durations : SilenceAlert(id, d)
    <2>1. PICK d \in Durations : SilenceAlert(id, d)
        BY <1>3
    <2>2. Change(id, "silenced", d)
        BY <2>1 DEF SilenceAlert, Change, Begin
    <2> QED BY <2>2 DEF Changes, States
<1> QED BY <1>1, <1>2, <1>3

(* The steps that the proofs below tell apart.                             *)
LEMMA StepCases ==
    ASSUME [Next]_vars
    PROVE  \/ \E key \in Keys : CreateAlert(key)
           \/ \E key \in Keys : Deduplicate(key)
           \/ Changes
           \/ CreateEvent
           \/ CleanupStart
           \/ \E id \in Ids : EndSilence(id)
           \/ Tick
           \/ Stop \/ Close \/ UNCHANGED vars
           \/ Restart
BY RequestsChange DEF Next, Request, Cleanup

(* The alert that changes state: in the store when it is open, and in the  *)
(* manager when it was there.                                              *)
LEMMA ChangeWrites ==
    ASSUME TypeOK, NEW id \in Ids, NEW status \in States, NEW left \in Nat,
           Change(id, status, left)
    PROVE  \E new \in Alerts :
              /\ new.status = status /\ new.left = left /\ new.key = Lookup(id).key
              /\ active' = IF id \in Active THEN [active EXCEPT ![id] = new] ELSE active
              /\ alerts' = IF Open THEN [alerts EXCEPT ![id] = new] ELSE alerts
              /\ op' = IF Open THEN [kind |-> "log", id |-> id,
                                     event |-> [from |-> Lookup(id).status, to |-> status]]
                               ELSE op
<1> DEFINE new == [Lookup(id) EXCEPT !.status = status, !.left = left]
<1>1. Lookup(id) \in Alerts
    BY LookupIsAlert DEF Change
<1>2. new \in Alerts /\ new.status = status /\ new.left = left /\ new.key = Lookup(id).key
    BY <1>1 DEF Alerts
<1> QED BY <1>2 DEF Change, Transition

-----------------------------------------------------------------------------
LEMMA FoundIssued ==
    ASSUME TypeOK, Fresh, NEW id \in Ids, Found(id)
    PROVE  id <= issued
<1>1. id \in Int /\ issued \in Int
    BY ManagerAssumption DEF TypeOK, Ids
<1>2. active[id] # NoAlert \/ alerts[id] # NoAlert
    BY DEF Found, Active, Stored
<1>3. ~(id > issued)
    BY <1>2 DEF Fresh
<1> QED BY <1>1, <1>3

LEMMA FreshStep == TypeOK /\ Fresh /\ OpSound /\ [Next]_vars => Fresh'
<1> SUFFICES ASSUME TypeOK, Fresh, OpSound, [Next]_vars, NEW i \in Ids, i > issued'
             PROVE  /\ active'[i] = NoAlert /\ alerts'[i] = NoAlert
                    /\ log'[i] = <<>> /\ routed'[i] = 0
    BY DEF Fresh, Ids
<1> USE ManagerAssumption
<1>0. /\ active \in MaybeAlerts /\ alerts \in MaybeAlerts
      /\ log \in [Ids -> Seq(Events)] /\ routed \in [Ids -> Nat]
      /\ issued \in Nat /\ i \in Nat
    BY DEF TypeOK, MaybeAlerts, Ids
<1>1. CASE \E key \in Keys : CreateAlert(key)
    BY <1>0, <1>1 DEF CreateAlert, Fresh, MaybeAlerts
<1>2. CASE Changes
    <2>1. PICK id \in Ids, status \in States, left \in Nat : Change(id, status, left)
        BY <1>2 DEF Changes
    <2>2. id <= issued
        BY <2>1, FoundIssued DEF Change
    <2>3. i # id /\ issued' = issued /\ log' = log /\ routed' = routed
        BY <1>0, <2>1, <2>2 DEF Change, Transition, Ids
    <2>4. active'[i] = active[i] /\ alerts'[i] = alerts[i]
        BY <2>1, <2>3, <1>0, ChangeWrites DEF MaybeAlerts
    <2> QED BY <2>3, <2>4 DEF Fresh
<1>3. CASE CreateEvent
    <2>1. issued' = issued /\ op.id # i
        BY <1>0, <1>3 DEF CreateEvent, OpSound
    <2> QED BY <1>0, <1>3, <2>1 DEF CreateEvent, Fresh
<1>4. CASE CleanupStart
    BY <1>0, <1>4 DEF CleanupStart, Fresh
<1>5. CASE \E id \in Ids : EndSilence(id)
    <2>1. PICK id \in Ids : EndSilence(id)
        BY <1>5
    <2>2. issued' = issued /\ id # i
        BY <1>0, <2>1 DEF EndSilence, OpSound, Active, Fresh
    <2> QED BY <1>0, <2>1, <2>2 DEF EndSilence, Fresh, MaybeAlerts
<1>6. CASE Tick
    BY <1>6, TickKeeps DEF Tick, Fresh
<1>7. CASE Restart
    BY <1>7 DEF Restart, Fresh
<1>8. CASE Stop \/ Close \/ UNCHANGED vars \/ \E key \in Keys : Deduplicate(key)
    BY <1>8 DEF Stop, Close, vars, Deduplicate, Fresh
<1> QED BY StepCases, <1>1, <1>2, <1>3, <1>4, <1>5, <1>6, <1>7, <1>8

-----------------------------------------------------------------------------
(* The new alert of CreateAlert.                                           *)
Created(key) == [key |-> key, status |-> "firing", left |-> 0]

LEMMA CreateWrites ==
    ASSUME TypeOK, Fresh, NEW key \in Keys, CreateAlert(key)
    PROVE  /\ issued' \in Ids /\ issued' = issued + 1
           /\ Created(key) \in Alerts
           /\ active[issued'] = NoAlert /\ alerts[issued'] = NoAlert
           /\ log[issued'] = <<>> /\ routed[issued'] = 0
           /\ IF Open
                THEN /\ alerts' = [alerts EXCEPT ![issued'] = Created(key)]
                     /\ active' = [active EXCEPT ![issued'] = Created(key)]
                     /\ op' = [kind |-> "log", id |-> issued',
                               event |-> [from |-> "none", to |-> "firing"]]
                ELSE UNCHANGED <<alerts, active, op>>
<1>1. issued \in 0..MaxAlerts
    BY DEF TypeOK
<1>2. issued' = issued + 1 /\ issued < MaxAlerts
    BY <1>1 DEF CreateAlert
<1>3. issued' \in Ids /\ issued' > issued
    BY <1>1, <1>2, ManagerAssumption DEF Ids
<1>4. Created(key) \in Alerts
    BY DEF Created, Alerts, States
<1> QED BY <1>2, <1>3, <1>4 DEF CreateAlert, Created, Fresh

LEMMA OpSoundStep == TypeOK /\ Fresh /\ OpSound /\ [Next]_vars => OpSound'
<1> SUFFICES ASSUME TypeOK, Fresh, OpSound, [Next]_vars PROVE OpSound'
    OBVIOUS
<1> USE ManagerAssumption
<1>0. /\ active \in MaybeAlerts /\ alerts \in MaybeAlerts
      /\ issued \in Nat
    BY DEF TypeOK, MaybeAlerts
<1>1. ASSUME NEW key \in Keys, CreateAlert(key)
      PROVE  OpSound'
    <2>1. CASE Open
        <3>1. op' = [kind |-> "log", id |-> issued',
                     event |-> [from |-> "none", to |-> "firing"]]
            BY <1>1, <2>1, CreateWrites
        <3>2. issued' \in Stored'
            BY <1>0, <1>1, <2>1, CreateWrites DEF Stored, MaybeAlerts
        <3> QED BY <1>0, <1>1, <3>1, <3>2, CreateWrites DEF OpSound
    <2>2. CASE ~Open
        BY <2>2, <1>1 DEF CreateAlert, Begin, NoOp, OpSound
    <2> QED BY <2>1, <2>2
<1>2. CASE Changes
    <2>1. PICK id \in Ids, status \in States, left \in Nat : Change(id, status, left)
        BY <1>2 DEF Changes
    <2>2. id <= issued /\ issued' = issued /\ phase' = phase
        BY <2>1, FoundIssued DEF Change, Transition
    <2>3. PICK new \in Alerts :
              /\ alerts' = IF Open THEN [alerts EXCEPT ![id] = new] ELSE alerts
              /\ op' = IF Open THEN [kind |-> "log", id |-> id,
                                     event |-> [from |-> Lookup(id).status, to |-> status]]
                               ELSE op
        BY <2>1, ChangeWrites
    <2>4. CASE Open
        <3>1. id \in Stored'
            BY <1>0, <2>3, <2>4 DEF Stored, MaybeAlerts
        <3> QED BY <2>2, <2>3, <2>4, <3>1 DEF OpSound
    <2>5. CASE ~Open
        BY <2>1, <2>3, <2>5 DEF OpSound, Change, NoOp
    <2> QED BY <2>4, <2>5
<1>3. CASE CreateEvent \/ Restart
    BY <1>3 DEF CreateEvent, Restart, NoOp, OpSound
<1>4. CASE CleanupStart
    <2>1. ASSUME NEW id \in Ids, Over(id, "silenced")
          PROVE  id \in Active' /\ active'[id].status = "silenced"
        BY <1>4, <2>1 DEF CleanupStart, Over, Active
    <2>2. \/ op' = NoOp
          \/ op' = [kind |-> "cleanup", pending |-> {id \in Ids : Over(id, "silenced")}]
        BY <1>4 DEF CleanupStart
    <2> QED BY <2>1, <2>2 DEF OpSound, NoOp
<1>5. ASSUME NEW id \in Ids, EndSilence(id)
      PROVE  OpSound'
    <2>1. CASE op.pending = {id}
        BY <1>5, <2>1 DEF EndSilence, NoOp, OpSound
    <2>2. CASE op.pending # {id}
        <3>1. op' = [op EXCEPT !.pending = @ \ {id}] /\ op.kind = "cleanup"
            BY <1>5, <2>2 DEF EndSilence
        <3>2. op'.kind = "cleanup" /\ op'.pending = op.pending \ {id}
            BY <3>1 DEF TypeOK, Ops
        <3>3. ASSUME NEW i \in op.pending \ {id}
              PROVE  i \in Active' /\ active'[i].status = "silenced"
            BY <1>5, <1>0, <3>1, <3>3 DEF EndSilence, OpSound, Active, MaybeAlerts
        <3> QED BY <3>2, <3>3 DEF OpSound
    <2> QED BY <2>1, <2>2
<1>6. CASE Tick
    <2>1. op' = op /\ issued' = issued /\ phase' = phase
        BY <1>6 DEF Tick
    <2>2. \A id \in Stored : id \in Stored'
        BY <1>6, TickKeeps DEF Stored
    <2>3. \A id \in Active : id \in Active' /\ active'[id].status = active[id].status
        BY <1>6, TickKeeps DEF Active
    <2> QED BY <2>1, <2>2, <2>3 DEF OpSound, Open
<1>7. CASE Stop \/ Close \/ UNCHANGED vars \/ \E key \in Keys : Deduplicate(key)
    BY <1>7 DEF Stop, Close, vars, Deduplicate, OpSound, Open, Stored, Active
<1> QED BY StepCases, <1>1, <1>2, <1>3, <1>4, <1>5, <1>6, <1>7

(* A closed store opens again only by being emptied.                       *)
LEMMA StaysClosed ==
    ASSUME [Next]_vars, Open', ~Restart
    PROVE  Open
<1>1. Changes => phase' = phase
    BY DEF Changes, Change, Transition
<1> QED BY StepCases, <1>1 DEF CreateAlert, Deduplicate, CreateEvent, CleanupStart,
           EndSilence, Tick, Stop, Close, vars, Open

(* When nothing is amiss, what is found in the manager is found in the     *)
(* store too.                                                              *)
LEMMA FoundStored ==
    ASSUME TypeOK, Mirrored, Open, NEW id \in Ids, Found(id)
    PROVE  id \in Stored /\ Lookup(id) = alerts[id]
BY DEF Mirrored, Found, Lookup, Active, Stored

LEMMA SilencedStored ==
    ASSUME TypeOK, OpSound, Mirrored, Open, NEW id \in Ids, EndSilence(id)
    PROVE  id \in Stored /\ alerts[id].status = "silenced" /\ ~Pending(id) /\ alerts[id] = active[id]
<1>1. id \in Active /\ active[id].status = "silenced" /\ op.kind = "cleanup"
    BY DEF EndSilence, OpSound
<1> QED BY <1>1 DEF Mirrored, Active, Stored, Pending

(* The alert a lapsed silence leaves.                                      *)
Awoken(id) == [active[id] EXCEPT !.status = "firing", !.left = 0]

LEMMA EndWrites ==
    ASSUME TypeOK, OpSound, NEW id \in Ids, EndSilence(id)
    PROVE  /\ Awoken(id) \in Alerts /\ Awoken(id).status = "firing"
           /\ Awoken(id).key = active[id].key
           /\ active' = [active EXCEPT ![id] = Awoken(id)]
           /\ alerts' = IF Open THEN [alerts EXCEPT ![id] = Awoken(id)] ELSE alerts
<1>1. active[id] \in Alerts
    BY DEF EndSilence, OpSound, TypeOK, Active
<1>2. Awoken(id) \in Alerts /\ Awoken(id).status = "firing" /\ Awoken(id).key = active[id].key
    BY <1>1 DEF Awoken, Alerts, States
<1>3. active \in MaybeAlerts
    BY DEF TypeOK, MaybeAlerts
<1>4. active' = [active EXCEPT ![id] = Awoken(id)]
    BY DEF EndSilence, Awoken
<1>5. active'[id] = Awoken(id)
    BY <1>3, <1>4 DEF MaybeAlerts
<1> QED BY <1>2, <1>4, <1>5 DEF EndSilence

LEMMA MirroredStep == TypeOK /\ Fresh /\ OpSound /\ Mirrored /\ [Next]_vars => Mirrored'
<1> SUFFICES ASSUME TypeOK, Fresh, OpSound, Mirrored, [Next]_vars, Open',
                    NEW i \in Ids
             PROVE  /\ active'[i] # NoAlert => alerts'[i] = active'[i]
                    /\ active'[i] = NoAlert /\ alerts'[i] # NoAlert =>
                           alerts'[i].status \in {"resolved", "silenced"}
    BY DEF Mirrored, Active, Stored
<1> USE ManagerAssumption
<1>1. CASE Restart
    BY <1>1 DEF Restart
<1> SUFFICES ASSUME ~Restart
             PROVE  /\ active'[i] # NoAlert => alerts'[i] = active'[i]
                    /\ active'[i] = NoAlert /\ alerts'[i] # NoAlert =>
                           alerts'[i].status \in {"resolved", "silenced"}
    BY <1>1
<1>0. /\ active \in MaybeAlerts /\ alerts \in MaybeAlerts /\ Open
      /\ active[i] # NoAlert => alerts[i] = active[i]
      /\ active[i] = NoAlert /\ alerts[i] # NoAlert =>
             alerts[i].status \in {"resolved", "silenced"}
    BY StaysClosed DEF TypeOK, MaybeAlerts, Mirrored, Active, Stored
<1>2. CASE \E key \in Keys : CreateAlert(key)
    BY <1>0, <1>2, CreateWrites DEF MaybeAlerts
<1>3. CASE Changes
    <2>1. PICK id \in Ids, status \in States, left \in Nat : Change(id, status, left)
        BY <1>3 DEF Changes
    <2>2. PICK new \in Alerts :
              /\ new.status = status
              /\ active' = IF id \in Active THEN [active EXCEPT ![id] = new] ELSE active
              /\ alerts' = [alerts EXCEPT ![id] = new]
        BY <1>0, <2>1, ChangeWrites
    <2>3. CASE i # id
        BY <1>0, <2>2, <2>3 DEF MaybeAlerts
    <2>4. CASE i = id /\ id \in Active
        BY <1>0, <2>2, <2>4 DEF MaybeAlerts
    <2>5. CASE i = id /\ id \notin Active
        <3>1. status # "acknowledged"
            BY <1>0, <2>1, <2>5, FoundStored DEF Change, Active, Stored
        <3> QED BY <1>0, <2>1, <2>2, <2>5, <3>1 DEF Change, MaybeAlerts, Active
    <2> QED BY <2>3, <2>4, <2>5
<1>4. CASE CleanupStart
    BY <1>0, <1>4 DEF CleanupStart, Over
<1>5. CASE \E id \in Ids : EndSilence(id)
    BY <1>0, <1>5, EndWrites DEF MaybeAlerts
<1>6. CASE Tick
    <2>1. active[i] # NoAlert => alerts'[i] = active'[i]
        BY <1>0, <1>6 DEF Tick, Elapse
    <2> QED BY <1>0, <1>6, <2>1, TickKeeps
<1>7. CASE Stop \/ Close \/ UNCHANGED vars \/ CreateEvent \/ \E key \in Keys : Deduplicate(key)
    BY <1>0, <1>7 DEF Stop, Close, vars, Deduplicate, CreateEvent
<1> QED BY StepCases, <1>2, <1>3, <1>4, <1>5, <1>6, <1>7

(* A log goes on being continued when what is appended continues it.       *)
LEMMA AppendContinues ==
    ASSUME NEW s \in Seq(Events), NEW e \in Events, s # <<>>, Continued(s),
           s[1].from = "none", Continues(s[Len(s)].to, e.from)
    PROVE  /\ Continued(Append(s, e)) /\ Append(s, e) # <<>>
           /\ Append(s, e)[1].from = "none"
           /\ Append(s, e)[Len(Append(s, e))] = e
<1>1. Len(s) \in Nat /\ Len(s) > 0 /\ Len(Append(s, e)) = Len(s) + 1
    OBVIOUS
<1>2. \A i \in 1..Len(s) : Append(s, e)[i] = s[i]
    OBVIOUS
<1>3. Append(s, e)[Len(s) + 1] = e
    OBVIOUS
<1>4. ASSUME NEW i \in 1..Len(s)
      PROVE  Continues(Append(s, e)[i].to, Append(s, e)[i + 1].from)
    <2>1. CASE i = Len(s)
        BY <1>2, <1>3, <2>1
    <2>2. CASE i # Len(s)
        <3>1. i \in 1..(Len(s) - 1) /\ i + 1 \in 1..Len(s)
            BY <1>1, <2>2
        <3> QED BY <1>2, <3>1 DEF Continued
    <2> QED BY <2>1, <2>2
<1> QED BY <1>1, <1>2, <1>3, <1>4 DEF Continued

LEMMA FirstContinues ==
    ASSUME NEW e \in Events
    PROVE  /\ Append(<<>>, e) # <<>> /\ Len(Append(<<>>, e)) = 1
           /\ Append(<<>>, e)[1] = e /\ Continued(Append(<<>>, e))
BY DEF Continued

LEMMA LoggedStep ==
    TypeOK /\ Fresh /\ OpSound /\ Mirrored /\ Logged /\ [Next]_vars => Logged'
<1> SUFFICES ASSUME TypeOK, Fresh, OpSound, Mirrored, Logged, [Next]_vars, Open',
                    NEW i \in Ids, alerts'[i] # NoAlert
             PROVE  Explained(i)'
    BY DEF Logged, Stored
<1> USE ManagerAssumption
<1>1. CASE Restart
    BY <1>1 DEF Restart
<1> SUFFICES ASSUME ~Restart PROVE Explained(i)'
    BY <1>1
<1>0. /\ active \in MaybeAlerts /\ alerts \in MaybeAlerts /\ Open
      /\ log \in [Ids -> Seq(Events)]
      /\ alerts[i] # NoAlert => Explained(i)
    BY StaysClosed DEF TypeOK, MaybeAlerts, Logged, Stored
<1>2. ASSUME log' = log, ~Pending(i), ~Pending(i)', alerts[i] # NoAlert,
             alerts'[i].status = alerts[i].status
      PROVE  Explained(i)'
    BY <1>0, <1>2 DEF Explained
<1>3. ASSUME NEW key \in Keys, CreateAlert(key)
      PROVE  Explained(i)'
    <2>1. log' = log /\ ~Pending(i)
        BY <1>3 DEF CreateAlert, Begin, NoOp, Pending
    <2>2. op' = [kind |-> "log", id |-> issued', event |-> [from |-> "none", to |-> "firing"]]
        BY <1>0, <1>3, CreateWrites
    <2>3. CASE i = issued'
        <3>1. Created(key).status = "firing"
            BY DEF Created
        <3>2. alerts'[i] = Created(key) /\ log[i] = <<>>
            BY <1>0, <1>3, <2>3, CreateWrites DEF MaybeAlerts
        <3> QED BY <2>1, <2>2, <2>3, <3>1, <3>2 DEF Explained, Pending
    <2>4. CASE i # issued'
        <3>1. alerts'[i] = alerts[i] /\ ~Pending(i)'
            BY <1>0, <1>3, <2>2, <2>4, CreateWrites DEF MaybeAlerts, Pending
        <3> QED BY <1>2, <2>1, <3>1
    <2> QED BY <2>3, <2>4
<1>4. CASE Changes
    <2>1. PICK id \in Ids, status \in States, left \in Nat : Change(id, status, left)
        BY <1>4 DEF Changes
    <2>2. PICK new \in Alerts :
              /\ new.status = status
              /\ alerts' = [alerts EXCEPT ![id] = new]
              /\ op' = [kind |-> "log", id |-> id,
                        event |-> [from |-> Lookup(id).status, to |-> status]]
        BY <1>0, <2>1, ChangeWrites
    <2>3. log' = log /\ ~Pending(i)
        BY <2>1 DEF Change, Transition, NoOp, Pending
    <2>4. CASE i = id
        <3>1. alerts[id] # NoAlert /\ Lookup(id) = alerts[id]
            BY <1>0, <2>1, FoundStored DEF Change, Stored
        <3>2. Explained(id)
            BY <1>0, <2>4, <3>1
        <3>3. alerts'[id] = new
            BY <1>0, <2>2 DEF MaybeAlerts
        <3> QED BY <2>2, <2>3, <2>4, <3>1, <3>2, <3>3 DEF Explained, Pending
    <2>5. CASE i # id
        <3>1. alerts'[i] = alerts[i] /\ ~Pending(i)'
            BY <1>0, <2>2, <2>5 DEF MaybeAlerts, Pending
        <3> QED BY <1>2, <2>3, <3>1
    <2> QED BY <2>4, <2>5
<1>5. CASE CreateEvent
    <2>1. /\ alerts' = alerts /\ op' = NoOp /\ op.kind = "log"
          /\ log' = [log EXCEPT ![op.id] = Append(@, op.event)]
          /\ op.id \in Ids /\ op.event \in Events
        BY <1>0, <1>5 DEF CreateEvent, TypeOK, Ops
    <2>2. Explained(i) /\ ~Pending(i)'
        BY <1>0, <2>1 DEF Pending, NoOp
    <2>3. CASE i # op.id
        <3>1. log'[i] = log[i] /\ ~Pending(i)
            BY <1>0, <2>1, <2>3 DEF Pending
        <3> QED BY <2>1, <2>2, <3>1 DEF Explained
    <2>4. CASE i = op.id
        <3>1. Pending(i) /\ log'[i] = Append(log[i], op.event) /\ log[i] \in Seq(Events)
            BY <1>0, <2>1, <2>4 DEF Pending
        <3>2. op.event.to = alerts'[i].status
            BY <2>1, <2>2, <3>1 DEF Explained
        <3>3. CASE log[i] = <<>>
            <4>1. op.event.from = "none"
                BY <2>2, <3>1, <3>3 DEF Explained
            <4>2. log'[i] # <<>> /\ Len(log'[i]) = 1 /\ log'[i][1] = op.event
                BY <2>1, <3>1, <3>3, FirstContinues
            <4>3. Continued(log'[i])
                BY <2>1, <3>1, <3>3, FirstContinues
            <4> QED BY <2>2, <3>2, <4>1, <4>2, <4>3 DEF Explained, Continues
        <3>4. CASE log[i] # <<>>
            <4>1. /\ log[i][1].from = "none" /\ Continued(log[i])
                  /\ Continues(log[i][Len(log[i])].to, op.event.from)
                BY <2>2, <3>1, <3>4 DEF Explained
            <4>2. /\ Continued(log'[i]) /\ log'[i] # <<>> /\ log'[i][1].from = "none"
                  /\ log'[i][Len(log'[i])] = op.event
                BY <2>1, <3>1, <3>4, <4>1, AppendContinues
            <4> QED BY <2>2, <3>2, <4>2 DEF Explained, Continues
        <3> QED BY <3>3, <3>4
    <2> QED BY <2>3, <2>4
<1>6. CASE CleanupStart
    <2>1. ~Pending(i) /\ ~Pending(i)'
        BY <1>6 DEF CleanupStart, NoOp, Pending
    <2> QED BY <1>2, <1>6, <2>1 DEF CleanupStart
<1>7. ASSUME NEW id \in Ids, EndSilence(id)
      PROVE  Explained(i)'
    <2>1. log' = log /\ ~Pending(i) /\ op.kind = "cleanup"
        BY <1>7 DEF EndSilence, Pending
    <2>2. ~Pending(i)'
        BY <1>7 DEF EndSilence, Pending, NoOp, TypeOK, Ops
    <2>3. CASE i # id
        BY <1>0, <1>2, <1>7, <2>1, <2>2, <2>3, EndWrites DEF MaybeAlerts
    <2>4. CASE i = id
        <3>1. alerts[i] # NoAlert /\ alerts[i].status = "silenced"
            BY <1>0, <1>7, <2>4, SilencedStored DEF Stored
        <3>2. alerts'[i].status = "firing"
            BY <1>0, <1>7, <2>4, EndWrites DEF MaybeAlerts
        <3> QED BY <1>0, <2>1, <2>2, <3>1, <3>2 DEF Explained, Continues
    <2> QED BY <2>3, <2>4
<1>8. CASE Tick
    <2>1. /\ log' = log /\ op' = op /\ alerts[i] # NoAlert
          /\ alerts'[i].status = alerts[i].status
        BY <1>8, TickKeeps DEF Tick
    <2> QED BY <1>0, <2>1 DEF Explained, Pending
<1>9. CASE Stop \/ Close \/ UNCHANGED vars \/ \E key \in Keys : Deduplicate(key)
    BY <1>0, <1>9 DEF Stop, Close, vars, Deduplicate, Explained, Pending
<1> QED BY StepCases, <1>3, <1>4, <1>5, <1>6, <1>7, <1>8, <1>9

LEMMA NotifiedStep ==
    TypeOK /\ Fresh /\ OpSound /\ Mirrored /\ Notified /\ [Next]_vars => Notified'
<1> SUFFICES ASSUME TypeOK, Fresh, OpSound, Mirrored, Notified, [Next]_vars
             PROVE  /\ \A i \in Ids : routed'[i] <= 1
                    /\ op'.kind = "log" /\ op'.event.from = "none" => routed'[op'.id] = 0
                    /\ Open' => \A i \in Ids : alerts'[i] # NoAlert =>
                           routed'[i] = IF Pending(i)' /\ op'.event.from = "none" THEN 0 ELSE 1
    BY DEF Notified, Stored
<1> USE ManagerAssumption
<1>0. /\ active \in MaybeAlerts /\ alerts \in MaybeAlerts
      /\ routed \in [Ids -> Nat]
      /\ \A i \in Ids : routed[i] <= 1
      /\ op.kind = "log" /\ op.event.from = "none" => routed[op.id] = 0
      /\ Open => \A i \in Ids : alerts[i] # NoAlert =>
             routed[i] = IF Pending(i) /\ op.event.from = "none" THEN 0 ELSE 1
    BY DEF TypeOK, MaybeAlerts, Notified, Stored
<1>1. CASE Restart
    BY <1>0, <1>1 DEF Restart, NoOp
<1>2. ASSUME NEW key \in Keys, CreateAlert(key)
      PROVE  Notified'
    <2>1. routed' = routed /\ op = NoOp /\ phase' = phase
        BY <1>2 DEF CreateAlert, Begin
    <2>2. CASE ~Open
        BY <1>0, <1>2, <2>1, <2>2, CreateWrites DEF Notified, Stored, NoOp, Open
    <2>3. CASE Open
        <3>1. op' = [kind |-> "log", id |-> issued', event |-> [from |-> "none", to |-> "firing"]]
            BY <1>2, <2>3, CreateWrites
        <3>2. issued' \in Ids /\ routed[issued'] = 0
            BY <1>2, CreateWrites
        <3>3. ASSUME NEW i \in Ids, i # issued', alerts'[i] # NoAlert
              PROVE  routed'[i] = 1 /\ ~Pending(i)'
            <4>1. alerts[i] # NoAlert
                BY <1>0, <1>2, <2>3, <3>3, CreateWrites DEF MaybeAlerts
            <4> QED BY <1>0, <2>1, <2>3, <3>1, <3>3, <4>1 DEF Pending, NoOp
        <3> QED BY <1>0, <2>1, <3>1, <3>2, <3>3 DEF Notified, Stored, Pending
    <2> QED BY <2>2, <2>3
<1>3. CASE Changes
    <2>1. PICK id \in Ids, status \in States, left \in Nat : Change(id, status, left)
        BY <1>3 DEF Changes
    <2>2. routed' = routed /\ op = NoOp /\ phase' = phase
        BY <2>1 DEF Change, Transition
    <2>3. CASE ~Open
        BY <1>0, <2>1, <2>2, <2>3, ChangeWrites DEF Notified, Stored, NoOp, Open
    <2>4. CASE Open
        <3>1. Lookup(id).status \in States
            BY <2>1, LookupIsAlert DEF Change, Alerts
        <3>2. Lookup(id).status # "none"
            BY <3>1 DEF States
        <3>3. op' = [kind |-> "log", id |-> id,
                     event |-> [from |-> Lookup(id).status, to |-> status]]
            BY <2>1, <2>4, ChangeWrites
        <3>4. op'.event.from # "none"
            BY <3>2, <3>3
        <3>5. ASSUME NEW i \in Ids, alerts'[i] # NoAlert
              PROVE  alerts[i] # NoAlert
            <4>1. CASE i = id
                BY <2>1, <2>4, <4>1, FoundStored DEF Change, Stored
            <4>2. CASE i # id
                BY <1>0, <2>1, <2>4, <3>5, <4>2, ChangeWrites DEF MaybeAlerts
            <4> QED BY <4>1, <4>2
        <3> QED BY <1>0, <2>2, <2>4, <3>4, <3>5 DEF Notified, Stored, Pending, NoOp
    <2> QED BY <2>3, <2>4
<1>4. CASE CreateEvent
    <2>1. /\ alerts' = alerts /\ op' = NoOp /\ op.kind = "log" /\ phase' = phase
          /\ op.id \in Ids
          /\ routed' = IF Open /\ op.event.from = "none"
                         THEN [routed EXCEPT ![op.id] = @ + 1] ELSE routed
        BY <1>4 DEF CreateEvent, TypeOK, Ops
    <2>2. \A i \in Ids : ~Pending(i)' /\ op'.kind # "log"
        BY <2>1 DEF Pending, NoOp
    <2>3. CASE Open /\ op.event.from = "none"
        <3>1. /\ routed' = [routed EXCEPT ![op.id] = @ + 1]
              /\ routed[op.id] = 0 /\ routed \in [Ids -> Nat]
            BY <1>0, <2>1, <2>3
        <3>2. ASSUME NEW i \in Ids, i # op.id
              PROVE  routed'[i] = routed[i] /\ ~Pending(i)
            BY <3>1, <3>2 DEF Pending
        <3>3. routed'[op.id] = 1
            BY <2>1, <3>1
        <3> QED BY <1>0, <2>1, <2>2, <2>3, <3>2, <3>3 DEF Notified, Stored
    <2>4. CASE ~(Open /\ op.event.from = "none")
        BY <1>0, <2>1, <2>2, <2>4 DEF Notified, Stored, Open
    <2> QED BY <2>3, <2>4
<1>5. CASE CleanupStart
    <2>1. op = NoOp /\ op'.kind # "log" /\ UNCHANGED <<alerts, phase, routed>>
        BY <1>5 DEF CleanupStart, NoOp
    <2> QED BY <1>0, <2>1 DEF Open, Pending, NoOp
<1>6. ASSUME NEW id \in Ids, EndSilence(id)
      PROVE  Notified'
    <2>1. op.kind = "cleanup" /\ UNCHANGED <<phase, routed>>
        BY <1>6 DEF EndSilence
    <2>2. op'.kind # "log"
        BY <1>6 DEF EndSilence, NoOp, TypeOK, Ops
    <2>3. ASSUME NEW i \in Ids, alerts'[i] # NoAlert, Open
          PROVE  alerts[i] # NoAlert
        <3>1. CASE i = id
            BY <1>6, <2>3, <3>1, SilencedStored DEF Stored
        <3>2. CASE i # id
            BY <1>0, <1>6, <2>3, <3>2, EndWrites DEF MaybeAlerts
        <3> QED BY <3>1, <3>2
    <2> QED BY <1>0, <2>1, <2>2, <2>3 DEF Notified, Stored, Pending, Open
<1>7. CASE Tick
    <2>1. UNCHANGED <<op, phase, routed>>
        BY <1>7 DEF Tick
    <2> QED BY <1>0, <1>7, <2>1, TickKeeps DEF Pending, Open
<1>8. CASE Stop \/ Close \/ UNCHANGED vars \/ \E key \in Keys : Deduplicate(key)
    <2>1. UNCHANGED <<alerts, op, routed>> /\ (Open' => Open)
        BY <1>8 DEF Stop, Close, vars, Deduplicate, Open
    <2> QED BY <1>0, <2>1 DEF Pending
<1> QED BY StepCases, <1>1, <1>2, <1>3, <1>4, <1>5, <1>6, <1>7, <1>8 DEF Notified, Stored

-----------------------------------------------------------------------------
(* Two similar alerts are open: were they before?                          *)
Rivals(a, b) ==
    /\ active[a] # NoAlert /\ active[b] # NoAlert /\ active[a].key = active[b].key
    /\ OpenAlert(a) /\ OpenAlert(b)

LEMMA UniqueStep ==
    TypeOK /\ Fresh /\ OpSound /\ Mirrored /\ Logged /\ Unique /\ [Next]_vars => Unique'
<1> SUFFICES ASSUME TypeOK, Fresh, OpSound, Mirrored, Logged, Unique, [Next]_vars, Open',
                    NEW a \in Ids, NEW b \in Ids, a # b, Rivals(a, b)'
             PROVE  WasSilenced(a)' \/ WasSilenced(b)'
    BY DEF Unique, Active, Rivals
<1> USE ManagerAssumption
<1>1. CASE Restart
    BY <1>1 DEF Restart, Rivals
<1> SUFFICES ASSUME ~Restart PROVE WasSilenced(a)' \/ WasSilenced(b)'
    BY <1>1
<1>0. /\ active \in MaybeAlerts /\ alerts \in MaybeAlerts /\ Open
      /\ log \in [Ids -> Seq(Events)]
      /\ Rivals(a, b) => WasSilenced(a) \/ WasSilenced(b)
    BY StaysClosed DEF TypeOK, MaybeAlerts, Unique, Active, Rivals
<1>2. ASSUME log' = log, Rivals(a, b)
      PROVE  WasSilenced(a)' \/ WasSilenced(b)'
    BY <1>0, <1>2 DEF WasSilenced
<1>3. ASSUME NEW key \in Keys, CreateAlert(key)
      PROVE  Rivals(a, b) /\ log' = log
    <2>1. log' = log /\ Similar(key) = {}
        BY <1>3 DEF CreateAlert
    <2>2. active' = [active EXCEPT ![issued'] = Created(key)] /\ issued' \in Ids
        BY <1>0, <1>3, CreateWrites
    <2>3. Created(key).key = key
        BY DEF Created
    <2>4. ASSUME NEW i \in Ids, active[i] # NoAlert, active[i].key = key
          PROVE  ~OpenAlert(i)
        BY <2>1, <2>4 DEF Similar, Active, OpenAlert
    <2>5. ASSUME NEW i \in Ids, NEW j \in Ids, i = issued', j # i
          PROVE  ~(Rivals(i, j)' \/ Rivals(j, i)')
        <3>1. active'[i] = Created(key) /\ active'[j] = active[j]
            BY <1>0, <2>2, <2>5 DEF MaybeAlerts
        <3> QED BY <2>3, <2>4, <3>1 DEF Rivals, OpenAlert
    <2>6. a # issued' /\ b # issued'
        BY <2>5
    <2>7. active'[a] = active[a] /\ active'[b] = active[b]
        BY <1>0, <2>2, <2>6 DEF MaybeAlerts
    <2> QED BY <2>1, <2>7 DEF Rivals, OpenAlert
<1>4. CASE Changes
    <2>1. PICK id \in Ids, status \in States, left \in Nat : Change(id, status, left)
        BY <1>4 DEF Changes
    <2>2. PICK new \in Alerts :
              /\ new.status = status /\ new.key = Lookup(id).key
              /\ active' = IF id \in Active THEN [active EXCEPT ![id] = new] ELSE active
        BY <1>0, <2>1, ChangeWrites
    <2>3. ASSUME NEW i \in Ids, active'[i] # NoAlert, OpenAlert(i)'
          PROVE  active[i] # NoAlert /\ OpenAlert(i) /\ active'[i].key = active[i].key
        <3>1. CASE active'[i] = active[i]
            BY <2>3, <3>1 DEF OpenAlert
        <3>2. CASE active'[i] # active[i]
            <4>1. i = id /\ id \in Active /\ active'[i] = new
                BY <1>0, <2>2, <3>2 DEF MaybeAlerts
            <4>2. Lookup(id) = active[id]
                BY <4>1 DEF Lookup
            <4>3. status = "acknowledged"
                BY <2>1, <2>2, <2>3, <4>1 DEF OpenAlert, Change
            <4> QED BY <2>1, <2>2, <4>1, <4>2, <4>3 DEF Change, OpenAlert, Active
        <3> QED BY <3>1, <3>2
    <2>4. Rivals(a, b)
        BY <2>3 DEF Rivals
    <2>5. log' = log
        BY <2>1 DEF Change, Transition
    <2> QED BY <1>2, <2>4, <2>5
<1>5. CASE CreateEvent
    <2>1. active' = active /\ log' = [log EXCEPT ![op.id] = Append(@, op.event)]
        BY <1>0, <1>5 DEF CreateEvent
    <2>2. op.id \in Ids /\ op.event \in Events
        BY <1>5 DEF CreateEvent, TypeOK, Ops
    <2>3. ASSUME NEW i \in Ids, WasSilenced(i)
          PROVE  WasSilenced(i)'
        <3>1. PICK n \in 1..Len(log[i]) : log[i][n].to = "silenced"
            BY <2>3 DEF WasSilenced
        <3>2. n \in 1..Len(log'[i]) /\ log'[i][n] = log[i][n]
            <4>1. log[i] \in Seq(Events)
                BY <1>0
            <4>2. log'[i] = log[i] \/ log'[i] = Append(log[i], op.event)
                BY <1>0, <2>1
            <4> QED BY <2>2, <4>1, <4>2
        <3> QED BY <3>1, <3>2 DEF WasSilenced
    <2>4. Rivals(a, b)
        BY <2>1 DEF Rivals, OpenAlert
    <2> QED BY <1>0, <2>3, <2>4
<1>6. CASE CleanupStart
    <2>1. log' = log /\ \A i \in Ids : active'[i] \in {NoAlert, active[i]}
        BY <1>6 DEF CleanupStart
    <2> QED BY <1>2, <2>1 DEF Rivals, OpenAlert
<1>7. ASSUME NEW id \in Ids, EndSilence(id)
      PROVE  WasSilenced(a)' \/ WasSilenced(b)'
    <2>1. log' = log /\ active' = [active EXCEPT ![id] = Awoken(id)]
        BY <1>7, EndWrites DEF EndSilence
    <2>2. WasSilenced(id)
        <3>1. id \in Stored /\ alerts[id].status = "silenced" /\ ~Pending(id)
            BY <1>0, <1>7, SilencedStored
        <3>2. log[id] # <<>> /\ Continues(log[id][Len(log[id])].to, "silenced")
            BY <1>0, <3>1 DEF Logged, Explained
        <3>3. Len(log[id]) \in 1..Len(log[id])
            <4>1. log[id] \in Seq(Events)
                BY <1>0
            <4> QED BY <3>2, <4>1
        <3> QED BY <3>2, <3>3 DEF WasSilenced, Continues
    <2>3. CASE a = id \/ b = id
        BY <2>1, <2>2, <2>3 DEF WasSilenced
    <2>4. CASE a # id /\ b # id
        <3>1. active'[a] = active[a] /\ active'[b] = active[b]
            BY <1>0, <2>1, <2>4 DEF MaybeAlerts
        <3> QED BY <1>2, <2>1, <3>1 DEF Rivals, OpenAlert
    <2> QED BY <2>3, <2>4
<1>8. CASE Tick
    <2>1. log' = log
        BY <1>8 DEF Tick
    <2>2. Rivals(a, b)
        BY <1>8, TickKeeps DEF Rivals, OpenAlert
    <2> QED BY <1>2, <2>1, <2>2
<1>9. CASE Stop \/ Close \/ UNCHANGED vars \/ \E key \in Keys : Deduplicate(key)
    <2>1. log' = log /\ active' = active
        BY <1>9 DEF Stop, Close, vars, Deduplicate
    <2> QED BY <1>2, <2>1 DEF Rivals, OpenAlert
<1> QED BY StepCases, <1>2, <1>3, <1>4, <1>5, <1>6, <1>7, <1>8, <1>9

-----------------------------------------------------------------------------
LEMMA NextInv == IInv /\ [Next]_vars => IInv'
BY TypeStep, FreshStep, OpSoundStep, MirroredStep, LoggedStep, NotifiedStep, UniqueStep DEF IInv

(* The inductive invariant holds in every state.                           *)
THEOREM Invariant == Spec => []IInv
BY InitInv, NextInv, PTL DEF Spec

(* manager.go and store.go keep their maps well formed, and no remaining   *)
(* silence or retention goes below zero.                                   *)
THEOREM TypeCorrect == Spec => []TypeOK
<1>1. IInv => TypeOK
    BY DEF IInv
<1> QED BY <1>1, Invariant, PTL

(* Between operations the store's copy of every active alert is the        *)
(* manager's object, and what is only in the store needs no attention:     *)
(* manager.go keeps the two equal across every request and every cleanup.  *)
THEOREM ViewsAgree == Spec => []StoreMirrorsActive
<1>1. IInv => StoreMirrorsActive
    BY DEF IInv, Mirrored, StoreMirrorsActive, Quiet
<1> QED BY <1>1, Invariant, PTL

(* Between operations the events of an alert in the MemoryStore lead, step *)
(* by step, from its creation to the state it is in.                       *)
THEOREM HistoryExplains == Spec => []EventLogExplainsState
<1>1. ASSUME IInv PROVE EventLogExplainsState
    <2> SUFFICES ASSUME Quiet, NEW id \in Stored
                 PROVE  /\ Len(log[id]) > 0
                        /\ log[id][1].from = "none"
                        /\ Continued(log[id])
                        /\ Continues(log[id][Len(log[id])].to, Lookup(id).status)
        BY DEF EventLogExplainsState, Continued
    <2>1. ~Pending(id) /\ Explained(id) /\ id \in Ids
        BY <1>1 DEF Quiet, Pending, NoOp, IInv, Logged, Stored
    <2>2. log[id] \in Seq(Events)
        BY <1>1, <2>1 DEF IInv, TypeOK
    <2>3. Lookup(id) = alerts[id]
        BY <1>1, <2>1 DEF IInv, Mirrored, Quiet, Lookup
    <2> QED BY <2>1, <2>2, <2>3 DEF Explained
<1> QED BY <1>1, Invariant, PTL

(* Two similar alerts are open at once only when one of them came back     *)
(* from a silence, which findSimilarAlert of manager.go does not see.      *)
THEOREM OutageHasOneAlert == Spec => []OneOpenAlert
<1>1. IInv => OneOpenAlert
    BY DEF IInv, Unique, OneOpenAlert, Quiet
<1> QED BY <1>1, Invariant, PTL

(* manager.go CreateAlert routes every alert it stores, and nothing routes *)
(* one again.                                                              *)
THEOREM NotifiedOnce == Spec => []RoutedOnce
<1>1. IInv => RoutedOnce
    BY DEF IInv, Notified, RoutedOnce, Quiet, Pending, NoOp
<1> QED BY <1>1, Invariant, PTL

-----------------------------------------------------------------------------
(* What the readers see of a written alert, and of one that is left alone. *)
LEMMA SeenWritten ==
    ASSUME TypeOK, NEW id \in Ids, NEW new \in Alerts, alerts' = [alerts EXCEPT ![id] = new]
    PROVE  /\ StoredLife' = [StoredLife EXCEPT ![id] = new.status]
           /\ StoredOutage' = [StoredOutage EXCEPT ![id] = new.key]
           /\ id \in Stored /\ alerts[id].key = new.key => StoredOutage' = StoredOutage
           /\ id \in Stored /\ alerts[id].key = new.key /\ alerts[id].status = new.status =>
                  StoredLife' = StoredLife
<1>1. alerts \in [Ids -> Alerts \cup {NoAlert}] /\ new # NoAlert
    BY ManagerAssumption DEF TypeOK
<1>2. \A i \in Ids : alerts'[i] = IF i = id THEN new ELSE alerts[i]
    BY <1>1
<1>3. \A i \in Ids : i \in Stored' <=> i = id \/ i \in Stored
    BY <1>1, <1>2 DEF Stored
<1>4. StoredLife' = [StoredLife EXCEPT ![id] = new.status]
    <2>1. \A i \in Ids : StoredLife'[i] = IF i = id THEN new.status ELSE StoredLife[i]
        BY <1>2, <1>3 DEF StoredLife
    <2>2. StoredLife' = [i \in Ids |-> StoredLife'[i]] /\ StoredLife = [i \in Ids |-> StoredLife[i]]
        BY DEF StoredLife
    <2> QED BY ONLY <2>1, <2>2
<1>5. StoredOutage' = [StoredOutage EXCEPT ![id] = new.key]
    <2>1. \A i \in Ids : StoredOutage'[i] = IF i = id THEN new.key ELSE StoredOutage[i]
        BY <1>2, <1>3 DEF StoredOutage
    <2>2. /\ StoredOutage' = [i \in Ids |-> StoredOutage'[i]]
          /\ StoredOutage = [i \in Ids |-> StoredOutage[i]]
        BY DEF StoredOutage
    <2> QED BY ONLY <2>1, <2>2
<1>6. id \in Stored /\ alerts[id].key = new.key => StoredOutage' = StoredOutage
    BY <1>5 DEF StoredOutage
<1>7. id \in Stored /\ alerts[id].status = new.status => StoredLife' = StoredLife
    BY <1>4 DEF StoredLife
<1> QED BY <1>4, <1>5, <1>6, <1>7

LEMMA SeenUnchanged ==
    ASSUME alerts' = alerts
    PROVE  UNCHANGED Readers!story
BY DEF Readers!story, StoredLife, StoredOutage, Stored

(* No open alert of an outage is in the store that the manager would not   *)
(* have found.                                                             *)
LEMMA NoneAttended ==
    ASSUME TypeOK, Mirrored, Open, NEW key \in Keys, Similar(key) = {}
    PROVE  ~Readers!Attended(key)
<1>1. SUFFICES ASSUME NEW id \in Ids, StoredOutage[id] = key,
                      StoredLife[id] \in {"firing", "acknowledged"}
               PROVE  FALSE
    BY DEF Readers!Attended
<1>2. id \in Stored /\ alerts[id].status \in {"firing", "acknowledged"} /\ alerts[id].key = key
    BY <1>1 DEF StoredLife, StoredOutage
<1>3. id \in Active /\ active[id] = alerts[id]
    BY <1>2 DEF Mirrored
<1> QED BY <1>2, <1>3 DEF Similar

LEMMA InitLives == Init => Readers!Init
BY DEF Init, Readers!Init, StoredLife, StoredOutage, Stored

(* Every step is one in the life of an alert, or the readers do not see it.*)
LEMMA StepLives ==
    ASSUME IInv, [Next]_vars
    PROVE  [Readers!Next]_(Readers!story)
<1>0. TypeOK /\ Fresh /\ OpSound /\ Mirrored
    BY DEF IInv
<1>1. ASSUME NEW key \in Keys, CreateAlert(key)
      PROVE  [Readers!Next]_(Readers!story)
    <2> DEFINE new == [key |-> key, status |-> "firing", left |-> 0]
    <2>1. CASE ~Open
        <3>1. alerts' = alerts
            BY <1>1, <2>1 DEF CreateAlert
        <3> QED BY <3>1, SeenUnchanged
    <2>2. CASE Open
        <3>1. /\ alerts' = [alerts EXCEPT ![issued + 1] = new] /\ issued < MaxAlerts
              /\ Similar(key) = {}
            BY <1>1, <2>2 DEF CreateAlert
        <3>2. issued + 1 \in Ids /\ issued + 1 > issued
            BY <1>0, <3>1, ManagerAssumption DEF Ids, TypeOK
        <3>3. new \in Alerts /\ new.status = "firing" /\ new.key = key
            BY DEF Alerts, States
        <3>4. StoredLife[issued + 1] = "none"
            BY <1>0, <3>2 DEF StoredLife, Stored, Fresh
        <3>5. /\ StoredLife' = [StoredLife EXCEPT ![issued + 1] = "firing"]
              /\ StoredOutage' = [StoredOutage EXCEPT ![issued + 1] = key]
            BY <1>0, <3>1, <3>2, <3>3, SeenWritten
        <3>6. ~Readers!Attended(key)
            BY <1>0, <2>2, <3>1, NoneAttended
        <3> QED BY <3>2, <3>4, <3>5, <3>6 DEF Readers!Next, Readers!Raise
    <2> QED BY <2>1, <2>2
<1>2. CASE Changes
    <2>1. PICK id \in Ids, status \in States, left \in Nat : Change(id, status, left)
        BY <1>2 DEF Changes
    <2>2. PICK new \in Alerts :
              /\ new.status = status /\ new.key = Lookup(id).key
              /\ alerts' = IF Open THEN [alerts EXCEPT ![id] = new] ELSE alerts
        BY <1>0, <2>1, ChangeWrites
    <2>3. CASE ~Open
        BY <2>2, <2>3, SeenUnchanged
    <2>4. CASE Open
        <3>1. id \in Stored /\ Lookup(id) = alerts[id]
            BY <1>0, <2>1, <2>4, FoundStored DEF Change
        <3>2. StoredLife[id] = alerts[id].status /\ alerts[id].status \in States
            BY <1>0, <3>1 DEF StoredLife, TypeOK, Alerts, Stored
        <3>3. /\ StoredLife' = [StoredLife EXCEPT ![id] = status] /\ StoredOutage' = StoredOutage
              /\ alerts[id].status = status => StoredLife' = StoredLife
            BY <1>0, <2>2, <2>4, <3>1, SeenWritten
        <3>4. /\ status = "acknowledged" => alerts[id].status = "firing"
              /\ status = "resolved" => alerts[id].status # "resolved"
              /\ status \in {"resolved", "acknowledged", "silenced"}
            BY <2>1, <3>1 DEF Change
        <3>5. CASE status = "acknowledged"
            BY <3>2, <3>3, <3>4, <3>5 DEF Readers!Next, Readers!Acknowledge, Readers!Turn
        <3>6. CASE status = "resolved"
            BY <3>2, <3>3, <3>4, <3>6 DEF Readers!Next, Readers!Resolve, Readers!Turn, States
        <3>7. CASE status = "silenced" /\ alerts[id].status # "silenced"
            <4>1. StoredLife[id] \in Readers!Lives \ {"none", "silenced"}
                BY <3>2, <3>7 DEF Readers!Lives, States
            <4> QED BY <3>3, <3>7, <4>1 DEF Readers!Next, Readers!Silence, Readers!Turn
        <3>8. CASE status = "silenced" /\ alerts[id].status = "silenced"
            BY <3>3, <3>8 DEF Readers!story
        <3> QED BY <3>4, <3>5, <3>6, <3>7, <3>8
    <2> QED BY <2>3, <2>4
<1>3. ASSUME NEW id \in Ids, EndSilence(id)
      PROVE  [Readers!Next]_(Readers!story)
    <2>1. CASE ~Open
        BY <1>3, <2>1, SeenUnchanged DEF EndSilence
    <2>2. CASE Open
        <3>1. /\ Awoken(id) \in Alerts /\ Awoken(id).status = "firing"
              /\ Awoken(id).key = active[id].key
              /\ alerts' = [alerts EXCEPT ![id] = Awoken(id)]
            BY <1>0, <1>3, <2>2, EndWrites
        <3>2. id \in Stored /\ alerts[id].status = "silenced" /\ alerts[id] = active[id]
            BY <1>0, <1>3, <2>2, SilencedStored
        <3>3. StoredLife' = [StoredLife EXCEPT ![id] = "firing"] /\ StoredOutage' = StoredOutage
            BY <1>0, <3>1, <3>2, SeenWritten
        <3>4. StoredLife[id] = "silenced"
            BY <3>2 DEF StoredLife
        <3> QED BY <3>3, <3>4 DEF Readers!Next, Readers!FireAgain, Readers!Turn
    <2> QED BY <2>1, <2>2
<1>4. CASE Tick
    <2>1. alerts \in [Ids -> Alerts \cup {NoAlert}] /\ alerts' = Elapse(alerts)
        BY <1>0, <1>4 DEF Tick, TypeOK
    <2>2. \A id \in Ids : /\ alerts'[id] = NoAlert <=> alerts[id] = NoAlert
                          /\ id \in Stored => /\ alerts'[id].status = alerts[id].status
                                              /\ alerts'[id].key = alerts[id].key
        BY <2>1, ElapseKeeps DEF Stored, MaybeAlerts
    <2>3. Stored' = Stored
        BY <2>2 DEF Stored
    <2> QED BY <2>2, <2>3 DEF Readers!story, StoredLife, StoredOutage
<1>5. CASE Restart
    BY <1>5 DEF Restart, Readers!Next, Readers!Forget, StoredLife, StoredOutage, Stored
<1>6. CASE CreateEvent \/ CleanupStart \/ Stop \/ Close \/ UNCHANGED vars
           \/ \E key \in Keys : Deduplicate(key)
    <2>1. alerts' = alerts
        BY <1>6 DEF CreateEvent, CleanupStart, Stop, Close, vars, Deduplicate
    <2> QED BY <2>1, SeenUnchanged
<1> QED BY StepCases, <1>1, <1>2, <1>3, <1>4, <1>5, <1>6

(* What the readers of the store see is the life of alerts as AlertLife    *)
(* has it, whatever is asked of the manager and whenever it is stopped     *)
(* (manager.go, store.go Update).                                          *)
THEOREM ManagerImplementsLife == Spec => AlertsLive
<1>1. IInv /\ [Next]_vars => [Readers!Next]_(Readers!story)
    BY StepLives
<1> QED BY InitLives, <1>1, Invariant, PTL DEF Spec, AlertsLive, Readers!Spec

=============================================================================

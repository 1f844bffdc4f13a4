--------------------------- MODULE StormPrevention ---------------------------
(***************************************************************************)
(* The storm preventer, which decides for every alert of a group whether   *)
(* to send it: not within the cooldown after the last one, and not while   *)
(* the group is suppressed, which it is from the alert that would be one   *)
(* too many until the first alert after the suppression window.  A group   *)
(* is forgotten when nothing was sent for a suppression window.            *)
(*                                                                         *)
(* A time is kept as what has passed since, and not beyond Long, from      *)
(* where on no comparison tells it apart.  No binary makes a preventer, so *)
(* that its callers are whoever uses the package.  Rules of parents and    *)
(* children change nothing here and are left out.                          *)
(***************************************************************************)
EXTENDS Integers, Sequences

CONSTANTS
    Groups,             \* the keys makeGroupKey makes
    NoGroup,
    MaxAlertsPerGroup,  \* StormPreventionConfig
    CooldownPeriod,
    SuppressionWindow

ASSUME StormAssumption ==
    /\ MaxAlertsPerGroup \in Nat \ {0} /\ CooldownPeriod \in Nat \ {0}
    /\ SuppressionWindow \in Nat /\ CooldownPeriod <= SuppressionWindow

VARIABLES
    alertGroups,  \* AlertStormPreventer.alertGroups
    sent          \* ghost: how long ago the group's alerts were sent, those of the
                  \*   last suppression window

vars == <<alertGroups, sent>>

Long == SuppressionWindow + 1

Exists(g) == alertGroups[g] # NoGroup

Group ==
    [alertCount : Nat, firstAlert : 0..Long, lastSent : 0..Long, suppressed : BOOLEAN]

ASSUME NoGroupAssumption == NoGroup \notin Group

NewGroup == [alertCount |-> 0, firstAlert |-> 0, lastSent |-> Long, suppressed |-> FALSE]

(* Mutant: the time of the first alert stays.                              *)
FoundKeepsFirst(g) ==
    IF ~Exists(g) THEN NewGroup
    ELSE IF alertGroups[g].suppressed /\ alertGroups[g].firstAlert > SuppressionWindow
         THEN [alertGroups[g] EXCEPT !.alertCount = 0, !.suppressed = FALSE]
    ELSE alertGroups[g]

(* Mutant: the count stays.                                                *)
FoundKeepsCount(g) ==
    IF ~Exists(g) THEN NewGroup
    ELSE IF alertGroups[g].suppressed /\ alertGroups[g].firstAlert > SuppressionWindow
         THEN [alertGroups[g] EXCEPT !.firstAlert = 0, !.suppressed = FALSE]
    ELSE alertGroups[g]

(* The group as ShouldSendAlert finds or makes it, with its suppression    *)
(* taken off if the window has passed since its first alert.               *)
Found(g) ==
    IF ~Exists(g) THEN NewGroup
    ELSE IF alertGroups[g].suppressed /\ alertGroups[g].firstAlert > SuppressionWindow
         THEN [alertGroups[g] EXCEPT !.alertCount = 0, !.firstAlert = 0, !.suppressed = FALSE]
    ELSE alertGroups[g]

Cooling(group) == group.lastSent < CooldownPeriod

-----------------------------------------------------------------------------
Init ==
    /\ alertGroups = [g \in Groups |-> NoGroup]
    /\ sent = [g \in Groups |-> << >>]

(* ShouldSendAlert: the alert is sent, ...                                 *)
Send(g) ==
    /\ ~Found(g).suppressed /\ ~Cooling(Found(g))
    /\ Found(g).alertCount < MaxAlertsPerGroup
    /\ alertGroups' = [alertGroups EXCEPT ![g] =
           [Found(g) EXCEPT !.alertCount = @ + 1, !.lastSent = 0]]
    /\ sent' = [sent EXCEPT ![g] = Append(@, 0)]

(* ... it is one too many, ...                                             *)
Suppress(g) ==
    /\ ~Found(g).suppressed /\ ~Cooling(Found(g))
    /\ Found(g).alertCount >= MaxAlertsPerGroup
    /\ alertGroups' = [alertGroups EXCEPT ![g] = [Found(g) EXCEPT !.suppressed = TRUE]]
    /\ UNCHANGED sent

(* ... or it is held back.                                                 *)
HoldBack(g) ==
    /\ Found(g).suppressed \/ Cooling(Found(g))
    /\ alertGroups' = [alertGroups EXCEPT ![g] = Found(g)]
    /\ UNCHANGED sent

ShouldSendAlert(g) == Send(g) \/ Suppress(g) \/ HoldBack(g)

(* Mutant: a group expires with its first alert.                           *)
CleanupExpiredGroupsByFirst ==
    /\ alertGroups' = [g \in Groups |->
           IF Exists(g) /\ alertGroups[g].firstAlert > SuppressionWindow THEN NoGroup
                                                                        ELSE alertGroups[g]]
    /\ UNCHANGED sent

(* LastAlertTime is LastSentTime: only a sent alert counts.                *)
CleanupExpiredGroups ==
    /\ alertGroups' = [g \in Groups |->
           IF Exists(g) /\ alertGroups[g].lastSent > SuppressionWindow THEN NoGroup
                                                                      ELSE alertGroups[g]]
    /\ UNCHANGED sent

(* What was sent before no longer counts.                                  *)
ResetGroup(g) ==
    /\ alertGroups' = [alertGroups EXCEPT ![g] = NoGroup]
    /\ sent' = [sent EXCEPT ![g] = << >>]

Older(t) == IF t < Long THEN t + 1 ELSE Long

Aged(times) == [i \in 1..Len(times) |-> times[i] + 1]

(* The oldest falls out of the window.                                     *)
Remembered(times) ==
    IF times # << >> /\ Head(times) > SuppressionWindow THEN Tail(times) ELSE times

Tick ==
    /\ alertGroups' = [g \in Groups |->
           IF Exists(g) THEN [alertGroups[g] EXCEPT !.firstAlert = Older(@), !.lastSent = Older(@)]
                        ELSE NoGroup]
    /\ sent' = [g \in Groups |-> Remembered(Aged(sent[g]))]

Next ==
    \/ \E g \in Groups : ShouldSendAlert(g) \/ ResetGroup(g)
    \/ CleanupExpiredGroups
    \/ Tick

Spec == Init /\ [][Next]_vars

(* Time passes, and alerts of every group keep coming.                     *)
FairSpec == Spec /\ WF_vars(Tick) /\ \A g \in Groups : WF_vars(ShouldSendAlert(g))

-----------------------------------------------------------------------------
(* The type of the groups, and of the times that are remembered.           *)
TypeOK ==
    /\ alertGroups \in [Groups -> Group \cup {NoGroup}]
    /\ sent \in [Groups -> Seq(0..SuppressionWindow)]

(* Alerts of a group are sent a cooldown apart, also when the group was    *)
(* reset by its suppression or forgotten in between (ShouldSendAlert,      *)
(* CleanupExpiredGroups).                                                  *)
CooldownBetweenSends ==
    \A g \in Groups : \A i \in DOMAIN sent[g] :
        i > 1 => sent[g][i - 1] - sent[g][i] >= CooldownPeriod

(* In no stretch as long as the suppression window are as many alerts of a *)
(* group sent as twice the maximum: the count of a group that is not       *)
(* suppressed never falls, and when a suppression is taken off the first   *)
(* alert counted before it is already out of the stretch.                  *)
StormBounded ==
    \A g \in Groups : Len(sent[g]) < 2 * MaxAlertsPerGroup

JustSent(g) == sent[g] # << >> /\ sent[g][Len(sent[g])] = 0

(* A group whose alerts keep coming is not held back for ever, unless it   *)
(* is reset (ShouldSendAlert, where only another alert takes a suppression *)
(* off).                                                                   *)
SuppressionLifts ==
    \A g \in Groups :
        Exists(g) /\ alertGroups[g].suppressed ~> JustSent(g) \/ ~Exists(g)
=============================================================================

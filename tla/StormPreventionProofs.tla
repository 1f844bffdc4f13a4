------------------------ MODULE StormPreventionProofs ------------------------
(***************************************************************************)
(* For every set of groups, maximum, cooldown and window: the alerts of a  *)
(* group are sent a cooldown apart, and fewer than twice the maximum of    *)
(* them within a suppression window.                                       *)
(*                                                                         *)
(* That alerts are apart is kept only because a group that is remembered   *)
(* knows when its last alert was sent, and one that is forgotten has sent  *)
(* none within the window.  The bound is kept because the alerts sent are  *)
(* those counted and, before them, fewer than the maximum: a suppression   *)
(* is only taken off when the first alert that was counted has left the    *)
(* window, and never within the cooldown, so that the alert that takes it  *)
(* off is sent and is the first to be counted again.                       *)
(***************************************************************************)
EXTENDS StormPrevention, SequenceTheorems, TLAPS

Apart(times) ==
    \A i, j \in 1..Len(times) : i < j => times[i] - times[j] >= CooldownPeriod

(* What a group knows of the alerts that were sent.                        *)
LastKnown(group, times) ==
    group.lastSent = IF times = << >> THEN Long ELSE times[Len(times)]

(* How many alerts were sent before the first that is counted.             *)
Before(group, times) == Len(times) - group.alertCount

Counted(group, times) ==
    /\ group.alertCount \in 1..MaxAlertsPerGroup
    /\ group.firstAlert <= SuppressionWindow =>
           /\ Before(group, times) \in 0..(MaxAlertsPerGroup - 1)
           /\ times[Before(group, times) + 1] = group.firstAlert
    /\ group.firstAlert > SuppressionWindow => Len(times) < group.alertCount

Known(group, times) ==
    /\ LastKnown(group, times)
    /\ Counted(group, times)
    /\ group.suppressed => ~Cooling(group)

GroupInv(group, times) ==
    /\ group \in Group \cup {NoGroup}
    /\ times \in Seq(0..SuppressionWindow)
    /\ Apart(times)
    /\ IF group = NoGroup THEN times = << >> ELSE Known(group, times)

(* The inductive invariant.                                                *)
IInv ==
    /\ TypeOK
    /\ \A g \in Groups : GroupInv(alertGroups[g], sent[g])

-----------------------------------------------------------------------------
LEMMA InRange ==
    ASSUME NEW S, NEW T, NEW s \in Seq(S), \A i \in 1..Len(s) : s[i] \in T
    PROVE  s \in Seq(T)
<1>1. Len(s) \in Nat /\ s \in [1..Len(s) -> S]
    BY LenProperties
<1>2. s \in [1..Len(s) -> T]
    BY <1>1
<1> QED BY <1>1, <1>2, SeqDef

(* A unit of time makes every alert older, and the oldest leave the window *)
(* when it was as old as the window.                                       *)
LEMMA TickTimes ==
    ASSUME NEW times \in Seq(0..SuppressionWindow), Apart(times),
           NEW later, later = Remembered(Aged(times))
    PROVE  /\ later \in Seq(0..SuppressionWindow)
           /\ \/ /\ times = << >> \/ times[1] < SuppressionWindow
                 /\ Len(later) = Len(times)
                 /\ \A i \in 1..Len(later) : later[i] = times[i] + 1
              \/ /\ times # << >> /\ times[1] = SuppressionWindow
                 /\ Len(later) = Len(times) - 1
                 /\ \A i \in 1..Len(later) : later[i] = times[i + 1] + 1
<1> DEFINE aged == Aged(times)
<1>1. Len(times) \in Nat /\ \A i \in 1..Len(times) : times[i] \in 0..SuppressionWindow
    BY LenProperties, ElementOfSeq
<1>2. aged \in Seq(1..Long) /\ Len(aged) = Len(times)
      /\ \A i \in 1..Len(times) : aged[i] = times[i] + 1
    <2>1. aged = [i \in 1..Len(times) |-> times[i] + 1]
        BY DEF Aged
    <2>2. \A i \in 1..Len(times) : times[i] + 1 \in 1..Long
        BY <1>1, StormAssumption DEF Long
    <2>3. aged \in [1..Len(times) -> 1..Long]
        BY <2>1, <2>2
    <2>4. aged \in Seq(1..Long) /\ Len(aged) = Len(times)
        BY <1>1, <2>1, <2>3
    <2> QED BY <2>1, <2>4
<1>3. \A i \in 1..Len(times) : i > 1 => times[i] < SuppressionWindow
    BY <1>1, StormAssumption DEF Apart
<1> HIDE DEF aged
<1>4. later = IF aged # << >> /\ Head(aged) > SuppressionWindow THEN Tail(aged) ELSE aged
    BY DEF Remembered, aged
<1>5. CASE times = << >> \/ times[1] < SuppressionWindow
    <2>1. \A i \in 1..Len(times) : times[i] + 1 \in 0..SuppressionWindow
        BY <1>1, <1>3, <1>5, StormAssumption
    <2>2. later = aged
        <3>1. CASE aged = << >>
            BY <3>1, <1>4
        <3>2. CASE aged # << >>
            <4>1. times # << >> /\ 1 \in 1..Len(times) /\ Head(aged) = aged[1]
                BY <1>1, <1>2, <3>2
            <4>2. Head(aged) <= SuppressionWindow
                BY <1>1, <1>2, <1>5, <4>1, StormAssumption
            <4> QED BY <1>1, <1>2, <1>4, <4>1, <4>2, StormAssumption
        <3> QED BY <3>1, <3>2
    <2>3. later \in Seq(0..SuppressionWindow)
        <3>1. \A i \in 1..Len(later) : later[i] \in 0..SuppressionWindow
            BY <1>2, <2>1, <2>2
        <3>2. later \in Seq(1..Long)
            BY <1>2, <2>2
        <3> QED BY <3>1, <3>2, InRange
    <2> QED BY <1>2, <1>5, <2>2, <2>3
<1>6. CASE times # << >> /\ times[1] >= SuppressionWindow
    <2>1. 1 \in 1..Len(times) /\ times[1] = SuppressionWindow
        BY <1>1, <1>6, StormAssumption
    <2>2. aged # << >> /\ Head(aged) = SuppressionWindow + 1
        BY <1>2, <2>1
    <2>3. later = Tail(aged)
        BY <1>4, <2>2, StormAssumption
    <2>4. Len(later) = Len(times) - 1 /\ later \in Seq(1..Long)
          /\ \A i \in 1..Len(later) : later[i] = aged[i + 1]
        BY <1>2, <2>2, <2>3
    <2>5. \A i \in 1..Len(later) : later[i] = times[i + 1] + 1
        BY <1>1, <1>2, <2>4
    <2>6. \A i \in 1..Len(later) : later[i] \in 0..SuppressionWindow
        <3> SUFFICES ASSUME NEW i \in 1..Len(later)
                     PROVE  later[i] \in 0..SuppressionWindow
            OBVIOUS
        <3>1. i + 1 \in 1..Len(times) /\ i + 1 > 1
            BY <1>1, <2>4
        <3>2. times[i + 1] \in 0..SuppressionWindow /\ times[i + 1] < SuppressionWindow
            BY <1>1, <1>3, <3>1
        <3> QED BY <2>5, <3>2, StormAssumption
    <2>7. later \in Seq(0..SuppressionWindow)
        BY <2>4, <2>6, InRange
    <2> QED BY <1>6, <2>1, <2>4, <2>5, <2>7
<1>7. 1 \in 1..Len(times) \/ times = << >>
    BY <1>1
<1> QED BY <1>1, <1>5, <1>6, <1>7, StormAssumption

(* Its gaps stay, and what a group knows of it becomes older with it.      *)
LEMMA TickGroup ==
    ASSUME NEW group \in Group, NEW times, GroupInv(group, times), group # NoGroup,
           NEW next, next = [group EXCEPT !.firstAlert = Older(@), !.lastSent = Older(@)]
    PROVE  GroupInv(next, Remembered(Aged(times)))
<1> DEFINE later == Remembered(Aged(times))
<1>1. times \in Seq(0..SuppressionWindow) /\ Apart(times) /\ Known(group, times)
    BY DEF GroupInv
<1>2. Len(times) \in Nat /\ \A i \in 1..Len(times) : times[i] \in 0..SuppressionWindow
    BY <1>1, LenProperties, ElementOfSeq
<1>3. /\ later \in Seq(0..SuppressionWindow)
      /\ \/ /\ times = << >> \/ times[1] < SuppressionWindow
            /\ Len(later) = Len(times)
            /\ \A i \in 1..Len(later) : later[i] = times[i] + 1
         \/ /\ times # << >> /\ times[1] = SuppressionWindow
            /\ Len(later) = Len(times) - 1
            /\ \A i \in 1..Len(later) : later[i] = times[i + 1] + 1
    BY <1>1, TickTimes
<1> HIDE DEF later
<1>4. /\ next \in Group /\ next # NoGroup
      /\ next.alertCount = group.alertCount /\ next.suppressed = group.suppressed
      /\ next.firstAlert = Older(group.firstAlert) /\ next.lastSent = Older(group.lastSent)
      /\ group.firstAlert \in 0..Long /\ group.lastSent \in 0..Long
      /\ group.alertCount \in Nat /\ next.firstAlert \in 0..Long
    <2>1. \A t \in 0..Long : Older(t) \in 0..Long
        BY StormAssumption DEF Older, Long
    <2>2. /\ group.firstAlert \in 0..Long /\ group.lastSent \in 0..Long
          /\ group.alertCount \in Nat
        BY DEF Group
    <2>3. next \in Group
        BY <2>1 DEF Group
    <2>4. /\ next.alertCount = group.alertCount /\ next.suppressed = group.suppressed
          /\ next.firstAlert = Older(group.firstAlert)
          /\ next.lastSent = Older(group.lastSent)
        BY DEF Group
    <2> QED BY <2>1, <2>2, <2>3, <2>4, NoGroupAssumption
<1>5. Apart(later)
    <2> SUFFICES ASSUME NEW i \in 1..Len(later), NEW j \in 1..Len(later), i < j
                 PROVE  later[i] - later[j] >= CooldownPeriod
        BY DEF Apart
    <2>1. CASE Len(later) = Len(times) /\ \A k \in 1..Len(later) : later[k] = times[k] + 1
        <3>1. times[i] - times[j] >= CooldownPeriod
            BY <1>1, <2>1 DEF Apart
        <3> QED BY <1>2, <2>1, <3>1, StormAssumption
    <2>2. CASE Len(later) = Len(times) - 1 /\ \A k \in 1..Len(later) : later[k] = times[k + 1] + 1
        <3>1. i + 1 \in 1..Len(times) /\ j + 1 \in 1..Len(times) /\ i + 1 < j + 1
            BY <1>2, <2>2
        <3>2. times[i + 1] - times[j + 1] >= CooldownPeriod
            BY <1>1, <3>1 DEF Apart
        <3> QED BY <1>2, <2>2, <3>1, <3>2, StormAssumption
    <2> QED BY <1>3, <2>1, <2>2
<1>6. times = << >> <=> Len(times) = 0
    BY <1>1, EmptySeq
<1>7. later = << >> <=> Len(later) = 0
    BY <1>3, EmptySeq
<1>8. LastKnown(next, later)
    <2>1. CASE times = << >>
        BY <1>1, <1>3, <1>4, <1>6, <1>7, <2>1, StormAssumption DEF Known, LastKnown, Older, Long
    <2>2. CASE times # << >>
        <3>1. group.lastSent = times[Len(times)] /\ Len(times) \in 1..Len(times)
              /\ 1 \in 1..Len(times)
            BY <1>1, <1>2, <1>6, <2>2 DEF Known, LastKnown
        <3>2. CASE later = << >>
            <4>1. Len(times) = 1 /\ times[1] = SuppressionWindow
                BY <1>2, <1>3, <1>6, <1>7, <2>2, <3>1, <3>2
            <4>2. next.lastSent = Long
                BY <1>4, <3>1, <4>1, StormAssumption DEF Older, Long
            <4> QED BY <3>2, <4>2 DEF LastKnown
        <3>3. CASE later # << >>
            <4>1. Len(later) \in 1..Len(later)
                BY <1>2, <1>3, <1>7, <3>3
            <4>2. later[Len(later)] = times[Len(times)] + 1
                <5>1. CASE Len(later) = Len(times)
                           /\ \A i \in 1..Len(later) : later[i] = times[i] + 1
                    BY <4>1, <5>1
                <5>2. CASE Len(later) = Len(times) - 1
                           /\ \A i \in 1..Len(later) : later[i] = times[i + 1] + 1
                    <6>1. Len(later) + 1 = Len(times)
                        BY <1>2, <5>2
                    <6> QED BY <4>1, <5>2, <6>1
                <5> QED BY <1>3, <5>1, <5>2
            <4>3. later[Len(later)] \in 0..SuppressionWindow
                BY <1>3, <4>1, ElementOfSeq
            <4>4. next.lastSent = times[Len(times)] + 1
                BY <1>2, <1>4, <3>1, <4>2, <4>3, StormAssumption DEF Older, Long
            <4> QED BY <3>3, <4>2, <4>4 DEF LastKnown
        <3> QED BY <3>2, <3>3
    <2> QED BY <2>1, <2>2
<1>9. Counted(next, later)
    <2> DEFINE before == Before(group, times)
    <2>1. /\ group.alertCount \in 1..MaxAlertsPerGroup
          /\ group.firstAlert <= SuppressionWindow =>
                 /\ before \in 0..(MaxAlertsPerGroup - 1)
                 /\ times[before + 1] = group.firstAlert
          /\ group.firstAlert > SuppressionWindow => Len(times) < group.alertCount
          /\ before = Len(times) - group.alertCount
        BY <1>1 DEF Known, Counted, Before
    <2> HIDE DEF before
    <2>2. CASE group.firstAlert > SuppressionWindow
        <3>1. next.firstAlert > SuppressionWindow
            BY <1>4, <2>2, StormAssumption DEF Older, Long
        <3>2. Len(later) < group.alertCount
            BY <1>2, <1>3, <1>4, <2>1, <2>2
        <3> QED BY <1>4, <2>1, <3>1, <3>2, StormAssumption DEF Counted
    <2>3. CASE group.firstAlert = SuppressionWindow
        <3>1. before + 1 \in 1..Len(times) /\ before \in Nat
            BY <1>2, <1>4, <2>1, <2>3, StormAssumption
        <3>2. 1 \in 1..Len(times)
            BY <1>2, <3>1
        <3>3. before = 0
            <4> SUFFICES ASSUME before # 0 PROVE FALSE
                OBVIOUS
            <4>1. 1 < before + 1
                BY <3>1
            <4>2. times[1] - times[before + 1] >= CooldownPeriod
                BY <1>1, <3>1, <3>2, <4>1 DEF Apart
            <4>3. times[1] \in 0..SuppressionWindow /\ times[before + 1] = SuppressionWindow
                BY <1>2, <2>1, <2>3, <3>2, StormAssumption
            <4> QED BY <4>2, <4>3, StormAssumption
        <3>4. times[1] = SuppressionWindow
            BY <2>1, <2>3, <3>3, StormAssumption
        <3>5. Len(later) < group.alertCount
            BY <1>2, <1>3, <1>4, <1>6, <2>1, <3>2, <3>3, <3>4, StormAssumption
        <3>6. next.firstAlert > SuppressionWindow
            BY <1>4, <2>3, StormAssumption DEF Older, Long
        <3> QED BY <1>4, <2>1, <3>5, <3>6, StormAssumption DEF Counted
    <2>4. CASE group.firstAlert < SuppressionWindow
        <3>1. before + 1 \in 1..Len(times) /\ before \in 0..(MaxAlertsPerGroup - 1)
              /\ before \in Nat /\ times[before + 1] = group.firstAlert
            BY <1>2, <1>4, <2>1, <2>4, StormAssumption
        <3>2. next.firstAlert = group.firstAlert + 1 /\ next.firstAlert <= SuppressionWindow
            BY <1>4, <2>4, StormAssumption DEF Older, Long
        <3>3. CASE Len(later) = Len(times) /\ \A i \in 1..Len(later) : later[i] = times[i] + 1
            <4>1. Before(next, later) = before /\ later[before + 1] = times[before + 1] + 1
                BY <1>4, <2>1, <3>1, <3>3 DEF Before
            <4> QED BY <1>4, <2>1, <3>1, <3>2, <4>1, StormAssumption DEF Counted
        <3>4. CASE /\ times[1] = SuppressionWindow
                   /\ Len(later) = Len(times) - 1
                   /\ \A i \in 1..Len(later) : later[i] = times[i + 1] + 1
            <4>1. before # 0
                BY <2>4, <3>1, <3>4, StormAssumption
            <4>2. Before(next, later) = before - 1
                BY <1>2, <1>4, <2>1, <3>1, <3>4 DEF Before
            <4>3. before \in 1..Len(later) /\ before - 1 \in 0..(MaxAlertsPerGroup - 1)
                BY <1>2, <3>1, <3>4, <4>1, StormAssumption
            <4>4. later[before] = times[before + 1] + 1
                BY <3>4, <4>3
            <4>5. (before - 1) + 1 = before
                BY <3>1
            <4>6. later[Before(next, later) + 1] = next.firstAlert
                BY <3>1, <3>2, <4>2, <4>4, <4>5
            <4>7. Before(next, later) \in 0..(MaxAlertsPerGroup - 1)
                BY <4>2, <4>3
            <4>8. ~(next.firstAlert > SuppressionWindow)
                BY <1>4, <3>2, StormAssumption
            <4> QED BY <1>4, <2>1, <4>6, <4>7, <4>8 DEF Counted
        <3> QED BY <1>3, <3>3, <3>4
    <2> QED BY <1>4, <2>2, <2>3, <2>4, StormAssumption
<1>10. next.suppressed => ~Cooling(next)
    BY <1>1, <1>4, StormAssumption DEF Known, Cooling, Older, Long
<1> QED BY <1>3, <1>4, <1>5, <1>8, <1>9, <1>10 DEF GroupInv, Known, later

-----------------------------------------------------------------------------
(* The group that ShouldSendAlert goes on with, and whether its next alert *)
(* begins the count.                                                       *)
FoundInv(group, times) ==
    /\ group \in Group
    /\ times \in Seq(0..SuppressionWindow)
    /\ Apart(times)
    /\ LastKnown(group, times)
    /\ IF group.alertCount = 0
         THEN /\ group.firstAlert = 0 /\ ~group.suppressed /\ ~Cooling(group)
              /\ Len(times) < MaxAlertsPerGroup
         ELSE Known(group, times)

LEMMA FoundGroup ==
    ASSUME NEW g \in Groups, GroupInv(alertGroups[g], sent[g])
    PROVE  FoundInv(Found(g), sent[g])
<1> DEFINE group == alertGroups[g]
           times == sent[g]
           fresh == [group EXCEPT !.alertCount = 0, !.firstAlert = 0, !.suppressed = FALSE]
<1>1. times \in Seq(0..SuppressionWindow) /\ Apart(times)
    BY DEF GroupInv
<1>2. CASE group = NoGroup
    <2>1. times = << >> /\ Len(times) = 0
        BY <1>2, EmptySeq DEF GroupInv
    <2>2. NewGroup \in Group /\ ~Cooling(NewGroup)
        BY StormAssumption DEF NewGroup, Group, Cooling, Long
    <2>3. Found(g) = NewGroup
        BY <1>2 DEF Found, Exists
    <2> QED BY <1>1, <2>1, <2>2, <2>3, StormAssumption DEF FoundInv, LastKnown, NewGroup
<1>3. CASE group # NoGroup
    <2>1. group \in Group /\ Known(group, times)
        BY <1>3 DEF GroupInv
    <2>2. group.alertCount \in 1..MaxAlertsPerGroup /\ LastKnown(group, times)
        BY <2>1 DEF Known, Counted
    <2>3. CASE ~(group.suppressed /\ group.firstAlert > SuppressionWindow)
        <3>1. Found(g) = group
            BY <1>3, <2>3 DEF Found, Exists
        <3> QED BY <1>1, <2>1, <2>2, <3>1, StormAssumption DEF FoundInv
    <2>4. CASE group.suppressed /\ group.firstAlert > SuppressionWindow
        <3>1. Found(g) = fresh
            BY <1>3, <2>4 DEF Found, Exists
        <3>2. fresh \in Group
            <4>1. 0 \in 0..Long /\ 0 \in Nat /\ FALSE \in BOOLEAN
                BY StormAssumption DEF Long
            <4> QED BY <2>1, <4>1 DEF Group
        <3>3. /\ fresh.alertCount = 0 /\ fresh.firstAlert = 0 /\ fresh.suppressed = FALSE
              /\ fresh.lastSent = group.lastSent
            BY <2>1 DEF Group
        <3> HIDE DEF fresh
        <3>4. LastKnown(fresh, times) /\ ~Cooling(fresh)
            BY <2>1, <2>2, <2>4, <3>3 DEF Known, LastKnown, Cooling
        <3>5. Len(times) < MaxAlertsPerGroup
            <4>1. Len(times) < group.alertCount /\ Len(times) \in Nat
                BY <1>1, <2>1, <2>4, LenProperties DEF Known, Counted
            <4> QED BY <2>2, <4>1, StormAssumption
        <3> QED BY <1>1, <3>1, <3>2, <3>3, <3>4, <3>5 DEF FoundInv
    <2> QED BY <2>3, <2>4
<1> QED BY <1>2, <1>3

(* An alert that is sent is a cooldown after the last one.                 *)
LEMMA SendGroup ==
    ASSUME NEW group, NEW times, FoundInv(group, times),
           ~group.suppressed, ~Cooling(group), group.alertCount < MaxAlertsPerGroup,
           NEW next, next = [group EXCEPT !.alertCount = @ + 1, !.lastSent = 0]
    PROVE  GroupInv(next, Append(times, 0))
<1> DEFINE later == Append(times, 0)
<1>1. times \in Seq(0..SuppressionWindow) /\ Apart(times) /\ LastKnown(group, times)
    BY DEF FoundInv
<1>2. Len(times) \in Nat /\ \A i \in 1..Len(times) : times[i] \in 0..SuppressionWindow
    BY <1>1, LenProperties, ElementOfSeq
<1>3. /\ later \in Seq(0..SuppressionWindow) /\ Len(later) = Len(times) + 1
      /\ later[Len(later)] = 0 /\ \A i \in 1..Len(times) : later[i] = times[i]
    BY <1>1, <1>2, AppendProperties, StormAssumption
<1> HIDE DEF later
<1>4. group \in Group /\ group.alertCount \in Nat /\ group.lastSent \in 0..Long
      /\ group.firstAlert \in 0..Long
    BY DEF FoundInv, Group
<1>5. /\ next \in Group
      /\ next.alertCount = group.alertCount + 1 /\ next.lastSent = 0
      /\ next.firstAlert = group.firstAlert /\ next.suppressed = FALSE
    <2>1. 0 \in 0..Long /\ group.alertCount + 1 \in Nat /\ group.suppressed = FALSE
        BY <1>4, StormAssumption DEF Long, Group
    <2>2. next \in Group
        BY <1>4, <2>1 DEF Group
    <2>3. /\ next.alertCount = group.alertCount + 1 /\ next.lastSent = 0
          /\ next.firstAlert = group.firstAlert /\ next.suppressed = group.suppressed
        BY <1>4 DEF Group
    <2> QED BY <2>1, <2>2, <2>3
<1>6. next # NoGroup
    BY <1>5, NoGroupAssumption
<1>7. later # << >>
    BY <1>2, <1>3, EmptySeq
<1>8. Apart(later)
    <2> SUFFICES ASSUME NEW i \in 1..Len(later), NEW j \in 1..Len(later), i < j
                 PROVE  later[i] - later[j] >= CooldownPeriod
        BY DEF Apart
    <2>1. i \in 1..Len(times) /\ later[i] = times[i] /\ times[i] \in Nat
        BY <1>2, <1>3
    <2>2. CASE j \in 1..Len(times)
        <3>1. later[j] = times[j] /\ times[i] - times[j] >= CooldownPeriod
            BY <1>1, <1>3, <2>1, <2>2 DEF Apart
        <3> QED BY <2>1, <3>1
    <2>3. CASE j = Len(later)
        <3>1. times # << >> /\ group.lastSent = times[Len(times)]
            BY <1>1, <2>1, EmptySeq DEF LastKnown
        <3>2. times[Len(times)] >= CooldownPeriod
            BY <1>4, <3>1, StormAssumption DEF Cooling, Long
        <3>3. times[i] >= times[Len(times)]
            <4>1. Len(times) \in 1..Len(times)
                BY <1>2, <2>1
            <4>2. CASE i = Len(times)
                BY <2>1, <4>2
            <4>3. CASE i < Len(times)
                <5>1. times[i] - times[Len(times)] >= CooldownPeriod
                    BY <1>1, <2>1, <4>1, <4>3 DEF Apart
                <5> QED BY <1>2, <2>1, <4>1, <5>1, StormAssumption
            <4> QED BY <1>2, <2>1, <4>2, <4>3
        <3>4. Len(times) \in 1..Len(times)
            BY <1>2, <2>1
        <3> QED BY <1>2, <1>3, <2>1, <2>3, <3>2, <3>3, <3>4, StormAssumption
    <2> QED BY <1>2, <1>3, <2>2, <2>3
<1>9. LastKnown(next, later)
    BY <1>3, <1>5, <1>7 DEF LastKnown
<1>10. Counted(next, later)
    <2>1. next.alertCount \in 1..MaxAlertsPerGroup
        BY <1>4, <1>5, StormAssumption
    <2>2. CASE group.alertCount = 0
        <3>1. group.firstAlert = 0 /\ Len(times) < MaxAlertsPerGroup
            BY <2>2 DEF FoundInv
        <3>2. Before(next, later) = Len(times)
            BY <1>2, <1>3, <1>5, <2>2 DEF Before
        <3>3. later[Before(next, later) + 1] = next.firstAlert
            BY <1>3, <1>5, <3>1, <3>2
        <3>4. Before(next, later) \in 0..(MaxAlertsPerGroup - 1)
            BY <1>2, <3>1, <3>2, StormAssumption
        <3>5. ~(next.firstAlert > SuppressionWindow)
            BY <1>5, <3>1, StormAssumption
        <3> QED BY <2>1, <3>3, <3>4, <3>5 DEF Counted
    <2>3. CASE group.alertCount # 0
        <3>1. Counted(group, times)
            BY <2>3 DEF FoundInv, Known
        <3>2. Before(next, later) = Before(group, times)
            BY <1>2, <1>3, <1>4, <1>5 DEF Before
        <3>3. CASE group.firstAlert <= SuppressionWindow
            <4>1. /\ Before(group, times) \in 0..(MaxAlertsPerGroup - 1)
                  /\ times[Before(group, times) + 1] = group.firstAlert
                BY <3>1, <3>3 DEF Counted
            <4>2. Before(group, times) + 1 \in 1..Len(times)
                BY <1>2, <1>4, <2>3, <4>1, StormAssumption DEF Before
            <4>3. later[Before(next, later) + 1] = next.firstAlert
                BY <1>3, <1>5, <3>2, <4>1, <4>2
            <4>4. ~(next.firstAlert > SuppressionWindow)
                BY <1>4, <1>5, <3>3, StormAssumption DEF Long
            <4> QED BY <2>1, <3>2, <4>1, <4>3, <4>4 DEF Counted
        <3>4. CASE group.firstAlert > SuppressionWindow
            <4>1. Len(times) < group.alertCount
                BY <3>1, <3>4 DEF Counted
            <4>2. Len(later) < next.alertCount
                BY <1>2, <1>3, <1>4, <1>5, <4>1
            <4>3. ~(next.firstAlert <= SuppressionWindow)
                BY <1>4, <1>5, <3>4, StormAssumption DEF Long
            <4> QED BY <2>1, <4>2, <4>3 DEF Counted
        <3> QED BY <1>4, <3>3, <3>4, StormAssumption DEF Long
    <2> QED BY <2>2, <2>3
<1> QED BY <1>3, <1>5, <1>6, <1>8, <1>9, <1>10 DEF GroupInv, Known, later

(* Nothing is sent, and the count goes on.                                 *)
LEMMA QuietGroup ==
    ASSUME NEW group, NEW times, FoundInv(group, times), group.alertCount # 0
    PROVE  GroupInv(group, times)
BY NoGroupAssumption DEF FoundInv, GroupInv

(* A group that has sent the maximum is suppressed, but not while cooling. *)
LEMMA SuppressGroup ==
    ASSUME NEW group, NEW times, FoundInv(group, times), ~Cooling(group),
           group.alertCount >= MaxAlertsPerGroup,
           NEW next, next = [group EXCEPT !.suppressed = TRUE]
    PROVE  GroupInv(next, times)
<1>1. group \in Group /\ times \in Seq(0..SuppressionWindow) /\ Apart(times)
    BY DEF FoundInv
<1>2. group.alertCount # 0
    BY <1>1, StormAssumption DEF Group
<1>3. Known(group, times)
    BY <1>2 DEF FoundInv
<1>4. next \in Group
    BY <1>1 DEF Group
<1>5. /\ next.alertCount = group.alertCount /\ next.lastSent = group.lastSent
      /\ next.firstAlert = group.firstAlert
    BY <1>1 DEF Group
<1>6. Known(next, times)
    BY <1>3, <1>5 DEF Known, LastKnown, Counted, Before, Cooling
<1> QED BY <1>1, <1>4, <1>6, NoGroupAssumption DEF GroupInv

LEMMA OneGroup ==
    ASSUME IInv, NEW g \in Groups, NEW group, NEW times, GroupInv(group, times),
           alertGroups' = [alertGroups EXCEPT ![g] = group],
           sent' = [sent EXCEPT ![g] = times]
    PROVE  IInv'
<1>1. group \in Group \cup {NoGroup} /\ times \in Seq(0..SuppressionWindow)
    BY DEF GroupInv
<1>2. TypeOK'
    BY <1>1 DEF IInv, TypeOK
<1>3. \A h \in Groups : GroupInv(alertGroups'[h], sent'[h])
    BY DEF IInv, TypeOK
<1>4. Group' = Group /\ Long' = Long
    BY DEF Group, Long
<1> QED BY <1>2, <1>3 DEF IInv, GroupInv, Known, LastKnown, Counted, Before, Cooling, Apart

LEMMA ShouldSendAlertStep ==
    ASSUME IInv, NEW g \in Groups, ShouldSendAlert(g)
    PROVE  IInv'
<1>1. GroupInv(alertGroups[g], sent[g])
    BY DEF IInv
<1>2. FoundInv(Found(g), sent[g])
    BY <1>1, FoundGroup
<1>3. UNCHANGED sent => sent' = [sent EXCEPT ![g] = sent[g]]
    BY DEF IInv, TypeOK
<1>4. CASE Send(g)
    <2> DEFINE next == [Found(g) EXCEPT !.alertCount = @ + 1, !.lastSent = 0]
    <2>1. GroupInv(next, Append(sent[g], 0))
        BY <1>2, <1>4, SendGroup DEF Send
    <2>2. /\ alertGroups' = [alertGroups EXCEPT ![g] = next]
          /\ sent' = [sent EXCEPT ![g] = Append(sent[g], 0)]
        BY <1>4 DEF Send
    <2> QED BY <2>1, <2>2, OneGroup
<1>5. CASE Suppress(g)
    <2> DEFINE next == [Found(g) EXCEPT !.suppressed = TRUE]
    <2>1. GroupInv(next, sent[g])
        BY <1>2, <1>5, SuppressGroup DEF Suppress
    <2>2. alertGroups' = [alertGroups EXCEPT ![g] = next]
        BY <1>5 DEF Suppress
    <2>3. UNCHANGED sent
        BY <1>5 DEF Suppress
    <2> QED BY <1>3, <2>1, <2>2, <2>3, OneGroup
<1>6. CASE HoldBack(g)
    <2>1. Found(g).alertCount # 0
        BY <1>2, <1>6 DEF HoldBack, FoundInv
    <2>2. GroupInv(Found(g), sent[g])
        BY <1>2, <2>1, QuietGroup
    <2>3. alertGroups' = [alertGroups EXCEPT ![g] = Found(g)] /\ UNCHANGED sent
        BY <1>6 DEF HoldBack
    <2> QED BY <1>3, <2>2, <2>3, OneGroup
<1> QED BY <1>4, <1>5, <1>6 DEF ShouldSendAlert

LEMMA NothingSent ==
    GroupInv(NoGroup, << >>)
<1>1. << >> \in Seq(0..SuppressionWindow) /\ Len(<< >>) = 0
    BY EmptySeq
<1>2. Apart(<< >>)
    BY <1>1 DEF Apart
<1> QED BY <1>1, <1>2 DEF GroupInv

(* A group that is forgotten has sent nothing within the window.           *)
LEMMA CleanupStep ==
    ASSUME IInv, CleanupExpiredGroups
    PROVE  IInv'
<1>1. ASSUME NEW g \in Groups
      PROVE  GroupInv(alertGroups'[g], sent'[g])
    <2>1. GroupInv(alertGroups[g], sent[g]) /\ sent'[g] = sent[g]
        BY DEF IInv, CleanupExpiredGroups
    <2>2. CASE Exists(g) /\ alertGroups[g].lastSent > SuppressionWindow
        <3>1. alertGroups'[g] = NoGroup
            BY <2>2 DEF CleanupExpiredGroups
        <3>2. LastKnown(alertGroups[g], sent[g]) /\ sent[g] \in Seq(0..SuppressionWindow)
            BY <2>1, <2>2 DEF GroupInv, Known, Exists
        <3>3. sent[g] = << >>
            <4> SUFFICES ASSUME sent[g] # << >> PROVE FALSE
                OBVIOUS
            <4>1. Len(sent[g]) \in 1..Len(sent[g])
                BY <3>2, EmptySeq
            <4>2. sent[g][Len(sent[g])] \in 0..SuppressionWindow
                BY <3>2, <4>1, ElementOfSeq
            <4>3. alertGroups[g].lastSent = sent[g][Len(sent[g])]
                BY <3>2 DEF LastKnown
            <4> QED BY <2>2, <4>2, <4>3, StormAssumption
        <3> QED BY <2>1, <3>1, <3>3, NothingSent
    <2>3. CASE ~(Exists(g) /\ alertGroups[g].lastSent > SuppressionWindow)
        BY <2>1, <2>3 DEF CleanupExpiredGroups
    <2> QED BY <2>2, <2>3
<1>2. TypeOK'
    BY <1>1 DEF IInv, TypeOK, CleanupExpiredGroups, GroupInv
<1> QED BY <1>1, <1>2 DEF IInv, GroupInv, Known, LastKnown, Counted, Before, Cooling, Apart

LEMMA TickStep ==
    ASSUME IInv, Tick
    PROVE  IInv'
<1>1. ASSUME NEW g \in Groups
      PROVE  GroupInv(alertGroups'[g], sent'[g])
    <2>1. GroupInv(alertGroups[g], sent[g]) /\ sent'[g] = Remembered(Aged(sent[g]))
        BY DEF IInv, Tick
    <2>2. CASE Exists(g)
        <3>1. alertGroups'[g] =
                  [alertGroups[g] EXCEPT !.firstAlert = Older(@), !.lastSent = Older(@)]
            BY <2>2 DEF Tick
        <3>2. alertGroups[g] \in Group /\ alertGroups[g] # NoGroup
            BY <2>2 DEF IInv, TypeOK, Exists
        <3> QED BY <2>1, <3>1, <3>2, TickGroup
    <2>3. CASE ~Exists(g)
        <3>1. alertGroups'[g] = NoGroup /\ sent[g] = << >>
            BY <2>1, <2>3 DEF Tick, Exists, GroupInv
        <3>2. sent'[g] = << >>
            <4>1. sent[g] \in Seq(0..SuppressionWindow) /\ Apart(sent[g])
                BY <2>1 DEF GroupInv
            <4>2. sent'[g] \in Seq(0..SuppressionWindow) /\ Len(sent'[g]) = Len(sent[g])
                BY <2>1, <3>1, <4>1, TickTimes
            <4> QED BY <3>1, <4>2, EmptySeq
        <3> QED BY <3>1, <3>2, NothingSent
    <2> QED BY <2>2, <2>3
<1>2. TypeOK'
    BY <1>1 DEF IInv, TypeOK, Tick, GroupInv
<1> QED BY <1>1, <1>2 DEF IInv, GroupInv, Known, LastKnown, Counted, Before, Cooling, Apart

(* The state of every group is as the alerts it sent explain it            *)
(* (ShouldSendAlert, CleanupExpiredGroups, ResetGroup).                    *)
THEOREM Invariant == Spec => []IInv
<1>1. Init => IInv
    <2> SUFFICES ASSUME Init PROVE IInv
        OBVIOUS
    <2>1. << >> \in Seq(0..SuppressionWindow)
        BY EmptySeq
    <2> QED BY <2>1, NothingSent DEF Init, IInv, TypeOK
<1>2. IInv /\ [Next]_vars => IInv'
    <2> SUFFICES ASSUME IInv, [Next]_vars PROVE IInv'
        OBVIOUS
    <2>1. CASE UNCHANGED vars
        BY <2>1 DEF vars, IInv, TypeOK, GroupInv, Known, LastKnown, Counted, Before, Cooling, Apart
    <2>2. ASSUME NEW g \in Groups, ResetGroup(g)
          PROVE  IInv'
        BY <2>2, NothingSent, OneGroup DEF ResetGroup
    <2> QED BY <2>1, <2>2, ShouldSendAlertStep, CleanupStep, TickStep DEF Next
<1> QED BY <1>1, <1>2, PTL DEF Spec

(* The type of the groups, for every maximum, cooldown and window          *)
(* (storm_prevention.go alertGroup).                                       *)
THEOREM TypeCorrect == Spec => []TypeOK
<1>1. IInv => TypeOK
    BY DEF IInv
<1> QED BY <1>1, Invariant, PTL

(* The alerts of a group are a cooldown apart, whether it was suppressed,  *)
(* lifted or forgotten in between (ShouldSendAlert,                        *)
(* CleanupExpiredGroups).                                                  *)
THEOREM SendsAreApart == Spec => []CooldownBetweenSends
<1>1. IInv => CooldownBetweenSends
    <2> SUFFICES ASSUME IInv, NEW g \in Groups, NEW i \in DOMAIN sent[g], i > 1
                 PROVE  sent[g][i - 1] - sent[g][i] >= CooldownPeriod
        BY DEF CooldownBetweenSends
    <2>1. Apart(sent[g]) /\ sent[g] \in Seq(0..SuppressionWindow)
        BY DEF IInv, GroupInv
    <2>2. i \in 1..Len(sent[g]) /\ i - 1 \in 1..Len(sent[g]) /\ i - 1 < i
        BY <2>1, LenProperties
    <2> QED BY <2>1, <2>2 DEF Apart
<1> QED BY <1>1, Invariant, PTL

(* In a stretch as long as the suppression window, fewer than twice the    *)
(* maximum of alerts of a group are sent (ShouldSendAlert).                *)
THEOREM StormIsBounded == Spec => []StormBounded
<1>1. IInv => StormBounded
    <2> SUFFICES ASSUME IInv, NEW g \in Groups
                 PROVE  Len(sent[g]) < 2 * MaxAlertsPerGroup
        BY DEF StormBounded
    <2>1. GroupInv(alertGroups[g], sent[g])
        BY DEF IInv
    <2>2. Len(sent[g]) \in Nat
        BY <2>1, LenProperties DEF GroupInv
    <2>3. CASE alertGroups[g] = NoGroup
        BY <2>1, <2>3, EmptySeq, StormAssumption DEF GroupInv
    <2>4. CASE alertGroups[g] # NoGroup
        <3>1. Counted(alertGroups[g], sent[g]) /\ alertGroups[g] \in Group
            BY <2>1, <2>4 DEF GroupInv, Known
        <3>2. alertGroups[g].firstAlert \in 0..Long
            BY <3>1 DEF Group
        <3>3. CASE alertGroups[g].firstAlert <= SuppressionWindow
            BY <2>2, <3>1, <3>3, StormAssumption DEF Counted, Before
        <3>4. CASE alertGroups[g].firstAlert > SuppressionWindow
            BY <2>2, <3>1, <3>4, StormAssumption DEF Counted
        <3> QED BY <3>2, <3>3, <3>4, StormAssumption DEF Long
    <2> QED BY <2>3, <2>4
<1> QED BY <1>1, Invariant, PTL
=============================================================================

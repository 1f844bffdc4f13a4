---------------------------- MODULE RouterProofs -----------------------------
(***************************************************************************)
(* The router respects the cooldown, tries every channel and, until it     *)
(* comes to a channel without a time limit, holds its caller no longer     *)
(* than its retries take, for any rules, channels and times.               *)
(***************************************************************************)
EXTENDS Router, FiniteSetTheorems, WellFoundedInduction, TLAPS

-----------------------------------------------------------------------------
(* The first stop.  A set of numbers has a least one, and so has a set of  *)
(* pairs of them in the order of the stops.                                *)
LEMMA LessIsWellFounded ==
    \E R : IsWellFoundedOn(R, Nat) /\ \A m, n \in Nat : m < n => <<m, n>> \in R
<1> DEFINE R == OpToRel(<, Nat)
<1>1. IsWellFoundedOn(R, Nat)
    BY NatLessThanWellFounded
<1>2. \A m, n \in Nat : m < n => <<m, n>> \in R
    BY DEF OpToRel
<1> HIDE DEF R
<1> QED BY <1>1, <1>2

LEMMA LeastNumber ==
    ASSUME NEW S, S \subseteq Nat, S # {}
    PROVE  \E m \in S : \A n \in S : m <= n
<1>1. PICK R : IsWellFoundedOn(R, Nat) /\ \A m, n \in Nat : m < n => <<m, n>> \in R
    BY LessIsWellFounded
<1>2. ASSUME NEW N, IsWellFoundedOn(R, N), S \subseteq N
      PROVE  \E m \in S : \A n \in S : <<n, m>> \notin R
    BY ONLY <1>2, S # {}, WFMin, ZenonT(60)
<1>3. PICK m \in S : \A n \in S : <<n, m>> \notin R
    BY <1>1, <1>2
<1>4. \A n \in S : ~(n < m)
    BY <1>1, <1>3
<1> QED BY <1>3, <1>4

LEMMA FirstStop ==
    ASSUME NEW S, S \subseteq Nat \X Nat, S # {}
    PROVE  \E s \in S : \A t \in S : NotAfter(s, t)
<1>1. PICK i \in {s[1] : s \in S} : \A j \in {s[1] : s \in S} : i <= j
    <2>1. {s[1] : s \in S} \subseteq Nat /\ {s[1] : s \in S} # {}
        OBVIOUS
    <2> QED BY <2>1, LeastNumber
<1> DEFINE Row == {s \in S : s[1] = i}
<1>2. PICK c \in {s[2] : s \in Row} : \A d \in {s[2] : s \in Row} : c <= d
    <2>1. {s[2] : s \in Row} \subseteq Nat /\ {s[2] : s \in Row} # {}
        BY <1>1
    <2> QED BY <2>1, LeastNumber
<1>3. PICK s \in Row : s[2] = c
    BY <1>2
<1>4. ASSUME NEW t \in S
      PROVE  NotAfter(s, t)
    <2>1. s[1] = i /\ i <= t[1] /\ i \in Nat /\ t[1] \in Nat
        BY <1>1, <1>3
    <2>2. t[1] = i => s[2] <= t[2]
        BY <1>2, <1>3
    <2> QED BY <2>1, <2>2 DEF NotAfter
<1> QED BY <1>3, <1>4

-----------------------------------------------------------------------------
(* A plan is finite.                                                       *)
LEMMA PlanIsFinite ==
    ASSUME NEW alert
    PROVE  /\ Plan(alert) \subseteq Nat \X Nat /\ IsFiniteSet(Plan(alert))
           /\ Cardinality(Plan(alert)) \in Nat
<1> DEFINE Stretch(i) == {i} \X DOMAIN Rules[i].channels
           applied == Applied(FindMatchingRules(alert))
           default == DefaultChannels(alert.severity)
<1>1. ASSUME NEW i \in Nat, NEW n \in Nat
      PROVE  {i} \X (1..n) \subseteq Nat \X Nat /\ IsFiniteSet({i} \X (1..n))
    <2>1. IsFiniteSet(1..n)
        BY FS_Interval
    <2>2. IsFiniteSet({i})
        BY FS_Singleton
    <2> QED BY <2>1, <2>2, FS_Product
<1>2. applied \subseteq 1..Len(Rules) /\ IsFiniteSet(applied)
    <2>1. applied \subseteq 1..Len(Rules)
        BY RouterAssumption DEF Applied, FindMatchingRules
    <2>2. IsFiniteSet(1..Len(Rules))
        BY RouterAssumption, FS_Interval
    <2> QED BY <2>1, <2>2, FS_Subset
<1>3. ASSUME NEW i \in applied
      PROVE  Stretch(i) \subseteq Nat \X Nat /\ IsFiniteSet(Stretch(i))
    <2>1. i \in Nat /\ i \in DOMAIN Rules
        BY <1>2, RouterAssumption
    <2>2. PICK n \in Nat : DOMAIN Rules[i].channels = 1..n
        BY <2>1, RouterAssumption
    <2> QED BY <1>1, <2>1, <2>2
<1>4. Stops(alert) \subseteq Nat \X Nat /\ IsFiniteSet(Stops(alert))
    <2>1. CASE ByRule(alert)
        <3> DEFINE stretches == {Stretch(i) : i \in applied}
                   f == [i \in applied |-> Stretch(i)]
        <3>1. f \in Surjection(applied, stretches)
            BY DEF Surjection
        <3>2. Stops(alert) = UNION stretches
            BY <2>1 DEF Stops
        <3>3. \A s \in stretches : IsFiniteSet(s) /\ s \subseteq Nat \X Nat
            BY <1>3
        <3> HIDE DEF stretches, f
        <3>4. IsFiniteSet(stretches)
            BY <1>2, <3>1, FS_Surjection
        <3>5. IsFiniteSet(UNION stretches) /\ UNION stretches \subseteq Nat \X Nat
            BY <3>3, <3>4, FS_UNION
        <3> QED BY <3>2, <3>5
    <2>2. CASE ~ByRule(alert)
        <3>1. default = <<"pagerduty", "slack">> \/ default = <<"slack">>
            BY DEF DefaultChannels
        <3>2. \E n \in Nat : DOMAIN default = 1..n
            <4>1. DOMAIN <<"pagerduty", "slack">> = 1..2 /\ DOMAIN <<"slack">> = 1..1
                OBVIOUS
            <4> QED BY <3>1, <4>1
        <3> QED BY <1>1, <2>2, <3>2 DEF Stops
    <2> QED BY <2>1, <2>2
<1>5. Plan(alert) \subseteq Stops(alert)
    BY DEF Plan
<1> QED BY <1>4, <1>5, FS_Subset, FS_CardinalityType

-----------------------------------------------------------------------------
(* Types.                                                                  *)
LEMMA RouteFields ==
    ASSUME NEW r \in Routes
    PROVE  /\ r.alert \in Alerts /\ r.alert.key \in Keys
           /\ r.plan \in SUBSET (Nat \X Nat)
           /\ r.attempt \in 0..MaxRetries /\ r.attempt \in Nat /\ r.attempt <= MaxRetries
           /\ r.wait \in 0..RetryBackoff /\ r.wait \in Nat /\ r.wait <= RetryBackoff
           /\ r.busy \in 0..SendTimeout /\ r.busy \in Nat /\ r.busy <= SendTimeout
           /\ r.tried \subseteq Channels /\ r.held \in Nat
BY RouterAssumption DEF Routes

(* What a step makes of the route.                                         *)
Advancing(r, plan, tried) ==
    [r EXCEPT !.plan = plan, !.attempt = 0, !.busy = 0, !.tried = tried]

LEMMA AdvancingFields ==
    ASSUME NEW r \in Routes, NEW plan \in SUBSET (Nat \X Nat), NEW tried \in SUBSET Channels
    PROVE  LET n == Advancing(r, plan, tried)
           IN  /\ n \in Routes /\ n.alert = r.alert /\ n.plan = plan
               /\ n.attempt = 0 /\ n.wait = r.wait /\ n.busy = 0
               /\ n.tried = tried /\ n.held = r.held
<1> DEFINE n == Advancing(r, plan, tried)
<1>1. /\ n.alert = r.alert /\ n.plan = plan /\ n.attempt = 0
      /\ n.wait = r.wait /\ n.busy = 0
      /\ n.tried = tried /\ n.held = r.held
    BY DEF Advancing, Routes
<1>2. 0 \in 0..MaxRetries /\ 0 \in 0..SendTimeout
    BY RouterAssumption
<1>3. n \in Routes
    BY <1>2 DEF Advancing, Routes
<1> QED BY <1>1, <1>3

Retrying(r, attempt, tried) ==
    [r EXCEPT !.attempt = attempt, !.wait = RetryBackoff, !.busy = 0, !.tried = tried]

LEMMA RetryingFields ==
    ASSUME NEW r \in Routes, NEW attempt \in 0..MaxRetries, NEW tried \in SUBSET Channels
    PROVE  LET n == Retrying(r, attempt, tried)
           IN  /\ n \in Routes /\ n.alert = r.alert /\ n.plan = r.plan
               /\ n.attempt = attempt /\ n.wait = RetryBackoff /\ n.busy = 0
               /\ n.tried = tried /\ n.held = r.held
<1> DEFINE n == Retrying(r, attempt, tried)
<1>1. /\ n.alert = r.alert /\ n.plan = r.plan /\ n.attempt = attempt
      /\ n.wait = RetryBackoff /\ n.busy = 0
      /\ n.tried = tried /\ n.held = r.held
    BY DEF Retrying, Routes
<1>2. RetryBackoff \in 0..RetryBackoff /\ 0 \in 0..SendTimeout
    BY RouterAssumption
<1>3. n \in Routes
    BY <1>2 DEF Retrying, Routes
<1> QED BY <1>1, <1>3

Pausing(r, wait, held) == [r EXCEPT !.wait = wait, !.held = held]

LEMMA PausingFields ==
    ASSUME NEW r \in Routes, NEW wait \in 0..RetryBackoff, NEW held \in Nat
    PROVE  LET n == Pausing(r, wait, held)
           IN  /\ n \in Routes /\ n.alert = r.alert /\ n.plan = r.plan
               /\ n.attempt = r.attempt /\ n.wait = wait /\ n.busy = r.busy
               /\ n.tried = r.tried /\ n.held = held
<1> DEFINE n == Pausing(r, wait, held)
<1>1. /\ n.alert = r.alert /\ n.plan = r.plan /\ n.attempt = r.attempt
      /\ n.wait = wait /\ n.busy = r.busy
      /\ n.tried = r.tried /\ n.held = held
    BY DEF Pausing, Routes
<1>2. n \in Routes
    BY DEF Pausing, Routes
<1> QED BY <1>1, <1>2

Waiting(r, busy, held) == [r EXCEPT !.busy = busy, !.held = held]

LEMMA WaitingFields ==
    ASSUME NEW r \in Routes, NEW busy \in 0..SendTimeout, NEW held \in Nat
    PROVE  LET n == Waiting(r, busy, held)
           IN  /\ n \in Routes /\ n.alert = r.alert /\ n.plan = r.plan
               /\ n.attempt = r.attempt /\ n.wait = r.wait /\ n.busy = busy
               /\ n.tried = r.tried /\ n.held = held
<1> DEFINE n == Waiting(r, busy, held)
<1>1. /\ n.alert = r.alert /\ n.plan = r.plan /\ n.attempt = r.attempt
      /\ n.wait = r.wait /\ n.busy = busy
      /\ n.tried = r.tried /\ n.held = held
    BY DEF Waiting, Routes
<1>2. n \in Routes
    BY DEF Waiting, Routes
<1> QED BY <1>1, <1>2

(* Each action, as what it makes of the route.                             *)
Typed == route \in Routes \cup {NoRoute}

LEMMA FirstIsStop ==
    ASSUME NEW S, S \subseteq Nat \X Nat, S # {}
    PROVE  First(S) \in S
BY FirstStop DEF First

LEMMA RouteDoes ==
    ASSUME NEW alert \in Alerts, Route(alert)
    PROVE  /\ route' \in Routes /\ route'.alert = alert /\ route'.plan = Plan(alert)
           /\ route'.attempt = 0 /\ route'.wait = 0 /\ route'.busy = 0
           /\ route'.tried = {} /\ route'.held = 0
<1>1. 0 \in 0..MaxRetries /\ 0 \in 0..RetryBackoff /\ 0 \in 0..SendTimeout
    BY RouterAssumption
<1>2. Plan(alert) \in SUBSET (Nat \X Nat)
    BY PlanIsFinite
<1> HIDE DEF Plan
<1> QED BY <1>1, <1>2 DEF Route, Routes

(* A stop is done with: its channel took the alert, or was given up.       *)
Moves(tried) ==
    /\ route' \in Routes /\ route'.alert = route.alert
    /\ route'.plan = route.plan \ {Current}
    /\ route'.attempt = 0 /\ route'.wait = 0 /\ route'.busy = 0
    /\ route'.tried = tried /\ route'.held = route.held

LEMMA NextChannelMoves ==
    ASSUME route \in Routes, route.wait = 0, NEW tried \in SUBSET Channels, NextChannel(tried)
    PROVE  Moves(tried)
<1>1. route' = Advancing(route, route.plan \ {Current}, tried)
    BY DEF NextChannel, Advancing
<1>2. route.plan \ {Current} \in SUBSET (Nat \X Nat)
    BY RouteFields
<1> QED BY <1>1, <1>2, AdvancingFields DEF Moves

LEMMA SendFailsDoes ==
    ASSUME route \in Routes, SendFails, Channel(route.alert, Current) \in Channels
    PROVE  /\ route' \in Routes /\ route'.alert = route.alert /\ route'.plan = route.plan
           /\ route'.attempt = route.attempt + 1 /\ route'.wait = RetryBackoff /\ route'.busy = 0
           /\ route'.tried = route.tried \cup {Channel(route.alert, Current)}
           /\ route'.held = route.held
<1> DEFINE attempt == route.attempt + 1
           tried == route.tried \cup {Channel(route.alert, Current)}
<1>1. attempt \in 0..MaxRetries /\ tried \in SUBSET Channels
    BY RouteFields, RouterAssumption DEF SendFails, Sending
<1>2. route' = Retrying(route, attempt, tried)
    BY DEF SendFails, Retrying
<1> HIDE DEF attempt, tried
<1>3. /\ route' \in Routes /\ route'.alert = route.alert /\ route'.plan = route.plan
      /\ route'.attempt = attempt /\ route'.wait = RetryBackoff /\ route'.busy = 0
      /\ route'.tried = tried /\ route'.held = route.held
    BY <1>1, <1>2, RetryingFields
<1> QED BY <1>3 DEF attempt, tried

LEMMA TickDoes ==
    ASSUME route \in Routes, Tick
    PROVE  \/ route = NoRoute /\ route' = NoRoute
           \/ /\ route' \in Routes /\ route'.alert = route.alert /\ route'.plan = route.plan
              /\ route'.attempt = route.attempt /\ route'.tried = route.tried
              /\ route'.held \in Nat /\ route'.held <= route.held + 1
              /\ \/ /\ route.wait > 0
                    /\ route'.wait = route.wait - 1 /\ route'.busy = route.busy
                 \/ /\ Sending /\ route'.wait = route.wait
                    /\ \/ route.busy < SendTimeout /\ route'.busy = route.busy + 1
                       \/ Channel(route.alert, Current) \in Untimed
<1> DEFINE held == Longer(route.held)
<1>1. held \in Nat /\ held <= route.held + 1
    BY RouteFields DEF Longer
<1> HIDE DEF held
<1>2. CASE route = NoRoute /\ UNCHANGED route
    BY <1>2
<1>3. CASE /\ route # NoRoute /\ route.wait > 0
           /\ route' = [route EXCEPT !.wait = @ - 1, !.held = Longer(@)]
    <2> DEFINE wait == route.wait - 1
    <2>1. wait \in 0..RetryBackoff
        BY <1>3, RouteFields, RouterAssumption
    <2>2. route' = Pausing(route, wait, held)
        BY <1>3 DEF Pausing, held
    <2> HIDE DEF wait
    <2>3. /\ route' \in Routes /\ route'.alert = route.alert /\ route'.plan = route.plan
          /\ route'.attempt = route.attempt /\ route'.wait = wait /\ route'.busy = route.busy
          /\ route'.tried = route.tried /\ route'.held = held
        BY <1>1, <2>1, <2>2, PausingFields
    <2> QED BY <1>1, <1>3, <2>3 DEF wait
<1>4. CASE /\ Sending /\ Unfinished(route.busy)
           /\ route' = [route EXCEPT !.busy = Busier(@), !.held = Longer(@)]
    <2> DEFINE busy == Busier(route.busy)
    <2>1. /\ busy \in 0..SendTimeout
          /\ \/ route.busy < SendTimeout /\ busy = route.busy + 1
             \/ Channel(route.alert, Current) \in Untimed
        BY <1>4, RouteFields, RouterAssumption DEF Busier, Unfinished
    <2>2. route' = Waiting(route, busy, held)
        BY <1>4 DEF Waiting, held
    <2> HIDE DEF busy
    <2>3. /\ route' \in Routes /\ route'.alert = route.alert /\ route'.plan = route.plan
          /\ route'.attempt = route.attempt /\ route'.wait = route.wait /\ route'.busy = busy
          /\ route'.tried = route.tried /\ route'.held = held
        BY <1>1, <2>1, <2>2, WaitingFields
    <2> QED BY <1>1, <1>4, <2>1, <2>3
<1> QED BY <1>2, <1>3, <1>4 DEF Tick

-----------------------------------------------------------------------------
(* How far a route has got.                                                *)
OnTheWay ==
    route # NoRoute =>
        /\ route.plan \subseteq Plan(route.alert)
        /\ route.attempt > 0 =>
               route.plan # {} /\ Channel(route.alert, Current) \in route.tried
        /\ route.wait > 0 => route.attempt > 0
        /\ route.busy > 0 => Sending

PlanChannels(alert) == {Channel(alert, s) : s \in Plan(alert)}

(* The channels of the stops that are done with, and no others than those  *)
(* of the plan, have been tried.                                           *)
Tried ==
    route # NoRoute =>
        /\ route.tried \subseteq PlanChannels(route.alert)
        /\ MaxRetries > 0 =>
               \A s \in Plan(route.alert) \ route.plan : Channel(route.alert, s) \in route.tried

(* The longest one attempt takes, and all attempts at a stop.              *)
AttemptTime == SendTimeout + RetryBackoff

StopTime == MaxRetries * AttemptTime

(* The time is what the stops that are done with and the attempts made at  *)
(* the current one take at most, less the rest of the pause, where none of *)
(* the channels reached is without a time limit.                           *)
Charged ==
    route # NoRoute /\ Timed =>
        route.held + route.wait + Cardinality(route.plan) * StopTime
            <= Cardinality(Plan(route.alert)) * StopTime
                 + route.attempt * AttemptTime + route.busy

(* What is left of a cooldown has passed in silence, but for the alert     *)
(* whose notifications are being sent.                                     *)
Cooled ==
    \A k \in Keys :
        \/ cooldown[k] + quiet[k] >= DefaultCooldown
        \/ route # NoRoute /\ ByRule(route.alert) /\ route.alert.key = k

RouteInv == TypeOK /\ OnTheWay /\ Tried /\ Charged /\ Cooled

(* What is true of a stop that is dealt with.                              *)
LEMMA CurrentStop ==
    ASSUME route \in Routes, OnTheWay, route # NoRoute, route.plan # {}
    PROVE  /\ Current \in route.plan /\ Current \in Plan(route.alert)
           /\ Channel(route.alert, Current) \in Channels
           /\ Channel(route.alert, Current) \in PlanChannels(route.alert)
<1>1. Current \in route.plan
    BY RouteFields, FirstIsStop DEF Current
<1>2. Current \in Plan(route.alert)
    BY <1>1 DEF OnTheWay
<1> QED BY <1>1, <1>2 DEF Plan, PlanChannels

(* The stops that have been reached stay so.                               *)
LEMMA StaysReached ==
    ASSUME route'.alert = route.alert,
           route'.plan = route.plan \/ route'.plan = route.plan \ {Current}, Timed'
    PROVE  Timed
<1> SUFFICES ASSUME NEW s \in Reached
             PROVE  Channel(route.alert, s) \notin Untimed
    BY DEF Timed
<1>1. s \in Plan(route'.alert) /\ (s \in route.plan => s = Current)
    BY DEF Reached
<1>2. s \in route'.plan => s = Current'
    BY <1>1 DEF Current
<1>3. s \in Reached'
    BY <1>1, <1>2 DEF Reached
<1>4. Channel(route'.alert, s) \notin Untimed
    BY <1>3 DEF Timed
<1> QED BY <1>4

(* While it is being sent to, the current channel is among them.           *)
LEMMA CurrentIsReached ==
    ASSUME route \in Routes, OnTheWay, Sending, Timed
    PROVE  Channel(route.alert, Current) \notin Untimed
BY CurrentStop DEF Timed, Reached, Sending

(* The clock keeps the sum of a cooldown and the silence.                  *)
LEMMA TimePasses ==
    ASSUME NEW c \in 0..DefaultCooldown, NEW q \in 0..DefaultCooldown
    PROVE  /\ Less(c) \in 0..DefaultCooldown /\ More(q) \in 0..DefaultCooldown
           /\ c + q >= DefaultCooldown => Less(c) + More(q) >= DefaultCooldown
BY RouterAssumption DEF Less, More

LEMMA SentSilence ==
    ASSUME TypeOK, route \in Routes, Sent, UNCHANGED cooldown
    PROVE  /\ quiet' \in [Keys -> 0..DefaultCooldown]
           /\ \A k \in Keys : \/ quiet'[k] = quiet[k]
                              \/ ByRule(route.alert) /\ route.alert.key = k
<1>1. route.alert.key \in Keys /\ 0 \in 0..DefaultCooldown
    BY RouteFields, RouterAssumption
<1> QED BY <1>1 DEF Sent, TypeOK

-----------------------------------------------------------------------------
(* The arithmetic of the time that is charged.                             *)
LEMMA Multiples ==
    ASSUME NEW n \in Nat, NEW x \in Nat
    PROVE  n * x \in Nat /\ (n + 1) * x = n * x + x
OBVIOUS

LEMMA TimesTyped ==
    /\ AttemptTime \in Nat /\ StopTime \in Nat
    /\ \A n \in 0..MaxRetries : n * AttemptTime \in Nat
    /\ \A n \in 0..MaxRetries : n < MaxRetries =>
           /\ (n + 1) * AttemptTime = n * AttemptTime + AttemptTime
           /\ n * AttemptTime + AttemptTime <= StopTime
<1>1. AttemptTime \in Nat
    BY RouterAssumption DEF AttemptTime
<1>2. StopTime \in Nat
    BY <1>1, RouterAssumption, Multiples DEF StopTime
<1>3. ASSUME NEW n \in 0..MaxRetries
      PROVE  n * AttemptTime \in Nat
    BY <1>1, RouterAssumption, Multiples
<1>4. ASSUME NEW n \in 0..MaxRetries, n < MaxRetries
      PROVE  /\ (n + 1) * AttemptTime = n * AttemptTime + AttemptTime
             /\ n * AttemptTime + AttemptTime <= StopTime
    <2>1. n \in Nat /\ MaxRetries - (n + 1) \in Nat
        BY <1>4, RouterAssumption
    <2>2. (n + 1) * AttemptTime = n * AttemptTime + AttemptTime
        BY <1>1, <2>1, Multiples
    <2>3. MaxRetries * AttemptTime
              = (n + 1) * AttemptTime + (MaxRetries - (n + 1)) * AttemptTime
        BY <1>1, <2>1, RouterAssumption
    <2>4. (MaxRetries - (n + 1)) * AttemptTime \in Nat /\ (n + 1) * AttemptTime \in Nat
        BY <1>1, <2>1, Multiples
    <2> QED BY <2>2, <2>3, <2>4 DEF StopTime
<1> QED BY <1>1, <1>2, <1>3, <1>4

-----------------------------------------------------------------------------
(* The steps.                                                              *)
LEMMA RouteStep ==
    ASSUME RouteInv, NEW alert \in Alerts, Route(alert)
    PROVE  RouteInv'
<1>1. /\ route' \in Routes /\ route'.alert = alert /\ route'.plan = Plan(alert)
      /\ route'.attempt = 0 /\ route'.wait = 0 /\ route'.busy = 0
      /\ route'.tried = {} /\ route'.held = 0
    BY RouteDoes
<1>2. UNCHANGED <<cooldown, quiet>> /\ route = NoRoute
    BY DEF Route
<1>3. TypeOK'
    BY <1>1, <1>2 DEF TypeOK, RouteInv
<1>4. OnTheWay' /\ Tried'
    BY <1>1 DEF OnTheWay, Tried
<1>5. Charged'
    <2>1. Cardinality(Plan(alert)) * StopTime \in Nat
        BY PlanIsFinite, TimesTyped, Multiples
    <2>2. 0 * AttemptTime = 0
        BY TimesTyped
    <2> HIDE DEF Plan
    <2> QED BY <1>1, <2>1, <2>2 DEF Charged
<1>6. Cooled'
    BY <1>2 DEF RouteInv, Cooled
<1> QED BY <1>3, <1>4, <1>5, <1>6 DEF RouteInv

(* A stop whose channel has been tried is done with; it took no longer     *)
(* than the attempts at it.                                                *)
LEMMA AdvanceStep ==
    ASSUME RouteInv, route \in Routes, route # NoRoute, route.plan # {},
           NEW tried, Moves(tried), route.tried \subseteq tried,
           tried \subseteq route.tried \cup {Channel(route.alert, Current)},
           MaxRetries > 0 => Channel(route.alert, Current) \in tried,
           route.attempt * AttemptTime + route.busy <= StopTime
    PROVE  OnTheWay' /\ Tried' /\ Charged'
<1>1. /\ route' \in Routes /\ route'.alert = route.alert
      /\ route'.plan = route.plan \ {Current}
      /\ route'.attempt = 0 /\ route'.wait = 0 /\ route'.busy = 0
      /\ route'.tried = tried /\ route'.held = route.held
    BY DEF Moves
<1>2. /\ OnTheWay /\ Tried /\ Charged
      /\ Current \in route.plan /\ Current \in Plan(route.alert)
      /\ Channel(route.alert, Current) \in PlanChannels(route.alert)
      /\ route.plan \subseteq Plan(route.alert)
    BY CurrentStop DEF RouteInv, OnTheWay
<1>3. OnTheWay'
    BY <1>1, <1>2 DEF OnTheWay
<1>4. Tried'
    BY <1>1, <1>2 DEF Tried
<1>5. ASSUME Timed' PROVE Charged'
    <2> DEFINE P == Cardinality(Plan(route.alert))
               p == Cardinality(route.plan)
               charge == route.attempt * AttemptTime
    <2>1. IsFiniteSet(Plan(route.alert)) /\ P \in Nat
        BY PlanIsFinite
    <2>2. IsFiniteSet(route.plan) /\ p \in Nat
        BY <1>2, <2>1, FS_Subset, FS_CardinalityType
    <2>3. Cardinality(route'.plan) = p - 1 /\ p - 1 \in Nat
        <3>1. Cardinality(route.plan \ {Current}) = p - 1 /\ IsFiniteSet(route.plan \ {Current})
            BY <1>2, <2>2, FS_RemoveElement
        <3> QED BY <1>1, <3>1, FS_CardinalityType
    <2>4. P * StopTime \in Nat /\ p * StopTime = (p - 1) * StopTime + StopTime
          /\ (p - 1) * StopTime \in Nat
        <3>1. (p - 1) + 1 = p
            BY <2>2
        <3> QED BY <2>1, <2>3, <3>1, TimesTyped, Multiples
    <2>5. /\ route.held \in Nat /\ route.wait \in Nat /\ route.busy \in Nat
          /\ charge \in Nat /\ StopTime \in Nat
        BY RouteFields, TimesTyped
    <2>6. route.held + route.wait + p * StopTime <= P * StopTime + charge + route.busy
        BY <1>1, <1>2, <1>5, StaysReached DEF Charged
    <2>7. 0 * AttemptTime = 0
        BY TimesTyped
    <2>8. charge + route.busy <= StopTime
        OBVIOUS
    <2> DEFINE full == P * StopTime
               rest == (p - 1) * StopTime
    <2>9. route.held + rest <= full
        <3>1. full \in Nat /\ rest \in Nat
            BY <2>4
        <3>2. route.held + route.wait + (rest + StopTime) <= full + charge + route.busy
            <4>1. p * StopTime = rest + StopTime
                BY <2>4
            <4>2. route.held + route.wait + p * StopTime <= full + charge + route.busy
                BY <2>6
            <4> HIDE DEF full, rest, charge, p
            <4> QED BY <4>1, <4>2
        <3> HIDE DEF full, rest, charge
        <3> QED BY <2>5, <2>8, <3>1, <3>2
    <2>10. Plan(route'.alert) = Plan(route.alert)
        BY <1>1
    <2>11. route'.held + route'.wait + Cardinality(route'.plan) * StopTime
              <= Cardinality(Plan(route'.alert)) * StopTime
                   + route'.attempt * AttemptTime + route'.busy
        BY <1>1, <2>3, <2>4, <2>5, <2>7, <2>9, <2>10
    <2> QED BY <2>11 DEF Charged, StopTime, AttemptTime
<1>6. Charged'
    BY <1>5 DEF Charged
<1> QED BY <1>3, <1>4, <1>6

(* What has been sent is known to be sent.                                 *)
LEMMA CooledWhenSent ==
    ASSUME RouteInv, route \in Routes, route # NoRoute, Sent \/ UNCHANGED quiet,
           UNCHANGED cooldown, route' \in Routes, route'.alert = route.alert
    PROVE  TypeOK' /\ Cooled'
<1>1. /\ quiet' \in [Keys -> 0..DefaultCooldown]
      /\ \A k \in Keys : \/ quiet'[k] = quiet[k]
                         \/ ByRule(route.alert) /\ route.alert.key = k
    BY SentSilence DEF RouteInv, TypeOK
<1>2. route' # NoRoute
    BY NoRouteAssumption
<1>3. TypeOK'
    BY <1>1 DEF RouteInv, TypeOK
<1>4. Cooled'
    <2> SUFFICES ASSUME NEW k \in Keys
                 PROVE  \/ cooldown'[k] + quiet'[k] >= DefaultCooldown
                        \/ ByRule(route.alert) /\ route.alert.key = k
        BY <1>2 DEF Cooled, ByRule, FindMatchingRules
    <2> QED BY <1>1 DEF RouteInv, Cooled
<1> QED BY <1>3, <1>4

LEMMA SendSucceedsStep == RouteInv /\ SendSucceeds => RouteInv'
<1> SUFFICES ASSUME RouteInv, SendSucceeds PROVE RouteInv'
    OBVIOUS
<1> DEFINE tried == route.tried \cup {Channel(route.alert, Current)}
<1>1. /\ route \in Routes /\ route # NoRoute /\ route.plan # {} /\ route.wait = 0
      /\ route.attempt < MaxRetries /\ NextChannel(tried) /\ Sent /\ UNCHANGED cooldown
    BY DEF SendSucceeds, Sending, RouteInv, TypeOK
<1>2. tried \in SUBSET Channels
    BY <1>1, CurrentStop, RouteFields DEF RouteInv
<1>3. Moves(tried)
    BY <1>1, <1>2, NextChannelMoves
<1>4. route.attempt * AttemptTime + route.busy <= StopTime
    <2>1. /\ route.attempt \in 0..MaxRetries /\ route.busy \in Nat
          /\ route.busy <= SendTimeout
        BY <1>1, RouteFields
    <2>2. /\ route.attempt * AttemptTime \in Nat /\ StopTime \in Nat
          /\ route.attempt * AttemptTime + AttemptTime <= StopTime
        BY <1>1, <2>1, TimesTyped
    <2>3. route.busy <= AttemptTime /\ AttemptTime \in Nat
        BY <2>1, RouterAssumption DEF AttemptTime
    <2> DEFINE charge == route.attempt * AttemptTime
    <2>4. charge \in Nat /\ charge + AttemptTime <= StopTime
        BY <2>2
    <2> HIDE DEF charge
    <2>5. charge + route.busy <= StopTime
        BY <2>1, <2>2, <2>3, <2>4
    <2> QED BY <2>5 DEF charge
<1>5. OnTheWay' /\ Tried' /\ Charged'
    BY <1>1, <1>3, <1>4, AdvanceStep
<1>6. TypeOK' /\ Cooled'
    BY <1>1, <1>3, CooledWhenSent DEF Moves
<1> QED BY <1>5, <1>6 DEF RouteInv

LEMMA GiveUpStep == RouteInv /\ GiveUp => RouteInv'
<1> SUFFICES ASSUME RouteInv, GiveUp PROVE RouteInv'
    OBVIOUS
<1>1. /\ route \in Routes /\ route # NoRoute /\ route.plan # {} /\ route.wait = 0
      /\ route.attempt = MaxRetries /\ NextChannel(route.tried)
      /\ UNCHANGED <<cooldown, quiet>>
    BY DEF GiveUp, RouteInv, TypeOK
<1>2. route.tried \in SUBSET Channels
    BY <1>1, RouteFields
<1>3. Moves(route.tried)
    BY <1>1, <1>2, NextChannelMoves
<1>4. MaxRetries > 0 => Channel(route.alert, Current) \in route.tried
    BY <1>1 DEF RouteInv, OnTheWay
<1>5. route.attempt * AttemptTime + route.busy <= StopTime
    <2>1. route.busy = 0
        BY <1>1, RouteFields, RouterAssumption DEF RouteInv, OnTheWay, Sending
    <2>2. route.attempt * AttemptTime = StopTime /\ StopTime \in Nat
        BY <1>1, TimesTyped DEF StopTime
    <2> QED BY <2>1, <2>2
<1>6. OnTheWay' /\ Tried' /\ Charged'
    BY <1>1, <1>3, <1>4, <1>5, AdvanceStep
<1>7. TypeOK' /\ Cooled'
    BY <1>1, <1>3, CooledWhenSent DEF Moves
<1> QED BY <1>6, <1>7 DEF RouteInv

LEMMA SendFailsStep == RouteInv /\ SendFails => RouteInv'
<1> SUFFICES ASSUME RouteInv, SendFails PROVE RouteInv'
    OBVIOUS
<1>1. /\ route \in Routes /\ route # NoRoute /\ route.plan # {} /\ route.wait = 0
      /\ route.attempt < MaxRetries /\ Sent /\ UNCHANGED cooldown
    BY DEF SendFails, Sending, RouteInv, TypeOK
<1>2. /\ Channel(route.alert, Current) \in Channels
      /\ Channel(route.alert, Current) \in PlanChannels(route.alert)
    BY <1>1, CurrentStop DEF RouteInv
<1>3. /\ route' \in Routes /\ route'.alert = route.alert /\ route'.plan = route.plan
      /\ route'.attempt = route.attempt + 1 /\ route'.wait = RetryBackoff /\ route'.busy = 0
      /\ route'.tried = route.tried \cup {Channel(route.alert, Current)}
      /\ route'.held = route.held
    BY <1>1, <1>2, SendFailsDoes
<1>4. OnTheWay'
    <2>1. Current' = Current
        BY <1>3 DEF Current
    <2>2. /\ route'.plan # {} /\ route'.plan \subseteq Plan(route'.alert)
          /\ Channel(route'.alert, Current') \in route'.tried
          /\ route'.attempt > 0 /\ ~(route'.busy > 0)
        BY <1>1, <1>3, <2>1, RouteFields DEF RouteInv, OnTheWay
    <2> QED BY <2>2 DEF OnTheWay
<1>5. Tried'
    BY <1>1, <1>2, <1>3 DEF RouteInv, Tried
<1>6. ASSUME Timed' PROVE Charged'
    <2> DEFINE full == Cardinality(Plan(route.alert)) * StopTime
               rest == Cardinality(route.plan) * StopTime
               charge == route.attempt * AttemptTime
    <2>1. route.held + route.wait + rest <= full + charge + route.busy
        BY <1>1, <1>3, <1>6, StaysReached DEF RouteInv, Charged
    <2>2. full \in Nat /\ rest \in Nat
        <3>1. IsFiniteSet(route.plan)
            BY <1>1, PlanIsFinite, FS_Subset DEF RouteInv, OnTheWay
        <3> QED BY <3>1, PlanIsFinite, FS_CardinalityType, TimesTyped, Multiples
    <2>3. /\ charge \in Nat
          /\ (route.attempt + 1) * AttemptTime = charge + AttemptTime
        BY <1>1, RouteFields, TimesTyped
    <2>4. /\ route.held \in Nat /\ route.busy \in Nat /\ route.busy <= SendTimeout
          /\ AttemptTime = SendTimeout + RetryBackoff
        BY <1>1, RouteFields DEF AttemptTime
    <2> HIDE DEF full, rest, charge
    <2>5. route.held + RetryBackoff + rest <= full + (charge + AttemptTime) + 0
        BY <1>1, <2>1, <2>2, <2>3, <2>4, RouterAssumption
    <2>6. route'.held + route'.wait + Cardinality(route'.plan) * StopTime
              <= Cardinality(Plan(route'.alert)) * StopTime
                   + route'.attempt * AttemptTime + route'.busy
        BY <1>3, <2>3, <2>5 DEF full, rest
    <2> QED BY <2>6 DEF Charged, StopTime, AttemptTime
<1>7. Charged'
    BY <1>6 DEF Charged
<1>8. TypeOK' /\ Cooled'
    BY <1>1, <1>3, CooledWhenSent
<1> QED BY <1>4, <1>5, <1>7, <1>8 DEF RouteInv

LEMMA ReturnStep == RouteInv /\ Return => RouteInv'
<1> SUFFICES ASSUME RouteInv, Return PROVE RouteInv'
    OBVIOUS
<1>1. /\ route \in Routes /\ route' = NoRoute /\ UNCHANGED quiet
      /\ cooldown' = IF ByRule(route.alert)
                       THEN [cooldown EXCEPT ![route.alert.key] = DefaultCooldown]
                       ELSE cooldown
    BY DEF Return, RouteInv, TypeOK
<1>2. OnTheWay' /\ Tried' /\ Charged'
    BY <1>1 DEF OnTheWay, Tried, Charged
<1>3. /\ cooldown \in [Keys -> 0..DefaultCooldown] /\ quiet \in [Keys -> 0..DefaultCooldown]
      /\ route.alert.key \in Keys /\ DefaultCooldown \in 0..DefaultCooldown
    BY <1>1, RouteFields, RouterAssumption DEF RouteInv, TypeOK
<1>4. cooldown' \in [Keys -> 0..DefaultCooldown]
    BY <1>1, <1>3
<1>5. ASSUME NEW k \in Keys
      PROVE  cooldown'[k] + quiet'[k] >= DefaultCooldown
    <2>1. CASE ByRule(route.alert) /\ route.alert.key = k
        <3>1. cooldown'[k] = DefaultCooldown /\ quiet'[k] = quiet[k] /\ quiet[k] \in Nat
            BY <1>1, <1>3, <2>1
        <3> QED BY <3>1, RouterAssumption
    <2>2. CASE ~(ByRule(route.alert) /\ route.alert.key = k)
        <3>1. cooldown'[k] = cooldown[k] /\ quiet'[k] = quiet[k]
            BY <1>1, <1>3, <2>2
        <3> QED BY <2>2, <3>1 DEF RouteInv, Cooled
    <2> QED BY <2>1, <2>2
<1>6. TypeOK' /\ Cooled'
    BY <1>1, <1>3, <1>4, <1>5 DEF TypeOK, Cooled
<1> QED BY <1>2, <1>6 DEF RouteInv

LEMMA TickStep == RouteInv /\ Tick => RouteInv'
<1> SUFFICES ASSUME RouteInv, Tick PROVE RouteInv'
    OBVIOUS
<1>1. /\ cooldown \in [Keys -> 0..DefaultCooldown] /\ quiet \in [Keys -> 0..DefaultCooldown]
      /\ cooldown' = [k \in Keys |-> Less(cooldown[k])]
      /\ quiet' = [k \in Keys |-> More(quiet[k])]
    BY DEF Tick, RouteInv, TypeOK
<1>2. /\ cooldown' \in [Keys -> 0..DefaultCooldown] /\ quiet' \in [Keys -> 0..DefaultCooldown]
      /\ \A k \in Keys : cooldown[k] + quiet[k] >= DefaultCooldown =>
                            cooldown'[k] + quiet'[k] >= DefaultCooldown
    <2>1. ASSUME NEW k \in Keys
          PROVE  /\ Less(cooldown[k]) \in 0..DefaultCooldown
                 /\ More(quiet[k]) \in 0..DefaultCooldown
                 /\ cooldown[k] + quiet[k] >= DefaultCooldown =>
                        Less(cooldown[k]) + More(quiet[k]) >= DefaultCooldown
        <3>1. cooldown[k] \in 0..DefaultCooldown /\ quiet[k] \in 0..DefaultCooldown
            BY <1>1
        <3> QED BY <3>1, TimePasses
    <2> HIDE DEF Less, More
    <2> QED BY <1>1, <2>1
<1>3. CASE route = NoRoute
    <2>1. route' = NoRoute
        BY <1>3 DEF Tick, Sending
    <2>2. TypeOK'
        BY <1>2, <2>1 DEF TypeOK
    <2>3. OnTheWay' /\ Tried' /\ Charged'
        BY <2>1 DEF OnTheWay, Tried, Charged
    <2>4. Cooled'
        BY <1>2, <1>3 DEF RouteInv, Cooled
    <2> QED BY <2>2, <2>3, <2>4 DEF RouteInv
<1>4. CASE route # NoRoute
    <2>1. /\ route \in Routes /\ route' \in Routes /\ route'.alert = route.alert
          /\ route'.plan = route.plan /\ route'.attempt = route.attempt
          /\ route'.tried = route.tried /\ route'.held \in Nat /\ route'.held <= route.held + 1
          /\ \/ /\ route.wait > 0
                /\ route'.wait = route.wait - 1 /\ route'.busy = route.busy
             \/ /\ Sending /\ route'.wait = route.wait
                /\ \/ route.busy < SendTimeout /\ route'.busy = route.busy + 1
                   \/ Channel(route.alert, Current) \in Untimed
        <3>1. route \in Routes
            BY <1>4 DEF RouteInv, TypeOK
        <3> QED BY <1>4, <3>1, TickDoes
    <2>2. route' # NoRoute
        BY <2>1, NoRouteAssumption
    <2>3. TypeOK'
        BY <1>2, <2>1 DEF TypeOK
    <2>4. OnTheWay'
        <3>1. Current' = Current
            BY <2>1 DEF Current
        <3>2. /\ route.plan \subseteq Plan(route.alert)
              /\ route.attempt > 0 =>
                     route.plan # {} /\ Channel(route.alert, Current) \in route.tried
              /\ route.wait > 0 => route.attempt > 0
              /\ route.busy > 0 => Sending
              /\ route.wait \in Nat /\ route.busy \in Nat
            BY <1>4, <2>1, RouteFields DEF RouteInv, OnTheWay
        <3>3. route'.wait > 0 => route'.attempt > 0
            BY <2>1, <3>2
        <3>4. route'.busy > 0 => Sending'
            <4>1. ASSUME route'.busy > 0
                  PROVE  Sending
                <5>1. CASE route.wait > 0 /\ route'.busy = route.busy
                    BY <3>2, <4>1, <5>1
                <5> QED BY <2>1, <5>1
            <4>2. ASSUME route'.busy > 0
                  PROVE  route'.wait = 0
                BY <2>1, <3>2, <4>1, <4>2 DEF Sending
            <4> QED BY <2>1, <2>2, <4>1, <4>2 DEF Sending
        <3>5. /\ route'.plan \subseteq Plan(route'.alert)
              /\ route'.attempt > 0 =>
                     route'.plan # {} /\ Channel(route'.alert, Current') \in route'.tried
            BY <2>1, <3>1, <3>2
        <3> QED BY <3>3, <3>4, <3>5 DEF OnTheWay
    <2>5. Tried'
        BY <1>4, <2>1 DEF RouteInv, Tried
    <2>6. ASSUME Timed' PROVE Charged'
        <3> DEFINE full == Cardinality(Plan(route.alert)) * StopTime
                   rest == Cardinality(route.plan) * StopTime
                   charge == route.attempt * AttemptTime
        <3>1. route.held + route.wait + rest <= full + charge + route.busy
            BY <1>4, <2>1, <2>6, StaysReached DEF RouteInv, Charged
        <3>2. full \in Nat /\ rest \in Nat
            <4>1. IsFiniteSet(route.plan)
                BY <1>4, PlanIsFinite, FS_Subset DEF RouteInv, OnTheWay
            <4> QED BY <4>1, PlanIsFinite, FS_CardinalityType, TimesTyped, Multiples
        <3>3. charge \in Nat
            BY <2>1, RouteFields, TimesTyped
        <3>4. route.held \in Nat /\ route.busy \in Nat /\ route.wait \in Nat
            BY <2>1, RouteFields
        <3> HIDE DEF full, rest, charge
        <3>5. route'.held + route'.wait + rest <= full + charge + route'.busy
            <4>1. \/ route'.wait = route.wait - 1 /\ route'.busy = route.busy
                  \/ route'.wait = route.wait /\ route'.busy = route.busy + 1
                <5>1. Timed
                    BY <2>1, <2>6, StaysReached
                <5>2. Sending => Channel(route.alert, Current) \notin Untimed
                    BY <1>4, <2>1, <5>1, CurrentIsReached DEF RouteInv
                <5> QED BY <2>1, <5>2
            <4> QED BY <2>1, <3>1, <3>2, <3>3, <3>4, <4>1
        <3>6. route'.held + route'.wait + Cardinality(route'.plan) * StopTime
                  <= Cardinality(Plan(route'.alert)) * StopTime
                       + route'.attempt * AttemptTime + route'.busy
            BY <2>1, <3>5 DEF full, rest, charge
        <3> QED BY <3>6 DEF Charged, StopTime, AttemptTime
    <2>7. Charged'
        BY <2>6 DEF Charged
    <2>8. Cooled'
        <3>1. ByRule(route'.alert) <=> ByRule(route.alert)
            BY <2>1
        <3> QED BY <1>2, <1>4, <2>1, <2>2, <3>1 DEF RouteInv, Cooled
    <2> QED BY <2>3, <2>4, <2>5, <2>7, <2>8 DEF RouteInv
<1> QED BY <1>3, <1>4

LEMMA RouteInvHolds == Spec => []RouteInv
<1>1. Init => RouteInv
    BY RouterAssumption DEF Init, RouteInv, TypeOK, OnTheWay, Tried, Charged, Cooled
<1>2. RouteInv /\ [Next]_vars => RouteInv'
    <2> SUFFICES ASSUME RouteInv, [Next]_vars PROVE RouteInv'
        OBVIOUS
    <2>1. ASSUME UNCHANGED vars PROVE RouteInv'
        BY <2>1 DEF vars, RouteInv, TypeOK, OnTheWay, Tried, Charged, Timed, Reached, Cooled,
                    Sending, Current
    <2> QED BY <2>1, RouteStep, SendSucceedsStep, GiveUpStep, SendFailsStep, ReturnStep, TickStep
            DEF Next, Proceed
<1> QED BY <1>1, <1>2, PTL DEF Spec

(* The router's state keeps its type (routing.go).                         *)
THEOREM TypeCorrect == Spec => []TypeOK
<1>1. RouteInv => TypeOK
    BY DEF RouteInv
<1> QED BY <1>1, RouteInvHolds, PTL

(* The manager's mutex is held for one alert no longer than MaxRetries     *)
(* sends and pauses for each of its channels, until Route comes to a       *)
(* channel whose Send has no time limit, the e-mail channel (routing.go    *)
(* sendWithRetry, email.go sendWithTLS).                                   *)
THEOREM RouteIsBounded == Spec => []HoldBounded
<1>1. ASSUME RouteInv, route # NoRoute, Timed
      PROVE  route.held <= HoldLimit
    <2> DEFINE P == Cardinality(Plan(route.alert))
               p == Cardinality(route.plan)
               charge == route.attempt * AttemptTime
    <2>1. route \in Routes /\ route.plan \subseteq Plan(route.alert)
        BY <1>1 DEF RouteInv, TypeOK, OnTheWay
    <2>2. /\ route.held \in Nat /\ route.wait \in Nat /\ route.busy \in Nat
          /\ route.busy <= SendTimeout /\ route.attempt \in 0..MaxRetries
        BY <2>1, RouteFields
    <2>3. IsFiniteSet(route.plan) /\ p \in Nat /\ P \in Nat
        BY <2>1, PlanIsFinite, FS_Subset, FS_CardinalityType
    <2>4. P * StopTime \in Nat /\ p * StopTime \in Nat /\ StopTime \in Nat /\ charge \in Nat
        BY <2>2, <2>3, TimesTyped, Multiples
    <2>5. route.held + route.wait + p * StopTime <= P * StopTime + charge + route.busy
        BY <1>1 DEF RouteInv, Charged
    <2>6. HoldLimit = P * StopTime
        BY <2>3, RouterAssumption DEF HoldLimit, StopTime, AttemptTime
    <2>7. CASE route.plan = {}
        <3>1. route.attempt = 0 /\ route.busy = 0
            BY <1>1, <2>2, <2>7, RouterAssumption DEF RouteInv, OnTheWay, Sending
        <3>2. charge = 0
            BY <3>1, TimesTyped
        <3> HIDE DEF charge
        <3>3. route.held <= P * StopTime
            BY <2>2, <2>4, <2>5, <3>1, <3>2
        <3> QED BY <2>6, <3>3
    <2>8. CASE route.plan # {}
        <3>1. StopTime <= p * StopTime
            <4>1. p - 1 \in Nat
                BY <2>3, <2>8, FS_EmptySet
            <4>2. p = (p - 1) + 1
                BY <2>3
            <4>3. p * StopTime = (p - 1) * StopTime + StopTime /\ (p - 1) * StopTime \in Nat
                BY <2>4, <4>1, <4>2, Multiples
            <4> QED BY <2>4, <4>3
        <3>2. charge + route.busy <= StopTime
            <4>1. CASE route.attempt = MaxRetries
                <5>1. route.busy = 0
                    BY <1>1, <2>2, <4>1, RouterAssumption DEF RouteInv, OnTheWay, Sending
                <5>2. charge = StopTime
                    BY <4>1 DEF StopTime
                <5> QED BY <2>4, <5>1, <5>2
            <4>2. CASE route.attempt # MaxRetries
                <5>1. charge + AttemptTime <= StopTime
                    <6>1. route.attempt \in 0..MaxRetries /\ route.attempt < MaxRetries
                        BY <2>2, <4>2, RouterAssumption
                    <6>2. \A n \in 0..MaxRetries : n < MaxRetries =>
                                n * AttemptTime + AttemptTime <= StopTime
                        BY TimesTyped
                    <6> QED BY ONLY <6>1, <6>2
                <5>2. route.busy <= AttemptTime /\ AttemptTime \in Nat
                    BY <2>2, RouterAssumption DEF AttemptTime
                <5>3. charge \in Nat /\ StopTime \in Nat /\ route.busy \in Nat
                    BY <2>2, <2>4
                <5> HIDE DEF charge
                <5> DEFINE busy == route.busy
                <5> HIDE DEF busy
                <5>4. busy \in Nat /\ busy <= AttemptTime
                    BY <5>2, <5>3 DEF busy
                <5>5. charge + busy <= StopTime
                    BY <5>1, <5>2, <5>3, <5>4
                <5> QED BY <5>5 DEF busy
            <4> QED BY <4>1, <4>2
        <3> DEFINE full == P * StopTime
                   rest == p * StopTime
        <3>3. full \in Nat /\ rest \in Nat /\ StopTime <= rest
              /\ route.held + route.wait + rest <= full + charge + route.busy
            BY <2>4, <2>5, <3>1
        <3> HIDE DEF full, rest, charge
        <3>4. route.held <= full
            BY <2>2, <2>4, <3>2, <3>3
        <3> QED BY <2>6, <3>4 DEF full
    <2> QED BY <2>7, <2>8
<1>2. RouteInv => HoldBounded
    BY <1>1 DEF HoldBounded
<1> QED BY <1>2, RouteInvHolds, PTL

(* A route starts only once the cooldown has passed since a rule last sent *)
(* for its key (routing.go Route).                                         *)
THEOREM CooldownHolds == Spec => CooldownRespected
<1>1. ASSUME RouteInv, [Next]_vars, NEW k \in Keys, Begins(k)
      PROVE  quiet[k] >= DefaultCooldown
    <2>1. PICK alert \in Alerts : Route(alert)
        BY <1>1 DEF Begins, Next, Proceed, SendSucceeds, SendFails, GiveUp, Return, Tick,
                    Sending, vars
    <2>2. route'.alert = alert
        BY <2>1, RouteDoes
    <2>3. k = alert.key /\ cooldown[k] = 0 /\ route = NoRoute
        BY <1>1, <2>1, <2>2 DEF Begins, Route
    <2>4. quiet[k] \in Nat
        BY <1>1, RouterAssumption DEF RouteInv, TypeOK
    <2> QED BY <1>1, <2>3, <2>4 DEF RouteInv, Cooled
<1>2. RouteInv /\ [Next]_vars =>
          [\A k \in Keys : Begins(k) => quiet[k] >= DefaultCooldown]_vars
    BY <1>1
<1> QED BY <1>2, RouteInvHolds, PTL DEF CooldownRespected, Spec

(* Route returns with every registered channel of its plan tried           *)
(* (routing.go Route, sendWithRetry).                                      *)
THEOREM ChannelsTried == Spec => EveryChannelTried
<1>1. ASSUME RouteInv, [Next]_vars, MaxRetries > 0, route # NoRoute, route' = NoRoute
      PROVE  route.tried = {Channel(route.alert, s) : s \in Plan(route.alert)}
    <2>1. route \in Routes
        BY <1>1 DEF RouteInv, TypeOK
    <2>2. route.plan = {}
        <3>1. ~(SendSucceeds \/ SendFails \/ GiveUp \/ Tick)
            <4>1. SendSucceeds \/ GiveUp => route' \in Routes
                <5>1. ASSUME SendSucceeds PROVE route' \in Routes
                    <6>1. route.plan # {} /\ route.wait = 0
                          /\ NextChannel(route.tried \cup {Channel(route.alert, Current)})
                        BY <5>1 DEF SendSucceeds, Sending
                    <6>2. route.tried \cup {Channel(route.alert, Current)} \in SUBSET Channels
                        BY <1>1, <2>1, <6>1, CurrentStop, RouteFields DEF RouteInv
                    <6> QED BY <2>1, <6>1, <6>2, NextChannelMoves DEF Moves
                <5>2. ASSUME GiveUp PROVE route' \in Routes
                    <6>1. route.tried \in SUBSET Channels
                        BY <2>1, RouteFields
                    <6> QED BY <2>1, <5>2, <6>1, NextChannelMoves DEF Moves, GiveUp
                <5> QED BY <5>1, <5>2
            <4>2. SendFails => route' \in Routes
                BY <1>1, <2>1, CurrentStop, SendFailsDoes DEF RouteInv, SendFails, Sending
            <4>3. Tick => route' \in Routes
                BY <1>1, <2>1, TickDoes
            <4> QED BY <1>1, <4>1, <4>2, <4>3, NoRouteAssumption
        <3>2. Return
            BY <1>1, <3>1 DEF Next, Proceed, Route, vars
        <3> QED BY <3>2 DEF Return
    <2>3. /\ route.tried \subseteq PlanChannels(route.alert)
          /\ \A s \in Plan(route.alert) : Channel(route.alert, s) \in route.tried
        BY <1>1, <2>2 DEF RouteInv, Tried
    <2> QED BY <2>3 DEF PlanChannels
<1>2. RouteInv /\ [Next]_vars =>
          [MaxRetries > 0 /\ route # NoRoute /\ route' = NoRoute =>
              route.tried = {Channel(route.alert, s) : s \in Plan(route.alert)}]_vars
    BY <1>1
<1> QED BY <1>2, RouteInvHolds, PTL DEF EveryChannelTried, Spec

=============================================================================

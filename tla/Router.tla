------------------------------- MODULE Router --------------------------------
(***************************************************************************)
(* The alert router.  Route picks the channels of an alert, by the routing *)
(* rules or, if none matches, by its severity, and sends to one after the  *)
(* other, retrying a failing channel a few times with a pause after each   *)
(* failure; it returns when the last channel has been dealt with.  Its     *)
(* caller CreateAlert holds the manager's mutex, so one Route runs at a    *)
(* time and everybody waits for it.                                        *)
(*                                                                         *)
(* Channels and rules are registered before the first alert.  Times are    *)
(* what is left of them.                                                   *)
(***************************************************************************)
EXTENDS Integers, Sequences, FiniteSets

CONSTANTS
    Alerts,         \* alerts that may be routed
    Keys,           \* cooldown keys: target and failure code
    Rules,          \* sequence of routing rules
    Channels,       \* registered channels
    NoLabels,       \* the team of an alert without any labels
    NoRoute,
    DefaultCooldown, MaxRetries, RetryBackoff,
    SendTimeout,    \* the longest one Send takes; the channels' HTTP timeout
    Untimed         \* channels without such a limit: email

ASSUME RouterAssumption ==
    /\ \A a \in Alerts : a.key \in Keys
    /\ DefaultCooldown \in Nat /\ MaxRetries \in Nat
    /\ RetryBackoff \in Nat /\ SendTimeout \in Nat
    /\ Untimed \subseteq Channels
    /\ Len(Rules) \in Nat /\ DOMAIN Rules = 1..Len(Rules)
    /\ \A i \in DOMAIN Rules : LET names == Rules[i].channels
                               IN  Len(names) \in Nat /\ DOMAIN names = 1..Len(names)

VARIABLES
    route,     \* the call of Route that runs
    cooldown,  \* lastAlerts: what is left of each key's cooldown
    quiet      \* ghost: time since a rule last sent for a key

vars == <<route, cooldown, quiet>>

(* The target types of a rule are never looked at, and an alert without    *)
(* labels matches the rule of any team.                                    *)
MatchesRule(alert, rule) ==
    /\ rule.severities = {} \/ alert.severity \in rule.severities
    /\ rule.namespaces = {} \/ alert.namespace \in rule.namespaces
    /\ rule.blastRadius = {} \/ alert.blastRadius \in rule.blastRadius
    /\ rule.teams = {} \/ alert.team \in rule.teams \cup {NoLabels}

FindMatchingRules(alert) == {i \in DOMAIN Rules : MatchesRule(alert, Rules[i])}

(* Matching rules apply up to the first that does not say Continue.        *)
Applied(matched) == {i \in matched : \A j \in matched : j < i => Rules[j].continue}

ByRule(alert) == FindMatchingRules(alert) # {}

DefaultChannels(severity) ==
    IF severity = "critical" THEN <<"pagerduty", "slack">> ELSE <<"slack">>

(* Where Route stops, in this order: at each name in the list of each rule *)
(* that applies, or in the default list, which counts as rule 0.           *)
Stops(alert) ==
    IF ByRule(alert)
      THEN UNION {{i} \X DOMAIN Rules[i].channels :
                     i \in Applied(FindMatchingRules(alert))}
      ELSE {0} \X DOMAIN DefaultChannels(alert.severity)

NotAfter(s, t) == s[1] < t[1] \/ (s[1] = t[1] /\ s[2] <= t[2])

Channel(alert, stop) ==
    IF stop[1] = 0 THEN DefaultChannels(alert.severity)[stop[2]]
                   ELSE Rules[stop[1]].channels[stop[2]]

(* A name that is not registered is passed over.                           *)
Plan(alert) == {s \in Stops(alert) : Channel(alert, s) \in Channels}

Routes ==
    [alert : Alerts,
     plan : SUBSET (Nat \X Nat),   \* stops still to be dealt with
     attempt : 0..MaxRetries, wait : 0..RetryBackoff, busy : 0..SendTimeout,
     tried : SUBSET Channels,   \* ghost: channels Send was called for
     held : Nat]                \* ghost: time Route has taken

ASSUME NoRouteAssumption == NoRoute \notin Routes

-----------------------------------------------------------------------------
Init ==
    /\ route = NoRoute
    /\ cooldown = [k \in Keys |-> 0]
    /\ quiet = [k \in Keys |-> DefaultCooldown]

(* An alert in cooldown is not routed at all.                              *)
Route(alert) ==
    /\ route = NoRoute
    /\ cooldown[alert.key] = 0
    /\ route' = [alert |-> alert, plan |-> Plan(alert), attempt |-> 0,
                 wait |-> 0, busy |-> 0, tried |-> {}, held |-> 0]
    /\ UNCHANGED <<cooldown, quiet>>

First(stops) == CHOOSE s \in stops : \A t \in stops : NotAfter(s, t)

Current == First(route.plan)

Sending ==
    route # NoRoute /\ route.plan # {} /\ route.wait = 0 /\ route.attempt < MaxRetries

(* Sending ends, and with it the silence about this alert.                 *)
Sent == quiet' = [quiet EXCEPT ![route.alert.key] = IF ByRule(route.alert) THEN 0 ELSE @]

NextChannel(tried) ==
    route' = [route EXCEPT !.plan = @ \ {Current}, !.attempt = 0, !.busy = 0, !.tried = tried]

SendSucceeds ==
    /\ Sending
    /\ NextChannel(route.tried \cup {Channel(route.alert, Current)})
    /\ Sent
    /\ UNCHANGED cooldown

(* Mutant: one failing channel ends the route.                             *)
SendFailsRoute ==
    /\ Sending
    /\ route' = [route EXCEPT !.plan = {}, !.tried = @ \cup {Channel(route.alert, Current)}]
    /\ Sent
    /\ UNCHANGED cooldown

(* Mutant: failures are retried without counting them.                     *)
SendFailsUncounted ==
    /\ Sending
    /\ route' = [route EXCEPT !.wait = RetryBackoff, !.busy = 0,
                              !.tried = @ \cup {Channel(route.alert, Current)}]
    /\ Sent
    /\ UNCHANGED cooldown

(* A failure is followed by the pause, the last one too.                   *)
SendFails ==
    /\ Sending
    /\ route' = [route EXCEPT !.attempt = @ + 1, !.wait = RetryBackoff, !.busy = 0,
                              !.tried = @ \cup {Channel(route.alert, Current)}]
    /\ Sent
    /\ UNCHANGED cooldown

GiveUp ==
    /\ route # NoRoute /\ route.plan # {}
    /\ route.wait = 0 /\ route.attempt = MaxRetries
    /\ NextChannel(route.tried)
    /\ UNCHANGED <<cooldown, quiet>>

(* Mutant: the cooldown counts from the start of the route.                *)
ReturnEarlyStamp ==
    /\ route # NoRoute /\ route.plan = {}
    /\ cooldown' = IF ByRule(route.alert) /\ route.held <= DefaultCooldown
                     THEN [cooldown EXCEPT ![route.alert.key] = DefaultCooldown - route.held]
                     ELSE cooldown
    /\ route' = NoRoute
    /\ UNCHANGED quiet

(* Only routing by rules starts a cooldown.                                *)
Return ==
    /\ route # NoRoute /\ route.plan = {}
    /\ cooldown' = IF ByRule(route.alert)
                     THEN [cooldown EXCEPT ![route.alert.key] = DefaultCooldown]
                     ELSE cooldown
    /\ route' = NoRoute
    /\ UNCHANGED quiet

More(n) == IF n < DefaultCooldown THEN n + 1 ELSE n

(* The longest Route should take; the ghost counts no further than past it. *)
HoldLimit == Cardinality(Plan(route.alert)) * MaxRetries * (SendTimeout + RetryBackoff)

Longer(held) == IF held > HoldLimit THEN held ELSE held + 1

Less(n) == IF n > 0 THEN n - 1 ELSE 0

(* A Send over HTTP is over after SendTimeout; the e-mail channel talks to *)
(* its server without any limit, and only its first SendTimeout is counted. *)
Unfinished(busy) ==
    busy < SendTimeout \/ Channel(route.alert, Current) \in Untimed

Busier(busy) == IF busy < SendTimeout THEN busy + 1 ELSE busy

(* Time passes while nothing is routed, during a pause and during a Send.  *)
Tick ==
    /\ \/ route = NoRoute /\ UNCHANGED route
       \/ /\ route # NoRoute /\ route.wait > 0
          /\ route' = [route EXCEPT !.wait = @ - 1, !.held = Longer(@)]
       \/ /\ Sending /\ Unfinished(route.busy)
          /\ route' = [route EXCEPT !.busy = Busier(@), !.held = Longer(@)]
    /\ cooldown' = [k \in Keys |-> Less(cooldown[k])]
    /\ quiet' = [k \in Keys |-> More(quiet[k])]

Proceed == SendSucceeds \/ SendFails \/ GiveUp \/ Return

Next == (\E alert \in Alerts : Route(alert)) \/ Proceed \/ Tick

Spec == Init /\ [][Next]_vars

-----------------------------------------------------------------------------
(* The type of a route under way and of the cooldowns.                     *)
TypeOK ==
    /\ route \in Routes \cup {NoRoute}
    /\ cooldown \in [Keys -> 0..DefaultCooldown]
    /\ quiet \in [Keys -> 0..DefaultCooldown]

Begins(k) == route = NoRoute /\ route' # NoRoute /\ route'.alert.key = k

(* "DefaultCooldown is the minimum time between notifications for same     *)
(* alert", where rules route it: a route, whoever it is by, starts only    *)
(* once the cooldown has passed since the last notification a rule sent    *)
(* for that key, however long retries took (routing.go Route).             *)
CooldownRespected ==
    [][\A k \in Keys : Begins(k) => quiet[k] >= DefaultCooldown]_vars

(* A channel that fails never keeps the others from being tried: Route     *)
(* returns with every registered channel of its plan tried (routing.go     *)
(* Route, sendWithRetry).                                                  *)
EveryChannelTried ==
    [][MaxRetries > 0 /\ route # NoRoute /\ route' = NoRoute =>
          route.tried = {Channel(route.alert, s) : s \in Plan(route.alert)}]_vars

(* The stops dealt with so far, with the one Route is at.                  *)
Reached == {s \in Plan(route.alert) : s \in route.plan => s = Current}

Timed == \A s \in Reached : Channel(route.alert, s) \notin Untimed

(* How long the manager's mutex is held for one alert: for each channel at *)
(* most MaxRetries sends and pauses, as long as Route has not come to the  *)
(* e-mail channel, whose server may hold it for ever (routing.go           *)
(* sendWithRetry, email.go sendWithTLS).                                   *)
HoldBounded == route # NoRoute /\ Timed => route.held <= HoldLimit

=============================================================================

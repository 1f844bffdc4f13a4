# k8s-monitor in TLA+

k8s-monitor ("K8sWatch") checks network targets from every node of a Kubernetes
cluster and alerts when they fail. Agents (one per node) run the checks on a
schedule and send every result to an aggregator over gRPC; the aggregator counts
results per target, decides when to alert and when an alert is over, and records
both as `AlertEvent` objects in the Kubernetes API; an alert manager keeps alerts,
lets people acknowledge and silence them, and routes them to channels such as Slack.

```
 Scheduler --checks--> Agent.executeCheck --> ResultClient ==gRPC==> Server
 (per node)               layers, checkers      retries               |
                                                                HandleResult
                                                   StreamProcessor, CorrelationEngine,
                                                   AlertDecisionEngine
                                                                      |
                                                   AlertEvent objects (Kubernetes API)

 HTTP API --> AlertManager + MemoryStore --> Router --> channels
```

The modules here follow the Go code in `src/`: paths below are relative to it. The
last stage of the picture is not connected to the first in this code base: nothing
watches `AlertEvent` objects on the alert manager's side, and `Manager.CreateAlert`
has no caller outside tests. The two halves are modelled as they are, apart.

## Inventory

For each component: its state, its operations, whom it talks to, what is hard, and
what makes it correct.

**Scheduler** (`internal/agent/scheduler.go`). State: the targets, the semaphore, the
WaitGroup, the shutdown channel, one watcher goroutine and any number of check
goroutines. Operations: `Start`, `UpdateTargets`, the ticker, one `executeCheck` per
target and tick. Hard: goroutines started while `Start` is already waiting, a token
lost on a path that returns early, a shutdown that a check does not notice. Correct
when no more than `MaxConcurrency` checks run, `Start` returns after everything it
started and always does return.

**Agent** (`internal/agent/agent.go`, `cmd/agent/main.go`). State: the scheduler's
context, a shutdown channel, an HTTP server. It loads configuration every 30 s into
`UpdateTargets`, runs a check and submits its result. Hard: stopping. `Agent.Start`
waits for `a.shutdown`, which only `Stop` closes and `main` never calls, and then up to 30 s
for three goroutines of which the HTTP server's never ends by itself. Correct when, but for
those 30 s, it returns after everything it started, and when `Stop` gets it to return.

**ResultClient and gRPC server** (`internal/agent/result_client.go`,
`internal/aggregator/server.go`). No state but the connection and counters. A call has
its own timeout, is tried again after a doubling pause, all within what is left of the
check's timeout; the server keeps no result ids. Hard: a call given up by its caller
may be handled nevertheless, and again by the next attempt. Correct when "submitted"
means handled, the number of duplicates is bounded, and the goroutine is released in
time.

**StreamProcessor** (`internal/aggregator/processor.go`). State per target: the run of
failures or successes, health, the same run per agent, the time of the last result.
Operations: `ProcessResult`, `cleanupExpiredStates`, readers. Correct when the target's
run is explained by its agents' runs.

**CorrelationEngine** (`correlation.go`). State: a window of recent failures per target.
Operations: `RecordFailure`, which drops what is older than the window, and
`GenerateReport`, which reads it three times under three locks, with the pattern and the
blast radius of an alert. Hard: others record between these reads, and what is read may be
older than the window. Correct when the window holds the failures of its time and no
conclusion is drawn from fewer nodes than it asks for.

**TopologyAnalyzer** (`topology.go`, and `watchNodes` of `cmd/aggregator/main.go`). State:
the nodes with their zones, and the zones with their lists of nodes. It is loaded every 30 s,
node by node, and never unloaded. Hard: integer thresholds on small clusters, nodes that are
gone or have moved. Correct when a larger failure never has a smaller radius and what is stale
never makes one look larger.

**AlertDecisionEngine** (`alerting.go`). State per target: both counters and
`IsAlerting`; the installed `AlertRule`s. Operations: `ProcessResult`, `UpdateRule`,
`RemoveRule`. Hard: the decision is incremental, and thresholds may change or be picked
from several rules (in the order of a Go map) at every result. Correct when a target
alerts exactly when the history of its results says so.

**Result handler** (`cmd/aggregator/main.go`). Runs for every request, several at a time
and on three replicas. Feeds processor, correlation and engine one after the other, each
under its own lock, then creates or resolves an `AlertEvent` through the API. Hard: other
handlers run between any two steps, calls fail half way, a restart forgets everything but
the `AlertEvent`s, creation timestamps count whole seconds, and a result without a namespace
is recorded under one name while its event is filed under another. Correct when no alert is
lost and every event stands for a decision.

**StormPreventer** (`storm_prevention.go`). State: alert groups with count, cooldown and
suppression. Operations: `ShouldSendAlert`, `CleanupExpiredGroups`, `ResetGroup`. Hard:
several clocks that each other operation restarts. Correct when the alerts sent in any
stretch of time are bounded and a suppression ends. No binary constructs it.

**AlertManager and MemoryStore** (`internal/alertmanager/manager.go`, `store.go`).
State: the active alerts, the store's copies and event logs, the shutdown channel.
Operations: create (with deduplication), resolve, acknowledge, silence, hourly cleanup,
stop. Hard: two copies of each alert, `Stop` that takes no lock, silences that lapse,
a store that is gone after a restart. Correct when the copies agree, the log explains the
state, one outage has one open alert, an alert is routed once, silences end.

**Router, Escalator, channels** (`routing.go`, `escalation.go`, `channels/`). State: the
cooldown of each key, the rules and channels. Hard: retries while the manager's mutex is
held, failing channels, e-mail that is sent without any timeout, a cooldown checked before and
stamped after sends that take time.

**Checker** (`internal/checker/`): an executor that runs the layers L0 to L6 of a check
in order and stops at the first failing one; a registry of checker factories; checkers
for network, HTTP, databases, messaging and synthetic targets. No state beyond a check.
Hard: each layer opens its own connection with its own timeout, some heed the check's
context and some do not, Secrets are read without any limit, some layers take errors or silence
for success. Correct when a server in good order passes, nothing passes without a server, and
the connections of a check are over near its timeout.

**The rest**: CRD types, secrets, TLS, logging, metrics: declarations, conversions
and counters.

`PROJECT.json` lists every component with its status and the hazards of the code, each at
its line with the properties that cover it.

## Modules

| Module | Models | How state and actions correspond |
|---|---|---|
| `AlertEngine` | `AlertDecisionEngine` | `targetStates`, `rules` are the fields of that name. The engine holds its mutex in every operation, so each is one step. A threshold is any of the set the map walk could find first. |
| `AlertHistory` | the engine under any results and rule changes | adds `history`, the results of each target with the rules installed when each came, which the properties compare the counters and the flag with. |
| `AtLeastOnce` | what the way of a result promises | abstract: items offered, open, delivered, confirmed, with no network, calls or time. |
| `Delivery` | `ResultClient.SubmitResult` and the network to `Server.SubmitResult` | `submit` is the retry loop of a check's goroutine with its timers, `requests` and `answers` are what is on the network. `Handle` is the server, whose handler is one step of an `AlertEngine` instance. `Promise` is `AtLeastOnce` with a submission that is not over as an open item. |
| `StreamProcessor` | the processor | `states`; an agent missing from the Go map reads as zero counters. |
| `ResultPipeline` | `HandleResult`, `upsertAlertEvent`, `resolveLatestAlertEvent`, `cleanupLoop` | composes `StreamProcessor` and `AlertEngine`, one state of each per replica and target (`Keys`), with the handlers' program counters and the API's `events`. `Filed` is the name a target's events bear: its own, or, if a result gives no namespace, that of the target in "default". |
| `Correlation` | `CorrelationEngine` | `failureWindow` is that of one target: the code's slice, which grows at its end and loses what is old, as the set of its events, each with the number it came as. A handler's report is made in the three reads the code makes, `now` is the clock. |
| `Topology` | `TopologyAnalyzer`, `watchNodes`, `loadNodes` | `nodeZone` and `zones` are the two maps, `listed` the nodes a load has yet to enter, `cluster` the API's nodes. `ClassifyBlastRadius` is an operator on any set of nodes. |
| `StormPrevention` | `AlertStormPreventer` | `alertGroups` is the field of that name with ages in place of times; `ShouldSendAlert` is one step, as it holds the mutex throughout. |
| `AlertManager` | `Manager` and `MemoryStore` | `active` and `alerts` are the two maps, `log` the event slices, `op` is the operation that holds `m.mu` after its first call of the store. |
| `AlertLife` | what readers of the alerts may rely on | abstract: the state of each alert and the outage it is about, with no store, manager, operations in two halves, or time. `Readers` in `AlertManager` maps the store's copies to it. |
| `Router` | `Router.Route`, `sendWithRetry` | `cooldown` is `lastAlerts`; `route` the running call with its attempt and pause. Its `plan` is the set of stops (rule, place in the rule's list) that the two loops of `Route` have still to make, in that order. A send to a channel in `Untimed` may take any time. |
| `Checkers` | the layers of every checker, the factories, the registry | one record per layer: when it is enabled, its I/O, and which failure code, if any, each answer or error leads to. No state. |
| `CheckExecutor` | `Executor.Execute` inside `Scheduler.executeCheck` | `n` and `phase` are the layer and I/O under way, `left` the rest of the context, `wait` that of the I/O's own timeout, `result` is `CheckResult.Check`. A target's `exact` says that its server's status is the one that is asked for. |
| `Scheduler` | `Scheduler` | one program counter per goroutine; `semaphore` and `wg` count what the Go objects count. |
| `Agent` | `Agent.Start`, `Stop`, `refreshConfigLoop`, the signal handler of `main` | extends `Scheduler`: its goroutine is one of three that `agentWg` counts; `agent`, `refresher` and `http` are program counters, `stopped` is the closed `a.shutdown`, `ctxDone` the ended context. |
| `AlertHistoryProofs`, `ResultPipelineProofs`, `DeliveryProofs`, `AlertManagerProofs`, `RouterProofs`, `StormPreventionProofs`, `CorrelationProofs`, `AgentProofs` | | theorems about the modules they are named for; `CorrelationProofs` also has those about `Topology`, `AgentProofs` those about `Scheduler`, `CheckExecutor` and `Checkers`. |

`MCAlertHistory`, `MCCorrelation`, `MCResultPipeline` and `MCRouter` hold the values TLC
instantiates the constants with, and the symmetry, where a configuration file cannot write
them; the other runs use the component's module itself. `Router`, `AlertManager`,
`ResultPipeline` and others state the types of their variables in a `TypeOK`, which is proved; the one
that a run lists is the agent's, which contains the scheduler's and the one thing in them that
could fail, a WaitGroup below zero.

Ghost variables (`history`, `decided`, `routed`, `quiet`, `serial`, `results`, `handled`, `sent`,
`overrun`, `healthy`, `served`, `lastFailure`) and the counters `spent`, `issued`, `failures` and
`changes` record what happened for the properties or bound
the run; no guard of a modelled operation depends on a ghost. `Mutant:` operators are
variants with a plausible bug that each property must notice; they take no part in `Next`.

### Abstractions

- Times are what is left of them, or their age: `Tick` counts timers, and where a call or a
  pause has a timer, time does not pass beyond it. Durations are scaled to a few units; only
  their order matters to the properties.
- The severity, text and statistics of alerts and results are left out; `CalculateSeverity`
  only labels an event.
- In `ResultPipeline` names of `AlertEvent`s (`UnixNano`) grow; creation timestamps count
  seconds, and `CreationGaps` says whether two creations may share one. A call that commits
  and then fails is, to the handler that never retries, the same as one that succeeded.
- `Update` of an `AlertEvent` carries the listed `resourceVersion`: a changed object is a
  conflict, and is not retried.
- Of the correlation engine an `AlertEvent` only keeps the nodes. In `ResultPipeline` the
  failure window is therefore the set of nodes it names, and how many entries are too old
  is any number; `Correlation` has the window itself, with the clock.
- `Correlation`: the blast radius is any that `Topology` allows for a number of nodes.
- `Topology`: a node without a zone label is in one more zone. A List that fails changes nothing.
- `StormPrevention`: an age beyond the suppression window is kept as the first such age, which
  no comparison tells from a later one, so that time is not bounded.
- In `AlertManager` a refreshed duplicate changes only fields that are not modelled.
  `MemoryStore` refuses calls once closed. `CleanupStart` may run when the manager is
  stopping, as a `select` with two ready cases may pick either.
- `ResultPipeline`: a target without a namespace has a failure window under its own name, "/name".
  A report looks for that of the filed name, "default/name", which exists if the target of that
  name reaches the same replica, and may be another's.
- `Router`: `Route` has one caller, which holds the manager's mutex, so one runs at a time.
  The channels that talk HTTP are over within their client's timeout; e-mail may not end at all,
  and of its sends `busy` counts the first `SendTimeout` only.
  Escalation and the channels' own code are not part of it.
- `Agent`: a second call of `Stop` would close a closed channel and panic; one is modelled. The
  30 seconds may be over at any moment.
- `Checkers`: what a server may answer, and what one in good order answers, comes from its
  protocol; what a layer asks and makes of the answer, from the code. Endpoints are names
  (with a plain IP the DNS layer passes at once); building addresses, requests and TLS
  configurations, and with them `config_error`, is left out, but for the password of Redis.
  Flags of layers a checker does not have change nothing but the scheme of MinIO's and
  nginx's page, which is left out, as are timeouts configured for L2 and L3. Of a server in good
  order the status is any of 200 to 399 (redirects are followed), and that of a `kubernetes` or
  `external_http` target may speak nothing but TLS. Servers ask for no client certificate.
- `CheckExecutor`: one unit is 5/3 s: the default timeout is 15 s, that of a connection 5 s, that
  of an HTTP client 10 s; each of the two timeouts of L0's NTP query, to connect and to be
  answered, is 3 s and is rounded up. Neither heeds the context. Reading a Secret heeds the context
  as little and has no timeout; it takes any time, which `overrun` leaves out, or none if the target
  names none. Redis's connection is open meanwhile, and its deadline goes on. A page's body comes
  with its status.
- `Delivery`: a submission may lose its connection at any time; a request on its way is
  handled now, later, or never. The parent context, which ends when the agent stops, can
  only end a submission earlier.

## Runs

| Run | Question | States |
|---|---|---|
| `AlertHistoryRules` | Does the engine alert exactly when the history says so, with rules coming and going? | 375,174 |
| `DeliveryRetries` | Does the way of a result keep the promise of `AtLeastOnce`, in time, and how far can duplicates lower a threshold? | 327,009 |
| `PipelineFaults` | Concurrent handlers, replicas, a failing call, a restart, an expiry: is an alert lost, does an event lack a decision, and do events, processor and engine agree where one result comes at a time? | 387,649 |
| `PipelineRestart` (violation) | Does alert state survive a restart of the aggregator? | |
| `ManagerOperations` | Do the copies agree, the log explain, silences end, readers see only what may happen, under every order of operations and shutdown? | 233,355 |
| `RouterRules` | Cooldown, retries, every channel tried, and, but for e-mail, how long does a caller wait? | 1,089 |
| `AgentRun` | Tokens, both WaitGroups, shutdown and starvation under signals, `Stop` and reloads in any order | 56,066 |
| `AgentSignal` (violation) | Does a signal stop the agent? | |
| `CheckRun` | All 22 target types, every set of layers, any server: what passes, and how late does it end? | 1,075,560 |
| `TopologyRun` | What radius does every failure have while a cluster of any shape is loaded and changes? | 92,186 |
| `CorrelationRun` | What do window, report and pattern stand for when handlers overlap and time passes? | 603,836 |
| `StormRun` | How many alerts pass, how far apart, and does a suppression end? | 40,401 |

### Bounds, and why they are enough

- `AlertHistoryRules`: one target (the engine keeps nothing across targets), two rules out
  of two settings (one sets both thresholds, one of them above and one below its default, one sets
  the first only), 5 results: the largest failure threshold (3) and a recovery by default (2)
  after it. The theorems remove the bound.
- `DeliveryRetries`: two submissions, two attempts each, a call timeout of 2 and a pause of
  1 within 4 units: the second attempt is cut off by the check's timeout unless the first
  one fails early, and a third attempt is possible only in the mutant. A submission may also
  find no time left, as after a check that used its timeout up. The failure threshold is
  3, so that two duplicated results reach it and one does not. The theorems remove the bounds.
- `PipelineFaults`: two replicas and two handlers in all, which is enough for every pair of handlers
  to interleave on one replica or on two; two targets, of which one gives no namespace, has its
  events under the other's name, and reaches one replica (`Keys`, `Filed`); 5 results allow an alert,
  a recovery and a second alert while a handler lags behind; creations in one second or in two; one
  disturbance, a failing call, a restart or an expiry, at any point (`Disturbances`,
  `MaxDisturbances`). The theorems remove the bounds for the safety properties.
- `PipelineRestart`: one replica, target and handler, 4 results, and a restart as the only
  disturbance there can be: what goes wrong is due to it alone.
- `ManagerOperations`: three alerts of one key (a silenced one, its successor, a later one),
  6 operations, one restart, silences that end at once or after a while. The theorems remove
  the bounds for the safety properties.
- `RouterRules`: two rules of which the first continues, three channels, e-mail among them (`Untimed`),
  and one that is not registered, two keys; the cooldown is longer than one retry and shorter than a whole route.
  Nothing is cut off, and deadlock is checked. The theorems hold for all rules and times.
- `AgentRun`: two check goroutines for one token and two targets: one of them has to wait,
  pause or give up while the other runs. The theorems remove the bounds.
- `CheckRun`: every type, every subset of its layers, servers with the status that is asked for and
  with another, and timeouts that are the default, shorter than any connection, a little longer than
  one, and longer than two (`NTPTimeout` is shorter than a connection's). Nothing is cut off: a check is finite. The
  theorems hold for all timeouts.
- `TopologyRun`: every cluster of up to four nodes in three zones, so that a failure can be
  one node, part of a zone, a zone, two of three zones or all of them, and one change, which
  leaves something stale. The threshold is 75 % in place of the default 30 %, of which on four nodes any
  two would be more; at 75 % the share and the zones disagree in both directions. The
  theorems remove the bounds.
- `CorrelationRun`: two handlers, two nodes, two codes, three failures within and beyond a
  window of two units: one fails to count as two nodes, one falls out of the window between
  the reads of a report. The theorems remove the bounds.
- `StormRun`: two groups, two alerts per group, a cooldown of 2 and a window of 9, in which four
  cooldowns fit: the suppression and not the cooldown is what bounds the alerts. Nothing is cut off.

`MaxResults`, `MaxDisturbances`, `MaxRestarts`, `MaxAlerts`, `MaxOps`, `MaxHistory`,
`MaxFailures`, `MaxTime`, `MaxChanges` and `Goroutines` (the check goroutines alive at a
time; the code has no limit) are the only bounds the code does not have. Runs that stop at
such a bound switch the deadlock check off, and so do the agent's, which really ends;
`AlertHistoryRules`, `RouterRules`, `CheckRun`, `TopologyRun` and `StormRun` run with it.

### What the properties say

- Engine: `AlertJustified` (no false and no stuck alarm), `AlertNotMissed`. Each result is judged by
  the rules that were installed when it came, or by the defaults where none of them sets a
  threshold. Where these rules agree, the two say exactly when a target alerts; where several set a
  threshold they leave open what the order of a Go map leaves open.
  `CountersMatchHistory`, what the counters are, is proved with them.
- Delivery: `DeliversAtLeastOnce` (`Delivery` implements `AtLeastOnce`: confirmed results were
  handled, given-up ones are never confirmed, none is handled more than `MaxRetries` times),
  `AlertNeedsFailures` (how far duplicates can lower the threshold), `SubmissionBounded`.
- Pipeline: `NoLostAlert` and `AlertEventuallyVisible` while nothing fails, also of targets that share
  their events; `EventsAreDecided` whatever fails: no more events, and no more resolved ones, than
  decisions, and nodes in a firing one, unless a target without a namespace may have raised it: then the
  report is that of another name, or there is none, and the event names no node; `EventsTrackEngine`
  (of a target that shares its events with no other) and `ProcessorAgreesWithEngine` for as long as results have
  come one at a time (`serial`). These two fail with concurrent handlers, as the
  code lets them: a resolve may overtake the creation it answers (the event then fires on),
  and two handlers reach the processor and the engine in different orders.
- Manager: `StoreMirrorsActive`, `EventLogExplainsState`, `OneOpenAlert`, `RoutedOnce`,
  `SilenceEnds`, `AlertsLive`. The first two hold while the store is open; `Stop` may leave an alert
  without its event. `AlertsLive` (the store implements `AlertLife`) holds whatever is stopped: the operations
  decide on the manager's objects, and what the store shows still moves only as the life of an alert
  allows, and gets no second alert for an outage with an open one. `OneOpenAlert` excepts alerts that come back from a silence.
- Router: `CooldownRespected` (between a rule's last send and the next route),
  `EveryChannelTried`, `HoldBounded` (until the route comes to e-mail; from then on the mutex may be
  held without limit).
- Agent and scheduler: `ConcurrencyBounded`, `AddWhileCounted`, `NothingOutlivesStart`,
  `CleanReturn`, `ShutdownCompletes`, `StopReturns`, `EveryCheckRuns`.
- Checks: `HealthyPasses`, of all types but those in `Misread`: `kafka`, `mysql`, `postgresql` and
  `rabbitmq`, whose checkers misread their server, and `kubernetes` and `external_http`, which ask
  a server that may speak only TLS in plain HTTP; and of HTTP targets only if the status is the one
  configured, or 200. `SuccessIsServed`. `OverrunBounded`: the reading of Secrets apart, less than two
  timeouts of a connection, or two of NTP and one of a connection, or `Schedule.Timeout`.
- Topology: `RadiusMonotone` (always), `NeverOverstates` and `ExactWhenFresh` (when every node
  is known where it is), `TopologyCatchesUp`. While a load is under way, or before it, a radius may be
  too large or too small: few nodes are known then.
- Correlation: `WindowExact`, `AffectedRecent`, `PatternHasNodes`. The pattern and the nodes of one
  report may stem from different windows; the properties say what holds nevertheless.
- Storms: `CooldownBetweenSends`, `StormBounded` (fewer than twice the maximum within any
  suppression window, and no smaller bound holds), `SuppressionLifts`.

### Fairness

- Pipeline: a running handler goes on, as its goroutine is scheduled and the API answers
  or times out. Results, failures, restarts and cleanups are up to the environment.
- Manager: the ticker and time go on, an operation that holds the mutex ends. The last is an
  assumption about a create that routes to e-mail, whose server has to answer or to close.
  Requests and `Stop` are not fair.
- Agent: weak fairness of goroutines that can run; `checkFunc` returns, since the
  checkers that the agent registers have only L0, whose I/O has timeouts, and the submission has the
  context's (with the other layers it would rest on the Kubernetes API's answering every read of a
  Secret); and the 30 seconds pass. Strong fairness of the watcher's exit,
  because `select` picks at
  random among ready cases, and of `Acquire`, because Go serves the senders of a full
  channel in the order they came. Signals, `Stop`, the tickers, List and the HTTP server are
  not fair. `AgentSignal` fails under this fairness.
- Topology: the loader goes on, and List succeeds again and again. The cluster is not fair.
- Storms: time passes, and alerts of each group keep coming, without which nothing is to be
  sent. Cleanup and reset are not fair.
- The other runs check safety only. `Delivery` and `CheckExecutor` bound by invariants what
  their timers end, so that no server ever has to answer.

## Proofs

Proved with TLAPS, for every value of the constants that satisfies the named assumptions:

- `AlertHistoryProofs`: `TypeCorrect`, `CountersCorrect`, `AlertsJustified`,
  `AlertsNotMissed`, from `EngineAssumption` and `HistoryAssumption`. The invariant is
  `IInv == TypeOK /\ CountersMatchHistory /\ AlertJustified /\ AlertNotMissed`: the last
  two are not inductive without the counters, since whether a step may turn the flag is
  read from a counter while the property reads the history. `ThresholdsUnder` says that the
  thresholds a result finds are those of the rules its entry records. The lemmas about a history with
  one more result carry runs and witnesses over to it.
- `AgentProofs`, the scheduler: `TypeCorrect`, `ChecksBounded`, `StartWaitsForAll`, `AddsAreCounted`,
  from `SchedulerAssumption` (finitely many goroutines, a positive limit). `TypeOK` says
  `wg \in Nat`, which no decrement preserves by itself; the invariant adds that the
  WaitGroup is the number of living goroutines (`AliveCounted`), the semaphore that of the
  token holders (`TokensCounted`), and where `Start` and the watcher are relative to each
  other (`StartOrder`). `AddsAreCounted` is the action property, from the same invariant.
- `AgentProofs`, the agent: `AgentRefinesScheduler` shows that every step of the agent is a step of the
  scheduler or leaves it alone, which carries the scheduler's theorems over
  (`AgentSchedules`). `AgentTypeCorrect` and `ReturnsClean` need to know what the agent's
  WaitGroup counts (`GoroutinesCounted`) and which goroutines there are before and after
  `Start` (`AgentOrder`).
- `AgentProofs`, the executor: `ExecutorTypeCorrect`, `OverrunIsBounded`, `SuccessWasServed`,
  `HealthyTargetsPass`, from `ExecutorAssumption` (positive defaults, any `Schedule.Timeout`). First
  `RegistryFits`: what the layers of every checker in the registry have in common (`Fits`): the few
  courses a conversation may take (`Conversations`), where its timeout comes from, that errors pass for
  success only in some layers, that what a server in good order says is taken well but by the `Misread`
  types and for a status nobody asked for. Then `ExecutorInv`, whose steps need no more of the layers
  than that. `OverrunExplained` says what makes the bound inductive: an I/O with a deadline of its own
  (`Deadline`, and the two of L0's query) ends before it has outlived the context by that deadline, and
  until the one get without a context that a checker may have, the overrun is less than a
  connection's timeout or two of NTP. `ServedSince` says that every connecting layer that is done with has reached a server;
  for RabbitMQ's L6, which takes every error for success, that is due to L4, always enabled.
  `CheckOrder` says that a check that passes has run all its layers.
- `CorrelationProofs`, the analyzer: `RadiusGrows`, `RadiusNotOverstated`, `RadiusExact`, `TypeCorrect`, from
  `TopologyAssumption` (finitely many nodes and zones, any threshold). The radius depends on two
  cardinalities, which grow with the set; for the other two theorems, an integer division
  `n * t \div 100 < a` is the same as `n * t < 100 * a`, and the zones known are at least those
  there are. The invariant is `TypeOK`, whose last part, that every known node is in the list of
  its zone, is what makes the zones of a failure known ones.
- `CorrelationProofs`, the engine: `CorrelationTypeCorrect`, `WindowIsExact`, `AffectedAreRecent`,
  `PatternsHaveNodes`, from `CorrelationAssumption`. The invariant is
  `IInv == CorrelationTypeOK /\ Windowed /\ \A h : Reported(h)`. `Windowed` names the node that
  failed last: no event is newer than its node's `lastFailure`, every node that failed within the window
  before the last failure has an event of that very time, and no handler recorded later. `WindowExact`
  alone says none of that, and the next failure's cleaning needs all of it. `Reported` says of a
  handler, at each point of its report, what it has read so far. `RadiiCover` justifies that
  `Correlation` stands apart from `Topology`: in every reachable state of the analyzer
  `ClassifyBlastRadius` answers one of the radii that `Correlation` allows for so many nodes.
- `DeliveryProofs`: `DeliveryImplements`, from `DeliveryAssumption`. That what is confirmed was
  delivered follows from `AnswersHandled`: only handled calls have answers. That nothing is delivered
  too often is counted: `AttemptsCounted` says that of every result, deliveries and requests still on their way
  together are no more than the attempts its submission has made, and no more than `MaxRetries` when
  that is over. That a submission and its result stay together (`Submissions`) makes open items
  map to open items. `SubmissionsBounded` has an invariant of its own (`HeldInv`): the time
  held and the time left are together no more than what the check left.
  `AlertsHaveFailures` counts as well (`CountInv`): every failing result the engine has counted is a
  pair of a result and one of its deliveries, so there are at most `MaxRetries` of them per result. It
  needs thresholds that are positive, as the code's defaults are.
- `ResultPipelineProofs`, from `PipelineAssumption` (at least one node and one replica that the results
  of some target reach; any targets that reach any replicas, filed under any names; any number of
  handlers): three inductive invariants for four properties.
  `CountInv == TypeOK /\ Stamped /\ Sound /\ Accounted /\ Named /\ Tallied` gives `EventsDecided` and `AlertsKept`:
  a handler that has decided and not yet acted stands for the event it will create or resolve, and
  with these the events never outnumber the decisions and, undisturbed, never fall behind them
  (`Tallied`). Everything is counted per filed name, as targets may share one, and `Accounted` says which
  targets have had a hand in its events: if it was only the one of that name, the report found its
  window, in which its failure is recorded. Counting needs events that are not confused, hence `Named`: no two events, made or about
  to be made, have one name. `AgreeInv` gives `ProcessorAgrees`: one result at a time means that at
  most one handler is busy, and on one replica (`Alone`), and that between its two steps the processor
  is exactly one result ahead of the engine (`Agreed`). `TrackInv` gives `EventsTrack`: as long as one target alone
  uses a name (`OneTarget`), the event that fires is newer than every other one of it (`Newest`), so that the resolve, which takes the
  latest firing event, finds the one the engine means; and what the handler read is still what
  is stored when it writes (`Current`).
- `AlertManagerProofs`: `TypeCorrect`, `ViewsAgree`, `HistoryExplains`, `OutageHasOneAlert`,
  `NotifiedOnce`, `ManagerImplementsLife`, from `ManagerAssumption`. The properties are about the moments
  between operations; the invariant
  `IInv == TypeOK /\ Fresh /\ OpSound /\ Mirrored /\ Logged /\ Notified /\ Unique` also says what
  holds while an operation has the mutex: which event has yet to be logged, that a create
  whose event is not logged has not been routed, that what a cleanup still has to do is
  silenced. The uniqueness of an open alert rests on the logs, which never forget a silence.
  `ManagerImplementsLife` takes `AlertLife` step by step from the same invariant: a step either writes one
  alert of an open store, which `Mirrored` says is the one the manager decided on, or changes nothing
  that readers see, or is the restart that empties the store.
- `RouterProofs`: `TypeCorrect`, `RouteIsBounded`, `CooldownHolds`, `ChannelsTried`, from
  `RouterAssumption` (any rules and lists, any numbers; lists are finite) and `NoRouteAssumption`. `Charged` makes the time bound
  inductive: the time taken, with what the remaining stops may take, is covered by what
  all stops may take, the attempts made and the send under way, as long as all channels reached have
  a timeout (`Timed`); a channel once reached stays so. `Tried` says that every
  stop that is done with was tried, `Cooled` that what is left of a cooldown has passed in silence,
  except for the key of the route under way. That a plan has a first stop is the one fact that
  takes an induction; it follows from the well-foundedness of the order of the naturals
  (`LeastNumber`).
- `StormPreventionProofs`: `TypeCorrect`, `SendsAreApart`, `StormIsBounded`, from `StormAssumption` (a
  positive maximum and cooldown, the cooldown no longer than the window) and `NoGroupAssumption`.
  `GroupInv` relates a group to the alerts it sent: it knows the time of the last one
  (`LastKnown`); the first one it counts was sent when its count began, and fewer than the
  maximum were sent before that (`Counted`); it is never both suppressed and cooling. The last part is what makes an
  alert that takes a suppression off the first to be counted again, without which the times in the
  group would say nothing about the alerts.

`TypeOK` of these modules is proved and, but for the agent's, not listed with a run: each is the first
conjunct of an inductive invariant, and TLC has agreed with it on the instances above.

Every safety property that a passing run checks is thereby proved, and so are the action
properties `AddWhileCounted`, `CooldownRespected` and `EveryChannelTried`, and that `Delivery`
implements `AtLeastOnce` and `AlertManager` `AlertLife`. Only
model-checked are the liveness properties (`AlertEventuallyVisible`, `SilenceEnds`,
`ShutdownCompletes`, `EveryCheckRuns`, `StopReturns`, `TopologyCatchesUp`, `SuppressionLifts`): they
rest on fairness and so on ENABLED, which the prover does not handle. The modules use no
RECURSIVE operators, and the only induction over data is the one about plans above. What servers answer is an
assumption written into `Checkers`, for the theorems as for the run.

## Where code and documentation disagree

The violation runs show, each with a counterexample:

- `PipelineRestart`, `RecoveredIsResolved`: after a restart of the aggregator an event fires on
  although its target recovered; `docs/disaster-recovery.md:84` says that Redis preserves
  state, but nothing is stored.
- `AgentSignal`, `SignalStops`: `docs/PHASES_0_1_2_3_FINAL_COMPLETE.md:129` says of the agent
  "Graceful shutdown with 30s timeout"; a signal ends the context, which the scheduler heeds, but
  not the channel that `Start` waits for.

Seen while reading, without a run:

- Checks: reads (`postgresql.go:101` and the like) and the pages of some checkers
  do not heed the check's context, so `Schedule.Timeout` is not "the total timeout for all
  layers" (`api/v1/target_types.go:315`); `OverrunBounded` says by how much. PostgreSQL's packet
  (`postgresql.go:103`) is no SSLRequest, and a server's answer to it fails L4 and L6; the other misread servers are Kafka (a
  request that announces 21 bytes and has 10), RabbitMQ (a frame in place of the header) and
  MySQL (a version without the word "mysql"). A Redis that wants a
  password fails its PING, and WRONGPASS passes L5. Without `StatusCode` L4 accepts 200 alone
  (`http.go:465`), while the comments there (lines 464 and 472) say 2xx and 3xx, and
  `api/v1/target_types.go:238` "default: 200-299": a server that answers 204 fails its check. Only `https`
  targets are asked over TLS (`http.go:418`), so a `kubernetes` or `external_http` target behind a TLS port
  fails L4. Secrets are read with `context.Background()` and no timeout (`http.go:580`, `redis.go:227`,
  `secrets.go:94`), so a check may hang in one while it holds its token. L0's NTP query has 3 s to
  connect and 3 s more to be answered (`l0_node_sanity.go:324`, 330), outside the check's context.
- Agent: a check that used up its timeout has none left to submit
  its result (`agent.go:404`), so the failures of a target that hangs may never be reported.
  `registerCheckers` (`agent.go:330`) enters checkers of which one layer, L0, is all there is, while
  targets configure up to seven (`api/v1/target_types.go:126`).
  A target's `Interval` sets only the jitter.
- Aggregator: a result sent again after a lost answer is counted again. `ProcessResult` never reads `AutoResolve`. A restarted aggregator raises an ongoing
  alert again (`tests/upgrade/zero-downtime-test.md:192`). `GracefulStop` is not bounded by the
  context made for the shutdown. An orphan: a resolve that overtakes the creation it answers
  leaves an event firing. A result without a namespace is admitted (`server.go:127`), recorded under
  "/name" (`cmd/aggregator/main.go:462`) and looked up under "default/name" (line 499): its event has no
  nodes, or those of the target that really is in "default", with which it also shares its events.
- Correlation and topology: `MinNodesForPattern` (`correlation.go:30`) is first compared with the number
  of failures, not of nodes (line 138). A relabelled node stays in its old zone's list (`topology.go:91`).
  `GetFailureCount` counts expired failures.
- Storms: `IsSuppressedByParent` never reads a rule's `Child` pattern
  (`storm_prevention.go:181`; `docs/PHASE3_COMPREHENSIVE_REVIEW.md:199`). A group's count falls only with
  its suppression or its expiry, so alerts that are far apart add up to a suppression.
- Manager: cleanup ends silences of active alerts only (`manager.go:462`); one silenced when only
  the store still has it stays silenced, past its `SilenceEndsAt` (`types.go:75`). `MaxActiveAlerts` (`manager.go:34`) limits only what is
  loaded after a start; `AutoResolveTimeout` (`manager.go:32`) is never read; the shipped alert
  manager keeps alerts in memory, so a rollout loses them
  (`tests/upgrade/zero-downtime-test.md:137`). `MemoryStore.List` never reads the cursor
  that the API hands it (`store.go:95`), so nothing beyond the first page can be listed. Its `main` shuts down a new `http.Server`, not the one that serves.
- Router: default routing never starts a cooldown, and no binary adds rules (`routing.go:38`). E-mail is
  sent without timeout and context (`channels/email.go:134`, 140) while the manager's mutex is held: a mail
  server that does not answer stops every operation of the manager.

Hazards of the code that no property covers: the active map grows without limit
(`manager.go:158`); nothing resolves an alert nobody touches (`manager.go:453`); only the
caller's mutex keeps two writes of `lastAlerts` apart, which are made under a read lock
(`routing.go:161`); goroutines of checks pile up without limit behind the semaphore (`scheduler.go:153`);
a result the server refused counts as delivered (`result_client.go:164`); a check that has used its time
up is not reported (`agent.go:404`).
In each of them the code promises nothing that a property could state.

## Not modelled

- `Escalator`: only looks up policies and prints, and no binary calls it.
- `ValidateTarget`, which `executeCheck` calls first (`agent.go:374`): the check of an invalid target ends
  there, without a result.
- `LoadTarget`, `RemoveNode`, `AnalyzeNetworkMode`, `ClearTarget`, `store.Delete`,
  the history slice and callbacks of the manager: no caller or no reader.
- The gRPC server's validation and counters; the HTTP API's decoding, and filters and pages of
  its lists: what they let through is what `Delivery` and `AlertManager` take as their inputs.
- How checkers build requests and L0 reads `/proc`, what Secrets hold, TLS, logging, metrics, the channels'
  formatting, the CRD types: conversions, counters and declarations with no state that the
  behaviour of the system depends on.

## Plan

Done, in this order: engine and its history, pipeline, manager, router, scheduler, delivery,
checkers and executor; agent, topology, correlation, storm prevention; delivery and
manager as implementations of abstract promises; theorems for engine, scheduler, agent, topology,
delivery, pipeline, manager, router, storm prevention, correlation and the checks. Left: the gRPC server's validation,
counters and shutdown; the API as the caller of the manager.

---------------------------- MODULE CheckExecutor ----------------------------
(***************************************************************************)
(* One check: the executor runs the enabled layers of the target's checker *)
(* one after the other and stops at the first that fails.                  *)
(*                                                                         *)
(* left is the rest of the check's context, wait that of the timeout of    *)
(* the I/O under way.  Some I/O heeds the context and some does not, and   *)
(* Secrets are read without either.                                        *)
(* Submitting the result is in module Delivery, with what is left then.    *)
(* Checks share no state, so one at a time is modelled.                    *)
(***************************************************************************)
EXTENDS Naturals, FiniteSetsExt, Checkers

CONSTANTS
    Types,           \* the target types to check
    DefaultTimeout,  \* SchedulerConfig.DefaultTimeout
    Timeouts,        \* values of Schedule.Timeout; 0 if it is not set
    IOTimeout,       \* of a connection a layer opens
    NTPTimeout,      \* of connecting to an NTP server, and of its answer
    HTTPTimeout      \* of an HTTP layer's client, without Schedule.Timeout

ASSUME ExecutorAssumption ==
    /\ Types \subseteq DOMAIN Registry
    /\ DefaultTimeout \in Nat \ {0} /\ Timeouts \subseteq Nat
    /\ IOTimeout \in Nat \ {0} /\ NTPTimeout \in Nat \ {0} /\ HTTPTimeout \in Nat \ {0}

VARIABLES
    pc,       \* "idle", "layers", "talking" or "returned"
    target,
    n,        \* the checker's layer that began last
    phase,    \* which phase of the layer is under way
    left, wait,
    result,   \* CheckResult.Check
    overrun,  \* ghost: how long the check outlived its context, not waiting for Secrets
    healthy,  \* ghost: everything so far was a healthy server's doing, in time
    served    \* ghost: the server accepted a connection

executorVars == <<pc, target, n, phase, left, wait, result, overrun, healthy, served>>

(* The layers that a target of the type may enable to some effect.         *)
Names(type) == {Registry[type][i].name : i \in DOMAIN Registry[type]}

(* The types whose layer L4 is an HTTPProtocolLayer.                       *)
ByStatus == {"http", "https", "kubernetes", "internal_canary", "external_http"}

(* exact: L4Protocol.StatusCode, or 200 if that is not set, is the status  *)
(* the target's server gives when in good order, or no layer looks at it.  *)
NoTarget == [type |-> "none", layers |-> {}, timeout |-> 0, exact |-> TRUE]

CheckedTargets ==
    UNION {[type : {t}, layers : SUBSET Names(t), timeout : Timeouts,
            exact : IF t \in ByStatus THEN BOOLEAN ELSE {TRUE}] : t \in Types}

CheckTimeout(t) == IF t.timeout = 0 THEN DefaultTimeout ELSE t.timeout

(* The layers of the target's checker that are enabled and yet to begin.   *)
ToCome == {i \in DOMAIN Registry[target.type] : i > n /\ Enabled(Registry[target.type][i], target)}

Current == Registry[target.type][n]

Kind == Current.phases[phase]

(* The timeout of a phase; a lookup has only the context's, and a Secret   *)
(* none: its limit is that of a connection which is open meanwhile.        *)
Limit(l, kind) ==
    CASE kind = "lookup" -> left
      [] kind \in {"resolve", "ntp"} -> NTPTimeout
      [] kind \notin {"lookup", "resolve", "ntp"} /\ l.limit # "io" /\ target.timeout > 0 ->
             target.timeout
      [] kind \notin {"lookup", "resolve", "ntp"} /\ l.limit = "http" /\ target.timeout = 0 ->
             HTTPTimeout
      [] OTHER -> IOTimeout

(* Mutant: connections are opened without the context.                     *)
HeedsContextInRequests(kind) == kind \in {"lookup", "handshake", "get"}

HeedsContext(kind) == kind \in {"lookup", "dial", "handshake", "get"}

InTime == Kind = "secret" \/ (wait > 0 /\ (HeedsContext(Kind) => left > 0))

NoResult == [success |-> TRUE, failureLayer |-> "", failureCode |-> "", finalLayer |-> ""]

ExecutorInit ==
    /\ pc = "idle" /\ target = NoTarget /\ n = 0 /\ phase = 0
    /\ left = 0 /\ wait = 0 /\ result = NoResult
    /\ overrun = 0 /\ healthy = TRUE /\ served = FALSE

-----------------------------------------------------------------------------
Begin ==
    /\ pc = "idle"
    /\ pc' = "layers"
    /\ target' \in CheckedTargets /\ left' = CheckTimeout(target')
    /\ UNCHANGED <<n, phase, wait, result, overrun, healthy, served>>

(* The next enabled layer begins, with its first phase if it has one.      *)
NextLayer ==
    /\ pc = "layers" /\ ToCome # {}
    /\ n' = Min(ToCome)
    /\ LET l == Registry[target.type][n']
       IN  IF Phases(l, target) = << >>
           THEN /\ result' = [result EXCEPT !.finalLayer = l.name]
                /\ UNCHANGED <<pc, phase, wait>>
           ELSE /\ pc' = "talking" /\ phase' = 1 /\ wait' = Limit(l, l.phases[1])
                /\ UNCHANGED result
    /\ UNCHANGED <<target, left, overrun, healthy, served>>

LayersDone ==
    /\ pc = "layers" /\ ToCome = {}
    /\ pc' = "returned"
    /\ UNCHANGED <<target, n, phase, left, wait, result, overrun, healthy, served>>

(* The deadline of Redis's connection goes on while its Secret is read.    *)
NextPhase ==
    /\ phase' = phase + 1
    /\ LET next == Current.phases[phase + 1]
       IN  wait' = IF Kind = "secret" /\ next = "read" THEN wait ELSE Limit(Current, next)
    /\ UNCHANGED <<pc, result>>

LayerPasses ==
    /\ pc' = "layers" /\ phase' = 0 /\ wait' = 0
    /\ result' = [result EXCEPT !.finalLayer = Current.name]

LayerFails(code) ==
    /\ pc' = "returned" /\ phase' = 0 /\ wait' = 0
    /\ result' = [success |-> FALSE, failureLayer |-> Current.name,
                  failureCode |-> code, finalLayer |-> Current.name]

(* The phase under way ends with an answer or an error.                    *)
PhaseEnds(e) ==
    IF e = "accepted" /\ phase < Len(Current.phases)
    THEN NextPhase
    ELSE LET code == Code(Current, Kind, e)
         IN  IF code = Passed THEN LayerPasses ELSE LayerFails(code)

(* The pages that are got over TLS; those of MinIO and nginx, which have no *)
(* layer L3, are left out.                                                 *)
Secured ==
    \/ target.type \in {"https", "keycloak"}
    \/ "L3" \in target.layers /\ target.type \in {"elasticsearch", "opensearch"}

(* Which errors there are besides the answers.                             *)
Errors ==
    CASE Kind = "lookup"             -> {}
      [] Kind = "dial"               -> DialErrors
      [] Kind = "resolve"            -> {"unroutable", "nohost"}
      [] Kind = "ntp"                -> {"refused"}
      [] Kind = "secret"             -> DialErrors \cup {"nosecret", "timeout"}
      [] Kind = "handshake"          -> {"closed", "badcert"}
      [] Kind = "read"               -> {"closed"}
      [] Kind \in {"get", "bareGet"} ->
             DialErrors \cup {"closed"} \cup IF Secured THEN {"badcert"} ELSE {}

Answers ==
    CASE Kind = "dial"                   -> {"accepted"}
      [] Kind \in {"resolve", "secret"} -> {"accepted"} \cup Current.early
      [] OTHER                           -> DOMAIN Current.answers \ Current.early

(* What a layer may hear from the target's server in good order.  Those of *)
(* Kubernetes and of HTTP services outside the cluster may speak only TLS. *)
Expected(l) ==
    {e \in l.sound : /\ e = "other" => ~target.exact
                     /\ e = "tlsonly" => target.type \in {"kubernetes", "external_http"}}

Healthy(e) ==
    /\ e \in Answers
    /\ \/ Kind \in {"resolve", "secret", "dial"} /\ e = "accepted"
       \/ e \in Expected(Current)

Answer ==
    /\ pc = "talking" /\ InTime
    /\ \E e \in Answers \cup Errors :
           /\ PhaseEnds(e)
           /\ healthy' = (healthy /\ Healthy(e))
           /\ served' = \/ served
                        \/ Kind \notin {"resolve", "ntp", "lookup", "secret"} /\ e \in Answers
    /\ UNCHANGED <<target, n, left, overrun>>

(* Time is up.  The error of a request or a handshake that the context     *)
(* ends does not say "timeout", unless the request was still connecting.   *)
Expire ==
    /\ pc = "talking" /\ ~InTime
    /\ left > 0 \/ Kind # "handshake"
    /\ PhaseEnds("timeout")
    /\ healthy' = (healthy /\ Kind = "read" /\ Current.sound = {})
    /\ UNCHANGED <<target, n, left, overrun, served>>

ContextEnds ==
    /\ pc = "talking" /\ left = 0 /\ Kind \in {"get", "handshake"}
    /\ PhaseEnds("expired")
    /\ healthy' = FALSE
    /\ UNCHANGED <<target, n, left, overrun, served>>

Tick ==
    /\ pc = "talking" /\ InTime
    /\ wait' = IF wait > 0 THEN wait - 1 ELSE 0
    /\ left' = IF left > 0 THEN left - 1 ELSE 0
    /\ overrun' = CASE left > 0 -> 0
                    [] left = 0 /\ Kind = "secret" -> overrun
                    [] OTHER -> overrun + 1
    /\ UNCHANGED <<pc, target, n, phase, result, healthy, served>>

(* executeCheck returns and gives its token back.                          *)
CheckReturns ==
    /\ pc = "returned"
    /\ pc' = "idle" /\ target' = NoTarget /\ n' = 0 /\ phase' = 0
    /\ left' = 0 /\ wait' = 0 /\ result' = NoResult
    /\ overrun' = 0 /\ healthy' = TRUE /\ served' = FALSE

ExecutorNext == Begin \/ NextLayer \/ LayersDone \/ Answer \/ Expire \/ ContextEnds \/ Tick \/ CheckReturns

ExecutorSpec == ExecutorInit /\ [][ExecutorNext]_executorVars

-----------------------------------------------------------------------------
(* The types of the variables.                                             *)
ExecutorTypeOK ==
    /\ pc \in {"idle", "layers", "talking", "returned"}
    /\ IF pc = "idle" THEN target = NoTarget ELSE target \in CheckedTargets
    /\ n \in Nat /\ phase \in Nat
    /\ pc = "talking" =>
           n \in DOMAIN Registry[target.type] /\ phase \in 1..Len(Current.phases)
    /\ left \in Nat /\ wait \in Nat /\ overrun \in Nat
    /\ DOMAIN result = DOMAIN NoResult /\ result.success \in BOOLEAN
    /\ healthy \in BOOLEAN /\ served \in BOOLEAN

(* The types whose checker does not understand a server in good order; a   *)
(* server of the last two that speaks only TLS is asked in plain HTTP.     *)
Misread == {"kafka", "mysql", "postgresql", "rabbitmq", "kubernetes", "external_http"}

(* A target whose server is in good order, answers in time and asks for no *)
(* password and no client certificate passes its check, whatever layers    *)
(* are enabled and whatever Secrets they name, if HTTP targets say which   *)
(* status is good, or it is 200 (executor.go Execute, the layers' Check).  *)
HealthyPasses ==
    pc = "returned" /\ healthy /\ target.type \notin Misread /\ target.exact => result.success

(* A layer that connects is enabled.                                       *)
Connects ==
    \E i \in DOMAIN Registry[target.type] :
        LET l == Registry[target.type][i]
        IN  /\ Enabled(l, target)
            /\ Phases(l, target) \notin {<< >>, <<"resolve", "ntp">>, <<"lookup">>}

(* A check that passes has reached a server, although some layers take an  *)
(* error or silence for success (executor.go Execute, the layers' Check).  *)
SuccessIsServed ==
    pc = "returned" /\ result.success /\ Connects => served

(* Apart from the reading of Secrets, which nothing bounds, a check        *)
(* outlives its context by less than two timeouts of a connection (those   *)
(* of RabbitMQ's two layers), or two of NTP and one of a connection (L0    *)
(* and a page that is got without the context), or its own timeout, which  *)
(* Redis takes for its connection; no other layer adds its own timeout to  *)
(* those before (the layers' Check, which mix DialContext and deadlines).  *)
OverrunBounded ==
    overrun < Max({2 * IOTimeout, 2 * NTPTimeout + IOTimeout, target.timeout})
=============================================================================

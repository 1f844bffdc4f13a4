------------------------------ MODULE Delivery -------------------------------
(***************************************************************************)
(* The way of a check result from an agent to the decision engine.  The    *)
(* goroutine that ran the check calls ResultClient.SubmitResult, which     *)
(* calls the aggregator, gives up each call after a timeout, pauses and    *)
(* tries again; the whole takes place within what the check left of its    *)
(* own timeout.  Server.SubmitResult handles whatever arrives: a request   *)
(* may be handled after its caller gave it up, or handled and its answer   *)
(* lost, and is then handled again.                                        *)
(*                                                                         *)
(* A check may leave nothing of its timeout (CheckExecutor): its result is *)
(* then given up before it is sent.                                        *)
(*                                                                         *)
(* The aggregator's handler is here one step of the decision engine, of    *)
(* one target.  Times are what is left of them; a timer that is due fires  *)
(* before time goes on.                                                    *)
(***************************************************************************)
EXTENDS Integers, FiniteSets

CONSTANTS
    Submitters,      \* check goroutines, of any agent
    Target, NoRule,
    MaxResults,      \* bound on the checks
    MaxRetries, CallTimeout, RetryBackoff,
    Remaining,       \* what checks may leave of their timeout
    DefaultConsecutiveFailures,
    DefaultRecoverySuccesses

ASSUME DeliveryAssumption ==
    /\ MaxResults \in Nat /\ MaxRetries \in Nat
    /\ CallTimeout \in Nat /\ RetryBackoff \in Nat
    /\ DefaultConsecutiveFailures \in Nat \ {0} /\ DefaultRecoverySuccesses \in Nat \ {0}
    /\ Remaining \subseteq Nat /\ \E n \in Remaining : \A m \in Remaining : m <= n

VARIABLES
    submit,        \* what each submitter is doing
    requests,      \* calls on their way to the server
    answers,       \* calls the server has answered
    targetStates,  \* AlertDecisionEngine.targetStates
    results,       \* ghost: the results, in the order of their checks: TRUE
                   \*   for a success
    handled,       \* ghost: how often each result was handled
    sent           \* ghost: results SubmitResult reported as submitted

vars == <<submit, requests, answers, targetStates, results, handled, sent>>

Engine == INSTANCE AlertEngine
    WITH Targets <- {Target}, RuleNames <- {}, RuleSpecs <- {},
         rules <- [n \in {} |-> NoRule]

Ids == 1..MaxResults

(* A call is the attempt to submit a result.                               *)
Calls == [result : Ids, attempt : 0..MaxRetries]

Longest == CHOOSE n \in Remaining : \A m \in Remaining : m <= n

Backoff(attempt) == RetryBackoff * 2^attempt

Idle == [pc |-> "idle", result |-> 0, attempt |-> 0, timer |-> 0, left |-> 0, held |-> 0]

Submitting(s) == submit[s].pc # "idle"

Call(s) == [result |-> submit[s].result, attempt |-> submit[s].attempt]

-----------------------------------------------------------------------------
Init ==
    /\ submit = [s \in Submitters |-> Idle]
    /\ requests = {}
    /\ answers = {}
    /\ targetStates = [t \in {Target} |-> Engine!NewTargetState]
    /\ results = [id \in {} |-> TRUE]
    /\ handled = [id \in Ids |-> 0]
    /\ sent = {}

(* Agent.executeCheck has a result and calls SubmitResult.                 *)
SubmitResult(s) ==
    LET id == Cardinality(DOMAIN results) + 1
    IN  /\ ~Submitting(s) /\ MaxRetries > 0
        /\ id \in Ids
        /\ \E success \in BOOLEAN :
              results' = [i \in 1..id |-> IF i = id THEN success ELSE results[i]]
        /\ \E left \in Remaining :
              submit' = [submit EXCEPT ![s] =
                 [Idle EXCEPT !.pc = "connecting", !.result = id,
                              !.timer = CallTimeout, !.left = left]]
        /\ UNCHANGED <<requests, answers, targetStates, handled, sent>>

(* The timer of the submitter's call or pause, or its context, has fired.  *)
Due(s) == Submitting(s) /\ (submit[s].timer = 0 \/ submit[s].left = 0)

(* WaitForReady: the request leaves once there is a connection, and not    *)
(* when its time is up, which it may be from the beginning.                *)
Transmit(s) ==
    /\ submit[s].pc = "connecting" /\ ~Due(s)
    /\ submit' = [submit EXCEPT ![s].pc = "calling"]
    /\ requests' = requests \cup {Call(s)}
    /\ UNCHANGED <<answers, targetStates, results, handled, sent>>

Awaited(call) == \E s \in Submitters : submit[s].pc = "calling" /\ Call(s) = call

(* Server.SubmitResult: whether HandleResult succeeds or not, the call     *)
(* itself does, and nothing remembers the ResultId.  The answer to a call  *)
(* that was given up goes nowhere.                                         *)
Handle(call) ==
    /\ call \in requests
    /\ \E decision \in Engine!Decisions :
          Engine!ProcessResult(Target, results[call.result], decision)
    /\ handled' = [handled EXCEPT ![call.result] = @ + 1]
    /\ requests' = requests \ {call}
    /\ answers' = answers \cup {c \in {call} : Awaited(c)}
    /\ UNCHANGED <<submit, results, sent>>

(* A connection breaks, and with it a request or an answer is lost.        *)
Lose(call) ==
    /\ call \in requests \cup answers
    /\ requests' = requests \ {call}
    /\ answers' = answers \ {call}
    /\ UNCHANGED <<submit, targetStates, results, handled, sent>>

(* The answer is not looked at: a refused result is submitted as well.     *)
Succeed(s) ==
    /\ submit[s].pc = "calling"
    /\ Call(s) \in answers
    /\ answers' = answers \ {Call(s)}
    /\ sent' = sent \cup {submit[s].result}
    /\ submit' = [submit EXCEPT ![s] = Idle]
    /\ UNCHANGED <<requests, targetStates, results, handled>>

(* Mutant: a call that times out is taken for one that succeeded.          *)
FailQuietly(s) ==
    /\ submit[s].pc \in {"connecting", "calling"}
    /\ answers' = answers \ {Call(s)}
    /\ IF submit[s].timer = 0
         THEN /\ submit' = [submit EXCEPT ![s] = Idle]
              /\ sent' = sent \cup {submit[s].result}
         ELSE /\ submit' = [submit EXCEPT ![s].pc = "backoff",
                                          ![s].timer = Backoff(submit[s].attempt)]
              /\ UNCHANGED sent
    /\ UNCHANGED <<requests, targetStates, results, handled>>

(* The call times out, or its connection breaks; an answer that comes now  *)
(* is dropped, a request on its way is not.                                *)
Fail(s) ==
    /\ submit[s].pc \in {"connecting", "calling"}
    /\ answers' = answers \ {Call(s)}
    /\ submit' = [submit EXCEPT ![s].pc = "backoff",
                                ![s].timer = Backoff(submit[s].attempt)]
    /\ UNCHANGED <<requests, targetStates, results, handled, sent>>

(* Another attempt with what is left of the check's timeout, or the end.   *)
Again(s, max, left) ==
    IF submit[s].attempt + 1 < max
      THEN [submit[s] EXCEPT !.pc = "connecting", !.attempt = @ + 1,
                             !.timer = CallTimeout, !.left = left]
      ELSE Idle

(* Mutant: one retry too many.                                             *)
RetryOnceMore(s) ==
    /\ submit[s].pc = "backoff" /\ submit[s].timer = 0
    /\ submit' = [submit EXCEPT ![s] = Again(s, MaxRetries + 1, @.left)]
    /\ UNCHANGED <<requests, answers, targetStates, results, handled, sent>>

(* Mutant: a retry gets a timeout of its own instead of what is left.      *)
RetryAfresh(s) ==
    /\ submit[s].pc = "backoff" /\ submit[s].timer = 0
    /\ submit' = [submit EXCEPT ![s] = Again(s, MaxRetries, Longest)]
    /\ UNCHANGED <<requests, answers, targetStates, results, handled, sent>>

(* The pause is over, which follows the last attempt too.                  *)
Retry(s) ==
    /\ submit[s].pc = "backoff" /\ submit[s].timer = 0
    /\ submit' = [submit EXCEPT ![s] = Again(s, MaxRetries, @.left)]
    /\ UNCHANGED <<requests, answers, targetStates, results, handled, sent>>

(* The check's context ends during the pause.                              *)
GiveUp(s) ==
    /\ submit[s].pc = "backoff" /\ submit[s].left = 0
    /\ submit' = [submit EXCEPT ![s] = Idle]
    /\ UNCHANGED <<requests, answers, targetStates, results, handled, sent>>

Elapse(n) == IF n > 0 THEN n - 1 ELSE 0

Tick ==
    /\ \E s \in Submitters : Submitting(s)
    /\ \A s \in Submitters : ~Due(s)
    /\ submit' = [s \in Submitters |->
           IF Submitting(s)
             THEN [submit[s] EXCEPT !.timer = Elapse(@), !.left = Elapse(@), !.held = @ + 1]
             ELSE submit[s]]
    /\ UNCHANGED <<requests, answers, targetStates, results, handled, sent>>

Proceed(s) == Succeed(s) \/ Fail(s) \/ Retry(s) \/ GiveUp(s)

Next ==
    \/ \E s \in Submitters : SubmitResult(s) \/ Transmit(s) \/ Proceed(s)
    \/ \E call \in Calls : Handle(call) \/ Lose(call)
    \/ Tick

Spec == Init /\ [][Next]_vars

-----------------------------------------------------------------------------
(* Properties.                                                             *)

(* Delivery is at least once and bounded: a result that SubmitResult       *)
(* reports as submitted has been handled by the server, no result is       *)
(* handled more than MaxRetries times, not by requests either that arrive  *)
(* after SubmitResult has returned, and one that was given up is never     *)
(* reported, whatever is lost, given up or overtaken (result_client.go     *)
(* SubmitResult, server.go SubmitResult).                                  *)
Promise == INSTANCE AtLeastOnce
    WITH Items <- Ids, MaxDeliveries <- MaxRetries,
         offered <- DOMAIN results,
         open <- {submit[s].result : s \in {t \in Submitters : Submitting(t)}},
         delivered <- handled, confirmed <- sent

DeliversAtLeastOnce == Promise!Spec

(* Retries make one failure count several times, but no more than          *)
(* MaxRetries times, however late and in whatever order requests arrive:   *)
(* an alert has enough failures behind it when each is counted as often    *)
(* (result_client.go SubmitResult, alerting.go ProcessResult).             *)
AlertNeedsFailures ==
    targetStates[Target].IsAlerting =>
        MaxRetries * Cardinality({id \in DOMAIN results : ~results[id] /\ handled[id] > 0})
            >= DefaultConsecutiveFailures

(* Retries and pauses together keep the goroutine of a check, and with it  *)
(* the scheduler's token, no longer than the check left of its timeout     *)
(* (result_client.go SubmitResult, submitResultWithTimeout).               *)
SubmissionBounded == \A s \in Submitters : submit[s].held <= Longest

=============================================================================

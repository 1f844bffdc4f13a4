--------------------------- MODULE DeliveryProofs ----------------------------
(***************************************************************************)
(* Delivery implements AtLeastOnce for any number of submitters and        *)
(* results, any timeouts and any number of retries.                        *)
(*                                                                         *)
(* An answer exists only of a handled call, which makes what is confirmed  *)
(* delivered.  That no result is handled too often is counted: what was    *)
(* handled of a result and what is still on its way are together no more   *)
(* than the attempts its submission has made, also when it is long over.   *)
(***************************************************************************)
EXTENDS Delivery, FiniteSetTheorems, TLAPS

Requested(id) == {c \in requests : c.result = id}

(* The attempts that may have put a request on its way.                    *)
Made(s) == submit[s].attempt + (IF submit[s].pc = "connecting" THEN 0 ELSE 1)

Types ==
    /\ \E n \in 0..MaxResults : DOMAIN results = 1..n
    /\ requests \subseteq Calls /\ IsFiniteSet(requests)
    /\ answers \subseteq Calls
    /\ handled \in [Ids -> Nat]
    /\ DOMAIN submit = Submitters

(* Times are left untyped: nothing here depends on them.                   *)
Submission(s) ==
    /\ DOMAIN submit[s] = {"pc", "result", "attempt", "timer", "left", "held"}
    /\ Submitting(s) => /\ submit[s].result \in DOMAIN results
                        /\ submit[s].attempt \in 0..(MaxRetries - 1)

Submissions ==
    /\ \A s \in Submitters : Submission(s)
    /\ \A s, t \in Submitters :
          Submitting(s) /\ Submitting(t) /\ submit[s].result = submit[t].result => s = t

AnswersHandled == \A c \in answers : handled[c.result] > 0

Counted(id) == handled[id] + Cardinality(Requested(id))

AttemptsCounted ==
    /\ \A id \in Ids : Counted(id) <= (IF id \in DOMAIN results THEN MaxRetries ELSE 0)
    /\ \A s \in Submitters : Submitting(s) => Counted(submit[s].result) <= Made(s)

Inv == Types /\ Submissions /\ AnswersHandled /\ AttemptsCounted

-----------------------------------------------------------------------------
LEMMA RequestedFinite ==
    ASSUME Types, NEW id \in Ids
    PROVE  IsFiniteSet(Requested(id)) /\ Cardinality(Requested(id)) \in Nat
<1>1. Requested(id) \subseteq requests
    BY DEF Requested
<1> QED BY <1>1, FS_Subset, FS_CardinalityType DEF Types

LEMMA OfferedAreIds == Types => DOMAIN results \subseteq Ids
BY DeliveryAssumption DEF Types, Ids

LEMMA InitInv == Init => Inv /\ Promise!Init
<1> SUFFICES ASSUME Init PROVE Inv /\ Promise!Init
    OBVIOUS
<1>0. MaxResults \in Nat /\ MaxRetries \in Nat
    BY DeliveryAssumption
<1>1. \A s \in Submitters : submit[s] = Idle /\ ~Submitting(s)
    BY DEF Init, Idle, Submitting
<1>2. DOMAIN results = {} /\ DOMAIN results = 1..0
    BY DEF Init
<1>3. Types
    BY <1>0, <1>2, FS_EmptySet DEF Init, Types
<1>4. Submissions
    BY <1>1 DEF Submissions, Submission, Idle
<1>5. AnswersHandled
    BY DEF Init, AnswersHandled
<1>6. AttemptsCounted
    <2>1. \A id \in Ids : Requested(id) = {} /\ handled[id] = 0
        BY DEF Init, Requested
    <2> QED BY <1>0, <1>1, <2>1, FS_EmptySet DEF AttemptsCounted, Counted
<1>7. Promise!Init
    BY <1>1, <1>2 DEF Init, Promise!Init
<1> QED BY <1>3, <1>4, <1>5, <1>6, <1>7 DEF Inv

(* What a step that neither hands over nor handles a result and puts no    *)
(* request on its way does to a submission: it goes on, with no fewer      *)
(* attempts made, or it ends.                                              *)
GoesOn(s) ==
    /\ Submitting(s) /\ Submitting(s)'
    /\ submit'[s].result = submit[s].result
    /\ submit'[s].attempt \in 0..(MaxRetries - 1)
    /\ Made(s)' >= Made(s)

Quietly ==
    /\ DOMAIN submit' = Submitters
    /\ \A s \in Submitters :
          /\ DOMAIN submit'[s] = {"pc", "result", "attempt", "timer", "left", "held"}
          /\ ~Submitting(s)' \/ GoesOn(s)
    /\ requests' \subseteq requests /\ answers' \subseteq answers
    /\ UNCHANGED <<results, handled>>

LEMMA QuietInv == Inv /\ Quietly => Inv'
<1> SUFFICES ASSUME Inv, Quietly PROVE Inv'
    OBVIOUS
<1> USE DEF Inv
<1>1. Types'
    BY FS_Subset DEF Types, Quietly
<1>2. Submissions'
    BY DEF Submissions, Submission, Quietly, GoesOn
<1>3. AnswersHandled'
    BY DEF AnswersHandled, Quietly
<1>4. ASSUME NEW id \in Ids PROVE Counted(id)' <= Counted(id) /\ Counted(id) \in Nat /\ Counted(id)' \in Nat
    <2>1. Requested(id)' \subseteq Requested(id)
        BY DEF Requested, Quietly
    <2>2. Cardinality(Requested(id)') <= Cardinality(Requested(id))
        BY <2>1, RequestedFinite, FS_Subset
    <2>3. IsFiniteSet(Requested(id)') /\ Cardinality(Requested(id)') \in Nat
        BY <2>1, RequestedFinite, FS_Subset, FS_CardinalityType
    <2>4. handled'[id] = handled[id] /\ handled[id] \in Nat
        BY DEF Quietly, Types
    <2> QED BY <2>2, <2>3, <2>4, RequestedFinite DEF Counted
<1>5. AttemptsCounted'
    <2>1. \A id \in Ids : Counted(id)' <= (IF id \in DOMAIN results' THEN MaxRetries ELSE 0)
        BY <1>4, DeliveryAssumption DEF AttemptsCounted, Quietly
    <2>2. ASSUME NEW s \in Submitters, Submitting(s)'
          PROVE  Counted(submit[s].result)' <= Made(s)'
        <3>1. GoesOn(s) /\ submit[s].result \in Ids
            BY <2>2, OfferedAreIds DEF Quietly, Submissions, Submission, GoesOn
        <3>2. Counted(submit[s].result) <= Made(s)
            BY <3>1 DEF AttemptsCounted, GoesOn
        <3>3. Made(s) \in Int /\ Made(s)' \in Int /\ Made(s)' >= Made(s)
            BY <3>1, DeliveryAssumption DEF Made, GoesOn, Submissions, Submission
        <3> QED BY <1>4, <3>1, <3>2, <3>3 DEF GoesOn
    <2> QED BY <2>1, <2>2 DEF AttemptsCounted
<1> QED BY <1>1, <1>2, <1>3, <1>5

(* A submission that a step leaves alone.                                  *)
LEMMA Unmoved ==
    ASSUME Inv, NEW s \in Submitters, submit'[s] = submit[s]
    PROVE  /\ DOMAIN submit'[s] = {"pc", "result", "attempt", "timer", "left", "held"}
           /\ ~Submitting(s)' \/ GoesOn(s)
<1>1. Made(s)' = Made(s) /\ (Submitting(s) => Made(s) \in Int)
    BY DeliveryAssumption DEF Made, Inv, Submissions, Submission
<1> QED BY <1>1 DEF Inv, Submissions, Submission, GoesOn, Submitting

LEMMA QuietSteps ==
    ASSUME Inv,
           \/ \E s \in Submitters : Succeed(s) \/ Fail(s) \/ Retry(s) \/ GiveUp(s)
           \/ \E call \in Calls : Lose(call)
           \/ Tick
           \/ UNCHANGED vars
    PROVE  Quietly
<1>1. ASSUME NEW s \in Submitters, Succeed(s) \/ Fail(s) \/ Retry(s) \/ GiveUp(s)
      PROVE  Quietly
    <2>1. /\ DOMAIN submit' = Submitters
          /\ \A t \in Submitters : t # s => submit'[t] = submit[t]
          /\ requests' \subseteq requests /\ answers' \subseteq answers
          /\ UNCHANGED <<results, handled>>
        BY <1>1 DEF Inv, Types, Succeed, Fail, Retry, GiveUp
    <2>2. DOMAIN submit'[s] = {"pc", "result", "attempt", "timer", "left", "held"}
        BY <1>1 DEF Inv, Types, Submissions, Submission, Succeed, Fail, Retry, GiveUp, Again, Idle
    <2>3. ~Submitting(s)' \/ GoesOn(s)
        <3>0. Submitting(s) /\ submit[s].attempt \in 0..(MaxRetries - 1)
            BY <1>1 DEF Inv, Submissions, Submission, Submitting, Succeed, Fail, Retry, GiveUp
        <3>1. CASE submit'[s] = Idle
            BY <3>1 DEF Idle, Submitting
        <3>2. CASE Fail(s)
            <4>1. /\ submit'[s].pc = "backoff" /\ submit'[s].result = submit[s].result
                  /\ submit'[s].attempt = submit[s].attempt
                BY <3>2 DEF Fail, Inv, Types, Submissions, Submission
            <4> QED BY <3>0, <4>1, DeliveryAssumption DEF GoesOn, Made, Submitting
        <3>3. CASE Retry(s) /\ submit'[s] # Idle
            <4>1. /\ submit[s].pc = "backoff"
                  /\ submit'[s].pc = "connecting" /\ submit'[s].result = submit[s].result
                  /\ submit'[s].attempt = submit[s].attempt + 1
                  /\ submit[s].attempt + 1 < MaxRetries
                BY <3>3 DEF Retry, Again, Inv, Types, Submissions, Submission
            <4> QED BY <3>0, <4>1, DeliveryAssumption DEF GoesOn, Made, Submitting
        <3> QED BY <1>1, <3>1, <3>2, <3>3 DEF Succeed, GiveUp, Inv, Types
    <2> QED BY <2>1, <2>2, <2>3, Unmoved DEF Quietly
<1>2. ASSUME NEW call \in Calls, Lose(call)
      PROVE  Quietly
    BY <1>2, Unmoved DEF Lose, Quietly, Inv, Types
<1>3. CASE Tick
    <2>1. ASSUME NEW s \in Submitters
          PROVE  /\ DOMAIN submit'[s] = {"pc", "result", "attempt", "timer", "left", "held"}
                 /\ submit'[s].pc = submit[s].pc /\ submit'[s].result = submit[s].result
                 /\ submit'[s].attempt = submit[s].attempt
        BY <1>3 DEF Tick, Inv, Submissions, Submission
    <2>2. ASSUME NEW s \in Submitters, Submitting(s)' PROVE GoesOn(s)
        BY <2>1, <2>2, DeliveryAssumption DEF GoesOn, Made, Submitting, Inv, Submissions, Submission
    <2> QED BY <1>3, <2>1, <2>2 DEF Tick, Quietly
<1>4. CASE UNCHANGED vars
    BY <1>4, Unmoved DEF vars, Quietly, Inv, Types
<1> QED BY <1>1, <1>2, <1>3, <1>4

LEMMA SubmitInv ==
    ASSUME Inv, NEW s \in Submitters, SubmitResult(s)
    PROVE  /\ Inv'
           /\ \E id \in Ids : /\ id \notin DOMAIN results
                              /\ DOMAIN results' = DOMAIN results \cup {id}
                              /\ submit'[s].result = id
           /\ Submitting(s)' /\ ~Submitting(s)
           /\ \A t \in Submitters \ {s} : submit'[t] = submit[t]
           /\ UNCHANGED <<requests, answers, handled, sent>>
<1> DEFINE id == Cardinality(DOMAIN results) + 1
<1>0. MaxResults \in Nat /\ MaxRetries \in Nat /\ MaxRetries > 0
    BY DeliveryAssumption DEF SubmitResult
<1>1. PICK n \in 0..MaxResults : DOMAIN results = 1..n
    BY DEF Inv, Types
<1>2. id = n + 1 /\ n \in Nat /\ id \in Ids
    <2>1. Cardinality(1..n) = n
        BY <1>0, FS_Interval
    <2>2. id \in Ids
        BY DEF SubmitResult
    <2> QED BY <1>0, <1>1, <2>1, <2>2
<1>3. id \notin DOMAIN results /\ DOMAIN results' = 1..id
    BY <1>1, <1>2 DEF SubmitResult
<1>4. DOMAIN results' = DOMAIN results \cup {id}
    BY <1>1, <1>2, <1>3
<1>5. PICK left \in Remaining : submit' = [submit EXCEPT ![s] =
                 [Idle EXCEPT !.pc = "connecting", !.result = id,
                              !.timer = CallTimeout, !.left = left]]
    BY DEF SubmitResult
<1>6. /\ submit'[s].pc = "connecting" /\ submit'[s].result = id /\ submit'[s].attempt = 0
      /\ DOMAIN submit'[s] = {"pc", "result", "attempt", "timer", "left", "held"}
      /\ DOMAIN submit' = Submitters
      /\ \A t \in Submitters \ {s} : submit'[t] = submit[t]
    BY <1>5 DEF Idle, Inv, Types
<1>7. UNCHANGED <<requests, answers, handled, sent>> /\ ~Submitting(s)
    BY DEF SubmitResult
<1>8. Types'
    BY <1>0, <1>2, <1>3, <1>6, <1>7 DEF Inv, Types, Ids
<1>9. Submissions'
    <2>1. ASSUME NEW t \in Submitters \ {s}
          PROVE  /\ Submission(t)' /\ (Submitting(t)' <=> Submitting(t))
                 /\ Submitting(t) => submit'[t].result # id
        <3>1. submit'[t] = submit[t] /\ Submission(t)
            BY <1>6 DEF Inv, Submissions
        <3>2. Submitting(t)' <=> Submitting(t)
            BY <3>1 DEF Submitting
        <3>3. DOMAIN results \subseteq DOMAIN results' /\ id \notin DOMAIN results
            BY <1>3, <1>4
        <3> HIDE DEF id
        <3> QED BY <3>1, <3>2, <3>3 DEF Submission
    <2>2. Submission(s)'
        BY <1>0, <1>4, <1>6 DEF Submission
    <2>3. \A t, u \in Submitters :
             Submitting(t)' /\ Submitting(u)' /\ submit'[t].result = submit'[u].result => t = u
        BY <1>6, <2>1 DEF Inv, Submissions
    <2> QED BY <2>1, <2>2, <2>3 DEF Submissions
<1>10. AnswersHandled'
    BY <1>7 DEF Inv, AnswersHandled
<1>11. AttemptsCounted'
    <2>1. \A i \in Ids : Counted(i)' = Counted(i) /\ Counted(i) \in Nat
        <3>1. \A i \in Ids : Requested(i)' = Requested(i)
            BY <1>7 DEF Requested
        <3> QED BY <1>7, <3>1, RequestedFinite DEF Counted, Inv, Types
    <2>2. Counted(id) = 0 /\ Made(s)' = 0
        BY <1>2, <1>3, <1>6, <2>1 DEF Inv, AttemptsCounted, Made
    <2>3. \A i \in Ids : Counted(i)' <= (IF i \in DOMAIN results' THEN MaxRetries ELSE 0)
        BY <1>0, <1>2, <1>4, <2>1, <2>2 DEF Inv, AttemptsCounted
    <2>4. \A t \in Submitters : Submitting(t)' => Counted(submit[t].result)' <= Made(t)'
        <3>1. Counted(submit[s].result)' = Counted(id)
            BY <1>2, <1>6, <1>7 DEF Counted, Requested
        <3>2. ASSUME NEW t \in Submitters \ {s}, Submitting(t)'
              PROVE  Counted(submit[t].result)' <= Made(t)'
            <4>1. submit'[t] = submit[t] /\ Submitting(t) /\ submit[t].result \in Ids
                BY <1>6, <3>2, OfferedAreIds DEF Submitting, Inv, Submissions, Submission
            <4>2. Counted(submit[t].result)' = Counted(submit[t].result)
                BY <1>7, <4>1 DEF Counted, Requested
            <4> QED BY <4>1, <4>2 DEF Made, Inv, AttemptsCounted
        <3> QED BY <2>2, <3>1, <3>2
    <2> QED BY <2>3, <2>4 DEF AttemptsCounted
<1> QED BY <1>2, <1>3, <1>4, <1>6, <1>7, <1>8, <1>9, <1>10, <1>11 DEF Inv, Submitting

LEMMA TransmitInv ==
    ASSUME Inv, NEW s \in Submitters, Transmit(s)
    PROVE  /\ Inv'
           /\ \A t \in Submitters : /\ Submitting(t)' <=> Submitting(t)
                                    /\ submit'[t].result = submit[t].result
           /\ UNCHANGED <<results, handled, sent>>
<1>0. MaxResults \in Nat /\ MaxRetries \in Nat
    BY DeliveryAssumption
<1>1. /\ submit[s].pc = "connecting" /\ Submitting(s)
      /\ submit[s].result \in Ids /\ submit[s].result \in DOMAIN results
      /\ submit[s].attempt \in 0..(MaxRetries - 1)
    BY OfferedAreIds DEF Transmit, Submitting, Inv, Submissions, Submission
<1>2. /\ submit'[s].pc = "calling" /\ submit'[s].result = submit[s].result
      /\ submit'[s].attempt = submit[s].attempt
      /\ DOMAIN submit'[s] = {"pc", "result", "attempt", "timer", "left", "held"}
      /\ DOMAIN submit' = Submitters
      /\ \A t \in Submitters \ {s} : submit'[t] = submit[t]
    BY DEF Transmit, Inv, Types, Submissions, Submission
<1>3. requests' = requests \cup {Call(s)} /\ UNCHANGED <<answers, results, handled, sent>>
    BY DEF Transmit
<1>4. Call(s) \in Calls /\ Call(s).result = submit[s].result
    BY <1>0, <1>1 DEF Call, Calls
<1>5. Types'
    BY <1>2, <1>3, <1>4, FS_AddElement DEF Inv, Types
<1>6. Submissions'
    BY <1>1, <1>2, <1>3 DEF Inv, Submissions, Submission, Submitting
<1>7. AnswersHandled'
    BY <1>3 DEF Inv, AnswersHandled
<1>8. \A id \in Ids : Counted(id) \in Nat
    BY RequestedFinite DEF Counted, Inv, Types
<1>9. \A id \in Ids \ {submit[s].result} : Counted(id)' = Counted(id)
    <2>1. \A id \in Ids \ {submit[s].result} : Requested(id)' = Requested(id)
        BY <1>3, <1>4 DEF Requested
    <2> QED BY <1>3, <2>1 DEF Counted
<1>10. Counted(submit[s].result)' \in Nat /\ Counted(submit[s].result)' <= Counted(submit[s].result) + 1
    <2> DEFINE id == submit[s].result
    <2>1. {c \in requests' : c.result = id} = Requested(id) \cup {Call(s)}
        BY <1>3, <1>4 DEF Requested
    <2>2. Cardinality(Requested(id) \cup {Call(s)}) \in
             {Cardinality(Requested(id)), Cardinality(Requested(id)) + 1}
        BY <1>1, RequestedFinite, FS_AddElement DEF Inv
    <2>3. Counted(submit[s].result)' = handled[id] + Cardinality(Requested(id) \cup {Call(s)})
        BY <1>2, <1>3, <2>1 DEF Counted, Requested
    <2>4. handled[id] \in Nat /\ Cardinality(Requested(id)) \in Nat
        BY <1>1, RequestedFinite DEF Inv, Types
    <2> QED BY <2>2, <2>3, <2>4 DEF Counted
<1>11. /\ Counted(submit[s].result)' <= Made(s)' /\ Made(s)' <= MaxRetries
       /\ Made(s)' \in Int
    BY <1>0, <1>1, <1>2, <1>8, <1>10 DEF Made, Inv, AttemptsCounted
<1>12. AttemptsCounted'
    <2>1. ASSUME NEW id \in Ids
          PROVE  Counted(id)' <= (IF id \in DOMAIN results' THEN MaxRetries ELSE 0)
        <3>1. CASE id = submit[s].result
            <4>1. Counted(id)' = Counted(submit[s].result)'
                BY <1>2, <3>1 DEF Counted, Requested
            <4> QED BY <1>0, <1>1, <1>3, <1>10, <1>11, <3>1, <4>1
        <3> QED BY <1>3, <1>9, <3>1 DEF Inv, AttemptsCounted
    <2>2. ASSUME NEW t \in Submitters, t # s, Submitting(t)'
          PROVE  Counted(submit[t].result)' <= Made(t)'
        <3>1. /\ submit'[t] = submit[t] /\ Submitting(t) /\ submit[t].result \in Ids
              /\ submit[t].result # submit[s].result
            BY <1>1, <1>2, <2>2, OfferedAreIds DEF Submitting, Inv, Submissions, Submission
        <3>2. Counted(submit[t].result)' = Counted(submit[t].result)
            <4>1. {c \in requests' : c.result = submit[t].result} = Requested(submit[t].result)
                BY <1>3, <1>4, <3>1 DEF Requested
            <4> QED BY <1>3, <3>1, <4>1 DEF Counted, Requested
        <3> QED BY <3>1, <3>2 DEF Made, Inv, AttemptsCounted
    <2> QED BY <1>11, <2>1, <2>2 DEF AttemptsCounted
<1> QED BY <1>1, <1>2, <1>3, <1>5, <1>6, <1>7, <1>12 DEF Inv, Submitting

LEMMA HandleInv ==
    ASSUME Inv, NEW call \in Calls, Handle(call)
    PROVE  /\ Inv'
           /\ call.result \in DOMAIN results /\ handled[call.result] < MaxRetries
           /\ handled' = [handled EXCEPT ![call.result] = @ + 1]
           /\ UNCHANGED <<submit, results, sent>>
<1> DEFINE id == call.result
<1>1. /\ call \in requests /\ requests' = requests \ {call}
      /\ handled' = [handled EXCEPT ![id] = @ + 1]
      /\ answers' \subseteq answers \cup {call}
      /\ UNCHANGED <<submit, results, sent>>
    BY DEF Handle
<1>2. id \in Ids /\ handled[id] \in Nat
    BY DEF Calls, Inv, Types
<1>3. call \in Requested(id)
    BY <1>1 DEF Requested
<1>4. /\ Requested(id)' = Requested(id) \ {call}
      /\ \A i \in Ids \ {id} : Requested(i)' = Requested(i)
    BY <1>1 DEF Requested
<1>5. /\ Cardinality(Requested(id)') = Cardinality(Requested(id)) - 1
      /\ Cardinality(Requested(id)) \in Nat /\ Cardinality(Requested(id)') \in Nat
    BY <1>2, <1>3, <1>4, RequestedFinite, FS_RemoveElement, FS_CardinalityType DEF Inv
<1>6. \A i \in Ids : Counted(i)' = Counted(i)
    <2>1. Counted(id)' = Counted(id)
        BY <1>1, <1>2, <1>5 DEF Counted, Inv, Types
    <2>2. \A i \in Ids \ {id} : Counted(i)' = Counted(i)
        BY <1>1, <1>4 DEF Counted, Inv, Types
    <2> QED BY <2>1, <2>2
<1>7. id \in DOMAIN results /\ handled[id] < MaxRetries
    BY <1>2, <1>5, DeliveryAssumption DEF Counted, Inv, AttemptsCounted
<1>8. Types'
    BY <1>1, <1>2, FS_RemoveElement DEF Inv, Types
<1>9. Submissions'
    BY <1>1 DEF Inv, Submissions, Submission, Submitting
<1>10. AnswersHandled'
    <2>1. handled'[id] > 0 /\ \A i \in Ids : handled'[i] >= handled[i]
        BY <1>1, <1>2 DEF Inv, Types
    <2>2. \A c \in answers : c.result \in Ids /\ handled[c.result] \in Nat
        BY DEF Calls, Inv, Types
    <2>3. \A i \in Ids : handled'[i] \in Nat /\ handled[i] \in Nat
        BY <1>8 DEF Inv, Types
    <2> QED BY <1>1, <2>1, <2>2, <2>3 DEF Inv, AnswersHandled
<1>11. AttemptsCounted'
    <2>1. ASSUME NEW s \in Submitters, Submitting(s)'
          PROVE  Counted(submit[s].result)' <= Made(s)'
        <3>1. Submitting(s) /\ submit[s].result \in Ids /\ Made(s)' = Made(s)
            BY <1>1, <2>1, OfferedAreIds DEF Submitting, Made, Inv, Submissions, Submission
        <3>2. Counted(submit[s].result)' = Counted(submit[s].result)
            BY <1>1, <1>6, <3>1 DEF Counted, Requested
        <3> QED BY <3>1, <3>2 DEF Inv, AttemptsCounted
    <2> QED BY <1>1, <1>6, <2>1 DEF Inv, AttemptsCounted
<1> QED BY <1>1, <1>7, <1>8, <1>9, <1>10, <1>11 DEF Inv

LEMMA StepInv == Inv /\ [Next]_vars => Inv'
BY QuietSteps, QuietInv, SubmitInv, TransmitInv, HandleInv DEF Next, Proceed

-----------------------------------------------------------------------------
Open == {submit[s].result : s \in {t \in Submitters : Submitting(t)}}

(* Results of submissions that are under way tell them apart, so that one  *)
(* that ends takes its own result out of those that are open, and no other.*)
LEMMA EndsAlone ==
    ASSUME Inv, NEW s \in Submitters, Submitting(s), ~Submitting(s)',
           \A t \in Submitters \ {s} : submit'[t] = submit[t]
    PROVE  Open' = Open \ {submit[s].result} /\ submit[s].result \in Open
<1>1. \A t \in Submitters \ {s} : Submitting(t)' <=> Submitting(t)
    BY DEF Submitting
<1>2. \A t \in Submitters \ {s} : Submitting(t) => submit[t].result # submit[s].result
    BY DEF Inv, Submissions
<1> QED BY <1>1, <1>2 DEF Open

LEMMA GoOnTogether ==
    ASSUME \A s \in Submitters : /\ Submitting(s)' <=> Submitting(s)
                                 /\ Submitting(s) => submit'[s].result = submit[s].result
    PROVE  Open' = Open
BY DEF Open

LEMMA StepRefines == Inv /\ [Next]_vars => [Promise!Next]_(Promise!promise)
<1> SUFFICES ASSUME Inv, [Next]_vars PROVE [Promise!Next]_(Promise!promise)
    OBVIOUS
<1>1. ASSUME NEW s \in Submitters, SubmitResult(s)
      PROVE  Promise!Next
    <2>1. PICK id \in Ids : /\ id \notin DOMAIN results
                            /\ DOMAIN results' = DOMAIN results \cup {id}
                            /\ submit'[s].result = id
        BY <1>1, SubmitInv
    <2>2. /\ Submitting(s)' /\ ~Submitting(s)
          /\ \A t \in Submitters \ {s} : submit'[t] = submit[t]
          /\ UNCHANGED <<handled, sent>>
        BY <1>1, SubmitInv
    <2>3. Open' = Open \cup {id}
        <3>1. \A t \in Submitters \ {s} : Submitting(t)' <=> Submitting(t)
            BY <2>2 DEF Submitting
        <3> QED BY <2>1, <2>2, <3>1 DEF Open
    <2>4. Promise!Offer(id)
        BY <2>1, <2>2, <2>3 DEF Promise!Offer, Open
    <2> QED BY <2>4 DEF Promise!Next
<1>2. ASSUME NEW s \in Submitters, Transmit(s)
      PROVE  UNCHANGED Promise!promise
    BY <1>2, TransmitInv, GoOnTogether DEF Promise!promise, Open
<1>3. ASSUME NEW call \in Calls, Handle(call)
      PROVE  Promise!Next
    <2>1. call.result \in Ids
        BY DEF Calls
    <2>2. UNCHANGED <<submit, results, sent>>
        BY <1>3, HandleInv
    <2>3. Open' = Open
        BY <2>2 DEF Open, Submitting
    <2>4. Promise!Deliver(call.result)
        BY <1>3, <2>2, <2>3, HandleInv DEF Promise!Deliver, Open
    <2> QED BY <2>1, <2>4 DEF Promise!Next
<1>4. ASSUME NEW s \in Submitters, Succeed(s)
      PROVE  Promise!Next
    <2>1. /\ Submitting(s) /\ Call(s) \in answers /\ submit[s].result \in Ids
          /\ sent' = sent \cup {submit[s].result}
          /\ \A t \in Submitters \ {s} : submit'[t] = submit[t]
          /\ UNCHANGED <<results, handled>>
        BY <1>4, OfferedAreIds DEF Succeed, Submitting, Inv, Types, Submissions, Submission
    <2>2. handled[submit[s].result] > 0
        BY <2>1 DEF Inv, AnswersHandled, Call
    <2>3. ~Submitting(s)'
        BY <1>4 DEF Succeed, Idle, Submitting, Inv, Types
    <2>4. Open' = Open \ {submit[s].result} /\ submit[s].result \in Open
        BY <2>1, <2>3, EndsAlone
    <2>5. PICK id \in Ids : id = submit[s].result
        BY <2>1
    <2>6. Promise!Confirm(id)
        BY <2>1, <2>2, <2>4, <2>5 DEF Promise!Confirm, Open
    <2> QED BY <2>6 DEF Promise!Next
<1>5. ASSUME NEW s \in Submitters, Retry(s) \/ GiveUp(s)
      PROVE  [Promise!Next]_(Promise!promise)
    <2>1. /\ Submitting(s) /\ submit[s].result \in Ids
          /\ \A t \in Submitters \ {s} : submit'[t] = submit[t]
          /\ UNCHANGED <<results, handled, sent>>
        BY <1>5, OfferedAreIds DEF Retry, GiveUp, Submitting, Inv, Types, Submissions, Submission
    <2>2. CASE ~Submitting(s)'
        <3>1. Open' = Open \ {submit[s].result} /\ submit[s].result \in Open
            BY <2>1, <2>2, EndsAlone
        <3>2. PICK id \in Ids : id = submit[s].result
            BY <2>1
        <3>3. Promise!GiveUp(id)
            BY <2>1, <3>1, <3>2 DEF Promise!GiveUp, Open
        <3> QED BY <3>3 DEF Promise!Next
    <2>3. CASE Submitting(s)'
        <3>1. GoesOn(s)
            BY <1>5, <2>3, QuietSteps DEF Quietly
        <3>2. Open' = Open
            BY <2>1, <2>3, <3>1, GoOnTogether DEF GoesOn, Submitting
        <3> QED BY <2>1, <3>2 DEF Promise!promise, Open
    <2> QED BY <2>2, <2>3
<1>6. CASE \/ \E s \in Submitters : Fail(s)
           \/ \E call \in Calls : Lose(call)
           \/ Tick
           \/ UNCHANGED vars
    <2>1. UNCHANGED <<results, handled, sent>>
        BY <1>6 DEF Fail, Lose, Tick, vars
    <2>2. ASSUME NEW s \in Submitters
          PROVE  /\ Submitting(s)' <=> Submitting(s)
                 /\ submit'[s].result = submit[s].result
        <3>1. CASE \E t \in Submitters : Fail(t)
            BY <3>1 DEF Fail, Submitting, Inv, Types, Submissions, Submission
        <3>2. CASE Tick
            BY <3>2 DEF Tick, Submitting, Inv, Submissions, Submission
        <3>3. CASE UNCHANGED submit
            BY <3>3 DEF Submitting
        <3> QED BY <1>6, <3>1, <3>2, <3>3 DEF Lose, vars
    <2>3. Open' = Open
        BY <2>2, GoOnTogether
    <2> QED BY <2>1, <2>3 DEF Promise!promise, Open
<1> QED BY <1>1, <1>2, <1>3, <1>4, <1>5, <1>6 DEF Next, Proceed

-----------------------------------------------------------------------------
(* The way of a result keeps its promise, for any number of submitters and *)
(* results, any timeouts and any number of retries (result_client.go       *)
(* SubmitResult, server.go SubmitResult).                                  *)
THEOREM DeliveryImplements == Spec => DeliversAtLeastOnce
<1> QED BY InitInv, StepInv, StepRefines, PTL DEF Spec, DeliversAtLeastOnce, Promise!Spec

-----------------------------------------------------------------------------
(* What a submission has been held for and what is left of its check's     *)
(* timeout never exceed what the check left it.                            *)
HeldInv ==
    /\ DOMAIN submit = Submitters
    /\ \A s \in Submitters :
          /\ DOMAIN submit[s] = {"pc", "result", "attempt", "timer", "left", "held"}
          /\ submit[s].left \in Nat /\ submit[s].held \in Nat
          /\ submit[s].held + submit[s].left <= Longest

LEMMA LongestIsMax == Longest \in Nat /\ \A m \in Remaining : m \in Nat /\ m <= Longest
BY DeliveryAssumption DEF Longest

LEMMA HeldInitInv == Init => HeldInv
BY LongestIsMax DEF Init, HeldInv, Idle

(* A step that leaves time alone, but for a submission that ends or begins.*)
LEMMA HeldUnlessTick ==
    ASSUME HeldInv, NEW s \in Submitters, DOMAIN submit' = Submitters,
           \A t \in Submitters \ {s} : submit'[t] = submit[t],
           DOMAIN submit'[s] = {"pc", "result", "attempt", "timer", "left", "held"},
           \/ submit'[s].held = submit[s].held /\ submit'[s].left = submit[s].left
           \/ submit'[s].held = 0 /\ submit'[s].left \in Remaining \cup {0}
    PROVE  HeldInv'
<1>1. Longest' = Longest
    BY DEF Longest
<1> QED BY <1>1, LongestIsMax DEF HeldInv

LEMMA HeldStepInv == HeldInv /\ [Next]_vars => HeldInv'
<1> SUFFICES ASSUME HeldInv, [Next]_vars PROVE HeldInv'
    OBVIOUS
<1>1. ASSUME NEW s \in Submitters, SubmitResult(s)
      PROVE  HeldInv'
    BY <1>1, HeldUnlessTick DEF SubmitResult, Idle, HeldInv
<1>2. ASSUME NEW s \in Submitters, Transmit(s) \/ Succeed(s) \/ Fail(s) \/ GiveUp(s)
      PROVE  HeldInv'
    BY <1>2, HeldUnlessTick DEF Transmit, Succeed, Fail, GiveUp, Idle, HeldInv
<1>3. ASSUME NEW s \in Submitters, Retry(s)
      PROVE  HeldInv'
    BY <1>3, HeldUnlessTick DEF Retry, Again, Idle, HeldInv
<1>4. CASE Tick
    <2>1. ASSUME NEW s \in Submitters
          PROVE  /\ DOMAIN submit'[s] = {"pc", "result", "attempt", "timer", "left", "held"}
                 /\ submit'[s].left \in Nat /\ submit'[s].held \in Nat
                 /\ submit'[s].held + submit'[s].left <= Longest
        <3>1. CASE Submitting(s)
            <4>1. submit[s].left # 0
                BY <1>4, <3>1 DEF Tick, Due
            <4>2. submit'[s] = [submit[s] EXCEPT !.timer = Elapse(submit[s].timer),
                                                 !.left = Elapse(submit[s].left),
                                                 !.held = submit[s].held + 1]
                BY <1>4, <3>1 DEF Tick
            <4>3. /\ submit'[s].left = Elapse(submit[s].left)
                  /\ submit'[s].held = submit[s].held + 1
                  /\ DOMAIN submit'[s] = {"pc", "result", "attempt", "timer", "left", "held"}
                BY <4>2 DEF HeldInv
            <4>4. Elapse(submit[s].left) = submit[s].left - 1
                BY <4>1 DEF Elapse, HeldInv
            <4> QED BY <4>1, <4>3, <4>4, LongestIsMax DEF HeldInv
        <3>2. CASE ~Submitting(s)
            BY <1>4, <3>2 DEF Tick, HeldInv
        <3> QED BY <3>1, <3>2
    <2>2. DOMAIN submit' = Submitters /\ Longest' = Longest
        BY <1>4 DEF Tick, Longest
    <2> QED BY <2>1, <2>2 DEF HeldInv
<1>5. CASE UNCHANGED submit
    BY <1>5 DEF HeldInv, Longest
<1> QED BY <1>1, <1>2, <1>3, <1>4, <1>5 DEF Next, Proceed, Handle, Lose, vars

(* No submission holds its goroutine longer than a check may leave it      *)
(* (result_client.go SubmitResult, submitResultWithTimeout).               *)
THEOREM SubmissionsBounded == Spec => []SubmissionBounded
<1>1. HeldInv => SubmissionBounded
    BY LongestIsMax DEF HeldInv, SubmissionBounded
<1> QED BY <1>1, HeldInitInv, HeldStepInv, PTL DEF Spec

-----------------------------------------------------------------------------
(* What the engine counts is what was handled: each failing result counts  *)
(* as often as it was handled, which the pairs of a result and a number    *)
(* stand for.  A success may end a run, but takes none of them away.       *)
Failing == {id \in DOMAIN results : ~results[id]}

FailuresHandled == {p \in Failing \X (1..MaxRetries) : p[2] <= handled[p[1]]}

CountInv ==
    /\ results \in [DOMAIN results -> BOOLEAN]
    /\ targetStates \in [{Target} -> Engine!TargetState]
    /\ targetStates[Target].ConsecutiveFailures <= Cardinality(FailuresHandled)
    /\ targetStates[Target].IsAlerting =>
           DefaultConsecutiveFailures <= Cardinality(FailuresHandled)

LEMMA FailuresFinite ==
    ASSUME Inv
    PROVE  /\ IsFiniteSet(Failing) /\ IsFiniteSet(FailuresHandled)
           /\ Cardinality(FailuresHandled) \in Nat
<1>1. PICK n \in 0..MaxResults : DOMAIN results = 1..n
    BY DEF Inv, Types
<1>2. IsFiniteSet(DOMAIN results) /\ IsFiniteSet(1..MaxRetries)
    BY <1>1, FS_Interval, DeliveryAssumption
<1>3. Failing \subseteq DOMAIN results
    BY DEF Failing
<1>4. IsFiniteSet(Failing)
    BY <1>2, <1>3, FS_Subset
<1>5. IsFiniteSet(Failing \X (1..MaxRetries))
    BY <1>2, <1>4, FS_Product
<1>6. FailuresHandled \subseteq Failing \X (1..MaxRetries)
    BY DEF FailuresHandled
<1>7. IsFiniteSet(FailuresHandled)
    BY <1>5, <1>6, FS_Subset
<1> QED BY <1>4, <1>7, FS_CardinalityType

(* What one result does to the target's counters, when no rule is          *)
(* installed.                                                              *)
LEMMA ResultCounts ==
    ASSUME targetStates \in [{Target} -> Engine!TargetState],
           NEW success \in BOOLEAN, NEW decision,
           Engine!ProcessResult(Target, success, decision)
    PROVE  /\ targetStates' \in [{Target} -> Engine!TargetState]
           /\ targetStates'[Target].ConsecutiveFailures =
                  IF success THEN 0 ELSE targetStates[Target].ConsecutiveFailures + 1
           /\ targetStates'[Target].IsAlerting =>
                  \/ targetStates[Target].IsAlerting
                  \/ /\ ~success
                     /\ targetStates'[Target].ConsecutiveFailures >= DefaultConsecutiveFailures
<1> DEFINE old == targetStates[Target]
           counted == IF success THEN Engine!CountSuccess(old) ELSE Engine!CountFailure(old)
<1>1. /\ old \in Engine!TargetState
      /\ old.ConsecutiveFailures \in Nat /\ old.ConsecutiveSuccesses \in Nat
      /\ old.IsAlerting \in BOOLEAN
    BY DEF Engine!TargetState
<1>2. /\ counted \in Engine!TargetState /\ counted.IsAlerting = old.IsAlerting
      /\ counted.ConsecutiveFailures = IF success THEN 0 ELSE old.ConsecutiveFailures + 1
      /\ \A b \in BOOLEAN : /\ Engine!SetAlerting(counted, b) \in Engine!TargetState
                            /\ Engine!SetAlerting(counted, b).IsAlerting = b
                            /\ Engine!SetAlerting(counted, b).ConsecutiveFailures =
                                   counted.ConsecutiveFailures
    BY <1>1 DEF Engine!CountSuccess, Engine!CountFailure, Engine!State, Engine!SetAlerting,
                Engine!TargetState
<1>3. Engine!FailureThresholds = {DefaultConsecutiveFailures}
    BY DEF Engine!FailureThresholds, Engine!FailuresUnder, Engine!Installed
<1>4. CASE success
    <2>1. \/ targetStates' = [targetStates EXCEPT ![Target] = Engine!SetAlerting(counted, FALSE)]
          \/ targetStates' = [targetStates EXCEPT ![Target] = counted]
        BY <1>4 DEF Engine!ProcessResult, Engine!ProcessSuccess
    <2>2. targetStates'[Target] \in {Engine!SetAlerting(counted, FALSE), counted}
        BY <2>1
    <2> QED BY <1>2, <1>4, <2>1, <2>2
<1>5. CASE ~success
    <2>1. \/ /\ targetStates' = [targetStates EXCEPT ![Target] = Engine!SetAlerting(counted, TRUE)]
             /\ counted.ConsecutiveFailures >= DefaultConsecutiveFailures
          \/ targetStates' = [targetStates EXCEPT ![Target] = counted]
        BY <1>3, <1>5 DEF Engine!ProcessResult, Engine!ProcessFailure
    <2>2. CASE targetStates' = [targetStates EXCEPT ![Target] = counted]
        BY <1>2, <1>5, <2>2
    <2>3. CASE /\ targetStates' = [targetStates EXCEPT ![Target] = Engine!SetAlerting(counted, TRUE)]
               /\ counted.ConsecutiveFailures >= DefaultConsecutiveFailures
        BY <1>2, <1>5, <2>3
    <2> QED BY <2>1, <2>2, <2>3
<1> QED BY <1>4, <1>5

LEMMA CountInitInv == Init => CountInv
<1> SUFFICES ASSUME Init PROVE CountInv
    OBVIOUS
<1>1. Failing = {}
    BY DEF Init, Failing
<1>2. FailuresHandled = {}
    BY <1>1 DEF FailuresHandled
<1>3. targetStates = [t \in {Target} |-> Engine!NewTargetState]
    BY DEF Init
<1>4. /\ Engine!NewTargetState \in Engine!TargetState
      /\ Engine!NewTargetState.ConsecutiveFailures = 0
      /\ ~Engine!NewTargetState.IsAlerting
    BY DEF Engine!NewTargetState, Engine!State, Engine!TargetState
<1>5. results \in [DOMAIN results -> BOOLEAN]
    BY DEF Init
<1> QED BY <1>2, <1>3, <1>4, <1>5, FS_EmptySet DEF CountInv

LEMMA CountStepInv == Inv /\ CountInv /\ [Next]_vars => CountInv'
<1> SUFFICES ASSUME Inv, CountInv, [Next]_vars PROVE CountInv'
    OBVIOUS
<1>0. MaxRetries \in Nat /\ DefaultConsecutiveFailures \in Nat
    BY DeliveryAssumption
<1>1. ASSUME NEW s \in Submitters, SubmitResult(s)
      PROVE  CountInv'
    <2> DEFINE new == Cardinality(DOMAIN results) + 1
    <2>1. UNCHANGED <<targetStates, handled>>
        BY <1>1 DEF SubmitResult
    <2>2. PICK success \in BOOLEAN :
              results' = [i \in 1..new |-> IF i = new THEN success ELSE results[i]]
        BY <1>1 DEF SubmitResult
    <2>3. PICK id \in Ids : id \notin DOMAIN results /\ DOMAIN results' = DOMAIN results \cup {id}
        BY <1>1, SubmitInv
    <2>4. id = new
        <3>1. PICK n \in 0..MaxResults : DOMAIN results = 1..n
            BY DEF Inv, Types
        <3>2. new = n + 1 /\ n \in Nat
            <4>1. n \in Nat /\ Cardinality(1..n) = n
                BY FS_Interval, DeliveryAssumption
            <4> QED BY <3>1, <4>1
        <3>3. n + 1 \in DOMAIN results' /\ n + 1 \notin DOMAIN results
            BY <2>2, <3>1, <3>2
        <3> QED BY <2>3, <3>2, <3>3
    <2>5. \A i \in DOMAIN results : results'[i] = results[i]
        BY <2>2, <2>3, <2>4
    <2>6. results'[id] \in BOOLEAN
        BY <2>2, <2>3, <2>4
    <2>7. handled[id] = 0
        <3>1. Counted(id) <= 0 /\ handled[id] \in Nat /\ Cardinality(Requested(id)) \in Nat
            BY <2>3, RequestedFinite DEF Inv, AttemptsCounted, Types
        <3> QED BY <3>1 DEF Counted
    <2>8. FailuresHandled' = FailuresHandled
        <3>1. Failing \subseteq Failing' /\ Failing' \subseteq Failing \cup {id}
            BY <2>3, <2>5 DEF Failing
        <3>2. \A n \in 1..MaxRetries : ~(n <= handled[id])
            BY <1>0, <2>7
        <3> QED BY <2>1, <3>1, <3>2 DEF FailuresHandled
    <2>9. results' \in [DOMAIN results' -> BOOLEAN]
        BY <2>2, <2>3, <2>5, <2>6 DEF CountInv
    <2> QED BY <2>1, <2>8, <2>9 DEF CountInv
<1>2. ASSUME NEW call \in Calls, Handle(call)
      PROVE  CountInv'
    <2> DEFINE id == call.result
               pair == <<id, handled[id] + 1>>
    <2>1. /\ id \in DOMAIN results /\ id \in Ids /\ handled[id] \in Nat
          /\ handled[id] < MaxRetries
          /\ handled' = [handled EXCEPT ![id] = @ + 1] /\ handled \in [Ids -> Nat]
          /\ UNCHANGED <<results>>
        BY <1>2, HandleInv DEF Inv, Types, Calls
    <2>2. \E decision : Engine!ProcessResult(Target, results[id], decision)
        BY <1>2 DEF Handle
    <2>3. results[id] \in BOOLEAN
        BY <2>1 DEF CountInv
    <2>4. /\ targetStates' \in [{Target} -> Engine!TargetState]
          /\ targetStates'[Target].ConsecutiveFailures =
                 IF results[id] THEN 0 ELSE targetStates[Target].ConsecutiveFailures + 1
          /\ targetStates'[Target].IsAlerting =>
                 \/ targetStates[Target].IsAlerting
                 \/ /\ ~results[id]
                    /\ targetStates'[Target].ConsecutiveFailures >= DefaultConsecutiveFailures
        BY <2>2, <2>3, ResultCounts DEF CountInv
    <2>5. Failing' = Failing /\ Failing \subseteq Ids
        BY <2>1, OfferedAreIds DEF Failing, Inv
    <2>6. FailuresHandled \subseteq FailuresHandled'
        <3>1. \A i \in Ids, n \in 1..MaxRetries : n <= handled[i] => n <= handled'[i]
            BY <1>0, <2>1
        <3> QED BY <2>5, <3>1 DEF FailuresHandled
    <2>7. ~results[id] => FailuresHandled' = FailuresHandled \cup {pair} /\ pair \notin FailuresHandled
        <3> SUFFICES ASSUME ~results[id]
                     PROVE  FailuresHandled' = FailuresHandled \cup {pair} /\ pair \notin FailuresHandled
            OBVIOUS
        <3>1. id \in Failing /\ handled[id] + 1 \in 1..MaxRetries
            BY <1>0, <2>1 DEF Failing
        <3>2. handled'[id] = handled[id] + 1 /\ \A i \in Ids \ {id} : handled'[i] = handled[i]
            BY <2>1
        <3>3. pair \in FailuresHandled' /\ pair \notin FailuresHandled
            BY <2>1, <2>5, <3>1, <3>2 DEF FailuresHandled
        <3>4. ASSUME NEW p \in FailuresHandled' PROVE p \in FailuresHandled \cup {pair}
            <4>1. /\ p \in Failing \X (1..MaxRetries) /\ p = <<p[1], p[2]>>
                  /\ p[2] <= handled'[p[1]] /\ p[1] \in Ids /\ p[2] \in Nat
                BY <1>0, <2>5, <3>4 DEF FailuresHandled
            <4>2. CASE p[1] # id
                BY <3>2, <4>1, <4>2 DEF FailuresHandled
            <4>3. CASE p[1] = id
                <5>1. p[2] <= handled[id] \/ p[2] = handled[id] + 1
                    BY <2>1, <3>2, <4>1, <4>3
                <5> QED BY <4>1, <4>3, <5>1 DEF FailuresHandled
            <4> QED BY <4>2, <4>3
        <3> QED BY <2>6, <3>3, <3>4
    <2>8. /\ Cardinality(FailuresHandled) \in Nat /\ Cardinality(FailuresHandled') \in Nat
          /\ Cardinality(FailuresHandled) <= Cardinality(FailuresHandled')
          /\ ~results[id] => Cardinality(FailuresHandled') = Cardinality(FailuresHandled) + 1
        <3>1. FailuresHandled' \subseteq Failing \X (1..MaxRetries)
            BY <2>5 DEF FailuresHandled
        <3>2. IsFiniteSet(FailuresHandled') /\ Cardinality(FailuresHandled') \in Nat
            <4>1. IsFiniteSet(Failing) /\ IsFiniteSet(1..MaxRetries)
                BY <1>0, FailuresFinite, FS_Interval
            <4>2. IsFiniteSet(Failing \X (1..MaxRetries))
                BY <4>1, FS_Product
            <4> QED BY <3>1, <4>2, FS_Subset, FS_CardinalityType
        <3> QED BY <2>6, <2>7, <3>2, FailuresFinite, FS_Subset, FS_AddElement
    <2>9. targetStates[Target].ConsecutiveFailures \in Nat
        BY DEF CountInv, Engine!TargetState
    <2> QED BY <1>0, <2>1, <2>3, <2>4, <2>8, <2>9 DEF CountInv
<1>3. CASE UNCHANGED <<targetStates, results, handled>>
    BY <1>3 DEF CountInv, FailuresHandled, Failing
<1> QED BY <1>1, <1>2, <1>3 DEF Next, Proceed, Transmit, Succeed, Fail, Retry, GiveUp, Lose, Tick,
           vars

(* The failures counted are those of so many results, each of which was    *)
(* handled no more often than it may be retried.                           *)
LEMMA CountedFailures ==
    ASSUME Inv, CountInv
    PROVE  AlertNeedsFailures
<1> DEFINE handledFailing == {id \in DOMAIN results : ~results[id] /\ handled[id] > 0}
<1>1. FailuresHandled \subseteq handledFailing \X (1..MaxRetries)
    <2>1. ASSUME NEW p \in FailuresHandled
          PROVE  p[1] \in handledFailing /\ p[2] \in 1..MaxRetries /\ p = <<p[1], p[2]>>
        <3>1. /\ p \in Failing \X (1..MaxRetries) /\ p = <<p[1], p[2]>>
              /\ p[2] <= handled[p[1]] /\ p[2] \in 1..MaxRetries /\ p[1] \in Failing
            BY <2>1 DEF FailuresHandled
        <3>2. handled[p[1]] \in Nat
            BY <3>1, OfferedAreIds DEF Failing, Inv, Types
        <3> QED BY <3>1, <3>2 DEF Failing
    <2> QED BY <2>1
<1>2. handledFailing \subseteq Failing
    BY DEF Failing
<1>3. IsFiniteSet(handledFailing) /\ Cardinality(handledFailing) \in Nat
    BY <1>2, FailuresFinite, FS_Subset, FS_CardinalityType
<1>4. MaxRetries \in Nat /\ IsFiniteSet(1..MaxRetries) /\ Cardinality(1..MaxRetries) = MaxRetries
    BY FS_Interval, DeliveryAssumption
<1>5. /\ IsFiniteSet(handledFailing \X (1..MaxRetries))
      /\ Cardinality(handledFailing \X (1..MaxRetries)) = Cardinality(handledFailing) * MaxRetries
    BY <1>3, <1>4, FS_Product
<1>6. Cardinality(FailuresHandled) <= Cardinality(handledFailing) * MaxRetries
    BY <1>1, <1>5, FS_Subset
<1>7. Cardinality(handledFailing) * MaxRetries = MaxRetries * Cardinality(handledFailing)
    BY <1>3, <1>4
<1>8. /\ Cardinality(FailuresHandled) \in Nat /\ DefaultConsecutiveFailures \in Nat
      /\ MaxRetries * Cardinality(handledFailing) \in Nat
    BY <1>3, <1>4, FailuresFinite, DeliveryAssumption
<1> QED BY <1>6, <1>7, <1>8 DEF CountInv, AlertNeedsFailures

(* An alert has enough failures behind it, counting each as often as it    *)
(* may be retried, however late and in whatever order its requests arrive  *)
(* (result_client.go SubmitResult, alerting.go ProcessResult).             *)
THEOREM AlertsHaveFailures == Spec => []AlertNeedsFailures
<1> QED BY InitInv, StepInv, CountInitInv, CountStepInv, CountedFailures, PTL DEF Spec

=============================================================================

------------------------ MODULE OrderSubmissionProofs ------------------------
(***************************************************************************)
(* The two retry loops of the executors, for any set of intents and any    *)
(* limits: IInv of OrderSubmission is inductive, and the safety properties *)
(* of the module follow from it.                                           *)
(***************************************************************************)
EXTENDS OrderSubmission, TLAPS

\* One more try stays within the product of the limits.
LEMMA TryBound ==
    ASSUME NEW a \in 0..MaxRetries, NEW t \in 1..HttpAttempts, NEW n \in Nat,
           n <= a * HttpAttempts + t
    PROVE  n <= (a + 1) * HttpAttempts
<1> DEFINE product == a * HttpAttempts
<1>1. product \in Nat /\ (a + 1) * HttpAttempts = product + HttpAttempts
  BY RetriesAssumption, AttemptsAssumption
<1>2. n <= product + t
  OBVIOUS
<1> QED BY <1>1, <1>2, AttemptsAssumption

\* A finished submission stays within the limits of the whole intent.
LEMMA RetryBound ==
    ASSUME NEW a \in 0..MaxRetries, NEW n \in Nat, n <= (a + 1) * HttpAttempts
    PROVE  n <= (MaxRetries + 1) * HttpAttempts
<1>1. PICK d \in Nat : MaxRetries = a + d
  <2>1. MaxRetries - a \in Nat /\ MaxRetries = a + (MaxRetries - a)
    BY RetriesAssumption
  <2> QED BY <2>1
<1>2. (MaxRetries + 1) * HttpAttempts = (a + 1) * HttpAttempts + d * HttpAttempts
  BY <1>1, AttemptsAssumption
<1>3. d * HttpAttempts \in Nat /\ (a + 1) * HttpAttempts \in Nat
  BY <1>1, AttemptsAssumption
<1> QED BY <1>2, <1>3

\* The initial states satisfy the invariant.
LEMMA InitIInv == Init => IInv
<1> SUFFICES ASSUME Init PROVE IInv
  OBVIOUS
<1>1. (MaxRetries + 1) * HttpAttempts \in Nat
  BY RetriesAssumption, AttemptsAssumption
<1> QED
  BY <1>1, RetriesAssumption, AttemptsAssumption, IntentAssumption
  DEF Init, IInv, TypeOK, PCs, Untouched, Current, Accounted, TradesAcked,
      CurUnacked, CurBounded, OrdersBounded

\* The bookkeeping steps: nothing is sent.
LEMMA QuietStepIInv ==
    ASSUME IInv,
           \/ \E i \in Intents : Take(i) \/ Blocked(i)
           \/ Reject \/ NotSent \/ Failed \/ Save \/ Raise \/ UNCHANGED vars
    PROVE  IInv'
<1> USE RetriesAssumption, AttemptsAssumption, IntentAssumption
<1> USE DEF IInv, TypeOK, PCs, Untouched, Current, Accounted, TradesAcked,
            CurUnacked, CurBounded, OrdersBounded, brokerage
<1>1. ASSUME NEW i \in Intents, Take(i) PROVE IInv'
  BY <1>1 DEF Take
<1>2. ASSUME NEW i \in Intents, Blocked(i) PROVE IInv'
  BY <1>2 DEF Blocked
<1>3. CASE Reject
  <2>1. placed[cur] <= attempt * HttpAttempts + tries
    BY <1>3 DEF Reject
  <2>2. placed[cur] <= (attempt + 1) * HttpAttempts
    BY <1>3, <2>1, TryBound DEF Reject
  <2> QED BY <1>3, <2>2 DEF Reject
<1>4. CASE NotSent
  <2>1. placed[cur] <= attempt * HttpAttempts + tries
    BY <1>4 DEF NotSent
  <2>2. placed[cur] <= (attempt + 1) * HttpAttempts
    BY <1>4, <2>1, TryBound DEF NotSent
  <2> QED BY <1>4, <2>1, <2>2 DEF NotSent, Repeat, TriesLeft
<1>5. CASE Failed
  BY <1>5 DEF Failed, RetriesLeft
<1>6. CASE Save
  BY <1>6 DEF Save
<1>7. CASE Raise
  BY <1>7 DEF Raise
<1>8. CASE UNCHANGED vars
  BY <1>8 DEF vars
<1> QED BY <1>1, <1>2, <1>3, <1>4, <1>5, <1>6, <1>7, <1>8

\* The steps that make an order.
LEMMA OrderStepIInv ==
    ASSUME IInv, Ack \/ ReplyLost
    PROVE  IInv'
<1> USE RetriesAssumption, AttemptsAssumption, IntentAssumption
<1> USE DEF IInv, TypeOK, PCs, Untouched, Current, Accounted, TradesAcked,
            CurUnacked, CurBounded, OrdersBounded
<1>1. cur \in Intents \ todo /\ pc = "post" /\ placed[cur] \in Nat
  BY DEF Ack, ReplyLost
<1>2. placed[cur] + 1 <= attempt * HttpAttempts + tries
  BY <1>1
<1>3. placed[cur] + 1 <= (attempt + 1) * HttpAttempts
  BY <1>1, <1>2, TryBound
<1>4. placed[cur] + 1 <= (MaxRetries + 1) * HttpAttempts
  BY <1>1, <1>3, RetryBound
<1>5. CASE Ack
  BY <1>1, <1>4, <1>5 DEF Ack, Acknowledged
<1>6. CASE ReplyLost
  <2>1. TypeOK'
    BY <1>1, <1>6 DEF ReplyLost, Repeat, TriesLeft
  <2>2. Accounted' /\ TradesAcked' /\ CurUnacked' /\ Untouched' /\ Current'
    BY <1>1, <1>6 DEF ReplyLost, Repeat
  <2>3. CurBounded'
    BY <1>1, <1>2, <1>3, <1>6 DEF ReplyLost, Repeat, TriesLeft
  <2>4. OrdersBounded'
    BY <1>1, <1>4, <1>6 DEF ReplyLost
  <2> QED BY <1>6, <2>1, <2>2, <2>3, <2>4 DEF ReplyLost, Repeat
<1> QED BY <1>5, <1>6

\* What the proofs about Spec rest on: the two retry loops never lose count.
THEOREM Inductive == Spec => []IInv
<1>1. IInv /\ [Next]_vars => IInv'
  BY QuietStepIInv, OrderStepIInv DEF Next
<1> QED BY <1>1, InitIInv, PTL DEF Spec

\* The retry loops of the executor and of the HTTP client never make more
\* orders of an intent than the product of their limits.
THEOREM OrdersBoundedHolds == Spec => []OrdersBounded
<1>1. IInv => OrdersBounded
  BY DEF IInv
<1> QED BY <1>1, Inductive, PTL

\* An intent has as many orders beyond the first as replies were lost, at most:
\* refusals and requests that never arrived are retried without a duplicate.
THEOREM SecondOrderNeedsLossHolds == Spec => []SecondOrderNeedsLoss
<1>1. IInv => SecondOrderNeedsLoss
  BY DEF IInv, TypeOK, Accounted, SecondOrderNeedsLoss
<1> QED BY <1>1, Inductive, PTL

\* When execute returns, the trades in the database are those of exactly the
\* intents the brokerage acknowledged.
THEOREM SavedAreAcknowledgedHolds == Spec => []SavedAreAcknowledged
<1>1. IInv => SavedAreAcknowledged
  BY DEF IInv, TradesAcked, SavedAreAcknowledged
<1> QED BY <1>1, Inductive, PTL

\* After an acknowledgement neither loop sends the intent again.
THEOREM QuietAfterAckHolds == Spec => QuietAfterAck
<1>1. ASSUME IInv, [Next]_vars
      PROVE  \A i \in Intents : acks[i] > 0 => placed'[i] = placed[i]
  <2>1. CASE Ack \/ ReplyLost
    <3>1. acks[cur] = 0 /\ cur \in Intents
      BY <1>1, <2>1 DEF IInv, Current, CurUnacked, Ack, ReplyLost
    <3>2. \A i \in Intents : i # cur => placed'[i] = placed[i]
      BY <1>1, <2>1 DEF IInv, TypeOK, Ack, ReplyLost
    <3> QED BY <3>1, <3>2
  <2>2. CASE ~(Ack \/ ReplyLost)
    <3>1. placed' = placed
      BY <1>1, <2>2
      DEF Next, Take, Blocked, Reject, NotSent, Failed, Save, Raise, vars, brokerage
    <3> QED BY <3>1
  <2> QED BY <2>1, <2>2
<1>2. IInv /\ [Next]_vars
        => [\A i \in Intents : acks[i] > 0 => placed'[i] = placed[i]]_vars
  BY <1>1
<1> QED BY <1>2, Inductive, PTL DEF Spec, QuietAfterAck
=============================================================================

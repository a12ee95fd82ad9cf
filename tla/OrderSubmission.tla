--------------------------- MODULE OrderSubmission ---------------------------
(***************************************************************************)
(* One call of BuyIntentExecutor.execute (order_execution.py) or           *)
(* SellIntentExecutor.execute (sell_execution.py): every intent is         *)
(* submitted in turn, and two retry loops lie on top of each other.        *)
(* _submit_with_retry repeats a submission that raised; inside it, the     *)
(* HTTP client repeats a POST that raised (kis_http.py, retry.py).  The    *)
(* client cannot tell a POST that never arrived from one whose reply was   *)
(* lost, and it sends no key by which the brokerage could.                 *)
(***************************************************************************)
EXTENDS Naturals

CONSTANTS
    Intents,        \* the intents of the call
    MaxRetries,     \* settings.max_order_retry_count
    HttpAttempts    \* NETWORK_RETRY.attempts

ASSUME RetriesAssumption == MaxRetries \in Nat
ASSUME AttemptsAssumption == HttpAttempts \in Nat \ {0}

NoIntent == "none"
ASSUME IntentAssumption == NoIntent \notin Intents

VARIABLES
    pc,        \* next intent, posting, a submission failed, returned, raised
    todo,      \* the intents not yet taken up
    cur,       \* the intent at hand
    attempt,   \* `attempt` of _submit_with_retry
    tries,     \* `attempt` of call_with_retry
    trades,    \* the list of trades, as the intents they are for
    saved,     \* the trades in the database
    placed,    \* the brokerage: orders of each intent
    acks,      \* history: submissions of each intent that were acknowledged
    lost       \* history: orders of each intent whose reply was lost

vars == <<pc, todo, cur, attempt, tries, trades, saved, placed, acks, lost>>
brokerage == <<placed, acks, lost>>

PCs == {"next", "post", "failed", "over", "raised"}

TypeOK ==
    /\ pc \in PCs
    /\ todo \subseteq Intents
    /\ cur \in Intents \cup {NoIntent}
    /\ attempt \in 0..MaxRetries
    /\ tries \in 1..HttpAttempts
    /\ trades \subseteq Intents /\ saved \subseteq Intents
    /\ placed \in [Intents -> Nat]
    /\ acks \in [Intents -> Nat]
    /\ lost \in [Intents -> Nat]

Init ==
    /\ pc = "next" /\ todo = Intents /\ cur = NoIntent
    /\ attempt = 0 /\ tries = 1
    /\ trades = {} /\ saved = {}
    /\ placed = [i \in Intents |-> 0]
    /\ acks = [i \in Intents |-> 0]
    /\ lost = [i \in Intents |-> 0]

-----------------------------------------------------------------------------
\* The next intent is submitted: `for attempt in range(max_retries + 1)`.
Take(i) ==
    /\ pc = "next" /\ i \in todo
    /\ pc' = "post" /\ todo' = todo \ {i} /\ cur' = i
    /\ attempt' = 0 /\ tries' = 1
    /\ UNCHANGED <<trades, saved>> /\ UNCHANGED brokerage

\* buy_order_protection_log blocks it: the quote moved too far.
Blocked(i) ==
    /\ pc = "next" /\ i \in todo
    /\ todo' = todo \ {i}
    /\ UNCHANGED <<pc, cur, attempt, tries, trades, saved>>
    /\ UNCHANGED brokerage

Acknowledged == trades' = trades \cup {cur}

Mutant_Ack ==            \* the loop goes on after a submission that succeeded
    /\ pc = "post"
    /\ placed' = [placed EXCEPT ![cur] = @ + 1]
    /\ acks' = [acks EXCEPT ![cur] = 1]
    /\ Acknowledged
    /\ pc' = "failed"
    /\ UNCHANGED <<todo, cur, attempt, tries, saved, lost>>

\* The brokerage takes the order and its reply says so.
Ack ==
    /\ pc = "post"
    /\ placed' = [placed EXCEPT ![cur] = @ + 1]
    /\ acks' = [acks EXCEPT ![cur] = @ + 1]
    /\ Acknowledged
    /\ pc' = "next" /\ cur' = NoIntent
    /\ UNCHANGED <<todo, attempt, tries, saved, lost>>

\* The reply says no (rt_cd): _ensure_success raises outside the HTTP client.
Reject ==
    /\ pc = "post"
    /\ pc' = "failed"
    /\ UNCHANGED <<todo, cur, attempt, tries, trades, saved>>
    /\ UNCHANGED brokerage

TriesLeft == tries < HttpAttempts

\* call_with_retry: the POST raised, and is repeated while attempts are left.
Repeat ==
    /\ IF TriesLeft
          THEN tries' = tries + 1 /\ UNCHANGED pc
          ELSE pc' = "failed" /\ UNCHANGED tries
    /\ UNCHANGED <<todo, cur, attempt, trades, saved, acks>>

\* ... before the brokerage saw it: no token, no connection, an HTTP error.
NotSent ==
    /\ pc = "post"
    /\ Repeat
    /\ UNCHANGED <<placed, lost>>

\* ... after the brokerage took the order: a timeout or an unreadable reply.
ReplyLost ==
    /\ pc = "post"
    /\ placed' = [placed EXCEPT ![cur] = @ + 1]
    /\ lost' = [lost EXCEPT ![cur] = @ + 1]
    /\ Repeat

RetriesLeft == attempt < MaxRetries

Mutant_Failed ==         \* the retry does not count its attempts
    /\ pc = "failed"
    /\ pc' = "post" /\ tries' = 1
    /\ UNCHANGED <<todo, cur, attempt, trades, saved>> /\ UNCHANGED brokerage

\* The submission failed: once more from the start, or the intent is given up.
Failed ==
    /\ pc = "failed"
    /\ IF RetriesLeft
          THEN pc' = "post" /\ attempt' = attempt + 1 /\ tries' = 1 /\ UNCHANGED cur
          ELSE pc' = "next" /\ cur' = NoIntent /\ UNCHANGED <<attempt, tries>>
    /\ UNCHANGED <<todo, trades, saved>> /\ UNCHANGED brokerage

\* save_trades, in one transaction, after the last intent; the save_log that
\* follows may still raise.
Save ==
    /\ pc = "next" /\ todo = {}
    /\ saved' = trades
    /\ pc' \in {"over", "raised"}
    /\ UNCHANGED <<todo, cur, attempt, tries, trades>> /\ UNCHANGED brokerage

\* The repository raises, in save_trades or in one of the save_log calls on the
\* way, or the process dies: the list of trades is gone.
Raise ==
    /\ pc \in {"next", "post", "failed"}
    /\ pc' = "raised"
    /\ UNCHANGED <<todo, cur, attempt, tries, trades, saved>>
    /\ UNCHANGED brokerage

Next ==
    \/ \E i \in Intents : Take(i) \/ Blocked(i)
    \/ Ack \/ Reject \/ NotSent \/ ReplyLost
    \/ Failed \/ Save \/ Raise

\* Every request is answered or times out after 10 seconds, and the executor
\* goes on at once.
Spec == Init /\ [][Next]_vars
FairSpec == Spec /\ WF_vars(Next)

-----------------------------------------------------------------------------
(* Properties                                                              *)

\* However the two retry loops interlock, an intent never becomes more orders
\* than the product of their limits.
OrdersBounded == \A i \in Intents : placed[i] <= (MaxRetries + 1) * HttpAttempts

\* Only a lost reply makes a second order of an intent: failures that the
\* brokerage has seen nothing of, and refusals, are retried without harm.
SecondOrderNeedsLoss ==
    \A i \in Intents : placed[i] > 1 => lost[i] >= placed[i] - 1

\* Nothing is sent for an intent that was acknowledged, by either loop.
QuietAfterAck ==
    [][\A i \in Intents : acks[i] > 0 => placed'[i] = placed[i]]_vars

\* What execute saves and returns are exactly the acknowledged intents: an
\* intent given up after a retry, or blocked, is not recorded as a trade and no
\* acknowledged one is forgotten, as long as nothing raised.
SavedAreAcknowledged == pc = "over" => saved = {i \in Intents : acks[i] > 0}

\* The call ends, whatever the brokerage answers.
Ends == <>(pc \in {"over", "raised"})

-----------------------------------------------------------------------------
\* The inductive invariant of the proofs.

\* Which intents may have orders, and how the counters relate.
Untouched == \A i \in todo : placed[i] = 0
Current == /\ pc \in {"post", "failed"} => cur \in Intents \ todo
           /\ pc \in {"next", "over"} => cur = NoIntent
Accounted == \A i \in Intents : placed[i] = acks[i] + lost[i] /\ acks[i] <= 1
TradesAcked == trades = {i \in Intents : acks[i] > 0}
CurUnacked == pc \in {"post", "failed"} => acks[cur] = 0

\* POSTs made so far for the intent at hand that may have become orders.
CurBounded ==
    /\ pc = "post" => placed[cur] <= attempt * HttpAttempts + (tries - 1)
    /\ pc = "failed" => placed[cur] <= (attempt + 1) * HttpAttempts

IInv ==
    /\ TypeOK
    /\ Untouched
    /\ Current
    /\ Accounted
    /\ TradesAcked
    /\ CurUnacked
    /\ CurBounded
    /\ OrdersBounded
    /\ pc = "over" => saved = trades
=============================================================================

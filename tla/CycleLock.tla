----------------------------- MODULE CycleLock -----------------------------
(***************************************************************************)
(* The skeleton that the trading jobs of live_mock_tasks share: the        *)
(* process-local `cycle_lock` and the market-close gate                    *)
(* `latest.market_close_trade_date` (scheduled_tasks.py).                  *)
(*                                                                         *)
(* The scheduler runs every job on a thread of its own.  A trading cycle   *)
(* (intraday_watch, intraday_recheck, and the two start-up twins that      *)
(* apscheduler_runner registers) looks at the gate, tries the lock without *)
(* blocking, looks at the gate a second time and only then trades.         *)
(* close_session shuts the gate first and then waits for the lock.         *)
(***************************************************************************)
EXTENDS Naturals

CONSTANTS
    Cycles,      \* the non-blocking jobs: watch, recheck and their start-up twins
    Closer,      \* the job close_session
    MaxDate      \* bound: the last trade date that is explored

ASSUME CyclesAssumption == Closer \notin Cycles
ASSUME DateAssumption == MaxDate \in Nat \ {0}

Jobs == Cycles \cup {Closer}

Free == "free"      \* the lock has no owner (a string, never a job)
NoDate == 0         \* market_close_trade_date is None

ASSUME FreeAssumption == Free \notin Jobs

Sessions == {"before", "open", "after"}
PCs == {"idle", "acquire", "recheck", "body", "wait"}

VARIABLES
    today,       \* current_trade_date()
    session,     \* where the clock stands against 9:30-16:00 New York
    closeDate,   \* latest.market_close_trade_date
    lock,        \* the owner of cycle_lock
    pc,          \* the step each job has reached
    shut         \* history: close_session of this process has had the lock today

vars == <<today, session, closeDate, lock, pc, shut>>

TypeOK ==
    /\ today \in Nat \ {0}
    /\ session \in Sessions
    /\ closeDate \in Nat
    /\ lock \in Jobs \cup {Free}
    /\ pc \in [Jobs -> PCs]
    /\ shut \in BOOLEAN

Init ==
    /\ today = 1
    /\ session \in Sessions
    /\ closeDate = NoDate
    /\ lock = Free
    /\ pc = [j \in Jobs |-> "idle"]
    /\ shut = FALSE

-----------------------------------------------------------------------------
(* The trading cycles                                                      *)

\* _market_close_started_skip: the close of today's session has begun.
CloseStarted == closeDate = today

Mutant_GateOpen == session = "open"     \* no first look at the gate
GateOpen == session = "open" /\ ~CloseStarted

\* regular_session() and the first look at the gate, without the lock.
Gate(c) ==
    /\ pc[c] = "idle"
    /\ GateOpen
    /\ pc' = [pc EXCEPT ![c] = "acquire"]
    /\ UNCHANGED <<today, session, closeDate, lock, shut>>

Mutant_LockFree == TRUE      \* the result of the tried acquire is ignored
LockFree == lock = Free

\* cycle_lock.acquire(blocking=False) succeeds.
Acquire(c) ==
    /\ pc[c] = "acquire"
    /\ LockFree
    /\ lock' = c
    /\ pc' = [pc EXCEPT ![c] = "recheck"]
    /\ UNCHANGED <<today, session, closeDate, shut>>

\* ... or another job owns it: _cycle_lock_busy_skip.
Busy(c) ==
    /\ pc[c] = "acquire"
    /\ ~LockFree
    /\ pc' = [pc EXCEPT ![c] = "idle"]
    /\ UNCHANGED <<today, session, closeDate, lock, shut>>

\* The second look, under the lock: the `finally` clause frees the lock when
\* the close of the session began between the two looks.
Mutant_StillOpen == TRUE     \* no second look
StillOpen == ~CloseStarted

Recheck(c) ==
    /\ pc[c] = "recheck"
    /\ IF StillOpen
          THEN pc' = [pc EXCEPT ![c] = "body"] /\ UNCHANGED lock
          ELSE pc' = [pc EXCEPT ![c] = "idle"] /\ lock' = Free
    /\ UNCHANGED <<today, session, closeDate, shut>>

\* The body returns, is skipped by the trading guard, or raises.
Finish(c) ==
    /\ pc[c] = "body"
    /\ pc' = [pc EXCEPT ![c] = "idle"]
    /\ lock' = Free
    /\ UNCHANGED <<today, session, closeDate, shut>>

-----------------------------------------------------------------------------
(* close_session                                                           *)

\* Past trading_day, regular_session and the guard: shut the gate.
CloseStart ==
    /\ pc[Closer] = "idle"
    /\ session = "open"
    /\ closeDate' = today
    /\ pc' = [pc EXCEPT ![Closer] = "wait"]
    /\ UNCHANGED <<today, session, lock, shut>>

\* `with cycle_lock`: a blocking acquire.
CloseAcquire ==
    /\ pc[Closer] = "wait"
    /\ LockFree
    /\ lock' = Closer
    /\ shut' = TRUE
    /\ pc' = [pc EXCEPT ![Closer] = "body"]
    /\ UNCHANGED <<today, session, closeDate>>

CloseFinish ==
    /\ pc[Closer] = "body"
    /\ pc' = [pc EXCEPT ![Closer] = "idle"]
    /\ lock' = Free
    /\ UNCHANGED <<today, session, closeDate, shut>>

-----------------------------------------------------------------------------
(* The environment                                                         *)

\* The market opens and closes; a job may be anywhere in its steps.
Bell ==
    /\ \/ session = "before" /\ session' = "open"
       \/ session = "open" /\ session' = "after"
    /\ UNCHANGED <<today, closeDate, lock, pc, shut>>

\* The night is hours long and a job is not: nobody is running at midnight.
NextDate ==
    /\ session = "after"
    /\ today < MaxDate
    /\ \A j \in Jobs : pc[j] = "idle"
    /\ today' = today + 1
    /\ session' = "before"
    /\ shut' = FALSE
    /\ UNCHANGED <<closeDate, lock, pc>>

\* The process dies and is started again: _LatestRunState and the lock are new.
\* The gate is open again, and the start-up twins are jobs of the new process.
Restart ==
    /\ closeDate' = NoDate
    /\ lock' = Free
    /\ pc' = [j \in Jobs |-> "idle"]
    /\ shut' = FALSE
    /\ UNCHANGED <<today, session>>

CycleStep(c) == Gate(c) \/ Acquire(c) \/ Busy(c) \/ Recheck(c) \/ Finish(c)
CloseStep == CloseStart \/ CloseAcquire \/ CloseFinish

Next ==
    \/ \E c \in Cycles : CycleStep(c)
    \/ CloseStep
    \/ Bell \/ NextDate \/ Restart

\* A started job keeps running; when a job is started is the scheduler's
\* business, so Gate and CloseStart are not fair.  A blocking acquire is only
\* weakly fair: threading.Lock keeps no queue of its waiters.
Fairness ==
    /\ \A c \in Cycles : WF_vars(Acquire(c) \/ Busy(c) \/ Recheck(c) \/ Finish(c))
    /\ WF_vars(CloseAcquire)
    /\ WF_vars(CloseFinish)

Spec == Init /\ [][Next]_vars
FairSpec == Spec /\ Fairness

-----------------------------------------------------------------------------
(* Properties                                                              *)

Holding(j) == pc[j] \in (IF j = Closer THEN {"body"} ELSE {"recheck", "body"})

\* At most one of the watch, the recheck and the close trades at a time: the
\* check-then-act sequences of their bodies on `latest` never interleave.
MutualExclusion ==
    \A i, j \in Jobs : Holding(i) /\ Holding(j) => i = j

\* Once close_session got the lock no cycle of the same process trades on that
\* trade date any more, even one that had passed the first look before the gate
\* was shut, or a job that was started late.  The gate is memory of the process:
\* after a restart on the same date the cycles trade again (see RoundsPerDay in
\* module TradingSession).
CloseShutsGate == shut => \A c \in Cycles : pc[c] # "body"

\* close_session gets the lock although its acquire is not queued: the first
\* look at the gate keeps new cycles from competing for it.
CloseNotStarved == pc[Closer] = "wait" ~> pc[Closer] # "wait"

\* The lock has an owner exactly while that job is past its acquire.
LockHeld == \A j \in Jobs : lock = j <=> Holding(j)

\* From the moment the close has asked for the lock the gate is shut for today.
GateShut == shut \/ pc[Closer] # "idle" => CloseStarted

\* The inductive invariant of the proofs.
CloserPC == pc[Closer] \in {"idle", "wait", "body"}
CyclePC == \A c \in Cycles : pc[c] # "wait"

IInv ==
    /\ TypeOK
    /\ CloserPC
    /\ CyclePC
    /\ LockHeld
    /\ GateShut
    /\ CloseShutsGate
=============================================================================

---------------------------- MODULE TimelineProofs ----------------------------
(***************************************************************************)
(* In summer, when the session opens at 22:30 KST (Offset = 0), the jobs   *)
(* keep the state file fresh for their own guard, whatever minute the      *)
(* recheck falls into and however long the outage and however many the     *)
(* stops of the day are.  In winter both statements are false: the run     *)
(* timeline_winter shows how.                                              *)
(***************************************************************************)
EXTENDS Timeline, TLAPS

Times ==
    /\ minute \in Nat /\ age \in 0..Stale /\ quiet \in 0..Stale
    /\ up \in BOOLEAN /\ kis \in BOOLEAN /\ db \in BOOLEAN
    /\ calm \in BOOLEAN /\ steady \in BOOLEAN
    /\ todo \subseteq Due(minute) \cup StartupJobs

\* The file is no older than the minutes in a row in which nobody could write
\* it and the present one, and is new once the watch of the minute has run.
Fresh ==
    calm /\ InSession(minute) =>
        /\ age <= quiet + 1
        /\ age = 0 \/ quiet < TenMinutes
        /\ ~Out /\ "watch" \notin todo => age = 0

\* A steady day has known no outage, and its screening has written the file.
Steady ==
    steady =>
        /\ ~Out /\ quiet = 0
        /\ minute > 5 \/ (minute = 5 /\ "screen" \notin todo) => calm

IInv == Times /\ Fresh /\ Steady /\ HealthyDayIsTraded

-----------------------------------------------------------------------------
\* What the invariant says of the guard.
LEMMA FreshIsFresh ==
    ASSUME Times, Fresh
    PROVE  FreshUnlessOutage
BY DEF Times, Fresh, FreshUnlessOutage, Unfresh, FreshLimit, TenMinutes, Stale

\* Every job but dry_run writes the file, leaves it alone, or is skipped.
JobRun(j) ==
    /\ Take(j) /\ UNCHANGED world
    /\ WriteState \/ KeepState
    /\ steady' = steady \/ steady' = FALSE
    /\ j = "screen" => WriteState \/ steady' = FALSE
    /\ j = "watch" /\ InSession(minute) /\ GuardPasses /\ kis => WriteState
    /\ \/ skipped' = skipped
       \/ /\ ~GuardPasses /\ (InSession(minute) \/ j \in {"buy", "cancel"})
          /\ skipped' = IF steady /\ minute > 5 THEN skipped \cup {j} ELSE skipped

JobStep == Screen \/ MockBuy \/ RefreshOrders \/ Watch \/ Recheck \/ CancelUnfilled
           \/ CloseSession

LEMMA JobRuns ==
    ASSUME Times, JobStep
    PROVE  \E j \in Jobs : JobRun(j)
<1>1. CASE Screen
  <2>1. JobRun("screen")
    BY <1>1 DEF Screen, Screening, JobRun, Times
  <2> QED BY <2>1 DEF Jobs
<1>2. CASE MockBuy
  <2>1. JobRun("buy")
    BY <1>2 DEF MockBuy, Screening, Skip, JobRun, Times
  <2> QED BY <2>1 DEF Jobs
<1>3. CASE RefreshOrders
  <2>1. JobRun("refresh")
    BY <1>3 DEF RefreshOrders, JobRun
  <2> QED BY <2>1 DEF Jobs
<1>4. ASSUME NEW j \in {"watch", "recheck"}, Cycle(j)
      PROVE  JobRun(j)
  BY <1>4 DEF Cycle, Skip, JobRun
<1>5. CASE Watch \/ Recheck
  BY <1>4, <1>5 DEF Watch, Recheck, Jobs
<1>6. CASE CancelUnfilled
  <2>1. JobRun("cancel")
    BY <1>6 DEF CancelUnfilled, Skip, JobRun
  <2> QED BY <2>1 DEF Jobs
<1>7. CASE CloseSession
  <2>1. JobRun("close")
    BY <1>7 DEF CloseSession, Skip, JobRun
  <2> QED BY <2>1 DEF Jobs
<1> QED BY <1>1, <1>2, <1>3, <1>5, <1>6, <1>7 DEF JobStep

LEMMA JobKeeps ==
    ASSUME Offset = 0, IInv, NEW j \in Jobs, JobRun(j)
    PROVE  IInv'
<1>1. /\ UNCHANGED <<minute, up, kis, db, quiet>> /\ todo' = todo \ {j} /\ up /\ j \in todo
      /\ WriteState \/ KeepState
  BY DEF JobRun, Take, world
<1>2. Times'
  <2>1. age' \in 0..Stale /\ calm' \in BOOLEAN
    <3>1. CASE WriteState
      BY <3>1 DEF WriteState, Stale
    <3>2. CASE KeepState
      BY <3>2 DEF KeepState, IInv, Times
    <3> QED BY <1>1, <3>1, <3>2
  <2>2. steady' \in BOOLEAN
    BY DEF IInv, Times, JobRun
  <2>3. minute' \in Nat /\ quiet' \in 0..Stale
    BY <1>1 DEF IInv, Times
  <2>4. todo' \subseteq Due(minute') \cup StartupJobs
    BY <1>1 DEF IInv, Times
  <2>5. up' \in BOOLEAN /\ kis' \in BOOLEAN /\ db' \in BOOLEAN
    BY <1>1 DEF IInv, Times
  <2> QED BY <2>1, <2>2, <2>3, <2>4, <2>5 DEF Times
<1>3. Fresh'
  <2>1. CASE WriteState
    BY <2>1, <1>1 DEF WriteState, Fresh, IInv, Times, Stale
  <2>2. CASE KeepState /\ ~(j = "watch" /\ calm /\ InSession(minute) /\ ~Out)
    BY <1>1, <2>2 DEF KeepState, Fresh, IInv, InSession, Out, LastMinute, SessionMinutes
  <2>3. CASE j = "watch" /\ calm /\ InSession(minute) /\ ~Out
    <3>1. GuardPasses /\ kis
      BY <2>3, FreshIsFresh DEF IInv, FreshUnlessOutage, GuardPasses, Out
    <3> QED BY <2>1, <2>3, <3>1 DEF JobRun
  <2> QED BY <1>1, <2>1, <2>2, <2>3
<1>4. Steady'
  <2>1. CASE WriteState
    BY <1>1, <2>1 DEF WriteState, Steady, IInv, JobRun, Out, Times
  <2>2. CASE KeepState
    BY <1>1, <2>2 DEF KeepState, Steady, IInv, JobRun, Out, Times, WriteState
  <2> QED BY <1>1, <2>1, <2>2
<1>5. HealthyDayIsTraded'
  <2>1. CASE skipped' = skipped
    BY <2>1 DEF IInv, HealthyDayIsTraded
  <2>2. CASE /\ ~GuardPasses /\ (InSession(minute) \/ j \in {"buy", "cancel"})
             /\ skipped' = IF steady /\ minute > 5 THEN skipped \cup {j} ELSE skipped
    <3>1. InSession(minute)
      <4>1. j \in {"buy", "cancel"} => minute \in {15, 385}
        BY <1>1 DEF IInv, Times, Due, StartupJobs
      <4> QED BY <2>2, <4>1 DEF InSession, LastMinute, SessionMinutes, IInv, Times
    <3>2. ~(steady /\ minute > 5)
      BY <2>2, <3>1, FreshIsFresh DEF IInv, Steady, FreshUnlessOutage, GuardPasses, Out
    <3> QED BY <2>2, <3>2 DEF IInv, HealthyDayIsTraded
  <2> QED BY <2>1, <2>2 DEF JobRun
<1> QED BY <1>2, <1>3, <1>4, <1>5 DEF IInv

LEMMA TickKeeps ==
    ASSUME Offset = 0, IInv, Tick
    PROVE  IInv'
<1> USE DEF IInv
<1>1. /\ todo = {} /\ minute' = minute + 1 /\ up' = up /\ skipped' = skipped
      /\ todo' = IF up THEN Due(minute + 1) ELSE {}
      /\ age' = IF age < Stale THEN age + 1 ELSE Stale
      /\ calm' = (calm /\ quiet' < TenMinutes)
      /\ steady' = (steady /\ ~Out /\ kis' /\ db')
      /\ kis' \in BOOLEAN /\ db' \in BOOLEAN
  BY DEF Tick, Services, Times
<1>2. /\ ~Out => quiet' = 0
      /\ Out => quiet' = IF quiet < Stale THEN quiet + 1 ELSE Stale
  BY DEF Tick
<1>3. Times'
  <2>1. minute' \in Nat /\ age' \in 0..Stale /\ quiet' \in 0..Stale
    BY <1>1, <1>2 DEF Times, Stale
  <2>2. todo' \subseteq Due(minute')
    BY <1>1
  <2>3. up' \in BOOLEAN /\ kis' \in BOOLEAN /\ db' \in BOOLEAN
    BY <1>1 DEF Times
  <2>4. calm' \in BOOLEAN /\ steady' \in BOOLEAN
    BY <1>1
  <2> QED BY <2>1, <2>2, <2>3, <2>4 DEF Times
<1>4. Fresh'
  <2> SUFFICES ASSUME calm', InSession(minute)'
               PROVE  age' <= quiet' + 1 /\ quiet' < TenMinutes
                      /\ ((~Out)' => "watch" \in todo')
    BY DEF Fresh
  <2>0. calm /\ quiet' < TenMinutes
    BY <1>1
  <2>1. calm /\ quiet' < TenMinutes /\ InSession(minute)
    <3>1. minute \in Nat /\ minute + 1 < 390
      BY <1>1 DEF InSession, LastMinute, SessionMinutes, Times
    <3>2. InSession(minute)
      BY <3>1 DEF InSession, LastMinute, SessionMinutes
    <3> QED BY <2>0, <3>2
  <2>2. age' <= quiet' + 1
    BY <1>1, <1>2, <2>1 DEF Fresh, Times, Stale, TenMinutes
  <2>3. (~Out)' => "watch" \in todo'
    BY <1>1 DEF Out, Due
  <2> QED BY <2>1, <2>2, <2>3
<1>5. Steady'
  <2> SUFFICES ASSUME steady'
               PROVE  /\ (~Out)' /\ quiet' = 0
                      /\ minute' > 5 \/ (minute' = 5 /\ "screen" \notin todo') => calm'
    BY DEF Steady
  <2>1. steady /\ ~Out /\ kis' /\ db' /\ up /\ quiet' = 0
    BY <1>1, <1>2 DEF Out
  <2>2. (~Out)'
    BY <1>1, <2>1 DEF Out
  <2>3. minute' = 5 => "screen" \in todo'
    BY <1>1, <2>1 DEF Due
  <2>4. minute' > 5 => calm'
    BY <1>1, <2>1 DEF Steady, Times, TenMinutes
  <2> QED BY <2>1, <2>2, <2>3, <2>4
<1>6. HealthyDayIsTraded'
  BY <1>1 DEF HealthyDayIsTraded
<1> QED BY <1>3, <1>4, <1>5, <1>6

LEMMA InitIInv ==
    ASSUME Offset = 0, Init
    PROVE  IInv
<1>1. Times
  <2>1. minute \in Nat /\ age \in 0..Stale /\ quiet \in 0..Stale
    BY DEF Init, Stale
  <2>2. up \in BOOLEAN /\ kis \in BOOLEAN /\ db \in BOOLEAN
        /\ calm \in BOOLEAN /\ steady \in BOOLEAN
    BY DEF Init
  <2>3. todo \subseteq Due(minute) \cup StartupJobs
    BY DEF Init
  <2> QED BY <2>1, <2>2, <2>3 DEF Times
<1>2. Fresh /\ Steady /\ HealthyDayIsTraded
  BY DEF Init, Fresh, Steady, HealthyDayIsTraded, Out
<1> QED BY <1>1, <1>2 DEF IInv

LEMMA NextIInv ==
    ASSUME Offset = 0, IInv, [Next]_vars
    PROVE  IInv'
<1>1. CASE JobStep
  BY <1>1, JobRuns, JobKeeps DEF IInv
<1>2. CASE Tick
  BY <1>2, TickKeeps
<1>3. CASE Stop
  BY <1>3 DEF Stop, IInv, Times, Fresh, Steady, HealthyDayIsTraded, Out
<1>4. CASE Start
  BY <1>4 DEF Start, IInv, Times, Fresh, Steady, HealthyDayIsTraded, Out, StartupJobs
<1>5. CASE UNCHANGED vars
  BY <1>5 DEF vars, IInv, Times, Fresh, Steady, HealthyDayIsTraded, Out, InSession
<1> QED BY <1>1, <1>2, <1>3, <1>4, <1>5 DEF Next, JobStep

-----------------------------------------------------------------------------
\* In summer the invariant holds all day.
THEOREM SummerInductive == Offset = 0 => (Spec => []IInv)
<1> SUFFICES ASSUME Offset = 0
             PROVE  Spec => []IInv
  OBVIOUS
<1>1. Init => IInv
  BY InitIInv
<1>2. IInv /\ [Next]_vars => IInv'
  BY NextIInv
<1> QED BY <1>1, <1>2, PTL DEF Spec

\* Once the file of the day is written, only ten minutes in a row without the
\* process, KIS or the database make it stale in a session that opens at 22:30:
\* the jobs that write the file keep their own guard (trading_cycle_skip_reason)
\* open, whatever the length and the number of the failures.
THEOREM FreshUnlessOutageHolds == Offset = 0 => (Spec => []FreshUnlessOutage)
<1> SUFFICES ASSUME Offset = 0
             PROVE  Spec => []FreshUnlessOutage
  OBVIOUS
<1>1. Spec => []IInv
  BY SummerInductive
<1>2. IInv => FreshUnlessOutage
  BY FreshIsFresh DEF IInv
<1> QED BY <1>1, <1>2, PTL

\* In the same sessions the guard skips no job from 22:36 on as long as nothing
\* has failed and the process has run all day: the purchase at 22:45, every
\* later watch, the cancellation and the settlement are reached.
THEOREM HealthyDayIsTradedHolds == Offset = 0 => (Spec => []HealthyDayIsTraded)
<1> SUFFICES ASSUME Offset = 0
             PROVE  Spec => []HealthyDayIsTraded
  OBVIOUS
<1>1. Spec => []IInv
  BY SummerInductive
<1>2. IInv => HealthyDayIsTraded
  BY DEF IInv
<1> QED BY <1>1, <1>2, PTL
=============================================================================

------------------------------ MODULE Timeline ------------------------------
(***************************************************************************)
(* One trading day of the scheduler by the clock: the jobs that            *)
(* register_daily_timeline (schedule.py) and _register_startup_recovery    *)
(* (apscheduler_runner.py) fire, and the trading guard                     *)
(* trading_cycle_skip_reason (scheduled_tasks.py) that skips a job while   *)
(* the database is away or monitor/state.json is older than 600 seconds.   *)
(*                                                                         *)
(* The guard is a feedback loop: the file it judges is written by the jobs *)
(* it guards, by the screening and by refresh_orders, and by nobody else   *)
(* unless a person asks the monitor or the CLI for a refresh.              *)
(*                                                                         *)
(* The unit of time is a minute; minute 0 is 22:30 in Seoul, when the      *)
(* regular session opens during daylight-saving time.  A job takes no time.*)
(***************************************************************************)
EXTENDS Naturals

CONSTANTS
    Offset,        \* minutes from 22:30 KST to the opening: 0 (EDT) or 60 (EST)
    RecheckPhase,  \* the minute in which an interval of 15 fires, 0..14
    MaxOutage,     \* bound: length of the day's one outage of KIS or the database
    MaxStops       \* bound: times the process stops in the day

ASSUME OffsetAssumption == Offset \in Nat
ASSUME PhaseAssumption == RecheckPhase \in 0..14
ASSUME BoundsAssumption == MaxOutage \in Nat /\ MaxStops \in Nat

-----------------------------------------------------------------------------
(* schedule.py and market_calendar.py                                      *)

SessionMinutes == 390                   \* 9:30 to 16:00 in New York
LastMinute == Offset + SessionMinutes   \* the first minute after the session

InSession(m) == Offset <= m /\ m < LastMinute

\* The jobs that the registered triggers fire in minute m.
Jobs == {"screen", "buy", "refresh", "watch", "recheck", "cancel", "close"}

Due(m) ==
    {"watch"}
    \cup {j \in {"screen"} : m \in 5..10}            \* 22:35-22:40
    \cup {j \in {"buy"} : m = 15}                    \* 22:45
    \cup {j \in {"refresh"} : m = 20}                \* 22:50
    \cup {j \in {"recheck"} : m % 15 = RecheckPhase}
    \cup {j \in {"cancel"} : m = Offset + 385}       \* 15:55 New York
    \cup {j \in {"close"} : m = Offset + 388}        \* 15:58 New York

\* The one-shot jobs 5 and 10 seconds after the start of the process.
StartupJobs == {"watch", "recheck"}

-----------------------------------------------------------------------------
VARIABLES
    minute,      \* the clock
    up,          \* the scheduler process runs
    todo,        \* the jobs of this minute that have not run yet
    age,         \* minutes since state.json was written, at most Stale
    kis, db,     \* the two services answer
    screened,    \* latest.result of today's screening is there
    quiet,       \* history: minutes in a row without process, KIS or database
    calm,        \* history: a write was seen and quiet stayed short since
    steady,      \* history: nothing at all was out or failed today
    skipped,     \* history: the jobs the guard skipped on a steady day
    outage,      \* history: minutes of outage so far, for the bound
    stops        \* history: stops of the process, for the bound

vars == <<minute, up, todo, age, kis, db, screened, quiet, calm, steady,
          skipped, outage, stops>>
world == <<minute, up, kis, db, quiet, outage, stops>>

\* age_seconds > 600
Mutant_FreshLimit == 9        \* 540 seconds
FreshLimit == 10
Stale == 11                   \* ages from here on are not told apart

Unfresh == age > FreshLimit   \* state=stale

\* The day begins with the state file of last night.
Init ==
    /\ minute = 0
    /\ up \in BOOLEAN
    /\ todo = IF up THEN Due(0) ELSE {}
    /\ age = Stale
    /\ kis = TRUE /\ db = TRUE
    /\ screened \in {FALSE, up}     \* latest.result of an earlier day may be there
    /\ quiet = 0 /\ calm = FALSE /\ steady = up /\ skipped = {}
    /\ outage = 0 /\ stops = 0

-----------------------------------------------------------------------------
(* The jobs                                                                *)

Take(j) == up /\ j \in todo /\ todo' = todo \ {j}

\* write_state_file
WriteState == age' = 0 /\ calm' = TRUE

KeepState == UNCHANGED <<age, calm>>

\* trading_cycle_skip_reason returns None.
GuardPasses == db /\ ~Unfresh

\* The guard skips job j.  Until 22:35 no job of the day can have written the
\* state, so that is where the history begins.
Skip(j) ==
    /\ KeepState
    /\ skipped' = IF steady /\ minute > 5 THEN skipped \cup {j} ELSE skipped

\* dry_run is not guarded.  A screening that raises (KIS, the database or a
\* data source) writes only screen_and_score_status.json.
Mutant_Screening(ok) ==       \* a screening that only remembers its result
    /\ ok => kis
    /\ screened' = (screened \/ ok)
    /\ steady' = (steady /\ ok)
    /\ KeepState

Screening(ok) ==
    /\ ok => kis
    /\ screened' = (screened \/ ok)
    /\ steady' = (steady /\ ok)
    /\ IF ok THEN WriteState ELSE KeepState

Screen ==
    /\ Take("screen")
    /\ \E ok \in BOOLEAN : Screening(ok)
    /\ UNCHANGED skipped /\ UNCHANGED world

\* mock_buy: guarded; it screens first when no result is remembered, and a
\* screening that raises ends the job.  Its last statement writes the state.
MockBuy ==
    /\ Take("buy")
    /\ IF ~GuardPasses
          THEN Skip("buy") /\ UNCHANGED <<screened, steady>>
          ELSE /\ IF screened THEN WriteState /\ UNCHANGED <<screened, steady>>
                              ELSE \E ok \in BOOLEAN : Screening(ok)
               /\ UNCHANGED skipped
    /\ UNCHANGED world

\* refresh_orders is not guarded, and _write_live_state survives a KIS or a
\* database failure: every one of its reads is caught.
RefreshOrders ==
    /\ Take("refresh")
    /\ WriteState
    /\ UNCHANGED <<screened, steady, skipped>> /\ UNCHANGED world

\* intraday_watch and intraday_recheck: the session, the guard, and a body
\* that reaches its _write_live_state unless a KIS call raises before.
Cycle(j) ==
    /\ Take(j)
    /\ CASE ~InSession(minute) -> KeepState /\ UNCHANGED skipped
         [] InSession(minute) /\ ~GuardPasses -> Skip(j)
         [] OTHER -> /\ IF kis THEN WriteState ELSE KeepState
                     /\ UNCHANGED skipped
    /\ UNCHANGED <<screened, steady>> /\ UNCHANGED world

Watch == Cycle("watch")
Recheck == Cycle("recheck")

\* cancel_unfilled looks at the trading day, not at the session.
CancelUnfilled ==
    /\ Take("cancel")
    /\ IF ~GuardPasses
          THEN Skip("cancel")
          ELSE /\ IF kis THEN WriteState ELSE KeepState
               /\ UNCHANGED skipped
    /\ UNCHANGED <<screened, steady>> /\ UNCHANGED world

\* close_session writes its baseline state before the first call that raises.
CloseSession ==
    /\ Take("close")
    /\ IF InSession(minute) /\ ~GuardPasses
          THEN Skip("close")
          ELSE /\ IF InSession(minute) THEN WriteState ELSE KeepState
               /\ UNCHANGED skipped
    /\ UNCHANGED <<screened, steady>> /\ UNCHANGED world

-----------------------------------------------------------------------------
(* The clock, the operator and the services                                *)

TenMinutes == 10

Out == ~(up /\ kis /\ db)

\* At most one of the services goes away, once, for at most MaxOutage minutes.
Services ==
    \/ /\ kis /\ db
       /\ UNCHANGED <<kis, db, outage>>
    \/ /\ kis /\ db /\ outage = 0 /\ MaxOutage > 0
       /\ kis' \in BOOLEAN
       /\ db' = ~kis'
       /\ outage' = 1
    \/ /\ ~(kis /\ db) /\ outage < MaxOutage
       /\ UNCHANGED <<kis, db>>
       /\ outage' = outage + 1
    \/ /\ ~(kis /\ db)
       /\ kis' = TRUE /\ db' = TRUE
       /\ outage' = MaxOutage

\* The minute is over when its jobs have run.
Tick ==
    /\ minute < LastMinute
    /\ todo = {}
    /\ minute' = minute + 1
    /\ todo' = IF up THEN Due(minute + 1) ELSE {}
    /\ age' = IF age < Stale THEN age + 1 ELSE Stale
    /\ quiet' = IF ~Out THEN 0 ELSE IF quiet < Stale THEN quiet + 1 ELSE Stale
    /\ calm' = (calm /\ quiet' < TenMinutes)
    /\ Services
    /\ steady' = (steady /\ ~Out /\ kis' /\ db')
    /\ UNCHANGED <<up, screened, skipped, stops>>

\* The process (or its computer) stops and forgets latest.result.
Stop ==
    /\ up
    /\ stops < MaxStops
    /\ up' = FALSE /\ todo' = {}
    /\ screened' = FALSE
    /\ steady' = FALSE
    /\ stops' = stops + 1
    /\ UNCHANGED <<minute, age, kis, db, quiet, calm, skipped, outage>>

\* run_scheduler: the start-up jobs stand in for the triggers of this minute.
Start ==
    /\ ~up
    /\ minute < LastMinute
    /\ up' = TRUE /\ todo' = StartupJobs
    /\ steady' = FALSE
    /\ UNCHANGED <<minute, age, kis, db, screened, quiet, calm, skipped, outage,
                   stops>>

Next ==
    \/ Screen \/ MockBuy \/ RefreshOrders \/ Watch \/ Recheck
    \/ CancelUnfilled \/ CloseSession
    \/ Tick \/ Stop \/ Start

Spec == Init /\ [][Next]_vars

-----------------------------------------------------------------------------
(* Properties                                                              *)

\* Once the state file was written today, only ten minutes in a row without
\* the process, KIS or the database can make it stale during the session: the
\* jobs keep their own guard open across the screening, the purchase and the
\* cycles, and a shorter failure heals by itself.
FreshUnlessOutage == InSession(minute) /\ calm => ~Unfresh

\* On a day on which nothing fails and the process always runs the guard skips
\* no job from 22:36 on: the purchase is made, every later minute of the session
\* is watched, and the session is closed.  What is skipped before, up to the
\* minute of the first screening, is not counted: in summer the session opens
\* at 22:30 on the file of yesterday, which no job has refreshed yet.
HealthyDayIsTraded == skipped = {}
=============================================================================

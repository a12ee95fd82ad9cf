-------------------------- MODULE CandidateRecord --------------------------
(***************************************************************************)
(* What the database says of one ticker on one trade date: its rows of     *)
(* candidate_evaluations, saved while purchases are planned and marked     *)
(* when they are limited, guarded, refused or acknowledged, and the final  *)
(* event of trading_event_log.  A mark does not name the row of the        *)
(* intent, it takes the latest that fits; four jobs make and mark rows,    *)
(* and mock_buy, which does not hold the cycle lock, takes its intent from *)
(* the `latest` of the others.                                             *)
(***************************************************************************)
EXTENDS Integers, Sequences, FiniteSets, FiniteSetsExt

CONSTANTS
    Hybrid,             \* candidate_selection_mode: a recheck evaluates twice
    MaxIntentRetries,   \* max_order_retry_count
    MaxPasses           \* bound: passes of the jobs on the day

ASSUME RecordAssumption ==
    Hybrid \in BOOLEAN /\ MaxIntentRetries \in Nat /\ MaxPasses \in Nat

VARIABLES
    evaluations,  \* the rows, in the order of evaluation_time and id
    latest,       \* _LatestRunState.result: its intent and, history, its row
    pass,         \* what each job is doing
    alone,        \* history: the job whose pass began last and met no other
    passes        \* passes begun

recordVars == <<evaluations, latest, pass, alone, passes>>

Jobs == {"dry_run", "mock_buy", "recheck", "reorder"}
Locked == {"recheck", "reorder"}
AtRest ==
    [at |-> "rest", row |-> 0, stale |-> FALSE, acked |-> FALSE, tries |-> 0,
     reason |-> "BUY_ALLOWED", told |-> "none", failed |-> FALSE]

RecordInit ==
    /\ evaluations = <<>>
    /\ latest = [ran |-> FALSE, intent |-> FALSE, row |-> 0]
    /\ pass = [job \in Jobs |-> AtRest]
    /\ alone = "none" /\ passes = 0

RecordTypeOK ==
    /\ \A i \in DOMAIN evaluations :
          evaluations[i].allowed \in BOOLEAN /\ evaluations[i].submitted \in BOOLEAN
    /\ latest.row \in 0 .. Len(evaluations)
    /\ \A job \in Jobs :
          pass[job].at \in {"rest", "again", "limit", "guard", "risk", "protect",
                            "order", "mark", "done"}
    /\ alone \in Jobs \cup {"none"}

-----------------------------------------------------------------------------
JobAt(job, step) == pass[job].at = step
OnItsWay(job) == ~JobAt(job, "rest") /\ ~JobAt(job, "done")
\* A pass begins in its first step, and forgets the one before.
BeginsPass(job) ==
    /\ ~OnItsWay(job) /\ passes < MaxPasses /\ passes' = passes + 1
    /\ job \in Locked => \A other \in Locked : ~OnItsWay(other)
    /\ alone' = IF \E other \in Jobs : OnItsWay(other) THEN "none" ELSE job
Continues == UNCHANGED <<alone, passes>>
\* Of a pass that failed, and of one that was not alone, nothing is asked.
Becomes(job, record) ==
    LET told == IF record.failed
                THEN [record EXCEPT !.told = "none", !.reason = "none"] ELSE record IN
    pass' = [other \in Jobs |->
               IF other = job
               THEN IF record.at = "done" /\ alone' # job THEN AtRest ELSE told
               ELSE IF JobAt(other, "done") /\ alone' # other THEN AtRest ELSE pass[other]]

\* _safe_save_candidate_evaluation: a row that is not saved is logged and
\* forgotten, and the intent is made all the same.
Saves(outcome, saved) ==
    evaluations' = IF saved /\ outcome # "left_out"
                   THEN Append(evaluations,
                          [allowed |-> outcome = "allowed", submitted |-> FALSE,
                           decision |-> IF outcome = "allowed" THEN "BUY_ALLOWED"
                                        ELSE "BUY_BLOCKED"])
                   ELSE evaluations
Keeps(outcome, saved) ==
    latest' = [ran |-> TRUE, intent |-> outcome = "allowed",
               row |-> IF outcome = "allowed" /\ saved THEN Len(evaluations) + 1 ELSE 0]
EvaluationOutcomes == {"allowed", "blocked", "left_out"}

\* runtime.run; mock_buy has dry_run do it where nothing ran before.  A run
\* that raises changes nothing here.
Runs(job, outcome, saved) ==
    /\ BeginsPass(job) /\ (job = "mock_buy" => ~latest.ran)
    /\ Saves(outcome, saved)
    /\ LET twice == job = "recheck" /\ Hybrid IN
       /\ IF twice THEN UNCHANGED latest ELSE Keeps(outcome, saved)
       /\ Becomes(job, [AtRest EXCEPT !.failed = ~saved,
                          !.at = IF job = "dry_run" THEN "done"
                                 ELSE IF twice THEN "again"
                                 ELSE "limit"])

\* hybrid_recheck evaluates what it selects of the two runs once more.
EvaluatesAgain(outcome, saved) ==
    /\ JobAt("recheck", "again") /\ Saves(outcome, saved) /\ Keeps(outcome, saved)
    /\ Continues
    /\ Becomes("recheck", [pass["recheck"] EXCEPT !.at = "limit", !.failed = @ \/ ~saved])

\* latest.result.buy_intents, as it is by now.  It is stale where an order went
\* out for its row, or a recheck raised between its two evaluations.
Taken(record) ==
    [record EXCEPT !.row = latest.row,
                   !.stale = latest.row # 0 /\ (evaluations[latest.row].submitted
                               \/ \E i \in DOMAIN evaluations :
                                     i > latest.row /\ evaluations[i].allowed)]

\* mock_buy takes the intents of the run that was last, whosever it was.
TakesLatest ==
    /\ \/ BeginsPass("mock_buy") /\ latest.ran
       \/ JobAt("mock_buy", "limit") /\ Continues
    /\ LET record == IF JobAt("mock_buy", "limit") THEN pass["mock_buy"] ELSE AtRest IN
       Becomes("mock_buy",
               [Taken(record) EXCEPT !.at = IF latest.intent THEN "guard" ELSE "done"])
    /\ UNCHANGED <<evaluations, latest>>

-----------------------------------------------------------------------------
\* The id a mark selects; 0 where no row fits.
LatestRow(fitting) == Max({0} \cup fitting)
AllowedRows == {i \in DOMAIN evaluations : evaluations[i].allowed}
NotSubmitted == {i \in AllowedRows : ~evaluations[i].submitted}
Mutant_NotSubmittedRow == IF NotSubmitted = {} THEN 0 ELSE Min(NotSubmitted)
NotSubmittedRow == LatestRow(NotSubmitted)
SubmittedRow == LatestRow(AllowedRows)

MarkedNot(reason) ==
    LET id == NotSubmittedRow IN
    IF id = 0 THEN evaluations ELSE [evaluations EXCEPT ![id].decision = reason]
MarkedSubmitted ==
    LET id == SubmittedRow IN
    IF id = 0 THEN evaluations
    ELSE [evaluations EXCEPT ![id].submitted = TRUE, ![id].decision = "ORDER_SUBMITTED"]

\* The mark and then the event, either of which may fail without a word.
Losses == {{}, {"mark"}, {"event"}}
RecordedPass(record, step, reason, event, lost) ==
    [record EXCEPT !.at = step, !.reason = reason, !.told = event,
                   !.failed = @ \/ lost # {}]
MarksNot(reason, lost) ==
    evaluations' = IF "mark" \in lost THEN evaluations ELSE MarkedNot(reason)

\* record_buy_not_submitted, record_order_protection_blocked and
\* record_order_submit_failed
Records(job, step, reason, event, lost) ==
    /\ Continues /\ MarksNot(reason, lost)
    /\ Becomes(job, RecordedPass(pass[job], step, reason, event, lost))
    /\ UNCHANGED latest
\* Goes on without a mark; an event that is not final may be lost.
Goes(job, step, lost) ==
    /\ Continues /\ Becomes(job, [pass[job] EXCEPT !.at = step, !.failed = @ \/ lost])
    /\ UNCHANGED <<evaluations, latest>>

\* limited_intraday_buy_intents
PassesLimits(job) ==
    /\ job \in Locked /\ JobAt(job, "limit") /\ Continues
    /\ Becomes(job, [Taken(pass[job]) EXCEPT !.at = IF latest.intent THEN "guard" ELSE "done"])
    /\ UNCHANGED <<evaluations, latest>>
\* For one of its five reasons the recheck does not buy; the reorder does not
\* ask for the reason and records nothing.
Limited(job, lost) ==
    /\ job \in Locked /\ JobAt(job, "limit") /\ latest.intent /\ Continues
    /\ IF job = "recheck"
       THEN /\ MarksNot("NO_ORDER_LIMIT", lost)
            /\ Becomes(job, RecordedPass(Taken(pass[job]), "done", "NO_ORDER_LIMIT",
                                     "BUY_NOT_SUBMITTED", lost))
       ELSE Becomes(job, [Taken(pass[job]) EXCEPT !.at = "done"]) /\ UNCHANGED evaluations
    /\ UNCHANGED latest

\* apply_stop_loss_entry_guards
PassesGuard(job) == JobAt(job, "guard") /\ Goes(job, "protect", FALSE)
Guarded(job, lost) ==
    /\ JobAt(job, "guard")
    /\ Records(job, IF job = "recheck" THEN "risk" ELSE "done", "STOP_LOSS_GUARD",
               "BUY_NOT_SUBMITTED", lost)
\* _risk_guard_no_order_diagnostics: the recheck records it once more.
RecordsRiskGuard(lost) ==
    /\ JobAt("recheck", "risk")
    /\ Records("recheck", "done", "NO_ORDER_RISK_GUARD", "BUY_NOT_SUBMITTED", lost)

\* buy_order_protection_log: without a quote the order goes out unprotected.
PassesProtection(job, lost) == JobAt(job, "protect") /\ Goes(job, "order", lost)
Protected(job, lost) ==
    /\ JobAt(job, "protect")
    /\ Records(job, "done", "ORDER_PROTECTION", "ORDER_PROTECTION_BLOCKED", lost)

\* _submit_with_retry
Retries(job, lost) ==
    /\ JobAt(job, "order") /\ pass[job].tries < MaxIntentRetries /\ Continues
    /\ Becomes(job, [pass[job] EXCEPT !.tries = @ + 1, !.failed = @ \/ lost])
    /\ UNCHANGED <<evaluations, latest>>
OrderFailed(job, lost) ==
    /\ JobAt(job, "order") /\ pass[job].tries = MaxIntentRetries
    /\ Records(job, "done", "ORDER_FAILED", "ORDER_SUBMIT_FAILED", lost)
Acknowledged(job) ==
    /\ JobAt(job, "order") /\ Continues
    /\ Becomes(job, [pass[job] EXCEPT !.at = "mark", !.acked = TRUE])
    /\ UNCHANGED <<evaluations, latest>>
MarksSubmitted(job, lost) ==
    /\ JobAt(job, "mark") /\ Continues
    /\ evaluations' = IF "mark" \in lost THEN evaluations ELSE MarkedSubmitted
    /\ Becomes(job, RecordedPass(pass[job], "done", "ORDER_SUBMITTED",
                             "ORDER_SUBMIT_SUCCEEDED", lost))
    /\ UNCHANGED latest

\* An account read, a cancellation or repository.save_log raises, none of which
\* is wrapped: the job is over.
JobRaises(job) ==
    /\ pass[job].at \in {"again", "limit", "guard", "risk", "protect", "order"}
    /\ Goes(job, "done", TRUE)

RecordNext ==
    \E job \in Jobs :
        \/ \E outcome \in EvaluationOutcomes, saved \in BOOLEAN : Runs(job, outcome, saved)
        \/ PassesLimits(job) \/ PassesGuard(job) \/ Acknowledged(job) \/ JobRaises(job)
        \/ \E lost \in Losses :
              \/ Limited(job, lost) \/ Guarded(job, lost) \/ Protected(job, lost)
              \/ OrderFailed(job, lost) \/ MarksSubmitted(job, lost)
        \/ \E lost \in BOOLEAN : PassesProtection(job, lost) \/ Retries(job, lost)
        \/ job = "mock_buy" /\ TakesLatest
        \/ /\ job = "recheck"
           /\ \/ \E outcome \in EvaluationOutcomes, saved \in BOOLEAN : EvaluatesAgain(outcome, saved)
              \/ \E lost \in Losses : RecordsRiskGuard(lost)

RecordSpec == RecordInit /\ [][RecordNext]_recordVars

-----------------------------------------------------------------------------
\* A pass that met no other, and for which the database worked, leaves the row
\* of its intent as it ended itself: submitted if and only if the order was
\* acknowledged, and otherwise with the last reason that held it back; the
\* event it told last says the same.  Not meant: a stale intent of `latest`.
LastPassRecorded ==
    (alone # "none" /\ JobAt(alone, "done") /\ pass[alone].row # 0
        /\ ~pass[alone].failed /\ ~pass[alone].stale)
    => LET row == evaluations[pass[alone].row] IN
       /\ row.submitted <=> pass[alone].acked
       /\ row.decision = pass[alone].reason
       /\ row.submitted <=> pass[alone].told = "ORDER_SUBMIT_SUCCEEDED"
=============================================================================

------------------------------ MODULE Screening ------------------------------
(***************************************************************************)
(* ScreeningScoringPipeline.run (pipeline.py) with screening.py,           *)
(* scoring.py and global_entry_gate, the tables it writes (repositories.py)*)
(* and what the monitor reads from them.  A ticker is a number: stocks are *)
(* ranked, evaluated and preferred in this order.  Prices are dollars,     *)
(* rates per cent.                                                         *)
(***************************************************************************)
EXTENDS Integers, FiniteSets

CONSTANTS
    Stocks,         \* tickers
    SnapshotOf,     \* what a snapshot of a stock says
    Rankings,       \* what one of the three rankings may answer
    ManualLists,    \* what the manual buy list may hold
    ScoreParts,     \* [news, chart]: the two shares of a total score
    Markets,        \* market context and account at the start of a run
    ScreenSettings, \* the settings a run may have
    MaxRuns         \* bound: runs of a day

ASSUME ScreeningAssumption ==
    /\ Stocks \subseteq Nat /\ IsFiniteSet(Stocks) /\ MaxRuns \in Nat
    /\ Rankings \cup ManualLists \subseteq SUBSET Stocks
    /\ \A p \in ScoreParts : {p.news, p.chart} \subseteq Int
    /\ \A t \in Stocks :
           {SnapshotOf[t].volume_ratio, SnapshotOf[t].change, SnapshotOf[t].price,
            SnapshotOf[t].gap} \subseteq Int

\* _validate_positive_count bounds the two numbers of stocks.
ASSUME ScreenSettingsAssumption ==
    \A s \in ScreenSettings :
        /\ {s.max_selected, s.max_manual_selected} \subseteq Nat
        /\ {s.min_price, s.max_price, s.min_change, s.min_volume_ratio, s.max_gap,
            s.min_total_score} \subseteq Int

VARIABLES
    screenPc,    \* where run() is
    runNo,       \* runs of the day
    screenSettings,
    entryGate,   \* entry_gate
    penalty,     \* _market_context_score_penalty
    level,       \* active_profile.level
    requested,   \* requested_tickers
    snapshots,   \* stocks with a snapshot
    evaluated,   \* evaluated_tickers
    evalTimedOut,\* candidate_eval_timeout_seconds are over
    candidates,  \* candidates of the rankings
    sources,     \* candidate_sources, by target
    selected,    \* selected_tickers
    scored,      \* total score by scored ticker
    dailyRows,   \* newest rows of daily_target: run and tickers
    listedRows,  \* newest rows of listed_target_snapshot
    scoreRows,   \* newest rows of scoring
    emptyLog     \* run of the last log 'Screened 0 targets'

screenTables == <<dailyRows, listedRows, scoreRows, emptyLog>>
screenVars == <<screenPc, runNo, screenSettings, entryGate, penalty, level,
                requested, snapshots, evaluated, evalTimedOut, candidates,
                sources, selected, scored, screenTables>>

NoRows == [run |-> 0, tickers |-> {}]
NoSources == [t \in {} |-> "AUTO"]
NoScores == [t \in {} |-> 0]

ScreenInit ==
    /\ screenPc = "idle" /\ runNo = 0 /\ screenSettings = {}
    /\ entryGate = "none" /\ penalty = 0 /\ level = 0
    /\ requested = {} /\ snapshots = {} /\ evaluated = {}
    /\ evalTimedOut = FALSE
    /\ candidates = {} /\ sources = NoSources
    /\ selected = {} /\ scored = NoScores
    /\ dailyRows = NoRows /\ listedRows = NoRows /\ scoreRows = NoRows
    /\ emptyLog = 0

-----------------------------------------------------------------------------
AtLeast(a, b) == IF a < b THEN b ELSE a
AtMost(a, b) == IF a < b THEN a ELSE b

\* The first k of S in the order of the tickers.
FirstOf(S, k) == {x \in S : Cardinality({y \in S : y < x}) < k}

\* global_entry_gate: "ok", "MARKET_BELOW_MA20_BYPASSED", or what blocks.
GlobalEntryGate(m, s) ==
    LET bypass == s.allow_bypass /\ s.app_mode = "test" /\ s.mock_trading
    IN  IF m.below_ma20 /\ ~bypass THEN "MARKET_BELOW_MA20"
        ELSE IF m.fx_volatile THEN "FX_VOLATILITY"
        ELSE IF m.daily_loss THEN "DAILY_ACCOUNT_LOSS"
        ELSE IF m.open_positions >= s.max_open_positions THEN "OPEN_POSITION_LIMIT"
        ELSE IF m.equity <= 0 THEN "INVALID_ACCOUNT_EQUITY"
        ELSE IF m.invested * 100 >= s.max_account_exposure * m.equity
             THEN "ACCOUNT_EXPOSURE_LIMIT"
        ELSE IF m.below_ma20 THEN "MARKET_BELOW_MA20_BYPASSED"
        ELSE "ok"

ReliableForBuy(m) ==
    /\ m.status \in {"ok", "cached"}
    /\ m.source \in {"fresh", "last_good_cache", "proxy"}

ScorePenalty(m) ==
    IF {m.status, m.source} \cap {"degraded", "unknown"} # {} THEN 5
    ELSE IF m.source = "proxy" THEN 3
    ELSE IF m.source = "last_good_cache" \/ m.status = "cached" THEN 2
    ELSE 0

\* _relaxation_profiles: profile 0 is the strict one, 1 and 2 only ask for
\* more ranks, 4 for more gainers.
Profile(n, s) ==
    [min_price |-> IF n = 7 THEN 5 ELSE AtLeast(s.min_price, 10),
     max_price |-> IF n >= 3 THEN AtLeast(s.max_price, 300) ELSE s.max_price,
     min_change |-> IF n >= 5 THEN 0 ELSE s.min_change,
     min_volume_ratio |-> AtLeast(s.min_volume_ratio, 1),
     max_gap |-> AtMost(s.max_gap, 30),
     min_total_score |-> IF n >= 6 THEN 35 ELSE AtLeast(s.min_total_score, 35)]

\* opening_screen_reason is None
OpeningScreen(t, p) ==
    LET stock == SnapshotOf[t]
    IN  /\ stock.volume_ratio >= p.min_volume_ratio
        /\ stock.change >= p.min_change
        /\ p.min_price <= stock.price /\ stock.price <= p.max_price
        /\ stock.gap < p.max_gap

ActiveProfile == Profile(level, screenSettings)

\* ranking_intersection of rankings filled up by _with_missing_ranks, and
\* composite_ranking_selection: both take what any of the rankings names.
TargetFiltered ==
    AtLeast(screenSettings.target_filtered, screenSettings.max_selected)
RankedCandidates ==
    FirstOf({t \in requested \cap snapshots : OpeningScreen(t, ActiveProfile)},
            TargetFiltered)

-----------------------------------------------------------------------------
RunStarts ==
    /\ screenPc \in {"idle", "returned", "raised"} /\ runNo < MaxRuns
    /\ runNo' = runNo + 1 /\ screenPc' = "rank"
    /\ screenSettings' \in ScreenSettings
    /\ \E m \in Markets :
          /\ entryGate' = IF ReliableForBuy(m)
                          THEN GlobalEntryGate(m, screenSettings')
                          ELSE "MARKET_CONTEXT_UNRELIABLE"
          /\ penalty' = ScorePenalty(m)
    /\ level' = 0 /\ requested' = {} /\ snapshots' = {} /\ evaluated' = {}
    /\ evalTimedOut' = FALSE /\ candidates' = {} /\ sources' = NoSources
    /\ selected' = {} /\ scored' = NoScores
    /\ UNCHANGED screenTables

\* _fetch_ranked_stocks: a ranking that fails is empty.
FetchRankings ==
    /\ screenPc = "rank" /\ screenPc' = "evaluate"
    /\ \E gainers, turnover, trade_value \in Rankings \cup {{}} :
          requested' = gainers \cup turnover \cup trade_value
    /\ UNCHANGED <<runNo, screenSettings, entryGate, penalty, level, snapshots,
                   evaluated, evalTimedOut, candidates, sources, selected,
                   scored, screenTables>>

TimeRunsOut ==
    /\ screenPc = "evaluate" /\ screenSettings.eval_timeout
    /\ evalTimedOut' = TRUE
    /\ UNCHANGED <<screenPc, runNo, screenSettings, entryGate, penalty, level,
                   requested, snapshots, evaluated, candidates, sources,
                   selected, scored, screenTables>>

Evaluable == FirstOf(requested, AtLeast(screenSettings.max_evaluated, 0))
MustStop ==
    \/ Cardinality(RankedCandidates) >= TargetFiltered
    \/ evalTimedOut
    \/ Evaluable \subseteq evaluated

\* A batch of _evaluate_ranked_candidates; some snapshots may be missing.
EvaluateBatch ==
    /\ screenPc = "evaluate" /\ ~MustStop
    /\ LET size == IF Evaluable \cap evaluated = {}
                   THEN screenSettings.initial_limit
                   ELSE screenSettings.batch_size
           batch == FirstOf(Evaluable \ evaluated, AtLeast(size, 1))
       IN  /\ \E missing \in SUBSET batch :
                 snapshots' = snapshots \cup (batch \ missing)
           /\ evaluated' = evaluated \cup batch
    /\ UNCHANGED <<screenPc, runNo, screenSettings, entryGate, penalty, level,
                   requested, evalTimedOut, candidates, sources, selected,
                   scored, screenTables>>

Mutant_EvaluationStops ==            \* relaxes without being asked
    /\ screenPc = "evaluate" /\ MustStop
    /\ candidates' = RankedCandidates
    /\ IF Cardinality(candidates') < screenSettings.min_selected /\ level < 7
       THEN level' = level + 1 /\ screenPc' = "rank"
       ELSE screenPc' = "manual" /\ UNCHANGED level
    /\ UNCHANGED <<runNo, screenSettings, entryGate, penalty, requested,
                   snapshots, evaluated, evalTimedOut, sources, selected,
                   scored, screenTables>>

\* Enough candidates, or the next profile, if relaxing is allowed.
EvaluationStops ==
    /\ screenPc = "evaluate" /\ MustStop
    /\ candidates' = RankedCandidates
    /\ IF /\ Cardinality(candidates') < screenSettings.min_selected
          /\ screenSettings.allow_relaxed /\ level < 7
       THEN level' = level + 1 /\ screenPc' = "rank"
       ELSE screenPc' = "manual" /\ UNCHANGED level
    /\ UNCHANGED <<runNo, screenSettings, entryGate, penalty, requested,
                   snapshots, evaluated, evalTimedOut, sources, selected,
                   scored, screenTables>>

\* _merge_candidate_sources
Sources(autos, manuals) ==
    [t \in autos \cup manuals |->
        IF t \in autos \cap manuals THEN "BOTH"
        ELSE IF t \in autos THEN "AUTO"
        ELSE "MANUAL"]

\* _manual_candidate_progress; a list that cannot be read is empty.
ManualCandidates ==
    /\ screenPc = "manual" /\ screenPc' = "daily"
    /\ \E list \in ManualLists \cup {{}}, missing \in SUBSET Stocks :
          LET tickers == IF screenSettings.manual_enabled
                         THEN FirstOf(list, screenSettings.max_manual_tickers)
                         ELSE {}
              known == (snapshots \cup tickers) \ (missing \ snapshots)
          IN  /\ missing \subseteq tickers \ snapshots
              /\ snapshots' = known
              /\ evaluated' = evaluated \cup (tickers \ snapshots)
              /\ sources' = Sources(candidates,
                     {t \in tickers \cap known : OpeningScreen(t, ActiveProfile)})
    /\ UNCHANGED <<runNo, screenSettings, entryGate, penalty, level, requested,
                   evalTimedOut, candidates, selected, scored, screenTables>>

TargetTickers == DOMAIN sources
StrictShortfall ==
    /\ ~screenSettings.allow_relaxed
    /\ Cardinality(TargetTickers) < screenSettings.min_selected
    /\ \A t \in TargetTickers : sources[t] = "AUTO"

Rows(tickers, old) ==
    IF tickers = {} THEN old ELSE [run |-> runNo, tickers |-> tickers]

\* save_daily_targets: two tables, two transactions.
SaveDailyTargets ==
    /\ screenPc = "daily" /\ screenPc' = "listed"
    /\ dailyRows' = Rows(TargetTickers, dailyRows)
    /\ UNCHANGED <<runNo, screenSettings, entryGate, penalty, level, requested,
                   snapshots, evaluated, evalTimedOut, candidates, sources,
                   selected, scored, listedRows, scoreRows, emptyLog>>

SaveListedTargets ==
    /\ screenPc = "listed"
    /\ screenPc' = IF StrictShortfall THEN "final_log" ELSE "score"
    /\ listedRows' = Rows(TargetTickers, listedRows)
    /\ UNCHANGED <<runNo, screenSettings, entryGate, penalty, level, requested,
                   snapshots, evaluated, evalTimedOut, candidates, sources,
                   selected, scored, dailyRows, scoreRows, emptyLog>>

-----------------------------------------------------------------------------
\* _apply_market_context_confidence_penalty: the chart's share pays, to zero.
Penalised(parts) == parts.news + AtLeast(parts.chart - penalty, 0)

Passing(totals, minimum) == {t \in DOMAIN totals : totals[t] >= minimum}

\* The minimum score goes down to 35 when too few scores pass.
AppliedMinimum(totals) ==
    LET minimum == ActiveProfile.min_total_score
        few == Cardinality(Passing(totals, minimum)) < screenSettings.min_selected
    IN  IF screenSettings.allow_relaxed /\ few THEN AtMost(minimum, 35)
        ELSE minimum

\* select_candidates: the k best, by score and then by ticker.
Best(S, totals, k) ==
    {t \in S : Cardinality({u \in S : \/ totals[u] > totals[t]
                                      \/ totals[u] = totals[t] /\ u < t}) < k}

SelectedBySource(totals) ==
    LET from(kinds) == {t \in Passing(totals, AppliedMinimum(totals)) :
                            sources[t] \in kinds}
    IN  Best(from({"AUTO", "BOTH"}), totals, screenSettings.max_selected)
        \cup Best(from({"MANUAL", "BOTH"}), totals,
                  AtLeast(screenSettings.max_manual_selected, 0))

Score ==
    /\ screenPc = "score" /\ screenPc' = "scores"
    /\ \E parts \in [TargetTickers -> ScoreParts] :
          scored' = [t \in TargetTickers |-> Penalised(parts[t])]
    /\ selected' = SelectedBySource(scored')
    /\ UNCHANGED <<runNo, screenSettings, entryGate, penalty, level, requested,
                   snapshots, evaluated, evalTimedOut, candidates, sources,
                   screenTables>>

SaveDailyScores ==
    /\ screenPc = "scores" /\ screenPc' = "final_log"
    /\ scoreRows' = Rows(DOMAIN scored, scoreRows)
    /\ UNCHANGED <<runNo, screenSettings, entryGate, penalty, level, requested,
                   snapshots, evaluated, evalTimedOut, candidates, sources,
                   selected, scored, dailyRows, listedRows, emptyLog>>

Mutant_RunReturns ==                 \* an empty run leaves no mark
    /\ screenPc = "final_log" /\ screenPc' = "returned"
    /\ UNCHANGED <<runNo, screenSettings, entryGate, penalty, level, requested,
                   snapshots, evaluated, evalTimedOut, candidates, sources,
                   selected, scored, screenTables>>

\* The log 'Screened n targets', the last call that may raise.
RunReturns ==
    /\ screenPc = "final_log" /\ screenPc' = "returned"
    /\ emptyLog' = IF TargetTickers = {} THEN runNo ELSE emptyLog
    /\ UNCHANGED <<runNo, screenSettings, entryGate, penalty, level, requested,
                   snapshots, evaluated, evalTimedOut, candidates, sources,
                   selected, scored, dailyRows, listedRows, scoreRows>>

(* Market data, tables and the logs that are saved without _safe_log raise *)
(* out of run(); what was written before stays.                            *)
RunRaises ==
    /\ screenPc \notin {"idle", "returned", "raised"}
    /\ screenPc' = "raised"
    /\ UNCHANGED <<runNo, screenSettings, entryGate, penalty, level, requested,
                   snapshots, evaluated, evalTimedOut, candidates, sources,
                   selected, scored, screenTables>>

ScreenNext ==
    \/ RunStarts \/ FetchRankings \/ TimeRunsOut \/ EvaluateBatch
    \/ EvaluationStops \/ ManualCandidates \/ SaveDailyTargets
    \/ SaveListedTargets \/ Score \/ SaveDailyScores \/ RunReturns \/ RunRaises

ScreenSpec == ScreenInit /\ [][ScreenNext]_screenVars

-----------------------------------------------------------------------------
(* The monitor (SqlServerMonitorRepository): rows within five seconds of   *)
(* the newest; runs are further apart than that, rows of a run are not.    *)

LatestSavedNoTargets == emptyLog > 0 /\ emptyLog >= dailyRows.run
LatestTargets ==
    IF LatestSavedNoTargets THEN {}
    ELSE IF listedRows # NoRows THEN listedRows.tickers
    ELSE dailyRows.tickers
LatestScores == IF LatestSavedNoTargets THEN {} ELSE scoreRows.tickers

-----------------------------------------------------------------------------
ScreenTypeOK ==
    /\ runNo \in 0..MaxRuns /\ level \in 0..7
    /\ requested \cup snapshots \cup evaluated \cup selected \subseteq Stocks
    /\ candidates \subseteq Stocks
    /\ DOMAIN scored \subseteq DOMAIN sources
    /\ emptyLog \in 0..MaxRuns

(* Without ALLOW_RELAXED_CANDIDATE_FILTER no selected stock falls short of *)
(* the configured filter and the configured score: not after a ranking or  *)
(* a snapshot that failed, not after a timeout, and not as a stock of the  *)
(* manual list; and the two selections together stay within their limits.  *)
StrictStaysStrict ==
    screenPc \in {"scores", "final_log", "returned"} =>
        /\ ~screenSettings.allow_relaxed =>
               \A t \in selected :
                   /\ OpeningScreen(t, screenSettings)
                   /\ scored[t] >= screenSettings.min_total_score
        /\ Cardinality(selected) <=
               screenSettings.max_selected
               + (IF screenSettings.manual_enabled
                  THEN screenSettings.max_manual_selected ELSE 0)

(* After a run that returned, the monitor shows its targets and its scores *)
(* and none of an earlier run of the day, also when it found nothing and   *)
(* wrote no row, and when an earlier run broke off between two tables.     *)
(* Excluded by name: a strict run with too few candidates, which saves its *)
(* targets and no scores, so that scores of an earlier run stay in sight.  *)
MonitorShowsLastRun ==
    screenPc = "returned" =>
        /\ LatestTargets = TargetTickers
        /\ ~StrictShortfall => LatestScores = DOMAIN scored
=============================================================================

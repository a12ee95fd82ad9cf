------------------------------ MODULE MC_Parts ------------------------------
(***************************************************************************)
(* The parts that share no state with each other, side by side in one run: *)
(* a behaviour starts with all of them at rest, and its first step chooses *)
(* the one that moves from then on.  Below, the values of their constants. *)
(***************************************************************************)
EXTENDS MC_PositionLife, EntryPlanner, MarketClose, TokenStore, Screening,
        SharedFiles, RuntimeSettings, ExitStudy, IntradayBacktest, FillReview,
        CandidateRecord, MarketContext, RankedSelection, PacketDelivery,
        LiveSnapshots, TradeAttribution

VARIABLE part   \* the part that moves

Parts == {"entry", "life", "close", "token", "screen", "files", "settings",
          "study", "replay", "review", "record", "context", "select", "packet",
          "snapshots", "attribution"}

\* EntryPlanner: prices that a budget of 100 buys many, few or no shares of,
\* and every single condition failed or without data.
ConditionKeys == {"close", "hold", "volume", "vwap", "ma20", "pullback"}
AllPass == [key \in ConditionKeys |-> "PASS"]
MC_Features ==
    {AllPass} \cup {[AllPass EXCEPT ![key] = state] :
                      key \in ConditionKeys, state \in {"FAIL", "NO_DATA"}}
    \cup {[AllPass EXCEPT !.vwap = "NO_DATA", !.ma20 = state] :
            state \in {"FAIL", "NO_DATA"}}
Candidate(breakout, overheat, score, price, features) ==
    [breakout_triggered |-> breakout, overheat_pass |-> overheat,
     total_score |-> score, last_price |-> price, features |-> features]
MC_EntryCandidates ==
    {Candidate(TRUE, TRUE, 95, 6, features) : features \in MC_Features}
    \cup {Candidate(TRUE, TRUE, score, 25, AllPass) : score \in {62, 75}}
    \cup {Candidate(FALSE, FALSE, 95, 6, AllPass), Candidate(TRUE, FALSE, 95, 6, AllPass),
          Candidate(TRUE, TRUE, 40, 400, AllPass)}

ModeOfAll(mode_) == [key \in {"overheat"} \cup Conditions |-> mode_]
TestMode ==
    [app_mode |-> "test", mock_trading |-> TRUE, missing_data_policy |-> "AUTO",
     required |-> {"close", "volume", "pullback"}, breakout_hold_minutes |-> 1,
     vwap_ma20_type |-> "OR",
     mode |-> [ModeOfAll("SOFT_SCORE") EXCEPT !.overheat = "HARD_FILTER",
                                              !.vwap_ma20 = "HARD_FILTER"],
     min_total_score |-> 60, max_position_exposure |-> 10,
     max_account_exposure |-> 30, max_open_positions |-> 3, price_range |-> 5 .. 300]
MC_EntrySettings ==
    {TestMode,
     [TestMode EXCEPT !.app_mode = "real", !.mock_trading = FALSE,
                      !.missing_data_policy = "LOG_ONLY"],
     [TestMode EXCEPT !.missing_data_policy = "BLOCK", !.required = Conditions,
                      !.breakout_hold_minutes = 0],
     [TestMode EXCEPT !.app_mode = "real", !.required = Conditions,
                      !.vwap_ma20_type = "AND", !.mode["close"] = "LOG_ONLY"],
     [TestMode EXCEPT !.mock_trading = FALSE, !.required = Conditions,
                      !.vwap_ma20_type = "VWAP_ONLY", !.mode = ModeOfAll("HARD_FILTER")],
     [TestMode EXCEPT !.required = Conditions, !.vwap_ma20_type = "MA20_ONLY",
                      !.max_position_exposure = 20, !.mode["pullback"] = "OFF"]}
MC_EntryAccounts ==
    {[cash |-> 1000, equity |-> 1000, invested |-> 0, open_positions |-> 0],
     [cash |-> 60, equity |-> 1000, invested |-> 940, open_positions |-> 2],
     [cash |-> 700, equity |-> 1000, invested |-> 200, open_positions |-> 1]}

\* Screening: three stocks, one of them in both rankings.
Stock(volume, change, price, gap) ==
    [volume_ratio |-> volume, change |-> change, price |-> price, gap |-> gap]
MC_SnapshotOf == <<Stock(2, 1, 350, 10), Stock(3, 5, 50, 5), Stock(2, 2, 6, 10)>>
QuietMarket ==
    [below_ma20 |-> FALSE, fx_volatile |-> FALSE, daily_loss |-> FALSE,
     open_positions |-> 0, equity |-> 100, invested |-> 0, status |-> "ok",
     source |-> "fresh"]
MC_Markets ==
    {[QuietMarket EXCEPT !.below_ma20 = TRUE], [QuietMarket EXCEPT !.status = "degraded"]}
RelaxedScreening ==
    [allow_bypass |-> TRUE, app_mode |-> "test", mock_trading |-> TRUE,
     max_open_positions |-> 3, max_account_exposure |-> 30, min_price |-> 10,
     max_price |-> 200, min_change |-> 2, min_volume_ratio |-> 1, max_gap |-> 20,
     min_total_score |-> 60, target_filtered |-> 1, max_selected |-> 1,
     min_selected |-> 1, max_evaluated |-> 2, initial_limit |-> 1, batch_size |-> 1,
     eval_timeout |-> TRUE, allow_relaxed |-> TRUE, manual_enabled |-> TRUE,
     max_manual_tickers |-> 2, max_manual_selected |-> 1]
MC_ScreenSettings ==
    {RelaxedScreening,
     [RelaxedScreening EXCEPT !.allow_relaxed = FALSE, !.min_selected = 2,
                              !.target_filtered = 2, !.eval_timeout = FALSE]}
MC_ScoreParts ==
    {[news |-> 4, chart |-> 58], [news |-> 9, chart |-> 70], [news |-> 0, chart |-> 40]}

\* RuntimeSettings: a preset, one price, the refresh flag, a refused rate, a mode.
MC_EnvValues ==
    [loss |-> 3, preset |-> 1, trailing |-> 4, min_price |-> 1, max_price |-> 3,
     refresh |-> 0, mode |-> 1]
MC_FileValues == [trailing |-> 5]
MC_Requests ==
    {[loss |-> 6, preset |-> 2], [loss |-> 3, preset |-> 1, min_price |-> 4],
     [loss |-> 7, refresh |-> 1], [loss |-> 60], [loss |-> 2, mode |-> 1]}

MC_StudyParams ==
    [threshold |-> 0, protection_trigger |-> 0, protection_floor |-> 0,
     partial_trigger |-> 0]

\* IntradayBacktest: a stock whose first bar is quiet and whose other four are
\* any, beside one that breaks out twice and one that does in its first bar.
Bar(open, high, low, close, volume) ==
    [time |-> 0, open |-> open, high |-> high, low |-> low, close |-> close,
     volume |-> volume]
QuietBar == Bar(100, 101, 99, 100, 1)
UpBar == Bar(100, 106, 99, 104, 3)
MC_OtherBars == {QuietBar, UpBar, Bar(102, 104, 95, 96, 2)}
FromOpening(bars) == [i \in DOMAIN bars |-> [bars[i] EXCEPT !.time = i - 1]]
BesidePrevious(bars) ==
    [previous |-> FromOpening(<<Bar(100, 104, 96, 100, 1), QuietBar, QuietBar>>),
     bars |-> FromOpening(bars)]
MC_Histories ==
    {<<BesidePrevious(<<QuietBar>> \o first), BesidePrevious(second)>> :
        first \in [1 .. 4 -> MC_OtherBars],
        second \in {<<QuietBar, QuietBar, UpBar, QuietBar, UpBar>>,
                    <<Bar(100, 106, 99, 103, 3), QuietBar, QuietBar, QuietBar, QuietBar>>}}
MC_Replay ==
    [min_price |-> 10, max_price |-> 200, min_change |-> 0, max_gap |-> 30,
     min_volume_ratio |-> 1300, opening_limit |-> 1, refresh_limit |-> 1,
     hybrid_limit |-> 2, stop_loss |-> 3, take_profit |-> 5,
     trailing_activation |-> 2, trailing_drop |-> 2]

\* FillReview: up to three parts of one, two or three shares.
MC_FillParts ==
    {[quantity |-> 1, profit |-> 2], [quantity |-> 2, profit |-> -1],
     [quantity |-> 3, profit |-> 0]}
MC_Executions == UNION {[1 .. n -> MC_FillParts] : n \in 1 .. 3}

\* MarketContext: the index above, below and at its average, in thousands.
MC_IndexStates == {[price |-> price, ma20 |-> 19] : price \in 18 .. 20}

\* RankedSelection: rankings that agree, that leave out stocks, and with ranks
\* too low to count; quotes before and in the session.
RankSelected(ranked) == [ticker \in {pair[1] : pair \in ranked} |->
                           (CHOOSE pair \in ranked : pair[1] = ticker)[2]]
MC_RankingSets ==
    {[gainers |-> RankSelected(gainers), turnover |-> RankSelected(turnover),
      trade_value |-> RankSelected(value)] :
        gainers \in {{<<1, 1>>, <<2, 2>>}, {<<1, 120>>, <<2, 90>>},
                     {<<1, 1>>, <<2, 3>>, <<3, 2>>}},
        turnover \in {{}, {<<2, 1>>}, {<<1, 2>>, <<3, 1>>}},
        value \in {{}, {<<1, 120>>}, {<<2, 90>>, <<3, 2>>}}}
QuoteOf(change, gap, volume) ==
    [price |-> 20, change |-> change, gap |-> gap, volume |-> volume]
MC_Quoted ==
    <<{QuoteOf(30, 10, 10), QuoteOf(8, 10, 10)},
      {QuoteOf(30, 10, 10), QuoteOf(100, 60, 25)}, {QuoteOf(160, 10, 10)}>>
MC_SelectionRules ==
    [min_volume_ratio |-> 10, min_change |-> 20, min_price |-> 10, max_price |-> 200,
     max_gap |-> 200]

\* PacketDelivery: a packet of several parts that loses its tail where it is
\* cut, and one that fits.
TextLine(kind, size) == [kind |-> kind, size |-> size]
DigestOf(date, row, notes) ==
    [date |-> date, preamble |-> <<TextLine("digest", 1)>>,
     body |-> <<TextLine("value", date), TextLine("ledger", 1), TextLine("row", row),
                TextLine("problems", 1), TextLine("hints", 1),
                TextLine("sources", 2), TextLine("notes", notes)>>]
MC_Digests == {DigestOf(1, 6, 4), DigestOf(2, 2, 1)}

\* LiveSnapshots: an order is placed and a position sold in between; earlier
\* polls left an order twice and positions that are gone.
AccountStage(money, listed, owned) ==
    [cash |-> money, orders |-> listed, holdings |-> owned]
MC_Stages ==
    <<AccountStage(5, <<1>>, <<[ticker |-> 1, quantity |-> 1], [ticker |-> 2, quantity |-> 2]>>),
      AccountStage(7, <<1, 2>>, <<[ticker |-> 2, quantity |-> 2]>>)>>
SavedRow(value) == [day |-> 1, value |-> value]
HeldRow(value) == [day |-> 1, value |-> value, old |-> FALSE]
MC_Leftover ==
    [current |-> <<SavedRow(9)>>, snapshots |-> <<SavedRow(9), SavedRow(8)>>,
     orders |-> <<SavedRow(3), SavedRow(3)>>,
     holdings |-> <<HeldRow([ticker |-> 3, quantity |-> 1]), HeldRow([ticker |-> 1, quantity |-> 2])>>]

\* TradeAttribution: sheets that fail alone, and those that another may replace.
MC_RowProfits == {NoProfit, 2}
MC_SheetFailures ==
    {{}, {"fill_history"}, {"pnl_by_day"}, {"pnl_by_day", "fill_history"},
     {"pnl_by_score_bucket"}, {"pnl_by_score_bucket", "pnl_by_source"},
     {"summary_reconciliation"}}

-----------------------------------------------------------------------------
PartsInit ==
    /\ part = "none"
    /\ EntryInit /\ LifeInit /\ CloseInit /\ TokenInit /\ ScreenInit
    /\ FileInit /\ SettingsInit /\ StudyInit /\ ReplayInit /\ ReviewInit
    /\ RecordInit /\ ContextInit /\ SelectInit /\ PacketInit
    /\ SnapshotInit /\ AttributionInit

Moves(p) == part \in {"none", p} /\ part' = p
Rests(p, vars) == IF part' = p THEN TRUE ELSE UNCHANGED vars

PartsNext ==
    /\ \/ Moves("entry") /\ EntryNext
       \/ Moves("life") /\ LifeNext
       \/ Moves("close") /\ CloseNext
       \/ Moves("token") /\ TokenNext
       \/ Moves("screen") /\ ScreenNext
       \/ Moves("files") /\ FileNext
       \/ Moves("settings") /\ SettingsNext
       \/ Moves("study") /\ StudyNext
       \/ Moves("replay") /\ ReplayNext
       \/ Moves("review") /\ ReviewNext
       \/ Moves("record") /\ RecordNext
       \/ Moves("context") /\ ContextNext
       \/ Moves("select") /\ SelectNext
       \/ Moves("packet") /\ PacketNext
       \/ Moves("snapshots") /\ SnapshotNext
       \/ Moves("attribution") /\ AttributionNext
    /\ Rests("entry", entryVars) /\ Rests("life", lifeVars)
    /\ Rests("close", closeVars) /\ Rests("token", tokenVars)
    /\ Rests("screen", screenVars) /\ Rests("files", fileVars)
    /\ Rests("settings", settingsVars) /\ Rests("study", studyVars)
    /\ Rests("replay", replayVars) /\ Rests("review", reviewVars)
    /\ Rests("record", recordVars) /\ Rests("context", contextVars)
    /\ Rests("select", selectVars) /\ Rests("packet", packetVars)
    /\ Rests("snapshots", snapshotVars) /\ Rests("attribution", attributionVars)

PartsSpec ==
    /\ PartsInit
    /\ [][PartsNext]_<<part, entryVars, lifeVars, closeVars, tokenVars, screenVars,
                       fileVars, settingsVars, studyVars, replayVars, reviewVars, recordVars,
                       contextVars, selectVars, packetVars, snapshotVars, attributionVars>>

\* A part at rest is as it was initialised.
PartsTypeOK ==
    /\ part \in Parts \cup {"none"}
    /\ part = "entry" => EntryTypeOK
    /\ part = "life" => LifeTypeOK
    /\ part = "close" => CloseTypeOK
    /\ part = "token" => TokenTypeOK
    /\ part = "screen" => ScreenTypeOK
    /\ part = "files" => FileTypeOK
    /\ part = "settings" => SettingsTypeOK
    /\ part = "study" => StudyTypeOK
    /\ part = "replay" => ReplayTypeOK
    /\ part = "review" => ReviewTypeOK
    /\ part = "record" => RecordTypeOK
    /\ part = "context" => ContextTypeOK
    /\ part = "select" => SelectTypeOK
    /\ part = "packet" => PacketTypeOK
    /\ part = "snapshots" => SnapshotTypeOK
    /\ part = "attribution" => AttributionTypeOK
=============================================================================

------------------------- MODULE IntradayBacktest -------------------------
(***************************************************************************)
(* intraday_backtest.py, the replay from which the candidate mode and the  *)
(* exit rates are chosen: one trading day of five-minute bars, in the      *)
(* modes fixed, refresh and hybrid.  A bar has its time (in bars since the *)
(* opening), prices and volume; slippage and commission are nil, rates are *)
(* in percent and the ratios compared in thousandths.                      *)
(***************************************************************************)
EXTENDS Integers, Sequences, FiniteSets, FiniteSetsExt, SequencesExt

CONSTANTS
    Histories,       \* histories: ticker -> [previous, bars], two sequences
    OtherBars,       \* bars to put in the place of one of the day
    ReplaySettings   \* the settings read, as a record

Bars == [time : Nat, open : Nat, high : Nat, low : Nat, close : Nat, volume : Nat]

\* _clean_history sorts the bars of a ticker, and a chart has one for a time.
ASSUME ReplayAssumption ==
    /\ OtherBars \subseteq Bars
    /\ \A history \in Histories :
          /\ DOMAIN history \subseteq Nat
          /\ \A t \in DOMAIN history :
                /\ history[t] \in [previous : Seq(Bars), bars : Seq(Bars)]
                /\ \A i, j \in DOMAIN history[t].bars :
                      i < j => history[t].bars[i].time < history[t].bars[j].time

VARIABLES
    replayed,  \* the cleaned history, sorted by time
    mode,      \* candidate_selection_mode of the replay
    trade      \* the trade of the day

replayVars == <<replayed, mode, trade>>

NoTrade == [ticker |-> 0, entry |-> 0, exit |-> 0, reason |-> "none"]

ReplayInit == replayed = <<>> /\ mode = "none" /\ trade = NoTrade

ReplayTypeOK ==
    /\ replayed = <<>> \/ replayed \in Histories
    /\ mode \in {"none", "fixed", "refresh", "hybrid"}
    /\ trade.entry <= trade.exit

-----------------------------------------------------------------------------
Volume(bars) ==
    LET sum[n \in 0 .. Len(bars)] == IF n = 0 THEN 0 ELSE sum[n - 1] + bars[n].volume
    IN  sum[Len(bars)]
Ratio(part, whole) == IF whole <= 0 THEN 0 ELSE (1000 * part) \div whole
FirstBars(bars, n) == SubSeq(bars, 1, Min({n, Len(bars)}))
HighOf(bars) == Max({bars[i].high : i \in DOMAIN bars})
LowOf(bars) == Min({bars[i].low : i \in DOMAIN bars})

\* volatility_breakout_price with k = 1/2
Breakout(stock) ==
    stock.bars[1].open + (HighOf(stock.previous) - LowOf(stock.previous)) \div 2

\* _passes_opening_filters and the two lengths that are tested before it
Eligible(stock) ==
    /\ Len(stock.bars) >= 2 /\ stock.previous # <<>>
    /\ LET open == stock.bars[1].open
           close == Last(stock.previous).close
       IN  /\ open \in ReplaySettings.min_price .. ReplaySettings.max_price
           /\ open * 100 >= close * (100 + ReplaySettings.min_change)
           /\ open * 100 < close * (100 + ReplaySettings.max_gap)
           /\ Ratio(Volume(FirstBars(stock.bars, 3)),
                    Volume(FirstBars(stock.previous, 3)))
                 >= ReplaySettings.min_volume_ratio

Mutant_Visible(bars, checkpoint) == bars
Visible(bars, checkpoint) ==
    FirstBars(bars, Cardinality({i \in DOMAIN bars : bars[i].time <= checkpoint}))

\* _candidate_score
CandidateScore(stock, checkpoint) ==
    LET visible == Visible(stock.bars, checkpoint)
        open == stock.bars[1].open
    IN  IF visible = <<>> \/ open <= 0 THEN 0
        ELSE ((Last(visible).close - open) * 100000) \div open
             + Ratio(Volume(visible), Volume(FirstBars(stock.previous, Len(visible))))

\* The tickers by falling score, then by name, up to the limit.
BestOf(points, limit) ==
    LET before(s, t) == points[s] > points[t] \/ (points[s] = points[t] /\ s < t)
        place == [t \in DOMAIN points |-> Cardinality({s \in DOMAIN points : before(s, t)})]
    IN  [i \in 1 .. Min({limit, Cardinality(DOMAIN points)}) |->
            CHOOSE t \in DOMAIN points : place[t] = i - 1]

\* _opening_candidate_tickers
OpeningCandidates(stocks) ==
    BestOf([t \in {t \in DOMAIN stocks : Eligible(stocks[t])} |->
               CandidateScore(stocks[t], stocks[t].bars[1].time)],
           ReplaySettings.opening_limit)

\* _refresh_candidate_tickers_at: within two percent of the breakout so far
RefreshCandidates(stocks, checkpoint) ==
    LET near(stock) ==
            LET visible == Visible(stock.bars, checkpoint) IN
            visible # <<>> /\ HighOf(visible) * 100 >= Breakout(stock) * 98
    IN  BestOf([t \in {t \in DOMAIN stocks : Eligible(stocks[t]) /\ near(stocks[t])} |->
                   CandidateScore(stocks[t], checkpoint)],
               ReplaySettings.refresh_limit)

\* _merge_candidates
Merged(opening, refreshed) ==
    FirstBars(opening \o SelectSeq(refreshed, LAMBDA t : t \notin Range(opening)),
              ReplaySettings.hybrid_limit)

\* _refresh_windows: from every third time of the day, but the last, 15 minutes
Windows(stocks) ==
    LET times == UNION {{stocks[t].bars[i].time : i \in DOMAIN stocks[t].bars} :
                          t \in DOMAIN stocks}
        place(time) == Cardinality({other \in times : other < time})
    IN  {time \in times : place(time) % 3 = 0 /\ time # Max(times)}

\* _first_signal_for_ticker: the bar that breaks out; the next one is bought
Triggers(stock, start, end) ==
    {i \in 1 .. Len(stock.bars) - 1 :
        /\ Eligible(stock)
        /\ start <= stock.bars[i].time /\ stock.bars[i].time < end
        /\ stock.bars[i].high >= Breakout(stock)}

\* _first_signal_in_window, and the loop of _first_fixed_trade_for_day
Signal(tickers, stocks, start, end) ==
    LET signals == UNION {{[time |-> stocks[t].bars[i].time, ticker |-> t, entry |-> i + 1] :
                             i \in Triggers(stocks[t], start, end)} :
                             t \in tickers \cap DOMAIN stocks}
    IN  {s \in signals : \A other \in signals :
            s.time < other.time \/ (s.time = other.time /\ s.ticker <= other.ticker)}

\* _first_refresh_trade_for_day, _first_hybrid_trade_for_day: the first window
\* in which one of its candidates has a signal
WindowSignal(stocks, start, kind) ==
    LET refreshed == RefreshCandidates(stocks, start)
        active == IF kind = "refresh" THEN refreshed
                  ELSE Merged(OpeningCandidates(stocks), refreshed)
    IN  Signal(Range(active), stocks, start, start + 3)

DaySignal(stocks, kind) ==
    LET signals == IF kind = "fixed" THEN <<Signal(DOMAIN stocks, stocks, 0, 1000)>>
                   ELSE [w \in Windows(stocks) |-> WindowSignal(stocks, w, kind)]
        found == {w \in DOMAIN signals : signals[w] # {}}
    IN  IF found = {} THEN {} ELSE signals[Min(found)]

-----------------------------------------------------------------------------
\* _simulate_trade: in each bar the stop first, then the profit, then the trail
ExitAt(bars, entry, i) ==
    LET price == bars[entry].open
        high == Max({price} \cup {bars[j].high : j \in entry .. i})
        activated == high * 100 >= price * (100 + ReplaySettings.trailing_activation)
    IN  IF bars[i].low * 100 <= price * (100 - ReplaySettings.stop_loss)
             THEN "STOP_LOSS"
        ELSE IF bars[i].high * 100 >= price * (100 + ReplaySettings.take_profit)
             THEN "TAKE_PROFIT"
        ELSE IF activated /\ bars[i].low * 100 <= high * (100 - ReplaySettings.trailing_drop)
             THEN "TRAILING_STOP"
        ELSE IF i = Len(bars) THEN "EOD" ELSE "none"

Mutant_SimulatedTrade(stocks, signal) ==      \* from the opening on
    LET bars == stocks[signal.ticker].bars
        reason(i) == ExitAt(bars, signal.entry, i)
        exit == Min({i \in 1 .. Len(bars) : reason(i) # "none"})
    IN  [ticker |-> signal.ticker, entry |-> signal.entry, exit |-> exit,
         reason |-> reason(exit)]

SimulatedTrade(stocks, signal) ==
    LET bars == stocks[signal.ticker].bars
        reason(i) == ExitAt(bars, signal.entry, i)
        exit == Min({i \in signal.entry .. Len(bars) : reason(i) # "none"})
    IN  [ticker |-> signal.ticker, entry |-> signal.entry, exit |-> exit,
         reason |-> reason(exit)]

TradeOf(stocks, kind) ==
    LET signal == DaySignal(stocks, kind) IN
    IF signal = {} THEN NoTrade
    ELSE SimulatedTrade(stocks, CHOOSE s \in signal : \A o \in signal : s.entry <= o.entry)

\* run_intraday_backtest, one of its days
Replays(kind) ==
    /\ mode = "none" /\ mode' = kind
    /\ replayed' \in Histories
    /\ trade' = TradeOf(replayed', kind)

ReplayNext == \E kind \in {"fixed", "refresh", "hybrid"} : Replays(kind)
ReplaySpec == ReplayInit /\ [][ReplayNext]_replayVars

-----------------------------------------------------------------------------
\* The replay does not look ahead: with any one bar of the day other than it
\* was, the ticker and the bar that are bought are the same unless that bar lies
\* before the purchase, and so is the whole trade unless it lies before the end
\* of the sale's bar.  Excepted are the first three bars, whose volume the
\* opening filter counts although a purchase may come in the second.
NoLookAhead ==
    trade # NoTrade =>
        LET bars == replayed[trade.ticker].bars IN
        \A t \in DOMAIN replayed : \A i \in 4 .. Len(replayed[t].bars) : \A bar \in OtherBars :
            LET was == replayed[t].bars[i]
                other == TradeOf([replayed EXCEPT ![t].bars[i] = [bar EXCEPT !.time = was.time]],
                                 mode)
            IN  /\ was.time >= bars[trade.entry].time =>
                      other.ticker = trade.ticker /\ other.entry = trade.entry
                /\ was.time > bars[trade.exit].time => other = trade
=============================================================================

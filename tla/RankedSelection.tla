-------------------------- MODULE RankedSelection --------------------------
(***************************************************************************)
(* Which stocks of three rankings a screening takes (screening.py with     *)
(* adapters/market_data.py): the rankings are read once, the quote and the *)
(* daily volumes of a stock later, minute by minute, or not at all; what   *)
(* passes the opening screen is scored by its ranks and its snapshot.      *)
(* Changes and gaps are in tenths of a percent, volumes in percent of the  *)
(* average day, scores in tenths of a point.                               *)
(***************************************************************************)
EXTENDS Integers, FiniteSets, FiniteSetsExt

CONSTANTS
    Tickers,        \* numbers, in the order of the names
    RankingSets,    \* what the three requests may return: [list -> [ticker -> rank]]
    Quoted,         \* [ticker -> the quotes it may have: price, change, gap, volume]
    SelectionRules, \* min_volume_ratio, min_change, min_price, max_price, max_gap
    SelectionLimit, \* how many candidates are taken
    ReadMinutes     \* minutes of the session at which quotes are read

Lists == {"gainers", "turnover", "trade_value"}

ASSUME SelectionAssumption ==
    /\ Tickers \subseteq Nat /\ IsFiniteSet(Tickers)
    /\ SelectionLimit \in Nat \ {0} /\ ReadMinutes \subseteq 0 .. 390
ASSUME RankingsAssumption ==
    \A ranking \in RankingSets : \A list \in Lists :
        DOMAIN ranking[list] \subseteq Tickers /\ ranking[list] \in [DOMAIN ranking[list] -> Nat]
ASSUME QuotedAssumption ==
    \A ticker \in Tickers :
        Quoted[ticker] \subseteq [price : Int, change : Int, gap : Int, volume : Nat]
ASSUME SelectionRulesAssumption ==
    \A rule \in {"min_volume_ratio", "min_change", "min_price", "max_price", "max_gap"} :
        SelectionRules[rule] \in Int

VARIABLES
    ranks,      \* the ranking of each list
    readings,   \* candidate_snapshots so far, of those that could be read
    market,     \* history: the quote each snapshot was made of
    readMinute, \* of the session
    chosen      \* composite_ranking_selection, or {} before

selectVars == <<ranks, readings, market, readMinute, chosen>>

NoneRead == [t \in {} |-> 0]

SelectInit ==
    /\ ranks = [list \in Lists |-> NoneRead]
    /\ readings = NoneRead /\ market = NoneRead
    /\ readMinute = 0 /\ chosen = {}

SelectTypeOK ==
    /\ \A list \in Lists : DOMAIN ranks[list] \subseteq Tickers
    /\ DOMAIN readings \subseteq Tickers /\ DOMAIN market = DOMAIN readings
    /\ readMinute \in 0 .. 390 /\ chosen \subseteq DOMAIN readings

-----------------------------------------------------------------------------
RankedTickers == UNION {DOMAIN ranks[list] : list \in Lists}

\* ranked_gainers, ranked_turnover and ranked_trade_value, cut at their limits.
ReadsRankings ==
    /\ RankedTickers = {} /\ ranks' \in RankingSets
    /\ UNCHANGED <<readings, market, readMinute, chosen>>

\* _price_change_rate: a percentage of at most one is taken for a fraction.
ReadChange(change) ==
    IF change > 10 \/ change < -10 THEN change ELSE 100 * change

\* _opening_volume_ratio, in percent of what is usual by that minute.
VolumeRatio(volume, at) ==
    (volume * 390) \div (IF at > 30 THEN at ELSE 30)

Reading(quote, at) ==
    [price |-> quote.price, change |-> ReadChange(quote.change), gap |-> quote.gap,
     volume |-> VolumeRatio(quote.volume, at)]

\* candidate_snapshots: a stock that fails at any stage has no snapshot, and
\* that is what happens where ReadsQuote is not taken.
ReadsQuote(ticker, quote, at) ==
    /\ chosen = {} /\ ticker \in RankedTickers \ DOMAIN readings /\ at >= readMinute
    /\ LET read == DOMAIN readings \cup {ticker} IN
       /\ readings' = [t \in read |-> IF t = ticker THEN Reading(quote, at)
                                       ELSE readings[t]]
       /\ market' = [t \in read |-> IF t = ticker THEN quote ELSE market[t]]
    /\ readMinute' = at
    /\ UNCHANGED <<ranks, chosen>>

\* opening_screen_reason with defensive_candidate_gate
PassesOpening(snapshot) ==
    /\ snapshot.volume >= SelectionRules.min_volume_ratio
    /\ snapshot.change >= SelectionRules.min_change
    /\ snapshot.price \in SelectionRules.min_price .. SelectionRules.max_price
    /\ snapshot.gap < SelectionRules.max_gap

Mutant_FallbackRank(list) == 0
\* _fallback_rank
FallbackRank(list) == Max({0} \cup {ranks[list][t] : t \in DOMAIN ranks[list]}) + 50
RankIn(list, ticker) ==
    IF ticker \in DOMAIN ranks[list] THEN ranks[list][ticker] ELSE FallbackRank(list)
WeightedRank(ticker) ==
    4 * RankIn("gainers", ticker) + 3 * RankIn("turnover", ticker)
        + 3 * RankIn("trade_value", ticker)

PresenceBonus(ticker) ==
    LET lists == Cardinality({list \in Lists : ticker \in DOMAIN ranks[list]}) IN
    CASE lists = 3 -> 250 [] lists = 2 -> 120 [] OTHER -> -50
VolumeBonus(ratio) == CASE ratio >= 300 -> 150 [] ratio \in 200 .. 299 -> 100 [] OTHER -> 50
ChangeAdjustment(change) ==
    CASE change < 80 -> 100 [] change \in 80 .. 149 -> 50
      [] change \in 150 .. 249 -> -50 [] OTHER -> -100
GapAdjustment(gap) == CASE gap < 50 -> 50 [] gap \in 50 .. 99 -> 20 [] OTHER -> -50

\* composite_ranking_score
CompositeScore(ticker) ==
    Max({0, 1000 - WeightedRank(ticker)}) + PresenceBonus(ticker)
        + VolumeBonus(readings[ticker].volume)
        + ChangeAdjustment(readings[ticker].change)
        + GapAdjustment(readings[ticker].gap)

\* The higher score first, then the name.
ScoredBefore(a, b) ==
    CompositeScore(a) > CompositeScore(b) \/ (CompositeScore(a) = CompositeScore(b) /\ a < b)
Selects ==
    /\ chosen = {}
    /\ LET screened == {t \in DOMAIN readings : PassesOpening(readings[t])} IN
       chosen' = {t \in screened : Cardinality({other \in screened :
                                       ScoredBefore(other, t)}) < SelectionLimit}
    /\ UNCHANGED <<ranks, readings, market, readMinute>>

SelectNext ==
    \/ ReadsRankings \/ Selects
    \/ \E ticker \in Tickers, at \in ReadMinutes :
          \E quote \in Quoted[ticker] : ReadsQuote(ticker, quote, at)

SelectSpec == SelectInit /\ [][SelectNext]_selectVars

-----------------------------------------------------------------------------
\* What the stocks themselves did: a stock is better than another if it is no
\* lower in any ranking, has a volume no less beyond the usual of the minute it
\* was read in, and rose and opened no further than the other, by enough for the
\* screen.  A rise of at most one percent is not meant, it is misread.
NoLower(a, b) ==
    \A list \in Lists :
        b \in DOMAIN ranks[list] => a \in DOMAIN ranks[list] /\ ranks[list][a] <= ranks[list][b]
Better(a, b) ==
    /\ NoLower(a, b)
    /\ readings[a].volume >= readings[b].volume
    /\ market[a].change > 10 /\ market[a].change >= SelectionRules.min_change
    /\ market[b].change >= market[a].change /\ market[a].gap <= market[b].gap
    /\ market[a].price = market[b].price

\* A stock that is better than one that was taken is taken as well, unless the
\* two are level: both good for nothing by rank, or not told apart.
BetterRankedFirst ==
    \A a \in DOMAIN readings \ chosen, b \in chosen :
        Better(a, b) => \/ WeightedRank(a) >= 1000
                        \/ NoLower(b, a) /\ b < a
=============================================================================

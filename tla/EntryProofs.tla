----------------------------- MODULE EntryProofs -----------------------------
(***************************************************************************)
(* What may be bought and what is said of it, for any account, settings,   *)
(* stocks, scores and whatever the market says. A plan of purchases keeps  *)
(* within its means and spends no real money blindly: EntryInv is          *)
(* inductive, and BudgetKept and RealMoneyNeedsData of EntryPlanner follow *)
(* from it. A market context that purchases are allowed on is recent:      *)
(* ContextInv is inductive, and ReliableIsRecent of MarketContext follows  *)
(* from it. A run that the market made strict stays strict, and the        *)
(* monitor shows the last run: ScreenInv is inductive, and                 *)
(* StrictStaysStrict and MonitorShowsLastRun of Screening follow from it.  *)
(* A purchase is on the record of its own candidate: RecordInv is          *)
(* inductive, and LastPassRecorded of CandidateRecord follows from it. A   *)
(* better stock is taken first: SelectInv is inductive, and                *)
(* BetterRankedFirst of RankedSelection follows from it. A sale is         *)
(* credited to an evaluation that bought what was sold: CreditInv is       *)
(* inductive, and CreditedIsOwn of TradeAttribution follows from it; what  *)
(* the reports call sound covers every sale, by lemmas on what a sum over  *)
(* a set comes to, and OkCoversEverySale follows. Of the rows of an order  *)
(* what is trusted is the whole order: ReviewInv is inductive, and         *)
(* TrustedIsFilled of FillReview follows by the same sums.                 *)
(***************************************************************************)
EXTENDS EntryPlanner, MarketContext, Screening, CandidateRecord, RankedSelection,
        TradeAttribution, FillReview, FiniteSetTheorems, FunctionTheorems, SequenceTheorems,
        WellFoundedInduction, TLAPS

-----------------------------------------------------------------------------
(* The plan of purchases (EntryPlanner).                                   *)

RealMoney == planSettings.app_mode = "real" \/ ~planSettings.mock_trading

\* Whatever the list or the plan bought last, it had data for it.
LastIsKnown == intentCount > 0 /\ RealMoney => lastIntent.unknown = {}

PositionLimit == planSettings.max_position_exposure * account.equity
AccountLimit == planSettings.max_account_exposure * account.equity

\* What earlier intents took is gone, and was within both limits.
WithinMeans ==
    /\ cash + invested = account.cash + account.invested
    /\ intentCount > 0 =>
           /\ lastIntent.order_value * 100 <= PositionLimit
           /\ invested * 100 <= AccountLimit

EntryInv ==
    /\ EntryTypeOK /\ cash \in Nat /\ invested \in Nat
    /\ planPhase = "idle" => intentCount = 0
    /\ planPhase \in {"planning", "listing", "returned"} =>
           WithinMeans /\ LastIsKnown

\* `int(value // price)` shares cost no more than the value, and something.
LEMMA SharesCost ==
    ASSUME NEW value \in Int, NEW price \in Nat \ {0}, value > 0
    PROVE  /\ SharesFor(value, price) \in Nat
           /\ SharesFor(value, price) * price \in Nat
           /\ SharesFor(value, price) * price <= value
<1>1. CASE value < price
  <2>1. SharesFor(value, price) = 0
    BY <1>1 DEF SharesFor
  <2> QED BY <2>1
<1>2. CASE ~(value < price)
  <2>1. /\ value \div price \in Nat /\ (value \div price) * price \in Nat
        /\ (value \div price) * price <= value
    BY <1>2
  <2> QED BY <1>2, <2>1 DEF SharesFor
<1> QED BY <1>1, <1>2

\* A gate that answers "ok" has looked at both limits.
LEMMA GateHolds ==
    ASSUME EntryInv, planPhase \in {"planning", "listing"}, NEW value \in Int,
           PositionEntryGate(value, planSettings) = "ok"
    PROVE  /\ value > 0
           /\ value * 100 <= PositionLimit
           /\ (invested + value) * 100 <= AccountLimit
           /\ PositionLimit \in Int /\ AccountLimit \in Int
<1>1. planSettings \in EntrySettings /\ account \in EntryAccounts
  BY DEF EntryInv, EntryTypeOK
<1>2. PositionLimit \in Int /\ AccountLimit \in Int
  BY <1>1, AccountsAssumption, ExposuresAssumption DEF PositionLimit, AccountLimit
<1>3. /\ ~(value <= 0) /\ ~(value * 100 > PositionLimit)
      /\ ~((invested + value) * 100 > AccountLimit)
  BY DEF PositionEntryGate, PositionLimit, AccountLimit
<1>4. invested \in Nat
  BY DEF EntryInv
<1> QED BY <1>2, <1>3, <1>4

\* What may be spent is at most the cash that is left.
LEMMA OrderValueType ==
    ASSUME EntryInv, planPhase \in {"planning", "listing"}, NEW fraction \in Int
    PROVE  OrderValue(fraction) \in Int /\ OrderValue(fraction) <= cash
<1>1. account.equity \in Int /\ cash \in Nat
  BY AccountsAssumption DEF EntryInv, EntryTypeOK
<1>2. (account.equity * fraction) \div 100 \in Int
  BY <1>1
<1> QED BY <1>1, <1>2 DEF OrderValue, Smaller

\* An intent that passed the gate leaves the plan within its means.
LEMMA AppendKeeps ==
    ASSUME EntryInv, planPhase \in {"planning", "listing"},
           NEW c \in EntryCandidates, NEW fraction \in Int, NEW unknown,
           PositionEntryGate(OrderValue(fraction), planSettings) = "ok",
           RealMoney => unknown = {},
           AppendIntent(c, fraction, unknown),
           planSettings' = planSettings, account' = account
    PROVE  /\ cash' \in Nat /\ invested' \in Nat /\ intentCount' \in Nat
           /\ WithinMeans' /\ LastIsKnown'
<1> DEFINE value == OrderValue(fraction)
           filled_value == SharesFor(value, c.last_price) * c.last_price
<1>1. value \in Int /\ value <= cash
  BY OrderValueType
<1>2. /\ value > 0 /\ value * 100 <= PositionLimit
      /\ (invested + value) * 100 <= AccountLimit
      /\ PositionLimit \in Int /\ AccountLimit \in Int
  BY <1>1, GateHolds
<1>3. filled_value \in Nat /\ filled_value <= value
  BY <1>1, <1>2, CandidatesAssumption, SharesCost
<1>4. /\ intentCount' = intentCount + 1
      /\ lastIntent'.order_value = filled_value /\ lastIntent'.unknown = unknown
      /\ invested' = invested + filled_value /\ cash' = cash - filled_value
  BY DEF AppendIntent
<1>5. /\ cash \in Nat /\ invested \in Nat /\ intentCount \in Nat /\ WithinMeans
      /\ account.cash \in Nat /\ account.invested \in Nat
  BY AccountsAssumption DEF EntryInv, EntryTypeOK
<1>6. PositionLimit' = PositionLimit /\ AccountLimit' = AccountLimit
      /\ RealMoney' = RealMoney
  BY DEF PositionLimit, AccountLimit, RealMoney
<1>7. cash' \in Nat /\ invested' \in Nat /\ intentCount' \in Nat
  BY <1>1, <1>3, <1>4, <1>5
<1>8. cash' + invested' = cash + invested
  BY <1>1, <1>3, <1>4, <1>5
<1>9. lastIntent'.order_value * 100 <= PositionLimit /\ invested' * 100 <= AccountLimit
  BY <1>1, <1>2, <1>3, <1>4, <1>5
<1>10. WithinMeans'
  BY <1>5, <1>6, <1>8, <1>9 DEF WithinMeans
<1>11. LastIsKnown'
  BY <1>4, <1>6 DEF LastIsKnown
<1> QED BY <1>7, <1>10, <1>11

\* What Decision allows has passed the gate, for a position fraction.
LEMMA AllowedPasses ==
    ASSUME EntryInv, NEW c \in EntryCandidates, NEW s,
           Decision(c, s) = "BUY_ALLOWED"
    PROVE  /\ DataReasons(c, s) = <<>>
           /\ PositionEntryGate(OrderValue(Allocation(c, s)), s) = "ok"
<1>1. PositionEntryGate(OrderValue(Allocation(c, s)), s) # "BUY_ALLOWED"
  BY DEF PositionEntryGate
<1> QED BY <1>1 DEF Decision

\* Outside of the test mode on a mock account data that is missing blocks.
LEMMA RealMoneyBlocks ==
    ASSUME NEW c \in EntryCandidates, RealMoney, DataReasons(c, planSettings) = <<>>
    PROVE  Unknown(c, planSettings) = {}
<1>1. MissingDataPolicy(planSettings) = "BLOCK"
  BY DEF RealMoney, MissingDataPolicy
<1>2. MissingData(c.features, planSettings) = {}
  BY <1>1 DEF DataReasons
<1> QED BY <1>2 DEF MissingData, Unknown

\* The share of a position is a whole percentage.
LEMMA AllocationType ==
    ASSUME EntryInv, planPhase = "planning", NEW c \in EntryCandidates
    PROVE  Allocation(c, planSettings) \in Int
<1>1. PositionFraction(FinalScore(c, planSettings), planSettings) \in Int
  BY DEF PositionFraction
<1>2. planSettings.max_position_exposure \in Int
  BY ExposuresAssumption DEF EntryInv, EntryTypeOK
<1> QED BY <1>1, <1>2 DEF Allocation, Smaller

\* One selected score is taken.
LEMMA ScoreKeepsEntryInv ==
    ASSUME EntryInv, NEW c \in EntryCandidates, Rejected(c) \/ Allowed(c) \/ Ranked(c)
    PROVE  EntryInv'
<1>0. /\ scoresLeft' \in 0..MaxScores /\ planPhase' = planPhase
      /\ planPhase \in {"planning", "listing"}
      /\ planSettings' = planSettings /\ account' = account
  BY ScoresAssumption DEF Rejected, Allowed, Ranked, EntryInv, EntryTypeOK
<1>1. CASE UNCHANGED <<cash, invested, intentCount, lastIntent>>
  <2>1. WithinMeans' = WithinMeans /\ LastIsKnown' = LastIsKnown
    BY <1>0, <1>1 DEF WithinMeans, LastIsKnown, PositionLimit, AccountLimit, RealMoney
  <2> QED BY <1>0, <1>1, <2>1 DEF EntryInv, EntryTypeOK
<1>2. CASE Allowed(c)
  <2>1. planPhase = "planning" /\ Decision(c, planSettings) = "BUY_ALLOWED"
        /\ AppendIntent(c, Allocation(c, planSettings), Unknown(c, planSettings))
    BY <1>2 DEF Allowed
  <2>2. RealMoney => Unknown(c, planSettings) = {}
    BY <2>1, AllowedPasses, RealMoneyBlocks
  <2>3. /\ cash' \in Nat /\ invested' \in Nat /\ intentCount' \in Nat
        /\ WithinMeans' /\ LastIsKnown'
    BY <1>0, <2>1, <2>2, AllowedPasses, AllocationType, AppendKeeps
  <2> QED BY <1>0, <2>3 DEF EntryInv, EntryTypeOK
<1>3. CASE Ranked(c) /\ AppendIntent(c, ListFraction, {})
  <2>1. CASE PositionEntryGate(OrderValue(ListFraction), planSettings) = "ok"
    <3>1. ListFraction \in Int
      BY DEF ListFraction
    <3>2. /\ cash' \in Nat /\ invested' \in Nat /\ intentCount' \in Nat
          /\ WithinMeans' /\ LastIsKnown'
      BY <1>0, <1>3, <2>1, <3>1, AppendKeeps
    <3> QED BY <1>0, <3>2 DEF EntryInv, EntryTypeOK
  <2>2. CASE PositionEntryGate(OrderValue(ListFraction), planSettings) # "ok"
    BY <1>1, <1>3, <2>2 DEF Ranked
  <2> QED BY <2>1, <2>2
<1> QED BY <1>1, <1>2, <1>3 DEF Rejected, Allowed, Ranked

\* The start and the end of a call.
LEMMA CallKeepsEntryInv ==
    ASSUME EntryInv, PlanStarts \/ PricesInvalid \/ PlanReturns
    PROVE  EntryInv'
<1>1. CASE PlanStarts
  <2>1. /\ account' \in EntryAccounts /\ cash' = account'.cash
        /\ invested' = account'.invested
        /\ account'.cash \in Nat /\ account'.invested \in Nat
    BY <1>1, AccountsAssumption DEF PlanStarts
  <2>2. intentCount' = 0 /\ WithinMeans' /\ LastIsKnown'
    BY <1>1, <2>1 DEF PlanStarts, EntryInv, WithinMeans, LastIsKnown
  <2> QED BY <1>1, <2>1, <2>2 DEF PlanStarts, EntryInv, EntryTypeOK
<1>2. CASE PricesInvalid
  BY <1>2 DEF PricesInvalid, EntryInv, EntryTypeOK
<1>3. CASE PlanReturns
  <2>1. WithinMeans' = WithinMeans /\ LastIsKnown' = LastIsKnown
    BY <1>3 DEF PlanReturns, WithinMeans, LastIsKnown, PositionLimit, AccountLimit,
                RealMoney
  <2> QED BY <1>3, <2>1 DEF PlanReturns, EntryInv, EntryTypeOK
<1> QED BY <1>1, <1>2, <1>3

\* EntryInv is an invariant of a plan, whatever it buys.
THEOREM EntryInductive == EntrySpec => []EntryInv
<1>1. EntryInit => EntryInv
  BY ScoresAssumption DEF EntryInit, EntryInv, EntryTypeOK
<1>2. EntryInv /\ UNCHANGED entryVars => EntryInv'
  BY DEF entryVars, EntryInv, EntryTypeOK, WithinMeans, LastIsKnown, PositionLimit,
         AccountLimit, RealMoney
<1>3. EntryInv /\ [EntryNext]_entryVars => EntryInv'
  BY <1>2, ScoreKeepsEntryInv, CallKeepsEntryInv DEF EntryNext
<1> QED BY <1>1, <1>3, PTL DEF EntrySpec

\* A plan never spends the same cash twice and keeps each purchase and the
\* account with all purchases of the call within their exposure limits.
THEOREM BudgetKeptHolds == EntrySpec => []BudgetKept
<1>1. EntryInv => BudgetKept
  BY DEF EntryInv, WithinMeans, PositionLimit, AccountLimit, BudgetKept
<1> QED BY <1>1, EntryInductive, PTL

\* Outside of the test mode on a mock account, what is bought had data for every
\* condition in force.
THEOREM RealMoneyNeedsDataHolds == EntrySpec => []RealMoneyNeedsData
<1>1. EntryInv => RealMoneyNeedsData
  BY DEF EntryInv, LastIsKnown, RealMoney, RealMoneyNeedsData
<1> QED BY <1>1, EntryInductive, PTL

-----------------------------------------------------------------------------
(* The context of the market (MarketContext).                              *)

IndexType == index \in Seq(IndexStates)

\* The kept file is the index as it was in the hour of its writing.
FileType ==
    /\ lastGood \in [saved_at : Nat, price : Nat, ma20 : Nat]
    /\ lastGood.saved_at <= Now
    /\ lastGood.saved_at > 0 =>
           /\ lastGood.price = index[lastGood.saved_at].price
           /\ lastGood.ma20 = index[lastGood.saved_at].ma20

ReadInPast == context.read_at \in 0 .. Now

ContextInv == IndexType /\ FileType /\ ReadInPast /\ ReliableIsRecent

\* The closes made up from the file are on the side of the average it was on.
LEMMA ReproducedKeepsTrend ==
    ASSUME NEW file, file.price \in Nat, file.ma20 \in Nat
    PROVE  BelowAverage(Reproduced(file)) <=> BelowAverage(file)
<1>1. CASE 20 * file.ma20 > file.price
  BY <1>1 DEF Reproduced, BelowAverage
<1>2. CASE ~(20 * file.ma20 > file.price)
  <2> DEFINE average == (19 * file.ma20 + file.price) \div 20
  <2>1. average \in Int /\ 20 * average <= 19 * file.ma20 + file.price
    OBVIOUS
  <2>2. file.ma20 <= file.price /\ average <= file.price
    BY <1>2, <2>1
  <2>3. Reproduced(file) = [price |-> file.price, ma20 |-> average]
    BY <1>2 DEF Reproduced
  <2> QED BY <2>1, <2>2, <2>3 DEF BelowAverage
<1> QED BY <1>1, <1>2

\* The index was in some state in each hour.
LEMMA IndexStateType ==
    ASSUME ContextInv, NEW hour \in 1 .. Now
    PROVE  /\ index[hour] \in IndexStates
           /\ index[hour].price \in Nat /\ index[hour].ma20 \in Nat
BY ContextAssumption DEF ContextInv, IndexType, Now

\* With the hour nothing that was read changes.
LEMMA HourKeepsContextInv ==
    ASSUME ContextInv, HourPasses
    PROVE  ContextInv'
<1>1. PICK state \in IndexStates : index' = Append(index, state)
  BY DEF HourPasses
<1>2. /\ index' \in Seq(IndexStates) /\ Now \in Nat /\ Now' = Now + 1
      /\ \A hour \in 1 .. Now : index'[hour] = index[hour]
  BY <1>1 DEF ContextInv, IndexType, Now
<1>3. lastGood' = lastGood /\ context' = context
  BY DEF HourPasses
<1>4. IndexType' /\ ReadInPast'
  BY <1>2, <1>3 DEF ContextInv, IndexType, ReadInPast
<1>5. FileType'
  BY <1>2, <1>3 DEF ContextInv, FileType
<1>6. ReliableIsRecent'
  BY <1>2, <1>3 DEF ContextInv, ReadInPast, ReliableIsRecent, Reliable, BelowAverage
<1> QED BY <1>4, <1>5, <1>6 DEF ContextInv

\* A context is read: fresh, from the file while it is young enough, or one
\* that says so.
LEMMA ReadKeepsContextInv ==
    ASSUME ContextInv, NEW primary \in BOOLEAN, NEW proxies, NEW fx,
           NEW written \in BOOLEAN, ReadsContext(primary, proxies, fx, written)
    PROVE  ContextInv'
<1>1. PICK series \in MarketSeries(primary, proxies) :
        /\ context' = [read_at |-> Now, price |-> series.price, ma20 |-> series.ma20,
                       fx |-> IF fx = "short" THEN "calm" ELSE fx,
                       status |-> series.status, source |-> series.source]
        /\ lastGood' = IF WorthKeeping(series) /\ written
                       THEN [saved_at |-> Now, price |-> series.price,
                             ma20 |-> series.ma20]
                       ELSE lastGood
  BY DEF ReadsContext
<1>2. Now \in Nat /\ Now \in 1 .. Now /\ index' = index /\ Now' = Now
  BY DEF ReadsContext, ContextInv, IndexType, Now
<1>3. index[Now].price \in Nat /\ index[Now].ma20 \in Nat
  BY <1>2, IndexStateType
<1>4. TtlHours \in Nat
  BY ContextAssumption
<1>5. IndexType' /\ ReadInPast'
  BY <1>1, <1>2 DEF ContextInv, IndexType, ReadInPast
<1>6. \/ series = Fresh
      \/ series = LastGood /\ YoungEnough
      \/ \E state : series = Proxy(state)
      \/ series = Degraded
  BY DEF MarketSeries
<1>7. CASE series = Fresh
  <2>1. /\ series.price = index[Now].price /\ series.ma20 = index[Now].ma20
        /\ series.source = "fresh" /\ WorthKeeping(series)
    BY <1>7 DEF Fresh, Series, WorthKeeping
  <2>2. FileType'
    BY <1>1, <1>2, <1>3, <2>1 DEF ContextInv, FileType
  <2>3. BelowAverage(context') <=> BelowAverage(index[Now])
    BY <1>1, <2>1 DEF BelowAverage
  <2>4. context'.read_at = Now
    BY <1>1
  <2>5. ReliableIsRecent'
    BY <1>2, <1>4, <2>3, <2>4 DEF ReliableIsRecent, BelowAverage
  <2> QED BY <1>5, <2>2, <2>5 DEF ContextInv
<1>8. CASE series = LastGood /\ YoungEnough
  <2> DEFINE hour == lastGood.saved_at
  <2>1. ~WorthKeeping(series)
    BY <1>8 DEF LastGood, Series, WorthKeeping
  <2>2. FileType'
    BY <1>1, <1>2, <2>1 DEF ContextInv, FileType
  <2>3. /\ hour \in 1 .. Now /\ Now - hour <= TtlHours
        /\ lastGood.price = index[hour].price /\ lastGood.ma20 = index[hour].ma20
        /\ lastGood.price \in Nat /\ lastGood.ma20 \in Nat
    BY <1>2, <1>8 DEF YoungEnough, ContextInv, FileType
  <2>4. /\ series.price = Reproduced(lastGood).price
        /\ series.ma20 = Reproduced(lastGood).ma20
    BY <1>8 DEF LastGood, Series
  <2>5. BelowAverage(context') <=> BelowAverage(index[hour])
    <3>1. BelowAverage(context') <=> BelowAverage(Reproduced(lastGood))
      BY <1>1, <2>4 DEF BelowAverage
    <3>2. BelowAverage(lastGood) <=> BelowAverage(index[hour])
      BY <2>3 DEF BelowAverage
    <3> QED BY <3>1, <3>2, <2>3, ReproducedKeepsTrend
  <2>6. context'.read_at = Now
    BY <1>1
  <2>7. ReliableIsRecent'
    BY <1>2, <2>3, <2>5, <2>6 DEF ReliableIsRecent, BelowAverage
  <2> QED BY <1>5, <2>2, <2>7 DEF ContextInv
<1>9. CASE (\E state : series = Proxy(state)) \/ series = Degraded
  <2>1. series.source = "proxy" \/ series.status = "degraded"
    BY <1>9 DEF Proxy, Degraded, Series
  <2>2. ~WorthKeeping(series)
    BY <1>9 DEF Proxy, Degraded, Series, WorthKeeping
  <2>3. FileType'
    BY <1>1, <1>2, <2>2 DEF ContextInv, FileType
  <2>4. context'.source = "proxy" \/ context'.status = "degraded"
    BY <1>1, <2>1
  <2>5. ReliableIsRecent'
    BY <2>4 DEF ReliableIsRecent, Reliable
  <2> QED BY <1>5, <2>3, <2>5 DEF ContextInv
<1> QED BY <1>6, <1>7, <1>8, <1>9

\* ContextInv is an invariant: what is kept is a state the index was in.
THEOREM ContextInductive == ContextSpec => []ContextInv
<1>1. ContextInit => ContextInv
  BY DEF ContextInit, ContextInv, IndexType, FileType, ReadInPast, Now, NoFile,
         NoContext, ReliableIsRecent, Reliable
<1>2. ContextInv /\ [ContextNext]_contextVars => ContextInv'
  <2> SUFFICES ASSUME ContextInv, [ContextNext]_contextVars PROVE ContextInv'
    OBVIOUS
  <2>1. CASE HourPasses
    BY <2>1, HourKeepsContextInv
  <2>2. CASE \E primary, written \in BOOLEAN, fx \in {"volatile", "short"},
                proxies \in {{}, IndexStates} :
                   ReadsContext(primary, proxies, fx, written)
    BY <2>2, ReadKeepsContextInv
  <2>3. CASE UNCHANGED contextVars
    BY <2>3 DEF contextVars, ContextInv, IndexType, FileType, ReadInPast, Now,
                ReliableIsRecent, Reliable, BelowAverage
  <2> QED BY <2>1, <2>2, <2>3 DEF ContextNext
<1> QED BY <1>1, <1>2, PTL DEF ContextSpec

\* Whatever the index does and however many requests fail, a context that
\* purchases are allowed on, and that is not a proxy's, tells the trend of an
\* hour within the life of the cache.
THEOREM ReliableIsRecentHolds == ContextSpec => []ReliableIsRecent
<1>1. ContextInv => ReliableIsRecent
  BY DEF ContextInv
<1> QED BY <1>1, ContextInductive, PTL

-----------------------------------------------------------------------------
(* The screening of candidates (Screening).                                *)

\* The k best of S are at most k: no two of them have the same rank.
LEMMA BestAreFew ==
    ASSUME NEW S, IsFiniteSet(S), S \subseteq Nat, NEW k \in Nat,
           NEW totals, \A t \in S : totals[t] \in Int
    PROVE  /\ Best(S, totals, k) \subseteq S
           /\ IsFiniteSet(Best(S, totals, k))
           /\ Cardinality(Best(S, totals, k)) <= k
<1> DEFINE Before(t) == {u \in S : \/ totals[u] > totals[t]
                                   \/ totals[u] = totals[t] /\ u < t}
           best == {t \in S : Cardinality(Before(t)) < k}
           rank == [t \in best |-> Cardinality(Before(t))]
<1>1. Best(S, totals, k) = best
  BY DEF Best
<1>2. ASSUME NEW t \in S
      PROVE  IsFiniteSet(Before(t)) /\ Cardinality(Before(t)) \in Nat
  <2>1. Before(t) \in SUBSET S
    OBVIOUS
  <2>2. IsFiniteSet(Before(t))
    BY <2>1, FS_Subset
  <2> QED BY <2>2, FS_CardinalityType
<1>3. ASSUME NEW t \in S, NEW u \in S, u \in Before(t)
      PROVE  Cardinality(Before(u)) # Cardinality(Before(t))
  <2>1. totals[t] \in Int /\ totals[u] \in Int /\ t \in Nat /\ u \in Nat
    OBVIOUS
  <2>2. totals[u] > totals[t] \/ (totals[u] = totals[t] /\ u < t)
    BY <1>3
  <2>3. ASSUME NEW x \in Before(u) PROVE x \in Before(t)
    <3>1. /\ x \in S /\ totals[x] \in Int /\ x \in Nat
          /\ totals[x] > totals[u] \/ (totals[x] = totals[u] /\ x < u)
      OBVIOUS
    <3>2. totals[x] > totals[t] \/ (totals[x] = totals[t] /\ x < t)
      BY <2>1, <2>2, <3>1
    <3> QED BY <3>1, <3>2
  <2>4. Before(u) \in SUBSET Before(t)
    BY <2>3
  <2>5. u \notin Before(u)
    BY <2>1
  <2> HIDE DEF Before
  <2> QED BY <1>2, <1>3, <2>4, <2>5, FS_Subset
<1>4. ASSUME NEW t \in S, NEW u \in S, t # u
      PROVE  u \in Before(t) \/ t \in Before(u)
  <2>1. totals[t] \in Int /\ totals[u] \in Int /\ t \in Nat /\ u \in Nat
    OBVIOUS
  <2> QED BY <1>4, <2>1
<1> HIDE DEF Before
<1>5. rank \in [best -> 0 .. k - 1]
  <2>1. ASSUME NEW t \in best PROVE Cardinality(Before(t)) \in 0 .. k - 1
    BY <1>2
  <2> QED BY <2>1
<1>6. ASSUME NEW t \in best, NEW u \in best, rank[t] = rank[u]
      PROVE  t = u
  BY <1>3, <1>4, <1>6
<1>7. rank \in Injection(best, 0 .. k - 1)
  BY <1>5, <1>6, Fun_IsInj
<1>8. IsFiniteSet(0 .. k - 1) /\ Cardinality(0 .. k - 1) = k
  BY FS_Interval
<1>9. best \in SUBSET S
  OBVIOUS
<1> HIDE DEF best, rank
<1> QED BY <1>1, <1>7, <1>8, <1>9, FS_Injection, FS_CardinalityType

\* Where run() may be, and what its values are.
RunSteps == {"rank", "evaluate", "manual", "daily", "listed", "score", "scores",
             "final_log"}
ScreenTypes ==
    /\ ScreenTypeOK /\ penalty \in Int
    /\ screenPc \in RunSteps \cup {"idle", "returned", "raised"}
    /\ screenPc # "idle" => runNo > 0 /\ screenSettings \in ScreenSettings
    /\ DOMAIN sources \subseteq Stocks
    /\ \A t \in DOMAIN scored : scored[t] \in Int

\* What run() has not come to is empty.
NothingYet ==
    /\ screenPc \in {"rank", "evaluate", "manual"} => sources = NoSources
    /\ screenPc \in RunSteps \ {"scores", "final_log"} =>
           selected = {} /\ scored = NoScores

\* Targets pass the filter of the profile, which is the strict one unless it
\* may be relaxed, and are a ranking's unless there may be a manual list.
Filtered ==
    /\ screenPc = "manual" => \A t \in candidates : OpeningScreen(t, ActiveProfile)
    /\ \A t \in DOMAIN sources : OpeningScreen(t, ActiveProfile)
    /\ screenPc # "idle" =>
           /\ ~screenSettings.allow_relaxed => level = 0
           /\ ~screenSettings.manual_enabled =>
                  \A t \in DOMAIN sources : sources[t] = "AUTO"

\* Which tables hold the rows of the run.
RowsOf(tickers, rows) ==
    tickers # {} => rows = [run |-> runNo, tickers |-> tickers]
RowsAreRuns ==
    /\ {dailyRows.run, emptyLog} \subseteq 0 .. runNo
    /\ screenPc \in RunSteps => emptyLog < runNo
    /\ screenPc \in {"listed", "score", "scores", "final_log", "returned"} =>
           RowsOf(TargetTickers, dailyRows)
    /\ screenPc \in {"score", "scores", "final_log", "returned"} =>
           RowsOf(TargetTickers, listedRows)
    /\ screenPc \in {"scores", "final_log", "returned"} /\ ~StrictShortfall =>
           DOMAIN scored = TargetTickers
    /\ screenPc \in {"final_log", "returned"} /\ ~StrictShortfall =>
           RowsOf(TargetTickers, scoreRows)
    /\ screenPc = "returned" =>
           IF TargetTickers = {} THEN emptyLog = runNo ELSE emptyLog < runNo

ScreenInv ==
    ScreenTypes /\ NothingYet /\ Filtered /\ RowsAreRuns /\ StrictStaysStrict

\* The first of a set are some of it.
LEMMA FirstAreSome == \A S, k : FirstOf(S, k) \subseteq S
  BY DEF FirstOf

\* Without relaxing, a stock that passes the filter passes the configured one.
LEMMA StrictProfile ==
    ASSUME screenSettings \in ScreenSettings, level = 0, NEW t \in Stocks,
           OpeningScreen(t, ActiveProfile)
    PROVE  OpeningScreen(t, screenSettings)
<1> DEFINE s == screenSettings
           p == ActiveProfile
<1>1. /\ p.min_price = AtLeast(s.min_price, 10) /\ p.max_price = s.max_price
      /\ p.min_change = s.min_change /\ p.max_gap = AtMost(s.max_gap, 30)
      /\ p.min_volume_ratio = AtLeast(s.min_volume_ratio, 1)
  BY DEF ActiveProfile, Profile
<1>2. /\ s.min_price \in Int /\ s.max_price \in Int /\ s.min_change \in Int
      /\ s.min_volume_ratio \in Int /\ s.max_gap \in Int
  BY ScreenSettingsAssumption
<1>3. /\ SnapshotOf[t].volume_ratio \in Int /\ SnapshotOf[t].change \in Int
      /\ SnapshotOf[t].price \in Int /\ SnapshotOf[t].gap \in Int
  BY ScreeningAssumption
<1>4. /\ SnapshotOf[t].volume_ratio >= p.min_volume_ratio
      /\ SnapshotOf[t].change >= p.min_change
      /\ p.min_price <= SnapshotOf[t].price /\ SnapshotOf[t].price <= p.max_price
      /\ SnapshotOf[t].gap < p.max_gap
  BY DEF OpeningScreen
<1> HIDE DEF s, p
<1>5. /\ SnapshotOf[t].volume_ratio >= s.min_volume_ratio
      /\ SnapshotOf[t].change >= s.min_change
      /\ s.min_price <= SnapshotOf[t].price /\ SnapshotOf[t].price <= s.max_price
      /\ SnapshotOf[t].gap < s.max_gap
  BY <1>1, <1>2, <1>3, <1>4 DEF AtLeast, AtMost
<1> QED BY <1>5 DEF OpeningScreen, s

\* _select_candidates_by_source keeps the limits and, without relaxing, the
\* configured score.
LEMMA SelectionIsStrict ==
    ASSUME ScreenTypes, Filtered, screenPc = "score", NEW totals,
           DOMAIN totals = TargetTickers, \A t \in TargetTickers : totals[t] \in Int
    PROVE  LET taken == SelectedBySource(totals) IN
           /\ taken \subseteq TargetTickers
           /\ ~screenSettings.allow_relaxed =>
                  \A t \in taken : totals[t] >= screenSettings.min_total_score
           /\ Cardinality(taken) <=
                  screenSettings.max_selected
                  + (IF screenSettings.manual_enabled
                     THEN screenSettings.max_manual_selected ELSE 0)
<1> DEFINE minimum == AppliedMinimum(totals)
           autos == {t \in Passing(totals, minimum) : sources[t] \in {"AUTO", "BOTH"}}
           manuals == {t \in Passing(totals, minimum) : sources[t] \in {"MANUAL", "BOTH"}}
           limit == screenSettings.max_selected
           manualLimit == AtLeast(screenSettings.max_manual_selected, 0)
           bestAutos == Best(autos, totals, limit)
           bestManuals == Best(manuals, totals, manualLimit)
<1>1. SelectedBySource(totals) = bestAutos \cup bestManuals
  BY DEF SelectedBySource
<1>2. screenSettings \in ScreenSettings
  BY DEF ScreenTypes
<1>3. /\ limit \in Nat /\ manualLimit = screenSettings.max_manual_selected
      /\ manualLimit \in Nat
  BY <1>2, ScreenSettingsAssumption DEF AtLeast
<1>4. autos \subseteq TargetTickers /\ manuals \subseteq TargetTickers
  BY DEF Passing
<1>5. TargetTickers \subseteq Stocks
  BY DEF ScreenTypes, TargetTickers
<1>6. /\ IsFiniteSet(autos) /\ autos \subseteq Nat
      /\ IsFiniteSet(manuals) /\ manuals \subseteq Nat
  BY <1>4, <1>5, ScreeningAssumption, FS_Subset
<1>7. /\ \A t \in autos : totals[t] \in Int
      /\ \A t \in manuals : totals[t] \in Int
  BY <1>4
<1>8. ~screenSettings.manual_enabled => manuals = {}
  BY <1>4 DEF Filtered, TargetTickers
<1>9. ~screenSettings.allow_relaxed =>
          \A t \in autos \cup manuals : totals[t] >= screenSettings.min_total_score
  <2>1. SUFFICES ASSUME ~screenSettings.allow_relaxed, NEW t \in autos \cup manuals
                 PROVE  totals[t] >= screenSettings.min_total_score
    OBVIOUS
  <2>2. minimum = ActiveProfile.min_total_score
    BY <2>1 DEF AppliedMinimum
  <2>3. level = 0
    BY <2>1 DEF Filtered
  <2>4. minimum = AtLeast(screenSettings.min_total_score, 35)
    BY <2>2, <2>3 DEF ActiveProfile, Profile
  <2>5. totals[t] \in Int /\ screenSettings.min_total_score \in Int
    BY <1>2, <1>7, ScreenSettingsAssumption
  <2>6. totals[t] >= minimum
    BY DEF Passing
  <2> QED BY <2>4, <2>5, <2>6 DEF AtLeast
<1> HIDE DEF autos, manuals, limit, manualLimit
<1>10. /\ bestAutos \subseteq autos /\ IsFiniteSet(bestAutos)
       /\ Cardinality(bestAutos) <= limit
  BY <1>3, <1>6, <1>7, BestAreFew
<1>11. /\ bestManuals \subseteq manuals /\ IsFiniteSet(bestManuals)
       /\ Cardinality(bestManuals) <= manualLimit
  BY <1>3, <1>6, <1>7, BestAreFew
<1> HIDE DEF bestAutos, bestManuals
<1>12. Cardinality(bestAutos \cup bestManuals) <=
           Cardinality(bestAutos) + Cardinality(bestManuals)
  <2>1. bestAutos \cap bestManuals \in SUBSET bestAutos
    OBVIOUS
  <2>2. IsFiniteSet(bestAutos \cap bestManuals)
    BY <1>10, <2>1, FS_Subset
  <2>3. /\ Cardinality(bestAutos \cap bestManuals) \in Nat
        /\ Cardinality(bestAutos) \in Nat /\ Cardinality(bestManuals) \in Nat
    BY <1>10, <1>11, <2>2, FS_CardinalityType
  <2>4. Cardinality(bestAutos \cup bestManuals) =
            Cardinality(bestAutos) + Cardinality(bestManuals)
            - Cardinality(bestAutos \cap bestManuals)
    BY <1>10, <1>11, FS_Union
  <2> QED BY <2>3, <2>4
<1>13. Cardinality(bestManuals) <=
           IF screenSettings.manual_enabled
           THEN screenSettings.max_manual_selected ELSE 0
  BY <1>3, <1>8, <1>11, FS_EmptySet
<1>14. Cardinality(bestAutos) \in Nat /\ Cardinality(bestManuals) \in Nat
  BY <1>10, <1>11, FS_CardinalityType
<1>15. /\ screenSettings.max_selected = limit
       /\ screenSettings.max_manual_selected \in Nat
  BY <1>3 DEF limit
<1>16. Cardinality(bestAutos \cup bestManuals) \in Nat
  BY <1>10, <1>11, FS_Union, FS_CardinalityType
<1>17. Cardinality(bestAutos \cup bestManuals) <=
           screenSettings.max_selected
           + (IF screenSettings.manual_enabled
              THEN screenSettings.max_manual_selected ELSE 0)
  BY <1>3, <1>10, <1>12, <1>13, <1>14, <1>15, <1>16
<1> QED BY <1>1, <1>4, <1>9, <1>10, <1>11, <1>17

\* The steps of run() keep the filter, the scores and the limits.
LEMMA FilterKeeps ==
    ASSUME ScreenInv, ScreenNext
    PROVE  ScreenTypes' /\ NothingYet' /\ Filtered' /\ StrictStaysStrict'
<1> USE DEF ScreenInv
<1> USE FirstAreSome DEF screenTables
<1>1. CASE RunStarts
  <2>1. /\ screenPc' = "rank" /\ runNo' = runNo + 1 /\ runNo < MaxRuns
        /\ screenSettings' \in ScreenSettings /\ penalty' \in Int
        /\ level' = 0 /\ requested' = {} /\ snapshots' = {} /\ evaluated' = {}
        /\ candidates' = {} /\ sources' = NoSources /\ selected' = {}
        /\ scored' = NoScores /\ emptyLog' = emptyLog
    BY <1>1 DEF RunStarts, ScorePenalty
  <2>2. DOMAIN NoSources = {} /\ DOMAIN NoScores = {}
    BY DEF NoSources, NoScores
  <2>3. ScreenTypes'
    BY <2>1, <2>2, ScreeningAssumption DEF ScreenTypes, ScreenTypeOK, RunSteps
  <2> QED BY <2>1, <2>2, <2>3 DEF NothingYet, Filtered, StrictStaysStrict
<1>2. CASE FetchRankings
  <2>1. requested' \subseteq Stocks
    BY <1>2, ScreeningAssumption DEF FetchRankings
  <2> QED
    BY <1>2, <2>1 DEF FetchRankings, ScreenTypes, ScreenTypeOK, RunSteps,
       NothingYet, Filtered, ActiveProfile, StrictStaysStrict
<1>3. CASE TimeRunsOut
  BY <1>3 DEF TimeRunsOut, ScreenTypes, ScreenTypeOK, RunSteps,
     NothingYet, Filtered, ActiveProfile, StrictStaysStrict
<1>4. CASE EvaluateBatch
  <2>1. snapshots' \subseteq Stocks /\ evaluated' \subseteq Stocks
    BY <1>4 DEF EvaluateBatch, Evaluable, ScreenTypes, ScreenTypeOK
  <2> QED
    BY <1>4, <2>1 DEF EvaluateBatch, ScreenTypes, ScreenTypeOK, RunSteps,
       NothingYet, Filtered, ActiveProfile, StrictStaysStrict
<1>5. CASE EvaluationStops
  <2>1. /\ RankedCandidates \subseteq Stocks
        /\ \A t \in RankedCandidates : OpeningScreen(t, ActiveProfile)
    BY DEF RankedCandidates, ScreenTypes, ScreenTypeOK
  <2>2. DOMAIN sources = {}
    BY <1>5 DEF EvaluationStops, NothingYet, NoSources
  <2>3. /\ level' \in 0 .. 7 /\ screenPc' \in {"rank", "manual"}
        /\ screenPc' = "manual" => level' = level
        /\ ~screenSettings.allow_relaxed => level' = level
    BY <1>5 DEF EvaluationStops, ScreenTypes, ScreenTypeOK
  <2>4. ScreenTypes'
    BY <1>5, <2>1, <2>3 DEF EvaluationStops, ScreenTypes, ScreenTypeOK, RunSteps
  <2>5. NothingYet'
    BY <1>5, <2>3 DEF EvaluationStops, NothingYet, RunSteps
  <2>6. Filtered'
    BY <1>5, <2>1, <2>2, <2>3 DEF EvaluationStops, Filtered, ActiveProfile
  <2> QED BY <2>3, <2>4, <2>5, <2>6 DEF StrictStaysStrict
<1>6. CASE ManualCandidates
  <2>1. PICK list \in ManualLists \cup {{}}, missing \in SUBSET Stocks :
          LET tickers == IF screenSettings.manual_enabled
                         THEN FirstOf(list, screenSettings.max_manual_tickers)
                         ELSE {}
              known == (snapshots \cup tickers) \ (missing \ snapshots)
          IN  /\ snapshots' = known
              /\ evaluated' = evaluated \cup (tickers \ snapshots)
              /\ sources' = Sources(candidates,
                     {t \in tickers \cap known : OpeningScreen(t, ActiveProfile)})
    BY <1>6 DEF ManualCandidates
  <2> DEFINE tickers == IF screenSettings.manual_enabled
                        THEN FirstOf(list, screenSettings.max_manual_tickers)
                        ELSE {}
             known == (snapshots \cup tickers) \ (missing \ snapshots)
             manuals == {t \in tickers \cap known : OpeningScreen(t, ActiveProfile)}
  <2>2. tickers \subseteq Stocks /\ (~screenSettings.manual_enabled => tickers = {})
    BY ScreeningAssumption
  <2>3. /\ snapshots' \subseteq Stocks /\ evaluated' \subseteq Stocks
        /\ sources' = Sources(candidates, manuals) /\ manuals \subseteq Stocks
        /\ \A t \in manuals : OpeningScreen(t, ActiveProfile)
        /\ ~screenSettings.manual_enabled => manuals = {}
    BY <2>1, <2>2 DEF ScreenTypes, ScreenTypeOK
  <2> HIDE DEF manuals
  <2>4. /\ DOMAIN sources' = candidates \cup manuals
        /\ \A t \in candidates \ manuals : sources'[t] = "AUTO"
    BY <2>3 DEF Sources
  <2>5. /\ screenPc = "manual" /\ screenPc' = "daily" /\ candidates \subseteq Stocks
        /\ sources = NoSources /\ selected = {} /\ scored = NoScores
        /\ \A t \in candidates : OpeningScreen(t, ActiveProfile)
    BY <1>6 DEF ManualCandidates, ScreenTypes, ScreenTypeOK, NothingYet, Filtered,
                RunSteps
  <2>6. ScreenTypes'
    BY <1>6, <2>3, <2>4, <2>5
       DEF ManualCandidates, ScreenTypes, ScreenTypeOK, RunSteps, NoScores
  <2>7. NothingYet'
    BY <1>6, <2>5 DEF ManualCandidates, NothingYet
  <2>8. Filtered'
    BY <1>6, <2>3, <2>4, <2>5 DEF ManualCandidates, Filtered, ActiveProfile
  <2> QED BY <2>5, <2>6, <2>7, <2>8 DEF StrictStaysStrict
<1>7. CASE SaveDailyTargets
  BY <1>7 DEF SaveDailyTargets, ScreenTypes, ScreenTypeOK, RunSteps,
     NothingYet, Filtered, ActiveProfile, StrictStaysStrict
<1>8. CASE SaveListedTargets
  <2>1. /\ selected = {} /\ scored = NoScores /\ screenPc = "listed"
        /\ screenPc' \in {"final_log", "score"} /\ runNo > 0
    BY <1>8 DEF SaveListedTargets, NothingYet, RunSteps, ScreenTypes
  <2>2. /\ screenSettings.max_selected \in Nat
        /\ screenSettings.max_manual_selected \in Nat
    BY <2>1, ScreenSettingsAssumption DEF ScreenTypes
  <2>3. Cardinality({}) = 0
    BY FS_EmptySet
  <2>4. 0 <= screenSettings.max_selected
             + (IF screenSettings.manual_enabled
                THEN screenSettings.max_manual_selected ELSE 0)
    BY <2>2
  <2>5. UNCHANGED <<runNo, screenSettings, penalty, level, requested, snapshots,
                    evaluated, candidates, sources, selected, scored, emptyLog>>
    BY <1>8 DEF SaveListedTargets
  <2>6. StrictStaysStrict'
    BY <2>1, <2>3, <2>4, <2>5 DEF StrictStaysStrict
  <2> QED
    BY <2>1, <2>5, <2>6 DEF ScreenTypes, ScreenTypeOK, RunSteps, NothingYet,
                            Filtered, ActiveProfile
<1>9. CASE Score
  <2>1. PICK parts \in [TargetTickers -> ScoreParts] :
            scored' = [t \in TargetTickers |-> Penalised(parts[t])]
    BY <1>9 DEF Score
  <2>2. /\ selected' = SelectedBySource(scored') /\ screenPc = "score"
        /\ screenPc' = "scores"
        /\ UNCHANGED <<runNo, screenSettings, penalty, level, requested, snapshots,
                       evaluated, candidates, sources, emptyLog>>
    BY <1>9 DEF Score
  <2>3. ASSUME NEW t \in TargetTickers PROVE scored'[t] \in Int
    <3>1. parts[t].news \in Int /\ parts[t].chart \in Int /\ penalty \in Int
      BY ScreeningAssumption DEF ScreenTypes
    <3>2. Penalised(parts[t]) \in Int
      BY <3>1 DEF Penalised, AtLeast
    <3> QED BY <2>1, <3>2
  <2>4. DOMAIN scored' = TargetTickers
    BY <2>1
  <2>5. /\ selected' \subseteq TargetTickers
        /\ ~screenSettings.allow_relaxed =>
               \A t \in selected' : scored'[t] >= screenSettings.min_total_score
        /\ Cardinality(selected') <=
               screenSettings.max_selected
               + (IF screenSettings.manual_enabled
                  THEN screenSettings.max_manual_selected ELSE 0)
    BY <2>2, <2>3, <2>4, SelectionIsStrict
  <2>6. ~screenSettings.allow_relaxed =>
            \A t \in TargetTickers : OpeningScreen(t, screenSettings)
    BY <2>2, StrictProfile DEF ScreenTypes, Filtered, TargetTickers
  <2>7. TargetTickers = DOMAIN sources /\ TargetTickers \subseteq Stocks
    BY DEF TargetTickers, ScreenTypes
  <2>8. ScreenTypes'
    BY <2>2, <2>3, <2>4, <2>5, <2>7 DEF ScreenTypes, ScreenTypeOK, RunSteps
  <2>9. StrictStaysStrict'
    BY <2>2, <2>5, <2>6 DEF StrictStaysStrict
  <2> QED BY <2>2, <2>8, <2>9 DEF NothingYet, Filtered, ActiveProfile
<1>10. CASE SaveDailyScores
  BY <1>10 DEF SaveDailyScores, ScreenTypes, ScreenTypeOK, RunSteps,
     NothingYet, Filtered, ActiveProfile, StrictStaysStrict
<1>11. CASE RunReturns
  <2>1. emptyLog' \in 0 .. MaxRuns
    BY <1>11 DEF RunReturns, ScreenTypes, ScreenTypeOK
  <2> QED
    BY <1>11, <2>1 DEF RunReturns, ScreenTypes, ScreenTypeOK, RunSteps,
       NothingYet, Filtered, ActiveProfile, StrictStaysStrict
<1>12. CASE RunRaises
  BY <1>12 DEF RunRaises, ScreenTypes, ScreenTypeOK, RunSteps,
     NothingYet, Filtered, ActiveProfile, StrictStaysStrict
<1> QED BY <1>1, <1>2, <1>3, <1>4, <1>5, <1>6, <1>7, <1>8, <1>9, <1>10, <1>11,
           <1>12 DEF ScreenNext

\* A table that is saved holds the rows of the run, if it has any.
LEMMA RowsAreOfRun ==
    \A tickers, old : RowsOf(tickers, Rows(tickers, old))
  BY DEF RowsOf, Rows

\* Each step of run() leaves the tables it has come past with rows of its own.
LEMMA RowsKeep ==
    ASSUME ScreenInv, ScreenNext
    PROVE  RowsAreRuns'
<1> USE DEF ScreenInv
<1>0. /\ screenPc \in RunSteps \cup {"idle", "returned", "raised"}
      /\ runNo \in Nat /\ (screenPc # "idle" => runNo > 0)
      /\ dailyRows.run \in 0 .. runNo /\ emptyLog \in 0 .. runNo
  BY ScreeningAssumption DEF ScreenTypes, ScreenTypeOK, RowsAreRuns
<1>1. CASE RunStarts
  BY <1>0, <1>1 DEF RunStarts, screenTables, RowsAreRuns, RunSteps
<1>2. CASE FetchRankings
  BY <1>2 DEF FetchRankings, screenTables, RowsAreRuns, RunSteps
<1>3. CASE TimeRunsOut
  BY <1>3 DEF TimeRunsOut, screenTables, RowsAreRuns, RunSteps
<1>4. CASE EvaluateBatch
  BY <1>4 DEF EvaluateBatch, screenTables, RowsAreRuns, RunSteps
<1>5. CASE EvaluationStops
  BY <1>5 DEF EvaluationStops, screenTables, RowsAreRuns, RunSteps
<1>6. CASE ManualCandidates
  BY <1>6 DEF ManualCandidates, screenTables, RowsAreRuns, RunSteps
<1>7. CASE SaveDailyTargets
  <2>1. dailyRows'.run \in 0 .. runNo
    BY <1>0, <1>7 DEF SaveDailyTargets, Rows
  <2>2. RowsOf(TargetTickers, dailyRows')
    BY <1>7, RowsAreOfRun DEF SaveDailyTargets
  <2> QED
    BY <1>0, <1>7, <2>1, <2>2
       DEF SaveDailyTargets, RowsAreRuns, RunSteps, RowsOf, TargetTickers
<1>8. CASE SaveListedTargets
  <2>1. RowsOf(TargetTickers, listedRows')
    BY <1>8, RowsAreOfRun DEF SaveListedTargets
  <2>2. StrictShortfall' <=> StrictShortfall
    BY <1>8 DEF SaveListedTargets, StrictShortfall, TargetTickers
  <2> QED
    BY <1>8, <2>1, <2>2
       DEF SaveListedTargets, RowsAreRuns, RunSteps, RowsOf, TargetTickers
<1>9. CASE Score
  <2>1. DOMAIN scored' = TargetTickers
    BY <1>9 DEF Score
  <2> QED
    BY <1>9, <2>1 DEF Score, screenTables, RowsAreRuns, RunSteps, RowsOf, TargetTickers
<1>10. CASE SaveDailyScores
  <2>1. ~StrictShortfall => RowsOf(TargetTickers, scoreRows')
    BY <1>10, RowsAreOfRun DEF SaveDailyScores, RowsAreRuns
  <2>2. StrictShortfall' <=> StrictShortfall
    BY <1>10 DEF SaveDailyScores, StrictShortfall, TargetTickers
  <2> QED
    BY <1>10, <2>1, <2>2
       DEF SaveDailyScores, RowsAreRuns, RunSteps, RowsOf, TargetTickers
<1>11. CASE RunReturns
  <2>1. emptyLog' \in 0 .. runNo
    BY <1>0, <1>11 DEF RunReturns
  <2>2. StrictShortfall' <=> StrictShortfall
    BY <1>11 DEF RunReturns, StrictShortfall, TargetTickers
  <2>3. IF TargetTickers = {} THEN emptyLog' = runNo ELSE emptyLog' < runNo
    BY <1>11 DEF RunReturns, RowsAreRuns, RunSteps
  <2> QED
    BY <1>11, <2>1, <2>2, <2>3
       DEF RunReturns, RowsAreRuns, RunSteps, RowsOf, TargetTickers
<1>12. CASE RunRaises
  BY <1>12 DEF RunRaises, screenTables, RowsAreRuns, RunSteps
<1> QED BY <1>1, <1>2, <1>3, <1>4, <1>5, <1>6, <1>7, <1>8, <1>9, <1>10, <1>11,
           <1>12 DEF ScreenNext

\* Types, filter, limits and rows of a run of the screening, at every step.
THEOREM ScreenInductive == ScreenSpec => []ScreenInv
<1> USE DEF ScreenInv
<1>1. ScreenInit => ScreenInv
  BY ScreeningAssumption
     DEF ScreenInit, ScreenTypes, ScreenTypeOK, NothingYet, Filtered, RowsAreRuns,
         StrictStaysStrict, RunSteps, NoSources, NoScores, NoRows
<1>2. ASSUME ScreenInv, [ScreenNext]_screenVars
      PROVE  ScreenInv'
  <2>1. CASE ScreenNext
    BY <1>2, <2>1, FilterKeeps, RowsKeep
  <2>2. CASE UNCHANGED screenVars
    BY <1>2, <2>2
       DEF screenVars, screenTables, ScreenTypes, ScreenTypeOK, NothingYet, Filtered,
           ActiveProfile, RowsAreRuns, RowsOf, StrictStaysStrict, StrictShortfall,
           TargetTickers
  <2> QED BY <1>2, <2>1, <2>2
<1> QED BY <1>1, <1>2, PTL DEF ScreenSpec

\* No stock below the configured filter or score is selected unless relaxing is
\* allowed, and the two selections keep their limits.
THEOREM StrictStaysStrictHolds == ScreenSpec => []StrictStaysStrict
<1>1. ScreenInv => StrictStaysStrict
  BY DEF ScreenInv
<1> QED BY <1>1, ScreenInductive, PTL

\* After a run the monitor shows the targets and the scores of that run.
THEOREM MonitorShowsLastRunHolds == ScreenSpec => []MonitorShowsLastRun
<1>1. ScreenInv => MonitorShowsLastRun
  <2>1. SUFFICES ASSUME ScreenInv, screenPc = "returned"
                 PROVE  /\ LatestTargets = TargetTickers
                        /\ ~StrictShortfall => LatestScores = DOMAIN scored
    BY DEF MonitorShowsLastRun
  <2>2. /\ runNo \in Nat /\ runNo > 0 /\ dailyRows.run \in 0 .. runNo
        /\ emptyLog \in 0 .. runNo
        /\ RowsOf(TargetTickers, dailyRows) /\ RowsOf(TargetTickers, listedRows)
        /\ (~StrictShortfall => DOMAIN scored = TargetTickers)
        /\ (~StrictShortfall => RowsOf(TargetTickers, scoreRows))
        /\ IF TargetTickers = {} THEN emptyLog = runNo ELSE emptyLog < runNo
    BY <2>1, ScreeningAssumption DEF ScreenInv, RowsAreRuns, ScreenTypes, ScreenTypeOK
  <2>3. CASE TargetTickers = {}
    BY <2>2, <2>3 DEF LatestTargets, LatestScores, LatestSavedNoTargets
  <2>4. CASE TargetTickers # {}
    <3>1. dailyRows.run = runNo /\ listedRows.run = runNo
      BY <2>2, <2>4 DEF RowsOf
    <3>2. ~LatestSavedNoTargets /\ listedRows # NoRows
      BY <2>2, <2>4, <3>1 DEF LatestSavedNoTargets, NoRows
    <3>3. LatestTargets = listedRows.tickers /\ LatestScores = scoreRows.tickers
      BY <3>2 DEF LatestTargets, LatestScores
    <3> QED BY <2>2, <2>4, <3>3 DEF RowsOf
  <2> QED BY <2>3, <2>4
<1> QED BY <1>1, ScreenInductive, PTL

-----------------------------------------------------------------------------
(* The record of the candidates (CandidateRecord).                         *)

Steps == {"rest", "again", "limit", "guard", "risk", "protect", "order", "mark",
          "done"}
Reasons == {"BUY_ALLOWED", "BUY_BLOCKED", "NO_ORDER_LIMIT", "STOP_LOSS_GUARD",
            "NO_ORDER_RISK_GUARD", "ORDER_PROTECTION", "ORDER_FAILED",
            "ORDER_SUBMITTED", "none"}
Events == {"none", "BUY_NOT_SUBMITTED", "ORDER_PROTECTION_BLOCKED",
           "ORDER_SUBMIT_FAILED", "ORDER_SUBMIT_SUCCEEDED"}
EvaluationRows == [allowed : BOOLEAN, submitted : BOOLEAN, decision : Reasons]
Passes == [at : Steps, row : Nat, stale : BOOLEAN, acked : BOOLEAN, tries : Nat,
           reason : Reasons, told : Events, failed : BOOLEAN]

RowTypes ==
    /\ evaluations \in Seq(EvaluationRows)
    /\ latest \in [ran : BOOLEAN, intent : BOOLEAN, row : Nat]
    /\ latest.row \in 0 .. Len(evaluations)
RecordTypes ==
    RowTypes /\ pass \in [Jobs -> Passes] /\ alone \in Jobs \cup {"none"}

\* A pass that met no other is the only one, and the only one remembered.
AloneIsAlone ==
    /\ \A job \in Jobs : JobAt(job, "done") => alone = job
    /\ \A job \in Jobs : alone # "none" /\ job # alone => ~OnItsWay(job)

\* The intent of `latest` is of a row that was allowed.
LatestIsAllowed ==
    latest.row # 0 => latest.intent = TRUE /\ evaluations[latest.row].allowed = TRUE

\* Row id is the latest that was allowed, and no order went out for it.
Pending(rows, id) ==
    /\ id \in DOMAIN rows /\ rows[id].allowed = TRUE /\ rows[id].submitted = FALSE
    /\ \A i \in DOMAIN rows : rows[i].allowed => i <= id

\* A pass p after its own evaluation, with its intent in hand, and at its end.
FreshPass(p, rows, last) ==
    /\ p.at \in {"again", "limit"} =>
           /\ p.row = 0 /\ p.acked = FALSE /\ p.told = "none"
           /\ p.failed \/ p.reason = "BUY_ALLOWED"
    /\ p.at = "limit" /\ last.row # 0 =>
           Pending(rows, last.row) /\ rows[last.row].decision = "BUY_ALLOWED"
InHand(p, rows) ==
    p.row # 0 /\ ~p.stale =>
        /\ p.at \in {"guard", "risk", "protect", "order"} =>
               /\ Pending(rows, p.row) /\ p.acked = FALSE
               /\ p.told # "ORDER_SUBMIT_SUCCEEDED"
        /\ p.at = "mark" => Pending(rows, p.row) /\ p.acked = TRUE
AtItsEnd(p, rows) ==
    p.at = "done" /\ p.row # 0 /\ ~p.failed /\ ~p.stale =>
        /\ rows[p.row].submitted = p.acked
        /\ rows[p.row].decision = p.reason
        /\ (p.told = "ORDER_SUBMIT_SUCCEEDED") = p.acked
Follows(p, rows, last) == FreshPass(p, rows, last) /\ InHand(p, rows) /\ AtItsEnd(p, rows)

RecordInv ==
    /\ RecordTypes /\ AloneIsAlone /\ LatestIsAllowed
    /\ \A job \in Jobs : alone = job => Follows(pass[job], evaluations, latest)

\* A row that fits and is the latest is the one that a mark takes.
LEMMA LatestFits ==
    ASSUME NEW S, S \subseteq Nat, NEW id \in S, \A i \in S : i <= id
    PROVE  LatestRow(S) = id
<1> DEFINE T == {0} \cup S
<1>1. T \subseteq Nat /\ id \in T /\ \A i \in T : id >= i
  OBVIOUS
<1> DEFINE most == Max(T)
<1>2. most \in T /\ \A i \in T : most >= i
  BY <1>1 DEF Max
<1>3. most = id
  <2> HIDE DEF most, T
  <2> QED BY <1>1, <1>2
<1> QED BY <1>3 DEF LatestRow

LEMMA PendingIsTaken ==
    ASSUME RowTypes, NEW id, Pending(evaluations, id)
    PROVE  NotSubmittedRow = id /\ SubmittedRow = id /\ id # 0
<1>1. id \in Nat /\ id # 0 /\ id \in NotSubmitted /\ id \in AllowedRows
  BY DEF Pending, NotSubmitted, AllowedRows, RowTypes
<1>2. AllowedRows \subseteq Nat /\ NotSubmitted \subseteq AllowedRows
  BY DEF NotSubmitted, AllowedRows, RowTypes
<1>3. \A i \in AllowedRows : i <= id
  BY DEF Pending, AllowedRows
<1> QED BY <1>1, <1>2, <1>3, LatestFits DEF NotSubmittedRow, SubmittedRow

\* A mark changes what it says of one row.
Marked(rows, id, reason) ==
    /\ rows \in Seq(EvaluationRows) /\ Len(rows) = Len(evaluations)
    /\ \A i \in DOMAIN rows : rows[i].allowed = evaluations[i].allowed
    /\ id \in DOMAIN rows => rows[id].decision = reason
LEMMA MarksNotMarks ==
    ASSUME RowTypes, NEW reason \in Reasons
    PROVE  /\ Marked(MarkedNot(reason), NotSubmittedRow, reason)
           /\ \A i \in DOMAIN evaluations :
                 MarkedNot(reason)[i].submitted = evaluations[i].submitted
<1> DEFINE id == NotSubmittedRow
<1>1. CASE id \in DOMAIN evaluations
  <2> DEFINE row == [evaluations[id] EXCEPT !.decision = reason]
  <2>1. evaluations[id] \in EvaluationRows
    BY <1>1 DEF RowTypes
  <2>2. /\ row \in EvaluationRows /\ row.decision = reason
        /\ row.allowed = evaluations[id].allowed
        /\ row.submitted = evaluations[id].submitted
    BY <2>1 DEF EvaluationRows
  <2>3. MarkedNot(reason) = [evaluations EXCEPT ![id] = row]
    BY <1>1 DEF MarkedNot, RowTypes
  <2> HIDE DEF id, row
  <2> QED BY <1>1, <2>2, <2>3 DEF Marked, RowTypes, id
<1>2. CASE id \notin DOMAIN evaluations
  <2>1. MarkedNot(reason) = evaluations
    BY <1>2 DEF MarkedNot, RowTypes
  <2> QED BY <1>2, <2>1 DEF Marked, RowTypes
<1> QED BY <1>1, <1>2

LEMMA MarksSubmittedMarks ==
    ASSUME RowTypes
    PROVE  /\ Marked(MarkedSubmitted, SubmittedRow, "ORDER_SUBMITTED")
           /\ SubmittedRow \in DOMAIN evaluations => MarkedSubmitted[SubmittedRow].submitted = TRUE
<1> DEFINE id == SubmittedRow
           half == [evaluations EXCEPT ![id].submitted = TRUE]
           whole == [half EXCEPT ![id].decision = "ORDER_SUBMITTED"]
<1>1. CASE id \in DOMAIN evaluations
  <2>0. MarkedSubmitted = whole
    BY <1>1 DEF MarkedSubmitted, RowTypes
  <2>1. evaluations \in Seq(EvaluationRows) /\ evaluations[id] \in EvaluationRows
    BY <1>1 DEF RowTypes
  <2> HIDE DEF id
  <2> DEFINE halfRow == [evaluations[id] EXCEPT !.submitted = TRUE]
             wholeRow == [half[id] EXCEPT !.decision = "ORDER_SUBMITTED"]
  <2>2. halfRow \in EvaluationRows /\ halfRow.allowed = evaluations[id].allowed
    BY <2>1 DEF EvaluationRows
  <2>3. halfRow.submitted = TRUE
    BY <2>1 DEF EvaluationRows
  <2>4. half = [evaluations EXCEPT ![id] = halfRow]
    BY <1>1, <2>1
  <2> HIDE DEF half, halfRow
  <2>5. /\ half \in Seq(EvaluationRows) /\ Len(half) = Len(evaluations) /\ half[id] = halfRow
        /\ \A i \in DOMAIN half : i # id => half[i] = evaluations[i]
    BY <1>1, <2>1, <2>2, <2>4
  <2>6. wholeRow \in EvaluationRows /\ wholeRow.decision = "ORDER_SUBMITTED"
    <3>1. half[id] \in EvaluationRows
      BY <2>2, <2>5
    <3> HIDE DEF half
    <3>2. wholeRow \in EvaluationRows
      BY <3>1 DEF EvaluationRows, Reasons
    <3>3. wholeRow.decision = "ORDER_SUBMITTED"
      BY <3>1 DEF EvaluationRows
    <3> QED BY <3>2, <3>3
  <2>7. wholeRow.allowed = halfRow.allowed /\ wholeRow.submitted = halfRow.submitted
    BY <2>2, <2>5 DEF EvaluationRows
  <2>8. whole = [half EXCEPT ![id] = wholeRow]
    BY <1>1, <2>5
  <2> HIDE DEF whole, wholeRow
  <2>9. /\ whole \in Seq(EvaluationRows) /\ Len(whole) = Len(half) /\ whole[id] = wholeRow
        /\ \A i \in DOMAIN whole : i # id => whole[i] = half[i]
    BY <1>1, <2>5, <2>6, <2>8
  <2>10. Len(whole) = Len(evaluations) /\ whole[id].allowed = evaluations[id].allowed
    BY <2>2, <2>5, <2>7, <2>9
  <2>11. \A i \in DOMAIN whole : whole[i].allowed = evaluations[i].allowed
    BY <2>1, <2>5, <2>9, <2>10
  <2>12. whole[id].decision = "ORDER_SUBMITTED" /\ whole[id].submitted = TRUE
    BY <2>3, <2>6, <2>7, <2>9
  <2> QED BY <2>0, <2>9, <2>10, <2>11, <2>12 DEF Marked, id
<1>2. CASE id \notin DOMAIN evaluations
  <2>1. MarkedSubmitted = evaluations
    BY <1>2 DEF MarkedSubmitted, RowTypes
  <2> QED BY <1>2, <2>1 DEF Marked, RowTypes
<1> QED BY <1>1, <1>2

PassWith(at, row, stale, acked, tries, reason, told, failed) ==
    [at |-> at, row |-> row, stale |-> stale, acked |-> acked, tries |-> tries,
     reason |-> reason, told |-> told, failed |-> failed]

LEMMA PassOf ==
    ASSUME NEW p \in Passes
    PROVE  p = PassWith(p.at, p.row, p.stale, p.acked, p.tries, p.reason, p.told, p.failed)
  BY DEF Passes, PassWith

LEMMA RecordedPassOf ==
    ASSUME NEW p \in Passes, NEW step, NEW reason, NEW event, NEW lost
    PROVE  LET q == RecordedPass(p, step, reason, event, lost) IN
           q = PassWith(step, p.row, p.stale, p.acked, p.tries, reason, event,
                        p.failed \/ lost # {})
<1> DEFINE a == [p EXCEPT !.at = step]
           b == [a EXCEPT !.reason = reason]
           c == [b EXCEPT !.told = event]
           d == [c EXCEPT !.failed = p.failed \/ lost # {}]
<1>1. a = PassWith(step, p.row, p.stale, p.acked, p.tries, p.reason, p.told, p.failed)
  BY DEF Passes, PassWith
<1>2. b = PassWith(step, p.row, p.stale, p.acked, p.tries, reason, p.told, p.failed)
  <2> HIDE DEF a
  <2> QED BY <1>1 DEF PassWith
<1>3. c = PassWith(step, p.row, p.stale, p.acked, p.tries, reason, event, p.failed)
  <2> HIDE DEF b
  <2> QED BY <1>2 DEF PassWith
<1>4. d = PassWith(step, p.row, p.stale, p.acked, p.tries, reason, event, p.failed \/ lost # {})
  <2> HIDE DEF c
  <2> QED BY <1>3 DEF PassWith
<1>5. RecordedPass(p, step, reason, event, lost) = d
  BY DEF RecordedPass, Passes
<1> QED BY <1>4, <1>5

LEMMA MovedPassOf ==
    ASSUME NEW p \in Passes, NEW step, NEW lost
    PROVE  [p EXCEPT !.at = step, !.failed = @ \/ lost]
               = PassWith(step, p.row, p.stale, p.acked, p.tries, p.reason, p.told,
                          p.failed \/ lost)
<1> DEFINE a == [p EXCEPT !.at = step]
<1>1. a = PassWith(step, p.row, p.stale, p.acked, p.tries, p.reason, p.told, p.failed)
  BY DEF Passes, PassWith
<1>2. [a EXCEPT !.failed = p.failed \/ lost]
          = PassWith(step, p.row, p.stale, p.acked, p.tries, p.reason, p.told,
                     p.failed \/ lost)
  <2> HIDE DEF a
  <2> QED BY <1>1 DEF PassWith
<1>3. [p EXCEPT !.at = step, !.failed = @ \/ lost] = [a EXCEPT !.failed = p.failed \/ lost]
  BY DEF Passes
<1> QED BY <1>2, <1>3

IsStale ==
    latest.row # 0 /\ (evaluations[latest.row].submitted
        \/ \E i \in DOMAIN evaluations : i > latest.row /\ evaluations[i].allowed)
LEMMA TakenOf ==
    ASSUME NEW p \in Passes
    PROVE  /\ Taken(p) = PassWith(p.at, latest.row, IsStale, p.acked, p.tries, p.reason,
                                  p.told, p.failed)
           /\ \A step : [Taken(p) EXCEPT !.at = step]
                  = PassWith(step, latest.row, IsStale, p.acked, p.tries, p.reason,
                             p.told, p.failed)
<1> DEFINE a == [p EXCEPT !.row = latest.row]
           b == [a EXCEPT !.stale = IsStale]
<1>1. a = PassWith(p.at, latest.row, p.stale, p.acked, p.tries, p.reason, p.told, p.failed)
  BY DEF Passes, PassWith
<1>2. b = PassWith(p.at, latest.row, IsStale, p.acked, p.tries, p.reason, p.told, p.failed)
  <2> HIDE DEF a
  <2> QED BY <1>1 DEF PassWith
<1>3. Taken(p) = b
  BY DEF Passes, Taken, IsStale
<1>4. ASSUME NEW step
      PROVE  [b EXCEPT !.at = step]
                 = PassWith(step, latest.row, IsStale, p.acked, p.tries, p.reason, p.told,
                            p.failed)
  <2> HIDE DEF a, b
  <2> QED BY <1>2 DEF PassWith
<1> QED BY <1>2, <1>3, <1>4

LEMMA PassWithType ==
    ASSUME NEW at \in Steps, NEW row \in Nat, NEW stale \in BOOLEAN, NEW acked \in BOOLEAN,
           NEW tries \in Nat, NEW reason \in Reasons, NEW told \in Events,
           NEW failed \in BOOLEAN
    PROVE  PassWith(at, row, stale, acked, tries, reason, told, failed) \in Passes
  BY DEF PassWith, Passes

LEMMA AtRestType ==
    /\ AtRest \in Passes /\ AtRest.at = "rest" /\ AtRest.row = 0
    /\ AtRest.acked = FALSE /\ AtRest.told = "none" /\ AtRest.reason = "BUY_ALLOWED"
  BY DEF AtRest, Passes, Steps, Reasons, Events

LEMMA BegunPassOf ==
    ASSUME NEW step, NEW lost
    PROVE  [AtRest EXCEPT !.failed = lost, !.at = step]
               = PassWith(step, AtRest.row, AtRest.stale, AtRest.acked, AtRest.tries,
                          AtRest.reason, AtRest.told, lost)
<1> DEFINE a == [AtRest EXCEPT !.failed = lost]
<1>1. a = PassWith(AtRest.at, AtRest.row, AtRest.stale, AtRest.acked, AtRest.tries,
                   AtRest.reason, AtRest.told, lost)
  BY AtRestType DEF Passes, PassWith
<1>2. [a EXCEPT !.at = step]
          = PassWith(step, AtRest.row, AtRest.stale, AtRest.acked, AtRest.tries,
                     AtRest.reason, AtRest.told, lost)
  <2> HIDE DEF a
  <2> QED BY <1>1 DEF PassWith
<1> QED BY <1>2, AtRestType DEF Passes

LEMMA PassWithMoved ==
    ASSUME NEW p \in Passes, NEW step \in Steps, NEW lost
    PROVE  PassWith(step, p.row, p.stale, p.acked, p.tries, p.reason, p.told,
                    p.failed \/ lost) \in Passes
<1>1. /\ p.row \in Nat /\ p.stale \in BOOLEAN /\ p.acked \in BOOLEAN /\ p.tries \in Nat
      /\ p.reason \in Reasons /\ p.told \in Events
  BY DEF Passes
<1>2. (p.failed \/ lost) \in BOOLEAN
  OBVIOUS
<1> QED BY <1>1, <1>2, PassWithType

\* A step of one pass keeps what is known of all, if it keeps it of its own.
LEMMA PassKeeps ==
    ASSUME RecordInv, NEW job \in Jobs, NEW record \in Passes, Becomes(job, record),
           BeginsPass(job) \/ (Continues /\ OnItsWay(job)),
           RowTypes', LatestIsAllowed',
           alone' = job => Follows(record, evaluations', latest')
    PROVE  RecordInv'
<1> DEFINE quiet == [record EXCEPT !.told = "none"]
           told == IF record.failed THEN [quiet EXCEPT !.reason = "none"] ELSE record
<1>1. /\ quiet \in Passes /\ quiet.at = record.at /\ quiet.row = record.row
      /\ quiet.stale = record.stale /\ quiet.acked = record.acked
      /\ quiet.failed = record.failed /\ quiet.told = "none"
  BY DEF Passes, Events
<1>2. /\ told \in Passes /\ told.at = record.at /\ told.row = record.row
      /\ told.stale = record.stale /\ told.acked = record.acked
      /\ told.failed = record.failed
      /\ ~record.failed => told = record
      /\ record.failed => told.told = "none"
  <2> HIDE DEF quiet
  <2> QED BY <1>1 DEF Passes, Reasons
<1>3. /\ DOMAIN pass' = Jobs
      /\ pass'[job] = IF record.at = "done" /\ alone' # job THEN AtRest ELSE told
      /\ \A other \in Jobs \ {job} :
            pass'[other] = IF JobAt(other, "done") /\ alone' # other THEN AtRest
                           ELSE pass[other]
  BY DEF Becomes, Passes
<1> HIDE DEF quiet, told
<1>4. AtRest \in Passes /\ AtRest.at = "rest"
  BY AtRestType
<1>5. RecordTypes'
  <2>1. \A j \in Jobs : pass'[j] \in Passes
    BY <1>2, <1>3, <1>4 DEF RecordInv, RecordTypes
  <2>2. pass' \in [Jobs -> Passes]
    <3>1. pass' = [j \in Jobs |-> pass'[j]]
      BY DEF Becomes
    <3> QED BY <2>1, <3>1
  <2>3. alone' \in Jobs \cup {"none"}
    BY DEF BeginsPass, Continues, RecordInv, RecordTypes
  <2> QED BY <2>2, <2>3 DEF RecordTypes
<1>6. "none" \notin Jobs
  BY DEF Jobs
<1>7. AloneIsAlone'
  <2>1. ASSUME NEW j \in Jobs, pass'[j].at = "done" PROVE alone' = j
    BY <1>2, <1>3, <1>4, <2>1 DEF JobAt
  <2>2. ASSUME NEW j \in Jobs, alone' # "none", j # alone'
        PROVE  pass'[j].at \in {"rest", "done"}
    <3>1. CASE BeginsPass(job)
      <4>1. alone' = job /\ \A other \in Jobs : ~OnItsWay(other)
        BY <2>2, <3>1, <1>6 DEF BeginsPass
      <4> QED BY <1>3, <1>4, <2>2, <4>1 DEF OnItsWay, JobAt
    <3>2. CASE Continues /\ OnItsWay(job)
      <4>1. alone = job /\ ~OnItsWay(j)
        BY <2>2, <3>2 DEF Continues, RecordInv, AloneIsAlone
      <4> QED BY <1>3, <1>4, <2>2, <3>2, <4>1 DEF OnItsWay, JobAt, Continues
    <3> QED BY <3>1, <3>2
  <2> QED BY <2>1, <2>2 DEF AloneIsAlone, OnItsWay, JobAt
<1>8. ASSUME NEW j \in Jobs, alone' = j
      PROVE  Follows(pass'[j], evaluations', latest')
  <2>1. j = job
    <3>1. CASE BeginsPass(job)
      BY <1>6, <1>8, <3>1 DEF BeginsPass
    <3>2. CASE Continues /\ OnItsWay(job)
      BY <1>6, <1>8, <3>2 DEF Continues, RecordInv, AloneIsAlone
    <3> QED BY <3>1, <3>2
  <2>2. pass'[j] = told
    BY <1>3, <1>8, <2>1
  <2>3. Follows(record, evaluations', latest')
    BY <1>8, <2>1
  <2>4. CASE ~record.failed
    BY <1>2, <2>2, <2>3, <2>4
  <2>5. CASE record.failed
    <3>1. FreshPass(told, evaluations', latest')
      BY <1>2, <2>3, <2>5 DEF Follows, FreshPass
    <3>2. InHand(told, evaluations')
      BY <1>2, <2>3, <2>5 DEF Follows, InHand
    <3>3. AtItsEnd(told, evaluations')
      BY <1>2, <2>5 DEF AtItsEnd
    <3> QED BY <2>2, <3>1, <3>2, <3>3 DEF Follows
  <2> QED BY <2>4, <2>5
<1> QED BY <1>5, <1>7, <1>8 DEF RecordInv

\* What an evaluation leaves behind.
LEMMA EvaluationLeaves ==
    ASSUME RowTypes, LatestIsAllowed, NEW outcome \in EvaluationOutcomes,
           NEW saved \in BOOLEAN, Saves(outcome, saved)
    PROVE  /\ UNCHANGED latest => RowTypes' /\ LatestIsAllowed'
           /\ Keeps(outcome, saved) =>
                  /\ RowTypes' /\ LatestIsAllowed'
                  /\ latest'.row # 0 =>
                         /\ Pending(evaluations', latest'.row)
                         /\ evaluations'[latest'.row].decision = "BUY_ALLOWED"
                  /\ (latest'.intent = FALSE) => latest'.row = 0
<1>1. CASE saved /\ outcome # "left_out"
  <2> DEFINE row == [allowed |-> outcome = "allowed", submitted |-> FALSE,
                     decision |-> IF outcome = "allowed" THEN "BUY_ALLOWED"
                                  ELSE "BUY_BLOCKED"]
  <2>1. evaluations' = Append(evaluations, row)
    BY <1>1 DEF Saves
  <2>2. row \in EvaluationRows /\ row.submitted = FALSE /\ (row.allowed <=> outcome = "allowed")
        /\ (outcome = "allowed" => row.decision = "BUY_ALLOWED")
    BY DEF EvaluationRows, Reasons
  <2>2a. outcome = "allowed" => row.allowed = TRUE
    OBVIOUS
  <2> HIDE DEF row
  <2>3. /\ evaluations' \in Seq(EvaluationRows) /\ Len(evaluations') = Len(evaluations) + 1
        /\ evaluations'[Len(evaluations) + 1] = row
        /\ \A i \in 1 .. Len(evaluations) : evaluations'[i] = evaluations[i]
    BY <2>1, <2>2 DEF RowTypes
  <2>4. ASSUME UNCHANGED latest PROVE RowTypes' /\ LatestIsAllowed'
    BY <2>3, <2>4 DEF RowTypes, LatestIsAllowed
  <2>5. ASSUME Keeps(outcome, saved)
        PROVE  /\ RowTypes' /\ LatestIsAllowed'
               /\ latest'.row # 0 =>
                      /\ Pending(evaluations', latest'.row)
                      /\ evaluations'[latest'.row].decision = "BUY_ALLOWED"
               /\ (latest'.intent = FALSE) => latest'.row = 0
    <3>1. CASE outcome = "allowed"
      <4>1. /\ latest' = [ran |-> TRUE, intent |-> TRUE, row |-> Len(evaluations) + 1]
        BY <1>1, <2>5, <3>1 DEF Keeps
      <4>2. /\ latest'.row = Len(evaluations) + 1 /\ latest'.intent = TRUE
            /\ latest' \in [ran : BOOLEAN, intent : BOOLEAN, row : Nat]
            /\ latest'.row \in 0 .. Len(evaluations')
        BY <2>3, <4>1 DEF RowTypes
      <4>3. Pending(evaluations', Len(evaluations) + 1)
        BY <2>2, <2>2a, <2>3, <3>1 DEF Pending, RowTypes
      <4> QED BY <2>2, <2>3, <3>1, <4>2, <4>3 DEF RowTypes, LatestIsAllowed, Pending
    <3>2. CASE outcome # "allowed"
      <4>1. latest' = [ran |-> TRUE, intent |-> FALSE, row |-> 0]
        BY <2>5, <3>2 DEF Keeps
      <4> QED BY <2>3, <4>1 DEF RowTypes, LatestIsAllowed
    <3> QED BY <3>1, <3>2
  <2> QED BY <2>4, <2>5
<1>2. CASE ~(saved /\ outcome # "left_out")
  <2>1. evaluations' = evaluations
    BY <1>2 DEF Saves
  <2>2. ASSUME UNCHANGED latest PROVE RowTypes' /\ LatestIsAllowed'
    BY <2>1, <2>2 DEF RowTypes, LatestIsAllowed
  <2>3. ASSUME Keeps(outcome, saved)
        PROVE  RowTypes' /\ LatestIsAllowed' /\ latest'.row = 0
    <3>1. /\ latest'.row = 0 /\ latest' \in [ran : BOOLEAN, intent : BOOLEAN, row : Nat]
      BY <1>2, <2>3 DEF Keeps
    <3> QED BY <2>1, <3>1 DEF RowTypes, LatestIsAllowed
  <2> QED BY <2>2, <2>3
<1> QED BY <1>1, <1>2

LEMMA RunsKeeps ==
    ASSUME RecordInv, NEW job \in Jobs, NEW outcome \in EvaluationOutcomes,
           NEW saved \in BOOLEAN, Runs(job, outcome, saved)
    PROVE  RecordInv'
<1> DEFINE step == IF job = "dry_run" THEN "done"
                   ELSE IF job = "recheck" /\ Hybrid THEN "again"
                   ELSE "limit"
           record == PassWith(step, AtRest.row, AtRest.stale, AtRest.acked, AtRest.tries,
                              AtRest.reason, AtRest.told, ~saved)
<1>1. [AtRest EXCEPT !.failed = ~saved, !.at = step] = record
  <2> DEFINE lost == ~saved
  <2>1. [AtRest EXCEPT !.failed = lost, !.at = step]
            = PassWith(step, AtRest.row, AtRest.stale, AtRest.acked, AtRest.tries,
                       AtRest.reason, AtRest.told, lost)
    <3> HIDE DEF lost, step
    <3> QED BY BegunPassOf
  <2> QED BY <2>1
<1>2. Becomes(job, record)
  <2> HIDE DEF record
  <2> QED BY <1>1 DEF Runs
<1>3. record \in Passes
  <2>1. step \in Steps /\ (~saved) \in BOOLEAN
    BY DEF Steps
  <2>2. /\ AtRest.row \in Nat /\ AtRest.stale \in BOOLEAN /\ AtRest.acked \in BOOLEAN
        /\ AtRest.tries \in Nat /\ AtRest.reason \in Reasons /\ AtRest.told \in Events
    BY AtRestType DEF Passes
  <2> HIDE DEF step
  <2> QED BY <2>1, <2>2, PassWithType
<1>4. /\ record.at = step /\ record.row = 0 /\ record.acked = FALSE
      /\ record.told = "none" /\ record.reason = "BUY_ALLOWED"
  BY AtRestType DEF PassWith
<1>5. BeginsPass(job) /\ Saves(outcome, saved)
      /\ IF job = "recheck" /\ Hybrid THEN UNCHANGED latest ELSE Keeps(outcome, saved)
  BY DEF Runs
<1>6. RowTypes' /\ LatestIsAllowed'
  BY <1>5, EvaluationLeaves DEF RecordInv, RecordTypes
<1>7. step = "limit" => Keeps(outcome, saved)
  BY <1>5
<1>8. step = "limit" /\ latest'.row # 0 =>
          /\ Pending(evaluations', latest'.row)
          /\ evaluations'[latest'.row].decision = "BUY_ALLOWED"
  BY <1>5, <1>7, EvaluationLeaves DEF RecordInv, RecordTypes
<1> HIDE DEF record
<1>9. Follows(record, evaluations', latest')
  BY <1>4, <1>8 DEF Follows, FreshPass, InHand, AtItsEnd
<1> QED BY <1>2, <1>3, <1>5, <1>6, <1>9, PassKeeps

\* The pass that is alone, in the step that it is in.
LEMMA OwnFollows ==
    ASSUME RecordInv, NEW job \in Jobs
    PROVE  /\ alone = job => Follows(pass[job], evaluations, latest)
           /\ pass[job] \in Passes /\ RowTypes /\ LatestIsAllowed
  BY DEF RecordInv, RecordTypes

LEMMA EvaluatesAgainKeeps ==
    ASSUME RecordInv, NEW outcome \in EvaluationOutcomes, NEW saved \in BOOLEAN,
           EvaluatesAgain(outcome, saved)
    PROVE  RecordInv'
<1> DEFINE p == pass["recheck"]
           record == PassWith("limit", p.row, p.stale, p.acked, p.tries, p.reason, p.told,
                              p.failed \/ ~saved)
<1>1. "recheck" \in Jobs
  BY DEF Jobs
<1>2. /\ alone = "recheck" => Follows(p, evaluations, latest)
      /\ p \in Passes /\ RowTypes /\ LatestIsAllowed /\ p.at = "again"
  BY <1>1, OwnFollows DEF EvaluatesAgain, JobAt
<1>3. OnItsWay("recheck") /\ Continues
  BY <1>2 DEF EvaluatesAgain, OnItsWay, JobAt
<1> HIDE DEF p
<1>4. Becomes("recheck", record)
  BY <1>2, MovedPassOf DEF EvaluatesAgain, p
<1>5. record \in Passes
  BY <1>2, PassWithMoved DEF Steps
<1>6. /\ record.at = "limit" /\ record.row = p.row /\ record.acked = p.acked
      /\ record.told = p.told /\ record.reason = p.reason
      /\ (p.failed => record.failed)
  BY DEF PassWith
<1>7. /\ RowTypes' /\ LatestIsAllowed'
      /\ latest'.row # 0 =>
             /\ Pending(evaluations', latest'.row)
             /\ evaluations'[latest'.row].decision = "BUY_ALLOWED"
  BY <1>2, EvaluationLeaves DEF EvaluatesAgain
<1> HIDE DEF record
<1>8. alone' = "recheck" => Follows(record, evaluations', latest')
  <2>1. SUFFICES ASSUME alone = "recheck" PROVE Follows(record, evaluations', latest')
    BY <1>3 DEF Continues
  <2>2. p.row = 0 /\ p.acked = FALSE /\ p.told = "none"
        /\ (p.failed \/ p.reason = "BUY_ALLOWED")
    BY <1>2, <2>1 DEF Follows, FreshPass
  <2> QED BY <1>6, <1>7, <2>2 DEF Follows, FreshPass, InHand, AtItsEnd
<1> QED BY <1>1, <1>3, <1>4, <1>5, <1>7, <1>8, PassKeeps

\* An intent that is taken, and is not stale, is of a row that waits for it.
LEMMA TakenIsPending ==
    ASSUME RowTypes, LatestIsAllowed, latest.row # 0, ~IsStale
    PROVE  Pending(evaluations, latest.row)
<1>1. /\ latest.row \in DOMAIN evaluations /\ evaluations[latest.row].allowed = TRUE
      /\ evaluations[latest.row].submitted \in BOOLEAN
  <2>1. latest.row \in DOMAIN evaluations
    BY DEF RowTypes
  <2>2. evaluations[latest.row] \in EvaluationRows
    BY <2>1 DEF RowTypes
  <2> QED BY <2>1, <2>2 DEF LatestIsAllowed, EvaluationRows
<1>2. ~evaluations[latest.row].submitted
  BY DEF IsStale
<1>3. \A i \in DOMAIN evaluations : evaluations[i].allowed => ~(i > latest.row)
  BY DEF IsStale
<1>4. latest.row \in Nat /\ DOMAIN evaluations \subseteq Nat
  BY DEF RowTypes
<1>5. evaluations[latest.row].submitted = FALSE
  BY <1>1, <1>2
<1> QED BY <1>1, <1>3, <1>4, <1>5 DEF Pending

LEMMA TakenType ==
    ASSUME RowTypes, NEW p \in Passes, NEW step \in Steps
    PROVE  PassWith(step, latest.row, IsStale, p.acked, p.tries, p.reason, p.told,
                    p.failed) \in Passes
<1>1. latest.row \in Nat /\ IsStale \in BOOLEAN
  BY DEF RowTypes, IsStale
<1>2. /\ p.acked \in BOOLEAN /\ p.tries \in Nat /\ p.reason \in Reasons
      /\ p.told \in Events /\ p.failed \in BOOLEAN
  BY DEF Passes
<1> QED BY <1>1, <1>2, PassWithType

\* With the intent of `latest` a pass goes on, or ends where there is none.
LEMMA TakenFollows ==
    ASSUME RowTypes, LatestIsAllowed, NEW p \in Passes, p.acked = FALSE, p.told = "none"
    PROVE  LET step == IF latest.intent THEN "guard" ELSE "done"
               record == PassWith(step, latest.row, IsStale, p.acked, p.tries, p.reason,
                                  p.told, p.failed)
           IN  record \in Passes /\ Follows(record, evaluations, latest)
<1> DEFINE step == IF latest.intent THEN "guard" ELSE "done"
           record == PassWith(step, latest.row, IsStale, p.acked, p.tries, p.reason,
                              p.told, p.failed)
<1>1. record \in Passes
  <2>1. step \in Steps
    BY DEF Steps
  <2> HIDE DEF step
  <2> QED BY <2>1, TakenType
<1>2. /\ record.at = step /\ record.row = latest.row /\ (record.stale <=> IsStale)
      /\ record.acked = p.acked /\ record.told = p.told
  BY DEF PassWith
<1>3. step = "done" => latest.row = 0
  BY DEF LatestIsAllowed
<1> HIDE DEF record
<1>4. FreshPass(record, evaluations, latest) /\ AtItsEnd(record, evaluations)
  BY <1>2, <1>3 DEF FreshPass, AtItsEnd
<1>5. InHand(record, evaluations)
  <2>1. ~record.stale /\ record.row # 0 => Pending(evaluations, record.row)
    BY <1>2, TakenIsPending
  <2> QED BY <1>2, <2>1 DEF InHand
<1> QED BY <1>1, <1>4, <1>5 DEF Follows, record

LEMMA TakesLatestKeeps ==
    ASSUME RecordInv, TakesLatest
    PROVE  RecordInv'
<1> DEFINE p == IF JobAt("mock_buy", "limit") THEN pass["mock_buy"] ELSE AtRest
           step == IF latest.intent THEN "guard" ELSE "done"
           record == PassWith(step, latest.row, IsStale, p.acked, p.tries, p.reason,
                              p.told, p.failed)
<1>1. "mock_buy" \in Jobs
  BY DEF Jobs
<1>2. p \in Passes
  BY <1>1, OwnFollows, AtRestType
<1>3. UNCHANGED <<evaluations, latest>>
  BY DEF TakesLatest
<1>4. Becomes("mock_buy", record)
  <2> HIDE DEF p
  <2>1. Becomes("mock_buy", [Taken(p) EXCEPT !.at = step])
    BY DEF TakesLatest, p
  <2> QED BY <1>2, <2>1, TakenOf
<1>5. BeginsPass("mock_buy") \/ (Continues /\ OnItsWay("mock_buy"))
  BY DEF TakesLatest, OnItsWay, JobAt
<1>6. alone' = "mock_buy" => p.acked = FALSE /\ p.told = "none"
  <2>1. CASE ~JobAt("mock_buy", "limit")
    BY <2>1, AtRestType
  <2>2. CASE JobAt("mock_buy", "limit")
    <3>1. Continues
      BY <2>2 DEF TakesLatest, BeginsPass, OnItsWay, JobAt
    <3> QED BY <1>1, <2>2, <3>1, OwnFollows DEF Continues, Follows, FreshPass, JobAt
  <2> QED BY <2>1, <2>2
<1>7. RowTypes /\ LatestIsAllowed /\ RowTypes' /\ LatestIsAllowed'
  BY <1>3 DEF RecordInv, RecordTypes, RowTypes, LatestIsAllowed
<1>8. record \in Passes
  <2>1. step \in Steps
    BY DEF Steps
  <2> HIDE DEF step, p
  <2> QED BY <1>2, <1>7, <2>1, TakenType
<1>9. alone' = "mock_buy" => Follows(record, evaluations', latest')
  <2> HIDE DEF p
  <2> QED BY <1>2, <1>3, <1>6, <1>7, TakenFollows
<1> HIDE DEF record
<1> QED BY <1>1, <1>4, <1>5, <1>7, <1>8, <1>9, PassKeeps

LEMMA PassesLimitsKeeps ==
    ASSUME RecordInv, NEW job \in Jobs, PassesLimits(job)
    PROVE  RecordInv'
<1> DEFINE p == pass[job]
           step == IF latest.intent THEN "guard" ELSE "done"
           record == PassWith(step, latest.row, IsStale, p.acked, p.tries, p.reason,
                              p.told, p.failed)
<1>1. /\ alone = job => Follows(p, evaluations, latest)
      /\ p \in Passes /\ RowTypes /\ LatestIsAllowed /\ p.at = "limit"
  BY OwnFollows DEF PassesLimits, JobAt
<1>2. Continues /\ OnItsWay(job) /\ UNCHANGED <<evaluations, latest>>
  BY <1>1 DEF PassesLimits, OnItsWay, JobAt
<1> HIDE DEF p
<1>3. Becomes(job, record)
  BY <1>1, TakenOf DEF PassesLimits, p
<1>4. RowTypes' /\ LatestIsAllowed'
  BY <1>1, <1>2 DEF RowTypes, LatestIsAllowed
<1>5. record \in Passes
  <2>1. step \in Steps
    BY DEF Steps
  <2> HIDE DEF step
  <2> QED BY <1>1, <2>1, TakenType
<1>6. alone' = job => Follows(record, evaluations', latest')
  <2>1. SUFFICES ASSUME alone = job PROVE Follows(record, evaluations, latest)
    BY <1>2 DEF Continues
  <2>2. p.acked = FALSE /\ p.told = "none"
    BY <1>1, <2>1 DEF Follows, FreshPass
  <2> QED BY <1>1, <2>2, TakenFollows
<1> HIDE DEF record
<1> QED BY <1>2, <1>3, <1>4, <1>5, <1>6, PassKeeps

\* A mark for what held a row back finds the row that waits.
LEMMA MarkFinds ==
    ASSUME RowTypes, LatestIsAllowed, NEW reason \in Reasons, NEW lost \in Losses,
           MarksNot(reason, lost), UNCHANGED latest
    PROVE  /\ RowTypes' /\ LatestIsAllowed'
           /\ \A id : Pending(evaluations, id) =>
                 /\ Pending(evaluations', id)
                 /\ lost = {} => evaluations'[id].decision = reason
<1>1. CASE "mark" \in lost
  <2>1. evaluations' = evaluations /\ lost # {}
    BY <1>1 DEF MarksNot
  <2> QED BY <2>1 DEF RowTypes, LatestIsAllowed
<1>2. CASE "mark" \notin lost
  <2>1. evaluations' = MarkedNot(reason)
    BY <1>2 DEF MarksNot
  <2>2. /\ evaluations' \in Seq(EvaluationRows) /\ Len(evaluations') = Len(evaluations)
        /\ \A i \in DOMAIN evaluations' : evaluations'[i].allowed = evaluations[i].allowed
        /\ \A i \in DOMAIN evaluations : evaluations'[i].submitted = evaluations[i].submitted
        /\ NotSubmittedRow \in DOMAIN evaluations' =>
               evaluations'[NotSubmittedRow].decision = reason
    BY <2>1, MarksNotMarks DEF Marked
  <2>3. DOMAIN evaluations' = DOMAIN evaluations
    BY <2>2 DEF RowTypes
  <2>4. RowTypes' /\ LatestIsAllowed'
    BY <2>2, <2>3 DEF RowTypes, LatestIsAllowed
  <2>5. ASSUME NEW id, Pending(evaluations, id)
        PROVE  Pending(evaluations', id) /\ evaluations'[id].decision = reason
    <3>1. NotSubmittedRow = id
      BY <2>5, PendingIsTaken
    <3> QED BY <2>2, <2>3, <2>5, <3>1 DEF Pending
  <2> QED BY <2>4, <2>5
<1> QED BY <1>1, <1>2

\* What holds back an intent in hand, by itself or after a refused order.
LEMMA RecordsKeeps ==
    ASSUME RecordInv, NEW job \in Jobs, NEW step \in {"risk", "done"},
           NEW reason \in Reasons, NEW lost \in Losses,
           NEW event \in Events \ {"none", "ORDER_SUBMIT_SUCCEEDED"},
           pass[job].at \in {"guard", "risk", "protect", "order"},
           Records(job, step, reason, event, lost)
    PROVE  RecordInv'
<1> DEFINE p == pass[job]
           record == PassWith(step, p.row, p.stale, p.acked, p.tries, reason, event,
                              p.failed \/ lost # {})
<1>1. /\ alone = job => Follows(p, evaluations, latest)
      /\ p \in Passes /\ RowTypes /\ LatestIsAllowed
  BY OwnFollows
<1>2. /\ Continues /\ OnItsWay(job) /\ UNCHANGED latest
      /\ MarksNot(reason, lost) /\ p.at \in {"guard", "risk", "protect", "order"}
  BY DEF Records, OnItsWay, JobAt
<1> HIDE DEF p
<1>3. Becomes(job, record)
  BY <1>1, RecordedPassOf DEF Records, p
<1>4. record \in Passes
  <2>1. step \in Steps /\ event \in Events /\ (p.failed \/ lost # {}) \in BOOLEAN
    BY DEF Steps
  <2>2. /\ p.row \in Nat /\ p.stale \in BOOLEAN /\ p.acked \in BOOLEAN /\ p.tries \in Nat
    BY <1>1 DEF Passes
  <2> QED BY <2>1, <2>2, PassWithType
<1>5. /\ RowTypes' /\ LatestIsAllowed'
      /\ \A id : Pending(evaluations, id) =>
            /\ Pending(evaluations', id)
            /\ lost = {} => evaluations'[id].decision = reason
  BY <1>1, <1>2, MarkFinds
<1>6. /\ record.at = step /\ record.row = p.row /\ record.stale = p.stale
      /\ record.acked = p.acked /\ record.reason = reason /\ record.told = event
      /\ record.failed <=> (p.failed \/ lost # {})
  BY DEF PassWith
<1> HIDE DEF record
<1>7. ASSUME alone = job PROVE Follows(record, evaluations', latest')
  <2>1. p.row # 0 /\ ~p.stale =>
            /\ Pending(evaluations, p.row) /\ p.acked = FALSE
            /\ p.told # "ORDER_SUBMIT_SUCCEEDED"
    BY <1>1, <1>2, <1>7 DEF Follows, InHand
  <2>2. FreshPass(record, evaluations', latest') /\ InHand(record, evaluations')
    BY <1>5, <1>6, <2>1 DEF FreshPass, InHand
  <2>3. ASSUME record.row # 0, ~record.failed, ~record.stale
        PROVE  /\ evaluations'[record.row].submitted = record.acked
               /\ evaluations'[record.row].decision = record.reason
               /\ (record.told = "ORDER_SUBMIT_SUCCEEDED") = record.acked
    <3>1. lost = {} /\ Pending(evaluations, p.row) /\ record.acked = FALSE
      BY <1>6, <2>1, <2>3
    <3>2. Pending(evaluations', p.row) /\ evaluations'[p.row].decision = reason
      BY <1>5, <3>1
    <3>3. event # "ORDER_SUBMIT_SUCCEEDED"
      OBVIOUS
    <3> QED BY <1>6, <3>1, <3>2, <3>3 DEF Pending
  <2> QED BY <2>2, <2>3 DEF Follows, AtItsEnd
<1>8. alone' = job => Follows(record, evaluations', latest')
  BY <1>2, <1>7 DEF Continues
<1> QED BY <1>2, <1>3, <1>4, <1>5, <1>8, PassKeeps

LEMMA LimitedKeeps ==
    ASSUME RecordInv, NEW job \in Jobs, NEW lost \in Losses, Limited(job, lost)
    PROVE  RecordInv'
<1> DEFINE p == pass[job]
           q == PassWith(p.at, latest.row, IsStale, p.acked, p.tries, p.reason, p.told,
                         p.failed)
<1>1. /\ alone = job => Follows(p, evaluations, latest)
      /\ p \in Passes /\ RowTypes /\ LatestIsAllowed /\ p.at = "limit"
  BY OwnFollows DEF Limited, JobAt
<1>2. Continues /\ OnItsWay(job) /\ UNCHANGED latest
  BY <1>1 DEF Limited, OnItsWay, JobAt
<1> HIDE DEF p
<1>3. q \in Passes /\ q = Taken(p)
  BY <1>1, TakenType, TakenOf DEF Steps
<1>4. ASSUME alone = job
      PROVE  /\ p.acked = FALSE /\ p.told = "none"
             /\ p.failed \/ p.reason = "BUY_ALLOWED"
             /\ latest.row # 0 => /\ Pending(evaluations, latest.row)
                                  /\ evaluations[latest.row].decision = "BUY_ALLOWED"
  BY <1>1, <1>4 DEF Follows, FreshPass
<1>5. CASE job = "recheck"
  <2> DEFINE record == PassWith("done", q.row, q.stale, q.acked, q.tries, "NO_ORDER_LIMIT",
                                "BUY_NOT_SUBMITTED", q.failed \/ lost # {})
  <2>1. MarksNot("NO_ORDER_LIMIT", lost)
    BY <1>5 DEF Limited
  <2>2. Becomes(job, RecordedPass(q, "done", "NO_ORDER_LIMIT", "BUY_NOT_SUBMITTED", lost))
    BY <1>3, <1>5 DEF Limited, p
  <2>2a. q.row = latest.row /\ q.acked = p.acked
    BY DEF PassWith
  <2> HIDE DEF q
  <2>3. Becomes(job, record)
    BY <1>3, <2>2, RecordedPassOf
  <2>4. record \in Passes
    <3>1. /\ q.row \in Nat /\ q.stale \in BOOLEAN /\ q.acked \in BOOLEAN /\ q.tries \in Nat
          /\ (q.failed \/ lost # {}) \in BOOLEAN
      BY <1>3 DEF Passes
    <3>2. "done" \in Steps /\ "NO_ORDER_LIMIT" \in Reasons /\ "BUY_NOT_SUBMITTED" \in Events
      BY DEF Steps, Reasons, Events
    <3> QED BY <3>1, <3>2, PassWithType
  <2>5. /\ RowTypes' /\ LatestIsAllowed'
        /\ \A id : Pending(evaluations, id) =>
              /\ Pending(evaluations', id)
              /\ lost = {} => evaluations'[id].decision = "NO_ORDER_LIMIT"
    BY <1>1, <1>2, <2>1, MarkFinds DEF Reasons
  <2>6. /\ record.at = "done" /\ record.row = latest.row /\ record.acked = p.acked
        /\ record.reason = "NO_ORDER_LIMIT" /\ record.told = "BUY_NOT_SUBMITTED"
        /\ ~record.failed => lost = {}
    BY <2>2a DEF PassWith
  <2> HIDE DEF record
  <2>7. ASSUME alone = job PROVE Follows(record, evaluations', latest')
    <3>1. FreshPass(record, evaluations', latest') /\ InHand(record, evaluations')
      BY <2>6 DEF FreshPass, InHand
    <3>2. AtItsEnd(record, evaluations')
      BY <1>4, <2>5, <2>6, <2>7 DEF AtItsEnd, Pending
    <3> QED BY <3>1, <3>2 DEF Follows
  <2>8. alone' = job => Follows(record, evaluations', latest')
    BY <1>2, <2>7 DEF Continues
  <2> QED BY <1>2, <2>3, <2>4, <2>5, <2>8, PassKeeps
<1>6. CASE job # "recheck"
  <2> DEFINE record == PassWith("done", latest.row, IsStale, p.acked, p.tries, p.reason,
                                p.told, p.failed)
  <2>1. Becomes(job, record) /\ UNCHANGED evaluations
    BY <1>1, <1>6, TakenOf DEF Limited, p
  <2>2. record \in Passes
    <3>1. "done" \in Steps
      BY DEF Steps
    <3> QED BY <1>1, <3>1, TakenType
  <2>3. RowTypes' /\ LatestIsAllowed'
    BY <1>1, <1>2, <2>1 DEF RowTypes, LatestIsAllowed
  <2>4. /\ record.at = "done" /\ record.row = latest.row /\ record.acked = p.acked
        /\ record.reason = p.reason /\ record.told = p.told
        /\ record.failed <=> p.failed
    BY DEF PassWith
  <2> HIDE DEF record
  <2>5. ASSUME alone = job PROVE Follows(record, evaluations, latest)
    <3>1. FreshPass(record, evaluations, latest) /\ InHand(record, evaluations)
      BY <2>4 DEF FreshPass, InHand
    <3>2. AtItsEnd(record, evaluations)
      BY <1>4, <2>4, <2>5 DEF AtItsEnd, Pending
    <3> QED BY <3>1, <3>2 DEF Follows
  <2>6. alone' = job => Follows(record, evaluations', latest')
    BY <1>2, <2>1, <2>5 DEF Continues
  <2> QED BY <1>2, <2>1, <2>2, <2>3, <2>6, PassKeeps
<1> QED BY <1>5, <1>6

LEMMA GoesKeeps ==
    ASSUME RecordInv, NEW job \in Jobs, NEW step \in {"protect", "order", "done"},
           NEW lost \in BOOLEAN, Goes(job, step, lost), OnItsWay(job),
           step = "done" => lost,
           step # "done" => pass[job].at \in {"guard", "protect"}
    PROVE  RecordInv'
<1> DEFINE p == pass[job]
           record == PassWith(step, p.row, p.stale, p.acked, p.tries, p.reason, p.told,
                              p.failed \/ lost)
<1>1. /\ alone = job => Follows(p, evaluations, latest)
      /\ p \in Passes /\ RowTypes /\ LatestIsAllowed
  BY OwnFollows
<1>2. /\ Continues /\ UNCHANGED <<evaluations, latest>>
      /\ step # "done" => p.at \in {"guard", "protect"}
  BY DEF Goes
<1> HIDE DEF p
<1>3. Becomes(job, record)
  BY <1>1, MovedPassOf DEF Goes, p
<1>4. record \in Passes
  <2>1. step \in Steps
    BY DEF Steps
  <2> QED BY <1>1, <2>1, PassWithMoved
<1>5. RowTypes' /\ LatestIsAllowed'
  BY <1>1, <1>2 DEF RowTypes, LatestIsAllowed
<1>6. /\ record.at = step /\ record.row = p.row /\ record.stale = p.stale
      /\ record.acked = p.acked /\ record.told = p.told
      /\ record.failed <=> (p.failed \/ lost)
  BY DEF PassWith
<1> HIDE DEF record
<1>7. ASSUME alone = job PROVE Follows(record, evaluations, latest)
  BY <1>1, <1>2, <1>6, <1>7 DEF Follows, FreshPass, InHand, AtItsEnd
<1>8. alone' = job => Follows(record, evaluations', latest')
  BY <1>2, <1>7 DEF Continues
<1> QED BY <1>2, <1>3, <1>4, <1>5, <1>8, PassKeeps

LEMMA RetriesKeeps ==
    ASSUME RecordInv, NEW job \in Jobs, NEW lost \in BOOLEAN, Retries(job, lost)
    PROVE  RecordInv'
<1> DEFINE p == pass[job]
           a == [p EXCEPT !.tries = p.tries + 1]
           record == [a EXCEPT !.failed = p.failed \/ lost]
<1>1. /\ alone = job => Follows(p, evaluations, latest)
      /\ p \in Passes /\ RowTypes /\ LatestIsAllowed
      /\ p.at = "order"
  BY OwnFollows DEF Retries, JobAt
<1>2. /\ Continues /\ UNCHANGED <<evaluations, latest>> /\ OnItsWay(job)
  BY <1>1 DEF Retries, OnItsWay, JobAt
<1> HIDE DEF p
<1>3. Becomes(job, record)
  <2>1. Becomes(job, [p EXCEPT !.tries = @ + 1, !.failed = @ \/ lost])
    BY DEF Retries, p
  <2> QED BY <1>1, <2>1 DEF Passes
<1>4. /\ a \in Passes /\ a.at = p.at /\ a.row = p.row /\ a.stale = p.stale
      /\ a.acked = p.acked /\ a.told = p.told /\ a.failed = p.failed
  BY <1>1 DEF Passes
<1> HIDE DEF a
<1>5. /\ record \in Passes /\ record.at = a.at /\ record.row = a.row
      /\ record.stale = a.stale /\ record.acked = a.acked /\ record.told = a.told
  BY <1>4 DEF Passes
<1>6. RowTypes' /\ LatestIsAllowed'
  BY <1>1, <1>2 DEF RowTypes, LatestIsAllowed
<1> HIDE DEF record
<1>7. ASSUME alone = job PROVE Follows(record, evaluations, latest)
  BY <1>1, <1>4, <1>5, <1>7 DEF Follows, FreshPass, InHand, AtItsEnd
<1>8. alone' = job => Follows(record, evaluations', latest')
  BY <1>2, <1>7 DEF Continues
<1> QED BY <1>2, <1>3, <1>5, <1>6, <1>8, PassKeeps

LEMMA AcknowledgedKeeps ==
    ASSUME RecordInv, NEW job \in Jobs, Acknowledged(job)
    PROVE  RecordInv'
<1> DEFINE p == pass[job]
           a == [p EXCEPT !.at = "mark"]
           record == [a EXCEPT !.acked = TRUE]
<1>1. /\ alone = job => Follows(p, evaluations, latest)
      /\ p \in Passes /\ RowTypes /\ LatestIsAllowed
      /\ p.at = "order"
  BY OwnFollows DEF Acknowledged, JobAt
<1>2. /\ Continues /\ UNCHANGED <<evaluations, latest>> /\ OnItsWay(job)
  BY <1>1 DEF Acknowledged, OnItsWay, JobAt
<1> HIDE DEF p
<1>3. Becomes(job, record)
  <2>1. Becomes(job, [p EXCEPT !.at = "mark", !.acked = TRUE])
    BY DEF Acknowledged, p
  <2> QED BY <1>1, <2>1 DEF Passes
<1>4. /\ a \in Passes /\ a.at = "mark" /\ a.row = p.row /\ a.stale = p.stale
  BY <1>1 DEF Passes, Steps
<1> HIDE DEF a
<1>5. /\ record \in Passes /\ record.at = a.at /\ record.row = a.row
      /\ record.stale = a.stale
  BY <1>4 DEF Passes
<1>6. record.acked = TRUE
  BY <1>4 DEF Passes
<1>7. RowTypes' /\ LatestIsAllowed'
  BY <1>1, <1>2 DEF RowTypes, LatestIsAllowed
<1> HIDE DEF record
<1>8. ASSUME alone = job PROVE Follows(record, evaluations, latest)
  BY <1>1, <1>4, <1>5, <1>6, <1>8 DEF Follows, FreshPass, InHand, AtItsEnd
<1>9. alone' = job => Follows(record, evaluations', latest')
  BY <1>2, <1>8 DEF Continues
<1> QED BY <1>2, <1>3, <1>5, <1>7, <1>9, PassKeeps

LEMMA MarksSubmittedKeeps ==
    ASSUME RecordInv, NEW job \in Jobs, NEW lost \in Losses, MarksSubmitted(job, lost)
    PROVE  RecordInv'
<1> DEFINE p == pass[job]
           record == PassWith("done", p.row, p.stale, p.acked, p.tries, "ORDER_SUBMITTED",
                              "ORDER_SUBMIT_SUCCEEDED", p.failed \/ lost # {})
<1>1. /\ alone = job => Follows(p, evaluations, latest)
      /\ p \in Passes /\ RowTypes /\ LatestIsAllowed /\ p.at = "mark"
  BY OwnFollows DEF MarksSubmitted, JobAt
<1>2. /\ Continues /\ UNCHANGED latest /\ OnItsWay(job)
      /\ evaluations' = IF "mark" \in lost THEN evaluations ELSE MarkedSubmitted
  BY <1>1 DEF MarksSubmitted, OnItsWay, JobAt
<1> HIDE DEF p
<1>3. Becomes(job, record)
  BY <1>1, RecordedPassOf DEF MarksSubmitted, p
<1>4. record \in Passes
  <2>1. (p.failed \/ lost # {}) \in BOOLEAN
    OBVIOUS
  <2>2. /\ p.row \in Nat /\ p.stale \in BOOLEAN /\ p.acked \in BOOLEAN /\ p.tries \in Nat
    BY <1>1 DEF Passes
  <2>3. /\ "done" \in Steps /\ "ORDER_SUBMITTED" \in Reasons
        /\ "ORDER_SUBMIT_SUCCEEDED" \in Events
    BY DEF Steps, Reasons, Events
  <2> QED BY <2>1, <2>2, <2>3, PassWithType
<1>5. /\ record.at = "done" /\ record.row = p.row /\ record.stale = p.stale
      /\ record.acked = p.acked /\ record.reason = "ORDER_SUBMITTED"
      /\ record.told = "ORDER_SUBMIT_SUCCEEDED"
      /\ ~record.failed => lost = {}
  BY DEF PassWith
<1> HIDE DEF record
<1>6. RowTypes' /\ LatestIsAllowed'
  <2>1. CASE "mark" \in lost
    BY <1>1, <1>2, <2>1 DEF RowTypes, LatestIsAllowed
  <2>2. CASE "mark" \notin lost
    <3>1. /\ evaluations' \in Seq(EvaluationRows) /\ Len(evaluations') = Len(evaluations)
          /\ \A i \in DOMAIN evaluations' : evaluations'[i].allowed = evaluations[i].allowed
      BY <1>1, <1>2, <2>2, MarksSubmittedMarks DEF Marked
    <3> QED BY <1>1, <1>2, <3>1 DEF RowTypes, LatestIsAllowed
  <2> QED BY <2>1, <2>2
<1>7. ASSUME alone = job PROVE Follows(record, evaluations', latest')
  <2>1. FreshPass(record, evaluations', latest') /\ InHand(record, evaluations')
    BY <1>5 DEF FreshPass, InHand
  <2>2. ASSUME p.row # 0, ~p.stale, lost = {}
        PROVE  /\ evaluations'[p.row].submitted = p.acked
               /\ evaluations'[p.row].decision = "ORDER_SUBMITTED"
               /\ p.acked = TRUE
    <3>1. Pending(evaluations, p.row) /\ p.acked = TRUE
      BY <1>1, <1>7, <2>2 DEF Follows, InHand
    <3>2. SubmittedRow = p.row /\ p.row \in DOMAIN evaluations
      BY <1>1, <3>1, PendingIsTaken DEF Pending
    <3>3. evaluations' = MarkedSubmitted
      BY <1>2, <2>2
    <3>4. /\ Marked(MarkedSubmitted, SubmittedRow, "ORDER_SUBMITTED")
          /\ MarkedSubmitted[SubmittedRow].submitted = TRUE
      BY <1>1, <3>2, MarksSubmittedMarks
    <3>5. DOMAIN MarkedSubmitted = DOMAIN evaluations
      BY <1>1, <3>4 DEF Marked, RowTypes
    <3> QED BY <3>1, <3>2, <3>3, <3>4, <3>5 DEF Marked
  <2>3. AtItsEnd(record, evaluations')
    BY <1>5, <2>2 DEF AtItsEnd
  <2> QED BY <2>1, <2>3 DEF Follows
<1>8. alone' = job => Follows(record, evaluations', latest')
  BY <1>2, <1>7 DEF Continues
<1> QED BY <1>2, <1>3, <1>4, <1>6, <1>8, PassKeeps

LEMMA RecordInitInv == RecordInit => RecordInv
<1> SUFFICES ASSUME RecordInit PROVE RecordInv
  OBVIOUS
<1>1. \A job \in Jobs : pass[job] = AtRest
  BY DEF RecordInit
<1>2. RecordTypes
  <2>1. evaluations \in Seq(EvaluationRows) /\ Len(evaluations) = 0
    BY DEF RecordInit
  <2>2. latest \in [ran : BOOLEAN, intent : BOOLEAN, row : Nat] /\ latest.row = 0
    BY DEF RecordInit
  <2>3. pass \in [Jobs -> Passes] /\ alone \in Jobs \cup {"none"}
    BY AtRestType DEF RecordInit
  <2> QED BY <2>1, <2>2, <2>3 DEF RecordTypes, RowTypes
<1>3. AloneIsAlone
  BY <1>1, AtRestType DEF RecordInit, AloneIsAlone, JobAt, OnItsWay
<1>4. LatestIsAllowed
  BY DEF RecordInit, LatestIsAllowed
<1>5. \A job \in Jobs : alone # job
  BY DEF RecordInit, Jobs
<1> QED BY <1>2, <1>3, <1>4, <1>5 DEF RecordInv

\* Every step of every job keeps the invariant, and so does a step of none.
LEMMA RecordStepKeeps == RecordInv /\ [RecordNext]_recordVars => RecordInv'
<1> SUFFICES ASSUME RecordInv, [RecordNext]_recordVars PROVE RecordInv'
  OBVIOUS
<1>0. CASE UNCHANGED recordVars
  BY <1>0 DEF recordVars, RecordInv, RecordTypes, RowTypes, AloneIsAlone, LatestIsAllowed,
              Follows, FreshPass, InHand, AtItsEnd, Pending, JobAt, OnItsWay
<1>1. ASSUME NEW job \in Jobs, NEW outcome \in EvaluationOutcomes, NEW saved \in BOOLEAN,
             Runs(job, outcome, saved)
      PROVE  RecordInv'
  BY <1>1, RunsKeeps
<1>2. ASSUME NEW outcome \in EvaluationOutcomes, NEW saved \in BOOLEAN,
             EvaluatesAgain(outcome, saved)
      PROVE  RecordInv'
  BY <1>2, EvaluatesAgainKeeps
<1>3. ASSUME NEW job \in Jobs, PassesLimits(job)
      PROVE  RecordInv'
  BY <1>3, PassesLimitsKeeps
<1>4. ASSUME NEW job \in Jobs, PassesGuard(job)
      PROVE  RecordInv'
  <2>1. Goes(job, "protect", FALSE) /\ pass[job].at = "guard" /\ OnItsWay(job)
    BY <1>4 DEF PassesGuard, JobAt, OnItsWay
  <2> QED BY <2>1, GoesKeeps
<1>5. ASSUME NEW job \in Jobs, JobRaises(job)
      PROVE  RecordInv'
  <2>1. Goes(job, "done", TRUE) /\ OnItsWay(job)
    BY <1>5 DEF JobRaises, JobAt, OnItsWay
  <2> QED BY <2>1, GoesKeeps
<1>6. ASSUME NEW job \in Jobs, NEW lost \in BOOLEAN, PassesProtection(job, lost)
      PROVE  RecordInv'
  <2>1. Goes(job, "order", lost) /\ pass[job].at = "protect" /\ OnItsWay(job)
    BY <1>6 DEF PassesProtection, JobAt, OnItsWay
  <2> QED BY <2>1, GoesKeeps
<1>7. ASSUME NEW job \in Jobs, NEW lost \in Losses, Guarded(job, lost)
      PROVE  RecordInv'
  <2> DEFINE step == IF job = "recheck" THEN "risk" ELSE "done"
  <2>1. /\ Records(job, step, "STOP_LOSS_GUARD", "BUY_NOT_SUBMITTED", lost)
        /\ pass[job].at = "guard" /\ step \in {"risk", "done"}
    BY <1>7 DEF Guarded, JobAt
  <2> HIDE DEF step
  <2>2. "STOP_LOSS_GUARD" \in Reasons
        /\ "BUY_NOT_SUBMITTED" \in Events \ {"none", "ORDER_SUBMIT_SUCCEEDED"}
    BY DEF Reasons, Events
  <2> QED BY <2>1, <2>2, RecordsKeeps
<1>8. ASSUME NEW lost \in Losses, RecordsRiskGuard(lost)
      PROVE  RecordInv'
  <2>1. /\ Records("recheck", "done", "NO_ORDER_RISK_GUARD", "BUY_NOT_SUBMITTED", lost)
        /\ pass["recheck"].at = "risk" /\ "recheck" \in Jobs
    BY <1>8 DEF RecordsRiskGuard, JobAt, Jobs
  <2>2. "NO_ORDER_RISK_GUARD" \in Reasons
        /\ "BUY_NOT_SUBMITTED" \in Events \ {"none", "ORDER_SUBMIT_SUCCEEDED"}
    BY DEF Reasons, Events
  <2> QED BY <2>1, <2>2, RecordsKeeps
<1>9. ASSUME NEW job \in Jobs, NEW lost \in Losses, Protected(job, lost)
      PROVE  RecordInv'
  <2>1. /\ Records(job, "done", "ORDER_PROTECTION", "ORDER_PROTECTION_BLOCKED", lost)
        /\ pass[job].at = "protect"
    BY <1>9 DEF Protected, JobAt
  <2>2. "ORDER_PROTECTION" \in Reasons
        /\ "ORDER_PROTECTION_BLOCKED" \in Events \ {"none", "ORDER_SUBMIT_SUCCEEDED"}
    BY DEF Reasons, Events
  <2> QED BY <2>1, <2>2, RecordsKeeps
<1>10. ASSUME NEW job \in Jobs, NEW lost \in Losses, OrderFailed(job, lost)
       PROVE  RecordInv'
  <2>1. /\ Records(job, "done", "ORDER_FAILED", "ORDER_SUBMIT_FAILED", lost)
        /\ pass[job].at = "order"
    BY <1>10 DEF OrderFailed, JobAt
  <2>2. "ORDER_FAILED" \in Reasons
        /\ "ORDER_SUBMIT_FAILED" \in Events \ {"none", "ORDER_SUBMIT_SUCCEEDED"}
    BY DEF Reasons, Events
  <2> QED BY <2>1, <2>2, RecordsKeeps
<1> QED
  BY <1>0, <1>1, <1>2, <1>3, <1>4, <1>5, <1>6, <1>7, <1>8, <1>9, <1>10, TakesLatestKeeps,
     LimitedKeeps, RetriesKeeps, AcknowledgedKeeps, MarksSubmittedKeeps DEF RecordNext

\* The invariant of the record: a pass that met no other has, until it marks, the
\* latest row that was allowed, and none of its marks falls on the row of another.
THEOREM RecordInductive == RecordSpec => []RecordInv
<1> QED BY RecordInitInv, RecordStepKeeps, PTL DEF RecordSpec

\* A pass of buy_intents that met no other pass, whose intent was its own and for
\* which the database worked, leaves the row of its intent submitted if and only
\* if the order was acknowledged, and otherwise with the last reason that held it
\* back; the final event of the day says the same (LastPassRecorded).
THEOREM LastPassRecordedHolds == RecordSpec => []LastPassRecorded
<1>1. RecordInv => LastPassRecorded
  <2> SUFFICES ASSUME RecordInv, alone # "none", JobAt(alone, "done"), pass[alone].row # 0,
                      ~pass[alone].failed, ~pass[alone].stale
               PROVE  LET row == evaluations[pass[alone].row] IN
                      /\ row.submitted <=> pass[alone].acked
                      /\ row.decision = pass[alone].reason
                      /\ row.submitted <=> pass[alone].told = "ORDER_SUBMIT_SUCCEEDED"
    BY DEF LastPassRecorded
  <2>1. alone \in Jobs
    BY DEF RecordInv, RecordTypes
  <2>2. AtItsEnd(pass[alone], evaluations)
    BY <2>1 DEF RecordInv, Follows
  <2>3. /\ evaluations[pass[alone].row].submitted = pass[alone].acked
        /\ evaluations[pass[alone].row].decision = pass[alone].reason
        /\ (pass[alone].told = "ORDER_SUBMIT_SUCCEEDED") = pass[alone].acked
    BY <2>2 DEF AtItsEnd, JobAt
  <2> QED BY <2>3
<1> QED BY <1>1, RecordInductive, PTL

-----------------------------------------------------------------------------
(* The selection by rankings (RankedSelection).                            *)

\* Numbers have a least one, and finitely many of them a largest.
LEMMA LeastOf ==
    ASSUME NEW S, S \subseteq Nat, S # {}
    PROVE  \E x \in S : \A y \in S : x <= y
<1>1. PICK x \in S : \A y \in S : <<y, x>> \notin OpToRel(<, Nat)
  BY NatLessThanWellFounded, WFMin
<1>2. ASSUME NEW y \in S PROVE x <= y
  <2>1. ~(y < x)
    BY <1>1 DEF OpToRel
  <2> QED BY <2>1
<1> QED BY <1>2

LEMMA MaxOf ==
    ASSUME NEW S, S \subseteq Int, S # {}, IsFiniteSet(S)
    PROVE  Max(S) \in S /\ \A y \in S : Max(S) >= y
<1> DEFINE Over(x) == {y \in S : y > x}
           counts == {n \in Nat : \E x \in S : n = Cardinality(Over(x))}
<1>1. \A x \in S : IsFiniteSet(Over(x)) /\ Cardinality(Over(x)) \in Nat
  BY FS_Subset, FS_CardinalityType
<1>2. counts \subseteq Nat /\ counts # {}
  BY <1>1
<1>3. PICK least \in counts : \A n \in counts : least <= n
  BY <1>2, LeastOf
<1>4. PICK x \in S : least = Cardinality(Over(x))
  BY <1>3
<1>5. ASSUME NEW y \in S PROVE x >= y
  <2>1. SUFFICES ASSUME y > x PROVE FALSE
    OBVIOUS
  <2>2. Over(y) \subseteq Over(x) /\ y \in Over(x) /\ y \notin Over(y)
    <3>1. ASSUME NEW z \in Over(y) PROVE z \in S /\ z > x
      <4>1. z \in S /\ z > y /\ z \in Int /\ y \in Int /\ x \in Int
        OBVIOUS
      <4> QED BY <4>1, <2>1
    <3>2. y \in Int /\ ~(y > y)
      OBVIOUS
    <3>3. y \in Over(x) /\ y \notin Over(y)
      BY <2>1, <3>2
    <3> QED BY <3>1, <3>3
  <2>3. Cardinality(Over(y)) <= Cardinality(Over(x)) /\ Cardinality(Over(y)) # Cardinality(Over(x))
    BY <1>1, <2>2, FS_Subset
  <2>4. Cardinality(Over(y)) \in counts
    BY <1>1
  <2> QED BY <1>1, <1>3, <1>4, <2>3, <2>4
<1>6. \E z \in S : \A y \in S : z >= y
  BY <1>5
<1> QED BY <1>6 DEF Max

-----------------------------------------------------------------------------
Snapshots == [price : Int, change : Int, gap : Int, volume : Int]
Quotes == [price : Int, change : Int, gap : Int, volume : Nat]

SelectTypes ==
    /\ \A list \in Lists :
          DOMAIN ranks[list] \subseteq Tickers /\ ranks[list] \in [DOMAIN ranks[list] -> Nat]
    /\ DOMAIN readings \subseteq RankedTickers
    /\ readings \in [DOMAIN readings -> Snapshots]
    /\ market \in [DOMAIN readings -> Quotes]
    /\ readMinute \in 0 .. 390

\* A snapshot is of the quote it was made of.
ReadingsAreQuotes ==
    \A t \in DOMAIN readings :
        /\ readings[t].price = market[t].price /\ readings[t].gap = market[t].gap
        /\ readings[t].change = ReadChange(market[t].change)

\* Who was taken is among the best of those that passed.
Screened == {t \in DOMAIN readings : PassesOpening(readings[t])}
Before(t) == {other \in Screened : ScoredBefore(other, t)}
ChosenAreBest ==
    chosen # {} => chosen = {t \in Screened : Cardinality(Before(t)) < SelectionLimit}

SelectInv == SelectTypes /\ ReadingsAreQuotes /\ ChosenAreBest

\* Every rank is less than the one of a stock that a list has not.
LEMMA RankTypes ==
    ASSUME SelectTypes, NEW list \in Lists
    PROVE  /\ FallbackRank(list) \in Nat
           /\ \A t : RankIn(list, t) \in Nat /\ RankIn(list, t) <= FallbackRank(list)
           /\ \A t \in DOMAIN ranks[list] : RankIn(list, t) < FallbackRank(list)
<1> DEFINE D == DOMAIN ranks[list]
           values == {ranks[list][t] : t \in D}
           S == {0} \cup values
<1>1. D \subseteq Tickers /\ ranks[list] \in [D -> Nat]
  BY DEF SelectTypes
<1>2. values \subseteq Nat /\ IsFiniteSet(values)
  <2>1. IsFiniteSet(D)
    BY <1>1, SelectionAssumption, FS_Subset
  <2>2. ranks[list] \in Surjection(D, values)
    BY <1>1 DEF Surjection
  <2> QED BY <1>1, <2>1, <2>2, FS_Surjection
<1>3. IsFiniteSet(S)
  BY <1>2, FS_Singleton, FS_Union
<1>4. S \subseteq Nat /\ S \subseteq Int /\ S # {}
  BY <1>2
<1>6. PICK top : top = Max(S) /\ FallbackRank(list) = top + 50
  BY DEF FallbackRank
<1>7. \A t \in D : ranks[list][t] \in S
  OBVIOUS
<1> HIDE DEF S
<1>5. top \in S /\ \A y \in S : top >= y
  BY <1>3, <1>4, <1>6, MaxOf
<1>8. \A t \in D : ranks[list][t] \in Nat /\ ranks[list][t] <= top
  BY <1>4, <1>5, <1>7
<1>9. top \in Nat
  BY <1>4, <1>5
<1> QED BY <1>6, <1>8, <1>9 DEF RankIn

LEMMA ListsAre ==
    /\ "gainers" \in Lists /\ "turnover" \in Lists /\ "trade_value" \in Lists
    /\ \A list \in Lists : list \in {"gainers", "turnover", "trade_value"}
    /\ IsFiniteSet(Lists) /\ Cardinality(Lists) = 3
<1>1. IsFiniteSet({"gainers"}) /\ Cardinality({"gainers"}) = 1
  BY FS_Singleton
<1>2. /\ IsFiniteSet({"gainers"} \cup {"turnover"})
      /\ Cardinality({"gainers"} \cup {"turnover"}) = 2
  BY <1>1, FS_AddElement
<1>3. /\ IsFiniteSet(({"gainers"} \cup {"turnover"}) \cup {"trade_value"})
      /\ Cardinality(({"gainers"} \cup {"turnover"}) \cup {"trade_value"}) = 3
  BY <1>2, FS_AddElement
<1>4. Lists = ({"gainers"} \cup {"turnover"}) \cup {"trade_value"}
  BY DEF Lists
<1>5. IsFiniteSet(Lists) /\ Cardinality(Lists) = 3
  BY <1>3, <1>4
<1> QED BY <1>5 DEF Lists

\* What is no lower in any list has no higher rank, and no lower bonus.
LEMMA NoLowerRanks ==
    ASSUME SelectTypes, NEW a, NEW b, NoLower(a, b)
    PROVE  /\ WeightedRank(a) \in Nat /\ WeightedRank(b) \in Nat
           /\ WeightedRank(a) <= WeightedRank(b)
           /\ WeightedRank(a) = WeightedRank(b) => NoLower(b, a)
           /\ PresenceBonus(a) \in Int /\ PresenceBonus(b) \in Int
           /\ PresenceBonus(a) >= PresenceBonus(b)
<1>1. \A list \in Lists :
          /\ RankIn(list, a) \in Nat /\ RankIn(list, b) \in Nat
          /\ RankIn(list, a) <= RankIn(list, b)
          /\ RankIn(list, a) = RankIn(list, b) /\ a \in DOMAIN ranks[list] =>
                 b \in DOMAIN ranks[list] /\ ranks[list][b] <= ranks[list][a]
  <2> TAKE list \in Lists
  <2>1. /\ FallbackRank(list) \in Nat
        /\ RankIn(list, a) \in Nat /\ RankIn(list, a) <= FallbackRank(list)
        /\ RankIn(list, b) \in Nat /\ RankIn(list, b) <= FallbackRank(list)
        /\ a \in DOMAIN ranks[list] => RankIn(list, a) < FallbackRank(list)
    BY RankTypes
  <2>2. CASE b \in DOMAIN ranks[list]
    <3>1. a \in DOMAIN ranks[list] /\ ranks[list][a] <= ranks[list][b]
      BY <2>2 DEF NoLower
    <3> QED BY <2>1, <2>2, <3>1 DEF RankIn
  <2>3. CASE b \notin DOMAIN ranks[list]
    <3>1. RankIn(list, b) = FallbackRank(list)
      BY <2>3 DEF RankIn
    <3> QED BY <2>1, <3>1
  <2> QED BY <2>2, <2>3
<1>2. /\ WeightedRank(a) \in Nat /\ WeightedRank(b) \in Nat
      /\ WeightedRank(a) <= WeightedRank(b)
      /\ WeightedRank(a) = WeightedRank(b) =>
             \A list \in Lists : RankIn(list, a) = RankIn(list, b)
  <2>1. PICK ga, gb, ta, tb, va, vb :
          /\ ga = RankIn("gainers", a) /\ ta = RankIn("turnover", a)
          /\ va = RankIn("trade_value", a)
          /\ gb = RankIn("gainers", b) /\ tb = RankIn("turnover", b)
          /\ vb = RankIn("trade_value", b)
    OBVIOUS
  <2>2. /\ ga \in Nat /\ ta \in Nat /\ va \in Nat /\ gb \in Nat /\ tb \in Nat /\ vb \in Nat
        /\ ga <= gb /\ ta <= tb /\ va <= vb
    BY <1>1, <2>1, ListsAre
  <2>3. PICK wa, wb :
          /\ wa = WeightedRank(a) /\ wb = WeightedRank(b)
          /\ wa = 4 * ga + 3 * ta + 3 * va /\ wb = 4 * gb + 3 * tb + 3 * vb
    BY <2>1 DEF WeightedRank
  <2>4. /\ wa \in Nat /\ wb \in Nat /\ wa <= wb
        /\ wa = wb => ga = gb /\ ta = tb /\ va = vb
    BY <2>2, <2>3
  <2>5. wa = wb => \A list \in Lists : RankIn(list, a) = RankIn(list, b)
    BY <2>1, <2>4, ListsAre
  <2> QED BY <2>3, <2>4, <2>5
<1>3. WeightedRank(a) = WeightedRank(b) => NoLower(b, a)
  BY <1>1, <1>2 DEF NoLower
<1>4. /\ PresenceBonus(a) \in Int /\ PresenceBonus(b) \in Int
      /\ PresenceBonus(a) >= PresenceBonus(b)
  <2> DEFINE la == {list \in Lists : a \in DOMAIN ranks[list]}
             lb == {list \in Lists : b \in DOMAIN ranks[list]}
             na == Cardinality(la)
             nb == Cardinality(lb)
  <2>1. lb \in SUBSET la /\ la \in SUBSET Lists
    BY DEF NoLower
  <2>2. IsFiniteSet(la) /\ na <= 3
    BY <2>1, ListsAre, FS_Subset
  <2>3. IsFiniteSet(lb) /\ nb <= na
    BY <2>1, <2>2, FS_Subset
  <2>4. na \in Nat /\ nb \in Nat
    BY <2>2, <2>3, FS_CardinalityType
  <2>5. /\ PresenceBonus(a) = CASE na = 3 -> 250 [] na = 2 -> 120 [] OTHER -> -50
        /\ PresenceBonus(b) = CASE nb = 3 -> 250 [] nb = 2 -> 120 [] OTHER -> -50
    BY DEF PresenceBonus
  <2> HIDE DEF na, nb
  <2> QED BY <2>2, <2>3, <2>4, <2>5
<1> QED BY <1>2, <1>3, <1>4

LEMMA MaxOfZeroAnd ==
    ASSUME NEW n \in Int
    PROVE  Max({0, n}) = IF n >= 0 THEN n ELSE 0
<1> DEFINE S == {0} \cup {n}
<1>1. S \subseteq Int /\ S # {} /\ IsFiniteSet(S) /\ 0 \in S /\ n \in S
  <2>1. IsFiniteSet({0}) /\ IsFiniteSet({n})
    BY FS_Singleton
  <2>2. IsFiniteSet({0} \cup {n})
    BY <2>1, FS_Union
  <2> QED BY <2>2
<1>2. \A y \in S : y = 0 \/ y = n
  OBVIOUS
<1>3. PICK top : top = Max(S)
  OBVIOUS
<1>4. {0, n} = S
  OBVIOUS
<1> HIDE DEF S
<1>5. top \in S /\ \A y \in S : top >= y
  BY <1>1, <1>3, MaxOf
<1>6. top = IF n >= 0 THEN n ELSE 0
  BY <1>1, <1>2, <1>5
<1> QED BY <1>3, <1>4, <1>6

\* A score is a whole number, and of two stocks the one that is better by ranks
\* and by snapshot has no lower one.
LEMMA ScoreIs ==
    ASSUME SelectTypes, NEW t \in DOMAIN readings, WeightedRank(t) \in Nat,
           PresenceBonus(t) \in Int
    PROVE  /\ CompositeScore(t) \in Int
           /\ CompositeScore(t) =
                  (IF WeightedRank(t) <= 1000 THEN 1000 - WeightedRank(t) ELSE 0)
                      + PresenceBonus(t) + VolumeBonus(readings[t].volume)
                      + ChangeAdjustment(readings[t].change)
                      + GapAdjustment(readings[t].gap)
<1>1. readings[t].volume \in Int /\ readings[t].change \in Int /\ readings[t].gap \in Int
  BY DEF SelectTypes, Snapshots
<1>2. /\ VolumeBonus(readings[t].volume) \in Int
      /\ ChangeAdjustment(readings[t].change) \in Int
      /\ GapAdjustment(readings[t].gap) \in Int
  <2>1. VolumeBonus(readings[t].volume) \in Int
    BY <1>1 DEF VolumeBonus
  <2>2. ChangeAdjustment(readings[t].change) \in Int
    BY <1>1 DEF ChangeAdjustment
  <2>3. GapAdjustment(readings[t].gap) \in Int
    BY <1>1 DEF GapAdjustment
  <2> QED BY <2>1, <2>2, <2>3
<1>3. PICK w : w = WeightedRank(t) /\ w \in Nat
  OBVIOUS
<1>4. Max({0, 1000 - w}) = IF w <= 1000 THEN 1000 - w ELSE 0
  <2>1. 1000 - w \in Int
    BY <1>3
  <2>2. Max({0, 1000 - w}) = IF 1000 - w >= 0 THEN 1000 - w ELSE 0
    BY <2>1, MaxOfZeroAnd
  <2> QED BY <1>3, <2>2
<1>5. CompositeScore(t) = (IF w <= 1000 THEN 1000 - w ELSE 0)
                      + PresenceBonus(t) + VolumeBonus(readings[t].volume)
                      + ChangeAdjustment(readings[t].change)
                      + GapAdjustment(readings[t].gap)
  BY <1>3, <1>4 DEF CompositeScore
<1> QED BY <1>2, <1>3, <1>5

LEMMA EveryScoreIs ==
    ASSUME SelectTypes, NEW t \in DOMAIN readings
    PROVE  WeightedRank(t) \in Nat /\ PresenceBonus(t) \in Int /\ CompositeScore(t) \in Int
<1>1. NoLower(t, t)
  <2>1. \A list \in Lists : t \in DOMAIN ranks[list] => ranks[list][t] \in Nat
    BY DEF SelectTypes
  <2> QED BY <2>1 DEF NoLower
<1>2. WeightedRank(t) \in Nat /\ PresenceBonus(t) \in Int
  BY <1>1, NoLowerRanks
<1> QED BY <1>2, ScoreIs

LEMMA BetterScoresNoLess ==
    ASSUME SelectTypes, ReadingsAreQuotes,
           NEW a \in DOMAIN readings, NEW b \in DOMAIN readings, Better(a, b)
    PROVE  /\ CompositeScore(a) >= CompositeScore(b)
           /\ CompositeScore(a) = CompositeScore(b) /\ WeightedRank(a) < 1000
                  => NoLower(b, a)
<1>1. /\ WeightedRank(a) \in Nat /\ WeightedRank(b) \in Nat
      /\ WeightedRank(a) <= WeightedRank(b)
      /\ WeightedRank(a) = WeightedRank(b) => NoLower(b, a)
      /\ PresenceBonus(a) \in Int /\ PresenceBonus(b) \in Int
      /\ PresenceBonus(a) >= PresenceBonus(b)
  BY NoLowerRanks DEF Better
<1>2. PICK ra, rb, ma, mb :
        /\ ra = readings[a] /\ rb = readings[b] /\ ma = market[a] /\ mb = market[b]
  OBVIOUS
<1>3. ra \in Snapshots /\ rb \in Snapshots /\ ma \in Quotes /\ mb \in Quotes
  BY <1>2 DEF SelectTypes
<1>4. /\ ra.change = ReadChange(ma.change) /\ rb.change = ReadChange(mb.change)
      /\ ra.gap = ma.gap /\ rb.gap = mb.gap
      /\ ra.volume >= rb.volume /\ ma.change > 10 /\ mb.change >= ma.change
      /\ ma.gap <= mb.gap
  BY <1>2 DEF ReadingsAreQuotes, Better
<1>5. ra.change = ma.change /\ rb.change = mb.change
  BY <1>3, <1>4 DEF ReadChange, Quotes
<1>6. PICK va, vb, ca, cb, oa, ob :
        /\ va = ra.volume /\ vb = rb.volume /\ ca = ra.change /\ cb = rb.change
        /\ oa = ra.gap /\ ob = rb.gap
  OBVIOUS
<1>7. /\ va \in Int /\ vb \in Int /\ ca \in Int /\ cb \in Int /\ oa \in Int /\ ob \in Int
      /\ va >= vb /\ ca <= cb /\ oa <= ob
  BY <1>3, <1>4, <1>5, <1>6 DEF Snapshots, Quotes
<1>8. /\ VolumeBonus(va) \in Int /\ VolumeBonus(vb) \in Int
      /\ VolumeBonus(va) >= VolumeBonus(vb)
  BY <1>7 DEF VolumeBonus
<1>9. /\ ChangeAdjustment(ca) \in Int /\ ChangeAdjustment(cb) \in Int
      /\ ChangeAdjustment(ca) >= ChangeAdjustment(cb)
  BY <1>7 DEF ChangeAdjustment
<1>10. /\ GapAdjustment(oa) \in Int /\ GapAdjustment(ob) \in Int
       /\ GapAdjustment(oa) >= GapAdjustment(ob)
  BY <1>7 DEF GapAdjustment
<1>11. PICK wa, wb, pa, pb, ba, bb, xa, xb, ga, gb :
        /\ wa = WeightedRank(a) /\ wb = WeightedRank(b)
        /\ pa = PresenceBonus(a) /\ pb = PresenceBonus(b)
        /\ ba = VolumeBonus(va) /\ bb = VolumeBonus(vb)
        /\ xa = ChangeAdjustment(ca) /\ xb = ChangeAdjustment(cb)
        /\ ga = GapAdjustment(oa) /\ gb = GapAdjustment(ob)
  OBVIOUS
<1>12. /\ CompositeScore(a) = (IF wa <= 1000 THEN 1000 - wa ELSE 0) + pa + ba + xa + ga
       /\ CompositeScore(b) = (IF wb <= 1000 THEN 1000 - wb ELSE 0) + pb + bb + xb + gb
  BY <1>1, <1>2, <1>6, <1>11, ScoreIs
<1>13. /\ wa \in Nat /\ wb \in Nat /\ pa \in Int /\ pb \in Int /\ ba \in Int /\ bb \in Int
       /\ xa \in Int /\ xb \in Int /\ ga \in Int /\ gb \in Int
       /\ wa <= wb /\ pa >= pb /\ ba >= bb /\ xa >= xb /\ ga >= gb
  BY <1>1, <1>8, <1>9, <1>10, <1>11
<1>14. PICK sa, sb : sa = CompositeScore(a) /\ sb = CompositeScore(b)
  OBVIOUS
<1>15. sa >= sb /\ (sa = sb /\ wa < 1000 => wa = wb)
  BY <1>12, <1>13, <1>14
<1> QED BY <1>1, <1>11, <1>14, <1>15

-----------------------------------------------------------------------------
\* What is taken is taken in the order of the scores.
LEMMA BestAreTaken ==
    ASSUME SelectInv PROVE BetterRankedFirst
<1> SUFFICES ASSUME NEW a \in DOMAIN readings \ chosen, NEW b \in chosen,
                    Better(a, b), ~(WeightedRank(a) >= 1000)
             PROVE  NoLower(b, a) /\ b < a
  BY DEF BetterRankedFirst
<1>1. /\ SelectTypes /\ ReadingsAreQuotes
      /\ chosen = {t \in Screened : Cardinality(Before(t)) < SelectionLimit}
  BY DEF SelectInv, ChosenAreBest
<1>2. b \in Screened /\ Cardinality(Before(b)) < SelectionLimit /\ b \in DOMAIN readings
  BY <1>1 DEF Screened
<1>3. a \in DOMAIN readings /\ a # b
  OBVIOUS
<1>4. a \in Screened
  <2>1. PICK ra, rb, ma, mb :
          /\ ra = readings[a] /\ rb = readings[b] /\ ma = market[a] /\ mb = market[b]
    OBVIOUS
  <2>2. ra \in Snapshots /\ rb \in Snapshots /\ ma \in Quotes /\ mb \in Quotes
    BY <1>1, <1>2, <2>1 DEF SelectTypes
  <2>3. /\ ra.change = ReadChange(ma.change) /\ ra.gap = ma.gap /\ rb.gap = mb.gap
        /\ ra.price = ma.price /\ rb.price = mb.price /\ ma.price = mb.price
        /\ ra.volume >= rb.volume /\ ma.change > 10 /\ ma.gap <= mb.gap
        /\ ma.change >= SelectionRules.min_change
    BY <1>1, <1>2, <2>1 DEF ReadingsAreQuotes, Better
  <2>4. PassesOpening(rb)
    BY <1>2, <2>1 DEF Screened
  <2>5. /\ SelectionRules["min_volume_ratio"] \in Int /\ SelectionRules["max_gap"] \in Int
        /\ SelectionRules["min_change"] \in Int
    BY SelectionRulesAssumption
  <2>6. ra.volume >= SelectionRules.min_volume_ratio
    BY <2>2, <2>3, <2>4, <2>5 DEF PassesOpening, Snapshots
  <2>7. ra.change >= SelectionRules.min_change
    BY <2>2, <2>3 DEF ReadChange, Quotes
  <2>8. ra.price \in SelectionRules.min_price .. SelectionRules.max_price
    BY <2>3, <2>4 DEF PassesOpening
  <2>9. ra.gap < SelectionRules.max_gap
    BY <2>2, <2>3, <2>4, <2>5 DEF PassesOpening, Quotes
  <2>10. PassesOpening(ra)
    BY <2>6, <2>7, <2>8, <2>9 DEF PassesOpening
  <2> QED BY <1>3, <2>1, <2>10 DEF Screened
<1>5. ~(Cardinality(Before(a)) < SelectionLimit)
  BY <1>1, <1>4
<1>6. IsFiniteSet(Before(a)) /\ IsFiniteSet(Before(b))
  <2>1. Screened \subseteq Tickers
    BY <1>1 DEF Screened, SelectTypes, RankedTickers
  <2>2. IsFiniteSet(Screened)
    BY <2>1, SelectionAssumption, FS_Subset
  <2>3. Before(a) \in SUBSET Screened /\ Before(b) \in SUBSET Screened
    BY DEF Before
  <2> QED BY <2>2, <2>3, FS_Subset
<1>7. \A t \in Screened : t \in Nat /\ CompositeScore(t) \in Int
  <2>1. \A t \in Screened : t \in DOMAIN readings
    BY DEF Screened
  <2>2. \A t \in Screened : t \in Nat
    BY <1>1, <2>1, SelectionAssumption DEF SelectTypes, RankedTickers
  <2> QED BY <1>1, <2>1, <2>2, EveryScoreIs
<1>8. ~ScoredBefore(a, b)
  <2>1. SUFFICES ASSUME ScoredBefore(a, b) PROVE FALSE
    OBVIOUS
  <2>2. ASSUME NEW t \in Before(a) PROVE t \in Before(b)
    <3>1. t \in Screened /\ ScoredBefore(t, a)
      BY <2>2 DEF Before
    <3>2. PICK st, sa, sb : st = CompositeScore(t) /\ sa = CompositeScore(a)
                            /\ sb = CompositeScore(b)
      OBVIOUS
    <3>3. st \in Int /\ sa \in Int /\ sb \in Int /\ t \in Nat /\ a \in Nat /\ b \in Nat
      BY <1>2, <1>4, <1>7, <3>1, <3>2
    <3>4. st > sa \/ (st = sa /\ t < a)
      BY <3>1, <3>2 DEF ScoredBefore
    <3>5. sa > sb \/ (sa = sb /\ a < b)
      BY <2>1, <3>2 DEF ScoredBefore
    <3>6. st > sb \/ (st = sb /\ t < b)
      BY <3>3, <3>4, <3>5
    <3> QED BY <3>1, <3>2, <3>6 DEF Before, ScoredBefore
  <2>3. Before(a) \in SUBSET Before(b)
    BY <2>2
  <2>4. PICK na, nb : na = Cardinality(Before(a)) /\ nb = Cardinality(Before(b))
    OBVIOUS
  <2>5. na <= nb /\ na \in Nat /\ nb \in Nat
    BY <1>6, <2>3, <2>4, FS_Subset, FS_CardinalityType
  <2> QED BY <1>2, <1>5, <2>4, <2>5, SelectionAssumption
<1>9. /\ CompositeScore(a) >= CompositeScore(b)
      /\ CompositeScore(a) = CompositeScore(b) => NoLower(b, a)
  <2>1. WeightedRank(a) \in Nat
    BY <1>1, <1>3, EveryScoreIs
  <2>2. WeightedRank(a) < 1000
    BY <2>1
  <2> QED BY <1>1, <1>2, <1>3, <2>2, BetterScoresNoLess
<1>10. PICK sa, sb : sa = CompositeScore(a) /\ sb = CompositeScore(b)
  OBVIOUS
<1>11. sa \in Int /\ sb \in Int /\ a \in Nat /\ b \in Nat
  BY <1>2, <1>4, <1>7, <1>10
<1>12. ~(sa > sb) /\ ~(sa = sb /\ a < b)
  BY <1>8, <1>10 DEF ScoredBefore
<1>13. sa = sb /\ b < a
  BY <1>3, <1>9, <1>10, <1>11, <1>12
<1> QED BY <1>9, <1>10, <1>13

-----------------------------------------------------------------------------
LEMMA SelectStart == SelectInit => SelectInv
<1> SUFFICES ASSUME SelectInit PROVE SelectInv
  OBVIOUS
<1>1. DOMAIN NoneRead = {} /\ NoneRead \in [{} -> Nat]
  BY DEF NoneRead
<1>2. \A list \in Lists : ranks[list] = NoneRead
  BY DEF SelectInit
<1>3. readings = NoneRead /\ market = NoneRead /\ readMinute = 0 /\ chosen = {}
  BY DEF SelectInit
<1>4. readings \in [DOMAIN readings -> Snapshots] /\ market \in [DOMAIN readings -> Quotes]
  BY <1>3 DEF NoneRead
<1>5. SelectTypes
  <2>1. \A list \in Lists :
          DOMAIN ranks[list] \subseteq Tickers /\ ranks[list] \in [DOMAIN ranks[list] -> Nat]
    BY <1>1, <1>2
  <2>2. DOMAIN readings \subseteq RankedTickers /\ readMinute \in 0 .. 390
    BY <1>1, <1>3
  <2> QED BY <1>4, <2>1, <2>2 DEF SelectTypes
<1>6. ReadingsAreQuotes
  BY <1>1, <1>3 DEF ReadingsAreQuotes
<1> QED BY <1>3, <1>5, <1>6 DEF SelectInv, ChosenAreBest

LEMMA QuoteIsRead ==
    ASSUME SelectInv, NEW ticker \in Tickers, NEW quote \in Quoted[ticker],
           NEW at \in ReadMinutes, ReadsQuote(ticker, quote, at)
    PROVE  SelectInv'
<1> DEFINE read == DOMAIN readings \cup {ticker}
<1>1. /\ chosen = {} /\ chosen' = {} /\ ranks' = ranks /\ readMinute' = at
      /\ ticker \in RankedTickers /\ ticker \notin DOMAIN readings
      /\ readings' = [t \in read |-> IF t = ticker THEN Reading(quote, at) ELSE readings[t]]
      /\ market' = [t \in read |-> IF t = ticker THEN quote ELSE market[t]]
  BY DEF ReadsQuote
<1>2. quote \in Quotes /\ at \in 0 .. 390
  BY QuotedAssumption, SelectionAssumption DEF Quotes
<1>3. /\ Reading(quote, at) \in Snapshots
      /\ Reading(quote, at).price = quote.price /\ Reading(quote, at).gap = quote.gap
      /\ Reading(quote, at).change = ReadChange(quote.change)
  <2>1. ReadChange(quote.change) \in Int
    BY <1>2 DEF ReadChange, Quotes
  <2>2. VolumeRatio(quote.volume, at) \in Int
    <3>1. quote.volume * 390 \in Int
      BY <1>2 DEF Quotes
    <3>2. (IF at > 30 THEN at ELSE 30) \in Int /\ (IF at > 30 THEN at ELSE 30) > 0
      BY <1>2
    <3>3. PICK v, m : /\ v = quote.volume * 390 /\ m = IF at > 30 THEN at ELSE 30
                      /\ v \in Int /\ m \in Int /\ m > 0
      BY <3>1, <3>2
    <3>4. v \div m \in Int
      BY <3>3
    <3> QED BY <3>3, <3>4 DEF VolumeRatio
  <2>3. quote.price \in Int /\ quote.gap \in Int
    BY <1>2 DEF Quotes
  <2> QED BY <2>1, <2>2, <2>3 DEF Reading, Snapshots
<1>4. /\ DOMAIN readings \subseteq RankedTickers
      /\ \A t \in DOMAIN readings : readings[t] \in Snapshots /\ market[t] \in Quotes
      /\ \A t \in DOMAIN readings :
            /\ readings[t].price = market[t].price /\ readings[t].gap = market[t].gap
            /\ readings[t].change = ReadChange(market[t].change)
  BY DEF SelectInv, SelectTypes, ReadingsAreQuotes
<1>5. DOMAIN readings' = read /\ DOMAIN market' = read
  BY <1>1
<1>6. \A t \in read :
        /\ readings'[t] \in Snapshots /\ market'[t] \in Quotes
        /\ readings'[t].price = market'[t].price /\ readings'[t].gap = market'[t].gap
        /\ readings'[t].change = ReadChange(market'[t].change)
  BY <1>1, <1>2, <1>3, <1>4
<1>7. SelectTypes'
  <2>1. DOMAIN readings' \subseteq RankedTickers'
    BY <1>1, <1>4, <1>5 DEF RankedTickers
  <2>2. /\ readings' \in [DOMAIN readings' -> Snapshots]
        /\ market' \in [DOMAIN readings' -> Quotes]
    <3>1. readings' = [t \in read |-> readings'[t]] /\ market' = [t \in read |-> market'[t]]
      BY <1>1
    <3> HIDE DEF read
    <3> QED BY <1>5, <1>6, <3>1
  <2>3. readMinute' \in 0 .. 390
    BY <1>1, <1>2
  <2>4. \A list \in Lists :
          DOMAIN ranks'[list] \subseteq Tickers /\ ranks'[list] \in [DOMAIN ranks'[list] -> Nat]
    BY <1>1 DEF SelectInv, SelectTypes
  <2> QED BY <2>1, <2>2, <2>3, <2>4 DEF SelectTypes
<1>8. ReadingsAreQuotes'
  BY <1>5, <1>6 DEF ReadingsAreQuotes
<1> QED BY <1>1, <1>7, <1>8 DEF SelectInv, ChosenAreBest

LEMMA SelectStep == SelectInv /\ [SelectNext]_selectVars => SelectInv'
<1> SUFFICES ASSUME SelectInv, [SelectNext]_selectVars PROVE SelectInv'
  OBVIOUS
<1>1. CASE ReadsRankings
  <2>1. /\ RankedTickers = {} /\ ranks' \in RankingSets /\ readings' = readings
        /\ market' = market /\ readMinute' = readMinute /\ chosen' = chosen
    BY <1>1 DEF ReadsRankings
  <2>2. /\ DOMAIN readings = {} /\ readings \in [DOMAIN readings -> Snapshots]
        /\ market \in [DOMAIN readings -> Quotes] /\ readMinute \in 0 .. 390
    BY <2>1 DEF SelectInv, SelectTypes
  <2>3. chosen = {}
    BY <2>2 DEF SelectInv, ChosenAreBest, Screened
  <2>4. SelectTypes'
    <3>1. \A list \in Lists :
            /\ DOMAIN ranks'[list] \subseteq Tickers
            /\ ranks'[list] \in [DOMAIN ranks'[list] -> Nat]
      BY <2>1, RankingsAssumption
    <3>2. DOMAIN readings' \subseteq RankedTickers'
      BY <2>1, <2>2
    <3>3. /\ readings' \in [DOMAIN readings' -> Snapshots]
          /\ market' \in [DOMAIN readings' -> Quotes] /\ readMinute' \in 0 .. 390
      BY <2>1, <2>2
    <3> QED BY <3>1, <3>2, <3>3 DEF SelectTypes
  <2>5. ReadingsAreQuotes'
    BY <2>1, <2>2 DEF ReadingsAreQuotes
  <2> QED BY <2>1, <2>3, <2>4, <2>5 DEF SelectInv, ChosenAreBest
<1>2. CASE Selects
  <2>1. /\ ranks' = ranks /\ readings' = readings /\ market' = market
        /\ readMinute' = readMinute
        /\ chosen' = {t \in Screened : Cardinality(Before(t)) < SelectionLimit}
    BY <1>2 DEF Selects, Screened, Before
  <2>2. SelectTypes' /\ ReadingsAreQuotes'
    BY <2>1 DEF SelectInv, SelectTypes, ReadingsAreQuotes, RankedTickers
  <2>3. Screened' = Screened /\ \A t : Before(t)' = Before(t)
    BY <2>1 DEF Screened, Before, ScoredBefore, CompositeScore, WeightedRank, RankIn,
                FallbackRank, PresenceBonus
  <2> QED BY <2>1, <2>2, <2>3 DEF SelectInv, ChosenAreBest
<1>3. ASSUME NEW ticker \in Tickers, NEW at \in ReadMinutes, NEW quote \in Quoted[ticker],
             ReadsQuote(ticker, quote, at)
      PROVE  SelectInv'
  BY <1>3, QuoteIsRead
<1>4. CASE UNCHANGED selectVars
  <2>1. /\ ranks' = ranks /\ readings' = readings /\ market' = market
        /\ readMinute' = readMinute /\ chosen' = chosen
    BY <1>4 DEF selectVars
  <2>2. SelectTypes' /\ ReadingsAreQuotes'
    BY <2>1 DEF SelectInv, SelectTypes, ReadingsAreQuotes, RankedTickers
  <2>3. Screened' = Screened /\ \A t : Before(t)' = Before(t)
    BY <2>1 DEF Screened, Before, ScoredBefore, CompositeScore, WeightedRank, RankIn,
                FallbackRank, PresenceBonus
  <2> QED BY <2>1, <2>2, <2>3 DEF SelectInv, ChosenAreBest
<1> QED BY <1>1, <1>2, <1>3, <1>4 DEF SelectNext

(* What the selection keeps to: the ranks are numbers, a snapshot is of    *)
(* the quote it was made of, and the candidates are those of the screen    *)
(* before which fewer than the limit are scored.                           *)
THEOREM SelectInductive == SelectSpec => []SelectInv
  BY SelectStart, SelectStep, PTL DEF SelectSpec

(* A stock that is better than one that was taken is taken as well, unless *)
(* the two are level (composite_ranking_selection): for all rankings,      *)
(* quotes and rules.                                                       *)
THEOREM BetterRankedFirstHolds == SelectSpec => []BetterRankedFirst
<1>1. SelectInv => BetterRankedFirst
  BY BestAreTaken
<1> QED BY <1>1, SelectInductive, PTL

-----------------------------------------------------------------------------
(* The credit of a sale (TradeAttribution).                                *)

Decisions == {"BLOCKED", "BUY_ALLOWED", "NOT_SUBMITTED", "ORDER_SUBMITTED"}
JudgedRows == [symbol : Symbols, at : Nat, decision : Decisions, order : Nat]
BoughtRows == [symbol : Symbols, at : Nat, order : Nat]
SoldRows == [symbol : Symbols, at : Nat, own : SUBSET Nat, order : Nat,
             profit : Profits]

AttributionTypes ==
    /\ sessionHour \in 0 .. LastHour
    /\ judged \in Seq(JudgedRows) /\ bought \in Seq(BoughtRows) /\ sold \in Seq(SoldRows)
    /\ ownerOf \in [Symbols -> SUBSET Nat]

\* An evaluation carries its own order or none, and was made by now.
JudgedByNow ==
    \A i \in DOMAIN judged : judged[i].order \in {0, i} /\ judged[i].at <= sessionHour

\* What was ordered was not blocked.
OrderedRows(s) == EligibleRows(s)
ComingIsOrdered ==
    \A order \in coming :
        order.order = order.own /\ order.own \in DOMAIN judged
        /\ order.own \in OrderedRows(judged[order.own].symbol)

\* The purchases of a ticker are in the order of their hours, each of an
\* evaluation of that ticker.
BoughtInOrder ==
    /\ \A p \in DOMAIN bought : /\ bought[p].order \in RowsOfSymbol(judged, bought[p].symbol)
                                /\ bought[p].at <= sessionHour
    /\ \A p, q \in DOMAIN bought : p <= q => bought[p].at <= bought[q].at

\* What is held is owned by evaluations of the ticker, the last purchase among
\* them.
OwnersBought ==
    \A s \in Symbols :
        /\ ownerOf[s] \subseteq OrderedRows(s)
        /\ ownerOf[s] # {} =>
              \E r \in RowsOfSymbol(bought, s) :
                  /\ bought[r].order \in ownerOf[s]
                  /\ \A q \in RowsOfSymbol(bought, s) : q <= r

\* So it was when it was sold: later purchases are of later hours.
IsLastBought(r, k) ==
    /\ r \in RowsOfSymbol(bought, sold[k].symbol)
    /\ bought[r].order \in sold[k].own /\ bought[r].at <= sold[k].at
    /\ \A q \in RowsOfSymbol(bought, sold[k].symbol) : q > r => bought[q].at > sold[k].at
SoldWasBought ==
    \A k \in DOMAIN sold :
        /\ sold[k].own # {} /\ sold[k].own \subseteq OrderedRows(sold[k].symbol)
        /\ sold[k].at <= sessionHour
        /\ \E r \in DOMAIN bought : IsLastBought(r, k)

CreditInv ==
    /\ AttributionTypes /\ JudgedByNow /\ ComingIsOrdered /\ BoughtInOrder /\ OwnersBought
    /\ SoldWasBought

-----------------------------------------------------------------------------
(* Two clocks.                                                             *)

\* Whether an hour of the session is past midnight in Seoul.
Night(hour) == OpenHour + hour >= 24

LEMMA ClocksAre ==
    ASSUME NEW a \in 0 .. LastHour, NEW b \in 0 .. LastHour
    PROVE  /\ SeoulHour(a) \in Nat /\ UtcHour(a) \in Nat
           /\ SeoulHour(a) <= SeoulHour(b) <=>
                  (Night(a) /\ ~Night(b)) \/ ((Night(a) <=> Night(b)) /\ a <= b)
           /\ UtcHour(a) <= SeoulHour(b) <=> ~Night(b)
<1>1. a \in 0 .. 8 /\ b \in 0 .. 8 /\ OpenHour \in {22, 23}
  BY AttributionAssumption
<1>2. ASSUME NEW c \in 0 .. 8
      PROVE  /\ SeoulHour(c) = IF Night(c) THEN OpenHour + c - 24 ELSE OpenHour + c
             /\ UtcHour(c) = OpenHour + c - 9
  BY <1>1 DEF SeoulHour, UtcHour, Night
<1>3. /\ SeoulHour(a) = IF Night(a) THEN OpenHour + a - 24 ELSE OpenHour + a
      /\ SeoulHour(b) = IF Night(b) THEN OpenHour + b - 24 ELSE OpenHour + b
      /\ UtcHour(a) = OpenHour + a - 9
  BY <1>1, <1>2
<1>4. CASE OpenHour = 22
  BY <1>1, <1>3, <1>4 DEF Night
<1>5. CASE OpenHour = 23
  BY <1>1, <1>3, <1>5 DEF Night
<1> QED BY <1>1, <1>4, <1>5

\* The last purchase by Seoul's clock, where there is one, is the last before
\* the sale.
LEMMA LastPurchaseIs ==
    ASSUME CreditInv, NEW k \in DOMAIN sold, NEW r \in DOMAIN bought, IsLastBought(r, k),
           NEW p \in LastPurchase(k)
    PROVE  p = r
<1> DEFINE s == sold[k].symbol
           P == bought[p].at
           R == bought[r].at
           K == sold[k].at
<1>1. /\ p \in RowsOfSymbol(bought, s) /\ SeoulHour(P) <= SeoulHour(K)
      /\ \A q \in EarlierPurchases(k) :
            SeoulHour(bought[q].at) < SeoulHour(P)
                \/ (SeoulHour(bought[q].at) = SeoulHour(P) /\ q <= p)
  BY DEF LastPurchase, EarlierPurchases
<1>2. /\ r \in RowsOfSymbol(bought, s) /\ R <= K
      /\ \A q \in RowsOfSymbol(bought, s) : q > r => bought[q].at > K
  BY DEF IsLastBought
<1>3. /\ p \in DOMAIN bought /\ p \in Nat /\ r \in Nat
      /\ \A i, j \in DOMAIN bought : i <= j => bought[i].at <= bought[j].at
      /\ P \in Nat /\ R \in Nat /\ K \in Nat
      /\ P <= sessionHour /\ R <= sessionHour /\ K <= sessionHour
  <2>1. p \in DOMAIN bought
    BY <1>1 DEF RowsOfSymbol
  <2>2. bought[p] \in BoughtRows /\ bought[r] \in BoughtRows /\ sold[k] \in SoldRows
    BY <2>1 DEF CreditInv, AttributionTypes
  <2>3. p \in Nat /\ r \in Nat
    BY <2>1 DEF CreditInv, AttributionTypes
  <2> QED BY <2>1, <2>2, <2>3 DEF CreditInv, BoughtInOrder, SoldWasBought, BoughtRows, SoldRows
<1>4. P \in 0 .. LastHour /\ R \in 0 .. LastHour /\ K \in 0 .. LastHour
  <2>1. sessionHour \in 0 .. LastHour /\ LastHour \in Nat
    BY AttributionAssumption DEF CreditInv, AttributionTypes
  <2> QED BY <1>3, <2>1
<1> HIDE DEF P, R, K
<1>5. (Night(P) /\ ~Night(K)) \/ ((Night(P) <=> Night(K)) /\ P <= K)
  BY <1>1, <1>4, ClocksAre
<1>6. r \in EarlierPurchases(k) => SeoulHour(R) < SeoulHour(P)
                                       \/ (SeoulHour(R) = SeoulHour(P) /\ r <= p)
  BY <1>1 DEF R
<1>7. (Night(R) <=> Night(K)) => r \in EarlierPurchases(k)
  <2>1. (Night(R) <=> Night(K)) => SeoulHour(R) <= SeoulHour(K)
    BY <1>2, <1>4, ClocksAre
  <2> QED BY <1>2, <2>1 DEF EarlierPurchases, R, K
<1>8. P <= K => p <= r /\ P <= R
  <2>1. P <= K => ~(p > r)
    BY <1>1, <1>2, <1>3 DEF P
  <2>2. p <= r => P <= R
    BY <1>3 DEF P, R
  <2> QED BY <1>3, <2>1, <2>2
<1>9. Night(R) => Night(K)
  BY <1>2, <1>4, AttributionAssumption DEF Night
<1>10. Night(P) /\ P <= R => Night(R)
  BY <1>4, AttributionAssumption DEF Night
<1>11. CASE Night(P) /\ ~Night(K)
  <2>1. ~Night(R) /\ r \in EarlierPurchases(k)
    BY <1>7, <1>9, <1>11
  <2>2. ~(SeoulHour(R) <= SeoulHour(P))
    BY <1>4, <1>11, <2>1, ClocksAre
  <2>3. SeoulHour(R) \in Nat /\ SeoulHour(P) \in Nat
    BY <1>4, ClocksAre
  <2> QED BY <1>6, <2>1, <2>2, <2>3
<1>12. CASE (Night(P) <=> Night(K)) /\ P <= K
  <2>1. p <= r /\ P <= R
    BY <1>8, <1>12
  <2>2. (Night(P) <=> Night(R)) /\ r \in EarlierPurchases(k)
    BY <1>7, <1>9, <1>10, <1>12, <2>1
  <2>3. SeoulHour(P) <= SeoulHour(R) /\ SeoulHour(R) \in Nat /\ SeoulHour(P) \in Nat
    BY <1>4, <2>1, <2>2, ClocksAre
  <2> QED BY <1>3, <1>6, <2>1, <2>2, <2>3
<1> QED BY <1>5, <1>11, <1>12

\* By the two clocks a purchase is later than all evaluations, or than none.
LEMMA AllOrNone ==
    ASSUME CreditInv, NEW k \in DOMAIN sold, NEW i \in BeforePurchase(k)
    PROVE  BeforePurchase(k) = RowsOfSymbol(judged, sold[k].symbol)
<1> SUFFICES ASSUME NEW j \in RowsOfSymbol(judged, sold[k].symbol), NEW p \in LastPurchase(k)
             PROVE  UtcHour(judged[j].at) <= SeoulHour(bought[p].at)
  BY DEF BeforePurchase
<1>1. UtcHour(judged[i].at) <= SeoulHour(bought[p].at) /\ i \in DOMAIN judged
  BY DEF BeforePurchase, RowsOfSymbol
<1>2. j \in DOMAIN judged /\ p \in DOMAIN bought
  BY DEF RowsOfSymbol, LastPurchase, EarlierPurchases
<1>3. judged[i] \in JudgedRows /\ judged[j] \in JudgedRows /\ bought[p] \in BoughtRows
  BY <1>1, <1>2 DEF CreditInv, AttributionTypes
<1>4. /\ judged[i].at <= sessionHour /\ judged[j].at <= sessionHour
      /\ bought[p].at <= sessionHour
  BY <1>1, <1>2 DEF CreditInv, JudgedByNow, BoughtInOrder
<1>5. sessionHour \in 0 .. LastHour /\ LastHour \in Nat
  BY AttributionAssumption DEF CreditInv, AttributionTypes
<1>6. /\ judged[i].at \in 0 .. LastHour /\ judged[j].at \in 0 .. LastHour
      /\ bought[p].at \in 0 .. LastHour
  BY <1>3, <1>4, <1>5 DEF JudgedRows, BoughtRows
<1> QED BY <1>1, <1>6, ClocksAre

LEMMA RowsAreFinite ==
    ASSUME CreditInv, NEW s
    PROVE  /\ IsFiniteSet(RowsOfSymbol(judged, s))
           /\ \A rows \in SUBSET RowsOfSymbol(judged, s) :
                 /\ IsFiniteSet(rows)
                 /\ Cardinality(rows) = 1 => \E i : rows = {i}
<1>1. Len(judged) \in Nat /\ DOMAIN judged = 1 .. Len(judged)
  BY DEF CreditInv, AttributionTypes
<1>2. IsFiniteSet(1 .. Len(judged))
  BY <1>1, FS_Interval
<1>3. RowsOfSymbol(judged, s) \in SUBSET (1 .. Len(judged))
  BY <1>1 DEF RowsOfSymbol
<1>4. IsFiniteSet(RowsOfSymbol(judged, s))
  BY <1>2, <1>3, FS_Subset
<1>5. \A rows \in SUBSET RowsOfSymbol(judged, s) : IsFiniteSet(rows)
  BY <1>4, FS_Subset
<1> QED BY <1>4, <1>5, FS_Singleton

-----------------------------------------------------------------------------
LEMMA CountIsOwn ==
    ASSUME CreditInv, NEW k \in DOMAIN sold
    PROVE  CreditByCount(k) \subseteq sold[k].own
<1> SUFFICES ASSUME NEW i \in CreditByCount(k) PROVE i \in sold[k].own
  OBVIOUS
<1>1. EligibleRows(sold[k].symbol) = {i}
  BY DEF CreditByCount
<1>2. sold[k].own # {} /\ sold[k].own \subseteq EligibleRows(sold[k].symbol)
  BY DEF CreditInv, SoldWasBought, OrderedRows
<1> QED BY <1>1, <1>2

LEMMA TimeIsOwn ==
    ASSUME CreditInv, NEW k \in DOMAIN sold,
           \A i \in sold[k].own : judged[i].decision = "ORDER_SUBMITTED"
    PROVE  CreditByTime(k) \subseteq sold[k].own
<1> SUFFICES ASSUME NEW i \in CreditByTime(k) PROVE i \in sold[k].own
  OBVIOUS
<1> DEFINE s == sold[k].symbol
<1>1. /\ sold[k].own # {} /\ sold[k].own \subseteq EligibleRows(s)
      /\ EligibleRows(s) \subseteq RowsOfSymbol(judged, s)
  BY DEF CreditInv, SoldWasBought, OrderedRows, EligibleRows
<1>2. CASE Linked(k) # {}
  <2>1. i \in Linked(k)
    BY <1>2 DEF CreditByTime, Unique
  <2>2. PICK p \in LastPurchase(k) : judged[i].order = bought[p].order
    BY <2>1 DEF Linked
  <2>3. PICK r \in DOMAIN bought : IsLastBought(r, k)
    BY DEF CreditInv, SoldWasBought
  <2>4. p = r
    BY <2>3, LastPurchaseIs
  <2>5. bought[r].order \in DOMAIN judged /\ 0 \notin DOMAIN judged
    BY <2>3 DEF CreditInv, BoughtInOrder, RowsOfSymbol, AttributionTypes
  <2>6. i \in DOMAIN judged /\ judged[i].order \in {0, i}
    BY <2>1 DEF Linked, ActiveFor, BeforePurchase, RowsOfSymbol, CreditInv, JudgedByNow
  <2>7. i = bought[r].order
    BY <2>2, <2>4, <2>5, <2>6
  <2> QED BY <2>3, <2>7 DEF IsLastBought
<1>3. CASE Linked(k) = {}
  <2>1. i \in SubmittedFor(k) /\ Cardinality(SubmittedFor(k)) = 1
    BY <1>3 DEF CreditByTime, Unique
  <2>2. i \in BeforePurchase(k)
    BY <2>1 DEF SubmittedFor, ActiveFor
  <2>3. BeforePurchase(k) = RowsOfSymbol(judged, s)
    BY <2>2, AllOrNone
  <2>4. sold[k].own \subseteq SubmittedFor(k)
    BY <1>1, <2>3 DEF SubmittedFor, ActiveFor
  <2>5. SubmittedFor(k) \in SUBSET RowsOfSymbol(judged, s)
    BY <2>3 DEF SubmittedFor, ActiveFor
  <2>6. PICK one : SubmittedFor(k) = {one}
    BY <2>1, <2>5, RowsAreFinite
  <2> QED BY <1>1, <2>1, <2>4, <2>6
<1> QED BY <1>2, <1>3

LEMMA AllowedIsCredited ==
    ASSUME CreditInv, NEW k \in DOMAIN sold, AnalysisAllowed, ManyCandidates(k)
    PROVE  CreditByTime(k) # {}
<1> SUFFICES ASSUME LikelyCredit(k) # {} PROVE FALSE
  BY DEF AnalysisAllowed, StillAmbiguous
<1> DEFINE rows == RowsOfSymbol(judged, sold[k].symbol)
<1>1. /\ ActiveFor(k) = BeforePurchase(k) /\ Cardinality(ActiveFor(k)) = 1
      /\ ActiveFor(k) # {}
  BY DEF LikelyCredit, Unique
<1>2. BeforePurchase(k) = rows
  BY <1>1, AllOrNone
<1>3. EligibleRows(sold[k].symbol) \in SUBSET rows /\ IsFiniteSet(rows)
  BY RowsAreFinite DEF EligibleRows
<1>4. Cardinality(EligibleRows(sold[k].symbol)) <= Cardinality(rows)
  BY <1>3, FS_Subset
<1>5. Cardinality(EligibleRows(sold[k].symbol)) \in Nat
  BY <1>3, FS_Subset, FS_CardinalityType
<1> QED BY <1>1, <1>2, <1>4, <1>5 DEF ManyCandidates

LEMMA CreditIsOwn ==
    ASSUME CreditInv PROVE CreditedIsOwn
BY CountIsOwn, TimeIsOwn, AllowedIsCredited DEF CreditedIsOwn

-----------------------------------------------------------------------------
(* The steps.                                                              *)

LEMMA AttributionStart == AttributionInit => CreditInv
<1> SUFFICES ASSUME AttributionInit PROVE CreditInv
  OBVIOUS
<1>1. /\ judged = <<>> /\ coming = {} /\ bought = <<>> /\ sold = <<>> /\ sessionHour = 0
      /\ ownerOf = [s \in Symbols |-> {}]
  BY DEF AttributionInit
<1>2. judged \in Seq(JudgedRows) /\ bought \in Seq(BoughtRows) /\ sold \in Seq(SoldRows)
  BY <1>1, EmptySeq
<1>3. DOMAIN judged = {} /\ DOMAIN bought = {} /\ DOMAIN sold = {}
  BY <1>1
<1>4. AttributionTypes
  <2>1. sessionHour \in 0 .. LastHour
    BY <1>1, AttributionAssumption
  <2>2. ownerOf \in [Symbols -> SUBSET Nat]
    BY <1>1
  <2> QED BY <1>2, <2>1, <2>2 DEF AttributionTypes
<1>5. OwnersBought
  BY <1>1 DEF OwnersBought
<1> QED BY <1>1, <1>3, <1>4, <1>5 DEF CreditInv, JudgedByNow, ComingIsOrdered, BoughtInOrder,
        SoldWasBought

\* Evaluations are only added.
LEMMA RowsOnlyGrow ==
    ASSUME \A i \in DOMAIN judged : i \in DOMAIN judged' /\ judged'[i] = judged[i]
    PROVE  \A s : /\ RowsOfSymbol(judged, s) \subseteq RowsOfSymbol(judged', s)
                  /\ OrderedRows(s) \subseteq OrderedRows(s)'
BY DEF RowsOfSymbol, OrderedRows, EligibleRows

LEMMA EvaluationKeeps ==
    ASSUME CreditInv, NEW s \in Symbols, NEW marked \in BOOLEAN, NEW decision \in Decisions,
           Evaluates(s, decision, marked)
    PROVE  CreditInv'
<1> DEFINE n == Len(judged)
           submits == decision = "ORDER_SUBMITTED"
           row == [symbol |-> s, at |-> sessionHour,
                   decision |-> IF marked \/ decision = "BLOCKED" THEN decision
                                ELSE "BUY_ALLOWED",
                   order |-> IF submits /\ marked THEN n + 1 ELSE 0]
<1>1. /\ judged' = Append(judged, row)
      /\ coming' = IF submits THEN coming \cup {[order |-> n + 1, own |-> n + 1]} ELSE coming
      /\ bought' = bought /\ sold' = sold /\ ownerOf' = ownerOf /\ sessionHour' = sessionHour
  BY DEF Evaluates
<1>2. /\ AttributionTypes /\ n \in Nat /\ sessionHour \in Nat /\ judged \in Seq(JudgedRows)
      /\ DOMAIN judged = 1 .. n
  BY AttributionAssumption DEF CreditInv, AttributionTypes
<1>3. /\ row \in JudgedRows /\ row.symbol = s /\ row.at = sessionHour
      /\ row.order \in {0, n + 1} /\ (submits => row.decision # "BLOCKED")
  BY <1>2 DEF JudgedRows, Decisions
<1> HIDE DEF row
<1>4. /\ judged' \in Seq(JudgedRows) /\ DOMAIN judged' = 1 .. n + 1
      /\ judged'[n + 1] = row /\ \A i \in 1 .. n : judged'[i] = judged[i]
      /\ \A i \in 1 .. n + 1 : i \in 1 .. n \/ i = n + 1
      /\ n + 1 \in 1 .. n + 1 /\ 1 .. n \subseteq 1 .. n + 1
  BY <1>1, <1>2, <1>3
<1>5. \A t : /\ RowsOfSymbol(judged, t) \subseteq RowsOfSymbol(judged', t)
             /\ OrderedRows(t) \subseteq OrderedRows(t)'
  BY <1>2, <1>4, RowsOnlyGrow
<1>6. AttributionTypes'
  BY <1>1, <1>2, <1>4 DEF AttributionTypes
<1>7. JudgedByNow'
  <2>1. \A i \in 1 .. n : judged[i].order \in {0, i} /\ judged[i].at <= sessionHour
    BY <1>2 DEF CreditInv, JudgedByNow
  <2>2. judged'[n + 1].order \in {0, n + 1} /\ judged'[n + 1].at <= sessionHour
    BY <1>2, <1>3, <1>4
  <2> QED BY <1>1, <1>4, <2>1, <2>2 DEF JudgedByNow
<1>8. ComingIsOrdered'
  <2>1. ASSUME NEW order \in coming
        PROVE  /\ order.order = order.own /\ order.own \in DOMAIN judged'
               /\ order.own \in OrderedRows(judged[order.own].symbol)'
    <3>1. /\ order.order = order.own /\ order.own \in 1 .. n
          /\ order.own \in OrderedRows(judged[order.own].symbol)
      BY <1>2 DEF CreditInv, ComingIsOrdered
    <3>2. order.own \in DOMAIN judged' /\ judged'[order.own] = judged[order.own]
      BY <1>4, <3>1
    <3>3. /\ judged'[order.own].decision # "BLOCKED"
      BY <3>1, <3>2 DEF OrderedRows, EligibleRows
    <3> QED BY <3>1, <3>2, <3>3 DEF OrderedRows, EligibleRows, RowsOfSymbol
  <2>2. ASSUME submits, NEW order, order = [order |-> n + 1, own |-> n + 1]
        PROVE  /\ order.order = order.own /\ order.own \in DOMAIN judged'
               /\ order.own \in OrderedRows(judged[order.own].symbol)'
    <3>1. order.order = n + 1 /\ order.own = n + 1
      BY <2>2
    <3>2. n + 1 \in DOMAIN judged' /\ judged'[n + 1].decision # "BLOCKED"
      BY <1>3, <1>4, <2>2
    <3> QED BY <3>1, <3>2 DEF OrderedRows, EligibleRows, RowsOfSymbol
  <2> QED BY <1>1, <2>1, <2>2 DEF ComingIsOrdered
<1>9. BoughtInOrder'
  BY <1>1, <1>5 DEF CreditInv, BoughtInOrder
<1>10. OwnersBought'
  <2>1. \A t : RowsOfSymbol(bought, t)' = RowsOfSymbol(bought, t)
    BY <1>1 DEF RowsOfSymbol
  <2> QED BY <1>1, <1>5, <2>1 DEF CreditInv, OwnersBought
<1>11. SoldWasBought'
  <2>1. \A r, k : IsLastBought(r, k)' = IsLastBought(r, k)
    BY <1>1 DEF IsLastBought, RowsOfSymbol
  <2> QED BY <1>1, <1>5, <2>1 DEF CreditInv, SoldWasBought
<1> QED BY <1>6, <1>7, <1>8, <1>9, <1>10, <1>11 DEF CreditInv

LEMMA BuyingKeeps ==
    ASSUME CreditInv, NEW order \in coming, Buys(order) PROVE CreditInv'
<1> DEFINE s == judged[order.own].symbol
           n == Len(bought)
           row == [symbol |-> s, at |-> sessionHour, order |-> order.order]
<1>1. /\ \A k \in RowsOfSymbol(sold, s) : sold[k].at < sessionHour
      /\ bought' = Append(bought, row)
      /\ ownerOf' = [ownerOf EXCEPT ![s] = @ \cup {order.own}]
      /\ coming' = coming \ {order}
      /\ judged' = judged /\ sold' = sold /\ sessionHour' = sessionHour
  BY DEF Buys
<1>2. /\ AttributionTypes /\ n \in Nat /\ sessionHour \in Nat /\ bought \in Seq(BoughtRows)
      /\ DOMAIN bought = 1 .. n /\ ownerOf \in [Symbols -> SUBSET Nat]
  BY AttributionAssumption DEF CreditInv, AttributionTypes
<1>3. /\ order.order = order.own /\ order.own \in DOMAIN judged /\ order.own \in OrderedRows(s)
      /\ order.own \in RowsOfSymbol(judged, s)
  BY DEF CreditInv, ComingIsOrdered, RowsOfSymbol
<1>4. s \in Symbols /\ order.own \in Nat
  <2>1. judged \in Seq(JudgedRows)
    BY <1>2 DEF AttributionTypes
  <2>2. judged[order.own] \in JudgedRows /\ order.own \in Nat
    BY <1>3, <2>1
  <2> QED BY <2>2 DEF JudgedRows
<1>5. row \in BoughtRows /\ row.symbol = s /\ row.at = sessionHour /\ row.order = order.own
  BY <1>2, <1>3, <1>4 DEF BoughtRows
<1> HIDE DEF row, s
<1>6. /\ bought' \in Seq(BoughtRows) /\ DOMAIN bought' = 1 .. n + 1
      /\ bought'[n + 1] = row /\ \A i \in 1 .. n : bought'[i] = bought[i]
      /\ \A i \in 1 .. n + 1 : i \in 1 .. n \/ i = n + 1
      /\ n + 1 \in 1 .. n + 1 /\ 1 .. n \subseteq 1 .. n + 1
      /\ \A i \in 1 .. n : i \in Nat /\ i < n + 1
  BY <1>1, <1>2, <1>5
<1>7. /\ ownerOf' \in [Symbols -> SUBSET Nat] /\ ownerOf'[s] = ownerOf[s] \cup {order.own}
      /\ \A t \in Symbols : t # s => ownerOf'[t] = ownerOf[t]
  BY <1>1, <1>2, <1>4
<1>8. AttributionTypes'
  BY <1>1, <1>2, <1>6, <1>7 DEF AttributionTypes
<1>9. JudgedByNow' /\ ComingIsOrdered'
  BY <1>1 DEF CreditInv, JudgedByNow, ComingIsOrdered, OrderedRows, EligibleRows, RowsOfSymbol
<1>10. BoughtInOrder'
  <2>1. \A i \in 1 .. n : /\ bought[i].order \in RowsOfSymbol(judged, bought[i].symbol)
                          /\ bought[i].at <= sessionHour
    BY <1>2 DEF CreditInv, BoughtInOrder
  <2>2. \A p \in 1 .. n + 1 : /\ bought'[p].order \in RowsOfSymbol(judged, bought'[p].symbol)
                              /\ bought'[p].at <= sessionHour
    <3>1. /\ bought'[n + 1].order \in RowsOfSymbol(judged, bought'[n + 1].symbol)
          /\ bought'[n + 1].at <= sessionHour
      BY <1>2, <1>3, <1>5, <1>6
    <3> QED BY <1>6, <2>1, <3>1
  <2>3. ASSUME NEW p \in 1 .. n + 1, NEW q \in 1 .. n + 1, p <= q
        PROVE  bought'[p].at <= bought'[q].at
    <3>1. CASE q = n + 1
      BY <1>5, <1>6, <2>2, <3>1
    <3>2. CASE q \in 1 .. n
      <4>1. p \in 1 .. n
        BY <1>2, <2>3, <3>2
      <4> QED BY <1>2, <1>6, <2>3, <3>2, <4>1 DEF CreditInv, BoughtInOrder
    <3> QED BY <1>6, <3>1, <3>2
  <2> QED BY <1>1, <1>6, <2>2, <2>3 DEF BoughtInOrder
<1>11. /\ \A t : t # s => RowsOfSymbol(bought', t) = RowsOfSymbol(bought, t)
       /\ RowsOfSymbol(bought', s) = RowsOfSymbol(bought, s) \cup {n + 1}
       /\ \A t : RowsOfSymbol(bought, t) \subseteq 1 .. n
  <2>1. ASSUME NEW t
        PROVE  /\ RowsOfSymbol(bought, t) = {i \in 1 .. n : bought[i].symbol = t}
               /\ RowsOfSymbol(bought', t) = {i \in 1 .. n + 1 : bought'[i].symbol = t}
    BY <1>2, <1>6 DEF RowsOfSymbol
  <2>2. bought'[n + 1].symbol = s
    BY <1>5, <1>6
  <2>3. ASSUME NEW t, t # s PROVE RowsOfSymbol(bought', t) = RowsOfSymbol(bought, t)
    BY <1>6, <2>1, <2>2, <2>3
  <2>4. RowsOfSymbol(bought', s) = RowsOfSymbol(bought, s) \cup {n + 1}
    BY <1>6, <2>1, <2>2
  <2> QED BY <2>1, <2>3, <2>4
<1>12. OwnersBought'
  <2>1. \A t : OrderedRows(t)' = OrderedRows(t)
    BY <1>1 DEF OrderedRows, EligibleRows, RowsOfSymbol
  <2>2. ASSUME NEW t \in Symbols
        PROVE  /\ ownerOf'[t] \subseteq OrderedRows(t)
               /\ ownerOf'[t] # {} => \E r \in RowsOfSymbol(bought', t) :
                      /\ bought'[r].order \in ownerOf'[t]
                      /\ \A q \in RowsOfSymbol(bought', t) : q <= r
    <3>1. CASE t = s
      <4>1. ownerOf'[t] \subseteq OrderedRows(t)
        BY <1>3, <1>7, <3>1 DEF CreditInv, OwnersBought, s
      <4>2. n + 1 \in RowsOfSymbol(bought', t) /\ bought'[n + 1].order \in ownerOf'[t]
        BY <1>5, <1>6, <1>7, <1>11, <3>1
      <4>3. \A q \in RowsOfSymbol(bought', t) : q <= n + 1
        BY <1>2, <1>6, <1>11, <3>1
      <4> QED BY <4>1, <4>2, <4>3
    <3>2. CASE t # s
      <4>1. ownerOf'[t] = ownerOf[t] /\ RowsOfSymbol(bought', t) = RowsOfSymbol(bought, t)
        BY <1>7, <1>11, <3>2
      <4>2. \A q \in RowsOfSymbol(bought, t) : bought'[q] = bought[q]
        BY <1>6, <1>11
      <4> QED BY <4>1, <4>2 DEF CreditInv, OwnersBought
    <3> QED BY <3>1, <3>2
  <2> QED BY <1>1, <2>1, <2>2 DEF OwnersBought
<1>13. SoldWasBought'
  <2>1. ASSUME NEW k \in DOMAIN sold, NEW r \in DOMAIN bought, IsLastBought(r, k)
        PROVE  r \in DOMAIN bought' /\ IsLastBought(r, k)'
    <3>1. r \in 1 .. n /\ bought'[r] = bought[r] /\ r \in DOMAIN bought'
      BY <1>2, <1>6
    <3>2. /\ r \in RowsOfSymbol(bought', sold[k].symbol)
      BY <1>11, <2>1 DEF IsLastBought
    <3>3. ASSUME NEW q \in RowsOfSymbol(bought', sold[k].symbol), q > r
          PROVE  bought'[q].at > sold[k].at
      <4>1. CASE q \in RowsOfSymbol(bought, sold[k].symbol)
        BY <1>6, <1>11, <2>1, <3>3, <4>1 DEF IsLastBought
      <4>2. CASE q \notin RowsOfSymbol(bought, sold[k].symbol)
        <5>1. q = n + 1 /\ sold[k].symbol = s
          BY <1>11, <3>3, <4>2
        <5>2. sold[k].at < sessionHour
          BY <1>1, <5>1 DEF RowsOfSymbol
        <5>3. sold[k] \in SoldRows
          BY <1>2 DEF AttributionTypes
        <5> QED BY <1>2, <1>5, <1>6, <5>1, <5>2, <5>3 DEF SoldRows
      <4> QED BY <4>1, <4>2
    <3> QED BY <1>1, <2>1, <3>1, <3>2, <3>3 DEF IsLastBought
  <2>2. \A t : OrderedRows(t)' = OrderedRows(t)
    BY <1>1 DEF OrderedRows, EligibleRows, RowsOfSymbol
  <2> QED BY <1>1, <2>1, <2>2 DEF CreditInv, SoldWasBought
<1> QED BY <1>8, <1>9, <1>10, <1>12, <1>13 DEF CreditInv

LEMMA SellingKeeps ==
    ASSUME CreditInv, NEW s \in Symbols, NEW n \in 1 .. 2, NEW whole \in BOOLEAN,
           NEW saved \in BOOLEAN, NEW profits \in [1 .. n -> Profits],
           Sells(s, profits, whole, saved)
    PROVE  CreditInv'
<1> DEFINE m == Len(sold)
           row(k) == [symbol |-> s, at |-> sessionHour, own |-> ownerOf[s],
                      order |-> m + 1, profit |-> profits[k]]
           new == [k \in 1 .. n |-> row(k)]
<1>1. /\ ownerOf[s] # {} /\ sold' = sold \o new
      /\ ownerOf' = IF whole THEN [ownerOf EXCEPT ![s] = {}] ELSE ownerOf
      /\ judged' = judged /\ coming' = coming /\ bought' = bought
      /\ sessionHour' = sessionHour
  BY DEF Sells
<1>2. /\ AttributionTypes /\ m \in Nat /\ sessionHour \in Nat /\ sold \in Seq(SoldRows)
      /\ DOMAIN sold = 1 .. m /\ ownerOf \in [Symbols -> SUBSET Nat] /\ n \in Nat
  BY AttributionAssumption DEF CreditInv, AttributionTypes
<1>3. \A k \in 1 .. n : row(k) \in SoldRows
  BY <1>2 DEF SoldRows
<1>4. new \in Seq(SoldRows) /\ Len(new) = n
  <2> HIDE DEF row
  <2>1. new \in [1 .. n -> SoldRows]
    BY <1>3
  <2>2. new \in Seq(SoldRows)
    BY <1>2, <2>1, SeqDef
  <2>3. DOMAIN new = 1 .. n
    OBVIOUS
  <2> QED BY <1>2, <2>2, <2>3
<1>5. /\ sold' \in Seq(SoldRows) /\ DOMAIN sold' = 1 .. m + n
      /\ \A k \in 1 .. m + n : sold'[k] = IF k <= m THEN sold[k] ELSE new[k - m]
  <2> HIDE DEF new
  <2>1. /\ sold \o new \in Seq(SoldRows) /\ Len(sold \o new) = Len(sold) + Len(new)
        /\ \A k \in 1 .. Len(sold) + Len(new) :
              (sold \o new)[k] = IF k <= Len(sold) THEN sold[k] ELSE new[k - Len(sold)]
    BY <1>2, <1>4, ConcatProperties
  <2>2. Len(sold) + Len(new) = m + n
    BY <1>4
  <2> QED BY <1>1, <2>1, <2>2
<1>6. \A k \in 1 .. m + n :
        \/ k \in 1 .. m /\ sold'[k] = sold[k]
        \/ sold'[k].symbol = s /\ sold'[k].at = sessionHour /\ sold'[k].own = ownerOf[s]
  <2>1. ASSUME NEW k \in 1 .. m + n
        PROVE  \/ k \in 1 .. m /\ sold'[k] = sold[k]
               \/ sold'[k].symbol = s /\ sold'[k].at = sessionHour /\ sold'[k].own = ownerOf[s]
    <3>1. CASE k <= m
      <4>1. sold'[k] = sold[k]
        BY <1>5, <3>1
      <4> QED BY <1>2, <3>1, <4>1
    <3>2. CASE ~(k <= m)
      <4>1. k - m \in 1 .. n
        BY <1>2, <3>2
      <4>2. sold'[k] = row(k - m)
        BY <1>5, <3>2, <4>1
      <4> QED BY <4>2
    <3> QED BY <3>1, <3>2
  <2> QED BY <2>1
<1> HIDE DEF new, row
<1>7. /\ ownerOf' \in [Symbols -> SUBSET Nat]
      /\ \A t \in Symbols : ownerOf'[t] = ownerOf[t] \/ ownerOf'[t] = {}
  BY <1>1, <1>2
<1>8. AttributionTypes'
  BY <1>1, <1>2, <1>5, <1>7 DEF AttributionTypes
<1>9. \A t : OrderedRows(t)' = OrderedRows(t) /\ RowsOfSymbol(bought, t)' = RowsOfSymbol(bought, t)
  BY <1>1 DEF OrderedRows, EligibleRows, RowsOfSymbol
<1>10. JudgedByNow' /\ ComingIsOrdered' /\ BoughtInOrder'
  BY <1>1, <1>9 DEF CreditInv, JudgedByNow, ComingIsOrdered, BoughtInOrder, RowsOfSymbol
<1>11. OwnersBought'
  <2>1. ASSUME NEW t \in Symbols
        PROVE  /\ ownerOf'[t] \subseteq OrderedRows(t)
               /\ ownerOf'[t] # {} => \E r \in RowsOfSymbol(bought, t) :
                      /\ bought[r].order \in ownerOf'[t]
                      /\ \A q \in RowsOfSymbol(bought, t) : q <= r
    BY <1>7 DEF CreditInv, OwnersBought
  <2> QED BY <1>1, <1>9, <2>1 DEF OwnersBought
<1>12. SoldWasBought'
  <2>1. ASSUME NEW k \in 1 .. m
        PROVE  /\ sold[k].own # {} /\ sold[k].own \subseteq OrderedRows(sold[k].symbol)
               /\ sold[k].at <= sessionHour
               /\ \E r \in DOMAIN bought : IsLastBought(r, k)
    BY <1>2 DEF CreditInv, SoldWasBought
  <2>2. PICK r \in RowsOfSymbol(bought, s) :
          bought[r].order \in ownerOf[s] /\ \A q \in RowsOfSymbol(bought, s) : q <= r
    BY <1>1 DEF CreditInv, OwnersBought
  <2>3. bought[r].at <= sessionHour /\ r \in DOMAIN bought
    BY <2>2 DEF CreditInv, BoughtInOrder, RowsOfSymbol
  <2>4. \A q \in RowsOfSymbol(bought, s) : ~(q > r)
    <3>1. \A q \in RowsOfSymbol(bought, s) : q \in Nat
      BY <1>2 DEF RowsOfSymbol, AttributionTypes
    <3> QED BY <2>2, <3>1
  <2>5. ownerOf[s] \subseteq OrderedRows(s)
    BY DEF CreditInv, OwnersBought
  <2>6. ASSUME NEW k \in 1 .. m + n
        PROVE  /\ sold'[k].own # {} /\ sold'[k].own \subseteq OrderedRows(sold'[k].symbol)
               /\ sold'[k].at <= sessionHour
               /\ \E p \in DOMAIN bought : IsLastBought(p, k)'
    <3>1. CASE k \in 1 .. m /\ sold'[k] = sold[k]
      <4>1. PICK p \in DOMAIN bought : IsLastBought(p, k)
        BY <2>1, <3>1
      <4>2. IsLastBought(p, k)'
        BY <1>1, <1>9, <3>1, <4>1 DEF IsLastBought
      <4> QED BY <2>1, <3>1, <4>2
    <3>2. CASE sold'[k].symbol = s /\ sold'[k].at = sessionHour /\ sold'[k].own = ownerOf[s]
      <4>1. IsLastBought(r, k)'
        BY <1>1, <1>9, <2>2, <2>3, <2>4, <3>2 DEF IsLastBought
      <4>2. sessionHour <= sessionHour
        BY <1>2
      <4> QED BY <1>1, <2>3, <2>5, <3>2, <4>1, <4>2
    <3> QED BY <1>6, <3>1, <3>2
  <2> QED BY <1>1, <1>5, <1>9, <2>6 DEF SoldWasBought
<1> QED BY <1>8, <1>10, <1>11, <1>12 DEF CreditInv

LEMMA HourKeeps ==
    ASSUME CreditInv, SessionHourPasses PROVE CreditInv'
<1>1. /\ sessionHour < LastHour /\ sessionHour' = sessionHour + 1
      /\ judged' = judged /\ coming' = coming /\ bought' = bought /\ sold' = sold
      /\ ownerOf' = ownerOf
  BY DEF SessionHourPasses
<1>2. AttributionTypes /\ sessionHour \in 0 .. LastHour /\ LastHour \in Nat
  BY AttributionAssumption DEF CreditInv, AttributionTypes
<1>3. sessionHour' \in 0 .. LastHour /\ \A at \in Nat : at <= sessionHour => at <= sessionHour'
  BY <1>1, <1>2
<1>4. /\ \A i \in DOMAIN judged : judged[i].at \in Nat
      /\ \A i \in DOMAIN bought : bought[i].at \in Nat
      /\ \A i \in DOMAIN sold : sold[i].at \in Nat
  <2>1. /\ \A i \in DOMAIN judged : judged[i] \in JudgedRows
        /\ \A i \in DOMAIN bought : bought[i] \in BoughtRows
        /\ \A i \in DOMAIN sold : sold[i] \in SoldRows
    BY <1>2 DEF AttributionTypes
  <2> QED BY <2>1 DEF JudgedRows, BoughtRows, SoldRows
<1>5. \A s : /\ OrderedRows(s)' = OrderedRows(s)
             /\ RowsOfSymbol(bought, s)' = RowsOfSymbol(bought, s)
  BY <1>1 DEF OrderedRows, EligibleRows, RowsOfSymbol
<1>6. AttributionTypes'
  BY <1>1, <1>2, <1>3 DEF AttributionTypes
<1>7. JudgedByNow' /\ BoughtInOrder'
  BY <1>1, <1>3, <1>4 DEF CreditInv, JudgedByNow, BoughtInOrder
<1>8. ComingIsOrdered' /\ OwnersBought'
  BY <1>1, <1>5 DEF CreditInv, ComingIsOrdered, OwnersBought
<1>9. \A r, k : IsLastBought(r, k)' = IsLastBought(r, k)
  BY <1>1 DEF IsLastBought, RowsOfSymbol
<1>10. SoldWasBought'
  BY <1>1, <1>3, <1>4, <1>5, <1>9 DEF CreditInv, SoldWasBought
<1> QED BY <1>6, <1>7, <1>8, <1>10 DEF CreditInv

LEMMA AttributionStep == CreditInv /\ [AttributionNext]_attributionVars => CreditInv'
<1> SUFFICES ASSUME CreditInv, [AttributionNext]_attributionVars PROVE CreditInv'
  OBVIOUS
<1>1. ASSUME NEW s \in Symbols, NEW marked \in BOOLEAN, NEW decision \in Decisions,
             Evaluates(s, decision, marked)
      PROVE  CreditInv'
  BY <1>1, EvaluationKeeps
<1>2. ASSUME NEW order \in coming, Buys(order) PROVE CreditInv'
  BY <1>2, BuyingKeeps
<1>3. ASSUME NEW s \in Symbols, NEW n \in 1 .. 2, NEW whole \in BOOLEAN, NEW saved \in BOOLEAN,
             NEW profits \in [1 .. n -> Profits], Sells(s, profits, whole, saved)
      PROVE  CreditInv'
  BY <1>3, SellingKeeps
<1>4. CASE SessionHourPasses
  BY <1>4, HourKeeps
<1>5. CASE UNCHANGED attributionVars
  <2>1. /\ judged' = judged /\ coming' = coming /\ bought' = bought /\ sold' = sold
        /\ ownerOf' = ownerOf /\ sessionHour' = sessionHour
    BY <1>5 DEF attributionVars
  <2>2. /\ \A s : /\ OrderedRows(s)' = OrderedRows(s)
                  /\ RowsOfSymbol(bought, s)' = RowsOfSymbol(bought, s)
        /\ \A r, k : IsLastBought(r, k)' = IsLastBought(r, k)
    BY <2>1 DEF OrderedRows, EligibleRows, RowsOfSymbol, IsLastBought
  <2>3. AttributionTypes' /\ JudgedByNow' /\ BoughtInOrder'
    BY <2>1 DEF CreditInv, AttributionTypes, JudgedByNow, BoughtInOrder
  <2>4. ComingIsOrdered' /\ OwnersBought' /\ SoldWasBought'
    BY <2>1, <2>2 DEF CreditInv, ComingIsOrdered, OwnersBought, SoldWasBought
  <2> QED BY <2>3, <2>4 DEF CreditInv
<1> QED BY <1>1, <1>2, <1>3, <1>4, <1>5 DEF AttributionNext, Decisions

(* What the tables keep to: a purchase is of an evaluation of its ticker   *)
(* that was not blocked, and the last one before a sale is among those     *)
(* that the sale is owed to.                                               *)
THEOREM CreditInductive == AttributionSpec => []CreditInv
  BY AttributionStart, AttributionStep, PTL DEF AttributionSpec

(* A sale that is credited for sure is credited to an evaluation that      *)
(* bought what was sold (performance_digest_matching.py and                *)
(* ..._candidate_matching.py): for any number of evaluations, orders and   *)
(* sales, in the summer and in the winter.                                 *)
THEOREM CreditedIsOwnHolds == AttributionSpec => []CreditedIsOwn
  BY CreditInductive, CreditIsOwn, PTL

-----------------------------------------------------------------------------
(* Sums over finite sets: what MapThenSumSet computes, as a function of    *)
(* the summands f and the set.  Any function g that adds up the subsets    *)
(* of a set in the order of CHOOSE does.                                   *)

AnyOf(s) == CHOOSE x \in s : TRUE
Adds(g, f, S) ==
    g = [s \in SUBSET S |-> IF s = {} THEN 0 ELSE f[AnyOf(s)] + g[s \ {AnyOf(s)}]]
Total(f, S) == (CHOOSE g : Adds(g, f, S))[S]

\* In place of an induction over a finite set: a family of subsets has a member
\* from which nothing can be taken without leaving the family.
LEMMA ASmallestOne ==
    ASSUME NEW S, IsFiniteSet(S), NEW C, C \subseteq SUBSET S, C # {}
    PROVE  \E c \in C : \A x \in c : c \ {x} \notin C
<1>1. \A c \in C : IsFiniteSet(c) /\ Cardinality(c) \in Nat
  BY FS_Subset, FS_CardinalityType
<1> DEFINE sizes == {Cardinality(c) : c \in C}
<1>2. PICK n \in sizes : \A m \in sizes : <<m, n>> \notin OpToRel(<, Nat)
  <2>1. sizes \subseteq Nat /\ sizes # {}
    BY <1>1
  <2> HIDE DEF sizes
  <2> QED BY <2>1, NatLessThanWellFounded, WFMin
<1>3. PICK c \in C : Cardinality(c) = n
  OBVIOUS
<1>4. ASSUME NEW x \in c, c \ {x} \in C PROVE FALSE
  <2>1. Cardinality(c \ {x}) = Cardinality(c) - 1
    BY <1>1, FS_RemoveElement
  <2>2. Cardinality(c) \in Nat /\ Cardinality(c \ {x}) \in Nat
        /\ Cardinality(c \ {x}) \in sizes
    BY <1>1, <1>4
  <2>3. Cardinality(c \ {x}) < n
    BY <1>3, <2>1, <2>2
  <2> QED BY <1>2, <1>3, <2>2, <2>3 DEF OpToRel
<1> QED BY <1>4

LEMMA AddsAgree ==
    ASSUME NEW S, NEW T, NEW f, NEW e, NEW g, NEW h, Adds(g, f, S), Adds(h, e, T),
           NEW U, U \subseteq S, U \subseteq T, IsFiniteSet(U), \A k \in U : f[k] = e[k]
    PROVE  g[U] = h[U]
<1> SUFFICES ASSUME g[U] # h[U] PROVE FALSE
  OBVIOUS
<1> DEFINE C == {c \in SUBSET U : g[c] # h[c]}
<1>1. PICK c \in C : \A x \in c : c \ {x} \notin C
  <2>1. U \in C /\ C \subseteq SUBSET U
    OBVIOUS
  <2> HIDE DEF C
  <2> QED BY <2>1, ASmallestOne
<1>2. c \in SUBSET S /\ c \in SUBSET T /\ c \in SUBSET U
  OBVIOUS
<1>3. /\ g[c] = IF c = {} THEN 0 ELSE f[AnyOf(c)] + g[c \ {AnyOf(c)}]
      /\ h[c] = IF c = {} THEN 0 ELSE e[AnyOf(c)] + h[c \ {AnyOf(c)}]
  <2> HIDE DEF C
  <2> QED BY <1>2 DEF Adds
<1>4. c # {}
  BY <1>1, <1>3
<1>5. AnyOf(c) \in c
  BY <1>4 DEF AnyOf
<1>6. g[c \ {AnyOf(c)}] = h[c \ {AnyOf(c)}]
  BY <1>1, <1>5
<1> QED BY <1>1, <1>2, <1>3, <1>4, <1>5, <1>6

\* Such a function there is.
LEMMA SomethingAdds ==
    ASSUME NEW S, IsFiniteSet(S), NEW f
    PROVE  \E g : Adds(g, f, S)
<1> SUFFICES ASSUME ~ \E g : Adds(g, f, S) PROVE FALSE
  OBVIOUS
<1> DEFINE C == {c \in SUBSET S : ~ \E g : Adds(g, f, c)}
<1>1. PICK c \in C : \A x \in c : c \ {x} \notin C
  <2>1. S \in C /\ C \subseteq SUBSET S
    OBVIOUS
  <2> HIDE DEF C
  <2> QED BY <2>1, ASmallestOne
<1> DEFINE H(t) == CHOOSE g : Adds(g, f, t)
           val(t) == IF t = {} THEN 0 ELSE f[AnyOf(t)] + H(t \ {AnyOf(t)})[t \ {AnyOf(t)}]
           whole == [t \in SUBSET c |-> val(t)]
<1>2. ASSUME NEW t \in SUBSET c, t # c PROVE \E g : Adds(g, f, t)
  <2>1. PICK x \in c : x \notin t
    BY <1>2
  <2>2. c \ {x} \notin C /\ c \ {x} \in SUBSET S
    BY <1>1
  <2>3. PICK g : Adds(g, f, c \ {x})
    BY <2>2
  <2> DEFINE part == [s \in SUBSET t |-> g[s]]
  <2>4. ASSUME NEW s \in SUBSET t
        PROVE  part[s] = IF s = {} THEN 0 ELSE f[AnyOf(s)] + part[s \ {AnyOf(s)}]
    <3>1. s \in SUBSET (c \ {x}) /\ s \ {AnyOf(s)} \in SUBSET t
      BY <2>1
    <3>2. g[s] = IF s = {} THEN 0 ELSE f[AnyOf(s)] + g[s \ {AnyOf(s)}]
      BY <2>3, <3>1 DEF Adds
    <3> QED BY <3>1, <3>2
  <2>5. Adds(part, f, t)
    <3>1. part = [s \in SUBSET t |-> part[s]]
      OBVIOUS
    <3> HIDE DEF part
    <3> QED BY <2>4, <3>1 DEF Adds
  <2> QED BY <2>5
<1>3. ASSUME NEW t \in SUBSET c, t # c PROVE Adds(H(t), f, t)
  BY <1>2, <1>3
<1>4. ASSUME NEW t \in SUBSET c, t # c PROVE H(t)[t] = val(t)
  <2>1. H(t)[t] = IF t = {} THEN 0 ELSE f[AnyOf(t)] + H(t)[t \ {AnyOf(t)}]
    <3> HIDE DEF H
    <3> QED BY <1>3, <1>4 DEF Adds
  <2>2. CASE t = {}
    BY <2>1, <2>2
  <2>3. CASE t # {}
    <3> DEFINE u == t \ {AnyOf(t)}
    <3>1. u \in SUBSET c /\ u # c /\ u \subseteq t /\ IsFiniteSet(u)
      BY <1>4, <2>3, FS_Subset DEF AnyOf
    <3>2. Adds(H(u), f, u) /\ Adds(H(t), f, t)
      BY <1>3, <1>4, <3>1
    <3> HIDE DEF H, u
    <3>3. H(t)[u] = H(u)[u]
      BY <3>1, <3>2, AddsAgree
    <3> QED BY <2>1, <2>3, <3>3 DEF u
  <2> QED BY <2>2, <2>3
<1>5. ASSUME NEW t \in SUBSET c
      PROVE  whole[t] = IF t = {} THEN 0 ELSE f[AnyOf(t)] + whole[t \ {AnyOf(t)}]
  <2>1. CASE t = {}
    BY <2>1
  <2>2. CASE t # {}
    <3> DEFINE u == t \ {AnyOf(t)}
    <3>1. u \in SUBSET c /\ u # c
      BY <2>2 DEF AnyOf
    <3>2. H(u)[u] = val(u)
      BY <1>4, <3>1
    <3>3. whole[u] = val(u)
      BY <3>1
    <3>4. whole[t] = f[AnyOf(t)] + H(u)[u]
      BY <2>2
    <3> QED BY <2>2, <3>2, <3>3, <3>4
  <2> QED BY <2>1, <2>2
<1>6. Adds(whole, f, c)
  <2>1. whole = [s \in SUBSET c |-> whole[s]]
    OBVIOUS
  <2> HIDE DEF whole
  <2> QED BY <1>5, <2>1 DEF Adds
<1> QED BY <1>1, <1>6

LEMMA TotalIsFold ==
    ASSUME NEW S, IsFiniteSet(S), NEW f, NEW e, \A k \in S : f[k] = e[k],
           NEW g, Adds(g, e, S)
    PROVE  g[S] = Total(f, S)
<1> DEFINE h == CHOOSE h : Adds(h, f, S)
<1>1. Adds(h, f, S)
  BY SomethingAdds
<1> HIDE DEF h
<1>2. g[S] = h[S]
  BY <1>1, AddsAgree
<1> QED BY <1>2 DEF Total, h

LEMMA TotalSame ==
    ASSUME NEW S, IsFiniteSet(S), NEW f, NEW e, \A k \in S : f[k] = e[k]
    PROVE  Total(f, S) = Total(e, S)
<1>1. PICK g : Adds(g, e, S)
  BY SomethingAdds
<1>2. g[S] = Total(e, S)
  BY <1>1, TotalIsFold
<1>3. g[S] = Total(f, S)
  BY <1>1, TotalIsFold
<1> QED BY <1>2, <1>3

LEMMA TotalOfNone == ASSUME NEW f PROVE Total(f, {}) = 0
<1>1. PICK g : Adds(g, f, {})
  BY SomethingAdds, FS_EmptySet
<1>2. g[{}] = 0
  BY <1>1 DEF Adds
<1> QED BY <1>1, <1>2, FS_EmptySet, TotalIsFold

LEMMA TotalStep ==
    ASSUME NEW S, IsFiniteSet(S), S # {}, NEW f
    PROVE  \E x \in S : Total(f, S) = f[x] + Total(f, S \ {x})
<1> DEFINE x == AnyOf(S)
           T == S \ {x}
<1>1. x \in S /\ T \subseteq S /\ IsFiniteSet(T)
  BY FS_Subset DEF AnyOf
<1>2. PICK g : Adds(g, f, S)
  BY SomethingAdds
<1>3. PICK h : Adds(h, f, T)
  BY <1>1, SomethingAdds
<1> HIDE DEF T
<1>4. g[S] = Total(f, S) /\ h[T] = Total(f, T)
  BY <1>1, <1>2, <1>3, TotalIsFold
<1>5. g[T] = h[T]
  BY <1>1, <1>2, <1>3, AddsAgree
<1>6. g[S] = f[x] + g[T]
  BY <1>2 DEF Adds, T
<1> QED BY <1>1, <1>4, <1>5, <1>6 DEF T

LEMMA TotalIsInt ==
    ASSUME NEW S, IsFiniteSet(S), NEW f, \A k \in S : f[k] \in Int
    PROVE  Total(f, S) \in Int
<1> SUFFICES ASSUME Total(f, S) \notin Int PROVE FALSE
  OBVIOUS
<1> DEFINE C == {c \in SUBSET S : Total(f, c) \notin Int}
<1>1. PICK c \in C : \A x \in c : c \ {x} \notin C
  <2>1. S \in C /\ C \subseteq SUBSET S
    OBVIOUS
  <2> HIDE DEF C
  <2> QED BY <2>1, ASmallestOne
<1>2. IsFiniteSet(c) /\ c \in SUBSET S /\ Total(f, c) \notin Int
  BY FS_Subset
<1>3. c # {}
  BY <1>2, TotalOfNone
<1>4. PICK x \in c : Total(f, c) = f[x] + Total(f, c \ {x})
  BY <1>2, <1>3, TotalStep
<1>5. Total(f, c \ {x}) \in Int /\ f[x] \in Int
  BY <1>1, <1>2
<1> QED BY <1>2, <1>4, <1>5

\* The order does not matter.
LEMMA TotalWithOne ==
    ASSUME NEW S, IsFiniteSet(S), NEW f, \A k \in S : f[k] \in Int, NEW x \in S
    PROVE  Total(f, S) = f[x] + Total(f, S \ {x})
<1> DEFINE C == {c \in SUBSET S : \E z \in c : Total(f, c) # f[z] + Total(f, c \ {z})}
<1> SUFFICES ASSUME S \in C PROVE FALSE
  OBVIOUS
<1>1. PICK c \in C : \A y \in c : c \ {y} \notin C
  <2>1. C \subseteq SUBSET S
    OBVIOUS
  <2> HIDE DEF C
  <2> QED BY <2>1, ASmallestOne
<1>2. PICK z \in c : Total(f, c) # f[z] + Total(f, c \ {z})
  OBVIOUS
<1>3. IsFiniteSet(c) /\ c \in SUBSET S
  BY FS_Subset
<1>4. PICK y \in c : Total(f, c) = f[y] + Total(f, c \ {y})
  BY <1>2, <1>3, TotalStep
<1>5. y # z
  BY <1>2, <1>4
<1> DEFINE a == c \ {y}
           b == c \ {z}
           d == (c \ {y}) \ {z}
<1>6. d = (c \ {z}) \ {y} /\ z \in a /\ y \in b
  BY <1>2, <1>4, <1>5
<1>7. a \in SUBSET S /\ b \in SUBSET S /\ a \notin C /\ b \notin C
  BY <1>1, <1>2, <1>3, <1>4
<1>8. Total(f, a) = f[z] + Total(f, d) /\ Total(f, b) = f[y] + Total(f, d)
  BY <1>6, <1>7
<1>9. IsFiniteSet(d) /\ d \in SUBSET S
  BY <1>3, FS_Subset
<1>10. f[z] \in Int /\ f[y] \in Int /\ Total(f, d) \in Int
  BY <1>2, <1>3, <1>4, <1>9, TotalIsInt
<1> HIDE DEF a, b, d, C
<1>11. Total(f, c) = f[y] + Total(f, a) /\ Total(f, c) # f[z] + Total(f, b)
  BY <1>2, <1>4 DEF a, b
<1> QED BY <1>8, <1>10, <1>11

LEMMA TotalOfBoth ==
    ASSUME NEW S, NEW T, IsFiniteSet(S), IsFiniteSet(T), S \cap T = {},
           NEW f, \A k \in S \cup T : f[k] \in Int
    PROVE  Total(f, S \cup T) = Total(f, S) + Total(f, T)
<1> DEFINE C == {c \in SUBSET S : Total(f, c \cup T) # Total(f, c) + Total(f, T)}
<1> SUFFICES ASSUME S \in C PROVE FALSE
  OBVIOUS
<1>1. PICK c \in C : \A y \in c : c \ {y} \notin C
  <2>1. C \subseteq SUBSET S
    OBVIOUS
  <2> HIDE DEF C
  <2> QED BY <2>1, ASmallestOne
<1>2. /\ IsFiniteSet(c) /\ c \in SUBSET S /\ IsFiniteSet(c \cup T)
      /\ Total(f, c \cup T) # Total(f, c) + Total(f, T)
  BY FS_Subset, FS_Union
<1>3. Total(f, T) \in Int
  BY TotalIsInt
<1>4. c # {}
  <2>1. ASSUME c = {} PROVE FALSE
    <3>1. Total(f, c \cup T) = Total(f, T) /\ Total(f, c) = 0
      BY <2>1, TotalOfNone
    <3> HIDE DEF C
    <3>2. Total(f, T) # 0 + Total(f, T)
      BY <1>2, <3>1
    <3> QED BY <1>3, <3>2
  <2> QED BY <2>1
<1>5. PICK x \in c : TRUE
  BY <1>4
<1> DEFINE d == c \ {x}
<1>6. (c \cup T) \ {x} = d \cup T /\ d \in SUBSET S /\ d \notin C
  BY <1>1, <1>2, <1>5
<1>7. Total(f, d \cup T) = Total(f, d) + Total(f, T)
  BY <1>6
<1>8. IsFiniteSet(d) /\ f[x] \in Int
  BY <1>2, FS_Subset
<1> HIDE DEF C
<1>9. Total(f, c) = f[x] + Total(f, d) /\ Total(f, c \cup T) = f[x] + Total(f, d \cup T)
  <2>1. (\A k \in c : f[k] \in Int) /\ (\A k \in c \cup T : f[k] \in Int) /\ x \in c \cup T
    BY <1>2
  <2>2. Total(f, c) = f[x] + Total(f, c \ {x})
    BY <1>2, <2>1, TotalWithOne
  <2>3. Total(f, c \cup T) = f[x] + Total(f, (c \cup T) \ {x})
    BY <1>2, <2>1, TotalWithOne
  <2> QED BY <1>6, <2>2, <2>3
<1>10. Total(f, d) \in Int
  BY <1>2, <1>6, <1>8, TotalIsInt
<1> HIDE DEF d
<1> QED BY <1>2, <1>3, <1>7, <1>8, <1>9, <1>10

LEMMA TotalOfOnes ==
    ASSUME NEW S, IsFiniteSet(S), NEW f, \A k \in S : f[k] = 1
    PROVE  Total(f, S) = Cardinality(S)
<1> DEFINE C == {c \in SUBSET S : Total(f, c) # Cardinality(c)}
<1> SUFFICES ASSUME S \in C PROVE FALSE
  OBVIOUS
<1>1. PICK c \in C : \A y \in c : c \ {y} \notin C
  <2>1. C \subseteq SUBSET S
    OBVIOUS
  <2> HIDE DEF C
  <2> QED BY <2>1, ASmallestOne
<1>2. IsFiniteSet(c) /\ c \in SUBSET S /\ Total(f, c) # Cardinality(c)
  BY FS_Subset
<1>3. c # {}
  BY <1>2, TotalOfNone, FS_EmptySet
<1>4. PICK x \in c : Total(f, c) = f[x] + Total(f, c \ {x})
  BY <1>2, <1>3, TotalStep
<1>5. Total(f, c \ {x}) = Cardinality(c \ {x}) /\ f[x] = 1
  BY <1>1, <1>2
<1>6. Cardinality(c \ {x}) = Cardinality(c) - 1 /\ Cardinality(c) \in Nat
  BY <1>2, FS_RemoveElement, FS_CardinalityType
<1> HIDE DEF C
<1>7. Total(f, c) = Cardinality(c)
  BY <1>4, <1>5, <1>6
<1> QED BY <1>2, <1>7

\* A sum of sums over disjoint parts is the sum over all of them.
LEMMA TotalOfParts ==
    ASSUME NEW A, IsFiniteSet(A), NEW D, IsFiniteSet(D), NEW part \in [A -> SUBSET D],
           \A i, j \in A : i # j => part[i] \cap part[j] = {},
           NEW f, \A k \in D : f[k] \in Int,
           NEW e, \A i \in A : e[i] = Total(f, part[i])
    PROVE  Total(e, A) = Total(f, UNION {part[i] : i \in A})
<1> DEFINE all(c) == UNION {part[i] : i \in c}
           C == {c \in SUBSET A : Total(e, c) # Total(f, all(c))}
<1> SUFFICES ASSUME A \in C PROVE FALSE
  OBVIOUS
<1>1. PICK c \in C : \A y \in c : c \ {y} \notin C
  <2>1. C \subseteq SUBSET A
    OBVIOUS
  <2> HIDE DEF C
  <2> QED BY <2>1, ASmallestOne
<1>2. IsFiniteSet(c) /\ c \in SUBSET A /\ Total(e, c) # Total(f, all(c))
  BY FS_Subset
<1>3. c # {}
  <2>1. ASSUME c = {} PROVE FALSE
    <3>1. all(c) = {}
      BY <2>1
    <3> QED BY <1>2, <2>1, <3>1, TotalOfNone
  <2> QED BY <2>1
<1>4. PICK x \in c : Total(e, c) = e[x] + Total(e, c \ {x})
  BY <1>2, <1>3, TotalStep
<1> DEFINE d == c \ {x}
<1>5. Total(e, d) = Total(f, all(d)) /\ e[x] = Total(f, part[x])
  BY <1>1, <1>2
<1>6. /\ all(c) = all(d) \cup part[x] /\ all(d) \cap part[x] = {}
      /\ all(d) \subseteq D /\ part[x] \subseteq D
  BY <1>2
<1>7. IsFiniteSet(all(d)) /\ IsFiniteSet(part[x])
  BY <1>6, FS_Subset
<1> HIDE DEF all, C, d
<1>8. /\ Total(f, all(c)) = Total(f, all(d)) + Total(f, part[x])
      /\ Total(f, all(d)) \in Int /\ Total(f, part[x]) \in Int
  <2>1. /\ \A k \in all(d) \cup part[x] : f[k] \in Int
        /\ \A k \in all(d) : f[k] \in Int
        /\ \A k \in part[x] : f[k] \in Int
    BY <1>6
  <2> QED BY <1>6, <1>7, <2>1, TotalOfBoth, TotalIsInt
<1> QED BY <1>2, <1>4, <1>5, <1>8 DEF d
LEMMA TotalOfZeros ==
    ASSUME NEW S, IsFiniteSet(S), NEW f, \A k \in S : f[k] = 0
    PROVE  Total(f, S) = 0
<1> DEFINE C == {c \in SUBSET S : Total(f, c) # 0}
<1> SUFFICES ASSUME S \in C PROVE FALSE
  OBVIOUS
<1>1. PICK c \in C : \A y \in c : c \ {y} \notin C
  <2>1. C \subseteq SUBSET S
    OBVIOUS
  <2> HIDE DEF C
  <2> QED BY <2>1, ASmallestOne
<1>2. IsFiniteSet(c) /\ c \in SUBSET S /\ Total(f, c) # 0
  BY FS_Subset
<1>3. c # {}
  BY <1>2, TotalOfNone
<1>4. PICK x \in c : Total(f, c) = f[x] + Total(f, c \ {x})
  BY <1>2, <1>3, TotalStep
<1>5. Total(f, c \ {x}) = 0 /\ f[x] = 0
  BY <1>1, <1>2
<1> HIDE DEF C
<1>6. Total(f, c) = 0
  BY <1>4, <1>5
<1> QED BY <1>2, <1>6

-----------------------------------------------------------------------------
(* What the reports add up.                                               *)

Credited == UNION {SalesOf(i) : i \in AllCandidateRows}

LEMMA ProfitIsInt == ASSUME CreditInv, NEW k \in DOMAIN sold PROVE ProfitOf(k) \in Int
<1>1. sold[k] \in SoldRows
  BY DEF CreditInv, AttributionTypes
<1>2. sold[k].profit \in Int
  BY <1>1, AttributionAssumption DEF SoldRows
<1> QED BY <1>2 DEF ProfitOf

LEMMA ProfitSumIsTotal ==
    ASSUME CreditInv, NEW rows, rows \subseteq DOMAIN sold
    PROVE  /\ ProfitSum(rows) = Total([k \in DOMAIN sold |-> ProfitOf(k)], rows)
           /\ ProfitSum(rows) \in Int
<1> DEFINE f == [k \in DOMAIN sold |-> ProfitOf(k)]
           folds(h) == h = [s \in SUBSET rows |->
                              IF s = {} THEN 0
                              ELSE ProfitOf(CHOOSE x \in s : TRUE)
                                   + h[s \ {CHOOSE x \in s : TRUE}]]
           g == CHOOSE h : folds(h)
<1>1. IsFiniteSet(rows) /\ \A k \in rows : f[k] \in Int
  <2>1. sold \in Seq(SoldRows) /\ Len(sold) \in Nat /\ DOMAIN sold = 1 .. Len(sold)
    BY DEF CreditInv, AttributionTypes
  <2>2. \A k \in rows : f[k] \in Int
    BY ProfitIsInt
  <2>3. IsFiniteSet(1 .. Len(sold))
    BY <2>1, FS_Interval
  <2>4. IsFiniteSet(rows)
    BY <2>1, <2>3, FS_Subset
  <2> HIDE DEF f
  <2> QED BY <2>2, <2>4
<1>2. PICK h : Adds(h, f, rows)
  BY <1>1, SomethingAdds
<1>3. \A e : folds(e) <=> Adds(e, f, rows)
  <2> DEFINE of(e, s) == IF s = {} THEN 0 ELSE f[AnyOf(s)] + e[s \ {AnyOf(s)}]
             folded(e, s) == IF s = {} THEN 0
                             ELSE ProfitOf(CHOOSE x \in s : TRUE)
                                  + e[s \ {CHOOSE x \in s : TRUE}]
  <2>1. ASSUME NEW e, NEW s \in SUBSET rows PROVE of(e, s) = folded(e, s)
    BY DEF AnyOf
  <2>2. \A e : (Adds(e, f, rows) <=> e = [s \in SUBSET rows |-> of(e, s)])
               /\ (folds(e) <=> e = [s \in SUBSET rows |-> folded(e, s)])
    BY DEF Adds
  <2> HIDE DEF of, folded, folds
  <2> QED BY <2>1, <2>2
<1>4. Adds(g, f, rows)
  <2>1. folds(h)
    BY <1>2, <1>3
  <2>2. folds(g)
    <3> HIDE DEF folds
    <3> QED BY <2>1
  <2> HIDE DEF g, folds
  <2> QED BY <1>3, <2>2
<1>5. ProfitSum(rows) = g[rows]
  BY DEF ProfitSum, MapThenSumSet, MapThenFoldSet
<1> HIDE DEF f, g
<1>6. g[rows] = Total(f, rows) /\ Total(f, rows) \in Int
  BY <1>1, <1>4, TotalIsFold, TotalIsInt
<1> QED BY <1>5, <1>6 DEF f

LEMMA MatchedCountIsTotal ==
    ASSUME IsFiniteSet(AllCandidateRows)
    PROVE  MatchedCount = Total([i \in AllCandidateRows |-> Cardinality(SalesOf(i))],
                                AllCandidateRows)
<1> DEFINE A == AllCandidateRows
           f == [i \in A |-> Cardinality(SalesOf(i))]
           folds(h) == h = [s \in SUBSET A |->
                              IF s = {} THEN 0
                              ELSE Cardinality(SalesOf(CHOOSE x \in s : TRUE))
                                   + h[s \ {CHOOSE x \in s : TRUE}]]
           g == CHOOSE h : folds(h)
<1>1. PICK h : Adds(h, f, A)
  BY SomethingAdds
<1>2. \A e : folds(e) <=> Adds(e, f, A)
  <2> DEFINE of(e, s) == IF s = {} THEN 0 ELSE f[AnyOf(s)] + e[s \ {AnyOf(s)}]
             folded(e, s) == IF s = {} THEN 0
                             ELSE Cardinality(SalesOf(CHOOSE x \in s : TRUE))
                                  + e[s \ {CHOOSE x \in s : TRUE}]
  <2>1. ASSUME NEW e, NEW s \in SUBSET A PROVE of(e, s) = folded(e, s)
    BY DEF AnyOf
  <2>2. \A e : (Adds(e, f, A) <=> e = [s \in SUBSET A |-> of(e, s)])
               /\ (folds(e) <=> e = [s \in SUBSET A |-> folded(e, s)])
    BY DEF Adds
  <2> HIDE DEF of, folded, folds
  <2> QED BY <2>1, <2>2
<1>3. Adds(g, f, A)
  <2>1. folds(h)
    BY <1>1, <1>2
  <2>2. folds(g)
    <3> HIDE DEF folds
    <3> QED BY <2>1
  <2> HIDE DEF g, folds
  <2> QED BY <1>2, <2>2
<1>4. MatchedCount = g[A]
  BY DEF MatchedCount, MapThenSumSet, MapThenFoldSet
<1> HIDE DEF f, g
<1>5. g[A] = Total(f, A)
  BY <1>3, TotalIsFold
<1> QED BY <1>4, <1>5 DEF f

LEMMA MatchedProfitIsTotal ==
    ASSUME IsFiniteSet(AllCandidateRows)
    PROVE  MatchedProfit = Total([i \in AllCandidateRows |-> ProfitSum(SalesOf(i))],
                                 AllCandidateRows)
<1> DEFINE A == AllCandidateRows
           f == [i \in A |-> ProfitSum(SalesOf(i))]
           folds(h) == h = [s \in SUBSET A |->
                              IF s = {} THEN 0
                              ELSE ProfitSum(SalesOf(CHOOSE x \in s : TRUE))
                                   + h[s \ {CHOOSE x \in s : TRUE}]]
           g == CHOOSE h : folds(h)
<1>1. PICK h : Adds(h, f, A)
  BY SomethingAdds
<1>2. \A e : folds(e) <=> Adds(e, f, A)
  <2> DEFINE of(e, s) == IF s = {} THEN 0 ELSE f[AnyOf(s)] + e[s \ {AnyOf(s)}]
             folded(e, s) == IF s = {} THEN 0
                             ELSE ProfitSum(SalesOf(CHOOSE x \in s : TRUE))
                                  + e[s \ {CHOOSE x \in s : TRUE}]
  <2>1. ASSUME NEW e, NEW s \in SUBSET A PROVE of(e, s) = folded(e, s)
    BY DEF AnyOf
  <2>2. \A e : (Adds(e, f, A) <=> e = [s \in SUBSET A |-> of(e, s)])
               /\ (folds(e) <=> e = [s \in SUBSET A |-> folded(e, s)])
    BY DEF Adds
  <2> HIDE DEF of, folded, folds
  <2> QED BY <2>1, <2>2
<1>3. Adds(g, f, A)
  <2>1. folds(h)
    BY <1>1, <1>2
  <2>2. folds(g)
    <3> HIDE DEF folds
    <3> QED BY <2>1
  <2> HIDE DEF g, folds
  <2> QED BY <1>2, <2>2
<1>4. MatchedProfit = g[A]
  BY DEF MatchedProfit, MapThenSumSet, MapThenFoldSet
<1> HIDE DEF f, g
<1>5. g[A] = Total(f, A)
  BY <1>3, TotalIsFold
<1> QED BY <1>4, <1>5 DEF f

\* The candidates of different tickers sell different rows, and of a ticker there
\* is at most one.
LEMMA SalesAreApart ==
    ASSUME CreditInv
    PROVE  /\ AllCandidateRows \subseteq DOMAIN judged /\ IsFiniteSet(AllCandidateRows)
           /\ IsFiniteSet(DOMAIN sold) /\ Cardinality(DOMAIN sold) = Len(sold)
           /\ \A i \in AllCandidateRows : SalesOf(i) \subseteq DOMAIN sold
           /\ \A i, j \in AllCandidateRows : i # j => SalesOf(i) \cap SalesOf(j) = {}
<1>1. /\ judged \in Seq(JudgedRows) /\ sold \in Seq(SoldRows)
      /\ DOMAIN judged = 1 .. Len(judged) /\ DOMAIN sold = 1 .. Len(sold)
      /\ Len(judged) \in Nat /\ Len(sold) \in Nat
  BY DEF CreditInv, AttributionTypes
<1>2. AllCandidateRows \subseteq DOMAIN judged
  BY DEF AllCandidateRows, CandidateRows, EligibleRows, RowsOfSymbol
<1>3. /\ IsFiniteSet(1 .. Len(judged))
      /\ IsFiniteSet(1 .. Len(sold)) /\ Cardinality(1 .. Len(sold)) = Len(sold)
  <2>1. 1 \in Int /\ Len(judged) \in Int /\ Len(sold) \in Int
    BY <1>1
  <2>2. /\ IsFiniteSet(1 .. Len(judged)) /\ IsFiniteSet(1 .. Len(sold))
        /\ Cardinality(1 .. Len(sold)) = IF 1 > Len(sold) THEN 0 ELSE Len(sold) - 1 + 1
    BY <2>1, FS_Interval
  <2> QED BY <1>1, <2>2
<1>4. IsFiniteSet(AllCandidateRows)
  BY <1>1, <1>2, <1>3, FS_Subset
<1>5. \A i : SalesOf(i) \subseteq DOMAIN sold
  BY DEF SalesOf, RowsOfSymbol
<1>6. ASSUME NEW i \in AllCandidateRows, NEW j \in AllCandidateRows,
             NEW k \in SalesOf(i), k \in SalesOf(j)
      PROVE  i = j
  <2>1. /\ sold[k].symbol = judged[i].symbol /\ sold[k].symbol = judged[j].symbol
    BY <1>6 DEF SalesOf, RowsOfSymbol
  <2>2. PICK s \in Symbols : i \in CandidateRows(s)
    BY DEF AllCandidateRows
  <2>3. PICK t \in Symbols : j \in CandidateRows(t)
    BY DEF AllCandidateRows
  <2>4. s = t /\ i \in EligibleRows(s) /\ j \in EligibleRows(s)
    BY <2>1, <2>2, <2>3 DEF CandidateRows, EligibleRows, RowsOfSymbol
  <2>5. i <= j /\ j <= i
    BY <2>2, <2>3, <2>4 DEF CandidateRows
  <2>6. i \in Nat /\ j \in Nat
    BY <1>1, <1>2
  <2> QED BY <2>5, <2>6
<1> QED BY <1>1, <1>2, <1>3, <1>4, <1>5, <1>6

LEMMA MatchedIsCredited ==
    ASSUME CreditInv
    PROVE  /\ Credited \subseteq DOMAIN sold
           /\ MatchedCount = Cardinality(Credited)
           /\ MatchedProfit = ProfitSum(Credited)
<1> DEFINE A == AllCandidateRows
           D == DOMAIN sold
           part == [i \in A |-> SalesOf(i)]
           one == [k \in D |-> 1]
           earned == [k \in D |-> ProfitOf(k)]
           count == [i \in A |-> Cardinality(SalesOf(i))]
           profit == [i \in A |-> ProfitSum(SalesOf(i))]
<1>1. /\ IsFiniteSet(A) /\ IsFiniteSet(D) /\ part \in [A -> SUBSET D]
      /\ \A i, j \in A : i # j => part[i] \cap part[j] = {}
      /\ \A i \in A : IsFiniteSet(part[i]) /\ part[i] = SalesOf(i)
  <2>1. \A i \in A : SalesOf(i) \subseteq D
    BY SalesAreApart
  <2>2. IsFiniteSet(A) /\ IsFiniteSet(D)
    BY SalesAreApart
  <2>3. \A i \in A : IsFiniteSet(SalesOf(i))
    BY <2>1, <2>2, FS_Subset
  <2> QED BY <2>1, <2>2, <2>3, SalesAreApart
<1>2. Credited = UNION {part[i] : i \in A} /\ Credited \subseteq D
  BY <1>1 DEF Credited
<1>3. /\ \A k \in D : one[k] \in Int /\ one[k] = 1
      /\ \A i \in A : count[i] = Cardinality(part[i]) /\ profit[i] = ProfitSum(part[i])
  BY <1>1
<1>4. \A k \in D : earned[k] \in Int
  BY ProfitIsInt
<1>5. \A rows \in SUBSET D : ProfitSum(rows) = Total(earned, rows)
  BY ProfitSumIsTotal
<1>6. MatchedCount = Total(count, A) /\ MatchedProfit = Total(profit, A)
  BY <1>1, MatchedCountIsTotal, MatchedProfitIsTotal
<1>7. IsFiniteSet(Credited)
  BY <1>1, <1>2, FS_Subset
<1> HIDE DEF A, D, part, one, earned, count, profit
<1>8. \A i \in A : part[i] \in SUBSET D /\ IsFiniteSet(part[i])
  BY <1>1
<1>9. ASSUME NEW i \in A
      PROVE  count[i] = Total(one, part[i]) /\ profit[i] = Total(earned, part[i])
  <2>1. \A k \in part[i] : one[k] = 1
    BY <1>3, <1>8
  <2>2. Total(one, part[i]) = Cardinality(part[i])
    BY <1>8, <2>1, TotalOfOnes
  <2> QED BY <1>3, <1>5, <1>8, <2>2
<1>10. Total(count, A) = Total(one, UNION {part[i] : i \in A})
  BY <1>1, <1>3, <1>9, TotalOfParts
<1>11. Total(profit, A) = Total(earned, UNION {part[i] : i \in A})
  BY <1>1, <1>4, <1>9, TotalOfParts
<1>12. Total(one, Credited) = Cardinality(Credited)
  BY <1>2, <1>3, <1>7, TotalOfOnes
<1> QED BY <1>2, <1>5, <1>6, <1>10, <1>11, <1>12 DEF D

\* Rows without a profit add nothing.
LEMMA ExitReasonIsAll ==
    ASSUME CreditInv PROVE ExitReasonProfit = ProfitSum(DOMAIN sold)
<1> DEFINE D == DOMAIN sold
           K == {k \in D : sold[k].profit # NoProfit}
           N == D \ K
           earned == [k \in D |-> ProfitOf(k)]
           nothing == [k \in D |-> 0]
<1>1. IsFiniteSet(D) /\ IsFiniteSet(K) /\ IsFiniteSet(N) /\ K \cap N = {} /\ K \cup N = D
  BY SalesAreApart, FS_Subset
<1>2. \A k \in D : earned[k] \in Int
  BY ProfitIsInt
<1>3. /\ ProfitSum(K) = Total(earned, K) /\ ProfitSum(N) = Total(earned, N)
      /\ ProfitSum(D) = Total(earned, D) /\ Total(earned, K) \in Int
  BY ProfitSumIsTotal
<1>4. \A k \in N : earned[k] = 0
  BY DEF ProfitOf
<1> HIDE DEF D, K, N, earned
<1>5. Total(earned, D) = Total(earned, K) + Total(earned, N)
  BY <1>1, <1>2, TotalOfBoth
<1>6. Total(earned, N) = 0
  BY <1>1, <1>4, TotalOfZeros
<1> QED BY <1>3, <1>5, <1>6 DEF D, K, ExitReasonProfit

-----------------------------------------------------------------------------
\* The summary is saved with a sum of what was sold.
SummaryInv == CreditInv /\ runProfit \in Int

LEMMA SumOfAllIsInt == CreditInv => ProfitSum(DOMAIN sold) \in Int
  BY ProfitSumIsTotal

LEMMA SummaryStep == SummaryInv /\ [AttributionNext]_attributionVars => SummaryInv'
<1> SUFFICES ASSUME SummaryInv, [AttributionNext]_attributionVars PROVE SummaryInv'
  OBVIOUS
<1>1. CreditInv /\ CreditInv'
  BY AttributionStep DEF SummaryInv
<1>2. (ProfitSum(DOMAIN sold) \in Int)'
  BY <1>1, SumOfAllIsInt, PTL
<1>3. runProfit' = runProfit \/ runProfit' = ProfitSum(DOMAIN sold)'
  BY DEF AttributionNext, Evaluates, Buys, Sells, SessionHourPasses, attributionVars
<1> QED BY <1>1, <1>2, <1>3 DEF SummaryInv

\* What is called sound was read in full, and counted.
LEMMA OkIsFull ==
    ASSUME SummaryInv, NEW failing, DataStatus(failing) = "OK"
    PROVE  /\ failing = {} /\ SampleSize <= Len(sold) /\ Len(sold) <= MatchedCount
           /\ RealizedProfit(failing) = ProfitSum(DOMAIN sold)
           /\ Distance(ProfitSum(DOMAIN sold), runProfit) <= OkGap
<1>1. /\ Len(sold) \in Nat /\ ProfitSum(DOMAIN sold) \in Int /\ runProfit \in Int
      /\ MatchedCount \in Nat /\ OkGap \in Nat /\ FailGap \in Nat /\ SampleSize \in Nat
  <2>1. CreditInv
    BY DEF SummaryInv
  <2>2. MatchedCount \in Nat
    BY <2>1, MatchedIsCredited, SalesAreApart, FS_Subset, FS_CardinalityType
  <2>3. ProfitSum(DOMAIN sold) \in Int
    BY <2>1, ProfitSumIsTotal
  <2> QED BY <2>1, <2>2, <2>3, AttributionAssumption DEF SummaryInv, CreditInv, AttributionTypes
<1>2. ~HasNotes(failing) /\ GapStatus(failing) \notin {"WARN", "FAIL"}
  BY DEF DataStatus
<1>3. failing = {}
  BY <1>2 DEF HasNotes
<1>4. RealizedCount(failing) = Len(sold) /\ RealizedProfit(failing) = ProfitSum(DOMAIN sold)
  BY <1>3 DEF RealizedCount, RealizedProfit, ByDay, FillRows, Sheet
<1>5. MatchedTrades(failing) = MatchedCount
  BY <1>3 DEF MatchedTrades
<1>6. Gap(failing) = Distance(ProfitSum(DOMAIN sold), runProfit)
  BY <1>3, <1>4 DEF Gap, Sheet
<1>7. Gap(failing) \in Int
  BY <1>1, <1>6 DEF Distance
<1>8. Gap(failing) <= OkGap
  BY <1>1, <1>2, <1>7 DEF GapStatus
<1>9. SampleSize <= Len(sold) /\ Len(sold) <= MatchedCount
  <2>1. MatchedTrades(failing) = NotCounted \/ ~(MatchedCount < Len(sold))
    BY <1>2, <1>4, <1>5 DEF HasNotes
  <2>2. MatchedCount # NotCounted
    BY <1>1 DEF NotCounted
  <2>3. ~(Len(sold) < SampleSize)
    BY <1>2, <1>4 DEF HasNotes
  <2> QED BY <1>1, <1>5, <2>1, <2>2, <2>3
<1> QED BY <1>3, <1>4, <1>6, <1>8, <1>9

LEMMA OkCovers == SummaryInv => OkCoversEverySale
<1> SUFFICES ASSUME SummaryInv, NEW failing,
                    DataStatus(failing) = "OK" \/ ScoreSourceConfidence(failing) # "LOW"
             PROVE  /\ failing = {} /\ Len(sold) >= SampleSize
                    /\ \A k \in DOMAIN sold :
                          Cardinality({i \in AllCandidateRows : k \in SalesOf(i)}) = 1
                    /\ {RealizedProfit(failing), MatchedProfit, ExitReasonProfit}
                       = {ProfitSum(DOMAIN sold)}
                    /\ Distance(ProfitSum(DOMAIN sold), runProfit) <= OkGap
  BY DEF OkCoversEverySale
<1>1. DataStatus(failing) = "OK"
  BY DEF ScoreSourceConfidence, Confidence
<1>2. /\ failing = {} /\ SampleSize <= Len(sold) /\ Len(sold) <= MatchedCount
      /\ RealizedProfit(failing) = ProfitSum(DOMAIN sold)
      /\ Distance(ProfitSum(DOMAIN sold), runProfit) <= OkGap
  BY <1>1, OkIsFull
<1>3. CreditInv
  BY DEF SummaryInv
<1>4. Credited = DOMAIN sold
  <2>1. /\ Credited \subseteq DOMAIN sold /\ IsFiniteSet(DOMAIN sold)
        /\ Cardinality(DOMAIN sold) <= Cardinality(Credited)
    BY <1>2, <1>3, MatchedIsCredited, SalesAreApart
  <2>2. /\ Cardinality(Credited) \in Nat /\ Cardinality(DOMAIN sold) \in Nat
        /\ Credited # DOMAIN sold => Cardinality(Credited) < Cardinality(DOMAIN sold)
    BY <2>1, FS_Subset, FS_CardinalityType
  <2> QED BY <2>1, <2>2
<1>5. MatchedProfit = ProfitSum(DOMAIN sold) /\ ExitReasonProfit = ProfitSum(DOMAIN sold)
  BY <1>3, <1>4, MatchedIsCredited, ExitReasonIsAll
<1>6. ASSUME NEW k \in DOMAIN sold
      PROVE  Cardinality({i \in AllCandidateRows : k \in SalesOf(i)}) = 1
  <2>1. PICK i \in AllCandidateRows : k \in SalesOf(i)
    BY <1>4 DEF Credited
  <2>2. {j \in AllCandidateRows : k \in SalesOf(j)} = {i}
    BY <1>3, <2>1, SalesAreApart
  <2> QED BY <2>2, FS_Singleton
<1> QED BY <1>2, <1>5, <1>6, AttributionAssumption DEF SummaryInv, CreditInv, AttributionTypes

(* On a date with candidates, whichever sheets of the report fail: what    *)
(* performance_digest.py calls sound, or trusts more than little, was read *)
(* in full, and every sale is behind exactly one candidate, with the same  *)
(* profit by day, by exit reason, by score and by source: for any tickers, *)
(* profits, bounds and any number of evaluations and sales.                *)
THEOREM OkCoversEverySaleHolds == AttributionSpec => []OkCoversEverySale
<1>1. AttributionInit => SummaryInv
  BY AttributionStart DEF SummaryInv, AttributionInit
<1> QED BY <1>1, SummaryStep, OkCovers, PTL DEF AttributionSpec

-----------------------------------------------------------------------------
(* The review of the fills of an order (FillReview).                       *)

(* Sums over finite sets, further: in which order, and how they compare.   *)

LEMMA TotalOfOne == ASSUME NEW f, NEW x, f[x] \in Int PROVE Total(f, {x}) = f[x]
<1>1. IsFiniteSet({x}) /\ {x} \ {x} = {}
  BY FS_Singleton
<1> QED BY <1>1, TotalWithOne, TotalOfNone

\* The elements of A are those of B under other names.
OneToOne(p, A, B) ==
    /\ p \in [A -> B]
    /\ \A i, j \in A : i # j => p[i] # p[j]
    /\ \A k \in B : \E i \in A : p[i] = k

\* The summands e of A are the summands f of B.
Rearranged(e, A, f, B) == \E p : OneToOne(p, A, B) /\ \A i \in A : e[i] = f[p[i]]

\* The order of the summands is of no account.
LEMMA TotalMoved ==
    ASSUME NEW A, NEW B, IsFiniteSet(A), IsFiniteSet(B),
           NEW f, \A k \in B : f[k] \in Int, NEW e, Rearranged(e, A, f, B)
    PROVE  Total(e, A) = Total(f, B)
<1> PICK p : OneToOne(p, A, B) /\ \A i \in A : e[i] = f[p[i]]
  BY DEF Rearranged
<1> DEFINE part == [i \in A |-> {p[i]}]
<1>0. /\ \A i \in A : p[i] \in B
      /\ \A i, j \in A : i # j => p[i] # p[j]
      /\ \A k \in B : \E i \in A : p[i] = k
  BY DEF OneToOne
<1>1. part \in [A -> SUBSET B] /\ (\A i, j \in A : i # j => part[i] \cap part[j] = {})
  BY <1>0
<1>2. UNION {part[i] : i \in A} = B
  BY <1>0
<1>3. \A i \in A : e[i] = Total(f, part[i])
  <2> TAKE i \in A
  <2>1. f[p[i]] \in Int /\ e[i] = f[p[i]] /\ part[i] = {p[i]}
    BY <1>0
  <2>2. Total(f, {p[i]}) = f[p[i]]
    BY <2>1, TotalOfOne
  <2> HIDE DEF part
  <2> QED BY <2>1, <2>2
<1> HIDE DEF part
<1>4. Total(e, A) = Total(f, UNION {part[i] : i \in A})
  BY <1>1, <1>3, TotalOfParts
<1> QED BY <1>2, <1>4

\* Larger summands come to no less.
LEMMA TotalAtLeast ==
    ASSUME NEW S, IsFiniteSet(S), NEW f, NEW e,
           \A k \in S : f[k] \in Int /\ e[k] \in Int /\ f[k] <= e[k]
    PROVE  Total(f, S) <= Total(e, S)
<1> DEFINE C == {c \in SUBSET S : ~(Total(f, c) <= Total(e, c))}
<1> SUFFICES ASSUME S \in C PROVE FALSE
  OBVIOUS
<1>1. PICK c \in C : \A y \in c : c \ {y} \notin C
  <2>1. C \subseteq SUBSET S
    OBVIOUS
  <2> HIDE DEF C
  <2> QED BY <2>1, ASmallestOne
<1>2. IsFiniteSet(c) /\ c \in SUBSET S /\ ~(Total(f, c) <= Total(e, c))
  BY FS_Subset
<1>3. c # {}
  BY <1>2, TotalOfNone
<1>4. PICK x \in c : TRUE
  BY <1>3
<1> DEFINE d == c \ {x}
<1>5. Total(f, c) = f[x] + Total(f, d) /\ Total(e, c) = e[x] + Total(e, d)
  BY <1>2, TotalWithOne
<1>6. IsFiniteSet(d) /\ d \in SUBSET S
  BY <1>2, FS_Subset
<1>7. Total(f, d) \in Int /\ Total(e, d) \in Int
  BY <1>6, TotalIsInt
<1>8. Total(f, d) <= Total(e, d) /\ f[x] \in Int /\ e[x] \in Int /\ f[x] <= e[x]
  BY <1>1, <1>2, <1>6
<1> HIDE DEF C, d
<1> QED BY <1>2, <1>5, <1>7, <1>8

\* Summands that are no smaller and come to the same are the same.
LEMMA TotalTight ==
    ASSUME NEW S, IsFiniteSet(S), NEW f, NEW e,
           \A k \in S : f[k] \in Int /\ e[k] \in Int /\ f[k] <= e[k],
           Total(f, S) = Total(e, S), NEW x \in S
    PROVE  f[x] = e[x]
<1> DEFINE d == S \ {x}
<1>1. Total(f, S) = f[x] + Total(f, d) /\ Total(e, S) = e[x] + Total(e, d)
  BY TotalWithOne
<1>2. IsFiniteSet(d) /\ \A k \in d : k \in S
  BY FS_Subset
<1>3. Total(f, d) \in Int /\ Total(e, d) \in Int /\ Total(f, d) <= Total(e, d)
  BY <1>2, TotalIsInt, TotalAtLeast
<1>4. f[x] \in Int /\ e[x] \in Int /\ f[x] <= e[x]
  OBVIOUS
<1>5. f[x] + Total(f, d) = e[x] + Total(e, d)
  BY <1>1
<1> HIDE DEF d
<1> QED BY <1>3, <1>4, <1>5

\* Positive summands: the whole is more than a part of it.
LEMMA TotalIsMore ==
    ASSUME NEW S, IsFiniteSet(S), NEW f, \A k \in S : f[k] \in Nat \ {0},
           NEW T \in SUBSET S, NEW x \in S \ T
    PROVE  Total(f, T) < Total(f, S)
<1> DEFINE rest == S \ T
           none == [k \in rest \ {x} |-> 0]
<1>1. IsFiniteSet(T) /\ IsFiniteSet(rest) /\ IsFiniteSet(rest \ {x})
      /\ T \cup rest = S /\ T \cap rest = {} /\ x \in rest
  BY FS_Subset
<1>2. (\A k \in T : f[k] \in Int) /\ (\A k \in rest : f[k] \in Int) /\ (\A k \in T \cup rest : f[k] \in Int)
  BY <1>1
<1>3. Total(f, S) = Total(f, T) + Total(f, rest) /\ Total(f, T) \in Int
  BY <1>1, <1>2, TotalOfBoth, TotalIsInt
<1>4. Total(f, rest) = f[x] + Total(f, rest \ {x}) /\ Total(f, rest \ {x}) \in Int
  BY <1>1, <1>2, TotalWithOne, TotalIsInt
<1>5. Total(none, rest \ {x}) <= Total(f, rest \ {x})
  <2>1. \A k \in rest \ {x} : none[k] \in Int /\ f[k] \in Int /\ none[k] <= f[k]
    OBVIOUS
  <2> HIDE DEF none, rest
  <2> QED BY <1>1, <2>1, TotalAtLeast
<1>6. Total(none, rest \ {x}) = 0
  BY <1>1, TotalOfZeros
<1>7. f[x] \in Nat \ {0}
  OBVIOUS
<1> HIDE DEF rest, none
<1> QED BY <1>3, <1>4, <1>5, <1>6, <1>7

-----------------------------------------------------------------------------
(* What the rows of an order add up to.                                    *)

\* Parts of an order, q shares with a profit of p each, and rows that record
\* the first c of them up to there and the others alone.
RecordedAs(n, q, p, c, s, u) ==
    /\ c \in 0 .. n
    /\ \A i \in 1 .. n : q[i] \in Nat \ {0}
    /\ \A i \in 1 .. n : p[i] \in Int
    /\ \A i \in 1 .. n : s[i] = IF i <= c THEN Total(q, 1 .. i) ELSE q[i]
    /\ \A i \in 1 .. n : u[i] = IF i <= c THEN Total(p, 1 .. i) ELSE p[i]

\* Rows that come to all shares are of one part each, and have all the profit; a
\* row that has all shares is the last of cumulative ones.
LEMMA RecordedTotals ==
    ASSUME NEW n \in Nat, n > 1, NEW q, NEW p, NEW c, NEW s, NEW u, RecordedAs(n, q, p, c, s, u)
    PROVE  /\ Total(s, 1 .. n) = Total(q, 1 .. n) => Total(u, 1 .. n) = Total(p, 1 .. n)
           /\ \A i \in 1 .. n : s[i] = Total(q, 1 .. n) => u[i] = Total(p, 1 .. n)
<1>0. IsFiniteSet(1 .. n)
  BY FS_Interval
<1>1. IsFiniteSet(1 .. n) /\ \A i \in 1 .. n : IsFiniteSet(1 .. i) /\ 1 .. i \in SUBSET (1 .. n)
                                               /\ {i} \in SUBSET (1 .. i)
  <2>1. \A i \in 1 .. n : 1 .. i \in SUBSET (1 .. n) /\ {i} \in SUBSET (1 .. i)
    OBVIOUS
  <2> QED BY <1>0, <2>1, FS_Subset
<1> SUFFICES ASSUME c \in 0 .. n,
                    \A i \in 1 .. n : q[i] \in Nat \ {0}, \A i \in 1 .. n : p[i] \in Int,
                    \A i \in 1 .. n : s[i] = IF i <= c THEN Total(q, 1 .. i) ELSE q[i],
                    \A i \in 1 .. n : u[i] = IF i <= c THEN Total(p, 1 .. i) ELSE p[i]
             PROVE  /\ Total(s, 1 .. n) = Total(q, 1 .. n) => Total(u, 1 .. n) = Total(p, 1 .. n)
                    /\ \A i \in 1 .. n : s[i] = Total(q, 1 .. n) => u[i] = Total(p, 1 .. n)
  BY DEF RecordedAs
<1>2. \A i \in 1 .. n : Total(q, {i}) = q[i] /\ Total(q, 1 .. i) \in Int /\ Total(p, {i}) = p[i]
  <2> TAKE i \in 1 .. n
  <2>1. \A k \in 1 .. i : k \in 1 .. n /\ q[k] \in Int /\ p[k] \in Int
    OBVIOUS
  <2>2. q[i] \in Int /\ p[i] \in Int
    OBVIOUS
  <2> QED BY <1>1, <2>1, <2>2, TotalOfOne, TotalIsInt
<1>3. \A i \in 1 .. n : i # 1 => q[i] < Total(q, 1 .. i)
  <2> SUFFICES ASSUME NEW i \in 1 .. n, i # 1 PROVE q[i] < Total(q, 1 .. i)
    OBVIOUS
  <2>1. \A k \in 1 .. i : q[k] \in Nat \ {0}
    OBVIOUS
  <2>2. 1 \in (1 .. i) \ {i}
    OBVIOUS
  <2> QED BY <1>1, <1>2, <2>1, <2>2, TotalIsMore
<1>4. ASSUME Total(s, 1 .. n) = Total(q, 1 .. n)
      PROVE  Total(u, 1 .. n) = Total(p, 1 .. n)
  <2>1. \A i \in 1 .. n : q[i] \in Int /\ s[i] \in Int /\ q[i] <= s[i]
    <3> TAKE i \in 1 .. n
    <3>1. i = 1 => Total(q, 1 .. i) = q[i]
      <4>1. i = 1 => 1 .. i = {i}
        OBVIOUS
      <4> QED BY <1>2, <4>1
    <3>2. q[i] \in Int /\ Total(q, 1 .. i) \in Int /\ q[i] <= Total(q, 1 .. i)
      <4>0. q[i] \in Nat \ {0}
        OBVIOUS
      <4>1. q[i] \in Int /\ Total(q, 1 .. i) \in Int
        <5>1. Total(q, 1 .. i) \in Int
          BY <1>2
        <5> QED BY <4>0, <5>1
      <4>2. i # 1 => q[i] < Total(q, 1 .. i)
        BY <1>3
      <4> QED BY <3>1, <4>1, <4>2
    <3>3. s[i] = Total(q, 1 .. i) \/ s[i] = q[i]
      OBVIOUS
    <3> QED BY <3>2, <3>3
  <2>2. \A i \in 1 .. n : s[i] = q[i]
    <3> TAKE i \in 1 .. n
    <3> QED BY <1>0, <1>4, <2>1, TotalTight
  <2>3. \A i \in 1 .. n : u[i] = p[i]
    <3> TAKE i \in 1 .. n
    <3>1. CASE i <= c
      <4>1. i = 1
        <5>1. s[i] = Total(q, 1 .. i) /\ s[i] = q[i] /\ q[i] \in Int
          BY <2>1, <2>2, <3>1
        <5> QED BY <1>3, <5>1
      <4>2. 1 .. i = {i}
        BY <4>1
      <4> QED BY <1>2, <3>1, <4>2
    <3>2. CASE ~(i <= c)
      BY <3>2
    <3> QED BY <3>1, <3>2
  <2> QED BY <1>1, <2>3, TotalSame
<1>5. ASSUME NEW i \in 1 .. n, s[i] = Total(q, 1 .. n)
      PROVE  u[i] = Total(p, 1 .. n)
  <2>1. CASE i = n
    <3>1. CASE i <= c
      BY <2>1, <3>1
    <3>2. CASE ~(i <= c)
      BY <1>2, <1>3, <1>5, <2>1, <3>2
    <3> QED BY <3>1, <3>2
  <2>2. CASE i # n
    <3>1. Total(q, 1 .. i) < Total(q, 1 .. n)
      <4>1. n \in (1 .. n) \ (1 .. i)
        BY <2>2
      <4> QED BY <1>1, <4>1, TotalIsMore
    <3>2. q[i] < Total(q, 1 .. n)
      <4>1. {i} \in SUBSET (1 .. n) /\ n \in (1 .. n) \ {i}
        BY <2>2
      <4> QED BY <1>1, <1>2, <4>1, TotalIsMore
    <3>3. Total(q, 1 .. n) \in Int /\ Total(q, 1 .. i) \in Int /\ q[i] \in Int
      <4>1. n \in 1 .. n /\ q[i] \in Int
        OBVIOUS
      <4> QED BY <1>2, <4>1
    <3>4. s[i] = Total(q, 1 .. i) \/ s[i] = q[i]
      OBVIOUS
    <3> QED BY <1>5, <3>1, <3>2, <3>3, <3>4
  <2> QED BY <2>1, <2>2
<1> QED BY <1>4, <1>5

\* The folds of FillReview are such sums.
LEMMA QuantityIsTotal ==
    ASSUME NEW rows, NEW some, IsFiniteSet(some), NEW f, \A k \in some : f[k] = rows[k].quantity
    PROVE  Quantity(rows, some) = Total(f, some)
<1> DEFINE folds(h) == h = [s \in SUBSET some |->
                              IF s = {} THEN 0
                              ELSE rows[CHOOSE x \in s : TRUE].quantity
                                   + h[s \ {CHOOSE x \in s : TRUE}]]
           g == CHOOSE h : folds(h)
<1>1. PICK h : Adds(h, f, some)
  BY SomethingAdds
<1>2. \A e : folds(e) <=> Adds(e, f, some)
  <2> DEFINE of(e, s) == IF s = {} THEN 0 ELSE f[AnyOf(s)] + e[s \ {AnyOf(s)}]
             folded(e, s) == IF s = {} THEN 0
                             ELSE rows[CHOOSE x \in s : TRUE].quantity
                                  + e[s \ {CHOOSE x \in s : TRUE}]
  <2>1. ASSUME NEW e, NEW s \in SUBSET some PROVE of(e, s) = folded(e, s)
    BY DEF AnyOf
  <2>2. \A e : (Adds(e, f, some) <=> e = [s \in SUBSET some |-> of(e, s)])
               /\ (folds(e) <=> e = [s \in SUBSET some |-> folded(e, s)])
    BY DEF Adds
  <2> HIDE DEF of, folded, folds
  <2> QED BY <2>1, <2>2
<1>3. Adds(g, f, some)
  <2>1. folds(h)
    BY <1>1, <1>2
  <2>2. folds(g)
    <3> HIDE DEF folds
    <3> QED BY <2>1
  <2> HIDE DEF g, folds
  <2> QED BY <1>2, <2>2
<1>4. Quantity(rows, some) = g[some]
  BY DEF Quantity, MapThenSumSet, MapThenFoldSet
<1> HIDE DEF g
<1> QED BY <1>3, <1>4, TotalIsFold

LEMMA ProfitIsTotal ==
    ASSUME NEW rows, NEW some, IsFiniteSet(some), NEW f, \A k \in some : f[k] = rows[k].profit
    PROVE  Profit(rows, some) = Total(f, some)
<1> DEFINE folds(h) == h = [s \in SUBSET some |->
                              IF s = {} THEN 0
                              ELSE rows[CHOOSE x \in s : TRUE].profit
                                   + h[s \ {CHOOSE x \in s : TRUE}]]
           g == CHOOSE h : folds(h)
<1>1. PICK h : Adds(h, f, some)
  BY SomethingAdds
<1>2. \A e : folds(e) <=> Adds(e, f, some)
  <2> DEFINE of(e, s) == IF s = {} THEN 0 ELSE f[AnyOf(s)] + e[s \ {AnyOf(s)}]
             folded(e, s) == IF s = {} THEN 0
                             ELSE rows[CHOOSE x \in s : TRUE].profit
                                  + e[s \ {CHOOSE x \in s : TRUE}]
  <2>1. ASSUME NEW e, NEW s \in SUBSET some PROVE of(e, s) = folded(e, s)
    BY DEF AnyOf
  <2>2. \A e : (Adds(e, f, some) <=> e = [s \in SUBSET some |-> of(e, s)])
               /\ (folds(e) <=> e = [s \in SUBSET some |-> folded(e, s)])
    BY DEF Adds
  <2> HIDE DEF of, folded, folds
  <2> QED BY <2>1, <2>2
<1>3. Adds(g, f, some)
  <2>1. folds(h)
    BY <1>1, <1>2
  <2>2. folds(g)
    <3> HIDE DEF folds
    <3> QED BY <2>1
  <2> HIDE DEF g, folds
  <2> QED BY <1>2, <2>2
<1>4. Profit(rows, some) = g[some]
  BY DEF Profit, MapThenSumSet, MapThenFoldSet
<1> HIDE DEF g
<1> QED BY <1>3, <1>4, TotalIsFold

\* Rows that are n different ones, some of them several times.
Repeats(rows, m, saved, row, n) ==
    /\ saved \in [1 .. m -> 1 .. n]
    /\ \A i \in 1 .. n : \E k \in 1 .. m : saved[k] = i
    /\ \A i, j \in 1 .. n : i # j => row[i] # row[j]
    /\ DOMAIN rows = 1 .. m
    /\ \A k \in 1 .. m : rows[k] = row[saved[k]]

EachOnce(rows, row, n) ==
    /\ rows \in [1 .. n -> {row[i] : i \in 1 .. n}]
    /\ \E p : OneToOne(p, 1 .. n, 1 .. n) /\ \A i \in 1 .. n : rows[i] = row[p[i]]

\* Of them each stays once.
LEMMA DistinctIsEach ==
    ASSUME NEW n \in Nat, NEW m \in Nat, NEW saved, NEW row, NEW rows,
           Repeats(rows, m, saved, row, n)
    PROVE  EachOnce(Distinct(rows), row, n)
<1>0. IsFiniteSet(1 .. m)
  BY FS_Interval
<1> SUFFICES ASSUME saved \in [1 .. m -> 1 .. n],
                    \A i \in 1 .. n : \E k \in 1 .. m : saved[k] = i,
                    \A i, j \in 1 .. n : i # j => row[i] # row[j],
                    DOMAIN rows = 1 .. m, \A k \in 1 .. m : rows[k] = row[saved[k]]
             PROVE  EachOnce(Distinct(rows), row, n)
  BY DEF Repeats
<1> DEFINE kept == LastOfEqual(rows)
           upto(i) == {j \in kept : j <= i}
<1>1. /\ kept \in SUBSET (1 .. m) /\ DOMAIN rows = 1 .. m /\ IsFiniteSet(1 .. m)
      /\ \A i \in 1 .. m : rows[i] = row[saved[i]] /\ saved[i] \in 1 .. n
      /\ \A i \in 1 .. m : i \in kept <=> \A j \in 1 .. m : saved[j] = saved[i] => j <= i
  <2>1. DOMAIN rows = 1 .. m /\ IsFiniteSet(1 .. m)
        /\ \A i \in 1 .. m : rows[i] = row[saved[i]] /\ saved[i] \in 1 .. n
    BY <1>0
  <2>2. \A i, j \in 1 .. m : rows[j] = rows[i] <=> saved[j] = saved[i]
    <3> TAKE i, j \in 1 .. m
    <3>1. rows[i] = row[saved[i]] /\ rows[j] = row[saved[j]]
          /\ saved[i] \in 1 .. n /\ saved[j] \in 1 .. n
      BY <2>1
    <3> QED BY <3>1
  <2>3. kept = {i \in 1 .. m : \A j \in 1 .. m : rows[j] = rows[i] => j <= i}
    BY <2>1 DEF LastOfEqual
  <2> HIDE DEF kept
  <2> QED BY <2>1, <2>2, <2>3
<1> HIDE DEF kept
<1>2. IsFiniteSet(kept) /\ Cardinality(kept) \in Nat
  BY <1>1, FS_Subset, FS_CardinalityType
<1>3. \A i \in kept : Place(rows, i) = Cardinality(upto(i)) /\ Place(rows, i) \in 1 .. Cardinality(kept)
  <2> TAKE i \in kept
  <2>1. Place(rows, i) = Cardinality(upto(i))
    BY DEF Place, kept
  <2>2. upto(i) \in SUBSET kept /\ i \in upto(i)
    BY <1>1
  <2> HIDE DEF upto
  <2>3. IsFiniteSet(upto(i)) /\ Cardinality(upto(i)) <= Cardinality(kept) /\ Cardinality(upto(i)) \in Nat
    BY <1>2, <2>2, FS_Subset, FS_CardinalityType
  <2>4. Cardinality(upto(i)) # 0
    BY <2>2, <2>3, FS_EmptySet
  <2> QED BY <1>2, <2>1, <2>3, <2>4
<1>4. \A i, j \in kept : i < j => Place(rows, i) # Place(rows, j)
  <2> SUFFICES ASSUME NEW i \in kept, NEW j \in kept, i < j, Place(rows, i) = Place(rows, j)
               PROVE  FALSE
    OBVIOUS
  <2>0. Cardinality(upto(i)) = Cardinality(upto(j))
    BY <1>3
  <2>1. upto(i) \in SUBSET upto(j) /\ j \in upto(j) /\ j \notin upto(i) /\ upto(j) \in SUBSET kept
    <3>1. i \in Int /\ j \in Int /\ \A k \in kept : k \in Int
      BY <1>1
    <3>2. \A k \in kept : k <= i => k <= j
      BY <3>1
    <3>3. j <= j /\ ~(j <= i)
      BY <3>1
    <3>4. upto(i) \in SUBSET upto(j)
      BY <3>2
    <3> QED BY <3>3, <3>4
  <2> HIDE DEF upto
  <2>2. IsFiniteSet(upto(j))
    BY <1>2, <2>1, FS_Subset
  <2> QED BY <2>0, <2>1, <2>2, FS_Subset
<1> DEFINE N == Cardinality(kept)
           places == [i \in kept |-> Place(rows, i)]
           at(k) == CHOOSE i \in kept : Place(rows, i) = k
<1>5. \A i, j \in kept : i # j => places[i] # places[j]
  <2> TAKE i, j \in kept
  <2>1. i \in Int /\ j \in Int /\ places[i] = Place(rows, i) /\ places[j] = Place(rows, j)
    BY <1>1
  <2>2. (i < j => Place(rows, i) # Place(rows, j)) /\ (j < i => Place(rows, j) # Place(rows, i))
    BY <1>4
  <2> QED BY <2>1, <2>2
<1>6. \A k \in 1 .. N : \E i \in kept : Place(rows, i) = k
  <2>1. places \in Injection(kept, 1 .. N)
    BY <1>3, <1>5 DEF Injection, IsInjective
  <2>2. IsFiniteSet(1 .. N) /\ Cardinality(1 .. N) = N
    BY <1>2, FS_Interval
  <2>3. places \in Surjection(kept, 1 .. N)
    <3> HIDE DEF places
    <3> QED BY <2>1, <2>2, FS_Injection
  <2> QED BY <2>3 DEF Surjection
<1>7. \A k \in 1 .. N : at(k) \in kept /\ Place(rows, at(k)) = k
  BY <1>6
<1>8. \A i \in kept : at(Place(rows, i)) = i
  BY <1>3, <1>5, <1>7
<1>9. \A i \in 1 .. n : \E k \in kept : saved[k] = i
  <2> SUFFICES ASSUME NEW i \in 1 .. n PROVE \E k \in kept : saved[k] = i
    OBVIOUS
  <2> DEFINE late == {m - k : k \in {k \in 1 .. m : saved[k] = i}}
  <2>1. late \subseteq Nat /\ late # {}
    OBVIOUS
  <2>2. PICK l \in late : \A o \in late : l <= o
    <3> HIDE DEF late
    <3> QED BY <2>1, LeastOf
  <2>3. PICK k \in 1 .. m : saved[k] = i /\ l = m - k
    OBVIOUS
  <2>4. \A j \in 1 .. m : saved[j] = i => m - j \in late
    OBVIOUS
  <2>5. ASSUME NEW j \in 1 .. m, saved[j] = i PROVE j <= k
    <3>1. l <= m - j
      BY <2>2, <2>4, <2>5
    <3> QED BY <2>3, <3>1
  <2> QED BY <1>1, <2>3, <2>5
<1>10. N = n
  <2> DEFINE e == [k \in kept |-> saved[k]]
  <2>1. \A i, j \in kept : i # j => e[i] # e[j]
    BY <1>1
  <2>2. e \in Bijection(kept, 1 .. n)
    BY <1>1, <1>9, <2>1 DEF Bijection, Injection, Surjection, IsInjective
  <2>3. ExistsBijection(kept, 1 .. n)
    BY <2>2 DEF ExistsBijection
  <2>4. Cardinality(1 .. n) = N
    BY <1>2, <2>3, FS_Bijection
  <2> QED BY <2>4, FS_Interval
<1> DEFINE p == [i \in 1 .. n |-> saved[at(i)]]
<1> HIDE DEF N, at, places
<1>11. p \in [1 .. n -> 1 .. n]
  BY <1>1, <1>7, <1>10
<1>12. \A i, j \in 1 .. n : i # j => p[i] # p[j]
  <2> SUFFICES ASSUME NEW i \in 1 .. n, NEW j \in 1 .. n, saved[at(i)] = saved[at(j)] PROVE i = j
    OBVIOUS
  <2>1. at(i) \in kept /\ at(j) \in kept /\ Place(rows, at(i)) = i /\ Place(rows, at(j)) = j
    BY <1>7, <1>10
  <2>2. at(i) \in 1 .. m /\ at(j) \in 1 .. m /\ at(i) <= at(j) /\ at(j) <= at(i)
    BY <1>1, <2>1
  <2>3. at(i) = at(j)
    BY <2>2
  <2> QED BY <2>1, <2>3
<1>13. \A k \in 1 .. n : \E i \in 1 .. n : p[i] = k
  <2> SUFFICES ASSUME NEW k \in 1 .. n PROVE \E i \in 1 .. n : p[i] = k
    OBVIOUS
  <2>1. PICK j \in kept : saved[j] = k
    BY <1>9
  <2>2. Place(rows, j) \in 1 .. n /\ at(Place(rows, j)) = j
    BY <1>3, <1>8, <1>10 DEF N
  <2> QED BY <2>1, <2>2
<1>14. Distinct(rows) = [i \in 1 .. n |-> row[p[i]]]
  <2>1. Distinct(rows) = [i \in 1 .. N |-> rows[at(i)]]
    BY DEF Distinct, N, at, kept
  <2>2. \A i \in 1 .. n : rows[at(i)] = row[p[i]]
    BY <1>1, <1>7, <1>10
  <2>3. [i \in 1 .. N |-> rows[at(i)]] = [i \in 1 .. n |-> rows[at(i)]]
    BY <1>10
  <2> HIDE DEF p
  <2>4. [i \in 1 .. n |-> rows[at(i)]] = [i \in 1 .. n |-> row[p[i]]]
    BY <2>2
  <2> QED BY <2>1, <2>3, <2>4
<1> HIDE DEF p
<1>15. OneToOne(p, 1 .. n, 1 .. n)
  BY <1>11, <1>12, <1>13 DEF OneToOne
<1>16. \A i \in 1 .. n : p[i] \in 1 .. n
  BY <1>11
<1> QED BY <1>14, <1>15, <1>16 DEF EachOnce

\* What one selects has what the rows add up to.
LEMMA SelectedIs ==
    ASSUME NEW method, NEW confidence, NEW rows
    PROVE  LET row == Selected(method, confidence, rows) IN
           /\ row.confidence = confidence
           /\ row.quantity = Quantity(rows, DOMAIN rows)
           /\ row.profit = Profit(rows, DOMAIN rows)
  BY DEF Selected

\* What is trusted has an order number, and is one row or one of two readings of
\* several.
LEMMA HighIsNumbered ==
    ASSUME IsFiniteSet(evidence), NEW rows, Normalized(rows).confidence = "HIGH"
    PROVE  /\ numbered
           /\ \/ /\ Len(Distinct(rows)) > 1
                 /\ Normalized(rows) = SeveralRows(Distinct(rows), evidence)
              \/ /\ ~(Len(Distinct(rows)) > 1)
                 /\ \E method : Normalized(rows) = Selected(method, "HIGH", Distinct(rows))
<1> DEFINE distinct == Distinct(rows)
<1>1. Cardinality(evidence) \in Nat
  BY FS_CardinalityType
<1>2. Excluded.confidence = "NONE"
  BY DEF Excluded
<1>3. \A method : Selected(method, "LOW", distinct).confidence = "LOW"
  BY SelectedIs
<1> HIDE DEF distinct
<1>4. CASE ~lineage
  BY <1>2, <1>4 DEF Normalized
<1>5. CASE lineage /\ ~numbered
  BY <1>2, <1>3, <1>5 DEF Normalized, distinct
<1>6. CASE lineage /\ numbered /\ Cardinality(evidence) > 1
  <2>1. ~(Cardinality(evidence) <= 1)
    BY <1>1, <1>6
  <2> QED BY <1>2, <1>6, <2>1 DEF Normalized
<1>7. CASE lineage /\ numbered /\ ~(Cardinality(evidence) > 1)
  <2>1. Cardinality(evidence) <= 1
    BY <1>1, <1>7
  <2>2. Normalized(rows) = IF Len(distinct) > 1 THEN SeveralRows(distinct, evidence)
                           ELSE Selected(IF Len(rows) > 1 THEN "EXACT_DUPLICATE_COLLAPSED"
                                         ELSE "SINGLE_ROW", "HIGH", distinct)
    BY <1>7, <2>1 DEF Normalized, distinct
  <2> QED BY <1>7, <2>2 DEF distinct
<1> QED BY <1>4, <1>5, <1>6, <1>7

\* Evidence that says one thing says how many shares were filled.
EvidenceOf(parts) ==
    LET filled == Quantity(parts, DOMAIN parts) IN
    {{}, {filled}, {filled, parts[1].quantity}}

LEMMA EvidenceIsFinite ==
    ASSUME NEW parts, evidence \in EvidenceOf(parts)
    PROVE  IsFiniteSet(evidence)
<1>1. \A x : IsFiniteSet({x})
  BY FS_Singleton
<1>2. \A x, y : IsFiniteSet({x, y})
  <2> TAKE x, y
  <2>1. {x, y} = {x} \cup {y}
    OBVIOUS
  <2>2. IsFiniteSet({x} \cup {y})
    BY <1>1, FS_Union
  <2> QED BY <2>1, <2>2
<1>3. IsFiniteSet({})
  BY FS_EmptySet
<1> QED BY <1>1, <1>2, <1>3 DEF EvidenceOf

\* The argument: evidence that agrees with the sum of the rows leaves no room for
\* a cumulative row, and evidence that agrees with the newest none for a partial
\* one.
LEMMA HighIsWhole ==
    ASSUME NEW parts \in Executions, NEW c \in 0 .. Len(parts), NEW saved \in Savings(parts),
           evidence \in EvidenceOf(parts), NEW rows,
           rows = [k \in DOMAIN saved |-> Recording(parts, saved[k], saved[k] <= c)],
           Normalized(rows).confidence = "HIGH"
    PROVE  /\ numbered
           /\ Normalized(rows).quantity = Quantity(parts, DOMAIN parts)
           /\ Normalized(rows).profit = Profit(parts, DOMAIN parts)
<1> DEFINE n == Len(parts)
           q == [i \in 1 .. n |-> parts[i].quantity]
           p == [i \in 1 .. n |-> parts[i].profit]
           row == [i \in 1 .. n |-> Recording(parts, i, i <= c)]
           s == [i \in 1 .. n |-> row[i].quantity]
           u == [i \in 1 .. n |-> row[i].profit]
<1>1. n \in Nat /\ n > 0 /\ DOMAIN parts = 1 .. n /\ c \in 0 .. n
      /\ \A i \in 1 .. n : parts[i] \in [quantity : Nat \ {0}, profit : Int]
  <2>1. parts \in Seq([quantity : Nat \ {0}, profit : Int]) /\ parts # <<>>
    BY ReviewAssumption
  <2>2. n \in Nat /\ DOMAIN parts = 1 .. n
        /\ \A i \in 1 .. n : parts[i] \in [quantity : Nat \ {0}, profit : Int]
    <3>1. Len(parts) \in Nat /\ DOMAIN parts = 1 .. Len(parts)
      BY <2>1
    <3>2. \A i \in DOMAIN parts : parts[i] \in [quantity : Nat \ {0}, profit : Int]
      <4> DEFINE R == [quantity : Nat \ {0}, profit : Int]
      <4> HIDE DEF R
      <4>1. parts \in Seq(R)
        BY <2>1 DEF R
      <4>2. \A i \in DOMAIN parts : parts[i] \in R
        BY <4>1
      <4> QED BY <4>2 DEF R
    <3> QED BY <3>1, <3>2
  <2>3. n # 0
    BY <2>1, EmptySeq
  <2>4. c \in 0 .. n
    OBVIOUS
  <2> HIDE DEF n
  <2> QED BY <2>2, <2>3, <2>4
<1> HIDE DEF n
<1>2. (\A i \in 1 .. n : q[i] \in Nat \ {0} /\ q[i] \in Int) /\ (\A i \in 1 .. n : p[i] \in Int)
  <2> SUFFICES ASSUME NEW i \in 1 .. n PROVE q[i] \in Nat \ {0} /\ q[i] \in Int /\ p[i] \in Int
    OBVIOUS
  <2>1. parts[i] \in [quantity : Nat \ {0}, profit : Int]
    BY <1>1
  <2> QED BY <2>1
<1>3. IsFiniteSet(1 .. n) /\ \A i \in 1 .. n : /\ IsFiniteSet(1 .. i) /\ IsFiniteSet({i})
                                               /\ 1 .. i \in SUBSET (1 .. n) /\ {i} \in SUBSET (1 .. n)
  <2>1. IsFiniteSet(1 .. n)
    BY <1>1, FS_Interval
  <2>2. \A i \in 1 .. n : 1 .. i \in SUBSET (1 .. n) /\ {i} \in SUBSET (1 .. n)
    BY <1>1
  <2> QED BY <2>1, <2>2, FS_Subset
<1>4. /\ Quantity(parts, DOMAIN parts) = Total(q, 1 .. n)
      /\ Profit(parts, DOMAIN parts) = Total(p, 1 .. n)
  <2>1. \A i \in 1 .. n : q[i] = parts[i].quantity /\ p[i] = parts[i].profit
    OBVIOUS
  <2> HIDE DEF q, p
  <2>2. Quantity(parts, 1 .. n) = Total(q, 1 .. n)
    BY <1>3, <2>1, QuantityIsTotal
  <2>3. Profit(parts, 1 .. n) = Total(p, 1 .. n)
    BY <1>3, <2>1, ProfitIsTotal
  <2> QED BY <1>1, <2>2, <2>3
<1>5. \A i \in 1 .. n :
         /\ row[i].time = i
         /\ s[i] = IF i <= c THEN Total(q, 1 .. i) ELSE q[i]
         /\ u[i] = IF i <= c THEN Total(p, 1 .. i) ELSE p[i]
  <2> SUFFICES ASSUME NEW i \in 1 .. n
               PROVE  /\ row[i].time = i
                      /\ s[i] = IF i <= c THEN Total(q, 1 .. i) ELSE q[i]
                      /\ u[i] = IF i <= c THEN Total(p, 1 .. i) ELSE p[i]
    OBVIOUS
  <2> DEFINE counted == IF i <= c THEN 1 .. i ELSE {i}
  <2>1. row[i].time = i /\ s[i] = Quantity(parts, counted) /\ u[i] = Profit(parts, counted)
    BY DEF Recording
  <2>2. IsFiniteSet(counted) /\ \A k \in counted : k \in 1 .. n
    <3>1. counted = 1 .. i \/ counted = {i}
      OBVIOUS
    <3> HIDE DEF counted
    <3> QED BY <1>3, <3>1
  <2>3. \A k \in counted : q[k] = parts[k].quantity /\ p[k] = parts[k].profit
    BY <2>2
  <2>4. q[i] \in Int /\ p[i] \in Int
    BY <1>2
  <2> HIDE DEF q, p, counted
  <2>5. Quantity(parts, counted) = Total(q, counted) /\ Profit(parts, counted) = Total(p, counted)
    <3>1. Quantity(parts, counted) = Total(q, counted)
      BY <2>2, <2>3, QuantityIsTotal
    <3>2. Profit(parts, counted) = Total(p, counted)
      BY <2>2, <2>3, ProfitIsTotal
    <3> QED BY <3>1, <3>2
  <2>6. Total(q, {i}) = q[i] /\ Total(p, {i}) = p[i]
    BY <2>4, TotalOfOne
  <2> HIDE DEF row, s, u
  <2> QED BY <2>1, <2>5, <2>6 DEF counted
<1>6. PICK m \in Nat : /\ saved \in [1 .. m -> 1 .. n] /\ DOMAIN saved = 1 .. m
                       /\ \A i \in 1 .. n : \E k \in 1 .. m : saved[k] = i
  <2>1. PICK repeated \in 0 .. MaxRepeated : saved \in [1 .. Len(parts) + repeated -> DOMAIN parts]
    BY DEF Savings
  <2>2. n + repeated \in Nat /\ saved \in [1 .. n + repeated -> 1 .. n]
        /\ DOMAIN saved = 1 .. n + repeated
    BY <1>1, <2>1, ReviewAssumption DEF n
  <2>3. \A i \in 1 .. n : \E k \in DOMAIN saved : saved[k] = i
    BY <1>1 DEF Savings
  <2> QED BY <2>2, <2>3
<1>7. /\ DOMAIN rows = 1 .. m /\ \A k \in 1 .. m : rows[k] = row[saved[k]]
      /\ \A i, j \in 1 .. n : i # j => row[i] # row[j]
  <2>1. \A k \in 1 .. m : saved[k] \in 1 .. n
    BY <1>6
  <2>2. \A k \in 1 .. m : Recording(parts, saved[k], saved[k] <= c) = row[saved[k]]
    BY <2>1
  <2> HIDE DEF row
  <2>3. DOMAIN rows = 1 .. m /\ \A k \in 1 .. m : rows[k] = row[saved[k]]
    BY <1>6, <2>2
  <2> QED BY <1>5, <2>3
<1> HIDE DEF row
<1> DEFINE distinct == Distinct(rows)
<1>8. PICK o : /\ distinct \in [1 .. n -> {row[i] : i \in 1 .. n}]
               /\ OneToOne(o, 1 .. n, 1 .. n) /\ \A i \in 1 .. n : distinct[i] = row[o[i]]
  <2>1. Repeats(rows, m, saved, row, n)
    BY <1>6, <1>7 DEF Repeats
  <2>2. n \in Nat /\ m \in Nat
    BY <1>1
  <2>3. EachOnce(distinct, row, n)
    BY <2>1, <2>2, DistinctIsEach
  <2> HIDE DEF distinct
  <2> QED BY <2>3 DEF EachOnce
<1> HIDE DEF distinct
<1>9. /\ DOMAIN distinct = 1 .. n /\ Len(distinct) = n /\ o \in [1 .. n -> 1 .. n]
      /\ \A i \in 1 .. n : /\ o[i] \in 1 .. n /\ distinct[i] = row[o[i]]
                           /\ distinct[i].quantity = s[o[i]]
                           /\ distinct[i].profit = u[o[i]]
  <2>1. DOMAIN distinct = 1 .. n /\ distinct \in Seq({row[i] : i \in 1 .. n})
    <3>1. distinct \in [1 .. n -> {row[i] : i \in 1 .. n}] /\ n \in Nat
      BY <1>1, <1>8
    <3> QED BY <3>1, SeqDef
  <2>2. Len(distinct) = n
    BY <1>1, <2>1
  <2>3. o \in [1 .. n -> 1 .. n]
    BY <1>8 DEF OneToOne
  <2>4. \A i \in 1 .. n : o[i] \in 1 .. n /\ distinct[i] = row[o[i]]
    BY <1>8, <2>3
  <2> QED BY <2>1, <2>2, <2>3, <2>4
<1>10. \A i \in 1 .. n : s[i] \in Int /\ u[i] \in Int
  <2> TAKE i \in 1 .. n
  <2>1. \A k \in 1 .. i : q[k] \in Int /\ p[k] \in Int
    <3>1. \A k \in 1 .. i : k \in 1 .. n
      BY <1>3
    <3> HIDE DEF q, p
    <3> QED BY <1>2, <3>1
  <2> HIDE DEF q, p
  <2>2. Total(q, 1 .. i) \in Int /\ Total(p, 1 .. i) \in Int
    BY <1>3, <2>1, TotalIsInt
  <2>3. q[i] \in Int /\ p[i] \in Int
    BY <1>2
  <2> HIDE DEF s, u
  <2> QED BY <1>5, <2>2, <2>3
<1> HIDE DEF q, p, s, u
<1>11. /\ Quantity(distinct, DOMAIN distinct) = Total(s, 1 .. n)
       /\ Profit(distinct, DOMAIN distinct) = Total(u, 1 .. n)
  <2> DEFINE e == [i \in 1 .. n |-> s[o[i]]]
             f == [i \in 1 .. n |-> u[o[i]]]
  <2>1. \A i \in 1 .. n : e[i] = s[o[i]] /\ f[i] = u[o[i]]
                          /\ e[i] = distinct[i].quantity /\ f[i] = distinct[i].profit
    BY <1>9
  <2> HIDE DEF e, f
  <2>2. Quantity(distinct, 1 .. n) = Total(e, 1 .. n) /\ Profit(distinct, 1 .. n) = Total(f, 1 .. n)
    <3>0. (\A i \in 1 .. n : e[i] = distinct[i].quantity) /\ (\A i \in 1 .. n : f[i] = distinct[i].profit)
      BY <2>1
    <3>1. Quantity(distinct, 1 .. n) = Total(e, 1 .. n)
      BY <1>3, <3>0, QuantityIsTotal
    <3>2. Profit(distinct, 1 .. n) = Total(f, 1 .. n)
      BY <1>3, <3>0, ProfitIsTotal
    <3> QED BY <3>1, <3>2
  <2>3. Total(e, 1 .. n) = Total(s, 1 .. n)
    <3>1. \A i \in 1 .. n : e[i] = s[o[i]]
      BY <2>1
    <3>2. \A i \in 1 .. n : s[i] \in Int
      BY <1>10
    <3>3. Rearranged(e, 1 .. n, s, 1 .. n)
      BY <1>8, <3>1 DEF Rearranged
    <3> QED BY <1>3, <3>2, <3>3, TotalMoved
  <2>4. Total(f, 1 .. n) = Total(u, 1 .. n)
    <3>1. \A i \in 1 .. n : f[i] = u[o[i]]
      BY <2>1
    <3>2. \A i \in 1 .. n : u[i] \in Int
      BY <1>10
    <3>3. Rearranged(f, 1 .. n, u, 1 .. n)
      BY <1>8, <3>1 DEF Rearranged
    <3> QED BY <1>3, <3>2, <3>3, TotalMoved
  <2> QED BY <1>9, <2>2, <2>3, <2>4
<1>12. IsFiniteSet(evidence) /\ (evidence # {} => Total(q, 1 .. n) \in evidence)
  <2>1. IsFiniteSet(evidence)
    BY EvidenceIsFinite
  <2>2. evidence \in {{}, {Total(q, 1 .. n)}, {Total(q, 1 .. n), parts[1].quantity}}
    BY <1>4 DEF EvidenceOf
  <2> QED BY <2>1, <2>2
<1>13. numbered
  BY <1>12, HighIsNumbered
<1>14. CASE n = 1
  <2>1. PICK method : Normalized(rows) = Selected(method, "HIGH", distinct)
    <3>1. ~(Len(Distinct(rows)) > 1)
      <4>1. Len(distinct) = 1
        BY <1>9, <1>14
      <4> QED BY <4>1 DEF distinct
    <3> QED BY <1>12, <3>1, HighIsNumbered DEF distinct
  <2>2. 1 .. n = {1} /\ 1 \in 1 .. n
    BY <1>14
  <2>3. Total(s, {1}) = s[1] /\ Total(u, {1}) = u[1] /\ Total(q, {1}) = q[1] /\ Total(p, {1}) = p[1]
    BY <1>2, <1>10, <2>2, TotalOfOne
  <2>4. 1 .. 1 = {1}
    OBVIOUS
  <2>5. Total(s, 1 .. n) = Total(q, 1 .. n) /\ Total(u, 1 .. n) = Total(p, 1 .. n)
    BY <1>5, <2>2, <2>3, <2>4
  <2> QED BY <1>4, <1>11, <1>13, <2>1, <2>5, SelectedIs
<1>15. CASE n > 1
  <2>1. Normalized(rows) = SeveralRows(distinct, evidence)
    BY <1>9, <1>12, <1>15, HighIsNumbered DEF distinct
  <2>2. /\ Total(s, 1 .. n) = Total(q, 1 .. n) => Total(u, 1 .. n) = Total(p, 1 .. n)
        /\ \A i \in 1 .. n : s[i] = Total(q, 1 .. n) => u[i] = Total(p, 1 .. n)
    <3>1. RecordedAs(n, q, p, c, s, u)
      BY <1>1, <1>2, <1>5 DEF RecordedAs
    <3> QED BY <1>1, <1>15, <3>1, RecordedTotals
  <2> DEFINE sum == Quantity(distinct, DOMAIN distinct)
             newest == Last(distinct).quantity
  <2>3. Last(distinct) = distinct[n] /\ n \in 1 .. n /\ o[n] \in 1 .. n
        /\ newest = s[o[n]] /\ Last(distinct).profit = u[o[n]]
    <3>1. n \in 1 .. n
      BY <1>1
    <3>2. Last(distinct) = distinct[n]
      BY <1>9 DEF Last
    <3>3. distinct[n].quantity = s[o[n]] /\ distinct[n].profit = u[o[n]] /\ o[n] \in 1 .. n
      BY <1>9, <3>1
    <3> QED BY <3>1, <3>2, <3>3
  <2>4. CASE evidence = {sum} /\ newest # sum
    <3>1. Normalized(rows) = Selected("DELTA_ROWS_SUMMED", "HIGH", distinct)
      BY <2>1, <2>4 DEF SeveralRows
    <3>2. sum = Total(q, 1 .. n)
      BY <1>12, <2>4
    <3> HIDE DEF sum, newest
    <3> QED BY <1>4, <1>11, <1>13, <2>2, <3>1, <3>2, SelectedIs DEF sum
  <2>5. CASE evidence = {newest} /\ Increasing(distinct) /\ sum # newest
    <3>1. Normalized(rows) = Selected("LEGACY_CUMULATIVE_LATEST", "HIGH", <<Last(distinct)>>)
      BY <2>1, <2>5 DEF SeveralRows
    <3>2. newest = Total(q, 1 .. n)
      BY <1>12, <2>5
    <3> DEFINE x == Last(distinct)
               one == <<x>>
               e == [i \in {1} |-> x.quantity]
               f == [i \in {1} |-> x.profit]
    <3>3. DOMAIN one = {1} /\ one[1] = x /\ IsFiniteSet({1})
      <4>1. IsFiniteSet({1})
        BY FS_Singleton
      <4> QED BY <4>1
    <3>4. \A i \in {1} : e[i] = one[i].quantity /\ f[i] = one[i].profit
      BY <3>3
    <3>5. e[1] \in Int /\ f[1] \in Int /\ e[1] = x.quantity /\ f[1] = x.profit
      BY <1>10, <2>3
    <3> HIDE DEF one, e, f
    <3>6. Quantity(one, {1}) = e[1] /\ Profit(one, {1}) = f[1]
      <4>1. Quantity(one, {1}) = Total(e, {1})
        BY <3>3, <3>4, QuantityIsTotal
      <4>2. Profit(one, {1}) = Total(f, {1})
        BY <3>3, <3>4, ProfitIsTotal
      <4>3. Total(e, {1}) = e[1] /\ Total(f, {1}) = f[1]
        BY <3>5, TotalOfOne
      <4> QED BY <4>1, <4>2, <4>3
    <3>7. e[1] = Total(q, 1 .. n) /\ f[1] = Total(p, 1 .. n)
      BY <2>2, <2>3, <3>2, <3>5
    <3>8. Normalized(rows).quantity = Quantity(one, DOMAIN one)
          /\ Normalized(rows).profit = Profit(one, DOMAIN one)
      BY <3>1, SelectedIs DEF one
    <3> QED BY <1>4, <1>13, <3>3, <3>6, <3>7, <3>8
  <2>6. CASE ~(evidence = {sum} /\ newest # sum)
             /\ ~(evidence = {newest} /\ Increasing(distinct) /\ sum # newest)
    <3>1. Excluded.confidence # "HIGH"
      BY DEF Excluded
    <3>2. Selected("DELTA_ROWS_SUMMED", "MEDIUM", distinct).confidence # "HIGH"
      BY SelectedIs
    <3>3. SeveralRows(distinct, evidence) \in {Excluded, Selected("DELTA_ROWS_SUMMED", "MEDIUM", distinct)}
      BY <2>6 DEF SeveralRows
    <3> QED BY <2>1, <3>1, <3>2, <3>3
  <2> QED BY <2>4, <2>5, <2>6
<1> QED BY <1>1, <1>14, <1>15

\* The rows record the parts that were filled, and the evidence is of them.
RowsAreParts ==
    execution # <<>> =>
       /\ execution \in Executions
       /\ \E c \in 0 .. Len(execution) : \E saved \in Savings(execution) :
             fillRows = [k \in DOMAIN saved |-> Recording(execution, saved[k], saved[k] <= c)]
       /\ evidence \in EvidenceOf(execution)

NothingBefore == execution = <<>> => reviewed = NotReviewed

\* Inductive.
ReviewInv == RowsAreParts /\ NothingBefore /\ TrustedIsFilled

LEMMA ReviewStarts == ReviewInit => ReviewInv
  BY DEF ReviewInit, ReviewInv, RowsAreParts, NothingBefore, TrustedIsFilled

LEMMA OrderRecordedKeeps ==
    ASSUME ReviewInv, NEW parts \in Executions, NEW c \in 0 .. Len(parts), OrderRecorded(parts, c)
    PROVE  ReviewInv'
<1>1. execution' = parts /\ reviewed' = NotReviewed
  BY DEF OrderRecorded, ReviewInv, NothingBefore
<1>2. RowsAreParts'
  BY <1>1 DEF OrderRecorded, RowsAreParts, EvidenceOf
<1>3. NothingBefore' /\ TrustedIsFilled'
  BY <1>1 DEF NothingBefore, TrustedIsFilled
<1> QED BY <1>2, <1>3 DEF ReviewInv

LEMMA ReviewsKeeps == ASSUME ReviewInv, Reviews PROVE ReviewInv'
<1>1. UNCHANGED <<execution, fillRows, evidence>> /\ execution # <<>>
  BY DEF Reviews
<1>2. RowsAreParts' /\ NothingBefore'
  BY <1>1 DEF ReviewInv, RowsAreParts, NothingBefore
<1>3. PICK rows : reviewed' = Normalized(rows) /\ (numbered => rows = fillRows)
  BY DEF Reviews
<1>4. TrustedIsFilled'
  <2> SUFFICES ASSUME Normalized(rows).confidence = "HIGH"
               PROVE  /\ Normalized(rows).quantity = Quantity(execution, DOMAIN execution)
                      /\ Normalized(rows).profit = Profit(execution, DOMAIN execution)
    BY <1>1, <1>3 DEF TrustedIsFilled, Trusted
  <2>1. execution \in Executions /\ evidence \in EvidenceOf(execution)
    BY <1>1 DEF ReviewInv, RowsAreParts
  <2>2. PICK c \in 0 .. Len(execution) : \E saved \in Savings(execution) :
           fillRows = [k \in DOMAIN saved |-> Recording(execution, saved[k], saved[k] <= c)]
    BY <1>1 DEF ReviewInv, RowsAreParts
  <2>3. PICK saved \in Savings(execution) :
           fillRows = [k \in DOMAIN saved |-> Recording(execution, saved[k], saved[k] <= c)]
    BY <2>2
  <2>4. IsFiniteSet(evidence)
    BY <2>1, EvidenceIsFinite
  <2>5. numbered
    BY <2>4, HighIsNumbered
  <2>6. rows = fillRows
    BY <1>3, <2>5
  <2> QED BY <2>1, <2>3, <2>6, HighIsWhole
<1> QED BY <1>2, <1>4 DEF ReviewInv

LEMMA ReviewStep == ASSUME ReviewInv, [ReviewNext]_reviewVars PROVE ReviewInv'
<1>1. CASE ReviewNext
  BY <1>1, OrderRecordedKeeps, ReviewsKeeps DEF ReviewNext
<1>2. CASE UNCHANGED reviewVars
  BY <1>2 DEF reviewVars, ReviewInv, RowsAreParts, NothingBefore, TrustedIsFilled
<1> QED BY <1>1, <1>2

(* Before the review and after it the rows of an order are those of its    *)
(* parts, as the code before or the present one wrote them, and its        *)
(* evidence is of what was filled.                                         *)
THEOREM ReviewInductive == ReviewSpec => []ReviewInv
  BY ReviewStarts, ReviewStep, PTL DEF ReviewSpec

(* A row that enters the trusted profit has the quantity and the profit of *)
(* the whole order (strategy_review_fill_normalization_core.py): for any   *)
(* number of parts, written in either way, repeated in any order.          *)
THEOREM TrustedIsFilledHolds == ReviewSpec => []TrustedIsFilled
  BY ReviewInductive, PTL DEF ReviewInv
=============================================================================

---------------------------- MODULE EntryPlanner ----------------------------
(***************************************************************************)
(* One call of plan_buy_intents (entry_planner.py) with the conditions of  *)
(* intraday_data_quality.py and the gates of risk.py, and one call of      *)
(* collect_ranked_buy_intents (list_buy_planner.py).  Selected scores are  *)
(* taken one after the other; what one purchase would cost is gone for the *)
(* next.  Money, prices and scores are integers, rates are percentages.    *)
(***************************************************************************)
EXTENDS Integers, Sequences, FiniteSets

CONSTANTS
    EntryAccounts,    \* accounts a plan may start from
    EntrySettings,    \* the settings a plan may run under
    EntryCandidates,  \* what a selected score and its breakout input may say
    MaxScores         \* bound: selected scores of a call

ASSUME AccountsAssumption ==
    EntryAccounts \subseteq
        [cash : Nat, equity : Int, invested : Nat, open_positions : Nat]
ASSUME ScoresAssumption == MaxScores \in Nat
\* strategy.py raises on a price that is not positive: PricesInvalid.
ASSUME CandidatesAssumption ==
    \A c \in EntryCandidates : c.last_price \in Nat \ {0}
ASSUME ExposuresAssumption ==
    \A s \in EntrySettings :
        s.max_position_exposure \in Int /\ s.max_account_exposure \in Int

VARIABLES
    planPhase,   \* idle, planning, listing, returned, raised
    planSettings,\* settings of the call
    account,     \* account of the call
    scoresLeft,  \* selected scores not yet taken
    cash,        \* `cash`: what earlier intents of the call left
    invested,    \* `invested`: with earlier intents of the call
    intentCount, \* len(intents)
    lastIntent,  \* intents[-1]
    evaluation   \* the candidate evaluation last saved

entryVars == <<planPhase, planSettings, account, scoresLeft, cash, invested,
               intentCount, lastIntent, evaluation>>

Nothing == [ticker |-> 0]

EntryInit ==
    /\ planPhase = "idle" /\ planSettings = Nothing /\ account = Nothing
    /\ scoresLeft = 0 /\ cash = 0 /\ invested = 0
    /\ intentCount = 0 /\ lastIntent = Nothing /\ evaluation = Nothing

-----------------------------------------------------------------------------
(* The intraday conditions: each is PASS, FAIL or NO_DATA.                 *)

Conditions == {"close", "hold", "volume", "vwap_ma20", "pullback"}

VwapMa20State(f, s) ==
    LET both == {f.vwap, f.ma20}
    IN  CASE s.vwap_ma20_type = "VWAP_ONLY" -> f.vwap
          [] s.vwap_ma20_type = "MA20_ONLY" -> f.ma20
          [] s.vwap_ma20_type = "AND" /\ "FAIL" \in both -> "FAIL"
          [] s.vwap_ma20_type = "AND" /\ both = {"PASS"} -> "PASS"
          [] s.vwap_ma20_type = "OR" /\ "PASS" \in both -> "PASS"
          [] s.vwap_ma20_type = "OR" /\ both = {"FAIL"} -> "FAIL"
          [] OTHER -> "NO_DATA"

\* A condition that is not required is OFF, and so is the hold of 0 minutes.
ConditionMode(c, s) ==
    LET setting == IF c = "hold" THEN "close" ELSE c
        enabled == /\ setting \in s.required
                   /\ c = "hold" => s.breakout_hold_minutes > 0
                   /\ c = "vwap_ma20" => s.vwap_ma20_type # "OFF"
    IN  IF enabled THEN s.mode[setting] ELSE "OFF"

ConditionState(c, f, s) ==
    IF c = "vwap_ma20" THEN VwapMa20State(f, s) ELSE f[c]

Mutant_MissingData(f, s) ==      \* only a hard filter needs its data
    {c \in Conditions : /\ ConditionMode(c, s) = "HARD_FILTER"
                        /\ ConditionState(c, f, s) = "NO_DATA"}

MissingData(f, s) ==
    {c \in Conditions : /\ ConditionMode(c, s) # "OFF"
                        /\ ConditionState(c, f, s) = "NO_DATA"}

\* resolve_intraday_missing_data_policy: only a test on mock money may go on.
MissingDataPolicy(s) ==
    IF s.app_mode # "test" \/ ~s.mock_trading THEN "BLOCK"
    ELSE IF s.missing_data_policy = "AUTO" THEN "LOG_ONLY"
    ELSE s.missing_data_policy

(* _entry_timing_evaluation.  Close and hold are one condition with one    *)
(* mode; a check appends its failure to the list its mode names.           *)
Checks == <<"overheat", "confirmation", "volume", "vwap_ma20", "pullback">>

CheckFails(k, c, s) ==
    LET f == c.features IN
    CASE k = "overheat" -> ~c.overheat_pass
      [] k = "confirmation" -> "FAIL" \in {f.close, f.hold}
      [] OTHER -> ConditionState(k, f, s) = "FAIL"

CheckMode(k, s) ==
    CASE k = "overheat" -> s.mode["overheat"]
      [] k = "confirmation" -> ConditionMode("close", s)
      [] OTHER -> ConditionMode(k, s)

Failed(c, s, mode) ==
    SelectSeq(Checks, LAMBDA k : CheckFails(k, c, s) /\ CheckMode(k, s) = mode)

DataReasons(c, s) ==
    LET gaps == MissingData(c.features, s)
    IN  IF gaps # {} /\ MissingDataPolicy(s) = "BLOCK"
        THEN <<IF Cardinality(gaps) > 1 THEN "required_data_missing"
               ELSE "data_missing">>
        ELSE <<>>

HardReasons(c, s) == Failed(c, s, "HARD_FILTER") \o DataReasons(c, s)

FinalScore(c, s) ==
    LET adjusted == c.total_score - 5 * Len(Failed(c, s, "SOFT_SCORE"))
    IN  IF adjusted > 0 THEN adjusted ELSE 0

PositionFraction(score, s) ==
    IF score < s.min_total_score THEN 0
    ELSE IF score < 70 THEN 5
    ELSE IF score < 85 THEN 10
    ELSE 20

-----------------------------------------------------------------------------
Smaller(a, b) == IF a < b THEN a ELSE b

Allocation(c, s) ==
    Smaller(PositionFraction(FinalScore(c, s), s), s.max_position_exposure)

OrderValue(fraction) ==
    Smaller(cash, (account.equity * fraction) \div 100)

\* position_entry_gate, with the account's investment as the plan has it.
Mutant_PositionEntryGate(value, s) ==      \* the plan's own intents forgotten
    IF value <= 0 THEN "INVALID_ORDER_VALUE"
    ELSE IF account.equity <= 0 THEN "INVALID_ACCOUNT_EQUITY"
    ELSE IF value * 100 > s.max_position_exposure * account.equity
         THEN "POSITION_EXPOSURE_LIMIT"
    ELSE IF (account.invested + value) * 100 > s.max_account_exposure * account.equity
         THEN "ACCOUNT_EXPOSURE_LIMIT"
    ELSE "ok"

PositionEntryGate(value, s) ==
    IF value <= 0 THEN "INVALID_ORDER_VALUE"
    ELSE IF account.equity <= 0 THEN "INVALID_ACCOUNT_EQUITY"
    ELSE IF value * 100 > s.max_position_exposure * account.equity
         THEN "POSITION_EXPOSURE_LIMIT"
    ELSE IF (invested + value) * 100 > s.max_account_exposure * account.equity
         THEN "ACCOUNT_EXPOSURE_LIMIT"
    ELSE "ok"

\* `int(value // price)`
SharesFor(value, price) ==
    IF value < price THEN 0 ELSE value \div price

\* The first thing that speaks against candidate c, or BUY_ALLOWED.
Decision(c, s) ==
    LET value == OrderValue(Allocation(c, s))
        gate == PositionEntryGate(value, s)
    IN  IF ~c.breakout_triggered THEN "BREAKOUT_NOT_TRIGGERED"
        ELSE IF Failed(c, s, "HARD_FILTER") # <<>> \/ DataReasons(c, s) # <<>>
             THEN "HARD_REASONS"
        ELSE IF FinalScore(c, s) < s.min_total_score
             THEN "FINAL_SCORE_BELOW_THRESHOLD"
        ELSE IF gate # "ok" THEN gate
        ELSE IF SharesFor(value, c.last_price) < 1 THEN "ORDER_NOT_SUBMITTED"
        ELSE "BUY_ALLOWED"

\* _candidate_evaluation: a score that did not break out has no counts.
EvaluationRow(c, s) ==
    LET timed == c.breakout_triggered
    IN  [ticker |-> MaxScores + 1 - scoresLeft,
         buy_block_reason |->
             IF Decision(c, s) = "HARD_REASONS" THEN Head(HardReasons(c, s))
             ELSE Decision(c, s),
         hard_filter_failed_count |->
             IF timed THEN Len(HardReasons(c, s)) ELSE 0,
         soft_condition_failed_count |->
             IF timed THEN Len(Failed(c, s, "SOFT_SCORE")) ELSE 0,
         final_score_pass |->
             (IF timed THEN FinalScore(c, s) ELSE c.total_score)
                 >= s.min_total_score]

\* _safe_save_candidate_evaluation: a save that fails is logged, no more.
SaveEvaluation(c, s) ==
    \/ evaluation' = EvaluationRow(c, s)
    \/ UNCHANGED evaluation

-----------------------------------------------------------------------------
PlanStarts ==
    /\ planPhase = "idle"
    /\ planPhase' \in {"planning", "listing"}
    /\ planSettings' \in EntrySettings
    /\ account' \in EntryAccounts
    /\ scoresLeft' \in 0..MaxScores
    /\ cash' = account'.cash /\ invested' = account'.invested
    /\ UNCHANGED <<intentCount, lastIntent, evaluation>>

\* strategy.py raises on prices that are not positive: no intent is returned.
PricesInvalid ==
    /\ planPhase = "planning" /\ scoresLeft > 0
    /\ planPhase' = "raised" /\ intentCount' = 0 /\ lastIntent' = Nothing
    /\ UNCHANGED <<planSettings, account, scoresLeft, cash, invested,
                   evaluation>>

Rejected(c) ==
    /\ planPhase = "planning" /\ scoresLeft > 0
    /\ Decision(c, planSettings) # "BUY_ALLOWED"
    /\ SaveEvaluation(c, planSettings)
    /\ scoresLeft' = scoresLeft - 1
    /\ UNCHANGED <<planPhase, planSettings, account, cash, invested,
                   intentCount, lastIntent>>

\* What an intent is bought in spite of: history, for RealMoneyNeedsData.
Unknown(c, s) ==
    {k \in Conditions : /\ ConditionState(k, c.features, s) = "NO_DATA"
                        /\ ConditionMode(k, s) # "OFF"}

\* intents.append(...); invested += filled_value; cash -= filled_value
AppendIntent(c, fraction, unknown) ==
    LET quantity == SharesFor(OrderValue(fraction), c.last_price)
        filled_value == quantity * c.last_price
    IN  /\ intentCount' = intentCount + 1
        /\ lastIntent' = [ticker |-> MaxScores + 1 - scoresLeft,
                          quantity |-> quantity,
                          order_value |-> filled_value,
                          unknown |-> unknown]
        /\ invested' = invested + filled_value
        /\ cash' = cash - filled_value

Allowed(c) ==
    /\ planPhase = "planning" /\ scoresLeft > 0
    /\ Decision(c, planSettings) = "BUY_ALLOWED"
    /\ AppendIntent(c, Allocation(c, planSettings), Unknown(c, planSettings))
    /\ SaveEvaluation(c, planSettings)
    /\ scoresLeft' = scoresLeft - 1
    /\ UNCHANGED <<planPhase, planSettings, account>>

\* collect_ranked_buy_intents: at most 3 intents of 1 per cent each.
ListLimit == 3
ListFraction == 1

ListRoom ==
    /\ intentCount < ListLimit
    /\ account.open_positions + intentCount < planSettings.max_open_positions

Ranked(c) ==
    /\ planPhase = "listing" /\ scoresLeft > 0 /\ ListRoom
    /\ LET value == OrderValue(ListFraction)
           taken == /\ c.last_price \in planSettings.price_range
                    /\ SharesFor(value, c.last_price) >= 1
                    /\ PositionEntryGate(value, planSettings) = "ok"
       IN  \/ taken /\ AppendIntent(c, ListFraction, {})
           \/ ~taken /\ UNCHANGED <<cash, invested, intentCount, lastIntent>>
    /\ scoresLeft' = scoresLeft - 1
    /\ UNCHANGED <<planPhase, planSettings, account, evaluation>>

PlanReturns ==
    /\ \/ planPhase = "planning" /\ scoresLeft = 0
       \/ planPhase = "listing" /\ (scoresLeft = 0 \/ ~ListRoom)
    /\ planPhase' = "returned"
    /\ UNCHANGED <<planSettings, account, scoresLeft, cash, invested,
                   intentCount, lastIntent, evaluation>>

EntryNext ==
    \/ PlanStarts \/ PricesInvalid \/ PlanReturns
    \/ \E c \in EntryCandidates : Rejected(c) \/ Allowed(c) \/ Ranked(c)

EntrySpec == EntryInit /\ [][EntryNext]_entryVars

-----------------------------------------------------------------------------
EntryTypeOK ==
    /\ planPhase \in {"idle", "planning", "listing", "returned", "raised"}
    /\ planPhase # "idle" =>
           planSettings \in EntrySettings /\ account \in EntryAccounts
    /\ scoresLeft \in 0..MaxScores
    /\ cash \in Int /\ invested \in Int /\ intentCount \in Nat

(* A plan stays within its means, whatever the scores are and however many *)
(* of them pass: it never spends cash that earlier intents of the same     *)
(* call have taken, every dollar it takes from the cash is invested, and   *)
(* once it plans to buy, neither the purchase nor the account as a whole   *)
(* with all purchases of the call exceeds its exposure limit.  The gate    *)
(* sees one purchase at a time and the account was read before the call.   *)
BudgetKept ==
    planPhase \in {"planning", "listing", "returned"} =>
        /\ cash >= 0
        /\ cash + invested = account.cash + account.invested
        /\ intentCount > 0 =>
               /\ lastIntent.order_value * 100
                      <= planSettings.max_position_exposure * account.equity
               /\ invested * 100
                      <= planSettings.max_account_exposure * account.equity

(* Real money is never spent on a condition nobody could evaluate: outside *)
(* of the test mode on a mock account, an intent of plan_buy_intents had   *)
(* data for every condition in force, whatever its mode and whatever       *)
(* INTRADAY_MISSING_DATA_POLICY says.                                      *)
RealMoneyNeedsData ==
    /\ planPhase \in {"planning", "returned"} /\ intentCount > 0
    /\ planSettings.app_mode = "real" \/ ~planSettings.mock_trading
    => lastIntent.unknown = {}
=============================================================================

--------------------------- MODULE PositionProofs ---------------------------
(***************************************************************************)
(* The end of a position, for any prices, rules and failures. A close that *)
(* counts as settled has sold what it found: CloseInv is inductive, and    *)
(* SettledMeansSold of MarketClose follows from it. A watched position is  *)
(* sold by its own high, stopped out and sold in part once: LifeInv is     *)
(* inductive, and HighIsOwn, StopLossTaken and OnePartial of PositionLife  *)
(* follow from it. An exit rule is judged without hindsight: StudyInv is   *)
(* inductive, and NoHindsight of ExitStudy follows from it. A backtest     *)
(* buys and sells by what was known: two days that differ in one bar are   *)
(* the same up to it, and NoLookAhead of IntradayBacktest follows.         *)
(***************************************************************************)
EXTENDS MarketClose, PositionLife, ExitStudy, IntradayBacktest,
        FiniteSetTheorems, SequenceTheorems, WellFoundedInduction, TLAPS

-----------------------------------------------------------------------------
(* The close of the market (MarketClose).                                  *)

BeforeSale == {"cancel", "baseline", "baseline_holdings", "positions", "sell"}

\* A purchase is late only after the positions were read.
NotYetLate == ~PositionsRead => boughtLate = 0

\* Until the executor is called the close has no order and counts on nothing.
NothingYet == closePc \in BeforeSale => closeSale = 0 /\ expected = 0 /\ ~settled

\* Before the sale only the other sale moves the number of the snapshot.
BaselineExact ==
    /\ closePc = "baseline_holdings" /\ reading.ok =>
           soldToday = reading.sells + otherFilled
    /\ closePc \in {"positions", "sell"} /\ baseline.ready =>
           soldToday = baseline.sells + otherFilled

\* What is sold, and then expected, is all that was there when the positions
\* were read: of the shares of the day only those bought later are missing.
SellsTheRest ==
    baseline.ready /\ otherFilled = 0 =>
        /\ closePc = "sell" =>
               toSell + baseline.sells + boughtLate = held + soldToday
        /\ expected > 0 =>
               expected + baseline.sells + boughtLate = held + soldToday

\* A snapshot never shows more sales than there were.
NoPhantomSales == reading.sells <= soldToday

Waiting == closePc = "wait_holdings" => expected > 0 /\ polls < ClosePolls

\* A settled close has seen its sales.
SalesSeen ==
    settled => /\ baseline.ready /\ expected > 0
               /\ soldToday >= baseline.sells + expected

CloseInv ==
    /\ CloseTypeOK /\ NotYetLate /\ NothingYet /\ BaselineExact
    /\ SellsTheRest /\ NoPhantomSales /\ Waiting /\ SalesSeen

\* The brokerage fills what is in the book: what was seen stays seen.
LEMMA BrokerKeepsCloseInv ==
    ASSUME CloseInv,
           OtherPlaced \/ OtherFills \/ BuyPlaced \/ BuyFills \/ CloseSaleFills
    PROVE  CloseInv'
<1> USE CloseAssumption
<1> USE DEF CloseInv, CloseTypeOK, Steps, NotYetLate, NothingYet, BaselineExact,
            SellsTheRest, NoPhantomSales, Waiting, SalesSeen, BeforeSale,
            PositionsRead
<1>1. CASE OtherPlaced
  BY <1>1 DEF OtherPlaced
<1>2. CASE OtherFills
  <2>1. CloseTypeOK' /\ NotYetLate' /\ NothingYet'
    BY <1>2 DEF OtherFills
  <2>2. BaselineExact' /\ NoPhantomSales' /\ Waiting' /\ SalesSeen'
    BY <1>2 DEF OtherFills
  <2>3. SellsTheRest'
    BY <1>2 DEF OtherFills
  <2> QED BY <2>1, <2>2, <2>3
<1>3. CASE CloseSaleFills
  <2>1. closePc \notin BeforeSale
    BY <1>3 DEF CloseSaleFills
  <2> QED BY <1>3, <2>1 DEF CloseSaleFills
<1>4. CASE BuyPlaced
  BY <1>4 DEF BuyPlaced
<1>5. CASE BuyFills
  <2>1. CloseTypeOK' /\ NotYetLate' /\ NothingYet'
    BY <1>5 DEF BuyFills
  <2>2. BaselineExact' /\ NoPhantomSales' /\ Waiting' /\ SalesSeen'
    BY <1>5 DEF BuyFills
  <2>3. SellsTheRest'
    BY <1>5 DEF BuyFills
  <2> QED BY <2>1, <2>2, <2>3
<1> QED BY <1>1, <1>2, <1>3, <1>4, <1>5

\* The steps of close_session up to the sale.
LEMMA SellingKeepsCloseInv ==
    ASSUME CloseInv,
           CancelUnfilled \/ ReadOrders \/ TakeBaseline \/ ReadPositions \/ Sell
    PROVE  CloseInv'
<1> USE CloseAssumption
<1> USE DEF CloseInv, CloseTypeOK, Steps, NotYetLate, NothingYet, BaselineExact,
            SellsTheRest, NoPhantomSales, Waiting, SalesSeen, BeforeSale, broker,
            PositionsRead
<1>1. CASE CancelUnfilled
  BY <1>1 DEF CancelUnfilled
<1>2. CASE ReadOrders
  <2>1. reading' \in [ok : BOOLEAN, sells : Nat] /\ reading'.sells <= soldToday
    <3>1. CASE reading' = [ok |-> TRUE, sells |-> soldToday]
      BY <3>1
    <3>2. CASE reading' = NoOrders
      BY <3>2 DEF NoOrders
    <3> QED BY <1>2, <3>1, <3>2 DEF ReadOrders
  <2>2. reading'.ok => reading'.sells = soldToday
    BY <1>2 DEF ReadOrders, NoOrders
  <2> QED BY <1>2, <2>1, <2>2 DEF ReadOrders
<1>3. CASE TakeBaseline
  <2>1. PICK holdings_ok \in BOOLEAN : baseline' = Snapshot(holdings_ok)
    BY <1>3 DEF TakeBaseline
  <2>2. /\ baseline' \in [ready : BOOLEAN, sells : Nat, holding : Nat]
        /\ baseline'.ready => reading.ok /\ baseline'.sells = reading.sells
    BY <2>1 DEF Snapshot
  <2> QED BY <1>3, <2>2 DEF TakeBaseline
<1>4. CASE ReadPositions
  BY <1>4 DEF ReadPositions
<1>5. CASE Sell
  BY <1>5 DEF Sell
<1> QED BY <1>1, <1>2, <1>3, <1>4, <1>5

\* The wait for the fills.
LEMMA WaitKeepsCloseInv ==
    ASSUME CloseInv, NothingExpected \/ Poll \/ PollRaises \/ WaitTimesOut
    PROVE  CloseInv'
<1> USE CloseAssumption
<1> USE DEF CloseInv, CloseTypeOK, Steps, NotYetLate, NothingYet, BaselineExact,
            SellsTheRest, NoPhantomSales, Waiting, SalesSeen, BeforeSale, broker,
            PositionsRead
<1>1. CASE NothingExpected
  BY <1>1 DEF NothingExpected
<1>2. CASE Poll
  <2>1. PICK holdings_ok \in BOOLEAN : lastState' = Snapshot(holdings_ok)
    BY <1>2 DEF Poll
  <2>2. /\ lastState' \in [ready : BOOLEAN, sells : Nat, holding : Nat]
        /\ lastState'.sells <= soldToday
    BY <2>1 DEF Snapshot
  <2>3. settled' \in BOOLEAN
    BY <1>2, <2>2 DEF Poll, Completed
  <2>4. settled' => baseline.ready /\ lastState'.sells - baseline.sells >= expected
    BY <1>2 DEF Poll, Completed
  <2>5. SalesSeen'
    BY <1>2, <2>2, <2>4 DEF Poll
  <2> QED BY <1>2, <2>2, <2>3, <2>5 DEF Poll
<1>3. CASE PollRaises
  BY <1>3 DEF PollRaises
<1>4. CASE WaitTimesOut
  BY <1>4 DEF WaitTimesOut
<1> QED BY <1>1, <1>2, <1>3, <1>4

\* The records, and what raises out of close_session.
LEMMA RecordsKeepCloseInv ==
    ASSUME CloseInv,
           \/ Raises
           \/ \E record \in DOMAIN Following : WriteRecord(record) \/ RecordFails(record)
    PROVE  CloseInv'
<1> USE CloseAssumption
<1> USE DEF CloseInv, CloseTypeOK, Steps, NotYetLate, NothingYet, BaselineExact,
            SellsTheRest, NoPhantomSales, Waiting, SalesSeen, BeforeSale, broker,
            PositionsRead
<1>1. CASE Raises
  BY <1>1 DEF Raises
<1>2. ASSUME NEW record \in DOMAIN Following,
             WriteRecord(record) \/ RecordFails(record)
      PROVE  CloseInv'
  <2>1. closePc' \in {"report", "trade_summary", "message", "export", "digest",
                      "slack", "returned"}
    BY <1>2 DEF Following, WriteRecord, RecordFails
  <2>2. UNCHANGED <<held, soldToday, otherSale, openBuy, closeSale, baseline,
                    toSell, expected, lastState, reading, polls, settled,
                    otherFilled, boughtLate>>
    BY <1>2 DEF WriteRecord, RecordFails
  <2>3. closePc' \notin BeforeSale /\ closePc' # "wait_holdings"
    BY <2>1
  <2> QED BY <2>1, <2>2, <2>3
<1> QED BY <1>1, <1>2

\* CloseInv is an invariant: the account, the snapshot the close counts from
\* and its expectations fit together whatever fails.
THEOREM CloseInductive == CloseSpec => []CloseInv
<1>1. CloseInit => CloseInv
  <2> SUFFICES ASSUME CloseInit PROVE CloseInv
    OBVIOUS
  <2>1. /\ NoState \in [ready : BOOLEAN, sells : Nat, holding : Nat]
        /\ NoState.ready = FALSE
        /\ NoOrders \in [ok : BOOLEAN, sells : Nat]
        /\ NoOrders.sells = 0
    BY DEF NoState, NoOrders
  <2>2. CloseTypeOK
    <3>1. closePc \in Steps /\ polls \in 0..ClosePolls
      BY CloseAssumption DEF CloseInit, Steps
    <3>2. baseline = NoState /\ lastState = NoState /\ reading = NoOrders
      BY DEF CloseInit
    <3>3. /\ baseline \in [ready : BOOLEAN, sells : Nat, holding : Nat]
          /\ lastState \in [ready : BOOLEAN, sells : Nat, holding : Nat]
          /\ reading \in [ok : BOOLEAN, sells : Nat]
      BY <2>1, <3>2, Zenon
    <3> QED BY <3>1, <3>3, CloseAssumption DEF CloseInit, CloseTypeOK
  <2> QED
    BY <2>1, <2>2, CloseAssumption
    DEF CloseInit, CloseInv, NotYetLate, NothingYet, BaselineExact, SellsTheRest,
        NoPhantomSales, Waiting, SalesSeen
<1>2. CloseInv /\ UNCHANGED closeVars => CloseInv'
  BY DEF closeVars, broker, CloseInv, CloseTypeOK, NotYetLate, PositionsRead,
         NothingYet, BaselineExact, SellsTheRest, NoPhantomSales, Waiting, SalesSeen
<1>3. CloseInv /\ [CloseNext]_closeVars => CloseInv'
  BY <1>2, BrokerKeepsCloseInv, SellingKeepsCloseInv, WaitKeepsCloseInv,
     RecordsKeepCloseInv DEF CloseNext
<1> QED BY <1>1, <1>3, PTL DEF CloseSpec

\* A close that counts as settled has sold every share that was there when it
\* read the positions, whatever is left in the book by a failed cancellation:
\* what is held was bought later, unless another sale was filled after the
\* snapshot it counts from.
THEOREM SettledMeansSoldHolds == CloseSpec => []SettledMeansSold
<1>1. CloseInv => SettledMeansSold
  <2> SUFFICES ASSUME CloseInv, settled, otherFilled = 0 PROVE held <= boughtLate
    BY DEF SettledMeansSold
  <2>1. /\ expected + baseline.sells + boughtLate = held + soldToday
        /\ soldToday >= baseline.sells + expected
    BY DEF CloseInv, SalesSeen, SellsTheRest
  <2> QED BY <2>1 DEF CloseInv, CloseTypeOK
<1> QED BY <1>1, CloseInductive, PTL

-----------------------------------------------------------------------------
(* The life of a position under the watch (PositionLife).                  *)

\* Until the settings are read nothing is bought.
RulesFirst == ~rules.chosen => qty = 0

\* The remembered high is the position's own, or forgotten in a restart that
\* also begins the own high anew.
HighRemembered ==
    qty > 0 =>
        /\ ownHigh >= Entry
        /\ foreignHigh \/ highs = ownHigh \/ (highs = NoPrice /\ ownHigh = Entry)

\* Who stops a planned exit of the position: an exit of it, or an earlier one.
PendingIsPlanned == qty > 0 /\ pendingExit => exitTried \/ carriedExit

\* One of the two records knows of the partial sale, unless it is lost.
PartialIsKnown == partials > 0 => partialSaved \/ partialLost

LifeInv ==
    /\ LifeTypeOK /\ RulesFirst /\ HighRemembered /\ PendingIsPlanned
    /\ PartialIsKnown /\ HighIsOwn /\ StopLossTaken /\ OnePartial

LEMMA HigherType ==
    ASSUME NEW a \in Int, NEW b \in Int
    PROVE  /\ Higher(a, b) \in {a, b} /\ Higher(a, b) >= a /\ Higher(a, b) >= b
           /\ Lower(a, b) \in {a, b} /\ Lower(a, b) <= a /\ Lower(a, b) <= b
BY DEF Higher, Lower

LEMMA RulesType ==
    ASSUME LifeTypeOK, rules.chosen
    PROVE  rules \in ExitRules /\ rules.trailing_activation \in Int
           /\ rules.protection_trigger \in Int
<1>1. rules # [chosen |-> FALSE]
  OBVIOUS
<1>2. rules \in ExitRules
  BY <1>1 DEF LifeTypeOK
<1> QED BY <1>2, RulesAssumption

\* The high that the watch remembers is the position's own (RememberHigh).
LEMMA WatchedHigh ==
    ASSUME LifeTypeOK, HighRemembered, qty > 0,
           NEW shown \in Quotes, NEW quoted \in Quotes \cup {NoPrice}
    PROVE  LET high == Watched(shown, quoted).high
               own == Higher(ownHigh, Higher(shown, quoted))
           IN  /\ high \in {NoPrice, Entry} \cup Quotes /\ own \in {NoPrice, Entry} \cup Quotes
               /\ high \in Int /\ own \in Int /\ own >= Entry /\ (foreignHigh \/ high = own)
<1> DEFINE Prices == {NoPrice, Entry} \cup Quotes
<1>0. Prices \subseteq Nat /\ shown \in Prices /\ quoted \in Prices
  BY QuotesAssumption DEF NoPrice, Entry
<1>a. highs \in Prices /\ ownHigh \in Prices
  BY DEF LifeTypeOK
<1> HIDE DEF Prices
<1>1. /\ highs \in Nat /\ ownHigh \in Nat
      /\ shown \in Nat /\ quoted \in Nat /\ quoted >= 0
  BY <1>0, <1>a
<1>2. ownHigh >= Entry
      /\ (foreignHigh \/ highs = ownHigh \/ (highs = NoPrice /\ ownHigh = Entry))
  BY DEF HighRemembered
<1>3. Watched(shown, quoted).high = Higher(Higher(Higher(Entry, shown), highs), quoted)
  BY DEF Watched
<1>4. /\ Higher(Higher(Higher(Entry, shown), highs), quoted) \in {Entry, shown, highs, quoted}
      /\ Higher(ownHigh, Higher(shown, quoted)) \in {ownHigh, shown, quoted}
      /\ Higher(ownHigh, Higher(shown, quoted)) >= Entry
      /\ highs = ownHigh \/ (highs = NoPrice /\ ownHigh = Entry) =>
             Higher(Higher(Higher(Entry, shown), highs), quoted)
                 = Higher(ownHigh, Higher(shown, quoted))
  BY <1>1, <1>2 DEF Higher, NoPrice, Entry
<1>5. {Entry, shown, highs, quoted, ownHigh} \subseteq {NoPrice, Entry} \cup Quotes
  BY <1>0, <1>a DEF Prices
<1>6. {NoPrice, Entry} \cup Quotes \subseteq Int
  BY <1>0 DEF Prices
<1> QED BY <1>2, <1>3, <1>4, <1>5, <1>6

\* A reason of the trail or of the protection is a rise of the position, and a
\* stop loss is planned as a full sale.
LEMMA ReasonIsEarned ==
    ASSUME LifeTypeOK, rules.chosen, NEW p, p.high \in Int, p.high >= Entry,
           NEW done \in BOOLEAN
    PROVE  LET reason == ExitReason(p, FALSE, done) IN
           /\ reason = "TRAILING_STOP" => Rate(p.high) >= rules.trailing_activation
           /\ reason = "PROFIT_PROTECTION" => Rate(p.high) >= rules.protection_trigger
           /\ HardStop(p) => reason = "STOP_LOSS"
           /\ reason = "PARTIAL_TAKE_PROFIT" => ~done
<1>1. rules.trailing_activation \in Int /\ rules.protection_trigger \in Int
  BY RulesType
<1>2. TrailingStop(p) => Rate(p.high) >= rules.trailing_activation
  BY <1>1 DEF TrailingStop, Rate, Entry
<1>3. ProfitProtection(p) => Rate(p.high) >= rules.protection_trigger
  BY DEF ProfitProtection
<1> QED BY <1>2, <1>3 DEF ExitReason

\* Actions that neither watch nor buy.
LEMMA OtherStepKeeps ==
    ASSUME LifeInv,
           Settings \/ Sold \/ SaleDies \/ Tick \/ Restart \/ WatchFlat \/ Bought
           \/ UNCHANGED lifeVars
    PROVE  LifeInv'
<1> USE DEF LifeInv
<1>1. CASE Settings
  <2>1. qty = 0
    BY <1>1 DEF Settings, RulesFirst
  <2> QED
    BY <1>1, <2>1 DEF Settings, saleMemory, history, LifeTypeOK, RulesFirst,
         HighRemembered, PendingIsPlanned, PartialIsKnown, HighIsOwn, StopLossTaken,
         OnePartial
<1>2. CASE Sold
  <2>1. /\ qty' \in 0..2 /\ saleOrder' \in 0..2 /\ (qty' > 0 => qty > 0)
        /\ (qty = 0 => qty' = 0)
    BY <1>2 DEF Sold, Lower, LifeTypeOK
  <2> QED
    BY <1>2, <2>1 DEF Sold, saleMemory, history, LifeTypeOK, RulesFirst,
         HighRemembered, PendingIsPlanned, PartialIsKnown, HighIsOwn, StopLossTaken,
         OnePartial, Rate
<1>3. CASE SaleDies
  BY <1>3 DEF SaleDies, saleMemory, history, LifeTypeOK, RulesFirst,
       HighRemembered, PendingIsPlanned, PartialIsKnown, HighIsOwn, StopLossTaken,
       OnePartial, Rate
<1>4. CASE Tick
  <2>1. tick' \in 0..LastTick
    BY <1>4, TicksAssumption DEF Tick, LifeTypeOK
  <2> QED
    BY <1>4, <2>1 DEF Tick, saleMemory, history, LifeTypeOK, RulesFirst,
         HighRemembered, PendingIsPlanned, PartialIsKnown, HighIsOwn, StopLossTaken,
         OnePartial, Rate
<1>5. CASE Restart
  <2>1. LifeTypeOK'
    BY <1>5 DEF Restart, LifeTypeOK, NoPrice, Entry
  <2>2. RulesFirst' /\ HighRemembered'
    BY <1>5 DEF Restart, RulesFirst, HighRemembered, LifeTypeOK, NoPrice, Entry
  <2>3. HighIsOwn'
    BY <1>5 DEF Restart, HighIsOwn, LifeTypeOK, Rate, NoPrice, Entry
  <2>4. PendingIsPlanned' /\ StopLossTaken' /\ PartialIsKnown' /\ OnePartial'
    BY <1>5 DEF Restart, PendingIsPlanned, StopLossTaken, PartialIsKnown, OnePartial
  <2> QED BY <2>1, <2>2, <2>3, <2>4
<1>6. CASE WatchFlat
  <2>1. LifeTypeOK'
    BY <1>6 DEF WatchFlat, LifeTypeOK
  <2>2. RulesFirst' /\ HighRemembered'
    BY <1>6 DEF WatchFlat, RulesFirst, HighRemembered, LifeTypeOK
  <2>3. HighIsOwn'
    BY <1>6 DEF WatchFlat, HighIsOwn, LifeTypeOK, Rate
  <2>4. PendingIsPlanned' /\ StopLossTaken' /\ PartialIsKnown' /\ OnePartial'
    BY <1>6 DEF WatchFlat, PendingIsPlanned, StopLossTaken, PartialIsKnown, OnePartial
  <2> QED BY <2>1, <2>2, <2>3, <2>4
<1>7. CASE Bought
  <2>0. /\ foreignHigh' \in BOOLEAN /\ (~foreignHigh' => highs = NoPrice)
        /\ carriedExit' = pendingExit /\ firstFill' \in {tick, firstFill}
        /\ enteredAt' = tick /\ qty' = 2 /\ ownHigh' = Entry /\ rules.chosen
        /\ stopSeen' = FALSE /\ exitTried' = FALSE
        /\ UNCHANGED <<rules, tick, saleOrder, saleMemory, partialSaved, partials,
                       partialLost>>
    BY <1>7 DEF Bought
  <2>1. LifeTypeOK'
    <3>1. carriedExit' \in BOOLEAN /\ partialKnown' \in BOOLEAN /\ partialSaved' \in BOOLEAN
          /\ pendingExit' \in BOOLEAN /\ partialLost' \in BOOLEAN
      BY <2>0 DEF LifeTypeOK, saleMemory
    <3>2. {enteredAt', firstFill'} \subseteq {NoTick} \cup 0 .. LastTick
      BY <2>0 DEF LifeTypeOK
    <3>3. {highs', ownHigh'} \subseteq {NoPrice, Entry} \cup Quotes
      BY <2>0 DEF LifeTypeOK, saleMemory
    <3>4. {partialKnown', partialSaved', pendingExit', foreignHigh', stopSeen',
           exitTried', carriedExit', partialLost'} \subseteq BOOLEAN
      BY <2>0, <3>1
    <3>5. /\ rules' \in ExitRules \cup {[chosen |-> FALSE]} /\ tick' \in 0 .. LastTick
          /\ qty' \in 0 .. 2 /\ saleOrder' \in 0 .. 2 /\ partials' \in 0 .. 2
      BY <2>0 DEF LifeTypeOK
    <3> QED BY <3>2, <3>3, <3>4, <3>5 DEF LifeTypeOK
  <2>2. RulesFirst' /\ HighRemembered'
    BY <2>0 DEF RulesFirst, HighRemembered, saleMemory, Entry
  <2>3. HighIsOwn'
    BY <1>7 DEF Bought, saleMemory, HighIsOwn, LifeTypeOK, Rate, NoPrice, Entry, NoTick
  <2>4. PendingIsPlanned' /\ StopLossTaken' /\ PartialIsKnown' /\ OnePartial'
    BY <1>7 DEF Bought, saleMemory, PendingIsPlanned, StopLossTaken, PartialIsKnown, OnePartial
  <2> QED BY <2>1, <2>2, <2>3, <2>4
<1>8. CASE UNCHANGED lifeVars
  BY <1>8 DEF lifeVars, saleMemory, history, LifeTypeOK, RulesFirst,
       HighRemembered, PendingIsPlanned, PartialIsKnown, HighIsOwn, StopLossTaken,
       OnePartial, Rate
<1> QED BY <1>1, <1>2, <1>3, <1>4, <1>5, <1>6, <1>7, <1>8

\* What a watch does about a position with exit reason `reason`.
LEMMA ActsKeep ==
    ASSUME LifeInv, qty > 0, NEW reason, NEW lookup \in {TRUE, ~partialSaved},
           reason = "PARTIAL_TAKE_PROFIT" => ~PartialDone(lookup),
           \/ reason # "none" /\ ~pendingExit
                /\ \E outcome \in Outcomes : Execute(reason, outcome, lookup)
           \/ (reason = "none" \/ pendingExit) /\ NothingToExecute(lookup),
           carriedExit' = carriedExit
    PROVE  /\ saleOrder' \in 0..2 /\ partials' \in 0..2
           /\ partialKnown' \in BOOLEAN /\ partialSaved' \in BOOLEAN
           /\ pendingExit' \in BOOLEAN /\ exitTried' \in BOOLEAN
           /\ partialLost' \in BOOLEAN
           /\ saleReason' \in {"none", reason}
           /\ pendingExit' => exitTried' \/ carriedExit'
           /\ reason = "STOP_LOSS" => exitTried' \/ carriedExit'
           /\ partials' > 0 => partialSaved' \/ partialLost'
           /\ partials' > 1 => partialLost'
<1> USE DEF LifeInv
<1>1. CASE (reason = "none" \/ pendingExit) /\ NothingToExecute(lookup)
  BY <1>1 DEF NothingToExecute, LifeTypeOK, PendingIsPlanned, PartialIsKnown,
       OnePartial, Unread
<1>2. CASE reason # "none" /\ ~pendingExit
             /\ \E outcome \in Outcomes : Execute(reason, outcome, lookup)
  <2>1. PICK outcome \in Outcomes : Execute(reason, outcome, lookup)
    BY <1>2
  <2>2. saleOrder' \in 0..2
    <3>1. ExitQuantity(reason) \in Nat
      BY DEF ExitQuantity, Higher, LifeTypeOK
    <3> QED BY <2>1, <3>1 DEF Execute, Lower, LifeTypeOK
  <2>3. partials' \in 0..2 /\ partials' <= partials + 1
        /\ (reason # "PARTIAL_TAKE_PROFIT" => partials' = partials)
    BY <2>1 DEF Execute, Lower, LifeTypeOK
  <2>4. partialKnown' \in BOOLEAN /\ partialSaved' \in BOOLEAN
        /\ pendingExit' \in BOOLEAN /\ exitTried' \in BOOLEAN /\ partialLost' \in BOOLEAN
    BY <2>1 DEF Execute, ExecutionEnds, LifeTypeOK
  <2>5. saleReason' = reason
    BY <2>1 DEF Execute
  <2>6. reason # "PARTIAL_TAKE_PROFIT" => exitTried'
    BY <2>1 DEF Execute
  <2>7. pendingExit' => exitTried'
    BY <1>2, <2>1, <2>6 DEF Execute, ExecutionEnds
  <2>8. reason = "PARTIAL_TAKE_PROFIT" =>
            (partialSaved' \/ partialLost') /\ (partialSaved => partialLost')
    BY <2>1 DEF Execute, PartialDone, Unread
  <2>9. (partialSaved => partialSaved') /\ (partialLost => partialLost')
    BY <2>1 DEF Execute
  <2>10. /\ partials' > 0 => partialSaved' \/ partialLost'
         /\ partials' > 1 => partialLost'
    <3>1. CASE reason = "PARTIAL_TAKE_PROFIT"
      <4>1. partials' > 1 => partials > 0
        BY <2>3 DEF LifeTypeOK
      <4> QED BY <2>8, <2>9, <3>1, <4>1 DEF PartialIsKnown
    <3>2. CASE reason # "PARTIAL_TAKE_PROFIT"
      BY <2>3, <2>9, <3>2 DEF PartialIsKnown, OnePartial
    <3> QED BY <3>1, <3>2
  <2> QED BY <2>2, <2>3, <2>4, <2>5, <2>6, <2>7, <2>10
<1> QED BY <1>1, <1>2

LEMMA WatchKeeps ==
    ASSUME LifeInv, NEW shown \in Quotes, NEW quoted \in Quotes \cup {NoPrice},
           NEW times \in BOOLEAN, NEW lookup \in {TRUE, ~partialSaved},
           WatchHeld(shown, quoted, times, lookup)
    PROVE  LifeInv'
<1> USE DEF LifeInv
<1> DEFINE seen == Watched(shown, quoted)
           p == [last |-> seen.last, high |-> seen.high,
                 held |-> IF times THEN HeldTicks ELSE NoTick]
           reason == ExitReason(p, FALSE, PartialDone(lookup))
           own == Higher(ownHigh, Higher(shown, quoted))
<1>1. /\ rules.chosen /\ qty > 0 /\ highs' = p.high /\ ownHigh' = own
      /\ stopSeen' = HardStop(p)
      /\ \/ reason # "none" /\ ~pendingExit
              /\ \E outcome \in Outcomes : Execute(reason, outcome, lookup)
         \/ (reason = "none" \/ pendingExit) /\ NothingToExecute(lookup)
      /\ UNCHANGED <<rules, tick, qty, enteredAt, firstFill, foreignHigh, carriedExit>>
  BY DEF WatchHeld, RememberHigh
<1>2. /\ p.high \in {NoPrice, Entry} \cup Quotes /\ own \in {NoPrice, Entry} \cup Quotes
      /\ p.high \in Int /\ own \in Int /\ own >= Entry /\ (foreignHigh \/ p.high = own)
  BY <1>1, WatchedHigh
<1>3. p.high >= Entry
  BY QuotesAssumption DEF Watched, Higher, Entry, LifeTypeOK, NoPrice
<1>4. PartialDone(lookup) \in BOOLEAN
  BY DEF PartialDone, LifeTypeOK
<1>5. /\ reason = "TRAILING_STOP" => Rate(p.high) >= rules.trailing_activation
      /\ reason = "PROFIT_PROTECTION" => Rate(p.high) >= rules.protection_trigger
      /\ HardStop(p) => reason = "STOP_LOSS"
      /\ reason = "PARTIAL_TAKE_PROFIT" => ~PartialDone(lookup)
  BY <1>1, <1>2, <1>3, <1>4, ReasonIsEarned
<1> HIDE DEF p, reason, own
<1>6. /\ saleOrder' \in 0..2 /\ partials' \in 0..2
      /\ partialKnown' \in BOOLEAN /\ partialSaved' \in BOOLEAN
      /\ pendingExit' \in BOOLEAN /\ exitTried' \in BOOLEAN
      /\ partialLost' \in BOOLEAN
      /\ saleReason' \in {"none", reason}
      /\ pendingExit' => exitTried' \/ carriedExit'
      /\ reason = "STOP_LOSS" => exitTried' \/ carriedExit'
      /\ partials' > 0 => partialSaved' \/ partialLost'
      /\ partials' > 1 => partialLost'
  BY <1>1, <1>5, ActsKeep
<1>7. HardStop(p) \in BOOLEAN
  BY DEF HardStop
<1>8. LifeTypeOK'
  BY <1>1, <1>2, <1>6, <1>7 DEF LifeTypeOK
<1>9. RulesFirst' /\ HighRemembered'
  BY <1>1, <1>2 DEF RulesFirst, HighRemembered
<1>10. PendingIsPlanned' /\ PartialIsKnown' /\ OnePartial' /\ StopLossTaken'
  BY <1>1, <1>5, <1>6 DEF PendingIsPlanned, PartialIsKnown, OnePartial, StopLossTaken
<1>11. HighIsOwn'
  BY <1>1, <1>2, <1>5, <1>6 DEF HighIsOwn, Rate
<1> QED BY <1>8, <1>9, <1>10, <1>11

\* The inductive invariant of a position's day.
THEOREM LifeInductive == LifeSpec => []LifeInv
<1>1. ASSUME LifeInit
      PROVE  LifeInv
  <2>1. LifeTypeOK
    <3>1. tick \in 0 .. LastTick
      BY <1>1, TicksAssumption DEF LifeInit
    <3>2. /\ {enteredAt, firstFill} \subseteq {NoTick} \cup 0 .. LastTick
          /\ {highs, ownHigh} \subseteq {NoPrice, Entry} \cup Quotes
          /\ qty \in 0 .. 2 /\ saleOrder \in 0 .. 2 /\ partials \in 0 .. 2
      BY <1>1 DEF LifeInit
    <3>3. {partialKnown, partialSaved, pendingExit, foreignHigh, stopSeen, exitTried,
           carriedExit, partialLost} \subseteq BOOLEAN
      BY <1>1 DEF LifeInit
    <3>4. rules \in ExitRules \cup {[chosen |-> FALSE]}
      BY <1>1 DEF LifeInit
    <3> QED BY <3>1, <3>2, <3>3, <3>4 DEF LifeTypeOK
  <2>2. RulesFirst /\ HighRemembered /\ PendingIsPlanned /\ PartialIsKnown
    BY <1>1 DEF LifeInit, RulesFirst, HighRemembered, PendingIsPlanned, PartialIsKnown
  <2>3. HighIsOwn /\ StopLossTaken /\ OnePartial
    BY <1>1 DEF LifeInit, HighIsOwn, StopLossTaken, OnePartial
  <2> QED BY <2>1, <2>2, <2>3 DEF LifeInv
<1>2. LifeInv /\ [LifeNext]_lifeVars => LifeInv'
  BY OtherStepKeeps, WatchKeeps DEF LifeNext
<1> QED BY <1>1, <1>2, PTL DEF LifeSpec

\* For every set of prices and exit rules the high that _remembered_highs gives
\* to the watch is the position's own, so the trailing stop and the profit
\* protection answer to a rise of this position and miss none.
THEOREM HighIsOwnHolds == LifeSpec => []HighIsOwn
<1>1. LifeInv => HighIsOwn
  BY DEF LifeInv
<1> QED BY <1>1, LifeInductive, PTL

\* Whatever fails, a position that a watch saw at its stop loss has had a full
\* sale planned (_exit_reason, latest.pending_exits).
THEOREM StopLossTakenHolds == LifeSpec => []StopLossTaken
<1>1. LifeInv => StopLossTaken
  BY DEF LifeInv
<1> QED BY <1>1, LifeInductive, PTL

\* latest.partial_take_profit_tickers and saved_partial_take_profit_tickers
\* together keep the partial sale to one a day, unless its record is lost.
THEOREM OnePartialHolds == LifeSpec => []OnePartial
<1>1. LifeInv => OnePartial
  BY DEF LifeInv
<1> QED BY <1>1, LifeInductive, PTL

-----------------------------------------------------------------------------
(* The record that exit rules are judged from (ExitStudy).                 *)

Fills == [at : Nat, price : Nat]
StudyOrders == [at : Nat]
Rows == [at : Nat, price : Nat, profits : [SnapshotMinutes -> Int], final : BOOLEAN,
         rate : Int]
PersistingJobs ==
    [busy : BOOLEAN, late : BOOLEAN, held : Nat, price : Nat, purchases : Nat, sales : Nat]

StudyTypes ==
    /\ minute \in Nat /\ quote \in Nat /\ sharesHeld \in Nat
    /\ purchases \in Seq(Fills) /\ orders \in Seq(StudyOrders) /\ sales \in Seq(Fills)
    /\ studyRows \in Seq(Rows) /\ leftAt \in Seq(Nat \cup {Unset})
    /\ Len(leftAt) = Len(purchases)
    /\ openSale \in BOOLEAN /\ unseen \in BOOLEAN /\ job \in PersistingJobs
    /\ covered \subseteq DOMAIN purchases

\* The rows are those of the first purchases, and a job knows of all of them.
RowsFollow ==
    /\ Len(studyRows) <= Len(purchases)
    /\ \A i \in DOMAIN studyRows : studyRows[i].at = purchases[i].at
    /\ \A i \in DOMAIN purchases : purchases[i].at <= minute
    /\ job.busy => /\ Len(studyRows) <= job.purchases /\ job.purchases <= Len(purchases)
                   /\ job.sales <= Len(sales)

\* A profit is recorded when its minute has come, and before the purchase is
\* gone, but for the minute of a job.
TakenInTime(i, n) ==
    \/ leftAt[i] = Unset
    \/ purchases[i].at + n <= leftAt[i] + 1
    \/ i \in covered
ProfitsInTime ==
    \A i \in DOMAIN studyRows : \A n \in SnapshotMinutes :
        studyRows[i].profits[n] # Unset =>
            purchases[i].at + n <= minute /\ TakenInTime(i, n)

\* What is gone has its exit in the record, unless no job has seen it gone; then
\* the ticker is not held.
Closed(i) == i \in DOMAIN studyRows /\ studyRows[i].final
GoneIsClosed ==
    \A i \in DOMAIN purchases : leftAt[i] # Unset /\ i \notin covered =>
        Closed(i) \/ (unseen /\ sharesHeld = 0)

\* What is gone was ordered to be sold, and the order is no older.
OrderedSince(o, i) == orders[o].at >= purchases[i].at
GoneWasOrdered ==
    /\ \A i \in DOMAIN purchases : leftAt[i] # Unset =>
          \E o \in DOMAIN orders : OrderedSince(o, i)
    /\ openSale => \E o \in DOMAIN orders : \A i \in DOMAIN purchases : OrderedSince(o, i)

\* What a job read as held is not long gone.
Late == IF job.late THEN 1 ELSE 0
HeldIsRecent ==
    job.busy /\ job.held > 0 =>
        \A i \in DOMAIN purchases : leftAt[i] # Unset =>
            i \in covered \/ Closed(i) \/ leftAt[i] >= minute - Late

\* A job that knows of every sale knows of every purchase that is gone.
SalesAreOfKnown ==
    job.busy /\ job.sales = Len(sales) =>
        \A i \in DOMAIN purchases : leftAt[i] # Unset => i <= job.purchases

StudyInv ==
    /\ StudyTypes /\ RowsFollow /\ ProfitsInTime /\ GoneIsClosed /\ GoneWasOrdered
    /\ HeldIsRecent /\ SalesAreOfKnown

-----------------------------------------------------------------------------
LEMMA NumbersHaveALeast ==
    ASSUME NEW S, S \subseteq Nat, S # {}
    PROVE  \E x \in S : \A y \in S : x <= y
<1>1. PICK x \in S : \A y \in S : <<y, x>> \notin OpToRel(<, Nat)
  BY NatLessThanWellFounded, WFMin
<1>2. ASSUME NEW y \in S PROVE x <= y
  <2>1. ~(y < x)
    BY <1>1 DEF OpToRel
  <2> QED BY <2>1
<1> QED BY <1>2

\* What a job makes of the rows: those it found and one for every other purchase
\* it read, with profits that were recorded in time.
Sound(rows) ==
    /\ rows \in Seq(Rows) /\ Len(rows) = job.purchases
    /\ \A i \in 1 .. job.purchases : rows[i].at = purchases[i].at
    /\ \A i \in 1 .. job.purchases : \A n \in SnapshotMinutes :
          rows[i].profits[n] # Unset =>
              purchases[i].at + n <= minute /\ TakenInTime(i, n)
    /\ \A i \in DOMAIN studyRows : i \in 1 .. job.purchases
                                  /\ (studyRows[i].final => rows[i].final)

LEMMA EntriesAreSound ==
    ASSUME StudyInv, job.busy PROVE Sound(WithEntries(studyRows))
<1> DEFINE k == job.purchases
           m == Len(studyRows)
           entry(i) == [at |-> purchases[m + i].at, price |-> purchases[m + i].price,
                        profits |-> [n \in SnapshotMinutes |-> Unset],
                        final |-> FALSE, rate |-> Unset]
           new == [i \in 1 .. k - m |-> entry(i)]
           rows == WithEntries(studyRows)
<1>1. /\ k \in Nat /\ m \in Nat /\ m <= k /\ k <= Len(purchases) /\ Len(purchases) \in Nat
      /\ studyRows \in Seq(Rows) /\ purchases \in Seq(Fills)
  BY DEF StudyInv, StudyTypes, RowsFollow, PersistingJobs
<1>2. rows = studyRows \o new
  BY DEF WithEntries
<1>3. ASSUME NEW i \in 1 .. k - m PROVE entry(i) \in Rows
  <2>1. m + i \in 1 .. Len(purchases)
    BY <1>1
  <2>2. purchases[m + i] \in Fills
    BY <1>1, <2>1
  <2>3. Unset \in Int
    BY DEF Unset
  <2> QED BY <2>2, <2>3 DEF Fills, Rows
<1>4. k - m \in Nat
  BY <1>1
<1>5. new \in Seq(Rows) /\ Len(new) = k - m
  <2> HIDE DEF entry, k, m
  <2>1. new \in [1 .. k - m -> Rows]
    BY <1>3
  <2>2. new \in Seq(Rows)
    BY <1>4, <2>1, SeqDef
  <2>3. DOMAIN new = 1 .. k - m
    OBVIOUS
  <2> QED BY <1>4, <2>2, <2>3
<1>6. /\ rows \in Seq(Rows) /\ Len(rows) = k
      /\ \A i \in 1 .. k : rows[i] = IF i <= m THEN studyRows[i] ELSE new[i - m]
  <2> HIDE DEF new, rows, k
  <2>1. Len(studyRows) + Len(new) = k
    BY <1>1, <1>4, <1>5
  <2>2. /\ studyRows \o new \in Seq(Rows)
        /\ Len(studyRows \o new) = Len(studyRows) + Len(new)
        /\ \A i \in 1 .. Len(studyRows) + Len(new) : (studyRows \o new)[i] =
                IF i <= Len(studyRows) THEN studyRows[i] ELSE new[i - Len(studyRows)]
    BY <1>1, <1>5, ConcatProperties
  <2> QED BY <1>2, <2>1, <2>2
<1>7. ASSUME NEW i \in 1 .. k, i > m
      PROVE  /\ rows[i].at = purchases[i].at
             /\ \A n \in SnapshotMinutes : rows[i].profits[n] = Unset
  <2>1. i - m \in 1 .. k - m /\ m + (i - m) = i /\ ~(i <= m)
    BY <1>1, <1>7
  <2>2. rows[i] = entry(i - m)
    BY <1>6, <2>1
  <2> QED BY <2>1, <2>2
<1>8. ASSUME NEW i \in 1 .. k, i <= m
      PROVE  rows[i] = studyRows[i] /\ i \in DOMAIN studyRows
  <2>1. rows[i] = studyRows[i]
    BY <1>6, <1>8
  <2> QED BY <1>1, <1>8, <2>1
<1> HIDE DEF rows, entry, new
<1>9. \A i \in 1 .. k : rows[i].at = purchases[i].at
  BY <1>1, <1>7, <1>8 DEF StudyInv, RowsFollow
<1>10. ASSUME NEW i \in 1 .. k, NEW n \in SnapshotMinutes, rows[i].profits[n] # Unset
       PROVE  purchases[i].at + n <= minute /\ TakenInTime(i, n)
  BY <1>1, <1>7, <1>8, <1>10 DEF StudyInv, ProfitsInTime
<1>11. \A i \in DOMAIN studyRows : i \in 1 .. k /\ i <= m
  BY <1>1
<1> QED BY <1>6, <1>8, <1>9, <1>10, <1>11 DEF Sound, rows

LEMMA ProfitsAreSound ==
    ASSUME StudyInv, job.busy, NEW rows, Sound(rows)
    PROVE  Sound(WithProfits(rows))
<1> DEFINE k == job.purchases
           taken(i) == [n \in SnapshotMinutes |->
               IF /\ job.held > 0 /\ ~rows[i].final
                  /\ rows[i].profits[n] = Unset /\ minute - rows[i].at >= n
               THEN job.price - rows[i].price ELSE rows[i].profits[n]]
           after == WithProfits(rows)
<1>1. /\ k \in Nat /\ rows \in Seq(Rows) /\ Len(rows) = k /\ DOMAIN rows = 1 .. k
      /\ minute \in Nat /\ job.held \in Nat /\ job.price \in Nat
      /\ k <= Len(purchases) /\ Len(purchases) \in Nat
      /\ Len(leftAt) = Len(purchases) /\ leftAt \in Seq(Nat \cup {Unset})
      /\ purchases \in Seq(Fills) /\ SnapshotMinutes \subseteq Nat
  BY StudyAssumption DEF StudyInv, StudyTypes, RowsFollow, PersistingJobs, Sound
<1>2. after = [i \in 1 .. k |-> [rows[i] EXCEPT !.profits = taken(i)]]
  BY <1>1 DEF WithProfits
<1>3. ASSUME NEW i \in 1 .. k
      PROVE  /\ after[i] \in Rows /\ after[i].at = rows[i].at
             /\ after[i].final = rows[i].final /\ after[i].profits = taken(i)
  <2>1. rows[i] \in Rows
    BY <1>1
  <2>2. PICK r : r = rows[i]
    OBVIOUS
  <2>3. /\ r \in Rows /\ r.price \in Nat /\ r.profits \in [SnapshotMinutes -> Int]
    BY <2>1, <2>2 DEF Rows
  <2>4. taken(i) \in [SnapshotMinutes -> Int]
    <3>1. job.price - r.price \in Int
      BY <1>1, <2>3
    <3> QED BY <2>2, <2>3, <3>1
  <2>5. after[i] = [r EXCEPT !.profits = taken(i)]
    BY <1>2, <2>2
  <2> HIDE DEF taken, after
  <2> QED BY <2>2, <2>3, <2>4, <2>5 DEF Rows
<1>4. after \in Seq(Rows) /\ Len(after) = k
  <2>1. after = [i \in 1 .. k |-> after[i]] /\ DOMAIN after = 1 .. k
    BY <1>2
  <2> HIDE DEF after, k
  <2>2. after \in [1 .. k -> Rows]
    BY <1>3, <2>1
  <2>3. after \in Seq(Rows)
    BY <1>1, <2>2, SeqDef
  <2> QED BY <1>1, <2>1, <2>3
<1>5. ASSUME NEW i \in 1 .. k, NEW n \in SnapshotMinutes, after[i].profits[n] # Unset
      PROVE  purchases[i].at + n <= minute /\ TakenInTime(i, n)
  <2>1. after[i].profits[n] = taken(i)[n]
    BY <1>3
  <2>2. CASE rows[i].profits[n] # Unset
    BY <2>2 DEF Sound
  <2>3. CASE ~(rows[i].profits[n] # Unset)
    <3>1. job.held > 0 /\ ~rows[i].final /\ minute - rows[i].at >= n
      BY <1>5, <2>1, <2>3
    <3>2. rows[i].at = purchases[i].at
      BY DEF Sound
    <3>3. i \in 1 .. Len(purchases) /\ i \in 1 .. Len(leftAt) /\ n \in Nat
      BY <1>1
    <3>4. purchases[i] \in Fills /\ leftAt[i] \in Nat \cup {Unset} /\ i \in DOMAIN purchases
      BY <1>1, <3>3
    <3>5. PICK at, left : at = purchases[i].at /\ left = leftAt[i] /\ at \in Nat
      BY <3>4 DEF Fills
    <3>6. at + n <= minute
      BY <1>1, <3>1, <3>2, <3>3, <3>5
    <3>7. ~Closed(i)
      BY <3>1 DEF Closed, Sound
    <3>8. left = Unset \/ i \in covered \/ left >= minute - Late
      BY <3>1, <3>4, <3>5, <3>7 DEF StudyInv, HeldIsRecent
    <3>9. Late \in {0, 1}
      BY DEF Late
    <3>10. left # Unset => left \in Nat
      BY <3>4, <3>5
    <3>11. left = Unset \/ i \in covered \/ at + n <= left + 1
      BY <1>1, <3>3, <3>5, <3>6, <3>8, <3>9, <3>10
    <3> QED BY <3>5, <3>6, <3>11 DEF TakenInTime
  <2> QED BY <2>2, <2>3
<1>6. /\ \A i \in 1 .. k : after[i].at = purchases[i].at
      /\ \A i \in DOMAIN studyRows : i \in 1 .. k /\ (studyRows[i].final => after[i].final)
  BY <1>3 DEF Sound
<1> HIDE DEF after
<1> QED BY <1>4, <1>5, <1>6 DEF Sound, after

LEMMA FinalsAreSound ==
    ASSUME StudyInv, job.busy, NEW rows, Sound(rows)
    PROVE  /\ Sound(WithFinals(rows, job.sales))
           /\ \A i \in 1 .. job.purchases :
                 (\E o \in DOMAIN orders : OrderedSince(o, i)) =>
                     WithFinals(rows, job.sales)[i].final
<1> DEFINE k == job.purchases
           since(i) == {t \in 1 .. job.sales : sales[t].at >= rows[i].at}
           first(i) == CHOOSE t \in since(i) : \A u \in since(i) : t <= u
           sold(i) == \E o \in DOMAIN orders : orders[o].at >= rows[i].at
           rate(i) == IF since(i) = {} THEN Unset ELSE sales[first(i)].price - rows[i].price
           after == WithFinals(rows, job.sales)
<1>1. /\ k \in Nat /\ rows \in Seq(Rows) /\ Len(rows) = k /\ DOMAIN rows = 1 .. k
      /\ job.sales \in Nat /\ job.sales <= Len(sales) /\ Len(sales) \in Nat
      /\ sales \in Seq(Fills)
  BY DEF StudyInv, StudyTypes, RowsFollow, PersistingJobs, Sound
<1>2. after = [i \in 1 .. k |->
                 IF ~rows[i].final /\ sold(i)
                 THEN [rows[i] EXCEPT !.final = TRUE, !.rate = rate(i)] ELSE rows[i]]
  BY <1>1 DEF WithFinals
<1>3. ASSUME NEW i \in 1 .. k
      PROVE  /\ after[i] \in Rows /\ after[i].at = rows[i].at
             /\ after[i].profits = rows[i].profits
             /\ rows[i].final \/ sold(i) => after[i].final
  <2>1. PICK r : r = rows[i] /\ r \in Rows
    BY <1>1
  <2>2. rate(i) \in Int
    <3>1. CASE since(i) = {}
      BY <3>1 DEF Unset
    <3>2. CASE since(i) # {}
      <4>1. since(i) \subseteq Nat
        OBVIOUS
      <4>2. first(i) \in since(i)
        <5> HIDE DEF since
        <5>1. \E t \in since(i) : \A u \in since(i) : t <= u
          BY <3>2, <4>1, NumbersHaveALeast
        <5> QED BY <5>1
      <4>3. sales[first(i)] \in Fills
        <5> HIDE DEF first
        <5> QED BY <1>1, <4>2
      <4>4. PICK s : s = sales[first(i)] /\ s \in Fills
        BY <4>3
      <4>5. s.price - r.price \in Int
        BY <2>1, <4>4 DEF Fills, Rows
      <4> QED BY <2>1, <3>2, <4>4, <4>5
    <3> QED BY <3>1, <3>2
  <2>3. after[i] = IF ~r.final /\ sold(i)
                   THEN [r EXCEPT !.final = TRUE, !.rate = rate(i)] ELSE r
    BY <1>2, <2>1
  <2> DEFINE half == [r EXCEPT !.final = TRUE]
             whole == [half EXCEPT !.rate = rate(i)]
  <2> HIDE DEF rate, after, sold
  <2>4. /\ half \in Rows /\ half.at = r.at /\ half.profits = r.profits /\ half.final = TRUE
    BY <2>1 DEF Rows
  <2>5. CASE ~r.final /\ sold(i)
    <3>1. after[i] = whole
      BY <2>3, <2>5
    <3> HIDE DEF half
    <3>2. /\ whole \in Rows /\ whole.at = half.at /\ whole.profits = half.profits
          /\ whole.final = half.final
      BY <2>2, <2>4 DEF Rows
    <3> QED BY <2>1, <2>4, <3>1, <3>2
  <2>6. CASE ~(~r.final /\ sold(i))
    <3>1. after[i] = r
      BY <2>3, <2>6
    <3> QED BY <2>1, <2>6, <3>1
  <2> QED BY <2>5, <2>6
<1>4. after \in Seq(Rows) /\ Len(after) = k
  <2>1. after = [i \in 1 .. k |-> after[i]] /\ DOMAIN after = 1 .. k
    BY <1>2
  <2> HIDE DEF after, k
  <2>2. after \in [1 .. k -> Rows]
    BY <1>3, <2>1
  <2>3. after \in Seq(Rows)
    BY <1>1, <2>2, SeqDef
  <2> QED BY <1>1, <2>1, <2>3
<1>5. \A i \in 1 .. k : (\E o \in DOMAIN orders : OrderedSince(o, i)) => after[i].final
  <2>1. \A i \in 1 .. k : rows[i].at = purchases[i].at
    BY DEF Sound
  <2> QED BY <1>3, <2>1 DEF OrderedSince
<1>6. /\ \A i \in 1 .. k : after[i].at = purchases[i].at
      /\ \A i \in 1 .. k : after[i].profits = rows[i].profits
      /\ \A i \in DOMAIN studyRows : i \in 1 .. k /\ (studyRows[i].final => after[i].final)
  BY <1>3 DEF Sound
<1> HIDE DEF after
<1>7. \A i \in 1 .. k : \A n \in SnapshotMinutes :
        after[i].profits[n] # Unset => purchases[i].at + n <= minute /\ TakenInTime(i, n)
  BY <1>6 DEF Sound
<1>8. Sound(after)
  BY <1>4, <1>6, <1>7 DEF Sound
<1> QED BY <1>5, <1>8 DEF after

-----------------------------------------------------------------------------
(* The steps.                                                              *)

LEMMA StudyStart == StudyInit => StudyInv
<1> SUFFICES ASSUME StudyInit PROVE StudyInv
  OBVIOUS
<1>1. /\ minute = 0 /\ quote \in Nat /\ sharesHeld = 0 /\ openSale = FALSE /\ unseen = FALSE
      /\ purchases = <<>> /\ orders = <<>> /\ sales = <<>> /\ studyRows = <<>> /\ leftAt = <<>>
      /\ job = NoJob /\ covered = {}
  BY StudyAssumption DEF StudyInit
<1>2. job \in PersistingJobs /\ job.busy = FALSE
  BY <1>1 DEF NoJob, PersistingJobs
<1>3. StudyTypes
  <2>1. /\ minute \in Nat /\ quote \in Nat /\ sharesHeld \in Nat /\ openSale \in BOOLEAN
        /\ unseen \in BOOLEAN /\ covered \subseteq DOMAIN purchases
    BY <1>1
  <2>2. /\ purchases \in Seq(Fills) /\ orders \in Seq(StudyOrders) /\ sales \in Seq(Fills)
        /\ studyRows \in Seq(Rows) /\ leftAt \in Seq(Nat \cup {Unset})
    BY <1>1, EmptySeq
  <2>3. Len(leftAt) = Len(purchases)
    BY <1>1
  <2> QED BY <1>2, <2>1, <2>2, <2>3 DEF StudyTypes
<1>4. DOMAIN purchases = {} /\ DOMAIN studyRows = {} /\ Len(studyRows) <= Len(purchases)
  BY <1>1
<1> QED BY <1>1, <1>2, <1>3, <1>4 DEF StudyInv, RowsFollow, ProfitsInTime, GoneIsClosed,
        GoneWasOrdered, HeldIsRecent, SalesAreOfKnown

LEMMA MinuteKeeps ==
    ASSUME StudyInv, MinutePasses PROVE StudyInv'
<1> DEFINE next == IF job.busy THEN [job EXCEPT !.late = TRUE] ELSE job
<1>1. /\ ~(job.busy /\ job.late) /\ minute' = minute + 1 /\ quote' \in StudyPrices /\ job' = next
      /\ sharesHeld' = sharesHeld /\ purchases' = purchases /\ orders' = orders
      /\ openSale' = openSale /\ sales' = sales /\ studyRows' = studyRows
      /\ leftAt' = leftAt /\ unseen' = unseen /\ covered' = covered
  BY DEF MinutePasses
<1>2. StudyTypes /\ job \in PersistingJobs /\ minute \in Nat
  BY DEF StudyInv, StudyTypes
<1>3. /\ next \in PersistingJobs /\ next.busy = job.busy /\ next.held = job.held
      /\ next.purchases = job.purchases /\ next.sales = job.sales
      /\ job.busy => next.late = TRUE
  BY <1>2 DEF PersistingJobs
<1> HIDE DEF next
<1>4. StudyTypes'
  BY <1>1, <1>2, <1>3, StudyAssumption DEF StudyTypes
<1>5. RowsFollow'
  <2>1. \A i \in DOMAIN purchases : purchases[i].at <= minute + 1
    <3>1. ASSUME NEW i \in DOMAIN purchases PROVE purchases[i].at <= minute + 1
      <4>1. purchases[i] \in Fills /\ purchases[i].at <= minute
        BY <1>2 DEF StudyTypes, StudyInv, RowsFollow
      <4> QED BY <1>2, <4>1 DEF Fills
    <3> QED BY <3>1
  <2> QED BY <1>1, <1>3, <2>1 DEF StudyInv, RowsFollow
<1>6. ProfitsInTime'
  <2>1. ASSUME NEW i \in DOMAIN studyRows, NEW n \in SnapshotMinutes,
               studyRows[i].profits[n] # Unset
        PROVE  purchases[i].at + n <= minute + 1 /\ TakenInTime(i, n)
    <3>1. purchases[i].at + n <= minute /\ TakenInTime(i, n)
      BY <2>1 DEF StudyInv, ProfitsInTime
    <3>2. i \in 1 .. Len(purchases)
      BY <1>2 DEF StudyInv, RowsFollow, StudyTypes
    <3>3. purchases[i] \in Fills /\ n \in Nat
      BY <1>2, <3>2, StudyAssumption DEF StudyTypes
    <3> QED BY <1>2, <3>1, <3>3 DEF Fills
  <2> QED BY <1>1, <2>1 DEF ProfitsInTime, TakenInTime
<1>7. GoneIsClosed' /\ GoneWasOrdered' /\ SalesAreOfKnown'
  BY <1>1, <1>3 DEF StudyInv, GoneIsClosed, GoneWasOrdered, SalesAreOfKnown, Closed,
                    OrderedSince
<1>8. HeldIsRecent'
  <2>1. ASSUME job.busy, job.held > 0, NEW i \in DOMAIN purchases, leftAt[i] # Unset
        PROVE  i \in covered \/ Closed(i) \/ leftAt[i] >= minute' - Late'
    <3>1. job.late = FALSE
      BY <1>1, <1>2, <2>1 DEF PersistingJobs
    <3>2. Late = 0 /\ Late' = 1
      BY <1>1, <1>3, <2>1, <3>1 DEF Late
    <3>3. i \in covered \/ Closed(i) \/ leftAt[i] >= minute - 0
      BY <2>1, <3>2 DEF StudyInv, HeldIsRecent
    <3>4. leftAt[i] \in Nat
      BY <1>2, <2>1 DEF StudyTypes
    <3> QED BY <1>1, <1>2, <3>2, <3>3, <3>4
  <2>2. \A i : Closed(i)' = Closed(i)
    BY <1>1 DEF Closed
  <2> QED BY <1>1, <1>3, <2>1, <2>2 DEF HeldIsRecent
<1> QED BY <1>4, <1>5, <1>6, <1>7, <1>8 DEF StudyInv

LEMMA PurchaseKeeps ==
    ASSUME StudyInv, Purchased PROVE StudyInv'
<1> DEFINE fill == [at |-> minute, price |-> quote]
           m == Len(purchases)
<1>1. /\ ~openSale /\ purchases' = Append(purchases, fill) /\ leftAt' = Append(leftAt, Unset)
      /\ sharesHeld' = sharesHeld + 2
      /\ covered' = IF unseen THEN DOMAIN purchases ELSE covered
      /\ minute' = minute /\ quote' = quote /\ orders' = orders /\ openSale' = openSale
      /\ sales' = sales /\ studyRows' = studyRows /\ job' = job /\ unseen' = unseen
  BY DEF Purchased
<1>2. StudyTypes /\ minute \in Nat /\ quote \in Nat /\ sharesHeld \in Nat /\ m \in Nat
  BY DEF StudyInv, StudyTypes
<1>3. /\ purchases' \in Seq(Fills) /\ Len(purchases') = m + 1 /\ purchases'[m + 1] = fill
      /\ \A i \in 1 .. m : purchases'[i] = purchases[i]
      /\ DOMAIN purchases = 1 .. m /\ DOMAIN purchases' = 1 .. m + 1
  <2>1. fill \in Fills
    BY <1>2 DEF Fills
  <2>2. purchases \in Seq(Fills)
    BY <1>2 DEF StudyTypes
  <2> HIDE DEF fill
  <2> QED BY <1>1, <2>1, <2>2
<1>4. /\ leftAt' \in Seq(Nat \cup {Unset}) /\ Len(leftAt') = m + 1 /\ leftAt'[m + 1] = Unset
      /\ \A i \in 1 .. m : leftAt'[i] = leftAt[i]
  <2>1. leftAt \in Seq(Nat \cup {Unset}) /\ Len(leftAt) = m
    BY <1>2 DEF StudyTypes
  <2> QED BY <1>1, <2>1
<1>5. \A i \in 1 .. m + 1 : i \in 1 .. m \/ i = m + 1
  BY <1>2
<1>6. covered \subseteq covered' /\ covered' \subseteq 1 .. m
  BY <1>1, <1>2, <1>3 DEF StudyTypes
<1>7. StudyTypes'
  <2>1. sharesHeld + 2 \in Nat
    BY <1>2
  <2>2. covered' \subseteq DOMAIN purchases'
    BY <1>2, <1>3, <1>6
  <2> QED BY <1>1, <1>2, <1>3, <1>4, <2>1, <2>2 DEF StudyTypes
<1>8. DOMAIN studyRows \subseteq 1 .. m /\ Len(studyRows) \in Nat
  BY <1>2 DEF StudyInv, StudyTypes, RowsFollow
<1>9. RowsFollow'
  <2>1. Len(studyRows) <= m + 1
    BY <1>2, <1>8 DEF StudyInv, RowsFollow
  <2>2. \A i \in 1 .. m : purchases'[i].at <= minute
    BY <1>3 DEF StudyInv, RowsFollow
  <2>3. purchases'[m + 1].at <= minute
    BY <1>2, <1>3
  <2>4. \A i \in DOMAIN studyRows : studyRows[i].at = purchases'[i].at
    BY <1>3, <1>8 DEF StudyInv, RowsFollow
  <2>5. job.busy => /\ Len(studyRows) <= job.purchases /\ job.purchases <= m + 1
                    /\ job.sales <= Len(sales)
    BY <1>2 DEF StudyInv, RowsFollow, StudyTypes, PersistingJobs
  <2> QED BY <1>1, <1>3, <1>5, <2>1, <2>2, <2>3, <2>4, <2>5 DEF RowsFollow
<1>10. ProfitsInTime'
  <2>1. ASSUME NEW i \in DOMAIN studyRows, NEW n \in SnapshotMinutes,
               studyRows[i].profits[n] # Unset
        PROVE  purchases'[i].at + n <= minute /\ TakenInTime(i, n)'
    <3>1. purchases[i].at + n <= minute /\ TakenInTime(i, n) /\ i \in 1 .. m
      BY <1>8, <2>1 DEF StudyInv, ProfitsInTime
    <3> QED BY <1>3, <1>4, <1>6, <3>1 DEF TakenInTime
  <2> QED BY <1>1, <2>1 DEF ProfitsInTime
<1>11. \A i : Closed(i)' = Closed(i)
  BY <1>1 DEF Closed
<1>12. GoneIsClosed'
  <2>1. ASSUME NEW i \in 1 .. m + 1, leftAt'[i] # Unset, i \notin covered'
        PROVE  Closed(i)
    <3>1. i \in 1 .. m /\ leftAt[i] # Unset /\ i \notin covered
      BY <1>4, <1>5, <1>6, <2>1
    <3>2. ~unseen
      BY <1>1, <1>3, <2>1, <3>1
    <3> QED BY <1>3, <3>1, <3>2 DEF StudyInv, GoneIsClosed
  <2> QED BY <1>3, <1>11, <2>1 DEF GoneIsClosed
<1>13. GoneWasOrdered'
  <2>1. \A i \in 1 .. m : \A o : OrderedSince(o, i)' = OrderedSince(o, i)
    BY <1>1, <1>3 DEF OrderedSince
  <2>2. ASSUME NEW i \in 1 .. m + 1, leftAt'[i] # Unset
        PROVE  \E o \in DOMAIN orders : OrderedSince(o, i)'
    <3>1. i \in 1 .. m /\ leftAt[i] # Unset
      BY <1>4, <1>5, <2>2
    <3> QED BY <1>3, <2>1, <3>1 DEF StudyInv, GoneWasOrdered
  <2> QED BY <1>1, <1>3, <2>2 DEF GoneWasOrdered
<1>14. HeldIsRecent'
  <2>1. Late' = Late
    BY <1>1 DEF Late
  <2>2. ASSUME job.busy, job.held > 0, NEW i \in 1 .. m + 1, leftAt'[i] # Unset
        PROVE  i \in covered' \/ Closed(i) \/ leftAt'[i] >= minute - Late
    <3>1. i \in 1 .. m /\ leftAt[i] # Unset
      BY <1>4, <1>5, <2>2
    <3> QED BY <1>3, <1>4, <1>6, <2>2, <3>1 DEF StudyInv, HeldIsRecent
  <2> QED BY <1>1, <1>3, <1>11, <2>1, <2>2 DEF HeldIsRecent
<1>15. SalesAreOfKnown'
  <2>1. ASSUME job.busy, job.sales = Len(sales), NEW i \in 1 .. m + 1, leftAt'[i] # Unset
        PROVE  i <= job.purchases
    <3>1. i \in 1 .. m /\ leftAt[i] # Unset
      BY <1>4, <1>5, <2>1
    <3> QED BY <1>3, <2>1, <3>1 DEF StudyInv, SalesAreOfKnown
  <2> QED BY <1>1, <1>3, <2>1 DEF SalesAreOfKnown
<1> QED BY <1>7, <1>9, <1>10, <1>12, <1>13, <1>14, <1>15 DEF StudyInv

LEMMA OrderKeeps ==
    ASSUME StudyInv, NEW accepted \in BOOLEAN, SaleOrdered(accepted) PROVE StudyInv'
<1> DEFINE order == [at |-> minute]
           m == Len(orders)
<1>1. /\ orders' = Append(orders, order) /\ openSale' = accepted
      /\ minute' = minute /\ quote' = quote /\ sharesHeld' = sharesHeld
      /\ purchases' = purchases /\ sales' = sales /\ studyRows' = studyRows /\ job' = job
      /\ leftAt' = leftAt /\ unseen' = unseen /\ covered' = covered
  BY DEF SaleOrdered
<1>2. StudyTypes /\ minute \in Nat /\ m \in Nat /\ orders \in Seq(StudyOrders)
  BY DEF StudyInv, StudyTypes
<1>3. /\ orders' \in Seq(StudyOrders) /\ DOMAIN orders' = 1 .. m + 1 /\ DOMAIN orders = 1 .. m
      /\ orders'[m + 1] = order /\ \A o \in 1 .. m : orders'[o] = orders[o]
      /\ m + 1 \in 1 .. m + 1 /\ 1 .. m \subseteq 1 .. m + 1
  <2>1. order \in StudyOrders
    BY <1>2 DEF StudyOrders
  <2> HIDE DEF order
  <2> QED BY <1>1, <1>2, <2>1
<1>4. StudyTypes'
  BY <1>1, <1>2, <1>3 DEF StudyTypes
<1>5. RowsFollow' /\ ProfitsInTime' /\ GoneIsClosed' /\ HeldIsRecent' /\ SalesAreOfKnown'
  BY <1>1 DEF StudyInv, RowsFollow, ProfitsInTime, TakenInTime, GoneIsClosed, Closed,
              HeldIsRecent, Late, SalesAreOfKnown
<1>6. GoneWasOrdered'
  <2>1. \A i : \A o \in 1 .. m : OrderedSince(o, i)' = OrderedSince(o, i)
    BY <1>1, <1>3 DEF OrderedSince
  <2>2. \A i \in DOMAIN purchases : leftAt[i] # Unset =>
            \E o \in DOMAIN orders' : OrderedSince(o, i)'
    BY <1>3, <2>1 DEF StudyInv, GoneWasOrdered
  <2>3. PICK last \in DOMAIN orders' : orders'[last].at = minute
    BY <1>3
  <2>4. \A i \in DOMAIN purchases : minute >= purchases[i].at
    <3>1. ASSUME NEW i \in DOMAIN purchases PROVE minute >= purchases[i].at
      <4>1. purchases[i].at <= minute /\ purchases[i] \in Fills
        BY <1>2 DEF StudyInv, RowsFollow, StudyTypes
      <4> QED BY <1>2, <4>1 DEF Fills
    <3> QED BY <3>1
  <2>5. \A i \in DOMAIN purchases : OrderedSince(last, i)'
    BY <1>1, <2>3, <2>4 DEF OrderedSince
  <2> QED BY <1>1, <2>2, <2>5 DEF GoneWasOrdered
<1> QED BY <1>4, <1>5, <1>6 DEF StudyInv

LEMMA SaleKeeps ==
    ASSUME StudyInv, NEW quantity \in 1 .. sharesHeld, SaleFilled(quantity) PROVE StudyInv'
<1> DEFINE m == Len(purchases)
           all == quantity = sharesHeld
<1>1. /\ openSale /\ sharesHeld' = sharesHeld - quantity /\ openSale' = FALSE
      /\ sales' = Append(sales, [at |-> minute, price |-> quote])
      /\ leftAt' = [i \in DOMAIN leftAt |->
                       IF leftAt[i] = Unset /\ all THEN minute ELSE leftAt[i]]
      /\ unseen' = (unseen \/ all)
      /\ minute' = minute /\ quote' = quote /\ purchases' = purchases /\ orders' = orders
      /\ studyRows' = studyRows /\ job' = job /\ covered' = covered
  BY DEF SaleFilled
<1>2. /\ StudyTypes /\ minute \in Nat /\ quote \in Nat /\ sharesHeld \in Nat /\ m \in Nat
      /\ sales \in Seq(Fills) /\ sharesHeld > 0 /\ sharesHeld - quantity \in Nat
      /\ DOMAIN purchases = 1 .. m /\ DOMAIN leftAt = 1 .. m
      /\ leftAt \in Seq(Nat \cup {Unset}) /\ unseen \in BOOLEAN
  BY DEF StudyInv, StudyTypes
<1>3. sales' \in Seq(Fills) /\ Len(sales') = Len(sales) + 1 /\ Len(sales) \in Nat
  <2>1. [at |-> minute, price |-> quote] \in Fills
    BY <1>2 DEF Fills
  <2> QED BY <1>1, <1>2, <2>1
<1>4. \A i \in 1 .. m :
        leftAt'[i] = IF leftAt[i] = Unset /\ all THEN minute ELSE leftAt[i]
  BY <1>1, <1>2
<1>5. leftAt' \in Seq(Nat \cup {Unset}) /\ Len(leftAt') = m
  <2>1. DOMAIN leftAt' = 1 .. m
    BY <1>1, <1>2
  <2>2. \A i \in 1 .. m : leftAt'[i] \in Nat \cup {Unset}
    <3>1. \A i \in 1 .. m : leftAt[i] \in Nat \cup {Unset}
      BY <1>2
    <3> QED BY <1>2, <1>4, <3>1
  <2>3. leftAt' = [i \in 1 .. m |-> leftAt'[i]]
    BY <1>1, <1>2
  <2>4. leftAt' \in [1 .. m -> Nat \cup {Unset}]
    BY <2>2, <2>3
  <2>5. leftAt' \in Seq(Nat \cup {Unset})
    BY <1>2, <2>4, SeqDef
  <2> QED BY <1>2, <2>1, <2>5
<1>6. StudyTypes'
  BY <1>1, <1>2, <1>3, <1>5 DEF StudyTypes
<1>7. RowsFollow'
  <2>1. job.busy => job.sales <= Len(sales')
    BY <1>3 DEF StudyInv, RowsFollow, StudyTypes, PersistingJobs
  <2> QED BY <1>1, <2>1 DEF StudyInv, RowsFollow
<1>8. DOMAIN studyRows \subseteq 1 .. m
  BY <1>2 DEF StudyInv, StudyTypes, RowsFollow
<1>9. ProfitsInTime'
  <2>1. ASSUME NEW i \in DOMAIN studyRows, NEW n \in SnapshotMinutes,
               studyRows[i].profits[n] # Unset
        PROVE  purchases[i].at + n <= minute /\ TakenInTime(i, n)'
    <3>1. purchases[i].at + n <= minute /\ TakenInTime(i, n) /\ i \in 1 .. m
      BY <1>8, <2>1 DEF StudyInv, ProfitsInTime
    <3>2. CASE leftAt'[i] = leftAt[i]
      BY <1>1, <3>1, <3>2 DEF TakenInTime
    <3>3. CASE leftAt'[i] = minute
      <4>1. purchases[i] \in Fills /\ n \in Nat
        BY <1>2, <3>1, StudyAssumption DEF StudyTypes
      <4>2. purchases[i].at + n <= minute + 1
        BY <1>2, <3>1, <4>1 DEF Fills
      <4> QED BY <1>1, <3>1, <3>3, <4>2 DEF TakenInTime
    <3> QED BY <1>4, <3>1, <3>2, <3>3
  <2> QED BY <1>1, <2>1 DEF ProfitsInTime
<1>10. \A i : Closed(i)' = Closed(i)
  BY <1>1 DEF Closed
<1>11. \A i \in 1 .. m : leftAt[i] # Unset /\ i \notin covered => Closed(i)
  BY <1>2 DEF StudyInv, GoneIsClosed
<1>12. GoneIsClosed'
  <2>1. CASE all
    <3>a. sharesHeld' = 0
      BY <1>1, <1>2, <2>1
    <3>b. unseen'
      BY <1>1, <2>1
    <3>1. sharesHeld' = 0 /\ unseen'
      BY <3>a, <3>b
    <3> QED BY <3>1 DEF GoneIsClosed
  <2>2. CASE ~all
    <3>1. \A i \in 1 .. m : leftAt'[i] = leftAt[i]
      BY <1>4, <2>2
    <3> QED BY <1>1, <1>2, <1>10, <1>11, <3>1 DEF GoneIsClosed
  <2> QED BY <2>1, <2>2
<1>13. GoneWasOrdered'
  <2>1. \A o, i : OrderedSince(o, i)' = OrderedSince(o, i)
    BY <1>1 DEF OrderedSince
  <2>2. \A i \in 1 .. m : \E o \in DOMAIN orders : OrderedSince(o, i)
    BY <1>1, <1>2 DEF StudyInv, GoneWasOrdered
  <2> QED BY <1>1, <1>2, <2>1, <2>2 DEF GoneWasOrdered
<1>14. HeldIsRecent'
  <2>1. Late' = Late /\ Late \in {0, 1}
    BY <1>1 DEF Late
  <2>2. ASSUME job.busy, job.held > 0, NEW i \in 1 .. m, leftAt'[i] # Unset
        PROVE  i \in covered \/ Closed(i) \/ leftAt'[i] >= minute - Late
    <3>1. CASE leftAt[i] # Unset
      <4>1. leftAt'[i] = leftAt[i]
        BY <1>4, <3>1
      <4> QED BY <1>2, <2>2, <3>1, <4>1 DEF StudyInv, HeldIsRecent
    <3>2. CASE leftAt[i] = Unset
      <4>1. leftAt'[i] = minute
        BY <1>4, <2>2, <3>2
      <4> QED BY <1>2, <2>1, <4>1
    <3> QED BY <3>1, <3>2
  <2> QED BY <1>1, <1>2, <1>10, <2>1, <2>2 DEF HeldIsRecent
<1>15. SalesAreOfKnown'
  <2>1. job.busy => ~(job.sales = Len(sales'))
    BY <1>3 DEF StudyInv, RowsFollow, StudyTypes, PersistingJobs
  <2> QED BY <1>1, <2>1 DEF SalesAreOfKnown
<1> QED BY <1>6, <1>7, <1>9, <1>12, <1>13, <1>14, <1>15 DEF StudyInv

LEMMA CancelKeeps ==
    ASSUME StudyInv, SaleCancelled PROVE StudyInv'
<1>1. /\ openSale' = FALSE
      /\ minute' = minute /\ quote' = quote /\ sharesHeld' = sharesHeld
      /\ purchases' = purchases /\ orders' = orders /\ sales' = sales
      /\ studyRows' = studyRows /\ job' = job
      /\ leftAt' = leftAt /\ unseen' = unseen /\ covered' = covered
  BY DEF SaleCancelled
<1> QED BY <1>1 DEF StudyInv, StudyTypes, RowsFollow, ProfitsInTime, TakenInTime, GoneIsClosed,
           Closed, GoneWasOrdered, OrderedSince, HeldIsRecent, Late, SalesAreOfKnown

LEMMA ReadKeeps ==
    ASSUME StudyInv, JobReads PROVE StudyInv'
<1> DEFINE read == [busy |-> TRUE, late |-> FALSE, held |-> sharesHeld, price |-> quote,
                    purchases |-> Len(purchases), sales |-> Len(sales)]
<1>1. /\ job' = read
      /\ minute' = minute /\ quote' = quote /\ sharesHeld' = sharesHeld
      /\ purchases' = purchases /\ orders' = orders /\ sales' = sales /\ openSale' = openSale
      /\ studyRows' = studyRows
      /\ leftAt' = leftAt /\ unseen' = unseen /\ covered' = covered
  BY DEF JobReads, tradeVars
<1>2. /\ StudyTypes /\ Len(purchases) \in Nat /\ Len(sales) \in Nat /\ sharesHeld \in Nat
      /\ quote \in Nat /\ DOMAIN purchases = 1 .. Len(purchases)
  BY DEF StudyInv, StudyTypes
<1>3. /\ read \in PersistingJobs /\ read.purchases = Len(purchases) /\ read.sales = Len(sales)
      /\ read.held = sharesHeld
  BY <1>2 DEF PersistingJobs
<1> HIDE DEF read
<1>4. StudyTypes'
  BY <1>1, <1>2, <1>3 DEF StudyTypes
<1>5. RowsFollow'
  BY <1>1, <1>2, <1>3 DEF StudyInv, RowsFollow
<1>6. ProfitsInTime' /\ GoneIsClosed' /\ GoneWasOrdered'
  BY <1>1 DEF StudyInv, ProfitsInTime, TakenInTime, GoneIsClosed, Closed, GoneWasOrdered,
              OrderedSince
<1>7. HeldIsRecent'
  <2>1. \A i : Closed(i)' = Closed(i)
    BY <1>1 DEF Closed
  <2>2. sharesHeld > 0 => \A i \in DOMAIN purchases : leftAt[i] # Unset =>
            i \in covered \/ Closed(i)
    BY <1>2 DEF StudyInv, GoneIsClosed
  <2> QED BY <1>1, <1>3, <2>1, <2>2 DEF HeldIsRecent
<1>8. SalesAreOfKnown'
  BY <1>1, <1>2, <1>3 DEF SalesAreOfKnown
<1> QED BY <1>4, <1>5, <1>6, <1>7, <1>8 DEF StudyInv

LEMMA EndKeeps ==
    ASSUME StudyInv, job.busy, JobEnds, unseen' \in BOOLEAN,
           studyRows' = studyRows \/ Sound(studyRows'),
           \/ unseen' = unseen
           \/ \A i \in DOMAIN purchases : leftAt[i] # Unset /\ i \notin covered =>
                  i \in DOMAIN studyRows' /\ studyRows'[i].final
    PROVE  StudyInv'
<1>1. /\ job' = NoJob
      /\ minute' = minute /\ quote' = quote /\ sharesHeld' = sharesHeld
      /\ purchases' = purchases /\ orders' = orders /\ sales' = sales /\ openSale' = openSale
      /\ leftAt' = leftAt /\ covered' = covered
  BY DEF JobEnds, tradeVars
<1>2. /\ StudyTypes /\ Len(purchases) \in Nat /\ DOMAIN purchases = 1 .. Len(purchases)
      /\ job.purchases \in Nat /\ job.purchases <= Len(purchases)
  BY DEF StudyInv, StudyTypes, RowsFollow, PersistingJobs
<1>3. job' \in PersistingJobs /\ job'.busy = FALSE
  BY <1>1 DEF NoJob, PersistingJobs
<1>4. /\ studyRows' \in Seq(Rows) /\ Len(studyRows') <= Len(purchases)
      /\ \A i \in DOMAIN studyRows' : studyRows'[i].at = purchases[i].at
      /\ \A i \in DOMAIN studyRows' : \A n \in SnapshotMinutes :
            studyRows'[i].profits[n] # Unset =>
                purchases[i].at + n <= minute /\ TakenInTime(i, n)
      /\ \A i : Closed(i) => i \in DOMAIN studyRows' /\ studyRows'[i].final
  <2>1. CASE studyRows' = studyRows
    BY <2>1 DEF StudyInv, StudyTypes, RowsFollow, ProfitsInTime, Closed
  <2>2. CASE Sound(studyRows')
    <3>1. DOMAIN studyRows' = 1 .. job.purchases
      BY <2>2 DEF Sound
    <3> QED BY <1>2, <2>2, <3>1 DEF Sound, Closed
  <2> QED BY <2>1, <2>2
<1>5. StudyTypes'
  BY <1>1, <1>2, <1>3, <1>4 DEF StudyTypes
<1>6. RowsFollow'
  BY <1>1, <1>3, <1>4 DEF StudyInv, RowsFollow
<1>7. ProfitsInTime'
  BY <1>1, <1>4 DEF ProfitsInTime, TakenInTime
<1>8. GoneIsClosed'
  BY <1>1, <1>4 DEF StudyInv, GoneIsClosed, Closed
<1>9. GoneWasOrdered'
  BY <1>1 DEF StudyInv, GoneWasOrdered, OrderedSince
<1>10. HeldIsRecent' /\ SalesAreOfKnown'
  BY <1>3 DEF HeldIsRecent, SalesAreOfKnown
<1> QED BY <1>5, <1>6, <1>7, <1>8, <1>9, <1>10 DEF StudyInv

LEMMA FinishKeeps ==
    ASSUME StudyInv, JobFinishes PROVE StudyInv'
<1> DEFINE rows == WithProfits(WithEntries(studyRows))
           after == WithFinals(rows, job.sales)
<1>1. /\ job.busy /\ JobEnds /\ studyRows' = after
      /\ unseen' = (unseen /\ Len(sales) > job.sales)
  BY DEF JobFinishes
<1>2. Sound(rows)
  BY <1>1, EntriesAreSound, ProfitsAreSound
<1>3. /\ Sound(after)
      /\ \A i \in 1 .. job.purchases :
            (\E o \in DOMAIN orders : OrderedSince(o, i)) => after[i].final
  <2> HIDE DEF rows
  <2> QED BY <1>1, <1>2, FinalsAreSound
<1> HIDE DEF after
<1>4. unseen \in BOOLEAN
  BY DEF StudyInv, StudyTypes
<1>5. CASE unseen' = unseen
  BY <1>1, <1>3, <1>4, <1>5, EndKeeps
<1>6. CASE unseen' # unseen
  <2>1. ~(Len(sales) > job.sales)
    BY <1>1, <1>4, <1>6
  <2>2. /\ Len(sales) \in Nat /\ job.sales \in Nat /\ job.sales <= Len(sales)
        /\ job.purchases \in Nat
    BY <1>1 DEF StudyInv, StudyTypes, RowsFollow, PersistingJobs
  <2>3. job.sales = Len(sales)
    BY <2>1, <2>2
  <2>4. ASSUME NEW i \in DOMAIN purchases, leftAt[i] # Unset
        PROVE  i \in DOMAIN after /\ after[i].final
    <3>1. i <= job.purchases
      BY <1>1, <2>3, <2>4 DEF StudyInv, SalesAreOfKnown
    <3>2. i \in 1 .. job.purchases
      BY <2>2, <3>1 DEF StudyInv, StudyTypes
    <3>3. \E o \in DOMAIN orders : OrderedSince(o, i)
      BY <2>4 DEF StudyInv, GoneWasOrdered
    <3>4. DOMAIN after = 1 .. job.purchases
      BY <1>3 DEF Sound
    <3> QED BY <1>3, <3>2, <3>3, <3>4
  <2>5. unseen' \in BOOLEAN
    BY <1>1
  <2> QED BY <1>1, <1>3, <2>4, <2>5, EndKeeps
<1> QED BY <1>5, <1>6

LEMMA BreakKeeps ==
    ASSUME StudyInv, JobBreaksOff PROVE StudyInv'
<1>1. job.busy /\ JobEnds /\ unseen' = unseen /\ unseen \in BOOLEAN
  BY DEF JobBreaksOff, StudyInv, StudyTypes
<1>2. Sound(WithEntries(studyRows))
  BY <1>1, EntriesAreSound
<1>3. Sound(WithProfits(WithEntries(studyRows)))
  BY <1>1, <1>2, ProfitsAreSound
<1>4. \/ studyRows' = studyRows \/ studyRows' = WithEntries(studyRows)
      \/ studyRows' = WithProfits(WithEntries(studyRows))
  BY DEF JobBreaksOff
<1>5. studyRows' = studyRows \/ Sound(studyRows')
  BY <1>2, <1>3, <1>4
<1> QED BY <1>1, <1>5, EndKeeps

LEMMA StudyStep == StudyInv /\ [StudyNext]_studyVars => StudyInv'
<1> SUFFICES ASSUME StudyInv, [StudyNext]_studyVars PROVE StudyInv'
  OBVIOUS
<1>1. CASE MinutePasses
  BY <1>1, MinuteKeeps
<1>2. CASE Purchased
  BY <1>2, PurchaseKeeps
<1>3. ASSUME NEW accepted \in BOOLEAN, SaleOrdered(accepted) PROVE StudyInv'
  BY <1>3, OrderKeeps
<1>4. ASSUME NEW quantity \in 1 .. sharesHeld, SaleFilled(quantity) PROVE StudyInv'
  BY <1>4, SaleKeeps
<1>5. CASE SaleCancelled
  BY <1>5, CancelKeeps
<1>6. CASE JobReads
  BY <1>6, ReadKeeps
<1>7. CASE JobFinishes
  BY <1>7, FinishKeeps
<1>8. CASE JobBreaksOff
  BY <1>8, BreakKeeps
<1>9. CASE UNCHANGED studyVars
  BY <1>9 DEF studyVars, StudyInv, StudyTypes, RowsFollow, ProfitsInTime, TakenInTime,
              GoneIsClosed, Closed, GoneWasOrdered, OrderedSince, HeldIsRecent, Late,
              SalesAreOfKnown
<1> QED BY <1>1, <1>2, <1>3, <1>4, <1>5, <1>6, <1>7, <1>8, <1>9 DEF StudyNext

-----------------------------------------------------------------------------
\* What a rule sells, it sells at a minute whose profit is recorded.
LEMMA TriggeredIsRecorded ==
    ASSUME NEW row, NEW outcome \in Judgements(row), outcome.triggered
    PROVE  outcome.exit \in Recorded(row)
<1> Recorded(row) \subseteq Nat
  BY StudyAssumption DEF Recorded
<1>1. ASSUME NEW n \in SnapshotMinutes, NEW strict \in BOOLEAN,
             outcome = SingleSnapshot(row, n, StudyParams.threshold, strict)
      PROVE  outcome.exit \in Recorded(row)
  <2>1. outcome \in {Skipped, Kept(row), Fires(row.profits[n], n)}
        /\ (n \in Recorded(row) \/ outcome = Skipped)
    BY <1>1 DEF SingleSnapshot
  <2>2. ~Skipped.triggered /\ ~Kept(row).triggered /\ Fires(row.profits[n], n).exit = n
    BY DEF Skipped, Kept, Fires
  <2> QED BY <2>1, <2>2
<1>2. ASSUME NEW trigger, NEW simulated, outcome = FirstReached(row, trigger, simulated)
      PROVE  outcome.exit \in Recorded(row)
  <2> DEFINE reached == {n \in Recorded(row) : row.profits[n] >= trigger}
             first == CHOOSE n \in reached : \A m \in reached : n <= m
  <2>1. \/ outcome \in {Skipped, Kept(row)}
        \/ outcome = Fires(simulated, first) /\ reached # {}
    BY <1>2 DEF FirstReached
  <2>2. ~Skipped.triggered /\ ~Kept(row).triggered /\ Fires(simulated, first).exit = first
    BY DEF Skipped, Kept, Fires
  <2>3. reached # {} => first \in reached
    <3>1. reached \subseteq Nat
      OBVIOUS
    <3> HIDE DEF reached
    <3> QED BY <3>1, NumbersHaveALeast
  <2>4. outcome = Fires(simulated, first) /\ reached # {}
    BY <2>1, <2>2
  <2> HIDE DEF first
  <2> QED BY <2>2, <2>3, <2>4
<1> QED BY <1>1, <1>2 DEF Judgements

LEMMA InTimeIsNoHindsight ==
    ASSUME StudyInv PROVE NoHindsight
<1> SUFFICES ASSUME NEW i \in DOMAIN studyRows, NEW outcome \in Judgements(studyRows[i]),
                    outcome.triggered
             PROVE  \/ leftAt[i] = Unset
                    \/ studyRows[i].at + outcome.exit <= leftAt[i] + 1
                    \/ i \in covered
  BY DEF NoHindsight
<1>1. outcome.exit \in Recorded(studyRows[i])
  BY TriggeredIsRecorded
<1>2. outcome.exit \in SnapshotMinutes /\ studyRows[i].profits[outcome.exit] # Unset
  BY <1>1 DEF Recorded
<1>3. TakenInTime(i, outcome.exit)
  BY <1>2 DEF StudyInv, ProfitsInTime
<1> QED BY <1>3 DEF TakenInTime, StudyInv, RowsFollow

(* What the record keeps to: its rows are those of the purchases, a profit *)
(* is taken when its minute has come, and what is gone was ordered to be   *)
(* sold and has its exit, unless no job has seen it gone.                  *)
THEOREM StudyInductive == StudySpec => []StudyInv
  BY StudyStart, StudyStep, PTL DEF StudySpec

(* No exit rule is judged with hindsight (exit_rule_simulation.py): for    *)
(* any prices, minutes, rules, and wherever a job breaks off.              *)
THEOREM NoHindsightHolds == StudySpec => []NoHindsight
  BY StudyInductive, InTimeIsNoHindsight, PTL

-----------------------------------------------------------------------------
(* The replay of a day (IntradayBacktest).                                 *)

\* Sorted bars of a day.
Sorted(bars) ==
    /\ bars \in Seq(Bars)
    /\ \A i, j \in DOMAIN bars : i < j => bars[i].time < bars[j].time

\* `twin` is the day of `stocks` with another bar `i` of ticker `t`, which lies
\* after the three that the opening filter counts.
Twins(stocks, twin, t, i) ==
    /\ DOMAIN stocks \subseteq Nat
    /\ DOMAIN twin = DOMAIN stocks
    /\ t \in DOMAIN stocks /\ i \in 4 .. Len(stocks[t].bars)
    /\ \A s \in DOMAIN stocks :
          /\ Sorted(stocks[s].bars) /\ Sorted(twin[s].bars)
          /\ twin[s].previous = stocks[s].previous
          /\ Len(twin[s].bars) = Len(stocks[s].bars)
          /\ \A j \in DOMAIN stocks[s].bars :
                /\ twin[s].bars[j].time = stocks[s].bars[j].time
                /\ s # t \/ j # i => twin[s].bars[j] = stocks[s].bars[j]

LEMMA ReplacedIsTwin ==
    ASSUME NEW stocks \in Histories, NEW t \in DOMAIN stocks,
           NEW i \in 4 .. Len(stocks[t].bars), NEW bar \in OtherBars
    PROVE  Twins(stocks,
                 [stocks EXCEPT ![t].bars[i] = [bar EXCEPT !.time = stocks[t].bars[i].time]],
                 t, i)
<1> DEFINE was == stocks[t].bars[i]
           new == [bar EXCEPT !.time = was.time]
           twin == [stocks EXCEPT ![t].bars[i] = new]
<1>1. /\ DOMAIN stocks \subseteq Nat /\ bar \in Bars
      /\ \A s \in DOMAIN stocks : Sorted(stocks[s].bars)
      /\ \A s \in DOMAIN stocks : stocks[s] \in [previous : Seq(Bars), bars : Seq(Bars)]
  BY ReplayAssumption DEF Sorted
<1>2. i \in DOMAIN stocks[t].bars /\ was \in Bars /\ stocks[t].bars \in Seq(Bars)
  BY <1>1
<1>3. new \in Bars /\ new.time = was.time
  BY <1>1, <1>2 DEF Bars
<1>4. DOMAIN twin = DOMAIN stocks /\ \A s \in DOMAIN stocks : s # t => twin[s] = stocks[s]
  OBVIOUS
<1>5. twin[t].previous = stocks[t].previous /\ twin[t].bars = [stocks[t].bars EXCEPT ![i] = new]
  BY <1>1
<1> HIDE DEF new, twin
<1>6. /\ twin[t].bars \in Seq(Bars) /\ Len(twin[t].bars) = Len(stocks[t].bars)
      /\ twin[t].bars[i] = new
      /\ \A j \in DOMAIN stocks[t].bars : j # i => twin[t].bars[j] = stocks[t].bars[j]
  BY <1>2, <1>3, <1>5
<1>7. \A j \in DOMAIN stocks[t].bars : twin[t].bars[j].time = stocks[t].bars[j].time
  BY <1>3, <1>6
<1>8. Sorted(twin[t].bars)
  BY <1>1, <1>2, <1>6, <1>7 DEF Sorted
<1>9. Twins(stocks, twin, t, i)
  BY <1>1, <1>4, <1>5, <1>6, <1>7, <1>8 DEF Twins
<1> QED BY <1>9 DEF twin, new

-----------------------------------------------------------------------------
LEMMA LeastIsMin ==
    ASSUME NEW S, S \subseteq Nat, NEW x \in S, \A y \in S : x <= y
    PROVE  Min(S) = x
<1>1. PICK m \in S : m = Min(S) /\ \A y \in S : m <= y
  BY DEF Min
<1> QED BY <1>1

LEMMA MinOfTwo ==
    ASSUME NEW a \in Nat, NEW b \in Nat
    PROVE  Min({a, b}) = IF a <= b THEN a ELSE b
BY LeastIsMin

-----------------------------------------------------------------------------
(* The filters and the score of one stock.                                 *)

\* What was known before the replaced bar is the same.
LEMMA BarsBefore ==
    ASSUME NEW stocks, NEW twin, NEW t, NEW i, Twins(stocks, twin, t, i),
           NEW s \in DOMAIN stocks, NEW n \in Nat, s # t \/ n < i
    PROVE  FirstBars(twin[s].bars, n) = FirstBars(stocks[s].bars, n)
<1>1. /\ stocks[s].bars \in Seq(Bars) /\ twin[s].bars \in Seq(Bars)
      /\ Len(twin[s].bars) = Len(stocks[s].bars) /\ Len(stocks[s].bars) \in Nat
      /\ i \in 4 .. Len(stocks[t].bars)
      /\ \A j \in DOMAIN stocks[s].bars :
            s # t \/ j # i => twin[s].bars[j] = stocks[s].bars[j]
  BY DEF Twins, Sorted
<1> DEFINE k == Min({n, Len(stocks[s].bars)})
<1>2. k \in Nat /\ k <= n /\ k <= Len(stocks[s].bars)
  BY <1>1, MinOfTwo
<1>3. FirstBars(twin[s].bars, n) = SubSeq(twin[s].bars, 1, k)
      /\ FirstBars(stocks[s].bars, n) = SubSeq(stocks[s].bars, 1, k)
  BY <1>1 DEF FirstBars
<1> HIDE DEF k
<1>4. \A j \in 1 .. k : j \in DOMAIN stocks[s].bars /\ (s # t \/ j # i)
  BY <1>1, <1>2
<1>5. \A j \in 1 .. k : twin[s].bars[j] = stocks[s].bars[j]
  BY <1>1, <1>4
<1>6. /\ SubSeq(twin[s].bars, 1, k) = [j \in 1 .. k |-> twin[s].bars[j]]
      /\ SubSeq(stocks[s].bars, 1, k) = [j \in 1 .. k |-> stocks[s].bars[j]]
  BY <1>1, <1>2
<1> QED BY <1>3, <1>5, <1>6

LEMMA FirstBarSame ==
    ASSUME NEW stocks, NEW twin, NEW t, NEW i, Twins(stocks, twin, t, i),
           NEW s \in DOMAIN stocks
    PROVE  twin[s].bars[1] = stocks[s].bars[1]
<1>1. CASE s # t
  <2>1. /\ stocks[s].bars \in Seq(Bars) /\ twin[s].bars \in Seq(Bars)
        /\ Len(twin[s].bars) = Len(stocks[s].bars)
        /\ \A j \in DOMAIN stocks[s].bars : twin[s].bars[j] = stocks[s].bars[j]
    BY <1>1 DEF Twins, Sorted
  <2>2. twin[s].bars = stocks[s].bars
    BY <2>1
  <2> QED BY <2>2
<1>2. CASE s = t
  <2>1. i \in 4 .. Len(stocks[t].bars) /\ stocks[t].bars \in Seq(Bars)
    BY DEF Twins, Sorted
  <2>2. 1 \in DOMAIN stocks[t].bars /\ 1 # i
    BY <2>1
  <2> QED BY <1>2, <2>2 DEF Twins
<1> QED BY <1>1, <1>2

LEMMA EligibleSame ==
    ASSUME NEW stocks, NEW twin, NEW t, NEW i, Twins(stocks, twin, t, i),
           NEW s \in DOMAIN stocks
    PROVE  /\ Eligible(twin[s]) <=> Eligible(stocks[s])
           /\ Breakout(twin[s]) = Breakout(stocks[s])
<1>1. twin[s].bars[1] = stocks[s].bars[1]
  BY FirstBarSame
<1>2. Len(twin[s].bars) = Len(stocks[s].bars) /\ twin[s].previous = stocks[s].previous
      /\ i \in Nat /\ i >= 4
  BY DEF Twins
<1>3. FirstBars(twin[s].bars, 3) = FirstBars(stocks[s].bars, 3)
  BY <1>2, BarsBefore
<1>4. Breakout(twin[s]) = Breakout(stocks[s])
  BY <1>1, <1>2 DEF Breakout
<1>5. Eligible(twin[s]) <=> Eligible(stocks[s])
  BY <1>1, <1>2, <1>3, Zenon DEF Eligible
<1> QED BY <1>4, <1>5

\* A checkpoint before the replaced bar shows the same bars.
LEMMA VisibleSame ==
    ASSUME NEW stocks, NEW twin, NEW t, NEW i, Twins(stocks, twin, t, i),
           NEW s \in DOMAIN stocks, NEW checkpoint \in Nat,
           s # t \/ checkpoint < stocks[t].bars[i].time
    PROVE  Visible(twin[s].bars, checkpoint) = Visible(stocks[s].bars, checkpoint)
<1> DEFINE S == {j \in DOMAIN stocks[s].bars : stocks[s].bars[j].time <= checkpoint}
           T == {j \in DOMAIN twin[s].bars : twin[s].bars[j].time <= checkpoint}
           n == Cardinality(S)
<1>1. /\ Sorted(stocks[s].bars) /\ Sorted(twin[s].bars)
      /\ Len(twin[s].bars) = Len(stocks[s].bars)
      /\ \A j \in DOMAIN stocks[s].bars : twin[s].bars[j].time = stocks[s].bars[j].time
      /\ i \in 4 .. Len(stocks[t].bars)
  BY DEF Twins
<1>2. DOMAIN twin[s].bars = DOMAIN stocks[s].bars
      /\ DOMAIN stocks[s].bars = 1 .. Len(stocks[s].bars) /\ Len(stocks[s].bars) \in Nat
  BY <1>1 DEF Sorted
<1>3. S = T
  BY <1>1, <1>2
<1>4. S \subseteq 1 .. Len(stocks[s].bars)
  BY <1>2
<1>5. IsFiniteSet(S) /\ n \in Nat
  <2>1. IsFiniteSet(1 .. Len(stocks[s].bars))
    BY <1>2, FS_Interval
  <2>2. IsFiniteSet(S)
    BY <1>4, <2>1, FS_Subset
  <2> QED BY <2>2, FS_CardinalityType
<1>6. s = t => n < i
  <2>1. SUFFICES ASSUME s = t PROVE n < i
    OBVIOUS
  <2>2. \A j \in DOMAIN stocks[s].bars : stocks[s].bars[j] \in Bars
    BY <1>1 DEF Sorted
  <2>3. \A j \in DOMAIN stocks[s].bars : stocks[s].bars[j].time \in Nat
    BY <2>2 DEF Bars
  <2>4. \A j \in S : j < i
    <3>1. SUFFICES ASSUME NEW j \in S, j >= i PROVE FALSE
      BY <1>1, <1>4
    <3>2. i \in DOMAIN stocks[s].bars /\ j \in DOMAIN stocks[s].bars
      BY <1>1, <1>2, <2>1
    <3>3. stocks[s].bars[i].time <= stocks[s].bars[j].time
      BY <1>1, <1>2, <2>3, <3>1, <3>2 DEF Sorted
    <3> QED BY <2>1, <2>3, <3>2, <3>3
  <2>5. S \subseteq 1 .. (i - 1)
    BY <1>1, <1>4, <2>4
  <2>6. n <= Cardinality(1 .. (i - 1)) /\ Cardinality(1 .. (i - 1)) = i - 1
    <3>1. IsFiniteSet(1 .. (i - 1)) /\ Cardinality(1 .. (i - 1)) = i - 1
      BY <1>1, FS_Interval
    <3> QED BY <2>5, <3>1, FS_Subset
  <2> QED BY <1>1, <1>5, <2>6
<1>7. Visible(twin[s].bars, checkpoint) = FirstBars(twin[s].bars, n)
      /\ Visible(stocks[s].bars, checkpoint) = FirstBars(stocks[s].bars, n)
  BY <1>3, Zenon DEF Visible
<1> HIDE DEF n
<1> QED BY <1>5, <1>6, <1>7, BarsBefore

LEMMA ScoreSame ==
    ASSUME NEW stocks, NEW twin, NEW t, NEW i, Twins(stocks, twin, t, i),
           NEW s \in DOMAIN stocks, NEW checkpoint \in Nat,
           s # t \/ checkpoint < stocks[t].bars[i].time
    PROVE  CandidateScore(twin[s], checkpoint) = CandidateScore(stocks[s], checkpoint)
<1>1. /\ twin[s].bars[1] = stocks[s].bars[1]
      /\ Visible(twin[s].bars, checkpoint) = Visible(stocks[s].bars, checkpoint)
      /\ twin[s].previous = stocks[s].previous
  <2>1. twin[s].bars[1] = stocks[s].bars[1]
    BY FirstBarSame
  <2>2. Visible(twin[s].bars, checkpoint) = Visible(stocks[s].bars, checkpoint)
    BY VisibleSame
  <2> QED BY <2>1, <2>2 DEF Twins
<1> QED BY <1>1 DEF CandidateScore

-----------------------------------------------------------------------------
(* The candidates of a window.                                             *)

LEMMA OpeningSame ==
    ASSUME NEW stocks, NEW twin, NEW t, NEW i, Twins(stocks, twin, t, i)
    PROVE  OpeningCandidates(twin) = OpeningCandidates(stocks)
<1> DEFINE D == {s \in DOMAIN stocks : Eligible(stocks[s])}
           E == {s \in DOMAIN twin : Eligible(twin[s])}
           Points(x, S) == [s \in S |-> CandidateScore(x[s], x[s].bars[1].time)]
<1>1. D = E
  <2>1. \A s \in DOMAIN stocks : Eligible(twin[s]) <=> Eligible(stocks[s])
    BY EligibleSame
  <2> QED BY <2>1 DEF Twins
<1>2. ASSUME NEW s \in D
      PROVE  CandidateScore(twin[s], twin[s].bars[1].time)
                 = CandidateScore(stocks[s], stocks[s].bars[1].time)
  <2>1. twin[s].bars[1] = stocks[s].bars[1]
    BY FirstBarSame
  <2>2. /\ Sorted(stocks[s].bars) /\ Sorted(stocks[t].bars)
        /\ i \in 4 .. Len(stocks[t].bars) /\ Len(stocks[s].bars) >= 2
    BY <1>2 DEF Twins, Eligible
  <2>3. 1 \in DOMAIN stocks[s].bars /\ stocks[s].bars[1].time \in Nat
    <3>1. 1 \in DOMAIN stocks[s].bars /\ stocks[s].bars[1] \in Bars
      BY <2>2 DEF Sorted
    <3> QED BY <3>1 DEF Bars
  <2>4. s # t \/ stocks[s].bars[1].time < stocks[t].bars[i].time
    BY <2>2 DEF Sorted
  <2> QED BY <2>1, <2>3, <2>4, ScoreSame
<1>3. Points(twin, E) = Points(stocks, D)
  BY <1>1, <1>2
<1> QED BY <1>3, Zenon DEF OpeningCandidates

LEMMA RefreshSame ==
    ASSUME NEW stocks, NEW twin, NEW t, NEW i, Twins(stocks, twin, t, i),
           NEW checkpoint \in Nat, checkpoint < stocks[t].bars[i].time
    PROVE  RefreshCandidates(twin, checkpoint) = RefreshCandidates(stocks, checkpoint)
<1> DEFINE Near(stock) ==
               LET visible == Visible(stock.bars, checkpoint) IN
               visible # <<>> /\ HighOf(visible) * 100 >= Breakout(stock) * 98
           D == {s \in DOMAIN stocks : Eligible(stocks[s]) /\ Near(stocks[s])}
           E == {s \in DOMAIN twin : Eligible(twin[s]) /\ Near(twin[s])}
           Points(x, S) == [s \in S |-> CandidateScore(x[s], checkpoint)]
<1>1. ASSUME NEW s \in DOMAIN stocks
      PROVE  /\ Eligible(twin[s]) <=> Eligible(stocks[s])
             /\ Near(twin[s]) <=> Near(stocks[s])
             /\ CandidateScore(twin[s], checkpoint) = CandidateScore(stocks[s], checkpoint)
  <2>1. /\ Visible(twin[s].bars, checkpoint) = Visible(stocks[s].bars, checkpoint)
        /\ Breakout(twin[s]) = Breakout(stocks[s])
    BY VisibleSame, EligibleSame
  <2>2. Near(twin[s]) <=> Near(stocks[s])
    BY <2>1, Zenon
  <2> QED BY <2>2, EligibleSame, ScoreSame
<1> HIDE DEF Near
<1>2. D = E
  BY <1>1 DEF Twins
<1>3. Points(twin, E) = Points(stocks, D)
  BY <1>1, <1>2
<1> QED BY <1>3, Zenon DEF RefreshCandidates, Near

-----------------------------------------------------------------------------
(* The windows of a day.                                                   *)

Times(stocks) ==
    UNION {{stocks[t].bars[i].time : i \in DOMAIN stocks[t].bars} : t \in DOMAIN stocks}
Place(stocks, time) == Cardinality({other \in Times(stocks) : other < time})

LEMMA WindowsAre ==
    ASSUME NEW stocks
    PROVE  Windows(stocks) =
               {time \in Times(stocks) :
                   Place(stocks, time) % 3 = 0 /\ time # Max(Times(stocks))}
BY Zenon DEF Windows, Times, Place

LEMMA TimesAre ==
    ASSUME NEW stocks, NEW twin, NEW t, NEW i, Twins(stocks, twin, t, i)
    PROVE  Times(stocks) \subseteq Nat /\ Times(twin) = Times(stocks)
<1>1. ASSUME NEW s \in DOMAIN stocks
      PROVE  /\ DOMAIN twin[s].bars = DOMAIN stocks[s].bars
             /\ \A j \in DOMAIN stocks[s].bars :
                   /\ stocks[s].bars[j].time \in Nat
                   /\ twin[s].bars[j].time = stocks[s].bars[j].time
  <2>1. \A j \in DOMAIN stocks[s].bars : stocks[s].bars[j] \in Bars
    BY DEF Twins, Sorted
  <2>2. DOMAIN twin[s].bars = DOMAIN stocks[s].bars
    BY DEF Twins, Sorted
  <2> QED BY <2>1, <2>2 DEF Twins, Bars
<1>2. Times(stocks) \subseteq Nat
  BY <1>1 DEF Times
<1>3. DOMAIN twin = DOMAIN stocks
  BY DEF Twins
<1>4. \A s \in DOMAIN stocks :
         {twin[s].bars[j].time : j \in DOMAIN twin[s].bars}
             = {stocks[s].bars[j].time : j \in DOMAIN stocks[s].bars}
  BY <1>1
<1>5. Times(twin) = Times(stocks)
  <2> DEFINE Of(X, s) == {X[s].bars[j].time : j \in DOMAIN X[s].bars}
  <2>1. \A s \in DOMAIN stocks : Of(twin, s) = Of(stocks, s)
    BY <1>4
  <2>2. /\ Times(twin) = UNION {Of(twin, s) : s \in DOMAIN twin}
        /\ Times(stocks) = UNION {Of(stocks, s) : s \in DOMAIN stocks}
    BY DEF Times
  <2> HIDE DEF Of
  <2>3. {Of(twin, s) : s \in DOMAIN twin} = {Of(stocks, s) : s \in DOMAIN stocks}
    BY <1>3, <2>1
  <2> QED BY <2>2, <2>3
<1> QED BY <1>2, <1>5

\* Between two windows lie the three bars of the earlier one.
LEMMA WindowsApart ==
    ASSUME NEW stocks, Times(stocks) \subseteq Nat,
           NEW v \in Windows(stocks), NEW w \in Windows(stocks), v < w
    PROVE  v + 3 <= w
<1> DEFINE P == {other \in Times(stocks) : other < v}
           Q == {other \in Times(stocks) : other < w}
           R == {other \in Times(stocks) : v <= other /\ other < w}
<1>1. /\ v \in Times(stocks) /\ w \in Times(stocks) /\ v \in Nat /\ w \in Nat
      /\ Cardinality(P) % 3 = 0 /\ Cardinality(Q) % 3 = 0
  BY WindowsAre DEF Place
<1>2. P \subseteq 0 .. (v - 1) /\ R \subseteq v .. (w - 1)
  BY <1>1
<1>3. /\ IsFiniteSet(0 .. (v - 1)) /\ IsFiniteSet(v .. (w - 1))
      /\ Cardinality(v .. (w - 1)) = w - v
  <2>1. IsFiniteSet(0 .. (v - 1))
    BY <1>1, FS_Interval
  <2>2. v \in Int /\ w - 1 \in Int /\ ~(v > w - 1) /\ (w - 1) - v + 1 = w - v
    BY <1>1
  <2>3. /\ IsFiniteSet(v .. (w - 1))
        /\ Cardinality(v .. (w - 1)) = IF v > w - 1 THEN 0 ELSE (w - 1) - v + 1
    BY <2>2, FS_Interval
  <2> QED BY <2>1, <2>2, <2>3
<1>4. IsFiniteSet(P) /\ IsFiniteSet(R) /\ Cardinality(R) <= w - v
  BY <1>2, <1>3, FS_Subset
<1>5. Q = P \cup R /\ P \cap R = {} /\ v \in R
  BY <1>1
<1>6. Cardinality(P) \in Nat /\ Cardinality(R) \in Nat /\ Cardinality(Q) \in Nat
  <2>1. IsFiniteSet(Q)
    BY <1>4, <1>5, FS_Union
  <2> QED BY <1>4, <2>1, FS_CardinalityType
<1>7. Cardinality(R) # 0
  BY <1>4, <1>5, FS_EmptySet
<1> HIDE DEF P, Q, R
<1>8. Cardinality(Q) = Cardinality(P) + Cardinality(R)
  <2>1. Cardinality(P \cup R) = Cardinality(P) + Cardinality(R) - Cardinality(P \cap R)
    BY <1>4, FS_Union
  <2>2. Cardinality(P \cap R) = 0
    BY <1>5, FS_EmptySet
  <2> QED BY <1>5, <1>6, <2>1, <2>2
<1>9. PICK p \in Nat, q \in Nat, r \in Nat :
         p = Cardinality(P) /\ q = Cardinality(Q) /\ r = Cardinality(R)
  BY <1>6
<1>10. p % 3 = 0 /\ q % 3 = 0 /\ q = p + r /\ r # 0 /\ r <= w - v
  BY <1>1, <1>4, <1>7, <1>8, <1>9
<1>11. r >= 3
  BY <1>10
<1> QED BY <1>1, <1>10, <1>11

-----------------------------------------------------------------------------
(* The signals.                                                            *)

Signals(tickers, stocks, start, end) ==
    UNION {{[time |-> stocks[t].bars[i].time, ticker |-> t, entry |-> i + 1] :
               i \in Triggers(stocks[t], start, end)} : t \in tickers \cap DOMAIN stocks}

LEMMA SignalIs ==
    ASSUME NEW tickers, NEW stocks, NEW start, NEW end
    PROVE  Signal(tickers, stocks, start, end) =
               {s \in Signals(tickers, stocks, start, end) :
                   \A other \in Signals(tickers, stocks, start, end) :
                      s.time < other.time \/ (s.time = other.time /\ s.ticker <= other.ticker)}
BY DEF Signal, Signals

LEMMA SignalTypes ==
    ASSUME NEW stocks, DOMAIN stocks \subseteq Nat,
           \A s \in DOMAIN stocks : Sorted(stocks[s].bars),
           NEW tickers, NEW start, NEW end, NEW x \in Signals(tickers, stocks, start, end)
    PROVE  /\ x.time \in Nat /\ x.ticker \in DOMAIN stocks /\ x.ticker \in Nat
           /\ x.entry \in 2 .. Len(stocks[x.ticker].bars)
           /\ x.time = stocks[x.ticker].bars[x.entry - 1].time
           /\ start <= x.time /\ x.time < end
<1>0. PICK s \in tickers \cap DOMAIN stocks :
         \E j \in Triggers(stocks[s], start, end) :
            x = [time |-> stocks[s].bars[j].time, ticker |-> s, entry |-> j + 1]
  BY DEF Signals
<1>1. PICK j \in Triggers(stocks[s], start, end) :
         x = [time |-> stocks[s].bars[j].time, ticker |-> s, entry |-> j + 1]
  BY <1>0
<1>2. j \in 1 .. Len(stocks[s].bars) - 1 /\ stocks[s].bars \in Seq(Bars)
      /\ start <= stocks[s].bars[j].time /\ stocks[s].bars[j].time < end
  BY <1>1 DEF Triggers, Sorted
<1>3. stocks[s].bars[j] \in Bars
  BY <1>2
<1>4. x.time = stocks[s].bars[j].time /\ x.ticker = s /\ x.entry = j + 1 /\ x.entry - 1 = j
  BY <1>1, <1>2
<1>5. s \in DOMAIN stocks /\ s \in Nat /\ stocks[s].bars[j].time \in Nat
  BY <1>3 DEF Bars
<1>6. j + 1 \in 2 .. Len(stocks[s].bars)
  BY <1>2
<1> QED BY <1>2, <1>4, <1>5, <1>6

\* Before the replaced bar the signals are the same.
LEMMA SignalsSame ==
    ASSUME NEW stocks, NEW twin, NEW t, NEW i, Twins(stocks, twin, t, i),
           NEW tickers, NEW start, NEW end, NEW x, x.time < stocks[t].bars[i].time
    PROVE  x \in Signals(tickers, twin, start, end)
               <=> x \in Signals(tickers, stocks, start, end)
<1> DEFINE Of(X, s, j) == [time |-> X[s].bars[j].time, ticker |-> s, entry |-> j + 1]
<1>1. x \in Signals(tickers, twin, start, end) <=>
         \E s \in tickers \cap DOMAIN twin : \E j \in Triggers(twin[s], start, end) :
            x = Of(twin, s, j)
  BY DEF Signals
<1>2. x \in Signals(tickers, stocks, start, end) <=>
         \E s \in tickers \cap DOMAIN stocks : \E j \in Triggers(stocks[s], start, end) :
            x = Of(stocks, s, j)
  BY DEF Signals
<1>3. DOMAIN twin = DOMAIN stocks
  BY DEF Twins
<1>4. ASSUME NEW s \in DOMAIN stocks, NEW j
      PROVE  j \in Triggers(twin[s], start, end) /\ x = Of(twin, s, j)
                 <=> j \in Triggers(stocks[s], start, end) /\ x = Of(stocks, s, j)
  <2>1. Len(twin[s].bars) = Len(stocks[s].bars) /\ stocks[s].bars \in Seq(Bars)
    BY DEF Twins, Sorted
  <2>2. CASE j \notin 1 .. Len(stocks[s].bars) - 1
    BY <2>1, <2>2 DEF Triggers
  <2>3. CASE j \in 1 .. Len(stocks[s].bars) - 1
    <3>1. j \in DOMAIN stocks[s].bars
      BY <2>1, <2>3
    <3>2. twin[s].bars[j].time = stocks[s].bars[j].time
      BY <3>1 DEF Twins
    <3>3. Of(twin, s, j) = Of(stocks, s, j) /\ Of(stocks, s, j).time = stocks[s].bars[j].time
      BY <3>2
    <3>4. CASE x = Of(stocks, s, j)
      <4>1. stocks[s].bars[j].time < stocks[t].bars[i].time
        BY <3>3, <3>4
      <4>2. s # t \/ j # i
        <5>1. SUFFICES ASSUME s = t, j = i PROVE FALSE
          OBVIOUS
        <5>2. stocks[s].bars[j] \in Bars
          BY <2>1, <3>1
        <5> QED BY <4>1, <5>1, <5>2 DEF Bars
      <4>3. twin[s].bars[j] = stocks[s].bars[j]
        BY <3>1, <4>2 DEF Twins
      <4>4. (Eligible(twin[s]) <=> Eligible(stocks[s])) /\ Breakout(twin[s]) = Breakout(stocks[s])
        BY EligibleSame
      <4>5. j \in Triggers(twin[s], start, end) <=> j \in Triggers(stocks[s], start, end)
        BY <2>1, <4>3, <4>4 DEF Triggers
      <4> QED BY <3>3, <4>5
    <3>5. CASE x # Of(stocks, s, j)
      BY <3>3, <3>5
    <3> QED BY <3>4, <3>5
  <2> QED BY <2>2, <2>3
<1> HIDE DEF Of
<1> QED BY <1>1, <1>2, <1>3, <1>4

\* So is the first of them.
LEMMA SignalSame ==
    ASSUME NEW stocks, NEW twin, NEW t, NEW i, Twins(stocks, twin, t, i),
           NEW tickers, NEW start, NEW end,
           \/ \E x \in Signal(tickers, stocks, start, end) : x.time < stocks[t].bars[i].time
           \/ end \in Nat /\ end <= stocks[t].bars[i].time
    PROVE  Signal(tickers, twin, start, end) = Signal(tickers, stocks, start, end)
<1> DEFINE A == Signals(tickers, stocks, start, end)
           B == Signals(tickers, twin, start, end)
           c == stocks[t].bars[i].time
           First(S) == {s \in S : \A other \in S :
               s.time < other.time \/ (s.time = other.time /\ s.ticker <= other.ticker)}
<1>1. Signal(tickers, stocks, start, end) = First(A) /\ Signal(tickers, twin, start, end) = First(B)
  BY SignalIs
<1>2. /\ DOMAIN stocks \subseteq Nat /\ DOMAIN twin \subseteq Nat
      /\ \A s \in DOMAIN stocks : Sorted(stocks[s].bars)
      /\ \A s \in DOMAIN twin : Sorted(twin[s].bars)
  BY DEF Twins
<1>3. /\ \A x \in A : x.time \in Nat /\ x.ticker \in Nat /\ x.time < end
      /\ \A x \in B : x.time \in Nat /\ x.ticker \in Nat /\ x.time < end
  BY <1>2, SignalTypes
<1>4. \A x : x.time < c => (x \in B <=> x \in A)
  BY SignalsSame
<1>5. c \in Nat
  <2>1. stocks[t].bars[i] \in Bars
    BY DEF Twins, Sorted
  <2> QED BY <2>1 DEF Bars
<1> HIDE DEF A, B, c
<1>6. CASE end \in Nat /\ end <= c
  <2>1. A = B
    BY <1>3, <1>4, <1>5, <1>6
  <2> QED BY <1>1, <2>1
<1>7. ASSUME NEW x \in First(A), x.time < c
      PROVE  First(A) = First(B)
  <2>1. x \in B
    BY <1>4, <1>7
  <2>2. ASSUME NEW y \in First(A)
        PROVE  y \in First(B)
    <3>1. y \in A /\ y.time < c
      BY <1>3, <1>5, <1>7, <2>2
    <3>2. y \in B
      BY <1>4, <3>1
    <3>3. ASSUME NEW z \in B
          PROVE  y.time < z.time \/ (y.time = z.time /\ y.ticker <= z.ticker)
      <4>1. CASE z.time < c
        BY <1>4, <2>2, <4>1
      <4>2. CASE ~(z.time < c)
        BY <1>3, <1>5, <3>1, <4>2
      <4> QED BY <4>1, <4>2
    <3> QED BY <3>2, <3>3
  <2>3. ASSUME NEW y \in First(B)
        PROVE  y \in First(A)
    <3>1. y \in B /\ y.time < c
      BY <1>3, <1>5, <1>7, <2>1, <2>3
    <3>2. y \in A
      BY <1>4, <3>1
    <3>3. ASSUME NEW z \in A
          PROVE  y.time < z.time \/ (y.time = z.time /\ y.ticker <= z.ticker)
      <4>1. CASE z.time < c
        BY <1>4, <2>3, <4>1
      <4>2. CASE ~(z.time < c)
        BY <1>3, <1>5, <3>1, <4>2
      <4> QED BY <4>1, <4>2
    <3> QED BY <3>2, <3>3
  <2> QED BY <2>2, <2>3
<1> HIDE DEF First
<1>8. (\E x \in First(A) : x.time < c) \/ (end \in Nat /\ end <= c)
  BY <1>1 DEF c
<1> QED BY <1>1, <1>6, <1>7, <1>8

-----------------------------------------------------------------------------
(* The signal of a day.                                                    *)

Active(stocks, start, kind) ==
    IF kind = "refresh" THEN RefreshCandidates(stocks, start)
    ELSE Merged(OpeningCandidates(stocks), RefreshCandidates(stocks, start))

LEMMA WindowSignalIs ==
    ASSUME NEW stocks, NEW start, NEW kind
    PROVE  WindowSignal(stocks, start, kind)
               = Signal(Range(Active(stocks, start, kind)), stocks, start, start + 3)
BY DEF WindowSignal, Active

LEMMA WindowSignalSame ==
    ASSUME NEW stocks, NEW twin, NEW t, NEW i, Twins(stocks, twin, t, i),
           NEW start \in Nat, NEW kind, start < stocks[t].bars[i].time,
           \/ \E x \in WindowSignal(stocks, start, kind) : x.time < stocks[t].bars[i].time
           \/ start + 3 <= stocks[t].bars[i].time
    PROVE  WindowSignal(twin, start, kind) = WindowSignal(stocks, start, kind)
<1>1. Active(twin, start, kind) = Active(stocks, start, kind)
  <2>1. OpeningCandidates(twin) = OpeningCandidates(stocks)
    BY OpeningSame
  <2>2. RefreshCandidates(twin, start) = RefreshCandidates(stocks, start)
    BY RefreshSame
  <2> QED BY <2>1, <2>2 DEF Active
<1> DEFINE T == Range(Active(stocks, start, kind))
<1>2. /\ WindowSignal(twin, start, kind) = Signal(T, twin, start, start + 3)
      /\ WindowSignal(stocks, start, kind) = Signal(T, stocks, start, start + 3)
  BY <1>1, WindowSignalIs
<1>3. start + 3 \in Nat
  OBVIOUS
<1> HIDE DEF T
<1>4. \/ \E x \in Signal(T, stocks, start, start + 3) : x.time < stocks[t].bars[i].time
      \/ start + 3 <= stocks[t].bars[i].time
  BY <1>2
<1>5. Signal(T, twin, start, start + 3) = Signal(T, stocks, start, start + 3)
  BY <1>3, <1>4, SignalSame
<1> QED BY <1>2, <1>5

\* The fixed mode has one window, the day.
LEMMA FixedDay ==
    ASSUME NEW stocks
    PROVE  DaySignal(stocks, "fixed") = Signal(DOMAIN stocks, stocks, 0, 1000)
<1> DEFINE S == Signal(DOMAIN stocks, stocks, 0, 1000)
           found == {w \in DOMAIN <<S>> : <<S>>[w] # {}}
<1>1. DaySignal(stocks, "fixed") = IF found = {} THEN {} ELSE <<S>>[Min(found)]
  BY DEF DaySignal
<1> HIDE DEF S
<1>2. CASE S = {}
  BY <1>1, <1>2 DEF S
<1>3. CASE S # {}
  <2>1. found = {1}
    BY <1>3
  <2>2. Min({1}) = 1
    BY LeastIsMin
  <2> QED BY <1>1, <2>1, <2>2 DEF S
<1> QED BY <1>2, <1>3

\* In the other modes the first window with a signal decides.
IsFirstWindow(stocks, kind, m) ==
    /\ m \in Windows(stocks) /\ WindowSignal(stocks, m, kind) # {}
    /\ \A v \in Windows(stocks) : v < m => WindowSignal(stocks, v, kind) = {}

LEMMA WindowDay ==
    ASSUME NEW stocks, NEW kind, kind # "fixed", Times(stocks) \subseteq Nat
    PROVE  /\ DaySignal(stocks, kind) # {} => \E m : IsFirstWindow(stocks, kind, m)
           /\ \A m : IsFirstWindow(stocks, kind, m) =>
                 DaySignal(stocks, kind) = WindowSignal(stocks, m, kind)
<1> DEFINE W == Windows(stocks)
           signals == [w \in W |-> WindowSignal(stocks, w, kind)]
           found == {w \in DOMAIN signals : signals[w] # {}}
<1>1. DaySignal(stocks, kind) = IF found = {} THEN {} ELSE signals[Min(found)]
  BY DEF DaySignal
<1>2. W \subseteq Nat
  BY WindowsAre
<1>3. found = {w \in W : WindowSignal(stocks, w, kind) # {}} /\ found \subseteq Nat
  BY <1>2
<1>4. ASSUME DaySignal(stocks, kind) # {}
      PROVE  \E m : IsFirstWindow(stocks, kind, m)
  <2>1. found # {}
    BY <1>1, <1>4
  <2> HIDE DEF found
  <2>2. PICK m \in found : \A y \in found : m <= y
    BY <1>3, <2>1, NumbersHaveALeast
  <2>3. \A v \in W : v < m => v \notin found
    BY <1>2, <1>3, <2>2
  <2> QED BY <1>3, <2>2, <2>3 DEF IsFirstWindow
<1>5. ASSUME NEW m, IsFirstWindow(stocks, kind, m)
      PROVE  DaySignal(stocks, kind) = WindowSignal(stocks, m, kind)
  <2>1. m \in found
    BY <1>3, <1>5 DEF IsFirstWindow
  <2>2. \A y \in found : m <= y
    BY <1>2, <1>3, <1>5 DEF IsFirstWindow
  <2>3. Min(found) = m
    BY <1>3, <2>1, <2>2, LeastIsMin
  <2>4. signals[m] = WindowSignal(stocks, m, kind)
    BY <1>5 DEF IsFirstWindow
  <2> HIDE DEF found, signals
  <2> QED BY <1>1, <2>1, <2>3, <2>4
<1> QED BY <1>4, <1>5

LEMMA DaySignalTypes ==
    ASSUME NEW stocks, NEW twin, NEW t, NEW i, Twins(stocks, twin, t, i),
           NEW kind, NEW x \in DaySignal(stocks, kind)
    PROVE  /\ x.time \in Nat /\ x.ticker \in DOMAIN stocks
           /\ x.entry \in 2 .. Len(stocks[x.ticker].bars)
           /\ x.time = stocks[x.ticker].bars[x.entry - 1].time
<1>1. DOMAIN stocks \subseteq Nat /\ \A s \in DOMAIN stocks : Sorted(stocks[s].bars)
  BY DEF Twins
<1>2. \E tickers, start, end : x \in Signals(tickers, stocks, start, end)
  <2>1. CASE kind = "fixed"
    BY <2>1, FixedDay, SignalIs
  <2>2. CASE kind # "fixed"
    <3>1. Times(stocks) \subseteq Nat
      BY TimesAre
    <3>2. PICK m : IsFirstWindow(stocks, kind, m)
      BY <2>2, <3>1, WindowDay
    <3>3. x \in WindowSignal(stocks, m, kind)
      BY <2>2, <3>1, <3>2, WindowDay
    <3> QED BY <3>3, WindowSignalIs, SignalIs
  <2> QED BY <2>1, <2>2
<1> QED BY <1>1, <1>2, SignalTypes

\* A day whose signal lies before the replaced bar has the same signal.
LEMMA DaySignalSame ==
    ASSUME NEW stocks, NEW twin, NEW t, NEW i, Twins(stocks, twin, t, i),
           NEW kind, NEW x \in DaySignal(stocks, kind), x.time < stocks[t].bars[i].time
    PROVE  DaySignal(twin, kind) = DaySignal(stocks, kind)
<1> DEFINE c == stocks[t].bars[i].time
<1>1. /\ DOMAIN stocks \subseteq Nat /\ DOMAIN twin = DOMAIN stocks
      /\ \A s \in DOMAIN stocks : Sorted(stocks[s].bars)
  BY DEF Twins
<1>2. c \in Nat
  <2>1. stocks[t].bars[i] \in Bars
    BY DEF Twins, Sorted
  <2> QED BY <2>1 DEF Bars
<1>3. CASE kind = "fixed"
  <2>1. x \in Signal(DOMAIN stocks, stocks, 0, 1000)
    BY <1>3, FixedDay
  <2>2. Signal(DOMAIN stocks, twin, 0, 1000) = Signal(DOMAIN stocks, stocks, 0, 1000)
    BY <2>1, SignalSame
  <2> QED BY <1>1, <1>3, <2>2, FixedDay
<1>4. CASE kind # "fixed"
  <2>1. /\ Times(stocks) \subseteq Nat /\ Times(twin) = Times(stocks)
    BY TimesAre
  <2>2. Windows(twin) = Windows(stocks) /\ Windows(stocks) \subseteq Nat
    <3>1. \A time : Place(twin, time) = Place(stocks, time)
      BY <2>1 DEF Place
    <3>2. /\ Windows(twin) = {time \in Times(twin) :
                Place(twin, time) % 3 = 0 /\ time # Max(Times(twin))}
          /\ Windows(stocks) = {time \in Times(stocks) :
                Place(stocks, time) % 3 = 0 /\ time # Max(Times(stocks))}
      BY WindowsAre
    <3> QED BY <2>1, <3>1, <3>2
  <2>3. PICK m : IsFirstWindow(stocks, kind, m)
    BY <1>4, <2>1, WindowDay
  <2>4. DaySignal(stocks, kind) = WindowSignal(stocks, m, kind)
    BY <1>4, <2>1, <2>3, WindowDay
  <2>5. m \in Nat /\ m <= x.time /\ x.time \in Nat
    <3>1. x \in Signals(Range(Active(stocks, m, kind)), stocks, m, m + 3)
      BY <2>4, WindowSignalIs, SignalIs
    <3> QED BY <1>1, <2>2, <2>3, <3>1, SignalTypes DEF IsFirstWindow
  <2>6. m < c
    BY <1>2, <2>5
  <2>7. WindowSignal(twin, m, kind) = WindowSignal(stocks, m, kind)
    BY <2>4, <2>5, <2>6, WindowSignalSame
  <2>8. ASSUME NEW v \in Windows(stocks), v < m
        PROVE  WindowSignal(twin, v, kind) = {}
    <3>1. v \in Nat /\ v + 3 <= m
      BY <2>1, <2>2, <2>3, <2>8, WindowsApart DEF IsFirstWindow
    <3>2. v < c /\ v + 3 <= c
      BY <1>2, <2>5, <2>6, <3>1
    <3>3. WindowSignal(twin, v, kind) = WindowSignal(stocks, v, kind)
      BY <3>1, <3>2, WindowSignalSame
    <3> QED BY <2>3, <2>8, <3>3 DEF IsFirstWindow
  <2>9. IsFirstWindow(twin, kind, m)
    BY <2>2, <2>3, <2>7, <2>8 DEF IsFirstWindow
  <2> QED BY <1>4, <2>1, <2>4, <2>7, <2>9, WindowDay
<1> QED BY <1>3, <1>4

-----------------------------------------------------------------------------
(* The trade of a day.                                                     *)

LEMMA ExitSame ==
    ASSUME NEW bars, NEW other, Len(other) = Len(bars),
           NEW entry \in Nat, NEW last \in Nat, entry <= last,
           \A j \in entry .. last : other[j] = bars[j]
    PROVE  ExitAt(other, entry, last) = ExitAt(bars, entry, last)
<1>1. entry \in entry .. last /\ last \in entry .. last
  OBVIOUS
<1>2. other[entry] = bars[entry] /\ other[last] = bars[last]
  BY <1>1
<1>3. {other[j].high : j \in entry .. last} = {bars[j].high : j \in entry .. last}
  OBVIOUS
<1> QED BY <1>2, <1>3, Zenon DEF ExitAt

\* A trade ends at the last bar at the latest.
LEMMA ExitIs ==
    ASSUME NEW stocks, NEW s, stocks[s.ticker].bars \in Seq(Bars),
           s.entry \in 2 .. Len(stocks[s.ticker].bars)
    PROVE  LET bars == stocks[s.ticker].bars
               made == SimulatedTrade(stocks, s)
           IN  /\ made.ticker = s.ticker /\ made.entry = s.entry
               /\ made.exit \in s.entry .. Len(bars)
               /\ made.reason = ExitAt(bars, s.entry, made.exit)
               /\ made.reason # "none"
               /\ \A j \in s.entry .. Len(bars) :
                     ExitAt(bars, s.entry, j) # "none" => made.exit <= j
<1> DEFINE bars == stocks[s.ticker].bars
           exits == {j \in s.entry .. Len(bars) : ExitAt(bars, s.entry, j) # "none"}
<1>1. SimulatedTrade(stocks, s) =
         [ticker |-> s.ticker, entry |-> s.entry, exit |-> Min(exits),
          reason |-> ExitAt(bars, s.entry, Min(exits))]
  BY DEF SimulatedTrade
<1>2. Len(bars) \in Nat /\ s.entry \in Nat /\ Len(bars) \in s.entry .. Len(bars)
  OBVIOUS
<1>3. ExitAt(bars, s.entry, Len(bars)) # "none"
  BY DEF ExitAt
<1>4. Len(bars) \in exits /\ exits \subseteq Nat
  BY <1>2, <1>3
<1> HIDE DEF exits
<1>5. PICK m \in exits : \A y \in exits : m <= y
  BY <1>4, NumbersHaveALeast
<1>6. Min(exits) = m
  BY <1>4, <1>5, LeastIsMin
<1>7. /\ m \in s.entry .. Len(bars) /\ ExitAt(bars, s.entry, m) # "none"
      /\ \A j \in s.entry .. Len(bars) : ExitAt(bars, s.entry, j) # "none" => m <= j
  BY <1>5 DEF exits
<1> QED BY <1>1, <1>6, <1>7

\* The trade of a day with a signal is the simulation of one of its signals.
LEMMA TradeIs ==
    ASSUME NEW stocks, NEW twin, NEW t, NEW i, Twins(stocks, twin, t, i), NEW kind,
           DaySignal(stocks, kind) # {}
    PROVE  \E s \in DaySignal(stocks, kind) :
              /\ TradeOf(stocks, kind) = SimulatedTrade(stocks, s)
              /\ DaySignal(twin, kind) = DaySignal(stocks, kind) =>
                    TradeOf(twin, kind) = SimulatedTrade(twin, s)
<1> DEFINE signal == DaySignal(stocks, kind)
           entries == {s.entry : s \in signal}
           first == CHOOSE s \in signal : \A o \in signal : s.entry <= o.entry
<1>1. \A s \in signal : s.entry \in Nat
  <2>1. \A s \in signal : s.entry \in 2 .. Len(stocks[s.ticker].bars)
    BY DaySignalTypes
  <2> QED BY <2>1
<1>2. PICK least \in entries : \A y \in entries : least <= y
  <2>1. entries \subseteq Nat /\ entries # {}
    BY <1>1
  <2> HIDE DEF entries
  <2> QED BY <2>1, NumbersHaveALeast
<1>3. \E s \in signal : \A o \in signal : s.entry <= o.entry
  BY <1>2
<1>4. first \in signal
  BY <1>3
<1>5. TradeOf(stocks, kind) = SimulatedTrade(stocks, first)
  BY DEF TradeOf
<1>6. DaySignal(twin, kind) = signal => TradeOf(twin, kind) = SimulatedTrade(twin, first)
  BY DEF TradeOf
<1> HIDE DEF first
<1> QED BY <1>4, <1>5, <1>6

\* Bars from a purchase on do not change it, bars after the sale do not change
\* the trade.
LEMMA TradeSame ==
    ASSUME NEW stocks, NEW twin, NEW t, NEW i, Twins(stocks, twin, t, i), NEW kind,
           TradeOf(stocks, kind) # NoTrade
    PROVE  LET made == TradeOf(stocks, kind)
               other == TradeOf(twin, kind)
               bars == stocks[made.ticker].bars
               at == stocks[t].bars[i].time
           IN  /\ at >= bars[made.entry].time =>
                      other.ticker = made.ticker /\ other.entry = made.entry
               /\ at > bars[made.exit].time => other = made
<1> DEFINE made == TradeOf(stocks, kind)
           other == TradeOf(twin, kind)
           at == stocks[t].bars[i].time
<1>1. DaySignal(stocks, kind) # {}
  BY DEF TradeOf
<1>2. PICK s \in DaySignal(stocks, kind) :
         /\ made = SimulatedTrade(stocks, s)
         /\ DaySignal(twin, kind) = DaySignal(stocks, kind) =>
               other = SimulatedTrade(twin, s)
  BY <1>1, TradeIs
<1> DEFINE bars == stocks[s.ticker].bars
           twins == twin[s.ticker].bars
           n == Len(bars)
<1>3. /\ s.time \in Nat /\ s.ticker \in DOMAIN stocks /\ s.entry \in 2 .. n
      /\ s.time = bars[s.entry - 1].time
  BY DaySignalTypes
<1>4. /\ bars \in Seq(Bars) /\ twins \in Seq(Bars) /\ Len(twins) = Len(bars)
      /\ n = Len(bars) /\ n \in Nat
      /\ \A j \in 1 .. n : s.ticker # t \/ j # i => twins[j] = bars[j]
      /\ \A j, k \in 1 .. n : j < k => bars[j].time < bars[k].time
      /\ stocks[t].bars \in Seq(Bars) /\ i \in DOMAIN stocks[t].bars
  <2>1. Sorted(bars) /\ Sorted(twins) /\ Len(twins) = Len(bars)
    BY <1>3 DEF Twins
  <2>2. bars \in Seq(Bars) /\ twins \in Seq(Bars) /\ DOMAIN bars = 1 .. n /\ n \in Nat
    BY <2>1 DEF Sorted
  <2>3. \A j \in DOMAIN bars : s.ticker # t \/ j # i => twins[j] = bars[j]
    BY <1>3 DEF Twins
  <2>4. \A j, k \in DOMAIN bars : j < k => bars[j].time < bars[k].time
    BY <2>1 DEF Sorted
  <2>5. stocks[t].bars \in Seq(Bars) /\ i \in DOMAIN stocks[t].bars
    BY DEF Twins, Sorted
  <2> QED BY <2>1, <2>2, <2>3, <2>4, <2>5
<1>5. at \in Nat /\ \A j \in 1 .. n : bars[j].time \in Nat
  <2>1. stocks[t].bars[i] \in Bars /\ \A j \in 1 .. n : bars[j] \in Bars
    BY <1>4
  <2> QED BY <2>1 DEF Bars
<1>6. /\ made.ticker = s.ticker /\ made.entry = s.entry /\ made.exit \in s.entry .. n
      /\ made.reason = ExitAt(bars, s.entry, made.exit) /\ made.reason # "none"
      /\ \A j \in s.entry .. n : ExitAt(bars, s.entry, j) # "none" => made.exit <= j
  BY <1>2, <1>3, <1>4, ExitIs
<1>7. s.ticker = t => at = bars[i].time
  OBVIOUS
<1>8. ASSUME at >= bars[s.entry].time
      PROVE  other = SimulatedTrade(twin, s)
  <2>1. s.entry - 1 \in 1 .. n /\ s.entry \in 1 .. n /\ s.entry - 1 < s.entry
    BY <1>3, <1>4
  <2>2. s.time < at
    <3> HIDE DEF bars, n, at
    <3>1. bars[s.entry - 1].time < bars[s.entry].time
      BY <1>4, <2>1
    <3> QED BY <1>3, <1>5, <1>8, <2>1, <3>1
  <2>3. DaySignal(twin, kind) = DaySignal(stocks, kind)
    BY <2>2, DaySignalSame
  <2> QED BY <1>2, <2>3
<1>9. LET ends == SimulatedTrade(twin, s) IN
      /\ ends.ticker = s.ticker /\ ends.entry = s.entry /\ ends.exit \in s.entry .. n
      /\ ends.reason = ExitAt(twins, s.entry, ends.exit) /\ ends.reason # "none"
      /\ \A j \in s.entry .. n : ExitAt(twins, s.entry, j) # "none" => ends.exit <= j
  BY <1>3, <1>4, ExitIs
<1>10. at >= bars[s.entry].time => other.ticker = made.ticker /\ other.entry = made.entry
  BY <1>6, <1>8, <1>9
<1>11. ASSUME at > bars[made.exit].time
       PROVE  other = made
  <2> DEFINE ends == SimulatedTrade(twin, s)
  <2>1. made.exit \in 1 .. n /\ s.entry \in 1 .. n /\ s.entry <= made.exit /\ s.entry \in Nat
    BY <1>3, <1>4, <1>6
  <2>2. at >= bars[s.entry].time
    <3> HIDE DEF bars, n, at, made
    <3>1. bars[s.entry].time <= bars[made.exit].time
      BY <1>4, <1>5, <2>1
    <3> QED BY <1>5, <1>11, <2>1, <3>1
  <2>3. other = ends
    BY <1>8, <2>2
  <2>4. \A j \in 1 .. made.exit : twins[j] = bars[j]
    <3>1. SUFFICES ASSUME NEW j \in 1 .. made.exit PROVE s.ticker # t \/ j # i
      BY <1>4, <2>1
    <3> HIDE DEF bars, n, at, made
    <3>2. j \in 1 .. n /\ j <= made.exit
      BY <1>4, <2>1
    <3>3. bars[j].time <= bars[made.exit].time
      BY <1>4, <1>5, <2>1, <3>2
    <3> QED BY <1>5, <1>11, <1>7, <2>1, <3>2, <3>3
  <2>5. \A j \in s.entry .. made.exit :
           ExitAt(twins, s.entry, j) = ExitAt(bars, s.entry, j)
    <3>1. SUFFICES ASSUME NEW j \in s.entry .. made.exit
                   PROVE  ExitAt(twins, s.entry, j) = ExitAt(bars, s.entry, j)
      OBVIOUS
    <3> HIDE DEF bars, twins, n, made
    <3>2. j \in Nat /\ s.entry <= j /\ \A k \in s.entry .. j : twins[k] = bars[k]
      BY <2>1, <2>4
    <3>3. Len(twins) = Len(bars) /\ s.entry \in Nat
      BY <1>4, <2>1
    <3> QED BY <3>2, <3>3, ExitSame, Zenon
  <2>6. made.exit \in s.entry .. made.exit /\ made.exit \in s.entry .. n
    BY <1>6, <2>1
  <2>7. ExitAt(twins, s.entry, made.exit) = made.reason
    BY <1>6, <2>5, <2>6
  <2>8. ends.exit <= made.exit
    BY <1>6, <1>9, <2>6, <2>7
  <2>9. ends.exit \in s.entry .. made.exit
    BY <1>9, <2>1, <2>8
  <2>10. ExitAt(bars, s.entry, ends.exit) # "none"
    BY <1>9, <2>5, <2>9
  <2>11. made.exit <= ends.exit
    BY <1>6, <1>9, <2>10
  <2>12. ends.exit = made.exit
    BY <2>1, <2>8, <2>9, <2>11
  <2>13. ends.reason = made.reason
    BY <1>9, <2>7, <2>12
  <2>14. /\ ends = [ticker |-> ends.ticker, entry |-> ends.entry, exit |-> ends.exit,
                    reason |-> ends.reason]
         /\ made = [ticker |-> made.ticker, entry |-> made.entry, exit |-> made.exit,
                    reason |-> made.reason]
    BY <1>2 DEF SimulatedTrade
  <2> HIDE DEF ends, made
  <2> QED BY <1>6, <1>9, <2>3, <2>12, <2>13, <2>14 DEF ends
<1> QED BY <1>6, <1>10, <1>11

\* What the day was replayed to.
ReplayInv ==
    trade # NoTrade => replayed \in Histories /\ trade = TradeOf(replayed, mode)

LEMMA KnowsThePast ==
    ASSUME ReplayInv
    PROVE  NoLookAhead
<1>1. SUFFICES ASSUME trade # NoTrade,
                      NEW t \in DOMAIN replayed, NEW i \in 4 .. Len(replayed[t].bars),
                      NEW bar \in OtherBars
               PROVE  LET bars == replayed[trade.ticker].bars
                          was == replayed[t].bars[i]
                          other == TradeOf([replayed EXCEPT ![t].bars[i] =
                                               [bar EXCEPT !.time = was.time]], mode)
                      IN  /\ was.time >= bars[trade.entry].time =>
                                other.ticker = trade.ticker /\ other.entry = trade.entry
                          /\ was.time > bars[trade.exit].time => other = trade
  BY DEF NoLookAhead
<1> DEFINE twin == [replayed EXCEPT ![t].bars[i] =
                       [bar EXCEPT !.time = replayed[t].bars[i].time]]
<1>2. replayed \in Histories /\ trade = TradeOf(replayed, mode)
  BY <1>1 DEF ReplayInv
<1>3. Twins(replayed, twin, t, i)
  BY <1>2, ReplacedIsTwin
<1> HIDE DEF twin
<1>4. /\ replayed[t].bars[i].time >= replayed[trade.ticker].bars[trade.entry].time =>
            TradeOf(twin, mode).ticker = trade.ticker /\ TradeOf(twin, mode).entry = trade.entry
      /\ replayed[t].bars[i].time > replayed[trade.ticker].bars[trade.exit].time =>
            TradeOf(twin, mode) = trade
  BY <1>1, <1>2, <1>3, TradeSame
<1> QED BY <1>4 DEF twin

(* A replay does not look ahead (intraday_backtest.py): for any tickers,   *)
(* bars, settings and modes, another bar from the purchase on leaves the   *)
(* purchase as it was, and one after the sale leaves the trade.            *)
THEOREM NoLookAheadHolds == ReplaySpec => []NoLookAhead
<1>1. ReplayInit => ReplayInv
  BY DEF ReplayInit, ReplayInv
<1>2. ReplayInv /\ [ReplayNext]_replayVars => ReplayInv'
  BY DEF ReplayInv, ReplayNext, Replays, replayVars
<1>3. ReplayInv => NoLookAhead
  BY KnowsThePast
<1> QED BY <1>1, <1>2, <1>3, PTL DEF ReplaySpec
=============================================================================

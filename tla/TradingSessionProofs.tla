------------------------ MODULE TradingSessionProofs ------------------------
(***************************************************************************)
(* The jobs on one account keep the lock of CycleLock, and keep the order  *)
(* book, the rounds, the stop losses and the close in order, for any       *)
(* tickers, lots, limits, settings, failures, restarts and dates.          *)
(***************************************************************************)
EXTENDS TradingSession, FiniteSetTheorems, FunctionTheorems, TLAPS

-----------------------------------------------------------------------------
(* The inductive invariant, in parts that build on one another             *)

StepsOf == [watch   |-> {"idle", "acquire", "gate", "poll", "sell", "list",
                         "cancel", "screen", "filter", "submit"},
            recheck |-> {"idle", "acquire", "gate", "screen", "list", "cancel",
                         "filter", "submit"},
            close   |-> {"idle", "wait", "list", "cancel", "poll", "sell", "over"},
            buy     |-> {"idle", "submit", "over"},
            cancel  |-> {"idle", "list", "cancel", "over"}]

Waiting == {"idle", "acquire", "wait", "gate", "over"}

\* A job has nothing in hand until it has begun, sells only in one step, and
\* cancels only in one.
Control ==
    /\ \A j \in Jobs : pc[j] \in StepsOf[j]
    /\ \A j \in Jobs : pc[j] \in Waiting => work[j] = NoWork
    /\ \A j \in Jobs : pc[j] # "cancel" => work[j].todo = {}
    /\ \A j \in Jobs : pc[j] # "sell" => work[j].exits = {}

\* The lock has an owner exactly while that job is past its acquire.
LockHeld ==
    /\ \A c \in Cycles : lock = c <=> pc[c] \notin {"idle", "acquire"}
    /\ lock = "close" <=> pc["close"] \notin {"idle", "wait", "over"}

\* Once the close has had the lock, no cycle gets past its second look, until
\* the process is restarted: then the close is over with the gate open.
GateOrder ==
    /\ CloseStarted => pc["close"] # "idle"
    /\ pc["close"] \notin {"idle", "over"} => CloseStarted
    /\ CloseShut => \A c \in Cycles : pc[c] \in {"idle", "acquire", "gate"}
Gate == closeDate <= today /\ closed <= today /\ GateOrder

\* Which jobs run at which hours.
Hours ==
    /\ \A c \in Cycles : pc[c] # "idle" => InSession
    /\ pc["close"] # "idle" => phase \in {"late", "after"} /\ pc["cancel"] # "list"
    /\ phase \in {"late", "after"} => pc["buy"] = "over"
    /\ phase \in {"before", "open"} => pc["cancel"] = "idle"

Order == TypeOK /\ Control /\ LockHeld /\ Gate /\ Hours

\* Before the opening the book is empty until mock_buy has submitted.
EmptyBefore ==
    phase = "before" /\ pc["buy"] # "over" => \A i \in 1..Slots : orders[i] = Gone

\* A cycle cancels purchases only, and what it has cancelled, or is about to
\* buy, is not in the book.
CancelsBuys ==
    \A c \in Cycles : \A i \in work[c].todo : Live(i) => IsBuy(orders[i])
NotInBook ==
    ~doubled => \A c \in Cycles :
        /\ \A t \in work[c].done : OrdersOf(t, BuySide) = {}
        /\ pc[c] = "submit" => \A t \in work[c].intents : OrdersOf(t, BuySide) = {}

Entries == EmptyBefore /\ CancelsBuys /\ NotInBook /\ OneLiveEntry

\* The rounds of latest and those that raised account for the entries.
Rounds ==
    /\ latest.rounds <= MaxRounds
    /\ entries <= (latest.rounds + uncounted) * RoundCap
    /\ \A c \in Cycles : pc[c] = "submit" =>
           /\ Cardinality(work[c].intents) <= RoundCap
           /\ work[c].intents # {} => RoundsLeft

\* One exit of a ticker at a time, and no more on sale than is held.
ExitsDiffer ==
    \A j \in Jobs : \A e, f \in work[j].exits :
        /\ e.kind # "ENTRY"
        /\ e.ticker = f.ticker => e = f
SharesOnSale == \A t \in Tickers : InBook(t, SellSides) <= held[t]

\* The watch remembers each sale of a whole position that it knows of; those of
\* the close it need not, for it does not run any more.
CloseDone == CloseStarted /\ pc["close"] = "over"
KnownIsPending ==
    ~CloseDone =>
        \A i \in LiveOrders : orders[i].known /\ orders[i].side = "sell" =>
            orders[i].ticker \in latest.pending

Sales == ExitsDiffer /\ SharesOnSale /\ KnownIsPending /\ NoSecondFullExit

\* A clean close has everything in hand that is in the book, then nothing is,
\* and then it sells what is held.
CloseClears ==
    clean =>
        /\ pc["close"] = "cancel" => LiveOrders \subseteq work["close"].todo
        /\ pc["close"] \in {"poll", "sell"} => LiveOrders = {}
        /\ pc["close"] = "sell" =>
               work["close"].exits =
                   {[ticker |-> t, kind |-> "EOD", qty |-> held[t]] : t \in Holdings}
ClosedIsOver ==
    closed = today =>
        /\ CloseDone
        /\ \A i \in work["cancel"].todo : ~Live(i)

Closing == CloseClears /\ ClosedIsOver /\ CloseLeavesNothingOpen

IInv == Order /\ Entries /\ StopLossRespected /\ Rounds /\ Sales /\ Closing

-----------------------------------------------------------------------------
(* The steps by what they do to the book                                   *)

\* The broker notes each accepted order under a number that was free, and leaves
\* the other numbers alone.
LEMMA BookNotes ==
    ASSUME NEW out, NEW new, Book(out, new)
    PROVE  \E number \in [Accepted(out) -> Unused] :
               /\ \A a, b \in Accepted(out) : number[a] = number[b] => a = b
               /\ \A a \in Accepted(out) : orders'[number[a]] = new[a[1]]
               /\ \A i \in 1..Slots :
                      (\A a \in Accepted(out) : number[a] # i) => orders'[i] = orders[i]
<1> DEFINE number == CHOOSE f \in Numberings(out) : TRUE
<1>1. number \in Injection(Accepted(out), Unused)
  BY DEF Book, Numberings
<1>2. /\ number \in [Accepted(out) -> Unused]
      /\ \A a, b \in Accepted(out) : number[a] = number[b] => a = b
  BY <1>1, Fun_InjectionProperties
<1>3. orders' = [i \in 1..Slots |->
                     IF \E a \in Accepted(out) : number[a] = i
                        THEN new[(CHOOSE a \in Accepted(out) : number[a] = i)[1]]
                        ELSE orders[i]]
  BY DEF Book
<1> HIDE DEF number
<1>4. ASSUME NEW a \in Accepted(out)
      PROVE  orders'[number[a]] = new[a[1]]
  <2>1. number[a] \in 1..Slots
    BY <1>2 DEF Unused
  <2>2. (CHOOSE b \in Accepted(out) : number[b] = number[a]) = a
    BY <1>2
  <2> QED BY <1>3, <2>1, <2>2
<1>5. ASSUME NEW i \in 1..Slots, \A a \in Accepted(out) : number[a] # i
      PROVE  orders'[i] = orders[i]
  BY <1>3, <1>5
<1> QED BY <1>2, <1>4, <1>5

LEMMA OrderIsItsFields ==
    ASSUME NEW o \in Orders
    PROVE  o = [ticker |-> o.ticker, side |-> o.side, left |-> o.left,
                stale |-> o.stale, known |-> o.known]
BY DEF Orders

LEMMA BuyIsOrder ==
    ASSUME NEW t \in Tickers
    PROVE  Buy(t) \in Orders
BY LotAssumption DEF Buy, Orders

\* A purchase adds one buy order of each ticker it submits, under free numbers,
\* unless the executor sends one again.
LEMMA BuyBooks ==
    ASSUME TypeOK, NEW j \in Jobs, NEW record, BuyAll(j, record)
    PROVE  /\ \A i \in 1..Slots :
                 \/ orders'[i] = orders[i]
                 \/ i \in Unused /\ \E t \in work[j].intents : orders'[i] = Buy(t)
           /\ ~doubled' => \A i, k \in Unused :
                 Live(i)' /\ Live(k)' /\ orders'[i].ticker = orders'[k].ticker => i = k
<1>1. PICK out \in [work[j].intents -> Outcomes] :
          /\ Book(out, [x \in DOMAIN out |-> IF Acknowledged(out[x])
                                                THEN Saved(BuyOrders(j)[x])
                                                ELSE BuyOrders(j)[x]])
             \/ Book(out, BuyOrders(j))
          /\ ~doubled' => \A t \in DOMAIN out : out[t] # "twice"
  BY DEF BuyAll, Submitted, SaveRaises
<1>2. [x \in DOMAIN out |-> IF Acknowledged(out[x]) THEN Saved(BuyOrders(j)[x])
                                                    ELSE BuyOrders(j)[x]]
      = BuyOrders(j)
  BY DEF BuyOrders, IsBuy, Buy, Saved
<1>3. Book(out, BuyOrders(j))
  BY <1>1, <1>2
<1>4. PICK number \in [Accepted(out) -> Unused] :
               /\ \A a, b \in Accepted(out) : number[a] = number[b] => a = b
               /\ \A a \in Accepted(out) : orders'[number[a]] = BuyOrders(j)[a[1]]
               /\ \A i \in 1..Slots :
                      (\A a \in Accepted(out) : number[a] # i) => orders'[i] = orders[i]
  BY <1>3, BookNotes
<1>5. ASSUME NEW a \in Accepted(out)
      PROVE  /\ a[1] \in work[j].intents /\ orders'[number[a]] = Buy(a[1])
             /\ a = <<a[1], a[2]>> /\ a[2] \in 1..Copies(out[a[1]])
  <2>1. PICK x \in DOMAIN out : a \in {x} \X (1..Copies(out[x]))
    BY DEF Accepted
  <2>2. a[1] = x /\ a[2] \in 1..Copies(out[x]) /\ a = <<a[1], a[2]>>
    BY <2>1
  <2>3. orders'[number[a]] = BuyOrders(j)[a[1]]
    BY <1>4
  <2> QED BY <2>2, <2>3 DEF BuyOrders
<1>6. \A i \in 1..Slots :
          \/ orders'[i] = orders[i]
          \/ i \in Unused /\ \E t \in work[j].intents : orders'[i] = Buy(t)
  BY <1>4, <1>5
<1>7. ASSUME ~doubled', NEW i \in Unused, NEW k \in Unused, Live(i)', Live(k)',
             orders'[i].ticker = orders'[k].ticker
      PROVE  i = k
  <2>1. \A n \in Unused : Live(n)' => \E a \in Accepted(out) : number[a] = n
    BY <1>4 DEF Unused, Live
  <2>2. PICK a, b \in Accepted(out) : number[a] = i /\ number[b] = k
    BY <1>7, <2>1
  <2>3. a[1] = b[1]
    <3>1. Buy(a[1]).ticker = Buy(b[1]).ticker
      BY <1>5, <1>7, <2>2
    <3> QED BY <3>1 DEF Buy
  <2>4. a[2] = 1 /\ b[2] = 1
    BY <1>1, <1>5, <1>7 DEF Copies, Outcomes
  <2>5. a = b
    BY <1>5, <2>3, <2>4
  <2> QED BY <2>2, <2>5
<1> QED BY <1>6, <1>7

\* The sale of exit e as it is in the book.
IsSaleOf(o, e) == o = Sale(e) \/ o = Saved(Sale(e))

LEMMA SaleFields ==
    ASSUME NEW o, NEW e \in Exits, IsSaleOf(o, e)
    PROVE  /\ o \in Orders /\ o.ticker = e.ticker /\ o.left = e.qty
           /\ o.side = IF e.kind = "PARTIAL_TAKE_PROFIT" THEN "sell part" ELSE "sell"
           /\ ~IsBuy(o)
<1>1. /\ Sale(e) \in Orders /\ Sale(e).ticker = e.ticker /\ Sale(e).left = e.qty
      /\ Sale(e).side = IF e.kind = "PARTIAL_TAKE_PROFIT" THEN "sell part" ELSE "sell"
      /\ Sale(e).side # "buy"
  BY DEF Sale, Orders, Exits
<1>2. CASE o = Sale(e)
  BY <1>1, <1>2 DEF IsBuy
<1>3. CASE o = [Sale(e) EXCEPT !.known = TRUE]
  BY <1>1, <1>3 DEF IsBuy, Orders
<1> QED BY <1>1, <1>2, <1>3 DEF IsSaleOf, Saved, IsBuy

\* What the executor does to the book with the exits of job j.
Sells(j, out) ==
    /\ out \in [Sellables(j) -> Outcomes]
    /\ \A e \in Sellables(j) : out[e] = "twice" => ResendSells(e)
    /\ \/ Book(out, SaleOrders(j))
       \/ Book(out, [e \in Sellables(j) |-> IF Acknowledged(out[e])
                                               THEN Saved(SaleOrders(j)[e])
                                               ELSE SaleOrders(j)[e]])

\* The watch has remembered its exits, or its save or log has raised and it
\* ends, with sales that it does not know of.
LEMMA WatchSells ==
    ASSUME WatchSell
    PROVE  \E out : /\ Sells("watch", out)
                    /\ \/ WatchRemembers
                       \/ /\ Book(out, SaleOrders("watch"))
                          /\ Leave("watch") /\ UNCHANGED latest
                    /\ UNCHANGED closed
BY DEF WatchSell, SellAll, Submitted, SaveRaises, Sells

\* The close has ended; it counts as done if every call went well and every
\* share it wanted to sell is on sale.
LEMMA CloseSells ==
    ASSUME CloseSell
    PROVE  \E out : /\ Sells("close", out) /\ Leave("close") /\ UNCHANGED latest
                    /\ \/ UNCHANGED closed
                       \/ closed' = today /\ AllSold("close", out)
BY DEF CloseSell, SellAll, Submitted, SaveRaises, Sells, CloseRemembers

LEMMA FiniteExits ==
    ASSUME TypeOK, ExitsDiffer, NEW j \in Jobs
    PROVE  IsFiniteSet(work[j].exits)
<1> DEFINE ticker == [e \in work[j].exits |-> e.ticker]
<1>1. \A e \in work[j].exits : e.ticker \in Tickers
  BY DEF TypeOK, Work, Exits
<1>2. ticker \in Injection(work[j].exits, Tickers)
  BY <1>1, Fun_IsInj DEF ExitsDiffer
<1> QED BY <1>2, FS_Injection, TickersAssumption

LEMMA FaultsCounted ==
    ASSUME TypeOK, NEW set, IsFiniteSet(set), NEW bad \in SUBSET set,
           faults' = faults + Cardinality(bad), faults' <= MaxFaults
    PROVE  faults' \in 0..MaxFaults
<1>1. Cardinality(bad) \in Nat
  BY FS_Subset, FS_CardinalityType
<1> QED BY <1>1, MaxAssumption DEF TypeOK

\* The effects of the executors on what is counted.
SubmitCounts(j, traded, stops) ==
    /\ stopped' \subseteq stopped \cup stops
    /\ faults' \in 0..MaxFaults
    /\ \/ UNCHANGED <<entries, uncounted>>
       \/ /\ j \in Cycles /\ entries' = entries + Cardinality(traded)
          /\ uncounted' = uncounted \/ (entries' > entries /\ uncounted' = uncounted + 1)

LEMMA SubmittedCounts ==
    ASSUME TypeOK, NEW j \in Jobs, NEW out, IsFiniteSet(DOMAIN out), NEW new, NEW kind,
           Submitted(j, out, new, kind) \/ SaveRaises(j, out, new, kind)
    PROVE  SubmitCounts(j, TradedOf(out, new, kind, "ENTRY"),
                        TradedOf(out, new, kind, "STOP_LOSS"))
<1>1. faults' \in 0..MaxFaults
  <2>1. CASE Fails("save")
    BY <2>1, MaxAssumption DEF Fails, TypeOK
  <2>2. CASE /\ faults' = faults + Cardinality({x \in DOMAIN out : out[x] # "acked"})
             /\ faults' <= MaxFaults
    BY <2>2, FaultsCounted
  <2> QED BY <2>1, <2>2 DEF Submitted, SaveRaises
<1>2. CASE UNCHANGED db
  BY <1>1, <1>2 DEF SubmitCounts, db
<1>3. CASE SaveTrades(j, out, new, kind)
           /\ uncounted' \in {uncounted, IF entries' > entries THEN uncounted + 1
                                                               ELSE uncounted}
  <2>1. entries \in Nat
    BY DEF TypeOK
  <2> QED BY <1>1, <1>3, <2>1 DEF SubmitCounts, SaveTrades
<1> QED BY <1>2, <1>3 DEF Submitted, SaveRaises

LEMMA SellFrame ==
    ASSUME TypeOK, ExitsDiffer, NEW j \in {"watch", "close"},
           j = "watch" => WatchSell, j = "close" => CloseSell
    PROVE  /\ pc[j] = "sell" /\ UNCHANGED <<clock, held, doubled, clean>>
           /\ UNCHANGED <<entries, uncounted>>
           /\ stopped' \subseteq stopped \cup {e.ticker : e \in work[j].exits}
           /\ faults' \in 0..MaxFaults
<1>1. PICK out \in [Sellables(j) -> Outcomes] :
          \/ Submitted(j, out, SaleOrders(j), SaleKinds(j))
          \/ SaveRaises(j, out, SaleOrders(j), SaleKinds(j))
  BY DEF WatchSell, CloseSell, SellAll
<1>2. /\ DOMAIN out = Sellables(j) /\ Sellables(j) \subseteq work[j].exits
      /\ IsFiniteSet(DOMAIN out) /\ j \in Jobs
  BY FiniteExits, FS_Subset DEF Sellables, Jobs, Cycles
<1> DEFINE traded(k) == TradedOf(out, SaleOrders(j), SaleKinds(j), k)
<1>3. SubmitCounts(j, traded("ENTRY"), traded("STOP_LOSS"))
  BY <1>1, <1>2, SubmittedCounts
<1>4. traded("ENTRY") = {}
  <2>1. \A y \in DOMAIN out : SaleKinds(j)[y] # "ENTRY"
    BY <1>2 DEF SaleKinds, ExitsDiffer
  <2> QED BY <2>1 DEF TradedOf
<1>5. traded("STOP_LOSS") \subseteq {e.ticker : e \in work[j].exits}
  BY <1>2 DEF TradedOf, SaleOrders, Sale
<1>6. UNCHANGED <<entries, uncounted>>
  <2>1. entries \in Nat /\ Cardinality(traded("ENTRY")) = 0
    BY <1>4, FS_EmptySet DEF TypeOK
  <2> QED BY <1>3, <2>1 DEF SubmitCounts
<1>7. pc[j] = "sell" /\ UNCHANGED <<clock, held, doubled, clean>>
  BY DEF WatchSell, CloseSell, SellAll
<1> QED BY <1>3, <1>5, <1>6, <1>7 DEF SubmitCounts

\* The effects of a purchase but for the book.
LEMMA BuyFrame ==
    ASSUME TypeOK, NEW j \in Jobs, NEW record, BuyAll(j, record)
    PROVE  /\ pc[j] = "submit" /\ Leave(j)
           /\ UNCHANGED <<clock, held, clean, closed, stopped>>
           /\ faults' \in 0..MaxFaults
           /\ doubled' \in BOOLEAN /\ (doubled => doubled')
           /\ j = "buy" /\ phase = "open" => doubled'
           /\ IsFiniteSet(work[j].intents)
           /\ \E traded \in SUBSET work[j].intents :
                 /\ SubmitCounts(j, traded, {})
                 /\ \/ latest' = record[traded # {}]
                    \/ /\ latest' = latest
                       /\ entries' > entries => uncounted' = uncounted + 1
<1>1. PICK out \in [work[j].intents -> Outcomes] :
          \/ /\ Submitted(j, out, BuyOrders(j), BuyKinds(j))
             /\ latest' = record[\E t \in DOMAIN out : Acknowledged(out[t])]
          \/ SaveRaises(j, out, BuyOrders(j), BuyKinds(j))
  BY DEF BuyAll
<1> DEFINE traded(k) == TradedOf(out, BuyOrders(j), BuyKinds(j), k)
<1>2. DOMAIN out = work[j].intents /\ IsFiniteSet(DOMAIN out)
  BY FS_Subset, TickersAssumption DEF TypeOK, Work
<1>3. SubmitCounts(j, traded("ENTRY"), traded("STOP_LOSS"))
  BY <1>1, <1>2, SubmittedCounts
<1>4. traded("STOP_LOSS") = {}
  BY DEF TradedOf, BuyKinds
<1>5. traded("ENTRY") = {t \in DOMAIN out : Acknowledged(out[t])}
  BY <1>2 DEF TradedOf, BuyKinds, BuyOrders, Buy
<1>6. \/ latest' = record[traded("ENTRY") # {}]
      \/ latest' = latest /\ (entries' > entries => uncounted' = uncounted + 1)
  <2>1. CASE latest' = record[\E t \in DOMAIN out : Acknowledged(out[t])]
    <3>1. (\E t \in DOMAIN out : Acknowledged(out[t])) = (traded("ENTRY") # {})
      BY <1>5
    <3> QED BY <2>1, <3>1
  <2>2. CASE SaveRaises(j, out, BuyOrders(j), BuyKinds(j))
    BY <2>2 DEF SaveRaises, db, TypeOK
  <2> QED BY <1>1, <2>1, <2>2
<1>7. /\ pc[j] = "submit" /\ Leave(j) /\ UNCHANGED <<clock, held, clean, closed>>
      /\ doubled' \in BOOLEAN /\ (doubled => doubled')
      /\ j = "buy" /\ phase = "open" => doubled'
  BY DEF BuyAll, SaveRaises, TypeOK
<1>8. traded("ENTRY") \in SUBSET work[j].intents
  BY <1>2, <1>5
<1>9. stopped' = stopped
  BY <1>1 DEF Submitted, SaveRaises, SaveTrades, db, TradedOf, BuyKinds
<1>10. SubmitCounts(j, traded("ENTRY"), {}) /\ faults' \in 0..MaxFaults
  BY <1>3, <1>9 DEF SubmitCounts
<1> QED BY <1>2, <1>6, <1>7, <1>8, <1>9, <1>10

-----------------------------------------------------------------------------
(* The shares of the book                                                  *)

\* OrdersOf and SharesInBook, of any book.
Listed(book, t, sides) ==
    {i \in 1..Slots : book[i].left > 0 /\ book[i].ticker = t /\ book[i].side \in sides}
SharesOf(book, t, sides) == UNION {{i} \X (1..book[i].left) : i \in Listed(book, t, sides)}

LEMMA InBookIsShares ==
    ASSUME NEW t, NEW sides
    PROVE  /\ SharesInBook(t, sides) = SharesOf(orders, t, sides)
           /\ SharesInBook(t, sides)' = SharesOf(orders', t, sides)
           /\ InBook(t, sides) = Cardinality(SharesOf(orders, t, sides))
           /\ InBook(t, sides)' = Cardinality(SharesOf(orders', t, sides))
BY DEF InBook, SharesInBook, OrdersOf, LiveOrders, Live, SharesOf, Listed

HasShare(book, i, s) == \E k \in 1..book[i].left : s = <<i, k>>

LEMMA SharesMember ==
    \A book, t, sides, s : s \in SharesOf(book, t, sides) =>
        \E i \in Listed(book, t, sides) : HasShare(book, i, s)
BY DEF SharesOf, HasShare

LEMMA MemberShares ==
    \A book, t, sides, s : \A i \in Listed(book, t, sides) :
        HasShare(book, i, s) => s \in SharesOf(book, t, sides)
BY DEF SharesOf, HasShare

LEMMA SlotsFinite == IsFiniteSet(1..Slots) /\ Slots \in Nat
BY FS_Interval, MaxAssumption

LEMMA OrderLeft ==
    ASSUME NEW o \in Orders \cup {Gone}
    PROVE  o.left \in Nat /\ (o.left > 0 <=> o \in Orders)
<1>1. CASE o \in Orders
  <2>1. o.left \in Nat \ {0}
    BY <1>1 DEF Orders
  <2> QED BY <1>1, <2>1
<1>2. CASE o = Gone
  <2>1. o.left = 0 /\ (o \in Orders => o.left # 0)
    BY <1>2 DEF Orders, Gone
  <2> QED BY <2>1
<1> QED BY <1>1, <1>2

\* The shares of n orders of q shares each.
LEMMA OrderShares ==
    ASSUME NEW slots, IsFiniteSet(slots), NEW q \in Nat
    PROVE  /\ IsFiniteSet(slots \X (1..q))
           /\ Cardinality(slots \X (1..q)) = Cardinality(slots) * q
<1>1. IsFiniteSet(1..q) /\ Cardinality(1..q) = q
  BY FS_Interval
<1> QED BY <1>1, FS_Product

LEMMA SharesFinite ==
    ASSUME NEW book \in [1..Slots -> Orders \cup {Gone}], NEW t, NEW sides
    PROVE  /\ IsFiniteSet(SharesOf(book, t, sides))
           /\ Cardinality(SharesOf(book, t, sides)) \in Nat
<1> DEFINE S == {{i} \X (1..book[i].left) : i \in Listed(book, t, sides)}
           f == [i \in Listed(book, t, sides) |-> {i} \X (1..book[i].left)]
<1>1. IsFiniteSet(Listed(book, t, sides))
  BY SlotsFinite, FS_Subset DEF Listed
<1>2. f \in Surjection(Listed(book, t, sides), S)
  BY Fun_IsSurj
<1>3. IsFiniteSet(S)
  BY <1>1, <1>2, FS_Surjection
<1>4. ASSUME NEW T \in S
      PROVE  IsFiniteSet(T)
  <2>1. PICK i \in Listed(book, t, sides) : T = {i} \X (1..book[i].left)
    OBVIOUS
  <2>2. book[i] \in Orders \cup {Gone}
    BY <2>1 DEF Listed
  <2>3. book[i].left \in Nat
    BY <2>2, OrderLeft
  <2> QED BY <2>1, <2>3, FS_Singleton, OrderShares
<1>5. IsFiniteSet(UNION S)
  BY <1>3, <1>4, FS_UNION
<1> QED BY <1>5, FS_CardinalityType DEF SharesOf

\* A book with fewer orders has no more shares.
LEMMA FewerShares ==
    ASSUME NEW book \in [1..Slots -> Orders \cup {Gone}],
           NEW new \in [1..Slots -> Orders \cup {Gone}], NEW t, NEW sides,
           \A i \in Listed(new, t, sides) : new[i] = book[i]
    PROVE  Cardinality(SharesOf(new, t, sides)) <= Cardinality(SharesOf(book, t, sides))
<1>1. ASSUME NEW i \in Listed(new, t, sides), NEW s, HasShare(new, i, s)
      PROVE  i \in Listed(book, t, sides) /\ HasShare(book, i, s)
  BY <1>1 DEF Listed, HasShare
<1>2. SharesOf(new, t, sides) \in SUBSET SharesOf(book, t, sides)
  BY <1>1, SharesMember, MemberShares
<1> QED BY <1>2, SharesFinite, FS_Subset

FilledOne(book, new, i) == new = [book EXCEPT ![i] = Rest(book[i])]

FillsOne(book, new, i, sides) ==
    /\ book \in [1..Slots -> Orders \cup {Gone}] /\ i \in 1..Slots
    /\ FilledOne(book, new, i) /\ i \in Listed(book, book[i].ticker, sides)
OneLess(book, new, i, sides) ==
    Cardinality(SharesOf(new, book[i].ticker, sides))
        = Cardinality(SharesOf(book, book[i].ticker, sides)) - 1

\* An order that is filled has one share less.
LEMMA OneShareLess ==
    \A book, new, i, sides : FillsOne(book, new, i, sides) => OneLess(book, new, i, sides)
<1> SUFFICES ASSUME NEW book, NEW new, NEW i, NEW sides, FillsOne(book, new, i, sides)
             PROVE  OneLess(book, new, i, sides)
  OBVIOUS
<1>a. /\ book \in [1..Slots -> Orders \cup {Gone}] /\ i \in 1..Slots
      /\ FilledOne(book, new, i) /\ i \in Listed(book, book[i].ticker, sides)
  BY DEF FillsOne
<1> DEFINE o == book[i]
           t == o.ticker
<1>0. new = [book EXCEPT ![i] = Rest(book[i])]
  BY <1>a DEF FilledOne
<1>1. o \in Orders
  BY <1>a DEF Listed, Gone
<1>2. o.left \in Nat \ {0}
  BY <1>1 DEF Orders
<1>3. ASSUME NEW n \in Listed(new, t, sides), NEW s, HasShare(new, n, s)
      PROVE  n \in Listed(book, t, sides) /\ HasShare(book, n, s) /\ s # <<i, o.left>>
  <2>1. n \in 1..Slots /\ new[n].left > 0
    BY DEF Listed
  <2>2. CASE n # i
    BY <1>a, <1>0, <1>3, <2>1, <2>2 DEF Listed, HasShare
  <2>3. CASE n = i
    <3>1. o.left # 1 /\ new[i].left = o.left - 1
      <4>1. o.left # 1
        BY <1>a, <1>0, <2>1, <2>3 DEF Rest, Gone
      <4> QED BY <1>a, <1>0, <1>1, <4>1 DEF Rest, Orders
    <3> QED BY <1>a, <1>2, <1>3, <2>3, <3>1 DEF HasShare
  <2> QED BY <2>2, <2>3
<1>4. ASSUME NEW n \in Listed(book, t, sides), NEW s, HasShare(book, n, s),
             s # <<i, o.left>>
      PROVE  n \in Listed(new, t, sides) /\ HasShare(new, n, s)
  <2>1. n \in 1..Slots
    BY DEF Listed
  <2>2. CASE n # i
    BY <1>a, <1>0, <1>4, <2>1, <2>2 DEF Listed, HasShare
  <2>3. CASE n = i
    <3>1. o.left # 1
      BY <1>4, <2>3 DEF HasShare
    <3>2. new[i].left = o.left - 1 /\ new[i].ticker = t /\ new[i].side = o.side
      BY <1>a, <1>0, <1>1, <3>1 DEF Rest, Orders
    <3>3. i \in Listed(new, t, sides)
      BY <1>a, <1>2, <3>1, <3>2 DEF Listed
    <3> QED BY <1>2, <1>4, <2>3, <3>2, <3>3 DEF HasShare
  <2> QED BY <2>2, <2>3
<1>5. SharesOf(new, t, sides) = SharesOf(book, t, sides) \ {<<i, o.left>>}
  <2>1. \A s : s \in SharesOf(new, t, sides) =>
                   s \in SharesOf(book, t, sides) /\ s # <<i, o.left>>
    BY <1>3, SharesMember, MemberShares
  <2>2. \A s : s \in SharesOf(book, t, sides) /\ s # <<i, o.left>> =>
                   s \in SharesOf(new, t, sides)
    BY <1>4, SharesMember, MemberShares
  <2> QED BY <2>1, <2>2
<1>6. <<i, o.left>> \in SharesOf(book, t, sides)
  <2>1. HasShare(book, i, <<i, o.left>>)
    BY <1>2 DEF HasShare
  <2> QED BY <1>a, <2>1, MemberShares
<1>7. IsFiniteSet(SharesOf(book, t, sides))
  BY <1>a, SharesFinite
<1>8. Cardinality(SharesOf(new, t, sides)) = Cardinality(SharesOf(book, t, sides)) - 1
  <2> DEFINE S == SharesOf(book, t, sides)
             x == <<i, o.left>>
  <2>1. IsFiniteSet(S) /\ x \in S /\ SharesOf(new, t, sides) = S \ {x}
    BY <1>5, <1>6, <1>7
  <2> HIDE DEF S, x
  <2>2. Cardinality(S \ {x}) = Cardinality(S) - 1
    BY <2>1, FS_RemoveElement
  <2> QED BY <2>1, <2>2 DEF S
<1> QED BY <1>8 DEF OneLess

-----------------------------------------------------------------------------
(* A sale adds orders for its exits, under numbers that were free           *)

\* number tells under which number each accepted order was noted.
SaleNumbers(j, out, number) ==
    /\ number \in [Accepted(out) -> Unused]
    /\ \A a, b \in Accepted(out) : number[a] = number[b] => a = b
    /\ \A a \in Accepted(out) :
           /\ a[1] \in Sellables(j) /\ a = <<a[1], a[2]>>
           /\ a[2] \in 1..Copies(out[a[1]])
           /\ IsSaleOf(orders'[number[a]], a[1])
           /\ Book(out, SaleOrders(j)) => ~orders'[number[a]].known
    /\ \A i \in 1..Slots :
           (\A a \in Accepted(out) : number[a] # i) => orders'[i] = orders[i]

LEMMA AcceptedPairs ==
    ASSUME NEW out, NEW a \in Accepted(out)
    PROVE  a[1] \in DOMAIN out /\ a = <<a[1], a[2]>> /\ a[2] \in 1..Copies(out[a[1]])
<1>1. PICK x \in DOMAIN out : a \in {x} \X (1..Copies(out[x]))
  BY DEF Accepted
<1> QED BY <1>1

LEMMA SellNumbers ==
    ASSUME NEW j \in Jobs, NEW out, Sells(j, out)
    PROVE  \E number : SaleNumbers(j, out, number)
<1>1. DOMAIN out = Sellables(j)
  BY DEF Sells
<1>2. CASE Book(out, SaleOrders(j))
  <2>1. PICK number \in [Accepted(out) -> Unused] :
            /\ \A a, b \in Accepted(out) : number[a] = number[b] => a = b
            /\ \A a \in Accepted(out) : orders'[number[a]] = SaleOrders(j)[a[1]]
            /\ \A i \in 1..Slots :
                   (\A a \in Accepted(out) : number[a] # i) => orders'[i] = orders[i]
    BY <1>2, BookNotes
  <2>2. ASSUME NEW a \in Accepted(out)
        PROVE  orders'[number[a]] = Sale(a[1]) /\ ~orders'[number[a]].known
    <3>1. orders'[number[a]] = SaleOrders(j)[a[1]] /\ a[1] \in Sellables(j)
      BY <1>1, <2>1, AcceptedPairs
    <3>2. orders'[number[a]] = Sale(a[1])
      BY <3>1 DEF SaleOrders
    <3>3. ~Sale(a[1]).known
      BY DEF Sale
    <3> QED BY <3>2, <3>3
  <2>3. SaleNumbers(j, out, number)
    BY <1>1, <2>1, <2>2, AcceptedPairs DEF SaleNumbers, IsSaleOf
  <2> QED BY <2>3
<1>3. CASE ~Book(out, SaleOrders(j))
  <2> DEFINE new == [e \in Sellables(j) |-> IF Acknowledged(out[e])
                                               THEN Saved(SaleOrders(j)[e])
                                               ELSE SaleOrders(j)[e]]
  <2>1. PICK number \in [Accepted(out) -> Unused] :
            /\ \A a, b \in Accepted(out) : number[a] = number[b] => a = b
            /\ \A a \in Accepted(out) : orders'[number[a]] = new[a[1]]
            /\ \A i \in 1..Slots :
                   (\A a \in Accepted(out) : number[a] # i) => orders'[i] = orders[i]
    BY <1>3, BookNotes DEF Sells
  <2>2. ASSUME NEW a \in Accepted(out)
        PROVE  IsSaleOf(orders'[number[a]], a[1])
    <3>1. orders'[number[a]] = new[a[1]] /\ a[1] \in Sellables(j)
      BY <1>1, <2>1, AcceptedPairs
    <3>2. new[a[1]] \in {Sale(a[1]), Saved(Sale(a[1]))}
      BY <3>1 DEF SaleOrders
    <3> QED BY <3>1, <3>2 DEF IsSaleOf
  <2>3. SaleNumbers(j, out, number)
    BY <1>1, <1>3, <2>1, <2>2, AcceptedPairs DEF SaleNumbers
  <2> QED BY <2>3
<1> QED BY <1>2, <1>3

\* Every number of the book that has changed holds the sale of an exit now.
LEMMA SellBooks ==
    ASSUME NEW j \in Jobs, NEW out, Sells(j, out), NEW i \in 1..Slots
    PROVE  \/ orders'[i] = orders[i]
           \/ /\ i \in Unused
              /\ \E e \in Sellables(j) : IsSaleOf(orders'[i], e)
              /\ Book(out, SaleOrders(j)) => ~orders'[i].known
BY SellNumbers DEF SaleNumbers

LEMMA SellType ==
    ASSUME TypeOK, NEW j \in Jobs, NEW out, Sells(j, out)
    PROVE  orders' \in [1..Slots -> Orders \cup {Gone}]
<1>1. \A e \in Sellables(j) : e \in Exits
  BY DEF Sellables, TypeOK, Work
<1>2. \A i \in 1..Slots : orders'[i] \in Orders \cup {Gone}
  BY <1>1, SellBooks, SaleFields DEF TypeOK
<1>3. \E f : orders' = [i \in 1..Slots |-> f[i]]
  BY DEF Sells, Book
<1> QED BY <1>2, <1>3

\* The new shares on sale of a ticker are those of the one exit it has.
LEMMA NewShares ==
    ASSUME TypeOK, ExitsDiffer, NEW j \in Jobs, NEW out, Sells(j, out),
           NEW number, SaleNumbers(j, out, number), NEW e \in Sellables(j),
           Copies(out[e]) \in {1, 2}
    PROVE  LET slots == {number[<<e, 1>>], number[<<e, Copies(out[e])>>]} IN
           /\ SharesOf(orders', e.ticker, SellSides)
                  \subseteq SharesOf(orders, e.ticker, SellSides) \cup slots \X (1..e.qty)
           /\ slots \X (1..e.qty) \subseteq SharesOf(orders', e.ticker, SellSides)
<1> DEFINE slots == {number[<<e, 1>>], number[<<e, Copies(out[e])>>]}
           t == e.ticker
<1>1. /\ e \in Exits /\ Sellables(j) \subseteq work[j].exits
      /\ \A x \in Sellables(j) : x \in Exits
      /\ \A x \in Sellables(j) : x.ticker = t => x = e
  BY DEF Sellables, TypeOK, Work, ExitsDiffer
<1>2. ASSUME NEW i \in Listed(orders', t, SellSides), NEW s, HasShare(orders', i, s)
      PROVE  s \in SharesOf(orders, t, SellSides) \cup slots \X (1..e.qty)
  <2>1. i \in 1..Slots
    BY DEF Listed
  <2>2. CASE \A a \in Accepted(out) : number[a] # i
    <3>1. orders'[i] = orders[i]
      BY <2>1, <2>2 DEF SaleNumbers
    <3>2. i \in Listed(orders, t, SellSides) /\ HasShare(orders, i, s)
      BY <1>2, <3>1 DEF Listed, HasShare
    <3> QED BY <3>2, MemberShares
  <2>3. ASSUME NEW a \in Accepted(out), number[a] = i
        PROVE  s \in slots \X (1..e.qty)
    <3>1. a[1] \in Sellables(j) /\ IsSaleOf(orders'[i], a[1])
      BY <2>3 DEF SaleNumbers
    <3>2. orders'[i].ticker = a[1].ticker /\ orders'[i].left = a[1].qty
      BY <1>1, <3>1, SaleFields
    <3>3. a[1] = e
      BY <1>1, <3>1, <3>2 DEF Listed
    <3>4. a = <<e, a[2]>> /\ a[2] \in 1..Copies(out[e])
      BY <3>3 DEF SaleNumbers
    <3>5. i \in slots
      BY <2>3, <3>4
    <3>6. \E k \in 1..e.qty : s = <<i, k>>
      BY <1>2, <3>2, <3>3 DEF HasShare
    <3> QED BY <3>5, <3>6
  <2> QED BY <2>2, <2>3
<1>3. ASSUME NEW i \in slots, NEW k \in 1..e.qty
      PROVE  <<i, k>> \in SharesOf(orders', t, SellSides)
  <2>1. PICK c \in 1..Copies(out[e]) : i = number[<<e, c>>]
    OBVIOUS
  <2>2. e \in DOMAIN out
    BY DEF Sells
  <2>3. <<e, c>> \in Accepted(out)
    BY <2>2 DEF Accepted
  <2>4. IsSaleOf(orders'[i], e) /\ i \in 1..Slots
    BY <2>1, <2>3 DEF SaleNumbers, Unused
  <2>5. /\ orders'[i].ticker = t /\ orders'[i].left = e.qty
        /\ orders'[i].side \in SellSides
    BY <1>1, <2>4, SaleFields DEF SellSides
  <2>6. i \in Listed(orders', t, SellSides) /\ HasShare(orders', i, <<i, k>>)
    BY <1>1, <2>4, <2>5 DEF Listed, HasShare, Exits
  <2> QED BY <2>6, MemberShares
<1>4. SharesOf(orders', t, SellSides)
          \subseteq SharesOf(orders, t, SellSides) \cup slots \X (1..e.qty)
  BY <1>2, SharesMember
<1>5. slots \X (1..e.qty) \subseteq SharesOf(orders', t, SellSides)
  BY <1>3
<1> QED BY <1>4, <1>5

\* No more of a ticker is on sale, after a sale, than is held.
LEMMA SellShares ==
    ASSUME TypeOK, ExitsDiffer, SharesOnSale, NEW j \in Jobs, NEW out, Sells(j, out),
           NEW t \in Tickers
    PROVE  InBook(t, SellSides)' <= held[t]
<1>1. PICK number : SaleNumbers(j, out, number)
  BY SellNumbers
<1>2. /\ orders \in [1..Slots -> Orders \cup {Gone}]
      /\ orders' \in [1..Slots -> Orders \cup {Gone}]
      /\ held[t] \in Nat
  BY SellType DEF TypeOK
<1> DEFINE before == SharesOf(orders, t, SellSides)
           after == SharesOf(orders', t, SellSides)
<1>3. /\ InBook(t, SellSides) = Cardinality(before)
      /\ InBook(t, SellSides)' = Cardinality(after)
      /\ Cardinality(before) <= held[t]
  BY InBookIsShares DEF SharesOnSale
<1>4. /\ IsFiniteSet(before) /\ Cardinality(before) \in Nat
      /\ IsFiniteSet(after) /\ Cardinality(after) \in Nat
  BY <1>2, SharesFinite
<1>5. CASE \A a \in Accepted(out) : a[1].ticker # t
  <2>1. ASSUME NEW i \in Listed(orders', t, SellSides)
        PROVE  orders'[i] = orders[i]
    <3>1. i \in 1..Slots /\ orders'[i].ticker = t
      BY DEF Listed
    <3>2. ASSUME NEW a \in Accepted(out), number[a] = i
          PROVE  FALSE
      <4>1. a[1] \in Sellables(j) /\ IsSaleOf(orders'[i], a[1])
        BY <1>1, <3>2 DEF SaleNumbers
      <4>2. a[1] \in Exits
        BY <4>1 DEF Sellables, TypeOK, Work
      <4> QED BY <1>5, <3>1, <4>1, <4>2, SaleFields
    <3> QED BY <1>1, <3>1, <3>2 DEF SaleNumbers
  <2>2. Cardinality(after) <= Cardinality(before)
    BY <1>2, <2>1, FewerShares
  <2> QED BY <1>2, <1>3, <1>4, <2>2
<1>6. ASSUME NEW a \in Accepted(out), a[1].ticker = t
      PROVE  Cardinality(after) <= held[t]
  <2> DEFINE e == a[1]
             slots == {number[<<e, 1>>], number[<<e, Copies(out[e])>>]}
             new == slots \X (1..e.qty)
  <2>1. e \in Sellables(j) /\ e \in Exits /\ e.qty \in Nat
    BY <1>1 DEF SaleNumbers, Sellables, TypeOK, Work, Exits
  <2>2. /\ out[e] \in Outcomes
        /\ e.qty <= held[t] - Cardinality(before)
        /\ out[e] = "twice" => 2 * e.qty <= held[t] - Cardinality(before)
    BY <1>3, <1>6, <2>1 DEF Sells, Sellables, Sellable, ResendSells
  <2>3. Copies(out[e]) \in {1, 2} /\ (Copies(out[e]) = 2 <=> out[e] = "twice")
    <3>1. a[2] \in 1..Copies(out[e])
      BY <1>1 DEF SaleNumbers
    <3> QED BY <3>1 DEF Copies
  <2>4. after \subseteq before \cup new
    BY <1>1, <1>6, <2>1, <2>3, NewShares
  <2>5. /\ IsFiniteSet(slots) /\ Cardinality(slots) \in {1, 2}
        /\ out[e] # "twice" => Cardinality(slots) = 1
    <3>1. PICK x, y : x = number[<<e, 1>>] /\ y = number[<<e, Copies(out[e])>>]
      OBVIOUS
    <3>2. /\ IsFiniteSet({x}) /\ Cardinality({x}) = 1
          /\ IsFiniteSet({x} \cup {y}) /\ Cardinality({x} \cup {y}) \in {1, 2}
      <4> DEFINE X == {x}
      <4>1. IsFiniteSet(X) /\ Cardinality(X) = 1
        BY FS_Singleton
      <4> HIDE DEF X
      <4>2. /\ IsFiniteSet(X \cup {y})
            /\ Cardinality(X \cup {y}) = Cardinality(X) \/ Cardinality(X \cup {y}) = Cardinality(X) + 1
        BY <4>1, FS_AddElement
      <4>3. Cardinality(X \cup {y}) \in {1, 2}
        BY <4>1, <4>2
      <4> QED BY <4>1, <4>2, <4>3 DEF X
    <3>3. slots = {x} \cup {y} /\ (out[e] # "twice" => slots = {x})
      BY <2>3, <3>1
    <3> QED BY <3>2, <3>3
  <2> HIDE DEF slots, e
  <2>6. IsFiniteSet(new) /\ Cardinality(new) = Cardinality(slots) * e.qty
    BY <2>1, <2>5, OrderShares
  <2>7. Cardinality(new) \in Nat /\ Cardinality(new) <= held[t] - Cardinality(before)
    BY <1>2, <1>4, <2>1, <2>2, <2>5, <2>6
  <2> HIDE DEF new, before, after
  <2>8. /\ IsFiniteSet(before \cup new)
        /\ Cardinality(before \cup new) <= Cardinality(before) + Cardinality(new)
    <3>1. /\ IsFiniteSet(before \cup new)
          /\ Cardinality(before \cup new)
                 = Cardinality(before) + Cardinality(new) - Cardinality(before \cap new)
      BY <1>4, <2>6, FS_Union
    <3>2. Cardinality(before \cap new) \in Nat
      BY <1>4, FS_Subset, FS_CardinalityType
    <3> QED BY <1>4, <2>7, <3>1, <3>2
  <2>9. Cardinality(after) <= Cardinality(before \cup new)
    BY <2>4, <2>8, FS_Subset
  <2>10. Cardinality(before \cup new) \in Nat
    BY <2>8, FS_CardinalityType
  <2> QED BY <1>2, <1>4, <2>7, <2>8, <2>9, <2>10
<1> QED BY <1>3, <1>5, <1>6

\* A clean close has put everything that is held on sale.
LEMMA CloseShares ==
    ASSUME TypeOK, ExitsDiffer, SharesOnSale, NEW out, Sells("close", out),
           AllSold("close", out), LiveOrders = {},
           work["close"].exits = {[ticker |-> t, kind |-> "EOD", qty |-> held[t]] :
                                     t \in Holdings},
           NEW t \in Tickers
    PROVE  InBook(t, BuySide)' = 0 /\ held[t] = InBook(t, SellSides)'
<1>1. /\ "close" \in Jobs /\ held[t] \in Nat
      /\ orders' \in [1..Slots -> Orders \cup {Gone}]
  BY SellType DEF TypeOK, Jobs, Cycles
<1>2. InBook(t, BuySide)' = 0
  <2>1. ASSUME NEW i \in Listed(orders', t, BuySide)
        PROVE  FALSE
    <3>1. i \in 1..Slots /\ orders'[i].left > 0 /\ orders'[i].side = "buy"
      BY DEF Listed, BuySide
    <3>2. orders'[i] # orders[i]
      BY <3>1 DEF LiveOrders, Live
    <3>3. PICK e \in Sellables("close") : IsSaleOf(orders'[i], e)
      BY <1>1, <3>1, <3>2, SellBooks
    <3>4. e \in Exits
      BY DEF Sellables, TypeOK, Work, Jobs, Cycles
    <3> QED BY <3>1, <3>3, <3>4, SaleFields DEF IsBuy
  <2>2. SharesOf(orders', t, BuySide) = {}
    BY <2>1, SharesMember
  <2> QED BY <2>2, InBookIsShares, FS_EmptySet
<1> DEFINE after == SharesOf(orders', t, SellSides)
<1>3. IsFiniteSet(after) /\ Cardinality(after) \in Nat
  BY <1>1, SharesFinite
<1>4. InBook(t, SellSides)' = Cardinality(after)
  BY InBookIsShares
<1>5. CASE held[t] = 0
  <2>1. InBook(t, SellSides)' <= held[t]
    BY <1>1, SellShares
  <2> QED BY <1>1, <1>2, <1>3, <1>4, <1>5, <2>1
<1>6. CASE held[t] # 0
  <2> DEFINE e == [ticker |-> t, kind |-> "EOD", qty |-> held[t]]
  <2>1. t \in Holdings
    BY <1>1, <1>6 DEF Holdings
  <2>2. e \in work["close"].exits
    BY <2>1
  <2>3. e \in Sellables("close") /\ out[e] = "acked"
    BY <2>2 DEF AllSold, Sells
  <2>4. Copies(out[e]) = 1
    BY <2>3 DEF Copies
  <2>5. PICK number : SaleNumbers("close", out, number)
    BY <1>1, SellNumbers
  <2>6. SharesOf(orders, t, SellSides) = {}
    <3>1. Listed(orders, t, SellSides) = {}
      BY DEF LiveOrders, Live, Listed
    <3> QED BY <3>1, SharesMember
  <2>7. after = {number[<<e, 1>>]} \X (1..held[t])
    <3>1. e.ticker = t /\ e.qty = held[t]
      OBVIOUS
    <3> HIDE DEF e
    <3>2. after \subseteq {} \cup {number[<<e, 1>>], number[<<e, 1>>]} \X (1..held[t])
      BY <1>1, <2>3, <2>4, <2>5, <2>6, <3>1, NewShares
    <3>3. {number[<<e, 1>>], number[<<e, 1>>]} \X (1..held[t]) \subseteq after
      BY <1>1, <2>3, <2>4, <2>5, <3>1, NewShares
    <3> QED BY <3>2, <3>3
  <2>8. Cardinality(after) = 1 * held[t]
    <3>1. PICK x : x = number[<<e, 1>>]
      OBVIOUS
    <3>2. IsFiniteSet({x}) /\ Cardinality({x}) = 1
      BY FS_Singleton
    <3>3. Cardinality({x} \X (1..held[t])) = 1 * held[t]
      BY <1>1, <3>2, OrderShares
    <3> QED BY <2>7, <3>1, <3>3
  <2> QED BY <1>1, <1>2, <1>4, <2>8
<1> QED BY <1>2, <1>5, <1>6

\* No more is on sale than is held, after a step that adds nothing to a sale.
LEMMA FewerOnSale ==
    ASSUME TypeOK, SharesOnSale, orders' \in [1..Slots -> Orders \cup {Gone}],
           held' = held,
           \A i \in 1..Slots : Live(i)' /\ orders'[i].side \in SellSides =>
               orders'[i] = orders[i]
    PROVE  SharesOnSale'
<1> SUFFICES ASSUME NEW t \in Tickers
             PROVE  InBook(t, SellSides)' <= held[t]
  BY DEF SharesOnSale
<1>1. \A i \in Listed(orders', t, SellSides) : orders'[i] = orders[i]
  BY DEF Listed, Live
<1>2. orders \in [1..Slots -> Orders \cup {Gone}] /\ held[t] \in Nat
  BY DEF TypeOK
<1>3. /\ Cardinality(SharesOf(orders, t, SellSides)) \in Nat
      /\ Cardinality(SharesOf(orders', t, SellSides)) \in Nat
      /\ Cardinality(SharesOf(orders', t, SellSides))
             <= Cardinality(SharesOf(orders, t, SellSides))
  BY <1>1, <1>2, SharesFinite, FewerShares
<1>4. Cardinality(SharesOf(orders, t, SellSides)) <= held[t]
  BY InBookIsShares DEF SharesOnSale
<1> QED BY <1>2, <1>3, <1>4, InBookIsShares

-----------------------------------------------------------------------------
(* Where the steps of a job lead                                           *)

Working(j) == pc[j] \notin {"idle", "acquire", "wait", "over"}

\* One exit of a ticker at a time.
OneEach(exits) ==
    \A e, f \in exits : e.kind # "ENTRY" /\ (e.ticker = f.ticker => e = f)

\* Job j goes on to step s with w in hand, and the lock as it was.
GoesOn(j, s, w) ==
    /\ pc' = [pc EXCEPT ![j] = s] /\ work' = [work EXCEPT ![j] = w] /\ lock' = lock
    /\ w \in Work /\ s \in StepsOf[j] \ Waiting
    /\ s # "cancel" => w.todo = {}
    /\ (s # "sell" => w.exits = {}) /\ OneEach(w.exits)
    /\ j # "buy" /\ (j = "cancel" => s = "cancel")

\* Every step of a job is of one of these kinds.
JobMove(j) ==
    \/ Working(j) /\ Leave(j)
    \/ /\ Working(j) /\ (pc[j] = "gate" => ~CloseStarted)
       /\ \E s, w : GoesOn(j, s, w)
    \/ j \in Cycles /\ TryLock(j)
    \/ j = "close" /\ CloseAcquire

LEMMA WorkFields ==
    ASSUME TypeOK, NEW j \in Jobs
    PROVE  /\ work[j] \in Work /\ NoWork \in Work
           /\ work[j].exits \subseteq Exits /\ work[j].todo \subseteq 1..Slots
           /\ work[j].done \subseteq Tickers /\ work[j].intents \subseteq Tickers
           /\ work[j].held \subseteq Tickers /\ work[j].blind \subseteq Tickers
BY DEF TypeOK, Work, NoWork

\* What follows the cancellations, job by job.
LEMMA CancelsDoneMoves ==
    ASSUME TypeOK, Control, NEW j \in Jobs, pc[j] \in {"list", "cancel"},
           NEW done \in SUBSET Tickers, CancelsDone(j, done)
    PROVE  \/ j \in {"watch", "cancel"} /\ Leave(j) /\ UNCHANGED latest
           \/ \E w : /\ w.done = done
                     /\ \/ j = "watch" /\ GoesOn(j, "screen", w) /\ Released(done)
                        \/ j = "recheck" /\ GoesOn(j, "filter", w) /\ Released(done)
                        \/ j = "close" /\ GoesOn(j, "poll", w) /\ UNCHANGED latest
<1>1. j # "buy" /\ j \in Jobs /\ (pc[j] # "sell" => work[j].exits = {})
  BY DEF Control, StepsOf, Jobs, Cycles
<1>2. CASE j = "watch"
  <2> DEFINE w == [NoWork EXCEPT !.done = done]
  <2>1. w \in Work /\ w.done = done /\ w.todo = {} /\ w.exits = {}
    BY DEF NoWork, Work
  <2> QED BY <1>2, <2>1 DEF CancelsDone, GoesOn, Goto, StepsOf, Waiting, OneEach
<1>3. CASE j = "recheck"
  <2> DEFINE w == [work[j] EXCEPT !.todo = {}, !.done = done]
  <2>1. w \in Work /\ w.done = done /\ w.todo = {} /\ w.exits = {}
    BY <1>1, WorkFields DEF Work
  <2>2. work' = [work EXCEPT ![j] = w]
    BY <1>3 DEF CancelsDone, TypeOK
  <2> QED BY <1>3, <2>1, <2>2 DEF CancelsDone, GoesOn, Goto, StepsOf, Waiting, OneEach
<1>4. CASE j = "close"
  <2> DEFINE w == [NoWork EXCEPT !.done = done]
  <2>1. w \in Work /\ w.done = done /\ w.todo = {} /\ w.exits = {}
    BY DEF NoWork, Work
  <2> QED BY <1>4, <2>1 DEF CancelsDone, GoesOn, Goto, StepsOf, Waiting, OneEach
<1>5. CASE j = "cancel"
  BY <1>5 DEF CancelsDone
<1> QED BY <1>1, <1>2, <1>3, <1>4, <1>5 DEF Jobs, Cycles

LEMMA HalfOrOne ==
    ASSUME NEW n \in Nat
    PROVE  Max({1, n}) \in Nat \ {0}
BY DEF Max

\* The watch has one exit for each ticker it wants to leave, at least one share
\* of it, and none for a ticker it has submitted before and still holds.
LEMMA WatchPolls ==
    ASSUME TypeOK, WatchPoll
    PROVE  \E exits \in SUBSET Exits :
               /\ work' = [work EXCEPT !["watch"].exits = exits]
               /\ \A e \in exits : e.ticker \notin StillPending
               /\ OneEach(exits)
<1>1. PICK picked \in SUBSET [ticker : Holdings,
                              kind : {"STOP_LOSS", "TRAILING_STOP", "PARTIAL_TAKE_PROFIT"}] :
          /\ \A e, f \in picked : e.ticker = f.ticker => e = f
          /\ work' = [work EXCEPT !["watch"].exits =
                 {[ticker |-> e.ticker, kind |-> e.kind,
                   qty |-> IF e.kind = "PARTIAL_TAKE_PROFIT"
                              THEN Max({1, held[e.ticker] \div 2})
                              ELSE held[e.ticker]] :
                       e \in {x \in picked : x.ticker \notin StillPending}}]
  BY DEF WatchPoll
<1> DEFINE qty(e) == IF e.kind = "PARTIAL_TAKE_PROFIT"
                        THEN Max({1, held[e.ticker] \div 2}) ELSE held[e.ticker]
           exits == {[ticker |-> e.ticker, kind |-> e.kind, qty |-> qty(e)] :
                        e \in {x \in picked : x.ticker \notin StillPending}}
<1>2. ASSUME NEW e \in picked
      PROVE  /\ e.ticker \in Tickers /\ qty(e) \in Nat \ {0}
             /\ e.kind \in {"STOP_LOSS", "TRAILING_STOP", "PARTIAL_TAKE_PROFIT"}
  <2>1. e.ticker \in Holdings
        /\ e.kind \in {"STOP_LOSS", "TRAILING_STOP", "PARTIAL_TAKE_PROFIT"}
    OBVIOUS
  <2>2. e.ticker \in Tickers /\ held[e.ticker] \in Nat \ {0}
    BY <2>1 DEF Holdings, TypeOK
  <2>3. held[e.ticker] \div 2 \in Nat
    BY <2>2
  <2> QED BY <2>1, <2>2, <2>3, HalfOrOne
<1> HIDE DEF qty
<1>3. exits \in SUBSET Exits
  BY <1>2 DEF Exits, Kinds, Full
<1>4. \A x \in exits : x.kind # "ENTRY" /\ x.ticker \notin StillPending
  BY <1>2
<1>5. \A x, y \in exits : x.ticker = y.ticker => x = y
  BY <1>1
<1>6. work' = [work EXCEPT !["watch"].exits = exits]
  BY <1>1 DEF qty
<1> HIDE DEF exits
<1> QED BY <1>3, <1>4, <1>5, <1>6 DEF OneEach

LEMMA GuardsMove ==
    ASSUME TypeOK, NEW j \in Jobs, NEW intents \in SUBSET Tickers, Guards(j, intents)
    PROVE  /\ faults' \in 0..MaxFaults
           /\ \E w \in Work :
                  /\ work' = [work EXCEPT ![j] = w]
                  /\ w.todo = work[j].todo /\ w.exits = work[j].exits
                  /\ w.done = work[j].done /\ w.held = work[j].held
                  /\ w.intents \subseteq intents
                  /\ w.intents \cap stopped \subseteq w.blind
<1>1. CASE work' = [work EXCEPT ![j].intents = intents \ stopped] /\ UNCHANGED faults
  <2> DEFINE w == [work[j] EXCEPT !.intents = intents \ stopped]
  <2>1. w \in Work /\ w.intents = intents \ stopped /\ w.blind = work[j].blind
        /\ w.todo = work[j].todo /\ w.exits = work[j].exits
        /\ w.done = work[j].done /\ w.held = work[j].held
    BY WorkFields DEF Work
  <2>2. work' = [work EXCEPT ![j] = w] /\ faults' \in 0..MaxFaults
    BY <1>1 DEF TypeOK
  <2> HIDE DEF w
  <2> QED BY <2>1, <2>2
<1>2. CASE work' = [work EXCEPT ![j].intents = {}] /\ UNCHANGED faults
  <2> DEFINE w == [work[j] EXCEPT !.intents = {}]
  <2>1. w \in Work /\ w.intents = {}
        /\ w.todo = work[j].todo /\ w.exits = work[j].exits
        /\ w.done = work[j].done /\ w.held = work[j].held
    BY WorkFields DEF Work
  <2>2. work' = [work EXCEPT ![j] = w] /\ faults' \in 0..MaxFaults
    BY <1>2 DEF TypeOK
  <2> HIDE DEF w
  <2> QED BY <2>1, <2>2
<1>3. ASSUME Fails("lookup"), NEW t \in intents \cap stopped,
             work' = [work EXCEPT ![j].intents = intents \ (stopped \ {t}),
                                  ![j].blind = {t}]
      PROVE  /\ faults' \in 0..MaxFaults
             /\ \E w \in Work :
                    /\ work' = [work EXCEPT ![j] = w]
                    /\ w.todo = work[j].todo /\ w.exits = work[j].exits
                    /\ w.done = work[j].done /\ w.held = work[j].held
                    /\ w.intents \subseteq intents
                    /\ w.intents \cap stopped \subseteq w.blind
  <2> DEFINE w == [work[j] EXCEPT !.intents = intents \ (stopped \ {t}), !.blind = {t}]
  <2>1. w \in Work /\ w.intents = intents \ (stopped \ {t}) /\ w.blind = {t}
        /\ w.todo = work[j].todo /\ w.exits = work[j].exits
        /\ w.done = work[j].done /\ w.held = work[j].held
    BY WorkFields DEF Work
  <2>2. work' = [work EXCEPT ![j] = w]
    BY <1>3 DEF TypeOK
  <2>3. faults' \in 0..MaxFaults
    BY <1>3, MaxAssumption DEF Fails, TypeOK
  <2> HIDE DEF w
  <2> QED BY <2>1, <2>2, <2>3
<1> QED BY <1>1, <1>2, <1>3 DEF Guards

LEMMA CycleMoves ==
    ASSUME TypeOK, Control, NEW c \in Cycles, CycleStep(c)
    PROVE  JobMove(c) /\ UNCHANGED clock
<1>0. /\ c \in Jobs /\ work[c] \in Work
      /\ pc[c] \notin {"sell", "cancel"} => work[c].todo = {} /\ work[c].exits = {}
  BY WorkFields DEF Jobs, Control
<1>1. CASE TryLock(c)
  BY <1>1 DEF JobMove, TryLock
<1>2. CASE SecondLook(c)
  <2>1. CASE CloseStarted
    BY <1>2, <2>1 DEF SecondLook, JobMove, Working
  <2>2. CASE ~CloseStarted
    <3>1. GoesOn(c, FirstStep(c), work[c])
      BY <1>0, <1>2, <2>2 DEF SecondLook, GoesOn, OneEach, Goto, FirstStep, StepsOf,
                              Waiting,
                              Cycles, TypeOK
    <3> QED BY <1>2, <2>2, <3>1 DEF SecondLook, JobMove, Working
  <2> QED BY <2>1, <2>2
<1>3. CASE Screen(c)
  <2> DEFINE w == [work[c] EXCEPT !.held = Holdings]
             s == IF c = "watch" THEN "filter" ELSE "list"
  <2>1. w \in Work /\ w.todo = {} /\ w.exits = {}
    BY <1>0, <1>3 DEF Work, Holdings, Screen
  <2>2. work' = [work EXCEPT ![c] = w]
    BY <1>3 DEF Screen, TypeOK
  <2>3. s \in StepsOf[c] \ Waiting
    BY DEF Cycles, StepsOf, Waiting
  <2>4. GoesOn(c, s, w)
    BY <1>3, <2>1, <2>2, <2>3 DEF Screen, GoesOn, OneEach, Goto, Cycles
  <2> QED BY <1>3, <2>4 DEF Screen, JobMove, Working
<1>4. CASE Filter(c)
  <2>1. PICK intents \in SUBSET Tickers : Guards(c, intents)
    BY <1>4 DEF Filter, Eligible, TypeOK, Latest
  <2>2. PICK w \in Work :
            work' = [work EXCEPT ![c] = w] /\ w.todo = work[c].todo
            /\ w.exits = work[c].exits
    BY <1>0, <2>1, GuardsMove
  <2>3. w.todo = {} /\ w.exits = {}
    BY <1>0, <1>4, <2>2 DEF Filter
  <2>4. "submit" \in StepsOf[c] \ Waiting
    BY DEF Cycles, StepsOf, Waiting
  <2>5. GoesOn(c, "submit", w)
    BY <1>4, <2>2, <2>3, <2>4 DEF Filter, GoesOn, OneEach, Goto, Cycles
  <2> QED BY <1>4, <2>5 DEF Filter, JobMove, Working, clock
<1>5. CASE Submit(c)
  <2>1. pc[c] = "submit" /\ Leave(c) /\ UNCHANGED clock
    BY <1>0, <1>5, BuyFrame DEF Submit
  <2> QED BY <2>1 DEF JobMove, Working
<1> QED BY <1>1, <1>2, <1>3, <1>4, <1>5 DEF CycleStep, TryLock, SecondLook, Screen, Filter

LEMMA CancelMoves ==
    ASSUME TypeOK, Control, NEW j \in Jobs, pc[j] \in {"list", "cancel"},
           NEW done \in SUBSET Tickers, CancelsDone(j, done)
    PROVE  JobMove(j)
<1>1. Working(j) /\ pc[j] # "gate"
  BY DEF Working
<1> QED BY <1>1, CancelsDoneMoves DEF JobMove

LEMMA BookMoves ==
    ASSUME TypeOK, Control, NEW j \in Jobs, List(j) \/ ListFails(j) \/ Cancel(j) \/ Raise(j)
    PROVE  JobMove(j) /\ UNCHANGED clock
<1>0. work[j] \in Work /\ work[j].done \subseteq Tickers
  BY WorkFields
<1>1. CASE List(j)
  <2>1. CASE Requests(j) = {}
    BY <1>1, <2>1, CancelMoves DEF List
  <2>2. CASE Requests(j) # {}
    <3> DEFINE w == [work[j] EXCEPT !.todo = Requests(j)]
    <3>1. Requests(j) \subseteq 1..Slots
      BY DEF Requests, LiveOrders
    <3>2. w \in Work /\ w.exits = {}
      BY <1>0, <1>1, <3>1 DEF Work, List, Control
    <3>3. work' = [work EXCEPT ![j] = w]
      BY <1>1, <2>2 DEF List, TypeOK
    <3>4. "cancel" \in StepsOf[j] \ Waiting /\ j # "buy"
      BY <1>1 DEF List, Control, Jobs, Cycles, StepsOf, Waiting
    <3>5. GoesOn(j, "cancel", w)
      BY <1>1, <2>2, <3>2, <3>3, <3>4 DEF List, GoesOn, OneEach, Goto
    <3> QED BY <1>1, <3>5 DEF List, JobMove, Working
  <2> QED BY <1>1, <2>1, <2>2 DEF List
<1>2. CASE ListFails(j)
  BY <1>2, CancelMoves DEF ListFails
<1>3. CASE Cancel(j)
  <2>1. UNCHANGED clock /\ pc[j] = "cancel"
    BY <1>3 DEF Cancel
  <2>2. PICK i \in work[j].todo : CancelOne(j, i) \/ CancelRaises(j, i)
    BY <1>3 DEF Cancel
  <2>3. CASE CancelOne(j, i)
    <3> DEFINE done == work[j].done \cup {orders[i].ticker}
    <3>1. orders[i].ticker \in Tickers
      <4>1. i \in 1..Slots /\ orders[i].left > 0
        BY <2>2, <2>3, WorkFields DEF CancelOne, Live
      <4>2. orders[i] \in Orders
        BY <4>1 DEF TypeOK, Gone
      <4> QED BY <4>2 DEF Orders
    <3>2. done \in SUBSET Tickers
      BY <1>0, <3>1
    <3>3. CASE work[j].todo = {i}
      BY <2>1, <2>3, <3>2, <3>3, CancelMoves DEF CancelOne
    <3>4. CASE work[j].todo # {i}
      <4> DEFINE w == [work[j] EXCEPT !.todo = @ \ {i}, !.done = done]
      <4>1. w \in Work /\ w.exits = {}
        BY <1>0, <2>1, <3>2 DEF Work, Control
      <4>2. work' = [work EXCEPT ![j] = w] /\ pc' = pc /\ lock' = lock
        BY <2>3, <3>4 DEF CancelOne, TypeOK
      <4>3. /\ "cancel" \in StepsOf[j] \ Waiting /\ j # "buy"
            /\ pc' = [pc EXCEPT ![j] = "cancel"]
        BY <2>1, <4>2 DEF Control, Jobs, Cycles, StepsOf, Waiting, TypeOK
      <4>4. GoesOn(j, "cancel", w)
        BY <4>1, <4>2, <4>3 DEF GoesOn, OneEach
      <4> QED BY <2>1, <4>4 DEF JobMove, Working
    <3> QED BY <2>1, <3>3, <3>4
  <2>4. CASE CancelRaises(j, i)
    BY <2>1, <2>4, CancelMoves DEF CancelRaises, JobMove, Working
  <2> QED BY <2>1, <2>2, <2>3, <2>4
<1>4. CASE Raise(j)
  BY <1>4 DEF Raise, JobMove, Working
<1> QED BY <1>1, <1>2, <1>3, <1>4

LEMMA JobMoves ==
    ASSUME TypeOK, Control, ExitsDiffer, NEW j \in Jobs, JobStep(j)
    PROVE  JobMove(j) /\ UNCHANGED clock
<1>1. CASE j \in Cycles /\ CycleStep(j)
  BY <1>1, CycleMoves
<1>2. CASE j = "watch" /\ WatchPoll
  <2>1. PICK exits \in SUBSET Exits :
            work' = [work EXCEPT !["watch"].exits = exits] /\ OneEach(exits)
    BY <1>2, WatchPolls
  <2> DEFINE w == [work[j] EXCEPT !.exits = exits]
  <2>2. w \in Work /\ w.todo = {} /\ w.exits = exits
    BY <1>2, WorkFields DEF Work, WatchPoll, Control
  <2>3. work' = [work EXCEPT ![j] = w]
    BY <1>2, <2>1 DEF TypeOK
  <2>4. GoesOn(j, "sell", w)
    BY <1>2, <2>1, <2>2, <2>3 DEF WatchPoll, Goto, GoesOn, StepsOf, Waiting
  <2> QED BY <1>2, <2>4 DEF WatchPoll, JobMove, Working, clock
<1>3. CASE j = "watch" /\ WatchSell
  <2>1. pc[j] = "sell" /\ UNCHANGED clock
    BY <1>3 DEF WatchSell, SellAll
  <2>2. WatchRemembers \/ Leave("watch")
    BY <1>3, WatchSells
  <2>3. CASE WatchRemembers
    <3>1. GoesOn(j, "list", NoWork)
      BY <1>3, <2>3, WorkFields DEF WatchRemembers, Goto, GoesOn, StepsOf, Waiting,
                                    NoWork,
                                       OneEach
    <3> QED BY <2>1, <3>1 DEF JobMove, Working
  <2> QED BY <1>3, <2>1, <2>2, <2>3 DEF JobMove, Working
<1>4. CASE j = "close" /\ CloseAcquire
  BY <1>4 DEF JobMove, CloseAcquire
<1>5. CASE j = "close" /\ ClosePoll
  <2> DEFINE exits == {[ticker |-> t, kind |-> "EOD", qty |-> held[t]] : t \in Holdings}
             w == [NoWork EXCEPT !.exits = exits]
  <2>1. exits \subseteq Exits
    BY DEF Holdings, Exits, Kinds, Full, TypeOK
  <2>2. w \in Work /\ w.todo = {} /\ w.exits = exits
    BY <2>1 DEF NoWork, Work
  <2>3. OneEach(exits)
    BY DEF OneEach
  <2>4. GoesOn(j, "sell", w)
    BY <1>5, <2>2, <2>3 DEF ClosePoll, Goto, GoesOn, StepsOf, Waiting
  <2> QED BY <1>5, <2>4 DEF ClosePoll, JobMove, Working
<1>6. CASE j = "close" /\ CloseSell
  <2>1. pc[j] = "sell" /\ UNCHANGED clock
    BY <1>6 DEF CloseSell, SellAll
  <2>2. Leave("close")
    BY <1>6, CloseSells
  <2> QED BY <1>6, <2>1, <2>2 DEF JobMove, Working
<1>7. CASE j = "buy" /\ MockBuySubmit
  <2>1. pc[j] = "submit" /\ Leave(j) /\ UNCHANGED clock
    BY <1>7, BuyFrame DEF MockBuySubmit
  <2> QED BY <2>1 DEF JobMove, Working
<1> QED BY <1>1, <1>2, <1>3, <1>4, <1>5, <1>6, <1>7, BookMoves DEF JobStep

-----------------------------------------------------------------------------
(* The order of the jobs                                                   *)

LEMMA JobControl ==
    ASSUME TypeOK, Control, NEW j \in Jobs, JobMove(j)
    PROVE  Control'
<1> DEFINE Tidy(k) == /\ pc[k] \in StepsOf[k]
                      /\ pc[k] \in Waiting => work[k] = NoWork
                      /\ pc[k] # "cancel" => work[k].todo = {}
                      /\ pc[k] # "sell" => work[k].exits = {}
<1>1. \A k \in Jobs : Tidy(k)
  BY DEF Control
<1>2. ASSUME NEW k \in Jobs \ {j}
      PROVE  Tidy(k)'
  <2>1. pc'[k] = pc[k] /\ work'[k] = work[k]
    BY DEF JobMove, Leave, Goto, GoesOn, TryLock, CloseAcquire, TypeOK
  <2> QED BY <1>1, <2>1
<1>3. Tidy(j)'
  <2>1. CASE Leave(j)
    <3>1. pc'[j] = (IF j \in Cycles THEN "idle" ELSE "over") /\ work'[j] = NoWork
      BY <2>1 DEF Leave, Goto, TypeOK
    <3>2. pc'[j] \in StepsOf[j] /\ NoWork.todo = {} /\ NoWork.exits = {}
      BY <3>1 DEF Jobs, Cycles, StepsOf, NoWork
    <3> QED BY <3>1, <3>2 DEF Waiting
  <2>2. ASSUME NEW s, NEW w, GoesOn(j, s, w)
        PROVE  Tidy(j)'
    <3>1. pc'[j] = s /\ work'[j] = w
      BY <2>2 DEF GoesOn, TypeOK
    <3> QED BY <2>2, <3>1 DEF GoesOn
  <2>3. CASE TryLock(j) /\ j \in Cycles
    <3>1. work'[j] = work[j] /\ pc'[j] \in {"gate", "idle"} /\ pc[j] = "acquire"
      BY <2>3 DEF TryLock, Goto, TypeOK
    <3>2. pc'[j] \in StepsOf[j] /\ work[j] = NoWork
      BY <1>1, <2>3, <3>1 DEF StepsOf, Cycles, Waiting
    <3> QED BY <3>1, <3>2 DEF NoWork
  <2>4. CASE CloseAcquire /\ j = "close"
    <3>1. work'[j] = work[j] /\ pc'[j] = "list" /\ work[j] = NoWork
      BY <1>1, <2>4 DEF CloseAcquire, Goto, TypeOK, Waiting
    <3>2. pc'[j] \in StepsOf[j] /\ pc'[j] \notin Waiting
      BY <2>4, <3>1 DEF StepsOf, Waiting
    <3> QED BY <3>1, <3>2 DEF NoWork
  <2> QED BY <2>1, <2>2, <2>3, <2>4 DEF JobMove
<1>4. \A k \in Jobs : Tidy(k)'
  BY <1>2, <1>3
<1> QED BY <1>4 DEF Control

\* The lock and the gate see only where the jobs are.
LEMMA JobLock ==
    ASSUME TypeOK, Control, LockHeld, Gate, NEW j \in Jobs, JobMove(j), UNCHANGED clock
    PROVE  LockHeld' /\ GateOrder'
<1>1. \A k \in Jobs \ {j} : pc'[k] = pc[k]
  BY DEF JobMove, Leave, Goto, GoesOn, TryLock, CloseAcquire, TypeOK
<1>2. CASE Working(j) /\ Leave(j)
  <2>1. pc'[j] = IF j \in Cycles THEN "idle" ELSE "over"
    BY <1>2 DEF Leave, Goto, TypeOK
  <2>2. lock' = IF lock = j THEN Free ELSE lock
    BY <1>2 DEF Leave
  <2> QED BY <1>1, <1>2, <2>1, <2>2 DEF LockHeld, Gate, GateOrder, CloseShut,
                                        CloseStarted, clock, Jobs,
                                        Cycles, Free, Working
<1>3. ASSUME Working(j), pc[j] = "gate" => ~CloseStarted, NEW s, NEW w, GoesOn(j, s, w)
      PROVE  LockHeld' /\ GateOrder'
  <2>1. pc'[j] = s /\ s \notin Waiting /\ lock' = lock
    BY <1>3 DEF GoesOn, TypeOK
  <2>2. j \in Cycles => ~CloseShut
    BY <1>3 DEF Gate, GateOrder, CloseShut, Working
  <2> QED BY <1>1, <1>3, <2>1, <2>2 DEF LockHeld, Gate, GateOrder, CloseShut,
                                        CloseStarted, clock, Jobs,
                                        Cycles, Working, Waiting
<1>4. CASE j \in Cycles /\ TryLock(j)
  <2>1. /\ pc[j] = "acquire"
        /\ \/ lock = Free /\ lock' = j /\ pc'[j] = "gate"
           \/ lock' = lock /\ pc'[j] = "idle"
    BY <1>4 DEF TryLock, Goto, TypeOK, LockFree
  <2> QED BY <1>1, <1>4, <2>1 DEF LockHeld, Gate, GateOrder, CloseShut, CloseStarted,
                                  clock, Jobs, Cycles, Free
<1>5. CASE j = "close" /\ CloseAcquire
  <2>1. pc[j] = "wait" /\ lock = Free /\ lock' = "close" /\ pc'[j] = "list"
    BY <1>5 DEF CloseAcquire, Goto, TypeOK, LockFree
  <2> QED BY <1>1, <1>5, <2>1 DEF LockHeld, Gate, GateOrder, CloseShut, CloseStarted,
                                  clock, Jobs, Cycles, Free
<1> QED BY <1>2, <1>3, <1>4, <1>5 DEF JobMove

\* A job that takes a step has started and not ended; one that buys ends with it.
LEMMA JobRuns ==
    ASSUME TypeOK, Control, NEW j \in Jobs, JobMove(j)
    PROVE  /\ pc[j] \notin {"idle", "over"}
           /\ j = "cancel" => pc'[j] \in {"cancel", "over"}
           /\ j = "buy" => pc'[j] = "over"
<1>1. CASE Working(j) /\ Leave(j)
  <2>1. pc'[j] = IF j \in Cycles THEN "idle" ELSE "over"
    BY <1>1 DEF Leave, Goto, TypeOK
  <2> QED BY <1>1, <2>1 DEF Working, Cycles
<1>2. ASSUME Working(j), NEW s, NEW w, GoesOn(j, s, w)
      PROVE  /\ pc[j] \notin {"idle", "over"}
             /\ j = "cancel" => pc'[j] \in {"cancel", "over"}
             /\ j = "buy" => pc'[j] = "over"
  <2>1. pc'[j] = s /\ s \in StepsOf[j] \ Waiting
    BY <1>2 DEF GoesOn, TypeOK
  <2> QED BY <1>2, <2>1 DEF GoesOn, Working, Waiting
<1>3. CASE (j \in Cycles /\ TryLock(j)) \/ (j = "close" /\ CloseAcquire)
  BY <1>3 DEF TryLock, CloseAcquire, Cycles
<1> QED BY <1>1, <1>2, <1>3 DEF JobMove

LEMMA JobHours ==
    ASSUME TypeOK, Control, Hours, NEW j \in Jobs, JobMove(j), UNCHANGED clock
    PROVE  Hours'
<1>1. \A k \in Jobs \ {j} : pc'[k] = pc[k]
  BY DEF JobMove, Leave, Goto, GoesOn, TryLock, CloseAcquire, TypeOK
<1> QED BY <1>1, JobRuns DEF Hours, clock, InSession, Jobs, Cycles

LEMMA OtherControl ==
    ASSUME TypeOK, Control, LockHeld, Gate, Hours,
           StartStep \/ BrokerStep \/ Bell \/ NextDate \/ UNCHANGED vars
    PROVE  Control' /\ LockHeld' /\ Gate' /\ Hours'
<1>0. /\ \A k \in Jobs : pc[k] \in StepsOf[k]
      /\ \A k \in Jobs : pc[k] \in Waiting => work[k] = NoWork
  BY DEF Control
<1>1. ASSUME NEW c \in Cycles, Start(c)
      PROVE  Control' /\ LockHeld' /\ Gate' /\ Hours'
  <2>1. /\ pc' = [pc EXCEPT ![c] = "acquire"] /\ pc[c] = "idle" /\ InSession
        /\ ~CloseStarted /\ UNCHANGED <<today, phase, closeDate, lock, work, closed>>
    BY <1>1 DEF Start, Goto, clock, history
  <2>2. pc'[c] = "acquire" /\ \A k \in Jobs \ {c} : pc'[k] = pc[k]
    BY <2>1 DEF TypeOK, Jobs
  <2>3. "acquire" \in StepsOf[c]
    BY DEF StepsOf, Cycles
  <2>4. Control'
    BY <2>1, <2>2, <2>3 DEF Control, Waiting
  <2>5. pc["close"] \in {"idle", "over"}
    BY <2>1 DEF Gate, GateOrder
  <2>6. LockHeld' /\ Gate' /\ Hours'
    BY <2>1, <2>2, <2>5 DEF LockHeld, Gate, GateOrder, CloseShut, Hours, CloseStarted,
                            InSession, Cycles, Jobs
  <2> QED BY <2>4, <2>6
<1>2. CASE CloseStart
  <2>1. /\ pc' = [pc EXCEPT !["close"] = "wait"] /\ pc["close"] = "idle" /\ phase = "late"
        /\ closeDate' = today /\ pc["cancel"] # "list"
        /\ UNCHANGED <<today, phase, lock, work, closed>>
    BY <1>2 DEF CloseStart, Goto, history
  <2>2. pc'["close"] = "wait" /\ \A k \in Jobs \ {"close"} : pc'[k] = pc[k]
    BY <2>1 DEF TypeOK, Jobs
  <2>3. "wait" \in StepsOf["close"] /\ work["close"] = NoWork
    BY <1>0, <2>1 DEF StepsOf, Jobs, Waiting
  <2>4. Control'
    BY <2>1, <2>2, <2>3 DEF Control, Waiting
  <2>5. LockHeld' /\ Gate' /\ Hours'
    BY <2>1, <2>2 DEF LockHeld, Gate, GateOrder, CloseShut, Hours, CloseStarted,
                      InSession, Cycles, Jobs, TypeOK
  <2> QED BY <2>4, <2>5
<1>3. CASE CancelUnfilled
  <2>1. /\ pc' = [pc EXCEPT !["cancel"] = "list"] /\ pc["cancel"] = "idle" /\ phase = "late"
        /\ pc["close"] = "idle"
        /\ UNCHANGED <<today, phase, closeDate, lock, work, closed>>
    BY <1>3 DEF CancelUnfilled, Goto, history, clock
  <2>2. pc'["cancel"] = "list" /\ \A k \in Jobs \ {"cancel"} : pc'[k] = pc[k]
    BY <2>1 DEF TypeOK, Jobs
  <2>3. "list" \in StepsOf["cancel"] /\ work["cancel"] = NoWork
    BY <1>0, <2>1 DEF StepsOf, Jobs, Waiting
  <2>4. Control'
    BY <2>1, <2>2, <2>3 DEF Control, Waiting
  <2>5. LockHeld' /\ Gate' /\ Hours'
    BY <2>1, <2>2 DEF LockHeld, Gate, GateOrder, CloseShut, Hours, CloseStarted,
                      InSession, Cycles, Jobs
  <2> QED BY <2>4, <2>5
<1>4. CASE MockBuy
  <2>1. /\ pc' = [pc EXCEPT !["buy"] = "submit"] /\ pc["buy"] = "idle" /\ Early
        /\ UNCHANGED <<today, phase, closeDate, lock, closed>>
    BY <1>4 DEF MockBuy, Goto, clock
  <2>2. pc'["buy"] = "submit" /\ \A k \in Jobs \ {"buy"} : pc'[k] = pc[k]
    BY <2>1 DEF TypeOK, Jobs
  <2>3. latest.result \in SUBSET Tickers /\ "buy" \in Jobs
    BY DEF TypeOK, Latest, Jobs
  <2>4. PICK w \in Work : /\ work' = [work EXCEPT !["buy"] = w]
                          /\ w.todo = work["buy"].todo /\ w.exits = work["buy"].exits
    BY <1>4, <2>3, GuardsMove DEF MockBuy
  <2>5. work'["buy"] = w /\ \A k \in Jobs \ {"buy"} : work'[k] = work[k]
    BY <2>4 DEF TypeOK, Jobs
  <2>6. "submit" \in StepsOf["buy"]
    BY DEF StepsOf
  <2>7. Control'
    BY <2>1, <2>2, <2>3, <2>4, <2>5, <2>6 DEF Control, Waiting
  <2>8. LockHeld' /\ Gate' /\ Hours'
    BY <2>1, <2>2 DEF LockHeld, Gate, GateOrder, CloseShut, Hours, CloseStarted,
                      InSession, Cycles, Jobs, Early
  <2> QED BY <2>7, <2>8
<1>5. CASE DryRun \/ BrokerStep \/ UNCHANGED vars
  <2>1. UNCHANGED <<today, phase, closeDate, lock, pc, work, closed>>
    BY <1>5 DEF DryRun, BrokerStep, Fill, Age, vars, clock, history
  <2> QED BY <2>1 DEF Control, LockHeld, Gate, GateOrder, CloseShut, Hours,
                      CloseStarted, InSession
<1>6. CASE Bell
  <2>1. UNCHANGED <<today, closeDate, lock, work, closed>>
    BY <1>6 DEF Bell, history
  <2>2. /\ \A k \in Jobs \ {"buy"} : pc'[k] = pc[k]
        /\ pc'["buy"] = IF phase' = "late" THEN "over" ELSE pc["buy"]
    BY <1>6 DEF Bell, TypeOK, Jobs
  <2>3. "over" \in StepsOf["buy"] /\ "buy" \in Jobs
    BY DEF StepsOf, Jobs
  <2>4. phase' = "late" => pc["buy"] # "submit"
    BY <1>6 DEF Bell
  <2>5. work["buy"] = NoWork \/ phase' # "late"
    BY <1>0, <2>3, <2>4 DEF StepsOf, Waiting
  <2>6. Control'
    BY <2>1, <2>2, <2>3, <2>5 DEF Control, Waiting, NoWork
  <2>7. LockHeld' /\ Gate'
    BY <2>1, <2>2 DEF LockHeld, Gate, GateOrder, CloseShut, CloseStarted, Cycles, Jobs
  <2>8. \A c \in Cycles : pc[c] # "over"
    BY <1>0 DEF Cycles, Jobs, StepsOf
  <2>9. Hours'
    BY <1>6, <2>2, <2>8 DEF Bell, Hours, InSession, AllEnded, Cycles, Jobs
  <2> QED BY <2>6, <2>7, <2>9
<1>7. CASE NextDate
  <2>1. /\ \A k \in Jobs : pc'[k] = "idle" /\ work'[k] = NoWork
        /\ today' = today + 1 /\ phase' = "before"
        /\ UNCHANGED <<closeDate, lock, closed>>
    BY <1>0, <1>7 DEF NextDate, AllEnded, Waiting, history
  <2>2. \A k \in Jobs : "idle" \in StepsOf[k]
    BY DEF Jobs, Cycles, StepsOf
  <2>3. Control'
    BY <2>1, <2>2 DEF Control, NoWork
  <2>4. lock \notin {"watch", "recheck", "close"}
    BY <1>7 DEF NextDate, AllEnded, LockHeld, Jobs, Cycles, Control, StepsOf
  <2>5. LockHeld' /\ Gate' /\ Hours'
    BY <2>1, <2>4 DEF LockHeld, Gate, GateOrder, CloseShut, Hours, CloseStarted,
                      InSession, Cycles, Jobs, TypeOK
  <2> QED BY <2>3, <2>5
<1> QED BY <1>1, <1>2, <1>3, <1>4, <1>5, <1>6, <1>7 DEF StartStep

-----------------------------------------------------------------------------
(* Types                                                                   *)

LEMMA BuyType ==
    ASSUME TypeOK, NEW j \in Jobs, NEW record, BuyAll(j, record)
    PROVE  orders' \in [1..Slots -> Orders \cup {Gone}]
<1>1. \A i \in 1..Slots : orders'[i] \in Orders \cup {Gone}
  BY BuyBooks, BuyIsOrder, WorkFields DEF TypeOK
<1>2. \E f : orders' = [i \in 1..Slots |-> f[i]]
  BY DEF BuyAll, Submitted, SaveRaises, Book
<1> QED BY <1>1, <1>2

LEMMA LatestFields ==
    ASSUME TypeOK
    PROVE  /\ latest \in Latest /\ latest.result \subseteq Tickers
           /\ latest.bought \subseteq Tickers /\ latest.addOn \subseteq Tickers
           /\ latest.retried \subseteq Tickers /\ latest.pending \subseteq Tickers
           /\ latest.partial \subseteq Tickers /\ latest.rounds \in Nat
BY DEF TypeOK, Latest

\* Everything but the clock, the lock and what the jobs do keeps its type.
DataType ==
    /\ latest \in Latest /\ stopped \subseteq Tickers
    /\ orders \in [1..Slots -> Orders \cup {Gone}] /\ held \in [Tickers -> Nat]
    /\ entries \in Nat /\ uncounted \in Nat /\ faults \in 0..MaxFaults
    /\ doubled \in BOOLEAN /\ clean \in BOOLEAN

LEMMA TypeOfData ==
    TypeOK => DataType
BY DEF TypeOK, DataType

LEMMA BuyData ==
    ASSUME TypeOK, NEW j \in Jobs, NEW record, BuyAll(j, record),
           record[TRUE] \in Latest, record[FALSE] \in Latest
    PROVE  DataType' /\ closed' = closed
<1>1. /\ UNCHANGED <<held, clean, closed, stopped>>
      /\ faults' \in 0..MaxFaults /\ doubled' \in BOOLEAN
      /\ IsFiniteSet(work[j].intents)
  BY BuyFrame
<1>2. PICK traded \in SUBSET work[j].intents :
          /\ SubmitCounts(j, traded, {})
          /\ \/ latest' = record[traded # {}]
             \/ /\ latest' = latest
                /\ entries' > entries => uncounted' = uncounted + 1
  BY BuyFrame
<1>3. Cardinality(traded) \in Nat
  BY <1>1, FS_Subset, FS_CardinalityType
<1>4. entries' \in Nat /\ uncounted' \in Nat
  BY <1>2, <1>3 DEF SubmitCounts, TypeOK
<1>5. latest' \in Latest
  BY <1>2 DEF TypeOK
<1> QED BY <1>1, <1>4, <1>5, BuyType, TypeOfData DEF DataType

LEMMA SellData ==
    ASSUME TypeOK, ExitsDiffer, NEW j \in {"watch", "close"},
           j = "watch" => WatchSell, j = "close" => CloseSell
    PROVE  DataType' /\ closed' \in {closed, today}
<1>1. /\ UNCHANGED <<held, doubled, clean, entries, uncounted>> /\ faults' \in 0..MaxFaults
      /\ stopped' \subseteq stopped \cup {e.ticker : e \in work[j].exits}
  BY SellFrame
<1>2. j \in Jobs
  BY DEF Jobs, Cycles
<1>3. stopped' \subseteq Tickers
  BY <1>1, <1>2, WorkFields DEF TypeOK, Exits
<1>4. orders' \in [1..Slots -> Orders \cup {Gone}]
  <2>1. \E out : Sells(j, out)
    BY WatchSells, CloseSells
  <2> QED BY <1>2, <2>1, SellType
<1>5. closed' \in {closed, today}
  BY WatchSells, CloseSells
<1>6. latest' \in Latest
  <2>1. CASE UNCHANGED latest
    BY <2>1 DEF TypeOK
  <2>2. CASE WatchRemembers
    <3> DEFINE of(kinds) == {e.ticker : e \in {x \in work["watch"].exits : x.kind \in kinds}}
    <3>1. \A kinds : of(kinds) \subseteq Tickers
      BY WorkFields DEF Exits, Jobs, Cycles
    <3>2. latest' = [latest EXCEPT !.partial = @ \cup of({"PARTIAL_TAKE_PROFIT"}),
                                   !.pending = @ \cup of(Full)]
      BY <2>2 DEF WatchRemembers
    <3> HIDE DEF of
    <3> QED BY <3>1, <3>2, LatestFields DEF Latest
  <2> QED BY <2>1, <2>2, WatchSells, CloseSells
<1> QED BY <1>1, <1>3, <1>4, <1>5, <1>6, TypeOfData DEF DataType

LEMMA CancelData ==
    ASSUME TypeOK, Control, NEW j \in Jobs, List(j) \/ ListFails(j) \/ Cancel(j) \/ Raise(j)
    PROVE  DataType' /\ closed' = closed
<1>0. /\ \A done \in SUBSET Tickers : CancelsDone(j, done) /\ pc[j] \in {"list", "cancel"}
             => latest' \in Latest
      /\ DataType /\ work[j].done \subseteq Tickers /\ work[j].todo \subseteq 1..Slots
  <2>1. ASSUME NEW done \in SUBSET Tickers, CancelsDone(j, done), pc[j] \in {"list", "cancel"}
        PROVE  latest' \in Latest
    <3>1. UNCHANGED latest \/ Released(done)
      BY <2>1, CancelsDoneMoves
    <3>2. CASE UNCHANGED latest
      BY <3>2 DEF TypeOK
    <3>3. CASE Released(done)
      BY <3>3, LatestFields DEF Released, Latest
    <3> QED BY <3>1, <3>2, <3>3
  <2> QED BY <2>1, TypeOfData, WorkFields
<1>1. CASE List(j)
  BY <1>0, <1>1 DEF List, DataType, broker, db, history
<1>2. CASE ListFails(j)
  <2>1. latest' \in Latest /\ faults' \in 0..MaxFaults
    BY <1>0, <1>2, MaxAssumption DEF ListFails, Fails, TypeOK
  <2>2. clean' \in BOOLEAN
    BY <1>2 DEF ListFails, TypeOK
  <2> QED BY <1>0, <1>2, <2>1, <2>2 DEF ListFails, DataType, broker, db
<1>3. CASE Cancel(j)
  <2>1. PICK i \in work[j].todo : CancelOne(j, i) \/ CancelRaises(j, i)
    BY <1>3 DEF Cancel
  <2>2. CASE CancelOne(j, i)
    <3>1. i \in 1..Slots /\ orders[i].left > 0
      BY <1>0, <2>2 DEF CancelOne, Live
    <3>2. orders[i] \in Orders
      BY <3>1 DEF TypeOK, Gone
    <3>3. orders[i].ticker \in Tickers
      BY <3>2 DEF Orders
    <3>4. work[j].done \cup {orders[i].ticker} \in SUBSET Tickers
      BY <1>0, <3>3
    <3>5. latest' \in Latest
      <4>1. UNCHANGED latest \/ CancelsDone(j, work[j].done \cup {orders[i].ticker})
        BY <2>2 DEF CancelOne
      <4> QED BY <1>0, <1>3, <3>4, <4>1 DEF Cancel, DataType
    <3>6. orders' \in [1..Slots -> Orders \cup {Gone}]
      BY <2>2 DEF CancelOne, TypeOK
    <3> QED BY <1>0, <1>3, <2>2, <3>5, <3>6 DEF CancelOne, Cancel, DataType, db
  <2>3. CASE CancelRaises(j, i)
    <3>1. latest' \in Latest
      <4>1. CASE UNCHANGED latest
        BY <4>1 DEF TypeOK
      <4> QED BY <1>0, <1>3, <2>3, <4>1 DEF CancelRaises, Cancel
    <3>2. faults' \in 0..MaxFaults
      BY <2>3, MaxAssumption DEF CancelRaises, Fails, TypeOK
    <3>3. clean' \in BOOLEAN
      BY <2>3 DEF CancelRaises, TypeOK
    <3> QED BY <1>0, <1>3, <2>3, <3>1, <3>2, <3>3 DEF CancelRaises, Cancel, DataType, db
  <2> QED BY <2>1, <2>2, <2>3
<1>4. CASE Raise(j)
  BY <1>0, <1>4 DEF Raise, DataType, broker, db, history
<1> QED BY <1>1, <1>2, <1>3, <1>4 DEF List, ListFails, Cancel, Raise, history

LEMMA RecordType ==
    ASSUME NEW l \in Latest, NEW n \in Nat, NEW b \in SUBSET Tickers,
           NEW a \in SUBSET Tickers
    PROVE  [l EXCEPT !.rounds = n, !.bought = b, !.addOn = a] \in Latest
BY DEF Latest

LEMMA JobData ==
    ASSUME TypeOK, Control, ExitsDiffer, NEW j \in Jobs, JobStep(j)
    PROVE  DataType' /\ closed' \in {closed, today}
<1>0. DataType
  BY TypeOfData
<1>1. ASSUME j \in Cycles, CycleStep(j)
      PROVE  DataType' /\ closed' \in {closed, today}
  <2>1. CASE TryLock(j)
    BY <1>0, <2>1 DEF TryLock, DataType, broker, db, history
  <2>2. CASE SecondLook(j)
    BY <1>0, <2>2 DEF SecondLook, DataType, broker, db, history
  <2>3. CASE Screen(j)
    BY <1>0, <2>3, LatestFields DEF Screen, DataType, broker, db, history, Latest
  <2>4. CASE Filter(j)
    <3>1. PICK intents \in SUBSET Tickers : Guards(j, intents)
      BY <2>4 DEF Filter, Eligible, TypeOK, Latest
    <3>2. faults' \in 0..MaxFaults
      BY <3>1, GuardsMove
    <3> QED BY <1>0, <2>4, <3>2 DEF Filter, DataType, broker, db
  <2>5. CASE Submit(j)
    <3>1. CycleRecord(j, TRUE) \in Latest /\ CycleRecord(j, FALSE) \in Latest
      <4>1. CycleRecord(j, FALSE) \in Latest
        BY LatestFields DEF CycleRecord
      <4>2. CycleRecord(j, TRUE) \in Latest
        <5> DEFINE n == latest.rounds + 1
                   b == latest.bought \cup work[j].intents
                   a == latest.addOn \cup (IF j = "recheck"
                           THEN work[j].intents \cap work[j].held ELSE {})
        <5>1. CycleRecord(j, TRUE) =
                 [latest EXCEPT !.rounds = n, !.bought = b, !.addOn = a]
          BY DEF CycleRecord
        <5>2. latest \in Latest /\ n \in Nat /\ b \in SUBSET Tickers /\ a \in SUBSET Tickers
          BY LatestFields, WorkFields
        <5> HIDE DEF n, b, a
        <5>3. [latest EXCEPT !.rounds = n, !.bought = b, !.addOn = a] \in Latest
          BY <5>2, RecordType
        <5> QED BY <5>1, <5>3
      <4> QED BY <4>1, <4>2
    <3> QED BY <2>5, <3>1, BuyData DEF Submit
  <2> QED BY <1>1, <2>1, <2>2, <2>3, <2>4, <2>5 DEF CycleStep
<1>2. CASE WatchPoll
  <2>1. latest' = [latest EXCEPT !.pending = StillPending] /\ StillPending \subseteq Tickers
    BY <1>2, LatestFields DEF WatchPoll, StillPending
  <2>2. latest' \in Latest
    BY <2>1, LatestFields DEF Latest
  <2> QED BY <1>0, <1>2, <2>2 DEF WatchPoll, DataType, broker, db, history
<1>3. CASE WatchSell
  BY <1>3, SellData
<1>4. CASE CloseAcquire
  BY <1>0, <1>4 DEF CloseAcquire, DataType, broker, db
<1>5. CASE ClosePoll
  BY <1>0, <1>5 DEF ClosePoll, DataType, broker, db, history
<1>6. CASE CloseSell
  BY <1>6, SellData
<1>7. CASE j = "buy" /\ MockBuySubmit
  <2> DEFINE record == [latest EXCEPT !.bought = @ \cup work["buy"].intents]
  <2>1. record \in Latest
    BY <1>7, LatestFields, WorkFields DEF Latest
  <2>2. BuyAll("buy", [traded \in BOOLEAN |-> record])
    BY <1>7 DEF MockBuySubmit
  <2> HIDE DEF record
  <2> QED BY <1>7, <2>1, <2>2, BuyData
<1>8. CASE List(j) \/ ListFails(j) \/ Cancel(j) \/ Raise(j)
  BY <1>8, CancelData
<1> QED BY <1>1, <1>2, <1>3, <1>4, <1>5, <1>6, <1>7, <1>8 DEF JobStep

LEMMA OtherData ==
    ASSUME TypeOK, StartStep \/ BrokerStep \/ Bell \/ NextDate \/ UNCHANGED vars
    PROVE  DataType' /\ closed' = closed
<1>0. DataType
  BY TypeOfData
<1>1. CASE (\E c \in Cycles : Start(c)) \/ CloseStart \/ CancelUnfilled \/ Bell
           \/ UNCHANGED vars
  BY <1>0, <1>1 DEF Start, CloseStart, CancelUnfilled, Bell, DataType, broker, db,
                    history,
                    vars
<1>2. CASE DryRun
  BY <1>0, <1>2, LatestFields DEF DryRun, DataType, broker, db, history, Latest
<1>3. CASE MockBuy
  <2>1. latest.result \in SUBSET Tickers /\ "buy" \in Jobs
    BY LatestFields DEF Jobs
  <2>2. faults' \in 0..MaxFaults
    BY <1>3, <2>1, GuardsMove DEF MockBuy
  <2> QED BY <1>0, <1>3, <2>2 DEF MockBuy, DataType, broker, db
<1>4. ASSUME NEW i \in 1..Slots, Fill(i)
      PROVE  DataType' /\ closed' = closed
  <2>1. orders[i] \in Orders
    BY <1>4 DEF Fill, Live, TypeOK, Gone
  <2>2. Rest(orders[i]) \in Orders \cup {Gone}
    <3>1. orders[i].left \in Nat \ {0}
      BY <2>1 DEF Orders
    <3>2. CASE orders[i].left # 1
      <4>1. [orders[i] EXCEPT !.left = orders[i].left - 1] \in Orders
        <5>1. PICK o \in Orders, n \in Nat \ {0} : o = orders[i] /\ n = orders[i].left - 1
          BY <2>1, <3>1, <3>2
        <5>2. [o EXCEPT !.left = n] \in Orders
          BY DEF Orders
        <5> QED BY <5>1, <5>2
      <4> QED BY <3>2, <4>1 DEF Rest
    <3>3. CASE orders[i].left = 1
      BY <3>3 DEF Rest
    <3> QED BY <3>2, <3>3
  <2>3. orders' \in [1..Slots -> Orders \cup {Gone}]
    BY <1>4, <2>2 DEF Fill, TypeOK
  <2>4. orders[i].ticker \in Tickers
    BY <2>1 DEF Orders
  <2>5. /\ held' = [held EXCEPT ![orders[i].ticker] =
                       IF IsBuy(orders[i]) THEN @ + 1 ELSE @ - 1]
        /\ ~IsBuy(orders[i]) => held[orders[i].ticker] > 0
    BY <1>4 DEF Fill
  <2>6. held' \in [Tickers -> Nat]
    BY <2>4, <2>5 DEF TypeOK
  <2> QED BY <1>0, <1>4, <2>3, <2>6 DEF Fill, DataType, db, history
<1>5. ASSUME NEW i \in 1..Slots, Age(i)
      PROVE  DataType' /\ closed' = closed
  <2>1. orders[i] \in Orders
    BY <1>5 DEF Age, Live, TypeOK, Gone
  <2>2. orders' = [orders EXCEPT ![i] = [orders[i] EXCEPT !.stale = TRUE]]
    BY <1>5 DEF Age, TypeOK
  <2>3. [orders[i] EXCEPT !.stale = TRUE] \in Orders
    BY <2>1 DEF Orders
  <2>4. orders' \in [1..Slots -> Orders \cup {Gone}]
    BY <2>2, <2>3 DEF TypeOK
  <2> QED BY <1>0, <1>5, <2>4 DEF Age, DataType, db, history
<1>6. CASE NextDate
  BY <1>0, <1>6 DEF NextDate, DataType, history
<1> QED BY <1>1, <1>2, <1>3, <1>4, <1>5, <1>6 DEF StartStep, BrokerStep

\* A job sells one exit of a ticker at a time, and only exits.
LEMMA JobExits ==
    ASSUME TypeOK, ExitsDiffer, NEW j \in Jobs, JobMove(j)
    PROVE  ExitsDiffer'
<1> SUFFICES ASSUME NEW k \in Jobs
             PROVE  OneEach(work'[k].exits)
  BY DEF ExitsDiffer, OneEach
<1>1. CASE work'[k] = work[k]
  BY <1>1 DEF ExitsDiffer, OneEach
<1>2. CASE work'[k] = NoWork
  BY <1>2 DEF NoWork, OneEach
<1>3. ASSUME NEW s, NEW w, GoesOn(j, s, w), work'[k] # work[k]
      PROVE  OneEach(work'[k].exits)
  <2>1. work'[k] = w
    BY <1>3 DEF GoesOn, TypeOK
  <2> QED BY <1>3, <2>1 DEF GoesOn
<1> QED BY <1>1, <1>2, <1>3 DEF JobMove, Leave, TryLock, CloseAcquire, TypeOK

LEMMA OtherExits ==
    ASSUME TypeOK, Control, ExitsDiffer,
           StartStep \/ BrokerStep \/ Bell \/ NextDate \/ UNCHANGED vars
    PROVE  ExitsDiffer'
<1>1. CASE UNCHANGED work
  BY <1>1 DEF ExitsDiffer
<1>2. CASE MockBuy
  <2>1. latest.result \in SUBSET Tickers /\ "buy" \in Jobs
    BY LatestFields DEF Jobs
  <2>2. PICK w \in Work : work' = [work EXCEPT !["buy"] = w] /\ w.exits = work["buy"].exits
    BY <1>2, <2>1, GuardsMove DEF MockBuy
  <2>3. \A k \in Jobs : work'[k].exits = work[k].exits
    BY <2>2 DEF TypeOK
  <2> QED BY <2>3 DEF ExitsDiffer
<1> QED BY <1>1, <1>2 DEF StartStep, Start, CloseStart, DryRun, CancelUnfilled,
                          BrokerStep,
                          Fill, Age, Bell, NextDate, vars

\* A step of the process while it runs.
RunStep ==
    \/ \E j \in Jobs : JobStep(j)
    \/ StartStep \/ BrokerStep \/ Bell \/ NextDate \/ UNCHANGED vars

\* The invariant that tells where each job is, and what of.
Base == Order /\ ExitsDiffer

LEMMA BaseKept ==
    ASSUME Base, RunStep
    PROVE  Base'
<1> USE DEF Base, Order
<1>1. ASSUME NEW j \in Jobs, JobStep(j)
      PROVE  Base'
  <2>1. JobMove(j) /\ UNCHANGED clock
    BY <1>1, JobMoves
  <2>2. Control' /\ LockHeld' /\ Hours' /\ ExitsDiffer'
    BY <2>1, JobControl, JobLock, JobHours, JobExits
  <2>3. DataType' /\ closed' \in {closed, today}
    BY <1>1, JobData
  <2>4. pc' \in [Jobs -> Steps] /\ work' \in [Jobs -> Work]
        /\ lock' \in {"watch", "recheck", "close", Free}
    BY <2>1, WorkFields DEF JobMove, Leave, Goto, GoesOn, TryLock, CloseAcquire, TypeOK,
                            StepsOf, Steps, Jobs, Cycles
  <2>5. TypeOK'
    BY <2>1, <2>3, <2>4 DEF TypeOK, DataType, clock
  <2>6. Gate'
    BY <2>1, <2>3, JobLock DEF Gate, clock, TypeOK
  <2> QED BY <2>2, <2>5, <2>6
<1>2. CASE StartStep \/ BrokerStep \/ Bell \/ NextDate \/ UNCHANGED vars
  <2>1. Control' /\ LockHeld' /\ Gate' /\ Hours' /\ ExitsDiffer'
    BY <1>2, OtherControl, OtherExits
  <2>2. DataType' /\ closed' = closed
    BY <1>2, OtherData
  <2>3. pc' \in [Jobs -> Steps] /\ work' \in [Jobs -> Work]
    <3>1. pc' \in [Jobs -> Steps]
      BY <1>2 DEF StartStep, Start, CloseStart, DryRun, MockBuy, CancelUnfilled,
                  BrokerStep,
                  Fill, Age, Bell, NextDate, vars, Goto, TypeOK, Steps
    <3>2. CASE UNCHANGED work
      BY <3>1, <3>2 DEF TypeOK
    <3>3. CASE MockBuy
      <4>1. latest.result \in SUBSET Tickers /\ "buy" \in Jobs
        BY LatestFields DEF Jobs
      <4>2. PICK w \in Work : work' = [work EXCEPT !["buy"] = w]
        BY <3>3, <4>1, GuardsMove DEF MockBuy
      <4> QED BY <3>1, <4>2 DEF TypeOK
    <3> QED BY <1>2, <3>1, <3>2, <3>3 DEF StartStep, Start, CloseStart, DryRun,
                  CancelUnfilled, BrokerStep, Fill, Age, Bell, NextDate, vars
  <2>4. /\ today' \in 1..MaxDate /\ closeDate' \in 0..MaxDate
        /\ phase' \in {"before", "open", "late", "after"}
        /\ lock' \in {"watch", "recheck", "close", Free}
    BY <1>2, MaxAssumption
       DEF StartStep, Start, CloseStart, DryRun, MockBuy, CancelUnfilled, BrokerStep,
           Fill, Age, Bell, NextDate, vars, clock, TypeOK
  <2>5. TypeOK'
    BY <2>2, <2>3, <2>4 DEF TypeOK, DataType
  <2> QED BY <2>1, <2>5
<1> QED BY <1>1, <1>2 DEF RunStep

-----------------------------------------------------------------------------
(* One entry in the book                                                   *)

\* What a job has in hand is its own business.
LEMMA OwnWork ==
    ASSUME Base, NEW j \in Jobs, JobStep(j), NEW k \in Jobs \ {j}
    PROVE  pc'[k] = pc[k] /\ work'[k] = work[k]
<1>1. JobMove(j)
  BY JobMoves DEF Base, Order
<1> QED BY <1>1 DEF JobMove, Leave, Goto, GoesOn, TryLock, CloseAcquire, Base, Order,
                    TypeOK

\* Where the requests and the cancelled tickers of a job come from.
LEMMA CancelWork ==
    ASSUME TypeOK, Control, NEW j \in Jobs, pc[j] \in {"list", "cancel"},
           NEW done \in SUBSET Tickers, CancelsDone(j, done)
    PROVE  work'[j].todo = {} /\ work'[j].done \subseteq done
<1>1. CASE Leave(j)
  BY <1>1 DEF Leave, NoWork, TypeOK
<1>2. ASSUME NEW s, NEW w, w.done = done, s # "cancel", GoesOn(j, s, w)
      PROVE  work'[j].todo = {} /\ work'[j].done \subseteq done
  BY <1>2 DEF GoesOn, TypeOK
<1> QED BY <1>1, <1>2, CancelsDoneMoves

JobWork(j) ==
    /\ \/ work'[j].todo \subseteq work[j].todo
       \/ List(j) /\ work'[j].todo = Requests(j)
    /\ \/ work'[j].done \subseteq work[j].done
       \/ \E i \in work[j].todo :
              CancelOne(j, i) /\ work'[j].done \subseteq work[j].done \cup {orders[i].ticker}

LEMMA JobWorks ==
    ASSUME Base, NEW j \in Jobs, JobStep(j)
    PROVE  JobWork(j)
<1> USE DEF Base, Order
<1>0. work[j] \in Work /\ work[j].done \subseteq Tickers /\ work[j].todo \subseteq 1..Slots
  BY WorkFields
<1>1. CASE work'[j] = work[j] \/ work'[j] = NoWork
  BY <1>1 DEF JobWork, NoWork
<1>2. ASSUME j \in Cycles, CycleStep(j)
      PROVE  JobWork(j)
  <2>1. CASE TryLock(j) \/ SecondLook(j)
    BY <1>1, <2>1 DEF TryLock, SecondLook, Leave, TypeOK
  <2>2. CASE Screen(j)
    <3>1. work'[j] = [work[j] EXCEPT !.held = Holdings]
      BY <2>2 DEF Screen, TypeOK
    <3> QED BY <1>0, <3>1 DEF JobWork, Work
  <2>3. CASE Filter(j)
    <3>1. PICK intents \in SUBSET Tickers : Guards(j, intents)
      BY <2>3 DEF Filter, Eligible, TypeOK, Latest
    <3>2. PICK w \in Work : /\ work' = [work EXCEPT ![j] = w]
                            /\ w.todo = work[j].todo /\ w.done = work[j].done
      BY <3>1, GuardsMove
    <3>3. work'[j] = w
      BY <3>2 DEF TypeOK
    <3> QED BY <3>2, <3>3 DEF JobWork
  <2>4. CASE Submit(j)
    <3>1. Leave(j)
      BY <2>4, BuyFrame DEF Submit
    <3> QED BY <1>1, <3>1 DEF Leave, TypeOK
  <2> QED BY <1>2, <2>1, <2>2, <2>3, <2>4 DEF CycleStep
<1>3. CASE j = "watch" /\ WatchPoll
  <2>1. PICK exits \in SUBSET Exits : work' = [work EXCEPT !["watch"].exits = exits]
    BY <1>3, WatchPolls
  <2>2. work'[j] = [work[j] EXCEPT !.exits = exits]
    BY <1>3, <2>1 DEF TypeOK
  <2> QED BY <1>0, <2>2 DEF JobWork, Work
<1>4. CASE j = "watch" /\ WatchSell
  BY <1>1, <1>4, WatchSells DEF WatchRemembers, Leave, TypeOK
<1>5. CASE j = "close" /\ CloseAcquire
  BY <1>1, <1>5 DEF CloseAcquire
<1>6. CASE j = "close" /\ ClosePoll
  <2>1. work'[j].todo = {} /\ work'[j].done = {}
    BY <1>6 DEF ClosePoll, TypeOK, NoWork
  <2> QED BY <2>1 DEF JobWork
<1>7. CASE j = "close" /\ CloseSell
  BY <1>1, <1>7, CloseSells DEF Leave, TypeOK
<1>8. CASE j = "buy" /\ MockBuySubmit
  <2>1. Leave(j)
    BY <1>8, BuyFrame DEF MockBuySubmit
  <2> QED BY <1>1, <2>1 DEF Leave, TypeOK
<1>9. CASE List(j)
  <2>1. CASE Requests(j) = {}
    BY <1>9, <2>1, CancelWork DEF List, JobWork
  <2>2. CASE Requests(j) # {}
    <3>1. work'[j] = [work[j] EXCEPT !.todo = Requests(j)]
      BY <1>9, <2>2 DEF List, TypeOK
    <3> QED BY <1>0, <1>9, <3>1 DEF JobWork, Work
  <2> QED BY <2>1, <2>2
<1>10. CASE ListFails(j)
  BY <1>10, CancelWork DEF ListFails, JobWork
<1>11. CASE Cancel(j)
  <2>1. PICK i \in work[j].todo : CancelOne(j, i) \/ CancelRaises(j, i)
    BY <1>11 DEF Cancel
  <2>2. pc[j] = "cancel"
    BY <1>11 DEF Cancel
  <2>3. CASE CancelOne(j, i)
    <3> DEFINE done == work[j].done \cup {orders[i].ticker}
    <3>1. orders[i] \in Orders
      BY <1>0, <2>1, <2>3 DEF CancelOne, Live, TypeOK, Gone
    <3>2. done \in SUBSET Tickers
      BY <1>0, <3>1 DEF Orders
    <3>3. CASE work[j].todo = {i}
      <4>1. CancelsDone(j, done)
        BY <2>3, <3>3 DEF CancelOne
      <4> HIDE DEF done
      <4>2. work'[j].todo = {} /\ work'[j].done \subseteq done
        BY <2>2, <3>2, <4>1, CancelWork
      <4> QED BY <2>1, <2>3, <4>2 DEF JobWork, done
    <3>4. CASE work[j].todo # {i}
      <4>1. work'[j] = [work[j] EXCEPT !.todo = @ \ {i}, !.done = done]
        BY <2>3, <3>4 DEF CancelOne, TypeOK
      <4>2. work'[j].todo \subseteq work[j].todo /\ work'[j].done = done
        BY <1>0, <4>1 DEF Work
      <4> QED BY <2>1, <2>3, <4>2 DEF JobWork
    <3> QED BY <3>3, <3>4
  <2>4. CASE CancelRaises(j, i)
    <3>1. CASE Leave(j)
      BY <1>1, <3>1 DEF Leave, TypeOK
    <3>2. CASE CancelsDone(j, {})
      BY <2>2, <3>2, CancelWork DEF JobWork
    <3> QED BY <2>4, <3>1, <3>2 DEF CancelRaises
  <2> QED BY <2>1, <2>3, <2>4
<1>12. CASE Raise(j)
  BY <1>1, <1>12 DEF Raise, Leave, TypeOK
<1> QED BY <1>2, <1>3, <1>4, <1>5, <1>6, <1>7, <1>8, <1>9, <1>10, <1>11, <1>12 DEF JobStep

LEMMA CancelLeads ==
    ASSUME TypeOK, Control, NEW j \in Jobs, pc[j] \in {"list", "cancel"},
           NEW done \in SUBSET Tickers, CancelsDone(j, done)
    PROVE  pc'[j] \in {"idle", "over", "screen", "filter", "poll"}
<1>1. CASE Leave(j)
  BY <1>1 DEF Leave, Goto, TypeOK
<1>2. ASSUME NEW s \in {"screen", "filter", "poll"}, NEW w, GoesOn(j, s, w)
      PROVE  pc'[j] \in {"idle", "over", "screen", "filter", "poll"}
  BY <1>2 DEF GoesOn, TypeOK
<1> QED BY <1>1, <1>2, CancelsDoneMoves

LEMMA CancelLeadsOn ==
    ASSUME TypeOK, Control, NEW j \in Jobs, List(j) \/ ListFails(j) \/ Cancel(j) \/ Raise(j)
    PROVE  pc'[j] \in {"idle", "over", "screen", "filter", "poll", "cancel"}
<1>1. CASE List(j)
  <2>1. CASE Requests(j) = {}
    BY <1>1, <2>1, CancelLeads DEF List
  <2> QED BY <1>1, <2>1 DEF List, Goto, TypeOK
<1>2. CASE ListFails(j)
  BY <1>2, CancelLeads DEF ListFails
<1>3. CASE Cancel(j)
  <2>1. PICK i \in work[j].todo : CancelOne(j, i) \/ CancelRaises(j, i)
    BY <1>3 DEF Cancel
  <2>2. pc[j] = "cancel"
    BY <1>3 DEF Cancel
  <2>3. CASE CancelOne(j, i)
    <3> DEFINE done == work[j].done \cup {orders[i].ticker}
    <3>1. orders[i] \in Orders
      BY <2>1, <2>3, WorkFields DEF CancelOne, Live, TypeOK, Gone
    <3>2. done \in SUBSET Tickers
      BY <3>1, WorkFields DEF Orders
    <3>3. CASE work[j].todo = {i}
      <4>1. CancelsDone(j, done)
        BY <2>3, <3>3 DEF CancelOne
      <4> QED BY <2>2, <3>2, <4>1, CancelLeads
    <3>4. CASE work[j].todo # {i}
      BY <2>2, <2>3, <3>4 DEF CancelOne
    <3> QED BY <3>3, <3>4
  <2>4. CASE CancelRaises(j, i)
    <3>1. CASE Leave(j)
      BY <3>1 DEF Leave, Goto, TypeOK
    <3> QED BY <2>2, <2>4, <3>1, CancelLeads DEF CancelRaises
  <2> QED BY <2>1, <2>3, <2>4
<1>4. CASE Raise(j)
  BY <1>4 DEF Raise, Leave, Goto, TypeOK
<1> QED BY <1>1, <1>2, <1>3, <1>4

\* A cycle that is about to buy has just filtered.
LEMMA JobFilters ==
    ASSUME Base, NEW c \in Cycles, JobStep(c), pc'[c] = "submit"
    PROVE  Filter(c)
<1> USE DEF Base, Order
<1>0. c \in Jobs /\ c \notin {"close", "buy"}
  BY DEF Cycles, Jobs
<1>1. ~(TryLock(c) \/ SecondLook(c) \/ Screen(c))
  BY <1>0 DEF TryLock, SecondLook, Screen, Leave, Goto, FirstStep, TypeOK
<1>2. ~Submit(c)
  <2>1. Submit(c) => Leave(c)
    BY <1>0, BuyFrame DEF Submit
  <2> QED BY <1>0, <2>1 DEF Leave, Goto, TypeOK
<1>3. ~(c = "watch" /\ (WatchPoll \/ WatchSell))
  BY <1>0, WatchSells DEF WatchPoll, WatchRemembers, Leave, Goto, TypeOK
<1>4. ~(List(c) \/ ListFails(c) \/ Cancel(c) \/ Raise(c))
  BY <1>0, CancelLeadsOn
<1> QED BY <1>0, <1>1, <1>2, <1>3, <1>4 DEF JobStep, CycleStep

-----------------------------------------------------------------------------
(* Only a purchase adds a buy order to the book                            *)

NoNewBuys ==
    \A i \in 1..Slots : Live(i)' /\ IsBuy(orders'[i]) =>
        Live(i) /\ IsBuy(orders[i]) /\ orders'[i].ticker = orders[i].ticker

LEMMA JobBuys ==
    ASSUME Base, NEW j \in Jobs, JobStep(j)
    PROVE  NoNewBuys \/ (j \in Cycles /\ Submit(j)) \/ (j = "buy" /\ MockBuySubmit)
<1> USE DEF Base, Order
<1>1. CASE UNCHANGED orders
  BY <1>1 DEF NoNewBuys, Live
<1>2. ASSUME NEW k \in Jobs, NEW out, Sells(k, out)
      PROVE  NoNewBuys
  <2>1. ASSUME NEW i \in 1..Slots, orders'[i] # orders[i]
        PROVE  ~IsBuy(orders'[i])
    <3>1. PICK e \in Sellables(k) : IsSaleOf(orders'[i], e)
      BY <1>2, <2>1, SellBooks
    <3>2. e \in Exits
      BY WorkFields DEF Sellables
    <3> QED BY <3>1, <3>2, SaleFields
  <2> QED BY <2>1 DEF NoNewBuys, Live
<1>3. ASSUME NEW i, CancelOne(j, i)
      PROVE  NoNewBuys
  <2>1. orders' = [orders EXCEPT ![i] = Gone]
    BY <1>3 DEF CancelOne
  <2>2. \A k \in 1..Slots : orders'[k] = orders[k] \/ orders'[k] = Gone
    BY <2>1 DEF TypeOK
  <2> QED BY <2>2 DEF NoNewBuys, Live, Gone
<1>4. CASE Cancel(j)
  BY <1>1, <1>3, <1>4 DEF Cancel, CancelRaises
<1>5. CASE j = "watch" /\ WatchSell
  BY <1>2, <1>5, WatchSells
<1>6. CASE j = "close" /\ CloseSell
  BY <1>2, <1>6, CloseSells
<1>7. CASE \/ List(j) \/ ListFails(j) \/ Raise(j) \/ WatchPoll \/ CloseAcquire \/ ClosePoll
           \/ \E c \in Cycles : TryLock(c) \/ SecondLook(c) \/ Screen(c) \/ Filter(c)
  BY <1>1, <1>7 DEF List, ListFails, Raise, WatchPoll, CloseAcquire, ClosePoll, TryLock,
                    SecondLook, Screen, Filter, broker
<1> QED BY <1>4, <1>5, <1>6, <1>7 DEF JobStep, CycleStep

\* A number that a job has read keeps its order until it is cancelled.
LEMMA JobSlots ==
    ASSUME Base, NEW j \in Jobs, JobStep(j), NEW i \in (1..Slots) \ Unused
    PROVE  orders'[i] \in {orders[i], Gone}
<1> USE DEF Base, Order
<1>1. CASE UNCHANGED orders
  BY <1>1
<1>2. ASSUME NEW k \in Jobs, NEW out, Sells(k, out)
      PROVE  orders'[i] \in {orders[i], Gone}
  BY <1>2, SellBooks
<1>3. ASSUME NEW k \in Jobs, NEW record, BuyAll(k, record)
      PROVE  orders'[i] \in {orders[i], Gone}
  BY <1>3, BuyBooks
<1>4. CASE Cancel(j)
  BY <1>1, <1>4 DEF Cancel, CancelOne, CancelRaises, TypeOK
<1>5. CASE (j = "watch" /\ WatchSell) \/ (j = "close" /\ CloseSell)
  BY <1>2, <1>5, WatchSells, CloseSells
<1>6. CASE (j \in Cycles /\ Submit(j)) \/ (j = "buy" /\ MockBuySubmit)
  BY <1>3, <1>6 DEF Submit, MockBuySubmit
<1>7. CASE \/ List(j) \/ ListFails(j) \/ Raise(j) \/ WatchPoll \/ CloseAcquire \/ ClosePoll
           \/ \E c \in Cycles : TryLock(c) \/ SecondLook(c) \/ Screen(c) \/ Filter(c)
  BY <1>1, <1>7 DEF List, ListFails, Raise, WatchPoll, CloseAcquire, ClosePoll, TryLock,
                    SecondLook, Screen, Filter, broker
<1> QED BY <1>4, <1>5, <1>6, <1>7 DEF JobStep, CycleStep

\* The broker and the clock add no order and turn none into another.
NoNewOrders ==
    \A i \in 1..Slots : Live(i)' =>
        /\ Live(i)
        /\ orders'[i].side = orders[i].side /\ orders'[i].ticker = orders[i].ticker
        /\ orders'[i].known = orders[i].known

LEMMA OtherOrders ==
    ASSUME TypeOK, StartStep \/ BrokerStep \/ Bell \/ NextDate \/ UNCHANGED vars
    PROVE  NoNewOrders
<1>1. CASE UNCHANGED orders
  BY <1>1 DEF NoNewOrders, Live
<1>2. ASSUME NEW i \in 1..Slots, Fill(i)
      PROVE  NoNewOrders
  <2>1. orders' = [orders EXCEPT ![i] = Rest(orders[i])] /\ Live(i)
    BY <1>2 DEF Fill
  <2>2. orders[i] \in Orders
    BY <2>1 DEF Live, TypeOK, Gone
  <2>3. \/ Rest(orders[i]) = Gone
        \/ /\ Rest(orders[i]).side = orders[i].side
           /\ Rest(orders[i]).ticker = orders[i].ticker
           /\ Rest(orders[i]).known = orders[i].known
    BY <2>2 DEF Rest, Orders
  <2>4. \A k \in 1..Slots : orders'[k] = IF k = i THEN Rest(orders[i]) ELSE orders[k]
    BY <2>1 DEF TypeOK
  <2> QED BY <2>1, <2>3, <2>4 DEF NoNewOrders, Live, Gone
<1>3. ASSUME NEW i \in 1..Slots, Age(i)
      PROVE  NoNewOrders
  <2>1. orders' = [orders EXCEPT ![i] = [orders[i] EXCEPT !.stale = TRUE]] /\ Live(i)
    BY <1>3 DEF Age, TypeOK
  <2>2. orders[i] \in Orders
    BY <2>1 DEF Live, TypeOK, Gone
  <2>3. LET o == [orders[i] EXCEPT !.stale = TRUE] IN
        /\ o.side = orders[i].side /\ o.ticker = orders[i].ticker
        /\ o.known = orders[i].known
    BY <2>2 DEF Orders
  <2>4. \A k \in 1..Slots : orders'[k] = IF k = i THEN [orders[i] EXCEPT !.stale = TRUE]
                                                  ELSE orders[k]
    BY <2>1 DEF TypeOK
  <2> QED BY <2>1, <2>3, <2>4 DEF NoNewOrders, Live
<1>4. CASE NextDate
  BY <1>4 DEF NextDate, NoNewOrders, Live, Gone
<1> QED BY <1>1, <1>2, <1>3, <1>4 DEF StartStep, Start, CloseStart, DryRun, MockBuy,
                                      CancelUnfilled, BrokerStep, Bell, vars, broker

LEMMA SamePurchases ==
    ASSUME NoNewBuys, NEW t
    PROVE  OrdersOf(t, BuySide)' \subseteq OrdersOf(t, BuySide)
BY DEF NoNewBuys, OrdersOf, LiveOrders, Live, IsBuy, BuySide

LEMMA JobEmptyBefore ==
    ASSUME Base, NEW j \in Jobs, JobStep(j)
    PROVE  EmptyBefore'
<1> USE DEF Base, Order
<1>1. JobMove(j) /\ UNCHANGED clock
  BY JobMoves
<1>2. phase = "before" => j = "buy" /\ pc'["buy"] = "over"
  BY <1>1, JobRuns DEF Hours, InSession, Jobs, Cycles
<1> QED BY <1>1, <1>2 DEF EmptyBefore, clock

LEMMA JobCancels ==
    ASSUME Base, Entries, NEW j \in Jobs, JobStep(j)
    PROVE  CancelsBuys'
<1> SUFFICES ASSUME NEW c \in Cycles, NEW i \in work'[c].todo, Live(i)'
             PROVE  IsBuy(orders'[i])
  BY DEF CancelsBuys
<1>1. c \in Jobs
  BY DEF Jobs
<1>2. CASE c = j /\ List(j) /\ work'[j].todo = Requests(j)
  BY <1>2 DEF List, Requests, broker
<1>3. CASE i \in work[c].todo
  <2>1. i \in (1..Slots) \ Unused
    BY <1>1, <1>3, WorkFields DEF Unused, Base, Order
  <2>2. orders'[i] = orders[i]
    BY <2>1, JobSlots DEF Live, Gone
  <2>3. IsBuy(orders[i])
    BY <1>3, <2>2 DEF Entries, CancelsBuys, Live
  <2> QED BY <2>2, <2>3
<1> QED BY <1>1, <1>2, <1>3, OwnWork, JobWorks DEF JobWork

\* No job but the one that buys has anything of the cycles in hand.
LEMMA BuysAlone ==
    ASSUME Base, NEW j \in Jobs, NEW record, BuyAll(j, record), JobStep(j), ~doubled',
           j \in Cycles \/ j = "buy"
    PROVE  /\ \A c \in Cycles : work'[c] = NoWork /\ pc'[c] # "submit"
           /\ j = "buy" => phase = "before"
<1> USE DEF Base, Order
<1>1. /\ pc[j] = "submit" /\ Leave(j) /\ (j = "buy" /\ phase = "open" => doubled')
  BY BuyFrame
<1>2. j = "buy" => phase = "before"
  BY <1>1 DEF Hours, TypeOK
<1>3. \A c \in Cycles \ {j} : pc[c] \in {"idle", "acquire"}
  BY <1>1, <1>2 DEF LockHeld, Hours, InSession
<1>4. \A c \in Cycles \ {j} : work'[c] = NoWork /\ pc'[c] # "submit"
  BY <1>3, OwnWork DEF Control, Waiting, Jobs
<1>5. j \in Cycles => work'[j] = NoWork /\ pc'[j] # "submit"
  BY <1>1 DEF Leave, Goto, TypeOK
<1> QED BY <1>2, <1>4, <1>5

LEMMA BuyEntries ==
    ASSUME Base, Entries, NEW j \in Jobs, NEW record, BuyAll(j, record), JobStep(j),
           j \in Cycles \/ j = "buy"
    PROVE  NotInBook' /\ OneLiveEntry'
<1> USE DEF Base, Order
<1>0. /\ pc[j] = "submit" /\ (doubled => doubled')
  BY BuyFrame
<1> SUFFICES ASSUME ~doubled'
             PROVE  NotInBook' /\ OneEntryInBook'
  BY DEF NotInBook, OneLiveEntry
<1>1. NotInBook'
  BY BuysAlone DEF NotInBook, NoWork
<1>2. ASSUME NEW i \in 1..Slots, NEW k \in 1..Slots, Live(i)', Live(k)',
             IsBuy(orders'[i]), IsBuy(orders'[k]),
             orders'[i].ticker = orders'[k].ticker
      PROVE  i = k
  <2>1. \A n \in 1..Slots : n \in Unused /\ Live(n)' =>
            \E t \in work[j].intents : orders'[n] = Buy(t)
    BY BuyBooks DEF Unused, Live
  <2>2. \A n \in 1..Slots : n \notin Unused => orders'[n] = orders[n]
    BY BuyBooks
  <2>3. CASE i \in Unused /\ k \in Unused
    BY <1>2, <2>3, BuyBooks
  <2>4. CASE i \notin Unused /\ k \notin Unused
    <3>1. Live(i) /\ Live(k) /\ orders[i].ticker = orders[k].ticker
          /\ IsBuy(orders[i]) /\ IsBuy(orders[k])
      BY <1>2, <2>2, <2>4 DEF Live
    <3> QED BY <1>0, <3>1 DEF Entries, OneLiveEntry, OneEntryInBook, LiveOrders
  <2>5. ASSUME NEW n \in 1..Slots, NEW m \in 1..Slots, n \in Unused, m \notin Unused,
               Live(n)', Live(m)', IsBuy(orders'[m]), orders'[n].ticker = orders'[m].ticker
        PROVE  FALSE
    <3>1. PICK t \in work[j].intents : orders'[n] = Buy(t)
      BY <2>1, <2>5
    <3>2. orders'[n].ticker = t
      BY <3>1 DEF Buy
    <3>3. Live(m) /\ IsBuy(orders[m]) /\ orders[m].ticker = t
      BY <2>2, <2>5, <3>2 DEF Live
    <3>4. CASE j \in Cycles
      <4>1. OrdersOf(t, BuySide) = {}
        BY <1>0, <3>4 DEF Entries, NotInBook
      <4> QED BY <3>3, <4>1 DEF OrdersOf, LiveOrders, BuySide, IsBuy
    <3>5. CASE j = "buy"
      <4>1. phase = "before" /\ pc["buy"] # "over"
        BY <1>0, <3>5, BuysAlone
      <4>2. orders[m] = Gone
        BY <4>1 DEF Entries, EmptyBefore
      <4> QED BY <3>3, <4>2 DEF Live, Gone
    <3> QED BY <3>4, <3>5
  <2> QED BY <1>2, <2>3, <2>4, <2>5
<1>3. OneEntryInBook'
  BY <1>2 DEF OneEntryInBook, LiveOrders
<1> QED BY <1>1, <1>3

\* The filter of a cycle lets nothing through that is in the book.
LEMMA FilterEntries ==
    ASSUME Base, Entries, NEW c \in Cycles, Filter(c), ~doubled,
           NEW t \in work'[c].intents
    PROVE  OrdersOf(t, BuySide) = {}
<1> USE DEF Base, Order
<1>1. PICK intents \in SUBSET Eligible(c) : Guards(c, intents)
  BY DEF Filter
<1>2. c \in Jobs /\ intents \in SUBSET Tickers
  BY <1>1, LatestFields DEF Eligible, Jobs
<1>3. PICK w \in Work : work' = [work EXCEPT ![c] = w] /\ w.intents \subseteq intents
  BY <1>1, <1>2, GuardsMove
<1>4. t \in Eligible(c)
  BY <1>1, <1>2, <1>3 DEF TypeOK
<1>5. t \notin UnfilledTickers \/ t \in work[c].done
  BY <1>4 DEF Eligible, Unfilled
<1> QED BY <1>5 DEF UnfilledTickers, OrdersOf, Entries, NotInBook

LEMMA OtherJobEntries ==
    ASSUME Base, Entries, NEW j \in Jobs, JobStep(j), NoNewBuys
    PROVE  NotInBook' /\ OneLiveEntry'
<1> USE DEF Base, Order
<1>0. doubled => doubled'
  <2>1. CASE UNCHANGED doubled
    BY <2>1
  <2>2. ASSUME NEW k \in Jobs, NEW record, BuyAll(k, record)
        PROVE  doubled => doubled'
    BY <2>2, BuyFrame
  <2>3. CASE WatchSell \/ CloseSell
    BY <2>3 DEF WatchSell, CloseSell, SellAll
  <2> QED BY <2>1, <2>2, <2>3
          DEF JobStep, CycleStep, TryLock, SecondLook, Screen, Filter, Submit, WatchPoll,
              CloseAcquire, ClosePoll, MockBuySubmit, List, ListFails, Cancel, Raise, history
<1>1. SUFFICES ASSUME ~doubled'
               PROVE  NotInBook' /\ OneEntryInBook'
  BY DEF NotInBook, OneLiveEntry
<1>2. OneEntryInBook
  BY <1>0, <1>1 DEF Entries, OneLiveEntry
<1>3. OneEntryInBook'
  BY <1>2 DEF OneEntryInBook, NoNewBuys, LiveOrders
<1>4. ASSUME NEW c \in Cycles, NEW t \in work'[c].done
      PROVE  OrdersOf(t, BuySide)' = {}
  <2>1. CASE t \in work[c].done
    BY <1>0, <1>1, <2>1, SamePurchases DEF Entries, NotInBook
  <2>2. CASE t \notin work[c].done
    <3>1. c = j
      BY <1>4, <2>2, OwnWork DEF Jobs
    <3>2. PICK i \in work[j].todo : CancelOne(j, i) /\ t = orders[i].ticker
      BY <1>4, <2>2, <3>1, JobWorks DEF JobWork
    <3>3. i \in 1..Slots /\ Live(i) /\ IsBuy(orders[i]) /\ orders'[i] = Gone
      BY <3>1, <3>2, WorkFields DEF CancelOne, Entries, CancelsBuys, TypeOK
    <3>4. ASSUME NEW k \in OrdersOf(t, BuySide)'
          PROVE  FALSE
      <4>1. k \in OrdersOf(t, BuySide) /\ Live(k)'
        BY SamePurchases DEF OrdersOf, LiveOrders, Live
      <4>2. k = i
        BY <1>2, <3>2, <3>3, <4>1 DEF OneEntryInBook, OrdersOf, LiveOrders, BuySide, IsBuy
      <4> QED BY <3>3, <4>1, <4>2 DEF Live, Gone
    <3> QED BY <3>4
  <2> QED BY <2>1, <2>2
<1>5. ASSUME NEW c \in Cycles, pc'[c] = "submit", NEW t \in work'[c].intents
      PROVE  OrdersOf(t, BuySide)' = {}
  <2>1. CASE c = j
    <3>1. Filter(c)
      BY <1>5, <2>1, JobFilters
    <3> QED BY <1>0, <1>1, <1>5, <3>1, FilterEntries, SamePurchases
  <2>2. CASE c # j
    <3>1. pc[c] = "submit" /\ t \in work[c].intents
      BY <1>5, <2>2, OwnWork DEF Jobs
    <3> QED BY <1>0, <1>1, <3>1, SamePurchases DEF Entries, NotInBook
  <2> QED BY <2>1, <2>2
<1>6. NotInBook'
  BY <1>4, <1>5 DEF NotInBook
<1> QED BY <1>3, <1>6

LEMMA OtherWork ==
    ASSUME TypeOK, StartStep \/ BrokerStep \/ Bell \/ NextDate \/ UNCHANGED vars
    PROVE  /\ \A k \in Jobs \ {"buy"} : work'[k] = work[k]
           /\ work'["buy"].todo = work["buy"].todo
           /\ \A k \in Jobs \ {"buy"} : pc'[k] # pc[k] => pc'[k] \in Waiting \cup {"list"}
           /\ UNCHANGED <<doubled, clean, closed>>
<1>1. CASE UNCHANGED work
  <2>1. \A k \in Jobs \ {"buy"} : pc'[k] # pc[k] => pc'[k] \in Waiting \cup {"list"}
    BY <1>1 DEF StartStep, Start, CloseStart, DryRun, MockBuy, CancelUnfilled,
                BrokerStep, Fill,
                Age, Bell, NextDate, vars, Goto, TypeOK, Waiting
  <2> QED BY <1>1, <2>1 DEF StartStep, Start, CloseStart, DryRun, MockBuy, CancelUnfilled,
                BrokerStep, Fill, Age, Bell, NextDate, vars, history
<1>2. CASE MockBuy
  <2>1. latest.result \in SUBSET Tickers /\ "buy" \in Jobs
    BY LatestFields DEF Jobs
  <2>2. PICK w \in Work : work' = [work EXCEPT !["buy"] = w] /\ w.todo = work["buy"].todo
    BY <1>2, <2>1, GuardsMove DEF MockBuy
  <2> QED BY <1>2, <2>1, <2>2 DEF MockBuy, Goto, TypeOK
<1> QED BY <1>1, <1>2 DEF StartStep, Start, CloseStart, DryRun, CancelUnfilled,
                          BrokerStep,
                          Fill, Age, Bell, NextDate, vars

LEMMA OtherEntries ==
    ASSUME Base, Entries, StartStep \/ BrokerStep \/ Bell \/ NextDate \/ UNCHANGED vars
    PROVE  Entries'
<1> USE DEF Base, Order
<1>1. NoNewOrders /\ NoNewBuys
  BY OtherOrders DEF NoNewOrders, NoNewBuys, IsBuy
<1>2. EmptyBefore'
  <2>1. CASE NextDate
    BY <2>1 DEF NextDate, EmptyBefore
  <2>2. CASE Bell
    BY <2>2 DEF Bell, EmptyBefore
  <2>3. CASE BrokerStep
    BY <2>3 DEF BrokerStep, Fill, Age, InSession, EmptyBefore, clock
  <2>4. CASE StartStep \/ UNCHANGED vars
    <3>1. UNCHANGED <<phase, orders>> /\ (pc'["buy"] # "over" => pc["buy"] # "over")
      BY <2>4 DEF StartStep, Start, CloseStart, DryRun, MockBuy, CancelUnfilled, vars,
                  clock,
                  broker, Goto, TypeOK, Cycles, Jobs
    <3> QED BY <3>1 DEF Entries, EmptyBefore
  <2> QED BY <2>1, <2>2, <2>3, <2>4
<1>3. CancelsBuys'
  BY <1>1, OtherWork, WorkFields DEF CancelsBuys, Entries, NoNewOrders, IsBuy, Cycles,
                                     Jobs
<1>4. NotInBook'
  <2>1. \A c \in Cycles : /\ work'[c] = work[c]
                          /\ pc'[c] = "submit" => pc[c] = "submit"
    BY OtherWork DEF Cycles, Jobs, Waiting
  <2>2. doubled' = doubled
    BY OtherWork
  <2> QED BY <1>1, <2>1, <2>2, SamePurchases DEF NotInBook, Entries
<1>5. OneLiveEntry'
  BY <1>1, OtherWork DEF OneLiveEntry, OneEntryInBook, NoNewBuys, Entries, LiveOrders
<1> QED BY <1>2, <1>3, <1>4, <1>5 DEF Entries

LEMMA EntriesKept ==
    ASSUME Base, Entries, RunStep
    PROVE  Entries'
<1>1. ASSUME NEW j \in Jobs, JobStep(j)
      PROVE  Entries'
  <2>1. NotInBook' /\ OneLiveEntry'
    <3>1. CASE NoNewBuys
      BY <1>1, <3>1, OtherJobEntries
    <3>2. CASE j \in Cycles /\ Submit(j)
      BY <1>1, <3>2, BuyEntries DEF Submit
    <3>3. CASE j = "buy" /\ MockBuySubmit
      BY <1>1, <3>3, BuyEntries DEF MockBuySubmit
    <3> QED BY <1>1, <3>1, <3>2, <3>3, JobBuys
  <2> QED BY <1>1, <2>1, JobEmptyBefore, JobCancels DEF Entries
<1> QED BY <1>1, OtherEntries DEF RunStep

-----------------------------------------------------------------------------
(* Stop losses and rounds                                                  *)

\* Only the watch and the close save stop losses, and no cycle is about to buy
\* while they do.
LEMMA StopLossKept ==
    ASSUME Base, StopLossRespected, RunStep
    PROVE  StopLossRespected'
<1> USE DEF Base, Order
<1> SUFFICES ASSUME NEW c \in Cycles, pc'[c] = "submit"
             PROVE  work'[c].intents \cap stopped' \subseteq work'[c].blind
  BY DEF StopLossRespected
<1>0. c \in Jobs
  BY DEF Jobs
<1>1. ASSUME NEW j \in Jobs, JobStep(j)
      PROVE  work'[c].intents \cap stopped' \subseteq work'[c].blind
  <2>1. CASE c = j
    <3>1. Filter(c)
      BY <1>1, <2>1, JobFilters
    <3>2. PICK intents \in SUBSET Eligible(c) : Guards(c, intents)
      BY <3>1 DEF Filter
    <3>3. intents \in SUBSET Tickers
      BY <3>2, LatestFields DEF Eligible
    <3>4. PICK w \in Work : work' = [work EXCEPT ![c] = w]
                            /\ w.intents \cap stopped \subseteq w.blind
      BY <1>0, <3>2, <3>3, GuardsMove
    <3> QED BY <1>0, <3>1, <3>4 DEF Filter, db, TypeOK
  <2>2. CASE c # j
    <3>1. pc[c] = "submit" /\ work'[c] = work[c]
      BY <1>0, <1>1, <2>2, OwnWork
    <3>2. lock = c
      BY <3>1 DEF LockHeld
    <3>3. pc[j] # "sell"
      BY <2>2, <3>2 DEF LockHeld, Control, StepsOf, Jobs, Cycles
    <3>4. stopped' = stopped
      <4>1. CASE UNCHANGED stopped
        BY <4>1
      <4>2. ASSUME NEW k \in Jobs, NEW record, BuyAll(k, record)
            PROVE  stopped' = stopped
        BY <4>2, BuyFrame
      <4>3. ~(j = "watch" /\ WatchSell) /\ ~(j = "close" /\ CloseSell)
        BY <3>3 DEF WatchSell, CloseSell, SellAll
      <4> QED BY <1>1, <4>1, <4>2, <4>3
              DEF JobStep, CycleStep, TryLock, SecondLook, Screen, Filter, Submit,
                  WatchPoll,
                  CloseAcquire, ClosePoll, MockBuySubmit, List, ListFails, Cancel, Raise, db
    <3> QED BY <3>1, <3>4 DEF StopLossRespected
  <2> QED BY <2>1, <2>2
<1>2. CASE StartStep \/ BrokerStep \/ Bell \/ NextDate \/ UNCHANGED vars
  <2>1. pc[c] = "submit" /\ work'[c] = work[c]
    BY <1>0, <1>2, OtherWork DEF Waiting, Cycles
  <2>2. stopped' \subseteq stopped
    BY <1>2 DEF StartStep, Start, CloseStart, DryRun, MockBuy, CancelUnfilled, BrokerStep,
                Fill, Age, Bell, NextDate, vars, db
  <2> QED BY <2>1, <2>2 DEF StopLossRespected
<1> QED BY <1>1, <1>2 DEF RunStep

\* What follows the cancellations leaves the rounds alone.
LEMMA CancelLatest ==
    ASSUME TypeOK, Control, NEW j \in Jobs, pc[j] \in {"list", "cancel"},
           NEW done \in SUBSET Tickers, CancelsDone(j, done)
    PROVE  UNCHANGED latest \/ (j \in Cycles /\ Released(done))
BY CancelsDoneMoves DEF Cycles

LEMMA CancelsLatest ==
    ASSUME TypeOK, Control, NEW j \in Jobs, List(j) \/ ListFails(j) \/ Cancel(j) \/ Raise(j)
    PROVE  UNCHANGED latest \/ (j \in Cycles /\ \E done \in SUBSET Tickers : Released(done))
<1>1. CASE List(j) \/ ListFails(j)
  <2>1. UNCHANGED latest \/ (CancelsDone(j, {}) /\ pc[j] = "list")
    BY <1>1 DEF List, ListFails
  <2> QED BY <2>1, CancelLatest
<1>2. CASE Cancel(j)
  <2>1. PICK i \in work[j].todo : CancelOne(j, i) \/ CancelRaises(j, i)
    BY <1>2 DEF Cancel
  <2>2. pc[j] = "cancel"
    BY <1>2 DEF Cancel
  <2>3. CASE CancelOne(j, i)
    <3> DEFINE done == work[j].done \cup {orders[i].ticker}
    <3>1. orders[i] \in Orders
      BY <2>1, <2>3, WorkFields DEF CancelOne, Live, TypeOK, Gone
    <3>2. done \in SUBSET Tickers
      BY <3>1, WorkFields DEF Orders
    <3>3. UNCHANGED latest \/ CancelsDone(j, done)
      BY <2>3 DEF CancelOne
    <3> HIDE DEF done
    <3> QED BY <2>2, <3>2, <3>3, CancelLatest
  <2>4. CASE CancelRaises(j, i)
    BY <2>2, <2>4, CancelLatest DEF CancelRaises
  <2> QED BY <2>1, <2>3, <2>4
<1>3. CASE Raise(j)
  BY <1>3 DEF Raise
<1> QED BY <1>1, <1>2, <1>3

\* Only the purchases of the cycles count entries and rounds.
LEMMA JobCounts ==
    ASSUME Base, NEW j \in Jobs, JobStep(j)
    PROVE  \/ latest'.rounds = latest.rounds /\ UNCHANGED <<entries, uncounted>>
           \/ j \in Cycles /\ Submit(j)
<1> USE DEF Base, Order
<1>1. CASE UNCHANGED <<latest, entries, uncounted>>
  BY <1>1
<1>2. CASE Screen(j) \/ WatchPoll
  BY <1>2, LatestFields DEF Screen, WatchPoll, db, Latest
<1>3. CASE (j = "watch" /\ WatchSell) \/ (j = "close" /\ CloseSell)
  <2>1. UNCHANGED <<entries, uncounted>>
    BY <1>3, SellFrame
  <2>2. latest'.rounds = latest.rounds
    BY <1>3, WatchSells, CloseSells, LatestFields DEF WatchRemembers, Latest
  <2> QED BY <2>1, <2>2
<1>4. CASE List(j) \/ ListFails(j) \/ Cancel(j) \/ Raise(j)
  <2>1. UNCHANGED latest \/ \E done \in SUBSET Tickers : Released(done)
    BY <1>4, CancelsLatest
  <2>2. latest'.rounds = latest.rounds
    BY <2>1, LatestFields DEF Released, Latest
  <2> QED BY <1>4, <2>2 DEF List, ListFails, Cancel, Raise, db
<1>5. CASE j = "buy" /\ MockBuySubmit
  <2> DEFINE record == [latest EXCEPT !.bought = @ \cup work["buy"].intents]
  <2>1. BuyAll("buy", [traded \in BOOLEAN |-> record]) /\ "buy" \in Jobs
    BY <1>5 DEF MockBuySubmit
  <2>2. record.rounds = latest.rounds
    BY LatestFields DEF Latest
  <2> HIDE DEF record
  <2>3. PICK traded \in SUBSET work["buy"].intents :
            /\ SubmitCounts("buy", traded, {})
            /\ latest' = [x \in BOOLEAN |-> record][traded # {}] \/ latest' = latest
    BY <2>1, BuyFrame, Zenon
  <2>4. latest' = record \/ latest' = latest
    BY <2>3
  <2> QED BY <2>2, <2>3, <2>4 DEF SubmitCounts, Cycles
<1> QED BY <1>1, <1>2, <1>3, <1>4, <1>5
        DEF JobStep, CycleStep, TryLock, SecondLook, Filter, CloseAcquire, ClosePoll, db

\* The filter keeps to the cap and to the rounds that are left.
LEMMA FilterRounds ==
    ASSUME Base, NEW c \in Cycles, Filter(c)
    PROVE  /\ Cardinality(work'[c].intents) <= RoundCap
           /\ work'[c].intents # {} => RoundsLeft
           /\ latest' = latest
<1> USE DEF Base, Order
<1>1. PICK intents \in SUBSET Eligible(c) :
          Guards(c, intents) /\ Cardinality(intents) <= RoundCap
  BY DEF Filter
<1>2. c \in Jobs /\ intents \in SUBSET Tickers
  BY <1>1, LatestFields DEF Eligible, Jobs
<1>3. PICK w \in Work : work' = [work EXCEPT ![c] = w] /\ w.intents \subseteq intents
  BY <1>1, <1>2, GuardsMove
<1>4. work'[c] = w
  BY <1>2, <1>3 DEF TypeOK
<1>5. IsFiniteSet(intents)
  BY <1>2, TickersAssumption, FS_Subset
<1>6. /\ Cardinality(w.intents) <= Cardinality(intents)
      /\ Cardinality(w.intents) \in Nat /\ Cardinality(intents) \in Nat
  BY <1>3, <1>5, FS_Subset, FS_CardinalityType
<1>7. w.intents # {} => RoundsLeft
  BY <1>1, <1>3 DEF Eligible
<1> QED BY <1>1, <1>4, <1>6, <1>7, RoundAssumption DEF Filter

\* A purchase of a cycle enters at most the tickers of one round.
LEMMA SubmitRounds ==
    ASSUME Base, Rounds, NEW c \in Cycles, Submit(c)
    PROVE  /\ latest'.rounds <= MaxRounds
           /\ entries' <= (latest'.rounds + uncounted') * RoundCap
<1> USE DEF Base, Order
<1> DEFINE record == [traded \in BOOLEAN |-> CycleRecord(c, traded)]
<1>1. BuyAll(c, record) /\ c \in Jobs
  BY DEF Submit, Jobs
<1>2. /\ record[TRUE].rounds = latest.rounds + 1
      /\ record[FALSE] = latest
  BY LatestFields DEF CycleRecord, Latest
<1> HIDE DEF record
<1>3. pc[c] = "submit" /\ IsFiniteSet(work[c].intents)
  BY <1>1, BuyFrame
<1>4. PICK traded \in SUBSET work[c].intents :
          /\ SubmitCounts(c, traded, {})
          /\ \/ latest' = record[traded # {}]
             \/ /\ latest' = latest
                /\ entries' > entries => uncounted' = uncounted + 1
  BY <1>1, BuyFrame, Zenon
<1>5. /\ latest.rounds \in Nat /\ entries \in Nat /\ uncounted \in Nat
      /\ RoundCap \in Nat /\ MaxRounds \in Nat
  BY LatestFields, RoundAssumption DEF TypeOK
<1>6. /\ latest.rounds <= MaxRounds
      /\ entries <= (latest.rounds + uncounted) * RoundCap
      /\ Cardinality(work[c].intents) <= RoundCap
      /\ work[c].intents # {} => latest.rounds < MaxRounds
  BY <1>3 DEF Rounds, RoundsLeft
<1>7. /\ Cardinality(traded) \in Nat /\ Cardinality(traded) <= RoundCap
      /\ traded = {} => Cardinality(traded) = 0
  <2>1. /\ Cardinality(traded) <= Cardinality(work[c].intents)
        /\ Cardinality(traded) \in Nat /\ Cardinality(work[c].intents) \in Nat
    BY <1>3, FS_Subset, FS_CardinalityType
  <2>2. Cardinality({}) = 0
    BY FS_EmptySet
  <2>3. traded = {} => Cardinality(traded) = 0
    BY <2>2
  <2>4. Cardinality(traded) <= RoundCap
    BY <1>5, <1>6, <2>1
  <2> QED BY <2>1, <2>3, <2>4
<1>8. /\ entries' \in {entries, entries + Cardinality(traded)}
      /\ uncounted' \in {uncounted, uncounted + 1}
  BY <1>4 DEF SubmitCounts
<1>9. \A n \in Nat : /\ (n + 1) * RoundCap = n * RoundCap + RoundCap
                     /\ n * RoundCap \in Nat
  BY <1>5
<1>10. latest.rounds + uncounted \in Nat
       /\ (latest.rounds + uncounted + 1) * RoundCap
             = (latest.rounds + uncounted) * RoundCap + RoundCap
       /\ (latest.rounds + uncounted + 1 + 1) * RoundCap
             = (latest.rounds + uncounted) * RoundCap + RoundCap + RoundCap
       /\ (latest.rounds + uncounted) * RoundCap \in Nat
  <2>1. latest.rounds + uncounted \in Nat /\ latest.rounds + uncounted + 1 \in Nat
    BY <1>5
  <2> QED BY <1>5, <1>9, <2>1
<1>11. CASE latest' = record[traded # {}] /\ traded # {}
  <2>1. latest'.rounds = latest.rounds + 1 /\ latest.rounds < MaxRounds
    BY <1>2, <1>6, <1>11
  <2>2. latest'.rounds + uncounted' \in {latest.rounds + uncounted + 1,
                                         latest.rounds + uncounted + 1 + 1}
    BY <1>5, <1>8, <2>1
  <2>3. entries' <= (latest.rounds + uncounted) * RoundCap + RoundCap
    BY <1>5, <1>6, <1>7, <1>8, <1>10
  <2> QED BY <1>5, <1>8, <1>10, <2>1, <2>2, <2>3
<1>12. CASE latest' = latest /\ (entries' > entries => uncounted' = uncounted + 1)
  <2>1. latest'.rounds + uncounted' = latest.rounds + uncounted
        \/ latest'.rounds + uncounted' = latest.rounds + uncounted + 1
    BY <1>5, <1>8, <1>12
  <2>2. CASE entries' > entries
    <3>1. latest'.rounds + uncounted' = latest.rounds + uncounted + 1
      BY <1>5, <1>12, <2>2
    <3> QED BY <1>5, <1>6, <1>7, <1>8, <1>10, <1>12, <3>1
  <2>3. CASE ~(entries' > entries)
    BY <1>5, <1>6, <1>7, <1>8, <1>10, <1>12, <2>1, <2>3
  <2> QED BY <2>2, <2>3
<1>13. CASE latest' = record[traded # {}] /\ traded = {}
  <2>1. latest' = latest /\ entries' = entries
    <3>1. (traded # {}) = FALSE
      BY <1>13
    <3>2. latest' = record[FALSE]
      BY <1>13, <3>1
    <3> QED BY <1>2, <1>5, <1>7, <1>8, <1>13, <3>2
  <2> QED BY <1>12, <2>1, <1>5
<1> QED BY <1>4, <1>11, <1>12, <1>13

LEMMA RoundsKept ==
    ASSUME Base, Rounds, RunStep, Base'
    PROVE  Rounds'
<1> USE DEF Base, Order
<1> DEFINE Round(c) == /\ Cardinality(work[c].intents) <= RoundCap
                       /\ work[c].intents # {} => RoundsLeft
<1>1. ASSUME NEW j \in Jobs, JobStep(j)
      PROVE  Rounds'
  <2>1. latest'.rounds <= MaxRounds /\ entries' <= (latest'.rounds + uncounted') * RoundCap
    <3>1. CASE latest'.rounds = latest.rounds /\ UNCHANGED <<entries, uncounted>>
      BY <3>1 DEF Rounds
    <3> QED BY <1>1, <3>1, JobCounts, SubmitRounds
  <2>2. ASSUME NEW c \in Cycles, pc'[c] = "submit"
        PROVE  Round(c)'
    <3>1. CASE c = j
      <4>1. Filter(c)
        BY <1>1, <2>2, <3>1, JobFilters
      <4> QED BY <4>1, FilterRounds DEF RoundsLeft
    <3>2. CASE c # j
      <4>1. pc[c] = "submit" /\ work'[c] = work[c]
        BY <1>1, <2>2, <3>2, OwnWork DEF Jobs
      <4>2. ~(j \in Cycles /\ Submit(j))
        <5>1. ASSUME j \in Cycles, Submit(j)
              PROVE  pc[j] = "submit"
          BY <5>1, BuyFrame DEF Submit
        <5> QED BY <3>2, <4>1, <5>1 DEF LockHeld
      <4>3. latest'.rounds = latest.rounds
        BY <1>1, <4>2, JobCounts
      <4> QED BY <4>1, <4>3 DEF Rounds, RoundsLeft
    <3> QED BY <3>1, <3>2
  <2> QED BY <2>1, <2>2 DEF Rounds
<1>2. CASE StartStep \/ BrokerStep \/ Bell \/ NextDate \/ UNCHANGED vars
  <2>1. \A c \in Cycles : /\ work'[c] = work[c]
                          /\ pc'[c] = "submit" => pc[c] = "submit"
    BY <1>2, OtherWork DEF Waiting, Cycles, Jobs
  <2>2. latest'.rounds = latest.rounds
    BY <1>2, LatestFields DEF StartStep, Start, CloseStart, DryRun, MockBuy,
                              CancelUnfilled,
                BrokerStep, Fill, Age, Bell, NextDate, vars, Latest
  <2>3. UNCHANGED <<entries, uncounted>> \/ (entries' = 0 /\ uncounted' = 0)
    BY <1>2 DEF StartStep, Start, CloseStart, DryRun, MockBuy, CancelUnfilled,
                BrokerStep, Fill, Age, Bell, NextDate, vars, db
  <2>4. (latest.rounds + 0) * RoundCap \in Nat
    BY LatestFields, RoundAssumption
  <2>5. entries' <= (latest'.rounds + uncounted') * RoundCap
    BY <2>2, <2>3, <2>4 DEF Rounds
  <2> QED BY <2>1, <2>2, <2>5 DEF Rounds, RoundsLeft
<1> QED BY <1>1, <1>2 DEF RunStep

LEMMA RoundsBound ==
    ASSUME TypeOK, Rounds
    PROVE  RoundsBounded
<1>1. /\ latest.rounds \in Nat /\ uncounted \in Nat /\ RoundCap \in Nat /\ MaxRounds \in Nat
      /\ entries \in Nat
  BY LatestFields, RoundAssumption DEF TypeOK
<1>2. PICK d \in Nat : MaxRounds = latest.rounds + d
  <2>1. MaxRounds - latest.rounds \in Nat
    BY <1>1 DEF Rounds
  <2> QED BY <1>1, <2>1
<1>3. (MaxRounds + uncounted) * RoundCap
         = (latest.rounds + uncounted) * RoundCap + d * RoundCap
  BY <1>1, <1>2
<1>4. d * RoundCap \in Nat /\ (latest.rounds + uncounted) * RoundCap \in Nat
  BY <1>1
<1> QED BY <1>1, <1>3, <1>4 DEF Rounds, RoundsBounded

-----------------------------------------------------------------------------
(* Sales                                                                   *)

\* Only the sales of the watch and the close add a sell order to the book.
NoNewSales ==
    \A i \in 1..Slots : Live(i)' /\ ~IsBuy(orders'[i]) => orders'[i] = orders[i]

LEMMA JobSales ==
    ASSUME Base, NEW j \in Jobs, JobStep(j)
    PROVE  NoNewSales \/ (j = "watch" /\ WatchSell) \/ (j = "close" /\ CloseSell)
<1> USE DEF Base, Order
<1>1. CASE UNCHANGED orders
  BY <1>1 DEF NoNewSales
<1>2. CASE Cancel(j)
  <2>1. ASSUME NEW i, CancelOne(j, i)
        PROVE  NoNewSales
    <3>1. \A k \in 1..Slots : orders'[k] = orders[k] \/ orders'[k] = Gone
      BY <2>1 DEF CancelOne, TypeOK
    <3> QED BY <3>1 DEF NoNewSales, Live, Gone
  <2> QED BY <1>1, <1>2, <2>1 DEF Cancel, CancelRaises
<1>3. ASSUME NEW k \in Jobs, NEW record, BuyAll(k, record)
      PROVE  NoNewSales
  <2>1. \A t : IsBuy(Buy(t))
    BY DEF IsBuy, Buy
  <2> QED BY <1>3, <2>1, BuyBooks DEF NoNewSales
<1>4. CASE (j \in Cycles /\ Submit(j)) \/ (j = "buy" /\ MockBuySubmit)
  BY <1>3, <1>4 DEF Submit, MockBuySubmit
<1>5. CASE \/ List(j) \/ ListFails(j) \/ Raise(j) \/ WatchPoll \/ CloseAcquire \/ ClosePoll
           \/ \E c \in Cycles : TryLock(c) \/ SecondLook(c) \/ Screen(c) \/ Filter(c)
  BY <1>1, <1>5 DEF List, ListFails, Raise, WatchPoll, CloseAcquire, ClosePoll, TryLock,
                    SecondLook, Screen, Filter, broker
<1> QED BY <1>2, <1>4, <1>5 DEF JobStep, CycleStep

\* A job only sells what is in its hands; what is held changes by fills alone.
LEMMA JobHeld ==
    ASSUME Base, NEW j \in Jobs, JobStep(j)
    PROVE  held' = held
<1> USE DEF Base, Order
<1>1. ASSUME NEW k \in Jobs, NEW record, BuyAll(k, record)
      PROVE  held' = held
  BY <1>1 DEF BuyAll
<1>2. WatchSell \/ CloseSell => held' = held
  BY DEF WatchSell, CloseSell, SellAll
<1> QED BY <1>1, <1>2 DEF JobStep, CycleStep, TryLock, SecondLook, Screen, Filter, Submit,
           WatchPoll, CloseAcquire, ClosePoll, MockBuySubmit, List, ListFails, Cancel, Raise,
           broker

LEMMA FillOnSale ==
    ASSUME TypeOK, SharesOnSale, NEW i \in 1..Slots, Fill(i), DataType'
    PROVE  SharesOnSale'
<1> DEFINE o == orders[i]
<1>1. /\ orders' = [orders EXCEPT ![i] = Rest(orders[i])] /\ o.left > 0
      /\ held' = [held EXCEPT ![o.ticker] = IF IsBuy(o) THEN @ + 1 ELSE @ - 1]
      /\ ~IsBuy(o) => held[o.ticker] > 0
  BY DEF Fill, Live
<1>2. /\ orders \in [1..Slots -> Orders \cup {Gone}]
      /\ orders' \in [1..Slots -> Orders \cup {Gone}]
      /\ held \in [Tickers -> Nat]
  BY DEF TypeOK, DataType
<1>3. o \in Orders /\ o.ticker \in Tickers
  <2>1. o \in Orders
    BY <1>1, <1>2 DEF Gone
  <2> QED BY <2>1 DEF Orders
<1> SUFFICES ASSUME NEW t \in Tickers
             PROVE  InBook(t, SellSides)' <= held'[t]
  BY DEF SharesOnSale
<1>4. /\ Cardinality(SharesOf(orders, t, SellSides)) <= held[t]
      /\ Cardinality(SharesOf(orders, t, SellSides)) \in Nat
      /\ Cardinality(SharesOf(orders', t, SellSides)) \in Nat
      /\ held[t] \in Nat
  BY <1>2, InBookIsShares, SharesFinite DEF SharesOnSale
<1>5. CASE o.ticker = t /\ ~IsBuy(o)
  <2>1. i \in Listed(orders, o.ticker, SellSides)
    BY <1>1, <1>3, <1>5 DEF Listed, SellSides, IsBuy, Orders
  <2>2. Cardinality(SharesOf(orders', t, SellSides))
            = Cardinality(SharesOf(orders, t, SellSides)) - 1
    <3>1. FilledOne(orders, orders', i)
      BY <1>1 DEF FilledOne
    <3>2. FillsOne(orders, orders', i, SellSides)
      BY <1>2, <2>1, <3>1 DEF FillsOne
    <3>3. OneLess(orders, orders', i, SellSides)
      BY <3>2, OneShareLess
    <3> QED BY <1>5, <3>3 DEF OneLess
  <2>3. held'[t] = held[t] - 1
    BY <1>1, <1>2, <1>5
  <2> QED BY <1>4, <2>2, <2>3, InBookIsShares
<1>6. CASE ~(o.ticker = t /\ ~IsBuy(o))
  <2>1. ASSUME NEW k \in Listed(orders', t, SellSides)
        PROVE  orders'[k] = orders[k]
    <3>1. k \in 1..Slots /\ orders'[k].left > 0 /\ orders'[k].ticker = t
          /\ orders'[k].side \in SellSides
      BY DEF Listed
    <3>2. CASE k = i
      <4>1. orders'[k] = Rest(o)
        BY <1>1, <1>2, <3>2
      <4>2. Rest(o) = Gone \/ (Rest(o).ticker = o.ticker /\ Rest(o).side = o.side)
        BY <1>3 DEF Rest, Orders
      <4>3. Rest(o) # Gone
        BY <3>1, <4>1 DEF Gone
      <4> QED BY <1>6, <3>1, <4>1, <4>2, <4>3 DEF SellSides, IsBuy
    <3>3. CASE k # i
      BY <1>1, <1>2, <3>1, <3>3
    <3> QED BY <3>2, <3>3
  <2>2. Cardinality(SharesOf(orders', t, SellSides))
            <= Cardinality(SharesOf(orders, t, SellSides))
    BY <1>2, <2>1, FewerShares
  <2>3. held'[t] \in {held[t], held[t] + 1}
    BY <1>1, <1>2, <1>6
  <2> QED BY <1>4, <2>2, <2>3, InBookIsShares
<1> QED BY <1>5, <1>6

LEMMA OnSaleKept ==
    ASSUME Base, SharesOnSale, RunStep, Base'
    PROVE  SharesOnSale'
<1> USE DEF Base, Order
<1>0. orders' \in [1..Slots -> Orders \cup {Gone}] /\ DataType'
  BY TypeOfData DEF TypeOK, DataType
<1>1. CASE NoNewSales /\ held' = held
  <2>1. \A i \in 1..Slots : Live(i)' /\ orders'[i].side \in SellSides =>
            orders'[i] = orders[i]
    BY <1>1 DEF NoNewSales, IsBuy, SellSides
  <2> QED BY <1>0, <1>1, <2>1, FewerOnSale
<1>2. ASSUME NEW j \in Jobs, JobStep(j)
      PROVE  SharesOnSale'
  <2>1. held' = held
    BY <1>2, JobHeld
  <2>2. ASSUME NEW k \in Jobs, NEW out, Sells(k, out)
        PROVE  SharesOnSale'
    BY <2>1, <2>2, SellShares DEF SharesOnSale
  <2>3. CASE (j = "watch" /\ WatchSell) \/ (j = "close" /\ CloseSell)
    BY <1>2, <2>2, <2>3, WatchSells, CloseSells
  <2> QED BY <1>1, <1>2, <2>1, <2>3, JobSales
<1>3. CASE StartStep \/ Bell \/ NextDate \/ UNCHANGED vars
  <2>1. held' = held /\ (UNCHANGED orders \/ orders' = [i \in 1..Slots |-> Gone])
    BY <1>3 DEF StartStep, Start, CloseStart, DryRun, MockBuy, CancelUnfilled, Bell,
                NextDate,
                vars, broker
  <2>2. NoNewSales
    <3>1. \A i \in 1..Slots : orders'[i] = orders[i] \/ orders'[i] = Gone
      BY <2>1
    <3>2. ~(Gone.left > 0)
      BY DEF Gone
    <3> QED BY <3>1, <3>2 DEF NoNewSales, Live
  <2> QED BY <1>1, <2>1, <2>2
<1>4. ASSUME NEW i \in 1..Slots, Age(i)
      PROVE  SharesOnSale'
  <2>1. orders' = [orders EXCEPT ![i] = [orders[i] EXCEPT !.stale = TRUE]]
        /\ IsBuy(orders[i]) /\ held' = held /\ Live(i)
    BY <1>4 DEF Age, TypeOK
  <2>2. orders[i] \in Orders
    BY <2>1 DEF Live, TypeOK, Gone
  <2>3. [orders[i] EXCEPT !.stale = TRUE].side = orders[i].side
    BY <2>2 DEF Orders
  <2>4. NoNewSales
    <3>1. \A k \in 1..Slots : orders'[k] = IF k = i THEN [orders[i] EXCEPT !.stale = TRUE]
                                                   ELSE orders[k]
      BY <2>1 DEF TypeOK
    <3> QED BY <2>1, <2>3, <3>1 DEF NoNewSales, IsBuy
  <2> QED BY <1>1, <2>1, <2>4
<1>5. ASSUME NEW i \in 1..Slots, Fill(i)
      PROVE  SharesOnSale'
  BY <1>0, <1>5, FillOnSale
<1> QED BY <1>2, <1>3, <1>4, <1>5 DEF RunStep, BrokerStep

\* A ticker that is on sale is held.
LEMMA OnSaleIsHeld ==
    ASSUME TypeOK, SharesOnSale, NEW i \in LiveOrders, ~IsBuy(orders[i])
    PROVE  orders[i].ticker \in Holdings
<1> DEFINE t == orders[i].ticker
<1>1. i \in 1..Slots /\ orders[i] \in Orders
  BY DEF LiveOrders, Live, TypeOK, Gone
<1>2. t \in Tickers /\ orders[i].left \in Nat \ {0} /\ i \in Listed(orders, t, SellSides)
  BY <1>1 DEF Orders, Listed, LiveOrders, Live, SellSides, IsBuy
<1>3. HasShare(orders, i, <<i, 1>>)
  BY <1>2 DEF HasShare
<1>4. <<i, 1>> \in SharesOf(orders, t, SellSides)
  BY <1>2, <1>3, MemberShares
<1>5. /\ IsFiniteSet(SharesOf(orders, t, SellSides))
      /\ Cardinality(SharesOf(orders, t, SellSides)) \in Nat
  BY SharesFinite DEF TypeOK
<1>6. Cardinality(SharesOf(orders, t, SellSides)) # 0
  BY <1>4, <1>5, FS_EmptySet
<1>7. Cardinality(SharesOf(orders, t, SellSides)) <= held[t] /\ held[t] \in Nat
  BY <1>2, InBookIsShares DEF SharesOnSale, TypeOK
<1> QED BY <1>2, <1>5, <1>6, <1>7 DEF Holdings

\* Only the watch adds to, or forgets, the exits that are pending.
LEMMA JobPending ==
    ASSUME Base, NEW j \in Jobs, JobStep(j)
    PROVE  latest'.pending = latest.pending \/ (j = "watch" /\ (WatchPoll \/ WatchSell))
<1> USE DEF Base, Order
<1>1. CASE UNCHANGED latest
  BY <1>1
<1>2. CASE Screen(j)
  BY <1>2, LatestFields DEF Screen, Latest
<1>3. CASE List(j) \/ ListFails(j) \/ Cancel(j) \/ Raise(j)
  <2>1. UNCHANGED latest \/ \E done \in SUBSET Tickers : Released(done)
    BY <1>3, CancelsLatest
  <2> QED BY <2>1, LatestFields DEF Released, Latest
<1>4. ASSUME NEW k \in Jobs, NEW record, BuyAll(k, record),
             record[TRUE].pending = latest.pending, record[FALSE].pending = latest.pending
      PROVE  latest'.pending = latest.pending
  <2>1. PICK traded \in SUBSET work[k].intents :
            latest' = record[traded # {}] \/ latest' = latest
    BY <1>4, BuyFrame, Zenon
  <2> QED BY <1>4, <2>1
<1>5. CASE j = "buy" /\ MockBuySubmit
  <2> DEFINE record == [latest EXCEPT !.bought = @ \cup work["buy"].intents]
  <2>1. BuyAll("buy", [traded \in BOOLEAN |-> record]) /\ "buy" \in Jobs
    BY <1>5 DEF MockBuySubmit
  <2>2. record.pending = latest.pending
    BY LatestFields DEF Latest
  <2> HIDE DEF record
  <2> QED BY <1>4, <2>1, <2>2
<1>6. CASE j \in Cycles /\ Submit(j)
  <2> DEFINE record == [traded \in BOOLEAN |-> CycleRecord(j, traded)]
  <2>1. BuyAll(j, record)
    BY <1>6 DEF Submit
  <2>2. record[TRUE].pending = latest.pending /\ record[FALSE].pending = latest.pending
    BY LatestFields DEF CycleRecord, Latest
  <2> HIDE DEF record
  <2> QED BY <1>4, <2>1, <2>2
<1>7. CASE j = "close" /\ CloseSell
  BY <1>7, CloseSells
<1> QED BY <1>1, <1>2, <1>3, <1>5, <1>6, <1>7
        DEF JobStep, CycleStep, TryLock, SecondLook, Filter, CloseAcquire, ClosePoll, db

\* What the watch has sold is pending, or was never saved.
LEMMA WatchSellPends ==
    ASSUME Base, WatchSell, NEW i \in 1..Slots, Live(i)', orders'[i] # orders[i],
           orders'[i].known, orders'[i].side = "sell"
    PROVE  orders'[i].ticker \in latest'.pending
<1> USE DEF Base, Order
<1>1. PICK out : /\ Sells("watch", out)
                 /\ WatchRemembers \/ (Book(out, SaleOrders("watch")) /\ Leave("watch"))
  BY WatchSells
<1>2. "watch" \in Jobs
  BY DEF Jobs, Cycles
<1>3. PICK e \in Sellables("watch") : IsSaleOf(orders'[i], e)
  BY <1>1, <1>2, SellBooks
<1>4. ~Book(out, SaleOrders("watch"))
  BY <1>1, <1>2, SellBooks
<1>5. e \in work["watch"].exits /\ e \in Exits /\ e.kind # "ENTRY"
  BY <1>2, WorkFields DEF Sellables, ExitsDiffer
<1>6. orders'[i].ticker = e.ticker /\ e.kind \in Full
  <2>1. orders'[i].ticker = e.ticker /\ e.kind # "PARTIAL_TAKE_PROFIT"
    BY <1>3, <1>5, SaleFields
  <2> QED BY <1>5, <2>1 DEF Exits, Kinds
<1>7. latest'.pending = latest.pending \cup
          {x.ticker : x \in {y \in work["watch"].exits : y.kind \in Full}}
  BY <1>1, <1>4, LatestFields DEF WatchRemembers, Latest
<1> QED BY <1>5, <1>6, <1>7

LEMMA WatchSellKeeps ==
    ASSUME Base, WatchSell
    PROVE  latest.pending \subseteq latest'.pending
<1>1. WatchRemembers \/ UNCHANGED latest
  BY WatchSells
<1>2. WatchRemembers => latest'.pending = latest.pending \cup
          {x.ticker : x \in {y \in work["watch"].exits : y.kind \in Full}}
  BY LatestFields DEF WatchRemembers, Latest, Base, Order
<1> QED BY <1>1, <1>2

LEMMA KnownKept ==
    ASSUME Base, SharesOnSale, KnownIsPending, RunStep, Base'
    PROVE  KnownIsPending'
<1> USE DEF Base, Order
<1> SUFFICES ASSUME ~CloseDone', NEW i \in 1..Slots, Live(i)',
                    orders'[i].known, orders'[i].side = "sell"
             PROVE  orders'[i].ticker \in latest'.pending
  BY DEF KnownIsPending, LiveOrders
<1>0. ~IsBuy(orders'[i])
  BY DEF IsBuy
<1>1. ASSUME NEW j \in Jobs, JobStep(j)
      PROVE  orders'[i].ticker \in latest'.pending
  <2>0. CloseStarted' = CloseStarted
    BY <1>1, JobMoves DEF clock, CloseStarted
  <2>1. ~CloseDone
    <3>1. CASE j = "close"
      BY <1>1, <3>1, JobMoves, JobRuns DEF CloseDone
    <3>2. CASE j # "close"
      <4>1. pc'["close"] = pc["close"]
        BY <1>1, <3>2, OwnWork DEF Jobs
      <4> QED BY <2>0, <4>1 DEF CloseDone
    <3> QED BY <3>1, <3>2
  <2>2. CASE j = "watch" /\ WatchSell /\ orders'[i] # orders[i]
    BY <2>2, WatchSellPends
  <2>3. ~(j = "close" /\ CloseSell)
    <3>1. CloseSell => pc'["close"] = "over"
      BY CloseSells DEF Leave, Goto, TypeOK, Jobs, Cycles
    <3>2. CloseSell => CloseStarted
      BY DEF CloseSell, SellAll, Gate, GateOrder
    <3> QED BY <2>0, <3>1, <3>2 DEF CloseDone
  <2>4. CASE orders'[i] = orders[i]
    <3>1. /\ orders[i].ticker \in latest.pending
          /\ i \in LiveOrders /\ ~IsBuy(orders[i])
      BY <1>0, <2>1, <2>4 DEF KnownIsPending, LiveOrders, Live
    <3>2. CASE WatchPoll
      <4>1. orders[i].ticker \in Holdings
        BY <3>1, OnSaleIsHeld
      <4>2. latest'.pending = StillPending
        BY <3>2, LatestFields DEF WatchPoll, Latest
      <4> QED BY <2>4, <3>1, <4>1, <4>2 DEF StillPending
    <3>3. CASE ~WatchPoll
      BY <1>1, <2>4, <3>1, <3>3, JobPending, WatchSellKeeps
    <3> QED BY <3>2, <3>3
  <2> QED BY <1>0, <1>1, <2>2, <2>3, <2>4, JobSales DEF NoNewSales
<1>2. CASE StartStep \/ BrokerStep \/ Bell \/ NextDate \/ UNCHANGED vars
  <2>1. /\ Live(i) /\ orders'[i].side = orders[i].side
        /\ orders'[i].ticker = orders[i].ticker /\ orders'[i].known = orders[i].known
    BY <1>2, OtherOrders DEF NoNewOrders
  <2>2. latest'.pending = latest.pending
    BY <1>2, LatestFields DEF StartStep, Start, CloseStart, DryRun, MockBuy,
                              CancelUnfilled,
                BrokerStep, Fill, Age, Bell, NextDate, vars, Latest
  <2>3. ~CloseDone
    <3>1. CASE NextDate
      BY <3>1 DEF NextDate, Live, Gone
    <3>2. CASE ~NextDate
      <4>1. pc["close"] = "over" =>
                pc'["close"] = "over" /\ UNCHANGED <<today, closeDate>>
        BY <1>2, <3>2 DEF StartStep, Start, CloseStart, DryRun, MockBuy, CancelUnfilled,
                BrokerStep, Fill, Age, Bell, vars, Goto, TypeOK, Cycles, Jobs, clock
      <4> QED BY <4>1 DEF CloseDone, CloseStarted
    <3> QED BY <3>1, <3>2
  <2> QED BY <2>1, <2>2, <2>3 DEF KnownIsPending, LiveOrders
<1> QED BY <1>1, <1>2 DEF RunStep

\* A watch that is about to sell has just polled.
LEMMA JobPolls ==
    ASSUME Base, JobStep("watch"), pc'["watch"] = "sell"
    PROVE  WatchPoll
<1> USE DEF Base, Order
<1>0. "watch" \in Jobs /\ "watch" \in Cycles
  BY DEF Cycles, Jobs
<1>1. ~(TryLock("watch") \/ SecondLook("watch") \/ Screen("watch") \/ Filter("watch"))
  BY <1>0 DEF TryLock, SecondLook, Screen, Filter, Leave, Goto, FirstStep, TypeOK
<1>2. ~Submit("watch")
  <2>1. Submit("watch") => Leave("watch")
    BY <1>0, BuyFrame DEF Submit
  <2> QED BY <1>0, <2>1 DEF Leave, Goto, TypeOK
<1>3. ~WatchSell
  BY <1>0, WatchSells DEF WatchRemembers, Leave, Goto, TypeOK
<1>4. ~(List("watch") \/ ListFails("watch") \/ Cancel("watch") \/ Raise("watch"))
  BY <1>0, CancelLeadsOn
<1> QED BY <1>0, <1>1, <1>2, <1>3, <1>4 DEF JobStep, CycleStep

\* The watch forgets no exit that is still on sale, and nobody else sells while
\* it is about to.
LEMMA FullExitKept ==
    ASSUME Base, SharesOnSale, KnownIsPending, NoSecondFullExit, RunStep, Base'
    PROVE  NoSecondFullExit'
<1> USE DEF Base, Order
<1> SUFFICES ASSUME pc'["watch"] = "sell", NEW e \in work'["watch"].exits, e.kind \in Full,
                    NEW i \in 1..Slots, Live(i)', orders'[i].ticker = e.ticker,
                    orders'[i].side = "sell", orders'[i].known
             PROVE  FALSE
  BY DEF NoSecondFullExit, LiveExit, OrdersOf, LiveOrders
<1>0. "watch" \in Jobs /\ "watch" \in Cycles /\ ~IsBuy(orders'[i])
  BY DEF Jobs, Cycles, IsBuy
<1>1. CASE /\ pc["watch"] = "sell" /\ work'["watch"] = work["watch"]
           /\ Live(i) /\ orders[i].ticker = e.ticker
           /\ orders[i].side = "sell" /\ orders[i].known
  BY <1>1 DEF NoSecondFullExit, LiveExit, OrdersOf, LiveOrders
<1>2. ASSUME JobStep("watch")
      PROVE  FALSE
  <2>1. WatchPoll
    BY <1>2, JobPolls
  <2>2. /\ pc["watch"] = "poll" /\ orders' = orders
        /\ e.ticker \notin StillPending
    <3>1. PICK exits \in SUBSET Exits :
              /\ work' = [work EXCEPT !["watch"].exits = exits]
              /\ \A x \in exits : x.ticker \notin StillPending
      BY <2>1, WatchPolls
    <3>2. work'["watch"].exits = exits
      BY <1>0, <3>1, WorkFields DEF TypeOK, Work
    <3> QED BY <2>1, <3>1, <3>2 DEF WatchPoll, broker
  <2>3. ~CloseDone
    BY <1>0, <2>2 DEF Gate, GateOrder, CloseShut, CloseDone
  <2>4. i \in LiveOrders /\ ~IsBuy(orders[i])
    BY <1>0, <2>2 DEF LiveOrders, Live
  <2>5. orders[i].ticker \in latest.pending
    BY <2>2, <2>3, <2>4 DEF KnownIsPending
  <2>6. orders[i].ticker \in Holdings
    BY <2>4, OnSaleIsHeld
  <2> QED BY <2>2, <2>5, <2>6 DEF StillPending
<1>3. ASSUME NEW j \in Jobs \ {"watch"}, JobStep(j)
      PROVE  FALSE
  <2>1. pc["watch"] = "sell" /\ work'["watch"] = work["watch"]
    BY <1>0, <1>3, OwnWork
  <2>2. ~CloseSell
    BY <1>0, <2>1 DEF Gate, GateOrder, CloseShut, CloseSell, SellAll
  <2>3. orders'[i] = orders[i]
    BY <1>0, <1>3, <2>2, JobSales DEF NoNewSales
  <2> QED BY <1>1, <2>1, <2>3 DEF Live
<1>4. CASE StartStep \/ BrokerStep \/ Bell \/ NextDate \/ UNCHANGED vars
  <2>1. pc["watch"] = "sell" /\ work'["watch"] = work["watch"]
    BY <1>0, <1>4, OtherWork DEF Waiting
  <2>2. /\ Live(i) /\ orders'[i].side = orders[i].side
        /\ orders'[i].ticker = orders[i].ticker /\ orders'[i].known = orders[i].known
    BY <1>4, OtherOrders DEF NoNewOrders
  <2> QED BY <1>1, <2>1, <2>2
<1> QED BY <1>2, <1>3, <1>4 DEF RunStep

-----------------------------------------------------------------------------
(* The close                                                               *)

\* While the close works, or has worked, nobody else buys or sells.
LEMMA OnlyTheClose ==
    ASSUME Base, CloseShut, NEW j \in Jobs \ {"close"}, JobStep(j)
    PROVE  NoNewBuys /\ NoNewSales
<1> USE DEF Base, Order
<1>1. \A c \in Cycles : pc[c] \in {"idle", "acquire", "gate"}
  BY DEF Gate, GateOrder
<1>2. pc["buy"] = "over"
  BY DEF CloseShut, Hours
<1>3. ~(j \in Cycles /\ Submit(j)) /\ ~(j = "buy" /\ MockBuySubmit)
  BY <1>1, <1>2 DEF Submit, MockBuySubmit, BuyAll
<1>4. ~(j = "watch" /\ WatchSell)
  BY <1>1 DEF WatchSell, SellAll, Cycles
<1> QED BY <1>3, <1>4, JobBuys, JobSales

LEMMA OrdersShrink ==
    ASSUME NoNewBuys, NoNewSales
    PROVE  LiveOrders' \subseteq LiveOrders
BY DEF NoNewBuys, NoNewSales, LiveOrders, Live

LEMMA OthersShrink ==
    ASSUME NoNewOrders
    PROVE  LiveOrders' \subseteq LiveOrders
BY DEF NoNewOrders, LiveOrders, Live

\* What a step may do to `clean` and to `closed`.
LEMMA JobClean ==
    ASSUME Base, NEW j \in Jobs, JobStep(j)
    PROVE  /\ (clean' => clean) \/ (j = "close" /\ CloseAcquire)
           /\ closed' = closed \/ (j = "close" /\ CloseSell)
<1> USE DEF Base, Order
<1> DEFINE SameClean == clean' = clean \/ clean' = (clean /\ j # "close")
<1>1. ASSUME NEW k \in Jobs, NEW record, BuyAll(k, record)
      PROVE  SameClean /\ closed' = closed
  BY <1>1, BuyFrame
<1>2. WatchSell => SameClean /\ closed' = closed
  BY WatchSells DEF WatchSell, SellAll
<1>3. CloseSell => SameClean
  BY DEF CloseSell, SellAll
<1>4. ListFails(j) \/ Cancel(j) => SameClean /\ closed' = closed
  BY DEF ListFails, Cancel, CancelOne, CancelRaises
<1>5. List(j) \/ Raise(j) \/ WatchPoll \/ ClosePoll => SameClean /\ closed' = closed
  BY DEF List, Raise, WatchPoll, ClosePoll, history
<1>6. CloseAcquire => closed' = closed
  BY DEF CloseAcquire
<1>7. ASSUME NEW c, TryLock(c) \/ SecondLook(c) \/ Screen(c) \/ Filter(c)
      PROVE  SameClean /\ closed' = closed
  BY <1>7 DEF TryLock, SecondLook, Screen, Filter, history
<1>8. SameClean => (clean' => clean)
  BY Zenon
<1> HIDE DEF SameClean
<1>9. /\ SameClean \/ (j = "close" /\ CloseAcquire)
      /\ closed' = closed \/ (j = "close" /\ CloseSell)
  BY <1>1, <1>2, <1>3, <1>4, <1>5, <1>6, <1>7 DEF JobStep, CycleStep, Submit,
                                                  MockBuySubmit
<1> QED BY <1>8, <1>9

LEMMA LiveIsOrder ==
    ASSUME TypeOK, NEW i \in 1..Slots, Live(i)
    PROVE  orders[i] \in Orders
BY DEF TypeOK, Live, Gone

\* The close goes from its cancellations on to the poll.
LEMMA CloseCancels ==
    ASSUME TypeOK, Control, pc["close"] \in {"list", "cancel"},
           NEW done \in SUBSET Tickers, CancelsDone("close", done)
    PROVE  pc'["close"] = "poll"
<1>1. "close" \in Jobs /\ "close" \notin Cycles
  BY DEF Jobs, Cycles
<1> QED BY <1>1 DEF CancelsDone, Goto, TypeOK

LEMMA CloseClearsKept ==
    ASSUME Base, CloseClears, RunStep, Base'
    PROVE  CloseClears'
<1> USE DEF Base, Order
<1> DEFINE wanted == {[ticker |-> t, kind |-> "EOD", qty |-> held[t]] : t \in Holdings}
<1>0. "close" \in Jobs /\ "close" \notin Cycles
  BY DEF Jobs, Cycles
<1> SUFFICES ASSUME clean', pc'["close"] \in {"cancel", "poll", "sell"}
             PROVE  /\ pc'["close"] = "cancel" => LiveOrders' \subseteq work'["close"].todo
                    /\ pc'["close"] \in {"poll", "sell"} => LiveOrders' = {}
                    /\ pc'["close"] = "sell" => work'["close"].exits = wanted'
  BY DEF CloseClears
<1>1. CASE /\ clean /\ pc'["close"] = pc["close"] /\ work'["close"] = work["close"]
           /\ LiveOrders' \subseteq LiveOrders
           /\ LiveOrders = {} => held' = held
  <2>1. pc["close"] = "sell" => wanted' = wanted
    BY <1>1 DEF CloseClears, Holdings
  <2> QED BY <1>1, <2>1 DEF CloseClears
<1>2. ASSUME NEW j \in Jobs \ {"close"}, JobStep(j)
      PROVE  CloseClears'
  <2>1. clean /\ pc'["close"] = pc["close"] /\ work'["close"] = work["close"]
    BY <1>0, <1>2, JobClean, OwnWork
  <2>2. LiveOrders' \subseteq LiveOrders
    BY <1>2, <2>1, OnlyTheClose, OrdersShrink DEF CloseShut, Gate, GateOrder
  <2>3. held' = held
    BY <1>2, JobHeld
  <2> QED BY <1>1, <2>1, <2>2, <2>3 DEF CloseClears
<1>3. CASE StartStep \/ BrokerStep \/ Bell \/ NextDate \/ UNCHANGED vars
  <2>1. clean /\ pc'["close"] = pc["close"] /\ work'["close"] = work["close"]
    BY <1>0, <1>3, OtherWork DEF Waiting
  <2>2. LiveOrders' \subseteq LiveOrders
    BY <1>3, OtherOrders, OthersShrink
  <2>3. LiveOrders = {} => held' = held
    BY <1>3 DEF StartStep, Start, CloseStart, DryRun, MockBuy, CancelUnfilled, BrokerStep,
                Fill, Age, Bell, NextDate, vars, broker, LiveOrders
  <2> QED BY <1>1, <2>1, <2>2, <2>3
<1>4. CASE CloseAcquire
  BY <1>0, <1>4 DEF CloseAcquire, Goto, TypeOK
<1>5. CASE ClosePoll
  <2>1. /\ clean /\ pc["close"] = "poll" /\ pc'["close"] = "sell"
        /\ UNCHANGED <<orders, held>>
    BY <1>0, <1>5 DEF ClosePoll, Goto, TypeOK, history, broker
  <2>2. work'["close"].exits = wanted
    BY <1>0, <1>5 DEF ClosePoll, TypeOK, NoWork
  <2>3. LiveOrders' = LiveOrders /\ wanted' = wanted
    BY <2>1 DEF LiveOrders, Live, Holdings
  <2> QED BY <2>1, <2>2, <2>3 DEF CloseClears
<1>6. CASE CloseSell
  BY <1>0, <1>6, CloseSells DEF Leave, Goto, TypeOK
<1>7. CASE List("close")
  <2>1. Requests("close") = LiveOrders /\ LiveOrders' = LiveOrders
    BY <1>0, <1>7 DEF List, Requests, broker, LiveOrders, Live
  <2>2. CASE Requests("close") = {}
    <3>1. pc'["close"] = "poll"
      BY <1>7, <2>2, CloseCancels DEF List
    <3> QED BY <2>1, <2>2, <3>1
  <2>3. CASE Requests("close") # {}
    <3>1. pc'["close"] = "cancel"
      BY <1>0, <1>7, <2>3 DEF List, Goto, TypeOK
    <3>2. work'["close"].todo = Requests("close")
      BY <1>0, <1>7, <2>3, WorkFields DEF List, TypeOK, Work
    <3> QED BY <2>1, <3>1, <3>2
  <2> QED BY <2>2, <2>3
<1>8. CASE ListFails("close")
  BY <1>8 DEF ListFails
<1>9. CASE Cancel("close")
  <2>1. PICK i \in work["close"].todo : CancelOne("close", i)
    BY <1>9 DEF Cancel, CancelRaises
  <2>2. pc["close"] = "cancel" /\ clean
    BY <1>0, <1>9, <2>1 DEF Cancel, CancelOne
  <2>3. /\ LiveOrders \subseteq work["close"].todo
        /\ orders' = [orders EXCEPT ![i] = Gone]
        /\ i \in 1..Slots /\ Live(i)
    BY <1>0, <2>1, <2>2, WorkFields DEF CloseClears, CancelOne
  <2>4. LiveOrders' \subseteq LiveOrders \ {i}
    <3>1. ~(Gone.left > 0)
      BY DEF Gone
    <3> QED BY <2>3, <3>1 DEF LiveOrders, Live, TypeOK
  <2>5. orders[i].ticker \in Tickers
    <3>1. orders[i] \in Orders
      BY <2>3, LiveIsOrder
    <3> QED BY <3>1 DEF Orders
  <2>6. CASE work["close"].todo = {i}
    <3>1. PICK done \in SUBSET Tickers : CancelsDone("close", done)
      BY <1>0, <2>1, <2>5, <2>6, WorkFields DEF CancelOne
    <3>2. pc'["close"] = "poll"
      BY <2>2, <3>1, CloseCancels
    <3> QED BY <2>3, <2>4, <2>6, <3>2
  <2>7. CASE work["close"].todo # {i}
    <3>1. pc'["close"] = "cancel"
      BY <2>1, <2>2, <2>7 DEF CancelOne
    <3>2. work'["close"].todo = work["close"].todo \ {i}
      BY <1>0, <2>1, <2>7, WorkFields DEF CancelOne, TypeOK, Work
    <3> QED BY <2>3, <2>4, <3>1, <3>2
  <2> QED BY <2>6, <2>7
<1>10. CASE Raise("close")
  BY <1>0, <1>10 DEF Raise, Leave, Goto, TypeOK
<1>11. JobStep("close") => \/ CloseAcquire \/ ClosePoll \/ CloseSell \/ List("close")
                           \/ ListFails("close") \/ Cancel("close") \/ Raise("close")
  BY <1>0 DEF JobStep
<1> QED BY <1>2, <1>3, <1>4, <1>5, <1>6, <1>7, <1>8, <1>9, <1>10, <1>11
        DEF RunStep, CloseClears

Nothing ==
    \A t \in Tickers : InBook(t, BuySide) = 0 /\ held[t] = InBook(t, SellSides)

LEMMA ClosedIsOverKept ==
    ASSUME Base, CloseClears, ClosedIsOver, RunStep, Base'
    PROVE  ClosedIsOver'
<1> USE DEF Base, Order
<1>0. "close" \in Jobs /\ "cancel" \in Jobs /\ "close" \notin Cycles
  BY DEF Jobs, Cycles
<1> SUFFICES ASSUME closed' = today'
             PROVE  CloseDone' /\ \A i \in work'["cancel"].todo : ~Live(i)'
  BY DEF ClosedIsOver
<1>1. ASSUME NEW j \in Jobs, JobStep(j)
      PROVE  CloseDone' /\ \A i \in work'["cancel"].todo : ~Live(i)'
  <2>1. today' = today /\ CloseStarted' = CloseStarted
    BY <1>1, JobMoves DEF clock, CloseStarted
  <2>2. ASSUME NEW i \in work["cancel"].todo, ~Live(i)
        PROVE  ~Live(i)'
    <3>1. i \in (1..Slots) \ Unused
      BY <1>0, WorkFields DEF Unused
    <3>2. orders'[i] \in {orders[i], Gone}
      BY <1>1, <3>1, JobSlots
    <3> QED BY <2>2, <3>2 DEF Live, Gone
  <2>3. CASE j = "close" /\ CloseSell /\ closed' # closed
    <3>1. pc'["close"] = "over" /\ clean /\ pc["close"] = "sell"
      BY <1>0, <2>3, CloseSells DEF Leave, Goto, TypeOK, AllSold, CloseSell, SellAll
    <3>2. \A i \in 1..Slots : ~Live(i)
      BY <3>1 DEF CloseClears, LiveOrders
    <3>3. work'["cancel"] = work["cancel"]
      BY <1>0, <1>1, <2>3, OwnWork
    <3>4. CloseDone'
      BY <2>1, <3>1 DEF CloseDone, Gate, GateOrder
    <3> QED BY <1>0, <2>2, <3>2, <3>3, <3>4, WorkFields
  <2>4. CASE ~(j = "close" /\ CloseSell /\ closed' # closed)
    <3>1. closed = today
      BY <1>1, <2>1, <2>4, JobClean
    <3>2. CloseDone /\ pc["close"] = "over" /\ \A i \in work["cancel"].todo : ~Live(i)
      BY <3>1 DEF ClosedIsOver, CloseDone
    <3>3. CloseDone'
      <4>1. j # "close"
        BY <1>1, <3>2, JobMoves, JobRuns
      <4>2. pc'["close"] = "over"
        BY <1>0, <1>1, <3>2, <4>1, OwnWork
      <4> QED BY <2>1, <3>2, <4>2 DEF CloseDone
    <3>4. work'["cancel"].todo \subseteq work["cancel"].todo
      <4>1. CASE j = "cancel"
        <5>1. ~List(j)
          BY <3>2, <4>1 DEF List, Hours
        <5> QED BY <1>1, <4>1, <5>1, JobWorks DEF JobWork
      <4>2. CASE j # "cancel"
        BY <1>0, <1>1, <4>2, OwnWork
      <4> QED BY <4>1, <4>2
    <3> QED BY <2>2, <3>2, <3>3, <3>4
  <2> QED BY <2>3, <2>4
<1>2. CASE StartStep \/ BrokerStep \/ Bell \/ NextDate \/ UNCHANGED vars
  <2>1. work'["cancel"].todo = work["cancel"].todo /\ closed' = closed
    BY <1>0, <1>2, OtherWork
  <2>2. ~NextDate
    BY <2>1 DEF NextDate, Gate, TypeOK
  <2>3. today' = today /\ (pc["close"] = "over" => closeDate' = closeDate)
    BY <1>2, <2>2 DEF StartStep, Start, CloseStart, DryRun, MockBuy, CancelUnfilled,
                BrokerStep, Fill, Age, Bell, vars, clock
  <2>4. CloseStarted /\ pc["close"] = "over" /\ \A i \in work["cancel"].todo : ~Live(i)
    BY <2>1, <2>3 DEF ClosedIsOver, CloseDone
  <2>5. pc'["close"] = "over"
    BY <1>0, <1>2, <2>2, <2>4 DEF StartStep, Start, CloseStart, DryRun, MockBuy,
                CancelUnfilled, BrokerStep, Fill, Age, Bell, vars, Goto, TypeOK, Cycles
  <2>6. \A i \in work["cancel"].todo : i \in 1..Slots
    BY <1>0, WorkFields
  <2>7. CloseDone'
    BY <2>3, <2>4, <2>5 DEF CloseDone, CloseStarted
  <2> QED BY <1>2, <2>1, <2>4, <2>6, <2>7, OtherOrders DEF NoNewOrders
<1> QED BY <1>1, <1>2 DEF RunStep

\* After a close that went well no job touches the book.
LEMMA ClosedIsQuiet ==
    ASSUME Base, ClosedIsOver, closed = today, NEW j \in Jobs, JobStep(j)
    PROVE  orders' = orders
<1> USE DEF Base, Order
<1>0. CloseShut /\ pc["close"] = "over" /\ \A i \in work["cancel"].todo : ~Live(i)
  BY DEF ClosedIsOver, CloseDone, CloseShut
<1>1. \A c \in Cycles : pc[c] \in {"idle", "acquire", "gate"}
  BY <1>0 DEF Gate, GateOrder
<1>2. pc["buy"] = "over"
  BY <1>0 DEF Hours
<1>3. ~(j \in Cycles /\ Submit(j)) /\ ~(j = "buy" /\ MockBuySubmit)
  BY <1>1, <1>2 DEF Submit, MockBuySubmit, BuyAll
<1>4. ~(j = "watch" /\ WatchSell) /\ ~(j = "close" /\ CloseSell)
  BY <1>0, <1>1 DEF WatchSell, CloseSell, SellAll, Cycles
<1>5. CASE Cancel(j)
  <2>1. j = "cancel"
    BY <1>0, <1>1, <1>2, <1>5 DEF Cancel, Jobs
  <2> QED BY <1>0, <1>5, <2>1 DEF Cancel, CancelOne, CancelRaises
<1>6. CASE \/ List(j) \/ ListFails(j) \/ Raise(j) \/ WatchPoll \/ CloseAcquire \/ ClosePoll
           \/ \E c \in Cycles : TryLock(c) \/ SecondLook(c) \/ Screen(c) \/ Filter(c)
  BY <1>6 DEF List, ListFails, Raise, WatchPoll, CloseAcquire, ClosePoll, TryLock,
                    SecondLook, Screen, Filter, broker
<1> QED BY <1>3, <1>4, <1>5, <1>6 DEF JobStep, CycleStep

\* A ticker without shares in the book has no order in it.
LEMMA NoShareNoOrder ==
    ASSUME TypeOK, NEW i \in 1..Slots, Live(i), NEW sides, orders[i].side \in sides
    PROVE  InBook(orders[i].ticker, sides) # 0
<1> DEFINE t == orders[i].ticker
<1>1. orders[i] \in Orders
  BY LiveIsOrder
<1>2. i \in Listed(orders, t, sides)
  BY DEF Listed, Live
<1>3. HasShare(orders, i, <<i, 1>>)
  <2>1. orders[i].left \in Nat \ {0}
    BY <1>1 DEF Orders
  <2> QED BY <2>1 DEF HasShare
<1>4. <<i, 1>> \in SharesOf(orders, t, sides)
  BY <1>2, <1>3, MemberShares
<1>5. IsFiniteSet(SharesOf(orders, t, sides))
  BY SharesFinite DEF TypeOK
<1> QED BY <1>4, <1>5, FS_EmptySet, InBookIsShares

\* The book of another ticker, or side, is none of a fill's business.
LEMMA FillElsewhere ==
    ASSUME TypeOK, DataType', NEW i \in 1..Slots, Live(i),
           orders' = [orders EXCEPT ![i] = Rest(orders[i])],
           NEW t, NEW sides, orders[i].ticker # t \/ orders[i].side \notin sides
    PROVE  InBook(t, sides)' = InBook(t, sides)
<1>1. orders[i] \in Orders
  BY LiveIsOrder
<1>2. /\ orders \in [1..Slots -> Orders \cup {Gone}]
      /\ orders' \in [1..Slots -> Orders \cup {Gone}]
  BY DEF TypeOK, DataType
<1>3. \A k \in 1..Slots : k # i => orders'[k] = orders[k]
  BY <1>2
<1>4. orders'[i] = Rest(orders[i])
  BY <1>2
<1>5. i \notin Listed(orders, t, sides)
  BY DEF Listed
<1>6. i \notin Listed(orders', t, sides)
  <2>1. \/ Rest(orders[i]) = Gone
        \/ /\ Rest(orders[i]).ticker = orders[i].ticker
           /\ Rest(orders[i]).side = orders[i].side
    BY <1>1 DEF Rest, Orders
  <2>2. ~(Gone.left > 0)
    BY DEF Gone
  <2> QED BY <1>4, <2>1, <2>2 DEF Listed
<1>7. /\ \A k \in Listed(orders, t, sides) : orders[k] = orders'[k]
      /\ \A k \in Listed(orders', t, sides) : orders'[k] = orders[k]
  BY <1>3, <1>5, <1>6 DEF Listed
<1>8. /\ Cardinality(SharesOf(orders', t, sides)) <= Cardinality(SharesOf(orders, t, sides))
      /\ Cardinality(SharesOf(orders, t, sides)) <= Cardinality(SharesOf(orders', t, sides))
      /\ Cardinality(SharesOf(orders, t, sides)) \in Nat
      /\ Cardinality(SharesOf(orders', t, sides)) \in Nat
  BY <1>2, <1>7, FewerShares, SharesFinite
<1>9. Cardinality(SharesOf(orders', t, sides)) = Cardinality(SharesOf(orders, t, sides))
  BY <1>8
<1> QED BY <1>9, InBookIsShares

\* A sale that is filled takes a share out of the book and out of the account.
LEMMA FillKeepsNothing ==
    ASSUME TypeOK, DataType', Nothing, NEW i \in 1..Slots, Fill(i)
    PROVE  Nothing'
<1>1. /\ orders' = [orders EXCEPT ![i] = Rest(orders[i])] /\ Live(i)
      /\ held' = [held EXCEPT ![orders[i].ticker] = IF IsBuy(orders[i]) THEN @ + 1 ELSE @ - 1]
  BY DEF Fill
<1>2. orders[i] \in Orders /\ orders[i].ticker \in Tickers
      /\ orders \in [1..Slots -> Orders \cup {Gone}] /\ held \in [Tickers -> Nat]
  BY <1>1, LiveIsOrder DEF Orders, TypeOK
<1>3. ~IsBuy(orders[i])
  <2>1. ASSUME IsBuy(orders[i])
        PROVE  FALSE
    <3>1. orders[i].side \in BuySide
      BY <2>1 DEF IsBuy, BuySide
    <3> QED BY <1>1, <1>2, <3>1, NoShareNoOrder DEF Nothing
  <2> QED BY <2>1
<1>4. orders[i].side \in SellSides /\ orders[i].side \notin BuySide
  BY <1>2, <1>3 DEF Orders, IsBuy, SellSides, BuySide
<1> SUFFICES ASSUME NEW t \in Tickers
             PROVE  InBook(t, BuySide)' = 0 /\ held'[t] = InBook(t, SellSides)'
  BY DEF Nothing
<1>5. InBook(t, BuySide)' = 0
  BY <1>1, <1>4, FillElsewhere DEF Nothing
<1>6. CASE orders[i].ticker # t
  <2>1. InBook(t, SellSides)' = InBook(t, SellSides) /\ held'[t] = held[t]
    BY <1>1, <1>2, <1>6, FillElsewhere
  <2> QED BY <1>5, <2>1 DEF Nothing
<1>7. CASE orders[i].ticker = t
  <2>1. FillsOne(orders, orders', i, SellSides)
    BY <1>1, <1>2, <1>4 DEF FillsOne, FilledOne, Listed, Live
  <2>2. OneLess(orders, orders', i, SellSides)
    BY <2>1, OneShareLess
  <2>3. InBook(t, SellSides)' = InBook(t, SellSides) - 1
    BY <1>7, <2>2, InBookIsShares DEF OneLess
  <2>4. held'[t] = held[t] - 1
    BY <1>1, <1>2, <1>3, <1>7
  <2> QED BY <1>5, <2>3, <2>4 DEF Nothing
<1> QED BY <1>6, <1>7

LEMMA SameBook ==
    ASSUME Nothing, UNCHANGED <<orders, held>>
    PROVE  Nothing'
BY InBookIsShares DEF Nothing

\* The close that goes well leaves nothing open, and nothing opens afterwards.
LEMMA NothingOpenKept ==
    ASSUME Base, SharesOnSale, CloseClears, ClosedIsOver, CloseLeavesNothingOpen,
           RunStep, Base', ClosedIsOver'
    PROVE  CloseLeavesNothingOpen'
<1> USE DEF Base, Order
<1> SUFFICES ASSUME closed' = today'
             PROVE  Nothing'
  BY DEF CloseLeavesNothingOpen, Nothing
<1>0. DataType'
  BY TypeOfData DEF TypeOK, DataType
<1>1. ASSUME NEW j \in Jobs, JobStep(j)
      PROVE  Nothing'
  <2>1. today' = today /\ held' = held
    BY <1>1, JobMoves, JobHeld DEF clock
  <2>2. CASE closed = today
    BY <1>1, <2>1, <2>2, ClosedIsQuiet, SameBook DEF CloseLeavesNothingOpen, Nothing
  <2>3. CASE closed # today
    <3>1. j = "close" /\ CloseSell
      BY <1>1, <2>1, <2>3, JobClean
    <3>2. PICK out : Sells("close", out) /\ AllSold("close", out)
      BY <2>1, <2>3, <3>1, CloseSells
    <3>3. /\ LiveOrders = {}
          /\ work["close"].exits = {[ticker |-> t, kind |-> "EOD", qty |-> held[t]] :
                                       t \in Holdings}
      BY <3>1, <3>2 DEF CloseSell, SellAll, AllSold, CloseClears
    <3> QED BY <2>1, <3>2, <3>3, CloseShares DEF Nothing
  <2> QED BY <2>2, <2>3
<1>2. CASE StartStep \/ BrokerStep \/ Bell \/ NextDate \/ UNCHANGED vars
  <2>1. closed' = closed
    BY <1>2, OtherData
  <2>2. ~NextDate
    BY <2>1 DEF NextDate, Gate, TypeOK
  <2>3. today' = today
    BY <1>2, <2>2 DEF StartStep, Start, CloseStart, DryRun, MockBuy, CancelUnfilled,
                BrokerStep, Fill, Age, Bell, vars, clock
  <2>4. Nothing
    BY <2>1, <2>3 DEF CloseLeavesNothingOpen, Nothing
  <2>5. ASSUME NEW i \in 1..Slots, Age(i)
        PROVE  FALSE
    <3>1. Live(i) /\ orders[i].side \in BuySide
      BY <2>5 DEF Age, IsBuy, BuySide
    <3>2. orders[i].ticker \in Tickers
      BY <3>1, LiveIsOrder DEF Orders
    <3> QED BY <2>4, <3>1, <3>2, NoShareNoOrder DEF Nothing
  <2>6. ASSUME NEW i \in 1..Slots, Fill(i)
        PROVE  Nothing'
    BY <1>0, <2>4, <2>6, FillKeepsNothing
  <2>7. CASE StartStep \/ Bell \/ UNCHANGED vars
    <3>1. UNCHANGED <<orders, held>>
      BY <2>7 DEF StartStep, Start, CloseStart, DryRun, MockBuy, CancelUnfilled, Bell,
                  vars,
                  broker
    <3> QED BY <2>4, <3>1, SameBook
  <2> QED BY <1>2, <2>2, <2>5, <2>6, <2>7 DEF BrokerStep
<1> QED BY <1>1, <1>2 DEF RunStep

-----------------------------------------------------------------------------
(* The invariant and the theorems                                          *)

LEMMA InitIInv == Init => IInv
<1> SUFFICES ASSUME Init
             PROVE  IInv
  OBVIOUS
<1> USE DEF Init
<1>0. \A j \in Jobs : pc[j] = "idle" /\ work[j] = NoWork
  OBVIOUS
<1>1. TypeOK
  <2>1. NoWork \in Work
    BY DEF NoWork, Work
  <2>2. pc \in [Jobs -> Steps] /\ work \in [Jobs -> Work]
    BY <2>1 DEF Steps
  <2>3. latest \in Latest
    BY DEF Latest, Fresh
  <2>4. orders \in [1..Slots -> Orders \cup {Gone}] /\ held \in [Tickers -> Nat]
    OBVIOUS
  <2>5. /\ today \in 1..MaxDate /\ closeDate \in 0..MaxDate /\ closed \in 0..MaxDate
        /\ faults \in 0..MaxFaults
    BY MaxAssumption
  <2>6. /\ phase \in {"before", "open", "late", "after"}
        /\ lock \in {"watch", "recheck", "close", Free}
        /\ stopped \subseteq Tickers /\ entries \in Nat /\ uncounted \in Nat
        /\ doubled \in BOOLEAN /\ clean \in BOOLEAN
    OBVIOUS
  <2> QED BY <2>2, <2>3, <2>4, <2>5, <2>6 DEF TypeOK
<1>2. Order
  <2>1. Control
    <3>1. \A j \in Jobs : "idle" \in StepsOf[j]
      BY DEF Jobs, Cycles, StepsOf
    <3> QED BY <1>0, <3>1 DEF Control, NoWork
  <2>2. LockHeld
    BY <1>0 DEF LockHeld, Jobs, Cycles, Free
  <2>3. Gate
    BY <1>0 DEF Gate, GateOrder, CloseShut, CloseStarted, Jobs
  <2>4. Hours
    BY <1>0 DEF Hours, Jobs, Cycles
  <2> QED BY <1>1, <2>1, <2>2, <2>3, <2>4 DEF Order
<1>3. LiveOrders = {} /\ \A i \in 1..Slots : ~Live(i)
  BY DEF LiveOrders, Live, Gone
<1>4. Entries
  <2>1. EmptyBefore
    BY DEF EmptyBefore
  <2>2. CancelsBuys /\ NotInBook
    BY <1>0, <1>3 DEF CancelsBuys, NotInBook, NoWork, Jobs, Cycles
  <2>3. OneLiveEntry
    BY <1>3 DEF OneLiveEntry, OneEntryInBook
  <2> QED BY <2>1, <2>2, <2>3 DEF Entries
<1>5. StopLossRespected
  BY DEF StopLossRespected
<1>6. Rounds
  <2>1. latest.rounds = 0
    BY DEF Fresh
  <2>2. entries <= (latest.rounds + uncounted) * RoundCap
    <3>1. (0 + 0) * RoundCap = 0
      BY RoundAssumption
    <3> QED BY <2>1, <3>1
  <2> QED BY <1>0, <2>1, <2>2, RoundAssumption DEF Rounds, Jobs
<1>7. Sales
  <2>1. ExitsDiffer
    BY <1>0 DEF ExitsDiffer, NoWork
  <2>2. SharesOnSale
    <3>1. ASSUME NEW t \in Tickers
          PROVE  InBook(t, SellSides) = 0
      <4>1. SharesInBook(t, SellSides) = {}
        BY <1>3 DEF SharesInBook, OrdersOf
      <4> QED BY <4>1, FS_EmptySet DEF InBook
    <3> QED BY <3>1 DEF SharesOnSale
  <2>3. KnownIsPending /\ NoSecondFullExit
    BY <1>0, <1>3 DEF KnownIsPending, NoSecondFullExit, Jobs, Cycles
  <2> QED BY <2>1, <2>2, <2>3 DEF Sales
<1>8. Closing
  BY DEF Closing, CloseClears, ClosedIsOver, CloseLeavesNothingOpen
<1> QED BY <1>2, <1>4, <1>5, <1>6, <1>7, <1>8 DEF IInv

LEMMA RunIInv ==
    ASSUME IInv, RunStep
    PROVE  IInv'
<1>1. /\ Base /\ Entries /\ StopLossRespected /\ Rounds /\ SharesOnSale
      /\ KnownIsPending /\ NoSecondFullExit
      /\ CloseClears /\ ClosedIsOver /\ CloseLeavesNothingOpen
  BY DEF IInv, Base, Sales, Closing
<1>2. Base'
  BY <1>1, BaseKept
<1>3. Entries' /\ StopLossRespected' /\ Rounds'
  BY <1>1, <1>2, EntriesKept, StopLossKept, RoundsKept
<1>4. SharesOnSale' /\ KnownIsPending' /\ NoSecondFullExit'
  BY <1>1, <1>2, OnSaleKept, KnownKept, FullExitKept
<1>5. CloseClears' /\ ClosedIsOver'
  BY <1>1, <1>2, CloseClearsKept, ClosedIsOverKept
<1>6. CloseLeavesNothingOpen'
  BY <1>1, <1>2, <1>5, NothingOpenKept
<1> QED BY <1>2, <1>3, <1>4, <1>5, <1>6 DEF IInv, Base, Sales, Closing

\* A restart leaves nothing in hand, no round counted and no exit remembered; of
\* the book it changes only what the process knows, which is nothing.
LEMMA RestartOrders ==
    ASSUME TypeOK, Restart, NEW i \in 1..Slots
    PROVE  /\ orders'[i] \in Orders \cup {Gone}
           /\ orders[i] = Gone => orders'[i] = Gone
           /\ orders'[i].ticker = orders[i].ticker /\ orders'[i].side = orders[i].side
           /\ orders'[i].left = orders[i].left /\ ~orders'[i].known
<1>1. orders'[i] = [orders[i] EXCEPT !.known = FALSE]
  BY DEF Restart
<1>2. CASE orders[i] = Gone
  <2>1. Gone.known = FALSE
    BY Zenon DEF Gone
  <2>2. [Gone EXCEPT !.known = FALSE] = Gone
    BY <2>1, Zenon DEF Gone
  <2>3. orders'[i] = Gone
    BY <1>1, <1>2, <2>2
  <2> QED BY <1>2, <2>1, <2>3
<1>3. CASE orders[i] \in Orders
  <2>1. PICK o \in Orders : o = orders[i]
    BY <1>3
  <2>2. /\ [o EXCEPT !.known = FALSE] \in Orders
        /\ [o EXCEPT !.known = FALSE].known = FALSE
        /\ \A f \in {"ticker", "side", "left"} : [o EXCEPT !.known = FALSE][f] = o[f]
    BY DEF Orders
  <2>3. orders[i] # Gone
    <3>1. o.left # 0
      BY DEF Orders
    <3>2. Gone.left = 0
      BY DEF Gone
    <3> QED BY <2>1, <3>1, <3>2
  <2> QED BY <1>1, <2>1, <2>2, <2>3
<1> QED BY <1>2, <1>3 DEF TypeOK

LEMMA RestartBook ==
    ASSUME TypeOK, Restart
    PROVE  /\ LiveOrders' = LiveOrders
           /\ \A t, sides : OrdersOf(t, sides)' = OrdersOf(t, sides)
           /\ \A t, sides : InBook(t, sides)' = InBook(t, sides)
<1>1. \A i \in 1..Slots : /\ orders'[i].ticker = orders[i].ticker
                          /\ orders'[i].side = orders[i].side
                          /\ orders'[i].left = orders[i].left
  BY RestartOrders
<1>2. LiveOrders' = LiveOrders
  BY <1>1 DEF LiveOrders, Live
<1>3. ASSUME NEW t, NEW sides
      PROVE  OrdersOf(t, sides)' = OrdersOf(t, sides)
  BY <1>1, <1>2 DEF OrdersOf, LiveOrders
<1>4. ASSUME NEW t, NEW sides
      PROVE  InBook(t, sides)' = InBook(t, sides)
  <2>1. {{i} \X (1..orders'[i].left) : i \in OrdersOf(t, sides)'} =
            {{i} \X (1..orders[i].left) : i \in OrdersOf(t, sides)}
    BY <1>1, <1>3 DEF OrdersOf, LiveOrders
  <2>2. SharesInBook(t, sides)' = SharesInBook(t, sides)
    BY <2>1 DEF SharesInBook
  <2> QED BY <2>2 DEF InBook
<1> QED BY <1>2, <1>3, <1>4

LEMMA RestartIInv ==
    ASSUME IInv, Restart
    PROVE  IInv'
<1>0. /\ TypeOK /\ Control /\ Hours /\ EmptyBefore /\ OneLiveEntry
      /\ Rounds /\ SharesOnSale
  BY DEF IInv, Order, Entries, Sales
<1>1. /\ \A j \in Jobs : pc'[j] = IF j \in Cycles \/ pc[j] = "idle" THEN "idle" ELSE "over"
      /\ \A j \in Jobs : work'[j] = NoWork
      /\ lock' = Free /\ closeDate' = 0 /\ closed' = 0 /\ latest' = Fresh
      /\ uncounted' = uncounted + latest.rounds
      /\ UNCHANGED <<today, phase, stopped, held, entries, doubled, clean>>
      /\ faults < MaxFaults /\ faults' = faults + 1
  BY DEF Restart, Fails
<1>2. /\ NoWork.exits = {} /\ NoWork.todo = {} /\ NoWork.done = {} /\ NoWork.intents = {}
      /\ NoWork \in Work /\ Fresh \in Latest /\ Fresh.rounds = 0
  BY DEF NoWork, Fresh, Work, Latest
<1>3. today \in Nat \ {0} /\ latest.rounds \in Nat /\ uncounted \in Nat /\ entries \in Nat
  BY <1>0, LatestFields DEF TypeOK
<1>4. TypeOK'
  <2>1. pc' \in [Jobs -> Steps] /\ work' \in [Jobs -> Work]
    BY <1>2 DEF Restart, Steps
  <2>2. orders' \in [1..Slots -> Orders \cup {Gone}]
    BY <1>0, RestartOrders DEF Restart
  <2>3. uncounted' \in Nat /\ faults' \in 0..MaxFaults
    BY <1>0, <1>1, <1>3, MaxAssumption DEF TypeOK
  <2>4. closeDate' \in 0..MaxDate /\ closed' \in 0..MaxDate
    BY <1>1, MaxAssumption
  <2>5. lock' \in {"watch", "recheck", "close", Free} /\ latest' \in Latest
    BY <1>1, <1>2
  <2>6. /\ today' \in 1..MaxDate /\ phase' \in {"before", "open", "late", "after"}
        /\ stopped' \subseteq Tickers /\ held' \in [Tickers -> Nat] /\ entries' \in Nat
    BY <1>0, <1>1 DEF TypeOK
  <2>7. doubled' \in BOOLEAN /\ clean' \in BOOLEAN
    BY <1>0, <1>1 DEF TypeOK
  <2> QED BY <2>1, <2>2, <2>3, <2>4, <2>5, <2>6, <2>7 DEF TypeOK
<1>5. Control'
  <2>1. \A j \in Jobs : pc'[j] \in StepsOf[j]
    BY <1>0, <1>1 DEF Control, StepsOf, Jobs, Cycles
  <2> QED BY <1>1, <1>2, <2>1 DEF Control
<1>6. LockHeld' /\ Gate' /\ Hours'
  <2>1. \A c \in Cycles : pc'[c] = "idle"
    BY <1>1 DEF Jobs
  <2>2. \A j \in {"close", "buy", "cancel"} :
            pc'[j] = IF pc[j] = "idle" THEN "idle" ELSE "over"
    BY <1>1 DEF Jobs, Cycles
  <2>3. LockHeld'
    BY <1>1, <2>1, <2>2 DEF LockHeld, Free, Cycles
  <2>4. ~CloseStarted' /\ ~CloseShut'
    BY <1>1, <1>3 DEF CloseStarted, CloseShut
  <2>5. Gate'
    BY <1>1, <1>3, <2>2, <2>4 DEF Gate, GateOrder
  <2>6. Hours'
    BY <1>0, <1>1, <2>1, <2>2 DEF Hours
  <2> QED BY <2>3, <2>5, <2>6
<1>7. Entries'
  <2>1. EmptyBefore'
    <3>1. pc'["buy"] # "over" => pc["buy"] # "over"
      BY <1>1 DEF Jobs, Cycles
    <3> QED BY <1>0, <1>1, <3>1, RestartOrders DEF EmptyBefore
  <2>2. CancelsBuys' /\ NotInBook'
    BY <1>1, <1>2 DEF CancelsBuys, NotInBook, Jobs
  <2>3. OneLiveEntry'
    <3>1. \A i \in LiveOrders : orders'[i].ticker = orders[i].ticker
                               /\ orders'[i].side = orders[i].side
      BY <1>0, RestartOrders DEF LiveOrders
    <3> QED BY <1>0, <1>1, <3>1, RestartBook DEF OneLiveEntry, OneEntryInBook, IsBuy
  <2> QED BY <2>1, <2>2, <2>3 DEF Entries
<1>8. StopLossRespected'
  BY <1>1, <1>2 DEF StopLossRespected, Jobs
<1>9. Rounds'
  <2>1. latest'.rounds + uncounted' = latest.rounds + uncounted /\ latest'.rounds <= MaxRounds
    BY <1>1, <1>2, <1>3, RoundAssumption
  <2>2. \A c \in Cycles : pc'[c] # "submit"
    BY <1>1 DEF Jobs
  <2> QED BY <1>0, <1>1, <2>1, <2>2 DEF Rounds
<1>10. Sales'
  <2>1. ExitsDiffer'
    BY <1>1, <1>2 DEF ExitsDiffer
  <2>2. SharesOnSale'
    BY <1>0, <1>1, RestartBook DEF SharesOnSale
  <2>3. KnownIsPending'
    BY <1>0, RestartOrders DEF KnownIsPending, LiveOrders
  <2>4. NoSecondFullExit'
    BY <1>1 DEF NoSecondFullExit, Jobs, Cycles
  <2> QED BY <2>1, <2>2, <2>3, <2>4 DEF Sales
<1>11. Closing'
  <2>1. pc'["close"] \in {"idle", "over"}
    BY <1>1 DEF Jobs, Cycles
  <2>2. closed' # today'
    BY <1>1, <1>3
  <2> QED BY <2>1, <2>2 DEF Closing, CloseClears, ClosedIsOver, CloseLeavesNothingOpen
<1> QED BY <1>4, <1>5, <1>6, <1>7, <1>8, <1>9, <1>10, <1>11 DEF IInv, Order

LEMMA NextIInv ==
    ASSUME IInv, [Next]_vars
    PROVE  IInv'
BY RunIInv, RestartIInv DEF RunStep, Next

\* The inductive invariant holds of every behaviour.
THEOREM Inductive == Spec => []IInv
BY InitIInv, NextIInv, PTL DEF Spec

\* Every variable keeps its type, in a book of any size.
THEOREM TypeOKHolds == Spec => []TypeOK
<1>1. IInv => TypeOK
  BY DEF IInv, Order
<1> QED BY <1>1, Inductive, PTL

\* A ticker never has two buy orders in the book, unless mock_buy fell into the
\* session or an executor sent an order again: a cycle reads the book and submits
\* under one hold of the lock, and what it has cancelled is out of the book.
THEOREM OneLiveEntryHolds == Spec => []OneLiveEntry
<1>1. IInv => OneLiveEntry
  BY DEF IInv, Entries
<1> QED BY <1>1, Inductive, PTL

\* A cycle that is about to buy knows of every stop loss of today, unless its
\* lookup raised: the jobs that save one hold the lock while they do.
THEOREM StopLossRespectedHolds == Spec => []StopLossRespected
<1>1. IInv => StopLossRespected
  BY DEF IInv
<1> QED BY <1>1, Inductive, PTL

\* The cycles enter no more tickers in a day than the rounds of the settings
\* allow, and one more round for each that raised after its save or that a
\* restart of the process forgot.
THEOREM RoundsBoundedHolds == Spec => []RoundsBounded
<1>1. IInv => RoundsBounded
  BY RoundsBound DEF IInv, Order
<1> QED BY <1>1, Inductive, PTL

\* The watch submits no second sale of a position while its first, which the
\* process knows of, is in the book: as long as the process lives, `pending_exits`
\* forgets it only when nothing is held.
THEOREM NoSecondFullExitHolds == Spec => []NoSecondFullExit
<1>1. IInv => NoSecondFullExit
  BY DEF IInv, Sales
<1> QED BY <1>1, Inductive, PTL

\* After a close in which every call succeeded, and until the process is restarted,
\* nothing is left to buy and every share that is held is on sale, whatever is
\* filled or cancelled after it.
THEOREM CloseLeavesNothingOpenHolds == Spec => []CloseLeavesNothingOpen
<1>1. IInv => CloseLeavesNothingOpen
  BY DEF IInv, Closing
<1> QED BY <1>1, Inductive, PTL

-----------------------------------------------------------------------------
(* The jobs keep to the lock of CycleLock                                  *)

LockJobs == Cycles \cup {"close"}

LEMMA LockSteps ==
    /\ LockStep["gate"] = "recheck" /\ LockStep["over"] = "idle"
    /\ LockStep["idle"] = "idle" /\ LockStep["acquire"] = "acquire"
    /\ LockStep["wait"] = "wait"
    /\ \A s \in Steps \ Waiting : LockStep[s] = "body"
BY DEF LockStep, Steps, Waiting

\* A step of one job moves it in LockPC too, if it is one that takes the lock.
LEMMA LockPCMoves ==
    ASSUME TypeOK, NEW j \in Jobs, NEW s, pc' = [pc EXCEPT ![j] = s]
    PROVE  /\ j \in LockJobs => LockPC' = [LockPC EXCEPT ![j] = LockStep[s]]
           /\ j \notin LockJobs => LockPC' = LockPC
<1>1. \A k \in LockJobs : pc'[k] = IF k = j THEN s ELSE pc[k]
  BY DEF TypeOK, LockJobs, Jobs
<1>2. LockPC = [k \in LockJobs |-> LockStep[pc[k]]]
      /\ LockPC' = [k \in LockJobs |-> LockStep[pc'[k]]]
  BY DEF LockPC, LockJobs
<1> QED BY <1>1, <1>2

\* A job at its second look looks.
LEMMA AtTheGate ==
    ASSUME NEW j \in Jobs, JobStep(j), pc[j] = "gate"
    PROVE  SecondLook(j)
BY DEF JobStep, CycleStep, TryLock, Screen, Filter, Submit, BuyAll, WatchPoll, WatchSell,
       CloseAcquire, ClosePoll, CloseSell, SellAll, MockBuySubmit, List, ListFails, Cancel,
       Raise

\* The close has had the lock today from the step in which it gets it.
LEMMA JobShut ==
    ASSUME Base, NEW j \in Jobs, JobMove(j), UNCHANGED clock
    PROVE  /\ ~(j = "close" /\ CloseAcquire) => CloseShut' = CloseShut
           /\ j = "close" /\ CloseAcquire => CloseShut' = TRUE
<1> USE DEF Base, Order
<1>0. CloseStarted' = CloseStarted /\ "close" \in Jobs /\ "close" \notin Cycles
  BY DEF clock, CloseStarted, Jobs, Cycles
<1>1. CASE j # "close"
  <2>1. pc'["close"] = pc["close"]
    BY <1>0, <1>1 DEF JobMove, Leave, Goto, GoesOn, TryLock, CloseAcquire, TypeOK
  <2> QED BY <1>0, <1>1, <2>1 DEF CloseShut
<1>2. CASE j = "close" /\ CloseAcquire
  <2>1. pc'["close"] = "list" /\ CloseStarted
    BY <1>0, <1>2 DEF CloseAcquire, Goto, TypeOK, Gate, GateOrder
  <2> QED BY <1>0, <1>2, <2>1 DEF CloseShut
<1>3. CASE j = "close" /\ Working(j)
  <2>1. CloseStarted
    BY <1>3 DEF Working, Gate, GateOrder
  <2>2. pc["close"] \notin {"idle", "wait"}
    BY <1>3 DEF Working
  <2>3. pc'["close"] \notin {"idle", "wait"}
    <3>1. CASE Leave(j)
      BY <1>0, <1>3, <3>1 DEF Leave, Goto, TypeOK
    <3>2. ASSUME NEW s, NEW w, GoesOn(j, s, w)
          PROVE  pc'["close"] \notin {"idle", "wait"}
      BY <1>0, <1>3, <3>2 DEF GoesOn, Waiting, TypeOK
    <3>3. CASE CloseAcquire
      BY <1>3, <3>3 DEF CloseAcquire, Working
    <3> QED BY <1>0, <1>3, <3>1, <3>2, <3>3 DEF JobMove
  <2> QED BY <1>0, <2>1, <2>2, <2>3 DEF CloseShut
<1> QED BY <1>0, <1>1, <1>2, <1>3 DEF JobMove

LEMMA JobFollows ==
    ASSUME Base, NEW j \in Jobs, JobStep(j)
    PROVE  [CL!Next]_(CL!vars)
<1> USE DEF Base, Order
<1>1. JobMove(j) /\ UNCHANGED <<today, phase, closeDate>>
  BY JobMoves DEF clock
<1>0. pc[j] # "wait" => CloseShut' = CloseShut
  BY <1>1, JobShut DEF clock, CloseAcquire
<1>2. CASE j \notin LockJobs
  <2>1. LockPC' = LockPC /\ lock' = lock
    <3>1. lock # j
      BY <1>2 DEF TypeOK, LockJobs, Jobs, Cycles, Free
    <3>2. \E s : pc' = [pc EXCEPT ![j] = s] /\ lock' = lock
      BY <1>1, <1>2, <3>1 DEF JobMove, Leave, Goto, GoesOn, LockJobs
    <3> QED BY <1>2, <3>2, LockPCMoves
  <2>2. CloseShut' = CloseShut
    BY <1>1, <1>2, JobShut DEF clock, LockJobs
  <2> QED BY <1>1, <2>1, <2>2 DEF CL!vars
<1>3. CASE j \in LockJobs
  <2>0. /\ LockPC[j] = LockStep[pc[j]] /\ pc[j] \in Steps
        /\ LockPC = [LockPC EXCEPT ![j] = LockPC[j]]
    BY <1>3 DEF LockPC, LockJobs, TypeOK, Jobs
  <2>1. CASE Working(j) /\ Leave(j)
    <3>0. CloseShut' = CloseShut
      BY <1>0, <2>1 DEF Working
    <3>1. lock = j /\ lock' = Free
      <4>1. lock = j
        BY <1>3, <2>1 DEF Working, LockHeld, LockJobs, Cycles
      <4> QED BY <2>1, <4>1 DEF Leave
    <3>2. LockPC' = [LockPC EXCEPT ![j] = "idle"]
      <4>1. PICK s \in {"idle", "over"} : pc' = [pc EXCEPT ![j] = s]
        BY <2>1 DEF Leave, Goto
      <4>2. LockPC' = [LockPC EXCEPT ![j] = LockStep[s]]
        BY <1>3, <4>1, LockPCMoves
      <4> QED BY <4>1, <4>2, LockSteps
    <3>3. CASE pc[j] = "gate"
      <4>1. j \in Cycles /\ CloseStarted
        <5>1. SecondLook(j) /\ j \in Cycles
          BY <1>3, <3>3, AtTheGate DEF LockJobs, Control, StepsOf
        <5>2. pc'[j] # FirstStep(j)
          BY <2>1, <5>1 DEF Leave, Goto, TypeOK, FirstStep
        <5> QED BY <3>3, <5>1, <5>2 DEF SecondLook, Goto, TypeOK
      <4>2. CL!Recheck(j)
        BY <1>1, <2>0, <3>0, <3>1, <3>2, <3>3, <4>1, LockSteps
           DEF CL!Recheck, CL!StillOpen, CL!CloseStarted, CloseStarted, CL!Free, Free
      <4> QED BY <4>1, <4>2 DEF CL!Next, CL!CycleStep
    <3>4. CASE pc[j] # "gate"
      <4>1. LockPC[j] = "body"
        BY <2>0, <2>1, <3>4, LockSteps DEF Working, Waiting
      <4>2. CASE j \in Cycles
        <5>1. CL!Finish(j)
          BY <1>1, <3>0, <3>1, <3>2, <4>1 DEF CL!Finish, CL!Free, Free
        <5> QED BY <4>2, <5>1 DEF CL!Next, CL!CycleStep
      <4>3. CASE j = "close"
        <5>1. CL!CloseFinish
          BY <1>1, <3>0, <3>1, <3>2, <4>1, <4>3 DEF CL!CloseFinish, CL!Free, Free
        <5> QED BY <5>1 DEF CL!Next, CL!CloseStep
      <4> QED BY <1>3, <4>2, <4>3 DEF LockJobs
    <3> QED BY <3>3, <3>4
  <2>2. ASSUME Working(j), pc[j] = "gate" => ~CloseStarted, NEW s, NEW w, GoesOn(j, s, w)
        PROVE  [CL!Next]_(CL!vars)
    <3>0. CloseShut' = CloseShut
      BY <1>0, <2>2 DEF Working
    <3>1. lock' = lock /\ LockPC' = [LockPC EXCEPT ![j] = "body"]
      <4>1. s \in Steps \ Waiting
        BY <2>2 DEF GoesOn, StepsOf, Steps, Jobs, Cycles
      <4>2. LockPC' = [LockPC EXCEPT ![j] = LockStep[s]]
        BY <1>3, <2>2, LockPCMoves DEF GoesOn
      <4> QED BY <2>2, <4>1, <4>2, LockSteps DEF GoesOn
    <3>2. CASE pc[j] = "gate"
      <4>1. j \in Cycles
        BY <1>3, <3>2 DEF LockJobs, Control, StepsOf
      <4>2. CL!Recheck(j)
        BY <1>1, <2>0, <2>2, <3>0, <3>1, <3>2, LockSteps
           DEF CL!Recheck, CL!StillOpen, CL!CloseStarted, CloseStarted
      <4> QED BY <4>1, <4>2 DEF CL!Next, CL!CycleStep
    <3>3. CASE pc[j] # "gate"
      <4>1. LockPC[j] = "body"
        BY <2>0, <2>2, <3>3, LockSteps DEF Working, Waiting
      <4>2. LockPC' = LockPC
        BY <2>0, <3>1, <4>1
      <4> QED BY <1>1, <3>0, <3>1, <4>2 DEF CL!vars
    <3> QED BY <3>2, <3>3
  <2>3. CASE j \in Cycles /\ TryLock(j)
    <3>0. CloseShut' = CloseShut
      BY <1>0, <2>3 DEF TryLock
    <3>1. LockPC[j] = "acquire"
      BY <2>0, <2>3, LockSteps DEF TryLock
    <3>2. CASE lock = Free
      <4>1. lock' = j /\ LockPC' = [LockPC EXCEPT ![j] = "recheck"]
        BY <1>3, <2>3, <3>2, LockPCMoves, LockSteps DEF TryLock, LockFree, Goto
      <4>2. CL!Acquire(j)
        BY <1>1, <3>0, <3>1, <3>2, <4>1 DEF CL!Acquire, CL!LockFree, CL!Free, Free
      <4> QED BY <2>3, <4>2 DEF CL!Next, CL!CycleStep
    <3>3. CASE lock # Free
      <4>1. lock' = lock /\ LockPC' = [LockPC EXCEPT ![j] = "idle"]
        BY <1>3, <2>3, <3>3, LockPCMoves, LockSteps DEF TryLock, LockFree, Goto
      <4>2. CL!Busy(j)
        BY <1>1, <3>0, <3>1, <3>3, <4>1 DEF CL!Busy, CL!LockFree, CL!Free, Free
      <4> QED BY <2>3, <4>2 DEF CL!Next, CL!CycleStep
    <3> QED BY <3>2, <3>3
  <2>4. CASE j = "close" /\ CloseAcquire
    <3>1. LockPC[j] = "wait" /\ lock = Free /\ lock' = "close"
      BY <2>0, <2>4, LockSteps DEF CloseAcquire, LockFree
    <3>2. LockPC' = [LockPC EXCEPT ![j] = "body"]
      <4>1. LockPC' = [LockPC EXCEPT ![j] = LockStep["list"]]
        BY <1>3, <2>4, LockPCMoves DEF CloseAcquire, Goto
      <4>2. "list" \in Steps \ Waiting
        BY DEF Steps, Waiting
      <4> QED BY <4>1, <4>2, LockSteps
    <3>3. CloseShut' = TRUE
      BY <1>1, <2>4, JobShut DEF clock
    <3>4. CL!CloseAcquire
      BY <1>1, <2>4, <3>1, <3>2, <3>3 DEF CL!CloseAcquire, CL!LockFree, CL!Free, Free
    <3> QED BY <3>4 DEF CL!Next, CL!CloseStep
  <2> QED BY <1>1, <2>1, <2>2, <2>3, <2>4 DEF JobMove
<1> QED BY <1>2, <1>3

LEMMA OtherFollows ==
    ASSUME Base, StartStep \/ BrokerStep \/ Bell \/ NextDate \/ Restart \/ UNCHANGED vars
    PROVE  [CL!Next]_(CL!vars)
<1> USE DEF Base, Order
<1>1. CASE DryRun \/ BrokerStep \/ UNCHANGED vars
  <2>1. UNCHANGED <<today, phase, closeDate, lock, pc>>
    BY <1>1 DEF DryRun, BrokerStep, Fill, Age, vars, clock
  <2> QED BY <2>1 DEF CL!vars, LockPC, CloseShut, CloseStarted
<1>2. ASSUME NEW j \in {"buy", "cancel"}, NEW s, pc' = [pc EXCEPT ![j] = s],
             UNCHANGED <<today, phase, closeDate, lock>>
      PROVE  [CL!Next]_(CL!vars)
  <2>1. LockPC' = LockPC
    BY <1>2, LockPCMoves DEF LockJobs, Jobs, Cycles
  <2>2. CloseShut' = CloseShut
    BY <1>2 DEF CloseShut, CloseStarted, TypeOK, Jobs
  <2> QED BY <1>2, <2>1, <2>2 DEF CL!vars
<1>3. CASE MockBuy \/ CancelUnfilled
  BY <1>2, <1>3 DEF MockBuy, CancelUnfilled, Goto, clock
<1>4. ASSUME NEW c \in Cycles, Start(c)
      PROVE  [CL!Next]_(CL!vars)
  <2>1. LockPC' = [LockPC EXCEPT ![c] = "acquire"] /\ LockPC[c] = "idle"
    <3>1. c \in Jobs /\ c \in LockJobs
      BY DEF Jobs, LockJobs
    <3>2. LockPC' = [LockPC EXCEPT ![c] = LockStep["acquire"]]
      BY <1>4, <3>1, LockPCMoves DEF Start, Goto
    <3>3. LockPC[c] = LockStep["idle"]
      BY <1>4, <3>1 DEF Start, LockPC, LockJobs
    <3> QED BY <3>2, <3>3, LockSteps
  <2>2. CloseShut' = CloseShut
    BY <1>4 DEF Start, Goto, clock, CloseShut, CloseStarted
  <2>3. CL!Gate(c)
    BY <1>4, <2>1, <2>2 DEF Start, clock, InSession, CloseStarted, CL!Gate, CL!GateOpen,
                      CL!CloseStarted
  <2> QED BY <2>3 DEF CL!Next, CL!CycleStep
<1>5. CASE CloseStart
  <2>1. LockPC' = [LockPC EXCEPT !["close"] = "wait"] /\ LockPC["close"] = "idle"
    <3>1. "close" \in Jobs /\ "close" \in LockJobs
      BY DEF Jobs, LockJobs
    <3>2. LockPC' = [LockPC EXCEPT !["close"] = LockStep["wait"]]
      BY <1>5, <3>1, LockPCMoves DEF CloseStart, Goto
    <3>3. LockPC["close"] = LockStep["idle"]
      BY <1>5, <3>1 DEF CloseStart, LockPC, LockJobs
    <3> QED BY <3>2, <3>3, LockSteps
  <2>2. CloseShut' = CloseShut
    BY <1>5 DEF CloseStart, Goto, CloseShut, TypeOK, Jobs
  <2>3. CL!CloseStart
    BY <1>5, <2>1, <2>2 DEF CloseStart, CL!CloseStart
  <2> QED BY <2>3 DEF CL!Next, CL!CloseStep
<1>6. CASE Bell
  <2>0. LockPC' = LockPC /\ UNCHANGED <<today, closeDate, lock>>
    BY <1>6 DEF Bell, LockPC, TypeOK, Jobs, Cycles
  <2>1. LockPC' = LockPC /\ UNCHANGED <<today, closeDate, lock, CloseShut>>
    <3>1. pc'["close"] = pc["close"]
      BY <1>6 DEF Bell, TypeOK, Jobs
    <3> QED BY <2>0, <3>1 DEF CloseShut, CloseStarted
  <2>2. CASE phase = "open" /\ phase' = "late"
    BY <2>1, <2>2 DEF CL!vars
  <2>3. CASE \/ phase = "before" /\ phase' = "open"
             \/ phase = "late" /\ phase' = "after"
    <3>1. CL!Bell
      BY <2>1, <2>3 DEF CL!Bell
    <3> QED BY <3>1 DEF CL!Next
  <2> QED BY <1>6, <2>2, <2>3 DEF Bell
<1>7. CASE NextDate
  <2>1. \A j \in LockJobs : LockPC[j] = "idle" /\ LockPC'[j] = "idle"
    BY <1>7, LockSteps DEF NextDate, AllEnded, LockPC, LockJobs, Jobs
  <2>2. LockPC' = LockPC
    BY <2>1 DEF LockPC, LockJobs
  <2>3. CL!NextDate
    <3>1. CloseShut' = FALSE
      BY <1>7 DEF NextDate, CloseShut, Jobs
    <3> QED BY <1>7, <2>1, <2>2, <3>1 DEF NextDate, CL!NextDate, CL!Jobs, LockJobs
  <2> QED BY <2>3 DEF CL!Next
<1>8. CASE Restart
  <2>1. LockPC' = [j \in LockJobs |-> "idle"]
    BY <1>8, LockSteps DEF Restart, LockPC, LockJobs, Jobs
  <2>2. CloseShut' = FALSE
    BY <1>8 DEF Restart, CloseShut, CloseStarted, TypeOK
  <2>3. CL!Restart
    BY <1>8, <2>1, <2>2 DEF Restart, CL!Restart, CL!NoDate, CL!Free, Free, CL!Jobs,
                            LockJobs
  <2> QED BY <2>3 DEF CL!Next
<1> QED BY <1>1, <1>3, <1>4, <1>5, <1>6, <1>7, <1>8 DEF StartStep

\* The detailed jobs implement the lock and the gate of CycleLock: what is proved
\* of it holds of them.
THEOREM FollowsCycleLockHolds == Spec => FollowsCycleLock
<1>1. Init => CL!Init
  <2>1. Init => LockPC = [j \in LockJobs |-> "idle"]
    BY LockSteps DEF Init, LockPC, LockJobs, Jobs
  <2>2. Init => CloseShut = FALSE
    BY DEF Init, CloseShut, Jobs
  <2> QED BY <2>1, <2>2 DEF Init, CL!Init, CL!Sessions, CL!NoDate, CL!Free, Free,
                            CL!Jobs, LockJobs
<1>2. IInv /\ [Next]_vars => [CL!Next]_(CL!vars)
  BY JobFollows, OtherFollows DEF IInv, Base, Sales, Next
<1> QED BY <1>1, <1>2, Inductive, PTL DEF Spec, FollowsCycleLock, CL!Spec
=============================================================================

--------------------------- MODULE LiveSnapshots ---------------------------
(***************************************************************************)
(* The account as the monitor shows it: scheduler_state.write_live_state   *)
(* polls orders, account and holdings one after the other, saves them in   *)
(* four tables, each delete and insert by a connection of its own, and     *)
(* then writes the state file; monitor_state_service.py puts the tables    *)
(* over the file, and reads earlier dates from the tables alone.  Several  *)
(* jobs poll, at the same time too, and any read or save may fail.  A read *)
(* that fails counts as an empty account, and is saved as one.             *)
(***************************************************************************)
EXTENDS Integers, Sequences, SequencesExt

CONSTANTS
    Pollers,        \* jobs that call write_live_state
    Stages,         \* what the account goes through: [cash, orders, holdings]
    Leftover,       \* what earlier polls, which overlapped, left in the tables
    Outages,        \* which requests of a poll may fail together
    Transactional,  \* pyodbc: an insert of several rows is one transaction;
                    \* DotNetSqlConnection commits each row
    LastDate,       \* bound: trade dates
    MaxPolls        \* bound: polls

HeldItems == [ticker : Nat, quantity : Nat]
DatedRows(values) == [day : Nat, value : values]
DatedHoldings == [day : Nat, value : HeldItems, old : BOOLEAN]

\* KisAccountReader.holdings leaves out what is not held; that the brokerage
\* lists a ticker once is taken for granted (_holding_map, holding_prices).
ASSUME SnapshotAssumption ==
    /\ Stages \in Seq([cash : Nat, orders : Seq(Nat), holdings : Seq(HeldItems)])
    /\ \A n \in DOMAIN Stages : LET listed == Stages[n].holdings IN
          /\ \A i \in DOMAIN listed : listed[i].quantity > 0
          /\ \A i, j \in DOMAIN listed : listed[i].ticker = listed[j].ticker => i = j
    /\ Leftover \in [current : Seq(DatedRows(Int)), snapshots : Seq(DatedRows(Int)),
                     orders : Seq(DatedRows(Nat)), holdings : Seq(DatedHoldings)]
    /\ Len(Leftover.current) <= 1
    /\ Stages # <<>> /\ Transactional \in BOOLEAN
    /\ LastDate \in Nat \ {0} /\ MaxPolls \in Nat

VARIABLES
    accountStage,   \* of the account at the brokerage
    currentDate,    \* current_trade_date
    snapshotTables, \* account_current, account_snapshot, order_ and holding_snapshot
    stateFile,      \* the file behind MonitorStateReader
    livePoll,       \* what each job is doing
    soloPoll,          \* history: the job whose poll began last and met no other
    livePolls       \* polls begun

snapshotVars ==
    <<accountStage, currentDate, snapshotTables, stateFile, livePoll, soloPoll, livePolls>>

NoAccount == [cash |-> 0, orders |-> <<>>, holdings |-> <<>>]
NoPoll == [at |-> "idle", seen |-> NoAccount, day |-> 1, broke |-> FALSE, written |-> FALSE]
NoCash == -1      \* empty_account: "-"

SnapshotInit ==
    /\ accountStage = 1 /\ currentDate = 1
    /\ snapshotTables = Leftover
    /\ stateFile = [NoAccount EXCEPT !.cash = NoCash]
    /\ livePoll = [p \in Pollers |-> NoPoll]
    /\ soloPoll = "none" /\ livePolls = 0

SnapshotTypeOK ==
    /\ accountStage \in DOMAIN Stages /\ currentDate \in 1 .. LastDate
    /\ Len(snapshotTables.current) <= 1
    /\ \A p \in Pollers :
          livePoll[p].at \in {"idle", "current", "snapshot", "clear_orders", "orders",
                          "clear_holdings", "holdings", "file"}
    /\ soloPoll \in Pollers \cup {"none"}

-----------------------------------------------------------------------------
\* Bound: not while rows are being saved, whose date is settled by then.
DayPasses ==
    /\ currentDate < LastDate /\ currentDate' = currentDate + 1
    /\ \A p \in Pollers : livePoll[p].at \in {"idle", "current"}
    /\ UNCHANGED <<accountStage, snapshotTables, stateFile, livePoll, soloPoll, livePolls>>

\* _safe_order_rows, _safe_account, _safe_holdings: a request that fails reads
\* as nothing.
AccountRequests == {"orders", "account", "holdings"}
Answered(request, at, unanswered) ==
    LET state == IF request \in unanswered THEN NoAccount ELSE Stages[at] IN
    CASE request = "orders" -> state.orders
      [] request = "account" -> state.cash
      [] request = "holdings" -> state.holdings

\* live_kis_monitor_state, during which the account goes on.
Polls(p, later, unanswered) ==
    /\ livePoll[p].at = "idle" /\ livePolls < MaxPolls /\ livePolls' = livePolls + 1
    /\ accountStage <= later /\ accountStage' = later
    /\ LET others == {q \in Pollers \ {p} : livePoll[q].at # "idle"} IN
       /\ soloPoll' = IF others = {} THEN p ELSE "none"
       /\ livePoll' = [q \in Pollers |->
                     CASE q = p -> [NoPoll EXCEPT
                                      !.at = "current",
                                      !.seen = [orders |-> Answered("orders", accountStage, unanswered),
                                                cash |-> Answered("account", later, unanswered),
                                                holdings |-> Answered("holdings", later, unanswered)]]
                       [] q \in others -> livePoll[q]
                       [] OTHER -> NoPoll]
    /\ UNCHANGED <<currentDate, snapshotTables, stateFile>>

NextSave(p, step) ==
    /\ livePoll' = [livePoll EXCEPT ![p].at = step]
    /\ UNCHANGED <<accountStage, currentDate, stateFile, soloPoll, livePolls>>
Saving(p, here) == livePoll[p].at = here
RowOf(p, value) == [day |-> livePoll[p].day, value |-> value]
RowsOf(p, values) == [i \in DOMAIN values |-> RowOf(p, values[i])]

\* persist_live_snapshot takes current_trade_date before the first save; the
\* poll may have begun on the date before.
StartsSaving(p) ==
    /\ Saving(p, "current")
    /\ livePoll' = [livePoll EXCEPT ![p].at = "snapshot", ![p].day = currentDate]
    /\ snapshotTables' = [snapshotTables EXCEPT !.current = <<[day |-> currentDate, value |-> livePoll[p].seen.cash]>>]
    /\ UNCHANGED <<accountStage, currentDate, stateFile, soloPoll, livePolls>>
SavesSnapshot(p) ==
    /\ Saving(p, "snapshot") /\ NextSave(p, "clear_orders")
    /\ snapshotTables' = [snapshotTables EXCEPT !.snapshots = Append(@, RowOf(p, livePoll[p].seen.cash))]

\* The rows of a table that a WHERE leaves, by their numbers.
Filtered(rows, numbers) ==
    LET filtered[n \in 0 .. Len(rows)] ==
            IF n = 0 THEN <<>>
            ELSE IF n \in numbers THEN Append(filtered[n - 1], rows[n]) ELSE filtered[n - 1]
    IN  filtered[Len(rows)]

Mutant_WithoutDay(rows, date) == rows
WithoutDay(rows, date) == Filtered(rows, {i \in DOMAIN rows : rows[i].day # date})
ClearsOrders(p) ==
    /\ Saving(p, "clear_orders") /\ NextSave(p, "orders")
    /\ snapshotTables' = [snapshotTables EXCEPT !.orders = WithoutDay(@, livePoll[p].day)]
SavesOrders(p) ==
    /\ Saving(p, "orders") /\ NextSave(p, "clear_holdings")
    /\ snapshotTables' = [snapshotTables EXCEPT !.orders = @ \o RowsOf(p, livePoll[p].seen.orders)]
ClearsHoldings(p) ==
    /\ Saving(p, "clear_holdings") /\ NextSave(p, "holdings")
    /\ snapshotTables' = [snapshotTables EXCEPT !.holdings = WithoutDay(@, livePoll[p].day)]
\* Rows more than five seconds older than the newest are not shown today.
Aged(rows, later) == IF later THEN [i \in DOMAIN rows |-> [rows[i] EXCEPT !.old = TRUE]] ELSE rows
HoldingRows(p) ==
    LET listed == livePoll[p].seen.holdings
        held == Filtered(listed, {i \in DOMAIN listed : listed[i].quantity > 0}) IN
    [i \in DOMAIN held |-> [day |-> livePoll[p].day, value |-> held[i], old |-> FALSE]]
SavesHoldings(p, later) ==
    /\ Saving(p, "holdings") /\ NextSave(p, "file")
    /\ snapshotTables' = [snapshotTables EXCEPT !.holdings =
                    IF HoldingRows(p) = <<>> THEN @ ELSE Aged(@, later) \o HoldingRows(p)]

\* A connection or a statement raises: the rest is left out, of an insert the
\* rest of the rows.  Where the process ends instead, the file is not written
\* either.  What follows for the fills may raise too, and changes nothing here.
SaveRaises(p, inserted) ==
    /\ livePoll[p].at \notin {"idle", "file"}
    /\ inserted > 0 => ~Transactional
    /\ CASE Saving(p, "orders") /\ inserted < Len(livePoll[p].seen.orders) ->
              snapshotTables' = [snapshotTables EXCEPT !.orders =
                           @ \o SubSeq(RowsOf(p, livePoll[p].seen.orders), 1, inserted)]
         [] Saving(p, "holdings") /\ inserted < Len(HoldingRows(p)) ->
              snapshotTables' = [snapshotTables EXCEPT !.holdings = @ \o SubSeq(HoldingRows(p), 1, inserted)]
         [] OTHER -> inserted = 0 /\ UNCHANGED snapshotTables
    /\ livePoll' = [livePoll EXCEPT ![p].at = "file", ![p].broke = TRUE]
    /\ UNCHANGED <<accountStage, currentDate, stateFile, soloPoll, livePolls>>

\* write_state_file, whatever became of the tables.
WritesFile(p, written) ==
    /\ Saving(p, "file")
    /\ stateFile' = IF written THEN livePoll[p].seen ELSE stateFile
    /\ livePoll' = [livePoll EXCEPT ![p] = IF soloPoll = p THEN [@ EXCEPT !.at = "idle", !.written = written]
                                   ELSE NoPoll]
    /\ UNCHANGED <<accountStage, currentDate, snapshotTables, soloPoll, livePolls>>

SnapshotNext ==
    \/ DayPasses
    \/ \E p \in Pollers :
          \/ \E later \in DOMAIN Stages, unanswered \in Outages : Polls(p, later, unanswered)
          \/ StartsSaving(p) \/ SavesSnapshot(p) \/ ClearsOrders(p) \/ SavesOrders(p)
          \/ ClearsHoldings(p)
          \/ \E later \in BOOLEAN : SavesHoldings(p, later)
          \/ \E inserted \in 0 .. Len(livePoll[p].seen.orders) + Len(livePoll[p].seen.holdings) :
                SaveRaises(p, inserted)
          \/ \E written \in BOOLEAN : WritesFile(p, written)

SnapshotSpec == SnapshotInit /\ [][SnapshotNext]_snapshotVars

-----------------------------------------------------------------------------
(* SqlMonitorStateSource over the file.  A query of these may fail alone.  *)
TableQueries == {"current", "snapshot", "orders", "holdings"}
ValuesOf(rows, date) ==
    LET on == Filtered(rows, {i \in DOMAIN rows : rows[i].day = date}) IN
    [i \in DOMAIN on |-> on[i].value]
\* history_account, history_orders and history_holdings
HistoryAccount(date) ==
    LET values == ValuesOf(snapshotTables.snapshots, date) IN
    IF values = <<>> THEN NoCash ELSE Last(values)
HistoryOrders(date) == Reverse(ValuesOf(snapshotTables.orders, date))
NewestPerTicker(items) ==
    {items[i] : i \in {i \in DOMAIN items :
                         \A k \in i + 1 .. Len(items) : items[k].ticker # items[i].ticker}}
HistoryHoldings(date) == NewestPerTicker(ValuesOf(snapshotTables.holdings, date))

\* latest_account, of whatever date where account_current can be read; the
\* account of the file stands where there is none.
LatestAccount(failing) ==
    CASE "current" \notin failing /\ snapshotTables.current # <<>> -> snapshotTables.current[1].value
      [] OTHER -> IF "snapshot" \in failing THEN NoCash ELSE HistoryAccount(currentDate)
ShownAccount(failing) ==
    IF LatestAccount(failing) = NoCash THEN stateFile.cash ELSE LatestAccount(failing)
LatestOrders(failing) == IF "orders" \in failing THEN <<>> ELSE HistoryOrders(currentDate)
LatestHoldings(failing) ==
    IF "holdings" \in failing THEN {}
    ELSE LET table == snapshotTables.holdings
             recent == Filtered(table, {i \in DOMAIN table : ~table[i].old}) IN
         NewestPerTicker(ValuesOf(recent, currentDate))

\* However polls overlapped, broke off or died before: after a poll that met no
\* other and could save what it read, the file, the page of today, also if some
\* of the queries fail, and the page of its date show exactly what it read: no
\* order twice, nothing that was sold since, nothing of another date.
PolledIsShown ==
    (soloPoll # "none" /\ livePoll[soloPoll].at = "idle")
    => LET mine == livePoll[soloPoll]
           held == ToSet(mine.seen.holdings) IN
       /\ mine.written => stateFile = mine.seen
       /\ ~mine.broke
          => /\ HistoryAccount(mine.day) = mine.seen.cash
             /\ HistoryOrders(mine.day) = Reverse(mine.seen.orders)
             /\ HistoryHoldings(mine.day) = held
       /\ (~mine.broke /\ mine.written /\ mine.day = currentDate)
          => /\ \A failing \in SUBSET TableQueries : ShownAccount(failing) = mine.seen.cash
             /\ LatestOrders({}) = Reverse(mine.seen.orders)
             /\ LatestHoldings({}) = held
=============================================================================

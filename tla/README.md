# auto_trading in TLA+

A verification project for this repository: an automatic trader for U.S. stocks
on a Korea Investment & Securities (KIS) mock account. The modules model the
scheduler's jobs, orders and fills, the screening and planning before a purchase,
the stores that several processes share, and the records and reports by which
the strategy is judged. TLC checks them on small instances; TLAPS proves the
theorems named below for every value of the constants. Paths are relative to
`src/trading_bot/` of the repository unless they begin with `tools/`;
`PROJECT.json` gives the lines each definition translates and the hazards each
property watches.

## 1. The system

One process, `run_scheduler` (`apscheduler_runner.py`), runs the jobs that
`live_mock_tasks` (`scheduled_tasks.py`) makes, each firing on a thread of its own.
A monitor server and the command line are other processes on the same account,
database and files. KIS is reached over HTTP, the database is SQL Server.

| Component | State | Operations | What makes it correct | Module |
|---|---|---|---|---|
| Scheduler clock, trading guard (`schedule.py`, `apscheduler_runner.py`) | triggers; age of `monitor/state.json` | fire a job; skip it while the database is away or the file is older than 600 s | the jobs of a healthy day run; a short failure heals | `Timeline` |
| Cycle lock and close gate (`scheduled_tasks.py`) | `cycle_lock`, `latest.market_close_trade_date` | try, wait, release; shut the gate | mutual exclusion; no trade of the same process after the close; the close gets its turn | `CycleLock` |
| Trading jobs (`scheduled_tasks.py`, `scheduler_recheck.py`) | `_LatestRunState` | the six jobs of a day | one entry per ticker, limits per day, no double sale, nothing left open | `TradingSession` |
| Cancellation and retry (`scheduler_orders.py`, `order_cancellation.py`) | `retried_buy_tickers` | cancel, release tickers | a cancelled ticker is bought again at most once | `TradingSession` |
| Entry limits, stop-loss guards (`intraday_entries.py`, `scheduler_risk.py`) | rounds, tickers; `trade_history` | filter intents | limits and stop losses are respected | `TradingSession` |
| Exit planning (`exit_planner.py`, `quote_polling.py`) | remembered highs, partial and pending sales | plan sales of a position | a stop loss is acted on; a trailing stop falls from a high of its own position; one partial sale | `PositionLife` |
| Order submission (`order_execution.py`, `sell_execution.py`, `retry.py`) | two retry loops, list of trades | submit, repeat, save | bounded repetition, saved = acknowledged | `OrderSubmission` |
| Fill persistence (`scheduler_state.py`, `fill_persistence.py`) | `fill_history` | fetch, delta, save, notify, mark | every fill once; no repeated message | `FillPersistence` |
| Settlement of the close (`scheduled_tasks.py`, `scheduler_market_close.py`) | baseline, expectations, last snapshot | poll until filled or timed out; write the records | a settled close has sold what it found | `MarketClose` |
| KIS token store (`kis_token_store.py`, `adapters/kis_http.py`) | memory, file, database row, lock | read, issue, replace | servers share one valid token | `TokenStore` |
| Entry planning (`entry_planner.py`, `intraday_data_quality.py`, `risk.py`, `list_buy_planner.py`) | cash and exposure left in the call | size, gate, evaluate | budget and limits; no real money without data | `EntryPlanner` |
| Screening (`pipeline.py`, `screening.py`, `scoring.py`) | the tables of a run | select, score, save | a strict run selects only what passed; the monitor shows the last run | `Screening` |
| Market data (`adapters/context.py`, `adapters/market_data.py`) | kept context; readings of a run | read, fall back, rank | what is called reliable is recent; better candidates rank first | `MarketContext`, `RankedSelection` |
| Candidate record (`repositories.py`, `candidate_event_sync.py`) | `candidate_evaluations`, `trading_event_log` | evaluate, mark, log | the rows tell what the last pass did | `CandidateRecord` |
| Settings (`config.py`, `runtime_settings_store.py`) | table `runtime_setting` | load, complete, save | what a save answered is in effect | `RuntimeSettings` |
| Shared files (`manual_buy_list.py`, `manual_screening.py`, `scheduler_state.py`) | two JSON files and their `.tmp` | read, change, replace | no lost update, no torn file | `SharedFiles` |
| Monitor (`monitor_state_service.py`, `sql_monitor_*.py`) | account tables and state file | poll, show | a page shows what was polled | `LiveSnapshots` |
| Exit record and rules (`repositories.py`, `exit_rule_simulation.py`) | `entry_profit_snapshot` | follow a purchase, judge a rule | the record has the profit of the minute; a rule knows nothing of the future | `ExitStudy` |
| Backtest (`intraday_backtest.py`) | none | replay a day | a purchase depends on no later bar | `IntradayBacktest` |
| Fill review (`tools/strategy_review_fill_*.py`) | rows of `fill_history` | normalize, trust | what is trusted was filled | `FillReview` |
| Reports (`tools/export_strategy_review.py`, `performance_digest_*.py`) | sheets | match sales to candidates, judge the data | a sale is credited to its own evaluation; OK means complete | `TradeAttribution` |
| Packets (`auto_trading_data_digest.py`, `tools/verify_slack_packet_reassembly.py`) | messages | cut, post, reassemble | an accepted packet is a whole one | `PacketDelivery` |
| Manual sale, real-trading switch, request handling, command line, dashboard, mobile | | | | section 5 |

The jobs interact through `_LatestRunState` (one Python object), the database, the
state file and, above all, the brokerage account: between two KIS calls of a job,
orders fill and other jobs run. The hard behaviours are the interleavings of jobs
with and without the lock, partial failure between brokerage and database, lost
replies under nested retries, memory by ticker that outlives a position or a day but
not a restart,
concurrent pollers, tables written in several transactions, marks that do not
name their row, and the guard that judges the output of the jobs it guards.

## 2. Modules

| Module | Models |
|---|---|
| `CycleLock` | The skeleton of `intraday_watch`, `intraday_recheck`, their start-up twins and `close_session`: first look at the gate, tried acquire, second look, body, release; gate and blocking acquire of the close; restart. The body is one step. |
| `Timeline` | One day minute by minute: what fires (`Due`), the guard, who writes the state file, failing screenings, one outage of KIS or the database, stops and starts of the process. |
| `TradingSession` | The jobs' bodies on one account, cut at each KIS call; `latest`, saved stop losses, order book and holdings; restarts of the process. Its lock steps refine `CycleLock` (`FollowsCycleLock`). |
| `OrderSubmission` | One `execute` call: intents in turn, `_submit_with_retry` around `call_with_retry`, lost replies, refusals, the final save. |
| `FillLedger` | Abstract: per order, recorded shares grow and never exceed the filled ones. |
| `FillPersistence` | One poll as its database calls, for any number of pollers, with a failure possible at every step; implements `FillLedger`. |
| `PositionLife` | One ticker bought, watched, sold in part or in full and bought again, with every exit rule in its order and the scheduler's memory of highs, partial and pending sales, which a restart clears. |
| `MarketClose` | `close_session` with the lock held: cancel, baseline, sale, expectations, polls, records; beside its sale there may be another sale and a purchase in the book, which a failed cancellation leaves there. |
| `EntryPlanner` | One call of `plan_buy_intents`, score by score, or of `collect_ranked_buy_intents`. |
| `Screening` | `ScreeningScoringPipeline.run`, its four tables and the monitor's readers of them. |
| `MarketContext` | The index series from fresh history, the kept file, a proxy or nothing, hour by hour. |
| `RankedSelection` | Rankings read once, quotes read later, the composite score and who is taken. |
| `CandidateRecord` | The rows of one ticker on one date as four jobs evaluate, limit, guard, submit and mark it; the final event. |
| `TokenStore` | `access_token` of several processes as its database, file and lock steps. |
| `SharedFiles` | The manual buy list and the state file: read, write the temporary file in two steps, replace it. |
| `RuntimeSettings` | Loads and saves of the settings, one key per transaction, any call side by side. |
| `LiveSnapshots` | `write_live_state`: three reads, four tables, the file; the monitor's pages of today and of earlier dates. |
| `ExitStudy` | The persisting job's row per purchase, and the rule simulation that reads completed rows. |
| `IntradayBacktest` | The replay of a day of bars in the modes fixed, refresh and hybrid. |
| `FillReview` | The rows of one order, cumulative or incremental, some twice, made into one row with a confidence. |
| `TradeAttribution` | The sheets of a date, any of which may fail; matching by counts and by orders, marks and times; data status and confidence. |
| `PacketDelivery` | A digest cut into parts, posted until a post fails, copied in any order, and put together. |
| `*Proofs` | The theorems of the module of that name. `PositionProofs` has those of `MarketClose`, `PositionLife`, `ExitStudy` and `IntradayBacktest`; `SharedStoreProofs` those of `TokenStore`, `SharedFiles`, `RuntimeSettings` and `LiveSnapshots`; `EntryProofs` those of `EntryPlanner`, `MarketContext`, `Screening`, `CandidateRecord`, `RankedSelection`, `TradeAttribution` and `FillReview`. |
| `MC_*` | Values of the constants for TLC. `MC_Parts` puts the parts that share no state side by side. |

### Correspondence

* `CycleLock`: `lock` is `cycle_lock`, `closeDate` is `market_close_trade_date`,
  `pc` the statement a job stands at. A job is idle while it has not passed the
  first look; `Busy` is the early return of a failed `acquire(blocking=False)`. `shut`
  is history: this process's close has had the lock today.
* `Timeline`: `age` is the age of `monitor/state.json` in minutes, capped at 11
  because the guard only asks whether it exceeds ten. `todo` holds the jobs of the
  current minute, which run in any order and take no time. Minute 0 is 22:30 KST.
* `TradingSession`: a job's step names the KIS call it is about to make; `work`
  holds its local variables. Candidates and planned exits are arbitrary sets: prices
  decide them. An executor call is one step whose outcome for each intent is
  acknowledged, refused, lost, or placed twice (what `OrderSubmission` shows to be
  possible); after it the save may raise, with the trades stored or not. The broker's
  `Fill`, the ageing of orders and the refusal of shares already on sale are external.
  `Restart` ends the process between two calls and starts a new one: `_LatestRunState`
  with its rounds, tickers, pending exits and close date is made anew, the lock is free,
  the cycles may run at once (the start-up twins) and what had begun of the other jobs
  does not come again; orders, holdings and saved trades stay. `known`, `closed` and
  `uncounted` are history that follows it: sales the process knows of, the date its
  close went well, and the rounds that were not counted or that a restart forgot. A
  process that dies inside a call is that call with a lost answer or a failed save, and
  then `Restart`; that takes two failures, which the theorems allow and the run does not.
* `OrderSubmission`: `attempt` and `tries` are the two loop counters; `placed`
  counts the orders at the brokerage, which the program cannot see.
* `FillPersistence`: `rows` is `fill_history`, `sum` its `SUM(quantity)`, `seen` the
  poller's copy of the order list, `left` the rows of the loop it is in. A row's
  identity is that of `_fill_identity_params`; `Timed` says whether rows carry the
  time of the last fill.
* `PositionLife`: prices are per cent of the entry price, a tick is ten minutes.
  `enteredAt` is the purchase, `firstFill` what `position_entry_times` makes of the
  day's fills. `highs`, `partialKnown`, `pendingExit` are the scheduler's memory; the
  history variables say which position they come from.
* `MarketClose`: `closePc` is the statement of `close_session`. A snapshot reads
  orders and holdings in two steps (`reading`), and fills come between them. `otherSale`
  and `openBuy` are the other orders of the ticker: `CancelUnfilled` takes each of them
  out of the book or leaves it there. `boughtLate` is history: shares of that purchase
  filled after `ReadPositions`.
* `EntryPlanner`: measured features are PASS, FAIL or NO_DATA; how a condition is
  used (`ConditionMode`) and what blocks a score (`Gates`) is translated in full.
* `Screening`: a ticker is a number and stocks are ranked in that order; news and
  chart parts of a score are inputs. A run that raises leaves the tables at the step
  it reached.
* `CandidateRecord`: `row` of a pass and of `latest` is history; the marks find
  their row as the SQL does, the latest that fits.
* `TokenStore`: each step of `tokenPc` ends at a call of the database, the file or
  KIS. Loss of the connection frees the application lock; a process may stop anywhere.
* `SharedFiles`: a file is `published` and `temporary`; a write takes two steps, so a
  replacement or a reader may find a torn one.
* `RuntimeSettings`: seven keys stand for all, those whose handling differs (presets,
  range, price pair, candidate mode, a plain one).
* `LiveSnapshots`: a table is what `DELETE` and each `INSERT` committed; a failed read
  becomes an empty account and is saved as one, as the code does. `Filtered` is a
  `WHERE`: the rows of some numbers, in their order.
* `ExitStudy`: `job` is what the persisting job read before minutes passed; a row is
  closed from `savedSales`. `Skipped` and `Kept` are the two branches of the simulation.
* `FillReview`, `TradeAttribution`: the true owner of a share or a sale is history;
  the reports see rows only. `Savings` are the orders in which the rows of an order may
  have been saved, each part after the one before it and some again.
* `PacketDelivery`: a text is a sequence of lines with kinds and lengths; the five
  lines that head a part are one line with its date, number and total.

In `MC_Parts` all parts start at rest, the first step names the part that moves, and
the others stay where they are (`Rests`). The parts share no variable, so a behaviour
of any of them is one of the union and an invariant of the union is one of each.

## 3. Runs

| Run | Checks | Shows |
|---|---|---|
| `cycle_lock` | `MutualExclusion`, `CloseShutsGate`, `CloseNotStarved` | Four cycles, the close, restarts, two dates: one trades at a time, none of the same process once its close has had the lock that day, and the close is not starved although its acquire is not queued. |
| `timeline` | `FreshUnlessOutage`, `HealthyDayIsTraded` | A summer day: only ten minutes in a row without process, KIS or database make the state stale; on a steady day nothing is skipped from 22:36 on. |
| `timeline_winter` | `HealthyDayIsTraded`, violated | See findings. |
| `trading_session` | `TypeOK`, `OneLiveEntry`, `RoundsBounded`, `StopLossRespected`, `NoSecondFullExit`, `CloseLeavesNothingOpen`, `FollowsCycleLock` | A day and the next one up to 15:55, with one failure at any point (a refusal, a lost or doubled order, a failed save, lookup or cancellation, a restart) and any number of skipped or raising bodies; the lock steps of the jobs implement `CycleLock`. |
| `session_new_day` | `RoundsArePerDay`, violated | See findings. |
| `session_dup_sale` | `NoDuplicateSale`, violated | See findings. |
| `session_restart` | `RoundsPerDay`, violated | See findings. |
| `order_submission` | `SecondOrderNeedsLoss`, `QuietAfterAck`, `Ends` | Both loops with the default limits (2 retries, 5 attempts), two intents. |
| `fills` | `ToldOnce`, `KeepsLedger`, `CatchesUp` | One poller, two orders of three shares, two failures. |
| `fills_two_pollers` | `NeverOverRecorded`, violated | See findings. |
| `position_life_midnight` | `TimeExitsAreDue`, violated | See findings. |
| `parts` | `PartsTypeOK` and the properties of the next table | Each part that shares no state with the others, in `MC_Parts`. |

| Property of `parts` | Module | What it says |
|---|---|---|
| `BudgetKept` | `EntryPlanner` | A plan spends no cash twice and keeps each purchase and the account within their limits. |
| `RealMoneyNeedsData` | `EntryPlanner` | Outside of the test mode on a mock account nothing is bought while a condition in force has no data. |
| `HighIsOwn` | `PositionLife` | The remembered high is the highest price seen of this position, and a trailing stop follows a rise of it (no earlier position of the ticker watched). |
| `StopLossTaken` | `PositionLife` | For a position seen at its stop loss a sale in full has been planned. |
| `OnePartial` | `PositionLife` | A ticker is sold in part once a day, across restarts. |
| `SettledMeansSold` | `MarketClose` | A close that counts as settled has sold every share that was there when it read the positions. |
| `ServersShareToken` | `TokenStore` | Valid tokens of any two processes are the same. |
| `StrictStaysStrict` | `Screening` | Without the relaxed filter nothing is selected that falls short of filter or score, whatever failed. |
| `MonitorShowsLastRun` | `Screening` | The monitor shows the targets and scores of the last run that returned. |
| `BetterRankedFirst` | `RankedSelection` | A stock better in every respect than a selected one is selected. |
| `ReliableIsRecent` | `MarketContext` | A context that purchases are allowed on tells the trend of an hour within the life of the kept file. |
| `LastPassRecorded` | `CandidateRecord` | The row of an intent is submitted exactly if its order was acknowledged, else it has the last reason; the last event agrees. |
| `AnswerInEffect` | `RuntimeSettings` | What the answer of a save shows is what later loads work with. |
| `FilesAsWritten` | `SharedFiles` | A reader finds what the completed calls mean, wherever a process died (calls that did not overlap). |
| `PolledIsShown` | `LiveSnapshots` | After a poll the file and the pages of today and of its date show what it read. |
| `NoHindsight` | `ExitStudy` | Where a simulated rule sells, the shares of that purchase were still held. |
| `NoLookAhead` | `IntradayBacktest` | No bar after a purchase (a sale) can change the purchase (the trade). |
| `TrustedIsFilled` | `FillReview` | A row that counts as trusted has the quantity and profit of the whole order. |
| `CreditedIsOwn` | `TradeAttribution` | A sale is credited for sure only to an evaluation that bought what was sold. |
| `OkCoversEverySale` | `TradeAttribution` | Data that is called sound was read in full and its sums agree. |
| `AcceptedIsWhole` | `PacketDelivery` | A packet that passes has every line that was written, in order. |

Deadlock is not checked: a day, a call, a poll and a night without fills do end.

### What the violations show

* **Winter** (`timeline_winter`). The guard skips a job while `state.json` is older
  than 600 s. Outside daylight-saving time nothing writes it between 22:50 and the
  opening at 23:30 KST, and the jobs that would are the ones it skips: without a
  refresh by hand no watch, recheck, cancellation or close runs that night. A start
  of the process during the session and an outage of more than ten minutes latch the
  guard in the same way.
* **New day** (`session_new_day`). `_LatestRunState` lives as long as the process;
  rounds used yesterday are missing today.
* **Duplicate sale** (`session_dup_sale`). A partial sale is not in `pending_exits`;
  the next minute may submit a sale of the whole position beside it.
* **Restart** (`session_restart`). A process that is started in the session has counted
  no round, and `_register_startup_recovery` lets the cycles trade at once: more rounds
  are entered than the settings allow for a day. It has no `pending_exits` and no close
  date either, so it may send a second full exit while the first is in the book, and
  trade on a date whose close has begun. The properties on these three are therefore
  stated for the life of a process. `README.md` of the repository (lines 701-702) only
  advises against a restart in market hours.
* **Two pollers** (`fills_two_pollers`). The sum on record is read and the difference
  saved in separate transactions; the scheduler and the monitor can record the same
  shares under two identities.
* **Midnight** (`position_life_midnight`). `position_entry_times` (`repositories.py`)
  puts the Korean time of a fill behind the trade date, which is New York's. A purchase
  filled after Korean midnight looks a day older than it is, and the two exits by time
  (`EARLY_NEGATIVE_EXIT`, `TIME_STOP_EXIT`) sell it at the next watch.

### What the passing properties exclude

Some cases the code does not handle are excluded by name in a property, each by a
condition or a history variable, or by the inputs. They are as much a result as the
property, and most are listed as hazards.

* `OneLiveEntry`: a `mock_buy` that falls into the session (22:45 KST is a quarter of
  an hour after the summer opening) and an executor that sent an order again.
  `StopLossRespected`: a ticker whose stop-loss lookup raised, because the guards then
  let it through. `RoundsBounded` grants one more round for each that raised after its
  trades were saved, and for each that a restart forgot.
* `CloseShutsGate`, `NoSecondFullExit`, `CloseLeavesNothingOpen`: what a process that
  was started later does; it knows neither of the close nor of earlier sales.
* `HealthyDayIsTraded`: skips of the minutes 22:30 to 22:35, in which the guard judges
  the file of yesterday.
* `HighIsOwn`: a ticker that was watched in an earlier position, whose high the
  dictionary keeps. `StopLossTaken`: a ticker sold and bought again between two watches,
  whose pending exit passes on; and it says that the sale was planned, not that one that
  was refused is tried again. `OnePartial`: a partial sale that neither memory nor
  database got to know.
* `SettledMeansSold`: fills of another sale of the ticker after the baseline, and the
  shares of a purchase that could not be cancelled and is filled after the positions were
  read (`boughtLate`): such a close counts as settled and shares stay open overnight.
  `ServersShareToken`: a token taken from the file when the database failed.
* `MonitorShowsLastRun`: a strict run with too few candidates saves targets and no
  scores. `LastPassRecorded`: a pass that met another one or a failing database, and
  the intent that `mock_buy` finds in `latest` although a later evaluation exists.
* `ReliableIsRecent`: a context of a proxy symbol. `BetterRankedFirst`: a rise of at
  most one percent, which is misread as a fraction.
* `AnswerInEffect`: calls that overlapped, a save that broke off, a read that raised
  (its load then writes the environment into the table), and the mode `refresh` without
  its flag, which is shown as `refresh` and run as `fixed`. `FilesAsWritten`: calls that
  overlapped, and the screening of the monitor, which writes in place.
  `PolledIsShown`: polls that overlapped (what they leave behind is included). A read that fails is shown as an empty
  account, as the code does.
* `NoHindsight`: a purchase whose position was sold and bought again before a job
  finished; and it asks whether the shares were still there, not whether the price was
  to be had. `NoLookAhead`: the first three bars, whose volume the opening filter counts
  although a purchase may come in the second.
* `TrustedIsFilled`: histories that lack a row, parts equal to the second and the cent,
  an order snapshot older than the last fill as the only one. `CreditedIsOwn`: by time,
  an evaluation whose mark was lost; positions carried over from an earlier date.
  `OkCoversEverySale`: dates without candidates; the duplicates sheet, which never
  matches a row of the ledger, finds nothing. `AcceptedIsWhole`: two digests of one
  date, which share the packet's id.

### Bounds

`MaxDate`, `LastDate` (dates), `MaxFaults`, `MaxFailures`, `MaxOutage`, `MaxStops`
(failures), `Slots` (orders in the book), `MaxHeld` (shares of a ticker held or on
order). One ticker is enough for the session properties, which speak of one ticker at
a time or of a count; two slots let a second order appear beside the first; two dates
are one memory older than a day, and `LastPhase` ends the second one at 15:55, when all
that memory has met the cycles of the new day. Partial take-profits are off in the
passing run (`PartialTakeProfit`), to keep it within minutes: they are the subject of
`session_dup_sale`, and the theorems hold with them. An outage of eleven minutes is one longer than the
guard tolerates, so both sides of the limit occur. Three shares per order give fills of
one, two and three shares and two partial deltas. In `TradingSession` the session ends
when its jobs have ended: what a job does past 16:00 it could also do a moment before,
when orders were filled as well.

In `Parts.cfg`:

* `MaxScores` 2: a second score finds the cash the first left. Six settings and three
  accounts put every gate, mode and missing-data policy to use.
* `LastTick` 1, `Midnight` 1: a tick on either side of Korean midnight, with any number of watches,
  fills and restarts in each. `SharesHeld` 2, `SharesOnOrder` 1, `ClosePolls` 2: a partial
  fill, a poll before and after it, and a purchase filled at any moment of the close.
* Two `Servers`, `Lifetime` 2, `Margin` 1, `LastSecond` 1, `MaxIssued` 3: a token is
  valid, then within its margin, and is replaced while the other process still acts on
  its earlier `now`.
* Three `Stocks`, `MaxRuns` 2: a stock in both rankings, and a run over the tables of
  another that broke off. `SelectionLimit` 1 and three `Tickers`: one selected, and
  others to compare with it.
* Two `Clis`, one job, `MaxFileCalls` 3 and two `Users`, `MaxCalls` 2: every overlap of
  two calls, and for files a third that finds what they left.
* `LastMinute` 3, `MaxPurchases` 2, `MaxSaleOrders` 2, one price, `SnapshotMinutes` {2}: a purchase sold and repeated
  before, at and after its snapshot. Five bars a day in two stocks: a bar after the
  three of the filter on each side of a purchase.
* Orders of up to three parts, `MaxRepeated` 2. `MaxPasses` 2 and `MaxIntentRetries` 1:
  any two of the four jobs side by side, with a repeated submission.
* `TtlHours` 1, `MaxHours` 3: a context kept, read again and too old. `ChunkSize` 9,
  `MaxChars` 27: a packet of three parts that is truncated and one that fits;
  `MaxDigests` 2, `MaxCopies` 3.
* Two `Pollers`, `MaxPolls` 2, two dates and stages, tables left over by earlier overlaps.
  `Transactional` FALSE is the harder case, in which each row is committed by itself.
* Two `Symbols`, `OpenHour` 23, `LastHour` 1: fills before and after midnight in Seoul.
  `MaxScored` 2, `MaxSold` 2: two evaluations of a ticker, or one of each.
  `SampleSize` 2 in place of 30, `OkGap` 1 and `FailGap` 3 in place of 1 and 50 dollars
  put each figure on both sides of its limit.

### Fairness

* `CycleLock`: a job that has started keeps running (`WF` on the steps of each cycle
  and of the close): a thread is always scheduled again and KIS calls time out after
  ten seconds. Starting a job is not fair. The close's blocking acquire is only weakly
  fair, as `threading.Lock` does not queue its waiters; the gate, not fairness, keeps
  competitors away.
* `OrderSubmission`: `WF` on the whole call: every request is answered or times out.
* `FillPersistence`: `WF` on each poller's steps: polling is repeated every minute.
  Fills and failures are not fair; failures are bounded.
* All other modules state safety only. `Timeline` has no need of fairness, since its
  clock is part of its state; the calls of the others end by counters of their own.

## 4. Proofs

Each theorem module proves that `Init` implies an inductive invariant, that every
action preserves it, and then the properties from it. TLC has checked each of these
invariants on the instances above.

**The session**

* `CycleLockProofs`: mutual exclusion is not inductive; the strengthening is
  `LockHeld` (the lock has an owner exactly while that job is past its acquire),
  with which statement each job may be at, and `GateShut`: once the close has started,
  and as long as its process lives, `closeDate` is today's date, so that no cycle passes
  the second look. A restart and a new date begin the claim anew. Holds for any set of
  cycles. Assumptions: the close is not one of the cycles, and the null owner
  is no job.
* `TradingSessionProofs`: all six invariants of the session and `FollowsCycleLock`, for
  any finite set of tickers and any book, limits, failures, restarts and dates. `IInv` has the
  parts `Order` (types, at which call each job may stand, `LockHeld`, the gate, the hours),
  `Entries` (what a cycle has cancelled or is about to buy is not in the book,
  `NotInBook`), `Rounds` (entries are within the counted rounds and those that raised),
  `Sales` (no more of a ticker is on sale than is held, `SharesOnSale`, and a first full
  sale that the watch knows of is among its `pending_exits`, `KnownIsPending`; a
  restart forgets both sides of it at once) and `Closing` (a clean close has in hand whatever is in the book, `CloseClears`, and stays
  over, `ClosedIsOver`). The hard part is what a job read before a call and uses after
  it: under the lock nobody else enters, and fills only take orders out of the book. The
  refinement is proved action by action: a step of a job is a step of `CycleLock` or
  none of its variables moves. So the three facts of `CycleLock` hold of the jobs.
* `TimelineProofs`: for `Offset = 0`, a session that opens at 22:30, any length and number
  of failures. `Fresh` compares the age of the file with the minutes in a row in which
  nobody could write it, `Steady` says that a day without failures has neither. The
  hypothesis is needed: `timeline_winter` refutes `HealthyDayIsTraded` without it.
* `OrderSubmissionProofs`: `IInv` relates orders to the two counters
  (`placed <= attempt * HttpAttempts + tries - 1` while posting) and splits them into
  acknowledged and lost ones. `OrdersBounded`, `SecondOrderNeedsLoss`,
  `SavedAreAcknowledged` and `QuietAfterAck` follow for any limits. Two lemmas carry
  the multiplication. Assumptions: limits are naturals and `HttpAttempts` is positive.
* `FillPersistenceProofs`: with `Single` (any two pollers are equal), what is left to
  save of each order fits between the sum on record and the poller's copy, which in
  turn was filled; so `NeverOverRecorded` holds and every step is a step of `FillLedger`
  or a stutter (`KeepsLedger`). Without `Single` the run `fills_two_pollers` refutes it,
  so the hypothesis is needed. `ToldOnce` needs rows with times as well (`Timed`):
  `TellInv` says that the time of a row is at most the sum on record (`RowsPast`) and
  that of a record yet to be saved is the sum it leads to (`TimesFit`), so that the
  record is new to the table, and nobody was told of it (`NotYetTold`). Without times
  two equal increments of an order are the same row to the database.

**The end of a position** (`PositionProofs`)

* `SettledMeansSold` needs to know where the shares are. `CloseInv` says that the
  baseline counts every share sold before it (`BaselineExact`), that what the close sells,
  what was sold before and what was bought late are all shares held or sold today
  (`SellsTheRest`, `NotYetLate`), and that no
  snapshot shows a sale the brokerage has not made (`NoPhantomSales`, `SalesSeen`): what a
  snapshot adds to the baseline was sold by the close. For any number of shares, of shares
  on order and of polls.
* `HighIsOwn`, `StopLossTaken` and `OnePartial` follow from `LifeInv`: a remembered high is
  that of this position or the ticker is known to have been watched in an earlier one
  (`HighRemembered`), a pending exit was planned (`PendingIsPlanned`), and a partial sale
  is known to the memory or the database unless its record was lost (`PartialIsKnown`).
  Assumptions: prices are positive and rules are integers.
* `NoHindsight` follows from `StudyInv`: the rows are those of the purchases (`RowsFollow`),
  a profit is taken when its minute has come (`ProfitsInTime`), and what is gone was
  ordered to be sold (`GoneWasOrdered`) and has its exit (`GoneIsClosed`), unless no job
  has seen it gone. The prices are naturals.
* `NoLookAhead` compares two evaluations of one function, so its argument is not in the
  steps: `Twins` relates a day to the same day with one other bar. Filters and breakouts
  of the two agree (`EligibleSame`), scores and candidates agree at each checkpoint before
  that bar (`ScoreSame`, `RefreshSame`), and so do the signals before it (`SignalsSame`).
  A window that begins before the one with the first signal has ended when that one
  begins (`WindowsApart`, by counting times), so it has no signal in either day
  (`DaySignalSame`). For any tickers, bars and settings. Assumptions: the bars of a ticker
  are sorted (`_clean_history`) and no two have the same time (a chart is indexed by it);
  with two of one time the bar that breaks out could be the one that is bought.

**What processes share** (`SharedStoreProofs`)

* `TokenInv` says that a valid token in memory is the one of the database
  (`MemoryIsStored`), that who has issued a token under the lock replaces one nobody can
  use (`ReplacesExpired`), and that an old `now` is not later than the clock
  (`SeenInPast`), by which a token expired then is expired now. For any processes,
  lifetime and margin.
* `FileInv` says that while nothing disturbed a file one call at most is at work on it
  (`OneAtWork`), and that this call knows what the file says and what it has put beside
  it (`KnowsContent`); `FilesAsWritten` follows. For any processes, tickers and limits.
  Assumptions: commands, jobs and the screening are different processes, and no ticker is
  named like one of the two markers for a file that is half written or not there.
* `SettingsInv` follows a call key by key: what a load has yet to fill and has filled
  (`FillsLoaded`), what a save has yet to write and has written (`SaveWrites`,
  `SaveWritten`), add up to what it will show, and what was shown is what the table and
  the environment give (`InForce`). `AnswerInEffect` follows for any users and requests.
* `SoloInv` follows the poll that met no other through its steps: the rows that were of
  its date are gone before its own are added, so that whatever earlier polls left, the
  tables of its date hold what it read, in that order, and nothing aged (`TablesAre` and
  the lemmas on `Filtered`); `PolledIsShown` follows for any pollers, accounts, failures
  and dates. What a recursive `Filtered` computes is shown without an induction rule: the
  least number of rows at which a statement about it fails is not there. Assumptions:
  holdings are positive (`KisAccountReader.holdings` leaves out the others), a ticker is
  listed once, and the tables hold rows.

**Before a purchase and after it** (`EntryProofs`)

* `EntryInv` adds to `BudgetKept` and `RealMoneyNeedsData` the types and that cash and
  invested are not negative. The lemma `SharesCost` bounds the cost of whole shares by
  the order value. Assumptions: prices are positive (the code raises otherwise,
  `PricesInvalid`) and exposure limits are integers.
* `ContextInv` says that the kept file is the index of the hour of its writing, and that
  what was read was read in the past. `ReproducedKeepsTrend` shows by arithmetic that the
  twenty closes made up from two kept numbers are on the same side of their average. For
  any index states, life of the file and hours.
* `ScreenInv` says that what a run has kept passed the filter of its own profile
  (`Filtered`), and that the tables are those of a run (`RowsAreRuns`, `NothingYet`);
  `StrictStaysStrict` and `MonitorShowsLastRun` follow. Assumptions: stocks are finite and
  the two limits are naturals, as the validation of the settings has it.
* `RecordInv` says of the pass that met no other that the row it inserted, or found in
  `latest`, is the latest one that its marks can find (`Follows`); `LastPassRecorded`
  follows for any retries and passes.
* `SelectInv` says that a reading is of its quote and that the chosen are those before
  whom fewer than the limit come (`ChosenAreBest`). That the composite score grows with
  ranks and quote is arithmetic over the finite set of lists (`BestAreTaken`).
  Assumptions: positions count from one (`_rank_rows` of `kis_overseas.py`), quotes and
  rules are whole numbers.
* `CreditInv` says that purchases stand in the order of their hours, each of an evaluation
  of that ticker made before it (`BoughtInOrder`), that who owns what is held bought it
  (`OwnersBought`), and that a sale carries its owners (`SoldWasBought`). The matching by
  time compares an hour in Seoul with one in UTC; two lemmas show that it finds the right
  order of hours on both sides of midnight. Assumptions: a session opens at 22 or 23
  o'clock in Seoul and lasts no more than nine hours.
* `OkCoversEverySale` compares sums over different groupings of the sales. `Total` is what
  `MapThenSumSet` computes, and `TotalOfParts` says that disjoint groups add up to the
  whole. No two candidates share a sale (`SalesAreApart`), so that as many matched sales as
  there are sales (`OkIsFull`) are all of them, each once (`OkCovers`). The facts on sums follow from a smallest set at which they fail (`ASmallestOne`). Assumptions:
  profits are whole numbers (of cents), counts and gaps are naturals.
* `ReviewInv` says that the rows of an order record its parts and that the evidence is of
  what was filled. `DistinctIsEach` shows that of repeated rows one of each part stays,
  whatever the order; `RecordedTotals`, that rows which come to all shares are of one part
  each, and that a row with all shares is the last cumulative one: so evidence that agrees
  with either reading rules out the other. `TrustedIsFilled` follows for any parts, any
  change from one code to the other, and any repetition. Assumptions: an order has at
  least one part, and parts have at least one share.

Only model-checked, and why:

* The liveness properties (`CloseNotStarved`, `Ends`, `CatchesUp`) need fairness and
  `ENABLED`, which the prover does not treat.
* `AcceptedIsWhole` is about how a text is cut by lengths, truncated and put together from
  copies in any order; its proof would need the inverse of recursive definitions over lines.
* `PartsTypeOK` is the conjunction of the types of the parts, most of which the invariants
  above contain.

No module with a theorem uses a recursive operator. The library's induction theorems take
an operator as a parameter, which the provers cannot instantiate; facts about recursive
functions and folds are therefore shown for each one from a least counterexample.

## 5. Not modelled

* Real-trading switch: which settings let an order leave the mock account.
* The manual sale; request handling and pages of the monitor other than those of
  targets, scores and the account; its limits to the first 50 and 200 rows.
* Command line and composition, dashboard, mobile application and installation tools:
  wiring, parsing and display.
* The wording of messages, reports and notices; which fields a KIS answer has; the
  number formats of rows and settings.
* News and chart scores, measured intraday features and prices: inputs of the modules
  that use them.
* APScheduler's misfire rules; holidays and `TRADING_DAY_MODE` other than the default;
  fixed and hybrid watchlists in `TradingSession` (only the candidates differ); the
  count of stop losses over exit reasons and the cooldown, whose outcome is a choice.
* The daily backtest and the root-cause and comparison reports: formulas over stored
  rows without state of their own.

`PROJECT.json` gives the reason for each component.

## 6. Plan

In order of importance:

1. `AcceptedIsWhole` as a theorem, by lemmas on how a packet is cut and joined.
2. The stop-loss guards in full (count, cooldown, exit reasons) in place of the choice
   in `TradingSession`.
3. The real-trading switch: under which settings an order may leave the mock account.
4. The manual sale beside the watch, on the order book of `TradingSession`.

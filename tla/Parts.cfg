SPECIFICATION PartsSpec
CONSTANTS
    EntryAccounts <- MC_EntryAccounts
    EntrySettings <- MC_EntrySettings
    EntryCandidates <- MC_EntryCandidates
    MaxScores = 2
    Quotes <- MC_Quotes
    ExitRules <- MC_ExitRules
    Midnight = 1
    DayTicks = 144
    LastTick = 1
    SharesHeld = 2
    SharesOnOrder = 1
    ClosePolls = 2
    Servers = {s, t}
    Refreshers = {s, t}
    Lifetime = 2
    Margin = 1
    LastSecond = 1
    MaxIssued = 3
    Stocks = {1, 2, 3}
    SnapshotOf <- MC_SnapshotOf
    Rankings = {{1, 2}, {2, 3}}
    ManualLists = {{1, 3}}
    ScoreParts <- MC_ScoreParts
    Markets <- MC_Markets
    ScreenSettings <- MC_ScreenSettings
    MaxRuns = 2
    Clis = {c1, c2}
    StateJobs = {j1}
    ListTickers = {"a", "b"}
    MaxListTickers = 1
    MaxFileCalls = 3
    Users = {u, w}
    EnvValues <- MC_EnvValues
    FileValues <- MC_FileValues
    Requests <- MC_Requests
    MaxCalls = 2
    StudyPrices = {4}
    SnapshotMinutes = {2}
    LastMinute = 3
    MaxPurchases = 2
    MaxSaleOrders = 2
    StudyParams <- MC_StudyParams
    Histories <- MC_Histories
    OtherBars <- MC_OtherBars
    ReplaySettings <- MC_Replay
    Executions <- MC_Executions
    MaxRepeated = 2
    Hybrid = TRUE
    MaxIntentRetries = 1
    MaxPasses = 2
    IndexStates <- MC_IndexStates
    TtlHours = 1
    MaxHours = 3
    Tickers = {1, 2, 3}
    RankingSets <- MC_RankingSets
    Quoted <- MC_Quoted
    SelectionRules <- MC_SelectionRules
    SelectionLimit = 1
    ReadMinutes = {0, 30, 195}
    Digests <- MC_Digests
    ChunkSize = 9
    MaxChars = 27
    MaxDigests = 2
    MaxCopies = 3
    Pollers = {"a", "b"}
    Stages <- MC_Stages
    Leftover <- MC_Leftover
    Outages = {{}, {"account", "holdings"}}
    Transactional = FALSE
    LastDate = 2
    MaxPolls = 2
    Symbols = {"a", "b"}
    OpenHour = 23
    LastHour = 1
    Profits <- MC_RowProfits
    SheetFailures <- MC_SheetFailures
    SampleSize = 2
    OkGap = 1
    FailGap = 3
    MaxScored = 2
    MaxSold = 2
INVARIANTS
    PartsTypeOK
    BudgetKept RealMoneyNeedsData
    HighIsOwn StopLossTaken OnePartial
    SettledMeansSold ServersShareToken
    StrictStaysStrict MonitorShowsLastRun
    FilesAsWritten AnswerInEffect
    NoHindsight NoLookAhead TrustedIsFilled
    LastPassRecorded
    ReliableIsRecent BetterRankedFirst AcceptedIsWhole PolledIsShown
    CreditedIsOwn OkCoversEverySale
CHECK_DEADLOCK FALSE

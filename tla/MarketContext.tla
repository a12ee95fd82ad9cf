--------------------------- MODULE MarketContext ---------------------------
(***************************************************************************)
(* The market context that purchases depend on (adapters/context.py): the  *)
(* NASDAQ index against its average of 20 days, from fresh history, from   *)
(* the last good context on disk while it is young enough, from a proxy    *)
(* symbol, or neutral and degraded; and the exchange rate of the day.      *)
(* Hours pass, histories come short or fail, the cache may not be written. *)
(***************************************************************************)
EXTENDS Integers, Sequences

CONSTANTS
    IndexStates,      \* [price, ma20] of the index or of a proxy, in thousands
    TtlHours,         \* LAST_GOOD_MARKET_CONTEXT_TTL_HOURS
    MaxHours          \* bound: hours that pass

ASSUME ContextAssumption ==
    /\ \A state \in IndexStates : state.price \in Nat \ {0} /\ state.ma20 \in Nat \ {0}
    /\ TtlHours \in Nat /\ MaxHours \in Nat

VARIABLES
    index,     \* history: what the index was in each hour so far
    lastGood,  \* last_good_market_context.json
    context    \* the context read last, and when

contextVars == <<index, lastGood, context>>

Now == Len(index)
NoFile == [saved_at |-> 0, price |-> 0, ma20 |-> 0]
NoContext == [read_at |-> 0, price |-> 1, ma20 |-> 1, fx |-> "calm",
              status |-> "unknown", source |-> "none"]

ContextInit ==
    /\ index = <<>>
    /\ lastGood = NoFile /\ context = NoContext

ContextTypeOK ==
    /\ Now \in 0 .. MaxHours /\ lastGood.saved_at \in 0 .. Now
    /\ context.status \in {"ok", "cached", "degraded", "unknown"}
    /\ context.source \in {"fresh", "last_good_cache", "proxy", "degraded", "none"}

-----------------------------------------------------------------------------
HourPasses ==
    /\ Now < MaxHours
    /\ \E state \in IndexStates : index' = Append(index, state)
    /\ UNCHANGED <<lastGood, context>>

Series(state, status, source) ==
    [price |-> state.price, ma20 |-> state.ma20, status |-> status, source |-> source]

\* _series_for_symbol: 20 closes in one of the periods; a request that raises
\* is a period without closes.
Fresh == Series(index[Now], "ok", "fresh")

Mutant_YoungEnough == lastGood.saved_at > 0
\* _load_last_good_market_context: there, and at most as old as its life.
YoungEnough == lastGood.saved_at > 0 /\ Now - lastGood.saved_at <= TtlHours

\* _closes_from_cached_values: 19 equal closes before the last that give the
\* average, or where these would not be positive 19 times the average itself.
Reproduced(file) ==
    IF 20 * file.ma20 > file.price
    THEN [price |-> file.price, ma20 |-> file.ma20]
    ELSE [price |-> file.price, ma20 |-> (19 * file.ma20 + file.price) \div 20]
LastGood == Series(Reproduced(lastGood), "cached", "last_good_cache")
Proxy(state) == Series(state, "ok", "proxy")
\* _degraded_series: 20 times the best close there is.
Degraded == Series([price |-> 1, ma20 |-> 1], "degraded", "degraded")

\* _market_series
MarketSeries(primary, proxies) ==
    IF primary THEN {Fresh}
    ELSE IF YoungEnough THEN {LastGood}
    ELSE IF proxies # {} THEN {Proxy(state) : state \in proxies}
    ELSE {Degraded}

Mutant_WorthKeeping(series) == series.source \in {"fresh", "last_good_cache"}
\* market_context: only what is fresh and the index itself is kept.
WorthKeeping(series) == series.source = "fresh"

\* market_context, with the outcome of each request: the rate is taken for
\* unchanged where its history is short.
ReadsContext(primary, proxies, fx, written) ==
    /\ Now > 0
    /\ \E series \in MarketSeries(primary, proxies) :
          /\ context' = [read_at |-> Now, price |-> series.price, ma20 |-> series.ma20,
                         fx |-> IF fx = "short" THEN "calm" ELSE fx,
                         status |-> series.status, source |-> series.source]
          /\ lastGood' = IF WorthKeeping(series) /\ written
                         THEN [saved_at |-> Now, price |-> series.price,
                               ma20 |-> series.ma20]
                         ELSE lastGood
    /\ UNCHANGED index

\* Short of these, the request for the rate raises, and the run of the
\* screening with it.
ContextNext ==
    \/ HourPasses
    \/ \E primary, written \in BOOLEAN, fx \in {"volatile", "short"},
          proxies \in {{}, IndexStates} : ReadsContext(primary, proxies, fx, written)

ContextSpec == ContextInit /\ [][ContextNext]_contextVars

-----------------------------------------------------------------------------
\* _market_context_reliable_for_buy
Reliable == context.status \in {"ok", "cached"}
            /\ context.source \in {"fresh", "last_good_cache", "proxy"}
BelowAverage(state) == state.price < state.ma20

\* A context that purchases are allowed on, and that is not the one of a proxy,
\* was on the same side of the average as the index itself in an hour that had
\* not passed for longer than the life of the cache when it was read: through
\* any number of failed requests and of reads of the cache, a trend that has
\* turned is not traded on for longer.
ReliableIsRecent ==
    (Reliable /\ context.source # "proxy") =>
        \E hour \in 1 .. context.read_at :
            /\ context.read_at - hour <= TtlHours
            /\ BelowAverage(context) <=> BelowAverage(index[hour])
=============================================================================

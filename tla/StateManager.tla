---------------------------- MODULE StateManager ----------------------------
(***************************************************************************)
(* state.Manager: polls the exchange for the market status and the status  *)
(* of every stock, decides per symbol which data source quotes it and      *)
(* whether it is paused, and starts a goroutine with the switch callback   *)
(* whenever a poll changes a data source.  The quote service reads this    *)
(* state and changes it through PauseStock, ResumeStock,                   *)
(* RollbackDataSource, SetPythStatus and SetGateStatus.                    *)
(*                                                                         *)
(* Every action is one critical section of m.mu.  A poll is one action:    *)
(* the HTTP queries touch no state of the program, and the two sections    *)
(* that follow them (counter reset, updateStatus) are adjacent for every   *)
(* other goroutine, which never reads the counter.                         *)
(***************************************************************************)
EXTENDS Integers

CONSTANTS
    Symbols,            \* the configured stock tokens
    MarketStatuses,     \* the market statuses the exchange may report
    StockStatuses,      \* the stock statuses it may report
    MaxQueryFailures,   \* maxQueryFailures, 10 in the code
    MaxSpawned          \* bound: switch goroutines of one kind not yet running

ASSUME StateManagerAssumption ==
    /\ MaxQueryFailures \in Nat \ {0}
    /\ MaxSpawned \in Nat \ {0}

VARIABLES
    dataSources,        \* symbol -> the data source in use
    pausedStocks,       \* symbol -> why it is paused, or NotPaused
    pythStatuses,       \* symbol -> status of the Pyth feed
    gateStatuses,       \* symbol -> status of the Gate feed
    marketStatus,       \* as of the last successful poll
    stockStatuses,      \* as of the last successful poll
    queryFailureCount,
    pollLoop,           \* the polling goroutine: running, or stuck in the fatal handler
    spawned             \* symbol -> new source -> started goroutines not yet running

managerVars == <<dataSources, pausedStocks, pythStatuses, gateStatuses, marketStatus,
                 stockStatuses, queryFailureCount, pollLoop, spawned>>

DataSources == {"CEX", "WEIGHTED"}

\* With two data sources, the new source of a switch tells the old one.
OtherSource(source) == CHOOSE d \in DataSources : d # source

NotPaused     == "not paused"
PauseReasons  == {"stock status", "switch difference", "both oracles"}
OracleStatus  == {"NORMAL", "ABNORMAL"}
NotPolled     == "not polled"

TradingStatuses ==
    {"pre_hour_trading", "trading", "post_hour_trading", "overnight_trading"}

IsTrading(market) == market \in TradingStatuses

IsPaused(s) == pausedStocks[s] # NotPaused

-----------------------------------------------------------------------------
(* The decision *)

QuotableStatuses == {"normal", "circuit_breaker"}

ShouldPause(stock) == stock \notin QuotableStatuses

\* Meaningful for a stock that is not to be paused.
DecideDataSource(market, stock) ==
    IF IsTrading(market) /\ stock = "normal" THEN "CEX" ELSE "WEIGHTED"

-----------------------------------------------------------------------------
(* Initial state: nothing is known yet, and every symbol is quoted from CEX *)

ManagerInit ==
    /\ dataSources       = [s \in Symbols |-> "CEX"]
    /\ pausedStocks      = [s \in Symbols |-> NotPaused]
    /\ pythStatuses      = [s \in Symbols |-> "NORMAL"]
    /\ gateStatuses      = [s \in Symbols |-> "NORMAL"]
    /\ marketStatus      = NotPolled
    /\ stockStatuses     = [s \in Symbols |-> NotPolled]
    /\ queryFailureCount = 0
    /\ pollLoop          = "running"
    /\ spawned           = [s \in Symbols |-> [d \in DataSources |-> 0]]

\* The state a restarted process begins with.
ManagerRestarts ==
    /\ dataSources'       = [s \in Symbols |-> "CEX"]
    /\ pausedStocks'      = [s \in Symbols |-> NotPaused]
    /\ pythStatuses'      = [s \in Symbols |-> "NORMAL"]
    /\ gateStatuses'      = [s \in Symbols |-> "NORMAL"]
    /\ marketStatus'      = NotPolled
    /\ stockStatuses'     = [s \in Symbols |-> NotPolled]
    /\ queryFailureCount' = 0
    /\ pollLoop'          = "running"
    /\ spawned'           = [s \in Symbols |-> [d \in DataSources |-> 0]]

-----------------------------------------------------------------------------
(* Polling *)

StockStatusOf_KeepsError(answer) == answer

\* The status client answers for every symbol: a query that fails is reported
\* as the status "normal".
StockStatusOf(answer) == IF answer = "error" THEN "normal" ELSE answer

Switches(s, market, stock) ==
    ~ShouldPause(stock) /\ DecideDataSource(market, stock) # dataSources[s]

SpawnedAfter(s, market, stock) ==
    IF Switches(s, market, stock)
    THEN [spawned[s] EXCEPT ![DecideDataSource(market, stock)] = @ + 1]
    ELSE spawned[s]

PausedAfter_KeepsPause(s, stock) ==
    IF ShouldPause(stock) /\ ~IsPaused(s) THEN "stock status" ELSE pausedStocks[s]

\* A pause that is already there keeps its reason; a poll that finds the stock
\* quotable lifts whatever pause there is.
PausedAfter(s, stock) ==
    IF ~ShouldPause(stock) THEN NotPaused
    ELSE IF IsPaused(s) THEN pausedStocks[s] ELSE "stock status"

DataSourceAfter_EvenPaused(s, market, stock) == DecideDataSource(market, stock)

DataSourceAfter(s, market, stock) ==
    IF ShouldPause(stock) THEN dataSources[s] ELSE DecideDataSource(market, stock)

UpdateStatus(market, stocks) ==
    /\ \A s \in Symbols, d \in DataSources : SpawnedAfter(s, market, stocks[s])[d] <= MaxSpawned
    /\ marketStatus'  = market
    /\ stockStatuses' = stocks
    /\ pausedStocks'  = [s \in Symbols |-> PausedAfter(s, stocks[s])]
    /\ dataSources'   = [s \in Symbols |-> DataSourceAfter(s, market, stocks[s])]
    /\ spawned'       = [s \in Symbols |-> SpawnedAfter(s, market, stocks[s])]

PollSucceeds_NoReset(market, answers) ==
    /\ pollLoop = "running"
    /\ UpdateStatus(market, [s \in Symbols |-> StockStatusOf(answers[s])])
    /\ UNCHANGED <<pythStatuses, gateStatuses, queryFailureCount, pollLoop>>

PollSucceeds(market, answers) ==
    /\ pollLoop = "running"
    /\ queryFailureCount' = 0
    /\ UpdateStatus(market, [s \in Symbols |-> StockStatusOf(answers[s])])
    /\ UNCHANGED <<pythStatuses, gateStatuses, pollLoop>>

\* Only a market status query can fail.  At the limit the fatal handler runs in
\* the polling goroutine, which therefore never polls again.
PollFails ==
    /\ pollLoop = "running"
    /\ queryFailureCount' = queryFailureCount + 1
    /\ pollLoop' = IF queryFailureCount' >= MaxQueryFailures THEN "fatal" ELSE "running"
    /\ UNCHANGED <<dataSources, pausedStocks, pythStatuses, gateStatuses,
                   marketStatus, stockStatuses, spawned>>

Poll ==
    \/ \E market \in MarketStatuses, answers \in [Symbols -> StockStatuses \cup {"error"}] :
           PollSucceeds(market, answers)
    \/ PollFails

-----------------------------------------------------------------------------
(* What the quote service calls *)

PauseStock(s, reason) ==
    /\ pausedStocks' = [pausedStocks EXCEPT ![s] = reason]
    /\ UNCHANGED <<dataSources, pythStatuses, gateStatuses, marketStatus,
                   stockStatuses, queryFailureCount, pollLoop, spawned>>

ResumeStock(s) ==
    /\ pausedStocks' = [pausedStocks EXCEPT ![s] = NotPaused]
    /\ UNCHANGED <<dataSources, pythStatuses, gateStatuses, marketStatus,
                   stockStatuses, queryFailureCount, pollLoop, spawned>>

RollbackDataSource(s, old) ==
    /\ dataSources' = [dataSources EXCEPT ![s] = old]
    /\ UNCHANGED <<pausedStocks, pythStatuses, gateStatuses, marketStatus,
                   stockStatuses, queryFailureCount, pollLoop, spawned>>

SetPythStatus(s, status) ==
    /\ pythStatuses' = [pythStatuses EXCEPT ![s] = status]
    /\ UNCHANGED <<dataSources, pausedStocks, gateStatuses, marketStatus,
                   stockStatuses, queryFailureCount, pollLoop, spawned>>

SetGateStatus(s, status) ==
    /\ gateStatuses' = [gateStatuses EXCEPT ![s] = status]
    /\ UNCHANGED <<dataSources, pausedStocks, pythStatuses, marketStatus,
                   stockStatuses, queryFailureCount, pollLoop, spawned>>

\* A started callback goroutine gets to run.
RunCallback(s, new) ==
    /\ spawned[s][new] > 0
    /\ spawned' = [spawned EXCEPT ![s][new] = @ - 1]
    /\ UNCHANGED <<dataSources, pausedStocks, pythStatuses, gateStatuses,
                   marketStatus, stockStatuses, queryFailureCount, pollLoop>>

-----------------------------------------------------------------------------
(* The manager on its own: its polls, and any call at any time *)

ServiceCall ==
    \E s \in Symbols :
        \/ \E reason \in PauseReasons : PauseStock(s, reason)
        \/ ResumeStock(s)
        \/ \E d \in DataSources : RollbackDataSource(s, d)
        \/ \E status \in OracleStatus : SetPythStatus(s, status)
        \/ \E status \in OracleStatus : SetGateStatus(s, status)

RunsCallback == \E s \in Symbols, new \in DataSources : RunCallback(s, new)

ManagerNext == Poll \/ ServiceCall \/ RunsCallback

ManagerTypeOK ==
    /\ dataSources \in [Symbols -> DataSources]
    /\ pausedStocks \in [Symbols -> PauseReasons \cup {NotPaused}]
    /\ pythStatuses \in [Symbols -> OracleStatus]
    /\ gateStatuses \in [Symbols -> OracleStatus]
    /\ marketStatus \in MarketStatuses \cup {NotPolled}
    /\ stockStatuses \in [Symbols -> StockStatuses \cup {"normal", NotPolled}]
    /\ queryFailureCount \in 0 .. MaxQueryFailures
    /\ pollLoop \in {"running", "fatal"}
    /\ spawned \in [Symbols -> [DataSources -> 0 .. MaxSpawned]]

=============================================================================

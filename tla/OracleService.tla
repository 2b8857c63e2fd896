---------------------------- MODULE OracleService ----------------------------
(***************************************************************************)
(* oracle.Service with its state manager: what each goroutine does with a  *)
(* quote of a feed, a data source switch and a flush, cut at the critical  *)
(* sections of s.mu and m.mu.                                              *)
(*                                                                         *)
(* Goroutines: the poll loop of the state manager; one reader per feed,    *)
(* which runs the feed's handler for one message at a time; one per data   *)
(* source switch, running onDataSourceChange; and flushes.                 *)
(*                                                                         *)
(* What a price is worth matters only to the 5 % check, so prices are a    *)
(* few Levels and a weighted price, when its inputs allow one, is any of   *)
(* them; whether an oracle's price jumped is an input of its handler.      *)
(* PriceRules has the arithmetic, PushPipeline the details of a flush: here*)
(* at most one flush is under way, and it either confirms or drops its     *)
(* batch.                                                                  *)
(***************************************************************************)
EXTENDS StateManager, FiniteSets

CONSTANTS
    Levels,             \* the positive price levels
    QuotePrices,        \* the prices CEX quotes may carry: levels, and possibly 0
    Freshness,          \* may a CEX quote be fresh, may it be stale
    Jumps,              \* may an oracle's price jump by more than 10 %, or not
    QueryErrors,        \* may the query of a stock status fail, or not
    StoreErrors,        \* may writing a close price to Redis fail, or not
    Sending,            \* the feeds that are up and send messages
    Restarts,           \* may the process restart, or not
    Switchers           \* bound: one element per switch that may be in flight

Rules == INSTANCE PriceRules WITH Unit <- 10000

Oracles == {"pyth", "gate"}
Feeds   == Oracles \cup {"cex"}

ASSUME ServiceAssumption ==
    /\ Levels \subseteq Nat \ {0}
    /\ QuotePrices \subseteq Levels \cup {0}
    /\ Freshness \subseteq BOOLEAN /\ Jumps \subseteq BOOLEAN /\ QueryErrors \subseteq BOOLEAN
    /\ StoreErrors \subseteq BOOLEAN /\ Restarts \subseteq BOOLEAN
    /\ Sending \subseteq Feeds

VARIABLES
    isReady,            \* the preheat phase is over
    cexQuotes,          \* symbol -> price of the cached CEX quote, or NoQuote
    oraclePrices,       \* oracle -> symbol -> is a price cached (pythPrices, gatePrices)
    closePrices,        \* symbol -> is a positive close price in memory
    bothOracleAlerted,  \* the symbols with the flag set
    lastPrices,         \* symbol -> last confirmed price, 0 before any
    buffer,             \* symbol -> the price in the collector's buffer, or NoPrice
    flushing,           \* symbol -> the price the current flush works on, or NoPrice
    handler,            \* feed -> where its handler stands
    switching,          \* switcher -> where its onDataSourceChange stands
    storedClose         \* symbol -> does Redis hold a positive close price

serviceVars == <<isReady, cexQuotes, oraclePrices, closePrices, bothOracleAlerted,
                 lastPrices, buffer, flushing, handler, switching>>
worldVars   == <<storedClose>>
vars        == <<managerVars, serviceVars, worldVars>>

NoPrice == [price |-> 0, source |-> "none"]
NoQuote == -1
Priced  == [price : QuotePrices \cup Levels, source : DataSources]

Idle     == [pc |-> "idle", symbol |-> "none", price |-> 0]
IdleSwitch == [pc |-> "idle", symbol |-> "none", new |-> "CEX", last |-> 0, price |-> 0]

ServiceInit ==
    /\ isReady = FALSE
    /\ cexQuotes = [s \in Symbols |-> NoQuote]
    /\ oraclePrices = [o \in Oracles |-> [s \in Symbols |-> FALSE]]
    /\ closePrices = [s \in Symbols |-> FALSE]
    /\ bothOracleAlerted = {}
    /\ lastPrices = [s \in Symbols |-> 0]
    /\ buffer = [s \in Symbols |-> NoPrice]
    /\ flushing = [s \in Symbols |-> NoPrice]
    /\ handler = [f \in Feeds |-> Idle]
    /\ switching = [w \in Switchers |-> IdleSwitch]

ServiceRestarts ==
    /\ isReady' = FALSE
    /\ cexQuotes' = [s \in Symbols |-> NoQuote]
    /\ oraclePrices' = [o \in Oracles |-> [s \in Symbols |-> FALSE]]
    /\ closePrices' = [s \in Symbols |-> FALSE]
    /\ bothOracleAlerted' = {}
    /\ lastPrices' = [s \in Symbols |-> 0]
    /\ buffer' = [s \in Symbols |-> NoPrice]
    /\ flushing' = [s \in Symbols |-> NoPrice]
    /\ handler' = [f \in Feeds |-> Idle]
    /\ switching' = [w \in Switchers |-> IdleSwitch]

Init ==
    /\ ManagerInit
    /\ ServiceInit
    /\ storedClose \in [Symbols -> BOOLEAN]

-----------------------------------------------------------------------------
(* The world outside *)

\* A crash or a fatal error, and a new process: memory is lost, Redis and the
\* chain are not.
Restart ==
    /\ TRUE \in Restarts
    /\ ManagerRestarts
    /\ ServiceRestarts
    /\ UNCHANGED storedClose

-----------------------------------------------------------------------------
(* Start and polls *)

\* clearPreheatData, then isReady.  The collector's buffer is not cleared.
BecomeReady ==
    /\ ~isReady
    /\ isReady' = TRUE
    /\ cexQuotes' = [s \in Symbols |-> NoQuote]
    /\ oraclePrices' = [o \in Oracles |-> [s \in Symbols |-> FALSE]]
    /\ lastPrices' = [s \in Symbols |-> 0]
    /\ bothOracleAlerted' = {}
    /\ UNCHANGED <<managerVars, worldVars, closePrices, buffer, flushing, handler, switching>>

Waiting == {c \in Symbols \X DataSources : spawned[c[1]][c[2]] > 0}
Free    == {w \in Switchers : switching[w] = IdleSwitch}

\* The last conjunct bounds the callbacks in flight, as MaxSpawned does.
PollOK(market, answers) ==
    /\ (\E s \in Symbols : answers[s] = "error") => TRUE \in QueryErrors
    /\ PollSucceeds(market, answers)
    /\ UNCHANGED <<serviceVars, worldVars>>
    /\ Cardinality(Waiting') <= Cardinality(Free)

PollFailed ==
    /\ PollFails
    /\ UNCHANGED <<serviceVars, worldVars>>

-----------------------------------------------------------------------------
(* Collecting a price; a flush *)

\* The throttler refuses an unforced price as it likes, except the first.
MayThrottle(s, force) == ~force /\ lastPrices[s] # 0

CollectPrice(s, price, source, force) ==
    \/ buffer' = [buffer EXCEPT ![s] = [price |-> price, source |-> source]]
    \/ MayThrottle(s, force) /\ UNCHANGED buffer

StartFlush ==
    /\ \E s \in Symbols : buffer[s] # NoPrice
    /\ \A s \in Symbols : flushing[s] = NoPrice
    /\ flushing' = [s \in Symbols |-> IF IsPaused(s) THEN NoPrice ELSE buffer[s]]
    /\ buffer' = [s \in Symbols |-> NoPrice]
    /\ UNCHANGED <<managerVars, worldVars, isReady, cexQuotes, oraclePrices, closePrices,
                   bothOracleAlerted, lastPrices, handler, switching>>

Flushed == {s \in Symbols : flushing[s] # NoPrice}

FlushSucceeds ==
    /\ Flushed # {}
    /\ lastPrices' = [s \in Symbols |-> IF s \in Flushed THEN flushing[s].price
                                        ELSE lastPrices[s]]
    /\ flushing' = [s \in Symbols |-> NoPrice]
    /\ UNCHANGED <<managerVars, worldVars, isReady, cexQuotes, oraclePrices,
                   closePrices, bothOracleAlerted, buffer, handler, switching>>

FlushFails ==
    /\ Flushed # {}
    /\ flushing' = [s \in Symbols |-> NoPrice]
    /\ UNCHANGED <<managerVars, worldVars, isReady, cexQuotes, oraclePrices, closePrices,
                   bothOracleAlerted, lastPrices, buffer, handler, switching>>

-----------------------------------------------------------------------------
(* handleCEXQuote *)

Goto(feed, pc) == handler' = [handler EXCEPT ![feed].pc = pc]
Return(feed)   == handler' = [handler EXCEPT ![feed] = Idle]

ReceiveQuote_BeforeReady(s, quote) ==
    /\ "cex" \in Sending
    /\ handler["cex"] = Idle
    /\ cexQuotes' = [cexQuotes EXCEPT ![s] = quote]
    /\ handler' = [handler EXCEPT !["cex"] = [pc |-> "source", symbol |-> s, price |-> 0]]
    /\ UNCHANGED <<managerVars, worldVars, isReady, oraclePrices, closePrices,
                   bothOracleAlerted, lastPrices, buffer, flushing, switching>>

\* Whatever the quote holds is cached, before any check of it.
ReceiveQuote(s, quote) ==
    /\ isReady /\ "cex" \in Sending
    /\ handler["cex"] = Idle
    /\ cexQuotes' = [cexQuotes EXCEPT ![s] = quote]
    /\ handler' = [handler EXCEPT !["cex"] = [pc |-> "source", symbol |-> s, price |-> 0]]
    /\ UNCHANGED <<managerVars, worldVars, isReady, oraclePrices, closePrices,
                   bothOracleAlerted, lastPrices, buffer, flushing, switching>>

\* Only the CEX reader writes cexQuotes, so the handler's quote is the cached one.
\* Whether it is fresh, by the clock, is found out here and nowhere else.
QuoteSource ==
    /\ handler["cex"].pc = "source"
    /\ LET s == handler["cex"].symbol
           usable == /\ dataSources[s] = "CEX"
                     /\ Rules!ValidatePrice(cexQuotes[s])
       IN  \E fresh \in Freshness :
               handler' = [handler EXCEPT !["cex"] =
                   IF usable /\ fresh THEN [@ EXCEPT !.pc = "collect", !.price = cexQuotes[s]]
                   ELSE Idle]
    /\ UNCHANGED <<managerVars, worldVars, isReady, cexQuotes, oraclePrices, closePrices,
                   bothOracleAlerted, lastPrices, buffer, flushing, switching>>

-----------------------------------------------------------------------------
(* handlePythPrice, handleGatePrice *)

SetOracleStatus(o, s, status) ==
    IF o = "pyth" THEN SetPythStatus(s, status) ELSE SetGateStatus(s, status)

\* A price that passed the checks arrives; only with a cached price can it jump.
ReceiveOraclePrice(o, s, jump) ==
    /\ isReady /\ o \in Sending
    /\ handler[o] = Idle
    /\ jump => oraclePrices[o][s]
    /\ SetOracleStatus(o, s, IF jump THEN "ABNORMAL" ELSE "NORMAL")
    /\ oraclePrices' = [oraclePrices EXCEPT ![o][s] = TRUE]
    /\ handler' = [handler EXCEPT ![o] = [pc |-> "source", symbol |-> s, price |-> 0]]
    /\ UNCHANGED <<worldVars, isReady, cexQuotes, closePrices, bothOracleAlerted,
                   lastPrices, buffer, flushing, switching>>

OracleSource(o) ==
    /\ handler[o].pc = "source"
    /\ IF dataSources[handler[o].symbol] = "WEIGHTED" THEN Goto(o, "statuses") ELSE Return(o)
    /\ UNCHANGED <<managerVars, worldVars, isReady, cexQuotes, oraclePrices, closePrices,
                   bothOracleAlerted, lastPrices, buffer, flushing, switching>>

-----------------------------------------------------------------------------
(* calculateAndPushWeightedPrice *)

\* GetPythStatus and GetGateStatus take m.mu one after the other; the second answer
\* matters only when the first is abnormal (IsBothOracleAbnormal).
ReadPythStatus(o) ==
    /\ handler[o].pc = "statuses"
    /\ Goto(o, IF pythStatuses[handler[o].symbol] = "NORMAL" THEN "usable" ELSE "gate status")
    /\ UNCHANGED <<managerVars, worldVars, isReady, cexQuotes, oraclePrices, closePrices,
                   bothOracleAlerted, lastPrices, buffer, flushing, switching>>

ReadGateStatus(o) ==
    /\ handler[o].pc = "gate status"
    /\ Goto(o, IF gateStatuses[handler[o].symbol] = "NORMAL" THEN "usable" ELSE "abnormal")
    /\ UNCHANGED <<managerVars, worldVars, isReady, cexQuotes, oraclePrices, closePrices,
                   bothOracleAlerted, lastPrices, buffer, flushing, switching>>

IfNotAlerted(o) ==
    /\ handler[o].pc = "abnormal"
    /\ IF handler[o].symbol \in bothOracleAlerted THEN Return(o) ELSE Goto(o, "pause")
    /\ UNCHANGED <<managerVars, worldVars, isReady, cexQuotes, oraclePrices, closePrices,
                   bothOracleAlerted, lastPrices, buffer, flushing, switching>>

PauseForOracles(o) ==
    /\ handler[o].pc = "pause"
    /\ PauseStock(handler[o].symbol, "both oracles")
    /\ Goto(o, "alerted")
    /\ UNCHANGED <<worldVars, isReady, cexQuotes, oraclePrices, closePrices,
                   bothOracleAlerted, lastPrices, buffer, flushing, switching>>

MarkAlerted(o) ==
    /\ handler[o].pc = "alerted"
    /\ bothOracleAlerted' = bothOracleAlerted \cup {handler[o].symbol}
    /\ Return(o)
    /\ UNCHANGED <<managerVars, worldVars, isReady, cexQuotes, oraclePrices, closePrices,
                   lastPrices, buffer, flushing, switching>>

ClearAlerted_KeepsFlag(o) ==
    /\ handler[o].pc = "usable"
    /\ Goto(o, "weigh")
    /\ UNCHANGED <<managerVars, worldVars, isReady, cexQuotes, oraclePrices, closePrices,
                   bothOracleAlerted, lastPrices, buffer, flushing, switching>>

ClearAlerted(o) ==
    /\ handler[o].pc = "usable"
    /\ LET s == handler[o].symbol
       IN  /\ bothOracleAlerted' = bothOracleAlerted \ {s}
           /\ Goto(o, IF s \in bothOracleAlerted THEN "resume" ELSE "weigh")
    /\ UNCHANGED <<managerVars, worldVars, isReady, cexQuotes, oraclePrices, closePrices,
                   lastPrices, buffer, flushing, switching>>

\* Lifts whatever pause there is, not only the one for the oracles.
ResumeAfterOracles(o) ==
    /\ handler[o].pc = "resume"
    /\ ResumeStock(handler[o].symbol)
    /\ Goto(o, "weigh")
    /\ UNCHANGED <<worldVars, isReady, cexQuotes, oraclePrices, closePrices,
                   bothOracleAlerted, lastPrices, buffer, flushing, switching>>

\* calculateWeightedPriceOnly: a close price missing in memory is read from Redis.
\* 0 stands for no price.  One step here: WeightedQuotes cuts it at its locks and at
\* the call of Redis, which may fail there.
CloseKnown(s) == closePrices[s] \/ storedClose[s]

WeightedPrices(s) ==
    LET pythOK == pythStatuses[s] = "NORMAL" /\ oraclePrices["pyth"][s]
        gateOK == gateStatuses[s] = "NORMAL" /\ oraclePrices["gate"][s]
        w == Rules!Weights(CloseKnown(s), pythOK, gateOK)
    IN  IF w = Rules!WeightTenths(0, 0, 0) THEN {0} ELSE Levels

LoadsClose(s) == closePrices' = [closePrices EXCEPT ![s] = CloseKnown(s)]

Weigh(o) ==
    /\ handler[o].pc = "weigh"
    /\ LET s == handler[o].symbol
       IN  /\ \E p \in WeightedPrices(s) :
                  handler' = [handler EXCEPT ![o] = IF p = 0 THEN Idle
                                  ELSE [@ EXCEPT !.pc = "collect", !.price = p]]
           /\ LoadsClose(s)
    /\ UNCHANGED <<managerVars, worldVars, isReady, cexQuotes, oraclePrices,
                   bothOracleAlerted, lastPrices, buffer, flushing, switching>>

Collect(feed) ==
    /\ handler[feed].pc = "collect"
    /\ CollectPrice(handler[feed].symbol, handler[feed].price,
                    IF feed = "cex" THEN "CEX" ELSE "WEIGHTED", FALSE)
    /\ Return(feed)
    /\ UNCHANGED <<managerVars, worldVars, isReady, cexQuotes, oraclePrices, closePrices,
                   bothOracleAlerted, lastPrices, flushing, switching>>

-----------------------------------------------------------------------------
(* onDataSourceChange, run by a switcher *)

At(w, pc)      == switching[w].pc = pc
Becomes(w, r)  == switching' = [switching EXCEPT ![w] = r]
SwitchGoto(w, pc) == switching' = [switching EXCEPT ![w].pc = pc]

\* A started callback gets to run; towards WEIGHTED it captures a close price first.
StartSwitch(w, s, new) ==
    /\ switching[w] = IdleSwitch
    /\ RunCallback(s, new)
    /\ Becomes(w, [IdleSwitch EXCEPT !.pc = IF new = "WEIGHTED" THEN "capture" ELSE "last",
                                     !.symbol = s, !.new = new])
    /\ UNCHANGED <<worldVars, isReady, cexQuotes, oraclePrices, closePrices,
                   bothOracleAlerted, lastPrices, buffer, flushing, handler>>

StoreClose_MemoryOnly(w) ==
    /\ At(w, "capture")
    /\ LET s == switching[w].symbol
           quote == cexQuotes[s]
       IN  /\ SwitchGoto(w, "last")
           /\ closePrices' = [closePrices EXCEPT ![s] = quote > 0]
    /\ UNCHANGED <<managerVars, worldVars, isReady, cexQuotes, oraclePrices,
                   bothOracleAlerted, lastPrices, buffer, flushing, handler>>

\* captureClosePrice: Redis first, and a failed write is only logged.  The price
\* it captures is one of the quote's fields: positive when the quote's price is.
StoreClose(w) ==
    /\ At(w, "capture")
    /\ LET s == switching[w].symbol
           quote == cexQuotes[s]
       IN  IF quote = NoQuote
           THEN SwitchGoto(w, "last") /\ UNCHANGED storedClose
           ELSE /\ Becomes(w, [switching[w] EXCEPT !.pc = "keep", !.price = quote])
                /\ \/ storedClose' = [storedClose EXCEPT ![s] = quote > 0]
                   \/ TRUE \in StoreErrors /\ UNCHANGED storedClose
    /\ UNCHANGED <<managerVars, isReady, cexQuotes, oraclePrices, closePrices,
                   bothOracleAlerted, lastPrices, buffer, flushing, handler>>

KeepClose(w) ==
    /\ At(w, "keep")
    /\ closePrices' = [closePrices EXCEPT ![switching[w].symbol] = switching[w].price > 0]
    /\ Becomes(w, [switching[w] EXCEPT !.pc = "last", !.price = 0])
    /\ UNCHANGED <<managerVars, worldVars, isReady, cexQuotes, oraclePrices,
                   bothOracleAlerted, lastPrices, buffer, flushing, handler>>

ReadLastPrice(w) ==
    /\ At(w, "last")
    /\ Becomes(w, [switching[w] EXCEPT !.pc = "price",
                                       !.last = lastPrices[switching[w].symbol]])
    /\ UNCHANGED <<managerVars, worldVars, isReady, cexQuotes, oraclePrices, closePrices,
                   bothOracleAlerted, lastPrices, buffer, flushing, handler>>

\* The 5 % check follows in the same step: it reads only the callback's own variables.
Checked(w, new) ==
    [switching[w] EXCEPT
        !.pc = IF Rules!ValidateSwitchDiff(switching[w].last, new) THEN "collect" ELSE "rollback",
        !.price = new]

\* Of a cached quote neither the price nor the age is validated here.
PriceOfQuote(w) ==
    /\ At(w, "price") /\ switching[w].new = "CEX"
    /\ LET quote == cexQuotes[switching[w].symbol]
       IN  Becomes(w, IF quote = NoQuote THEN IdleSwitch ELSE Checked(w, quote))
    /\ UNCHANGED <<managerVars, worldVars, isReady, cexQuotes, oraclePrices, closePrices,
                   bothOracleAlerted, lastPrices, buffer, flushing, handler>>

PriceByWeights(w) ==
    /\ At(w, "price") /\ switching[w].new = "WEIGHTED"
    /\ \E p \in WeightedPrices(switching[w].symbol) :
           Becomes(w, IF p = 0 THEN IdleSwitch ELSE Checked(w, p))
    /\ LoadsClose(switching[w].symbol)
    /\ UNCHANGED <<managerVars, worldVars, isReady, cexQuotes, oraclePrices,
                   bothOracleAlerted, lastPrices, buffer, flushing, handler>>

RollBack(w) ==
    /\ At(w, "rollback")
    /\ RollbackDataSource(switching[w].symbol, OtherSource(switching[w].new))
    /\ SwitchGoto(w, "pause")
    /\ UNCHANGED <<worldVars, isReady, cexQuotes, oraclePrices, closePrices,
                   bothOracleAlerted, lastPrices, buffer, flushing, handler>>

PauseAfterRollback_Forgets(w) ==
    /\ At(w, "pause")
    /\ Becomes(w, IdleSwitch)
    /\ UNCHANGED <<managerVars, worldVars, isReady, cexQuotes, oraclePrices, closePrices,
                   bothOracleAlerted, lastPrices, buffer, flushing, handler>>

PauseAfterRollback(w) ==
    /\ At(w, "pause")
    /\ PauseStock(switching[w].symbol, "switch difference")
    /\ Becomes(w, IdleSwitch)
    /\ UNCHANGED <<worldVars, isReady, cexQuotes, oraclePrices, closePrices,
                   bothOracleAlerted, lastPrices, buffer, flushing, handler>>

\* Forced, so never throttled; the ForceFlush that follows only makes StartFlush prompt.
CollectSwitched(w) ==
    /\ At(w, "collect")
    /\ CollectPrice(switching[w].symbol, switching[w].price, switching[w].new, TRUE)
    /\ Becomes(w, IdleSwitch)
    /\ UNCHANGED <<managerVars, worldVars, isReady, cexQuotes, oraclePrices, closePrices,
                   bothOracleAlerted, lastPrices, flushing, handler>>

SwitchStep(w) ==
    \/ StoreClose(w) \/ KeepClose(w) \/ ReadLastPrice(w)
    \/ PriceOfQuote(w) \/ PriceByWeights(w)
    \/ RollBack(w) \/ PauseAfterRollback(w) \/ CollectSwitched(w)

-----------------------------------------------------------------------------

OracleStep(o) ==
    \/ OracleSource(o) \/ ReadPythStatus(o) \/ ReadGateStatus(o) \/ IfNotAlerted(o)
    \/ PauseForOracles(o) \/ MarkAlerted(o) \/ ClearAlerted(o) \/ ResumeAfterOracles(o)
    \/ Weigh(o) \/ Collect(o)

Polls == \E market \in MarketStatuses, answers \in [Symbols -> StockStatuses \cup {"error"}] :
             PollOK(market, answers)

StartsSwitch(w) == \E s \in Symbols, new \in DataSources : StartSwitch(w, s, new)

ReceivesOraclePrice(o) ==
    \E s \in Symbols, jump \in Jumps : ReceiveOraclePrice(o, s, jump)

Next ==
    \/ Restart
    \/ BecomeReady
    \/ Polls
    \/ PollFailed
    \/ \E s \in Symbols, quote \in QuotePrices : ReceiveQuote(s, quote)
    \/ QuoteSource
    \/ Collect("cex")
    \/ \E o \in Oracles : ReceivesOraclePrice(o) \/ OracleStep(o)
    \/ \E w \in Switchers : StartsSwitch(w) \/ SwitchStep(w)
    \/ StartFlush
    \/ FlushSucceeds
    \/ FlushFails

Spec == Init /\ [][Next]_vars

\* Every goroutine keeps running; the exchange answers, the oracles keep sending
\* acceptable prices and a push ends either way.
Fairness ==
    /\ WF_vars(Polls)
    /\ WF_vars(BecomeReady)
    /\ WF_vars(QuoteSource \/ Collect("cex"))
    /\ \A o \in Oracles : /\ WF_vars(OracleStep(o))
                          /\ \A s \in Symbols : WF_vars(ReceiveOraclePrice(o, s, FALSE))
    /\ \A w \in Switchers : WF_vars(StartsSwitch(w)) /\ WF_vars(SwitchStep(w))
    /\ WF_vars(StartFlush) /\ WF_vars(FlushSucceeds \/ FlushFails)

LiveSpec == Spec /\ Fairness

=============================================================================

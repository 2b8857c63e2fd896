------------------------ MODULE OracleServiceProofs ------------------------
(***************************************************************************)
(* Proofs about the quote service, for any symbols, price levels, market   *)
(* and stock statuses, and any number of switch callbacks in flight.       *)
(***************************************************************************)
EXTENDS MCOracleService, TLAPS

Handlers == [pc : HandlerPCs, symbol : Symbols \cup {"none"}, price : Prices]

Callbacks == [pc : SwitchPCs, symbol : Symbols \cup {"none"}, new : DataSources,
              last : Prices, price : Prices]

(* Where a goroutine stands tells what it holds: a symbol once it is at work, and a
   price that may be collected once it is about to. *)
HandlerHolds(h) ==
    /\ h \in Handlers
    /\ h.pc # "idle" => h.symbol \in Symbols
    /\ h.pc = "collect" => h.price \in QuotePrices \cup Levels

CallbackHolds(c) ==
    /\ c \in Callbacks
    /\ c.pc # "idle" => c.symbol \in Symbols
    /\ c.pc = "collect" => c.price \in QuotePrices \cup Levels

HandlersOK  == handler \in [Feeds -> Handlers] /\ \A f \in Feeds : HandlerHolds(handler[f])
CallbacksOK == /\ switching \in [Switchers -> Callbacks]
               /\ \A w \in Switchers : CallbackHolds(switching[w])

(* What a callback cannot have reached before the service is ready: it has no price. *)
Preheating ==
    ~isReady =>
        /\ \A f \in Feeds : handler[f] = Idle
        /\ \A w \in Switchers : switching[w].pc \in {"idle", "capture", "last", "price"}
        /\ NothingBeforeReady

CachesOK ==
    /\ isReady \in BOOLEAN
    /\ cexQuotes \in [Symbols -> QuotePrices \cup {NoQuote}]
    /\ oraclePrices \in [Oracles -> [Symbols -> BOOLEAN]]
    /\ closePrices \in [Symbols -> BOOLEAN]
    /\ bothOracleAlerted \subseteq Symbols
    /\ storedClose \in [Symbols -> BOOLEAN]

PricesOK ==
    /\ lastPrices \in [Symbols -> Prices]
    /\ buffer \in [Symbols -> Priced \cup {NoPrice}]
    /\ flushing \in [Symbols -> Priced \cup {NoPrice}]

\* Only a running loop counts failures, and it counts below the limit.
Counting == pollLoop = "running" => queryFailureCount < MaxQueryFailures

ServiceInv ==
    ManagerTypeOK /\ Counting /\ HandlersOK /\ CallbacksOK /\ CachesOK /\ PricesOK /\ Preheating

-----------------------------------------------------------------------------
(* Values *)

LEMMA PricesHold ==
    /\ QuotePrices \cup Levels \subseteq Prices /\ 0 \in Prices
    /\ NoQuote \notin QuotePrices /\ Levels \subseteq Nat \ {0} /\ QuotePrices \subseteq Nat
BY ServiceAssumption DEF Prices, NoQuote

LEMMA IdleHolds == HandlerHolds(Idle) /\ Idle.pc = "idle"
BY PricesHold DEF HandlerHolds, Handlers, Idle, HandlerPCs

LEMMA IdleSwitchHolds == CallbackHolds(IdleSwitch) /\ IdleSwitch.pc = "idle"
BY PricesHold DEF CallbackHolds, Callbacks, IdleSwitch, SwitchPCs, DataSources

LEMMA HandlerBecomes ==
    ASSUME HandlersOK, NEW f \in Feeds, NEW h, HandlerHolds(h),
           handler' = [handler EXCEPT ![f] = h]
    PROVE  HandlersOK'
BY DEF HandlersOK, HandlerHolds

LEMMA HandlerGoes ==
    ASSUME HandlersOK, NEW f \in Feeds, NEW pc \in HandlerPCs \ {"collect"}, Goto(f, pc),
           handler[f].pc # "idle"
    PROVE  HandlersOK'
<1> DEFINE h == [handler[f] EXCEPT !.pc = pc]
<1>1. HandlerHolds(h)
  BY DEF HandlersOK, HandlerHolds, Handlers
<1>2. handler' = [handler EXCEPT ![f] = h]
  BY DEF Goto, HandlersOK
<1> HIDE DEF h
<1>. QED  BY <1>1, <1>2, HandlerBecomes

LEMMA CallbackBecomes ==
    ASSUME CallbacksOK, NEW w \in Switchers, NEW c, CallbackHolds(c), Becomes(w, c)
    PROVE  CallbacksOK'
BY DEF CallbacksOK, CallbackHolds, Becomes

LEMMA CallbackGoes ==
    ASSUME CallbacksOK, NEW w \in Switchers, NEW pc \in SwitchPCs \ {"collect"},
           SwitchGoto(w, pc), switching[w].pc # "idle"
    PROVE  CallbacksOK'
<1> DEFINE c == [switching[w] EXCEPT !.pc = pc]
<1>1. CallbackHolds(c)
  BY DEF CallbacksOK, CallbackHolds, Callbacks
<1>2. Becomes(w, c)
  BY DEF SwitchGoto, Becomes, CallbacksOK
<1> HIDE DEF c
<1>. QED  BY <1>1, <1>2, CallbackBecomes

-----------------------------------------------------------------------------
(* The state manager, as the service drives it *)

LEMMA PollTypes ==
    ASSUME ManagerTypeOK, NEW market \in MarketStatuses,
           NEW answers \in [Symbols -> StockStatuses \cup {"error"}],
           PollSucceeds(market, answers)
    PROVE  ManagerTypeOK'
<1> DEFINE stocks == [s \in Symbols |-> StockStatusOf(answers[s])]
<1> USE DEF ManagerTypeOK, DataSources
<1>1. /\ marketStatus' = market /\ stockStatuses' = stocks
      /\ stocks \in [Symbols -> StockStatuses \cup {"normal", NotPolled}]
  BY DEF PollSucceeds, UpdateStatus, StockStatusOf
<1>2. pausedStocks' \in [Symbols -> PauseReasons \cup {NotPaused}]
  BY DEF PollSucceeds, UpdateStatus, PausedAfter, PauseReasons, NotPaused
<1>3. \A s \in Symbols : DecideDataSource(market, stocks[s]) \in DataSources
  BY DEF DecideDataSource
<1>4. dataSources' \in [Symbols -> DataSources]
  BY <1>3 DEF PollSucceeds, UpdateStatus, DataSourceAfter
<1>5. ASSUME NEW s \in Symbols
      PROVE  SpawnedAfter(s, market, stocks[s]) \in [DataSources -> 0 .. MaxSpawned]
  <2> DEFINE new == DecideDataSource(market, stocks[s])
  <2>1. spawned[s] \in [DataSources -> 0 .. MaxSpawned] /\ new \in DataSources
    BY <1>3
  <2>2. \A d \in DataSources : SpawnedAfter(s, market, stocks[s])[d] <= MaxSpawned
    BY DEF PollSucceeds, UpdateStatus
  <2>3. \/ SpawnedAfter(s, market, stocks[s]) = spawned[s]
        \/ SpawnedAfter(s, market, stocks[s]) = [spawned[s] EXCEPT ![new] = @ + 1]
    BY DEF SpawnedAfter
  <2> DEFINE after == SpawnedAfter(s, market, stocks[s])
  <2> HIDE DEF new, stocks, after
  <2>4. CASE after = spawned[s]
    BY <2>1, <2>4 DEF after
  <2>5. CASE after = [spawned[s] EXCEPT ![new] = @ + 1]
    <3>1. after \in [DataSources -> Nat]
      BY <2>1, <2>5, StateManagerAssumption
    <3>. QED  BY <2>2, <3>1, StateManagerAssumption DEF after
  <2>. QED  BY <2>3, <2>4, <2>5 DEF after
<1>6. spawned' \in [Symbols -> [DataSources -> 0 .. MaxSpawned]]
  BY <1>5 DEF PollSucceeds, UpdateStatus
<1>7. queryFailureCount' = 0 /\ UNCHANGED <<pythStatuses, gateStatuses, pollLoop>>
  BY DEF PollSucceeds
<1>. QED  BY <1>1, <1>2, <1>4, <1>6, <1>7, StateManagerAssumption

LEMMA FailureTypes ==
    ASSUME ManagerTypeOK, Counting, PollFails
    PROVE  ManagerTypeOK' /\ Counting'
<1>1. queryFailureCount' \in 0 .. MaxQueryFailures /\ pollLoop' \in {"running", "fatal"}
      /\ Counting'
  BY StateManagerAssumption DEF PollFails, Counting, ManagerTypeOK
<1>. QED  BY <1>1 DEF PollFails, ManagerTypeOK

LEMMA FreshTypes ==
    /\ ManagerInit => ManagerTypeOK /\ Counting
    /\ ManagerRestarts => ManagerTypeOK' /\ Counting'
<1>1. [d \in DataSources |-> 0] \in [DataSources -> 0 .. MaxSpawned]
      /\ 0 \in 0 .. MaxQueryFailures /\ 0 < MaxQueryFailures
  BY StateManagerAssumption
<1>2. ManagerInit => ManagerTypeOK
  BY <1>1 DEF ManagerInit, ManagerTypeOK, DataSources, OracleStatus
<1>3. ManagerRestarts => ManagerTypeOK'
  BY <1>1 DEF ManagerRestarts, ManagerTypeOK, DataSources, OracleStatus
<1>. QED  BY <1>1, <1>2, <1>3 DEF ManagerInit, ManagerRestarts, Counting

(* What the handlers and the callbacks call. *)
ManagerCall ==
    \/ \E s : \E reason \in PauseReasons : PauseStock(s, reason)
    \/ \E s : ResumeStock(s)
    \/ \E s : \E d \in DataSources : RollbackDataSource(s, d)
    \/ \E s : \E status \in OracleStatus : SetPythStatus(s, status)
    \/ \E s : \E status \in OracleStatus : SetGateStatus(s, status)
    \/ \E s \in Symbols, d \in DataSources : RunCallback(s, d)

LEMMA CallTypes ==
    ASSUME ManagerTypeOK, Counting, ManagerCall
    PROVE  ManagerTypeOK' /\ Counting'
<1> USE DEF ManagerTypeOK, Counting
<1>1. CASE \E s : \E reason \in PauseReasons : PauseStock(s, reason)
  BY <1>1 DEF PauseStock
<1>2. CASE \E s : ResumeStock(s)
  BY <1>2 DEF ResumeStock
<1>3. CASE \E s : \E d \in DataSources : RollbackDataSource(s, d)
  BY <1>3 DEF RollbackDataSource
<1>4. CASE \E s : \E status \in OracleStatus : SetPythStatus(s, status)
  BY <1>4 DEF SetPythStatus
<1>5. CASE \E s : \E status \in OracleStatus : SetGateStatus(s, status)
  BY <1>5 DEF SetGateStatus
<1>6. CASE \E s \in Symbols, d \in DataSources : RunCallback(s, d)
  <2>1. PICK s \in Symbols, d \in DataSources : RunCallback(s, d)
    BY <1>6
  <2>2. spawned[s] \in [DataSources -> 0 .. MaxSpawned] /\ spawned[s][d] \in Nat
        /\ spawned[s][d] > 0 /\ spawned[s][d] <= MaxSpawned
    BY <2>1, StateManagerAssumption DEF RunCallback
  <2>3. [spawned[s] EXCEPT ![d] = @ - 1] \in [DataSources -> 0 .. MaxSpawned]
    BY <2>2, StateManagerAssumption
  <2>4. spawned' = [spawned EXCEPT ![s] = [spawned[s] EXCEPT ![d] = @ - 1]]
    BY <2>1 DEF RunCallback
  <2>5. spawned' \in [Symbols -> [DataSources -> 0 .. MaxSpawned]]
    BY <2>3, <2>4
  <2>. QED  BY <2>1, <2>5 DEF RunCallback
<1> HIDE DEF ManagerTypeOK, Counting
<1>. QED  BY <1>1, <1>2, <1>3, <1>4, <1>5, <1>6 DEF ManagerCall

-----------------------------------------------------------------------------
(* What a step leaves alone stays as it is *)

LEMMA ManagerSame ==
    ASSUME ManagerTypeOK, Counting, UNCHANGED managerVars
    PROVE  ManagerTypeOK' /\ Counting'
BY DEF managerVars, ManagerTypeOK, Counting

LEMMA WorkingMeansReady ==
    ASSUME Preheating, NEW f \in Feeds, handler[f].pc # "idle"
    PROVE  isReady
BY IdleHolds DEF Preheating

LEMMA ReadyIsPastPreheating ==
    ASSUME isReady, UNCHANGED isReady
    PROVE  Preheating'
BY DEF Preheating

LEMMA CollectTypes ==
    ASSUME PricesOK, NEW s, NEW price \in QuotePrices \cup Levels, NEW source \in DataSources,
           NEW force, CollectPrice(s, price, source, force), UNCHANGED <<lastPrices, flushing>>
    PROVE  PricesOK'
<1>1. [price |-> price, source |-> source] \in Priced
  BY DEF Priced
<1>. QED  BY <1>1 DEF CollectPrice, PricesOK

-----------------------------------------------------------------------------
(* The handlers *)

LEMMA CEXStep ==
    ASSUME ServiceInv,
           \/ \E s \in Symbols, quote \in QuotePrices : ReceiveQuote(s, quote)
           \/ QuoteSource
    PROVE  ServiceInv'
<1> USE DEF ServiceInv
<1>0. "cex" \in Feeds
  BY DEF Feeds
<1>1. ASSUME NEW s \in Symbols, NEW quote \in QuotePrices, ReceiveQuote(s, quote)
      PROVE  ServiceInv'
  <2> DEFINE h == [pc |-> "source", symbol |-> s, price |-> 0]
  <2>1. HandlerHolds(h)
    BY PricesHold DEF HandlerHolds, Handlers, HandlerPCs
  <2> HIDE DEF h
  <2>2. HandlersOK'
    BY <1>0, <1>1, <2>1, HandlerBecomes DEF ReceiveQuote, h
  <2>3. CachesOK'
    BY <1>1 DEF ReceiveQuote, CachesOK, worldVars
  <2>. QED  BY <1>1, <2>2, <2>3, ManagerSame, ReadyIsPastPreheating
            DEF ReceiveQuote, CallbacksOK, PricesOK
<1>2. CASE QuoteSource
  <2> DEFINE q == cexQuotes[handler["cex"].symbol]
             h == [handler["cex"] EXCEPT !.pc = "collect", !.price = q]
  <2>1. \/ handler' = [handler EXCEPT !["cex"] = Idle]
        \/ q > 0 /\ handler' = [handler EXCEPT !["cex"] = h]
    BY <1>0, <1>2 DEF QuoteSource, Rules!ValidatePrice, HandlersOK
  <2>2. handler["cex"].pc # "idle" /\ handler["cex"].symbol \in Symbols
    BY <1>0, <1>2 DEF QuoteSource, HandlersOK, HandlerHolds
  <2>3. q > 0 => HandlerHolds(h)
    <3>1. ASSUME q > 0
          PROVE  q \in QuotePrices /\ q \in Prices
      <4>1. q \in QuotePrices \cup {-1}
        BY <2>2 DEF CachesOK, NoQuote
      <4> HIDE DEF q
      <4>. QED  BY <3>1, <4>1, PricesHold
    <3> HIDE DEF q
    <3>2. ASSUME q > 0
          PROVE  HandlerHolds(h)
      BY <1>0, <2>2, <3>1, <3>2 DEF HandlersOK, HandlerHolds, Handlers, HandlerPCs
    <3>. QED  BY <3>2
  <2> HIDE DEF h, q
  <2>4. HandlersOK'
    BY <1>0, <2>1, <2>3, IdleHolds, HandlerBecomes
  <2>. QED  BY <1>0, <1>2, <2>2, <2>4, ManagerSame, WorkingMeansReady, ReadyIsPastPreheating
            DEF QuoteSource, CallbacksOK, PricesOK, CachesOK, worldVars
<1>. QED  BY <1>1, <1>2

LEMMA CollectStep ==
    ASSUME ServiceInv, NEW f \in Feeds, Collect(f)
    PROVE  ServiceInv'
<1> USE DEF ServiceInv
<1>1. handler[f].pc # "idle" /\ handler[f].price \in QuotePrices \cup Levels
  BY DEF Collect, HandlersOK, HandlerHolds
<1>2. HandlersOK'
  BY IdleHolds, HandlerBecomes DEF Collect, Return
<1>3. PricesOK'
  BY <1>1, CollectTypes DEF Collect, DataSources
<1>. QED  BY <1>1, <1>2, <1>3, ManagerSame, WorkingMeansReady, ReadyIsPastPreheating
          DEF Collect, CallbacksOK, CachesOK, worldVars

\* A handler's step that only goes on, to a place where it holds no price.
LEMMA GoingOn ==
    ASSUME ServiceInv, NEW o \in Oracles, handler[o].pc # "idle",
           \/ Return(o) \/ \E pc \in HandlerPCs \ {"collect"} : Goto(o, pc),
           UNCHANGED <<worldVars, isReady, cexQuotes, oraclePrices, closePrices,
                       lastPrices, buffer, flushing, switching>>,
           bothOracleAlerted' \subseteq Symbols,
           ManagerCall \/ UNCHANGED managerVars
    PROVE  ServiceInv'
<1> USE DEF ServiceInv
<1>0. o \in Feeds
  BY DEF Feeds
<1>1. HandlersOK'
  BY <1>0, IdleHolds, HandlerBecomes, HandlerGoes DEF Return
<1>2. ManagerTypeOK' /\ Counting'
  BY ManagerSame, CallTypes
<1>. QED  BY <1>0, <1>1, <1>2, WorkingMeansReady, ReadyIsPastPreheating
          DEF CallbacksOK, PricesOK, CachesOK, worldVars

LEMMA OracleStepKeepsInv ==
    ASSUME ServiceInv, NEW o \in Oracles, OracleStep(o)
    PROVE  ServiceInv'
<1> USE DEF ServiceInv
<1>0. o \in Feeds /\ bothOracleAlerted \subseteq Symbols
  BY DEF Feeds, CachesOK
<1> USE DEF HandlerPCs
<1>1. CASE OracleSource(o)
  BY <1>0, <1>1, GoingOn DEF OracleSource
<1>2. CASE ReadPythStatus(o)
  BY <1>0, <1>2, GoingOn DEF ReadPythStatus
<1>3. CASE ReadGateStatus(o)
  BY <1>0, <1>3, GoingOn DEF ReadGateStatus
<1>4. CASE IfNotAlerted(o)
  BY <1>0, <1>4, GoingOn DEF IfNotAlerted
<1>5. CASE PauseForOracles(o)
  <2>1. ManagerCall
    BY <1>5 DEF PauseForOracles, ManagerCall, PauseReasons
  <2>. QED  BY <1>0, <1>5, <2>1, GoingOn DEF PauseForOracles
<1>6. CASE MarkAlerted(o)
  <2>1. bothOracleAlerted' \subseteq Symbols
    BY <1>0, <1>6 DEF MarkAlerted, HandlersOK, HandlerHolds
  <2>. QED  BY <1>0, <1>6, <2>1, GoingOn DEF MarkAlerted
<1>7. CASE ClearAlerted(o)
  BY <1>0, <1>7, GoingOn DEF ClearAlerted
<1>8. CASE ResumeAfterOracles(o)
  <2>1. ManagerCall
    BY <1>8 DEF ResumeAfterOracles, ManagerCall
  <2>. QED  BY <1>0, <1>8, <2>1, GoingOn DEF ResumeAfterOracles
<1>9. CASE Weigh(o)
  <2>1. PICK p \in WeightedPrices(handler[o].symbol) :
            handler' = [handler EXCEPT ![o] = IF p = 0 THEN Idle
                            ELSE [handler[o] EXCEPT !.pc = "collect", !.price = p]]
    BY <1>0, <1>9 DEF Weigh, HandlersOK
  <2> DEFINE h == [handler[o] EXCEPT !.pc = "collect", !.price = p]
  <2>2. p = 0 \/ p \in Levels
    BY DEF WeightedPrices
  <2>3. p \in Levels => HandlerHolds(h)
    BY <1>0, <1>9, PricesHold DEF Weigh, HandlersOK, HandlerHolds, Handlers
  <2> HIDE DEF h
  <2>4. HandlersOK'
    BY <1>0, <2>1, <2>2, <2>3, IdleHolds, HandlerBecomes DEF h
  <2>5. CachesOK'
    BY <1>9 DEF Weigh, LoadsClose, CloseKnown, CachesOK, worldVars
  <2>. QED  BY <1>0, <1>9, <2>4, <2>5, ManagerSame, WorkingMeansReady, ReadyIsPastPreheating
            DEF Weigh, CallbacksOK, PricesOK
<1>10. CASE Collect(o)
  BY <1>0, <1>10, CollectStep
<1>. QED  BY <1>1, <1>2, <1>3, <1>4, <1>5, <1>6, <1>7, <1>8, <1>9, <1>10 DEF OracleStep

LEMMA ReceiptKeepsInv ==
    ASSUME ServiceInv, NEW o \in Oracles, NEW s \in Symbols, NEW jump \in Jumps,
           ReceiveOraclePrice(o, s, jump)
    PROVE  ServiceInv'
<1> USE DEF ServiceInv
<1> DEFINE h == [pc |-> "source", symbol |-> s, price |-> 0]
<1>1. HandlerHolds(h) /\ o \in Feeds
  BY PricesHold DEF HandlerHolds, Handlers, HandlerPCs, Feeds
<1> HIDE DEF h
<1>2. HandlersOK'
  BY <1>1, HandlerBecomes DEF ReceiveOraclePrice, h
<1>3. ManagerCall
  <2>1. \E verdict \in OracleStatus : SetPythStatus(s, verdict) \/ SetGateStatus(s, verdict)
    BY DEF ReceiveOraclePrice, SetOracleStatus, OracleStatus
  <2>. QED  BY <2>1 DEF ManagerCall
<1>4. CachesOK'
  BY DEF ReceiveOraclePrice, CachesOK, worldVars
<1>. QED  BY <1>2, <1>3, <1>4, CallTypes, ReadyIsPastPreheating
          DEF ReceiveOraclePrice, CallbacksOK, PricesOK

-----------------------------------------------------------------------------
(* The switch callbacks *)

\* Before the service is ready nothing is cached that a weighted price could be made of.
LEMMA NoWeightsBeforeReady ==
    ASSUME Preheating, ~isReady, NEW s \in Symbols
    PROVE  WeightedPrices(s) = {0} /\ cexQuotes[s] = NoQuote
<1>1. ~oraclePrices["pyth"][s] /\ ~oraclePrices["gate"][s] /\ cexQuotes[s] = NoQuote
  BY DEF Preheating, NothingBeforeReady
<1>2. Rules!Weights(CloseKnown(s), FALSE, FALSE) = Rules!WeightTenths(0, 0, 0)
  BY DEF Rules!Weights
<1>. QED  BY <1>1, <1>2 DEF WeightedPrices

\* A Boolean-valued update, apart from the arithmetic of what is written.
LEMMA FlagUpdate ==
    ASSUME NEW f \in [Symbols -> BOOLEAN], NEW s, NEW flag \in BOOLEAN
    PROVE  [f EXCEPT ![s] = flag] \in [Symbols -> BOOLEAN]
OBVIOUS

\* What a callback's step keeps of the preheating, wherever it leaves the callback.
LEMMA PreheatingGoesOn ==
    ASSUME Preheating, CallbacksOK, NEW w \in Switchers,
           \E c : Becomes(w, c) /\ (~isReady => c.pc \in {"idle", "capture", "last", "price"}),
           UNCHANGED <<isReady, cexQuotes, oraclePrices, lastPrices, flushing, handler>>,
           ~isReady => UNCHANGED buffer
    PROVE  Preheating'
BY DEF Preheating, NothingBeforeReady, CallbacksOK, Becomes

LEMMA CallbackStepKeepsInv ==
    ASSUME ServiceInv, NEW w \in Switchers, SwitchStep(w)
    PROVE  ServiceInv'
<1> USE DEF ServiceInv
<1> DEFINE old == switching[w]
           s == old.symbol
<1>0. /\ CallbackHolds(old) /\ (~isReady => old.pc \in {"idle", "capture", "last", "price"})
      /\ old.pc # "idle" => s \in Symbols
  BY DEF CallbacksOK, CallbackHolds, Preheating
<1>1. ASSUME NEW c, Becomes(w, c), CallbackHolds(c),
             ~isReady => c.pc \in {"idle", "capture", "last", "price"},
             UNCHANGED <<isReady, cexQuotes, oraclePrices, bothOracleAlerted, handler,
                         lastPrices, flushing>>,
             ~isReady => UNCHANGED buffer,
             buffer' \in [Symbols -> Priced \cup {NoPrice}],
             closePrices' \in [Symbols -> BOOLEAN], storedClose' \in [Symbols -> BOOLEAN],
             ManagerCall \/ UNCHANGED managerVars
      PROVE  ServiceInv'
  <2>1. CallbacksOK'
    BY <1>1, CallbackBecomes
  <2>2. Preheating'
    BY <1>1, PreheatingGoesOn
  <2>3. ManagerTypeOK' /\ Counting'
    BY <1>1, ManagerSame, CallTypes
  <2>4. HandlersOK' /\ CachesOK' /\ PricesOK'
    BY <1>1 DEF HandlersOK, CachesOK, PricesOK
  <2>. QED  BY <2>1, <2>2, <2>3, <2>4
<1>2. /\ buffer \in [Symbols -> Priced \cup {NoPrice}] /\ closePrices \in [Symbols -> BOOLEAN]
      /\ storedClose \in [Symbols -> BOOLEAN]
  BY DEF PricesOK, CachesOK
<1>3. old.pc # "idle" => cexQuotes[s] \in QuotePrices \cup {NoQuote} /\ lastPrices[s] \in Prices
  BY <1>0 DEF CachesOK, PricesOK
<1>4. ASSUME NEW pc \in SwitchPCs \ {"collect"}, SwitchGoto(w, pc), old.pc # "idle"
      PROVE  \E c : Becomes(w, c) /\ CallbackHolds(c) /\ c.pc = pc
  <2> DEFINE c == [old EXCEPT !.pc = pc]
  <2>1. CallbackHolds(c) /\ c.pc = pc
    BY <1>0, <1>4 DEF CallbackHolds, Callbacks
  <2>2. Becomes(w, c)
    BY <1>4 DEF SwitchGoto, Becomes, CallbacksOK
  <2> HIDE DEF c
  <2>. QED  BY <2>1, <2>2
<1>5. CASE StoreClose(w)
  <2>1. old.pc = "capture"
    BY <1>5 DEF StoreClose, At
  <2>2. CASE cexQuotes[s] = NoQuote
    <3>1. SwitchGoto(w, "last") /\ UNCHANGED storedClose
      BY <1>5, <2>2 DEF StoreClose
    <3>2. PICK c : Becomes(w, c) /\ CallbackHolds(c) /\ c.pc = "last"
      BY <1>4, <2>1, <3>1 DEF SwitchPCs
    <3>. QED  BY <1>1, <1>2, <1>5, <3>1, <3>2 DEF StoreClose
  <2>3. CASE cexQuotes[s] # NoQuote
    <3> DEFINE c == [old EXCEPT !.pc = "keep", !.price = cexQuotes[s]]
    <3>1. isReady
      BY <1>0, <2>1, <2>3, NoWeightsBeforeReady
    <3>2. cexQuotes[s] \in QuotePrices /\ cexQuotes[s] \in Prices
      BY <1>3, <2>1, <2>3, PricesHold
    <3>3. CallbackHolds(c)
      BY <1>0, <2>1, <3>2 DEF CallbackHolds, Callbacks, SwitchPCs
    <3>4. Becomes(w, c) /\ storedClose' \in [Symbols -> BOOLEAN]
      <4>1. (cexQuotes[s] > 0) \in BOOLEAN
        OBVIOUS
      <4>2. [storedClose EXCEPT ![s] = cexQuotes[s] > 0] \in [Symbols -> BOOLEAN]
        BY <1>2, <4>1, FlagUpdate, Zenon
      <4>. QED  BY <1>2, <1>5, <2>3, <4>2, Zenon DEF StoreClose
    <3> HIDE DEF c
    <3>. QED  BY <1>1, <1>2, <1>5, <3>1, <3>3, <3>4 DEF StoreClose
  <2>. QED  BY <2>2, <2>3
<1>6. CASE KeepClose(w)
  <2> DEFINE c == [old EXCEPT !.pc = "last", !.price = 0]
  <2>1. old.pc = "keep" /\ closePrices' \in [Symbols -> BOOLEAN] /\ Becomes(w, c)
    <3>1. (old.price > 0) \in BOOLEAN
      OBVIOUS
    <3>2. [closePrices EXCEPT ![s] = old.price > 0] \in [Symbols -> BOOLEAN]
      BY <1>2, <3>1, FlagUpdate, Zenon
    <3>. QED  BY <1>6, <3>2, Zenon DEF KeepClose, At
  <2>2. CallbackHolds(c) /\ c.pc = "last"
    BY <1>0, <2>1, PricesHold DEF CallbackHolds, Callbacks, SwitchPCs
  <2> HIDE DEF c
  <2>. QED  BY <1>1, <1>2, <1>6, <2>1, <2>2 DEF KeepClose, worldVars
<1>7. CASE ReadLastPrice(w)
  <2> DEFINE c == [old EXCEPT !.pc = "price", !.last = lastPrices[s]]
  <2>1. old.pc = "last" /\ Becomes(w, c)
    BY <1>7 DEF ReadLastPrice, At
  <2>2. CallbackHolds(c) /\ c.pc = "price"
    BY <1>0, <1>3, <2>1 DEF CallbackHolds, Callbacks, SwitchPCs
  <2> HIDE DEF c
  <2>. QED  BY <1>1, <1>2, <1>7, <2>1, <2>2 DEF ReadLastPrice, worldVars
<1>8. ASSUME NEW p \in QuotePrices \cup Levels, old.pc # "idle"
      PROVE  CallbackHolds(Checked(w, p))
  <2>1. p \in Prices
    BY PricesHold
  <2> DEFINE pc == IF Rules!ValidateSwitchDiff(old.last, p) THEN "collect" ELSE "rollback"
  <2>2. pc \in SwitchPCs
    BY DEF SwitchPCs
  <2>3. Checked(w, p) = [old EXCEPT !.pc = pc, !.price = p]
    BY DEF Checked
  <2> HIDE DEF pc
  <2>. QED  BY <1>0, <1>8, <2>1, <2>2, <2>3 DEF CallbackHolds, Callbacks
<1>9. CASE PriceOfQuote(w)
  <2>1. old.pc = "price" /\ Becomes(w, IF cexQuotes[s] = NoQuote THEN IdleSwitch
                                       ELSE Checked(w, cexQuotes[s]))
    BY <1>9 DEF PriceOfQuote, At
  <2>2. CASE cexQuotes[s] = NoQuote
    BY <1>1, <1>2, <1>9, <2>1, <2>2, IdleSwitchHolds DEF PriceOfQuote, worldVars
  <2>3. CASE cexQuotes[s] # NoQuote
    <3>1. isReady
      BY <1>0, <2>1, <2>3, NoWeightsBeforeReady
    <3>2. CallbackHolds(Checked(w, cexQuotes[s]))
      BY <1>3, <1>8, <2>1, <2>3
    <3>. QED  BY <1>1, <1>2, <1>9, <2>1, <2>3, <3>1, <3>2 DEF PriceOfQuote, worldVars
  <2>. QED  BY <2>2, <2>3
<1>10. CASE PriceByWeights(w)
  <2>1. PICK p \in WeightedPrices(s) :
            Becomes(w, IF p = 0 THEN IdleSwitch ELSE Checked(w, p))
    BY <1>10 DEF PriceByWeights
  <2>2. old.pc = "price" /\ closePrices' \in [Symbols -> BOOLEAN] /\ (p = 0 \/ p \in Levels)
    BY <1>2, <1>10 DEF PriceByWeights, At, LoadsClose, CloseKnown, WeightedPrices
  <2>3. CASE p = 0
    BY <1>1, <1>2, <1>10, <2>1, <2>2, <2>3, IdleSwitchHolds DEF PriceByWeights, worldVars
  <2>4. CASE p # 0
    <3>1. isReady
      BY <1>0, <2>1, <2>2, <2>4, NoWeightsBeforeReady
    <3>2. CallbackHolds(Checked(w, p))
      BY <1>8, <2>2, <2>4
    <3>. QED  BY <1>1, <1>2, <1>10, <2>1, <2>2, <2>4, <3>1, <3>2 DEF PriceByWeights, worldVars
  <2>. QED  BY <2>3, <2>4
<1>11. CASE RollBack(w)
  <2>1. old.pc = "rollback" /\ SwitchGoto(w, "pause") /\ OtherSource(old.new) \in DataSources
    <3>1. \E d \in DataSources : d # old.new
      BY DEF DataSources
    <3>. QED  BY <1>11, <3>1 DEF RollBack, At, OtherSource
  <2>2. ManagerCall
    BY <1>11, <2>1 DEF RollBack, ManagerCall
  <2>3. PICK c : Becomes(w, c) /\ CallbackHolds(c) /\ c.pc = "pause"
    BY <1>4, <2>1 DEF SwitchPCs
  <2>. QED  BY <1>0, <1>1, <1>2, <1>11, <2>1, <2>2, <2>3 DEF RollBack, worldVars
<1>12. CASE PauseAfterRollback(w)
  <2>1. ManagerCall
    BY <1>12 DEF PauseAfterRollback, ManagerCall, PauseReasons
  <2>. QED  BY <1>1, <1>2, <1>12, <2>1, IdleSwitchHolds DEF PauseAfterRollback, worldVars
<1>13. CASE CollectSwitched(w)
  <2>1. old.pc = "collect" /\ old.price \in QuotePrices \cup Levels /\ old.new \in DataSources
    BY <1>0, <1>13 DEF CollectSwitched, At, CallbackHolds, Callbacks
  <2>2. PricesOK' /\ isReady
    BY <1>0, <1>13, <2>1, CollectTypes DEF CollectSwitched
  <2>. QED  BY <1>1, <1>2, <1>13, <2>2, IdleSwitchHolds DEF CollectSwitched, worldVars, PricesOK
<1>. QED  BY <1>5, <1>6, <1>7, <1>9, <1>10, <1>11, <1>12, <1>13 DEF SwitchStep

LEMMA StartKeepsInv ==
    ASSUME ServiceInv, NEW w \in Switchers, NEW s \in Symbols, NEW new \in DataSources,
           StartSwitch(w, s, new)
    PROVE  ServiceInv'
<1> USE DEF ServiceInv
<1> DEFINE pc == IF new = "WEIGHTED" THEN "capture" ELSE "last"
           c == [IdleSwitch EXCEPT !.pc = pc, !.symbol = s, !.new = new]
<1>1. pc \in {"capture", "last"}
  OBVIOUS
<1>2. Becomes(w, c)
  BY DEF StartSwitch
<1> HIDE DEF pc
<1>3. CallbackHolds(c) /\ c.pc = pc
  BY <1>1, PricesHold DEF CallbackHolds, Callbacks, IdleSwitch, SwitchPCs
<1> HIDE DEF c
<1>4. CallbacksOK' /\ Preheating'
  BY <1>1, <1>2, <1>3, CallbackBecomes, PreheatingGoesOn DEF StartSwitch
<1>5. ManagerTypeOK' /\ Counting'
  <2>1. ManagerCall
    BY DEF StartSwitch, ManagerCall
  <2>. QED  BY <2>1, CallTypes
<1>. QED  BY <1>4, <1>5 DEF StartSwitch, HandlersOK, CachesOK, PricesOK, worldVars

-----------------------------------------------------------------------------
(* Start, restarts, polls and flushes *)

LEMMA FreshService ==
    /\ Init => ServiceInv
    /\ ServiceInv /\ Restart => ServiceInv'
<1>1. /\ [f \in Feeds |-> Idle] \in [Feeds -> Handlers]
      /\ [w \in Switchers |-> IdleSwitch] \in [Switchers -> Callbacks]
      /\ \A f \in Feeds : HandlerHolds(Idle) /\ \A w \in Switchers : CallbackHolds(IdleSwitch)
  BY IdleHolds, IdleSwitchHolds DEF HandlerHolds, CallbackHolds
<1>2. ASSUME Init
      PROVE  ServiceInv
  <2>1. HandlersOK /\ CallbacksOK
    BY <1>1, <1>2, IdleHolds, IdleSwitchHolds DEF Init, ServiceInit, HandlersOK, CallbacksOK
  <2>2. CachesOK /\ PricesOK
    BY <1>2, PricesHold DEF Init, ServiceInit, CachesOK, PricesOK
  <2>3. Preheating
    BY <1>2, IdleSwitchHolds
       DEF Init, ServiceInit, Preheating, NothingBeforeReady, Oracles
  <2>. QED  BY <1>2, <2>1, <2>2, <2>3, FreshTypes DEF Init, ServiceInv
<1>3. ASSUME ServiceInv, Restart
      PROVE  ServiceInv'
  <2>1. HandlersOK' /\ CallbacksOK'
    BY <1>1, <1>3, IdleHolds, IdleSwitchHolds DEF Restart, ServiceRestarts, HandlersOK, CallbacksOK
  <2>2. CachesOK' /\ PricesOK'
    BY <1>3, PricesHold DEF Restart, ServiceRestarts, CachesOK, PricesOK, ServiceInv
  <2>3. Preheating'
    BY <1>3, IdleSwitchHolds
       DEF Restart, ServiceRestarts, Preheating, NothingBeforeReady, Oracles
  <2>. QED  BY <1>3, <2>1, <2>2, <2>3, FreshTypes DEF Restart, ServiceInv
<1>. QED  BY <1>2, <1>3

LEMMA BecomeReadyKeepsInv == ServiceInv /\ BecomeReady => ServiceInv'
<1> SUFFICES ASSUME ServiceInv, BecomeReady
             PROVE  ServiceInv'
  OBVIOUS
<1> USE DEF ServiceInv
<1>1. CachesOK' /\ PricesOK'
  BY PricesHold DEF BecomeReady, CachesOK, PricesOK, worldVars
<1>. QED  BY <1>1, ManagerSame DEF BecomeReady, HandlersOK, CallbacksOK, Preheating

LEMMA PollKeepsInv ==
    ASSUME ServiceInv, Polls \/ PollFailed
    PROVE  ServiceInv'
<1> USE DEF ServiceInv
<1>1. UNCHANGED <<serviceVars, worldVars>>
  BY DEF Polls, PollOK, PollFailed
<1>2. HandlersOK' /\ CallbacksOK' /\ CachesOK' /\ PricesOK' /\ Preheating'
  BY <1>1 DEF serviceVars, worldVars, HandlersOK, CallbacksOK, CachesOK, PricesOK, Preheating,
              NothingBeforeReady
<1>3. CASE Polls
  <2>1. PICK market \in MarketStatuses, answers \in [Symbols -> StockStatuses \cup {"error"}] :
            PollSucceeds(market, answers)
    BY <1>3 DEF Polls, PollOK
  <2>2. ManagerTypeOK'
    BY <2>1, PollTypes
  <2>3. Counting'
    BY <2>1, StateManagerAssumption DEF PollSucceeds, Counting
  <2>. QED  BY <1>2, <2>2, <2>3
<1>4. CASE PollFailed
  BY <1>2, <1>4, FailureTypes DEF PollFailed
<1>. QED  BY <1>3, <1>4

LEMMA FlushKeepsInv ==
    ASSUME ServiceInv, StartFlush \/ FlushSucceeds \/ FlushFails
    PROVE  ServiceInv'
<1> USE DEF ServiceInv
<1>1. HandlersOK' /\ CallbacksOK' /\ CachesOK' /\ ManagerTypeOK' /\ Counting'
  BY ManagerSame
     DEF StartFlush, FlushSucceeds, FlushFails, HandlersOK, CallbacksOK, CachesOK, worldVars
<1>2. CASE StartFlush
  <2>1. PricesOK'
    BY <1>2 DEF StartFlush, PricesOK
  <2>2. isReady
    BY <1>2 DEF StartFlush, Preheating, NothingBeforeReady
  <2>. QED  BY <1>1, <1>2, <2>1, <2>2, ReadyIsPastPreheating DEF StartFlush
<1>3. CASE FlushSucceeds
  <2>1. \A s \in Flushed : flushing[s].price \in Prices
    BY PricesHold DEF Flushed, PricesOK, Priced
  <2>2. PricesOK'
    BY <1>3, <2>1 DEF FlushSucceeds, PricesOK
  <2>3. isReady
    BY <1>3 DEF FlushSucceeds, Flushed, Preheating, NothingBeforeReady
  <2>. QED  BY <1>1, <1>3, <2>2, <2>3, ReadyIsPastPreheating DEF FlushSucceeds
<1>4. CASE FlushFails
  <2>1. PricesOK'
    BY <1>4 DEF FlushFails, PricesOK
  <2>2. isReady
    BY <1>4 DEF FlushFails, Flushed, Preheating, NothingBeforeReady
  <2>. QED  BY <1>1, <1>4, <2>1, <2>2, ReadyIsPastPreheating DEF FlushFails
<1>. QED  BY <1>2, <1>3, <1>4

-----------------------------------------------------------------------------

LEMMA NextKeepsInv == ServiceInv /\ [Next]_vars => ServiceInv'
<1> SUFFICES ASSUME ServiceInv, [Next]_vars
             PROVE  ServiceInv'
  OBVIOUS
<1>1. CASE Restart \/ BecomeReady \/ Polls \/ PollFailed \/ StartFlush \/ FlushSucceeds \/ FlushFails
  BY <1>1, FreshService, BecomeReadyKeepsInv, PollKeepsInv, FlushKeepsInv
<1>2. CASE (\E s \in Symbols, quote \in QuotePrices : ReceiveQuote(s, quote)) \/ QuoteSource
  BY <1>2, CEXStep
<1>3. CASE Collect("cex")
  BY <1>3, CollectStep DEF Feeds
<1>4. CASE \E o \in Oracles : ReceivesOraclePrice(o) \/ OracleStep(o)
  BY <1>4, ReceiptKeepsInv, OracleStepKeepsInv DEF ReceivesOraclePrice
<1>5. CASE \E w \in Switchers : StartsSwitch(w) \/ SwitchStep(w)
  BY <1>5, StartKeepsInv, CallbackStepKeepsInv DEF StartsSwitch
<1>6. CASE UNCHANGED vars
  <2>1. ManagerTypeOK' /\ Counting'
    BY <1>6, ManagerSame DEF vars, ServiceInv
  <2>2. HandlersOK' /\ CallbacksOK' /\ CachesOK' /\ PricesOK' /\ Preheating'
    BY <1>6 DEF vars, serviceVars, worldVars, ServiceInv, HandlersOK, CallbacksOK, CachesOK,
                PricesOK, Preheating, NothingBeforeReady
  <2>. QED  BY <2>1, <2>2 DEF ServiceInv
<1>. QED  BY <1>1, <1>2, <1>3, <1>4, <1>5, <1>6 DEF Next

LEMMA ServiceInvariant == MCSpec => []ServiceInv
<1>1. MCInit => ServiceInv
  BY FreshService DEF MCInit
<1>2. ServiceInv /\ [MCNext]_<<vars, unsaved>> => ServiceInv'
  BY NextKeepsInv DEF MCNext
<1>. QED  BY <1>1, <1>2, PTL DEF MCSpec

(* The types of the service, of its manager and of what Redis holds, with any number
   of handlers and callbacks under way. *)
THEOREM ServiceTypes == MCSpec => []TypeOK
<1>1. ServiceInv => TypeOK
  BY DEF ServiceInv, TypeOK, HandlersOK, CallbacksOK, CachesOK, PricesOK, Handlers, Callbacks
<1>. QED  BY <1>1, ServiceInvariant, PTL

(* Nothing is collected, flushed or confirmed before the service is ready, although
   the polls and the switch callbacks they start run already (Start). *)
THEOREM PreheatIsQuiet == MCSpec => []NothingBeforeReady
<1>1. ServiceInv => NothingBeforeReady
  BY DEF ServiceInv, Preheating, NothingBeforeReady
<1>. QED  BY <1>1, ServiceInvariant, PTL

-----------------------------------------------------------------------------
(* Close prices.  A quote is never worth 0 here: a quote of 0 captured as a close price
   would replace the good one in Redis. *)

Saved(s) == storedClose[s] \/ s \in unsaved

CloseInv ==
    /\ \A s \in Symbols : closePrices[s] => Saved(s)
    /\ \A w \in Switchers : At(w, "keep") /\ switching[w].price > 0 => Saved(switching[w].symbol)

\* No callback comes to hold a close price it has still to keep.
NoneCaptures == \A w \in Switchers : switching'[w].pc = "keep" => switching'[w] = switching[w]

LEMMA OtherCallbackSteps ==
    ASSUME CallbacksOK, NEW w \in Switchers, NEW c, Becomes(w, c), c.pc # "keep"
    PROVE  NoneCaptures
BY DEF NoneCaptures, Becomes, CallbacksOK

\* The steps that touch a close price, and all the others.
CloseStep ==
    \/ Restart
    \/ \E w \in Switchers : StoreClose(w) \/ KeepClose(w)
    \/ \E s \in Symbols : LoadsClose(s) /\ UNCHANGED storedClose /\ NoneCaptures
    \/ UNCHANGED <<closePrices, storedClose>> /\ NoneCaptures

LEMMA CallbackCloseStep ==
    ASSUME ServiceInv, NEW w \in Switchers, SwitchStep(w)
    PROVE  CloseStep
<1>0. CallbacksOK /\ CallbackHolds(switching[w])
  BY DEF ServiceInv, CallbacksOK
<1>1. CASE StoreClose(w) \/ KeepClose(w)
  BY <1>1 DEF CloseStep
<1>2. CASE ReadLastPrice(w) \/ PauseAfterRollback(w) \/ CollectSwitched(w)
  <2>1. ReadLastPrice(w) => \E c : Becomes(w, c) /\ c.pc # "keep"
    <3> DEFINE c == [switching[w] EXCEPT !.pc = "price", !.last = lastPrices[switching[w].symbol]]
    <3>1. c.pc # "keep"
      BY <1>0 DEF CallbackHolds, Callbacks
    <3>2. ReadLastPrice(w) => Becomes(w, c)
      BY DEF ReadLastPrice
    <3> HIDE DEF c
    <3>. QED  BY <3>1, <3>2
  <2>2. \E c : Becomes(w, c) /\ c.pc # "keep"
    BY <1>2, <2>1, IdleSwitchHolds DEF PauseAfterRollback, CollectSwitched
  <2>. QED  BY <1>0, <1>2, <2>2, OtherCallbackSteps
             DEF CloseStep, ReadLastPrice, PauseAfterRollback, CollectSwitched, worldVars
<1>3. CASE RollBack(w)
  <2>1. Becomes(w, [switching[w] EXCEPT !.pc = "pause"])
    BY <1>0, <1>3 DEF RollBack, SwitchGoto, Becomes
  <2>2. [switching[w] EXCEPT !.pc = "pause"].pc # "keep"
    BY <1>0 DEF CallbackHolds, Callbacks
  <2>. QED  BY <1>0, <1>3, <2>1, <2>2, OtherCallbackSteps DEF CloseStep, RollBack, worldVars
<1>4. ASSUME NEW p
      PROVE  Checked(w, p).pc # "keep"
  BY <1>0 DEF Checked, CallbackHolds, Callbacks
<1>5. CASE PriceOfQuote(w)
  <2>1. \E c : Becomes(w, c) /\ c.pc # "keep"
    BY <1>4, <1>5, IdleSwitchHolds DEF PriceOfQuote
  <2>. QED  BY <1>0, <1>5, <2>1, OtherCallbackSteps DEF CloseStep, PriceOfQuote, worldVars
<1>6. CASE PriceByWeights(w)
  <2>1. \E c : Becomes(w, c) /\ c.pc # "keep"
    BY <1>4, <1>6, IdleSwitchHolds DEF PriceByWeights
  <2>2. switching[w].symbol \in Symbols
    BY <1>0, <1>6 DEF PriceByWeights, At, CallbackHolds
  <2>. QED  BY <1>0, <1>6, <2>1, <2>2, OtherCallbackSteps DEF CloseStep, PriceByWeights, worldVars
<1>. QED  BY <1>1, <1>2, <1>3, <1>5, <1>6 DEF SwitchStep

LEMMA ServiceCloseStep ==
    ASSUME ServiceInv, [Next]_vars
    PROVE  CloseStep
<1>1. UNCHANGED switching => NoneCaptures
  BY DEF NoneCaptures
<1>2. CASE Restart \/ \E w \in Switchers : SwitchStep(w)
  BY <1>2, CallbackCloseStep DEF CloseStep
<1>3. CASE \/ BecomeReady \/ Polls \/ PollFailed \/ StartFlush \/ FlushSucceeds \/ FlushFails
           \/ UNCHANGED vars
  BY <1>1, <1>3 DEF CloseStep, BecomeReady, Polls, PollOK, PollFailed, StartFlush, FlushSucceeds,
                    FlushFails, vars, serviceVars, worldVars
<1>4. CASE (\E s \in Symbols, quote \in QuotePrices : ReceiveQuote(s, quote)) \/ QuoteSource
           \/ Collect("cex")
  BY <1>1, <1>4 DEF CloseStep, ReceiveQuote, QuoteSource, Collect, worldVars
<1>5. CASE \E o \in Oracles : ReceivesOraclePrice(o) \/ OracleStep(o)
  <2>1. PICK o \in Oracles : ReceivesOraclePrice(o) \/ OracleStep(o)
    BY <1>5
  <2>2. CASE Weigh(o)
    <3>1. handler[o].symbol \in Symbols
      BY <2>2 DEF Weigh, ServiceInv, HandlersOK, HandlerHolds, Feeds
    <3>. QED  BY <1>1, <2>2, <3>1 DEF Weigh, CloseStep, worldVars
  <2>3. CASE ~Weigh(o)
    BY <1>1, <2>1, <2>3
       DEF ReceivesOraclePrice, ReceiveOraclePrice, OracleStep, OracleSource, ReadPythStatus,
           ReadGateStatus, IfNotAlerted, PauseForOracles, MarkAlerted, ClearAlerted,
           ResumeAfterOracles, Collect, CloseStep, worldVars
  <2>. QED  BY <2>2, <2>3
<1>6. CASE \E w \in Switchers : StartsSwitch(w)
  <2>1. PICK w \in Switchers, s \in Symbols, new \in DataSources : StartSwitch(w, s, new)
    BY <1>6 DEF StartsSwitch
  <2>2. \E c : Becomes(w, c) /\ c.pc # "keep"
    <3> DEFINE pc == IF new = "WEIGHTED" THEN "capture" ELSE "last"
               c == [IdleSwitch EXCEPT !.pc = pc, !.symbol = s, !.new = new]
    <3>1. Becomes(w, c)
      BY <2>1 DEF StartSwitch
    <3>2. pc # "keep"
      OBVIOUS
    <3> HIDE DEF pc
    <3>3. c.pc = pc
      BY DEF IdleSwitch
    <3> HIDE DEF c
    <3>. QED  BY <3>1, <3>2, <3>3
  <2>. QED  BY <2>1, <2>2, OtherCallbackSteps DEF ServiceInv, CloseStep, StartSwitch, worldVars
<1>. QED  BY <1>2, <1>3, <1>4, <1>5, <1>6 DEF Next

\* What is saved stays saved: a failed write leaves the old close price in Redis.
LEMMA SavedStays ==
    ASSUME ServiceInv, 0 \notin QuotePrices, CloseStep, NEW s \in Symbols, Saved(s),
           unsaved' = {x \in Symbols : (x \in unsaved \/ WriteFails(x)) /\ ~storedClose'[x]}
    PROVE  Saved(s)'
<1>1. ASSUME NEW w \in Switchers, StoreClose(w), storedClose[s]
      PROVE  storedClose'[s]
  <2>1. switching[w].symbol \in Symbols
    BY <1>1 DEF StoreClose, At, ServiceInv, CallbacksOK, CallbackHolds
  <2>2. cexQuotes[switching[w].symbol] # NoQuote => cexQuotes[switching[w].symbol] > 0
    <3> DEFINE q == cexQuotes[switching[w].symbol]
    <3>1. q \in QuotePrices \cup {NoQuote}
      BY <2>1 DEF ServiceInv, CachesOK
    <3> HIDE DEF q
    <3>2. q # NoQuote => q > 0
      BY <3>1, PricesHold
    <3>. QED  BY <3>2 DEF q
  <2>3. storedClose \in [Symbols -> BOOLEAN]
    BY DEF ServiceInv, CachesOK
  <2>4. CASE UNCHANGED storedClose
    BY <1>1, <2>4
  <2>5. CASE storedClose' = [storedClose EXCEPT ![switching[w].symbol] = TRUE]
    BY <1>1, <2>3, <2>5
  <2>. QED  BY <1>1, <2>2, <2>4, <2>5 DEF StoreClose
<1>2. storedClose[s] => storedClose'[s]
  BY <1>1 DEF CloseStep, Restart, KeepClose, worldVars
<1>. QED  BY <1>2 DEF Saved

LEMMA FlagsAfter ==
    ASSUME NEW f \in [Symbols -> BOOLEAN], NEW s, NEW flag \in BOOLEAN, NEW x \in Symbols,
           [f EXCEPT ![s] = flag][x]
    PROVE  f[x] \/ (x = s /\ flag)
<1>1. x # s => [f EXCEPT ![s] = flag][x] = f[x]
  OBVIOUS
<1>2. x = s => [f EXCEPT ![s] = flag][x] = flag
  OBVIOUS
<1>. QED  BY <1>1, <1>2, Zenon

LEMMA CloseStays ==
    ASSUME ServiceInv, CloseInv, 0 \notin QuotePrices, CloseStep,
           unsaved' = {x \in Symbols : (x \in unsaved \/ WriteFails(x)) /\ ~storedClose'[x]}
    PROVE  CloseInv'
<1>1. \A s \in Symbols : Saved(s) => Saved(s)'
  BY SavedStays
<1>2. CallbacksOK /\ closePrices \in [Symbols -> BOOLEAN]
  BY DEF ServiceInv, CachesOK
<1>3. ASSUME NoneCaptures
      PROVE  \A w \in Switchers : (At(w, "keep") /\ switching[w].price > 0)'
                                      => Saved(switching[w].symbol)'
  BY <1>1, <1>2, <1>3 DEF NoneCaptures, CloseInv, At, CallbacksOK, CallbackHolds, Saved
<1>4. CASE Restart
  BY <1>4, IdleSwitchHolds DEF Restart, ServiceRestarts, CloseInv, At, IdleSwitch
<1>5. CASE UNCHANGED <<closePrices, storedClose>> /\ NoneCaptures
  BY <1>1, <1>3, <1>5 DEF CloseInv
<1>6. CASE \E s \in Symbols : LoadsClose(s) /\ UNCHANGED storedClose /\ NoneCaptures
  <2>1. \A s \in Symbols : closePrices'[s] => closePrices[s] \/ storedClose[s]
    BY <1>2, <1>6 DEF LoadsClose, CloseKnown
  <2>. QED  BY <1>1, <1>3, <1>6, <2>1 DEF CloseInv, Saved
<1>7. ASSUME NEW w \in Switchers, StoreClose(w)
      PROVE  CloseInv'
  <2> DEFINE s == switching[w].symbol
  <2>1. s \in Symbols /\ At(w, "capture")
    BY <1>2, <1>7 DEF StoreClose, At, CallbacksOK, CallbackHolds
  <2>2. \A s1 \in Symbols : closePrices'[s1] => Saved(s1)'
    BY <1>1, <1>7 DEF StoreClose, CloseInv
  <2>3. /\ switching'[w].symbol = s /\ \A v \in Switchers \ {w} : switching'[v] = switching[v]
    BY <1>2, <1>7 DEF StoreClose, SwitchGoto, Becomes, CallbacksOK, Callbacks
  <2>4. ASSUME (At(w, "keep") /\ switching[w].price > 0)'
        PROVE  storedClose'[s] \/ s \in unsaved'
    <3>1. WriteFails(s)
      BY <2>1, <2>4 DEF WriteFails, At
    <3>. QED  BY <2>1, <3>1
  <2>5. ASSUME NEW v \in Switchers \ {w}, (At(v, "keep") /\ switching[v].price > 0)'
        PROVE  Saved(switching[v].symbol)'
    <3>1. switching'[v] = switching[v] /\ switching[v].symbol \in Symbols
      BY <1>2, <2>3, <2>5 DEF At, CallbacksOK, CallbackHolds
    <3>. QED  BY <1>1, <2>5, <3>1 DEF CloseInv, At, Saved
  <2>. QED  BY <2>2, <2>3, <2>4, <2>5 DEF CloseInv, Saved
<1>8. ASSUME NEW w \in Switchers, KeepClose(w)
      PROVE  CloseInv'
  <2> DEFINE s == switching[w].symbol
             c == [switching[w] EXCEPT !.pc = "last", !.price = 0]
  <2>1. s \in Symbols /\ At(w, "keep")
    BY <1>2, <1>8 DEF KeepClose, At, CallbacksOK, CallbackHolds
  <2>2. NoneCaptures
    <3>1. Becomes(w, c)
      BY <1>8 DEF KeepClose
    <3>2. c.pc # "keep"
      BY <1>2 DEF CallbacksOK, Callbacks
    <3>. QED  BY <1>2, <3>1, <3>2, OtherCallbackSteps
  <2>3. closePrices' = [closePrices EXCEPT ![s] = switching[w].price > 0]
    BY <1>8 DEF KeepClose
  <2>4. \A x \in Symbols : closePrices'[x] => closePrices[x] \/ (x = s /\ switching[w].price > 0)
    <3>1. (switching[w].price > 0) \in BOOLEAN
      OBVIOUS
    <3>. QED  BY <1>2, <2>3, <3>1, FlagsAfter, Zenon
  <2>5. \A x \in Symbols : closePrices'[x] => Saved(x)'
    BY <1>1, <2>1, <2>4 DEF CloseInv
  <2>. QED  BY <1>3, <2>2, <2>5 DEF CloseInv
<1>. QED  BY <1>4, <1>5, <1>6, <1>7, <1>8 DEF CloseStep

(* A close price in memory is in Redis too, however many callbacks are capturing one
   and whatever restarts there are, unless a write to Redis failed
   (captureClosePrice, calculateWeightedPriceOnly). *)
THEOREM CloseSurvives ==
    ASSUME 0 \notin QuotePrices
    PROVE  MCSpec => []ClosePriceSurvives
<1>1. MCInit => CloseInv
  BY IdleSwitchHolds DEF MCInit, Init, ServiceInit, CloseInv, At, IdleSwitch
<1>2. ServiceInv /\ CloseInv /\ [MCNext]_<<vars, unsaved>> => CloseInv'
  <2>1. ASSUME ServiceInv, CloseInv, MCNext
        PROVE  CloseInv'
    BY <2>1, ServiceCloseStep, CloseStays DEF MCNext
  <2>2. ASSUME CloseInv, UNCHANGED <<vars, unsaved>>
        PROVE  CloseInv'
    BY <2>2 DEF CloseInv, vars, serviceVars, worldVars, At, Saved
  <2>. QED  BY <2>1, <2>2
<1>3. CloseInv => ClosePriceSurvives
  BY DEF CloseInv, ClosePriceSurvives, Saved
<1>. QED  BY <1>1, <1>2, <1>3, ServiceInvariant, PTL DEF MCSpec

-----------------------------------------------------------------------------
(* Quotes as decided.  While one oracle is normal no handler finds both abnormal, although
   it reads the two statuses under two locks, and so none lifts a pause. *)

OneIsNormal == \A s \in Symbols : pythStatuses[s] = "NORMAL" \/ gateStatuses[s] = "NORMAL"

\* What makes a handler that has found Pyth abnormal find Gate normal: the status of its
\* own oracle, which nobody else sets.
GateWillDo(o, s) == IF o = "pyth" THEN pythStatuses[s] # "NORMAL" ELSE gateStatuses[s] = "NORMAL"

NoneAbnormal ==
    /\ bothOracleAlerted = {}
    /\ \A o \in Oracles :
           /\ handler[o].pc \notin {"abnormal", "pause", "alerted", "resume"}
           /\ handler[o].pc = "gate status" => GateWillDo(o, handler[o].symbol)

LEMMA HandlerReaches ==
    ASSUME HandlersOK, NEW o \in Oracles, NoneAbnormal,
           \/ Goto(o, "statuses") \/ Goto(o, "usable") \/ Goto(o, "weigh")
           \/ Goto(o, "gate status") /\ GateWillDo(o, handler[o].symbol),
           UNCHANGED <<bothOracleAlerted, pythStatuses, gateStatuses>>
    PROVE  NoneAbnormal'
<1>0. Oracles \subseteq Feeds /\ handler \in [Feeds -> Handlers]
  BY DEF Feeds, HandlersOK
<1>1. ASSUME NEW pc, Goto(o, pc)
      PROVE  /\ handler'[o].pc = pc /\ handler'[o].symbol = handler[o].symbol
             /\ \A f \in Oracles \ {o} : handler'[f] = handler[f]
  <2>1. handler' = [handler EXCEPT ![o] = [handler[o] EXCEPT !.pc = pc]]
    BY <1>0, <1>1 DEF Goto
  <2>2. handler'[o] = [handler[o] EXCEPT !.pc = pc] /\ handler[o] \in Handlers
    BY <1>0, <2>1
  <2>3. \A f \in Oracles \ {o} : handler'[f] = handler[f]
    BY <1>0, <2>1
  <2>4. handler'[o].pc = pc /\ handler'[o].symbol = handler[o].symbol
    BY <2>2 DEF Handlers
  <2>. QED  BY <2>3, <2>4
<1>2. PICK pc : /\ Goto(o, pc)
                /\ \/ pc = "statuses" \/ pc = "usable" \/ pc = "weigh"
                   \/ pc = "gate status" /\ GateWillDo(o, handler[o].symbol)
  OBVIOUS
<1>3. ASSUME NEW f \in Oracles
      PROVE  /\ handler'[f].pc \notin {"abnormal", "pause", "alerted", "resume"}
             /\ handler'[f].pc = "gate status" => GateWillDo(f, handler[f].symbol)'
  <2>1. CASE f = o
    BY <1>1, <1>2, <2>1 DEF GateWillDo
  <2>2. CASE f # o
    <3>1. handler'[f] = handler[f]
      BY <1>1, <1>2, <2>2
    <3>. QED  BY <3>1 DEF NoneAbnormal, GateWillDo
  <2>. QED  BY <2>1, <2>2
<1>. QED  BY <1>3 DEF NoneAbnormal

LEMMA OtherHandlerSteps ==
    ASSUME HandlersOK, NEW f \in Feeds, NEW h, NoneAbnormal,
           handler' = [handler EXCEPT ![f] = h],
           h.pc = "idle" \/ h.pc = "source" \/ h.pc = "collect",
           f = "pyth" \/ UNCHANGED pythStatuses, f = "gate" \/ UNCHANGED gateStatuses,
           UNCHANGED bothOracleAlerted
    PROVE  NoneAbnormal'
<1>1. handler'[f] = h /\ \A g \in Feeds \ {f} : handler'[g] = handler[g]
  BY DEF HandlersOK
<1>2. Oracles \subseteq Feeds /\ \A o \in Oracles : o = "pyth" \/ o = "gate"
  BY DEF Feeds, Oracles
<1>3. ASSUME NEW o \in Oracles, o # f
      PROVE  GateWillDo(o, handler[o].symbol) => GateWillDo(o, handler[o].symbol)'
  BY <1>1, <1>2, <1>3 DEF GateWillDo
<1>. QED  BY <1>1, <1>2, <1>3 DEF NoneAbnormal

LEMMA OracleStepFindsNormal ==
    ASSUME ServiceInv, OneIsNormal, NoneAbnormal, NEW o \in Oracles, OracleStep(o)
    PROVE  NoneAbnormal' /\ ~PauseForOracles(o) /\ ~ResumeAfterOracles(o)
<1>0. o \in Feeds /\ HandlersOK /\ Idle.pc = "idle"
  BY IdleHolds DEF Feeds, ServiceInv
<1>1. /\ handler[o].pc \notin {"abnormal", "pause", "alerted", "resume"}
      /\ handler[o].pc # "idle" => handler[o].symbol \in Symbols
  BY <1>0 DEF NoneAbnormal, HandlersOK, HandlerHolds
<1>2. /\ ~IfNotAlerted(o) /\ ~PauseForOracles(o)
      /\ ~MarkAlerted(o) /\ ~ResumeAfterOracles(o)
  BY <1>1 DEF IfNotAlerted, PauseForOracles, MarkAlerted, ResumeAfterOracles
<1> SUFFICES NoneAbnormal'
  BY <1>2
<1>3. UNCHANGED <<pythStatuses, gateStatuses>>
  BY <1>2 DEF OracleStep, OracleSource, ReadPythStatus, ReadGateStatus, ClearAlerted, Weigh,
              Collect, managerVars
<1>4. ASSUME NEW h, handler' = [handler EXCEPT ![o] = h], h.pc = "idle" \/ h.pc = "collect",
             UNCHANGED bothOracleAlerted
      PROVE  NoneAbnormal'
  BY <1>0, <1>3, <1>4, OtherHandlerSteps
<1>5. CASE OracleSource(o)
  <2>1. UNCHANGED bothOracleAlerted /\ (Goto(o, "statuses") \/ Return(o))
    BY <1>5 DEF OracleSource
  <2>2. CASE Return(o)
    BY <1>0, <1>4, <2>1, <2>2 DEF Return
  <2>3. CASE Goto(o, "statuses")
    BY <1>0, <1>3, <2>1, <2>3, HandlerReaches
  <2>. QED  BY <2>1, <2>2, <2>3
<1>6. CASE ReadPythStatus(o)
  <2>1. handler[o].symbol \in Symbols
    BY <1>1, <1>6 DEF ReadPythStatus
  <2>2. pythStatuses[handler[o].symbol] # "NORMAL" => GateWillDo(o, handler[o].symbol)
    BY <2>1 DEF OneIsNormal, GateWillDo
  <2>3. /\ UNCHANGED bothOracleAlerted
        /\ \/ Goto(o, "usable")
           \/ Goto(o, "gate status") /\ pythStatuses[handler[o].symbol] # "NORMAL"
    BY <1>6 DEF ReadPythStatus
  <2>. QED  BY <1>0, <1>3, <2>2, <2>3, HandlerReaches
<1>7. CASE ReadGateStatus(o)
  <2>1. handler[o].symbol \in Symbols /\ GateWillDo(o, handler[o].symbol)
    BY <1>1, <1>7 DEF ReadGateStatus, NoneAbnormal
  <2>2. gateStatuses[handler[o].symbol] = "NORMAL"
    BY <2>1 DEF OneIsNormal, GateWillDo
  <2>3. UNCHANGED bothOracleAlerted /\ Goto(o, "usable")
    BY <1>7, <2>2 DEF ReadGateStatus
  <2>. QED  BY <1>0, <1>3, <2>3, HandlerReaches
<1>8. CASE ClearAlerted(o)
  <2>1. UNCHANGED bothOracleAlerted /\ Goto(o, "weigh")
    BY <1>8 DEF ClearAlerted, NoneAbnormal
  <2>. QED  BY <1>0, <1>3, <2>1, HandlerReaches
<1>9. CASE Weigh(o)
  <2>1. PICK p \in WeightedPrices(handler[o].symbol) :
            handler' = [handler EXCEPT ![o] = IF p = 0 THEN Idle
                            ELSE [handler[o] EXCEPT !.pc = "collect", !.price = p]]
    BY <1>0, <1>9 DEF Weigh, HandlersOK
  <2> DEFINE h == [handler[o] EXCEPT !.pc = "collect", !.price = p]
  <2>2. h.pc = "collect"
    BY <1>0 DEF HandlersOK, Handlers
  <2> HIDE DEF h
  <2>3. handler' = [handler EXCEPT ![o] = Idle] \/ handler' = [handler EXCEPT ![o] = h]
    BY <2>1 DEF h
  <2>4. UNCHANGED bothOracleAlerted
    BY <1>9 DEF Weigh
  <2>. QED  BY <1>0, <1>4, <2>2, <2>3, <2>4
<1>10. CASE Collect(o)
  <2>1. UNCHANGED bothOracleAlerted /\ handler' = [handler EXCEPT ![o] = Idle]
    BY <1>10 DEF Collect, Return
  <2>. QED  BY <1>0, <1>4, <2>1
<1>. QED  BY <1>2, <1>5, <1>6, <1>7, <1>8, <1>9, <1>10 DEF OracleStep

\* Only the receipt of an oracle's price and a restart set an oracle's status.
LEMMA StatusStep ==
    ASSUME [Next]_vars
    PROVE  \/ Restart \/ UNCHANGED <<pythStatuses, gateStatuses>>
           \/ \E o \in Oracles : ReceivesOraclePrice(o)
<1>1. CASE BecomeReady \/ Polls \/ PollFailed \/ StartFlush \/ FlushSucceeds \/ FlushFails
           \/ UNCHANGED vars
  BY <1>1 DEF BecomeReady, Polls, PollOK, PollSucceeds, PollFailed, PollFails, StartFlush,
              FlushSucceeds, FlushFails, vars, managerVars
<1>2. CASE (\E s \in Symbols, quote \in QuotePrices : ReceiveQuote(s, quote)) \/ QuoteSource
           \/ Collect("cex")
  BY <1>2 DEF ReceiveQuote, QuoteSource, Collect, managerVars
<1>3. CASE \E o \in Oracles : OracleStep(o)
  BY <1>3 DEF OracleStep, OracleSource, ReadPythStatus, ReadGateStatus, IfNotAlerted,
              PauseForOracles, PauseStock, MarkAlerted, ClearAlerted, ResumeAfterOracles,
              ResumeStock, Weigh, Collect, managerVars
<1>4. CASE \E w \in Switchers : StartsSwitch(w) \/ SwitchStep(w)
  BY <1>4 DEF StartsSwitch, StartSwitch, RunCallback, SwitchStep, StoreClose, KeepClose,
              ReadLastPrice, PriceOfQuote, PriceByWeights, RollBack, RollbackDataSource,
              PauseAfterRollback, PauseStock, CollectSwitched, managerVars
<1>. QED  BY <1>1, <1>2, <1>3, <1>4 DEF Next

LEMMA NoneAbnormalStays ==
    ASSUME ServiceInv, OneIsNormal, NoneAbnormal, [Next]_vars
    PROVE  NoneAbnormal'
<1>0. HandlersOK /\ "cex" \in Feeds /\ Oracles \subseteq Feeds /\ Idle.pc = "idle"
  BY IdleHolds DEF ServiceInv, Feeds
<1>1. CASE Restart
  BY <1>0, <1>1 DEF Restart, ServiceRestarts, NoneAbnormal
<1>2. CASE UNCHANGED <<pythStatuses, gateStatuses>>
  <2>1. CASE \/ BecomeReady \/ Polls \/ PollFailed \/ StartFlush \/ FlushSucceeds \/ FlushFails
             \/ UNCHANGED vars \/ \E w \in Switchers : StartsSwitch(w) \/ SwitchStep(w)
    <3>1. UNCHANGED handler /\ (bothOracleAlerted' = {} \/ UNCHANGED bothOracleAlerted)
      BY <2>1 DEF BecomeReady, Polls, PollOK, PollFailed, StartFlush, FlushSucceeds, FlushFails,
             vars, serviceVars, StartsSwitch, StartSwitch, SwitchStep, StoreClose, KeepClose,
             ReadLastPrice, PriceOfQuote, PriceByWeights, RollBack, PauseAfterRollback,
             CollectSwitched
    <3>. QED  BY <1>2, <3>1 DEF NoneAbnormal, GateWillDo
  <2>2. ASSUME NEW f \in Feeds, NEW h, handler' = [handler EXCEPT ![f] = h],
               h.pc = "idle" \/ h.pc = "source" \/ h.pc = "collect", UNCHANGED bothOracleAlerted
        PROVE  NoneAbnormal'
    BY <1>0, <1>2, <2>2, OtherHandlerSteps
  <2>3. CASE \E s \in Symbols, quote \in QuotePrices : ReceiveQuote(s, quote)
    BY <1>0, <2>2, <2>3 DEF ReceiveQuote
  <2>4. CASE QuoteSource
    <3> DEFINE h == [handler["cex"] EXCEPT !.pc = "collect",
                                           !.price = cexQuotes[handler["cex"].symbol]]
    <3>1. h.pc = "collect"
      BY <1>0 DEF HandlersOK, Handlers
    <3>2. /\ UNCHANGED bothOracleAlerted
          /\ \/ handler' = [handler EXCEPT !["cex"] = Idle]
             \/ handler' = [handler EXCEPT !["cex"] = h]
      BY <1>0, <2>4 DEF QuoteSource, HandlersOK
    <3> HIDE DEF h
    <3>. QED  BY <1>0, <2>2, <3>1, <3>2
  <2>5. CASE Collect("cex")
    BY <1>0, <2>2, <2>5 DEF Collect, Return
  <2>6. CASE \E o \in Oracles : OracleStep(o)
    BY <2>6, OracleStepFindsNormal
  <2>7. CASE \E o \in Oracles : ReceivesOraclePrice(o)
    BY <1>0, <2>2, <2>7 DEF ReceivesOraclePrice, ReceiveOraclePrice
  <2>. QED  BY <1>1, <2>1, <2>3, <2>4, <2>5, <2>6, <2>7 DEF Next
<1>3. ASSUME NEW o \in Oracles, ReceivesOraclePrice(o)
      PROVE  NoneAbnormal'
  <2>1. PICK s \in Symbols, jump \in Jumps : ReceiveOraclePrice(o, s, jump)
    BY <1>3 DEF ReceivesOraclePrice
  <2> DEFINE h == [pc |-> "source", symbol |-> s, price |-> 0]
  <2>2. handler' = [handler EXCEPT ![o] = h] /\ h.pc = "source" /\ UNCHANGED bothOracleAlerted
    BY <2>1 DEF ReceiveOraclePrice
  <2>3. (o = "pyth" \/ UNCHANGED pythStatuses) /\ (o = "gate" \/ UNCHANGED gateStatuses)
    BY <2>1 DEF ReceiveOraclePrice, SetOracleStatus, SetPythStatus, SetGateStatus, Oracles
  <2> HIDE DEF h
  <2>. QED  BY <1>0, <2>2, <2>3, OtherHandlerSteps
<1>. QED  BY <1>1, <1>2, <1>3, StatusStep

\* No callback leaves the place between the rollback and the pause.
NonePauses == \A w \in Switchers : At(w, "pause") => switching'[w] = switching[w]

\* The steps that touch what the property is about, and all the others.
DecidingStep ==
    \/ Restart \/ Polls
    \/ \E w \in Switchers : RollBack(w) \/ PauseAfterRollback(w)
    \/ \E o \in Oracles : PauseForOracles(o) \/ ResumeAfterOracles(o)
    \/ UNCHANGED <<dataSources, pausedStocks, marketStatus, stockStatuses>> /\ NonePauses

LEMMA ServiceDecidingStep ==
    ASSUME ServiceInv, [Next]_vars
    PROVE  DecidingStep
<1>0. switching \in [Switchers -> Callbacks]
  BY DEF ServiceInv, CallbacksOK
<1>1. UNCHANGED switching => NonePauses
  BY DEF NonePauses
<1>2. ASSUME NEW w \in Switchers, ~At(w, "pause"), NEW c, Becomes(w, c) \/ SwitchGoto(w, c)
      PROVE  NonePauses
  BY <1>0, <1>2 DEF NonePauses, Becomes, SwitchGoto
<1>3. CASE Restart \/ Polls
  BY <1>3 DEF DecidingStep
<1>4. CASE \/ BecomeReady \/ PollFailed \/ StartFlush \/ FlushSucceeds \/ FlushFails
           \/ UNCHANGED vars
  BY <1>1, <1>4 DEF DecidingStep, BecomeReady, PollFailed, PollFails, StartFlush, FlushSucceeds,
                    FlushFails, vars, serviceVars, managerVars
<1>5. CASE (\E s \in Symbols, quote \in QuotePrices : ReceiveQuote(s, quote)) \/ QuoteSource
           \/ Collect("cex")
  BY <1>1, <1>5 DEF DecidingStep, ReceiveQuote, QuoteSource, Collect, managerVars
<1>6. ASSUME NEW o \in Oracles, ReceivesOraclePrice(o) \/ OracleStep(o)
      PROVE  DecidingStep
  <2>1. CASE ReceivesOraclePrice(o)
    <3>1. /\ UNCHANGED <<dataSources, pausedStocks, marketStatus, stockStatuses>>
          /\ UNCHANGED switching
      BY <2>1 DEF ReceivesOraclePrice, ReceiveOraclePrice, SetOracleStatus, SetPythStatus,
                  SetGateStatus
    <3>. QED  BY <1>1, <3>1 DEF DecidingStep
  <2>2. CASE PauseForOracles(o) \/ ResumeAfterOracles(o)
    BY <2>2 DEF DecidingStep
  <2>3. CASE OracleStep(o) /\ ~PauseForOracles(o) /\ ~ResumeAfterOracles(o)
    <3>1. UNCHANGED managerVars /\ UNCHANGED switching
      BY <2>3 DEF OracleStep, OracleSource, ReadPythStatus, ReadGateStatus, IfNotAlerted,
                  MarkAlerted, ClearAlerted, Weigh, Collect
    <3>. QED  BY <1>1, <3>1 DEF DecidingStep, managerVars
  <2>. QED  BY <1>6, <2>1, <2>2, <2>3
<1>7. ASSUME NEW w \in Switchers, StartsSwitch(w)
      PROVE  DecidingStep
  BY <1>2, <1>7, IdleSwitchHolds
     DEF StartsSwitch, StartSwitch, RunCallback, At, DecidingStep
<1>8. ASSUME NEW w \in Switchers, SwitchStep(w)
      PROVE  DecidingStep
  <2>1. CASE RollBack(w) \/ PauseAfterRollback(w)
    BY <2>1 DEF DecidingStep
  <2>2. CASE ~RollBack(w) /\ ~PauseAfterRollback(w)
    <3>1. /\ ~At(w, "pause") /\ UNCHANGED managerVars
          /\ \E c : Becomes(w, c) \/ SwitchGoto(w, c)
      BY <1>8, <2>2 DEF SwitchStep, StoreClose, KeepClose, ReadLastPrice, PriceOfQuote,
                        PriceByWeights, CollectSwitched, At
    <3>. QED  BY <1>2, <3>1 DEF DecidingStep, managerVars
  <2>. QED  BY <2>1, <2>2
<1>. QED  BY <1>3, <1>4, <1>5, <1>6, <1>7, <1>8 DEF Next

LEMMA DecidedStays ==
    ASSUME ServiceInv, QuotesOnlyAsDecided, DecidingStep,
           \A o \in Oracles : ~PauseForOracles(o) /\ ~ResumeAfterOracles(o)
    PROVE  QuotesOnlyAsDecided'
<1> USE DEF QuotesOnlyAsDecided
<1>0. switching \in [Switchers -> Callbacks] /\ ManagerTypeOK
  BY DEF ServiceInv, CallbacksOK
<1>1. CASE Restart
  BY <1>1 DEF Restart, ManagerRestarts, Polled
<1>2. CASE Polls
  <2>1. PICK market \in MarketStatuses, answers \in [Symbols -> StockStatuses \cup {"error"}] :
            PollSucceeds(market, answers)
    BY <1>2 DEF Polls, PollOK
  <2> DEFINE stocks == [s \in Symbols |-> StockStatusOf(answers[s])]
  <2>2. ASSUME NEW s \in Symbols, pausedStocks'[s] = NotPaused
        PROVE  /\ ~ShouldPause(stockStatuses'[s])
               /\ dataSources'[s] = DecideDataSource(marketStatus', stockStatuses'[s])
    <3>1. /\ stockStatuses' = stocks /\ marketStatus' = market
          /\ pausedStocks'[s] = PausedAfter(s, stocks[s])
          /\ dataSources'[s] = DataSourceAfter(s, market, stocks[s])
      BY <2>1 DEF PollSucceeds, UpdateStatus
    <3>2. ~ShouldPause(stocks[s])
      BY <2>2, <3>1 DEF PausedAfter, IsPaused, NotPaused
    <3> HIDE DEF stocks
    <3>. QED  BY <3>1, <3>2 DEF DataSourceAfter
  <2>. QED  BY <2>2 DEF IsPaused
<1>3. ASSUME NEW w \in Switchers, RollBack(w)
      PROVE  QuotesOnlyAsDecided'
  <2> DEFINE x == switching[w].symbol
  <2>1. /\ switching'[w].pc = "pause" /\ switching'[w].symbol = x
        /\ switching[w].pc = "rollback"
        /\ \A v \in Switchers \ {w} : switching'[v] = switching[v]
    BY <1>0, <1>3 DEF RollBack, SwitchGoto, At, Callbacks
  <2>2. \A s \in Symbols : s = x => AboutToPause(s)'
    BY <2>1 DEF AboutToPause, At
  <2>3. \A s \in Symbols : AboutToPause(s) => AboutToPause(s)'
    BY <2>1 DEF AboutToPause, At
  <2>4. UNCHANGED <<pausedStocks, marketStatus, stockStatuses>>
    BY <1>3 DEF RollBack, RollbackDataSource
  <2>5. \A s \in Symbols : s # x => dataSources'[s] = dataSources[s]
    BY <1>0, <1>3 DEF RollBack, RollbackDataSource, ManagerTypeOK
  <2> HIDE DEF x
  <2>. QED  BY <2>2, <2>3, <2>4, <2>5 DEF IsPaused, Polled
<1>4. ASSUME NEW w \in Switchers, PauseAfterRollback(w)
      PROVE  QuotesOnlyAsDecided'
  <2> DEFINE x == switching[w].symbol
  <2>1. \A v \in Switchers \ {w} : switching'[v] = switching[v]
    BY <1>0, <1>4 DEF PauseAfterRollback, Becomes
  <2>2. \A s \in Symbols : s # x /\ AboutToPause(s) => AboutToPause(s)'
    BY <2>1 DEF AboutToPause, At
  <2>3. /\ UNCHANGED <<dataSources, marketStatus, stockStatuses>>
        /\ \A s \in Symbols : pausedStocks'[s] = IF s = x THEN "switch difference"
                                                          ELSE pausedStocks[s]
    BY <1>0, <1>4 DEF PauseAfterRollback, PauseStock, ManagerTypeOK
  <2> HIDE DEF x
  <2>. QED  BY <2>2, <2>3 DEF IsPaused, NotPaused, Polled
<1>5. CASE UNCHANGED <<dataSources, pausedStocks, marketStatus, stockStatuses>> /\ NonePauses
  <2>1. \A s \in Symbols : AboutToPause(s) => AboutToPause(s)'
    BY <1>5 DEF NonePauses, AboutToPause, At
  <2>. QED  BY <1>5, <2>1 DEF IsPaused, Polled
<1>. QED  BY <1>1, <1>2, <1>3, <1>4, <1>5 DEF DecidingStep

DecidedInv == ServiceInv /\ NoneAbnormal /\ QuotesOnlyAsDecided

LEMMA DecidedInvStep ==
    ASSUME DecidedInv, OneIsNormal, [Next]_vars
    PROVE  DecidedInv'
<1> USE DEF DecidedInv
<1>1. ServiceInv' /\ NoneAbnormal'
  BY NextKeepsInv, NoneAbnormalStays
<1>2. \A o \in Oracles : ~PauseForOracles(o) /\ ~ResumeAfterOracles(o)
  BY OracleStepFindsNormal DEF OracleStep
<1>. QED  BY <1>1, <1>2, ServiceDecidingStep, DecidedStays

LEMMA DecidedInvStarts == MCInit => DecidedInv
<1> SUFFICES ASSUME Init PROVE DecidedInv
  BY DEF MCInit
<1>1. NoneAbnormal
  BY IdleHolds DEF Init, ServiceInit, NoneAbnormal, Feeds
<1>2. QuotesOnlyAsDecided
  BY DEF Init, ManagerInit, QuotesOnlyAsDecided, Polled
<1>. QED  BY <1>1, <1>2, FreshService DEF DecidedInv

(* While for every symbol one oracle is normal, a symbol that is not paused, nor about to
   be paused after a refused switch, is quotable and quoted from the source the last
   poll decided, however polls, callbacks, rollbacks and the two handlers interleave
   (updateStatus, onDataSourceChange; IsBothOracleAbnormal, which reads the statuses
   one after the other). *)
THEOREM DecidedWhileNormal == MCSpec /\ []OneIsNormal => []QuotesOnlyAsDecided
<1>1. DecidedInv /\ OneIsNormal /\ [MCNext]_<<vars, unsaved>> => DecidedInv'
  BY DecidedInvStep DEF MCNext
<1>2. DecidedInv => QuotesOnlyAsDecided
  BY DEF DecidedInv
<1>. QED  BY <1>1, <1>2, DecidedInvStarts, PTL DEF MCSpec

AlwaysNormal(o) ==
    \A s \in Symbols : (IF o = "pyth" THEN pythStatuses[s] ELSE gateStatuses[s]) = "NORMAL"

LEMMA NormalStays ==
    ASSUME NEW o \in Oracles, TRUE \notin Jumps \/ o \notin Sending, ServiceInv, [Next]_vars,
           AlwaysNormal(o)
    PROVE  AlwaysNormal(o)'
<1> USE DEF AlwaysNormal
<1>1. CASE UNCHANGED <<pythStatuses, gateStatuses>>
  BY <1>1
<1>2. CASE Restart
  BY <1>2 DEF Restart, ManagerRestarts
<1>3. ASSUME NEW p \in Oracles, ReceivesOraclePrice(p)
      PROVE  AlwaysNormal(o)'
  <2>1. PICK x \in Symbols, jump \in Jumps : ReceiveOraclePrice(p, x, jump)
    BY <1>3 DEF ReceivesOraclePrice
  <2>2. PICK status \in OracleStatus : SetOracleStatus(p, x, status)
    BY <2>1 DEF ReceiveOraclePrice, OracleStatus
  <2>3. p = o => SetOracleStatus(p, x, "NORMAL")
    BY <2>1, ServiceAssumption DEF ReceiveOraclePrice
  <2>4. ManagerTypeOK
    BY DEF ServiceInv
  <2>. QED  BY <2>2, <2>3, <2>4 DEF SetOracleStatus, SetPythStatus, SetGateStatus, Oracles,
                                    ManagerTypeOK
<1>. QED  BY <1>1, <1>2, <1>3, StatusStep

(* The same with what the environment may do: an oracle that is down keeps the status it
   started with, and one whose price never jumps is never found abnormal
   (handlePythPrice, handleGatePrice). *)
THEOREM QuotedAsDecided ==
    ASSUME TRUE \notin Jumps \/ ~(Oracles \subseteq Sending)
    PROVE  MCSpec => []QuotesOnlyAsDecided
<1>1. PICK o \in Oracles : TRUE \notin Jumps \/ o \notin Sending
  BY DEF Oracles
<1>2. MCInit => AlwaysNormal(o)
  BY DEF MCInit, Init, ManagerInit, AlwaysNormal
<1>3. ServiceInv /\ AlwaysNormal(o) /\ [MCNext]_<<vars, unsaved>> => AlwaysNormal(o)'
  BY <1>1, NormalStays DEF MCNext
<1>4. AlwaysNormal(o) => OneIsNormal
  BY DEF AlwaysNormal, OneIsNormal
<1>. QED  BY <1>2, <1>3, <1>4, ServiceInvariant, DecidedWhileNormal, PTL DEF MCSpec

-----------------------------------------------------------------------------
(* The manager inside the service *)

\* The manager's own poll, call or callback, or a new process.
ManagerStep == ManagerNext \/ ManagerRestarts \/ UNCHANGED managerVars

LEMMA ServiceManagerStep ==
    ASSUME ServiceInv, [Next]_vars
    PROVE  ManagerStep
<1>1. CASE Restart
  BY <1>1 DEF Restart, ManagerStep
<1>2. CASE Polls \/ PollFailed
  BY <1>2 DEF Polls, PollOK, PollFailed, Poll, ManagerNext, ManagerStep
<1>3. CASE BecomeReady \/ StartFlush \/ FlushSucceeds \/ FlushFails \/ UNCHANGED vars
  BY <1>3 DEF BecomeReady, StartFlush, FlushSucceeds, FlushFails, vars, ManagerStep
<1>4. CASE (\E s \in Symbols, quote \in QuotePrices : ReceiveQuote(s, quote)) \/ QuoteSource
           \/ Collect("cex")
  BY <1>4 DEF ReceiveQuote, QuoteSource, Collect, ManagerStep
<1>5. ASSUME NEW o \in Oracles, ReceivesOraclePrice(o)
      PROVE  ManagerStep
  <2>1. PICK s \in Symbols, jump \in Jumps : ReceiveOraclePrice(o, s, jump)
    BY <1>5 DEF ReceivesOraclePrice
  <2>2. PICK status \in OracleStatus : SetPythStatus(s, status) \/ SetGateStatus(s, status)
    BY <2>1 DEF ReceiveOraclePrice, SetOracleStatus, OracleStatus
  <2>. QED  BY <2>2 DEF ServiceCall, ManagerNext, ManagerStep
<1>6. ASSUME NEW o \in Oracles, OracleStep(o)
      PROVE  ManagerStep
  <2>1. o \in Feeds /\ HandlerHolds(handler[o])
    BY DEF ServiceInv, HandlersOK, Feeds
  <2>2. CASE PauseForOracles(o)
    <3>1. handler[o].symbol \in Symbols /\ PauseStock(handler[o].symbol, "both oracles")
      BY <2>1, <2>2 DEF PauseForOracles, HandlerHolds
    <3>. QED  BY <3>1 DEF PauseReasons, ServiceCall, ManagerNext, ManagerStep
  <2>3. CASE ResumeAfterOracles(o)
    <3>1. handler[o].symbol \in Symbols /\ ResumeStock(handler[o].symbol)
      BY <2>1, <2>3 DEF ResumeAfterOracles, HandlerHolds
    <3>. QED  BY <3>1 DEF ServiceCall, ManagerNext, ManagerStep
  <2>4. CASE ~PauseForOracles(o) /\ ~ResumeAfterOracles(o)
    BY <1>6, <2>4 DEF OracleStep, OracleSource, ReadPythStatus, ReadGateStatus, IfNotAlerted,
                      MarkAlerted, ClearAlerted, Weigh, Collect, ManagerStep
  <2>. QED  BY <2>2, <2>3, <2>4
<1>7. ASSUME NEW w \in Switchers, StartsSwitch(w)
      PROVE  ManagerStep
  BY <1>7 DEF StartsSwitch, StartSwitch, RunsCallback, ManagerNext, ManagerStep
<1>8. ASSUME NEW w \in Switchers, SwitchStep(w)
      PROVE  ManagerStep
  <2>1. CallbackHolds(switching[w])
    BY DEF ServiceInv, CallbacksOK
  <2>2. CASE RollBack(w)
    <3>1. switching[w].symbol \in Symbols /\ OtherSource(switching[w].new) \in DataSources
      BY <2>1, <2>2 DEF RollBack, At, CallbackHolds, OtherSource, DataSources
    <3>. QED  BY <2>2, <3>1 DEF RollBack, ServiceCall, ManagerNext, ManagerStep
  <2>3. CASE PauseAfterRollback(w)
    <3>1. /\ switching[w].symbol \in Symbols
          /\ PauseStock(switching[w].symbol, "switch difference")
      BY <2>1, <2>3 DEF PauseAfterRollback, At, CallbackHolds
    <3>. QED  BY <3>1 DEF PauseReasons, ServiceCall, ManagerNext, ManagerStep
  <2>4. CASE ~RollBack(w) /\ ~PauseAfterRollback(w)
    BY <1>8, <2>4 DEF SwitchStep, StoreClose, KeepClose, ReadLastPrice, PriceOfQuote,
                      PriceByWeights, CollectSwitched, ManagerStep
  <2>. QED  BY <2>2, <2>3, <2>4
<1>. QED  BY <1>1, <1>2, <1>3, <1>4, <1>5, <1>6, <1>7, <1>8 DEF Next

(* Whatever the service's handlers and callbacks do to the manager is a poll, a call or
   a callback that the manager's own model allows, or a restart: what is checked of the
   manager under an unconstrained caller covers this caller (the calls of m.mu's methods
   in service.go). *)
THEOREM ServiceDrivesManager ==
    MCSpec => ManagerInit /\ [][ManagerNext \/ ManagerRestarts]_managerVars
<1>1. MCInit => ManagerInit
  BY DEF MCInit, Init
<1>2. ServiceInv /\ [MCNext]_<<vars, unsaved>> => [ManagerNext \/ ManagerRestarts]_managerVars
  BY ServiceManagerStep DEF MCNext, ManagerStep
<1>. QED  BY <1>1, <1>2, ServiceInvariant, PTL DEF MCSpec

=============================================================================

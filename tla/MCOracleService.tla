--------------------------- MODULE MCOracleService ---------------------------
(***************************************************************************)
(* The quote service on small instances, and its properties.  The runs     *)
(* differ in what the world may do: market phases, oracle jumps, stale or  *)
(* zero quotes, failing Redis writes, restarts.  A history variable tells  *)
(* whose close price a failed write has kept out of Redis.                 *)
(***************************************************************************)
EXTENDS OracleService, TLC

VARIABLE unsaved        \* the symbols without a stored close price since a write failed

\* Levels for the runs: 100 and 104 are within 5 % of each other, 112 is not.
Near == {100, 104}
Far  == {100, 112}

Symmetry == Permutations(Switchers)

WriteFails(s) ==
    \E w \in Switchers :
        /\ At(w, "capture") /\ switching[w].symbol = s
        /\ switching'[w].pc = "keep" /\ switching'[w].price > 0

MCInit == Init /\ unsaved = {}

MCNext ==
    /\ Next
    /\ unsaved' = {s \in Symbols : (s \in unsaved \/ WriteFails(s)) /\ ~storedClose'[s]}

MCSpec == MCInit /\ [][MCNext]_<<vars, unsaved>>

LiveMCSpec == MCSpec /\ Fairness

-----------------------------------------------------------------------------

HandlerPCs == {"idle", "source", "statuses", "gate status", "abnormal", "pause", "alerted",
               "usable", "resume", "weigh", "collect"}
SwitchPCs  == {"idle", "capture", "keep", "last", "price", "rollback", "pause", "collect"}

Prices == Levels \cup {0}

(* The types of the service's and the world's state. *)
TypeOK ==
    /\ ManagerTypeOK
    /\ isReady \in BOOLEAN
    /\ cexQuotes \in [Symbols -> QuotePrices \cup {NoQuote}]
    /\ oraclePrices \in [Oracles -> [Symbols -> BOOLEAN]]
    /\ closePrices \in [Symbols -> BOOLEAN]
    /\ bothOracleAlerted \subseteq Symbols
    /\ lastPrices \in [Symbols -> Prices]
    /\ buffer \in [Symbols -> Priced \cup {NoPrice}]
    /\ flushing \in [Symbols -> Priced \cup {NoPrice}]
    /\ handler \in [Feeds -> [pc : HandlerPCs, symbol : Symbols \cup {"none"}, price : Prices]]
    /\ switching \in [Switchers -> [pc : SwitchPCs, symbol : Symbols \cup {"none"},
                                    new : DataSources, last : Prices, price : Prices]]
    /\ storedClose \in [Symbols -> BOOLEAN]

-----------------------------------------------------------------------------
(* What holds *)

(* Before the service is ready nothing can be collected or pushed, although the
   first poll may already have switched data sources and run switch callbacks
   (Start, clearPreheatData and the isReady tests of the handlers). *)
NothingBeforeReady ==
    ~isReady => \A s \in Symbols :
        /\ cexQuotes[s] = NoQuote /\ ~oraclePrices["pyth"][s] /\ ~oraclePrices["gate"][s]
        /\ buffer[s] = NoPrice /\ flushing[s] = NoPrice /\ lastPrices[s] = 0

(* A close price the weighting uses can be had again after a crash: what is in
   memory is in Redis, whichever callbacks are capturing one, unless the write to
   Redis failed (captureClosePrice logs that and goes on).  It needs that no quote is
   worth 0. *)
ClosePriceSurvives ==
    \A s \in Symbols : closePrices[s] => storedClose[s] \/ s \in unsaved

Polled == marketStatus # NotPolled

AboutToPause(s) == \E w \in Switchers : At(w, "pause") /\ switching[w].symbol = s

(* Whatever switch callbacks and rollbacks are under way, a symbol that is not paused
   is quotable and is quoted from the data source the last poll decided, except
   between the rollback of a refused switch and its pause (updateStatus and
   onDataSourceChange).  It needs that one oracle is always normal: the recovery from
   both being abnormal lifts any pause, see AbnormalStockIsPaused. *)
QuotesOnlyAsDecided ==
    \A s \in Symbols :
        Polled /\ ~IsPaused(s) /\ ~AboutToPause(s) =>
            /\ ~ShouldPause(stockStatuses[s])
            /\ dataSources[s] = DecideDataSource(marketStatus, stockStatuses[s])

(* A symbol flagged because both oracles were abnormal loses the flag once one of
   them stays normal, however the two handlers interleave: no recovery is missed for
   good (calculateAndPushWeightedPrice). *)
RecoveryIsNoticed ==
    \A s \in Symbols :
        <>[](dataSources[s] = "WEIGHTED" /\ pythStatuses[s] = "NORMAL")
            => []<>(s \notin bothOracleAlerted)

(* A quotable symbol does not stay paused: the poll lifts the pause of a refused
   switch, and the switch is tried again (updateStatus, and the comment on
   RollbackDataSource in onDataSourceChange). *)
PausesEnd ==
    \A s \in Symbols :
        <>[](~ShouldPause(stockStatuses[s]) /\ pollLoop = "running")
            => []<>(~IsPaused(s))

-----------------------------------------------------------------------------
(* What the documents say *)

(* No stock is quoted while its status is other than normal or circuit_breaker. *)
AbnormalStockIsPaused ==
    \A s \in Symbols : Polled /\ ShouldPause(stockStatuses[s]) => IsPaused(s)

==============================================================================

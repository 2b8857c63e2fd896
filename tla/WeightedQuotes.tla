--------------------------- MODULE WeightedQuotes ---------------------------
(***************************************************************************)
(* How a weighted price comes about, with real prices: the Pyth and the    *)
(* Gate handler of oracle.Service, captureClosePrice and                   *)
(* calculateWeightedPriceOnly for one symbol of a service that is ready,   *)
(* cut wherever a lock is released or Redis is asked.                      *)
(*                                                                         *)
(* Three goroutines compute at the same time: the two oracle readers, and  *)
(* the callback of a switch towards WEIGHTED, which captures the close     *)
(* price first.  OracleService has what this module leaves out: pauses, the*)
(* flag bothOracleAlerted, polls and the switch towards CEX, seen from here*)
(* as a source that changes and may be rolled back.                        *)
(***************************************************************************)
EXTENDS PriceRules

CONSTANTS
    Messages,           \* oracle -> the prices its messages may carry
    Quotes,             \* the close prices the cached CEX quote may yield, 0: no quote
    StoreErrors,        \* may a call of Redis fail, or not
    Restarts            \* may the process restart, or not

Oracles == {"pyth", "gate"}
Actors  == Oracles \cup {"switch"}
\* A quote whose price field is 0 is in OracleService, not here.
NoQuote == 0

ASSUME QuotesAssumption ==
    /\ Messages \in [Oracles -> SUBSET (Nat \ {0})]
    /\ Quotes \subseteq Nat
    /\ StoreErrors \subseteq BOOLEAN /\ Restarts \subseteq BOOLEAN

VARIABLES
    dataSource,         \* the manager's source of the symbol
    statuses,           \* oracle -> its status in the manager
    prices,             \* oracle -> cached price (pythPrices, gatePrices), 0 if none
    closePrice,         \* the close price in memory, 0 if none
    storedClose,        \* the close price in Redis, 0 if none
    run                 \* actor -> where it stands and what it has read

memory == <<dataSource, statuses, prices, closePrice>>
vars   == <<memory, storedClose, run>>

NoPrices   == [o \in Oracles |-> 0]
AllNormal  == [o \in Oracles |-> "NORMAL"]
Idle == [pc |-> "idle", price |-> 0, close |-> 0, prices |-> NoPrices, statuses |-> AllNormal]

\* The first poll comes before the service is ready and may have switched already.
Init ==
    /\ dataSource \in {"CEX", "WEIGHTED"}
    /\ statuses = AllNormal /\ prices = NoPrices
    /\ closePrice = 0
    /\ storedClose \in Quotes \cup {0}
    /\ run = [a \in Actors |-> Idle]

PCs == {"idle", "cache", "source", "pyth normal", "gate normal", "prices", "load", "loaded",
        "pyth status", "gate status", "collect", "capture", "captured", "to CEX"}

At(a, pc)      == run[a].pc = pc
Goto(a, pc)    == run' = [run EXCEPT ![a].pc = pc]
Becomes(a, r)  == run' = [run EXCEPT ![a] = r]

-----------------------------------------------------------------------------
(* The world outside *)

\* Memory is lost.  Redis is not, unless ttlClosePrice is over.
Restart ==
    /\ TRUE \in Restarts
    /\ dataSource' \in {"CEX", "WEIGHTED"}
    /\ statuses' = AllNormal /\ prices' = NoPrices
    /\ closePrice' = 0
    /\ run' = [a \in Actors |-> Idle]
    /\ storedClose' \in {storedClose, 0}

\* A poll switches towards WEIGHTED and starts the callback, one at a time.
SwitchToWeighted ==
    /\ dataSource = "CEX" /\ At("switch", "idle")
    /\ dataSource' = "WEIGHTED"
    /\ Goto("switch", "capture")
    /\ UNCHANGED <<statuses, prices, closePrice, storedClose>>

SwitchToCEX ==
    /\ dataSource = "WEIGHTED" /\ At("switch", "idle")
    /\ dataSource' = "CEX"
    /\ Goto("switch", "to CEX")
    /\ UNCHANGED <<statuses, prices, closePrice, storedClose>>

\* The callback towards CEX ends: the switch stands, or is rolled back.
SwitchToCEXEnds ==
    /\ At("switch", "to CEX")
    /\ dataSource' \in {"CEX", "WEIGHTED"}
    /\ Becomes("switch", Idle)
    /\ UNCHANGED <<statuses, prices, closePrice, storedClose>>

-----------------------------------------------------------------------------
(* handlePythPrice, handleGatePrice *)

\* Only the reader itself writes the price it compares with.
JumpCheck(o, p) == ValidatePriceJump(prices[o], p)

ReceivePrice_CachesJump(o, p) ==
    /\ At(o, "idle")
    /\ statuses' = [statuses EXCEPT ![o] = IF JumpCheck(o, p) THEN "NORMAL" ELSE "ABNORMAL"]
    /\ Becomes(o, [Idle EXCEPT !.pc = "cache", !.price = p])
    /\ UNCHANGED <<dataSource, prices, closePrice, storedClose>>

\* The status is set under m.mu; the price follows under s.mu, unless it jumped.
ReceivePrice(o, p) ==
    /\ At(o, "idle")
    /\ IF JumpCheck(o, p)
       THEN /\ statuses' = [statuses EXCEPT ![o] = "NORMAL"]
            /\ Becomes(o, [Idle EXCEPT !.pc = "cache", !.price = p])
       ELSE /\ statuses' = [statuses EXCEPT ![o] = "ABNORMAL"]
            /\ Goto(o, "source")
    /\ UNCHANGED <<dataSource, prices, closePrice, storedClose>>

CachePrice(o) ==
    /\ At(o, "cache")
    /\ prices' = [prices EXCEPT ![o] = run[o].price]
    /\ Becomes(o, [Idle EXCEPT !.pc = "source"])
    /\ UNCHANGED <<dataSource, statuses, closePrice, storedClose>>

OracleSource(o) ==
    /\ At(o, "source")
    /\ Becomes(o, IF dataSource = "WEIGHTED" THEN [Idle EXCEPT !.pc = "pyth normal"] ELSE Idle)
    /\ UNCHANGED <<memory, storedClose>>

\* calculateAndPushWeightedPrice asks the manager twice, and prices nothing when
\* both answers are abnormal.
PythNormal(o) ==
    /\ At(o, "pyth normal")
    /\ Goto(o, IF statuses["pyth"] = "NORMAL" THEN "prices" ELSE "gate normal")
    /\ UNCHANGED <<memory, storedClose>>

GateNormal(o) ==
    /\ At(o, "gate normal")
    /\ Goto(o, IF statuses["gate"] = "NORMAL" THEN "prices" ELSE "idle")
    /\ UNCHANGED <<memory, storedClose>>

-----------------------------------------------------------------------------
(* captureClosePrice, by the callback of a switch towards WEIGHTED *)

\* A failed write is only logged.
StoreClose ==
    /\ At("switch", "capture")
    /\ \E quote \in Quotes :
           IF quote = NoQuote
           THEN Goto("switch", "prices") /\ UNCHANGED storedClose
           ELSE /\ Becomes("switch", [Idle EXCEPT !.pc = "captured", !.close = quote])
                /\ \/ storedClose' = quote
                   \/ TRUE \in StoreErrors /\ UNCHANGED storedClose
    /\ UNCHANGED <<memory>>

KeepClose ==
    /\ At("switch", "captured")
    /\ closePrice' = run["switch"].close
    /\ Becomes("switch", [Idle EXCEPT !.pc = "prices"])
    /\ UNCHANGED <<dataSource, statuses, prices, storedClose>>

-----------------------------------------------------------------------------
(* calculateWeightedPriceOnly *)

\* One critical section; a missing close price is asked of Redis next.
ReadPrices(a) ==
    /\ At(a, "prices")
    /\ Becomes(a, [Idle EXCEPT !.pc = IF closePrice = 0 THEN "load" ELSE "pyth status",
                               !.close = closePrice, !.prices = prices])
    /\ UNCHANGED <<memory, storedClose>>

LoadClose(a) ==
    /\ At(a, "load")
    /\ \/ /\ storedClose # 0
          /\ Becomes(a, [run[a] EXCEPT !.pc = "loaded", !.close = storedClose])
       \/ /\ storedClose = 0 \/ TRUE \in StoreErrors
          /\ Goto(a, "pyth status")
    /\ UNCHANGED <<memory, storedClose>>

KeepLoaded_NotCached(a) ==
    /\ At(a, "loaded")
    /\ Goto(a, "pyth status")
    /\ UNCHANGED <<memory, storedClose>>

\* Whatever memory holds by now is overwritten.
KeepLoaded(a) ==
    /\ At(a, "loaded")
    /\ closePrice' = run[a].close
    /\ Goto(a, "pyth status")
    /\ UNCHANGED <<dataSource, statuses, prices, storedClose>>

ReadPythStatus_ErrorIfUnpriced(a) ==
    /\ At(a, "pyth status")
    /\ run' = [run EXCEPT ![a].pc = "gate status",
                          ![a].statuses["pyth"] = IF run[a].prices["pyth"] = 0 THEN "ERROR"
                                                  ELSE statuses["pyth"]]
    /\ UNCHANGED <<memory, storedClose>>

ReadPythStatus(a) ==
    /\ At(a, "pyth status")
    /\ run' = [run EXCEPT ![a].pc = "gate status", ![a].statuses["pyth"] = statuses["pyth"]]
    /\ UNCHANGED <<memory, storedClose>>

WeightedOf(r) ==
    CalculateWeightedPrice(r.close, r.prices["pyth"], r.prices["gate"],
                           r.statuses["pyth"], r.statuses["gate"])

\* What follows reads only the actor's own variables, up to the next call.
ReadGateStatus(a) ==
    /\ At(a, "gate status")
    /\ LET r == [run[a] EXCEPT !.pc = "collect", !.statuses["gate"] = statuses["gate"]]
       IN  Becomes(a, IF WeightedOf(r) > 0 THEN [r EXCEPT !.price = WeightedOf(r)] ELSE Idle)
    /\ UNCHANGED <<memory, storedClose>>

\* collectPrice: what becomes of the price is in PushPipeline.
CollectWeighted(a) ==
    /\ At(a, "collect")
    /\ Becomes(a, Idle)
    /\ UNCHANGED <<memory, storedClose>>

\* The 5 % check of the callback failed.
SwitchRefused ==
    /\ At("switch", "collect")
    /\ dataSource' = "CEX"
    /\ Becomes("switch", Idle)
    /\ UNCHANGED <<statuses, prices, closePrice, storedClose>>

-----------------------------------------------------------------------------

Computes(a) ==
    \/ ReadPrices(a) \/ LoadClose(a) \/ KeepLoaded(a)
    \/ ReadPythStatus(a) \/ ReadGateStatus(a) \/ CollectWeighted(a)

Handles(o) == CachePrice(o) \/ OracleSource(o) \/ PythNormal(o) \/ GateNormal(o) \/ Computes(o)

Switches == SwitchToCEXEnds \/ StoreClose \/ KeepClose \/ Computes("switch") \/ SwitchRefused

ReceivesPrice(o) == \E p \in Messages[o] : ReceivePrice(o, p)

\* All that neither takes a message nor starts anew.
Proceeds ==
    \/ SwitchToWeighted \/ SwitchToCEX
    \/ \E o \in Oracles : Handles(o)
    \/ Switches

Next == Restart \/ Proceeds \/ \E o \in Oracles : ReceivesPrice(o)

Spec == Init /\ [][Next]_vars

\* The oracles keep sending, whatever they send; goroutines run and Redis answers.
Fairness ==
    /\ \A o \in Oracles : WF_vars(ReceivesPrice(o) \/ Handles(o))
    /\ WF_vars(Switches)

=============================================================================

-------------------------- MODULE MCWeightedQuotes --------------------------
(***************************************************************************)
(* Weighted prices on small instances: the rules of the arithmetic where   *)
(* they are applied, on values other goroutines change meanwhile.  A       *)
(* history variable has the last message each oracle's reader accepted for *)
(* checking, which is what the abstract JumpFilter knows of.               *)
(***************************************************************************)
EXTENDS WeightedQuotes

VARIABLE received       \* oracle -> its last message, 0 before any

mcVars == <<vars, received>>

\* A jump each, Pyth's from below to above the change of format.  A switch from
\* Gate's lower price to the close price of the run is accepted, from Pyth's refused.
JumpingMessages == [o \in Oracles |-> IF o = "pyth" THEN {99999, 118000} ELSE {101000, 118000}]

MCInit == Init /\ received = NoPrices

MCNext ==
    \/ \E o \in Oracles : \E p \in Messages[o] :
           ReceivePrice(o, p) /\ received' = [received EXCEPT ![o] = p]
    \/ Restart /\ received' = NoPrices
    \/ Proceeds /\ UNCHANGED received

MCSpec == MCInit /\ [][MCNext]_mcVars

LiveMCSpec == MCSpec /\ Fairness

Prices == {0} \cup Quotes \cup Messages["pyth"] \cup Messages["gate"]

(* The types of the state. *)
TypeOK ==
    /\ dataSource \in {"CEX", "WEIGHTED"}
    /\ statuses \in [Oracles -> OracleStatuses]
    /\ prices \in [Oracles -> Prices]
    /\ closePrice \in Prices /\ storedClose \in Prices
    /\ run \in [Actors -> [pc : PCs, price : Nat, close : Prices,
                           prices : [Oracles -> Prices], statuses : [Oracles -> OracleStatuses]]]
    /\ received \in [Oracles -> Prices]

-----------------------------------------------------------------------------
(* The weighted price about to be collected *)

Collecting == {run[a] : a \in {b \in Actors : At(b, "collect")}}

UsableOracles(r) == {o \in Oracles : OracleValid(r.prices[o], r.statuses[o])}

Usable(r) == ({r.close} \ {0}) \cup {r.prices[o] : o \in UsableOracles(r)}

(* A weighted price never leaves the span of the inputs it is made of, save for the
   tick the format cuts off, although statuses, oracle prices and the close price
   were read at different moments: the weights of every degraded combination still
   add up to one (CalculateWeightedPrice). *)
WeightedBetweenUsableInputs ==
    \A r \in Collecting : /\ \E p \in Usable(r) : r.price <= p
                          /\ \E p \in Usable(r) : r.price > p - Unit \div 100

(* A weighted price is made of at least two usable inputs, one of them an oracle:
   a lone oracle, or the close price with both oracles abnormal, yields none, not
   even when the second check of the statuses contradicts the first
   (calculateAndPushWeightedPrice, calculateWeightedPriceOnly). *)
PricedOnlyFromTwoInputs ==
    \A r \in Collecting : \/ UsableOracles(r) = Oracles
                          \/ UsableOracles(r) # {} /\ r.close > 0

(* Formatting cuts an oracle price to the largest multiple of the tick that is not
   above it: 4 decimals below one dollar, 2 from one dollar on (formatter.go). *)
FormatIsLargestMultipleBelow ==
    \A o \in Oracles :
        LET p == prices[o]
            f == FormatPrice(p, 1)
            t == IF p < Unit THEN Unit \div 10000 ELSE Unit \div 100
        IN  f % t = 0 /\ f <= p /\ p < f + t

(* A move upwards that the switch check lets through is let through in the other
   direction too, so a symbol is not trapped on the weighted price by a rise of its
   own making: the difference is taken relative to the price being left. *)
SwitchUpIsReversible ==
    \A o \in Oracles :
        0 < prices[o] /\ prices[o] <= closePrice /\ ValidateSwitchDiff(prices[o], closePrice)
            => ValidateSwitchDiff(closePrice, prices[o])

(* Each handler implements the filter the design describes, although it sets the
   status and the price it compares with under two locks and others read in
   between: the change happens when the status is set. *)
Reference(o) == IF At(o, "cache") THEN run[o].price ELSE prices[o]

PythFilter == INSTANCE JumpFilter
              WITH Messages <- Messages["pyth"], reference <- Reference("pyth"),
                   status <- statuses["pyth"], last <- received["pyth"]

GateFilter == INSTANCE JumpFilter
              WITH Messages <- Messages["gate"], reference <- Reference("gate"),
                   status <- statuses["gate"], last <- received["gate"]

ImplementsFilters == PythFilter!FilterSpec /\ GateFilter!FilterSpec

-----------------------------------------------------------------------------

Inputs == <<statuses, prices, closePrice>>

Formula == CalculateWeightedPrice(closePrice, prices["pyth"], prices["gate"],
                                  statuses["pyth"], statuses["gate"])

(* Two readers compute at the same time, and the older of two results may be collected
   last; but when the inputs have come to rest, so does the price: every price still
   collected is the formula of the state as it is, also when the last input came
   from the other reader, from a switch or from Redis. *)
CollectedPriceSettles ==
    <>[][Inputs' = Inputs]_mcVars
        => <>[](\A r \in Collecting : r.price = Formula)

(* What the README says of the close price: the weighting uses the latest price at the
   time of the switch.  Redis holds the price captured last; once no write is under
   way memory should hold the same. *)
CloseIsTheCaptured ==
    (\A a \in Actors : ~At(a, "captured") /\ ~At(a, "loaded"))
        => closePrice \in {0, storedClose}

=============================================================================

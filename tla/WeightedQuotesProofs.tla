------------------------ MODULE WeightedQuotesProofs ------------------------
(***************************************************************************)
(* Proofs about the price arithmetic, for any unit and any prices, and     *)
(* about weighted prices, for any messages and quotes, whatever the three  *)
(* goroutines that compute them read and when.                             *)
(***************************************************************************)
EXTENDS MCWeightedQuotes, TLAPS

-----------------------------------------------------------------------------
(* The price rules *)

LEMMA DivBounds ==
    ASSUME NEW n \in Nat, NEW m \in Nat \ {0}
    PROVE  /\ n \div m \in Nat
           /\ m * (n \div m) <= n
           /\ n < m * (n \div m) + m
BY SMTT(60)

LEMMA TickIsPositive ==
    ASSUME NEW n \in Nat, NEW d \in Nat \ {0}
    PROVE  Tick(n, d) \in Nat \ {0} /\ Tick(n, d) <= Unit \div 100
BY UnitAssumption DEF Tick

(* A formatted price is not above the price, and less than a tick below it
   (FormatPrice). *)
THEOREM FormatWithinATick ==
    ASSUME NEW n \in Nat, NEW d \in {1, 10}
    PROVE  /\ FormatPrice(n, d) \in Nat
           /\ d * FormatPrice(n, d) <= n
           /\ n < d * (FormatPrice(n, d) + Tick(n, d))
<1> DEFINE t == Tick(n, d)
           q == n \div (d * t)
<1>1. t \in Nat \ {0}
  BY TickIsPositive
<1>2. FormatPrice(n, d) = t * q
  BY DEF FormatPrice
<1> HIDE DEF t
<1>3. d * t \in Nat \ {0}
  BY <1>1
<1>4. q \in Nat /\ (d * t) * q <= n /\ n < (d * t) * q + d * t
  BY <1>3, DivBounds
<1> HIDE DEF q
<1>5. t * q \in Nat
  BY <1>1, <1>4
<1>6. CASE d = 1
  BY <1>1, <1>2, <1>4, <1>5, <1>6 DEF t
<1>7. CASE d = 10
  <2>1. (10 * t) * q = 10 * (t * q)
    BY <1>1, <1>4
  <2>. QED  BY <1>1, <1>2, <1>4, <1>5, <1>7, <2>1 DEF t
<1>. QED  BY <1>6, <1>7

(* Whatever inputs are usable, their weights add up to ten tenths or there is no
   price, and an input that is not usable has no weight (the switch of
   CalculateWeightedPrice). *)
LEMMA WeightsAddUp ==
    ASSUME NEW closeOK \in BOOLEAN, NEW pythOK \in BOOLEAN, NEW gateOK \in BOOLEAN
    PROVE  LET w == Weights(closeOK, pythOK, gateOK)
           IN  /\ w.close \in Nat /\ w.pyth \in Nat /\ w.gate \in Nat
               /\ w.close + w.pyth + w.gate \in {0, 10}
               /\ w.close > 0 => closeOK
               /\ w.pyth > 0 => pythOK
               /\ w.gate > 0 => gateOK
BY DEF Weights, WeightTenths

(* A weighted price never exceeds the highest usable input, and falls short of the
   lowest by less than a cent, the truncation's (CalculateWeightedPrice). *)
THEOREM WeightedPriceInSpan ==
    ASSUME NEW c \in Nat, NEW p \in Nat, NEW g \in Nat,
           NEW ps \in OracleStatuses, NEW gs \in OracleStatuses,
           NEW lo \in Nat, NEW hi \in Nat,
           c > 0 => lo <= c /\ c <= hi,
           OracleValid(p, ps) => lo <= p /\ p <= hi,
           OracleValid(g, gs) => lo <= g /\ g <= hi,
           CalculateWeightedPrice(c, p, g, ps, gs) > 0
    PROVE  /\ CalculateWeightedPrice(c, p, g, ps, gs) <= hi
           /\ CalculateWeightedPrice(c, p, g, ps, gs) > lo - Unit \div 100
<1> DEFINE w   == WeightsFor(c, p, g, ps, gs)
           sum == WeightedTenths(w, c, p, g)
<1>1. 10 * lo <= sum /\ sum <= 10 * hi /\ sum \in Nat
  <2>1. \/ sum = 4 * c + 3 * p + 3 * g /\ c > 0 /\ OracleValid(p, ps) /\ OracleValid(g, gs)
        \/ sum = 6 * c + 4 * g /\ c > 0 /\ OracleValid(g, gs)
        \/ sum = 6 * c + 4 * p /\ c > 0 /\ OracleValid(p, ps)
        \/ sum = 5 * p + 5 * g /\ OracleValid(p, ps) /\ OracleValid(g, gs)
        \/ sum = 0
    BY DEF WeightsFor, Weights, WeightTenths, WeightedTenths
  <2>2. sum # 0
    BY DEF CalculateWeightedPrice
  <2>. QED  BY <2>1, <2>2
<1>2. CalculateWeightedPrice(c, p, g, ps, gs) = FormatPrice(sum, 10)
  BY DEF CalculateWeightedPrice
<1> HIDE DEF sum
<1>3. /\ FormatPrice(sum, 10) \in Nat /\ 10 * FormatPrice(sum, 10) <= sum
      /\ sum < 10 * (FormatPrice(sum, 10) + Tick(sum, 10))
  BY <1>1, FormatWithinATick
<1>4. Tick(sum, 10) \in Nat /\ Tick(sum, 10) <= Unit \div 100 /\ Unit \div 100 \in Nat
  BY <1>1, TickIsPositive, UnitAssumption
<1>. QED  BY <1>1, <1>2, <1>3, <1>4

(* A rise that the switch check lets through is let through downwards too
   (ValidateSwitchDiff). *)
LEMMA RiseIsReversible ==
    ASSUME NEW p \in Nat, NEW q \in Nat, 0 < p, p <= q, ValidateSwitchDiff(p, q)
    PROVE  ValidateSwitchDiff(q, p)
BY DEF ValidateSwitchDiff, AbsDiff

(* The formatted price is a multiple of the tick (FormatPrice). *)
LEMMA FormatIsMultiple ==
    ASSUME NEW n \in Nat, NEW d \in {1, 10}
    PROVE  \E k \in Nat : FormatPrice(n, d) = Tick(n, d) * k
<1>1. d * Tick(n, d) \in Nat \ {0}
  BY TickIsPositive
<1>2. n \div (d * Tick(n, d)) \in Nat
  BY <1>1, DivBounds
<1>. QED  BY <1>2 DEF FormatPrice

-----------------------------------------------------------------------------
(* The three goroutines *)

Run == [pc : PCs, price : Nat, close : Prices,
        prices : [Oracles -> Prices], statuses : [Oracles -> OracleStatuses]]

LEMMA PricesAreNat == Prices \subseteq Nat /\ 0 \in Prices
<1>1. 0 \in Nat
  OBVIOUS
<1>2. Quotes \subseteq Nat
  BY QuotesAssumption
<1>3. Messages["pyth"] \subseteq Nat /\ Messages["gate"] \subseteq Nat
  BY QuotesAssumption DEF Oracles
<1>. QED  BY <1>1, <1>2, <1>3, Zenon DEF Prices

LEMMA IdleIsRun == Idle \in Run
BY PricesAreNat DEF Idle, Run, PCs, NoPrices, AllNormal, OracleStatuses

LEMMA MessagesArePrices ==
    ASSUME NEW o \in Oracles, NEW p \in Messages[o]
    PROVE  p \in Prices /\ p \in Nat \ {0}
BY QuotesAssumption DEF Prices, Oracles

LEMMA WeightedIsNat ==
    ASSUME NEW r \in Run
    PROVE  WeightedOf(r) \in Nat
<1> DEFINE w == WeightsFor(r.close, r.prices["pyth"], r.prices["gate"],
                           r.statuses["pyth"], r.statuses["gate"])
           sum == WeightedTenths(w, r.close, r.prices["pyth"], r.prices["gate"])
<1>1. r.close \in Nat /\ r.prices["pyth"] \in Nat /\ r.prices["gate"] \in Nat
  BY PricesAreNat DEF Run, Oracles
<1>2. w.close \in Nat /\ w.pyth \in Nat /\ w.gate \in Nat
  BY DEF WeightsFor, Weights, WeightTenths
<1> HIDE DEF w
<1>3. sum \in Nat
  BY <1>1, <1>2 DEF WeightedTenths
<1>4. WeightedOf(r) = IF sum > 0 THEN FormatPrice(sum, 10) ELSE 0
  BY DEF WeightedOf, CalculateWeightedPrice, w
<1> HIDE DEF sum
<1>. QED  BY <1>3, <1>4, FormatWithinATick

-----------------------------------------------------------------------------
(* Types, and what a goroutine holds that is about to collect or to cache *)

Holds(a, r) ==
    /\ r.pc = "collect" => r.price = WeightedOf(r) /\ r.price > 0
    /\ r.pc = "cache"   => a \in Oracles /\ r.price \in Messages[a]

Passive(r) == r \in Run /\ r.pc # "collect" /\ r.pc # "cache"

QuotesInv == TypeOK /\ \A a \in Actors : Holds(a, run[a])

(* A step of one goroutine keeps what the others hold. *)
LEMMA StepOfOne ==
    ASSUME QuotesInv, NEW a \in Actors, NEW r \in Run, Becomes(a, r), Holds(a, r)
    PROVE  run' \in [Actors -> Run] /\ \A b \in Actors : Holds(b, run'[b])
<1>1. run \in [Actors -> Run]
  BY DEF QuotesInv, TypeOK, Run
<1>2. run' \in [Actors -> Run] /\ \A b \in Actors : run'[b] = IF b = a THEN r ELSE run[b]
  BY <1>1 DEF Becomes
<1>. QED  BY <1>2 DEF QuotesInv

LEMMA PassiveHolds ==
    ASSUME NEW a \in Actors, NEW r, Passive(r)
    PROVE  r \in Run /\ Holds(a, r)
BY DEF Passive, Holds

LEMMA IdleIsPassive == Passive(Idle)
BY IdleIsRun DEF Passive, Idle

LEMMA Goes ==
    ASSUME NEW a \in Actors, NEW pc, Goto(a, pc), run \in [Actors -> Run]
    PROVE  Becomes(a, [run[a] EXCEPT !.pc = pc])
BY DEF Goto, Becomes, Run

LEMMA ComputesKeepsInv ==
    ASSUME QuotesInv, NEW a \in Actors, Computes(a), UNCHANGED received
    PROVE  QuotesInv'
<1> USE DEF QuotesInv
<1>0. run \in [Actors -> Run] /\ run[a] \in Run
  BY DEF TypeOK, Run
<1>1. CASE ReadPrices(a)
  <2> DEFINE r == [Idle EXCEPT !.pc = IF closePrice = 0 THEN "load" ELSE "pyth status",
                               !.close = closePrice, !.prices = prices]
  <2>1. Passive(r)
    BY IdleIsRun DEF Idle, Run, PCs, TypeOK, Passive
  <2>. QED  BY <1>1, <2>1, StepOfOne, PassiveHolds DEF ReadPrices, memory, TypeOK, Run
<1>2. CASE LoadClose(a)
  <2>1. CASE storedClose # 0 /\ Becomes(a, [run[a] EXCEPT !.pc = "loaded", !.close = storedClose])
    <3> DEFINE r == [run[a] EXCEPT !.pc = "loaded", !.close = storedClose]
    <3>1. Passive(r)
      BY <1>0 DEF Run, PCs, TypeOK, Passive
    <3>. QED  BY <1>2, <2>1, <3>1, StepOfOne, PassiveHolds DEF LoadClose, memory, TypeOK, Run
  <2>2. CASE Goto(a, "pyth status")
    <3> DEFINE r == [run[a] EXCEPT !.pc = "pyth status"]
    <3>1. Passive(r)
      BY <1>0 DEF Run, PCs, Passive
    <3>. QED  BY <1>0, <1>2, <2>2, <3>1, Goes, StepOfOne, PassiveHolds DEF LoadClose, memory, TypeOK, Run
  <2>. QED  BY <1>2, <2>1, <2>2 DEF LoadClose
<1>3. CASE KeepLoaded(a)
  <2> DEFINE r == [run[a] EXCEPT !.pc = "pyth status"]
  <2>1. Passive(r)
    BY <1>0 DEF Run, PCs, Passive
  <2>2. run[a].close \in Prices
    BY <1>0 DEF Run
  <2>. QED  BY <1>0, <1>3, <2>1, <2>2, Goes, StepOfOne, PassiveHolds DEF KeepLoaded, TypeOK, Run
<1>4. CASE ReadPythStatus(a)
  <2> DEFINE r == [run[a] EXCEPT !.pc = "gate status", !.statuses["pyth"] = statuses["pyth"]]
  <2>1. Passive(r)
    BY <1>0 DEF Run, PCs, TypeOK, Oracles, Passive
  <2>2. Becomes(a, r)
    BY <1>0, <1>4 DEF ReadPythStatus, Becomes, Run
  <2>. QED  BY <1>4, <2>1, <2>2, StepOfOne, PassiveHolds DEF ReadPythStatus, memory, TypeOK, Run
<1>5. CASE ReadGateStatus(a)
  <2> DEFINE r == [run[a] EXCEPT !.pc = "collect", !.statuses["gate"] = statuses["gate"]]
             priced == [r EXCEPT !.price = WeightedOf(r)]
             next == IF WeightedOf(r) > 0 THEN priced ELSE Idle
  <2>1. r \in Run
    BY <1>0 DEF Run, PCs, TypeOK, Oracles
  <2>2. WeightedOf(r) \in Nat
    BY <2>1, WeightedIsNat
  <2>3. priced \in Run /\ WeightedOf(priced) = WeightedOf(r) /\ priced.price = WeightedOf(r)
        /\ priced.pc = "collect"
    <3>1. r.pc = "collect"
      BY <1>0 DEF Run
    <3> HIDE DEF r
    <3>. QED  BY <2>1, <2>2, <3>1 DEF Run, WeightedOf
  <2>4. next \in Run /\ Holds(a, next)
    <3>1. Holds(a, Idle)
      BY IdleIsPassive, PassiveHolds
    <3>2. WeightedOf(r) > 0 => Holds(a, priced)
      <4> HIDE DEF r, priced
      <4>. QED  BY <2>3 DEF Holds
    <3> HIDE DEF r, priced
    <3>. QED  BY <2>3, <3>1, <3>2, IdleIsRun
  <2>5. Becomes(a, next)
    BY <1>5 DEF ReadGateStatus
  <2> HIDE DEF next
  <2>. QED  BY <1>5, <2>4, <2>5, StepOfOne, PassiveHolds DEF ReadGateStatus, memory, TypeOK, Run
<1>6. CASE CollectWeighted(a)
  <2>. QED  BY <1>6, IdleIsPassive, StepOfOne, PassiveHolds DEF CollectWeighted, memory, TypeOK, Run
<1>. QED  BY <1>1, <1>2, <1>3, <1>4, <1>5, <1>6 DEF Computes

LEMMA HandlesKeepsInv ==
    ASSUME QuotesInv, NEW o \in Oracles, Handles(o), UNCHANGED received
    PROVE  QuotesInv'
<1> USE DEF QuotesInv
<1>0. run \in [Actors -> Run] /\ run[o] \in Run /\ o \in Actors /\ Passive(Idle)
  BY IdleIsPassive DEF TypeOK, Run, Actors
<1>1. CASE CachePrice(o)
  <2> DEFINE r == [Idle EXCEPT !.pc = "source"]
  <2>1. Passive(r)
    BY IdleIsRun DEF Idle, Run, PCs, Passive
  <2>2. run[o].price \in Prices
    BY <1>1, MessagesArePrices DEF CachePrice, At, Holds, Actors
  <2>. QED  BY <1>0, <1>1, <2>1, <2>2, StepOfOne, PassiveHolds DEF CachePrice, TypeOK, Run
<1>2. CASE OracleSource(o)
  <2> DEFINE r == IF dataSource = "WEIGHTED" THEN [Idle EXCEPT !.pc = "pyth normal"] ELSE Idle
  <2>1. Passive(r)
    BY IdleIsRun DEF Idle, Run, PCs, Passive
  <2>. QED  BY <1>0, <1>2, <2>1, StepOfOne, PassiveHolds DEF OracleSource, memory, TypeOK, Run
<1>3. CASE PythNormal(o)
  <2> DEFINE pc == IF statuses["pyth"] = "NORMAL" THEN "prices" ELSE "gate normal"
             r == [run[o] EXCEPT !.pc = pc]
  <2>1. Passive(r)
    BY <1>0 DEF Run, PCs, Passive
  <2>2. Becomes(o, r)
    BY <1>0, <1>3, Goes DEF PythNormal
  <2>. QED  BY <1>0, <1>3, <2>1, <2>2, StepOfOne, PassiveHolds DEF PythNormal, memory, TypeOK, Run
<1>4. CASE GateNormal(o)
  <2> DEFINE pc == IF statuses["gate"] = "NORMAL" THEN "prices" ELSE "idle"
             r == [run[o] EXCEPT !.pc = pc]
  <2>1. Passive(r)
    BY <1>0 DEF Run, PCs, Passive
  <2>2. Becomes(o, r)
    BY <1>0, <1>4, Goes DEF GateNormal
  <2>. QED  BY <1>0, <1>4, <2>1, <2>2, StepOfOne, PassiveHolds DEF GateNormal, memory, TypeOK, Run
<1>. QED  BY <1>0, <1>1, <1>2, <1>3, <1>4, ComputesKeepsInv DEF Handles

LEMMA SwitchesKeepsInv ==
    ASSUME QuotesInv, Switches \/ SwitchToWeighted \/ SwitchToCEX, UNCHANGED received
    PROVE  QuotesInv'
<1> USE DEF QuotesInv
<1> DEFINE At_(pc) == [run["switch"] EXCEPT !.pc = pc]
<1>0. /\ run \in [Actors -> Run] /\ run["switch"] \in Run /\ "switch" \in Actors
      /\ Passive(Idle)
  BY IdleIsPassive DEF TypeOK, Run, Actors
<1>1. \A pc \in PCs \ {"collect", "cache"} : Passive(At_(pc))
  BY <1>0 DEF Run, Passive
<1>2. CASE SwitchToCEXEnds
  BY <1>0, <1>2, IdleIsPassive, StepOfOne, PassiveHolds DEF SwitchToCEXEnds, TypeOK, Run
<1>3. CASE StoreClose
  <2> PICK quote \in Quotes :
          IF quote = NoQuote
          THEN Goto("switch", "prices") /\ UNCHANGED storedClose
          ELSE /\ Becomes("switch", [Idle EXCEPT !.pc = "captured", !.close = quote])
               /\ storedClose' = quote \/ UNCHANGED storedClose
    BY <1>3 DEF StoreClose
  <2>0. quote \in Prices
    BY DEF Prices
  <2>1. CASE Goto("switch", "prices") /\ UNCHANGED storedClose
    <3>1. Becomes("switch", At_("prices")) /\ Passive(At_("prices"))
      BY <1>0, <1>1, <2>1, Goes DEF PCs
    <3>. QED  BY <1>0, <1>3, <2>1, <3>1, StepOfOne, PassiveHolds DEF StoreClose, memory, TypeOK, Run
  <2>2. CASE /\ Becomes("switch", [Idle EXCEPT !.pc = "captured", !.close = quote])
             /\ storedClose' = quote \/ UNCHANGED storedClose
    <3> DEFINE r == [Idle EXCEPT !.pc = "captured", !.close = quote]
    <3>1. Passive(r)
      BY <2>0, IdleIsRun DEF Idle, Run, PCs, Passive
    <3>. QED  BY <1>0, <1>3, <2>0, <2>2, <3>1, StepOfOne, PassiveHolds DEF StoreClose, memory, TypeOK, Run
  <2>. QED  BY <2>1, <2>2
<1>4. CASE KeepClose
  <2> DEFINE r == [Idle EXCEPT !.pc = "prices"]
  <2>1. Passive(r)
    BY IdleIsRun DEF Idle, Run, PCs, Passive
  <2>2. run["switch"].close \in Prices
    BY <1>0 DEF Run
  <2>. QED  BY <1>0, <1>4, <2>1, <2>2, StepOfOne, PassiveHolds DEF KeepClose, TypeOK, Run
<1>5. CASE SwitchRefused
  BY <1>0, <1>5, IdleIsPassive, StepOfOne, PassiveHolds DEF SwitchRefused, TypeOK, Run
<1>6. CASE SwitchToWeighted
  <2>1. Becomes("switch", At_("capture")) /\ Passive(At_("capture"))
    BY <1>0, <1>1, <1>6, Goes DEF SwitchToWeighted, PCs
  <2>. QED  BY <1>0, <1>6, <2>1, StepOfOne, PassiveHolds DEF SwitchToWeighted, TypeOK, Run
<1>7. CASE SwitchToCEX
  <2>1. Becomes("switch", At_("to CEX")) /\ Passive(At_("to CEX"))
    BY <1>0, <1>1, <1>7, Goes DEF SwitchToCEX, PCs
  <2>. QED  BY <1>0, <1>7, <2>1, StepOfOne, PassiveHolds DEF SwitchToCEX, TypeOK, Run
<1>. QED  BY <1>0, <1>2, <1>3, <1>4, <1>5, <1>6, <1>7, ComputesKeepsInv DEF Switches

LEMMA ReceiveKeepsInv ==
    ASSUME QuotesInv, NEW o \in Oracles, NEW p \in Messages[o], ReceivePrice(o, p),
           received' = [received EXCEPT ![o] = p]
    PROVE  QuotesInv'
<1> USE DEF QuotesInv
<1>0. /\ run \in [Actors -> Run] /\ run[o] \in Run /\ o \in Actors /\ Passive(Idle)
      /\ p \in Prices /\ p \in Nat
  BY IdleIsPassive, MessagesArePrices DEF TypeOK, Run, Actors
<1> DEFINE accepted == [Idle EXCEPT !.pc = "cache", !.price = p]
           refused  == [run[o] EXCEPT !.pc = "source"]
<1>1. CASE statuses' = [statuses EXCEPT ![o] = "NORMAL"] /\ Becomes(o, accepted)
  <2>1. accepted \in Run /\ Holds(o, accepted)
    BY <1>0, IdleIsRun DEF Idle, Run, PCs, Holds
  <2>2. run' \in [Actors -> Run] /\ \A b \in Actors : Holds(b, run'[b])
    <3> HIDE DEF accepted
    <3>. QED  BY <1>0, <1>1, <2>1, StepOfOne
  <2>3. statuses' \in [Oracles -> OracleStatuses]
    BY <1>1 DEF TypeOK, OracleStatuses
  <2>. QED  BY <1>0, <2>2, <2>3 DEF ReceivePrice, TypeOK, Run
<1>2. CASE statuses' = [statuses EXCEPT ![o] = "ABNORMAL"] /\ Goto(o, "source")
  <2>1. Passive(refused)
    BY <1>0 DEF Run, PCs, Passive
  <2>2. Becomes(o, refused)
    BY <1>0, <1>2, Goes
  <2>. QED  BY <1>0, <1>2, <2>1, <2>2, StepOfOne, PassiveHolds DEF ReceivePrice, TypeOK, Run, OracleStatuses
<1>. QED  BY <1>1, <1>2 DEF ReceivePrice

LEMMA QuotesInvariant == MCSpec => []QuotesInv
<1>1. MCInit => QuotesInv
  <2>1. \A q \in Quotes : q \in Prices
    BY DEF Prices
  <2>. QED  BY <2>1, IdleIsRun, PricesAreNat
            DEF MCInit, Init, QuotesInv, TypeOK, Holds, NoPrices, AllNormal, Idle, Run,
                OracleStatuses
<1>2. QuotesInv /\ [MCNext]_mcVars => QuotesInv'
  <2> SUFFICES ASSUME QuotesInv, [MCNext]_mcVars
               PROVE  QuotesInv'
    OBVIOUS
  <2>1. CASE \E o \in Oracles : \E p \in Messages[o] :
                 ReceivePrice(o, p) /\ received' = [received EXCEPT ![o] = p]
    BY <2>1, ReceiveKeepsInv
  <2>2. CASE Restart /\ received' = NoPrices
    BY <2>2, IdleIsRun, PricesAreNat
       DEF Restart, QuotesInv, TypeOK, Holds, NoPrices, AllNormal, Idle, Run,
           OracleStatuses
  <2>3. CASE Proceeds /\ UNCHANGED received
    BY <2>3, HandlesKeepsInv, SwitchesKeepsInv DEF Proceeds
  <2>4. CASE UNCHANGED mcVars
    BY <2>4 DEF mcVars, vars, memory, QuotesInv, TypeOK
  <2>. QED  BY <2>1, <2>2, <2>3, <2>4 DEF MCNext
<1>. QED  BY <1>1, <1>2, PTL DEF MCSpec

(* The types of the state, for any messages, quotes, failures and restarts. *)
THEOREM Types == MCSpec => []TypeOK
BY QuotesInvariant, PTL DEF QuotesInv

-----------------------------------------------------------------------------
(* What a goroutine is about to collect *)

LEMMA CollectingIsWeighted ==
    ASSUME QuotesInv, NEW r \in Collecting
    PROVE  /\ r \in Run /\ r.price = WeightedOf(r) /\ r.price > 0 /\ r.price \in Nat
           /\ r.close \in Nat /\ r.prices["pyth"] \in Nat /\ r.prices["gate"] \in Nat
           /\ r.statuses["pyth"] \in OracleStatuses /\ r.statuses["gate"] \in OracleStatuses
<1>1. PICK a \in Actors : At(a, "collect") /\ r = run[a]
  BY DEF Collecting
<1>2. r \in Run
  BY <1>1 DEF QuotesInv, TypeOK, Run
<1>3. r.price = WeightedOf(r) /\ r.price > 0
  BY <1>1 DEF QuotesInv, Holds, At
<1>. QED  BY <1>2, <1>3, PricesAreNat DEF Run, Oracles

(* A weighted price lies in the span of the inputs that were usable when each of them
   was read, but for the cent that the format cuts off, whoever changes them
   meanwhile (CalculateWeightedPrice). *)
THEOREM WeightedIsBetween == MCSpec => []WeightedBetweenUsableInputs
<1>1. QuotesInv => WeightedBetweenUsableInputs
  <2> SUFFICES ASSUME QuotesInv, NEW r \in Collecting
               PROVE  /\ \E x \in Usable(r) : r.price <= x
                      /\ \E x \in Usable(r) : r.price > x - Unit \div 100
    BY DEF WeightedBetweenUsableInputs
  <2> DEFINE c == r.close
             p == r.prices["pyth"]
             g == r.prices["gate"]
             ps == r.statuses["pyth"]
             gs == r.statuses["gate"]
  <2>1. /\ c \in Nat /\ p \in Nat /\ g \in Nat /\ ps \in OracleStatuses /\ gs \in OracleStatuses
        /\ r.price \in Nat /\ r.price > 0 /\ r.price = CalculateWeightedPrice(c, p, g, ps, gs)
    BY CollectingIsWeighted DEF WeightedOf
  <2>2. /\ c > 0 => c \in Usable(r)
        /\ OracleValid(p, ps) => p \in Usable(r)
        /\ OracleValid(g, gs) => g \in Usable(r)
    BY <2>1 DEF Usable, UsableOracles, Oracles
  <2>3. Unit \div 100 \in Nat
    BY UnitAssumption
  <2> HIDE DEF c, p, g, ps, gs
  <2>4. \E x \in Usable(r) : r.price <= x
    <3> SUFFICES ASSUME \A x \in Usable(r) : ~(r.price <= x)
                 PROVE  FALSE
      OBVIOUS
    <3> DEFINE hi == r.price - 1
    <3>1. hi \in Nat /\ 0 \in Nat
      BY <2>1
    <3>2. /\ c > 0 => 0 <= c /\ c <= hi
          /\ OracleValid(p, ps) => 0 <= p /\ p <= hi
          /\ OracleValid(g, gs) => 0 <= g /\ g <= hi
      BY <2>1, <2>2
    <3> HIDE DEF hi
    <3>3. r.price <= hi
      BY <2>1, <3>1, <3>2, WeightedPriceInSpan
    <3>. QED  BY <2>1, <3>3 DEF hi
  <2>5. \E x \in Usable(r) : r.price > x - Unit \div 100
    <3> SUFFICES ASSUME \A x \in Usable(r) : ~(r.price > x - Unit \div 100)
                 PROVE  FALSE
      OBVIOUS
    <3> DEFINE lo == r.price + Unit \div 100
               hi == c + p + g
    <3>1. hi \in Nat /\ lo \in Nat
      BY <2>1, <2>3
    <3>2. /\ c > 0 => lo <= c /\ c <= hi
          /\ OracleValid(p, ps) => lo <= p /\ p <= hi
          /\ OracleValid(g, gs) => lo <= g /\ g <= hi
      BY <2>1, <2>2, <2>3
    <3> HIDE DEF lo, hi
    <3>3. r.price > lo - Unit \div 100
      BY <2>1, <3>1, <3>2, WeightedPriceInSpan
    <3>. QED  BY <2>1, <2>3, <3>3 DEF lo
  <2>. QED  BY <2>4, <2>5
<1>. QED  BY <1>1, QuotesInvariant, PTL

(* No weighted price rests on one input, whichever of the two checks of the statuses
   a change falls between (calculateWeightedPriceOnly). *)
THEOREM TwoInputs == MCSpec => []PricedOnlyFromTwoInputs
<1>1. QuotesInv => PricedOnlyFromTwoInputs
  <2> SUFFICES ASSUME QuotesInv, NEW r \in Collecting
               PROVE  \/ UsableOracles(r) = Oracles
                      \/ UsableOracles(r) # {} /\ r.close > 0
    BY DEF PricedOnlyFromTwoInputs
  <2> DEFINE p == r.prices["pyth"]
             g == r.prices["gate"]
             ps == r.statuses["pyth"]
             gs == r.statuses["gate"]
  <2>1. /\ r.close \in Nat /\ p \in Nat /\ g \in Nat /\ r.price > 0
        /\ r.price = CalculateWeightedPrice(r.close, p, g, ps, gs)
    BY CollectingIsWeighted DEF WeightedOf
  <2>2. \/ OracleValid(p, ps) /\ OracleValid(g, gs)
        \/ (OracleValid(p, ps) \/ OracleValid(g, gs)) /\ r.close > 0
    <3> HIDE DEF p, g, ps, gs
    <3>. QED  BY <2>1 DEF CalculateWeightedPrice, WeightsFor, Weights, WeightTenths, WeightedTenths
  <2>. QED  BY <2>2 DEF UsableOracles, Oracles
<1>. QED  BY <1>1, QuotesInvariant, PTL

-----------------------------------------------------------------------------
(* Rules, on the prices the state holds *)

LEMMA MultipleHasNoRest ==
    ASSUME NEW t \in Nat \ {0}, NEW k \in Nat
    PROVE  (t * k) % t = 0
BY SMTT(60)

(* A cached oracle price is formatted to the largest multiple of its tick below it
   (FormatPrice). *)
THEOREM FormatIsLargest == MCSpec => []FormatIsLargestMultipleBelow
<1>1. QuotesInv => FormatIsLargestMultipleBelow
  <2> SUFFICES ASSUME QuotesInv, NEW o \in Oracles
               PROVE  LET p == prices[o]
                          f == FormatPrice(p, 1)
                          t == IF p < Unit THEN Unit \div 10000 ELSE Unit \div 100
                      IN  f % t = 0 /\ f <= p /\ p < f + t
    BY DEF FormatIsLargestMultipleBelow
  <2> DEFINE p == prices[o]
             f == FormatPrice(p, 1)
             t == Tick(p, 1)
  <2>1. p \in Nat
    BY PricesAreNat DEF QuotesInv, TypeOK
  <2>2. t = IF p < Unit THEN Unit \div 10000 ELSE Unit \div 100
    BY <2>1, UnitAssumption DEF Tick
  <2> HIDE DEF p
  <2>3. t \in Nat \ {0}
    BY <2>1, TickIsPositive
  <2>4. f \in Nat /\ f <= p /\ p < f + t
    BY <2>1, <2>3, FormatWithinATick
  <2>5. f % t = 0
    BY <2>1, <2>3, FormatIsMultiple, MultipleHasNoRest
  <2>. QED  BY <2>2, <2>4, <2>5 DEF p
<1>. QED  BY <1>1, QuotesInvariant, PTL

(* A rise from a cached oracle price to the close price that the switch check accepts
   is accepted back (ValidateSwitchDiff). *)
THEOREM SwitchUpReversible == MCSpec => []SwitchUpIsReversible
<1>1. QuotesInv => SwitchUpIsReversible
  <2> SUFFICES ASSUME QuotesInv
               PROVE  closePrice \in Nat /\ \A o \in Oracles : prices[o] \in Nat
    BY RiseIsReversible DEF SwitchUpIsReversible
  <2>. QED  BY PricesAreNat DEF QuotesInv, TypeOK
<1>. QED  BY <1>1, QuotesInvariant, PTL

-----------------------------------------------------------------------------
(* The refinement *)

(* A step that changes where one goroutine stands and nothing a filter knows of. *)
Moves ==
    /\ \E a \in Actors : /\ run[a].pc # "cache" /\ run'[a].pc # "cache"
                        /\ \A b \in Actors \ {a} : run'[b] = run[b]
    /\ UNCHANGED <<prices, statuses>>

LEMMA BecomingMoves ==
    ASSUME run \in [Actors -> Run], NEW a \in Actors, NEW r, Becomes(a, r),
           run[a].pc # "cache", r.pc # "cache", UNCHANGED <<prices, statuses>>
    PROVE  Moves
BY DEF Becomes, Moves

LEMMA GoingMoves ==
    ASSUME run \in [Actors -> Run], NEW a \in Actors, NEW pc, Goto(a, pc),
           run[a].pc # "cache", pc # "cache", UNCHANGED <<prices, statuses>>
    PROVE  Moves
<1>1. run'[a].pc # "cache" /\ \A b \in Actors \ {a} : run'[b] = run[b]
  BY DEF Goto, Run
<1>. QED  BY <1>1 DEF Moves

LEMMA ComputesMoves ==
    ASSUME QuotesInv, NEW a \in Actors, Computes(a)
    PROVE  Moves
<1>0. run \in [Actors -> Run] /\ run[a] \in Run /\ Idle.pc = "idle"
  BY DEF QuotesInv, TypeOK, Run, Idle
<1>1. CASE ReadPrices(a)
  <2> DEFINE r == [Idle EXCEPT !.pc = IF closePrice = 0 THEN "load" ELSE "pyth status",
                               !.close = closePrice, !.prices = prices]
  <2>1. r.pc # "cache"
    BY DEF Idle
  <2>. QED  BY <1>0, <1>1, <2>1, BecomingMoves DEF ReadPrices, At, memory
<1>2. CASE LoadClose(a)
  <2>1. CASE storedClose # 0 /\ Becomes(a, [run[a] EXCEPT !.pc = "loaded", !.close = storedClose])
    <3> DEFINE r == [run[a] EXCEPT !.pc = "loaded", !.close = storedClose]
    <3>1. r.pc # "cache"
      BY <1>0 DEF Run
    <3>. QED  BY <1>0, <1>2, <2>1, <3>1, BecomingMoves DEF LoadClose, At, memory
  <2>2. CASE Goto(a, "pyth status")
    BY <1>0, <1>2, <2>2, GoingMoves DEF LoadClose, At, memory
  <2>. QED  BY <1>2, <2>1, <2>2 DEF LoadClose
<1>3. CASE KeepLoaded(a)
  BY <1>0, <1>3, GoingMoves DEF KeepLoaded, At
<1>4. CASE ReadPythStatus(a)
  <2>1. run'[a].pc # "cache" /\ \A b \in Actors \ {a} : run'[b] = run[b]
    BY <1>0, <1>4 DEF ReadPythStatus, Run
  <2>. QED  BY <1>4, <2>1 DEF ReadPythStatus, At, memory, Moves
<1>5. CASE ReadGateStatus(a)
  <2> DEFINE r == [run[a] EXCEPT !.pc = "collect", !.statuses["gate"] = statuses["gate"]]
             next == IF WeightedOf(r) > 0 THEN [r EXCEPT !.price = WeightedOf(r)] ELSE Idle
  <2>1. r.pc = "collect" /\ [r EXCEPT !.price = WeightedOf(r)].pc = "collect"
    BY <1>0 DEF Run
  <2>2. next.pc # "cache" /\ Becomes(a, next)
    BY <1>0, <1>5, <2>1 DEF ReadGateStatus
  <2> HIDE DEF next
  <2>. QED  BY <1>0, <1>5, <2>2, BecomingMoves DEF ReadGateStatus, At, memory
<1>6. CASE CollectWeighted(a)
  BY <1>0, <1>6, BecomingMoves DEF CollectWeighted, At, memory
<1>. QED  BY <1>1, <1>2, <1>3, <1>4, <1>5, <1>6 DEF Computes

LEMMA ProceedsMoves ==
    ASSUME QuotesInv, Proceeds, \A o \in Oracles : ~CachePrice(o)
    PROVE  Moves
<1>0. run \in [Actors -> Run] /\ "switch" \in Actors /\ Oracles \subseteq Actors
  BY DEF QuotesInv, TypeOK, Run, Actors
<1>1. /\ Idle.pc = "idle"
      /\ [Idle EXCEPT !.pc = "pyth normal"].pc = "pyth normal"
      /\ [Idle EXCEPT !.pc = "prices"].pc = "prices"
      /\ \A q : [Idle EXCEPT !.pc = "captured", !.close = q].pc = "captured"
  BY DEF Idle
<1>2. ASSUME NEW o \in Oracles, Handles(o)
      PROVE  Moves
  <2>1. CASE OracleSource(o)
    <3> DEFINE r == IF dataSource = "WEIGHTED" THEN [Idle EXCEPT !.pc = "pyth normal"] ELSE Idle
    <3>1. r.pc # "cache" /\ Becomes(o, r)
      BY <1>1, <2>1 DEF OracleSource
    <3> HIDE DEF r
    <3>. QED  BY <1>0, <2>1, <3>1, BecomingMoves DEF OracleSource, At, memory
  <2>2. CASE PythNormal(o) \/ GateNormal(o)
    BY <1>0, <2>2, GoingMoves DEF PythNormal, GateNormal, At, memory
  <2>. QED  BY <1>0, <1>2, <2>1, <2>2, ComputesMoves DEF Handles
<1>3. CASE SwitchToWeighted \/ SwitchToCEX
  BY <1>0, <1>3, GoingMoves DEF SwitchToWeighted, SwitchToCEX, At
<1>4. CASE Switches
  <2>1. CASE SwitchToCEXEnds \/ SwitchRefused
    BY <1>0, <1>1, <2>1, BecomingMoves DEF SwitchToCEXEnds, SwitchRefused, At
  <2>2. CASE StoreClose
    <3>1. PICK quote \in Quotes :
              \/ Goto("switch", "prices")
              \/ Becomes("switch", [Idle EXCEPT !.pc = "captured", !.close = quote])
      BY <2>2 DEF StoreClose
    <3> DEFINE r == [Idle EXCEPT !.pc = "captured", !.close = quote]
    <3>2. r.pc # "cache"
      BY <1>1
    <3> HIDE DEF r
    <3>3. Goto("switch", "prices") \/ Becomes("switch", r)
      BY <3>1 DEF r
    <3>. QED  BY <1>0, <2>2, <3>2, <3>3, BecomingMoves, GoingMoves DEF StoreClose, At, memory
  <2>3. CASE KeepClose
    <3> DEFINE r == [Idle EXCEPT !.pc = "prices"]
    <3>1. r.pc # "cache" /\ Becomes("switch", r)
      BY <1>1, <2>3 DEF KeepClose
    <3> HIDE DEF r
    <3>. QED  BY <1>0, <2>3, <3>1, BecomingMoves DEF KeepClose, At
  <2>. QED  BY <1>0, <1>4, <2>1, <2>2, <2>3, ComputesMoves DEF Switches
<1>. QED  BY <1>2, <1>3, <1>4 DEF Proceeds

(* What one step means to the filter of one oracle. *)
FilterStep(o) ==
    \/ /\ TRUE \in Restarts
       /\ Reference(o)' = 0 /\ statuses'[o] = "NORMAL" /\ received'[o] = 0
    \/ \E p \in Messages[o] :
           /\ ValidatePriceJump(Reference(o), p)
           /\ Reference(o)' = p /\ statuses'[o] = "NORMAL" /\ received'[o] = p
    \/ \E p \in Messages[o] :
           /\ ~ValidatePriceJump(Reference(o), p)
           /\ statuses'[o] = "ABNORMAL" /\ received'[o] = p
           /\ Reference(o)' = Reference(o)
    \/ /\ Reference(o)' = Reference(o)
       /\ statuses'[o] = statuses[o] /\ received'[o] = received[o]

LEMMA ReceiptIsFilterStep ==
    ASSUME QuotesInv, NEW o \in Oracles, NEW q \in Oracles, NEW p \in Messages[q],
           ReceivePrice(q, p), received' = [received EXCEPT ![q] = p]
    PROVE  FilterStep(o)
<1>0. /\ run \in [Actors -> Run] /\ q \in Actors /\ o \in Actors /\ run[q].pc = "idle"
      /\ statuses \in [Oracles -> OracleStatuses] /\ received \in [Oracles -> Prices]
      /\ prices' = prices
  BY DEF QuotesInv, TypeOK, Run, Actors, ReceivePrice, At
<1>1. CASE o = q /\ JumpCheck(q, p)
  <2> DEFINE r == [Idle EXCEPT !.pc = "cache", !.price = p]
  <2>1. r.pc = "cache" /\ r.price = p /\ run'[q] = r
    BY <1>0, <1>1 DEF ReceivePrice, Becomes, Idle
  <2>2. Reference(o) = prices[o] /\ Reference(o)' = p
    BY <1>0, <1>1, <2>1 DEF Reference, At
  <2>3. statuses'[o] = "NORMAL" /\ received'[o] = p
    BY <1>0, <1>1 DEF ReceivePrice
  <2>. QED  BY <1>1, <2>2, <2>3 DEF FilterStep, JumpCheck
<1>2. CASE o = q /\ ~JumpCheck(q, p)
  <2>1. run'[q].pc = "source"
    BY <1>0, <1>2 DEF ReceivePrice, Goto, Run
  <2>2. Reference(o) = prices[o] /\ Reference(o)' = prices[o]
    BY <1>0, <1>2, <2>1 DEF Reference, At
  <2>3. statuses'[o] = "ABNORMAL" /\ received'[o] = p
    BY <1>0, <1>2 DEF ReceivePrice
  <2>. QED  BY <1>2, <2>2, <2>3 DEF FilterStep, JumpCheck
<1>3. CASE o # q
  <2>1. run'[o] = run[o] /\ statuses'[o] = statuses[o] /\ received'[o] = received[o]
    BY <1>0, <1>3 DEF ReceivePrice, Becomes, Goto
  <2>. QED  BY <1>0, <2>1 DEF FilterStep, Reference, At
<1>. QED  BY <1>1, <1>2, <1>3

LEMMA EveryStepIsFilterStep ==
    ASSUME QuotesInv, [MCNext]_mcVars, NEW o \in Oracles
    PROVE  FilterStep(o)
<1>0. run \in [Actors -> Run] /\ o \in Actors
  BY DEF QuotesInv, TypeOK, Run, Actors
<1>1. CASE \E q \in Oracles : \E p \in Messages[q] :
               ReceivePrice(q, p) /\ received' = [received EXCEPT ![q] = p]
  BY <1>1, ReceiptIsFilterStep
<1>2. CASE Restart /\ received' = NoPrices
  <2>1. run'[o].pc = "idle" /\ prices'[o] = 0 /\ statuses'[o] = "NORMAL" /\ received'[o] = 0
    BY <1>0, <1>2 DEF Restart, Idle, NoPrices, AllNormal
  <2>. QED  BY <1>2, <2>1 DEF FilterStep, Reference, At, Restart
<1>3. CASE (\E q \in Oracles : CachePrice(q)) /\ UNCHANGED received
  <2>1. PICK q \in Oracles : CachePrice(q)
    BY <1>3
  <2>2. /\ run[q].pc = "cache" /\ run'[q].pc = "source" /\ prices'[q] = run[q].price
        /\ statuses' = statuses
        /\ o # q => run'[o] = run[o] /\ prices'[o] = prices[o]
    BY <1>0, <2>1 DEF CachePrice, At, Becomes, Idle, QuotesInv, TypeOK, Actors
  <2>3. Reference(o)' = Reference(o)
    BY <2>2 DEF Reference, At
  <2>. QED  BY <1>3, <2>2, <2>3 DEF FilterStep
<1>4. CASE Proceeds /\ UNCHANGED received /\ \A q \in Oracles : ~CachePrice(q)
  <2>1. Moves
    BY <1>4, ProceedsMoves
  <2>2. Reference(o)' = Reference(o) /\ statuses'[o] = statuses[o]
    BY <1>0, <2>1 DEF Moves, Reference, At
  <2>. QED  BY <1>4, <2>2 DEF FilterStep
<1>5. CASE UNCHANGED mcVars
  BY <1>5 DEF mcVars, vars, memory, FilterStep, Reference, At
<1>. QED  BY <1>1, <1>2, <1>3, <1>4, <1>5 DEF MCNext

(* Each handler implements the jump filter of its oracle, whatever the other handler,
   the switches and restarts do (handlePythPrice, handleGatePrice). *)
THEOREM HandlersAreFilters == MCSpec => ImplementsFilters
<1>1. MCInit => PythFilter!Init /\ GateFilter!Init
  BY DEF MCInit, Init, PythFilter!Init, GateFilter!Init, Reference, At, Idle, NoPrices,
         AllNormal, Oracles, Actors
<1>2. QuotesInv /\ [MCNext]_mcVars => [PythFilter!Next]_PythFilter!filterVars
  BY EveryStepIsFilterStep
     DEF FilterStep, Oracles, PythFilter!Next, PythFilter!filterVars, PythFilter!Forget,
         PythFilter!Accept, PythFilter!Degrade, PythFilter!ValidatePriceJump,
         PythFilter!AbsDiff, ValidatePriceJump, AbsDiff
<1>3. QuotesInv /\ [MCNext]_mcVars => [GateFilter!Next]_GateFilter!filterVars
  BY EveryStepIsFilterStep
     DEF FilterStep, Oracles, GateFilter!Next, GateFilter!filterVars, GateFilter!Forget,
         GateFilter!Accept, GateFilter!Degrade, GateFilter!ValidatePriceJump,
         GateFilter!AbsDiff, ValidatePriceJump, AbsDiff
<1>. QED  BY <1>1, <1>2, <1>3, QuotesInvariant, PTL
       DEF MCSpec, ImplementsFilters, PythFilter!FilterSpec, GateFilter!FilterSpec

=============================================================================

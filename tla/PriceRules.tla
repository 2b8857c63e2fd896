----------------------------- MODULE PriceRules -----------------------------
(***************************************************************************)
(* The price arithmetic of internal/price: validating a price, weighting   *)
(* the three inputs of a synthetic price and formatting the result.        *)
(*                                                                         *)
(* Prices are integers, counted in raw units of 1/Unit dollar.  A value    *)
(* that division leaves between two raw units is passed as a fraction n/d, *)
(* so nothing is rounded before FormatPrice rounds it.                     *)
(***************************************************************************)
EXTENDS Integers

CONSTANT Unit                   \* raw units in one dollar

ASSUME UnitAssumption == Unit \in Nat \ {0} /\ Unit % 10000 = 0

\* There is a third status, ERROR, that nothing ever sets.
OracleStatuses == {"NORMAL", "ABNORMAL"}

AbsDiff(x, y) == IF x < y THEN y - x ELSE x - y

-----------------------------------------------------------------------------
(* Validation *)

ValidatePrice(p) == p > 0

\* Unlike the switch check, the boundary itself (exactly 10 %) is accepted.
ValidatePriceJump(old, new) == old <= 0 \/ 10 * AbsDiff(new, old) <= old

ValidateSwitchDiff_OfNewPrice(old, new) ==
    old <= 0 \/ 20 * AbsDiff(new, old) < new

\* The boundary (exactly 5 %) is refused.
ValidateSwitchDiff(old, new) == old <= 0 \/ 20 * AbsDiff(new, old) < old

-----------------------------------------------------------------------------
(* Formatting: a price below one dollar is cut to 4 decimals, else to 2 *)

CentAlways(n, d) == Unit \div 100

Tick(n, d) == IF n < d * Unit THEN Unit \div 10000 ELSE Unit \div 100

FormatPrice(n, d) == LET t == Tick(n, d) IN t * (n \div (d * t))

-----------------------------------------------------------------------------
(* The weighted price *)

OracleValid(price, status) == status = "NORMAL" /\ price > 0

WeightTenths(close, pyth, gate) == [close |-> close, pyth |-> pyth, gate |-> gate]

\* Weights in tenths, by which of the three inputs are usable; all zero when
\* the code refuses to price (an oracle alone, or the close price alone).
Weights_NotDegraded(closeOK, pythOK, gateOK) ==
    CASE closeOK  /\ (pythOK \/ gateOK) -> WeightTenths(4, 3, 3)
      [] ~closeOK /\ pythOK /\ gateOK   -> WeightTenths(0, 5, 5)
      [] OTHER                          -> WeightTenths(0, 0, 0)

Weights_LoneOracle(closeOK, pythOK, gateOK) ==
    CASE closeOK  /\ pythOK  /\ gateOK  -> WeightTenths(4, 3, 3)
      [] closeOK  /\ ~pythOK /\ gateOK  -> WeightTenths(6, 0, 4)
      [] closeOK  /\ pythOK  /\ ~gateOK -> WeightTenths(6, 4, 0)
      [] ~closeOK /\ (pythOK \/ gateOK) -> WeightTenths(0, 5, 5)
      [] OTHER                          -> WeightTenths(0, 0, 0)

Weights(closeOK, pythOK, gateOK) ==
    CASE closeOK  /\ pythOK  /\ gateOK  -> WeightTenths(4, 3, 3)
      [] closeOK  /\ ~pythOK /\ gateOK  -> WeightTenths(6, 0, 4)
      [] closeOK  /\ pythOK  /\ ~gateOK -> WeightTenths(6, 4, 0)
      [] ~closeOK /\ pythOK  /\ gateOK  -> WeightTenths(0, 5, 5)
      [] OTHER                          -> WeightTenths(0, 0, 0)

WeightsFor(close, pyth, gate, pythStatus, gateStatus) ==
    Weights(close > 0, OracleValid(pyth, pythStatus), OracleValid(gate, gateStatus))

WeightedTenths(w, close, pyth, gate) ==
    w.close * close + w.pyth * pyth + w.gate * gate

\* 0 stands for "no valid price", as in the code.
CalculateWeightedPrice(close, pyth, gate, pythStatus, gateStatus) ==
    LET sum == WeightedTenths(WeightsFor(close, pyth, gate, pythStatus, gateStatus),
                              close, pyth, gate)
    IN  IF sum > 0 THEN FormatPrice(sum, 10) ELSE 0

=============================================================================

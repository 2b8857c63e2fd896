----------------------------- MODULE JumpFilter -----------------------------
(***************************************************************************)
(* What one oracle of one symbol promises to the weighting: a reference    *)
(* price and a status.  A price that moves away from the reference by more *)
(* than 10 % degrades the oracle and leaves the reference alone; any other *)
(* price becomes the reference and restores the oracle, in one step.  The  *)
(* handlers of WeightedQuotes do it in two.                                *)
(***************************************************************************)
EXTENDS PriceRules

CONSTANTS
    Messages,           \* the prices that may be offered
    Restarts            \* may the process restart, or not

\* What the theorems assume: ValidatePrice refuses any other price.
MessagesArePrices == Messages \subseteq Nat \ {0}

VARIABLES
    reference,          \* the price to compare with, 0 before any
    status,             \* NORMAL or ABNORMAL
    last                \* the last price offered, 0 before any

filterVars == <<reference, status, last>>

Init == reference = 0 /\ status = "NORMAL" /\ last = 0

Accept(p) ==
    /\ ValidatePriceJump(reference, p)
    /\ reference' = p /\ status' = "NORMAL" /\ last' = p

Degrade(p) ==
    /\ ~ValidatePriceJump(reference, p)
    /\ status' = "ABNORMAL" /\ last' = p
    /\ UNCHANGED reference

Forget == TRUE \in Restarts /\ reference' = 0 /\ status' = "NORMAL" /\ last' = 0

Next == Forget \/ \E p \in Messages : Accept(p) \/ Degrade(p)

FilterSpec == Init /\ [][Next]_filterVars

-----------------------------------------------------------------------------

TypeOK ==
    /\ reference \in Messages \cup {0}
    /\ status \in OracleStatuses
    /\ last \in Messages \cup {0}

(* The status is the verdict on the last price: a normal oracle's reference is the
   last price it sent, a degraded one's is a price that the last one jumped from. *)
StatusIsTheVerdict ==
    /\ status = "NORMAL" => reference = last
    /\ status = "ABNORMAL" => reference # 0 /\ ~ValidatePriceJump(reference, last)

(* Without a restart the reference moves by 10 % at most at a time, whatever was
   offered and refused in between. *)
ReferenceMovesInSteps ==
    [][reference # 0 /\ reference' # 0 => ValidatePriceJump(reference, reference')]_filterVars

=============================================================================

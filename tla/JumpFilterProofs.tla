-------------------------- MODULE JumpFilterProofs --------------------------
(***************************************************************************)
(* Proofs about the jump filter, for any prices that may be offered.       *)
(***************************************************************************)
EXTENDS JumpFilter, TLAPS

VerdictInv == TypeOK /\ StatusIsTheVerdict

LEMMA VerdictInvariant ==
    ASSUME MessagesArePrices
    PROVE  FilterSpec => []VerdictInv
<1>1. Init => VerdictInv
  BY DEF Init, VerdictInv, TypeOK, StatusIsTheVerdict, OracleStatuses
<1>2. VerdictInv /\ [Next]_filterVars => VerdictInv'
  <2> SUFFICES ASSUME VerdictInv, [Next]_filterVars
               PROVE  VerdictInv'
    OBVIOUS
  <2> USE DEF VerdictInv, TypeOK, StatusIsTheVerdict, OracleStatuses
  <2>1. CASE Forget
    BY <2>1 DEF Forget
  <2>2. ASSUME NEW p \in Messages, Accept(p)
        PROVE  VerdictInv'
    BY <2>2 DEF Accept
  <2>3. ASSUME NEW p \in Messages, Degrade(p)
        PROVE  VerdictInv'
    <3>1. reference # 0
      BY <2>3 DEF MessagesArePrices, Degrade, ValidatePriceJump
    <3>. QED  BY <2>3, <3>1 DEF Degrade
  <2>4. CASE UNCHANGED filterVars
    BY <2>4 DEF filterVars, ValidatePriceJump, AbsDiff
  <2>. QED  BY <2>1, <2>2, <2>3, <2>4 DEF Next
<1>. QED  BY <1>1, <1>2, PTL DEF FilterSpec

(* Types, for any prices that may be offered. *)
THEOREM FilterTypes ==
    ASSUME MessagesArePrices
    PROVE  FilterSpec => []TypeOK
BY VerdictInvariant, PTL DEF VerdictInv

(* An oracle is degraded exactly while its last price is a jump from the reference,
   and the reference of a normal one is its last price (the two branches of the
   jump check in handlePythPrice and handleGatePrice). *)
THEOREM StatusIsVerdict ==
    ASSUME MessagesArePrices
    PROVE  FilterSpec => []StatusIsTheVerdict
BY VerdictInvariant, PTL DEF VerdictInv

(* The price the weighting uses never moves by more than 10 % at once, however far
   the refused prices in between were (CheckPriceJump). *)
THEOREM ReferenceMoves ==
    ASSUME MessagesArePrices
    PROVE  FilterSpec => ReferenceMovesInSteps
<1> DEFINE Step == reference # 0 /\ reference' # 0 => ValidatePriceJump(reference, reference')
<1>1. TypeOK /\ [Next]_filterVars => [Step]_filterVars
  <2> SUFFICES ASSUME TypeOK, Next
               PROVE  Step
    OBVIOUS
  <2>1. CASE Forget
    BY <2>1 DEF Forget
  <2>2. ASSUME NEW p \in Messages, Accept(p)
        PROVE  Step
    BY <2>2 DEF Accept
  <2>3. ASSUME NEW p \in Messages, Degrade(p)
        PROVE  Step
    BY <2>3 DEF MessagesArePrices, Degrade, TypeOK, ValidatePriceJump, AbsDiff
  <2>. QED  BY <2>1, <2>2, <2>3 DEF Next
<1>. QED  BY <1>1, FilterTypes, PTL DEF FilterSpec, ReferenceMovesInSteps

=============================================================================

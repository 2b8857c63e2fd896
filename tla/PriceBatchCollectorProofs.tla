---------------------- MODULE PriceBatchCollectorProofs ----------------------
(***************************************************************************)
(* Proofs about the collector, for any symbols, number of prices and of    *)
(* forced flushes: it implements LatestValueBuffer, and so hands no price  *)
(* over twice.                                                             *)
(***************************************************************************)
EXTENDS MCPriceBatchCollector, FiniteSetTheorems, TLAPS

-----------------------------------------------------------------------------
(* The abstract buffer *)

(* Every price is a number already given out, and what is being worked on is older
   than what is buffered: without the order, handing over could repeat a price. *)
BufferInv ==
    /\ prices \in [Symbols -> Nat]
    /\ added \in Nat
    /\ Handed \subseteq [Symbols -> Nat]
    /\ \A s \in Symbols : prices[s] <= added
    /\ \A s \in Symbols, b \in Handed : b[s] <= added
    /\ Buffer!HandedOverOnce
    /\ Buffer!BufferIsNewest

LEMMA BufferInvStep == BufferInv /\ [Buffer!BufferNext]_(Buffer!bufferVars) => BufferInv'
<1> SUFFICES ASSUME BufferInv, [Buffer!BufferNext]_(Buffer!bufferVars) PROVE BufferInv'
  OBVIOUS
<1> USE DEF BufferInv, Buffer!HandedOverOnce, Buffer!BufferIsNewest, Buffer!NoPrice
<1>1. ASSUME NEW s \in Symbols, Buffer!Put(s) PROVE BufferInv'
  <2>1. /\ added' = added + 1 /\ Handed' = Handed
        /\ prices'[s] = added + 1
        /\ \A t \in Symbols \ {s} : prices'[t] = prices[t]
        /\ prices' \in [Symbols -> Nat]
    BY <1>1 DEF Buffer!Put
  <2>2. \A t \in Symbols : prices'[t] <= added'
    BY <2>1
  <2>3. \A t \in Symbols, b \in Handed' : b[t] <= added'
    BY <2>1
  <2>4. Buffer!BufferIsNewest'
    BY <2>1
  <2>5. Buffer!HandedOverOnce'
    BY <2>1
  <2>. QED  BY <2>1, <2>2, <2>3, <2>4, <2>5
<1>2. CASE Buffer!Take
  <2>1. /\ added' = added /\ Handed' = Handed \cup {prices}
        /\ \A s \in Symbols : prices'[s] = 0
    BY <1>2 DEF Buffer!Take, Buffer!Empty
  <2>2. prices' \in [Symbols -> Nat]
    BY <1>2 DEF Buffer!Take, Buffer!Empty
  <2>3. Buffer!HandedOverOnce'
    BY <2>1
  <2>. QED  BY <2>1, <2>2, <2>3
<1>3. ASSUME NEW batch \in Handed, Buffer!Finish(batch) PROVE BufferInv'
  BY <1>3 DEF Buffer!Finish
<1>4. CASE UNCHANGED Buffer!bufferVars
  BY <1>4 DEF Buffer!bufferVars
<1>. QED  BY <1>1, <1>2, <1>3, <1>4 DEF Buffer!BufferNext

-----------------------------------------------------------------------------
(* The collector *)

LoopHands == loop = "spawn"
StopHands == stopping = "spawn"

(* A batch is in one place: what the loop and Stop have taken is not being flushed,
   and they have not taken the same. *)
Apart ==
    /\ LoopHands => loopBatch \notin flushes
    /\ StopHands => stopBatch \notin flushes
    /\ LoopHands /\ StopHands => loopBatch # stopBatch

(* The wait group counts the running flushes.  Together with the batches still to be
   flushed and the buffer they are no more than the prices added: none is empty. *)
Counts ==
    /\ IsFiniteSet(flushes) /\ flushWg = Cardinality(flushes)
    /\ flushWg + (IF LoopHands THEN 1 ELSE 0) + (IF StopHands THEN 1 ELSE 0)
              + (IF prices # NoBatch THEN 1 ELSE 0) <= added

CollectorInv == TypeOK /\ Apart /\ Counts /\ BufferInv

LEMMA HandedHas ==
    ASSUME NEW b
    PROVE  b \in Handed <=> b \in flushes \/ (LoopHands /\ b = loopBatch)
                                          \/ (StopHands /\ b = stopBatch)
BY DEF Handed, LoopHands, StopHands

LEMMA BufferedIsNew ==
    ASSUME BufferInv, prices # NoBatch
    PROVE  prices \notin Handed
<1>1. PICK s \in Symbols : prices[s] # 0
  BY DEF BufferInv, NoBatch, NoPrice
<1>. QED  BY <1>1 DEF BufferInv, Buffer!BufferIsNewest, Buffer!NoPrice

(* A flush's critical section takes what is in the buffer, or finds it empty. *)
LEMMA TakesWhole ==
    ASSUME FlushTakes
    PROVE  \/ /\ prices = NoBatch /\ UNCHANGED <<prices, loop, loopBatch>>
           \/ /\ prices # NoBatch /\ prices' = NoBatch
              /\ loop' = "spawn" /\ loopBatch' = prices
BY DEF FlushTakes

\* The steps that leave the buffer, the batches and the wait group alone.
Aside ==
    /\ UNCHANGED <<prices, added, loopBatch, flushWg, flushes, stopBatch>>
    /\ LoopHands' = LoopHands /\ StopHands' = StopHands

LEMMA StepsAside ==
    ASSUME \/ ForceFlush \/ ForceFlushReturns \/ TickerFires \/ LoopExits
           \/ StopTicker \/ StopWaits \/ StopCloses \/ UNCHANGED vars
    PROVE  Aside
BY DEF ForceFlush, ForceFlushReturns, TickerFires, LoopExits, StopTicker, StopWaits, StopCloses,
       vars, Aside, LoopHands, StopHands

(* Every step of the collector, seen from its buffer and its batches. *)
LEMMA Steps ==
    ASSUME [Next]_vars
    PROVE  \/ Aside
           \/ \E s \in Symbols : AddPrice(s)
           \/ (LoopTicks \/ LoopIsForced) /\ FlushTakes
           \/ LoopSpawns \/ StopFlushes \/ StopSpawns
           \/ \E batch \in flushes : FlushReturns(batch)
BY StepsAside DEF Next, Produce, Loop, Stop, LoopTicks, LoopIsForced

LEMMA ImplementsStep ==
    ASSUME TypeOK, Apart, [Next]_vars
    PROVE  [Buffer!BufferNext]_(Buffer!bufferVars)
<1> USE DEF LoopHands, StopHands
<1>1. CASE Aside
  BY <1>1, HandedHas DEF Aside, Handed, Buffer!bufferVars
<1>2. ASSUME NEW s \in Symbols, AddPrice(s)
      PROVE  Buffer!Put(s)
  <2>1. Handed' = Handed
    BY <1>2 DEF AddPrice, Handed
  <2>. QED  BY <1>2, <2>1 DEF AddPrice, Buffer!Put
<1>3. CASE (LoopTicks \/ LoopIsForced) /\ FlushTakes
  <2>1. /\ loop = "select" /\ UNCHANGED <<added, flushes, stopping, stopBatch>>
    BY <1>3 DEF LoopTicks, LoopIsForced
  <2>2. CASE prices = NoBatch
    BY <1>3, <2>1, <2>2, TakesWhole DEF Handed, Buffer!bufferVars
  <2>3. CASE prices # NoBatch
    <3>1. prices' = NoBatch /\ loop' = "spawn" /\ loopBatch' = prices
      BY <1>3, <2>3, TakesWhole
    <3>2. Handed' = Handed \cup {prices}
      BY <2>1, <3>1 DEF Handed
    <3>. QED  BY <2>1, <2>3, <3>1, <3>2
              DEF Buffer!BufferNext, Buffer!Take, Buffer!Empty, Buffer!NoPrice, NoBatch, NoPrice
  <2>. QED  BY <2>2, <2>3
<1>4. CASE LoopSpawns
  <2>1. Handed' = Handed
    BY <1>4 DEF LoopSpawns, Handed
  <2>. QED  BY <1>4, <2>1 DEF LoopSpawns, Buffer!bufferVars
<1>5. CASE StopFlushes
  <2>1. CASE prices = NoBatch
    BY <1>5, <2>1 DEF StopFlushes, Handed, Buffer!bufferVars
  <2>2. CASE prices # NoBatch
    <3>1. Handed' = Handed \cup {prices}
      BY <1>5, <2>2 DEF StopFlushes, Handed
    <3>. QED  BY <1>5, <2>2, <3>1
              DEF StopFlushes, Buffer!BufferNext, Buffer!Take, Buffer!Empty, Buffer!NoPrice,
                  NoBatch, NoPrice
  <2>. QED  BY <2>1, <2>2
<1>6. CASE StopSpawns
  <2>1. Handed' = Handed
    BY <1>6 DEF StopSpawns, Handed
  <2>. QED  BY <1>6, <2>1 DEF StopSpawns, Buffer!bufferVars
<1>7. ASSUME NEW batch \in flushes, FlushReturns(batch)
      PROVE  batch \in Handed /\ Buffer!Finish(batch)
  <2>1. batch \in Handed
    BY HandedHas
  <2>2. Handed' = Handed \ {batch}
    BY <1>7 DEF FlushReturns, Handed, Apart
  <2>. QED  BY <1>7, <2>1, <2>2 DEF FlushReturns, Buffer!Finish
<1>. QED  BY <1>1, <1>2, <1>3, <1>4, <1>5, <1>6, <1>7, Steps DEF Buffer!BufferNext

LEMMA ApartStep ==
    ASSUME CollectorInv, [Next]_vars
    PROVE  Apart'
<1> USE DEF CollectorInv, Apart
<1>1. CASE Aside
  BY <1>1 DEF Aside
<1>2. CASE \E s \in Symbols : AddPrice(s)
  BY <1>2 DEF AddPrice, LoopHands, StopHands
<1>3. CASE (LoopTicks \/ LoopIsForced) /\ FlushTakes
  BY <1>3, TakesWhole, BufferedIsNew, HandedHas DEF LoopTicks, LoopIsForced, LoopHands, StopHands
<1>4. CASE LoopSpawns
  BY <1>4 DEF LoopSpawns, LoopHands, StopHands
<1>5. CASE StopFlushes
  BY <1>5, BufferedIsNew, HandedHas DEF StopFlushes, LoopHands, StopHands
<1>6. CASE StopSpawns
  BY <1>6 DEF StopSpawns, LoopHands, StopHands
<1>7. CASE \E batch \in flushes : FlushReturns(batch)
  BY <1>7 DEF FlushReturns, LoopHands, StopHands
<1>. QED  BY <1>1, <1>2, <1>3, <1>4, <1>5, <1>6, <1>7, Steps

LEMMA CountsStep ==
    ASSUME CollectorInv, [Next]_vars
    PROVE  Counts'
<1> USE DEF CollectorInv, Counts
<1>0. added \in Nat /\ flushWg \in Nat
  BY FS_CardinalityType DEF TypeOK
<1>1. CASE Aside
  BY <1>1 DEF Aside
<1>2. ASSUME NEW s \in Symbols, AddPrice(s)
      PROVE  Counts'
  <2>1. UNCHANGED <<flushes, flushWg, loop, stopping>> /\ added' = added + 1
    BY <1>2 DEF AddPrice
  <2>. QED  BY <1>0, <2>1 DEF LoopHands, StopHands
<1>3. CASE (LoopTicks \/ LoopIsForced) /\ FlushTakes
  <2>1. loop = "select" /\ UNCHANGED <<added, flushes, flushWg, stopping>>
    BY <1>3 DEF LoopTicks, LoopIsForced
  <2>. QED  BY <1>0, <1>3, <2>1, TakesWhole DEF LoopHands, StopHands
<1>4. CASE LoopSpawns
  <2>1. /\ LoopHands /\ ~LoopHands' /\ StopHands' = StopHands
        /\ flushWg' = flushWg + 1 /\ flushes' = flushes \cup {loopBatch}
        /\ UNCHANGED <<added, prices>>
    BY <1>4 DEF LoopSpawns, LoopHands, StopHands
  <2>2. IsFiniteSet(flushes') /\ Cardinality(flushes') = Cardinality(flushes) + 1
    BY <2>1, FS_AddElement DEF Apart
  <2>. QED  BY <1>0, <2>1, <2>2
<1>5. CASE StopFlushes
  BY <1>0, <1>5 DEF StopFlushes, LoopHands, StopHands
<1>6. CASE StopSpawns
  <2>1. /\ StopHands /\ ~StopHands' /\ LoopHands' = LoopHands
        /\ flushWg' = flushWg + 1 /\ flushes' = flushes \cup {stopBatch}
        /\ UNCHANGED <<added, prices>>
    BY <1>6 DEF StopSpawns, LoopHands, StopHands
  <2>2. IsFiniteSet(flushes') /\ Cardinality(flushes') = Cardinality(flushes) + 1
    BY <2>1, FS_AddElement DEF Apart
  <2>. QED  BY <1>0, <2>1, <2>2
<1>7. ASSUME NEW batch \in flushes, FlushReturns(batch)
      PROVE  Counts'
  <2>1. /\ flushWg' = flushWg - 1 /\ flushes' = flushes \ {batch}
        /\ UNCHANGED <<added, prices, loop, stopping>>
    BY <1>7 DEF FlushReturns
  <2>2. IsFiniteSet(flushes') /\ Cardinality(flushes') = Cardinality(flushes) - 1
    BY <2>1, FS_RemoveElement
  <2>. QED  BY <1>0, <2>1, <2>2 DEF LoopHands, StopHands
<1>. QED  BY <1>1, <1>2, <1>3, <1>4, <1>5, <1>6, <1>7, Steps

\* With flushWg counted, the rest of the types is what each step assigns.
LEMMA TypesStep ==
    ASSUME CollectorInv, [Next]_vars, Counts'
    PROVE  TypeOK'
<1> USE CollectorAssumption DEF TypeOK
<1> DEFINE B == [Symbols -> 0 .. MaxAdds]
<1>0. TypeOK /\ NoBatch \in B
  BY DEF CollectorInv, NoBatch, NoPrice
<1>1. ASSUME added' \in 0 .. MaxAdds
      PROVE  flushWg' \in 0 .. MaxAdds
  <2>1. flushWg' \in Nat
    BY FS_CardinalityType DEF Counts
  <2>. QED  BY <1>1, <2>1 DEF Counts
<1>2. ASSUME NEW s \in Symbols, AddPrice(s)
      PROVE  TypeOK'
  <2>1. added' \in 0 .. MaxAdds /\ prices' \in B
    BY <1>0, <1>2 DEF AddPrice
  <2>2. forced' \in 0 .. MaxForced /\ forcing' \in 0 .. forced'
    BY <1>0, <1>2 DEF AddPrice
  <2>. QED  BY <1>0, <1>2, <2>1, <2>2 DEF AddPrice
<1>3. CASE LoopTicks \/ LoopIsForced
  <2>1. /\ forced' = forced /\ tick' \in BOOLEAN
        /\ forcing' = forcing \/ (forcing > 0 /\ forcing' = forcing - 1)
    BY <1>0, <1>3 DEF LoopTicks, LoopIsForced
  <2>2. /\ prices' \in B /\ loopBatch' \in B /\ loop' \in {"select", "spawn", "exited"}
        /\ flushWg' = flushWg /\ added' = added
    BY <1>0, <1>3, TakesWhole DEF LoopTicks, LoopIsForced
  <2>. QED  BY <1>0, <1>3, <2>1, <2>2 DEF LoopTicks, LoopIsForced
<1>4. CASE ForceFlush \/ ForceFlushReturns \/ TickerFires \/ LoopExits
  <2>1. forced' \in 0 .. MaxForced /\ forcing' \in 0 .. forced'
    BY <1>0, <1>4 DEF ForceFlush, ForceFlushReturns, TickerFires, LoopExits
  <2>. QED  BY <1>0, <1>4, <2>1 DEF ForceFlush, ForceFlushReturns, TickerFires, LoopExits
<1>5. CASE LoopSpawns \/ StopSpawns \/ \E batch \in flushes : FlushReturns(batch)
  <2>1. added' \in 0 .. MaxAdds
    BY <1>0, <1>5 DEF LoopSpawns, StopSpawns, FlushReturns
  <2>2. flushWg' \in 0 .. MaxAdds
    BY <1>1, <2>1
  <2>. QED  BY <1>0, <1>5, <2>2 DEF LoopSpawns, StopSpawns, FlushReturns
<1>6. CASE StopTicker \/ StopFlushes \/ StopWaits \/ StopCloses \/ UNCHANGED vars
  BY <1>0, <1>6 DEF StopTicker, StopFlushes, StopWaits, StopCloses, vars
<1>. QED  BY <1>2, <1>3, <1>4, <1>5, <1>6 DEF Next, Produce, Loop, Stop

LEMMA CollectorInit == Init => CollectorInv /\ Buffer!BufferInit
<1> SUFFICES ASSUME Init PROVE CollectorInv /\ Buffer!BufferInit
  OBVIOUS
<1> USE DEF Init, LoopHands, StopHands, NoBatch, NoPrice
<1>1. Handed = {}
  BY DEF Handed
<1>2. TypeOK
  <2>1. 0 \in 0 .. MaxAdds /\ 0 \in 0 .. MaxForced /\ 0 \in 0 .. 0
    BY CollectorAssumption
  <2>2. NoBatch \in [Symbols -> 0 .. MaxAdds]
    BY <2>1
  <2> USE DEF TypeOK
  <2> HIDE DEF NoBatch
  <2>. QED  BY <2>1, <2>2
<1>3. Apart /\ Counts
  BY FS_EmptySet DEF Apart, Counts
<1>4. BufferInv
  BY <1>1 DEF BufferInv, Buffer!HandedOverOnce, Buffer!BufferIsNewest, Buffer!NoPrice
<1>5. Buffer!BufferInit
  BY <1>1 DEF Buffer!BufferInit, Buffer!Empty, Buffer!NoPrice
<1>. QED  BY <1>2, <1>3, <1>4, <1>5 DEF CollectorInv

LEMMA CollectorStep == CollectorInv /\ [Next]_vars => CollectorInv'
<1> SUFFICES ASSUME CollectorInv, [Next]_vars PROVE CollectorInv'
  OBVIOUS
<1>1. [Buffer!BufferNext]_(Buffer!bufferVars)
  BY ImplementsStep DEF CollectorInv
<1>2. BufferInv'
  BY <1>1, BufferInvStep DEF CollectorInv
<1>3. Counts' /\ Apart'
  BY CountsStep, ApartStep
<1>4. TypeOK'
  BY <1>3, TypesStep
<1>. QED  BY <1>2, <1>3, <1>4 DEF CollectorInv

LEMMA CollectorInvariant == Init /\ [][Next]_vars => []CollectorInv
BY CollectorInit, CollectorStep, PTL

(* Types, for any number of prices and of forced flushes: the counter of the wait group
   never falls below zero nor above the prices added, however the loop, Stop and
   the flushes interleave (flush). *)
THEOREM CollectorTypes == Spec => []TypeOK
<1>1. CollectorInv => TypeOK
  BY DEF CollectorInv
<1>. QED  BY <1>1, CollectorInvariant, PTL DEF Spec

(* The collector implements the latest-value buffer: its ticks, forced flushes and Stop
   each take the whole buffer in one step, and what stands between c.mu and the
   start of the goroutine changes nothing (AddPrice, flush, Stop). *)
THEOREM CollectorImplementsBuffer == Spec => ImplementsBuffer
<1>1. CollectorInv /\ [Next]_vars => [Buffer!BufferNext]_(Buffer!bufferVars)
  BY ImplementsStep DEF CollectorInv
<1>. QED  BY <1>1, CollectorInit, CollectorInvariant, PTL
          DEF Spec, ImplementsBuffer, Buffer!BufferSpec

(* No price is handed over twice, and none that is buffered has been handed over
   (flush replaces c.prices in the critical section that copies it). *)
THEOREM NothingHandedOverTwice == Spec => []Buffer!HandedOverOnce
<1>1. CollectorInv => Buffer!HandedOverOnce
  BY DEF CollectorInv, BufferInv
<1>. QED  BY <1>1, CollectorInvariant, PTL DEF Spec

(* What is buffered is newer than what is being flushed: a flush that hangs does not
   hold a newer price of its symbols than the next one gets (AddPrice). *)
THEOREM BufferedIsNewest == Spec => []Buffer!BufferIsNewest
<1>1. CollectorInv => Buffer!BufferIsNewest
  BY DEF CollectorInv, BufferInv
<1>. QED  BY <1>1, CollectorInvariant, PTL DEF Spec

=============================================================================

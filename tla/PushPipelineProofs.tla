------------------------- MODULE PushPipelineProofs -------------------------
(***************************************************************************)
(* Proofs about the push pipeline, for any symbols, price levels, number   *)
(* of concurrent flushes and intervals.                                    *)
(***************************************************************************)
EXTENDS MCPushPipeline, TLAPS

LEMMA NoPriceInBatch == NoBatch \in Batch
BY DEF NoBatch, Batch

LEMMA IdleIsFlush == Idle.pc = "idle" /\ Idle.batch = NoBatch /\ Idle.attempt = 0
BY DEF Idle, Flush

FlushType == [pc : {"idle", "filter", "lock", "broadcast", "backoff", "confirm"},
              batch : Batch, attempt : 0 .. MaxRetries - 1]

LEMMA FlushTypes ==
    /\ Idle \in FlushType
    /\ \A pc \in {"filter", "lock", "backoff"}, batch \in Batch, attempt \in 0 .. 2 :
           Flush(pc, batch, attempt) \in FlushType
BY NoPriceInBatch DEF Idle, Flush, FlushType, MaxRetries

-----------------------------------------------------------------------------
(* Types *)

LEMMA InitTypes == Init => TypeOK
BY PipelineAssumption, NoPriceInBatch, FlushTypes DEF Init, TypeOK, NoBatch, FlushType

LEMMA BroadcastTypes ==
    ASSUME TypeOK, NEW f \in Flushers, NEW outcome \in Outcomes, Broadcast(f, outcome)
    PROVE  TypeOK'
<1> USE DEF TypeOK
<1>1. flushes[f] \in FlushType
  BY DEF FlushType
<1>2. relayed' \in Batch
  BY <1>1 DEF Broadcast, Relay, FlushType, Batch
<1>3. AfterFailure(flushes[f]) \in FlushType
  BY <1>1, FlushTypes DEF AfterFailure, FlushType, MaxRetries
<1>4. [flushes[f] EXCEPT !.pc = "confirm"] \in FlushType
  BY <1>1 DEF FlushType
<1>5. flushes' \in [Flushers -> FlushType]
  <2>1. flushes' = [flushes EXCEPT ![f] = IF outcome = "ok"
                                          THEN [flushes[f] EXCEPT !.pc = "confirm"]
                                          ELSE AfterFailure(flushes[f])]
    BY DEF Broadcast
  <2>2. flushes \in [Flushers -> FlushType]
    BY DEF FlushType
  <2>. QED  BY <1>3, <1>4, <2>1, <2>2
<1>. QED  BY <1>2, <1>5 DEF Broadcast, FlushType

LEMMA FlushStepTypes ==
    ASSUME TypeOK, NEW f \in Flushers, OnBatchFlush(f)
    PROVE  TypeOK'
<1> USE DEF TypeOK
<1>0. flushes \in [Flushers -> FlushType] /\ flushes[f] \in FlushType
  BY DEF FlushType
<1>1. CASE FilterPaused(f)
  <2> DEFINE kept == [s \in Symbols |-> IF s \in paused THEN NoPrice ELSE flushes[f].batch[s]]
  <2>1. kept \in Batch
    BY <1>0 DEF FlushType, Batch
  <2>2. flushes' \in [Flushers -> FlushType]
    BY <1>0, <1>1, <2>1, FlushTypes DEF FilterPaused
  <2>. QED  BY <1>1, <2>2 DEF FilterPaused, FlushType
<1>2. CASE LockPusher(f)
  BY <1>2 DEF LockPusher
<1>3. CASE \E outcome \in Outcomes : Broadcast(f, outcome)
  BY <1>3, BroadcastTypes
<1>4. CASE BackoffEnds(f)
  BY <1>4 DEF BackoffEnds
<1>5. CASE ConfirmPush(f)
  <2>1. \A state \in [Symbols -> Levels \cup {0}] :
            Confirmed(state, flushes[f].batch) \in [Symbols -> Levels \cup {0}]
    BY <1>0 DEF Confirmed, In, FlushType, Batch, Price
  <2>2. flushes' \in [Flushers -> FlushType]
    BY <1>0, <1>5, FlushTypes DEF ConfirmPush
  <2>3. sinceLastPush' \in [Symbols -> 0 .. MaxInterval]
    BY <1>5, PipelineAssumption DEF ConfirmPush
  <2>. QED  BY <1>5, <2>1, <2>2, <2>3 DEF ConfirmPush, FlushType
<1>. QED  BY <1>1, <1>2, <1>3, <1>4, <1>5 DEF OnBatchFlush

LEMMA NextTypes == TypeOK /\ [Next]_vars => TypeOK'
<1> SUFFICES ASSUME TypeOK, [Next]_vars PROVE TypeOK'
  OBVIOUS
<1> USE DEF TypeOK
<1>1. ASSUME NEW s \in Symbols, NEW price \in Levels, NEW force \in Forces,
             CollectPrice(s, price, force)
      PROVE  TypeOK'
  <2>1. added' \in 1 .. MaxAdds
    BY <1>1, PipelineAssumption DEF CollectPrice
  <2>2. [serial |-> added', price |-> price] \in Price
    BY <2>1 DEF Price
  <2>3. buffer' \in Batch
    BY <1>1, <2>2 DEF CollectPrice, Batch
  <2>. QED  BY <1>1, <2>1, <2>3, PipelineAssumption DEF CollectPrice
<1>2. CASE TimePasses
  BY <1>2, PipelineAssumption DEF TimePasses
<1>3. ASSUME NEW f \in Flushers, StartFlush(f) PROVE TypeOK'
  <2>1. flushes \in [Flushers -> FlushType] /\ Flush("filter", buffer, 0) \in FlushType
    BY FlushTypes DEF FlushType
  <2>2. flushes' \in [Flushers -> FlushType]
    BY <1>3, <2>1 DEF StartFlush
  <2>. QED  BY <1>3, <2>2, NoPriceInBatch DEF StartFlush, FlushType
<1>4. ASSUME NEW s \in Symbols, PauseChanges(s) PROVE TypeOK'
  BY <1>4 DEF PauseChanges
<1>5. CASE UNCHANGED vars
  BY <1>5 DEF vars
<1>. QED  BY <1>1, <1>2, <1>3, <1>4, <1>5, FlushStepTypes DEF Next, Collects

(* Every state of the pipeline is well typed, and no flush makes a fourth attempt
   (onBatchFlush). *)
THEOREM PipelineTypes == Spec => []TypeOK
BY InitTypes, NextTypes, PTL DEF Spec


-----------------------------------------------------------------------------
(* The pusher's lock *)

LEMMA LockStep == TypeOK /\ OneBroadcastAtATime /\ [Next]_vars => OneBroadcastAtATime'
<1> SUFFICES ASSUME TypeOK, OneBroadcastAtATime, [Next]_vars PROVE OneBroadcastAtATime'
  OBVIOUS
<1> USE DEF TypeOK, OneBroadcastAtATime
<1>1. ASSUME NEW f \in Flushers, LockPusher(f) PROVE OneBroadcastAtATime'
  BY <1>1 DEF LockPusher
<1>2. ASSUME NEW f \in Flushers, flushes'[f].pc # "broadcast",
             \A g \in Flushers \ {f} : flushes'[g] = flushes[g]
      PROVE  OneBroadcastAtATime'
  BY <1>2
<1>3. ASSUME NEW f \in Flushers,
             StartFlush(f) \/ FilterPaused(f) \/ BackoffEnds(f) \/ ConfirmPush(f)
                 \/ \E outcome \in Outcomes : Broadcast(f, outcome)
      PROVE  /\ flushes'[f].pc # "broadcast"
             /\ \A g \in Flushers \ {f} : flushes'[g] = flushes[g]
  BY <1>3 DEF StartFlush, FilterPaused, BackoffEnds, ConfirmPush, Broadcast, AfterFailure,
              Flush, Idle
<1>4. CASE Collects \/ TimePasses \/ (\E s \in Symbols : PauseChanges(s)) \/ UNCHANGED vars
  BY <1>4 DEF Collects, CollectPrice, TimePasses, PauseChanges, vars
<1>. QED  BY <1>1, <1>2, <1>3, <1>4 DEF Next, OnBatchFlush

(* At most one batch is being broadcast, however many flushes run
   (PushBatchPricesWithSources holds p.mu). *)
THEOREM BroadcastsAreExclusive == Spec => []OneBroadcastAtATime
<1>1. Init => OneBroadcastAtATime
  BY DEF Init, OneBroadcastAtATime, Idle, Flush
<1>. QED  BY <1>1, LockStep, PipelineTypes, PTL DEF Spec

-----------------------------------------------------------------------------
(* What lastPrices holds *)

(* A batch that is to be confirmed has been accepted, even when the last attempt
   repeats what an unacknowledged one has already put on the chain: then relayed does
   not change, and what it holds must be known to be accepted. *)
AcceptedInv ==
    /\ \A s \in In(relayed) : <<s, relayed[s]>> \in accepted
    /\ \A f \in Flushers : flushes[f].pc = "confirm" =>
           \A s \in In(flushes[f].batch) : <<s, flushes[f].batch[s]>> \in accepted
    /\ LastPriceWasRelayed

LEMMA InitAccepted == MCInit => AcceptedInv
BY DEF MCInit, Init, AcceptedInv, LastPriceWasRelayed, In, NoBatch, Idle, Flush

LEMMA MCNextIsNext == [MCNext]_mcVars => [Next]_vars
BY DEF MCNext, MCStartFlush, MCOnBatchFlush, MCPauseChanges, Next, mcVars

LEMMA BroadcastAccepted ==
    ASSUME TypeOK, AcceptedInv, NEW f \in Flushers, NEW outcome \in Outcomes,
           MCOnBatchFlush(f), Broadcast(f, outcome)
    PROVE  AcceptedInv'
<1> USE DEF TypeOK
<1>1. accepted \subseteq accepted' /\ lastPrices' = lastPrices
  BY DEF MCOnBatchFlush, Broadcast
<1>2. \A s \in In(relayed') : <<s, relayed'[s]>> \in accepted'
  BY <1>1 DEF MCOnBatchFlush, AcceptedInv
<1>3. ASSUME outcome = "ok"
      PROVE  \A s \in In(flushes'[f].batch) : <<s, flushes'[f].batch[s]>> \in accepted'
  <2>1. flushes'[f].batch = flushes[f].batch
    BY <1>3 DEF Broadcast
  <2>2. \A s \in In(flushes[f].batch) : s \in In(relayed') /\ relayed'[s] = flushes[f].batch[s]
    BY <1>3 DEF Broadcast, Relay, In
  <2>. QED  BY <1>2, <2>1, <2>2
<1>4. ASSUME outcome # "ok" PROVE flushes'[f].pc # "confirm"
  BY <1>4 DEF Broadcast, AfterFailure, Flush, Idle
<1>5. \A g \in Flushers \ {f} : flushes'[g] = flushes[g]
  BY DEF Broadcast
<1>. QED  BY <1>1, <1>2, <1>3, <1>4, <1>5 DEF AcceptedInv, LastPriceWasRelayed

LEMMA ConfirmAccepted ==
    ASSUME TypeOK, AcceptedInv, NEW f \in Flushers, MCOnBatchFlush(f), ConfirmPush(f)
    PROVE  AcceptedInv'
<1> USE DEF TypeOK
<1>1. accepted' = accepted /\ relayed' = relayed
  BY DEF MCOnBatchFlush, ConfirmPush
<1>2. ASSUME NEW s \in Symbols, lastPrices'[s] # 0
      PROVE  \E p \in Price : <<s, p>> \in accepted /\ p.price = lastPrices'[s]
  <2>1. CASE s \in In(flushes[f].batch)
    <3>1. lastPrices'[s] = flushes[f].batch[s].price /\ <<s, flushes[f].batch[s]>> \in accepted
      BY <2>1 DEF ConfirmPush, Confirmed, AcceptedInv
    <3>2. flushes[f].batch[s] \in Price
      BY <2>1 DEF In, Batch
    <3>. QED  BY <3>1, <3>2
  <2>2. CASE s \notin In(flushes[f].batch)
    BY <1>2, <2>2 DEF ConfirmPush, Confirmed, AcceptedInv, LastPriceWasRelayed
  <2>. QED  BY <2>1, <2>2
<1>3. \A g \in Flushers : flushes'[g].pc = "confirm" => flushes'[g] = flushes[g]
  BY IdleIsFlush DEF ConfirmPush
<1>. QED  BY <1>1, <1>2, <1>3 DEF AcceptedInv, LastPriceWasRelayed

LEMMA AcceptedStep == TypeOK /\ AcceptedInv /\ [MCNext]_mcVars => AcceptedInv'
<1> SUFFICES ASSUME TypeOK, AcceptedInv, [MCNext]_mcVars PROVE AcceptedInv'
  OBVIOUS
<1> USE DEF TypeOK
<1>1. ASSUME UNCHANGED <<accepted, relayed, lastPrices>>,
             \A f \in Flushers : flushes'[f].pc = "confirm" => flushes'[f] = flushes[f]
      PROVE  AcceptedInv'
  BY <1>1 DEF AcceptedInv, LastPriceWasRelayed
<1>2. ASSUME NEW f \in Flushers, MCOnBatchFlush(f) PROVE AcceptedInv'
  <2>1. CASE FilterPaused(f) \/ LockPusher(f) \/ BackoffEnds(f)
    <3>1. UNCHANGED <<accepted, relayed, lastPrices>>
      BY <1>2, <2>1 DEF MCOnBatchFlush, FilterPaused, LockPusher, BackoffEnds
    <3>2. \A g \in Flushers : flushes'[g].pc = "confirm" => flushes'[g] = flushes[g]
      BY <2>1, IdleIsFlush DEF FilterPaused, LockPusher, BackoffEnds, Flush
    <3>. QED  BY <1>1, <3>1, <3>2
  <2>. QED  BY <1>2, <2>1, BroadcastAccepted, ConfirmAccepted DEF MCOnBatchFlush, OnBatchFlush
<1>3. ASSUME NEW f \in Flushers, MCStartFlush(f) PROVE AcceptedInv'
  BY <1>1, <1>3 DEF MCStartFlush, StartFlush, Flush
<1>4. CASE \/ (Collects \/ TimePasses) /\ UNCHANGED <<accepted, pausedSince>>
           \/ \E s \in Symbols : MCPauseChanges(s)
           \/ UNCHANGED mcVars
  BY <1>1, <1>4 DEF Collects, CollectPrice, TimePasses, MCPauseChanges,
                    PauseChanges, mcVars, vars
<1>. QED  BY <1>2, <1>3, <1>4 DEF MCNext

(* The 5 % check of a data source switch always compares with a price the chain did
   accept: whatever fails, is retried or is repeated, lastPrices never holds a price
   that was only attempted (onBatchFlush). *)
THEOREM LastPricesWereAccepted == MCSpec => []LastPriceWasRelayed
<1>1. MCInit => TypeOK /\ AcceptedInv
  BY InitTypes, InitAccepted DEF MCInit
<1>2. (TypeOK /\ AcceptedInv) /\ [MCNext]_mcVars => (TypeOK /\ AcceptedInv)'
  BY NextTypes, AcceptedStep, MCNextIsNext
<1>3. AcceptedInv => LastPriceWasRelayed
  BY DEF AcceptedInv
<1>. QED  BY <1>1, <1>2, <1>3, PTL DEF MCSpec


-----------------------------------------------------------------------------
(* Paused symbols *)

(* Until the filter has run, what has been paused since the flush started is still
   paused; an idle flush has nothing on record. *)
PausedInv ==
    /\ pausedSince \in [Flushers -> SUBSET Symbols]
    /\ \A f \in Flushers : flushes[f].pc = "filter" => pausedSince[f] \subseteq paused
    /\ PausedThroughoutIsNotRelayed

LEMMA PausedStep == TypeOK /\ PausedInv /\ [MCNext]_mcVars => PausedInv'
<1> SUFFICES ASSUME TypeOK, PausedInv, [MCNext]_mcVars PROVE PausedInv'
  OBVIOUS
<1> USE DEF TypeOK
<1>1. ASSUME NEW s \in Symbols, MCPauseChanges(s) PROVE PausedInv'
  BY <1>1 DEF MCPauseChanges, PauseChanges, PausedInv, PausedThroughoutIsNotRelayed
<1>2. ASSUME NEW f \in Flushers, MCStartFlush(f) PROVE PausedInv'
  BY <1>2 DEF MCStartFlush, StartFlush, Flush, PausedInv, PausedThroughoutIsNotRelayed
<1>3. ASSUME NEW f \in Flushers, MCOnBatchFlush(f) PROVE PausedInv'
  <2>1. /\ pausedSince' = [pausedSince EXCEPT ![f] = IF flushes'[f] = Idle THEN {} ELSE @]
        /\ paused' = paused
        /\ \A g \in Flushers \ {f} : flushes'[g] = flushes[g]
    BY <1>3 DEF MCOnBatchFlush, OnBatchFlush, FilterPaused, LockPusher, Broadcast, BackoffEnds,
                ConfirmPush
  <2>2. flushes'[f] # Idle =>
            /\ flushes'[f].pc \notin {"idle", "filter"}
            /\ In(flushes'[f].batch) \cap pausedSince[f] = {}
    <3>1. CASE FilterPaused(f)
      <4> DEFINE kept == [s \in Symbols |-> IF s \in paused THEN NoPrice ELSE flushes[f].batch[s]]
      <4>1. pausedSince[f] \subseteq paused
        BY <3>1 DEF FilterPaused, PausedInv
      <4>2. In(kept) \cap paused = {}
        BY DEF In
      <4>3. flushes'[f] = Idle \/ flushes'[f] = Flush("lock", kept, 0)
        BY <3>1 DEF FilterPaused
      <4>. QED  BY <4>1, <4>2, <4>3 DEF Flush
    <3>2. ASSUME flushes[f].pc \notin {"idle", "filter"}, flushes'[f] # Idle,
                 flushes'[f].batch = flushes[f].batch, flushes'[f].pc \notin {"idle", "filter"}
          PROVE  In(flushes'[f].batch) \cap pausedSince[f] = {}
      BY <3>2 DEF PausedInv, PausedThroughoutIsNotRelayed
    <3>3. CASE LockPusher(f)
      BY <3>2, <3>3 DEF LockPusher
    <3>4. CASE \E outcome \in Outcomes : Broadcast(f, outcome)
      BY <3>2, <3>4 DEF Broadcast, AfterFailure, Flush
    <3>5. CASE BackoffEnds(f)
      BY <3>2, <3>5 DEF BackoffEnds
    <3>6. CASE ConfirmPush(f)
      BY <3>6 DEF ConfirmPush
    <3>. QED  BY <1>3, <3>1, <3>3, <3>4, <3>5, <3>6 DEF MCOnBatchFlush, OnBatchFlush
  <2>3. flushes'[f] = Idle => flushes'[f].pc = "idle"
    BY IdleIsFlush
  <2>. QED  BY <2>1, <2>2, <2>3 DEF PausedInv, PausedThroughoutIsNotRelayed
<1>4. CASE \/ (Collects \/ TimePasses) /\ UNCHANGED <<accepted, pausedSince>>
           \/ UNCHANGED mcVars
  BY <1>4 DEF Collects, CollectPrice, TimePasses, mcVars, vars, PausedInv,
              PausedThroughoutIsNotRelayed
<1>. QED  BY <1>1, <1>2, <1>3, <1>4 DEF MCNext

(* No flush relays a symbol that was paused when the flush began and has stayed paused,
   however many flushes and attempts there are (the filter of onBatchFlush). *)
THEOREM PausedSymbolsAreFiltered == MCSpec => []PausedThroughoutIsNotRelayed
<1>1. MCInit => TypeOK /\ PausedInv
  BY InitTypes, IdleIsFlush DEF MCInit, Init, PausedInv, PausedThroughoutIsNotRelayed
<1>2. (TypeOK /\ PausedInv) /\ [MCNext]_mcVars => (TypeOK /\ PausedInv)'
  BY NextTypes, PausedStep, MCNextIsNext
<1>3. PausedInv => PausedThroughoutIsNotRelayed
  BY DEF PausedInv
<1>. QED  BY <1>1, <1>2, <1>3, PTL DEF MCSpec

=============================================================================

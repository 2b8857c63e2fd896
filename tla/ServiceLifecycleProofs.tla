------------------------ MODULE ServiceLifecycleProofs ------------------------
(***************************************************************************)
(* Proofs about the life of the process, for any symbols, number of prices *)
(* and of forced flushes, and any limit of failed polls.  Whatever starts, *)
(* stops and collects, the collector goes through steps of its own, so its *)
(* invariant holds here as well.                                           *)
(***************************************************************************)
EXTENDS MCServiceLifecycle, PriceBatchCollectorProofs

-----------------------------------------------------------------------------
(* The parts of the invariant *)

ProcessTypes ==
    /\ process \in {"up", "exited", "failed"}
    /\ main \in {"connect", "await feeds", "preheat", "serve"} \cup StopSteps
    /\ signalled \in BOOLEAN /\ isReady \in BOOLEAN /\ handler \in BOOLEAN
    /\ feed \in {"new", "up", "backoff", "down", "stopped"}
    /\ manager \in {"none", "select", "polling", "fatal", "ended"}
    /\ callback \in {"none", "running", "collected"}
    /\ dying \in BOOLEAN /\ pusherClosed \in BOOLEAN

(* Start starts the poll loop, once. *)
StartOrder == main \in {"connect", "await feeds"} => manager = "none"

(* A poll loop that goes on has not reached the limit. *)
CountsFailures ==
    /\ failures \in 0 .. MaxQueryFailures
    /\ manager # "fatal" => failures < MaxQueryFailures

(* The order of Stop: the pusher is closed after the collector has stopped, and main
   returns after that. *)
StopOrder ==
    /\ main \in {"close pusher", "wait manager"} => stopping = "returned"
    /\ pusherClosed => main = "wait manager"
    /\ process = "exited" => main = "wait manager"

(* Once Stop has waited, and not in vain, a flush that runs was counted after that. *)
OnlyLateFlushesRun == HasWaited /\ ~timedOut => flushes \subseteq late

(* Once Stop has flushed, what is buffered has been added after that. *)
OnlyLatePricesBuffered ==
    stopping \notin {"no", "flush"} =>
        addedAtStop <= added /\ \A s \in Symbols : prices[s] = NoPrice \/ prices[s] > addedAtStop

HistoryTypes ==
    /\ addedAtStop \in 0 .. MaxAdds
    /\ late \subseteq [Symbols -> 0 .. MaxAdds]

LifecycleInv ==
    /\ CollectorInv /\ ProcessTypes /\ CountsFailures /\ HistoryTypes
    /\ StartOrder /\ StopOrder /\ OnlyLateFlushesRun /\ OnlyLatePricesBuffered

-----------------------------------------------------------------------------
(* Steps of the collector *)

LEMMA RunsCollector == [LifecycleNext]_allVars => [Next]_vars
<1> SUFFICES ASSUME LifecycleNext PROVE [Next]_vars
  BY DEF allVars
<1>1. CASE Main
  <2>1. CASE StopCollector
    BY <2>1 DEF StopCollector, Next
  <2>. QED  BY <1>1, <2>1 DEF Main, Starts, Stops, InitDataSources, WaitForDataSourcesReady,
                 BecomeReady, Cancel, StopFeeds, StopManager, CollectorStopped, ClosePusher,
                 MainReturns
<1>2. CASE Poll \/ EndOfManager \/ Death \/ SignalArrives \/ PollStarts
  BY <1>2 DEF Poll, EndOfManager, Death, SignalArrives, PollStarts, PollSucceeds, PollFails,
              ManagerEnds, Dies
<1>3. CASE Feed
  BY <1>3 DEF Feed, FeedLost, FeedReconnects, FeedGivesUp, HandlerStarts, HandlerCollects, Next,
              Produce
<1>4. CASE Callback
  BY <1>4 DEF Callback, CallbackCollects, CallbackForces, CallbackReturns, Next, Produce
<1>5. CASE Collector
  BY <1>5 DEF Collector, Next
<1>. QED  BY <1>1, <1>2, <1>3, <1>4, <1>5 DEF LifecycleNext

LEMMA MCNextIsNext == [MCNext]_mcVars => [LifecycleNext]_allVars
BY DEF MCNext, mcVars

(* Where Stop has got to, a step of the collector takes it further, never back. *)
LEMMA StopGoesOn ==
    ASSUME [Next]_vars
    PROVE  /\ stopping = "returned" => stopping' = "returned"
           /\ HasWaited => HasWaited'
           /\ stopping \notin {"no", "flush"} => stopping' \notin {"no", "flush"}
           /\ HasWaited' /\ ~HasWaited =>
                  /\ stopping = "wait" /\ flushes' = flushes
                  /\ timedOut' \/ flushWg = 0
           /\ timedOut' # timedOut => stopping = "wait" /\ timedOut'
           /\ stopping' \notin {"no", "flush"} /\ stopping \in {"no", "flush"} =>
                  stopping = "flush" /\ prices' = NoBatch /\ added' = added
<1> USE DEF HasWaited
<1>1. CASE UNCHANGED <<stopping, timedOut>>
  BY <1>1
<1>2. CASE StopTicker \/ StopFlushes \/ StopSpawns \/ StopCloses
  BY <1>2 DEF StopTicker, StopFlushes, StopSpawns, StopCloses
<1>3. CASE StopWaits
  BY <1>3 DEF StopWaits
<1>4. ~(StopTicker \/ Stop) => UNCHANGED <<stopping, timedOut>>
  BY DEF Next, Produce, ForceFlush, AddPrice, ForceFlushReturns, TickerFires, Loop, LoopTicks,
         LoopIsForced, LoopSpawns, LoopExits, FlushReturns, vars
<1>. QED  BY <1>1, <1>2, <1>3, <1>4 DEF Stop

(* The buffer between two of its flushes: a price that is not there already is new. *)
LEMMA OnlyNewPricesCome ==
    ASSUME [Next]_vars, TypeOK
    PROVE  /\ added <= added'
           /\ \A s \in Symbols :
                  prices'[s] = prices[s] \/ prices'[s] = NoPrice \/ prices'[s] > added
<1> USE DEF TypeOK
<1>1. ASSUME NEW t \in Symbols, AddPrice(t)
      PROVE  /\ added' = added + 1
             /\ \A s \in Symbols : prices'[s] = prices[s] \/ prices'[s] = added + 1
  BY <1>1 DEF AddPrice
<1>2. CASE ~\E t \in Symbols : AddPrice(t)
  <2>1. added' = added /\ (prices' = prices \/ prices' = NoBatch)
    BY <1>2 DEF Next, Produce, ForceFlush, ForceFlushReturns, TickerFires, Loop, LoopTicks,
                LoopIsForced, LoopSpawns, LoopExits, FlushTakes, FlushReturns, StopTicker,
                Stop, StopFlushes, StopSpawns, StopWaits, StopCloses, vars
  <2>. QED  BY <2>1 DEF NoBatch
<1>. QED  BY <1>1, <1>2

-----------------------------------------------------------------------------
(* Each part of the invariant *)

LEMMA ProcessTypesStep ==
    ASSUME ProcessTypes, [LifecycleNext]_allVars
    PROVE  ProcessTypes'
<1> USE DEF ProcessTypes, StopSteps
<1>1. CASE Main
  BY <1>1 DEF Main, Starts, Stops, InitDataSources, WaitForDataSourcesReady, BecomeReady, Cancel,
              StopFeeds, StopManager, StopCollector, lifecycleVars, CollectorStopped, ClosePusher,
              MainReturns
<1>2. CASE Poll
  <2>1. callback' \in {"none", "running", "collected"} /\ manager' \in {"select", "fatal"}
    BY <1>2 DEF Poll, PollSucceeds, PollFails
  <2>2. dying' \in BOOLEAN
    BY <1>2 DEF Poll, PollSucceeds, PollFails
  <2>. QED  BY <1>2, <2>1, <2>2 DEF Poll, PollSucceeds, PollFails
<1>3. CASE EndOfManager \/ PollStarts
  BY <1>3 DEF EndOfManager, ManagerEnds, PollStarts
<1>4. CASE Death \/ SignalArrives
  <2>1. process' \in {"up", "exited", "failed"} /\ UNCHANGED <<main, feed, manager, callback>>
    BY <1>4 DEF Death, Dies, SignalArrives
  <2>2. /\ main' \in {"connect", "await feeds", "preheat", "serve"} \cup StopSteps
        /\ feed' \in {"new", "up", "backoff", "down", "stopped"}
        /\ manager' \in {"none", "select", "polling", "fatal", "ended"}
        /\ callback' \in {"none", "running", "collected"}
    BY <2>1
  <2>3. signalled' \in BOOLEAN /\ UNCHANGED <<isReady, handler, dying, pusherClosed>>
    BY <1>4 DEF Death, Dies, SignalArrives
  <2>4. /\ signalled' \in BOOLEAN /\ isReady' \in BOOLEAN /\ handler' \in BOOLEAN
        /\ dying' \in BOOLEAN /\ pusherClosed' \in BOOLEAN
    BY <2>3
  <2>. QED  BY <2>1, <2>2, <2>4
<1>5. CASE Feed
  BY <1>5 DEF Feed, FeedLost, FeedReconnects, FeedGivesUp, HandlerStarts, HandlerCollects
<1>6. CASE Callback
  BY <1>6 DEF Callback, CallbackCollects, CallbackForces, CallbackReturns
<1>7. CASE Collector \/ UNCHANGED allVars
  BY <1>7 DEF Collector, lifecycleVars, allVars
<1>. QED  BY <1>1, <1>2, <1>3, <1>4, <1>5, <1>6, <1>7 DEF LifecycleNext

LEMMA StartOrderStep ==
    ASSUME StartOrder, [LifecycleNext]_allVars
    PROVE  StartOrder'
<1> USE DEF StartOrder
<1>1. CASE Main
  <2>1. CASE Starts \/ Cancel \/ StopFeeds \/ StopManager
    BY <2>1 DEF Starts, InitDataSources, WaitForDataSourcesReady, BecomeReady, Cancel, StopFeeds,
                StopManager
  <2>2. CASE StopCollector \/ CollectorStopped \/ ClosePusher \/ MainReturns
    BY <2>2 DEF StopCollector, lifecycleVars, CollectorStopped, ClosePusher, MainReturns
  <2>. QED  BY <1>1, <2>1, <2>2 DEF Main, Stops
<1>2. CASE Poll \/ EndOfManager \/ PollStarts
  BY <1>2 DEF Poll, PollSucceeds, PollFails, EndOfManager, ManagerEnds, PollStarts
<1>3. CASE Feed \/ Callback \/ SignalArrives
  BY <1>3 DEF Feed, FeedLost, FeedReconnects, FeedGivesUp, HandlerStarts, HandlerCollects,
              Callback, CallbackCollects, CallbackForces, CallbackReturns, SignalArrives
<1>4. CASE Death \/ Collector \/ UNCHANGED allVars
  BY <1>4 DEF Death, Dies, Collector, lifecycleVars, allVars
<1>. QED  BY <1>1, <1>2, <1>3, <1>4 DEF LifecycleNext

LEMMA CountsFailuresStep ==
    ASSUME CountsFailures, StartOrder, [LifecycleNext]_allVars
    PROVE  CountsFailures'
<1> USE LifecycleAssumption DEF CountsFailures
<1>1. CASE Poll
  BY <1>1 DEF Poll, PollSucceeds, PollFails
<1>2. CASE WaitForDataSourcesReady
  <2>1. manager = "none" /\ failures' = failures
    BY <1>2 DEF WaitForDataSourcesReady, StartOrder
  <2>. QED  BY <2>1
<1>3. CASE EndOfManager \/ PollStarts
  BY <1>3 DEF EndOfManager, ManagerEnds, PollStarts
<1>4. CASE UNCHANGED <<manager, failures>>
  BY <1>4
<1>5. CASE Main /\ ~WaitForDataSourcesReady
  <2>1. UNCHANGED <<manager, failures>>
    BY <1>5 DEF Main, Starts, Stops, InitDataSources, BecomeReady, Cancel, StopFeeds, StopManager,
                StopCollector, lifecycleVars, CollectorStopped, ClosePusher, MainReturns
  <2>. QED  BY <1>4, <2>1
<1>6. CASE Feed \/ Callback \/ SignalArrives \/ Death \/ Collector \/ UNCHANGED allVars
  <2>1. UNCHANGED <<manager, failures>>
    BY <1>6 DEF Feed, FeedLost, FeedReconnects, FeedGivesUp, HandlerStarts, HandlerCollects,
                Callback, CallbackCollects, CallbackForces, CallbackReturns, SignalArrives,
                Death, Dies, Collector, lifecycleVars, allVars
  <2>. QED  BY <1>4, <2>1
<1>. QED  BY <1>1, <1>2, <1>3, <1>5, <1>6 DEF LifecycleNext

LEMMA StopOrderStep ==
    ASSUME StopOrder, ProcessTypes, [LifecycleNext]_allVars
    PROVE  StopOrder'
<1> USE DEF StopOrder
<1>1. stopping = "returned" => stopping' = "returned"
  BY RunsCollector, StopGoesOn
<1>2. CASE UNCHANGED <<main, pusherClosed, process>>
  BY <1>1, <1>2
<1>3. CASE Main
  <2>0. process = "up" /\ pusherClosed \in BOOLEAN
    BY <1>3 DEF Main, ProcessTypes
  <2>1. CASE Starts \/ Cancel \/ StopFeeds \/ StopManager
    <3>1. main \notin {"close pusher", "wait manager"} /\ main' \notin {"close pusher", "wait manager"}
      BY <2>1 DEF Starts, InitDataSources, WaitForDataSourcesReady, BecomeReady, Cancel, StopFeeds,
                  StopManager
    <3>2. UNCHANGED <<process, pusherClosed>>
      BY <2>1 DEF Starts, InitDataSources, WaitForDataSourcesReady, BecomeReady, Cancel, StopFeeds,
                  StopManager
    <3>. QED  BY <2>0, <3>1, <3>2
  <2>2. CASE StopCollector
    BY <1>1, <2>2 DEF StopCollector, lifecycleVars
  <2>3. CASE CollectorStopped
    BY <1>1, <2>0, <2>3 DEF CollectorStopped
  <2>4. CASE ClosePusher
    BY <1>1, <2>0, <2>4 DEF ClosePusher
  <2>5. CASE MainReturns
    BY <1>1, <2>5 DEF MainReturns
  <2>. QED  BY <1>3, <2>1, <2>2, <2>3, <2>4, <2>5 DEF Main, Stops
<1>4. CASE Death
  BY <1>1, <1>4 DEF Death, Dies
<1>5. Main \/ Death \/ UNCHANGED <<main, pusherClosed, process>>
  BY DEF LifecycleNext, Poll, PollSucceeds, PollFails, EndOfManager, ManagerEnds, PollStarts,
         SignalArrives, Feed, FeedLost, FeedReconnects, FeedGivesUp, HandlerStarts,
         HandlerCollects, Callback, CallbackCollects, CallbackForces, CallbackReturns, Collector,
         lifecycleVars, allVars
<1>. QED  BY <1>2, <1>3, <1>4, <1>5

LEMMA LateStep ==
    ASSUME OnlyLateFlushesRun, CollectorInv, [MCNext]_mcVars
    PROVE  OnlyLateFlushesRun'
<1> USE DEF OnlyLateFlushesRun
<1>0. [Next]_vars
  BY MCNextIsNext, RunsCollector
<1>1. CASE HasWaited
  <2>1. timedOut' = timedOut
    BY <1>0, <1>1, StopGoesOn DEF HasWaited
  <2>2. CASE MCNext
    BY <1>1, <2>1, <2>2 DEF MCNext
  <2>3. CASE UNCHANGED mcVars
    BY <1>1, <2>1, <2>3 DEF mcVars, allVars, vars
  <2>. QED  BY <2>2, <2>3
<1>2. CASE ~HasWaited /\ HasWaited' /\ ~timedOut'
  <2>1. flushWg = 0 /\ flushes' = flushes
    BY <1>0, <1>2, StopGoesOn
  <2>2. flushes = {}
    BY <2>1, FS_EmptySet DEF CollectorInv, Counts
  <2>. QED  BY <2>1, <2>2
<1>. QED  BY <1>1, <1>2

LEMMA LatePricesStep ==
    ASSUME OnlyLatePricesBuffered, CollectorInv, CollectorInv', HistoryTypes, [MCNext]_mcVars
    PROVE  OnlyLatePricesBuffered'
<1> USE DEF OnlyLatePricesBuffered
<1>0. [Next]_vars
  BY MCNextIsNext, RunsCollector
<1>1. CASE stopping \notin {"no", "flush"}
  <2>1. addedAtStop' = addedAtStop
    BY <1>1 DEF MCNext, mcVars
  <2>2. added \in Int /\ addedAtStop \in Int /\ added' \in Int
    BY CollectorAssumption DEF CollectorInv, TypeOK, HistoryTypes
  <2>3. /\ added <= added'
        /\ \A s \in Symbols : prices'[s] = prices[s] \/ prices'[s] = NoPrice \/ prices'[s] > added
    BY <1>0, OnlyNewPricesCome DEF CollectorInv
  <2>4. \A s \in Symbols : prices[s] \in Int /\ prices'[s] \in Int
    BY DEF CollectorInv, TypeOK
  <2>. QED  BY <1>1, <2>1, <2>2, <2>3, <2>4
<1>2. CASE stopping \in {"no", "flush"} /\ stopping' \notin {"no", "flush"}
  <2>1. stopping = "flush" /\ prices' = NoBatch /\ added' = added
    BY <1>0, <1>2, StopGoesOn
  <2>2. addedAtStop' = added
    BY <1>2, <2>1 DEF MCNext, mcVars, allVars, vars
  <2>3. added \in Int
    BY DEF CollectorInv, TypeOK
  <2>. QED  BY <2>1, <2>2, <2>3 DEF NoBatch
<1>. QED  BY <1>1, <1>2

LEMMA HistoryTypesStep ==
    ASSUME HistoryTypes, CollectorInv, CollectorInv', [MCNext]_mcVars
    PROVE  HistoryTypes'
<1> USE DEF HistoryTypes
<1>1. added \in 0 .. MaxAdds /\ flushes' \subseteq [Symbols -> 0 .. MaxAdds]
  BY DEF CollectorInv, TypeOK
<1>. QED  BY <1>1 DEF MCNext, mcVars

-----------------------------------------------------------------------------
(* The invariant *)

LEMMA LifecycleStarts == MCInit => LifecycleInv
<1> SUFFICES ASSUME MCInit PROVE LifecycleInv
  OBVIOUS
<1>1. CollectorInv /\ stopping = "no"
  BY CollectorInit DEF MCInit, LifecycleInit, Init
<1>2. ProcessTypes /\ StartOrder /\ StopOrder
  BY DEF MCInit, LifecycleInit, ProcessTypes, StartOrder, StopOrder
<1>3. CountsFailures /\ HistoryTypes
  BY LifecycleAssumption, CollectorAssumption
     DEF MCInit, LifecycleInit, CountsFailures, HistoryTypes
<1>4. OnlyLateFlushesRun /\ OnlyLatePricesBuffered
  BY <1>1 DEF OnlyLateFlushesRun, OnlyLatePricesBuffered, HasWaited
<1>. QED  BY <1>1, <1>2, <1>3, <1>4 DEF LifecycleInv

LEMMA LifecycleStep == LifecycleInv /\ [MCNext]_mcVars => LifecycleInv'
<1> SUFFICES ASSUME LifecycleInv, [MCNext]_mcVars PROVE LifecycleInv'
  OBVIOUS
<1> USE DEF LifecycleInv
<1>1. [LifecycleNext]_allVars /\ [Next]_vars
  BY MCNextIsNext, RunsCollector
<1>2. CollectorInv'
  BY <1>1, CollectorStep
<1>3. ProcessTypes' /\ CountsFailures' /\ StartOrder' /\ StopOrder'
  BY <1>1, ProcessTypesStep, CountsFailuresStep, StartOrderStep, StopOrderStep
<1>4. HistoryTypes' /\ OnlyLateFlushesRun' /\ OnlyLatePricesBuffered'
  BY <1>2, HistoryTypesStep, LateStep, LatePricesStep
<1>. QED  BY <1>2, <1>3, <1>4

LEMMA LifecycleInvariant == MCSpec => []LifecycleInv
BY LifecycleStarts, LifecycleStep, PTL DEF MCSpec

-----------------------------------------------------------------------------

(* Types, with any limit of failed polls: the count of failures stops at the limit,
   since the poll loop that reaches it does not poll again (Manager.Start). *)
THEOREM LifecycleTypes == MCSpec => []LifecycleTypeOK
<1>1. LifecycleInv => LifecycleTypeOK
  BY DEF LifecycleInv, CollectorInv, ProcessTypes, CountsFailures, HistoryTypes, LifecycleTypeOK
<1>. QED  BY <1>1, LifecycleInvariant, PTL

(* A flush that was started in time has returned when the pusher is closed, unless the
   35 seconds were over: the count Stop waits for is that of the flushes, and main
   closes the pusher after it (Service.Stop, PriceBatchCollector.Stop). *)
THEOREM FlushesEndBeforeThePusher == MCSpec => []PusherOutlivesFlushes
<1>1. LifecycleInv => PusherOutlivesFlushes
  BY DEF LifecycleInv, StopOrder, OnlyLateFlushesRun, HasWaited, PusherOutlivesFlushes
<1>. QED  BY <1>1, LifecycleInvariant, PTL

(* An orderly exit forgets no price that was there for the last flush, for any number
   of symbols and prices (Service.Stop). *)
THEOREM NoPriceForgottenInTime == MCSpec => []OnlyLatePricesAreLeft
<1>1. LifecycleInv => OnlyLatePricesAreLeft
  BY DEF LifecycleInv, StopOrder, OnlyLatePricesBuffered, OnlyLatePricesAreLeft
<1>. QED  BY <1>1, LifecycleInvariant, PTL

(* The collector of the running process implements the latest-value buffer as it does by
   itself, although the process may stop at any step of it (NewService, Stop). *)
THEOREM ProcessImplementsBuffer == MCSpec => ImplementsBuffer
<1>1. MCInit => Init
  BY DEF MCInit, LifecycleInit
<1>2. [MCNext]_mcVars => [Next]_vars
  BY MCNextIsNext, RunsCollector
<1>3. CollectorInv /\ [Next]_vars => [Buffer!BufferNext]_(Buffer!bufferVars)
  BY ImplementsStep DEF CollectorInv
<1>. QED  BY <1>1, <1>2, <1>3, CollectorInit, CollectorInvariant, PTL
          DEF MCSpec, ImplementsBuffer, Buffer!BufferSpec

=============================================================================

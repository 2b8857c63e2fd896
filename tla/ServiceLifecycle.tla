-------------------------- MODULE ServiceLifecycle --------------------------
(***************************************************************************)
(* The life of the process: main, oracle.Service's Start and Stop and      *)
(* handleFatalError, with the price collector as it is and with as much of *)
(* a feed, of the poll loop and of a switch callback as a shutdown meets.  *)
(*                                                                         *)
(* Stop cancels, stops the feeds, the poll loop and the collector, and     *)
(* closes the pusher; of all the goroutines it waits for the collector's   *)
(* flushes and for the poll loop.  A handler or a callback that is under   *)
(* way is not waited for, nor is a feed that was in its back-off: that one *)
(* connects once more.                                                     *)
(***************************************************************************)
EXTENDS PriceBatchCollector

CONSTANT MaxQueryFailures       \* maxQueryFailures

ASSUME LifecycleAssumption == MaxQueryFailures \in Nat \ {0}

VARIABLES
    process,        \* "up", "exited" (main returned) or "failed" (log.Fatal)
    main,           \* where main stands, in Start or in Stop
    signalled,      \* SIGINT or SIGTERM was sent; sigChan holds one
    isReady,
    feed,           \* a feed's client: "new", "up", "backoff", "down" (for good), "stopped"
    handler,        \* the feed's handler has a price to collect
    manager,        \* Manager.Start: "none", "select", "polling", "fatal", "ended"
    failures,       \* m.queryFailureCount
    callback,       \* a switch's callback: "none", "running", "collected"
    dying,          \* a handleFatalError sleeps its two seconds
    pusherClosed

lifecycleVars == <<process, main, signalled, isReady, feed, handler, manager, failures,
                   callback, dying, pusherClosed>>
allVars == <<vars, lifecycleVars>>

StopSteps == {"stop feeds", "stop manager", "stop collector", "close pusher", "wait manager"}

\* The context is cancelled first, before the feeds are stopped.
Cancelled    == main \in StopSteps
FeedsStopped == main \in StopSteps \ {"stop feeds"}

LifecycleInit ==
    /\ Init
    /\ process = "up" /\ main = "connect" /\ signalled = FALSE /\ isReady = FALSE
    /\ feed = "new" /\ handler = FALSE
    /\ manager = "none" /\ failures = 0
    /\ callback = "none" /\ dying = FALSE /\ pusherClosed = FALSE

-----------------------------------------------------------------------------
(* Start, called by main *)

\* A client that cannot be started is logged, and down for good.
InitDataSources ==
    /\ main = "connect"
    /\ main' = "await feeds"
    /\ feed' \in {"up", "down"}
    /\ UNCHANGED <<vars, process, signalled, isReady, handler, manager, failures, callback,
                   dying, pusherClosed>>

\* Connected, or not after 30 seconds.
WaitForDataSourcesReady ==
    /\ main = "await feeds"
    /\ main' = "preheat"
    /\ manager' = "polling"
    /\ UNCHANGED <<vars, process, signalled, isReady, feed, handler, failures, callback,
                   dying, pusherClosed>>

\* After 500 ms, whether or not the first poll has returned.
BecomeReady ==
    /\ main = "preheat"
    /\ main' = "serve"
    /\ isReady' = TRUE
    /\ UNCHANGED <<vars, process, signalled, feed, handler, manager, failures, callback,
                   dying, pusherClosed>>

SignalArrives ==
    /\ ~signalled
    /\ signalled' = TRUE
    /\ UNCHANGED <<vars, process, main, isReady, feed, handler, manager, failures, callback,
                   dying, pusherClosed>>

-----------------------------------------------------------------------------
(* Stop, called by main *)

\* main reads sigChan once Start has returned; Stop cancels the context.
Cancel ==
    /\ main = "serve" /\ signalled
    /\ main' = "stop feeds"
    /\ UNCHANGED <<vars, process, signalled, isReady, feed, handler, manager, failures,
                   callback, dying, pusherClosed>>

StopFeeds ==
    /\ main = "stop feeds"
    /\ main' = "stop manager"
    /\ feed' = IF feed = "up" THEN "stopped" ELSE feed
    /\ UNCHANGED <<vars, process, signalled, isReady, handler, manager, failures, callback,
                   dying, pusherClosed>>

StopManager ==
    /\ main = "stop manager"
    /\ main' = "stop collector"
    /\ UNCHANGED <<vars, process, signalled, isReady, feed, handler, manager, failures,
                   callback, dying, pusherClosed>>

StopCollector ==
    /\ main = "stop collector"
    /\ StopTicker \/ Stop
    /\ UNCHANGED lifecycleVars

CollectorStopped_FlushStarted ==
    /\ main = "stop collector" /\ stopping \in {"wait", "close", "returned"}
    /\ main' = "close pusher"
    /\ UNCHANGED <<vars, process, signalled, isReady, feed, handler, manager, failures,
                   callback, dying, pusherClosed>>

CollectorStopped ==
    /\ main = "stop collector" /\ stopping = "returned"
    /\ main' = "close pusher"
    /\ UNCHANGED <<vars, process, signalled, isReady, feed, handler, manager, failures,
                   callback, dying, pusherClosed>>

ClosePusher ==
    /\ main = "close pusher"
    /\ main' = "wait manager"
    /\ pusherClosed' = TRUE
    /\ UNCHANGED <<vars, process, signalled, isReady, feed, handler, manager, failures,
                   callback, dying>>

\* s.wg counts the poll loop alone.
MainReturns ==
    /\ main = "wait manager" /\ manager = "ended"
    /\ process' = "exited"
    /\ UNCHANGED <<vars, main, signalled, isReady, feed, handler, manager, failures, callback,
                   dying, pusherClosed>>

-----------------------------------------------------------------------------
(* A feed *)

FeedLost ==
    /\ feed = "up"
    /\ feed' = IF FeedsStopped THEN "stopped" ELSE "backoff"
    /\ UNCHANGED <<vars, process, main, signalled, isReady, handler, manager, failures,
                   callback, dying, pusherClosed>>

\* The sleep is not interrupted, and nothing is asked after it.
FeedReconnects ==
    /\ feed = "backoff"
    /\ feed' = "up"
    /\ UNCHANGED <<vars, process, main, signalled, isReady, handler, manager, failures,
                   callback, dying, pusherClosed>>

FeedGivesUp ==
    /\ feed = "backoff"
    /\ IF FeedsStopped THEN feed' = "stopped" /\ UNCHANGED dying
                       ELSE feed' = "down" /\ dying' = TRUE
    /\ UNCHANGED <<vars, process, main, signalled, isReady, handler, manager, failures,
                   callback, pusherClosed>>

HandlerStarts ==
    /\ feed = "up" /\ isReady /\ ~handler
    /\ handler' = TRUE
    /\ UNCHANGED <<vars, process, main, signalled, isReady, feed, manager, failures, callback,
                   dying, pusherClosed>>

HandlerCollects ==
    /\ handler
    /\ handler' = FALSE
    /\ \E s \in Symbols : AddPrice(s)
    /\ UNCHANGED <<process, main, signalled, isReady, feed, manager, failures, callback, dying,
                   pusherClosed>>

-----------------------------------------------------------------------------
(* The poll loop and the callback of a switch *)

\* select takes any case that is ready, the ticker's after Stop too.
PollStarts ==
    /\ manager = "select"
    /\ manager' = "polling"
    /\ UNCHANGED <<vars, process, main, signalled, isReady, feed, handler, failures, callback,
                   dying, pusherClosed>>

\* The query has its answer, cancelled or not; updateStatus may switch a source.
PollSucceeds ==
    /\ manager = "polling"
    /\ manager' = "select" /\ failures' = 0
    /\ callback' \in IF callback = "none" THEN {"none", "running"} ELSE {callback}
    /\ UNCHANGED <<vars, process, main, signalled, isReady, feed, handler, dying, pusherClosed>>

PollFails_OneMore ==
    /\ manager = "polling"
    /\ failures' = failures + 1
    /\ IF failures' > MaxQueryFailures THEN manager' = "fatal" /\ dying' = TRUE
                                       ELSE manager' = "select" /\ UNCHANGED dying
    /\ UNCHANGED <<vars, process, main, signalled, isReady, feed, handler, callback,
                   pusherClosed>>

\* A query that Stop cancels counts as a failure too.
PollFails ==
    /\ manager = "polling"
    /\ failures' = failures + 1
    /\ IF failures' >= MaxQueryFailures THEN manager' = "fatal" /\ dying' = TRUE
                                        ELSE manager' = "select" /\ UNCHANGED dying
    /\ UNCHANGED <<vars, process, main, signalled, isReady, feed, handler, callback,
                   pusherClosed>>

\* The context is done; m.done, closed later, adds nothing.
ManagerEnds ==
    /\ manager = "select" /\ Cancelled
    /\ manager' = "ended"
    /\ UNCHANGED <<vars, process, main, signalled, isReady, feed, handler, failures, callback,
                   dying, pusherClosed>>

\* Before the service is ready the callback finds no price to collect.
CallbackCollects ==
    /\ callback = "running" /\ isReady
    /\ callback' = "collected"
    /\ \E s \in Symbols : AddPrice(s)
    /\ UNCHANGED <<process, main, signalled, isReady, feed, handler, manager, failures, dying,
                   pusherClosed>>

CallbackForces ==
    /\ callback = "collected"
    /\ callback' = "none"
    /\ ForceFlush
    /\ UNCHANGED <<process, main, signalled, isReady, feed, handler, manager, failures, dying,
                   pusherClosed>>

\* Nothing to collect, or a refused switch.
CallbackReturns ==
    /\ callback = "running"
    /\ callback' = "none"
    /\ UNCHANGED <<vars, process, main, signalled, isReady, feed, handler, manager, failures,
                   dying, pusherClosed>>

\* log.Fatal, wherever main stands.
Dies ==
    /\ dying
    /\ process' = "failed"
    /\ UNCHANGED <<vars, main, signalled, isReady, feed, handler, manager, failures, callback,
                   dying, pusherClosed>>

-----------------------------------------------------------------------------

Starts == InitDataSources \/ WaitForDataSourcesReady \/ BecomeReady

Stops == Cancel \/ StopFeeds \/ StopManager \/ StopCollector \/ CollectorStopped
         \/ ClosePusher \/ MainReturns

Main == process = "up" /\ (Starts \/ Stops)

Feed == FeedLost \/ FeedReconnects \/ FeedGivesUp \/ HandlerStarts \/ HandlerCollects

Poll == process = "up" /\ (PollSucceeds \/ PollFails)

EndOfManager == process = "up" /\ ManagerEnds

Callback == CallbackCollects \/ CallbackForces \/ CallbackReturns

\* The collector's own goroutines.
Collector ==
    /\ ForceFlushReturns \/ TickerFires \/ Loop \/ \E batch \in flushes : FlushReturns(batch)
    /\ UNCHANGED lifecycleVars

Death == process = "up" /\ Dies

LifecycleNext ==
    \/ Main \/ Poll \/ EndOfManager \/ Death
    \/ process = "up" /\ (SignalArrives \/ Feed \/ PollStarts \/ Callback \/ Collector)

\* Start's waits and Stop's time out, queries too, and so does the sleep before
\* log.Fatal.  A select that can end the poll loop does not prefer the ticker for ever.
\* Nothing is assumed of feeds, pushes or signals.
LifecycleFairness ==
    /\ WF_allVars(Main) /\ WF_allVars(Poll) /\ WF_allVars(Death)
    /\ SF_allVars(EndOfManager)

LifecycleSpec == LifecycleInit /\ [][LifecycleNext]_allVars /\ LifecycleFairness

=============================================================================

------------------------ MODULE PriceBatchCollector ------------------------
(***************************************************************************)
(* batch.PriceBatchCollector: producers add prices, the collector          *)
(* goroutine flushes the buffer on every tick and on every forced flush,   *)
(* and each flush hands the buffer to onFlush in a goroutine of its own,   *)
(* counted by flushWg.  Stop flushes once more, waits for flushWg (or 35   *)
(* seconds) and closes done.                                               *)
(*                                                                         *)
(* A flush is two steps, because c.mu is released before flushWg.Add(1)    *)
(* and the start of the goroutine.  What onFlush does is not modelled here:*)
(* it returns after any time, or never.                                    *)
(***************************************************************************)
EXTENDS Integers, FiniteSets

CONSTANTS
    Symbols,
    MaxAdds,            \* bound: prices added in a behaviour
    MaxForced,          \* bound: forced flushes started in a behaviour
    MaxBufferSize       \* maxBufferSize

ASSUME CollectorAssumption == MaxAdds \in Nat /\ MaxForced \in Nat

NoPrice == 0
NoBatch == [s \in Symbols |-> NoPrice]

VARIABLES
    prices,             \* c.prices: symbol -> newest price, or NoPrice
    added,              \* number of AddPrice calls so far
    tick,               \* a tick waits in the ticker's channel (capacity 1)
    loop,               \* collector goroutine: in select, in flush, or exited
    loopBatch,          \* what the collector goroutine's flush took
    forced,             \* forced flushes started so far
    forcing,            \* goroutines blocked in forceFlush
    flushWg,            \* counter of the wait group
    flushes,            \* batches whose onFlush goroutine is running
    stopping,           \* progress of Stop
    stopBatch,          \* what Stop's own flush took
    timedOut,           \* Stop gave up waiting
    done                \* c.done is closed

vars == <<prices, added, tick, loop, loopBatch, forced, forcing, flushWg, flushes,
          stopping, stopBatch, timedOut, done>>

Init ==
    /\ prices = NoBatch /\ added = 0
    /\ tick = FALSE
    /\ loop = "select" /\ loopBatch = NoBatch
    /\ forced = 0 /\ forcing = 0
    /\ flushWg = 0 /\ flushes = {}
    /\ stopping = "no" /\ stopBatch = NoBatch
    /\ timedOut = FALSE /\ done = FALSE

Buffered(buffer) == {s \in Symbols : buffer[s] # NoPrice}

-----------------------------------------------------------------------------
(* Producers *)

\* A full buffer starts a goroutine that forces a flush.
AddPrice(s) ==
    /\ added < MaxAdds
    /\ added' = added + 1
    /\ prices' = [prices EXCEPT ![s] = added']
    /\ IF Cardinality(Buffered(prices')) >= MaxBufferSize
       THEN /\ forced < MaxForced
            /\ forced' = forced + 1
            /\ forcing' = IF done THEN forcing ELSE forcing + 1
       ELSE UNCHANGED <<forced, forcing>>
    /\ UNCHANGED <<tick, loop, loopBatch, flushWg, flushes, stopping, stopBatch, timedOut, done>>

\* Called after a data source switch, in the goroutine of the switch.
ForceFlush ==
    /\ forced < MaxForced
    /\ forced' = forced + 1
    /\ forcing' = IF done THEN forcing ELSE forcing + 1
    /\ UNCHANGED <<prices, added, tick, loop, loopBatch, flushWg, flushes, stopping,
                   stopBatch, timedOut, done>>

ForceFlushReturns_OnlyWhenDone ==
    /\ forcing > 0 /\ done
    /\ forcing' = forcing - 1
    /\ UNCHANGED <<prices, added, tick, loop, loopBatch, forced, flushWg, flushes,
                   stopping, stopBatch, timedOut, done>>

\* The 100 ms time out, or done was closed.
ForceFlushReturns ==
    /\ forcing > 0
    /\ forcing' = forcing - 1
    /\ UNCHANGED <<prices, added, tick, loop, loopBatch, forced, flushWg, flushes,
                   stopping, stopBatch, timedOut, done>>

-----------------------------------------------------------------------------
(* The collector goroutine *)

TickerFires ==
    /\ stopping = "no"
    /\ ~tick
    /\ tick' = TRUE
    /\ UNCHANGED <<prices, added, loop, loopBatch, forced, forcing, flushWg, flushes,
                   stopping, stopBatch, timedOut, done>>

FlushTakes_KeepsBuffer ==
    /\ IF prices = NoBatch THEN UNCHANGED <<loop, loopBatch>>
       ELSE loop' = "spawn" /\ loopBatch' = prices
    /\ UNCHANGED prices

\* The critical section of flush: an empty buffer is no work.
FlushTakes ==
    /\ prices' = NoBatch
    /\ IF prices = NoBatch THEN UNCHANGED <<loop, loopBatch>>
       ELSE loop' = "spawn" /\ loopBatch' = prices

LoopTicks_SkipsFlush ==
    /\ loop = "select" /\ tick
    /\ tick' = FALSE
    /\ UNCHANGED <<prices, loop, loopBatch>>
    /\ UNCHANGED <<added, forced, forcing, flushWg, flushes, stopping, stopBatch, timedOut, done>>

LoopTicks ==
    /\ loop = "select" /\ tick
    /\ tick' = FALSE
    /\ FlushTakes
    /\ UNCHANGED <<added, forced, forcing, flushWg, flushes, stopping, stopBatch, timedOut, done>>

\* The rendezvous on the unbuffered flushSignal.
LoopIsForced ==
    /\ loop = "select" /\ forcing > 0
    /\ forcing' = forcing - 1
    /\ FlushTakes
    /\ UNCHANGED <<added, tick, forced, flushWg, flushes, stopping, stopBatch, timedOut, done>>

LoopSpawns ==
    /\ loop = "spawn"
    /\ flushWg' = flushWg + 1
    /\ flushes' = flushes \cup {loopBatch}
    /\ loop' = "select" /\ loopBatch' = NoBatch
    /\ UNCHANGED <<prices, added, tick, forced, forcing, stopping, stopBatch, timedOut, done>>

LoopExits ==
    /\ loop = "select" /\ done
    /\ loop' = "exited"
    /\ UNCHANGED <<prices, added, tick, loopBatch, forced, forcing, flushWg, flushes,
                   stopping, stopBatch, timedOut, done>>

FlushReturns_DoneTwice(batch) ==
    /\ batch \in flushes
    /\ flushes' = flushes \ {batch}
    /\ flushWg' = flushWg - 2
    /\ UNCHANGED <<prices, added, tick, loop, loopBatch, forced, forcing, stopping,
                   stopBatch, timedOut, done>>

\* onFlush returns and the goroutine calls flushWg.Done.
FlushReturns(batch) ==
    /\ batch \in flushes
    /\ flushes' = flushes \ {batch}
    /\ flushWg' = flushWg - 1
    /\ UNCHANGED <<prices, added, tick, loop, loopBatch, forced, forcing, stopping,
                   stopBatch, timedOut, done>>

-----------------------------------------------------------------------------
(* Stop *)

StopTicker_SkipsFlush ==
    /\ stopping = "no"
    /\ stopping' = "wait"
    /\ UNCHANGED <<prices, added, tick, loop, loopBatch, forced, forcing, flushWg,
                   flushes, stopBatch, timedOut, done>>

\* A tick already in the channel stays there.
StopTicker ==
    /\ stopping = "no"
    /\ stopping' = "flush"
    /\ UNCHANGED <<prices, added, tick, loop, loopBatch, forced, forcing, flushWg,
                   flushes, stopBatch, timedOut, done>>

StopFlushes ==
    /\ stopping = "flush"
    /\ prices' = NoBatch
    /\ stopBatch' = prices
    /\ stopping' = IF prices = NoBatch THEN "wait" ELSE "spawn"
    /\ UNCHANGED <<added, tick, loop, loopBatch, forced, forcing, flushWg, flushes,
                   timedOut, done>>

StopSpawns ==
    /\ stopping = "spawn"
    /\ flushWg' = flushWg + 1
    /\ flushes' = flushes \cup {stopBatch}
    /\ stopBatch' = NoBatch
    /\ stopping' = "wait"
    /\ UNCHANGED <<prices, added, tick, loop, loopBatch, forced, forcing, timedOut, done>>

StopWaits_NoTimeout ==
    /\ stopping = "wait"
    /\ flushWg = 0
    /\ stopping' = "close"
    /\ UNCHANGED timedOut
    /\ UNCHANGED <<prices, added, tick, loop, loopBatch, forced, forcing, flushWg,
                   flushes, stopBatch, done>>

\* The wait ends when the counter is zero, or after 35 seconds.
StopWaits ==
    /\ stopping = "wait"
    /\ \/ flushWg = 0 /\ UNCHANGED timedOut
       \/ flushWg > 0 /\ timedOut' = TRUE
    /\ stopping' = "close"
    /\ UNCHANGED <<prices, added, tick, loop, loopBatch, forced, forcing, flushWg,
                   flushes, stopBatch, done>>

StopCloses ==
    /\ stopping = "close"
    /\ stopping' = "returned"
    /\ done' = TRUE
    /\ UNCHANGED <<prices, added, tick, loop, loopBatch, forced, forcing, flushWg,
                   flushes, stopBatch, timedOut>>

-----------------------------------------------------------------------------

Produce == ForceFlush \/ \E s \in Symbols : AddPrice(s)

Loop == LoopTicks \/ LoopIsForced \/ LoopSpawns \/ LoopExits

Stop == StopFlushes \/ StopSpawns \/ StopWaits \/ StopCloses

Next ==
    \/ Produce
    \/ ForceFlushReturns
    \/ TickerFires
    \/ Loop
    \/ \E batch \in flushes : FlushReturns(batch)
    \/ StopTicker
    \/ Stop

\* The runtime schedules every runnable goroutine, the ticker ticks, and a time
\* out expires.  Nothing is assumed of onFlush, of producers or of a stop.
Fairness ==
    /\ WF_vars(TickerFires)
    /\ WF_vars(Loop)
    /\ WF_vars(ForceFlushReturns)
    /\ WF_vars(Stop)

Spec == Init /\ [][Next]_vars /\ Fairness

-----------------------------------------------------------------------------

(* The types of the state; the counter of the wait group stays within the prices that
   have been added, since no flush is empty. *)
TypeOK ==
    /\ prices \in [Symbols -> 0 .. MaxAdds]
    /\ added \in 0 .. MaxAdds
    /\ tick \in BOOLEAN
    /\ loop \in {"select", "spawn", "exited"}
    /\ loopBatch \in [Symbols -> 0 .. MaxAdds]
    /\ forced \in 0 .. MaxForced
    /\ forcing \in 0 .. forced
    /\ flushWg \in 0 .. MaxAdds
    /\ flushes \subseteq [Symbols -> 0 .. MaxAdds]
    /\ stopping \in {"no", "flush", "spawn", "wait", "close", "returned"}
    /\ stopBatch \in [Symbols -> 0 .. MaxAdds]
    /\ timedOut \in BOOLEAN
    /\ done \in BOOLEAN

=============================================================================

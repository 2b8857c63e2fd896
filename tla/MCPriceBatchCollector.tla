----------------------- MODULE MCPriceBatchCollector -----------------------
(***************************************************************************)
(* The collector checked: it implements LatestValueBuffer, no goroutine of *)
(* it blocks for ever, and its Stop returns.                               *)
(***************************************************************************)
EXTENDS PriceBatchCollector

(* The batches that have left the buffer and are not dealt with: those between the
   critical section of flush and the start of the goroutine included. *)
Handed ==
    flushes \cup {b \in {loopBatch} : loop = "spawn"}
            \cup {b \in {stopBatch} : stopping = "spawn"}

Buffer == INSTANCE LatestValueBuffer WITH handed <- Handed

(* The collector keeps the newest price of every symbol and hands every price over
   at most once, however ticks, forced flushes and Stop interleave. *)
ImplementsBuffer == Buffer!BufferSpec

(* While the collector has not been stopped, a buffered price does not stay: a tick
   hands it over or a newer price supersedes it, even if every forced flush times
   out and every onFlush hangs. *)
BufferedPriceLeaves ==
    \A s \in Symbols, n \in 1 .. MaxAdds :
        prices[s] = n ~> (prices[s] # n \/ stopping # "no")

(* No goroutine stays blocked on the unbuffered flush signal, not even once the
   collector goroutine has gone. *)
ForceFlushNeverBlocks == forcing > 0 ~> forcing = 0

(* Stop returns although a flush may hang, and the collector goroutine ends. *)
StopReturns == stopping # "no" ~> done /\ loop = "exited"

=============================================================================

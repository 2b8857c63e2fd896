------------------------- MODULE MCServiceLifecycle -------------------------
(***************************************************************************)
(* Starting and stopping the process.  Two history variables have what the *)
(* properties compare with: the prices added before the last flush of Stop,*)
(* and the flushes started after Stop had waited for flushes.              *)
(***************************************************************************)
EXTENDS ServiceLifecycle

VARIABLES
    addedAtStop,        \* added, when Stop flushed; MaxAdds before
    late                \* batches whose flush was counted after Stop had waited

mcVars == <<allVars, addedAtStop, late>>

HasWaited == stopping \in {"close", "returned"}

MCInit == LifecycleInit /\ addedAtStop = MaxAdds /\ late = {}

MCNext ==
    /\ LifecycleNext
    /\ addedAtStop' = IF stopping = "flush" /\ stopping' # "flush" THEN added ELSE addedAtStop
    /\ late' = IF HasWaited THEN late \cup (flushes' \ flushes) ELSE late

MCSpec == MCInit /\ [][MCNext]_mcVars /\ LifecycleFairness

(* The types of the state, the collector's included. *)
LifecycleTypeOK ==
    /\ TypeOK
    /\ process \in {"up", "exited", "failed"}
    /\ main \in {"connect", "await feeds", "preheat", "serve"} \cup StopSteps
    /\ signalled \in BOOLEAN /\ isReady \in BOOLEAN /\ handler \in BOOLEAN
    /\ feed \in {"new", "up", "backoff", "down", "stopped"}
    /\ manager \in {"none", "select", "polling", "fatal", "ended"}
    /\ failures \in 0 .. MaxQueryFailures
    /\ callback \in {"none", "running", "collected"}
    /\ dying \in BOOLEAN /\ pusherClosed \in BOOLEAN
    /\ addedAtStop \in 0 .. MaxAdds
    /\ late \subseteq [Symbols -> 0 .. MaxAdds]

(* The pusher is not closed under a flush that was started in time: unless the 35
   seconds were over, a flush that still runs then was counted only after Stop had
   waited, however handlers, callbacks and the tick left in the channel interleave
   with Stop (Service.Stop, PriceBatchCollector.Stop). *)
PusherOutlivesFlushes == pusherClosed /\ ~timedOut => flushes \subseteq late

(* What an orderly exit leaves in the buffer came too late for the last flush: no
   price added before it is forgotten there, whoever flushes last (Service.Stop). *)
OnlyLatePricesAreLeft ==
    process = "exited" => \A s \in Symbols : prices[s] = NoPrice \/ prices[s] > addedAtStop

(* A signal or a fatal error ends the process, in the middle of Start, of a poll or of
   Stop, although a push may hang for ever and an open feed is never waited for
   (main, Stop, handleFatalError). *)
ProcessEnds == signalled \/ dying ~> process # "up"

=============================================================================

--------------------------- MODULE MCPushPipeline ---------------------------
(***************************************************************************)
(* The push pipeline with history variables: which prices the chain ever   *)
(* accepted, and which symbols have been paused since before a flush       *)
(* started.                                                                *)
(***************************************************************************)
EXTENDS PushPipeline

VARIABLES
    accepted,           \* the <<symbol, price>> the chain ever accepted
    pausedSince         \* flusher -> the symbols paused ever since its flush started

mcVars == <<vars, accepted, pausedSince>>

MCInit ==
    /\ Init
    /\ accepted = {}
    /\ pausedSince = [f \in Flushers |-> {}]

MCStartFlush(f) ==
    /\ StartFlush(f)
    /\ pausedSince' = [pausedSince EXCEPT ![f] = paused]
    /\ UNCHANGED accepted

MCPauseChanges(s) ==
    /\ PauseChanges(s)
    /\ pausedSince' = [f \in Flushers |-> pausedSince[f] \cap paused']
    /\ UNCHANGED accepted

MCOnBatchFlush(f) ==
    /\ OnBatchFlush(f)
    /\ accepted' = accepted \cup
           (IF relayed' = relayed THEN {} ELSE {<<s, relayed'[s]>> : s \in In(relayed')})
    /\ pausedSince' = [pausedSince EXCEPT ![f] = IF flushes'[f] = Idle THEN {} ELSE @]

MCNext ==
    \/ (Collects \/ TimePasses) /\ UNCHANGED <<accepted, pausedSince>>
    \/ \E f \in Flushers : MCStartFlush(f)
    \/ \E f \in Flushers : MCOnBatchFlush(f)
    \/ \E s \in Symbols : MCPauseChanges(s)

MCSpec == MCInit /\ [][MCNext]_mcVars /\ Fairness

-----------------------------------------------------------------------------

(* lastPrices only ever holds a price that the chain did accept, so the 5 % check of
   a switch never compares with a price that was merely attempted: a failed
   broadcast, a retry and a dropped batch leave it alone (onBatchFlush). *)
LastPriceWasRelayed ==
    \A s \in Symbols :
        lastPrices[s] # 0 => \E p \in Price : <<s, p>> \in accepted /\ p.price = lastPrices[s]

(* A symbol that is paused before a flush starts, and stays paused, is not broadcast
   by it, while the other symbols of the batch are (the filter of onBatchFlush). *)
PausedThroughoutIsNotRelayed ==
    \A f \in Flushers :
        flushes[f].pc \notin {"idle", "filter"} => In(flushes[f].batch) \cap pausedSince[f] = {}

(* Every flush ends, whatever the chain answers and however many flushes compete for
   the pusher's lock, so flushWg gets back to zero (three attempts at most). *)
FlushEnds == \A f \in Flushers : flushes[f] # Idle ~> flushes[f] = Idle

=============================================================================

---------------------------- MODULE PushPipeline ----------------------------
(***************************************************************************)
(* From a collected price to the chain: collectPrice asks the throttler    *)
(* and adds to the collector's buffer; a flush takes the buffer and runs   *)
(* onBatchFlush in a goroutine of its own, which filters paused symbols,   *)
(* broadcasts the batch with up to three attempts under the pusher's lock  *)
(* and confirms it to the throttler and to lastPrices.                     *)
(*                                                                         *)
(* The collector is the LatestValueBuffer that PriceBatchCollector         *)
(* implements.  Several flushes can be under way, because the collector    *)
(* does not wait for onBatchFlush.  Prices are a few levels, any two of    *)
(* which differ by the throttler's threshold or more; a collected price    *)
(* also has a serial number, which says how new it is.                     *)
(***************************************************************************)
EXTENDS Integers

CONSTANTS
    Symbols,
    Levels,             \* the price levels, positive
    Forces,             \* may a price be collected by force (a switch), and otherwise
    Outcomes,           \* what a broadcast may end in: ok, rejected, unacknowledged
    Flushers,           \* bound: one element per flush that may be under way
    MaxAdds,            \* bound: prices added in a behaviour
    MinInterval,        \* minPushInterval, in time units
    MaxInterval         \* maxPushInterval, in time units

ASSUME PipelineAssumption ==
    /\ Levels \subseteq Nat \ {0}
    /\ Forces \subseteq BOOLEAN
    /\ Outcomes \subseteq {"ok", "rejected", "unacknowledged"}
    /\ MaxAdds \in Nat
    /\ MinInterval \in Nat /\ MaxInterval \in Nat
    /\ MinInterval <= MaxInterval

MaxRetries == 3

VARIABLES
    sinceLastPush,      \* symbol -> time since lastPushTime, up to MaxInterval
    lastPushPrice,      \* symbol -> the throttler's lastPushPrice, 0 before any
    lastPrices,         \* symbol -> the service's lastPrices, 0 before any
    added,              \* serial number of the newest collected price
    buffer,             \* symbol -> the buffered price, or NoPrice
    flushes,            \* flusher -> the onBatchFlush it is running, or Idle
    paused,             \* the symbols the state manager has paused
    relayed             \* symbol -> the price the chain accepted last, or NoPrice

vars == <<sinceLastPush, lastPushPrice, lastPrices, added, buffer, flushes, paused, relayed>>

NoPrice == [serial |-> 0, price |-> 0]
Price   == [serial : 1 .. MaxAdds, price : Levels]
Batch   == [Symbols -> Price \cup {NoPrice}]
NoBatch == [s \in Symbols |-> NoPrice]

Flush(pc, batch, attempt) == [pc |-> pc, batch |-> batch, attempt |-> attempt]
Idle == Flush("idle", NoBatch, 0)

In(batch) == {s \in Symbols : batch[s] # NoPrice}

Init ==
    /\ sinceLastPush = [s \in Symbols |-> 0]
    /\ lastPushPrice = [s \in Symbols |-> 0]
    /\ lastPrices    = [s \in Symbols |-> 0]
    /\ added   = 0
    /\ buffer  = NoBatch
    /\ flushes = [f \in Flushers |-> Idle]
    /\ paused  = {}
    /\ relayed = NoBatch

-----------------------------------------------------------------------------
(* Throttler *)

\* First push, forced push, heartbeat, or a move after the minimal interval.
ShouldPush(s, price, force) ==
    \/ lastPushPrice[s] = 0
    \/ force
    \/ sinceLastPush[s] >= MaxInterval
    \/ sinceLastPush[s] >= MinInterval /\ price # lastPushPrice[s]

TimePasses ==
    /\ \E s \in Symbols : sinceLastPush[s] < MaxInterval
    /\ sinceLastPush' = [s \in Symbols |-> IF sinceLastPush[s] < MaxInterval
                                           THEN sinceLastPush[s] + 1 ELSE MaxInterval]
    /\ UNCHANGED <<lastPushPrice, lastPrices, added, buffer, flushes, paused, relayed>>

-----------------------------------------------------------------------------
(* Collecting and flushing *)

CollectPrice(s, price, force) ==
    /\ ShouldPush(s, price, force)
    /\ added < MaxAdds
    /\ added' = added + 1
    /\ buffer' = [buffer EXCEPT ![s] = [serial |-> added', price |-> price]]
    /\ UNCHANGED <<sinceLastPush, lastPushPrice, lastPrices, flushes, paused, relayed>>

StartFlush(f) ==
    /\ buffer # NoBatch
    /\ flushes[f] = Idle
    /\ flushes' = [flushes EXCEPT ![f] = Flush("filter", buffer, 0)]
    /\ buffer' = NoBatch
    /\ UNCHANGED <<sinceLastPush, lastPushPrice, lastPrices, added, paused, relayed>>

-----------------------------------------------------------------------------
(* onBatchFlush *)

FilterPaused_WholeBatch(f) ==
    /\ flushes[f].pc = "filter"
    /\ flushes' = [flushes EXCEPT ![f] = IF In(flushes[f].batch) \subseteq paused THEN Idle
                                         ELSE Flush("lock", flushes[f].batch, 0)]
    /\ UNCHANGED <<sinceLastPush, lastPushPrice, lastPrices, added, buffer, paused, relayed>>

\* Paused symbols are dropped here, once; the attempts that follow do not look again.
FilterPaused(f) ==
    /\ flushes[f].pc = "filter"
    /\ LET kept == [s \in Symbols |-> IF s \in paused THEN NoPrice ELSE flushes[f].batch[s]]
       IN  flushes' = [flushes EXCEPT ![f] = IF kept = NoBatch THEN Idle
                                             ELSE Flush("lock", kept, 0)]
    /\ UNCHANGED <<sinceLastPush, lastPushPrice, lastPrices, added, buffer, paused, relayed>>

LockPusher_Unlocked(f) ==
    /\ flushes[f].pc = "lock"
    /\ flushes' = [flushes EXCEPT ![f].pc = "broadcast"]
    /\ UNCHANGED <<sinceLastPush, lastPushPrice, lastPrices, added, buffer, paused, relayed>>

\* p.mu is held for the time of one broadcast.
LockPusher(f) ==
    /\ flushes[f].pc = "lock"
    /\ \A g \in Flushers : flushes[g].pc # "broadcast"
    /\ flushes' = [flushes EXCEPT ![f].pc = "broadcast"]
    /\ UNCHANGED <<sinceLastPush, lastPushPrice, lastPrices, added, buffer, paused, relayed>>

Relay(batch) == [s \in Symbols |-> IF s \in In(batch) THEN batch[s] ELSE relayed[s]]

AfterFailure_OneMore(flush) ==
    IF flush.attempt < MaxRetries
    THEN Flush("backoff", flush.batch, flush.attempt + 1)
    ELSE Idle

AfterFailure_RetriesForever(flush) == Flush("backoff", flush.batch, flush.attempt)

\* The third failure drops the batch (and raises an alert).
AfterFailure(flush) ==
    IF flush.attempt + 1 < MaxRetries
    THEN Flush("backoff", flush.batch, flush.attempt + 1)
    ELSE Idle

Broadcast_IgnoresError(f, outcome) ==
    /\ flushes[f].pc = "broadcast"
    /\ relayed' = IF outcome = "rejected" THEN relayed ELSE Relay(flushes[f].batch)
    /\ flushes' = [flushes EXCEPT ![f].pc = "confirm"]
    /\ UNCHANGED <<sinceLastPush, lastPushPrice, lastPrices, added, buffer, paused>>

\* An unacknowledged broadcast reaches the chain, but the call reports an error,
\* a time out say.
Broadcast(f, outcome) ==
    /\ flushes[f].pc = "broadcast"
    /\ relayed' = IF outcome = "rejected" THEN relayed ELSE Relay(flushes[f].batch)
    /\ flushes' = [flushes EXCEPT ![f] = IF outcome = "ok" THEN [@ EXCEPT !.pc = "confirm"]
                                         ELSE AfterFailure(@)]
    /\ UNCHANGED <<sinceLastPush, lastPushPrice, lastPrices, added, buffer, paused>>

BackoffEnds(f) ==
    /\ flushes[f].pc = "backoff"
    /\ flushes' = [flushes EXCEPT ![f].pc = "lock"]
    /\ UNCHANGED <<sinceLastPush, lastPushPrice, lastPrices, added, buffer, paused, relayed>>

Confirmed(state, batch) ==
    [s \in Symbols |-> IF s \in In(batch) THEN batch[s].price ELSE state[s]]

\* One critical section of s.mu updates the throttler and lastPrices.
ConfirmPush(f) ==
    /\ flushes[f].pc = "confirm"
    /\ lastPushPrice' = Confirmed(lastPushPrice, flushes[f].batch)
    /\ sinceLastPush' = [s \in Symbols |-> IF s \in In(flushes[f].batch) THEN 0
                                           ELSE sinceLastPush[s]]
    /\ lastPrices' = Confirmed(lastPrices, flushes[f].batch)
    /\ flushes' = [flushes EXCEPT ![f] = Idle]
    /\ UNCHANGED <<added, buffer, paused, relayed>>

-----------------------------------------------------------------------------

\* The state manager, seen from here.
PauseChanges(s) ==
    /\ paused' = IF s \in paused THEN paused \ {s} ELSE paused \cup {s}
    /\ UNCHANGED <<sinceLastPush, lastPushPrice, lastPrices, added, buffer, flushes, relayed>>

Collects == \E s \in Symbols, price \in Levels, force \in Forces : CollectPrice(s, price, force)

OnBatchFlush(f) ==
    \/ FilterPaused(f)
    \/ LockPusher(f)
    \/ \E outcome \in Outcomes : Broadcast(f, outcome)
    \/ BackoffEnds(f)
    \/ ConfirmPush(f)

Next ==
    \/ Collects
    \/ TimePasses
    \/ \E f \in Flushers : StartFlush(f)
    \/ \E f \in Flushers : OnBatchFlush(f)
    \/ \E s \in Symbols : PauseChanges(s)

\* The ticker makes the collector flush.  A flush goroutine runs until it blocks;
\* a broadcast ends within its 30 s; a Go mutex lets no waiter starve.
Fairness ==
    /\ WF_vars(\E f \in Flushers : StartFlush(f))
    /\ \A f \in Flushers : WF_vars(OnBatchFlush(f)) /\ SF_vars(LockPusher(f))

Spec == Init /\ [][Next]_vars /\ Fairness

TypeOK ==
    /\ sinceLastPush \in [Symbols -> 0 .. MaxInterval]
    /\ lastPushPrice \in [Symbols -> Levels \cup {0}]
    /\ lastPrices    \in [Symbols -> Levels \cup {0}]
    /\ added   \in 0 .. MaxAdds
    /\ buffer  \in Batch
    /\ flushes \in [Flushers -> [pc : {"idle", "filter", "lock", "broadcast", "backoff", "confirm"},
                                 batch : Batch, attempt : 0 .. MaxRetries - 1]]
    /\ paused  \subseteq Symbols
    /\ relayed \in Batch

(* The pusher never broadcasts two batches at a time: the account sequence of the
   chain client would be used twice (PushBatchPricesWithSources). *)
OneBroadcastAtATime ==
    \A f, g \in Flushers :
        flushes[f].pc = "broadcast" /\ flushes[g].pc = "broadcast" => f = g

=============================================================================

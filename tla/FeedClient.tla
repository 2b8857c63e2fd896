----------------------------- MODULE FeedClient -----------------------------
(***************************************************************************)
(* A price feed's client (datasource/cex, gate and pyth, client.go).       *)
(* The three share one design: Start connects, a reader goroutine takes    *)
(* the messages of one connection to the service's handler, and when it    *)
(* loses the connection it signals the reconnect loop, which backs off,    *)
(* connects and starts the next reader, and gives up after a number of     *)
(* failures in a row.  The Pyth client reads an HTTP stream (Stream), the  *)
(* others a websocket; the Gate client also pings (Pings).                 *)
(*                                                                         *)
(* Connections are numbered as they are made.  A connection that Stop cut  *)
(* while it was being made shows as conn = 0: c.conn is nil again, or the  *)
(* request's context is cancelled.                                         *)
(***************************************************************************)
EXTENDS Integers

CONSTANTS
    Feeds,                  \* the clients of the model, among "cex", "gate", "pyth"
    MaxReconnectAttempts,   \* maxReconnectAttempts
    MaxConns                \* bound: connections that the peer accepts

ASSUME FeedAssumption ==
    /\ Feeds \subseteq {"cex", "gate", "pyth"} /\ Feeds # {}
    /\ MaxReconnectAttempts \in Nat \ {0} /\ MaxConns \in Nat \ {0}

VARIABLES
    feed,        \* which client this is
    start,       \* Start: "no", "dial", "subscribe", then "failed" or "started"
    stop,        \* Stop: "no", "flagged", "closed" (c.done), "returned"
    loop,        \* reconnectLoop: "none", "select", "backoff", "dial", "subscribe",
                 \* "exited", "fatal"
    signal,      \* whether c.reconnect, of capacity 1, is full
    count,       \* c.reconnectCount
    conn,        \* c.conn, or the connection that c.cancelFunc cancels; 0 is none
    dialled,     \* connections made so far
    open,        \* the connections that are up
    reader,      \* readMessages for each connection: "none", "starting", "reading", "ended"
    heartbeats   \* the connections whose heartbeat goroutine runs

vars == <<feed, start, stop, loop, signal, count, conn, dialled, open, reader, heartbeats>>

Conns == 1 .. MaxConns

Stream == feed = "pyth"
Pings  == feed = "gate"

IsStopping == stop # "no"
IsRunning  == start # "no" /\ ~ IsStopping

Init ==
    /\ feed \in Feeds
    /\ start = "no" /\ stop = "no" /\ loop = "none"
    /\ signal = FALSE /\ count = 0
    /\ conn = 0 /\ dialled = 0 /\ open = {}
    /\ reader = [k \in Conns |-> "none"]
    /\ heartbeats = {}

-----------------------------------------------------------------------------
(* connect, called by Start and by the loop *)

Start ==
    /\ start = "no"
    /\ start' = "dial"
    /\ UNCHANGED <<feed, stop, loop, signal, count, conn, dialled, open, reader, heartbeats>>

ConnectFails_NoSignal ==
    IF start \in {"dial", "subscribe"}
    THEN start' = "failed" /\ UNCHANGED <<loop, signal>>
    ELSE loop' = "select" /\ UNCHANGED <<start, signal>>

\* Start returns the error and starts no loop; the loop signals itself to go on.
ConnectFails ==
    IF start \in {"dial", "subscribe"}
    THEN start' = "failed" /\ UNCHANGED <<loop, signal>>
    ELSE loop' = "select" /\ signal' = TRUE /\ UNCHANGED start

ConnectSucceeds_KeepsCount ==
    IF start \in {"dial", "subscribe"}
    THEN start' = "started" /\ loop' = "select" /\ UNCHANGED count
    ELSE loop' = "select" /\ UNCHANGED <<start, count>>

ConnectSucceeds ==
    IF start \in {"dial", "subscribe"}
    THEN start' = "started" /\ loop' = "select" /\ UNCHANGED count
    ELSE loop' = "select" /\ count' = 0 /\ UNCHANGED start

\* A websocket is up once dialled; the stream's context is only made here.
Dial ==
    /\ "dial" \in {start, loop}
    /\ dialled < MaxConns
    /\ dialled' = dialled + 1
    /\ conn' = dialled'
    /\ open' = IF Stream THEN open ELSE open \cup {dialled'}
    /\ IF start = "dial" THEN start' = "subscribe" /\ UNCHANGED loop
                         ELSE loop' = "subscribe" /\ UNCHANGED start
    /\ UNCHANGED <<feed, stop, signal, count, reader, heartbeats>>

\* The peer cannot be reached: c.conn stays (and cancelFunc has nothing to cancel).
DialFails ==
    /\ "dial" \in {start, loop}
    /\ ConnectFails
    /\ UNCHANGED <<feed, stop, count, conn, dialled, open, reader, heartbeats>>

\* subscribe writes on c.conn; for the stream this is the request itself.
Subscribe ==
    /\ "subscribe" \in {start, loop}
    /\ conn # 0
    /\ open' = IF Stream THEN open \cup {conn} ELSE open
    /\ reader' = [reader EXCEPT ![dialled] = "starting"]
    /\ heartbeats' = IF Pings THEN heartbeats \cup {dialled} ELSE heartbeats
    /\ ConnectSucceeds
    /\ UNCHANGED <<feed, stop, signal, conn, dialled>>

SubscribeFails ==
    /\ "subscribe" \in {start, loop}
    /\ open' = open \ {dialled}
    /\ ConnectFails
    /\ UNCHANGED <<feed, stop, count, conn, dialled, reader, heartbeats>>

-----------------------------------------------------------------------------
(* reconnectLoop *)

LoopWakes_NeverGivesUp ==
    /\ loop = "select" /\ signal
    /\ signal' = FALSE
    /\ count' = count + 1
    /\ loop' = IF IsRunning THEN "backoff" ELSE "exited"
    /\ UNCHANGED <<feed, start, stop, conn, dialled, open, reader, heartbeats>>

LoopWakes ==
    /\ loop = "select" /\ signal
    /\ signal' = FALSE
    /\ count' = count + 1
    /\ loop' = IF ~ IsRunning THEN "exited"
               ELSE IF count' > MaxReconnectAttempts THEN "fatal" ELSE "backoff"
    /\ UNCHANGED <<feed, start, stop, conn, dialled, open, reader, heartbeats>>

\* time.Sleep does not notice Stop, nor does anything before connect.
LoopSlept ==
    /\ loop = "backoff"
    /\ loop' = "dial"
    /\ UNCHANGED <<feed, start, stop, signal, count, conn, dialled, open, reader, heartbeats>>

LoopExits ==
    /\ loop = "select" /\ stop \in {"closed", "returned"}
    /\ loop' = "exited"
    /\ UNCHANGED <<feed, start, stop, signal, count, conn, dialled, open, reader, heartbeats>>

-----------------------------------------------------------------------------
(* readMessages and heartbeat *)

\* A websocket's reader takes its connection from c.conn, which Stop clears.
ReaderStarts(k) ==
    /\ reader[k] = "starting"
    /\ reader' = [reader EXCEPT ![k] = IF ~ Stream /\ conn = 0 THEN "ended" ELSE "reading"]
    /\ UNCHANGED <<feed, start, stop, loop, signal, count, conn, dialled, open, heartbeats>>

ReaderFails_GoesOn(k) ==
    /\ reader[k] = "reading" /\ k \notin open
    /\ signal' = (signal \/ ~ IsStopping)
    /\ reader' = [reader EXCEPT ![k] = IF IsStopping THEN "ended" ELSE "reading"]
    /\ UNCHANGED <<feed, start, stop, loop, count, conn, dialled, open, heartbeats>>

ReaderFails(k) ==
    /\ reader[k] = "reading" /\ k \notin open
    /\ signal' = (signal \/ ~ IsStopping)
    /\ reader' = [reader EXCEPT ![k] = "ended"]
    /\ UNCHANGED <<feed, start, stop, loop, count, conn, dialled, open, heartbeats>>

\* Only the stream's reader looks at isStopping before it hands a message on.
ReaderSeesStop(k) ==
    /\ Stream /\ IsStopping
    /\ reader[k] = "reading" /\ k \in open
    /\ reader' = [reader EXCEPT ![k] = "ended"]
    /\ open' = open \ {k}
    /\ UNCHANGED <<feed, start, stop, loop, signal, count, conn, dialled, heartbeats>>

HeartbeatEnds_OnNilConn(k) ==
    /\ k \in heartbeats /\ conn = 0
    /\ heartbeats' = heartbeats \ {k}
    /\ UNCHANGED <<feed, start, stop, loop, signal, count, conn, dialled, open, reader>>

\* It ends at a tick, or when c.done is closed, which Stop does after isStopping.
HeartbeatEnds(k) ==
    /\ k \in heartbeats /\ (IsStopping \/ conn = 0)
    /\ heartbeats' = heartbeats \ {k}
    /\ UNCHANGED <<feed, start, stop, loop, signal, count, conn, dialled, open, reader>>

\* The peer, or the network.
PeerCloses(k) ==
    /\ k \in open
    /\ open' = open \ {k}
    /\ UNCHANGED <<feed, start, stop, loop, signal, count, conn, dialled, reader, heartbeats>>

-----------------------------------------------------------------------------
(* Stop, which the service calls once, after Start has returned *)

StopFlags ==
    /\ stop = "no" /\ start \in {"failed", "started"}
    /\ stop' = "flagged"
    /\ IF Stream THEN open' = open \ {conn} /\ conn' = 0 ELSE UNCHANGED <<open, conn>>
    /\ UNCHANGED <<feed, start, loop, signal, count, dialled, reader, heartbeats>>

StopCloses ==
    /\ stop = "flagged"
    /\ stop' = "closed"
    /\ UNCHANGED <<feed, start, loop, signal, count, conn, dialled, open, reader, heartbeats>>

StopReturns ==
    /\ stop = "closed"
    /\ stop' = "returned"
    /\ IF Stream THEN UNCHANGED <<open, conn>> ELSE open' = open \ {conn} /\ conn' = 0
    /\ UNCHANGED <<feed, start, loop, signal, count, dialled, reader, heartbeats>>

-----------------------------------------------------------------------------

Connect == Dial \/ DialFails \/ Subscribe \/ SubscribeFails

ReadMessages(k) == ReaderStarts(k) \/ ReaderFails(k) \/ ReaderSeesStop(k)

Next ==
    \/ Start
    \/ Connect
    \/ LoopWakes \/ LoopSlept \/ LoopExits
    \/ \E k \in Conns : ReadMessages(k)
    \/ \E k \in Conns : HeartbeatEnds(k)
    \/ \E k \in Conns : PeerCloses(k)
    \/ StopFlags \/ StopCloses \/ StopReturns

\* A dial or a write times out; the goroutines run, Stop too once it is called.
\* Nothing makes the service call Start or Stop, and nothing makes the peer close.
Fairness ==
    /\ WF_vars(Connect)
    /\ WF_vars(LoopWakes) /\ WF_vars(LoopSlept) /\ WF_vars(LoopExits)
    /\ WF_vars(StopCloses) /\ WF_vars(StopReturns)
    /\ \A k \in Conns : WF_vars(ReadMessages(k)) /\ WF_vars(HeartbeatEnds(k))

Spec == Init /\ [][Next]_vars /\ Fairness

TypeOK ==
    /\ feed \in Feeds
    /\ start \in {"no", "dial", "subscribe", "failed", "started"}
    /\ stop \in {"no", "flagged", "closed", "returned"}
    /\ loop \in {"none", "select", "backoff", "dial", "subscribe", "exited", "fatal"}
    /\ signal \in BOOLEAN
    /\ count \in 0 .. MaxReconnectAttempts + 1
    /\ conn \in 0 .. dialled /\ dialled \in 0 .. MaxConns
    /\ open \in SUBSET (1 .. dialled)
    /\ reader \in [Conns -> {"none", "starting", "reading", "ended"}]
    /\ heartbeats \in SUBSET Conns

=============================================================================

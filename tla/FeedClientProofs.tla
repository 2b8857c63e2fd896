-------------------------- MODULE FeedClientProofs --------------------------
(***************************************************************************)
(* Proofs about the feed clients.  The reader of the last connection and   *)
(* the reconnect loop hand over to each other: a signal is pending, or the *)
(* loop is at work on it, only while no reader is up.                      *)
(***************************************************************************)
EXTENDS MCFeedClient, TLAPS

\* What the type of the counter needs: the loop ends at its limit.
CountBound ==
    /\ loop \in {"none", "select", "backoff", "dial", "subscribe"} => count <= MaxReconnectAttempts
    /\ start \in {"no", "dial", "subscribe", "failed"} <=> loop = "none"

LEMMA TypesInduct == TypeOK /\ CountBound /\ [Next]_vars => (TypeOK /\ CountBound)'
<1>. SUFFICES ASSUME TypeOK, CountBound, [Next]_vars
              PROVE  (TypeOK /\ CountBound)'
  OBVIOUS
<1>. USE FeedAssumption DEF TypeOK, CountBound, Conns
<1>1. CASE Start
  BY <1>1 DEF Start
<1>2. CASE Dial
  BY <1>2 DEF Dial, Stream
<1>3. CASE DialFails
  BY <1>3 DEF DialFails, ConnectFails
<1>4. CASE Subscribe
  <2>1. open' \in SUBSET (1 .. dialled') /\ heartbeats' \in SUBSET Conns
    <3>1. conn \in 1 .. dialled /\ dialled \in Conns /\ dialled' = dialled
      BY <1>4 DEF Subscribe
    <3>2. open' = open \/ open' = open \cup {conn}
      BY <1>4 DEF Subscribe
    <3>3. heartbeats' = heartbeats \/ heartbeats' = heartbeats \cup {dialled}
      BY <1>4 DEF Subscribe
    <3>4. open' \in SUBSET (1 .. dialled)
      BY <3>1, <3>2
    <3>5. heartbeats' \in SUBSET Conns
      BY <3>1, <3>3
    <3>. QED  BY <3>1, <3>4, <3>5
  <2>2. reader' \in [Conns -> {"none", "starting", "reading", "ended"}]
    BY <1>4 DEF Subscribe
  <2>3. /\ start' \in {start, "started"} /\ count' \in {count, 0} /\ loop' = "select"
        /\ start' = start => start = "started"
        /\ loop \in {"none", "subscribe"}
        /\ UNCHANGED <<feed, stop, signal, conn, dialled>>
    <3>1. CASE start \in {"dial", "subscribe"}
      BY <1>4, <3>1 DEF Subscribe, ConnectSucceeds
    <3>2. CASE start \notin {"dial", "subscribe"}
      BY <1>4, <3>2 DEF Subscribe, ConnectSucceeds
    <3>. QED  BY <3>1, <3>2
  <2>. QED  BY <2>1, <2>2, <2>3
<1>5. CASE SubscribeFails
  <2>1. open' \in SUBSET (1 .. dialled)
    BY <1>5 DEF SubscribeFails
  <2>2. /\ \/ start' = "failed" /\ loop' = "none" /\ loop = "none"
           \/ start' = start /\ start = "started" /\ loop' = "select" /\ loop = "subscribe"
        /\ UNCHANGED <<feed, stop, count, conn, dialled, reader, heartbeats>>
    <3>1. CASE start \in {"dial", "subscribe"}
      BY <1>5, <3>1 DEF SubscribeFails, ConnectFails
    <3>2. CASE start \notin {"dial", "subscribe"}
      BY <1>5, <3>2 DEF SubscribeFails, ConnectFails
    <3>. QED  BY <3>1, <3>2
  <2>3. signal' \in BOOLEAN
    BY <1>5 DEF SubscribeFails, ConnectFails
  <2>. QED  BY <2>1, <2>2, <2>3
<1>6. CASE LoopWakes
  <2>1. count' \in 0 .. MaxReconnectAttempts + 1 /\ start = "started"
    BY <1>6 DEF LoopWakes
  <2>2. \/ loop' \in {"exited", "fatal"}
        \/ loop' = "backoff" /\ count' <= MaxReconnectAttempts
    BY <1>6, <2>1 DEF LoopWakes
  <2>3. signal' \in BOOLEAN
    BY <1>6 DEF LoopWakes
  <2>4. UNCHANGED <<feed, start, stop, conn, dialled, open, reader, heartbeats>>
    BY <1>6 DEF LoopWakes
  <2>. QED  BY <2>1, <2>2, <2>3, <2>4
<1>7. CASE LoopSlept \/ LoopExits
  BY <1>7 DEF LoopSlept, LoopExits
<1>8. ASSUME NEW k \in Conns, ReadMessages(k)
      PROVE  (TypeOK /\ CountBound)'
  BY <1>8 DEF ReadMessages, ReaderStarts, ReaderFails, ReaderSeesStop
<1>9. ASSUME NEW k \in Conns, HeartbeatEnds(k) \/ PeerCloses(k)
      PROVE  (TypeOK /\ CountBound)'
  BY <1>9 DEF HeartbeatEnds, PeerCloses
<1>10. CASE StopFlags \/ StopCloses \/ StopReturns
  <2>1. /\ stop' \in {"flagged", "closed", "returned"}
        /\ open' \in SUBSET open /\ conn' \in {conn, 0}
        /\ UNCHANGED <<feed, start, loop, signal, count, dialled, reader, heartbeats>>
    BY <1>10 DEF StopFlags, StopCloses, StopReturns
  <2>. QED  BY <2>1
<1>11. CASE UNCHANGED vars
  BY <1>11 DEF vars
<1>. QED
  BY <1>1, <1>2, <1>3, <1>4, <1>5, <1>6, <1>7, <1>8, <1>9, <1>10, <1>11 DEF Next, Connect

LEMMA Bounded == Spec => [](TypeOK /\ CountBound)
<1>1. ASSUME Init PROVE TypeOK /\ CountBound
  <2>1. reader \in [Conns -> {"none", "starting", "reading", "ended"}]
    BY <1>1 DEF Init
  <2>2. /\ feed \in Feeds /\ start = "no" /\ stop = "no" /\ loop = "none"
        /\ count = 0 /\ conn = 0 /\ dialled = 0
    BY <1>1 DEF Init
  <2>3. open = {} /\ heartbeats = {} /\ signal = FALSE
    BY <1>1 DEF Init
  <2>4. CountBound
    BY <2>2, FeedAssumption DEF CountBound
  <2>5. open \in SUBSET (1 .. dialled) /\ heartbeats \in SUBSET Conns /\ signal \in BOOLEAN
    BY <2>3
  <2>6. count \in 0 .. MaxReconnectAttempts + 1 /\ conn \in 0 .. dialled /\ dialled \in 0 .. MaxConns
    BY <2>2, FeedAssumption
  <2>. QED  BY <2>1, <2>2, <2>4, <2>5, <2>6 DEF TypeOK
<1>. QED  BY <1>1, TypesInduct, PTL DEF Spec

(* Every variable of a client keeps its type: the reconnect counter goes at most one
   over its limit, and a connection is one that was made (Start, Stop, connect,
   readMessages, reconnectLoop). *)
THEOREM ClientTypes == Spec => []TypeOK
BY Bounded, PTL

-----------------------------------------------------------------------------
(* The reader and the loop *)

Up(k) == reader[k] \in {"starting", "reading"}

Working == {"none", "backoff", "dial", "subscribe"}

\* The strengthening of OneReader: see the head of the module.
HandOver ==
    /\ \A j, k \in Conns : Up(j) /\ Up(k) => j = k
    /\ signal = TRUE \/ loop \in Working => \A k \in Conns : ~ Up(k)
    /\ loop \in Working => signal = FALSE

LEMMA HandOverInducts == TypeOK /\ CountBound /\ HandOver /\ [Next]_vars => HandOver'
<1>. SUFFICES ASSUME TypeOK, CountBound, HandOver, [Next]_vars
              PROVE  HandOver'
  OBVIOUS
<1>. USE DEF HandOver, Up, Working
<1>1. CASE Start \/ Dial \/ LoopSlept \/ LoopExits
  BY <1>1 DEF Start, Dial, LoopSlept, LoopExits, TypeOK, CountBound
<1>2. CASE DialFails
  <2>1. loop \in Working /\ reader' = reader
    BY <1>2 DEF DialFails, CountBound
  <2>2. loop' = "select" \/ UNCHANGED <<loop, signal>>
    <3>1. CASE start \in {"dial", "subscribe"}
      BY <1>2, <3>1 DEF DialFails, ConnectFails
    <3>2. CASE start \notin {"dial", "subscribe"}
      BY <1>2, <3>2 DEF DialFails, ConnectFails
    <3>. QED  BY <3>1, <3>2
  <2>. QED  BY <2>1, <2>2
<1>3. CASE SubscribeFails
  <2>1. loop \in Working /\ reader' = reader
    BY <1>3 DEF SubscribeFails, CountBound
  <2>2. loop' = "select" \/ UNCHANGED <<loop, signal>>
    <3>1. CASE start \in {"dial", "subscribe"}
      BY <1>3, <3>1 DEF SubscribeFails, ConnectFails
    <3>2. CASE start \notin {"dial", "subscribe"}
      BY <1>3, <3>2 DEF SubscribeFails, ConnectFails
    <3>. QED  BY <3>1, <3>2
  <2>. QED  BY <2>1, <2>2
<1>4. CASE Subscribe
  <2>1. loop \in Working /\ loop' = "select" /\ signal' = FALSE
    BY <1>4 DEF Subscribe, ConnectSucceeds, CountBound
  <2>2. reader' = [reader EXCEPT ![dialled] = "starting"]
    BY <1>4 DEF Subscribe
  <2>. QED  BY <2>1, <2>2 DEF TypeOK
<1>5. CASE LoopWakes
  BY <1>5 DEF LoopWakes
<1>6. ASSUME NEW k \in Conns, ReadMessages(k)
      PROVE  HandOver'
  <2>1. CASE ReaderStarts(k)
    BY <2>1 DEF ReaderStarts, TypeOK
  <2>2. CASE ReaderFails(k)
    BY <2>2 DEF ReaderFails, TypeOK
  <2>3. CASE ReaderSeesStop(k)
    BY <2>3 DEF ReaderSeesStop, TypeOK
  <2>. QED  BY <1>6, <2>1, <2>2, <2>3 DEF ReadMessages
<1>7. ASSUME NEW k \in Conns, HeartbeatEnds(k) \/ PeerCloses(k)
      PROVE  HandOver'
  BY <1>7 DEF HeartbeatEnds, PeerCloses
<1>8. CASE StopFlags \/ StopCloses \/ StopReturns
  BY <1>8 DEF StopFlags, StopCloses, StopReturns
<1>9. CASE UNCHANGED vars
  BY <1>9 DEF vars
<1>. QED
  BY <1>1, <1>2, <1>3, <1>4, <1>5, <1>6, <1>7, <1>8, <1>9 DEF Next, Connect

LEMMA HandsOver == Spec => []HandOver
<1>1. Init => HandOver
  BY DEF Init, HandOver, Up, Working
<1>. QED  BY <1>1, Bounded, HandOverInducts, PTL DEF Spec

(* However a client loses and renews its connections, at most one reader goroutine is
   up (readMessages, reconnectLoop). *)
THEOREM ReadersTakeTurns == Spec => []OneReader
<1>1. HandOver => OneReader
  BY DEF HandOver, OneReader, Up
<1>. QED  BY <1>1, HandsOver, PTL

-----------------------------------------------------------------------------
(* The fatal error *)

\* The counter is the failures in a row, and one more while an attempt is under way.
Counted ==
    /\ failures \in Int
    /\ loop \in {"none", "select"} => count = failures
    /\ loop \in {"backoff", "dial", "subscribe"} => count = failures + 1
    /\ loop = "fatal" => failures = MaxReconnectAttempts

LEMMA CountedInducts ==
    TypeOK /\ CountBound /\ HandOver /\ Counted /\ [MCNext]_mcVars => Counted'
<1>. SUFFICES ASSUME TypeOK, CountBound, HandOver, Counted, [MCNext]_mcVars
              PROVE  Counted'
  OBVIOUS
<1>1. CASE UNCHANGED mcVars
  BY <1>1 DEF mcVars, vars, Counted
<1>2. CASE loop' = loop /\ count' = count /\ MCNext
  BY <1>2 DEF MCNext, Reconnects, Counted
<1>3. CASE LoopWakes /\ MCNext
  BY <1>3, FeedAssumption DEF LoopWakes, MCNext, Reconnects, Counted, TypeOK, CountBound
<1>4. CASE (LoopSlept \/ LoopExits \/ Dial) /\ MCNext
  BY <1>4 DEF LoopSlept, LoopExits, Dial, MCNext, Reconnects, Counted
<1>5. CASE (DialFails \/ SubscribeFails) /\ MCNext
  BY <1>5 DEF DialFails, SubscribeFails, ConnectFails, MCNext, Reconnects, Counted, CountBound
<1>6. CASE Subscribe /\ MCNext
  <2>1. reader' # reader
    BY <1>6 DEF Subscribe, TypeOK, CountBound, HandOver, Up, Working, Conns
  <2>. QED
    BY <1>6, <2>1 DEF Subscribe, ConnectSucceeds, MCNext, Reconnects, Counted, CountBound
<1>7. [Next]_vars => \/ LoopWakes \/ LoopSlept \/ LoopExits \/ Connect
                     \/ loop' = loop /\ count' = count
  BY DEF Next, Start, ReadMessages, ReaderStarts, ReaderFails, ReaderSeesStop, HeartbeatEnds,
         PeerCloses, StopFlags, StopCloses, StopReturns, vars
<1>. QED
  BY <1>1, <1>2, <1>3, <1>4, <1>5, <1>6, <1>7 DEF MCNext, Connect

(* The fatal error comes after exactly the configured number of failures in a row
   (reconnectLoop). *)
THEOREM FatalAfterFailures == MCSpec => []FatalOnlyAfterFailedAttempts
<1>1. MCInit => Init /\ Counted
  BY DEF MCInit, Init, Counted
<1>2. [MCNext]_mcVars => [Next]_vars
  BY DEF MCNext, mcVars, vars
<1>3. MCSpec => Spec
  BY <1>1, <1>2, PTL DEF MCSpec, Spec
<1>4. Counted => FatalOnlyAfterFailedAttempts
  BY DEF Counted, FatalOnlyAfterFailedAttempts
<1>. QED
  BY <1>1, <1>3, <1>4, Bounded, HandsOver, CountedInducts, PTL DEF MCSpec

=============================================================================

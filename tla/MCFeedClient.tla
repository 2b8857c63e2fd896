---------------------------- MODULE MCFeedClient ----------------------------
(***************************************************************************)
(* The feed clients with one history variable: the reconnections that      *)
(* failed since the last one that succeeded.                               *)
(***************************************************************************)
EXTENDS FeedClient

VARIABLE failures

mcVars == <<vars, failures>>

MCInit == Init /\ failures = 0

Reconnects == loop \in {"dial", "subscribe"} /\ loop' = "select"

MCNext ==
    /\ Next
    /\ failures' = IF ~ Reconnects THEN failures
                   ELSE IF reader' = reader THEN failures + 1 ELSE 0

MCSpec == MCInit /\ [][MCNext]_mcVars /\ Fairness

-----------------------------------------------------------------------------

Reading == \E k \in Conns : reader[k] = "reading"

(* However a client loses and renews its connections, at most one reader goroutine is
   up, so the service's handler is never run by two of them at once and the messages
   of two connections do not mix (readMessages, reconnectLoop). *)
OneReader ==
    \A j, k \in Conns :
        reader[j] \in {"starting", "reading"} /\ reader[k] \in {"starting", "reading"} => j = k

(* The client declares the fatal error, which ends the program, after exactly the
   configured number of reconnections that failed in a row: a link that flaps but
   comes back does not add up to it (reconnectLoop). *)
FatalOnlyAfterFailedAttempts == loop = "fatal" => failures = MaxReconnectAttempts

(* A client that once started and then loses its connection reads again, or gives up
   with the fatal error, or is stopped: it never sits silent (reconnectLoop). *)
ReadsAgainOrGivesUp ==
    start = "started" /\ ~ Reading ~> (Reading \/ loop = "fatal" \/ IsStopping)

(* Once Stop is called the reconnect loop and the heartbeats end and none starts
   again, even when Stop comes in the middle of a reconnection that then succeeds.
   (The reader of that connection does go on: nothing closes it any more.) *)
StoppedClientWindsDown ==
    IsStopping ~> [](heartbeats = {} /\ loop \in {"none", "exited", "fatal"})

=============================================================================

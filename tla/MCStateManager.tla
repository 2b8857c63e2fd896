--------------------------- MODULE MCStateManager ---------------------------
(***************************************************************************)
(* The state manager under an unconstrained caller, with a history         *)
(* variable: how many polls in a row have failed.                          *)
(***************************************************************************)
EXTENDS StateManager

VARIABLE failRun        \* consecutive failed polls, up to MaxQueryFailures

vars == <<managerVars, failRun>>

Init == ManagerInit /\ failRun = 0

UpTo(n) == IF n < MaxQueryFailures THEN n ELSE MaxQueryFailures

PollOK(market, answers) ==
    /\ PollSucceeds(market, answers)
    /\ failRun' = 0

PollFailed ==
    /\ PollFails
    /\ failRun' = UpTo(failRun + 1)

Called ==
    /\ ServiceCall \/ RunsCallback
    /\ UNCHANGED failRun

Next ==
    \/ \E market \in MarketStatuses, answers \in [Symbols -> StockStatuses \cup {"error"}] :
           PollOK(market, answers)
    \/ PollFailed
    \/ Called

Spec == Init /\ [][Next]_vars

TypeOK ==
    /\ ManagerTypeOK
    /\ failRun \in 0 .. MaxQueryFailures

-----------------------------------------------------------------------------

(* The process gives up exactly when the last maxQueryFailures polls failed: a
   success in between starts the count again, and no service call disturbs it
   (pollStatus and handleQueryFailure). *)
FatalExactlyAfterConsecutiveFailures ==
    (pollLoop = "fatal") <=> (failRun = MaxQueryFailures)

(* A poll that changes the data source of a symbol starts exactly one switch
   callback, the one towards the new source, and a poll that does not change it
   starts none: no source is replaced behind the back of the 5 % check
   (updateStatus). *)
PollAnnouncesEverySwitch ==
    [][ Poll =>
          \A s \in Symbols :
              spawned'[s] = IF dataSources'[s] = dataSources[s] THEN spawned[s]
                            ELSE [spawned[s] EXCEPT ![dataSources'[s]] = @ + 1] ]_vars

=============================================================================

------------------------- MODULE StateManagerProofs -------------------------
(***************************************************************************)
(* Proofs about the state manager, for any symbols, any statuses the       *)
(* exchange may report and any limit of failures.                          *)
(***************************************************************************)
EXTENDS MCStateManager, TLAPS

USE DEF DataSources

LEMMA OtherTypes ==
    ASSUME NEW market, NEW stock
    PROVE  DecideDataSource(market, stock) \in DataSources
BY DEF DecideDataSource

(* What a successful poll leaves: well-typed statuses, pauses, sources and
   callbacks (updateStatus). *)
LEMMA UpdateTypes ==
    ASSUME TypeOK, NEW market \in MarketStatuses,
           NEW answers \in [Symbols -> StockStatuses \cup {"error"}],
           UpdateStatus(market, [s \in Symbols |-> StockStatusOf(answers[s])])
    PROVE  /\ marketStatus' \in MarketStatuses \cup {NotPolled}
           /\ stockStatuses' \in [Symbols -> StockStatuses \cup {"normal", NotPolled}]
           /\ pausedStocks' \in [Symbols -> PauseReasons \cup {NotPaused}]
           /\ dataSources' \in [Symbols -> DataSources]
           /\ spawned' \in [Symbols -> [DataSources -> 0 .. MaxSpawned]]
<1> DEFINE stocks == [s \in Symbols |-> StockStatusOf(answers[s])]
<1> USE DEF TypeOK, ManagerTypeOK
<1>1. stocks \in [Symbols -> StockStatuses \cup {"normal", NotPolled}]
  BY DEF StockStatusOf
<1>2. marketStatus' = market /\ stockStatuses' = stocks
  BY DEF UpdateStatus
<1>3. pausedStocks' \in [Symbols -> PauseReasons \cup {NotPaused}]
  BY DEF UpdateStatus, PausedAfter, PauseReasons, NotPaused
<1>4. dataSources' \in [Symbols -> DataSources]
  <2>1. \A s \in Symbols : DataSourceAfter(s, market, stocks[s]) \in DataSources
    BY OtherTypes DEF DataSourceAfter
  <2>. QED  BY <2>1 DEF UpdateStatus
<1>5. spawned' \in [Symbols -> [DataSources -> 0 .. MaxSpawned]]
  <2>1. ASSUME NEW s \in Symbols
        PROVE  SpawnedAfter(s, market, stocks[s]) \in [DataSources -> 0 .. MaxSpawned]
    <3> DEFINE new == DecideDataSource(market, stocks[s])
    <3>1. spawned[s] \in [DataSources -> 0 .. MaxSpawned]
      OBVIOUS
    <3>2. \A d \in DataSources : SpawnedAfter(s, market, stocks[s])[d] <= MaxSpawned
      BY DEF UpdateStatus
    <3>3. CASE ~Switches(s, market, stocks[s])
      BY <3>1, <3>3 DEF SpawnedAfter
    <3>4. CASE Switches(s, market, stocks[s])
      <4>1. SpawnedAfter(s, market, stocks[s]) = [spawned[s] EXCEPT ![new] = @ + 1]
        BY <3>4 DEF SpawnedAfter
      <4>2. new \in DataSources
        BY OtherTypes
      <4>. HIDE DEF new
      <4>3. SpawnedAfter(s, market, stocks[s]) \in [DataSources -> Nat]
        BY <3>1, <4>1, <4>2, StateManagerAssumption
      <4>. QED  BY <3>2, <4>3, StateManagerAssumption
    <3>. QED  BY <3>3, <3>4
  <2>. QED  BY <2>1 DEF UpdateStatus
<1>. QED  BY <1>1, <1>2, <1>3, <1>4, <1>5


-----------------------------------------------------------------------------

(* The counter of the code is the run of failures itself, and the loop has stopped
   exactly at the limit.  Without the second fact the types are not inductive: only a
   running loop counts, and it counts below the limit. *)
CountsRuns ==
    /\ queryFailureCount = failRun
    /\ (pollLoop = "fatal") <=> (failRun = MaxQueryFailures)

IInv == TypeOK /\ CountsRuns

LEMMA InitIInv == Init => IInv
<1> SUFFICES ASSUME Init PROVE IInv
  OBVIOUS
<1> USE DEF Init, ManagerInit
<1>1. dataSources \in [Symbols -> DataSources]
  OBVIOUS
<1>2. pausedStocks \in [Symbols -> PauseReasons \cup {NotPaused}]
  OBVIOUS
<1>3. /\ pythStatuses \in [Symbols -> OracleStatus]
      /\ gateStatuses \in [Symbols -> OracleStatus]
  BY DEF OracleStatus
<1>4. /\ marketStatus \in MarketStatuses \cup {NotPolled}
      /\ stockStatuses \in [Symbols -> StockStatuses \cup {"normal", NotPolled}]
  OBVIOUS
<1>5. spawned \in [Symbols -> [DataSources -> 0 .. MaxSpawned]]
  BY StateManagerAssumption
<1>6. CountsRuns /\ {queryFailureCount, failRun} \subseteq 0 .. MaxQueryFailures
  BY StateManagerAssumption DEF CountsRuns
<1>. QED  BY <1>1, <1>2, <1>3, <1>4, <1>5, <1>6 DEF IInv, TypeOK, ManagerTypeOK

LEMMA CountsStep == IInv /\ [Next]_vars => CountsRuns'
<1> USE DEF IInv
<1> SUFFICES ASSUME IInv, [Next]_vars PROVE CountsRuns'
  OBVIOUS
<1>1. ASSUME NEW market, NEW answers, PollOK(market, answers) PROVE CountsRuns'
  BY <1>1, StateManagerAssumption DEF PollOK, PollSucceeds, CountsRuns
<1>2. CASE PollFailed
  BY <1>2, StateManagerAssumption
  DEF PollFailed, PollFails, UpTo, CountsRuns, TypeOK, ManagerTypeOK
<1>3. CASE Called
  BY <1>3 DEF Called, ServiceCall, RunsCallback, PauseStock, ResumeStock, RollbackDataSource,
              SetPythStatus, SetGateStatus, RunCallback, CountsRuns
<1>4. CASE UNCHANGED vars
  BY <1>4 DEF vars, managerVars, CountsRuns
<1>. QED  BY <1>1, <1>2, <1>3, <1>4 DEF Next

LEMMA TypesStep == IInv /\ [Next]_vars => TypeOK'
<1> USE DEF IInv
<1> SUFFICES ASSUME IInv, [Next]_vars PROVE TypeOK'
  OBVIOUS
<1>1. ASSUME NEW market \in MarketStatuses,
             NEW answers \in [Symbols -> StockStatuses \cup {"error"}],
             PollOK(market, answers)
      PROVE  TypeOK'
  <2>1. /\ UpdateStatus(market, [s \in Symbols |-> StockStatusOf(answers[s])])
        /\ queryFailureCount' = 0 /\ failRun' = 0
        /\ UNCHANGED <<pythStatuses, gateStatuses, pollLoop>>
    BY <1>1, StateManagerAssumption DEF PollOK, PollSucceeds, UpTo, TypeOK
  <2>. QED
    BY <2>1, UpdateTypes, StateManagerAssumption DEF TypeOK, ManagerTypeOK
<1>2. CASE PollFailed
  <2>1. queryFailureCount < MaxQueryFailures
    BY <1>2, StateManagerAssumption DEF PollFailed, PollFails, CountsRuns, TypeOK, ManagerTypeOK
  <2>2. /\ queryFailureCount' \in 0 .. MaxQueryFailures
        /\ failRun' \in 0 .. MaxQueryFailures
        /\ pollLoop' \in {"running", "fatal"}
    BY <1>2, <2>1, StateManagerAssumption
    DEF PollFailed, PollFails, UpTo, TypeOK, ManagerTypeOK
  <2>. QED  BY <1>2, <2>2 DEF PollFailed, PollFails, TypeOK, ManagerTypeOK
<1>3. ASSUME NEW s \in Symbols, NEW reason \in PauseReasons, Called, PauseStock(s, reason)
      PROVE  TypeOK'
  BY <1>3 DEF Called, PauseStock, TypeOK, ManagerTypeOK
<1>4. ASSUME NEW s \in Symbols, Called, ResumeStock(s)
      PROVE  TypeOK'
  BY <1>4 DEF Called, ResumeStock, TypeOK, ManagerTypeOK
<1>5. ASSUME NEW s \in Symbols, NEW d \in DataSources, Called, RollbackDataSource(s, d)
      PROVE  TypeOK'
  BY <1>5 DEF Called, RollbackDataSource, TypeOK, ManagerTypeOK
<1>6. ASSUME NEW s \in Symbols, NEW status \in OracleStatus, Called, SetPythStatus(s, status)
      PROVE  TypeOK'
  BY <1>6 DEF Called, SetPythStatus, TypeOK, ManagerTypeOK
<1>7. ASSUME NEW s \in Symbols, NEW status \in OracleStatus, Called, SetGateStatus(s, status)
      PROVE  TypeOK'
  BY <1>7 DEF Called, SetGateStatus, TypeOK, ManagerTypeOK
<1>8. ASSUME NEW s \in Symbols, NEW new \in DataSources, Called, RunCallback(s, new)
      PROVE  TypeOK'
  <2>1. spawned[s][new] \in 0 .. MaxSpawned /\ spawned[s][new] > 0
    BY <1>8 DEF RunCallback, TypeOK, ManagerTypeOK
  <2>2. spawned' \in [Symbols -> [DataSources -> 0 .. MaxSpawned]]
    BY <1>8, <2>1, StateManagerAssumption DEF RunCallback, TypeOK, ManagerTypeOK
  <2>. QED  BY <1>8, <2>2 DEF Called, RunCallback, TypeOK, ManagerTypeOK
<1>9. CASE UNCHANGED vars
  BY <1>9 DEF vars, managerVars, TypeOK, ManagerTypeOK
<1>. QED
  BY <1>1, <1>2, <1>3, <1>4, <1>5, <1>6, <1>7, <1>8, <1>9
  DEF Next, Called, ServiceCall, RunsCallback

LEMMA Inductive == Spec => []IInv
BY InitIInv, CountsStep, TypesStep, PTL DEF Spec, IInv

(* Every state of the manager is well typed: failures are counted up to the limit
   and never past it, and no callback runs that no poll started (pollStatus,
   handleQueryFailure, updateStatus and the service's calls). *)
THEOREM ManagerTypes == Spec => []TypeOK
BY Inductive, PTL DEF IInv

(* A failure outside of a run of maxQueryFailures failed polls never ends the
   process, and such a run always does (pollStatus, handleQueryFailure). *)
THEOREM FatalAfterRunOfFailures == Spec => []FatalExactlyAfterConsecutiveFailures
<1>1. IInv => FatalExactlyAfterConsecutiveFailures
  BY DEF IInv, CountsRuns, FatalExactlyAfterConsecutiveFailures
<1>. QED  BY <1>1, Inductive, PTL


-----------------------------------------------------------------------------

(* A poll starts one callback for every data source it changes, and none otherwise
   (updateStatus). *)
THEOREM EverySwitchIsAnnounced == Spec => PollAnnouncesEverySwitch
<1> DEFINE Announced(s) ==
        spawned'[s] = IF dataSources'[s] = dataSources[s] THEN spawned[s]
                      ELSE [spawned[s] EXCEPT ![dataSources'[s]] = @ + 1]
<1>1. ASSUME TypeOK, NEW market, NEW answers, PollSucceeds(market, answers), NEW s \in Symbols
      PROVE  Announced(s)
  <2> DEFINE stock == StockStatusOf(answers[s])
             new   == DecideDataSource(market, stock)
  <2>1. /\ dataSources'[s] = DataSourceAfter(s, market, stock)
        /\ spawned'[s] = SpawnedAfter(s, market, stock)
    BY <1>1 DEF PollSucceeds, UpdateStatus
  <2>2. CASE ShouldPause(stock) \/ new = dataSources[s]
    BY <2>1, <2>2 DEF DataSourceAfter, SpawnedAfter, Switches
  <2>3. CASE ~ShouldPause(stock) /\ new # dataSources[s]
    BY <2>1, <2>3 DEF DataSourceAfter, SpawnedAfter, Switches
  <2>. QED  BY <2>2, <2>3
<1>2. ASSUME PollFails, NEW s \in Symbols PROVE Announced(s)
  BY <1>2 DEF PollFails
<1>3. TypeOK /\ [Next]_vars => [Poll => \A s \in Symbols : Announced(s)]_vars
  BY <1>1, <1>2 DEF Poll
<1>. QED  BY <1>3, ManagerTypes, PTL DEF Spec, PollAnnouncesEverySwitch

=============================================================================

----------------------- MODULE SchemaOperator_proofs ------------------------
(***************************************************************************)
(* The two controllers together: proofs about SchemaOperator.              *)
(*                                                                         *)
(* The invariants of the controllers do not interfere: a step of one is a  *)
(* step of its own specification, and to the other it is a change of what  *)
(* that one leaves to its environment.  Their theorems are cited for the   *)
(* instances S and R.                                                      *)
(***************************************************************************)
EXTENDS SchemaOperator, Sequences, TLAPS

(***************************************************************************)
(* The steps of the operator, by whose they are.                           *)
(***************************************************************************)
\* The Schema controller, its users, the network.
SchemaSide == [S!Next]_(S!vars) /\ SchemaAlone

\* The SchemaRegistry controller and its users.  The cache of a SchemaRegistry
\* changes together with an event that is not mapped yet.
RegistrySide ==
  /\ R!Next /\ UNCHANGED << schemaVars, serverVars >>
  /\ \A r \in RegistryKeys :
       /\ r \in registryEvents => r \in registryEvents'
       /\ registryCache'[r] # registryCache[r] => r \in registryEvents'
  /\ registryEvents' \subseteq registryEvents \cup RegistryKeys

\* Every step is of one side, or the event that passes from one to the other,
\* or it is someone else's, or a crash.
LEMMA StepKinds ==
  ASSUME TypeOK, [Next]_vars
  PROVE  \/ SchemaSide \/ RegistrySide \/ Outsider \/ Crash
         \/ \E r \in RegistryKeys : RegistryEvent(r)
<1>t. registryCache \in [RegistryKeys -> R!SchemaRegistry \cup {Nil}]
  BY DEF TypeOK, R!TypeOK, R!ClusterTypeOK
<1>1. CASE \/ SchemaStep \/ LateRequest
           \/ \E k \in SchemaKeys :
                SchemaDequeue(k) \/ SchemaInformer(k) \/ SchemaTimer(k)
  BY <1>1 DEF SchemaStep, LateRequest, SchemaDequeue, SchemaInformer,
     SchemaTimer, SchemaSide, S!Next
<1>2. ASSUME RegistryAlone,
             \/ R!Step \/ R!User
             \/ \E r \in RegistryKeys : R!Dequeue(r) \/ R!Timer(r)
             \/ \E s \in R!Secrets : R!SecretEvent(s)
      PROVE  RegistrySide
  <2>1. R!Next
    BY <1>2 DEF R!Next
  <2>2. registryCache' = registryCache
    BY <1>2 DEF R!Step, R!Load, R!HealthCheck, R!GetForStatus, R!PutStatus,
       R!GetForFailure, R!PutFailure, R!User, R!CreateRegistry,
       R!UpdateRegistry, R!DeleteRegistry, R!UserWrite, R!WriteSecret,
       R!Outage, R!clusterVars, R!Dequeue, R!Timer, R!DelayElapses,
       R!SecretEvent
  <2>. QED
    BY <1>2, <2>1, <2>2 DEF RegistryAlone, RegistrySide
<1>3. ASSUME NEW r \in RegistryKeys, RegistryInformer(r)
      PROVE  RegistrySide
  <2>1. R!Next
    BY <1>3 DEF RegistryInformer, R!Next
  <2>2. registryCache' = [registryCache EXCEPT ![r] = registryApi[r]]
    BY <1>3 DEF RegistryInformer, R!Informer, R!WatchEvent
  <2>. QED
    BY <1>3, <1>t, <2>1, <2>2 DEF RegistryInformer, RegistrySide
<1>4. CASE User
  BY <1>2, <1>4 DEF User, SchemaSide, S!Next, S!User
<1>5. CASE UNCHANGED vars
  BY <1>5 DEF vars, schemaVars, serverVars, registryVars, SchemaSide,
     SchemaAlone, S!vars, S!clusterVars, S!registryVars, S!envVars,
     S!workerVars, CachedURL, CredentialsLoad, R!DataIn
<1>. QED
  BY <1>1, <1>2, <1>3, <1>4, <1>5 DEF Next, RegistryStep, RegistryDequeue,
     RegistryTimer, SecretEvent

-----------------------------------------------------------------------------
\* The faults are one set for both.
LEMMA FaultsShared == R!FaultAssumption
BY OperatorAssumption DEF S!FaultAssumption, S!NetworkFaults, S!ApiFaults,
   R!FaultAssumption, R!NetworkFaults, R!ApiFaults

(***************************************************************************)
(* Each controller is right about the other.                               *)
(***************************************************************************)
\* What the Schema controller reads of a SchemaRegistry: a URL, or nothing.
ReadsTyped ==
  \A r \in RegistryKeys : /\ CachedURL(r) \in Servers \cup {Nil}
                          /\ CredentialsLoad(r) \in BOOLEAN

LEMMA ReadTypes == R!TypeOK => ReadsTyped
BY DEF ReadsTyped, CachedURL, CredentialsLoad, R!TypeOK, R!ClusterTypeOK,
   R!SchemaRegistry, R!SchemaRegistrySpec

LEMMA ReadTypesNext == R!TypeOK' => ReadsTyped'
BY ReadTypes, PTL

\* A step that is none of the Schema controller's keeps its types, if it keeps
\* those of the worker, the objects and the servers.
LEMMA SchemaTypes ==
  ASSUME R!TypeOK', S!ClusterTypeOK', S!WorkerTypeOK', S!RegistryTypeOK',
         webhooks' \in {TRUE}, edits' \in 0 .. MaxEdits
  PROVE  S!TypeOK'
<1>1. RegistryKeys = S!Registries
  BY DEF RegistryKeys, S!Registries, S!NamespacedName
<1>2. S!EnvTypeOK'
  BY <1>1, ReadTypesNext DEF S!EnvTypeOK, ReadsTyped
<1>. QED
  BY <1>2 DEF S!TypeOK

\* A step of the Schema controller is nothing to the other one.
LEMMA SchemaSideKeeps ==
  ASSUME S!SettledInv, R!MonitorInv, SchemaSide
  PROVE  S!SettledInv' /\ R!MonitorInv'
<1>1. S!SettledInv'
  BY S!SettledStep, OperatorAssumption DEF SchemaSide
<1>2. R!TypeOK'
  <2>1. edits' \in 0 .. MaxEdits /\ faults' \in 0 .. MaxFaults
    BY <1>1 DEF S!SettledInv, S!CopiesInv, S!TypeOK, S!EnvTypeOK,
       S!RegistryTypeOK
  <2>. QED
    BY <2>1 DEF R!MonitorInv, R!TypeOK, R!ClusterTypeOK, R!EnvTypeOK,
       R!WorkerTypeOK, SchemaSide, SchemaAlone, registryVars
<1>3. R!MonitorInv'
  BY <1>2, R!AloneMonitor, FaultsShared, OperatorAssumption
     DEF SchemaSide, SchemaAlone, registryVars, R!clusterVars, R!workerVars
<1>. QED
  BY <1>1, <1>3

\* To the Schema controller a step of the other one is a change of a registry,
\* that says nothing yet.
LEMMA RegistrySideKeeps ==
  ASSUME S!SettledInv, R!MonitorInv, RegistrySide
  PROVE  S!SettledInv' /\ R!MonitorInv'
<1>1. R!MonitorInv'
  BY R!MonitorStep, FaultsShared, OperatorAssumption DEF RegistrySide
<1>2. S!TypeOK'
  <2>1. edits' \in 0 .. MaxEdits /\ faults' \in 0 .. MaxFaults /\ R!TypeOK'
    BY <1>1 DEF R!MonitorInv, R!TypeOK, R!EnvTypeOK
  <2>. QED
    BY <2>1, SchemaTypes
       DEF S!SettledInv, S!CopiesInv, S!TypeOK, S!ClusterTypeOK, S!WorkerTypeOK,
           S!RegistryTypeOK, S!EnvTypeOK, RegistrySide, schemaVars, serverVars
<1>3. S!SettledInv'
  BY <1>2, S!AloneSettled, OperatorAssumption
     DEF RegistrySide, schemaVars, S!workerVars
<1>. QED
  BY <1>1, <1>3

\* The event of a SchemaRegistry only queues Schemas.
LEMMA EventKeeps ==
  ASSUME S!SettledInv, R!MonitorInv, NEW r \in RegistryKeys, RegistryEvent(r)
  PROVE  S!SettledInv' /\ R!MonitorInv'
<1>1. R!TypeOK' /\ R!MonitorInv'
  <2>1. R!TypeOK'
    BY DEF R!MonitorInv, R!TypeOK, R!ClusterTypeOK, R!EnvTypeOK,
       R!WorkerTypeOK, RegistryEvent, registryVars
  <2>. QED
    BY <2>1, R!AloneMonitor, FaultsShared, OperatorAssumption
       DEF RegistryEvent, registryVars, R!clusterVars, R!workerVars
<1>2. \A k \in SchemaKeys :
        schemaSched'[k] = schemaSched[k] \/ schemaSched'[k] = "ready"
  BY DEF RegistryEvent, S!Enqueue
<1>3. S!TypeOK'
  <2>1. schemaSched' \in [SchemaKeys -> S!SchedStates]
    BY DEF RegistryEvent, S!Enqueue, S!SettledInv, S!CopiesInv, S!TypeOK,
       S!ClusterTypeOK, S!SchedStates
  <2>. QED
    BY <1>1, <2>1, SchemaTypes
       DEF S!SettledInv, S!CopiesInv, S!TypeOK, S!ClusterTypeOK, S!WorkerTypeOK,
           S!RegistryTypeOK, S!EnvTypeOK, RegistryEvent, serverVars
<1>4. S!SettledInv'
  BY <1>2, <1>3, S!AloneSettled, OperatorAssumption
     DEF RegistryEvent, S!workerVars
<1>. QED
  BY <1>1, <1>4

\* Another user of the servers is none of the controllers' business.
LEMMA OutsiderKeeps ==
  ASSUME S!SettledInv, R!MonitorInv, Outsider
  PROVE  S!SettledInv' /\ R!MonitorInv'
<1>1. edits' \in 0 .. MaxEdits
  <2>1. S!Edit /\ edits \in 0 .. MaxEdits /\ MaxEdits \in Nat
    BY OperatorAssumption
       DEF Outsider, R!MonitorInv, R!TypeOK, R!EnvTypeOK, S!RuntimeAssumption
  <2>. QED
    BY <2>1 DEF S!Edit
<1>2. R!TypeOK' /\ R!MonitorInv'
  <2>1. R!TypeOK'
    BY <1>1 DEF R!MonitorInv, R!TypeOK, R!ClusterTypeOK, R!EnvTypeOK,
       R!WorkerTypeOK, Outsider, registryVars
  <2>. QED
    BY <2>1, R!AloneMonitor, FaultsShared, OperatorAssumption
       DEF Outsider, registryVars, R!clusterVars, R!workerVars
<1>3. S!RegistryTypeOK'
  <2>1. << >> \in Seq(Contents)
    OBVIOUS
  <2>2. S!RegistryTypeOK
    BY DEF S!SettledInv, S!CopiesInv, S!TypeOK
  <2>3. /\ subjects' \in [Servers -> [Subjects -> Seq(Contents)]]
        /\ levels' \in [Servers -> [Subjects -> SUBSET Levels]]
    <3>1. PICK v \in Servers, j \in Subjects :
            \/ /\ subjects' = [subjects EXCEPT ![v][j] = << >>]
               /\ UNCHANGED levels
            \/ /\ levels' = [levels EXCEPT ![v][j] = {}]
               /\ UNCHANGED subjects
      BY DEF Outsider
    <3>2. CASE subjects' = [subjects EXCEPT ![v][j] = << >>] /\ UNCHANGED levels
      BY <2>1, <2>2, <3>2 DEF S!RegistryTypeOK
    <3>3. CASE levels' = [levels EXCEPT ![v][j] = {}] /\ UNCHANGED subjects
      BY <2>2, <3>3 DEF S!RegistryTypeOK
    <3>. QED
      BY <3>1, <3>2, <3>3
  <2>. QED
    BY <2>2, <2>3 DEF S!RegistryTypeOK, Outsider
<1>4. S!SettledInv'
  <2>1. S!TypeOK'
    BY <1>1, <1>2, <1>3, SchemaTypes
       DEF S!SettledInv, S!CopiesInv, S!TypeOK, S!ClusterTypeOK, S!WorkerTypeOK,
           S!EnvTypeOK, Outsider, schemaVars
  <2>. QED
    BY <2>1, S!AloneSettled, OperatorAssumption
       DEF Outsider, schemaVars, S!workerVars
<1>. QED
  BY <1>2, <1>4

\* Nor does it disturb the one that the other goes down with it.
LEMMA CrashKeeps ==
  ASSUME S!SettledInv, R!MonitorInv, Crash
  PROVE  S!SettledInv' /\ R!MonitorInv'
<1>1. R!MonitorInv'
  BY R!MonitorStep, FaultsShared, OperatorAssumption DEF Crash, R!Next
<1>2. /\ edits' \in 0 .. MaxEdits /\ faults' \in 0 .. MaxFaults /\ R!TypeOK'
      /\ webhooks' \in {TRUE}
  BY <1>1 DEF R!MonitorInv, R!TypeOK, R!EnvTypeOK, Crash, S!Restart
<1>3. S!ClusterTypeOK' /\ S!RegistryTypeOK' /\ S!WorkerTypeOK'
  BY <1>2, S!RestartType, OperatorAssumption
     DEF Crash, S!SettledInv, S!CopiesInv, S!TypeOK
<1>4. S!SettledInv'
  BY <1>2, <1>3, SchemaTypes, S!RestartSettled, OperatorAssumption DEF Crash
<1>. QED
  BY <1>1, <1>4

\* ControllersInv is inductive.
LEMMA ControllersStep ==
  ASSUME ControllersInv, [Next]_vars
  PROVE  ControllersInv'
<1>1. TypeOK
  BY DEF ControllersInv, TypeOK, S!SettledInv, S!CopiesInv, R!MonitorInv
<1>2. S!SettledInv' /\ R!MonitorInv'
  BY <1>1, StepKinds, SchemaSideKeeps, RegistrySideKeeps, EventKeeps,
     OutsiderKeeps, CrashKeeps DEF ControllersInv
<1>3. registryEvents' \subseteq RegistryKeys
  BY <1>1, StepKinds DEF TypeOK, SchemaSide, SchemaAlone, RegistrySide,
     RegistryEvent, Outsider, Crash
<1>. QED
  BY <1>2, <1>3 DEF ControllersInv

\* The manager may start over what an earlier one left at rest.
LEMMA ControllersInit == Init => ControllersInv
<1>. SUFFICES ASSUME Init PROVE ControllersInv
  OBVIOUS
<1>a. /\ 1 \in Nat /\ Nil \notin S!SchemaObject
      /\ SchemaSpecs \in [SchemaKeys -> SUBSET S!SchemaSpec]
      /\ RegistrySpecs \in [RegistryKeys -> SUBSET R!SchemaRegistrySpec]
      /\ MaxEdits \in Nat /\ MaxFaults \in Nat
  BY OperatorAssumption DEF S!ReconcilerAssumption, S!FaultAssumption,
     S!RuntimeAssumption, R!RegistryReconcilerAssumption
<1>1. ASSUME NEW spec \in UNION Range(SchemaSpecs)
      PROVE  RegisteredSchema(spec) \in S!SchemaObject
  <2>1. spec \in S!SchemaSpec /\ spec.content \in Contents
    BY <1>a DEF Range, S!SchemaSpec
  <2>. QED
    BY <1>a, <2>1 DEF RegisteredSchema, S!SchemaObject, S!SchemaStatus, S!Reasons
<1>2. ASSUME NEW spec \in UNION Range(RegistrySpecs)
      PROVE  ConnectedRegistry(spec) \in R!SchemaRegistry
  <2>1. spec \in R!SchemaRegistrySpec
    BY <1>a DEF Range
  <2>. QED
    BY <1>a, <2>1 DEF ConnectedRegistry, R!SchemaRegistry,
       R!SchemaRegistryStatus, R!Reasons
<1>3. /\ schemaApi \in [SchemaKeys -> S!SchemaObject \cup {Nil}]
      /\ registryApi \in [RegistryKeys -> R!SchemaRegistry \cup {Nil}]
  BY <1>1, <1>2 DEF Init
<1>4. R!ClusterTypeOK /\ R!EnvTypeOK
  <2>1. secrets \in [R!Secrets -> R!SecretStates]
    BY OperatorAssumption DEF Init, R!RegistryReconcilerAssumption
  <2>. QED
    BY <1>a, <1>3, <2>1 DEF Init, R!ClusterTypeOK, R!EnvTypeOK, R!SchedStates
<1>5. R!WorkerTypeOK
  BY DEF Init, R!WorkerTypeOK, R!NoAuth, R!AuthConfigs, R!AuthTypes,
     R!SecretStates
<1>6. S!ClusterTypeOK
  BY <1>3 DEF Init, S!ClusterTypeOK, S!SchedStates
<1>7. S!RegistryTypeOK
  <2>1. \A c \in Contents : << c >> \in Seq(Contents)
    OBVIOUS
  <2>2. subjects \in [Servers -> [Subjects -> Seq(Contents)]]
    <3>1. {<< >>} \cup {<< c >> : c \in Contents} \subseteq Seq(Contents)
      <4>1. << >> \in Seq(Contents)
        OBVIOUS
      <4>. QED
        BY <2>1, <4>1, Zenon
    <3>2. subjects \in
            [Servers -> [Subjects -> {<< >>} \cup {<< c >> : c \in Contents}]]
      BY DEF Init
    <3>. HIDE DEF Init
    <3>. QED
      BY <3>1, <3>2
  <2>3. levels \in [Servers -> [Subjects -> SUBSET Levels]]
    BY DEF Init
  <2>. QED
    BY <1>a, <2>2, <2>3 DEF Init, S!RegistryTypeOK
<1>8. S!WorkerTypeOK
  BY DEF Init, S!WorkerTypeOK, S!NoResp, S!Response, S!Reasons, S!RegistryCalls
<1>9. S!EnvTypeOK
  BY <1>a, <1>4, <1>5, ReadTypes DEF Init, R!TypeOK, S!EnvTypeOK, ReadsTyped,
     RegistryKeys, S!Registries, S!NamespacedName
<1>10. S!SettledInv
  <2>1. S!TypeOK
    BY <1>6, <1>7, <1>8, <1>9 DEF S!TypeOK
  <2>2. \A k \in SchemaKeys : schemaApi[k] # Nil =>
          /\ schemaApi[k].finalizer /\ ~schemaApi[k].deleting
          /\ schemaSched[k] = "ready"
    BY <1>a DEF Init, RegisteredSchema
  <2>3. S!CopiesInv
    BY <2>1, <2>2 DEF Init, S!CopiesInv, S!CacheIsStored, S!CopyIsStored,
       S!CacheLags, S!FinalizerIsStored, S!CopyFitsBranch, S!RegisterCalls,
       S!DeleteCalls
  <2>. QED
    BY <2>2, <2>3 DEF Init, S!SettledInv, S!WorkIsOfCached,
       S!DeletedHasFinalizer, S!SettledSchemaIsReady, S!Settled
<1>11. R!MonitorInv
  BY <1>4, <1>5 DEF Init, R!TypeOK, R!MonitorInv, R!CacheIsStored,
     R!CopyIsStored, R!CopyIsCached, R!FailureIsCurrent, R!RestIsFailure, R!Due
<1>. QED
  BY <1>10, <1>11 DEF Init, ControllersInv

\* It holds in every reachable state.
THEOREM ControllersCorrect == Spec => []ControllersInv
BY ControllersInit, ControllersStep, PTL DEF Spec

\* Every variable of the operator keeps its type.
THEOREM OperatorTypeCorrect == Spec => []TypeOK
<1>1. ControllersInv => TypeOK
  BY DEF ControllersInv, TypeOK, S!SettledInv, S!CopiesInv, R!MonitorInv
<1>. QED
  BY <1>1, ControllersCorrect, PTL

\* The status of a SchemaRegistry depends on nothing of the Schema controller.
LEMMA StatusKept ==
  ASSUME R!Stable, R!StatusInv, ControllersInv, [Next]_vars
  PROVE  R!StatusInv'
<1>1. TypeOK
  BY DEF ControllersInv, TypeOK, S!SettledInv, S!CopiesInv, R!MonitorInv
<1>2. R!TypeOK'
  BY ControllersStep DEF ControllersInv, R!MonitorInv
<1>3. CASE RegistrySide \/ Crash
  BY <1>3, R!StatusStep, FaultsShared, OperatorAssumption
     DEF RegistrySide, Crash, R!Next
<1>4. CASE \/ SchemaSide \/ Outsider \/ \E r \in RegistryKeys : RegistryEvent(r)
  BY <1>2, <1>4, R!AloneStatus, FaultsShared, OperatorAssumption
     DEF SchemaSide, SchemaAlone, Outsider, RegistryEvent, registryVars,
         R!clusterVars, R!workerVars
<1>. QED
  BY <1>1, <1>3, <1>4, StepKinds

\* Neither controller breaks a promise of the other, whatever the faults and
\* the edits, and whoever else uses the servers.
THEOREM PromisesKept == Spec => []ControllersKeepPromises
<1>1. ASSUME ControllersInv
      PROVE  /\ S!FinalizerGuardsRegistration /\ S!SettledSchemaIsReady
             /\ R!RegistryIsMonitored
  <2>1. S!FinalizerGuardsRegistration /\ S!SettledSchemaIsReady
    BY <1>1 DEF ControllersInv, S!SettledInv, S!CopiesInv, S!FinalizerIsStored,
       S!FinalizerGuardsRegistration
  <2>2. R!RegistryIsMonitored
    BY <1>1, R!MonitorImplies, FaultsShared, OperatorAssumption
       DEF ControllersInv
  <2>. QED
    BY <2>1, <2>2
<1>2. Init => R!StatusInv
  <2>. SUFFICES ASSUME Init PROVE R!StatusInv
    OBVIOUS
  <2>1. R!MonitorInv
    BY ControllersInit DEF ControllersInv
  <2>. QED
    BY <2>1 DEF Init, R!StatusInv, R!WorkIsOfCached, R!CheckIsCurrent,
       R!RestIsTrue, R!Due
<1>3. ControllersInv /\ (R!Stable => R!StatusInv) /\ [Next]_vars =>
        (R!Stable => R!StatusInv)'
  BY StatusKept DEF R!Stable
<1>4. ControllersInv /\ (R!Stable => R!StatusInv) => ControllersKeepPromises
  BY <1>1, R!StatusImplies, FaultsShared, OperatorAssumption
     DEF ControllersKeepPromises
<1>. QED
  BY <1>2, <1>3, <1>4, ControllersCorrect, PTL DEF Spec

-----------------------------------------------------------------------------
(***************************************************************************)
(* SettledSchemaIsServed, under ServedHypothesis.                          *)
(***************************************************************************)
Work == {"register", "latest", "setCompatibility", "getStatus", "putStatus"}

\* A Schema refers to a SchemaRegistry of its own namespace.
LEMMA OwnNamespace ==
  ASSUME ServedHypothesis, NEW k \in SchemaKeys, NEW o, o.spec \in SchemaSpecs[k]
  PROVE  S!RegistryOf(k, o) =
           [namespace |-> k.namespace, name |-> o.spec.registryRef.name]
BY DEF ServedHypothesis, S!RegistrationHypothesis, S!RegistryOf

\* The event of a SchemaRegistry that is mapped queues every Schema that refers
\* to it, as the cache has them.
LEMMA EventQueues ==
  ASSUME ServedHypothesis, S!SpecsAreOfKey, NEW r \in RegistryKeys,
         RegistryEvent(r), NEW k \in SchemaKeys, schemaCache[k] # Nil,
         schemaSched'[k] # "ready"
  PROVE  S!RegistryOf(k, schemaCache[k]) # r
<1>1. k \notin S!FindSchemasForRegistry(r)
  BY DEF RegistryEvent, S!Enqueue
<1>2. S!RegistryOf(k, schemaCache[k]) =
        [namespace |-> k.namespace,
         name |-> schemaCache[k].spec.registryRef.name]
  BY OwnNamespace DEF S!SpecsAreOfKey
<1>. QED
  BY <1>1, <1>2 DEF S!FindSchemasForRegistry

\* No request becomes late, and copies keep the specs of their keys.
LEMMA SpecsKept ==
  ASSUME ServedHypothesis, ServedInv, [Next]_vars
  PROVE  late' = {} /\ S!SpecsAreOfKey'
<1>1. TypeOK /\ S!TypeOK /\ "late" \notin FaultKinds /\ ~Outsider
  BY DEF ServedHypothesis, S!RegistrationHypothesis, ServedInv, ControllersInv,
     TypeOK, S!SettledInv, S!CopiesInv, R!MonitorInv, Outsider
<1>2. CASE SchemaSide
  BY <1>1, <1>2, S!NothingLate, S!SpecsStep, OperatorAssumption
     DEF SchemaSide, ServedInv
<1>3. CASE Crash
  BY <1>1, <1>3 DEF Crash, S!Restart, S!Relist, S!Idle, ServedInv,
     S!SpecsAreOfKey
<1>4. ASSUME UNCHANGED << late, schemaApi, schemaCache, schemaPc, schemaKey,
                          schema >>
      PROVE  late' = {} /\ S!SpecsAreOfKey'
  BY <1>4 DEF ServedInv, S!SpecsAreOfKey
<1>. QED
  BY <1>1, <1>2, <1>3, <1>4, StepKinds
     DEF RegistrySide, RegistryEvent, schemaVars, serverVars

\* The cache of a SchemaRegistry stays, or its event is still to be mapped.
LEMMA UrlKept ==
  ASSUME SchemaSide \/ RegistrySide \/ \E i \in RegistryKeys : RegistryEvent(i),
         NEW r \in RegistryKeys, r \notin registryEvents'
  PROVE  /\ registryCache'[r] = registryCache[r]
         /\ r \in registryEvents => RegistryEvent(r)
BY DEF SchemaSide, SchemaAlone, RegistrySide, RegistryEvent, registryVars

\* The steps of the Schema controller keep what a reconcile relies on: only the
\* worker itself moves on, and it reads the URL that is cached at the moment.
LEMMA WorkOfSchemaSide ==
  ASSUME ServedHypothesis, ServedInv, SchemaSide,
         schemaPc' \in Work, schemaSched'[schemaKey'] # "ready",
         S!RegistryOf(schemaKey', schema') \notin registryEvents
  PROVE  /\ server' = CachedURL(S!RegistryOf(schemaKey', schema'))
         /\ schemaPc' # "register" =>
              schema'.spec.content \in
                S!Range(subjects'[server'][schema'.spec.subject])
<1>t. /\ S!TypeOK /\ S!SettledInv /\ S!WorkIsOfCached /\ late = {}
      /\ "late" \notin FaultKinds
      /\ schemaPc # "idle" => schemaKey \in SchemaKeys
      /\ schema \in S!SchemaObject \cup {Nil}
      /\ schemaPc # "idle" => schema # Nil
  BY DEF ServedHypothesis, S!RegistrationHypothesis, ServedInv, ControllersInv,
     S!SettledInv, S!CopiesInv, S!TypeOK, S!WorkerTypeOK
<1>1. CASE S!Step
  <2>1. schemaPc # "idle" /\ (schemaKey' = schemaKey \/ schemaPc' = "idle")
    BY <1>1 DEF S!Step, S!AddFinalizer, S!Refetch, S!BuildClient,
       S!RegisterSchema, S!GetLatestVersion, S!SetCompatibility,
       S!GetForStatus, S!PutStatus, S!GetForFailure, S!PutFailure,
       S!BuildClientForDelete, S!DeleteSubject, S!RemoveFinalizer, S!Get,
       S!Continue, S!Fail, S!Done, S!Retry, S!Idle
  <2>2. S!RegistryOf(schemaKey, schema) \in RegistryKeys
    BY <1>t, <2>1, S!RegistryOfType, OperatorAssumption
       DEF RegistryKeys, S!Registries, S!NamespacedName
  <2>3. /\ UNCHANGED << schemaKey, schema, schemaSched >>
        /\ \/ /\ schemaPc' = "register"
              /\ server' = CachedURL(S!RegistryOf(schemaKey, schema))
           \/ /\ schemaPc = "register" /\ UNCHANGED server
              /\ schema.spec.content \in
                   S!Range(subjects'[server][schema.spec.subject])
           \/ /\ schemaPc \in {"latest", "setCompatibility", "getStatus"}
              /\ schemaPc' # "register"
              /\ UNCHANGED << server, subjects >>
    BY <1>1, <1>t, <2>1, <2>2, S!StepServes, OperatorAssumption DEF Work
  <2>. QED
    BY <2>3 DEF ServedInv, WorkIsServed, S!Registered, Work
<1>2. CASE S!Crash \/ \E k \in SchemaKeys : S!Dequeue(k)
  BY <1>2 DEF S!Crash, S!Restart, S!Idle, S!Dequeue, S!FirstCall, Work
<1>3. CASE ~S!Step /\ ~S!Crash /\ ~\E k \in SchemaKeys : S!Dequeue(k)
  <2>1. /\ UNCHANGED << schemaPc, schemaKey, schema, server, subjects >>
        /\ \A k \in SchemaKeys :
             schemaSched'[k] # "ready" => schemaSched[k] # "ready"
    BY <1>3, <1>t, S!WorkerWaits, OperatorAssumption DEF SchemaSide
  <2>. QED
    BY <1>t, <2>1 DEF ServedInv, WorkIsServed, S!Registered, Work
<1>. QED
  BY <1>1, <1>2, <1>3

\* So does every other step.
LEMMA WorkKept ==
  ASSUME ServedHypothesis, ServedInv, [Next]_vars
  PROVE  WorkIsServed'
<1>t. /\ TypeOK /\ S!WorkIsOfCached /\ ~Outsider
      /\ schemaPc # "idle" => schemaKey \in SchemaKeys /\ schema # Nil
      /\ schema \in S!SchemaObject \cup {Nil}
  BY DEF ServedHypothesis, ServedInv, ControllersInv, TypeOK, S!SettledInv,
     S!CopiesInv, R!MonitorInv, S!TypeOK, S!WorkerTypeOK, Outsider
<1>. SUFFICES
       ASSUME NEW r, r = S!RegistryOf(schemaKey', schema'),
              schemaPc' \in Work, schemaSched'[schemaKey'] # "ready",
              r \notin registryEvents'
       PROVE  /\ server' = IF registryCache'[r] = Nil THEN Nil
                           ELSE registryCache'[r].spec.url
              /\ schemaPc' # "register" =>
                   schema'.spec.content \in
                     S!Range(subjects'[server'][schema'.spec.subject])
  BY Zenon DEF WorkIsServed, S!Registered, Work, S!RegistryOf, CachedURL
<1>1. CASE SchemaSide
  BY <1>1, WorkOfSchemaSide
     DEF SchemaSide, SchemaAlone, registryVars, CachedURL
<1>2. CASE Crash
  BY <1>2 DEF Crash, S!Restart, S!Idle, Work
<1>3. CASE RegistrySide \/ \E i \in RegistryKeys : RegistryEvent(i)
  <2>1. UNCHANGED << schemaPc, schemaKey, schema, server, subjects >>
    BY <1>3 DEF RegistrySide, RegistryEvent, schemaVars, serverVars
  <2>2. schemaKey \in SchemaKeys /\ schema \in S!SchemaObject
    BY <1>t, <2>1 DEF Work
  <2>3. r = S!RegistryOf(schemaKey, schema) /\ r \in RegistryKeys
    BY <2>1, <2>2, S!RegistryOfType, OperatorAssumption
       DEF RegistryKeys, S!Registries, S!NamespacedName
  <2>4. schemaSched[schemaKey] # "ready"
    BY <1>3, <2>1, <2>2 DEF RegistrySide, RegistryEvent, schemaVars, S!Enqueue
  <2>5. ~RegistryEvent(r)
    <3>1. schema = schemaCache[schemaKey]
      BY <1>t, <2>1, <2>4 DEF S!WorkIsOfCached, Work
    <3>. QED
      BY <1>t, <2>1, <2>2, <2>3, <3>1, EventQueues DEF ServedInv, Work
  <2>6. registryCache'[r] = registryCache[r] /\ r \notin registryEvents
    BY <1>3, <2>3, <2>5, UrlKept
  <2>7. /\ server = CachedURL(r)
        /\ schemaPc # "register" =>
             schema.spec.content \in
               S!Range(subjects[server][schema.spec.subject])
    BY <2>1, <2>3, <2>4, <2>6 DEF ServedInv, WorkIsServed, S!Registered, Work
  <2>. QED
    BY <2>1, <2>6, <2>7 DEF CachedURL
<1>. QED
  BY <1>t, <1>1, <1>2, <1>3, StepKinds

\* A Schema at rest after a step of the Schema controller has just been served,
\* or nothing has changed for it.
LEMMA RestOfSchemaSide ==
  ASSUME ServedHypothesis, ServedInv, S!SettledInv', SchemaSide,
         NEW k \in SchemaKeys, S!Settled(k)', schemaApi'[k] # Nil,
         NEW r, r = S!RegistryOf(k, schemaApi'[k]),
         r \notin registryEvents, CachedURL(r) # Nil
  PROVE  schemaApi'[k].spec.content \in
           S!Range(subjects'[CachedURL(r)][schemaApi'[k].spec.subject])
<1>t. /\ S!SettledInv /\ S!SpecsAreOfKey /\ S!RegistrationHypothesis
      /\ late = {} /\ R!TypeOK
      /\ schemaApi \in [SchemaKeys -> S!SchemaObject \cup {Nil}]
  BY DEF ServedHypothesis, ServedInv, ControllersInv, S!SettledInv,
     S!CopiesInv, S!TypeOK, S!ClusterTypeOK, R!MonitorInv
<1>1. CASE schemaKey = k
  <2>1. /\ schemaPc = "putStatus" /\ schemaSched[schemaKey] # "ready"
        /\ schema = schemaApi[schemaKey]
        /\ UNCHANGED << schemaApi, subjects >>
    BY <1>1, <1>t, S!OwnRests, OperatorAssumption DEF SchemaSide
  <2>. QED
    BY <1>1, <2>1 DEF ServedInv, WorkIsServed, S!Registered
<1>2. CASE schemaKey # k
  <2>1. /\ S!Settled(k) /\ schemaApi'[k] = schemaApi[k]
        /\ schemaCache[k] = schemaApi[k]
    BY <1>2, <1>t, S!RestBefore, OperatorAssumption DEF SchemaSide
  <2>2. S!Registered(CachedURL(r), schemaApi[k].spec.subject,
                     schemaApi[k].spec.content)
    BY <2>1 DEF ServedInv, RestIsServed
  <2>3. CachedURL(r) \in Servers
    <3>1. schemaApi[k] \in S!SchemaObject
      BY <1>t, <2>1
    <3>2. r \in RegistryKeys
      BY <2>1, <3>1, S!RegistryOfType, OperatorAssumption
         DEF RegistryKeys, S!Registries, S!NamespacedName
    <3>. QED
      BY <1>t, <3>2, ReadTypes DEF ReadsTyped
  <2>4. schemaApi[k].spec.content \in
          S!Range(subjects'[CachedURL(r)][schemaApi[k].spec.subject])
    BY <1>2, <1>t, <2>2, <2>3, S!OtherRests, OperatorAssumption DEF SchemaSide
  <2>. QED
    BY <2>1, <2>4
<1>. QED
  BY <1>1, <1>2

\* Nor do other steps move what is at rest: a registry that moves has an event,
\* and the event queues its Schemas.
LEMMA RestKept ==
  ASSUME ServedHypothesis, ServedInv, S!SettledInv', [Next]_vars
  PROVE  RestIsServed'
<1>t. /\ TypeOK /\ ~Outsider
      /\ schemaApi \in [SchemaKeys -> S!SchemaObject \cup {Nil}]
      /\ schemaSched \in [SchemaKeys -> S!SchedStates]
  BY DEF ServedHypothesis, ServedInv, ControllersInv, TypeOK, S!SettledInv,
     S!CopiesInv, S!TypeOK, S!ClusterTypeOK, R!MonitorInv, Outsider
<1>. SUFFICES
       ASSUME NEW k \in SchemaKeys, S!Settled(k)', schemaApi'[k] # Nil,
              NEW r, r = S!RegistryOf(k, schemaApi'[k]),
              r \notin registryEvents', CachedURL(r)' # Nil
       PROVE  schemaApi'[k].spec.content \in
                S!Range(subjects'[CachedURL(r)'][schemaApi'[k].spec.subject])
  BY DEF RestIsServed, S!Registered, S!RegistryOf
<1>1. CASE SchemaSide
  <2>1. r \notin registryEvents /\ CachedURL(r)' = CachedURL(r)
    BY <1>1 DEF SchemaSide, SchemaAlone, registryVars, CachedURL
  <2>. QED
    BY <1>1, <2>1, RestOfSchemaSide
<1>2. CASE Crash
  BY <1>2 DEF Crash, S!Restart, S!Relist, S!Settled
<1>3. CASE RegistrySide \/ \E i \in RegistryKeys : RegistryEvent(i)
  <2>1. UNCHANGED << schemaApi, schemaCache, schemaCacheCurrent, schemaKey,
                     subjects >>
    BY <1>3 DEF RegistrySide, RegistryEvent, schemaVars, serverVars
  <2>2. schemaApi[k] \in S!SchemaObject
    BY <1>t, <2>1
  <2>3. r = S!RegistryOf(k, schemaApi[k]) /\ r \in RegistryKeys
    BY <2>1, <2>2, S!RegistryOfType, OperatorAssumption
       DEF RegistryKeys, S!Registries, S!NamespacedName
  <2>4. schemaSched'[k] = "none" /\ S!Settled(k)
    BY <1>3, <1>t, <2>1
       DEF S!Settled, RegistrySide, RegistryEvent, schemaVars, S!Enqueue
  <2>5. ~RegistryEvent(r)
    <3>1. schemaCache[k] = schemaApi[k]
      BY <2>4 DEF S!Settled, ServedInv, ControllersInv, S!SettledInv,
         S!CopiesInv, S!CacheIsStored
    <3>. QED
      BY <2>1, <2>3, <2>4, <3>1, EventQueues DEF ServedInv
  <2>6. registryCache'[r] = registryCache[r] /\ r \notin registryEvents
    BY <1>3, <2>3, <2>5, UrlKept
  <2>7. CachedURL(r)' = CachedURL(r)
    BY <2>6 DEF CachedURL
  <2>8. S!Registered(CachedURL(r), schemaApi[k].spec.subject,
                     schemaApi[k].spec.content)
    BY <2>1, <2>3, <2>4, <2>6, <2>7 DEF ServedInv, RestIsServed
  <2>. QED
    BY <2>1, <2>7, <2>8 DEF S!Registered
<1>. QED
  BY <1>t, <1>1, <1>2, <1>3, StepKinds

\* ServedInv is inductive, for Schemas that share no subject, in the namespace
\* of their registry, where nothing is served late and nobody else interferes.
THEOREM ServedCorrect ==
  ASSUME ServedHypothesis
  PROVE  Spec => []ServedInv
<1>1. Init => ServedInv
  <2>. SUFFICES ASSUME Init PROVE ServedInv
    OBVIOUS
  <2>1. ControllersInv
    BY ControllersInit
  <2>2. S!SpecsAreOfKey
    BY DEF Init, S!SpecsAreOfKey
  <2>3. WorkIsServed
    BY DEF Init, WorkIsServed
  <2>4. RestIsServed
    BY DEF Init, RestIsServed, S!Settled
  <2>. QED
    BY <2>1, <2>2, <2>3, <2>4 DEF Init, ServedInv
<1>2. ServedInv /\ [Next]_vars => ServedInv'
  <2>. SUFFICES ASSUME ServedInv, [Next]_vars PROVE ServedInv'
    OBVIOUS
  <2>1. ControllersInv'
    BY ControllersStep DEF ServedInv
  <2>2. RestIsServed'
    BY <2>1, RestKept DEF ControllersInv
  <2>. QED
    BY <2>1, <2>2, SpecsKept, WorkKept DEF ServedInv
<1>. QED
  BY <1>1, <1>2, PTL DEF Spec

\* Where nothing is due for a Schema and for its SchemaRegistry, the schema is at
\* the server that the stored SchemaRegistry names: the cache is then what is
\* stored.
THEOREM SchemaServed ==
  ASSUME ServedHypothesis
  PROVE  Spec => []SettledSchemaIsServed
<1>1. ASSUME ServedInv PROVE SettledSchemaIsServed
  <2>. SUFFICES
         ASSUME NEW k \in SchemaKeys, S!Settled(k), schemaApi[k] # Nil,
                NEW r, r = S!RegistryOf(k, schemaApi[k]),
                RegistrySettled(r), registryApi[r] # Nil
         PROVE  S!Registered(registryApi[r].spec.url,
                             schemaApi[k].spec.subject,
                             schemaApi[k].spec.content)
    BY DEF SettledSchemaIsServed
  <2>1. schemaApi[k] \in S!SchemaObject
    BY <1>1 DEF ServedInv, ControllersInv, S!SettledInv, S!CopiesInv,
       S!TypeOK, S!ClusterTypeOK
  <2>2. r \in RegistryKeys
    BY <2>1, S!RegistryOfType, OperatorAssumption
       DEF RegistryKeys, S!Registries, S!NamespacedName
  <2>3. CachedURL(r) = registryApi[r].spec.url
    BY <1>1, <2>2 DEF RegistrySettled, ServedInv, ControllersInv, R!MonitorInv,
       R!CacheIsStored, CachedURL
  <2>4. CachedURL(r) # Nil
    <3>1. registryApi[r] \in R!SchemaRegistry
      BY <1>1, <2>2 DEF ServedInv, ControllersInv, R!MonitorInv, R!TypeOK,
         R!ClusterTypeOK
    <3>2. registryApi[r].spec.url \in Servers
      BY <3>1 DEF R!SchemaRegistry, R!SchemaRegistrySpec
    <3>. QED
      BY <2>3, <3>2, OperatorAssumption DEF S!ReconcilerAssumption
  <2>. QED
    BY <1>1, <2>3, <2>4 DEF RegistrySettled, ServedInv, RestIsServed
<1>. QED
  BY <1>1, ServedCorrect, PTL

-----------------------------------------------------------------------------
(***************************************************************************)
(* UsersGetTheirWay, where nothing is served late.                         *)
(***************************************************************************)
\* Only steps of the Schema controller's side write Schemas.
LEMMA SchemasStay ==
  ASSUME TypeOK, [Next]_vars, ~SchemaSide
  PROVE  schemaApi' = schemaApi
BY StepKinds DEF RegistrySide, RegistryEvent, Outsider, Crash, S!Restart,
   S!Relist, schemaVars

\* S!DeletionInv is inductive for the operator: from the DELETE to the removal of
\* the finalizer the worker goes on alone, and others only empty subjects.
LEMMA DeletionKept ==
  ASSUME "late" \notin FaultKinds, ControllersInv, S!DeletionInv, [Next]_vars
  PROVE  S!DeletionInv'
<1>t. TypeOK /\ S!TypeOK
  BY DEF ControllersInv, TypeOK, S!SettledInv, S!CopiesInv, R!MonitorInv
<1>1. CASE SchemaSide
  BY <1>1, <1>t, S!DeletionStep, OperatorAssumption DEF SchemaSide
<1>2. CASE Crash
  BY <1>2 DEF Crash, S!Restart, S!Idle, S!DeletionInv
<1>3. ASSUME UNCHANGED << subjects, late, schemaPc, schema, server >>
      PROVE  S!DeletionInv'
  BY <1>3 DEF S!DeletionInv
<1>4. CASE RegistrySide \/ \E r \in RegistryKeys : RegistryEvent(r)
  BY <1>3, <1>4 DEF RegistrySide, RegistryEvent, schemaVars, serverVars
<1>5. CASE Outsider
  <2>1. UNCHANGED << late, schemaPc, schema, server >>
    BY <1>5 DEF Outsider, schemaVars
  <2>2. PICK v \in Servers, j \in Subjects :
          \/ subjects' = [subjects EXCEPT ![v][j] = << >>]
          \/ UNCHANGED subjects
    BY <1>5 DEF Outsider
  <2>3. ASSUME NEW w \in Servers, NEW i \in Subjects,
               subjects[w][i] = << >>
        PROVE  subjects'[w][i] = << >>
    <3>1. CASE UNCHANGED subjects
      BY <2>3, <3>1
    <3>2. CASE subjects' = [subjects EXCEPT ![v][j] = << >>]
      <4>1. subjects \in [Servers -> [Subjects -> Seq(Contents)]]
        BY <1>t DEF S!TypeOK, S!RegistryTypeOK
      <4>2. CASE w = v /\ i = j
        BY <3>2, <4>1, <4>2
      <4>3. CASE w # v \/ i # j
        BY <2>3, <3>2, <4>1, <4>3
      <4>. QED
        BY <4>2, <4>3
    <3>. QED
      BY <2>2, <3>1, <3>2
  <2>4. CASE schemaPc = "removeFinalizer" /\ server # Nil
    <3>1. server \in Servers /\ schema.spec.subject \in Subjects
      BY <1>t, <2>4 DEF S!TypeOK, S!WorkerTypeOK, S!SchemaObject, S!SchemaSpec
    <3>. QED
      BY <2>1, <2>3, <2>4, <3>1 DEF S!DeletionInv
  <2>5. CASE ~(schemaPc = "removeFinalizer" /\ server # Nil)
    BY <2>1, <2>5 DEF S!DeletionInv
  <2>. QED
    BY <2>4, <2>5
<1>. QED
  BY <1>t, <1>1, <1>2, <1>4, <1>5, StepKinds

\* No write of a reconcile takes back what a user wrote, whatever happens.
THEOREM IntentIsKept == Spec => S!UserIntentPreserved
<1>1. ControllersInv /\ [Next]_vars =>
        [\A k \in SchemaKeys : S!IntentKept(k)]_(S!vars)
  <2>. SUFFICES ASSUME ControllersInv, [Next]_vars, NEW k \in SchemaKeys
                PROVE  S!IntentKept(k)
    OBVIOUS
  <2>t. /\ TypeOK /\ S!CopiesInv
        /\ schemaApi \in [SchemaKeys -> S!SchemaObject \cup {Nil}]
    BY DEF ControllersInv, TypeOK, S!SettledInv, S!CopiesInv, R!MonitorInv,
       S!TypeOK, S!ClusterTypeOK
  <2>1. CASE SchemaSide
    BY <2>1, <2>t, S!IntentStep, OperatorAssumption DEF SchemaSide
  <2>2. CASE ~SchemaSide
    <3>1. schemaApi[k] # Nil => schemaApi[k].generation \in Nat
      BY <2>t DEF S!SchemaObject
    <3>. QED
      BY <2>2, <2>t, <3>1, SchemasStay DEF S!IntentKept
  <2>. QED
    BY <2>1, <2>2
<1>. QED
  BY <1>1, ControllersCorrect, PTL DEF Spec, S!UserIntentPreserved

\* Users get their way, whatever the SchemaRegistry controller, the watch, a
\* crash and other users of the servers do between the calls of a reconcile.
THEOREM UsersWay ==
  ASSUME "late" \notin FaultKinds
  PROVE  Spec => UsersGetTheirWay
<1>1. Init => S!DeletionInv
  BY DEF Init, S!DeletionInv
<1>2. ControllersInv /\ S!DeletionInv /\ [Next]_vars => S!DeletionInv'
  BY DeletionKept
<1>3. ControllersInv /\ S!DeletionInv /\ [Next]_vars =>
        [\A k \in SchemaKeys :
           schemaApi[k] # Nil /\ schemaApi[k].finalizer /\ schemaApi'[k] = Nil
           /\ server # Nil =>
             subjects[server][schemaApi[k].spec.subject] = << >>]_(S!vars)
  <2>. SUFFICES ASSUME ControllersInv, S!DeletionInv, [Next]_vars,
                       NEW k \in SchemaKeys, schemaApi[k] # Nil,
                       schemaApi[k].finalizer, schemaApi'[k] = Nil, server # Nil
                PROVE  subjects[server][schemaApi[k].spec.subject] = << >>
    OBVIOUS
  <2>1. TypeOK /\ S!CopiesInv
    BY DEF ControllersInv, TypeOK, S!SettledInv, S!CopiesInv, R!MonitorInv
  <2>2. schemaPc = "removeFinalizer" /\ schema = schemaApi[k]
    BY <2>1, SchemasStay, S!RemovalStep, OperatorAssumption
       DEF SchemaSide, S!RemoveFinalizer
  <2>. QED
    BY <2>2 DEF S!DeletionInv
<1>. QED
  BY <1>1, <1>2, <1>3, ControllersCorrect, IntentIsKept, PTL
     DEF Spec, UsersGetTheirWay, S!DeletedSubjectIsGone
=============================================================================

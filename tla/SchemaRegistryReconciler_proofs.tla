------------------- MODULE SchemaRegistryReconciler_proofs ------------------
(***************************************************************************)
(* Theorems about SchemaRegistryReconciler, for every value of its         *)
(* constants.                                                              *)
(***************************************************************************)
EXTENDS SchemaRegistryReconciler, TLAPS

(***************************************************************************)
(* Credentials.                                                            *)
(***************************************************************************)

\* loadAuthConfig reads no Secret that schemaRegistryReferencesSecret does not
\* name: where two namespaces agree on the Secrets a registry references, its
\* credentials load in both or in neither, and are the same.
THEOREM LoadReadsReferences ==
  ASSUME NEW auth \in Auth, NEW data, NEW other,
         \A n \in SecretNames :
           ReferencesSecret(auth, n) => data[n] = other[n]
  PROVE  /\ LoadFails(auth, data) <=> LoadFails(auth, other)
         /\ LoadAuthConfig(auth, data) = LoadAuthConfig(auth, other)
<1>1. NeedsSecret(auth) =>
        Read(data, auth.secretRef) = Read(other, auth.secretRef)
  BY DEF ReferencesSecret, Read, Auth
<1>2. NeedsCA(auth) =>
        Read(data, auth.caSecretRef) = Read(other, auth.caSecretRef)
  BY DEF ReferencesSecret, NeedsCA, Read, Auth
<1>3. auth.type = "MTLS" => NeedsSecret(auth)
  BY DEF NeedsSecret
<1>4. LoadFails(auth, data) <=> LoadFails(auth, other)
  BY <1>1, <1>2, <1>3 DEF LoadFails
<1>5. LoadAuthConfig(auth, data) = LoadAuthConfig(auth, other)
  BY <1>1, <1>2 DEF LoadAuthConfig
<1>. QED
  BY <1>4, <1>5

\* The credentials that are loaded are an AuthConfig.
LEMMA LoadType ==
  ASSUME NEW auth \in Auth, NEW data \in [SecretNames -> SecretStates]
  PROVE  LoadAuthConfig(auth, data) \in AuthConfigs
<1>1. ASSUME NEW name \in SecretNames \cup {""}
      PROVE  Read(data, name) \in SecretStates
  BY DEF Read, SecretStates
<1>. QED
  BY <1>1 DEF LoadAuthConfig, AuthConfigs, Auth, SecretStates

-----------------------------------------------------------------------------
(***************************************************************************)
(* Type correctness.                                                       *)
(***************************************************************************)

\* An object stays one when the worker sets its status.
LEMMA StatusType ==
  ASSUME NEW o \in SchemaRegistry, NEW s \in SchemaRegistryStatus
  PROVE  [o EXCEPT !.status = s] \in SchemaRegistry
BY DEF SchemaRegistry

\* An object stays one when a user edits it.
LEMMA EditType ==
  ASSUME NEW o \in SchemaRegistry, NEW spec \in SchemaRegistrySpec
  PROVE  [o EXCEPT !.spec = spec, !.generation = @ + 1] \in SchemaRegistry
<1>1. o.generation + 1 \in Nat
  BY DEF SchemaRegistry
<1>2. ASSUME NEW n \in Nat
      PROVE  [o EXCEPT !.spec = spec, !.generation = n] \in SchemaRegistry
  BY DEF SchemaRegistry
<1>. QED
  BY <1>1, <1>2

\* Storing an object, or nothing, under a key.
LEMMA StoreType ==
  ASSUME ClusterTypeOK, NEW k \in Keys, NEW o \in SchemaRegistry \cup {Nil},
         Store(k, o), UNCHANGED << cache >>, sched' \in [Keys -> SchedStates]
  PROVE  ClusterTypeOK'
BY DEF ClusterTypeOK, Store

\* The outcomes of a status update keep the cluster's and the environment's
\* types.
LEMMA UpdateType ==
  ASSUME ClusterTypeOK, EnvTypeOK, key \in Keys,
         NEW o \in SchemaRegistry \cup {Nil},
         \/ Updated(o)
         \/ UpdateError(o)
         \/ UNCHANGED << api, cacheCurrent, faults >>,
         UNCHANGED << cache, secrets, secretEvents, online, edits >>,
         sched' \in [Keys -> SchedStates]
  PROVE  ClusterTypeOK' /\ EnvTypeOK'
<1>. USE FaultAssumption
<1>1. CASE Updated(o)
  BY <1>1, StoreType DEF Updated, EnvTypeOK
<1>2. CASE UNCHANGED << api, cacheCurrent, faults >>
  BY <1>2 DEF ClusterTypeOK, EnvTypeOK
<1>3. CASE Fault("apiError") /\ UNCHANGED << api, cacheCurrent >>
  BY <1>3 DEF Fault, ClusterTypeOK, EnvTypeOK
<1>4. CASE Fault("apiReplyLost") /\ current /\ Store(key, o)
  BY <1>4, StoreType DEF Fault, EnvTypeOK
<1>. QED
  BY <1>1, <1>2, <1>3, <1>4 DEF UpdateError

\* The end of a reconcile.
LEMMA EndType ==
  ASSUME ClusterTypeOK, Done \/ Retry
  PROVE  WorkerTypeOK' /\ sched' \in [Keys -> SchedStates]
<1>1. Idle
  BY DEF Done, Retry
<1>2. NoAuth \in AuthConfigs
  BY DEF NoAuth, AuthConfigs, AuthTypes, SecretStates
<1>3. WorkerTypeOK'
  BY <1>1, <1>2 DEF Idle, WorkerTypeOK
<1>4. sched' \in [Keys -> SchedStates]
  BY DEF Done, Retry, Requeue, ClusterTypeOK, SchedStates
<1>. QED
  BY <1>3, <1>4

\* A cached Get.
LEMMA GetType ==
  ASSUME ClusterTypeOK, WorkerTypeOK, key \in Keys,
         NEW call \in Calls, Get(call), UNCHANGED << api, cache, cacheCurrent >>
  PROVE  ClusterTypeOK' /\ WorkerTypeOK'
<1>1. CASE Done
  BY <1>1, EndType DEF ClusterTypeOK
<1>2. CASE ~Done
  <2>1. cache[key] # Nil /\ sr' = cache[key] /\ current' = cacheCurrent[key]
        /\ pc' = call /\ UNCHANGED << sched, key, authConfig, healthErr >>
    BY <1>2 DEF Get
  <2>2. sr' \in SchemaRegistry /\ current' \in BOOLEAN
    BY <2>1 DEF ClusterTypeOK
  <2>3. WorkerTypeOK'
    BY <2>1, <2>2, RegistryReconcilerAssumption 
       DEF WorkerTypeOK, Calls
  <2>. QED
    BY <2>1, <2>3 DEF ClusterTypeOK
<1>. QED
  BY <1>1, <1>2

\* In a reconcile the worker has an object.
LEMMA StepObject ==
  ASSUME TypeOK, Step
  PROVE  sr \in SchemaRegistry /\ key \in Keys /\ pc # "idle"
BY DEF Step, Load, HealthCheck, GetForStatus, PutStatus, GetForFailure,
   PutFailure, TypeOK, WorkerTypeOK

\* The Secrets of a registry's namespace.
LEMMA DataType ==
  ASSUME EnvTypeOK, NEW k \in Keys
  PROVE  DataIn(k.namespace) \in [SecretNames -> SecretStates]
BY RegistryReconcilerAssumption DEF DataIn, EnvTypeOK, Secrets

\* Every call of a reconcile keeps the types.
LEMMA StepType ==
  ASSUME TypeOK, Step
  PROVE  TypeOK'
<1>. USE DEF TypeOK
<1>a. sr \in SchemaRegistry /\ key \in Keys /\ pc # "idle"
  BY StepObject
<1>b. sr.spec \in SchemaRegistrySpec /\ sr.status \in SchemaRegistryStatus
      /\ sr.generation \in Nat
  BY <1>a DEF SchemaRegistry
<1>d. ASSUME UNCHANGED envVars PROVE EnvTypeOK'
  BY <1>d DEF envVars, EnvTypeOK
<1>f. ASSUME UNCHANGED << api, cache, cacheCurrent, sched >> PROVE ClusterTypeOK'
  BY <1>f DEF ClusterTypeOK
<1>g. ASSUME NEW s \in SchemaRegistryStatus, NEW o,
             o = [sr EXCEPT !.status = s],
             Updated(o) \/ Unchanged(s) \/ UpdateError(o),
             Done \/ Retry,
             UNCHANGED << cache, secrets, secretEvents, online, edits >>
      PROVE  TypeOK'
  <2>1. o \in SchemaRegistry
    BY <1>a, <1>g, StatusType
  <2>2. \/ Updated(o) \/ UpdateError(o)
        \/ UNCHANGED << api, cacheCurrent, faults >>
    BY <1>g DEF Unchanged
  <2>. QED
    BY <1>a, <1>g, <2>1, <2>2, UpdateType, EndType
<1>1. CASE Load
  <2>1. sr.spec.auth \in Auth
    BY <1>b DEF SchemaRegistrySpec
  <2>2. authConfig' \in AuthConfigs
    BY <1>1, <1>a, <2>1, DataType, LoadType DEF Load, WorkerTypeOK
  <2>3. WorkerTypeOK'
    BY <1>1, <1>a, <2>2 DEF Load, Continue, WorkerTypeOK, Calls
  <2>. QED
    BY <1>1, <2>3, <1>d, <1>f DEF Load, Continue
<1>2. CASE HealthCheck
  <2>1. healthErr' \in BOOLEAN
    BY <1>2 DEF HealthCheck
  <2>2. WorkerTypeOK'
    BY <1>2, <1>a, <2>1 DEF HealthCheck, Continue, WorkerTypeOK, Calls
  <2>3. EnvTypeOK'
    BY <1>2, FaultAssumption DEF HealthCheck, Fault, EnvTypeOK
  <2>. QED
    BY <1>2, <2>2, <2>3, <1>f DEF HealthCheck, Continue
<1>3. CASE GetForStatus
  BY <1>3, <1>a, <1>d, GetType DEF GetForStatus, Calls
<1>4. CASE PutStatus
  <2>1. CheckedStatus \in SchemaRegistryStatus
    BY <1>b DEF CheckedStatus, SchemaRegistryStatus, Reasons
  <2>. QED
    BY <1>4, <2>1, <1>g DEF PutStatus
<1>5. CASE GetForFailure
  BY <1>5, <1>a, <1>d, GetType DEF GetForFailure, Calls
<1>6. CASE PutFailure
  <2>1. FailedStatus \in SchemaRegistryStatus
    BY <1>b DEF FailedStatus, SchemaRegistryStatus, Reasons
  <2>. QED
    BY <1>6, <2>1, <1>g DEF PutFailure
<1>. QED
  BY <1>1, <1>2, <1>3, <1>4, <1>5, <1>6 DEF Step

\* So does everything else that may happen.
LEMMA TypeStep ==
  ASSUME TypeOK, [Next]_vars
  PROVE  TypeOK'
<1>. USE RegistryReconcilerAssumption, RuntimeAssumption, FaultAssumption DEF TypeOK
<1>d. ASSUME UNCHANGED envVars PROVE EnvTypeOK'
  BY <1>d DEF envVars, EnvTypeOK
<1>f. ASSUME UNCHANGED << api, cache, cacheCurrent >>, sched' \in [Keys -> SchedStates]
      PROVE  ClusterTypeOK'
  BY <1>f DEF ClusterTypeOK
<1>g. ASSUME UNCHANGED workerVars PROVE WorkerTypeOK'
  BY <1>g DEF workerVars, WorkerTypeOK
<1>h. ASSUME NEW K PROVE Enqueue(K) \in [Keys -> SchedStates]
  BY DEF Enqueue, ClusterTypeOK, SchedStates
<1>i. ASSUME NEW k \in Keys, NEW o \in SchemaRegistry \cup {Nil}, UserWrite(k, o)
      PROVE  TypeOK'
  <2>1. ClusterTypeOK'
    BY <1>i, StoreType DEF UserWrite, ClusterTypeOK
  <2>2. EnvTypeOK'
    BY <1>i DEF UserWrite, Edit, EnvTypeOK
  <2>3. WorkerTypeOK'
    BY <1>i DEF UserWrite, WorkerTypeOK
  <2>. QED
    BY <2>1, <2>2, <2>3
<1>1. ASSUME NEW k \in Keys, Dequeue(k) PROVE TypeOK'
  <2>1. ClusterTypeOK'
    BY <1>1 DEF Dequeue, ClusterTypeOK, SchedStates
  <2>2. CASE cache[k] # Nil
    <3>1. cache[k] \in SchemaRegistry /\ cacheCurrent[k] \in BOOLEAN
      BY <2>2 DEF ClusterTypeOK
    <3>2. WorkerTypeOK'
      BY <1>1, <2>2, <3>1 DEF Dequeue, WorkerTypeOK, Calls
    <3>. QED
      BY <1>1, <2>1, <3>2, <1>d DEF Dequeue
  <2>3. CASE cache[k] = Nil
    BY <1>1, <2>1, <2>3, <1>d, <1>g DEF Dequeue, workerVars
  <2>. QED
    BY <2>2, <2>3
<1>2. ASSUME NEW k \in Keys, Informer(k) PROVE TypeOK'
  <2>1. ClusterTypeOK'
    BY <1>2, <1>h DEF Informer, WatchEvent, ClusterTypeOK
  <2>. QED
    BY <1>2, <2>1, <1>d, <1>g DEF Informer
<1>3. ASSUME NEW k \in Keys, Timer(k) PROVE TypeOK'
  BY <1>3, <1>d, <1>f, <1>g, <1>h DEF Timer, DelayElapses
<1>4. ASSUME NEW s \in Secrets, SecretEvent(s) PROVE TypeOK'
  <2>1. EnvTypeOK'
    BY <1>4 DEF SecretEvent, EnvTypeOK
  <2>. QED
    BY <1>4, <2>1, <1>f, <1>g, <1>h DEF SecretEvent
<1>5. CASE User
  <2>1. ASSUME NEW k \in Keys, NEW spec \in SchemaRegistrySpec,
               CreateRegistry(k, spec)
        PROVE  TypeOK'
    <3>. DEFINE o == [generation |-> 1, spec |-> spec, status |-> NewStatus]
    <3>1. o \in SchemaRegistry
      BY DEF SchemaRegistry, NewStatus, SchemaRegistryStatus, Reasons
    <3>. HIDE DEF o
    <3>. QED
      BY <2>1, <3>1, <1>i DEF CreateRegistry, o
  <2>2. ASSUME NEW k \in Keys, NEW spec \in SchemaRegistrySpec,
               UpdateRegistry(k, spec)
        PROVE  TypeOK'
    <3>. DEFINE o == [api[k] EXCEPT !.spec = spec, !.generation = @ + 1]
    <3>1. api[k] \in SchemaRegistry
      BY <2>2 DEF UpdateRegistry, ClusterTypeOK
    <3>2. o \in SchemaRegistry
      BY <3>1, EditType
    <3>. HIDE DEF o
    <3>. QED
      BY <2>2, <3>2, <1>i DEF UpdateRegistry, o
  <2>3. ASSUME NEW k \in Keys, DeleteRegistry(k) PROVE TypeOK'
    BY <2>3, <1>i DEF DeleteRegistry
  <2>4. ASSUME NEW s \in Secrets, NEW x \in SecretData, WriteSecret(s, x)
        PROVE  TypeOK'
    <3>1. EnvTypeOK'
      BY <2>4 DEF WriteSecret, Edit, EnvTypeOK
    <3>. QED
      BY <2>4, <3>1, <1>g DEF WriteSecret, clusterVars, ClusterTypeOK
  <2>5. ASSUME NEW v \in Servers, Outage(v) PROVE TypeOK'
    <3>1. EnvTypeOK'
      BY <2>5 DEF Outage, Edit, EnvTypeOK
    <3>. QED
      BY <2>5, <3>1, <1>g DEF Outage, clusterVars, ClusterTypeOK
  <2>6. ASSUME NEW k \in Keys, NEW spec \in Specs[k]
        PROVE  spec \in SchemaRegistrySpec
    OBVIOUS
  <2>. QED
    BY <1>5, <2>1, <2>2, <2>3, <2>4, <2>5, <2>6 DEF User
<1>6. CASE Crash
  <2>1. ClusterTypeOK'
    BY <1>6 DEF Crash, Relist, ClusterTypeOK, SchedStates
  <2>2. EnvTypeOK'
    BY <1>6 DEF Crash, Fault, EnvTypeOK
  <2>3. WorkerTypeOK'
    <3>1. NoAuth \in AuthConfigs
      BY DEF NoAuth, AuthConfigs, AuthTypes, SecretStates
    <3>. QED
      BY <1>6, <3>1 DEF Crash, Idle, WorkerTypeOK
  <2>. QED
    BY <2>1, <2>2, <2>3
<1>7. CASE UNCHANGED vars
  BY <1>7, <1>d, <1>g DEF vars, clusterVars, ClusterTypeOK
<1>. QED
  BY <1>1, <1>2, <1>3, <1>4, <1>5, <1>6, <1>7, StepType DEF Next

\* Initially every variable has its type.
LEMMA TypeInit == Init => TypeOK
<1>. SUFFICES ASSUME Init PROVE TypeOK
  OBVIOUS
<1>. USE RegistryReconcilerAssumption, RuntimeAssumption, FaultAssumption
<1>1. ClusterTypeOK
  BY DEF Init, ClusterInit, ClusterTypeOK, SchedStates
<1>2. EnvTypeOK
  BY DEF Init, EnvTypeOK, SecretStates
<1>3. WorkerTypeOK
  BY DEF Init, WorkerTypeOK, NoAuth, AuthConfigs, AuthTypes, SecretStates
<1>. QED
  BY <1>1, <1>2, <1>3 DEF TypeOK

\* Every variable keeps its type, in particular: the worker never goes on
\* without an object (a NotFound is handled at every Get).
THEOREM TypeCorrect == Spec => []TypeOK
BY TypeInit, TypeStep, PTL DEF Spec

-----------------------------------------------------------------------------
(***************************************************************************)
(* RegistryIsMonitored.  A reconcile that ends without a timer has seen    *)
(* the credentials fail to load.  What it saw was the cached spec and the  *)
(* Secrets, or one of them has changed since; and whatever changes them    *)
(* makes the key due, because the Secrets read are the Secrets referenced. *)
(***************************************************************************)

\* Nothing about k but its timer has changed.
Same(k) ==
  /\ cacheCurrent'[k] = cacheCurrent[k]
  /\ cache'[k] = cache[k]
  /\ UNCHANGED << secrets, secretEvents >>

\* What is due stays due, and credentials that do not load stay so, while
\* neither the cache nor the Secrets change and the key is not taken.
LEMMA DueKept ==
  ASSUME NEW k \in Keys, Same(k), sched[k] = "ready" => sched'[k] = "ready"
  PROVE  /\ Due(k) => Due(k)'
         /\ CannotLoad(k) => CannotLoad(k)'
BY DEF Same, Due, Pending, CannotLoad, DataIn

\* A Secret is written: the registries that reference it become due, and the
\* credentials of the others do not depend on it.
LEMMA SecretDue ==
  ASSUME TypeOK, NEW k \in Keys, NEW s \in Secrets, NEW x \in SecretData,
         WriteSecret(s, x)
  PROVE  /\ Due(k) => Due(k)'
         /\ ~Due(k)' => /\ CannotLoad(k)' <=> CannotLoad(k)
                        /\ Loaded(k)' = Loaded(k)
<1>1. /\ UNCHANGED << cache, cacheCurrent, sched >>
      /\ secretEvents' = secretEvents \cup {s}
      /\ secrets' = [secrets EXCEPT ![s] = x]
  BY DEF WriteSecret, clusterVars
<1>2. Due(k) => Due(k)'
  BY <1>1 DEF Due, Pending
<1>3. ASSUME ~Due(k)'
      PROVE  (CannotLoad(k)' <=> CannotLoad(k)) /\ Loaded(k)' = Loaded(k)
  <2>1. cache[k] \in SchemaRegistry
    BY <1>1, <1>3 DEF Due, TypeOK, ClusterTypeOK
  <2>2. cache[k].spec.auth \in Auth
    BY <2>1 DEF SchemaRegistry, SchemaRegistrySpec
  <2>. DEFINE auth == cache[k].spec.auth
              data == DataIn(k.namespace)
              other == DataIn(k.namespace)'
  <2>3. ASSUME NEW n \in SecretNames, ReferencesSecret(auth, n)
        PROVE  data[n] = other[n]
    <3>1. ~(k.namespace = s.namespace /\ ReferencesSecret(auth, s.name))
      BY <1>1, <1>3 DEF Due, Pending
    <3>2. [namespace |-> k.namespace, name |-> n] # s
      BY <2>3, <3>1
    <3>3. secrets' [[namespace |-> k.namespace, name |-> n]]
            = secrets[[namespace |-> k.namespace, name |-> n]]
      BY <1>1, <3>2, RegistryReconcilerAssumption
         DEF TypeOK, EnvTypeOK, Secrets
    <3>. QED
      BY <3>3 DEF DataIn
  <2>4. /\ LoadFails(auth, data) <=> LoadFails(auth, other)
        /\ LoadAuthConfig(auth, data) = LoadAuthConfig(auth, other)
    <3>. HIDE DEF auth, data, other
    <3>. QED
      BY <2>2, <2>3, LoadReadsReferences DEF auth
  <2>. QED
    BY <1>1, <2>4 DEF CannotLoad, Loaded
<1>. QED
  BY <1>2, <1>3

\* The handler of a Secret's event makes the registries due that reference it.
LEMMA EventDue ==
  ASSUME TypeOK, NEW k \in Keys, NEW s \in Secrets, SecretEvent(s)
  PROVE  /\ Due(k) => Due(k)'
         /\ CannotLoad(k) => CannotLoad(k)'
         /\ sched'[k] = "ready" \/ sched'[k] = sched[k]
<1>1. /\ UNCHANGED << cache, cacheCurrent, secrets >>
      /\ secretEvents' = secretEvents \ {s}
      /\ sched' = Enqueue(FindSchemaRegistriesForSecret(s))
  BY DEF SecretEvent
<1>2. sched'[k] = IF k \in FindSchemaRegistriesForSecret(s)
                  THEN "ready" ELSE sched[k]
  BY <1>1 DEF Enqueue
<1>3. CASE k \in FindSchemaRegistriesForSecret(s)
  BY <1>1, <1>2, <1>3 DEF Due, CannotLoad, DataIn
<1>4. CASE k \notin FindSchemaRegistriesForSecret(s)
  <2>1. cache[k] # Nil =>
          ~(k.namespace = s.namespace
              /\ ReferencesSecret(cache[k].spec.auth, s.name))
    BY <1>4 DEF FindSchemaRegistriesForSecret
  <2>2. cache[k] # Nil /\ Pending(k) => Pending(k)'
    BY <1>1, <2>1 DEF Pending
  <2>. QED
    BY <1>1, <1>2, <1>4, <2>2 DEF Due, CannotLoad, DataIn
<1>. QED
  BY <1>3, <1>4

\* A step outside the worker's calls that takes no key keeps the invariant if
\* it keeps, for each key, what is due and what cannot load.
LEMMA OthersKeep ==
  ASSUME MonitorInv, TypeOK',
         CacheIsStored', CopyIsStored',
         UNCHANGED << pc, key, sr >>,
         \A k \in Keys : /\ Due(k) => Due(k)'
                         /\ CannotLoad(k) => Due(k)' \/ CannotLoad(k)',
         \A k \in Keys : \/ Due(k)'
                         \/ /\ sched'[k] = "none" => sched[k] = "none"
                            /\ cache'[k] = cache[k],
         \A k \in Keys : \/ sched'[k] = "ready"
                         \/ /\ sched'[k] = sched[k]
                            /\ cache'[k] = cache[k]
  PROVE  MonitorInv'
<1>k. pc # "idle" => key \in Keys
  BY DEF MonitorInv, TypeOK, WorkerTypeOK
<1>1. CopyIsCached'
  BY <1>k DEF MonitorInv, CopyIsCached
<1>2. FailureIsCurrent'
  <2>. SUFFICES ASSUME pc' \in {"getFailed", "putFailed"}
                PROVE  (Due(key) \/ CannotLoad(key))'
    BY DEF FailureIsCurrent
  <2>1. PICK k \in Keys : k = key
    BY <1>k
  <2>2. Due(k) \/ CannotLoad(k)
    BY <2>1 DEF MonitorInv, FailureIsCurrent
  <2>3. Due(k)' \/ CannotLoad(k)'
    BY <2>2
  <2>. QED
    BY <2>1, <2>3 DEF Due, Pending, CannotLoad, DataIn
<1>3. RestIsFailure'
  <2>1. ASSUME NEW k \in Keys, key' # k, sched'[k] = "none", ~Due(k)'
        PROVE  cache'[k].status.reason = "AuthLoadFailed" /\ CannotLoad(k)'
    <3>1. sched[k] = "none" /\ cache'[k] = cache[k] /\ key # k
      BY <2>1
    <3>2. ~Due(k)
      BY <2>1
    <3>3. cache[k].status.reason = "AuthLoadFailed" /\ CannotLoad(k)
      BY <3>1, <3>2 DEF MonitorInv, RestIsFailure
    <3>. QED
      BY <2>1, <3>1, <3>3
  <2>. QED
    BY <2>1 DEF RestIsFailure
<1>. QED
  BY <1>1, <1>2, <1>3 DEF MonitorInv

\* The end of a reconcile keeps it if the key is in the queue, or due, or has
\* failed to load.
LEMMA EndKeeps ==
  ASSUME MonitorInv, TypeOK', Idle, NEW k \in Keys, k = key,
         UNCHANGED << cache, secrets, secretEvents >>,
         CacheIsStored',
         \A l \in Keys \ {k} : /\ cacheCurrent'[l] = cacheCurrent[l]
                               /\ sched'[l] = sched[l],
         \/ sched'[k] # "none"
         \/ Due(k)'
         \/ cache[k].status.reason = "AuthLoadFailed" /\ CannotLoad(k)'
  PROVE  MonitorInv'
<1>1. CopyIsStored' /\ CopyIsCached' /\ FailureIsCurrent'
  BY DEF Idle, CopyIsStored, CopyIsCached, FailureIsCurrent
<1>2. RestIsFailure'
  <2>1. ASSUME NEW l \in Keys, sched'[l] = "none", ~Due(l)'
        PROVE  cache'[l].status.reason = "AuthLoadFailed" /\ CannotLoad(l)'
    <3>1. CASE l = k
      BY <2>1, <3>1
    <3>2. CASE l # k
      <4>1. Same(l) /\ sched'[l] = sched[l]
        BY <3>2 DEF Same
      <4>2. ~Due(l)
        BY <2>1, <4>1, DueKept
      <4>3. CannotLoad(l) => CannotLoad(l)'
        BY <4>1, DueKept
      <4>. QED
        BY <2>1, <3>2, <4>1, <4>2, <4>3 DEF MonitorInv, RestIsFailure
    <3>. QED
      BY <3>1, <3>2
  <2>. QED
    BY <2>1 DEF RestIsFailure
<1>. QED
  BY <1>1, <1>2 DEF MonitorInv

\* Every call of a reconcile preserves the invariant.
LEMMA StepKeeps ==
  ASSUME MonitorInv, Step
  PROVE  MonitorInv'
<1>t. TypeOK /\ TypeOK'
  BY StepType DEF MonitorInv
<1>o. sr \in SchemaRegistry /\ key \in Keys /\ pc # "idle"
  BY <1>t, StepObject
<1>k. PICK k \in Keys : k = key
  BY <1>o
<1>s. sched \in [Keys -> SchedStates]
      /\ api \in [Keys -> SchemaRegistry \cup {Nil}]
      /\ cacheCurrent \in [Keys -> BOOLEAN]
  BY <1>t DEF TypeOK, ClusterTypeOK
<1>r. ASSUME Retry
      PROVE  /\ Idle
             /\ sched'[k] # "none"
             /\ \A l \in Keys \ {k} : sched'[l] = sched[l]
  BY <1>k, <1>r, <1>s DEF Retry, Requeue
\* A status update leaves the cache as it is, and what is current current.
<1>u. ASSUME NEW o, NEW s, Updated(o) \/ Unchanged(s) \/ UpdateError(o),
             UNCHANGED cache
      PROVE  /\ CacheIsStored'
             /\ \A l \in Keys \ {k} : cacheCurrent'[l] = cacheCurrent[l]
  <2>1. CASE UNCHANGED << api, cacheCurrent >>
    BY <1>u, <2>1 DEF MonitorInv, CacheIsStored
  <2>2. CASE Store(key, o)
    BY <1>k, <1>s, <1>u, <2>2 DEF MonitorInv, CacheIsStored, Store
  <2>. QED
    BY <1>u, <2>1, <2>2 DEF Updated, Unchanged, UpdateError
\* A step to another call, with the copy and the queue as they are.
<1>m. ASSUME UNCHANGED << api, cache, cacheCurrent, sched, secrets,
                          secretEvents, key >>,
             pc' # "load", CopyIsStored',
             pc' \in {"getFailed", "putFailed"} =>
               Due(k) \/ CannotLoad(k)
      PROVE  MonitorInv'
  <2>1. \A l \in Keys : /\ Due(l) <=> Due(l)'
                        /\ CannotLoad(l) <=> CannotLoad(l)'
    BY <1>m DEF Due, Pending, CannotLoad, DataIn
  <2>2. CacheIsStored' /\ CopyIsCached'
    BY <1>m DEF MonitorInv, CacheIsStored, CopyIsCached
  <2>3. FailureIsCurrent'
    <3>. SUFFICES ASSUME pc' \in {"getFailed", "putFailed"}
                  PROVE  (Due(key) \/ CannotLoad(key))'
      BY DEF FailureIsCurrent
    <3>1. Due(k)' \/ CannotLoad(k)'
      BY <1>m, <2>1
    <3>. QED
      BY <1>k, <1>m, <3>1 DEF Due, Pending, CannotLoad, DataIn
  <2>4. RestIsFailure'
    BY <1>m, <2>1 DEF MonitorInv, RestIsFailure
  <2>. QED
    BY <1>t, <2>2, <2>3, <2>4, <1>m DEF MonitorInv
\* A Get: the copy is the cached object, or the object is gone.
<1>g. ASSUME NEW call \in Calls \ {"load"}, Get(call),
             UNCHANGED << api, cache, cacheCurrent, envVars >>,
             call = "putFailed" => pc = "getFailed",
             call # "getFailed"
      PROVE  MonitorInv'
  <2>1. CASE cache[key] = Nil
    <3>1. Done
      BY <1>g, <2>1 DEF Get
    <3>2. Due(k)'
      BY <1>k, <1>g, <2>1 DEF Due
    <3>3. CacheIsStored'
      BY <1>g DEF MonitorInv, CacheIsStored
    <3>. QED
      BY <1>t, <1>k, <1>g, <3>1, <3>2, <3>3, EndKeeps DEF Done, envVars
  <2>2. CASE cache[key] # Nil
    <3>1. /\ sr' = cache[key] /\ current' = cacheCurrent[key] /\ pc' = call
          /\ UNCHANGED << sched, key >>
      BY <1>t, <1>g, <2>2 DEF Get, Done, Idle, TypeOK, ClusterTypeOK
    <3>2. CopyIsStored'
      BY <1>o, <1>g, <3>1 DEF MonitorInv, CopyIsStored, CacheIsStored
    <3>3. pc' = "putFailed" => Due(k) \/ CannotLoad(k)
      BY <1>k, <1>g, <3>1 DEF MonitorInv, FailureIsCurrent
    <3>. QED
      BY <1>g, <1>m, <3>1, <3>2, <3>3 DEF envVars
  <2>. QED
    BY <2>1, <2>2
<1>1. CASE Load
  <2>1. CopyIsStored'
    BY <1>1, <1>o DEF Load, Continue, MonitorInv, CopyIsStored
  <2>2. pc' = "getFailed" => Due(k) \/ CannotLoad(k)
    BY <1>1, <1>k DEF Load, Continue, MonitorInv, CopyIsCached, Due, CannotLoad
  <2>3. pc' \in {"getFailed", "healthCheck"}
    BY <1>1 DEF Load, Continue
  <2>. QED
    BY <1>1, <1>m, <2>1, <2>2, <2>3 DEF Load, Continue, envVars
<1>2. CASE HealthCheck
  <2>1. CopyIsStored'
    BY <1>2, <1>o DEF HealthCheck, Continue, MonitorInv, CopyIsStored
  <2>. QED
    BY <1>2, <1>m, <2>1 DEF HealthCheck, Continue
<1>3. CASE GetForStatus
  BY <1>3, <1>g DEF GetForStatus, Calls
<1>4. CASE PutStatus
  <2>1. /\ CacheIsStored'
        /\ \A l \in Keys \ {k} : cacheCurrent'[l] = cacheCurrent[l]
    BY <1>4, <1>u DEF PutStatus
  <2>. QED
    BY <1>4, <1>t, <1>k, <1>r, <2>1, EndKeeps DEF PutStatus
<1>5. CASE GetForFailure
  BY <1>5, <1>g DEF GetForFailure, Calls
<1>6. CASE PutFailure
  <2>. DEFINE o == [sr EXCEPT !.status = FailedStatus]
  <2>1. Updated(o) \/ Unchanged(FailedStatus) \/ UpdateError(o)
    BY <1>6 DEF PutFailure
  <2>2. UNCHANGED << cache, secrets, secretEvents >>
    BY <1>6 DEF PutFailure
  <2>. HIDE DEF o
  <2>3. /\ CacheIsStored'
        /\ \A l \in Keys \ {k} : cacheCurrent'[l] = cacheCurrent[l]
    BY <1>u, <2>1, <2>2
  <2>4. CASE Retry
    BY <1>t, <1>k, <1>r, <2>2, <2>3, <2>4, EndKeeps
  <2>5. CASE Updated(o) /\ Done
    <3>1. Due(k)'
      BY <1>k, <1>s, <2>5 DEF Updated, Store, Due
    <3>. QED
      BY <1>t, <1>k, <2>2, <2>3, <2>5, <3>1, EndKeeps DEF Done
  <2>6. CASE Unchanged(FailedStatus) /\ Done
    <3>1. sr = cache[k] /\ sr.status.reason = "AuthLoadFailed"
      BY <1>k, <1>o, <2>6
         DEF Unchanged, FailedStatus, MonitorInv, CopyIsStored, CacheIsStored,
             SchemaRegistry, SchemaRegistryStatus
    <3>2. Same(k) /\ UNCHANGED sched
      BY <2>2, <2>6 DEF Same, Unchanged, Done
    <3>3. Due(k)' \/ CannotLoad(k)'
      BY <1>6, <1>k, <3>2, DueKept DEF PutFailure, MonitorInv, FailureIsCurrent
    <3>. QED
      BY <1>t, <1>k, <2>2, <2>3, <2>6, <3>1, <3>3, EndKeeps DEF Done
  <2>. QED
    BY <1>6, <2>4, <2>5, <2>6 DEF PutFailure, o
<1>. QED
  BY <1>1, <1>2, <1>3, <1>4, <1>5, <1>6 DEF Step

\* So does everything else that may happen.
LEMMA MonitorStep ==
  ASSUME MonitorInv, [Next]_vars
  PROVE  MonitorInv'
<1>t. TypeOK /\ TypeOK'
  BY TypeStep DEF MonitorInv
<1>s. sched \in [Keys -> SchedStates]
      /\ api \in [Keys -> SchemaRegistry \cup {Nil}]
      /\ cache \in [Keys -> SchemaRegistry \cup {Nil}]
      /\ cacheCurrent \in [Keys -> BOOLEAN]
  BY <1>t DEF TypeOK, ClusterTypeOK
\* Someone else's write to an object: its key becomes due.
<1>w. ASSUME NEW k \in Keys, NEW o, UserWrite(k, o) PROVE MonitorInv'
  <2>1. /\ api' = [api EXCEPT ![k] = o]
        /\ cacheCurrent' = [cacheCurrent EXCEPT ![k] = FALSE]
        /\ UNCHANGED << cache, sched, secrets, secretEvents, pc, key, sr >>
        /\ current' = (current /\ key # k)
    BY <1>w DEF UserWrite, Store
  <2>2. CacheIsStored' /\ CopyIsStored'
    BY <1>s, <1>t, <2>1
       DEF MonitorInv, CacheIsStored, CopyIsStored, TypeOK, WorkerTypeOK
  <2>3. ASSUME NEW l \in Keys
        PROVE  /\ Due(l) => Due(l)'
               /\ CannotLoad(l) => CannotLoad(l)'
    BY <1>s, <2>1 DEF Due, Pending, CannotLoad, DataIn
  <2>. QED
    BY <1>t, <2>1, <2>2, <2>3, OthersKeep
<1>1. ASSUME NEW k \in Keys, Dequeue(k) PROVE MonitorInv'
  <2>1. /\ pc = "idle" /\ sched' = [sched EXCEPT ![k] = "none"]
        /\ UNCHANGED << api, cache, cacheCurrent, secrets, secretEvents >>
    BY <1>1 DEF Dequeue, envVars
  <2>2. CacheIsStored'
    BY <2>1 DEF MonitorInv, CacheIsStored
  <2>3. ASSUME NEW l \in Keys, l # k
        PROVE  /\ sched'[l] = sched[l]
               /\ Due(l) <=> Due(l)'
               /\ CannotLoad(l) <=> CannotLoad(l)'
    BY <1>s, <2>1, <2>3 DEF Due, Pending, CannotLoad, DataIn
  <2>i. \A l \in Keys : key # l
    BY <1>t, <2>1, RegistryReconcilerAssumption DEF TypeOK, WorkerTypeOK
  <2>4. CASE cache[k] # Nil
    <3>1. pc' = "load" /\ key' = k /\ sr' = cache[k] /\ current' = cacheCurrent[k]
      BY <1>1, <2>4 DEF Dequeue
    <3>2. CopyIsStored' /\ CopyIsCached' /\ FailureIsCurrent'
      BY <2>1, <3>1
         DEF MonitorInv, CacheIsStored, CopyIsStored, CopyIsCached,
             FailureIsCurrent
    <3>3. RestIsFailure'
      <4>1. ASSUME NEW l \in Keys, l # k, sched'[l] = "none", ~Due(l)'
            PROVE  cache'[l].status.reason = "AuthLoadFailed" /\ CannotLoad(l)'
        <5>1. sched[l] = "none" /\ ~Due(l)
          BY <2>3, <4>1
        <5>2. cache[l].status.reason = "AuthLoadFailed" /\ CannotLoad(l)
          BY <2>i, <5>1 DEF MonitorInv, RestIsFailure
        <5>. QED
          BY <2>1, <2>3, <4>1, <5>2
      <4>. QED
        BY <3>1, <4>1 DEF RestIsFailure
    <3>. QED
      BY <1>t, <2>2, <3>2, <3>3 DEF MonitorInv
  <2>5. CASE cache[k] = Nil
    <3>1. UNCHANGED << pc, key, sr, current >>
      BY <1>1, <2>5 DEF Dequeue
    <3>2. CopyIsStored' /\ CopyIsCached' /\ FailureIsCurrent'
      BY <2>1, <3>1 DEF CopyIsStored, CopyIsCached, FailureIsCurrent
    <3>3. ASSUME NEW l \in Keys, sched'[l] = "none", ~Due(l)'
          PROVE  cache'[l].status.reason = "AuthLoadFailed" /\ CannotLoad(l)'
      <4>1. l # k
        BY <2>1, <2>5, <3>3 DEF Due
      <4>2. sched[l] = "none" /\ ~Due(l)
        BY <2>3, <3>3, <4>1
      <4>3. cache[l].status.reason = "AuthLoadFailed" /\ CannotLoad(l)
        BY <2>i, <4>2 DEF MonitorInv, RestIsFailure
      <4>. QED
        BY <2>1, <2>3, <4>1, <4>3
    <3>4. RestIsFailure'
      BY <3>3 DEF RestIsFailure
    <3>. QED
      BY <1>t, <2>2, <3>2, <3>4 DEF MonitorInv
  <2>. QED
    BY <2>4, <2>5
<1>2. ASSUME NEW k \in Keys, Informer(k) PROVE MonitorInv'
  <2>1. /\ ~cacheCurrent[k]
        /\ cache' = [cache EXCEPT ![k] = api[k]]
        /\ cacheCurrent' = [cacheCurrent EXCEPT ![k] = TRUE]
        /\ sched' = Enqueue({k})
        /\ UNCHANGED << api, secrets, secretEvents, pc, key, sr, current >>
    BY <1>2 DEF Informer, WatchEvent, envVars, workerVars
  <2>2. CacheIsStored' /\ CopyIsStored'
    BY <1>s, <1>t, <2>1
       DEF MonitorInv, CacheIsStored, CopyIsStored, TypeOK, WorkerTypeOK
  <2>3. Due(k)' /\ sched'[k] = "ready"
    BY <2>1 DEF Due, Enqueue
  <2>4. ASSUME NEW l \in Keys, l # k
        PROVE  /\ sched'[l] = sched[l] /\ cache'[l] = cache[l]
               /\ Due(l) => Due(l)'
               /\ CannotLoad(l) => CannotLoad(l)'
    <3>1. sched'[l] = sched[l] /\ Same(l)
      BY <1>s, <2>1, <2>4 DEF Enqueue, Same
    <3>. QED
      BY <3>1, DueKept DEF Same
  <2>. QED
    BY <1>t, <2>1, <2>2, <2>3, <2>4, OthersKeep
<1>3. ASSUME NEW k \in Keys, Timer(k) PROVE MonitorInv'
  <2>1. /\ sched' = Enqueue({k})
        /\ UNCHANGED << api, cache, cacheCurrent, secrets, secretEvents, pc,
                        key, sr, current >>
    BY <1>3 DEF Timer, DelayElapses, envVars, workerVars
  <2>2. CacheIsStored' /\ CopyIsStored'
    BY <2>1 DEF MonitorInv, CacheIsStored, CopyIsStored
  <2>3. ASSUME NEW l \in Keys
        PROVE  /\ Due(l) => Due(l)'
               /\ CannotLoad(l) => CannotLoad(l)'
               /\ sched'[l] = "ready" \/ sched'[l] = sched[l]
    <3>1. Same(l) /\ (sched'[l] = "ready" \/ sched'[l] = sched[l])
      BY <2>1 DEF Enqueue, Same
    <3>. QED
      BY <3>1, DueKept
  <2>4. ASSUME NEW l \in Keys
        PROVE  Due(l)' \/ sched'[l] = sched[l]
    BY <2>3 DEF Due
  <2>. QED
    BY <1>t, <2>1, <2>2, <2>3, <2>4, OthersKeep
<1>4. ASSUME NEW s \in Secrets, SecretEvent(s) PROVE MonitorInv'
  <2>1. UNCHANGED << api, cache, cacheCurrent, pc, key, sr, current >>
    BY <1>4 DEF SecretEvent, workerVars
  <2>2. CacheIsStored' /\ CopyIsStored'
    BY <2>1 DEF MonitorInv, CacheIsStored, CopyIsStored
  <2>3. ASSUME NEW l \in Keys
        PROVE  /\ Due(l) => Due(l)'
               /\ CannotLoad(l) => CannotLoad(l)'
               /\ sched'[l] = "ready" \/ sched'[l] = sched[l]
    BY <1>4, <1>t, EventDue
  <2>4. ASSUME NEW l \in Keys
        PROVE  Due(l)' \/ sched'[l] = sched[l]
    BY <2>3 DEF Due
  <2>. QED
    BY <1>t, <2>1, <2>2, <2>3, <2>4, OthersKeep
<1>5. CASE User
  <2>1. ASSUME NEW s \in Secrets, NEW x \in SecretData, WriteSecret(s, x)
        PROVE  MonitorInv'
    <3>1. UNCHANGED << api, cache, cacheCurrent, sched, pc, key, sr, current >>
      BY <2>1 DEF WriteSecret, clusterVars, workerVars
    <3>2. CacheIsStored' /\ CopyIsStored'
      BY <3>1 DEF MonitorInv, CacheIsStored, CopyIsStored
    <3>3. \A l \in Keys : /\ Due(l) => Due(l)'
                          /\ CannotLoad(l) => Due(l)' \/ CannotLoad(l)'
      BY <1>t, <2>1, SecretDue
    <3>. QED
      BY <1>t, <3>1, <3>2, <3>3, OthersKeep
  <2>2. ASSUME NEW v \in Servers, Outage(v) PROVE MonitorInv'
    <3>1. UNCHANGED << api, cache, cacheCurrent, sched, secrets, secretEvents,
                       pc, key, sr, current >>
      BY <2>2 DEF Outage, clusterVars, workerVars
    <3>2. CacheIsStored' /\ CopyIsStored'
      BY <3>1 DEF MonitorInv, CacheIsStored, CopyIsStored
    <3>3. ASSUME NEW l \in Keys
          PROVE  /\ Due(l) => Due(l)'
                 /\ CannotLoad(l) => CannotLoad(l)'
      BY <3>1, DueKept DEF Same
    <3>. QED
      BY <1>t, <3>1, <3>2, <3>3, OthersKeep
  <2>. QED
    BY <1>5, <1>w, <2>1, <2>2
       DEF User, CreateRegistry, UpdateRegistry, DeleteRegistry
<1>6. CASE Crash
  <2>1. /\ Idle
        /\ cache' = api /\ UNCHANGED api
        /\ sched' = [k \in Keys |-> IF api[k] = Nil THEN "none" ELSE "ready"]
    BY <1>6 DEF Crash, Relist
  <2>2. CacheIsStored' /\ CopyIsStored' /\ CopyIsCached' /\ FailureIsCurrent'
    BY <2>1 DEF Idle, CacheIsStored, CopyIsStored, CopyIsCached,
         FailureIsCurrent
  <2>3. RestIsFailure'
    BY <2>1 DEF RestIsFailure, Due
  <2>. QED
    BY <1>t, <2>2, <2>3 DEF MonitorInv
<1>7. CASE UNCHANGED vars
  BY <1>7 DEF vars, clusterVars, envVars, workerVars, MonitorInv, TypeOK,
       ClusterTypeOK, EnvTypeOK, WorkerTypeOK, CacheIsStored, CopyIsStored,
       CopyIsCached, FailureIsCurrent, RestIsFailure, Due, Pending,
       CannotLoad, DataIn
<1>. QED
  BY <1>1, <1>2, <1>3, <1>4, <1>5, <1>6, <1>7, StepKeeps DEF Next

\* Who leaves the controller and what it reads alone keeps the invariant.
LEMMA AloneMonitor ==
  ASSUME MonitorInv, TypeOK',
         UNCHANGED << clusterVars, secrets, secretEvents, workerVars >>
  PROVE  MonitorInv'
<1>1. UNCHANGED << api, cache, cacheCurrent, sched, pc, key, sr, current >>
  BY DEF clusterVars, workerVars
<1>. QED
  BY <1>1 DEF MonitorInv, CacheIsStored, CopyIsStored, CopyIsCached,
     FailureIsCurrent, RestIsFailure, Due, Pending, CannotLoad, DataIn

\* Initially there is no registry.
LEMMA MonitorInit == Init => MonitorInv
BY TypeInit
   DEF Init, ClusterInit, MonitorInv, CacheIsStored, CopyIsStored,
       CopyIsCached, FailureIsCurrent, RestIsFailure, Due

\* The invariant behind RegistryIsMonitored: a key that has left the queue, and
\* that nothing will bring back, cannot be loaded.
THEOREM MonitorCorrect == Spec => []MonitorInv
BY MonitorInit, MonitorStep, PTL DEF Spec

\* What the invariant says of a registry that waits without a timer.
LEMMA MonitorImplies ==
  ASSUME MonitorInv
  PROVE  RegistryIsMonitored
<1>1. ASSUME NEW k \in Keys, Waiting(k), api[k] # Nil, sched[k] = "none"
      PROVE  /\ api[k].status.reason = "AuthLoadFailed"
             /\ Verdict(k) = "AuthLoadFailed"
  <2>1. cache[k] = api[k] /\ key # k /\ ~Due(k)
    BY <1>1 DEF Waiting, MonitorInv, CacheIsStored, Due, Pending
  <2>2. cache[k].status.reason = "AuthLoadFailed" /\ CannotLoad(k)
    BY <1>1, <2>1 DEF MonitorInv, RestIsFailure
  <2>. QED
    BY <2>1, <2>2 DEF CannotLoad, Verdict
<1>. QED
  BY <1>1 DEF RegistryIsMonitored

\* No registry drops out of the monitoring that could be checked: for any
\* number of registries, Secrets and servers, any edits, and any faults, a
\* registry without a timer cannot load its credentials at that moment, and
\* says so.
THEOREM Monitored == Spec => []RegistryIsMonitored
BY MonitorImplies, MonitorCorrect, PTL

-----------------------------------------------------------------------------
(***************************************************************************)
(* SecretCanMend.  The webhook has seen every stored spec, and it asks for *)
(* what loadAuthConfig needs a name for.                                   *)
(***************************************************************************)

SpecsAdmitted ==
  \A k \in Keys : api[k] # Nil => ValidateSchemaRegistrySpec(api[k].spec)

\* A credential that does not load and has a name is a Secret's fault.
LEMMA FailureHasSecret ==
  ASSUME NEW spec \in SchemaRegistrySpec, ValidateSchemaRegistrySpec(spec),
         NEW data \in [SecretNames -> SecretStates], LoadFails(spec.auth, data)
  PROVE  \E n \in SecretNames : /\ ReferencesSecret(spec.auth, n)
                                /\ data[n] \in {"absent", "garbled"}
<1>1. /\ spec.auth.secretRef \in SecretNames \cup {""}
      /\ spec.auth.caSecretRef \in SecretNames \cup {""}
  BY DEF SchemaRegistrySpec, Auth
<1>2. CASE NeedsCA(spec.auth) /\ Read(data, spec.auth.caSecretRef) = "absent"
  <2>1. /\ spec.auth.caSecretRef \in SecretNames
        /\ data[spec.auth.caSecretRef] = "absent"
        /\ ReferencesSecret(spec.auth, spec.auth.caSecretRef)
    BY <1>1, <1>2 DEF NeedsCA, Read, ReferencesSecret
  <2>. QED
    BY <2>1
<1>3. CASE ~(NeedsCA(spec.auth) /\ Read(data, spec.auth.caSecretRef) = "absent")
  <2>1. /\ NeedsSecret(spec.auth)
        /\ Read(data, spec.auth.secretRef) \in {"absent", "garbled"}
    BY <1>3 DEF LoadFails, NeedsSecret
  <2>2. /\ spec.auth.secretRef \in SecretNames
        /\ data[spec.auth.secretRef] \in {"absent", "garbled"}
        /\ ReferencesSecret(spec.auth, spec.auth.secretRef)
    BY <1>1, <2>1 DEF ValidateSchemaRegistrySpec, Read, ReferencesSecret
  <2>. QED
    BY <2>2
<1>. QED
  BY <1>2, <1>3

\* Users write what the webhook lets through; the controller writes back the
\* spec that is stored.
LEMMA AdmittedStep ==
  ASSUME WebhooksEnabled, MonitorInv, SpecsAdmitted, [Next]_vars
  PROVE  SpecsAdmitted'
<1>t. TypeOK /\ api \in [Keys -> SchemaRegistry \cup {Nil}]
  BY DEF MonitorInv, TypeOK, ClusterTypeOK
<1>1. CASE UNCHANGED api
  BY <1>1 DEF SpecsAdmitted
<1>2. ASSUME NEW k \in Keys, NEW o \in SchemaRegistry \cup {Nil}, Store(k, o),
             o # Nil => ValidateSchemaRegistrySpec(o.spec)
      PROVE  SpecsAdmitted'
  <2>1. api' = [api EXCEPT ![k] = o]
    BY <1>2 DEF Store
  <2>. QED
    BY <1>2, <1>t, <2>1 DEF SpecsAdmitted
<1>3. CASE Step
  <2>1. /\ sr \in SchemaRegistry /\ key \in Keys /\ pc # "idle"
        /\ current => sr = api[key]
    BY <1>3, <1>t, StepObject DEF MonitorInv, CopyIsStored
  <2>2. ASSUME NEW s \in SchemaRegistryStatus, current,
               Store(key, [sr EXCEPT !.status = s])
        PROVE  SpecsAdmitted'
    <3>. DEFINE o == [sr EXCEPT !.status = s]
    <3>1. o \in SchemaRegistry /\ o.spec = sr.spec
      BY <2>1, StatusType DEF SchemaRegistry
    <3>2. sr # Nil
      BY <2>1, RegistryReconcilerAssumption
    <3>. HIDE DEF o
    <3>. QED
      BY <1>2, <2>1, <2>2, <3>1, <3>2 DEF SpecsAdmitted, o
  <2>3. CheckedStatus \in SchemaRegistryStatus
    BY <2>1 DEF CheckedStatus, SchemaRegistryStatus, SchemaRegistry, Reasons
  <2>4. FailedStatus \in SchemaRegistryStatus
    BY <2>1 DEF FailedStatus, SchemaRegistryStatus, SchemaRegistry, Reasons
  <2>. QED
    BY <1>1, <1>3, <2>2, <2>3, <2>4
       DEF Step, Load, HealthCheck, GetForStatus, PutStatus, GetForFailure,
           PutFailure, Updated, UpdateError, Unchanged
<1>4. CASE User
  <2>1. ASSUME NEW k \in Keys, NEW spec \in SchemaRegistrySpec,
               CreateRegistry(k, spec)
        PROVE  SpecsAdmitted'
    <3>. DEFINE o == [generation |-> 1, spec |-> spec, status |-> NewStatus]
    <3>1. o \in SchemaRegistry /\ o.spec = spec
      BY DEF SchemaRegistry, NewStatus, SchemaRegistryStatus, Reasons
    <3>. HIDE DEF o
    <3>. QED
      BY <1>2, <2>1, <3>1 DEF CreateRegistry, UserWrite, o
  <2>2. ASSUME NEW k \in Keys, NEW spec \in SchemaRegistrySpec,
               UpdateRegistry(k, spec)
        PROVE  SpecsAdmitted'
    <3>. DEFINE o == [api[k] EXCEPT !.spec = spec, !.generation = @ + 1]
    <3>1. api[k] \in SchemaRegistry
      BY <2>2, <1>t DEF UpdateRegistry
    <3>2. o \in SchemaRegistry /\ o.spec = spec
      BY <3>1, EditType DEF SchemaRegistry
    <3>. HIDE DEF o
    <3>. QED
      BY <1>2, <2>2, <3>2 DEF UpdateRegistry, UserWrite, o
  <2>3. ASSUME NEW k \in Keys, DeleteRegistry(k) PROVE SpecsAdmitted'
    BY <1>2, <2>3 DEF DeleteRegistry, UserWrite
  <2>4. ASSUME NEW k \in Keys, NEW spec \in Specs[k]
        PROVE  spec \in SchemaRegistrySpec
    BY RegistryReconcilerAssumption
  <2>. QED
    BY <1>1, <1>4, <2>1, <2>2, <2>3, <2>4
       DEF User, WriteSecret, Outage, clusterVars
<1>. QED
  BY <1>1, <1>3, <1>4
     DEF Next, Dequeue, Informer, WatchEvent, Timer, DelayElapses, SecretEvent,
         Crash, Relist, vars, clusterVars

\* With the webhook no registry is stuck for want of a name: what keeps it
\* without a timer is a Secret, and the event of that Secret brings it back.
THEOREM Mendable == Spec => []SecretCanMend
<1>. DEFINE Admitted == WebhooksEnabled => SpecsAdmitted
<1>1. Init => Admitted
  BY DEF Init, ClusterInit, SpecsAdmitted
<1>2. MonitorInv /\ Admitted /\ [Next]_vars => Admitted'
  BY AdmittedStep
<1>3. ASSUME MonitorInv, RegistryIsMonitored, Admitted PROVE SecretCanMend
  <2>1. SUFFICES ASSUME WebhooksEnabled, NEW k \in Keys, Waiting(k),
                        api[k] # Nil, sched[k] = "none"
                 PROVE  \E s \in Secrets :
                          /\ s.namespace = k.namespace
                          /\ ReferencesSecret(api[k].spec.auth, s.name)
                          /\ secrets[s] \in {"absent", "garbled"}
    BY DEF SecretCanMend
  <2>2. /\ api[k].spec \in SchemaRegistrySpec
        /\ ValidateSchemaRegistrySpec(api[k].spec)
        /\ DataIn(k.namespace) \in [SecretNames -> SecretStates]
    BY <1>3, <2>1, DataType DEF SpecsAdmitted, MonitorInv, TypeOK,
       ClusterTypeOK, SchemaRegistry
  <2>3. LoadFails(api[k].spec.auth, DataIn(k.namespace))
    BY <1>3, <2>1 DEF RegistryIsMonitored, Verdict
  <2>4. PICK n \in SecretNames :
               /\ ReferencesSecret(api[k].spec.auth, n)
               /\ DataIn(k.namespace)[n] \in {"absent", "garbled"}
    BY <2>2, <2>3, FailureHasSecret
  <2>5. [namespace |-> k.namespace, name |-> n] \in Secrets
    BY RegistryReconcilerAssumption DEF Secrets
  <2>. QED
    BY <2>4, <2>5 DEF DataIn
<1>. QED
  BY <1>1, <1>2, <1>3, MonitorCorrect, Monitored, PTL DEF Spec

-----------------------------------------------------------------------------
(***************************************************************************)
(* WaitingStatusIsTrue.  A check reads the cached spec and the Secrets,    *)
(* asks the server, and reports.  Whatever changes in between makes the    *)
(* key due; if nothing does, the report is what a check would find now.    *)
(***************************************************************************)

\* A step makes k due, or leaves what a check of k would load.
Calm(k) ==
  \/ Due(k)'
  \/ /\ ~Due(k)
     /\ cache'[k] = cache[k]
     /\ CannotLoad(k)' <=> CannotLoad(k)
     /\ Loaded(k)' = Loaded(k)

\* So does a step that touches neither the cached object nor the Secrets.
LEMMA CalmIf ==
  ASSUME NEW k \in Keys, UNCHANGED << secrets, secretEvents >>,
         cache'[k] = cache[k],
         sched[k] = "ready" => sched'[k] = "ready",
         cacheCurrent'[k] => cacheCurrent[k]
  PROVE  Calm(k)
BY DEF Calm, Due, Pending, CannotLoad, Loaded, DataIn

\* A step of the worker changes the queue and the stored object under its key
\* only, and never takes a key that is ready out of the queue.
LEMMA StepTouches ==
  ASSUME TypeOK, Step
  PROVE  /\ UNCHANGED << cache, secrets, secretEvents, online >>
         /\ \A k \in Keys : /\ sched[k] = "ready" => sched'[k] = "ready"
                            /\ cacheCurrent'[k] => cacheCurrent[k]
         /\ key' = key \/ Idle
<1>1. UNCHANGED << cache, secrets, secretEvents, online >>
  BY DEF Step, Load, HealthCheck, GetForStatus, PutStatus, GetForFailure,
     PutFailure, envVars
<1>2. UNCHANGED sched \/ sched' = Requeue(key)
  BY DEF Step, Load, HealthCheck, GetForStatus, PutStatus, GetForFailure,
     PutFailure, Continue, Get, Done, Retry
<1>3. UNCHANGED cacheCurrent
      \/ cacheCurrent' = [cacheCurrent EXCEPT ![key] = FALSE]
  BY DEF Step, Load, HealthCheck, GetForStatus, PutStatus, GetForFailure,
     PutFailure, Updated, Unchanged, UpdateError, Store
<1>4. key' = key \/ Idle
  BY DEF Step, Load, HealthCheck, GetForStatus, PutStatus, GetForFailure,
     PutFailure, Continue, Get, Done, Retry
<1>. QED
  BY <1>1, <1>2, <1>3, <1>4 DEF Requeue, TypeOK, ClusterTypeOK

\* Every step is calm for every key, but for the one that takes the key.
LEMMA CalmStep ==
  ASSUME TypeOK, [Next]_vars, NEW k \in Keys, ~Dequeue(k)
  PROVE  Calm(k)
<1>t. /\ sched \in [Keys -> SchedStates]
      /\ cache \in [Keys -> SchemaRegistry \cup {Nil}]
      /\ cacheCurrent \in [Keys -> BOOLEAN]
  BY DEF TypeOK, ClusterTypeOK
<1>1. CASE Step
  BY <1>1, StepTouches, CalmIf
<1>2. ASSUME NEW i \in Keys, Dequeue(i) \/ Timer(i) PROVE Calm(k)
  <2>1. /\ UNCHANGED << cache, cacheCurrent, secrets, secretEvents >>
        /\ sched[k] = "ready" => sched'[k] = "ready"
    BY <1>2, <1>t DEF Dequeue, Timer, DelayElapses, Enqueue, envVars
  <2>. QED
    BY <2>1, CalmIf
<1>3. ASSUME NEW i \in Keys, Informer(i) PROVE Calm(k)
  <2>1. /\ UNCHANGED << secrets, secretEvents >>
        /\ i # k => /\ cache'[k] = cache[k]
                    /\ cacheCurrent'[k] = cacheCurrent[k]
        /\ sched'[k] = IF k = i THEN "ready" ELSE sched[k]
    BY <1>3, <1>t DEF Informer, WatchEvent, Enqueue, envVars
  <2>2. CASE i = k
    BY <2>1, <2>2 DEF Calm, Due
  <2>. QED
    BY <2>1, <2>2, CalmIf
<1>4. ASSUME NEW s \in Secrets, SecretEvent(s) PROVE Calm(k)
  <2>1. /\ UNCHANGED << cache, cacheCurrent, secrets >>
        /\ Due(k) => Due(k)'
    BY <1>4, EventDue DEF SecretEvent
  <2>. QED
    BY <2>1 DEF Calm, CannotLoad, Loaded, DataIn
<1>5. CASE User
  <2>1. ASSUME NEW s \in Secrets, NEW x \in SecretData, WriteSecret(s, x)
        PROVE  Calm(k)
    <3>1. cache' = cache
      BY <2>1 DEF WriteSecret, clusterVars
    <3>. QED
      BY <2>1, <3>1, SecretDue DEF Calm
  <2>2. ASSUME NEW v \in Servers, Outage(v) PROVE Calm(k)
    BY <2>2, CalmIf DEF Outage, clusterVars
  <2>3. ASSUME NEW i \in Keys, NEW o, UserWrite(i, o) PROVE Calm(k)
    BY <2>3, <1>t, CalmIf DEF UserWrite, Store
  <2>. QED
    BY <1>5, <2>1, <2>2, <2>3
       DEF User, CreateRegistry, UpdateRegistry, DeleteRegistry
<1>6. CASE Crash
  BY <1>6 DEF Crash, Relist, Calm, Due
<1>7. CASE UNCHANGED vars
  BY <1>7, CalmIf DEF vars, clusterVars, envVars
<1>. QED
  BY <1>1, <1>2, <1>3, <1>4, <1>5, <1>6, <1>7 DEF Next

\* The servers are stable: a calm step leaves the verdict as it is.
LEMMA VerdictKept ==
  ASSUME NEW k \in Keys, Calm(k), ~Due(k)', UNCHANGED online
  PROVE  ~Due(k) /\ cache'[k] = cache[k] /\ CachedVerdict(k)' = CachedVerdict(k)
BY DEF Calm, CachedVerdict, Answers

\* No server fails and none comes back.
LEMMA OnlineKept ==
  ASSUME TypeOK, Stable, [Next]_vars
  PROVE  UNCHANGED online
BY StepTouches
   DEF Stable, Next, Dequeue, Informer, Timer, SecretEvent, User,
       CreateRegistry, UpdateRegistry, DeleteRegistry, UserWrite, WriteSecret,
       Outage, Crash, envVars, vars

\* The worker goes on with the cached object.
LEMMA WorkStep ==
  ASSUME StatusInv, [Next]_vars
  PROVE  WorkIsOfCached'
<1>t. /\ TypeOK /\ WorkIsOfCached
      /\ sched \in [Keys -> SchedStates]
      /\ cache \in [Keys -> SchemaRegistry \cup {Nil}]
      /\ cacheCurrent \in [Keys -> BOOLEAN]
      /\ pc # "idle" => key \in Keys
  BY DEF StatusInv, MonitorInv, TypeOK, ClusterTypeOK, WorkerTypeOK
<1>1. CASE Step
  <2>. SUFFICES ASSUME pc' # "idle", sched'[key'] # "ready"
                PROVE  sr' = cache'[key'] /\ current' = cacheCurrent'[key']
    BY DEF WorkIsOfCached
  <2>1. /\ UNCHANGED << key, sched, cache, cacheCurrent >> /\ pc # "idle"
        /\ \/ UNCHANGED << sr, current >>
           \/ sr' = cache[key] /\ current' = cacheCurrent[key]
    BY <1>1 DEF Step, Load, HealthCheck, GetForStatus, PutStatus,
       GetForFailure, PutFailure, Continue, Get, Done, Retry, Idle
  <2>. QED
    BY <2>1, <1>t DEF WorkIsOfCached
<1>2. ASSUME NEW k \in Keys, Dequeue(k) PROVE WorkIsOfCached'
  BY <1>2, <1>t DEF Dequeue, WorkIsOfCached
<1>3. ASSUME NEW k \in Keys, NEW o, UserWrite(k, o) PROVE WorkIsOfCached'
  <2>1. /\ UNCHANGED << cache, sched, pc, key, sr >>
        /\ current' = (current /\ key # k)
        /\ cacheCurrent' = [cacheCurrent EXCEPT ![k] = FALSE]
    BY <1>3 DEF UserWrite, Store
  <2>2. CASE pc # "idle" /\ sched[key] # "ready"
    <3>1. sr = cache[key] /\ current = cacheCurrent[key] /\ key \in Keys
      BY <2>2, <1>t DEF WorkIsOfCached
    <3>2. current' = cacheCurrent'[key]
      BY <2>1, <3>1, <1>t
    <3>. QED
      BY <2>1, <3>1, <3>2 DEF WorkIsOfCached
  <2>. QED
    BY <2>1, <2>2 DEF WorkIsOfCached
<1>4. ASSUME \/ \E k \in Keys : Informer(k) \/ Timer(k)
             \/ \E s \in Secrets : SecretEvent(s)
             \/ \E s \in Secrets, x \in SecretData : WriteSecret(s, x)
             \/ \E v \in Servers : Outage(v)
             \/ UNCHANGED vars
      PROVE  WorkIsOfCached'
  <2>1. /\ UNCHANGED << pc, key, sr, current >>
        /\ \A i \in Keys : \/ sched'[i] = "ready"
                           \/ /\ sched'[i] = sched[i]
                              /\ cache'[i] = cache[i]
                              /\ cacheCurrent'[i] = cacheCurrent[i]
    BY <1>4, <1>t DEF Informer, WatchEvent, Timer, DelayElapses, SecretEvent,
       WriteSecret, Outage, Enqueue, clusterVars, workerVars, vars
  <2>. QED
    BY <2>1, <1>t DEF WorkIsOfCached
<1>5. CASE Crash
  BY <1>5 DEF Crash, Idle, WorkIsOfCached
<1>. QED
  BY <1>1, <1>2, <1>3, <1>4, <1>5
     DEF Next, User, CreateRegistry, UpdateRegistry, DeleteRegistry

\* What the worker has found is what it would find now.
LEMMA CheckStep ==
  ASSUME Stable, StatusInv, [Next]_vars
  PROVE  CheckIsCurrent'
<1>t. TypeOK /\ CheckIsCurrent /\ WorkIsOfCached
  BY DEF StatusInv, MonitorInv
<1>o. UNCHANGED online
  BY <1>t, OnlineKept
<1>. SUFFICES ASSUME NEW k \in Keys, k = key', pc' # "idle", ~Due(k)'
              PROVE  /\ pc' = "healthCheck" =>
                          ~CannotLoad(k)' /\ authConfig' = Loaded(k)'
                     /\ pc' \in {"getStatus", "putStatus"} =>
                          CachedVerdict(k)' = IF healthErr' THEN "ConnectionFailed"
                                                            ELSE "Connected"
  <2>1. TypeOK'
    BY <1>t, TypeStep
  <2>2. pc' # "idle" => key' \in Keys
    BY <2>1 DEF TypeOK, WorkerTypeOK
  <2>. QED
    BY <2>2 DEF CheckIsCurrent, Due, Pending, CannotLoad, Loaded, CachedVerdict,
       Answers, DataIn
<1>1. CASE \E i \in Keys : Dequeue(i)
  BY <1>1, <1>t DEF Dequeue, TypeOK, WorkerTypeOK, Calls
<1>2. CASE ~(\E i \in Keys : Dequeue(i))
  <2>1. Calm(k)
    BY <1>2, <1>t, CalmStep
  <2>2. /\ ~Due(k) /\ cache'[k] = cache[k]
        /\ CachedVerdict(k)' = CachedVerdict(k)
        /\ CannotLoad(k)' <=> CannotLoad(k)
        /\ Loaded(k)' = Loaded(k)
    BY <2>1, <1>o, VerdictKept DEF Calm
  <2>3. CASE Step
    <3>1. key = k /\ pc # "idle"
      BY <2>3, <1>t, StepTouches, StepObject DEF Idle
    <3>2. sr = cache[k]
      BY <3>1, <2>2, <1>t DEF WorkIsOfCached, Due
    <3>3. CASE Load
      BY <3>1, <3>2, <3>3, <2>2 DEF Load, Continue, CannotLoad, Loaded
    <3>4. CASE HealthCheck
      <4>1. ~CannotLoad(k) /\ authConfig = Loaded(k)
        BY <3>1, <3>4, <2>2, <1>t DEF HealthCheck, CheckIsCurrent
      <4>2. healthErr' = ~Answers(sr.spec, authConfig) /\ pc' = "getStatus"
        BY <3>4 DEF HealthCheck, Continue, Fault, Stable
      <4>. QED
        BY <3>2, <4>1, <4>2, <2>2 DEF CachedVerdict
    <3>5. CASE GetForStatus
      <4>1. pc = "getStatus" /\ pc' = "putStatus" /\ healthErr' = healthErr
        BY <3>5 DEF GetForStatus, Get, Done, Idle
      <4>. QED
        BY <3>1, <4>1, <2>2, <1>t DEF CheckIsCurrent
    <3>6. CASE PutStatus \/ GetForFailure \/ PutFailure
      BY <3>6 DEF PutStatus, GetForFailure, PutFailure, Get, Done, Retry, Idle
    <3>. QED
      BY <2>3, <3>3, <3>4, <3>5, <3>6 DEF Step
  <2>4. CASE ~Step
    <3>1. UNCHANGED << pc, key, authConfig, healthErr >>
      BY <2>4, <1>2 DEF Next, Informer, Timer, SecretEvent, User,
         CreateRegistry, UpdateRegistry, DeleteRegistry, UserWrite, WriteSecret,
         Outage, Crash, Idle, workerVars, vars
    <3>. QED
      BY <3>1, <2>2, <1>t DEF CheckIsCurrent
  <2>. QED
    BY <2>3, <2>4
<1>. QED
  BY <1>1, <1>2

\* A reconcile ends with a true report, or its key is due.
LEMMA EndTrue ==
  ASSUME Stable, StatusInv, Step, NEW k \in Keys, k = key, key' # k, ~Due(k)'
  PROVE  /\ cache[k].status.reason = CachedVerdict(k)
         /\ cache[k].status.condGeneration = cache[k].generation
<1>t. /\ TypeOK /\ CheckIsCurrent /\ WorkIsOfCached /\ FailureIsCurrent
      /\ sched \in [Keys -> SchedStates]
      /\ cacheCurrent \in [Keys -> BOOLEAN]
      /\ sr \in SchemaRegistry /\ pc # "idle"
  BY StepObject DEF StatusInv, MonitorInv, TypeOK, ClusterTypeOK
<1>1. ~Due(k)
  BY <1>t, StepTouches, CalmIf DEF Calm
<1>2. sr = cache[k] /\ current
  BY <1>1, <1>t DEF WorkIsOfCached, Due
<1>3. ASSUME NEW o PROVE ~Updated(o) /\ ~UpdateError(o)
  <2>1. ~Store(key, o)
    BY <1>t DEF Store, Due
  <2>. QED
    BY <1>2, <2>1 DEF Updated, UpdateError, Fault, Stable
<1>4. CASE PutStatus
  <2>1. pc = "putStatus" /\ sr.status = CheckedStatus
    BY <1>3, <1>4 DEF PutStatus, Unchanged
  <2>2. CachedVerdict(k) = IF healthErr THEN "ConnectionFailed" ELSE "Connected"
    BY <1>1, <2>1, <1>t DEF CheckIsCurrent
  <2>. QED
    BY <1>2, <2>1, <2>2 DEF CheckedStatus
<1>5. CASE PutFailure
  <2>1. pc = "putFailed" /\ sr.status = FailedStatus
    BY <1>3, <1>5 DEF PutFailure, Unchanged
  <2>2. CannotLoad(k)
    BY <1>1, <2>1, <1>t DEF FailureIsCurrent
  <2>3. /\ FailedStatus.reason = "AuthLoadFailed"
        /\ FailedStatus.condGeneration = sr.generation
    BY <1>t DEF FailedStatus, SchemaRegistry, SchemaRegistryStatus
  <2>. QED
    BY <1>2, <2>1, <2>2, <2>3 DEF CachedVerdict
<1>6. CASE GetForStatus \/ GetForFailure
  <2>1. cache[k] # Nil
    BY <1>1 DEF Due
  <2>. QED
    BY <1>6, <2>1 DEF GetForStatus, GetForFailure, Get
<1>7. CASE Load \/ HealthCheck
  BY <1>7 DEF Load, HealthCheck, Continue
<1>. QED
  BY <1>4, <1>5, <1>6, <1>7 DEF Step

\* A key that is not due is at rest: it was so before, or its reconcile ends.
LEMMA RestStep ==
  ASSUME Stable, StatusInv, [Next]_vars
  PROVE  RestIsTrue'
<1>t. TypeOK /\ RestIsTrue /\ Nil \notin Keys
  BY RegistryReconcilerAssumption DEF StatusInv, MonitorInv
<1>o. UNCHANGED online
  BY <1>t, OnlineKept
<1>. SUFFICES ASSUME NEW k \in Keys, key' # k, ~Due(k)'
              PROVE  /\ cache'[k].status.reason = CachedVerdict(k)'
                     /\ cache'[k].status.condGeneration = cache'[k].generation
  BY DEF RestIsTrue
<1>1. ~Dequeue(k)
  BY DEF Dequeue, Due
<1>2. ~Due(k) /\ cache'[k] = cache[k] /\ CachedVerdict(k)' = CachedVerdict(k)
  BY <1>1, <1>t, <1>o, CalmStep, VerdictKept
<1>3. CASE key # k
  BY <1>2, <1>3, <1>t DEF RestIsTrue
<1>4. CASE key = k
  <2>1. Step
    <3>1. pc # "idle"
      BY <1>4, <1>t DEF TypeOK, WorkerTypeOK
    <3>2. ~Crash
      BY DEF Crash, Relist, Due
    <3>. QED
      BY <1>4, <3>1, <3>2
         DEF Next, Dequeue, Informer, Timer, SecretEvent, User,
         CreateRegistry, UpdateRegistry, DeleteRegistry, UserWrite, WriteSecret,
         Outage, workerVars, vars
  <2>. QED
    BY <2>1, <1>2, <1>4, EndTrue
<1>. QED
  BY <1>3, <1>4

\* StatusInv is inductive where servers and API are stable;
LEMMA StatusStep ==
  ASSUME Stable, StatusInv, [Next]_vars
  PROVE  StatusInv'
<1>1. MonitorInv'
  BY MonitorStep DEF StatusInv
<1>. QED
  BY <1>1, WorkStep, CheckStep, RestStep DEF StatusInv

\* and nothing outside this controller disturbs it.
LEMMA AloneStatus ==
  ASSUME StatusInv, TypeOK',
         UNCHANGED << clusterVars, secrets, secretEvents, online, workerVars >>
  PROVE  StatusInv'
<1>1. UNCHANGED << cache, cacheCurrent, sched, pc, key, sr, current,
                   authConfig, healthErr >>
  BY DEF clusterVars, workerVars
<1>2. MonitorInv'
  BY AloneMonitor DEF StatusInv
<1>. QED
  BY <1>1, <1>2 DEF StatusInv, WorkIsOfCached, CheckIsCurrent, RestIsTrue, Due,
     Pending, CachedVerdict, CannotLoad, Loaded, Answers, DataIn

\* The invariant behind WaitingStatusIsTrue.
THEOREM StatusCorrect ==
  ASSUME Stable
  PROVE  Spec => []StatusInv
<1>1. Init => StatusInv
  <2>. SUFFICES ASSUME Init PROVE StatusInv
    OBVIOUS
  <2>1. MonitorInv
    BY MonitorInit
  <2>. QED
    BY <2>1 DEF Init, ClusterInit, StatusInv, WorkIsOfCached, CheckIsCurrent,
       RestIsTrue, Due
<1>2. StatusInv /\ [Next]_vars => StatusInv'
  BY StatusStep
<1>. QED
  BY <1>1, <1>2, PTL DEF Spec

\* What the invariant says of a registry that waits.
LEMMA StatusImplies ==
  ASSUME StatusInv
  PROVE  WaitingStatusIsTrue
<1>1. ASSUME NEW k \in Keys, Waiting(k), api[k] # Nil
      PROVE  /\ api[k].status.reason = Verdict(k)
             /\ api[k].status.condGeneration = api[k].generation
  <2>1. cache[k] = api[k] /\ key # k /\ ~Due(k)
    BY <1>1 DEF Waiting, StatusInv, MonitorInv, CacheIsStored, Due, Pending
  <2>2. CachedVerdict(k) = Verdict(k)
    BY <2>1 DEF CachedVerdict, Verdict, CannotLoad, Loaded
  <2>. QED
    BY <1>1, <2>1, <2>2 DEF StatusInv, RestIsTrue
<1>. QED
  BY <1>1 DEF WaitingStatusIsTrue

\* With stable servers a registry that waits for its next check reports what
\* that check would find, for its current spec: whatever users do to registries
\* and Secrets, in any order with the steps of a check, and through restarts
\* and lost replies.
THEOREM StatusIsTrue ==
  ASSUME Stable
  PROVE  Spec => []WaitingStatusIsTrue
BY StatusImplies, StatusCorrect, PTL
=============================================================================

----------------------- MODULE SchemaReconciler_proofs ----------------------
(***************************************************************************)
(* Theorems about SchemaReconciler, for every value of its constants.      *)
(***************************************************************************)
EXTENDS SchemaReconciler, TLAPS

(***************************************************************************)
(* Type correctness.                                                       *)
(***************************************************************************)

\* A server that serves a request keeps versions and levels of their types.
LEMMA ServeType ==
  ASSUME RegistryTypeOK, NEW q \in Request, Serve(q)
  PROVE  /\ subjects' \in [Servers -> [Subjects -> Seq(Contents)]]
         /\ levels' \in [Servers -> [Subjects -> SUBSET Levels]]
<1>1. CASE ServePost(q)
  <2>1. q \in PostRequest
    BY <1>1 DEF ServePost, Request, PutRequest, DeleteRequest
  <2>2. Append(subjects[q.server][q.subject], q.content) \in Seq(Contents)
    BY <2>1 DEF RegistryTypeOK, PostRequest
  <2>. QED
    BY <1>1, <2>1, <2>2 DEF ServePost, RegistryTypeOK, PostRequest
<1>2. CASE ServePut(q)
  <2>1. q \in PutRequest
    BY <1>2 DEF ServePut, Request, PostRequest, DeleteRequest
  <2>. QED
    BY <1>2, <2>1 DEF ServePut, RegistryTypeOK, PutRequest
<1>3. CASE ServeDelete(q)
  <2>1. q \in DeleteRequest
    BY <1>3 DEF ServeDelete, Request, PostRequest, PutRequest
  <2>2. << >> \in Seq(Contents)
    OBVIOUS
  <2>. QED
    BY <1>3, <2>1, <2>2 DEF ServeDelete, RegistryTypeOK, DeleteRequest
<1>. QED
  BY <1>1, <1>2, <1>3 DEF Serve

\* So does a call, answered or not.
LEMMA CallType ==
  ASSUME RegistryTypeOK, NEW q \in Request, Answered(q) \/ Unanswered(q)
  PROVE  RegistryTypeOK'
<1>. USE ClientAssumption, FaultAssumption
<1>1. CASE Answered(q)
  BY <1>1, ServeType DEF Answered, RegistryTypeOK
<1>2. CASE Unserved /\ UNCHANGED << subjects, levels, late >>
  BY <1>2 DEF Unserved, Down, Fault, RegistryTypeOK
<1>3. CASE Fault("replyLost") /\ Serve(q) /\ UNCHANGED late
  BY <1>3, ServeType DEF Fault, RegistryTypeOK
<1>4. CASE Fault("late") /\ late' = late \cup {q} /\ UNCHANGED << subjects, levels >>
  BY <1>4 DEF Fault, RegistryTypeOK
<1>. QED
  BY <1>1, <1>2, <1>3, <1>4 DEF Unanswered

-----------------------------------------------------------------------------

\* An object stays one when the worker sets its finalizer or its status.
LEMMA ObjectType ==
  ASSUME NEW o \in SchemaObject, NEW s \in SchemaStatus
  PROVE  /\ [o EXCEPT !.finalizer = TRUE] \in SchemaObject
         /\ [o EXCEPT !.status = s] \in SchemaObject
BY DEF SchemaObject

\* An object stays one when a user edits it.
LEMMA EditType ==
  ASSUME NEW o \in SchemaObject, NEW spec \in SchemaSpec
  PROVE  [o EXCEPT !.spec = spec, !.generation = @ + 1] \in SchemaObject
<1>1. o.generation + 1 \in Nat
  BY DEF SchemaObject
<1>2. ASSUME NEW n \in Nat
      PROVE  [o EXCEPT !.spec = spec, !.generation = n] \in SchemaObject
  BY DEF SchemaObject
<1>. QED
  BY <1>1, <1>2

\* An object stays one when a user deletes it and a finalizer keeps it.
LEMMA DeletionType ==
  ASSUME NEW o \in SchemaObject
  PROVE  [o EXCEPT !.deleting = TRUE, !.generation = @ + 1] \in SchemaObject
<1>1. o.generation + 1 \in Nat
  BY DEF SchemaObject
<1>2. ASSUME NEW n \in Nat
      PROVE  [o EXCEPT !.deleting = TRUE, !.generation = n] \in SchemaObject
  BY DEF SchemaObject
<1>. QED
  BY <1>1, <1>2

\* Storing an object, or nothing, under a key.
LEMMA StoreType ==
  ASSUME ClusterTypeOK, NEW k \in Keys, NEW o \in SchemaObject \cup {Nil},
         Store(k, o), UNCHANGED << cache >>, sched' \in [Keys -> SchedStates]
  PROVE  ClusterTypeOK'
BY DEF ClusterTypeOK, Store

\* The outcomes of an Update keep the cluster's and the fault counter's types.
LEMMA UpdateType ==
  ASSUME ClusterTypeOK, RegistryTypeOK, key \in Keys,
         NEW o \in SchemaObject \cup {Nil},
         \/ Updated(o)
         \/ UpdateError(o)
         \/ UNCHANGED << api, cacheCurrent, faults >>,
         UNCHANGED << cache, subjects, levels, late >>,
         sched' \in [Keys -> SchedStates]
  PROVE  ClusterTypeOK' /\ RegistryTypeOK'
<1>. USE ClientAssumption, FaultAssumption
<1>1. CASE Updated(o)
  BY <1>1, StoreType DEF Updated, RegistryTypeOK
<1>2. CASE UNCHANGED << api, cacheCurrent, faults >>
  BY <1>2 DEF ClusterTypeOK, RegistryTypeOK
<1>3. CASE Fault("apiError") /\ UNCHANGED << api, cacheCurrent >>
  BY <1>3 DEF Fault, ClusterTypeOK, RegistryTypeOK
<1>4. CASE Fault("apiReplyLost") /\ current /\ Store(key, o)
  BY <1>4, StoreType DEF Fault, RegistryTypeOK
<1>. QED
  BY <1>1, <1>2, <1>3, <1>4 DEF UpdateError

\* The end of a reconcile.
LEMMA EndType ==
  ASSUME ClusterTypeOK, Done \/ Retry
  PROVE  WorkerTypeOK' /\ sched' \in [Keys -> SchedStates]
<1>1. WorkerTypeOK'
  <2>1. Idle
    BY DEF Done, Retry
  <2>2. resp' \in Response
    BY <2>1 DEF Idle, NoResp, Response
  <2>. QED
    BY <2>1, <2>2 DEF Idle, WorkerTypeOK, Reasons, RegistryCalls
<1>2. sched' \in [Keys -> SchedStates]
  BY DEF Done, Retry, Requeue, ClusterTypeOK, SchedStates
<1>. QED
  BY <1>1, <1>2

\* A request on the wire is a request.
LEMMA InFlightType ==
  ASSUME WorkerTypeOK
  PROVE  InFlight \subseteq Request
<1>. USE ReconcilerAssumption, RuntimeAssumption
<1>1. CASE pc = "register"
  <2>1. schema \in SchemaObject /\ server \in Servers
    BY <1>1 DEF WorkerTypeOK, RegistryCalls
  <2>2. Post(server, schema.spec.subject, schema.spec.content) \in Request
    BY <2>1 DEF Post, Request, PostRequest, SchemaObject, SchemaSpec
  <2>. QED
    BY <1>1, <2>2 DEF InFlight
<1>2. CASE pc = "setCompatibility"
  <2>1. schema \in SchemaObject /\ server \in Servers /\ schema.spec.level # Nil
    BY <1>2 DEF WorkerTypeOK, RegistryCalls
  <2>2. Put(server, schema.spec.subject, schema.spec.level) \in Request
    BY <2>1 DEF Put, Request, PutRequest, SchemaObject, SchemaSpec
  <2>. QED
    BY <1>2, <2>2 DEF InFlight
<1>3. CASE pc = "deleteSubject"
  <2>1. schema \in SchemaObject /\ server \in Servers
    BY <1>3 DEF WorkerTypeOK, RegistryCalls
  <2>2. Delete(server, schema.spec.subject) \in Request
    BY <2>1 DEF Delete, Request, DeleteRequest, SchemaObject, SchemaSpec
  <2>. QED
    BY <1>3, <2>2 DEF InFlight
<1>4. CASE pc \notin {"register", "setCompatibility", "deleteSubject"}
  BY <1>4 DEF InFlight
<1>. QED
  BY <1>1, <1>2, <1>3, <1>4

\* The registry a Schema refers to is one of the registries.
LEMMA RegistryOfType ==
  ASSUME NEW k \in Keys, NEW o \in SchemaObject
  PROVE  RegistryOf(k, o) \in Registries
BY ReconcilerAssumption
   DEF RegistryOf, Registries, NamespacedName, SchemaObject, SchemaSpec,
       RegistryRef

\* A cached Get, and its NotFound.
LEMMA GetType ==
  ASSUME ClusterTypeOK, WorkerTypeOK, key \in Keys,
         NEW call \in StatusCalls \cup {"buildClient"},
         Get(call) \/ Done \/ Retry,
         UNCHANGED << api, cache, cacheCurrent >>
  PROVE  ClusterTypeOK' /\ WorkerTypeOK'
<1>1. CASE Get(call)
  <2>1. /\ pc' \in Calls /\ pc' # "idle"
        /\ pc' \notin RegistryCalls /\ pc' # "setCompatibility"
    BY <1>1 DEF Get, Calls, RegisterCalls, StatusCalls, RegistryCalls
  <2>2. schema' \in SchemaObject /\ current' \in BOOLEAN
    BY <1>1 DEF Get, ClusterTypeOK
  <2>3. key' # Nil /\ schema' # Nil
    BY <1>1, ReconcilerAssumption DEF Get
  <2>4. WorkerTypeOK'
    BY <1>1, <2>1, <2>2, <2>3 DEF Get, WorkerTypeOK
  <2>. QED
    BY <1>1, <2>4 DEF Get, ClusterTypeOK
<1>2. CASE Done \/ Retry
  BY <1>2, EndType DEF ClusterTypeOK
<1>. QED
  BY <1>1, <1>2

-----------------------------------------------------------------------------

\* The worker moves on to another call with the copy it has.
LEMMA MoveType ==
  ASSUME WorkerTypeOK, key \in Keys, schema \in SchemaObject,
         pc' \in Calls, UNCHANGED << key, schema, current >>,
         server' \in Servers \cup {Nil}, resp' \in Response, reason' \in Reasons,
         pc' \in RegistryCalls => server' # Nil,
         pc' = "setCompatibility" => schema.spec.level # Nil
  PROVE  WorkerTypeOK'
BY ReconcilerAssumption, RuntimeAssumption
   DEF WorkerTypeOK, Calls, FinalizerCalls, RegisterCalls, StatusCalls,
       DeleteCalls

\* Every call of a reconcile keeps the types.
LEMMA StepType ==
  ASSUME TypeOK, Step
  PROVE  TypeOK'
<1>. USE ReconcilerAssumption, RuntimeAssumption DEF TypeOK
<1>a. schema \in SchemaObject /\ key \in Keys
  BY DEF Step, AddFinalizer, Refetch, BuildClient, RegisterSchema,
     GetLatestVersion, SetCompatibility, GetForStatus, PutStatus,
     GetForFailure, PutFailure, BuildClientForDelete, DeleteSubject,
     RemoveFinalizer, WorkerTypeOK
<1>b. pc \in RegistryCalls => server \in Servers
  BY DEF WorkerTypeOK
<1>c. resp \in Response /\ reason \in Reasons /\ server \in Servers \cup {Nil}
  BY DEF WorkerTypeOK
<1>d. ASSUME UNCHANGED envVars PROVE EnvTypeOK'
  BY <1>d DEF envVars, EnvTypeOK
<1>e. ASSUME UNCHANGED registryVars PROVE RegistryTypeOK'
  BY <1>e DEF registryVars, RegistryTypeOK
<1>f. ASSUME UNCHANGED << api, cache, cacheCurrent, sched >> PROVE ClusterTypeOK'
  BY <1>f DEF ClusterTypeOK
<1>g. schema.status \in SchemaStatus /\ schema.generation \in Nat
  BY <1>a DEF SchemaObject
<1>1. CASE AddFinalizer
  <2>. DEFINE o == [schema EXCEPT !.finalizer = TRUE]
  <2>1. o \in SchemaObject
    BY <1>a, <1>g, ObjectType
  <2>. HIDE DEF o
  <2>2. CASE Updated(o) /\ pc' = "refetch" /\ current' = FALSE
               /\ UNCHANGED << sched, key, schema, server, resp, reason >>
    <3>1. WorkerTypeOK'
      BY <2>2, <1>a DEF WorkerTypeOK, Calls, FinalizerCalls, RegistryCalls
    <3>. QED
      BY <1>1, <2>1, <2>2, <3>1, <1>a, <1>d, UpdateType
         DEF AddFinalizer, ClusterTypeOK
  <2>3. CASE FinalizerUpdateError(o) /\ Retry
    BY <1>1, <2>1, <2>3, <1>a, <1>d, UpdateType, EndType
       DEF AddFinalizer, FinalizerUpdateError
  <2>. QED
    BY <1>1, <2>2, <2>3 DEF AddFinalizer, o
<1>2. CASE Refetch
  BY <1>2, <1>a, <1>d, <1>e, GetType DEF Refetch
<1>3. CASE BuildClient
  <2>1. CASE ClientBuilds
    <3>1. server' \in Servers
      BY <1>3, <2>1, <1>a, RegistryOfType
         DEF BuildClient, ClientBuilds, Usable, EnvTypeOK
    <3>2. WorkerTypeOK'
      BY <1>3, <2>1, <3>1, <1>a, <1>c, MoveType
         DEF BuildClient, Continue, Calls, RegisterCalls
    <3>. QED
      BY <1>3, <2>1, <3>2, <1>d, <1>e, <1>f DEF BuildClient, Continue
  <2>2. CASE ~ClientBuilds
    <3>1. WorkerTypeOK'
      BY <1>3, <2>2, <1>a, <1>c, MoveType
         DEF BuildClient, Fail, Continue, Calls, StatusCalls, Reasons,
             RegistryCalls
    <3>. QED
      BY <1>3, <2>2, <3>1, <1>d, <1>e, <1>f DEF BuildClient, Fail, Continue
  <2>. QED
    BY <2>1, <2>2
<1>4. CASE RegisterSchema
  <2>. DEFINE q == Post(server, schema.spec.subject, schema.spec.content)
  <2>1. q \in Request /\ q.content \in Contents
    BY <1>4, <1>a, <1>b
       DEF RegisterSchema, RegistryCalls, Post, Request, PostRequest,
           SchemaObject, SchemaSpec
  <2>. HIDE DEF q
  <2>2. RegistryTypeOK' /\ ClusterTypeOK'
    BY <1>4, <2>1, <1>f, CallType DEF RegisterSchema, Continue, Fail, q
  <2>3. CASE Continue("latest") /\ resp' = [id |-> q.content, version |-> 0]
               /\ UNCHANGED << server, reason >>
    <3>1. resp' \in Response
      BY <2>1, <2>3 DEF Response
    <3>2. server' # Nil
      BY <1>4, <1>b, <2>3 DEF RegisterSchema, RegistryCalls
    <3>. QED
      BY <1>4, <2>2, <2>3, <3>1, <3>2, <1>a, <1>c, <1>d, MoveType
         DEF RegisterSchema, Continue, Calls, RegisterCalls
  <2>4. CASE Fail("RegistrationFailed")
    BY <1>4, <2>2, <2>4, <1>a, <1>c, <1>d, MoveType
       DEF RegisterSchema, Fail, Continue, Calls, StatusCalls, Reasons,
           RegistryCalls
  <2>. QED
    BY <1>4, <2>3, <2>4 DEF RegisterSchema, q
<1>5. CASE GetLatestVersion
  <2>1. server \in Servers /\ schema.spec.subject \in Subjects
    BY <1>5, <1>a, <1>b
       DEF GetLatestVersion, RegistryCalls, SchemaObject, SchemaSpec
  <2>2. LatestVersion(server, schema.spec.subject) \in Nat
    BY <2>1 DEF LatestVersion, RegistryTypeOK
  <2>3. resp' \in Response
    BY <1>5, <2>2, <1>c DEF GetLatestVersion, Response
  <2>4. RegistryTypeOK'
    BY <1>5, ClientAssumption, FaultAssumption DEF GetLatestVersion, Unserved, Down, Fault, RegistryTypeOK
  <2>5. WorkerTypeOK'
    BY <1>5, <2>1, <2>3, <1>a, <1>c, MoveType
       DEF GetLatestVersion, Continue, Calls, RegisterCalls, StatusCalls,
           RegistryCalls
  <2>. QED
    BY <1>5, <2>4, <2>5, <1>d, <1>f DEF GetLatestVersion, Continue
<1>6. CASE SetCompatibility
  <2>. DEFINE q == Put(server, schema.spec.subject, schema.spec.level)
  <2>1. q \in Request
    BY <1>6, <1>a, <1>b
       DEF SetCompatibility, RegistryCalls, WorkerTypeOK, Put, Request,
           PutRequest, SchemaObject, SchemaSpec
  <2>2. RegistryTypeOK'
    BY <1>6, <2>1, CallType DEF SetCompatibility
  <2>3. WorkerTypeOK'
    BY <1>6, <1>a, <1>c, MoveType
       DEF SetCompatibility, Continue, Calls, StatusCalls, RegistryCalls
  <2>. QED
    BY <1>6, <2>2, <2>3, <1>d, <1>f DEF SetCompatibility, Continue
<1>7. CASE GetForStatus
  BY <1>7, <1>a, <1>d, <1>e, GetType DEF GetForStatus, StatusCalls
<1>8. CASE PutStatus
  <2>. DEFINE o == [schema EXCEPT !.status = ReadyStatus]
  <2>1. ReadyStatus \in SchemaStatus
    BY <1>c, <1>g DEF ReadyStatus, SchemaStatus, Response, Reasons
  <2>2. o \in SchemaObject
    BY <1>a, <2>1, ObjectType
  <2>. HIDE DEF o
  <2>3. \/ Updated(o) \/ UpdateError(o)
        \/ UNCHANGED << api, cacheCurrent, faults >>
    BY <1>8 DEF PutStatus, Unchanged, o
  <2>4. Done \/ Retry
    BY <1>8 DEF PutStatus
  <2>. QED
    BY <1>8, <2>2, <2>3, <2>4, <1>a, <1>d, UpdateType, EndType DEF PutStatus
<1>9. CASE GetForFailure
  BY <1>9, <1>a, <1>d, <1>e, GetType DEF GetForFailure, StatusCalls
<1>10. CASE PutFailure
  <2>. DEFINE o == [schema EXCEPT !.status = FailedStatus]
  <2>1. FailedStatus \in SchemaStatus
    BY <1>c, <1>g DEF FailedStatus, SchemaStatus
  <2>2. o \in SchemaObject
    BY <1>a, <2>1, ObjectType
  <2>. HIDE DEF o
  <2>3. \/ Updated(o) \/ UpdateError(o)
        \/ UNCHANGED << api, cacheCurrent, faults >>
    BY <1>10 DEF PutFailure, Unchanged, o
  <2>. QED
    BY <1>10, <2>2, <2>3, <1>a, <1>d, UpdateType, EndType DEF PutFailure
<1>11. CASE BuildClientForDelete
  <2>1. CASE ClientBuilds
    <3>1. server' \in Servers
      BY <1>11, <2>1, <1>a, RegistryOfType
         DEF BuildClientForDelete, ClientBuilds, Usable, EnvTypeOK
    <3>2. WorkerTypeOK'
      BY <1>11, <2>1, <3>1, <1>a, <1>c, MoveType
         DEF BuildClientForDelete, Continue, Calls, DeleteCalls
    <3>. QED
      BY <1>11, <2>1, <3>2, <1>d, <1>e, <1>f DEF BuildClientForDelete, Continue
  <2>2. CASE ~ClientBuilds
    <3>1. WorkerTypeOK'
      BY <1>11, <2>2, <1>a, <1>c, MoveType
         DEF BuildClientForDelete, Continue, Calls, DeleteCalls, RegistryCalls
    <3>. QED
      BY <1>11, <2>2, <3>1, <1>d, <1>e, <1>f DEF BuildClientForDelete, Continue
  <2>. QED
    BY <2>1, <2>2
<1>12. CASE DeleteSubject
  <2>. DEFINE q == Delete(server, schema.spec.subject)
  <2>1. q \in Request
    BY <1>12, <1>a, <1>b
       DEF DeleteSubject, RegistryCalls, Delete, Request, DeleteRequest,
           SchemaObject, SchemaSpec
  <2>2. RegistryTypeOK'
    BY <1>12, <2>1, CallType DEF DeleteSubject
  <2>3. CASE Continue("removeFinalizer") /\ UNCHANGED << server, resp, reason >>
    <3>1. WorkerTypeOK'
      BY <2>3, <1>a, <1>c, MoveType
         DEF Continue, Calls, DeleteCalls, RegistryCalls
    <3>. QED
      BY <1>12, <2>2, <2>3, <3>1, <1>d, <1>f DEF DeleteSubject, Continue
  <2>4. CASE Retry
    BY <1>12, <2>2, <2>4, <1>d, EndType DEF DeleteSubject, ClusterTypeOK
  <2>. QED
    BY <1>12, <2>3, <2>4 DEF DeleteSubject
<1>13. CASE RemoveFinalizer
  BY <1>13, <1>a, <1>d, UpdateType, EndType
     DEF RemoveFinalizer, FinalizerUpdateError
<1>. QED
  BY <1>1, <1>2, <1>3, <1>4, <1>5, <1>6, <1>7, <1>8, <1>9, <1>10, <1>11,
     <1>12, <1>13 DEF Step

\* A new manager process starts from the stored objects, and the worker from
\* nothing; the request on the wire, if it is served later, is a request.
LEMMA RestartType ==
  ASSUME ClusterTypeOK, RegistryTypeOK, WorkerTypeOK, Restart,
         faults' \in 0 .. MaxFaults
  PROVE  ClusterTypeOK' /\ RegistryTypeOK' /\ WorkerTypeOK'
<1>. USE ReconcilerAssumption, RuntimeAssumption
<1>1. ClusterTypeOK'
  BY DEF Restart, Relist, ClusterTypeOK, SchedStates
<1>2. late' \subseteq Request
  BY InFlightType DEF Restart, RegistryTypeOK
<1>3. RegistryTypeOK'
  BY <1>2 DEF Restart, RegistryTypeOK
<1>4. resp' \in Response
  BY DEF Restart, Idle, NoResp, Response
<1>5. WorkerTypeOK'
  BY <1>4 DEF Restart, Idle, WorkerTypeOK, Reasons, RegistryCalls
<1>. QED
  BY <1>1, <1>3, <1>5

\* So does everything else that may happen.
LEMMA TypeStep ==
  ASSUME TypeOK, [Next]_vars
  PROVE  TypeOK'
<1>. USE ReconcilerAssumption, RuntimeAssumption, ClientAssumption, FaultAssumption DEF TypeOK
<1>d. ASSUME UNCHANGED envVars PROVE EnvTypeOK'
  BY <1>d DEF envVars, EnvTypeOK
<1>e. ASSUME UNCHANGED registryVars PROVE RegistryTypeOK'
  BY <1>e DEF registryVars, RegistryTypeOK
<1>f. ASSUME UNCHANGED << api, cache, cacheCurrent >>, sched' \in [Keys -> SchedStates]
      PROVE  ClusterTypeOK'
  BY <1>f DEF ClusterTypeOK
<1>g. ASSUME UNCHANGED workerVars PROVE WorkerTypeOK'
  BY <1>g DEF workerVars, WorkerTypeOK
<1>h. ASSUME NEW K PROVE Enqueue(K) \in [Keys -> SchedStates]
  BY DEF Enqueue, ClusterTypeOK, SchedStates
<1>i. ASSUME NEW k \in Keys, NEW o \in SchemaObject \cup {Nil}, Edit, UserWrite(k, o)
      PROVE  TypeOK'
  <2>1. ClusterTypeOK'
    BY <1>i, StoreType DEF UserWrite, ClusterTypeOK
  <2>2. EnvTypeOK' /\ RegistryTypeOK'
    BY <1>i, <1>e DEF UserWrite, Edit, EnvTypeOK
  <2>3. WorkerTypeOK'
    BY <1>i DEF UserWrite, WorkerTypeOK
  <2>. QED
    BY <2>1, <2>2, <2>3
<1>1. ASSUME NEW k \in Keys, Dequeue(k) PROVE TypeOK'
  <2>1. ClusterTypeOK'
    BY <1>1 DEF Dequeue, ClusterTypeOK, SchedStates
  <2>2. CASE cache[k] # Nil /\ FirstCall(cache[k]) # "idle"
    <3>1. FirstCall(cache[k]) \in Calls
      BY <2>2 DEF FirstCall, Calls, FinalizerCalls, RegisterCalls, DeleteCalls
    <3>2. FirstCall(cache[k]) \notin RegistryCalls
      BY DEF FirstCall, RegistryCalls
    <3>3. cache[k] \in SchemaObject /\ cacheCurrent[k] \in BOOLEAN
      BY <2>2 DEF ClusterTypeOK
    <3>4. WorkerTypeOK'
      BY <1>1, <2>2, <3>1, <3>2, <3>3 DEF Dequeue, WorkerTypeOK, RegistryCalls
    <3>. QED
      BY <1>1, <2>1, <3>4, <1>d, <1>e DEF Dequeue
  <2>3. CASE ~(cache[k] # Nil /\ FirstCall(cache[k]) # "idle")
    BY <1>1, <2>1, <2>3, <1>d, <1>e, <1>g DEF Dequeue, workerVars
  <2>. QED
    BY <2>2, <2>3
<1>2. ASSUME NEW k \in Keys, Informer(k) PROVE TypeOK'
  <2>1. ClusterTypeOK'
    BY <1>2, <1>h DEF Informer, WatchEvent, ClusterTypeOK
  <2>. QED
    BY <1>2, <2>1, <1>d, <1>e, <1>g DEF Informer
<1>3. ASSUME NEW k \in Keys, Timer(k) PROVE TypeOK'
  BY <1>3, <1>d, <1>e, <1>f, <1>g, <1>h DEF Timer, DelayElapses
<1>4. ASSUME NEW k \in Keys, NEW spec \in SchemaSpec, CreateSchema(k, spec)
      PROVE  TypeOK'
  <2>. DEFINE o == [generation |-> 1, spec |-> spec, deleting |-> FALSE,
                    finalizer |-> FALSE, status |-> NewStatus]
  <2>1. o \in SchemaObject
    BY DEF SchemaObject, NewStatus, SchemaStatus, Reasons
  <2>. HIDE DEF o
  <2>. QED
    BY <1>4, <2>1, <1>i DEF CreateSchema, o
<1>5. ASSUME NEW k \in Keys, NEW spec \in SchemaSpec, UpdateSchema(k, spec)
      PROVE  TypeOK'
  <2>. DEFINE o == [api[k] EXCEPT !.spec = spec, !.generation = @ + 1]
  <2>1. api[k] \in SchemaObject
    BY <1>5 DEF UpdateSchema, ClusterTypeOK
  <2>2. o \in SchemaObject
    BY <2>1, EditType
  <2>. HIDE DEF o
  <2>. QED
    BY <1>5, <2>2, <1>i DEF UpdateSchema, o
<1>6. ASSUME NEW k \in Keys, DeleteSchema(k) PROVE TypeOK'
  <2>. DEFINE o == [api[k] EXCEPT !.deleting = TRUE, !.generation = @ + 1]
  <2>1. api[k] \in SchemaObject
    BY <1>6 DEF DeleteSchema, ClusterTypeOK
  <2>2. o \in SchemaObject
    BY <2>1, DeletionType
  <2>. HIDE DEF o
  <2>3. CASE UserWrite(k, o)
    BY <1>6, <2>2, <2>3, <1>i DEF DeleteSchema
  <2>4. CASE UserWrite(k, Nil)
    BY <1>6, <2>4, <1>i DEF DeleteSchema
  <2>. QED
    BY <1>6, <2>3, <2>4 DEF DeleteSchema, o
<1>7. ASSUME NEW r \in Registries, NEW url \in RegistryURLs, EditRegistry(r, url)
      PROVE  TypeOK'
  <2>1. EnvTypeOK'
    BY <1>7 DEF EditRegistry, Edit, EnvTypeOK
  <2>. QED
    BY <1>7, <2>1, <1>e, <1>f, <1>g, <1>h DEF EditRegistry
<1>8. ASSUME NEW r \in Registries, RegistryEvent(r) PROVE TypeOK'
  BY <1>8, <1>d, <1>e, <1>f, <1>g, <1>h DEF RegistryEvent
<1>9. ASSUME NEW r \in Registries, SecretChange(r) PROVE TypeOK'
  <2>1. EnvTypeOK'
    BY <1>9 DEF SecretChange, Edit, EnvTypeOK
  <2>. QED
    BY <1>9, <2>1, <1>e, <1>g DEF SecretChange, clusterVars, ClusterTypeOK
<1>10. CASE Crash
  <2>1. faults' \in 0 .. MaxFaults
    BY <1>10 DEF Crash, Fault, RegistryTypeOK
  <2>. QED
    BY <1>10, <2>1, RestartType DEF Crash, Restart, EnvTypeOK
<1>11. CASE LateRequest
  <2>1. PICK q \in late : ServeLate(q)
    BY <1>11 DEF LateRequest
  <2>2. RegistryTypeOK'
    BY <2>1, ServeType DEF ServeLate, RegistryTypeOK
  <2>. QED
    BY <1>11, <2>2, <1>d, <1>g DEF LateRequest, clusterVars, ClusterTypeOK
<1>12. CASE UNCHANGED vars
  BY <1>12, <1>d, <1>e, <1>g DEF vars, clusterVars, ClusterTypeOK
<1>13. CASE User
  <2>1. ASSUME NEW k \in Keys, NEW spec \in Specs[k] PROVE spec \in SchemaSpec
    OBVIOUS
  <2>. QED
    BY <1>13, <2>1, <1>4, <1>5, <1>6, <1>7, <1>8, <1>9 DEF User
<1>. QED
  BY <1>1, <1>2, <1>3, <1>10, <1>11, <1>12, <1>13, StepType DEF Next

\* Initially every variable has its type.
LEMMA TypeInit == Init => TypeOK
<1>. SUFFICES ASSUME Init PROVE TypeOK
  OBVIOUS
<1>. USE ReconcilerAssumption, RuntimeAssumption, ClientAssumption, FaultAssumption
<1>1. ClusterTypeOK
  BY DEF Init, ClusterInit, ClusterTypeOK, SchedStates
<1>2. RegistryTypeOK
  <2>1. << >> \in Seq(Contents)
    OBVIOUS
  <2>. QED
    BY <2>1 DEF Init, RegistryInit, RegistryTypeOK
<1>3. EnvTypeOK
  <2>1. authLoads \in [Registries -> BOOLEAN]
    BY DEF Init
  <2>. QED
    BY <2>1 DEF Init, EnvTypeOK
<1>4. WorkerTypeOK
  <2>1. resp \in Response
    BY DEF Init, NoResp, Response
  <2>. QED
    BY <2>1 DEF Init, WorkerTypeOK, Reasons, RegistryCalls
<1>. QED
  BY <1>1, <1>2, <1>3, <1>4 DEF TypeOK

\* Every variable keeps its type, in particular: the worker never goes on
\* without an object (a NotFound is handled at every Get), nor calls a
\* registry without a client.
THEOREM TypeCorrect == Spec => []TypeOK
BY TypeInit, TypeStep, PTL DEF Spec

-----------------------------------------------------------------------------
(***************************************************************************)
(* FinalizerGuardsRegistration and UserIntentPreserved.  They rest on what *)
(* relates the three copies of an object: the stored one, the cached one   *)
(* and the worker's.                                                       *)
(***************************************************************************)

\* Steps that write no object: the worker moves on with its copy, or ends.
LEMMA MoveCopies ==
  ASSUME CopiesInv, TypeOK', UNCHANGED << api, cache, cacheCurrent >>,
         \/ Idle
         \/ /\ UNCHANGED << key, schema, current >>
            /\ pc # "idle"
            /\ pc' \in RegisterCalls \cup {"refetch"} =>
                 pc \in RegisterCalls \cup {"refetch"}
            /\ pc' \in DeleteCalls => pc \in DeleteCalls
            /\ pc' # "addFinalizer"
  PROVE  CopiesInv'
<1>. USE DEF CopiesInv
<1>1. CacheIsStored' /\ CacheLags'
  BY DEF CacheIsStored, CacheLags
<1>2. CASE Idle
  BY <1>1, <1>2 DEF Idle, CopyIsStored, FinalizerIsStored, CopyFitsBranch,
       RegisterCalls, DeleteCalls
<1>3. CASE UNCHANGED << key, schema, current >> /\ pc # "idle"
  BY <1>1, <1>3 DEF CopyIsStored, FinalizerIsStored, CopyFitsBranch, Idle,
       RegisterCalls, DeleteCalls
<1>. QED
  BY <1>2, <1>3

\* The worker reads the cache.
LEMMA GetCopies ==
  ASSUME CopiesInv, TypeOK', UNCHANGED << api, cache, cacheCurrent >>,
         key \in Keys,
         NEW call \in StatusCalls \cup {"buildClient"}, Get(call),
         call = "buildClient" => pc = "refetch"
  PROVE  CopiesInv'
<1>. USE DEF CopiesInv
<1>1. CacheIsStored' /\ CacheLags'
  BY DEF CacheIsStored, CacheLags
<1>2. CopyIsStored'
  BY DEF Get, CopyIsStored, CacheIsStored
<1>3. FinalizerIsStored' /\ CopyFitsBranch'
  BY DEF Get, FinalizerIsStored, CopyFitsBranch, RegisterCalls, StatusCalls,
     DeleteCalls
<1>. QED
  BY <1>1, <1>2, <1>3

\* The worker's write is stored: its copy was current, so nobody's write is
\* lost, and the cache held the same object.
LEMMA WriteCopies ==
  ASSUME CopiesInv, TypeOK', key \in Keys, pc # "idle", current,
         NEW o \in SchemaObject \cup {Nil}, Store(key, o), UNCHANGED cache,
         \/ o # Nil /\ (schema.finalizer => o.finalizer)
         \/ o = Nil /\ schema.deleting,
         \/ Idle
         \/ /\ pc' = "refetch" /\ key' = key /\ current' = FALSE
            /\ o # Nil /\ o.finalizer
  PROVE  CopiesInv'
<1>. USE DEF CopiesInv
<1>1. api' = [api EXCEPT ![key] = o] /\ cacheCurrent' = [cacheCurrent EXCEPT ![key] = FALSE]
  BY DEF Store
<1>2. api \in [Keys -> SchemaObject \cup {Nil}] /\ cacheCurrent \in [Keys -> BOOLEAN]
  BY DEF TypeOK, ClusterTypeOK
<1>3. cache[key] = schema
  BY DEF CopyIsStored, CacheIsStored
<1>4. CacheIsStored'
  BY <1>1, <1>2 DEF CacheIsStored
<1>5. CacheLags'
  BY <1>1, <1>2, <1>3 DEF CacheLags
<1>6. CASE Idle
  BY <1>4, <1>5, <1>6 DEF Idle, CopyIsStored, FinalizerIsStored, CopyFitsBranch,
       RegisterCalls, DeleteCalls
<1>7. CASE pc' = "refetch" /\ key' = key /\ current' = FALSE /\ o # Nil /\ o.finalizer
  <2>1. api'[key] = o
    BY <1>1, <1>2
  <2>. QED
    BY <1>4, <1>5, <1>7, <2>1
       DEF CopyIsStored, FinalizerIsStored, CopyFitsBranch, DeleteCalls
<1>. QED
  BY <1>6, <1>7

\* Every call of a reconcile preserves the invariant.
LEMMA StepCopies ==
  ASSUME CopiesInv, Step
  PROVE  CopiesInv'
<1>t. TypeOK /\ TypeOK'
  BY StepType DEF CopiesInv
<1>a. schema \in SchemaObject /\ key \in Keys
  BY <1>t DEF Step, AddFinalizer, Refetch, BuildClient, RegisterSchema,
     GetLatestVersion, SetCompatibility, GetForStatus, PutStatus,
     GetForFailure, PutFailure, BuildClientForDelete, DeleteSubject,
     RemoveFinalizer, TypeOK, WorkerTypeOK
<1>1. CASE AddFinalizer
  <2>. DEFINE o == [schema EXCEPT !.finalizer = TRUE]
  <2>1. o \in SchemaObject /\ o.finalizer
    BY <1>a DEF SchemaObject
  <2>2. o # Nil
    BY <2>1, ReconcilerAssumption
  <2>. HIDE DEF o
  <2>3. CASE current /\ Store(key, o)
    BY <1>1, <1>t, <1>a, <2>1, <2>2, <2>3, WriteCopies
       DEF AddFinalizer, Retry, o
  <2>4. CASE Retry /\ UNCHANGED << api, cacheCurrent >>
    BY <1>1, <1>t, <2>4, MoveCopies DEF AddFinalizer, Retry
  <2>. QED
    BY <1>1, <2>3, <2>4 DEF AddFinalizer, FinalizerUpdateError,
         Updated, UpdateError, o
<1>2. CASE Refetch
  BY <1>2, <1>t, <1>a, GetCopies, MoveCopies DEF Refetch, Done
<1>3. CASE BuildClient
  BY <1>3, <1>t, MoveCopies
     DEF BuildClient, Continue, Fail, RegisterCalls, DeleteCalls
<1>4. CASE RegisterSchema
  BY <1>4, <1>t, MoveCopies
     DEF RegisterSchema, Continue, Fail, RegisterCalls, DeleteCalls
<1>5. CASE GetLatestVersion
  BY <1>5, <1>t, MoveCopies
     DEF GetLatestVersion, Continue, RegisterCalls, DeleteCalls
<1>6. CASE SetCompatibility
  BY <1>6, <1>t, MoveCopies
     DEF SetCompatibility, Continue, RegisterCalls, DeleteCalls
<1>7. CASE GetForStatus
  BY <1>7, <1>t, <1>a, GetCopies, MoveCopies DEF GetForStatus, Done, StatusCalls
<1>8. CASE PutStatus
  <2>. DEFINE o == [schema EXCEPT !.status = ReadyStatus]
  <2>1. o \in SchemaObject
    <3>1. ReadyStatus \in SchemaStatus
      BY <1>t, <1>a DEF ReadyStatus, SchemaStatus, Response, Reasons,
         SchemaObject, TypeOK, WorkerTypeOK
    <3>. QED
      BY <3>1, <1>a, ObjectType
  <2>2. o # Nil /\ o.finalizer = schema.finalizer
    BY <1>a, <2>1, ReconcilerAssumption DEF SchemaObject
  <2>. HIDE DEF o
  <2>3. CASE current /\ Store(key, o)
    BY <1>8, <1>t, <1>a, <2>1, <2>2, <2>3, WriteCopies
       DEF PutStatus, Done, Retry
  <2>4. CASE UNCHANGED << api, cacheCurrent >>
    BY <1>8, <1>t, <2>4, MoveCopies DEF PutStatus, Done, Retry
  <2>. QED
    BY <1>8, <2>3, <2>4 DEF PutStatus, Updated, UpdateError, Unchanged, o
<1>9. CASE GetForFailure
  BY <1>9, <1>t, <1>a, GetCopies, MoveCopies DEF GetForFailure, Retry, StatusCalls
<1>10. CASE PutFailure
  <2>. DEFINE o == [schema EXCEPT !.status = FailedStatus]
  <2>1. o \in SchemaObject
    <3>1. FailedStatus \in SchemaStatus
      BY <1>t, <1>a DEF FailedStatus, SchemaStatus, SchemaObject, TypeOK,
         WorkerTypeOK
    <3>. QED
      BY <3>1, <1>a, ObjectType
  <2>2. o # Nil /\ o.finalizer = schema.finalizer
    BY <1>a, <2>1, ReconcilerAssumption DEF SchemaObject
  <2>. HIDE DEF o
  <2>3. CASE current /\ Store(key, o)
    BY <1>10, <1>t, <1>a, <2>1, <2>2, <2>3, WriteCopies DEF PutFailure, Retry
  <2>4. CASE UNCHANGED << api, cacheCurrent >>
    BY <1>10, <1>t, <2>4, MoveCopies DEF PutFailure, Retry
  <2>. QED
    BY <1>10, <2>3, <2>4 DEF PutFailure, Updated, UpdateError, Unchanged, o
<1>11. CASE BuildClientForDelete
  BY <1>11, <1>t, MoveCopies
     DEF BuildClientForDelete, Continue, RegisterCalls, DeleteCalls
<1>12. CASE DeleteSubject
  BY <1>12, <1>t, MoveCopies
     DEF DeleteSubject, Continue, Retry, RegisterCalls, DeleteCalls
<1>13. CASE RemoveFinalizer
  <2>1. schema.deleting
    BY <1>13 DEF RemoveFinalizer, CopiesInv, CopyFitsBranch, DeleteCalls
  <2>2. CASE current /\ Store(key, Nil)
    BY <1>13, <1>t, <1>a, <2>1, <2>2, WriteCopies
       DEF RemoveFinalizer, Done, Retry
  <2>3. CASE UNCHANGED << api, cacheCurrent >>
    BY <1>13, <1>t, <2>3, MoveCopies DEF RemoveFinalizer, Done, Retry
  <2>. QED
    BY <1>13, <2>2, <2>3 DEF RemoveFinalizer, FinalizerUpdateError,
         Updated, UpdateError
<1>. QED
  BY <1>1, <1>2, <1>3, <1>4, <1>5, <1>6, <1>7, <1>8, <1>9, <1>10, <1>11,
     <1>12, <1>13 DEF Step

\* A user's write preserves it, since it removes no finalizer.
LEMMA UserWriteCopies ==
  ASSUME CopiesInv, TypeOK', NEW k \in Keys,
         NEW o \in SchemaObject \cup {Nil}, UserWrite(k, o),
         (api[k] # Nil /\ api[k].finalizer) => (o # Nil /\ o.finalizer)
  PROVE  CopiesInv'
<1>. USE DEF CopiesInv
<1>1. /\ api' = [api EXCEPT ![k] = o]
      /\ cacheCurrent' = [cacheCurrent EXCEPT ![k] = FALSE]
      /\ UNCHANGED << cache, pc, key, schema >>
      /\ current' = (current /\ key # k)
  BY DEF UserWrite, Store
<1>2. api \in [Keys -> SchemaObject \cup {Nil}] /\ cacheCurrent \in [Keys -> BOOLEAN]
  BY DEF TypeOK, ClusterTypeOK
<1>3. pc # "idle" => key \in Keys
  BY DEF TypeOK, WorkerTypeOK
<1>4. CacheIsStored'
  BY <1>1, <1>2 DEF CacheIsStored
<1>5. CacheLags'
  BY <1>1, <1>2 DEF CacheLags
<1>6. CopyIsStored'
  BY <1>1, <1>2, <1>3 DEF CopyIsStored
<1>7. FinalizerIsStored'
  BY <1>1, <1>2, <1>3 DEF FinalizerIsStored, RegisterCalls
<1>8. CopyFitsBranch'
  BY <1>1 DEF CopyFitsBranch
<1>. QED
  BY <1>4, <1>5, <1>6, <1>7, <1>8

\* Steps that touch no copy of an object.
LEMMA OtherCopies ==
  ASSUME CopiesInv, TypeOK',
         UNCHANGED << api, cache, cacheCurrent, workerVars >>
  PROVE  CopiesInv'
BY DEF CopiesInv, workerVars, CacheIsStored, CopyIsStored, CacheLags,
   FinalizerIsStored, CopyFitsBranch

\* Every step preserves the invariant.
LEMMA CopiesStep ==
  ASSUME CopiesInv, [Next]_vars
  PROVE  CopiesInv'
<1>t. TypeOK /\ TypeOK'
  BY TypeStep DEF CopiesInv
<1>u. ClusterTypeOK /\ WorkerTypeOK
  BY <1>t DEF TypeOK
<1>1. ASSUME NEW k \in Keys, Dequeue(k) PROVE CopiesInv'
  <2>1. CacheIsStored' /\ CacheLags'
    BY <1>1 DEF Dequeue, CopiesInv, CacheIsStored, CacheLags
  <2>2. CASE cache[k] # Nil /\ FirstCall(cache[k]) # "idle"
    <3>1. /\ pc' = FirstCall(cache[k]) /\ key' = k /\ schema' = cache[k]
          /\ current' = cacheCurrent[k]
          /\ UNCHANGED << api, cache, cacheCurrent >>
      BY <1>1, <2>2 DEF Dequeue
    <3>2. CopyIsStored'
      BY <3>1 DEF CopyIsStored, CopiesInv, CacheIsStored
    <3>3. FinalizerIsStored'
      BY <3>1, <2>2
         DEF FinalizerIsStored, CopiesInv, CacheLags, FirstCall, RegisterCalls
    <3>4. CopyFitsBranch'
      BY <3>1 DEF CopyFitsBranch, FirstCall, DeleteCalls
    <3>. QED
      BY <1>t, <2>1, <3>2, <3>3, <3>4 DEF CopiesInv
  <2>3. CASE ~(cache[k] # Nil /\ FirstCall(cache[k]) # "idle")
    BY <1>1, <1>t, <2>3, OtherCopies DEF Dequeue, workerVars
  <2>. QED
    BY <2>2, <2>3
<1>2. ASSUME NEW k \in Keys, Informer(k) PROVE CopiesInv'
  <2>1. /\ cache' = [cache EXCEPT ![k] = api[k]]
        /\ cacheCurrent' = [cacheCurrent EXCEPT ![k] = TRUE]
        /\ UNCHANGED << api, pc, key, schema, current >>
    BY <1>2 DEF Informer, WatchEvent, workerVars
  <2>2. CacheIsStored' /\ CacheLags'
    BY <1>u, <2>1
       DEF CopiesInv, CacheIsStored, CacheLags, ClusterTypeOK
  <2>3. CopyIsStored'
    BY <1>u, <2>1 DEF CopiesInv, CopyIsStored, ClusterTypeOK, WorkerTypeOK
  <2>4. FinalizerIsStored' /\ CopyFitsBranch'
    BY <2>1 DEF CopiesInv, FinalizerIsStored, CopyFitsBranch
  <2>. QED
    BY <1>t, <2>2, <2>3, <2>4 DEF CopiesInv
<1>3. ASSUME NEW k \in Keys, Timer(k) PROVE CopiesInv'
  BY <1>3, <1>t, OtherCopies DEF Timer, DelayElapses
<1>4. CASE Step
  BY <1>4, StepCopies
<1>5. ASSUME NEW k \in Keys, NEW spec \in SchemaSpec, CreateSchema(k, spec)
      PROVE  CopiesInv'
  <2>. DEFINE o == [generation |-> 1, spec |-> spec, deleting |-> FALSE,
                    finalizer |-> FALSE, status |-> NewStatus]
  <2>1. o \in SchemaObject
    BY DEF SchemaObject, NewStatus, SchemaStatus, Reasons
  <2>2. UserWrite(k, o) /\ api[k] = Nil
    BY <1>5 DEF CreateSchema
  <2>. HIDE DEF o
  <2>. QED
    BY <1>t, <2>1, <2>2, UserWriteCopies
<1>6. ASSUME NEW k \in Keys, NEW spec \in SchemaSpec, UpdateSchema(k, spec)
      PROVE  CopiesInv'
  <2>. DEFINE o == [api[k] EXCEPT !.spec = spec, !.generation = @ + 1]
  <2>1. UserWrite(k, o) /\ api[k] \in SchemaObject
    BY <1>6, <1>u DEF UpdateSchema, ClusterTypeOK
  <2>2. o \in SchemaObject /\ o.finalizer = api[k].finalizer
    BY <2>1, EditType DEF SchemaObject
  <2>3. o # Nil
    BY <2>2, ReconcilerAssumption
  <2>. HIDE DEF o
  <2>. QED
    BY <1>t, <2>1, <2>2, <2>3, UserWriteCopies
<1>7. ASSUME NEW k \in Keys, DeleteSchema(k) PROVE CopiesInv'
  <2>. DEFINE o == [api[k] EXCEPT !.deleting = TRUE, !.generation = @ + 1]
  <2>1. api[k] \in SchemaObject
    BY <1>7, <1>u DEF DeleteSchema, ClusterTypeOK
  <2>2. o \in SchemaObject /\ o.finalizer = api[k].finalizer
    BY <2>1, DeletionType DEF SchemaObject
  <2>3. o # Nil
    BY <2>2, ReconcilerAssumption
  <2>4. \/ UserWrite(k, o)
        \/ UserWrite(k, Nil) /\ ~api[k].finalizer
    BY <1>7 DEF DeleteSchema
  <2>. HIDE DEF o
  <2>. QED
    BY <1>t, <2>2, <2>3, <2>4, UserWriteCopies
<1>8. CASE User
  <2>1. ASSUME NEW k \in Keys, NEW spec \in Specs[k] PROVE spec \in SchemaSpec
    BY ReconcilerAssumption
  <2>2. ASSUME NEW r \in Registries,
               \/ \E url \in RegistryURLs : EditRegistry(r, url)
               \/ RegistryEvent(r)
               \/ SecretChange(r)
        PROVE  CopiesInv'
    BY <1>t, <2>2, OtherCopies
       DEF EditRegistry, RegistryEvent, SecretChange, clusterVars
  <2>. QED
    BY <1>5, <1>6, <1>7, <1>8, <2>1, <2>2 DEF User
<1>9. CASE Crash
  <2>1. /\ Idle /\ cache' = api /\ cacheCurrent' = [k \in Keys |-> TRUE]
        /\ UNCHANGED api
    BY <1>9 DEF Crash, Restart, Relist
  <2>. QED
    BY <1>t, <2>1
       DEF CopiesInv, Idle, CacheIsStored, CopyIsStored, CacheLags,
           FinalizerIsStored, CopyFitsBranch, RegisterCalls, DeleteCalls
<1>10. CASE LateRequest
  BY <1>t, <1>10, OtherCopies DEF LateRequest, clusterVars
<1>11. CASE UNCHANGED vars
  BY <1>t, <1>11, OtherCopies DEF vars, clusterVars
<1>. QED
  BY <1>1, <1>2, <1>3, <1>4, <1>8, <1>9, <1>10, <1>11 DEF Next

\* It holds at the start.
LEMMA CopiesInit == Init => CopiesInv
<1>. SUFFICES ASSUME Init PROVE CopiesInv
  OBVIOUS
<1>. QED
  BY TypeInit
     DEF CopiesInv, CacheIsStored, CopyIsStored, CacheLags, CopyFitsBranch,
         FinalizerIsStored, Init, ClusterInit, RegisterCalls, DeleteCalls

\* The inductive invariant holds in every reachable state.
THEOREM CopiesCorrect == Spec => []CopiesInv
BY CopiesInit, CopiesStep, PTL DEF Spec

\* A schema is registered only under the protection of a stored finalizer.
THEOREM FinalizerGuards == Spec => []FinalizerGuardsRegistration
<1>1. CopiesInv => FinalizerGuardsRegistration
  BY DEF CopiesInv, FinalizerIsStored, FinalizerGuardsRegistration
<1>. QED
  BY <1>1, CopiesCorrect, PTL

-----------------------------------------------------------------------------

\* What a call of a reconcile may write: its copy, with the finalizer or with
\* another status, if the copy is current; or it removes the object.
LEMMA StepWrites ==
  ASSUME TypeOK, Step
  PROVE  \/ UNCHANGED << api, cacheCurrent >>
         \/ /\ current
            /\ \E o \in SchemaObject :
                 /\ Store(key, o)
                 /\ o.generation = schema.generation
                 /\ o.spec = schema.spec
                 /\ o.deleting = schema.deleting
                 /\ \/ o.finalizer = schema.finalizer
                    \/ pc = "addFinalizer" /\ o.finalizer
         \/ RemoveFinalizer /\ current /\ Store(key, Nil)
<1>a. schema \in SchemaObject
  BY DEF TypeOK, Step, AddFinalizer, Refetch, BuildClient, RegisterSchema,
     GetLatestVersion, SetCompatibility, GetForStatus, PutStatus,
     GetForFailure, PutFailure, BuildClientForDelete, DeleteSubject,
     RemoveFinalizer, WorkerTypeOK
<1>1. CASE AddFinalizer
  <2>. DEFINE o == [schema EXCEPT !.finalizer = TRUE]
  <2>1. /\ o \in SchemaObject
        /\ o.generation = schema.generation /\ o.spec = schema.spec
        /\ o.deleting = schema.deleting /\ o.finalizer
    BY <1>a DEF SchemaObject
  <2>. HIDE DEF o
  <2>2. \/ UNCHANGED << api, cacheCurrent >>
        \/ current /\ Store(key, o)
    BY <1>1 DEF AddFinalizer, FinalizerUpdateError,
         Updated, UpdateError, o
  <2>. QED
    BY <1>1, <2>1, <2>2 DEF AddFinalizer
<1>2. ASSUME NEW s \in SchemaStatus,
             \/ UNCHANGED << api, cacheCurrent >>
             \/ current /\ Store(key, [schema EXCEPT !.status = s])
      PROVE  \/ UNCHANGED << api, cacheCurrent >>
             \/ /\ current
                /\ \E o \in SchemaObject :
                     /\ Store(key, o)
                     /\ o.generation = schema.generation
                     /\ o.spec = schema.spec
                     /\ o.deleting = schema.deleting
                     /\ o.finalizer = schema.finalizer
  <2>. DEFINE o == [schema EXCEPT !.status = s]
  <2>1. /\ o \in SchemaObject
        /\ o.generation = schema.generation /\ o.spec = schema.spec
        /\ o.deleting = schema.deleting /\ o.finalizer = schema.finalizer
    BY <1>a DEF SchemaObject
  <2>. HIDE DEF o
  <2>. QED
    BY <1>2, <2>1 DEF o
<1>3. CASE PutStatus
  <2>1. ReadyStatus \in SchemaStatus
    BY <1>a DEF ReadyStatus, SchemaStatus, Response, Reasons, SchemaObject,
       TypeOK, WorkerTypeOK
  <2>. QED
    BY <1>2, <1>3, <2>1 DEF PutStatus, Updated, UpdateError, Unchanged
<1>4. CASE PutFailure
  <2>1. FailedStatus \in SchemaStatus
    BY <1>a DEF FailedStatus, SchemaStatus, SchemaObject, TypeOK, WorkerTypeOK
  <2>. QED
    BY <1>2, <1>4, <2>1 DEF PutFailure, Updated, UpdateError, Unchanged
<1>5. CASE RemoveFinalizer
  BY <1>5 DEF RemoveFinalizer, FinalizerUpdateError,
         Updated, UpdateError
<1>. QED
  BY <1>1, <1>3, <1>4, <1>5
     DEF Step, Refetch, BuildClient, RegisterSchema, GetLatestVersion,
         SetCompatibility, GetForStatus, GetForFailure, BuildClientForDelete,
         DeleteSubject

\* What a user's step may write, if it writes an object.
UserWrites(k, o) ==
  /\ UserWrite(k, o)
  /\ \/ api[k] = Nil /\ o \in SchemaObject /\ ~o.finalizer
     \/ /\ api[k] \in SchemaObject /\ o \in SchemaObject
        /\ o.generation = api[k].generation + 1
        /\ o.finalizer = api[k].finalizer
        /\ api[k].deleting => o.deleting
        /\ WebhookModes = {TRUE} => o.spec.subject = api[k].spec.subject
     \/ api[k] \in SchemaObject /\ ~api[k].finalizer /\ o = Nil

\* What User does: an event or edit beside the Schemas, or a write as above.
LEMMA UserSteps ==
  ASSUME TypeOK, User
  PROVE  \/ /\ UNCHANGED << api, cache, cacheCurrent, workerVars, registryVars >>
            /\ \E r \in Registries : \/ \E url \in RegistryURLs : EditRegistry(r, url)
                                     \/ RegistryEvent(r)
                                     \/ SecretChange(r)
         \/ \E k \in Keys, o \in SchemaObject \cup {Nil} : UserWrites(k, o)
<1>. USE ReconcilerAssumption, RuntimeAssumption
<1>1. ASSUME NEW k \in Keys, NEW spec \in SchemaSpec, CreateSchema(k, spec)
      PROVE  \E o \in SchemaObject : UserWrites(k, o)
  <2>. DEFINE o == [generation |-> 1, spec |-> spec, deleting |-> FALSE,
                    finalizer |-> FALSE, status |-> NewStatus]
  <2>1. o \in SchemaObject
    BY DEF SchemaObject, NewStatus, SchemaStatus, Reasons
  <2>2. ~o.finalizer
    OBVIOUS
  <2>3. UserWrite(k, o) /\ api[k] = Nil
    BY <1>1 DEF CreateSchema
  <2>. HIDE DEF o
  <2>. QED
    BY <2>1, <2>2, <2>3 DEF UserWrites
<1>2. ASSUME NEW k \in Keys, NEW spec \in SchemaSpec, UpdateSchema(k, spec)
      PROVE  \E o \in SchemaObject : UserWrites(k, o)
  <2>. DEFINE o == [api[k] EXCEPT !.spec = spec, !.generation = @ + 1]
  <2>1. UserWrite(k, o) /\ api[k] \in SchemaObject
    BY <1>2 DEF UpdateSchema, TypeOK, ClusterTypeOK
  <2>2. o \in SchemaObject
    BY <2>1, EditType
  <2>3. /\ o.generation = api[k].generation + 1
        /\ o.finalizer = api[k].finalizer
        /\ api[k].deleting => o.deleting
        /\ o.spec = spec
    BY <2>1 DEF SchemaObject
  <2>4. WebhookModes = {TRUE} => spec.subject = api[k].spec.subject
    BY <1>2 DEF UpdateSchema, ValidateUpdate, TypeOK, EnvTypeOK
  <2>. HIDE DEF o
  <2>. QED
    BY <2>1, <2>2, <2>3, <2>4 DEF UserWrites
<1>3. ASSUME NEW k \in Keys, DeleteSchema(k)
      PROVE  \E o \in SchemaObject \cup {Nil} : UserWrites(k, o)
  <2>. DEFINE o == [api[k] EXCEPT !.deleting = TRUE, !.generation = @ + 1]
  <2>1. api[k] \in SchemaObject
    BY <1>3 DEF DeleteSchema, TypeOK, ClusterTypeOK
  <2>2. o \in SchemaObject
    BY <2>1, DeletionType
  <2>3. /\ o.generation = api[k].generation + 1
        /\ o.finalizer = api[k].finalizer
        /\ api[k].deleting => o.deleting
        /\ o.spec = api[k].spec
    BY <2>1 DEF SchemaObject
  <2>4. \/ UserWrite(k, o)
        \/ UserWrite(k, Nil) /\ ~api[k].finalizer
    BY <1>3 DEF DeleteSchema
  <2>. HIDE DEF o
  <2>. QED
    BY <2>1, <2>2, <2>3, <2>4 DEF UserWrites
<1>4. ASSUME NEW r \in Registries,
             \/ \E url \in RegistryURLs : EditRegistry(r, url)
             \/ RegistryEvent(r)
             \/ SecretChange(r)
      PROVE  UNCHANGED << api, cache, cacheCurrent, workerVars, registryVars >>
  BY <1>4 DEF EditRegistry, RegistryEvent, SecretChange, clusterVars
<1>5. ASSUME NEW k \in Keys, NEW spec \in Specs[k] PROVE spec \in SchemaSpec
  OBVIOUS
<1>. QED
  BY <1>1, <1>2, <1>3, <1>4, <1>5 DEF User

\* No step takes back a spec or a deletion.
LEMMA IntentStep ==
  ASSUME CopiesInv, [Next]_vars, NEW k \in Keys
  PROVE  IntentKept(k)
<1>t. TypeOK /\ api \in [Keys -> SchemaObject \cup {Nil}]
  BY DEF CopiesInv, TypeOK, ClusterTypeOK
<1>a. CASE api' = api
  <2>1. api[k] # Nil => api[k].generation \in Nat
    BY <1>t DEF SchemaObject
  <2>. QED
    BY <1>a, <2>1 DEF IntentKept
<1>1. CASE Step
  <2>1. pc # "idle"
    BY <1>1 DEF Step, AddFinalizer, Refetch, BuildClient, RegisterSchema,
       GetLatestVersion, SetCompatibility, GetForStatus, PutStatus,
       GetForFailure, PutFailure, BuildClientForDelete, DeleteSubject,
       RemoveFinalizer
  <2>2. key \in Keys /\ (current => schema = api[key])
    BY <2>1, <1>t DEF CopiesInv, CopyIsStored, TypeOK, WorkerTypeOK
  <2>3. CASE current /\ Store(key, Nil)
    <3>1. api' = [api EXCEPT ![key] = Nil]
      BY <2>3 DEF Store
    <3>2. CASE k = key
      BY <1>t, <2>2, <3>1, <3>2 DEF IntentKept
    <3>3. CASE k # key
      <4>1. api'[k] = api[k]
        BY <1>t, <2>2, <3>1, <3>3
      <4>2. api[k] # Nil => api[k].generation \in Nat
        BY <1>t DEF SchemaObject
      <4>. QED
        BY <4>1, <4>2 DEF IntentKept
    <3>. QED
      BY <3>2, <3>3
  <2>4. ASSUME current, NEW o \in SchemaObject, Store(key, o),
               o.generation = schema.generation, o.spec = schema.spec,
               o.deleting = schema.deleting
        PROVE  IntentKept(k)
    <3>1. api' = [api EXCEPT ![key] = o]
      BY <2>4 DEF Store
    <3>2. api'[k] = IF k = key THEN o ELSE api[k]
      BY <1>t, <2>2, <3>1
    <3>3. api[k] # Nil => api[k].generation \in Nat
      BY <1>t DEF SchemaObject
    <3>. QED
      BY <2>2, <2>4, <3>2, <3>3 DEF IntentKept
  <2>. QED
    BY <1>1, <1>t, <1>a, <2>3, <2>4, StepWrites
<1>2. CASE User
  <2>1. ASSUME NEW j \in Keys, NEW o \in SchemaObject \cup {Nil}, UserWrites(j, o)
        PROVE  IntentKept(k)
    <3>1. api' = [api EXCEPT ![j] = o]
      BY <2>1 DEF UserWrites, UserWrite, Store
    <3>2. api'[k] = IF k = j THEN o ELSE api[k]
      BY <1>t, <3>1
    <3>3. api[k] # Nil => api[k].generation \in Nat
      BY <1>t DEF SchemaObject
    <3>4. k = j /\ api[k] # Nil /\ o # Nil => o.generation = api[k].generation + 1
      BY <2>1 DEF UserWrites
    <3>. QED
      BY <3>2, <3>3, <3>4 DEF IntentKept
  <2>. QED
    BY <1>2, <1>t, <1>a, <2>1, UserSteps
<1>3. CASE \/ \E j \in Keys : Dequeue(j) \/ Informer(j) \/ Timer(j)
           \/ Crash \/ LateRequest \/ UNCHANGED vars
  BY <1>3, <1>a DEF Dequeue, Informer, WatchEvent, Timer, DelayElapses, Crash,
     Restart,
     Relist, LateRequest, clusterVars, vars
<1>. QED
  BY <1>1, <1>2, <1>3 DEF Next

\* The writes of a reconcile never undo those of a user.
THEOREM UserIntent == Spec => UserIntentPreserved
<1>1. ASSUME CopiesInv, [Next]_vars
      PROVE  [\A k \in Keys : IntentKept(k)]_vars
  BY <1>1, IntentStep
<1>. QED
  BY <1>1, CopiesCorrect, PTL DEF Spec, UserIntentPreserved

-----------------------------------------------------------------------------
(***************************************************************************)
(* NoOrphanedSubject, under CleanupHypothesis.                             *)
(***************************************************************************)

\* What a call to a registry does to the subjects, where no request is late.
LEMMA CallEffect ==
  ASSUME "late" \notin FaultKinds, NEW q, Answered(q) \/ Unanswered(q)
  PROVE  /\ late' = late
         /\ \/ subjects' = subjects
            \/ /\ q.op = "POST"
               /\ subjects' = [subjects EXCEPT ![q.server][q.subject] =
                                 Append(@, q.content)]
            \/ /\ q.op = "DELETE"
               /\ subjects' = [subjects EXCEPT ![q.server][q.subject] = << >>]
<1>1. Serve(q) =>
        \/ subjects' = subjects
        \/ /\ q.op = "POST"
           /\ subjects' = [subjects EXCEPT ![q.server][q.subject] =
                             Append(@, q.content)]
        \/ /\ q.op = "DELETE"
           /\ subjects' = [subjects EXCEPT ![q.server][q.subject] = << >>]
  BY DEF Serve, ServePost, ServePut, ServeDelete
<1>2. late' = late /\ (Serve(q) \/ subjects' = subjects)
  BY DEF Answered, Unanswered, Fault
<1>. QED
  BY <1>1, <1>2

\* The registries, and the worker's client, stay with the one server.
LEMMA OneServerStep ==
  ASSUME NEW v, CleanupHypothesis(v), CleanupInv(v), [Next]_vars
  PROVE  OneServerUsed(v)'
<1>. USE DEF CleanupInv, CleanupHypothesis, OneServerUsed
<1>t. TypeOK
  BY DEF CopiesInv
<1>s. subjects \in [Servers -> [Subjects -> Seq(Contents)]]
  BY <1>t DEF TypeOK, RegistryTypeOK
<1>c. ASSUME pc # "idle"
      PROVE  /\ RegistryOf(key, schema) \in Registries
             /\ schema.spec.subject \in Subjects
  BY <1>c, <1>t, RegistryOfType
     DEF TypeOK, WorkerTypeOK, SchemaObject, SchemaSpec
<1>1. CASE Step
  <2>1. registry' = registry /\ authLoads' = authLoads
    BY <1>1 DEF Step, AddFinalizer, Refetch, BuildClient, RegisterSchema,
       GetLatestVersion, SetCompatibility, GetForStatus, PutStatus,
       GetForFailure, PutFailure, BuildClientForDelete, DeleteSubject,
       RemoveFinalizer, envVars
  <2>2. CASE BuildClient \/ BuildClientForDelete
    BY <2>1, <2>2, <1>c DEF BuildClient, BuildClientForDelete, Continue, Fail,
       registryVars, RegistryCalls
  <2>3. ASSUME NEW q, Answered(q) \/ Unanswered(q), q.server = v
        PROVE  /\ late' = {}
               /\ \A w \in Servers \ {v}, j \in Subjects : subjects'[w][j] = << >>
    <3>1. late' = late
      BY <2>3, CallEffect
    <3>2. ASSUME NEW w \in Servers \ {v} PROVE subjects'[w] = subjects[w]
      <4>1. CASE subjects' = subjects
        BY <4>1
      <4>2. CASE subjects' = [subjects EXCEPT ![q.server][q.subject] =
                                Append(@, q.content)]
        BY <4>2, <2>3, <1>s
      <4>3. CASE subjects' = [subjects EXCEPT ![q.server][q.subject] = << >>]
        BY <4>3, <2>3, <1>s
      <4>. QED
        BY <2>3, <4>1, <4>2, <4>3, CallEffect
    <3>. QED
      BY <3>1, <3>2
  <2>4. CASE RegisterSchema
    <3>. DEFINE q == Post(server, schema.spec.subject, schema.spec.content)
    <3>1. (Answered(q) \/ Unanswered(q)) /\ q.server = v
      BY <2>4 DEF RegisterSchema, Post, RegistryCalls
    <3>2. pc' \in RegistryCalls => server' = v
      BY <2>4 DEF RegisterSchema, Continue, Fail, RegistryCalls
    <3>. HIDE DEF q
    <3>. QED
      BY <2>1, <2>3, <3>1, <3>2
  <2>5. CASE SetCompatibility
    <3>. DEFINE q == Put(server, schema.spec.subject, schema.spec.level)
    <3>1. (Answered(q) \/ Unanswered(q)) /\ q.server = v
      BY <2>5 DEF SetCompatibility, Put, RegistryCalls
    <3>2. pc' \in RegistryCalls => server' = v
      BY <2>5 DEF SetCompatibility, Continue, RegistryCalls
    <3>. HIDE DEF q
    <3>. QED
      BY <2>1, <2>3, <3>1, <3>2
  <2>6. CASE DeleteSubject
    <3>. DEFINE q == Delete(server, schema.spec.subject)
    <3>1. (Answered(q) \/ Unanswered(q)) /\ q.server = v
      BY <2>6 DEF DeleteSubject, Delete, RegistryCalls
    <3>2. pc' \in RegistryCalls => server' = v
      BY <2>6 DEF DeleteSubject, Continue, Retry, Idle, RegistryCalls
    <3>. HIDE DEF q
    <3>. QED
      BY <2>1, <2>3, <3>1, <3>2
  <2>7. CASE GetLatestVersion
    BY <2>1, <2>7 DEF GetLatestVersion, Continue, RegistryCalls
  <2>8. CASE AddFinalizer \/ Refetch \/ GetForStatus \/ PutStatus
               \/ GetForFailure \/ PutFailure \/ RemoveFinalizer
    <3>1. UNCHANGED << subjects, late >> /\ pc' \notin RegistryCalls
      BY <2>8 DEF AddFinalizer, Refetch, GetForStatus, PutStatus, GetForFailure,
         PutFailure, RemoveFinalizer, Get, Done, Retry, Idle, registryVars,
         RegistryCalls
    <3>. QED
      BY <2>1, <3>1
  <2>. QED
    BY <1>1, <2>2, <2>4, <2>5, <2>6, <2>7, <2>8 DEF Step
<1>2. CASE User
  <2>1. ASSUME NEW k \in Keys, NEW o \in SchemaObject \cup {Nil}, UserWrites(k, o)
        PROVE  OneServerUsed(v)'
    BY <2>1 DEF UserWrites, UserWrite, registryVars
  <2>2. ASSUME NEW r \in Registries, RegistryEvent(r)
        PROVE  OneServerUsed(v)'
    BY <2>2 DEF RegistryEvent, registryVars, envVars, workerVars
  <2>3. ASSUME NEW r \in Registries,
               \/ \E url \in RegistryURLs : EditRegistry(r, url)
               \/ SecretChange(r)
        PROVE  FALSE
    BY <2>3 DEF EditRegistry, SecretChange
  <2>. QED
    BY <1>2, <1>t, <2>1, <2>2, <2>3, UserSteps
<1>3. CASE Crash
  <2>1. late' = late
    BY <1>3 DEF Crash, Restart
  <2>. QED
    BY <1>3, <2>1 DEF Crash, Restart, Idle, envVars, RegistryCalls
<1>4. CASE LateRequest
  BY <1>4 DEF LateRequest
<1>5. ASSUME NEW k \in Keys, Dequeue(k) PROVE OneServerUsed(v)'
  BY <1>5 DEF Dequeue, FirstCall, registryVars, envVars, RegistryCalls
<1>6. ASSUME NEW k \in Keys, Informer(k) \/ Timer(k) PROVE OneServerUsed(v)'
  BY <1>6 DEF Informer, Timer, registryVars, envVars, workerVars
<1>7. CASE UNCHANGED vars
  BY <1>7 DEF vars, registryVars, envVars, workerVars
<1>. QED
  BY <1>1, <1>2, <1>3, <1>4, <1>5, <1>6, <1>7 DEF Next

\* Copies keep agreeing on the subject.
LEMMA SubjectsStep ==
  ASSUME NEW v, CleanupHypothesis(v), CleanupInv(v), [Next]_vars
  PROVE  SubjectsAgree'
<1>. USE DEF CleanupInv
<1>t. /\ TypeOK
      /\ api \in [Keys -> SchemaObject \cup {Nil}]
      /\ cache \in [Keys -> SchemaObject \cup {Nil}]
      /\ pc # "idle" => key \in Keys
  BY DEF CopiesInv, TypeOK, ClusterTypeOK, WorkerTypeOK
<1>i. CacheIsStored /\ CopyIsStored /\ CacheLags /\ FinalizerIsStored /\ CopyFitsBranch
  BY DEF CopiesInv
<1>1. CASE Step
  <2>1. pc # "idle" /\ key \in Keys /\ UNCHANGED cache
    BY <1>1, <1>t DEF Step, AddFinalizer, Refetch, BuildClient, RegisterSchema,
       GetLatestVersion, SetCompatibility, GetForStatus, PutStatus,
       GetForFailure, PutFailure, BuildClientForDelete, DeleteSubject,
       RemoveFinalizer
  <2>2. CASE UNCHANGED << api, cacheCurrent >>
    <3>1. \/ Idle
          \/ pc' \notin RegisterCalls \cup {"refetch"}
          \/ /\ pc \in RegisterCalls /\ pc' \in RegisterCalls
             /\ UNCHANGED << key, schema >>
          \/ pc = "refetch" /\ Get("buildClient")
          \/ Updated([schema EXCEPT !.finalizer = TRUE])
      BY <1>1 DEF Step, AddFinalizer, Refetch, BuildClient, RegisterSchema,
         GetLatestVersion, SetCompatibility, GetForStatus, PutStatus,
         GetForFailure, PutFailure, BuildClientForDelete, DeleteSubject,
         RemoveFinalizer, Continue, Fail, Get, Done, Retry, Idle, RegisterCalls
    <3>2. CASE Updated([schema EXCEPT !.finalizer = TRUE])
      <4>1. cacheCurrent'[key] = FALSE /\ cacheCurrent[key] = TRUE
        BY <2>1, <3>2, <1>i, <1>t DEF Updated, Store, CopyIsStored, TypeOK,
           ClusterTypeOK
      <4>. QED
        BY <2>2, <4>1
    <3>. QED
      BY <2>1, <2>2, <3>1, <3>2 DEF SubjectsAgree, Idle, Get, RegisterCalls
  <2>3. ASSUME current, NEW o \in SchemaObject, Store(key, o), o.spec = schema.spec
        PROVE  SubjectsAgree'
    <3>1. api' = [api EXCEPT ![key] = o]
      BY <2>3 DEF Store
    <3>2. schema = api[key] /\ cache[key] = api[key]
      BY <2>1, <2>3, <1>i DEF CopyIsStored, CacheIsStored
    <3>3. \/ pc' = "idle"
          \/ pc' = "refetch" /\ key' = key
          \/ UNCHANGED << api, cacheCurrent >>
      BY <1>1 DEF Step, AddFinalizer, Refetch, BuildClient, RegisterSchema,
         GetLatestVersion, SetCompatibility, GetForStatus, PutStatus,
         GetForFailure, PutFailure, BuildClientForDelete, DeleteSubject,
         RemoveFinalizer, Done, Retry, Idle
    <3>4. api'[key] = o /\ \A k \in Keys \ {key} : api'[k] = api[k]
      BY <3>1, <2>1, <1>t
    <3>. QED
      BY <2>1, <2>2, <2>3, <3>2, <3>3, <3>4 DEF SubjectsAgree, RegisterCalls
  <2>4. CASE RemoveFinalizer /\ current /\ Store(key, Nil)
    <3>1. api' = [api EXCEPT ![key] = Nil]
      BY <2>4 DEF Store
    <3>2. cache[key].deleting
      BY <2>1, <2>4, <1>i DEF RemoveFinalizer, CopyIsStored, CacheIsStored,
         CopyFitsBranch, DeleteCalls
    <3>3. pc' = "idle"
      BY <2>4 DEF RemoveFinalizer, Done, Retry, Idle
    <3>4. \A k \in Keys \ {key} : api'[k] = api[k]
      BY <3>1, <2>1, <1>t
    <3>. QED
      BY <2>1, <3>2, <3>3, <3>4 DEF SubjectsAgree, RegisterCalls
  <2>. QED
    BY <1>1, <1>t, <2>2, <2>3, <2>4, StepWrites
<1>2. CASE User
  <2>1. ASSUME NEW k \in Keys, NEW o \in SchemaObject \cup {Nil}, UserWrites(k, o)
        PROVE  SubjectsAgree'
    <3>1. /\ api' = [api EXCEPT ![k] = o]
          /\ UNCHANGED << cache, pc, key, schema >>
      BY <2>1 DEF UserWrites, UserWrite, Store
    <3>2. /\ api'[k] = o
          /\ \A j \in Keys \ {k} : api'[j] = api[j]
      BY <3>1, <1>t
    <3>3. api[k] # Nil /\ api[k].finalizer => o.spec.subject = api[k].spec.subject
      BY <2>1 DEF UserWrites, CleanupHypothesis
    <3>4. ASSUME NEW j \in Keys, api[j] # Nil, api[j].finalizer
          PROVE  api'[j].spec.subject = api[j].spec.subject
      BY <3>2, <3>3, <3>4
    <3>. QED
      BY <3>1, <3>4, <1>t, <1>i
         DEF SubjectsAgree, CacheLags, FinalizerIsStored, RegisterCalls
  <2>2. CASE UNCHANGED << api, cache, cacheCurrent, workerVars, registryVars >>
    BY <2>2 DEF SubjectsAgree, workerVars
  <2>. QED
    BY <1>2, <1>t, <2>1, <2>2, UserSteps
<1>3. CASE Crash
  BY <1>3 DEF Crash, Restart, Relist, Idle, SubjectsAgree, RegisterCalls
<1>4. ASSUME NEW k \in Keys, Dequeue(k) PROVE SubjectsAgree'
  <2>1. UNCHANGED << api, cache >> /\ pc = "idle"
    BY <1>4 DEF Dequeue
  <2>2. CASE pc' = "buildClient"
    <3>1. /\ key' = k /\ schema' = cache[k] /\ cache[k] # Nil
          /\ cache[k].finalizer /\ ~cache[k].deleting
      BY <1>4, <2>1, <2>2 DEF Dequeue, FirstCall
    <3>. QED
      BY <2>1, <2>2, <3>1 DEF SubjectsAgree
  <2>3. CASE pc' # "buildClient"
    <3>1. pc' \notin RegisterCalls \cup {"refetch"}
      BY <1>4, <2>1, <2>3 DEF Dequeue, FirstCall, RegisterCalls
    <3>. QED
      BY <2>1, <3>1 DEF SubjectsAgree
  <2>. QED
    BY <2>2, <2>3
<1>5. ASSUME NEW k \in Keys, Informer(k) PROVE SubjectsAgree'
  <2>1. /\ cache' = [cache EXCEPT ![k] = api[k]]
        /\ UNCHANGED << api, pc, key, schema >>
    BY <1>5 DEF Informer, WatchEvent, workerVars
  <2>2. cache'[k] = api[k] /\ \A j \in Keys \ {k} : cache'[j] = cache[j]
    BY <2>1, <1>t
  <2>. QED
    BY <2>1, <2>2, <1>t DEF SubjectsAgree, RegisterCalls
<1>6. CASE (\E k \in Keys : Timer(k)) \/ LateRequest \/ UNCHANGED vars
  <2>1. UNCHANGED << api, cache, workerVars >>
    BY <1>6 DEF Timer, DelayElapses, LateRequest, clusterVars, vars
  <2>. QED
    BY <2>1 DEF SubjectsAgree, workerVars
<1>. QED
  BY <1>1, <1>2, <1>3, <1>4, <1>5, <1>6 DEF Next

\* Before the finalizer goes, the subject is gone.
LEMMA GoneStep ==
  ASSUME NEW v, CleanupHypothesis(v), CleanupInv(v), [Next]_vars
  PROVE  SubjectIsGone(v)'
<1>. USE DEF CleanupInv
<1>t. /\ TypeOK
      /\ subjects \in [Servers -> [Subjects -> Seq(Contents)]]
  BY DEF CopiesInv, TypeOK, RegistryTypeOK
<1>. SUFFICES ASSUME pc' = "removeFinalizer"
              PROVE  subjects'[v][schema'.spec.subject] = << >>
  BY DEF SubjectIsGone
<1>1. CASE DeleteSubject
  <2>. DEFINE q == Delete(server, schema.spec.subject)
  <2>1. Answered(q) /\ schema' = schema
    BY <1>1 DEF DeleteSubject, Continue, Retry, Idle
  <2>2. /\ q.op = "DELETE" /\ q.server = v /\ q.subject = schema.spec.subject
        /\ schema.spec.subject \in Subjects /\ v \in Servers
    BY <1>1, <1>t DEF DeleteSubject, Delete, CleanupHypothesis, OneServerUsed,
       RegistryCalls, TypeOK, WorkerTypeOK, SchemaObject, SchemaSpec
  <2>. HIDE DEF q
  <2>3. subjects' = [subjects EXCEPT ![v][schema.spec.subject] = << >>]
    BY <2>1, <2>2 DEF Answered, Serve, ServePost, ServePut, ServeDelete
  <2>. QED
    BY <2>1, <2>2, <2>3, <1>t
<1>2. CASE BuildClientForDelete
  <2>1. ClientBuilds
    <3>1. RegistryOf(key, schema) \in Registries
      BY <1>2, <1>t, RegistryOfType DEF BuildClientForDelete, TypeOK, WorkerTypeOK
    <3>. QED
      BY <3>1, ReconcilerAssumption
         DEF ClientBuilds, Usable, OneServerUsed, CleanupHypothesis
  <2>. QED
    BY <1>2, <2>1 DEF BuildClientForDelete, Continue
<1>3. CASE /\ Step /\ ~DeleteSubject /\ ~BuildClientForDelete
  BY <1>3 DEF Step, AddFinalizer, Refetch, BuildClient, RegisterSchema,
     GetLatestVersion, SetCompatibility, GetForStatus, PutStatus,
     GetForFailure, PutFailure, RemoveFinalizer, Continue, Fail, Get, Done,
     Retry, Idle
<1>4. CASE UNCHANGED << pc, schema, subjects >>
  BY <1>4 DEF SubjectIsGone
<1>5. CASE User
  <2>1. UNCHANGED << pc, schema, subjects >>
    BY <1>5, <1>t, UserSteps
       DEF UserWrites, UserWrite, workerVars, registryVars
  <2>. QED
    BY <2>1, <1>4
<1>6. CASE Crash
  BY <1>6 DEF Crash, Restart, Idle
<1>7. CASE LateRequest
  BY <1>7 DEF LateRequest, OneServerUsed
<1>8. ASSUME NEW k \in Keys, Dequeue(k) PROVE FALSE
  BY <1>8 DEF Dequeue, FirstCall
<1>9. CASE (\E k \in Keys : Informer(k) \/ Timer(k)) \/ UNCHANGED vars
  BY <1>9, <1>4 DEF Informer, Timer, registryVars, workerVars, vars
<1>. QED
  BY <1>1, <1>2, <1>3, <1>5, <1>6, <1>7, <1>8, <1>9 DEF Next

\* An object that guards its subject, before and after a step.
Guards(k, j) == api[k] # Nil /\ api[k].finalizer /\ api[k].spec.subject = j

\* Only the removal of the finalizer ends the guard.
LEMMA GuardStep ==
  ASSUME NEW v, CleanupHypothesis(v), CleanupInv(v), [Next]_vars,
         NEW k \in Keys, NEW j, Guards(k, j)
  PROVE  \/ Guards(k, j)'
         \/ /\ RemoveFinalizer /\ k = key
            /\ subjects'[v][j] = << >>
<1>. USE DEF CleanupInv, Guards
<1>t. /\ TypeOK
      /\ api \in [Keys -> SchemaObject \cup {Nil}]
      /\ pc # "idle" => key \in Keys
  BY DEF CopiesInv, TypeOK, ClusterTypeOK, WorkerTypeOK
<1>a. CASE api' = api
  BY <1>a
<1>1. CASE Step
  <2>1. pc # "idle" /\ key \in Keys
    BY <1>1, <1>t DEF Step, AddFinalizer, Refetch, BuildClient, RegisterSchema,
       GetLatestVersion, SetCompatibility, GetForStatus, PutStatus,
       GetForFailure, PutFailure, BuildClientForDelete, DeleteSubject,
       RemoveFinalizer
  <2>2. current => schema = api[key]
    BY <2>1 DEF CopiesInv, CopyIsStored
  <2>3. ASSUME current, NEW o \in SchemaObject, Store(key, o),
               o.spec = schema.spec, schema.finalizer => o.finalizer
        PROVE  Guards(k, j)'
    <3>1. api'[k] = IF k = key THEN o ELSE api[k]
      BY <2>1, <2>3, <1>t DEF Store
    <3>2. o # Nil
      BY <2>3, ReconcilerAssumption
    <3>. QED
      BY <2>2, <2>3, <3>1, <3>2
  <2>4. CASE RemoveFinalizer /\ current /\ Store(key, Nil)
    <3>1. api'[k] = IF k = key THEN Nil ELSE api[k]
      BY <2>1, <2>4, <1>t DEF Store
    <3>2. subjects' = subjects /\ subjects[v][schema.spec.subject] = << >>
      BY <2>4 DEF RemoveFinalizer, SubjectIsGone
    <3>. QED
      BY <2>2, <2>4, <3>1, <3>2
  <2>. QED
    BY <1>1, <1>t, <1>a, <2>3, <2>4, StepWrites
<1>2. CASE User
  <2>1. ASSUME NEW i \in Keys, NEW o \in SchemaObject \cup {Nil}, UserWrites(i, o)
        PROVE  Guards(k, j)'
    <3>1. api'[k] = IF k = i THEN o ELSE api[k]
      BY <2>1, <1>t DEF UserWrites, UserWrite, Store
    <3>2. k = i => o # Nil /\ o.finalizer /\ o.spec.subject = j
      BY <2>1, ReconcilerAssumption DEF UserWrites, CleanupHypothesis
    <3>. QED
      BY <3>1, <3>2
  <2>. QED
    BY <1>2, <1>t, <1>a, <2>1, UserSteps
<1>3. CASE \/ \E i \in Keys : Dequeue(i) \/ Informer(i) \/ Timer(i)
           \/ Crash \/ LateRequest \/ UNCHANGED vars
  BY <1>3, <1>a DEF Dequeue, Informer, WatchEvent, Timer, DelayElapses, Crash,
     Restart,
     Relist, LateRequest, clusterVars, vars
<1>. QED
  BY <1>1, <1>2, <1>3 DEF Next

\* No subject becomes an orphan.
LEMMA OrphanStep ==
  ASSUME NEW v, CleanupHypothesis(v), CleanupInv(v), [Next]_vars
  PROVE  NoOrphanedSubject'
<1>. USE DEF CleanupInv
<1>t. /\ TypeOK
      /\ subjects \in [Servers -> [Subjects -> Seq(Contents)]]
  BY DEF CopiesInv, TypeOK, RegistryTypeOK
<1>o. OneServerUsed(v)'
  BY OneServerStep
<1>n. NoOrphanedSubject <=>
        \A w \in Servers, j \in Subjects : subjects[w][j] # << >> =>
          \E k \in Keys : Guards(k, j)
  BY DEF NoOrphanedSubject, Guards
<1>. SUFFICES ASSUME NEW w \in Servers, NEW j \in Subjects, subjects'[w][j] # << >>
              PROVE  \E k \in Keys : Guards(k, j)'
  BY DEF NoOrphanedSubject, Guards
<1>1. w = v
  BY <1>o DEF OneServerUsed
<1>2. CASE subjects[w][j] # << >>
  <2>1. PICK k \in Keys : Guards(k, j)
    BY <1>2, <1>n
  <2>. QED
    BY <2>1, <1>1, GuardStep
<1>3. CASE subjects[w][j] = << >>
  <2>1. RegisterSchema
    <3>1. CASE SetCompatibility
      <4>. DEFINE q == Put(server, schema.spec.subject, schema.spec.level)
      <4>1. (Answered(q) \/ Unanswered(q)) /\ q.op = "PUT"
        BY <3>1 DEF SetCompatibility, Put
      <4>. HIDE DEF q
      <4>2. subjects' = subjects
        BY <4>1, CallEffect DEF CleanupHypothesis
      <4>. QED
        BY <4>2, <1>3
    <3>2. CASE DeleteSubject
      <4>. DEFINE q == Delete(server, schema.spec.subject)
      <4>1. (Answered(q) \/ Unanswered(q)) /\ q.op = "DELETE"
        BY <3>2 DEF DeleteSubject, Delete
      <4>. HIDE DEF q
      <4>2. \/ subjects' = subjects
            \/ subjects' = [subjects EXCEPT ![q.server][q.subject] = << >>]
        BY <4>1, CallEffect DEF CleanupHypothesis
      <4>. QED
        BY <4>2, <1>3, <1>t
    <3>3. CASE User
      <4>1. subjects' = subjects
        BY <3>3, <1>t, UserSteps DEF UserWrites, UserWrite, registryVars
      <4>. QED
        BY <4>1, <1>3
    <3>4. CASE /\ \/ \E k \in Keys : Dequeue(k) \/ Informer(k) \/ Timer(k)
                  \/ Step /\ ~SetCompatibility /\ ~DeleteSubject /\ ~RegisterSchema
                  \/ Crash \/ UNCHANGED vars
      <4>1. subjects' = subjects
        BY <3>4 DEF Dequeue, Informer, Timer, Step, AddFinalizer, Refetch,
           BuildClient, GetLatestVersion, GetForStatus, PutStatus,
           GetForFailure, PutFailure, BuildClientForDelete, RemoveFinalizer,
           Crash, Restart, vars, registryVars
      <4>. QED
        BY <4>1, <1>3
    <3>5. CASE LateRequest
      BY <3>5 DEF LateRequest, OneServerUsed
    <3>. QED
      BY <3>1, <3>2, <3>3, <3>4, <3>5 DEF Next
  <2>2. Guards(key, schema.spec.subject) /\ key \in Keys
    BY <2>1, <1>t DEF RegisterSchema, CopiesInv, FinalizerIsStored,
       SubjectsAgree, RegisterCalls, Guards, TypeOK, WorkerTypeOK
  <2>3. j = schema.spec.subject
    <3>. DEFINE q == Post(server, schema.spec.subject, schema.spec.content)
    <3>1. /\ Answered(q) \/ Unanswered(q)
          /\ q.op = "POST" /\ q.subject = schema.spec.subject
      BY <2>1 DEF RegisterSchema, Post
    <3>. HIDE DEF q
    <3>2. CASE subjects' = subjects
      BY <3>2, <1>3
    <3>3. CASE subjects' = [subjects EXCEPT ![q.server][q.subject] =
                              Append(@, q.content)]
      <4>1. j # q.subject => subjects'[w][j] = subjects[w][j]
        BY <3>3, <1>t
      <4>. QED
        BY <3>1, <4>1, <1>3
    <3>. QED
      BY <3>1, <3>2, <3>3, CallEffect DEF CleanupHypothesis
  <2>4. api' = api
    BY <2>1 DEF RegisterSchema
  <2>. QED
    BY <2>2, <2>3, <2>4 DEF Guards
<1>. QED
  BY <1>2, <1>3

\* The invariant behind NoOrphanedSubject, for the one server in use.
THEOREM CleanupCorrect == Spec => []CleanupInvariant
<1>1. Init => CleanupInvariant
  <2>. SUFFICES ASSUME Init, NEW v \in Servers, CleanupHypothesis(v)
                PROVE  CleanupInv(v)
    BY DEF CleanupInvariant
  <2>1. CopiesInv
    BY CopiesInit
  <2>2. OneServerUsed(v)
    BY DEF Init, RegistryInit, OneServerUsed, CleanupHypothesis, RegistryCalls
  <2>3. SubjectsAgree /\ SubjectIsGone(v)
    BY DEF Init, ClusterInit, SubjectsAgree, SubjectIsGone, RegisterCalls
  <2>4. NoOrphanedSubject
    BY DEF Init, RegistryInit, NoOrphanedSubject
  <2>. QED
    BY <2>1, <2>2, <2>3, <2>4 DEF CleanupInv
<1>2. CleanupInvariant /\ [Next]_vars => CleanupInvariant'
  <2>. SUFFICES ASSUME CleanupInvariant, [Next]_vars,
                       NEW v \in Servers, CleanupHypothesis(v)
                PROVE  CleanupInv(v)'
    BY DEF CleanupInvariant, CleanupHypothesis
  <2>1. CleanupInv(v)
    BY DEF CleanupInvariant
  <2>. QED
    BY <2>1, CopiesStep, OneServerStep, SubjectsStep, GoneStep, OrphanStep
       DEF CleanupInv
<1>. QED
  BY <1>1, <1>2, PTL DEF Spec

\* Every subject in the registry has a Schema that will delete it: the
\* purpose of the finalizer, for any number of Schemas and keys, subjects
\* shared or not, and any number of crashes and failed calls.
THEOREM Cleanup ==
  ASSUME NEW v \in Servers, CleanupHypothesis(v)
  PROVE  Spec => []NoOrphanedSubject
<1>1. CleanupInvariant => NoOrphanedSubject
  BY DEF CleanupInvariant, CleanupInv
<1>. QED
  BY <1>1, CleanupCorrect, PTL

-----------------------------------------------------------------------------
(***************************************************************************)
(* SettledSchemaIsReady.  A reconcile that ends without a retry has found  *)
(* its result stored already, or it has written it: then an event is to    *)
(* come.  If anything else changed the object meanwhile, its key is queued *)
(* again.                                                                  *)
(***************************************************************************)

\* A key other than those that a step touches is as ready as before.
LEMMA RestKept ==
  ASSUME SettledSchemaIsReady, NEW k \in Keys, k # key,
         api'[k] = api[k], cacheCurrent'[k] = cacheCurrent[k],
         sched'[k] = "none" => sched[k] = "none",
         Settled(k)', api'[k] # Nil
  PROVE  ~api'[k].deleting /\ Ready(api'[k])
BY DEF SettledSchemaIsReady, Settled, Ready

\* A reconcile leaves its key at rest only where it has found its result stored.
LEMMA EndFindsReport ==
  ASSUME SettledInv, Step, NEW k \in Keys, k = key, Settled(k)', api'[k] # Nil
  PROVE  PutStatus /\ Done /\ Unchanged(ReadyStatus)
<1>t. TypeOK /\ CopiesInv
  BY DEF SettledInv, CopiesInv
<1>a. /\ schema \in SchemaObject /\ key \in Keys /\ pc # "idle"
      /\ sched \in [Keys -> SchedStates]
      /\ api \in [Keys -> SchemaObject \cup {Nil}]
      /\ cacheCurrent \in [Keys -> BOOLEAN]
  BY <1>t DEF Step, AddFinalizer, Refetch, BuildClient, RegisterSchema,
     GetLatestVersion, SetCompatibility, GetForStatus, PutStatus,
     GetForFailure, PutFailure, BuildClientForDelete, DeleteSubject,
     RemoveFinalizer, TypeOK, WorkerTypeOK, ClusterTypeOK
<1>1. ~Retry
  BY <1>a DEF Retry, Requeue, Settled
<1>2. ~UNCHANGED key
  BY DEF Settled
<1>3. \/ (Refetch \/ GetForStatus) /\ NotFound /\ Done
      \/ PutStatus /\ Done /\ (Updated([schema EXCEPT !.status = ReadyStatus])
                               \/ Unchanged(ReadyStatus))
      \/ RemoveFinalizer /\ Updated(Nil)
  BY <1>1, <1>2 DEF Step, AddFinalizer, Refetch, BuildClient, RegisterSchema,
     GetLatestVersion, SetCompatibility, GetForStatus, PutStatus,
     GetForFailure, PutFailure, BuildClientForDelete, DeleteSubject,
     RemoveFinalizer, Get, Continue, Fail
<1>4. ~Updated([schema EXCEPT !.status = ReadyStatus]) /\ ~Updated(Nil)
  BY <1>a DEF Updated, Store, Settled
<1>5. CASE (Refetch \/ GetForStatus) /\ NotFound /\ Done
  <2>1. cacheCurrent[k] /\ cache[k] = Nil /\ api'[k] = api[k]
    BY <1>5 DEF Refetch, GetForStatus, NotFound, Settled
  <2>. QED
    BY <2>1, <1>a, <1>t DEF CopiesInv, CacheIsStored
<1>. QED
  BY <1>3, <1>4, <1>5

\* The key of a reconcile when the reconcile is over.
LEMMA StepRest ==
  ASSUME SettledInv, Step, NEW k \in Keys, k = key, Settled(k)', api'[k] # Nil
  PROVE  ~api'[k].deleting /\ Ready(api'[k])
<1>1. PutStatus /\ Done /\ Unchanged(ReadyStatus)
  BY EndFindsReport
<1>2. /\ pc = "putStatus" /\ schema.status = ReadyStatus
      /\ schema = api[key] /\ api'[k] = api[k]
  BY <1>1 DEF PutStatus, Unchanged, SettledInv, CopiesInv, CopyIsStored
<1>3. sched[key] # "ready"
  BY <1>1 DEF Done, Settled
<1>4. ~schema.deleting /\ resp.id = schema.spec.content
  BY <1>2, <1>3 DEF SettledInv, WorkIsOfCached, DeleteCalls
<1>. QED
  BY <1>2, <1>4 DEF Ready, ReadyStatus

\* A reconcile goes on with the cached object.
LEMMA StepWork ==
  ASSUME SettledInv, Step
  PROVE  WorkIsOfCached'
<1>t. TypeOK /\ CopiesInv
  BY DEF SettledInv, CopiesInv
<1>. SUFFICES ASSUME pc' # "idle", sched'[key'] # "ready"
              PROVE  WorkIsOfCached'
  BY DEF WorkIsOfCached
<1>1. /\ UNCHANGED << key, sched, cache >> /\ pc # "idle"
      /\ schema' = schema \/ schema' = cache[key]
  BY DEF Step, AddFinalizer, Refetch, BuildClient, RegisterSchema,
     GetLatestVersion, SetCompatibility, GetForStatus, PutStatus,
     GetForFailure, PutFailure, BuildClientForDelete, DeleteSubject,
     RemoveFinalizer, Get, Continue, Fail, Done, Retry, Idle
<1>2. schema = cache[key] /\ schema' = schema
  BY <1>1 DEF SettledInv, WorkIsOfCached
<1>3. pc' \notin DeleteCalls \cup {"getFailed", "putFailed"} => ~schema.deleting
  BY <1>1, <1>t
     DEF Step, AddFinalizer, Refetch, BuildClient, RegisterSchema,
     GetLatestVersion, SetCompatibility, GetForStatus, PutStatus,
     GetForFailure, PutFailure, BuildClientForDelete, DeleteSubject,
     RemoveFinalizer, Get, Continue, Fail, Done, Retry, Idle, SettledInv,
     WorkIsOfCached, DeleteCalls
<1>4. pc' \in {"latest", "setCompatibility", "getStatus", "putStatus"} =>
        resp'.id = schema.spec.content
  <2>1. CASE RegisterSchema
    BY <2>1 DEF RegisterSchema, Continue, Fail, Post
  <2>2. CASE GetLatestVersion
    BY <2>2, <1>1, <1>t DEF GetLatestVersion, Continue, SettledInv,
       WorkIsOfCached, TypeOK, WorkerTypeOK, Response
  <2>3. CASE ~RegisterSchema /\ ~GetLatestVersion
    BY <2>3, <1>1
       DEF Step, AddFinalizer, Refetch, BuildClient, SetCompatibility,
       GetForStatus, PutStatus, GetForFailure, PutFailure,
       BuildClientForDelete, DeleteSubject, RemoveFinalizer, Get, Continue,
       Fail, Done, Retry, Idle, SettledInv, WorkIsOfCached
  <2>. QED
    BY <2>1, <2>2, <2>3
<1>. QED
  BY <1>1, <1>2, <1>3, <1>4 DEF WorkIsOfCached

\* Neither the worker nor a user deletes an object without the finalizer that
\* stays.
LEMMA FinalizerKept ==
  ASSUME SettledInv, [Next]_vars
  PROVE  DeletedHasFinalizer'
<1>t. TypeOK /\ CopiesInv /\ api \in [Keys -> SchemaObject \cup {Nil}]
  BY DEF SettledInv, CopiesInv, TypeOK, ClusterTypeOK
<1>0. CASE UNCHANGED api
  BY <1>0 DEF SettledInv, DeletedHasFinalizer
<1>1. CASE Step
  <2>1. key \in Keys /\ (current => schema = api[key] /\ schema # Nil)
    BY <1>1, <1>t DEF Step, AddFinalizer, Refetch, BuildClient, RegisterSchema,
       GetLatestVersion, SetCompatibility, GetForStatus, PutStatus,
       GetForFailure, PutFailure, BuildClientForDelete, DeleteSubject,
       RemoveFinalizer, TypeOK, WorkerTypeOK, CopiesInv, CopyIsStored
  <2>. QED
    BY <1>0, <1>1, <1>t, <2>1, StepWrites
       DEF Store, SettledInv, DeletedHasFinalizer
<1>2. CASE User
  <2>1. ASSUME NEW k \in Keys, DeleteSchema(k) PROVE DeletedHasFinalizer'
    BY <2>1, <1>t DEF DeleteSchema, UserWrite, Store, SettledInv,
       DeletedHasFinalizer, SchemaObject
  <2>2. ASSUME NEW k \in Keys, NEW spec, CreateSchema(k, spec)
        PROVE  DeletedHasFinalizer'
    BY <2>2, <1>t DEF CreateSchema, UserWrite, Store, SettledInv,
       DeletedHasFinalizer
  <2>3. ASSUME NEW k \in Keys, NEW spec, UpdateSchema(k, spec)
        PROVE  DeletedHasFinalizer'
    BY <2>3, <1>t DEF UpdateSchema, UserWrite, Store, SettledInv,
       DeletedHasFinalizer, SchemaObject
  <2>. QED
    BY <1>0, <1>2, <2>1, <2>2, <2>3
       DEF User, EditRegistry, RegistryEvent, SecretChange, clusterVars
<1>. QED
  BY <1>0, <1>1, <1>2 DEF Next, Dequeue, Informer, WatchEvent, Timer,
     DelayElapses, Crash, Restart, Relist, LateRequest, vars, clusterVars

\* The worker takes a key: the object is as cached, and is there to work on.
LEMMA DequeueSettled ==
  ASSUME SettledInv, NEW k \in Keys, Dequeue(k)
  PROVE  WorkIsOfCached' /\ SettledSchemaIsReady'
<1>t. /\ TypeOK /\ CacheIsStored /\ SettledSchemaIsReady /\ DeletedHasFinalizer
      /\ sched \in [Keys -> SchedStates] /\ Nil \notin Keys
      /\ key = Nil
  BY RuntimeAssumption DEF SettledInv, CopiesInv, TypeOK, ClusterTypeOK,
     WorkerTypeOK, Dequeue
<1>1. WorkIsOfCached'
  BY <1>t DEF Dequeue, FirstCall, WorkIsOfCached, DeleteCalls
<1>2. ASSUME NEW i \in Keys, Settled(i)', api'[i] # Nil
      PROVE  ~api'[i].deleting /\ Ready(api'[i])
  <2>1. CASE i = k
    <3>1. cacheCurrent[k] /\ cache[k] = api[k] /\ api[k] # Nil /\ key' # k
      BY <1>2, <2>1, <1>t DEF Dequeue, Settled, CacheIsStored
    <3>2. FirstCall(cache[k]) = "idle"
      BY <3>1 DEF Dequeue
    <3>. QED
      BY <3>1, <3>2, <1>t DEF FirstCall, DeletedHasFinalizer
  <2>2. CASE i # k
    BY <1>2, <2>2, <1>t, RestKept DEF Dequeue
  <2>. QED
    BY <2>1, <2>2
<1>. QED
  BY <1>1, <1>2 DEF SettledSchemaIsReady

\* A call of the worker touches its own key only.
LEMMA StepSettled ==
  ASSUME SettledInv, Step
  PROVE  WorkIsOfCached' /\ SettledSchemaIsReady'
<1>t. TypeOK /\ CopiesInv
  BY DEF SettledInv, CopiesInv
<1>a. /\ key \in Keys
      /\ sched \in [Keys -> SchedStates]
      /\ api \in [Keys -> SchemaObject \cup {Nil}]
      /\ cacheCurrent \in [Keys -> BOOLEAN]
  BY <1>t DEF Step, AddFinalizer, Refetch, BuildClient, RegisterSchema,
     GetLatestVersion, SetCompatibility, GetForStatus, PutStatus,
     GetForFailure, PutFailure, BuildClientForDelete, DeleteSubject,
     RemoveFinalizer, TypeOK, WorkerTypeOK, ClusterTypeOK
<1>1. UNCHANGED sched \/ sched' = Requeue(key)
  BY DEF Step, AddFinalizer, Refetch, BuildClient, RegisterSchema,
     GetLatestVersion, SetCompatibility, GetForStatus, PutStatus,
     GetForFailure, PutFailure, BuildClientForDelete, DeleteSubject,
     RemoveFinalizer, Get, Continue, Fail, Done, Retry
<1>2. ASSUME NEW i \in Keys, Settled(i)', api'[i] # Nil, i # key
      PROVE  ~api'[i].deleting /\ Ready(api'[i])
  <2>1. api'[i] = api[i] /\ cacheCurrent'[i] = cacheCurrent[i]
    BY <1>2, <1>a, <1>t, StepWrites DEF Store
  <2>2. sched'[i] = sched[i]
    BY <1>1, <1>2, <1>a DEF Requeue
  <2>. QED
    BY <1>2, <2>1, <2>2, RestKept DEF SettledInv
<1>3. SettledSchemaIsReady'
  <2>. SUFFICES ASSUME NEW i \in Keys, Settled(i)', api'[i] # Nil
                PROVE  ~api'[i].deleting /\ Ready(api'[i])
    BY DEF SettledSchemaIsReady
  <2>. QED
    BY <1>2, StepRest
<1>. QED
  BY <1>3, StepWork

\* A write of a user takes the key out of rest until the watch brings it.
LEMMA UserSettled ==
  ASSUME SettledInv, User
  PROVE  WorkIsOfCached' /\ SettledSchemaIsReady'
<1>t. /\ TypeOK /\ SettledSchemaIsReady /\ WorkIsOfCached
      /\ sched \in [Keys -> SchedStates]
      /\ api \in [Keys -> SchemaObject \cup {Nil}]
      /\ cacheCurrent \in [Keys -> BOOLEAN]
      /\ pc # "idle" => key \in Keys
  BY DEF SettledInv, CopiesInv, TypeOK, ClusterTypeOK, WorkerTypeOK
<1>1. /\ UNCHANGED << cache, pc, key, schema, resp >>
      /\ \A i \in Keys : /\ sched'[i] = sched[i] \/ sched'[i] = "ready"
                         /\ \/ ~cacheCurrent'[i]
                            \/ /\ api'[i] = api[i]
                               /\ cacheCurrent'[i] = cacheCurrent[i]
  BY <1>t DEF User, CreateSchema, UpdateSchema, DeleteSchema, UserWrite, Store,
     EditRegistry, RegistryEvent, SecretChange, Enqueue, clusterVars,
     workerVars
<1>2. WorkIsOfCached'
  BY <1>1, <1>t DEF WorkIsOfCached
<1>3. ASSUME NEW i \in Keys, Settled(i)', api'[i] # Nil
      PROVE  ~api'[i].deleting /\ Ready(api'[i])
  <2>1. i # key /\ api'[i] = api[i] /\ cacheCurrent'[i] = cacheCurrent[i]
    BY <1>1, <1>3 DEF Settled
  <2>2. sched[i] = "none"
    BY <1>1, <1>3 DEF Settled
  <2>. QED
    BY <1>3, <1>t, <2>1, <2>2, RestKept
<1>. QED
  BY <1>2, <1>3 DEF SettledSchemaIsReady

\* Who leaves the objects and the worker alone, and takes no key out of the
\* queue, may do what he likes to the registries.
LEMMA AloneSettled ==
  ASSUME SettledInv, TypeOK', UNCHANGED << api, cache, cacheCurrent, workerVars >>,
         \A k \in Keys : sched'[k] = sched[k] \/ sched'[k] = "ready"
  PROVE  SettledInv'
<1>t. /\ TypeOK /\ CopiesInv
      /\ UNCHANGED << pc, key, schema, resp >>
      /\ pc # "idle" => key \in Keys
  BY DEF SettledInv, CopiesInv, TypeOK, WorkerTypeOK, workerVars
<1>1. CopiesInv'
  BY <1>t, OtherCopies
<1>2. WorkIsOfCached' /\ DeletedHasFinalizer'
  BY <1>t DEF SettledInv, WorkIsOfCached, DeletedHasFinalizer
<1>3. ASSUME NEW k \in Keys, Settled(k)', api'[k] # Nil
      PROVE  ~api'[k].deleting /\ Ready(api'[k])
  BY <1>t, <1>3 DEF SettledInv, SettledSchemaIsReady, Settled
<1>. QED
  BY <1>1, <1>2, <1>3 DEF SettledInv, SettledSchemaIsReady

\* After a restart every object is in the queue.
LEMMA RestartSettled ==
  ASSUME SettledInv, TypeOK', Restart
  PROVE  SettledInv'
<1>1. /\ pc' = "idle" /\ cache' = api /\ api' = api
      /\ \A k \in Keys : api[k] # Nil => sched'[k] = "ready"
  BY DEF Restart, Idle, Relist
<1>2. \A k \in Keys : api[k] # Nil /\ api[k].deleting => api[k].finalizer
  BY DEF SettledInv, DeletedHasFinalizer
<1>3. CopiesInv'
  BY <1>1, <1>2 DEF CopiesInv, CacheIsStored, CopyIsStored, CacheLags,
     FinalizerIsStored, CopyFitsBranch, RegisterCalls, DeleteCalls
<1>. QED
  BY <1>1, <1>2, <1>3 DEF SettledInv, WorkIsOfCached, DeletedHasFinalizer,
     SettledSchemaIsReady, Settled

\* The watch, the timers, a crash and a late request.
LEMMA WorldSettled ==
  ASSUME SettledInv,
         \/ \E k \in Keys : Informer(k) \/ Timer(k)
         \/ Crash \/ LateRequest \/ UNCHANGED vars
  PROVE  WorkIsOfCached' /\ SettledSchemaIsReady'
<1>t. /\ TypeOK /\ SettledSchemaIsReady /\ WorkIsOfCached
      /\ sched \in [Keys -> SchedStates]
      /\ cache \in [Keys -> SchemaObject \cup {Nil}]
      /\ cacheCurrent \in [Keys -> BOOLEAN]
      /\ pc # "idle" => key \in Keys
  BY DEF SettledInv, CopiesInv, TypeOK, ClusterTypeOK, WorkerTypeOK
<1>1. CASE Crash
  BY <1>1 DEF Crash, Restart, Idle, Relist, WorkIsOfCached,
     SettledSchemaIsReady, Settled
<1>2. CASE ~Crash
  <2>1. /\ UNCHANGED << api, pc, key, schema, resp >>
        /\ \A i \in Keys : \/ sched'[i] = "ready"
                           \/ /\ sched'[i] = sched[i]
                              /\ cache'[i] = cache[i]
                              /\ cacheCurrent'[i] = cacheCurrent[i]
    BY <1>2, <1>t DEF Informer, WatchEvent, Timer, DelayElapses, Enqueue,
       LateRequest, clusterVars, workerVars, vars
  <2>2. WorkIsOfCached'
    BY <2>1, <1>t DEF WorkIsOfCached
  <2>3. ASSUME NEW i \in Keys, Settled(i)', api'[i] # Nil
        PROVE  ~api'[i].deleting /\ Ready(api'[i])
    BY <2>1, <2>3, <1>t, RestKept DEF Settled
  <2>. QED
    BY <2>2, <2>3 DEF SettledSchemaIsReady
<1>. QED
  BY <1>1, <1>2

\* SettledInv is inductive.
LEMMA SettledStep ==
  ASSUME SettledInv, [Next]_vars
  PROVE  SettledInv'
<1>1. CopiesInv'
  BY CopiesStep DEF SettledInv
<1>2. WorkIsOfCached' /\ SettledSchemaIsReady'
  BY DequeueSettled, StepSettled, UserSettled, WorldSettled DEF Next
<1>. QED
  BY <1>1, <1>2, FinalizerKept DEF SettledInv

\* It is an invariant.
THEOREM SettledCorrect == Spec => []SettledInv
<1>1. Init => SettledInv
  <2>. SUFFICES ASSUME Init PROVE SettledInv
    OBVIOUS
  <2>1. CopiesInv
    BY CopiesInit
  <2>2. WorkIsOfCached /\ DeletedHasFinalizer /\ SettledSchemaIsReady
    BY DEF Init, ClusterInit, WorkIsOfCached, DeletedHasFinalizer,
       SettledSchemaIsReady
  <2>. QED
    BY <2>1, <2>2 DEF SettledInv
<1>2. SettledInv /\ [Next]_vars => SettledInv'
  BY SettledStep
<1>. QED
  BY <1>1, <1>2, PTL DEF Spec

\* No change is forgotten: whatever the faults, and whoever writes when, a
\* Schema for which nothing is due reports its current spec.
THEOREM SettledReady == Spec => []SettledSchemaIsReady
<1>1. SettledInv => SettledSchemaIsReady
  BY DEF SettledInv
<1>. QED
  BY <1>1, SettledCorrect, PTL

-----------------------------------------------------------------------------
(***************************************************************************)
(* FinalizerIsAdmitted.  The worker's copy may be out of date, but it is   *)
(* a copy of something that the webhook has let in.                        *)
(***************************************************************************)
\* The stored, the cached and the worker's copies under each key k have specs in
\* T[k].
SpecsIn(T) ==
  /\ \A k \in Keys : /\ api[k] # Nil => api[k].spec \in T[k]
                     /\ cache[k] # Nil => cache[k].spec \in T[k]
  /\ pc # "idle" => schema.spec \in T[key]

\* It stays so where users write none but such specs: nobody else writes one.
LEMMA SpecsInStep ==
  ASSUME TypeOK, [Next]_vars, NEW T, SpecsIn(T),
         \A k \in Keys : \A s \in Specs[k] :
           CreateSchema(k, s) \/ UpdateSchema(k, s) => s \in T[k]
  PROVE  SpecsIn(T)'
<1>t. /\ api \in [Keys -> SchemaObject \cup {Nil}]
      /\ cache \in [Keys -> SchemaObject \cup {Nil}]
      /\ pc # "idle" => key \in Keys
      /\ pc = "idle" <=> key = Nil
  BY DEF TypeOK, ClusterTypeOK, WorkerTypeOK
<1>1. CASE Step
  <2>1. pc # "idle" /\ UNCHANGED cache
    BY <1>1 DEF Step, AddFinalizer, Refetch, BuildClient, RegisterSchema,
       GetLatestVersion, SetCompatibility, GetForStatus, PutStatus,
       GetForFailure, PutFailure, BuildClientForDelete, DeleteSubject,
       RemoveFinalizer
  <2>m. \/ pc' = "idle"
        \/ UNCHANGED << key, schema >>
        \/ key' = key /\ schema' = cache[key] /\ cache[key] # Nil
    BY <1>1 DEF Step, AddFinalizer, Refetch, BuildClient, RegisterSchema,
       GetLatestVersion, SetCompatibility, GetForStatus, PutStatus,
       GetForFailure, PutFailure, BuildClientForDelete, DeleteSubject,
       RemoveFinalizer, Get, Continue, Fail, Done, Retry, Idle
  <2>2. pc' # "idle" => schema'.spec \in T[key']
    BY <2>1, <2>m, <1>t DEF SpecsIn
  <2>3. ASSUME NEW k \in Keys, api'[k] # Nil PROVE api'[k].spec \in T[k]
    <3>1. CASE UNCHANGED api
      BY <2>3, <3>1 DEF SpecsIn
    <3>2. ASSUME NEW o \in SchemaObject, Store(key, o), o.spec = schema.spec
          PROVE  api'[k].spec \in T[k]
      BY <2>1, <2>3, <3>2, <1>t DEF Store, SpecsIn
    <3>3. CASE Store(key, Nil)
      BY <2>1, <2>3, <3>3, <1>t DEF Store, SpecsIn
    <3>. QED
      BY <1>1, <3>1, <3>2, <3>3, StepWrites
  <2>. QED
    BY <2>1, <2>2, <2>3 DEF SpecsIn
<1>2. ASSUME NEW k \in Keys, NEW o,
             UserWrite(k, o), o # Nil => o.spec \in T[k]
      PROVE  SpecsIn(T)'
  <2>1. UNCHANGED << cache, pc, key, schema >> /\ api' = [api EXCEPT ![k] = o]
    BY <1>2 DEF UserWrite, Store
  <2>. QED
    BY <2>1, <1>2, <1>t DEF SpecsIn
<1>3. CASE User
  <2>1. ASSUME NEW k \in Keys, NEW s \in Specs[k], CreateSchema(k, s)
        PROVE  SpecsIn(T)'
    BY <1>2, <2>1 DEF CreateSchema
  <2>2. ASSUME NEW k \in Keys, NEW s \in Specs[k], UpdateSchema(k, s)
        PROVE  SpecsIn(T)'
    BY <1>2, <1>t, <2>2 DEF UpdateSchema, SchemaObject
  <2>3. ASSUME NEW k \in Keys, DeleteSchema(k) PROVE SpecsIn(T)'
    BY <1>2, <1>t, <2>3 DEF DeleteSchema, SchemaObject, SpecsIn
  <2>4. ASSUME UNCHANGED << api, cache, pc, key, schema >>
        PROVE  SpecsIn(T)'
    BY <2>4 DEF SpecsIn
  <2>. QED
    BY <1>3, <2>1, <2>2, <2>3, <2>4
       DEF User, EditRegistry, RegistryEvent, SecretChange, clusterVars,
           workerVars
<1>4. ASSUME NEW k \in Keys, Dequeue(k) PROVE SpecsIn(T)'
  BY <1>4 DEF Dequeue, SpecsIn
<1>5. ASSUME NEW k \in Keys, Informer(k) PROVE SpecsIn(T)'
  BY <1>5, <1>t DEF Informer, WatchEvent, workerVars, SpecsIn
<1>6. CASE Crash
  BY <1>6 DEF Crash, Restart, Relist, Idle, SpecsIn
<1>7. CASE (\E k \in Keys : Timer(k)) \/ LateRequest \/ UNCHANGED vars
  BY <1>7 DEF Timer, DelayElapses, LateRequest, clusterVars, workerVars, vars,
     SpecsIn
<1>. QED
  BY <1>1, <1>3, <1>4, <1>5, <1>6, <1>7 DEF Next

\* CopiesAdmitted is inductive where every manager runs the webhook.
LEMMA AdmittedStep ==
  ASSUME WebhookModes = {TRUE}, TypeOK, TypeOK', CopiesAdmitted, [Next]_vars
  PROVE  CopiesAdmitted'
<1>. DEFINE T == [k \in Keys |-> {s \in SchemaSpec : ValidateSchemaSpec(s)}]
<1>1. /\ api \in [Keys -> SchemaObject \cup {Nil}]
      /\ cache \in [Keys -> SchemaObject \cup {Nil}]
      /\ pc # "idle" => key \in Keys /\ schema \in SchemaObject
      /\ \A o \in SchemaObject : o.spec \in SchemaSpec
  BY DEF TypeOK, ClusterTypeOK, WorkerTypeOK, SchemaObject
<1>2. /\ webhooks' = TRUE
      /\ pc' # "idle" => key' \in Keys
  BY DEF TypeOK, EnvTypeOK, WorkerTypeOK
<1>3. SpecsIn(T)
  BY <1>1 DEF SpecsIn, CopiesAdmitted
<1>4. ASSUME NEW k \in Keys, NEW s \in Specs[k],
             CreateSchema(k, s) \/ UpdateSchema(k, s)
      PROVE  s \in T[k]
  BY <1>4, ReconcilerAssumption
     DEF CopiesAdmitted, CreateSchema, UpdateSchema, ValidateUpdate
<1>. HIDE DEF T
<1>5. SpecsIn(T)'
  BY <1>3, <1>4, SpecsInStep
<1>. USE DEF T
<1>. QED
  BY <1>2, <1>5 DEF SpecsIn, CopiesAdmitted

\* Where every manager runs the webhook, it never stands between the controller
\* and its finalizer.
THEOREM FinalizerAdmitted == Spec => []FinalizerIsAdmitted
<1>1. Init => (WebhookModes = {TRUE} => CopiesAdmitted)
  BY DEF Init, ClusterInit, CopiesAdmitted
<1>2. TypeOK /\ TypeOK' /\ (WebhookModes = {TRUE} => CopiesAdmitted) /\ [Next]_vars
        => (WebhookModes = {TRUE} => CopiesAdmitted)'
  BY AdmittedStep
<1>3. (WebhookModes = {TRUE} => CopiesAdmitted) => FinalizerIsAdmitted
  BY DEF CopiesAdmitted, FinalizerIsAdmitted, Admitted
<1>. QED
  BY <1>1, <1>2, <1>3, TypeCorrect, PTL DEF Spec
=============================================================================

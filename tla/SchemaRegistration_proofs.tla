--------------------- MODULE SchemaRegistration_proofs ----------------------
(***************************************************************************)
(* What is at the registry where a Schema rests, and where it goes: proofs *)
(* of SettledSchemaIsRegistered and DeletedSubjectIsGone.                  *)
(***************************************************************************)
EXTENDS SchemaReconciler_proofs

(***************************************************************************)
(* Who changes a subject.  No request is served late, so the only ones are *)
(* the POST and the DELETE of the worker.                                  *)
(***************************************************************************)
\* No request becomes late.
LEMMA NothingLate ==
  ASSUME "late" \notin FaultKinds, late = {}, [Next]_vars
  PROVE  late' = {}
<1>1. ASSUME NEW q, Answered(q) \/ Unanswered(q) PROVE late' = late
  BY <1>1, CallEffect
<1>2. CASE RegisterSchema \/ SetCompatibility \/ DeleteSubject
  BY <1>1, <1>2 DEF RegisterSchema, SetCompatibility, DeleteSubject
<1>3. CASE Step /\ ~(RegisterSchema \/ SetCompatibility \/ DeleteSubject)
  BY <1>3 DEF Step, AddFinalizer, Refetch, BuildClient, GetLatestVersion,
     GetForStatus, PutStatus, GetForFailure, PutFailure, BuildClientForDelete,
     RemoveFinalizer, registryVars
<1>4. CASE Crash
  BY <1>4 DEF Crash, Restart
<1>. QED
  BY <1>2, <1>3, <1>4
     DEF Next, Dequeue, Informer, Timer, User, CreateSchema, UpdateSchema,
     DeleteSchema, UserWrite, EditRegistry, RegistryEvent, SecretChange,
     LateRequest, registryVars, vars

\* What a step does to the subjects.
LEMMA SubjectsChange ==
  ASSUME "late" \notin FaultKinds, late = {}, [Next]_vars
  PROVE  \/ subjects' = subjects
         \/ /\ RegisterSchema
            /\ subjects' = [subjects EXCEPT ![server][schema.spec.subject] =
                              Append(@, schema.spec.content)]
         \/ /\ DeleteSubject
            /\ subjects' = [subjects EXCEPT ![server][schema.spec.subject] =
                              << >>]
<1>1. CASE RegisterSchema
  <2>. DEFINE q == Post(server, schema.spec.subject, schema.spec.content)
  <2>1. Answered(q) \/ Unanswered(q)
    BY <1>1 DEF RegisterSchema
  <2>2. /\ q.op = "POST" /\ q.server = server
        /\ q.subject = schema.spec.subject /\ q.content = schema.spec.content
    BY DEF Post
  <2>. HIDE DEF q
  <2>. QED
    BY <1>1, <2>1, <2>2, CallEffect
<1>2. CASE SetCompatibility
  <2>. DEFINE q == Put(server, schema.spec.subject, schema.spec.level)
  <2>1. Answered(q) \/ Unanswered(q)
    BY <1>2 DEF SetCompatibility
  <2>2. q.op = "PUT"
    BY DEF Put
  <2>. HIDE DEF q
  <2>. QED
    BY <2>1, <2>2, CallEffect
<1>3. CASE DeleteSubject
  <2>. DEFINE q == Delete(server, schema.spec.subject)
  <2>1. Answered(q) \/ Unanswered(q)
    BY <1>3 DEF DeleteSubject
  <2>2. q.op = "DELETE" /\ q.server = server /\ q.subject = schema.spec.subject
    BY DEF Delete
  <2>. HIDE DEF q
  <2>. QED
    BY <1>3, <2>1, <2>2, CallEffect
<1>4. CASE Step /\ ~(RegisterSchema \/ SetCompatibility \/ DeleteSubject)
  BY <1>4 DEF Step, AddFinalizer, Refetch, BuildClient, GetLatestVersion,
     GetForStatus, PutStatus, GetForFailure, PutFailure, BuildClientForDelete,
     RemoveFinalizer, registryVars
<1>5. CASE Crash
  BY <1>5 DEF Crash, Restart
<1>. QED
  BY <1>1, <1>2, <1>3, <1>4, <1>5
     DEF Next, Dequeue, Informer, Timer, User, CreateSchema, UpdateSchema,
     DeleteSchema, UserWrite, EditRegistry, RegistryEvent, SecretChange,
     LateRequest, registryVars, vars

\* Only a DELETE of its subject takes a schema away.
LEMMA RegisteredKept ==
  ASSUME "late" \notin FaultKinds, late = {}, [Next]_vars, TypeOK,
         NEW v \in Servers, NEW j \in Subjects, NEW c, Registered(v, j, c),
         ~(DeleteSubject /\ schema.spec.subject = j)
  PROVE  c \in Range(subjects'[v][j])
<1>t. /\ subjects \in [Servers -> [Subjects -> Seq(Contents)]]
      /\ subjects[v][j] \in Seq(Contents)
  BY DEF TypeOK, RegistryTypeOK
<1>1. PICK i \in DOMAIN subjects[v][j] : subjects[v][j][i] = c
  BY DEF Registered, Range
<1>2. CASE subjects'[v][j] = subjects[v][j]
  BY <1>2 DEF Registered
<1>3. ASSUME NEW d, subjects'[v][j] = Append(subjects[v][j], d),
             d \in Contents
      PROVE  c \in Range(subjects'[v][j])
  <2>1. /\ i \in DOMAIN Append(subjects[v][j], d)
        /\ Append(subjects[v][j], d)[i] = c
    BY <1>1, <1>3, <1>t
  <2>. QED
    BY <1>3, <2>1 DEF Registered, Range
<1>4. CASE RegisterSchema
  <2>1. server \in Servers /\ schema.spec \in SchemaSpec
    BY <1>4 DEF RegisterSchema, TypeOK, WorkerTypeOK, RegistryCalls,
       SchemaObject
  <2>2. schema.spec.subject \in Subjects /\ schema.spec.content \in Contents
    BY <2>1 DEF SchemaSpec
  <2>3. \/ subjects'[v][j] = subjects[v][j]
        \/ subjects'[v][j] = Append(subjects[v][j], schema.spec.content)
    <3>. DEFINE s == schema.spec
    <3>1. \/ subjects' = subjects
          \/ subjects' = [subjects EXCEPT ![server][s.subject] =
                            Append(@, s.content)]
      BY <1>4, SubjectsChange DEF RegisterSchema, DeleteSubject
    <3>2. s.subject \in Subjects
      BY <2>2
    <3>. HIDE DEF s
    <3>3. CASE server = v /\ s.subject = j
      BY <3>1, <3>3, <1>t DEF s
    <3>4. CASE server # v
      BY <3>1, <3>4, <2>1, <1>t
    <3>5. CASE server = v /\ s.subject # j
      BY <3>1, <3>2, <3>5, <1>t
    <3>. QED
      BY <3>3, <3>4, <3>5
  <2>. QED
    BY <1>2, <1>3, <2>2, <2>3
<1>5. CASE DeleteSubject /\ schema.spec.subject # j
  <2>1. ~RegisterSchema
    BY <1>5 DEF RegisterSchema, DeleteSubject
  <2>2. server \in Servers /\ schema.spec.subject \in Subjects
    BY <1>5 DEF DeleteSubject, TypeOK, WorkerTypeOK, RegistryCalls,
       SchemaObject, SchemaSpec
  <2>3. subjects'[v][j] = subjects[v][j]
    BY <1>5, <2>1, <2>2, <1>t, SubjectsChange
  <2>. QED
    BY <1>2, <2>3
<1>. QED
  BY <1>2, <1>4, <1>5, SubjectsChange

\* A POST that is answered with an id leaves the content at the server.
LEMMA PostRegisters ==
  ASSUME TypeOK, NEW v \in Servers, NEW j \in Subjects, NEW c \in Contents,
         Answered(Post(v, j, c)), ~Refused(Post(v, j, c))
  PROVE  c \in Range(subjects'[v][j])
<1>. DEFINE q == Post(v, j, c)
<1>t. /\ subjects \in [Servers -> [Subjects -> Seq(Contents)]]
      /\ subjects[v][j] \in Seq(Contents)
  BY DEF TypeOK, RegistryTypeOK
<1>1. q.op = "POST" /\ q.server = v /\ q.subject = j /\ q.content = c
  BY DEF Post
<1>2. Answered(q) /\ ~Refused(q)
  OBVIOUS
<1>. HIDE DEF q
<1>3. subjects' = IF Registered(v, j, c) THEN subjects
                  ELSE [subjects EXCEPT ![v][j] = Append(@, c)]
  BY <1>1, <1>2 DEF Answered, Serve, ServePost, ServePut, ServeDelete
<1>4. CASE Registered(v, j, c)
  BY <1>3, <1>4 DEF Registered
<1>5. CASE ~Registered(v, j, c)
  <2>1. subjects'[v][j] = Append(subjects[v][j], c)
    BY <1>3, <1>5, <1>t
  <2>2. /\ Len(subjects[v][j]) + 1 \in DOMAIN subjects'[v][j]
        /\ subjects'[v][j][Len(subjects[v][j]) + 1] = c
    BY <2>1, <1>t
  <2>. QED
    BY <2>2 DEF Registered, Range
<1>. QED
  BY <1>4, <1>5

-----------------------------------------------------------------------------
(***************************************************************************)
(* DeletedSubjectIsGone.  From the DELETE to the Update that removes the   *)
(* finalizer the worker keeps its copy, and nobody else sends a request.   *)
(***************************************************************************)
\* The DELETE that is answered empties its subject.
LEMMA DeleteEmpties ==
  ASSUME TypeOK, NEW v \in Servers, NEW j \in Subjects, Answered(Delete(v, j))
  PROVE  subjects'[v][j] = << >>
<1>. DEFINE q == Delete(v, j)
<1>1. Answered(q) /\ q.op = "DELETE" /\ q.server = v /\ q.subject = j
  BY DEF Delete
<1>. HIDE DEF q
<1>2. subjects' = [subjects EXCEPT ![v][j] = << >>]
  BY <1>1 DEF Answered, Serve, ServePost, ServePut, ServeDelete
<1>. QED
  BY <1>2 DEF TypeOK, RegistryTypeOK

\* DeletionInv is inductive, given the types.
LEMMA DeletionStep ==
  ASSUME "late" \notin FaultKinds, TypeOK, DeletionInv, [Next]_vars
  PROVE  DeletionInv'
<1>1. late' = {}
  BY NothingLate DEF DeletionInv
<1>2. CASE DeleteSubject
  <2>1. CASE pc' = "removeFinalizer"
    <3>1. /\ Answered(Delete(server, schema.spec.subject))
          /\ UNCHANGED << server, schema >>
      BY <1>2, <2>1 DEF DeleteSubject, Continue, Retry, Idle
    <3>2. server \in Servers /\ schema.spec.subject \in Subjects
      BY <1>2 DEF DeleteSubject, TypeOK, WorkerTypeOK, RegistryCalls,
         SchemaObject, SchemaSpec
    <3>3. subjects'[server][schema.spec.subject] = << >>
      BY <3>1, <3>2, DeleteEmpties
    <3>. QED
      BY <1>1, <2>1, <3>1, <3>3 DEF DeletionInv, FinalizerCalls
  <2>2. CASE pc' # "removeFinalizer"
    BY <1>1, <1>2, <2>2 DEF DeleteSubject, Continue, Retry, Idle, DeletionInv,
       FinalizerCalls
  <2>. QED
    BY <2>1, <2>2
<1>3. CASE Step /\ ~DeleteSubject
  BY <1>1, <1>3
     DEF Step, AddFinalizer, Refetch, BuildClient, RegisterSchema,
     GetLatestVersion, SetCompatibility, GetForStatus, PutStatus,
     GetForFailure, PutFailure, BuildClientForDelete, RemoveFinalizer,
     Continue, Fail, Get, Done, Retry, Idle, DeletionInv, FinalizerCalls
<1>4. CASE \E k \in Keys : Dequeue(k)
  BY <1>1, <1>4 DEF Dequeue, FirstCall, DeletionInv, FinalizerCalls
<1>5. CASE Crash
  BY <1>1, <1>5 DEF Crash, Restart, Idle, DeletionInv
<1>6. CASE UNCHANGED << subjects, pc, server, schema >>
  BY <1>1, <1>6 DEF DeletionInv
<1>7. CASE User
  BY <1>6, <1>7, UserSteps
     DEF UserWrites, UserWrite, workerVars, registryVars
<1>8. CASE LateRequest
  BY <1>8 DEF LateRequest, DeletionInv
<1>9. CASE (\E k \in Keys : Informer(k) \/ Timer(k)) \/ UNCHANGED vars
  BY <1>6, <1>9 DEF Informer, Timer, workerVars, registryVars, vars
<1>. QED
  BY <1>2, <1>3, <1>4, <1>5, <1>7, <1>8, <1>9 DEF Next

\* Only RemoveFinalizer ends an object with the finalizer, and its copy is the
\* stored object.
LEMMA RemovalStep ==
  ASSUME CopiesInv, [Next]_vars, NEW k \in Keys,
         api[k] # Nil, api[k].finalizer, api'[k] = Nil
  PROVE  RemoveFinalizer /\ k = key /\ schema = api[k]
<1>t. TypeOK /\ api \in [Keys -> SchemaObject \cup {Nil}]
  BY DEF CopiesInv, TypeOK, ClusterTypeOK
<1>0. api' # api
  OBVIOUS
<1>1. CASE Step
  <2>1. ASSUME NEW o \in SchemaObject PROVE ~Store(key, o)
    BY <1>t, <2>1, ReconcilerAssumption DEF Store
  <2>2. RemoveFinalizer /\ current /\ Store(key, Nil)
    BY <1>0, <1>1, <1>t, <2>1, StepWrites
  <2>3. k = key
    BY <2>2, <1>t DEF Store
  <2>. QED
    BY <2>2, <2>3 DEF RemoveFinalizer, CopiesInv, CopyIsStored
<1>2. CASE User
  <2>1. ASSUME NEW i \in Keys, NEW o \in SchemaObject \cup {Nil},
               UserWrites(i, o)
        PROVE  FALSE
    BY <2>1, <1>t, ReconcilerAssumption DEF UserWrites, UserWrite, Store
  <2>. QED
    BY <1>0, <1>2, <1>t, <2>1, UserSteps
<1>. QED
  BY <1>0, <1>1, <1>2 DEF Next, Dequeue, Informer, WatchEvent, Timer,
     DelayElapses, Crash, Restart, Relist, LateRequest, vars, clusterVars

\* DeletionInv is an invariant where no request is served late.
THEOREM DeletionCorrect ==
  ASSUME "late" \notin FaultKinds
  PROVE  Spec => []DeletionInv
<1>1. Init => DeletionInv
  BY DEF Init, RegistryInit, DeletionInv
<1>2. TypeOK /\ DeletionInv /\ [Next]_vars => DeletionInv'
  BY DeletionStep
<1>. QED
  BY <1>1, <1>2, TypeCorrect, PTL DEF Spec

\* Whatever users do to the Schema and its registry while its deletion is under
\* way, the subject it names when it goes has been deleted, if a client could
\* be built.
THEOREM DeletedGone ==
  ASSUME "late" \notin FaultKinds
  PROVE  Spec => DeletedSubjectIsGone
<1>1. CopiesInv /\ DeletionInv /\ [Next]_vars =>
        [\A k \in Keys :
           api[k] # Nil /\ api[k].finalizer /\ api'[k] = Nil /\ server # Nil =>
             subjects[server][api[k].spec.subject] = << >>]_vars
  <2>. SUFFICES ASSUME CopiesInv, DeletionInv, [Next]_vars, NEW k \in Keys,
                       api[k] # Nil, api[k].finalizer, api'[k] = Nil,
                       server # Nil
                PROVE  subjects[server][api[k].spec.subject] = << >>
    OBVIOUS
  <2>1. pc = "removeFinalizer" /\ schema = api[k]
    BY RemovalStep DEF RemoveFinalizer
  <2>. QED
    BY <2>1 DEF DeletionInv
<1>. QED
  BY <1>1, CopiesCorrect, DeletionCorrect, PTL DEF Spec, DeletedSubjectIsGone

-----------------------------------------------------------------------------
(***************************************************************************)
(* SettledSchemaIsRegistered.                                              *)
(***************************************************************************)
\* A copy keeps a spec that was written for its key.
LEMMA SpecsStep ==
  ASSUME TypeOK, SpecsAreOfKey, [Next]_vars
  PROVE  SpecsAreOfKey'
<1>1. SpecsIn(Specs)
  BY DEF SpecsAreOfKey, SpecsIn
<1>2. SpecsIn(Specs)'
  BY <1>1, SpecsInStep
<1>. QED
  BY <1>2 DEF SpecsAreOfKey, SpecsIn

\* A change of a registry queues the Schemas that refer to it.
LEMMA EditQueues ==
  ASSUME RegistrationHypothesis, TypeOK, SpecsAreOfKey, [Next]_vars,
         NEW k \in Keys, cache[k] # Nil, sched'[k] # "ready"
  PROVE  registry'[RegistryOf(k, cache[k])] =
           registry[RegistryOf(k, cache[k])]
<1>1. CASE UNCHANGED registry
  BY <1>1
<1>2. ASSUME NEW r \in Registries, NEW url, EditRegistry(r, url)
      PROVE  registry'[RegistryOf(k, cache[k])] =
               registry[RegistryOf(k, cache[k])]
  <2>1. k \notin FindSchemasForRegistry(r)
    BY <1>2 DEF EditRegistry, Enqueue
  <2>2. RegistryOf(k, cache[k]) =
          [namespace |-> k.namespace, name |-> cache[k].spec.registryRef.name]
    BY DEF RegistryOf, RegistrationHypothesis, SpecsAreOfKey
  <2>3. RegistryOf(k, cache[k]) # r
    BY <2>1, <2>2 DEF FindSchemasForRegistry
  <2>. QED
    BY <1>2, <2>3 DEF EditRegistry, TypeOK, EnvTypeOK
<1>. QED
  BY <1>1, <1>2
     DEF Next, Step, AddFinalizer, Refetch, BuildClient, RegisterSchema,
     GetLatestVersion, SetCompatibility, GetForStatus, PutStatus,
     GetForFailure, PutFailure, BuildClientForDelete, DeleteSubject,
     RemoveFinalizer, Dequeue, Informer, Timer, User, CreateSchema,
     UpdateSchema, DeleteSchema, UserWrite, RegistryEvent, SecretChange,
     Crash, Restart, LateRequest, envVars, vars

\* The worker's calls, one after the other: the client is built for the server
\* of the moment, the schema registered there, and then nothing moves.
LEMMA StepServes ==
  ASSUME "late" \notin FaultKinds, late = {}, TypeOK, WorkIsOfCached, Step,
         sched'[key] # "ready",
         pc' \in {"register", "latest", "setCompatibility", "getStatus",
                  "putStatus"}
  PROVE  /\ UNCHANGED << key, schema, sched, registry >>
         /\ \/ pc' = "register" /\ server' = registry[RegistryOf(key, schema)]
            \/ /\ pc = "register" /\ UNCHANGED server
               /\ schema.spec.content \in
                    Range(subjects'[server][schema.spec.subject])
            \/ /\ pc \in {"latest", "setCompatibility", "getStatus"}
               /\ pc' # "register"
               /\ UNCHANGED << server, subjects >>
<1>1. /\ UNCHANGED << key, sched, cache, registry >>
      /\ schema' = schema \/ schema' = cache[key]
      /\ pc # "idle"
  BY DEF Step, AddFinalizer, Refetch, BuildClient, RegisterSchema,
     GetLatestVersion, SetCompatibility, GetForStatus, PutStatus,
     GetForFailure, PutFailure, BuildClientForDelete, DeleteSubject,
     RemoveFinalizer, Get, Continue, Fail, Done, Retry, Idle, envVars
<1>2. schema' = schema
  BY <1>1 DEF WorkIsOfCached
<1>3. CASE BuildClient
  BY <1>1, <1>2, <1>3 DEF BuildClient, Continue, Fail
<1>4. CASE RegisterSchema
  <2>1. /\ pc = "register" /\ server' = server /\ server \in Servers
        /\ schema.spec.subject \in Subjects
        /\ schema.spec.content \in Contents
    BY <1>1, <1>4 DEF RegisterSchema, Continue, Fail, TypeOK, WorkerTypeOK,
       RegistryCalls, SchemaObject, SchemaSpec
  <2>2. /\ Answered(Post(server, schema.spec.subject, schema.spec.content))
        /\ ~Refused(Post(server, schema.spec.subject, schema.spec.content))
    BY <1>4 DEF RegisterSchema, Fail, Continue
  <2>. QED
    BY <1>1, <1>2, <2>1, <2>2, PostRegisters
<1>5. CASE GetLatestVersion \/ SetCompatibility \/ GetForStatus
  <2>1. /\ server' = server /\ pc' # "register"
        /\ pc \in {"latest", "setCompatibility", "getStatus"}
    BY <1>5 DEF GetLatestVersion, SetCompatibility, GetForStatus, Continue, Get,
       Done, Idle
  <2>2. subjects' = subjects
    BY <2>1, SubjectsChange DEF Next, RegisterSchema, DeleteSubject
  <2>. QED
    BY <1>1, <1>2, <2>1, <2>2
<1>6. ~(\/ AddFinalizer \/ Refetch \/ PutStatus \/ GetForFailure \/ PutFailure
        \/ BuildClientForDelete \/ DeleteSubject \/ RemoveFinalizer)
  BY DEF AddFinalizer, Refetch, PutStatus, GetForFailure, PutFailure,
     BuildClientForDelete, DeleteSubject, RemoveFinalizer, Get, Continue, Done,
     Retry, Idle
<1>. QED
  BY <1>3, <1>4, <1>5, <1>6 DEF Step

\* So a call of the worker keeps what it relies on.
LEMMA StepPlaced ==
  ASSUME RegistrationHypothesis, RegistrationInv, Step
  PROVE  WorkIsRegistered'
<1>t. /\ TypeOK /\ WorkIsOfCached /\ WorkIsRegistered /\ late = {}
      /\ "late" \notin FaultKinds
  BY DEF RegistrationInv, SettledInv, CopiesInv, RegistrationHypothesis
<1>k. key' = key \/ pc' = "idle"
  BY DEF Step, AddFinalizer, Refetch, BuildClient, RegisterSchema,
     GetLatestVersion, SetCompatibility, GetForStatus, PutStatus,
     GetForFailure, PutFailure, BuildClientForDelete, DeleteSubject,
     RemoveFinalizer, Get, Continue, Fail, Done, Retry, Idle
<1>. SUFFICES ASSUME sched'[key] # "ready",
                     pc' \in {"register", "latest", "setCompatibility",
                              "getStatus", "putStatus"}
              PROVE  /\ server' = registry'[RegistryOf(key', schema')]
                     /\ pc' # "register" =>
                          schema'.spec.content \in
                            Range(subjects'[server'][schema'.spec.subject])
  BY <1>k DEF WorkIsRegistered, Registered, RegistryOf
<1>. QED
  BY <1>t, StepServes DEF WorkIsRegistered, Registered

\* Between two calls the worker and its subject stay as they are, and a key that
\* is queued stays queued.
LEMMA WorkerWaits ==
  ASSUME "late" \notin FaultKinds, late = {}, TypeOK, [Next]_vars,
         ~Step, ~Crash, ~(\E k \in Keys : Dequeue(k))
  PROVE  /\ UNCHANGED << pc, key, schema, server, subjects >>
         /\ \A k \in Keys : sched'[k] # "ready" => sched[k] # "ready"
<1>1. sched \in [Keys -> SchedStates]
  BY DEF TypeOK, ClusterTypeOK
<1>2. subjects' = subjects
  BY SubjectsChange DEF Step
<1>. QED
  BY <1>1, <1>2
     DEF Next, Informer, WatchEvent, Timer, DelayElapses, User, CreateSchema,
     UpdateSchema, DeleteSchema, UserWrite, EditRegistry, RegistryEvent,
     SecretChange, LateRequest, Enqueue, clusterVars, workerVars, vars

\* So it stays, whatever happens between two calls.
LEMMA WorkStays ==
  ASSUME RegistrationHypothesis, RegistrationInv, [Next]_vars
  PROVE  WorkIsRegistered'
<1>t. /\ TypeOK /\ SpecsAreOfKey /\ WorkIsRegistered /\ late = {}
      /\ WorkIsOfCached
      /\ sched \in [Keys -> SchedStates]
      /\ pc # "idle" => key \in Keys /\ schema # Nil
  BY DEF RegistrationInv, SettledInv, CopiesInv, TypeOK, WorkerTypeOK,
     ClusterTypeOK
<1>1. CASE Step
  BY <1>1, StepPlaced
<1>2. CASE Crash
  BY <1>2 DEF Crash, Restart, Idle, WorkIsRegistered
<1>3. ASSUME NEW k \in Keys, Dequeue(k) PROVE WorkIsRegistered'
  BY <1>3 DEF Dequeue, FirstCall, WorkIsRegistered
<1>4. CASE /\ ~Step /\ ~Crash /\ ~(\E k \in Keys : Dequeue(k))
  <2>1. /\ UNCHANGED << pc, key, schema, server >>
        /\ \A k \in Keys : sched'[k] # "ready" => sched[k] # "ready"
    BY <1>4, <1>t, WorkerWaits DEF RegistrationHypothesis
  <2>2. subjects' = subjects
    BY <1>4, <1>t, WorkerWaits DEF RegistrationHypothesis
  <2>3. ASSUME pc # "idle", sched'[key] # "ready"
        PROVE  registry'[RegistryOf(key, schema)] =
                 registry[RegistryOf(key, schema)]
    <3>1. schema = cache[key] /\ cache[key] # Nil
      BY <2>1, <2>3, <1>t DEF WorkIsOfCached
    <3>. QED
      BY <2>3, <3>1, <1>t, EditQueues
  <2>. SUFFICES ASSUME sched'[key'] # "ready",
                       pc' \in {"register", "latest", "setCompatibility",
                                "getStatus", "putStatus"}
                PROVE  /\ server' = registry'[RegistryOf(key', schema')]
                       /\ pc' # "register" =>
                            schema'.spec.content \in
                              Range(subjects'[server'][schema'.spec.subject])
    BY DEF WorkIsRegistered, Registered, RegistryOf
  <2>4. pc # "idle" /\ key \in Keys /\ sched[key] # "ready"
    BY <2>1, <1>t
  <2>. QED
    BY <2>1, <2>2, <2>3, <2>4, <1>t DEF WorkIsRegistered, Registered
<1>. QED
  BY <1>1, <1>2, <1>3, <1>4

\* A Schema that rests, and is not the one whose reconcile ends, rested before.
LEMMA RestBefore ==
  ASSUME SettledInv, SettledInv', [Next]_vars, NEW k \in Keys,
         Settled(k)', api'[k] # Nil, key # k
  PROVE  Settled(k) /\ api'[k] = api[k] /\ cache[k] = api[k]
<1>t. /\ TypeOK /\ CacheIsStored /\ key' # k
      /\ sched \in [Keys -> SchedStates]
      /\ api \in [Keys -> SchemaObject \cup {Nil}]
      /\ cacheCurrent \in [Keys -> BOOLEAN]
      /\ pc # "idle" => key \in Keys
      /\ pc = "idle" <=> key = Nil
  BY DEF SettledInv, CopiesInv, TypeOK, ClusterTypeOK, WorkerTypeOK, Settled
<1>. SUFFICES /\ api'[k] = api[k] /\ cacheCurrent[k]
              /\ sched[k] = "none"
  BY <1>t DEF Settled, CacheIsStored
<1>s. sched'[k] = "none" /\ cacheCurrent'[k]
  BY DEF Settled
<1>1. CASE Step
  <2>1. UNCHANGED sched \/ sched' = Requeue(key)
    BY <1>1 DEF Step, AddFinalizer, Refetch, BuildClient, RegisterSchema,
       GetLatestVersion, SetCompatibility, GetForStatus, PutStatus,
       GetForFailure, PutFailure, BuildClientForDelete, DeleteSubject,
       RemoveFinalizer, Get, Continue, Fail, Done, Retry
  <2>2. api'[k] = api[k] /\ cacheCurrent'[k] = cacheCurrent[k]
    BY <1>1, <1>t, StepWrites DEF Store
  <2>. QED
    BY <1>s, <1>t, <2>1, <2>2 DEF Requeue
<1>2. CASE User
  BY <1>2, <1>s, <1>t
     DEF User, CreateSchema, UpdateSchema, DeleteSchema, UserWrite, Store,
     EditRegistry, RegistryEvent, SecretChange, Enqueue, clusterVars
<1>3. CASE Dequeue(k)
  <2>1. cache[k] = api[k] /\ api'[k] = api[k]
    BY <1>3, <1>s, <1>t DEF Dequeue, CacheIsStored
  <2>2. FirstCall(cache[k]) = "idle"
    BY <1>3, <1>t, <2>1 DEF Dequeue
  <2>3. ~api'[k].deleting
    BY DEF SettledInv, SettledSchemaIsReady
  <2>. QED
    BY <2>1, <2>2, <2>3 DEF FirstCall
<1>4. ASSUME NEW i \in Keys, i # k, Dequeue(i)
      PROVE  /\ api'[k] = api[k] /\ cacheCurrent[k]
             /\ sched[k] = "none"
  BY <1>4, <1>s, <1>t DEF Dequeue
<1>5. CASE Crash
  BY <1>5, <1>s DEF Crash, Restart, Relist
<1>6. CASE \/ \E i \in Keys : Informer(i) \/ Timer(i)
           \/ LateRequest \/ UNCHANGED vars
  BY <1>6, <1>s, <1>t DEF Informer, WatchEvent, Timer, DelayElapses, Enqueue,
     LateRequest, clusterVars, vars
<1>. QED
  BY <1>1, <1>2, <1>3, <1>4, <1>5, <1>6 DEF Next

\* Its schema stays where it is: the one DELETE under way is of another subject.
LEMMA OtherRests ==
  ASSUME RegistrationHypothesis, late = {}, SpecsAreOfKey,
         SettledInv, SettledInv', [Next]_vars,
         NEW k \in Keys, Settled(k)', api'[k] # Nil, key # k,
         NEW v \in Servers,
         Registered(v, api[k].spec.subject, api[k].spec.content)
  PROVE  api[k].spec.content \in Range(subjects'[v][api[k].spec.subject])
<1>1. Settled(k) /\ api'[k] = api[k] /\ api[k] \in SchemaObject
  BY RestBefore DEF SettledInv, CopiesInv, TypeOK, ClusterTypeOK
<1>2. api[k].spec.subject \in Subjects
  BY <1>1 DEF SchemaObject, SchemaSpec
<1>3. ~(DeleteSubject /\ schema.spec.subject = api[k].spec.subject)
  <2>. SUFFICES ASSUME DeleteSubject
                PROVE  schema.spec.subject # api[k].spec.subject
    OBVIOUS
  <2>1. key \in Keys \ {k} /\ schema.spec \in Specs[key]
    BY DEF DeleteSubject, SpecsAreOfKey, SettledInv, CopiesInv, TypeOK,
       WorkerTypeOK
  <2>2. api[k].spec \in Specs[k]
    BY <1>1 DEF SpecsAreOfKey
  <2>. QED
    BY <2>1, <2>2 DEF RegistrationHypothesis
<1>. QED
  BY <1>2, <1>3, RegisteredKept
     DEF RegistrationHypothesis, SettledInv, CopiesInv

\* A Schema that comes to rest has just been found reported, as it is stored.
LEMMA OwnRests ==
  ASSUME SettledInv, [Next]_vars,
         NEW k \in Keys, Settled(k)', api'[k] # Nil, key = k
  PROVE  /\ pc = "putStatus" /\ sched[key] # "ready" /\ schema = api[key]
         /\ UNCHANGED << api, registry, subjects >>
<1>1. Step
  <2>1. pc # "idle"
    BY RuntimeAssumption DEF SettledInv, CopiesInv, TypeOK, WorkerTypeOK
  <2>2. ~Crash
    BY DEF Crash, Restart, Relist, Settled
  <2>3. key' # key
    BY DEF Settled
  <2>. QED
    BY <2>1, <2>2, <2>3
       DEF Next, Dequeue, Informer, Timer, User, CreateSchema, UpdateSchema,
       DeleteSchema, UserWrite, EditRegistry, RegistryEvent, SecretChange,
       LateRequest, workerVars, vars
<1>2. PutStatus /\ Done /\ Unchanged(ReadyStatus)
  BY <1>1, EndFindsReport
<1>. QED
  BY <1>2 DEF PutStatus, Unchanged, Done, SettledInv, CopiesInv, CopyIsStored,
     Settled, envVars

\* Where a Schema rests, its schema is where its registry is: a reconcile has
\* just registered it there, or nothing has changed.
LEMMA RestRegistered ==
  ASSUME RegistrationHypothesis, RegistrationInv, SettledInv', [Next]_vars
  PROVE  SettledSchemaIsRegistered'
<1>t. /\ TypeOK /\ SpecsAreOfKey /\ WorkIsRegistered /\ late = {} /\ SettledInv
      /\ SettledSchemaIsRegistered
      /\ registry \in [Registries -> Servers \cup {Nil}]
      /\ api \in [Keys -> SchemaObject \cup {Nil}]
  BY DEF RegistrationInv, SettledInv, CopiesInv, TypeOK, EnvTypeOK,
     ClusterTypeOK
<1>. SUFFICES ASSUME NEW k \in Keys, Settled(k)', api'[k] # Nil,
                     registry'[RegistryOf(k, api'[k])] # Nil
              PROVE  api'[k].spec.content \in
                       Range(subjects'[registry'[RegistryOf(k, api'[k])]]
                                      [api'[k].spec.subject])
  BY DEF SettledSchemaIsRegistered, Registered, RegistryOf
<1>1. CASE key = k
  BY <1>1, <1>t, OwnRests DEF WorkIsRegistered, Registered
<1>2. CASE key # k
  <2>1. Settled(k) /\ api'[k] = api[k] /\ cache[k] = api[k]
    BY <1>2, <1>t, RestBefore
  <2>. DEFINE v == registry[RegistryOf(k, api[k])]
  <2>2. registry'[RegistryOf(k, api[k])] = v
    BY <1>t, <2>1, EditQueues DEF Settled
  <2>3. v \in Servers
    <3>1. api[k] \in SchemaObject
      BY <1>t, <2>1
    <3>. QED
      BY <1>t, <2>1, <2>2, <3>1, RegistryOfType
  <2>4. Registered(v, api[k].spec.subject, api[k].spec.content)
    BY <1>t, <2>1, <2>2 DEF SettledSchemaIsRegistered
  <2>. HIDE DEF v
  <2>5. api[k].spec.content \in Range(subjects'[v][api[k].spec.subject])
    BY <1>2, <1>t, <2>3, <2>4, OtherRests
  <2>. QED
    BY <2>1, <2>2, <2>5
<1>. QED
  BY <1>1, <1>2

\* RegistrationInv is inductive, for Schemas that share no subject, in the
\* namespace of their registry, where no request is served late.
THEOREM RegistrationCorrect ==
  ASSUME RegistrationHypothesis
  PROVE  Spec => []RegistrationInv
<1>1. Init => RegistrationInv
  <2>. SUFFICES ASSUME Init PROVE RegistrationInv
    OBVIOUS
  <2>1. CopiesInv
    BY CopiesInit
  <2>. QED
    BY <2>1 DEF Init, ClusterInit, RegistryInit, RegistrationInv, SettledInv,
       WorkIsOfCached, DeletedHasFinalizer, SettledSchemaIsReady,
       SpecsAreOfKey, WorkIsRegistered, SettledSchemaIsRegistered
<1>2. RegistrationInv /\ SettledInv' /\ [Next]_vars => RegistrationInv'
  <2>. SUFFICES ASSUME RegistrationInv, SettledInv', [Next]_vars
                PROVE  RegistrationInv'
    OBVIOUS
  <2>1. TypeOK /\ SpecsAreOfKey /\ late = {}
    BY DEF RegistrationInv, SettledInv, CopiesInv
  <2>. QED
    BY <2>1, NothingLate, SpecsStep, WorkStays, RestRegistered
       DEF RegistrationInv, RegistrationHypothesis
<1>. QED
  BY <1>1, <1>2, SettledCorrect, PTL DEF Spec

\* No change is forgotten: where nothing is due for a Schema, its schema is at
\* the server that its SchemaRegistry names now, whatever has happened to both.
THEOREM SettledRegistered ==
  ASSUME RegistrationHypothesis
  PROVE  Spec => []SettledSchemaIsRegistered
<1>1. RegistrationInv => SettledSchemaIsRegistered
  BY DEF RegistrationInv
<1>. QED
  BY <1>1, RegistrationCorrect, PTL
=============================================================================

-------------------------- MODULE SchemaReconciler --------------------------
(***************************************************************************)
(* The Schema controller (internal/controller/schema_controller.go): one   *)
(* worker that registers the Schema resources in the registry they refer   *)
(* to and deletes their subjects when they are deleted.                    *)
(*                                                                         *)
(* Reconcile is cut at every call that leaves the process, so that users,  *)
(* the watch, the servers and a crash may act between any two of them.     *)
(* The result of a reconcile puts its key back into the queue (Retry) or   *)
(* not (Done).                                                             *)
(***************************************************************************)
EXTENDS ControllerRuntime, SchemaRegistryClient, SchemaWebhook

CONSTANTS
  Namespaces,       \* Kubernetes namespaces
  RegistryNames,    \* names of SchemaRegistry resources
  Specs,            \* Specs[k]: the specs users write under the key k
  RegistryURLs,     \* what users make of a SchemaRegistry: a URL, or Nil
  SecretsVary,      \* do the Secrets of the registries come and go?
  WebhookModes      \* values ENABLE_WEBHOOKS may have in a manager process

NamespacedName(N) == [namespace : Namespaces, name : N]
Registries == NamespacedName(RegistryNames)

\* registryRef; an empty namespace is Nil.
RegistryRef == [namespace : Namespaces \cup {Nil}, name : RegistryNames]

SchemaSpec == [subject : Subjects, content : Contents,
         level : Levels \cup {Nil}, registryRef : RegistryRef]

Reasons == {"none", "Registered", "ClientBuildFailed", "RegistrationFailed"}

\* The status: reason and observedGeneration of the Ready condition (it is
\* True for "Registered" only), and the status fields of the same names.
SchemaStatus == [reason : Reasons, condGeneration : Nat,
           schemaID : Contents \cup {Nil}, version : Nat,
           observedGeneration : Nat]

SchemaObject == [generation : Nat, spec : SchemaSpec, deleting : BOOLEAN,
           finalizer : BOOLEAN, status : SchemaStatus]

ASSUME ReconcilerAssumption ==
  /\ Keys \subseteq [namespace : Namespaces, name : {k.name : k \in Keys}]
  /\ Specs \in [Keys -> SUBSET SchemaSpec]
  /\ RegistryURLs \subseteq Servers \cup {Nil}
  /\ SecretsVary \in BOOLEAN
  /\ WebhookModes \in (SUBSET BOOLEAN) \ {{}}
  /\ Nil \notin Keys \cup SchemaObject \cup Servers \cup Contents \cup Levels
                  \cup Namespaces \cup Reasons

VARIABLES
  registry,    \* registry[r]: the URL in the SchemaRegistry r, or Nil
  authLoads,   \* authLoads[r]: can the credentials of r be loaded?
  webhooks,    \* does this manager validate?
  schema,      \* the worker's copy of the object
  server,      \* where the client that was built points to
  resp,        \* answer of RegisterSchema
  reason       \* argument of setConditionFailed

envVars    == << registry, authLoads, webhooks, edits >>
workerVars == << pc, key, schema, current, server, resp, reason >>
vars == << clusterVars, registryVars, envVars, workerVars >>

FinalizerCalls == {"addFinalizer", "refetch"}
RegisterCalls  == {"buildClient", "register", "latest", "setCompatibility"}
StatusCalls    == {"getStatus", "putStatus", "getFailed", "putFailed"}
DeleteCalls    == {"buildForDelete", "deleteSubject", "removeFinalizer"}
RegistryCalls  == {"register", "latest", "setCompatibility", "deleteSubject"}
Calls == FinalizerCalls \cup RegisterCalls \cup StatusCalls \cup DeleteCalls

NoResp   == [id |-> Nil, version |-> 0]
Response == [id : Contents \cup {Nil}, version : Nat]

ClusterTypeOK ==
  /\ api \in [Keys -> SchemaObject \cup {Nil}]
  /\ cache \in [Keys -> SchemaObject \cup {Nil}]
  /\ cacheCurrent \in [Keys -> BOOLEAN]
  /\ sched \in [Keys -> SchedStates]

EnvTypeOK ==
  /\ registry \in [Registries -> Servers \cup {Nil}]
  /\ authLoads \in [Registries -> BOOLEAN]
  /\ webhooks \in WebhookModes
  /\ edits \in 0 .. MaxEdits

\* In a reconcile the worker has a key and an object, at a call to the
\* registry a client.
WorkerTypeOK ==
  /\ pc \in Calls \cup {"idle"}
  /\ key \in Keys \cup {Nil}
  /\ schema \in SchemaObject \cup {Nil}
  /\ current \in BOOLEAN
  /\ server \in Servers \cup {Nil}
  /\ resp \in Response
  /\ reason \in Reasons
  /\ pc = "idle" <=> key = Nil
  /\ pc # "idle" => schema # Nil
  /\ pc \in RegistryCalls => server # Nil
  /\ pc = "setCompatibility" => schema.spec.level # Nil

TypeOK == RegistryTypeOK /\ ClusterTypeOK /\ EnvTypeOK /\ WorkerTypeOK

Init ==
  /\ ClusterInit
  /\ RegistryInit
  /\ registry \in [Registries -> RegistryURLs]
  /\ authLoads \in [Registries -> IF SecretsVary THEN BOOLEAN ELSE {TRUE}]
  /\ webhooks \in WebhookModes
  /\ edits = 0
  /\ pc = "idle" /\ key = Nil /\ schema = Nil /\ current = FALSE
  /\ server = Nil /\ resp = NoResp /\ reason = "none"

-----------------------------------------------------------------------------
(***************************************************************************)
(* The ends of a reconcile, and the calls to the Kubernetes API.           *)
(***************************************************************************)
Idle ==
  /\ pc' = "idle" /\ key' = Nil /\ schema' = Nil /\ current' = FALSE
  /\ server' = Nil /\ resp' = NoResp /\ reason' = "none"

\* Result{} and nil.
Done == Idle /\ UNCHANGED sched

\* An error (back off) or RequeueAfter.
Retry == Idle /\ sched' = Requeue(key)

Continue(call) ==
  /\ pc' = call
  /\ UNCHANGED << sched, key, schema, current >>

\* r.Get: reads the cache.  The caller handles NotFound.
Get(call) ==
  /\ cache[key] # Nil
  /\ schema' = cache[key]
  /\ current' = cacheCurrent[key]
  /\ pc' = call
  /\ UNCHANGED << sched, key, server, resp, reason >>

NotFound == cache[key] = Nil

\* A status equal to the stored one: the write changes nothing, and there is
\* no event, or (Updated) only what SchemaStatus leaves out: RegisteredAt,
\* which has second precision, and the text of the message.
Unchanged(s) ==
  /\ current /\ s = schema.status
  /\ UNCHANGED << api, cacheCurrent, faults >>

-----------------------------------------------------------------------------
(***************************************************************************)
(* Reconcile.                                                              *)
(***************************************************************************)
\* Mutant: the deletion is not looked at while the finalizer is there.
FirstCallByFinalizer(o) ==
  IF o.finalizer THEN "buildClient"
  ELSE IF o.deleting THEN "idle" ELSE "addFinalizer"

FirstCall(o) ==
  IF o.deleting
  THEN IF o.finalizer THEN "buildForDelete" ELSE "idle"
  ELSE IF o.finalizer THEN "buildClient" ELSE "addFinalizer"

\* The worker takes k and reads the object; nothing to do without it.
Dequeue(k) ==
  /\ pc = "idle" /\ sched[k] = "ready"
  /\ sched' = [sched EXCEPT ![k] = "none"]
  /\ IF cache[k] # Nil /\ FirstCall(cache[k]) # "idle"
     THEN /\ pc' = FirstCall(cache[k])
          /\ key' = k
          /\ schema' = cache[k]
          /\ current' = cacheCurrent[k]
     ELSE UNCHANGED << pc, key, schema, current >>
  /\ UNCHANGED << api, cache, cacheCurrent, registryVars, envVars,
                  server, resp, reason >>

\* An Update of the finalizers passes the webhook, which validates the spec as
\* well; status updates and deletions do not.
Admitted == webhooks => ValidateSchemaSpec(schema.spec)

FinalizerUpdateError(o) ==
  IF Admitted THEN UpdateError(o) ELSE UNCHANGED << api, cacheCurrent, faults >>

\* Mutant: the error of the Update is dropped.
AddFinalizerUnchecked ==
  /\ pc = "addFinalizer"
  /\ LET o == [schema EXCEPT !.finalizer = TRUE] IN
       (Admitted /\ Updated(o)) \/ FinalizerUpdateError(o)
  /\ pc' = "refetch" /\ current' = FALSE
  /\ UNCHANGED << cache, subjects, levels, late, envVars,
                  sched, key, schema, server, resp, reason >>

AddFinalizer ==
  /\ pc = "addFinalizer"
  /\ LET o == [schema EXCEPT !.finalizer = TRUE] IN
       \/ /\ Admitted /\ Updated(o)
          /\ pc' = "refetch" /\ current' = FALSE
          /\ UNCHANGED << sched, key, schema, server, resp, reason >>
       \/ FinalizerUpdateError(o) /\ Retry
  /\ UNCHANGED << cache, subjects, levels, late, envVars >>

\* The cache may still hold the object without its finalizer.
Refetch ==
  /\ pc = "refetch"
  /\ Get("buildClient") \/ (NotFound /\ Done)
  /\ UNCHANGED << api, cache, cacheCurrent, registryVars, envVars >>

\* The registry that o, stored under k, refers to.
RegistryOf(k, o) ==
  [namespace |-> IF o.spec.registryRef.namespace = Nil
                 THEN k.namespace ELSE o.spec.registryRef.namespace,
   name      |-> o.spec.registryRef.name]

\* buildClient succeeds: the SchemaRegistry exists, its Secrets load.
Usable(r) == registry[r] # Nil /\ authLoads[r]

\* Mutant: the error of the Get of the SchemaRegistry is dropped.
ClientBuildsUnchecked == authLoads[RegistryOf(key, schema)]

ClientBuilds == Usable(RegistryOf(key, schema))

Fail(why) ==
  /\ Continue("getFailed")
  /\ reason' = why
  /\ UNCHANGED << server, resp >>

BuildClient ==
  /\ pc = "buildClient"
  /\ \/ /\ ClientBuilds
        /\ Continue("register")
        /\ server' = registry[RegistryOf(key, schema)]
        /\ UNCHANGED << resp, reason >>
     \/ ~ClientBuilds /\ Fail("ClientBuildFailed")
  /\ UNCHANGED << api, cache, cacheCurrent, registryVars, envVars >>

RegisterSchema ==
  /\ pc = "register"
  /\ LET q == Post(server, schema.spec.subject, schema.spec.content) IN
       \/ /\ Answered(q) /\ ~Refused(q)
          /\ Continue("latest")
          /\ resp' = [id |-> q.content, version |-> 0]
          /\ UNCHANGED << server, reason >>
       \/ Answered(q) /\ Refused(q) /\ Fail("RegistrationFailed")
       \/ Unanswered(q) /\ Fail("RegistrationFailed")
  /\ UNCHANGED << api, cache, cacheCurrent, envVars >>

\* Second half of RegisterSchema; without an answer the version stays 0.
GetLatestVersion ==
  /\ pc = "latest"
  /\ Continue(IF schema.spec.level = Nil THEN "getStatus"
                                         ELSE "setCompatibility")
  /\ \/ /\ resp' = [resp EXCEPT !.version =
                      LatestVersion(server, schema.spec.subject)]
        /\ UNCHANGED faults
     \/ Unserved /\ UNCHANGED resp
  /\ UNCHANGED << api, cache, cacheCurrent, subjects, levels, late, envVars,
                  server, reason >>

\* A failure is logged and otherwise ignored.
SetCompatibility ==
  /\ pc = "setCompatibility"
  /\ LET q == Put(server, schema.spec.subject, schema.spec.level) IN
       Answered(q) \/ Unanswered(q)
  /\ Continue("getStatus")
  /\ UNCHANGED << api, cache, cacheCurrent, envVars, server, resp, reason >>

\* Re-fetch before the status write: the copy, and with it the generation
\* that will be reported, may be newer than what was registered.
GetForStatus ==
  /\ pc = "getStatus"
  /\ Get("putStatus") \/ (NotFound /\ Done)
  /\ UNCHANGED << api, cache, cacheCurrent, registryVars, envVars >>

ReadyStatus ==
  [reason |-> "Registered", condGeneration |-> schema.generation,
   schemaID |-> resp.id, version |-> resp.version,
   observedGeneration |-> schema.generation]

PutStatus ==
  /\ pc = "putStatus"
  /\ LET o == [schema EXCEPT !.status = ReadyStatus] IN
       \/ Updated(o) /\ Done
       \/ Unchanged(ReadyStatus) /\ Done
       \/ UpdateError(o) /\ Retry
  /\ UNCHANGED << cache, subjects, levels, late, envVars >>

\* setConditionFailed; its caller asks for a requeue in any case.
GetForFailure ==
  /\ pc = "getFailed"
  /\ Get("putFailed") \/ (NotFound /\ Retry)
  /\ UNCHANGED << api, cache, cacheCurrent, registryVars, envVars >>

FailedStatus ==
  [schema.status EXCEPT !.reason = reason,
                        !.condGeneration = schema.generation]

\* Mutant: no RequeueAfter with the failed condition.
PutFailureWithoutRequeue ==
  /\ pc = "putFailed"
  /\ LET o == [schema EXCEPT !.status = FailedStatus] IN
       \/ (Updated(o) \/ Unchanged(FailedStatus)) /\ Done
       \/ UpdateError(o) /\ Retry
  /\ UNCHANGED << cache, subjects, levels, late, envVars >>

PutFailure ==
  /\ pc = "putFailed"
  /\ LET o == [schema EXCEPT !.status = FailedStatus] IN
       Updated(o) \/ Unchanged(FailedStatus) \/ UpdateError(o)
  /\ Retry
  /\ UNCHANGED << cache, subjects, levels, late, envVars >>

\* Mutant: a missing registry is an error of the clean-up.
BuildClientForDeleteOrRetry ==
  /\ pc = "buildForDelete"
  /\ \/ /\ ClientBuilds
        /\ Continue("deleteSubject")
        /\ server' = registry[RegistryOf(key, schema)]
        /\ UNCHANGED << resp, reason >>
     \/ ~ClientBuilds /\ Retry
  /\ UNCHANGED << api, cache, cacheCurrent, registryVars, envVars >>

\* deleteFromRegistry: without a client the clean-up is skipped.
BuildClientForDelete ==
  /\ pc = "buildForDelete"
  /\ \/ /\ ClientBuilds
        /\ Continue("deleteSubject")
        /\ server' = registry[RegistryOf(key, schema)]
     \/ ~ClientBuilds /\ Continue("removeFinalizer") /\ UNCHANGED server
  /\ UNCHANGED << api, cache, cacheCurrent, registryVars, envVars,
                  resp, reason >>

\* Mutant: the error of the DELETE is logged and dropped.
DeleteSubjectUnchecked ==
  /\ pc = "deleteSubject"
  /\ LET q == Delete(server, schema.spec.subject) IN
       Answered(q) \/ Unanswered(q)
  /\ Continue("removeFinalizer")
  /\ UNCHANGED << api, cache, cacheCurrent, envVars, server, resp, reason >>

DeleteSubject ==
  /\ pc = "deleteSubject"
  /\ LET q == Delete(server, schema.spec.subject) IN
       \/ /\ Answered(q)
          /\ Continue("removeFinalizer")
          /\ UNCHANGED << server, resp, reason >>
       \/ Unanswered(q) /\ Retry
  /\ UNCHANGED << api, cache, cacheCurrent, envVars >>

\* The API server drops a deleted object with its last finalizer.
RemoveFinalizer ==
  /\ pc = "removeFinalizer"
  /\ \/ Admitted /\ Updated(Nil) /\ Done
     \/ FinalizerUpdateError(Nil) /\ Retry
  /\ UNCHANGED << cache, subjects, levels, late, envVars >>

Step ==
  \/ AddFinalizer \/ Refetch
  \/ BuildClient \/ RegisterSchema \/ GetLatestVersion \/ SetCompatibility
  \/ GetForStatus \/ PutStatus \/ GetForFailure \/ PutFailure
  \/ BuildClientForDelete \/ DeleteSubject \/ RemoveFinalizer

-----------------------------------------------------------------------------
(***************************************************************************)
(* The environment: users, the watch and the queue's timers, the registry  *)
(* resources, the network, a crash of the manager.                         *)
(***************************************************************************)
\* A write to k by someone else.
UserWrite(k, o) ==
  /\ Store(k, o)
  /\ current' = (current /\ key # k)
  /\ UNCHANGED << cache, sched, registryVars, registry, authLoads, webhooks,
                  pc, key, schema, server, resp, reason >>

NewStatus == [reason |-> "none", condGeneration |-> 0, schemaID |-> Nil,
              version |-> 0, observedGeneration |-> 0]

CreateSchema(k, spec) ==
  /\ Edit
  /\ api[k] = Nil
  /\ webhooks => ValidateSchemaSpec(spec)
  /\ UserWrite(k, [generation |-> 1, spec |-> spec, deleting |-> FALSE,
                   finalizer |-> FALSE, status |-> NewStatus])

UpdateSchema(k, spec) ==
  /\ Edit
  /\ api[k] # Nil /\ spec # api[k].spec
  /\ webhooks => ValidateUpdate(api[k].spec, spec)
  /\ UserWrite(k, [api[k] EXCEPT !.spec = spec, !.generation = @ + 1])

DeleteSchema(k) ==
  /\ Edit
  /\ api[k] # Nil /\ ~api[k].deleting
  /\ UserWrite(k, IF api[k].finalizer
                  THEN [api[k] EXCEPT !.deleting = TRUE, !.generation = @ + 1]
                  ELSE Nil)

\* Mutant: the default of an empty registryRef.namespace is forgotten.
FindSchemasNamingNamespace(r) ==
  {k \in Keys : /\ cache[k] # Nil
                /\ cache[k].spec.registryRef = r}

FindSchemasForRegistry(r) ==
  {k \in Keys : /\ cache[k] # Nil
                /\ k.namespace = r.namespace
                /\ cache[k].spec.registryRef.name = r.name}

\* An event of the watch on SchemaRegistry: its spec, or its status.
EditRegistry(r, url) ==
  /\ Edit
  /\ url # registry[r]
  /\ registry' = [registry EXCEPT ![r] = url]
  /\ sched' = Enqueue(FindSchemasForRegistry(r))
  /\ UNCHANGED << api, cache, cacheCurrent, registryVars, authLoads, webhooks,
                  workerVars >>

RegistryEvent(r) ==
  /\ registry[r] # Nil
  /\ sched' = Enqueue(FindSchemasForRegistry(r))
  /\ UNCHANGED << api, cache, cacheCurrent, registryVars, envVars,
                  workerVars >>

\* A Secret appears, loses a key, or goes: nobody watches it for Schemas.
SecretChange(r) ==
  /\ SecretsVary
  /\ Edit
  /\ authLoads' = [authLoads EXCEPT ![r] = ~@]
  /\ UNCHANGED << clusterVars, registryVars, registry, webhooks, workerVars >>

InFlight ==
  CASE pc = "register" ->
         {Post(server, schema.spec.subject, schema.spec.content)}
    [] pc = "setCompatibility" ->
         {Put(server, schema.spec.subject, schema.spec.level)}
    [] pc = "deleteSubject" -> {Delete(server, schema.spec.subject)}
    [] OTHER -> {}

\* The manager dies and is started again, perhaps with another ENABLE_WEBHOOKS.
\* The request on the wire, if any, is lost or, where the faults allow it,
\* served later.
Restart ==
  /\ Idle
  /\ Relist
  /\ late' \in {late} \cup {late \cup InFlight : f \in FaultKinds \cap {"late"}}
  /\ webhooks' \in WebhookModes
  /\ UNCHANGED << subjects, levels >>

Crash ==
  /\ Fault("crash")
  /\ Restart
  /\ UNCHANGED << registry, authLoads, edits >>

Informer(k) ==
  /\ WatchEvent(k)
  /\ UNCHANGED << registryVars, envVars, workerVars >>

Timer(k) ==
  /\ DelayElapses(k)
  /\ UNCHANGED << registryVars, envVars, workerVars >>

LateRequest ==
  /\ \E q \in late : ServeLate(q)
  /\ UNCHANGED << clusterVars, envVars, workerVars >>

User ==
  \/ \E k \in Keys :
       \/ \E spec \in Specs[k] : CreateSchema(k, spec) \/ UpdateSchema(k, spec)
       \/ DeleteSchema(k)
  \/ \E r \in Registries, url \in RegistryURLs : EditRegistry(r, url)
  \/ \E r \in Registries : RegistryEvent(r) \/ SecretChange(r)

Next ==
  \/ \E k \in Keys : Dequeue(k) \/ Informer(k) \/ Timer(k)
  \/ Step
  \/ User
  \/ Crash
  \/ LateRequest

Spec == Init /\ [][Next]_vars

(***************************************************************************)
(* Fairness.  The worker's goroutine runs; watches deliver; timers fire.   *)
(* The workqueue serves the ready keys in turn, so a key that is ready     *)
(* again and again is taken: strong fairness.  Users, faults and the       *)
(* events of the registry resources are never owed.                        *)
(***************************************************************************)
Fairness ==
  /\ WF_vars(Step)
  /\ \A k \in Keys : /\ SF_vars(Dequeue(k))
                     /\ WF_vars(Informer(k))
                     /\ WF_vars(Timer(k))

FairSpec == Spec /\ Fairness

-----------------------------------------------------------------------------
(***************************************************************************)
(* Properties.                                                             *)
(***************************************************************************)

\* "A finalizer ensures the subject is removed from the registry before the
\* CR is deleted": whatever the cache shows and whoever writes meanwhile, a
\* client is built for registration, and a schema registered, only while the
\* STORED object exists and carries the finalizer.
FinalizerGuardsRegistration ==
  pc \in RegisterCalls => api[key] # Nil /\ api[key].finalizer

\* Why: of the three copies of an object (stored, cached, the worker's),
\* one that is current equals the stored object;
CacheIsStored == \A k \in Keys : cacheCurrent[k] => cache[k] = api[k]

CopyIsStored ==
  pc # "idle" /\ current => schema = api[key] /\ cacheCurrent[key]

\* a cached object that is not being deleted may be out of date, but if it
\* shows the finalizer then the stored object has it;
CacheLags ==
  \A k \in Keys :
    cache[k] # Nil /\ cache[k].finalizer /\ ~cache[k].deleting =>
      api[k] # Nil /\ api[k].finalizer

\* the finalizer is stored from the refetch on;
FinalizerIsStored ==
  pc \in RegisterCalls \cup {"refetch"} => api[key] # Nil /\ api[key].finalizer

\* and it is added and removed on the branches of Reconcile that are meant to.
CopyFitsBranch ==
  /\ pc \in DeleteCalls => schema.deleting /\ schema.finalizer
  /\ pc = "addFinalizer" => ~schema.deleting

CopiesInv ==
  /\ TypeOK
  /\ CacheIsStored
  /\ CopyIsStored
  /\ CacheLags
  /\ FinalizerIsStored
  /\ CopyFitsBranch

\* A reconcile works on a copy of the object that may be out of date; none of
\* its writes takes back a spec or a deletion the user wrote meanwhile.
IntentKept(k) ==
  api[k] # Nil /\ api'[k] # Nil =>
    /\ api'[k].generation >= api[k].generation
    /\ api'[k].generation = api[k].generation =>
         api'[k].spec = api[k].spec /\ api'[k].deleting = api[k].deleting

UserIntentPreserved == [][\A k \in Keys : IntentKept(k)]_vars

\* Nothing is due for k: no reconcile under way or queued, no event to come.
Settled(k) == key # k /\ sched[k] = "none" /\ cacheCurrent[k]

\* The status says that the spec of o as it is now is registered.
Ready(o) ==
  /\ o.status.reason = "Registered"
  /\ o.status.condGeneration = o.generation
  /\ o.status.observedGeneration = o.generation
  /\ o.status.schemaID = o.spec.content

\* No update, deletion or failure is forgotten: a Schema for which nothing is
\* due is not being deleted, and its status reports its current spec.
SettledSchemaIsReady ==
  \A k \in Keys : Settled(k) /\ api[k] # Nil =>
    ~api[k].deleting /\ Ready(api[k])

\* Why: a reconcile works on the object as it is cached, and has registered the
\* content of that object, unless its key is queued again already;
WorkIsOfCached ==
  pc # "idle" /\ sched[key] # "ready" =>
    /\ schema = cache[key]
    /\ pc \notin DeleteCalls \cup {"getFailed", "putFailed"} => ~schema.deleting
    /\ pc \in {"latest", "setCompatibility", "getStatus", "putStatus"} =>
         resp.id = schema.spec.content

\* and only an object with the finalizer is ever stored as deleted.
DeletedHasFinalizer ==
  \A k \in Keys : api[k] # Nil /\ api[k].deleting => api[k].finalizer

SettledInv ==
  /\ CopiesInv
  /\ WorkIsOfCached
  /\ DeletedHasFinalizer
  /\ SettledSchemaIsReady

\* ... and the schema is at the server its SchemaRegistry names now: a change
\* of the URL reaches the Schemas that refer to it.
SettledSchemaIsRegistered ==
  \A k \in Keys : Settled(k) /\ api[k] # Nil =>
    LET v == registry[RegistryOf(k, api[k])] IN
      v # Nil => Registered(v, api[k].spec.subject, api[k].spec.content)

\* Where a client could be built for the deletion, the subject that the object
\* names when it goes is gone from that server: also if the user has changed
\* the subject while the deletion was under way.
DeletedSubjectIsGone ==
  [][\A k \in Keys :
       api[k] # Nil /\ api[k].finalizer /\ api'[k] = Nil /\ server # Nil =>
         subjects[server][api[k].spec.subject] = << >>]_vars

\* Both hold where a request that was given up is not served later; the first
\* for Schemas that share no subject, in the namespace of their registry.
RegistrationHypothesis ==
  /\ "late" \notin FaultKinds
  /\ \A k \in Keys : \A s \in Specs[k] :
       /\ s.registryRef.namespace \in {Nil, k.namespace}
       /\ \A i \in Keys \ {k} : \A t \in Specs[i] : s.subject # t.subject

\* Why: a copy under k is a copy of a spec for k;
SpecsAreOfKey ==
  /\ \A k \in Keys : /\ api[k] # Nil => api[k].spec \in Specs[k]
                     /\ cache[k] # Nil => cache[k].spec \in Specs[k]
  /\ pc # "idle" => schema.spec \in Specs[key]

\* the client of a reconcile points to where the registry is now, and once the
\* registration is answered the schema is there, unless the key is queued again;
WorkIsRegistered ==
  pc \in {"register", "latest", "setCompatibility", "getStatus", "putStatus"}
  /\ sched[key] # "ready" =>
    /\ server = registry[RegistryOf(key, schema)]
    /\ pc # "register" =>
         Registered(server, schema.spec.subject, schema.spec.content)

RegistrationInv ==
  /\ SettledInv
  /\ late = {}
  /\ SpecsAreOfKey
  /\ WorkIsRegistered
  /\ SettledSchemaIsRegistered

\* and a reconcile that removes the finalizer has found the subject gone, or
\* has no client.
DeletionInv ==
  /\ late = {}
  /\ pc \in FinalizerCalls \cup {"idle", "buildClient", "buildForDelete"} =>
       server = Nil
  /\ pc = "removeFinalizer" /\ server # Nil =>
       subjects[server][schema.spec.subject] = << >>

\* A subject in a registry belongs to a Schema that will clean it up, at
\* every moment between the steps of a reconcile and through every failure.
NoOrphanedSubject ==
  \A v \in Servers, j \in Subjects : subjects[v][j] # << >> =>
    \E k \in Keys : /\ api[k] # Nil
                    /\ api[k].finalizer
                    /\ api[k].spec.subject = j

\* It holds where every SchemaRegistry names one server v and can be used,
\* the webhook keeps the subject of a Schema, and a request given up is not
\* served later.
CleanupHypothesis(v) ==
  /\ v \in Servers
  /\ RegistryURLs = {v}
  /\ ~SecretsVary
  /\ WebhookModes = {TRUE}
  /\ "late" \notin FaultKinds

\* Why: everything goes to v, and nothing is under way to it;
OneServerUsed(v) ==
  /\ \A r \in Registries : registry[r] = v /\ authLoads[r]
  /\ pc \in RegistryCalls => server = v
  /\ late = {}
  /\ \A w \in Servers \ {v}, j \in Subjects : subjects[w][j] = << >>

\* a copy that shows the finalizer, and one read after it was added, has the
\* subject of the stored object;
SubjectsAgree ==
  /\ \A k \in Keys :
       cache[k] # Nil /\ cache[k].finalizer /\ ~cache[k].deleting =>
         cache[k].spec.subject = api[k].spec.subject
  /\ pc = "refetch" /\ cache[key] # Nil =>
       cache[key].spec.subject = api[key].spec.subject
  /\ pc \in RegisterCalls => schema.spec.subject = api[key].spec.subject

\* and the subject is empty when the finalizer goes.
SubjectIsGone(v) ==
  pc = "removeFinalizer" => subjects[v][schema.spec.subject] = << >>

CleanupInv(v) ==
  /\ CopiesInv
  /\ OneServerUsed(v)
  /\ SubjectsAgree
  /\ SubjectIsGone(v)
  /\ NoOrphanedSubject

\* For whichever server the hypothesis is about, all this is invariant.
CleanupInvariant == \A v \in Servers : CleanupHypothesis(v) => CleanupInv(v)

\* Then the controller keeps the promise that SchemaLifecycle states, where an
\* object is new until its finalizer is stored, and held until it is deleted.
Phase(o) ==
  IF o = Nil THEN "absent"
  ELSE IF ~o.finalizer THEN "new"
  ELSE IF o.deleting THEN "leaving" ELSE "held"

L == INSTANCE SchemaLifecycle WITH
       phase     <- [k \in Keys |-> Phase(api[k])],
       subjectOf <- [k \in Keys |-> IF api[k] = Nil THEN Nil
                                    ELSE api[k].spec.subject],
       occupied  <- {j \in Subjects : \E v \in Servers : subjects[v][j] # << >>}

LifecycleKept == L!LifecycleSpec

\* The webhook, switched on after o was stored, refuses every write to it that
\* does not mend its spec: the controller's finalizer included.
Barred(o) == webhooks /\ ~ValidateSchemaSpec(o.spec)

\* Where every manager runs the webhook this does not happen: neither Update of
\* the finalizer, of whichever copy the worker has, is refused for its spec.
FinalizerIsAdmitted ==
  WebhookModes = {TRUE} /\ pc \in {"addFinalizer", "removeFinalizer"} =>
    Admitted

\* Why: what was let in is all that is stored, cached or worked on.
CopiesAdmitted ==
  /\ webhooks
  /\ \A k \in Keys :
       /\ api[k] # Nil => ValidateSchemaSpec(api[k].spec)
       /\ cache[k] # Nil => ValidateSchemaSpec(cache[k].spec)
  /\ pc # "idle" => ValidateSchemaSpec(schema.spec)

\* What nobody owes the operator is that servers answer.  Two hypotheses about
\* those that may be down: a registration for k fails, other than for what it
\* asks, only finitely often; a DELETE for k that is sent for ever is answered.
PostFails(k) ==
  /\ key = k /\ RegisterSchema /\ pc' = "getFailed"
  /\ ~Refused(Post(server, schema.spec.subject, schema.spec.content))

DeleteAnswered(k) == key = k /\ DeleteSubject /\ pc' = "removeFinalizer"

\* A failure is retried until it passes: once the users and the API server have
\* come to rest and registrations for it no longer fail, a Schema becomes Ready,
\* and stays so, if its registry can be used and takes its content.  With its
\* finalizer in place the webhook has no say in that.
SchemaEventuallyReady ==
  \A k \in Keys :
    <>[][~PostFails(k)]_vars =>
      <>[](api[k] # Nil /\ ~api[k].deleting =>
             LET o == api[k]
                 r == RegistryOf(k, o)
             IN  /\ Usable(r)
                 /\ ~Refused(Post(registry[r], o.spec.subject, o.spec.content))
                 /\ o.finalizer \/ ~Barred(o)
                 => Ready(o))

\* A deleted Schema goes away, whether its SchemaRegistry can be used or not, if
\* a server does not refuse its DELETE for ever, however often it has before.
\* Otherwise only a webhook that came later can hold it, until the spec is
\* mended.
DeletionCompletes ==
  \A k \in Keys :
    SF_vars(DeleteAnswered(k)) =>
      (api[k] # Nil /\ api[k].deleting) ~> (api[k] = Nil \/ Barred(api[k]))
-----------------------------------------------------------------------------
(***************************************************************************)
(* What the documentation of the API says, and the code does not keep; see *)
(* the findings in README.md.                                              *)
(***************************************************************************)

\* "Version is the version number of the registered schema": where nothing is
\* due and the version is known, it is a version with the content of the spec.
SettledVersionIsOfSchema ==
  \A k \in Keys : Settled(k) /\ api[k] # Nil =>
    LET v == registry[RegistryOf(k, api[k])]
        n == api[k].status.version
    IN  v # Nil /\ n \in DOMAIN subjects[v][api[k].spec.subject] =>
          subjects[v][api[k].spec.subject][n] = api[k].spec.content
=============================================================================

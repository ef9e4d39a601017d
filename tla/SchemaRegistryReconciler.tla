---------------------- MODULE SchemaRegistryReconciler ----------------------
(***************************************************************************)
(* The SchemaRegistry controller                                           *)
(* (internal/controller/schemaregistry_controller.go): one worker that     *)
(* checks whether each registry can be reached with its credentials and    *)
(* reports it in the status.                                               *)
(*                                                                         *)
(* A check is repeated after five minutes, when the resource changes, and  *)
(* when a Secret it refers to changes.  A registry whose credentials do    *)
(* not load is not checked again until one of the last two happens: what   *)
(* the properties are about.  Steps are cut as in SchemaReconciler.        *)
(***************************************************************************)
EXTENDS ControllerRuntime, SchemaRegistryWebhook

CONSTANTS
  Namespaces,  \* Kubernetes namespaces
  Servers,     \* registry endpoints
  Demands,     \* Demands[v]: the authentication the server v asks for
  Specs,       \* Specs[k]: the specs users write under the key k
  SecretData,  \* what users make of a Secret, "absent" by deleting it
  Outages,     \* may servers come and go?
  WebhooksEnabled  \* ENABLE_WEBHOOKS

Secrets == [namespace : Namespaces, name : SecretNames]

SchemaRegistrySpec == [url : Servers, auth : Auth,
                       insecureSkipVerify : BOOLEAN]

Reasons == {"none", "Connected", "ConnectionFailed", "AuthLoadFailed"}

\* The status: reason and observedGeneration of the Ready condition, and
\* observedGeneration.  connectionStatus follows the reason, and lastChecked
\* is left out: see Unchanged.
SchemaRegistryStatus == [reason : Reasons, condGeneration : Nat,
                         observedGeneration : Nat]

SchemaRegistry == [generation : Nat, spec : SchemaRegistrySpec,
                   status : SchemaRegistryStatus]

ASSUME RegistryReconcilerAssumption ==
  /\ \A k \in Keys : k.namespace \in Namespaces
  /\ Demands \in [Servers -> AuthTypes]
  /\ Specs \in [Keys -> SUBSET SchemaRegistrySpec]
  /\ SecretData \subseteq SecretStates
  /\ Outages \in BOOLEAN
  /\ WebhooksEnabled \in BOOLEAN
  /\ Nil \notin Keys \cup SchemaRegistry

VARIABLES
  secrets,       \* secrets[s]: the Secret s in the informer's index
  secretEvents,  \* Secrets whose change no handler has mapped yet
  online,        \* online[v]: does the server v answer?
  sr,            \* the worker's copy of the object
  authConfig,    \* result of loadAuthConfig
  healthErr      \* did HealthCheck return an error?

envVars    == << secrets, secretEvents, online, edits, faults >>
workerVars == << pc, key, sr, current, authConfig, healthErr >>
vars == << clusterVars, envVars, workerVars >>

Calls == {"load", "healthCheck", "getStatus", "putStatus",
          "getFailed", "putFailed"}

ClusterTypeOK ==
  /\ api \in [Keys -> SchemaRegistry \cup {Nil}]
  /\ cache \in [Keys -> SchemaRegistry \cup {Nil}]
  /\ cacheCurrent \in [Keys -> BOOLEAN]
  /\ sched \in [Keys -> SchedStates]

EnvTypeOK ==
  /\ secrets \in [Secrets -> SecretStates]
  /\ secretEvents \subseteq Secrets
  /\ online \in [Servers -> BOOLEAN]
  /\ edits \in 0 .. MaxEdits
  /\ faults \in 0 .. MaxFaults

\* In a reconcile, and only then, the worker has a key, and it has an object.
WorkerTypeOK ==
  /\ pc \in Calls \cup {"idle"}
  /\ key \in Keys \cup {Nil}
  /\ sr \in SchemaRegistry \cup {Nil}
  /\ current \in BOOLEAN
  /\ authConfig \in AuthConfigs
  /\ healthErr \in BOOLEAN
  /\ pc # "idle" => key # Nil /\ sr # Nil
  /\ pc = "idle" => key = Nil

TypeOK == ClusterTypeOK /\ EnvTypeOK /\ WorkerTypeOK

Init ==
  /\ ClusterInit
  /\ secrets = [s \in Secrets |-> "absent"]
  /\ secretEvents = {}
  /\ online = [v \in Servers |-> TRUE]
  /\ edits = 0 /\ faults = 0
  /\ pc = "idle" /\ key = Nil /\ sr = Nil /\ current = FALSE
  /\ authConfig = NoAuth /\ healthErr = FALSE

-----------------------------------------------------------------------------
(***************************************************************************)
(* The ends of a reconcile, and the calls to the Kubernetes API.           *)
(***************************************************************************)
Idle ==
  /\ pc' = "idle" /\ key' = Nil /\ sr' = Nil /\ current' = FALSE
  /\ authConfig' = NoAuth /\ healthErr' = FALSE

\* Result{} and nil.
Done == Idle /\ UNCHANGED sched

\* An error (back off) or RequeueAfter.
Retry == Idle /\ sched' = Requeue(key)

Continue(call) ==
  /\ pc' = call
  /\ UNCHANGED << sched, key, sr, current >>

\* Mutant: NotFound of a later Get goes unnoticed.
GetUnchecked(call) ==
  /\ sr' = cache[key]
  /\ current' = cacheCurrent[key]
  /\ pc' = call
  /\ UNCHANGED << sched, key, authConfig, healthErr >>

\* r.Get reads the cache; on NotFound every caller returns.
Get(call) ==
  \/ /\ cache[key] # Nil
     /\ sr' = cache[key]
     /\ current' = cacheCurrent[key]
     /\ pc' = call
     /\ UNCHANGED << sched, key, authConfig, healthErr >>
  \/ cache[key] = Nil /\ Done

\* A status equal to the stored one: nothing is stored and no event follows,
\* if lastChecked, which has second precision, and the message are the same;
\* if not, Updated applies.
Unchanged(s) ==
  /\ current /\ s = sr.status
  /\ UNCHANGED << api, cacheCurrent, faults >>

-----------------------------------------------------------------------------
(***************************************************************************)
(* Reconcile.                                                              *)
(***************************************************************************)
Dequeue(k) ==
  /\ pc = "idle" /\ sched[k] = "ready"
  /\ sched' = [sched EXCEPT ![k] = "none"]
  /\ IF cache[k] # Nil
     THEN /\ pc' = "load" /\ key' = k
          /\ sr' = cache[k] /\ current' = cacheCurrent[k]
     ELSE UNCHANGED << pc, key, sr, current >>
  /\ UNCHANGED << api, cache, cacheCurrent, envVars, authConfig, healthErr >>

\* The Secrets of the namespace n.
DataIn(n) ==
  [name \in SecretNames |-> secrets[[namespace |-> n, name |-> name]]]

\* The Secrets are read from the cache.
Load ==
  /\ pc = "load"
  /\ LET auth == sr.spec.auth
         data == DataIn(key.namespace)
     IN  \/ /\ LoadFails(auth, data)
            /\ Continue("getFailed")
            /\ UNCHANGED authConfig
         \/ /\ ~LoadFails(auth, data)
            /\ Continue("healthCheck")
            /\ authConfig' = LoadAuthConfig(auth, data)
  /\ UNCHANGED << api, cache, cacheCurrent, envVars, healthErr >>

\* The server of the spec answers a client with this AuthConfig 200.
Answers(spec, config) ==
  /\ online[spec.url]
  /\ ServerTrusted(config, spec.insecureSkipVerify)
  /\ ClientAdmitted(config, Demands[spec.url])

HealthCheck ==
  /\ pc = "healthCheck"
  /\ \/ healthErr' = ~Answers(sr.spec, authConfig) /\ UNCHANGED faults
     \/ Fault("unserved") /\ healthErr' = TRUE
  /\ Continue("getStatus")
  /\ UNCHANGED << api, cache, cacheCurrent, secrets, secretEvents, online,
                  edits, authConfig >>

\* Re-fetch before the status write: the copy, and with it the generation
\* that will be reported, may be newer than what was checked.
GetForStatus ==
  /\ pc = "getStatus"
  /\ Get("putStatus")
  /\ UNCHANGED << api, cache, cacheCurrent, envVars >>

CheckedStatus ==
  [reason |-> IF healthErr THEN "ConnectionFailed" ELSE "Connected",
   condGeneration |-> sr.generation,
   observedGeneration |-> sr.generation]

\* Mutant: only a registry that answers is checked again.
PutStatusRequeueIfHealthy ==
  /\ pc = "putStatus"
  /\ LET o == [sr EXCEPT !.status = CheckedStatus] IN
       \/ /\ Updated(o) \/ Unchanged(CheckedStatus)
          /\ IF healthErr THEN Done ELSE Retry
       \/ UpdateError(o) /\ Retry
  /\ UNCHANGED << cache, secrets, secretEvents, online, edits >>

\* Checked again after five minutes, or after the backoff.
PutStatus ==
  /\ pc = "putStatus"
  /\ LET o == [sr EXCEPT !.status = CheckedStatus] IN
       Updated(o) \/ Unchanged(CheckedStatus) \/ UpdateError(o)
  /\ Retry
  /\ UNCHANGED << cache, secrets, secretEvents, online, edits >>

\* setConditionFailed.
GetForFailure ==
  /\ pc = "getFailed"
  /\ Get("putFailed")
  /\ UNCHANGED << api, cache, cacheCurrent, envVars >>

FailedStatus ==
  [sr.status EXCEPT !.reason = "AuthLoadFailed",
                    !.condGeneration = sr.generation]

\* Mutant: the error of the status write is dropped.
PutFailureUnchecked ==
  /\ pc = "putFailed"
  /\ LET o == [sr EXCEPT !.status = FailedStatus] IN
       Updated(o) \/ Unchanged(FailedStatus) \/ UpdateError(o)
  /\ Done
  /\ UNCHANGED << cache, secrets, secretEvents, online, edits >>

\* Its error is the result of the reconcile; without one there is no requeue.
PutFailure ==
  /\ pc = "putFailed"
  /\ LET o == [sr EXCEPT !.status = FailedStatus] IN
       \/ (Updated(o) \/ Unchanged(FailedStatus)) /\ Done
       \/ UpdateError(o) /\ Retry
  /\ UNCHANGED << cache, secrets, secretEvents, online, edits >>

Step ==
  \/ Load \/ HealthCheck \/ GetForStatus \/ PutStatus
  \/ GetForFailure \/ PutFailure

-----------------------------------------------------------------------------
(***************************************************************************)
(* The environment: users, the watches and the queue's timers, the servers,*)
(* a crash of the manager.                                                 *)
(***************************************************************************)
\* A write to k by someone else.
UserWrite(k, o) ==
  /\ Edit
  /\ Store(k, o)
  /\ current' = (current /\ key # k)
  /\ UNCHANGED << cache, sched, secrets, secretEvents, online, faults,
                  pc, key, sr, authConfig, healthErr >>

NewStatus == [reason |-> "none", condGeneration |-> 0,
              observedGeneration |-> 0]

CreateRegistry(k, spec) ==
  /\ api[k] = Nil
  /\ WebhooksEnabled => ValidateSchemaRegistrySpec(spec)
  /\ UserWrite(k, [generation |-> 1, spec |-> spec, status |-> NewStatus])

UpdateRegistry(k, spec) ==
  /\ api[k] # Nil /\ spec # api[k].spec
  /\ WebhooksEnabled => ValidateSchemaRegistrySpec(spec)
  /\ UserWrite(k, [api[k] EXCEPT !.spec = spec, !.generation = @ + 1])

\* There is no finalizer.
DeleteRegistry(k) ==
  /\ api[k] # Nil
  /\ UserWrite(k, Nil)

\* A Secret is written or deleted: the informer's index has it at once, the
\* handlers of the event run later.
WriteSecret(s, x) ==
  /\ Edit
  /\ x # secrets[s]
  /\ secrets' = [secrets EXCEPT ![s] = x]
  /\ secretEvents' = secretEvents \cup {s}
  /\ UNCHANGED << clusterVars, online, faults, workerVars >>

\* Mutant: the CA certificate is not looked at.
FindSchemaRegistriesByCredentials(s) ==
  {k \in Keys : /\ cache[k] # Nil
                /\ k.namespace = s.namespace
                /\ NeedsSecret(cache[k].spec.auth)
                /\ cache[k].spec.auth.secretRef = s.name}

\* Mutant: a registry that has been reached is left to its timer.
FindFailedRegistriesForSecret(s) ==
  {k \in Keys : /\ cache[k] # Nil
                /\ cache[k].status.reason = "AuthLoadFailed"
                /\ k.namespace = s.namespace
                /\ ReferencesSecret(cache[k].spec.auth, s.name)}

FindSchemaRegistriesForSecret(s) ==
  {k \in Keys : /\ cache[k] # Nil
                /\ k.namespace = s.namespace
                /\ ReferencesSecret(cache[k].spec.auth, s.name)}

SecretEvent(s) ==
  /\ s \in secretEvents
  /\ secretEvents' = secretEvents \ {s}
  /\ sched' = Enqueue(FindSchemaRegistriesForSecret(s))
  /\ UNCHANGED << api, cache, cacheCurrent, secrets, online, edits, faults,
                  workerVars >>

\* A server goes or comes back: no event says so.
Outage(v) ==
  /\ Outages
  /\ Edit
  /\ online' = [online EXCEPT ![v] = ~@]
  /\ UNCHANGED << clusterVars, secrets, secretEvents, faults, workerVars >>

Informer(k) ==
  /\ WatchEvent(k)
  /\ UNCHANGED << envVars, workerVars >>

Timer(k) ==
  /\ DelayElapses(k)
  /\ UNCHANGED << envVars, workerVars >>

\* The manager dies and is started again.
Crash ==
  /\ Fault("crash")
  /\ Idle
  /\ Relist
  /\ secretEvents' = {}
  /\ UNCHANGED << secrets, online, edits >>

User ==
  \/ \E k \in Keys :
       \/ \E spec \in Specs[k] :
            CreateRegistry(k, spec) \/ UpdateRegistry(k, spec)
       \/ DeleteRegistry(k)
  \/ \E s \in Secrets, x \in SecretData : WriteSecret(s, x)
  \/ \E v \in Servers : Outage(v)

Next ==
  \/ \E k \in Keys : Dequeue(k) \/ Informer(k) \/ Timer(k)
  \/ \E s \in Secrets : SecretEvent(s)
  \/ Step
  \/ User
  \/ Crash

Spec == Init /\ [][Next]_vars

\* Fairness: as for the Schema controller; the handlers of events run.
Fairness ==
  /\ WF_vars(Step)
  /\ \A k \in Keys : /\ SF_vars(Dequeue(k))
                     /\ WF_vars(Informer(k))
                     /\ WF_vars(Timer(k))
  /\ \A s \in Secrets : WF_vars(SecretEvent(s))

FairSpec == Spec /\ Fairness

-----------------------------------------------------------------------------
(***************************************************************************)
(* Properties.                                                             *)
(***************************************************************************)

\* No check of k is under way, queued, or owed by an event to come.
Waiting(k) ==
  key # k /\ sched[k] # "ready" /\ cacheCurrent[k] /\ secretEvents = {}

\* What a check of the registry would report.
Verdict(k) ==
  LET auth == api[k].spec.auth
      data == DataIn(k.namespace)
  IN  IF LoadFails(auth, data) THEN "AuthLoadFailed"
      ELSE IF Answers(api[k].spec, LoadAuthConfig(auth, data))
           THEN "Connected" ELSE "ConnectionFailed"

\* Every registry is monitored: the timer of its next check runs, except for
\* AuthLoadFailed, and then its credentials do not load NOW, so that it is an
\* edit or a Secret that has to come first.
RegistryIsMonitored ==
  \A k \in Keys : Waiting(k) /\ api[k] # Nil /\ sched[k] = "none" =>
    api[k].status.reason = "AuthLoadFailed" /\ Verdict(k) = "AuthLoadFailed"

\* With the webhook that is no dead end: some Secret that the registry refers to
\* is missing or useless, and writing it brings the check back.
SecretCanMend ==
  WebhooksEnabled =>
    \A k \in Keys : Waiting(k) /\ api[k] # Nil /\ sched[k] = "none" =>
      \E s \in Secrets : /\ s.namespace = k.namespace
                         /\ ReferencesSecret(api[k].spec.auth, s.name)
                         /\ secrets[s] \in {"absent", "garbled"}

\* Why: a copy that is current, the cached one or the worker's, equals the
\* stored object;
CacheIsStored == \A k \in Keys : cacheCurrent[k] => cache[k] = api[k]

CopyIsStored ==
  pc # "idle" /\ current => sr = api[key] /\ cacheCurrent[key]

\* a Secret the registry refers to has an event to come, or something else
\* will bring the key back;
Pending(k) ==
  \E s \in secretEvents :
    k.namespace = s.namespace /\ ReferencesSecret(cache[k].spec.auth, s.name)

Due(k) ==
  \/ sched[k] = "ready" \/ ~cacheCurrent[k] \/ cache[k] = Nil
  \/ Pending(k)

\* the credentials are loaded for the cached spec, or the key is due;
CopyIsCached == pc = "load" => sched[key] = "ready" \/ sr = cache[key]

\* from a failure to load to its report, the cached spec still fails with the
\* Secrets of the moment, or the key is due;
CannotLoad(k) == LoadFails(cache[k].spec.auth, DataIn(k.namespace))

FailureIsCurrent ==
  pc \in {"getFailed", "putFailed"} => Due(key) \/ CannotLoad(key)

\* and so it is for a key that has left the queue.
RestIsFailure ==
  \A k \in Keys : key # k /\ sched[k] = "none" /\ ~Due(k) =>
    cache[k].status.reason = "AuthLoadFailed" /\ CannotLoad(k)

MonitorInv ==
  /\ TypeOK
  /\ CacheIsStored
  /\ CopyIsStored
  /\ CopyIsCached
  /\ FailureIsCurrent
  /\ RestIsFailure

\* Edits and Secrets, races between them and a check included, do not have to
\* wait for the timer: where the servers and the API are stable, a registry
\* that waits reports what a check would find now, for its current spec.
WaitingStatusIsTrue ==
  \A k \in Keys : Waiting(k) /\ api[k] # Nil =>
    /\ api[k].status.reason = Verdict(k)
    /\ api[k].status.condGeneration = api[k].generation

\* Stable servers, and an API that takes a write even when its reply is lost.
Stable == ~Outages /\ FaultKinds \subseteq {"apiReplyLost", "crash"}

\* Why: a reconcile works on the cached object, which is as current as when it
\* was read, or its key is queued again;
WorkIsOfCached ==
  pc # "idle" /\ sched[key] # "ready" =>
    sr = cache[key] /\ current = cacheCurrent[key]

\* what it has loaded, and found, it would load and find now, or the key is due;
Loaded(k) == LoadAuthConfig(cache[k].spec.auth, DataIn(k.namespace))

CachedVerdict(k) ==
  IF CannotLoad(k) THEN "AuthLoadFailed"
  ELSE IF Answers(cache[k].spec, Loaded(k)) THEN "Connected"
                                            ELSE "ConnectionFailed"

CheckIsCurrent ==
  pc # "idle" /\ ~Due(key) =>
    /\ pc = "healthCheck" => ~CannotLoad(key) /\ authConfig = Loaded(key)
    /\ pc \in {"getStatus", "putStatus"} =>
         CachedVerdict(key) = IF healthErr THEN "ConnectionFailed" ELSE "Connected"

\* and what it reported still holds of a key that nothing will bring back but
\* its timer.
RestIsTrue ==
  \A k \in Keys : key # k /\ ~Due(k) =>
    /\ cache[k].status.reason = CachedVerdict(k)
    /\ cache[k].status.condGeneration = cache[k].generation

StatusInv ==
  /\ MonitorInv
  /\ WorkIsOfCached
  /\ CheckIsCurrent
  /\ RestIsTrue

\* An outage, and its end, are noticed in the end, through faults of the API
\* and the network: once the environment rests the status becomes true for
\* good.
StatusEventuallyTrue ==
  \A k \in Keys :
    <>[](api[k] # Nil => api[k].status.reason = Verdict(k))
-----------------------------------------------------------------------------
(***************************************************************************)
(* What the API's documentation says, and the code does not keep; see the  *)
(* findings in README.md.                                                  *)
(***************************************************************************)

\* "ObservedGeneration reflects the generation of the most recently observed
\* SchemaRegistry Spec": the status of a registry that waits is of its spec.
ObservedGenerationIsCurrent ==
  \A k \in Keys : Waiting(k) /\ api[k] # Nil =>
    api[k].status.observedGeneration = api[k].generation
=============================================================================

# TLA+ verification of the schema operator

TLA+ models of the operator in `src/`, the TLC runs that check them on small
instances, and the theorems about them that TLAPS checks for every value of
their constants. `PROJECT.json` lists components, runs, mutants, findings,
hazards, theorems, and for every definition the lines of code it stands for.

## 1. Inventory

| component | code | state it keeps | operations |
|---|---|---|---|
| Schema controller | `internal/controller/schema_controller.go` | none of its own; a copy of the object during a reconcile, the workqueue | `Reconcile`, `buildClient`, `deleteFromRegistry`, `setConditionFailed`, `findSchemasForRegistry` |
| SchemaRegistry controller | `internal/controller/schemaregistry_controller.go` | the same | `Reconcile`, `setConditionFailed`, `findSchemaRegistriesForSecret`, `schemaRegistryReferencesSecret` |
| Credentials | `internal/controller/helpers.go` | none | `loadAuthConfig` |
| HTTP client | `internal/client/client.go` | none | `RegisterSchema` (two requests), `SetCompatibility`, `DeleteSubject`, `HealthCheck`, `addAuth` |
| API types | `api/v1alpha1/*_types.go` | `spec`, `status` | - |
| Webhooks | `internal/webhook/v1alpha1/*.go` | none | `ValidateCreate`, `ValidateUpdate` |
| Manager | `cmd/main.go` | process | flags, `ENABLE_WEBHOOKS`, start |
| Generated code, manifests, tests | `zz_generated.deepcopy.go`, `config/`, `dist/`, `test/` | - | - |

How they interact. A user writes Schemas, SchemaRegistries and Secrets to the
Kubernetes API. Informers copy them to a cache, which *every* `r.Get` reads,
and put keys in the workqueue of each controller; one worker per controller
takes a key and runs `Reconcile`. The Schema controller reads the
SchemaRegistry and its Secrets, builds an HTTP client and registers the schema
(POST, GET of the version, PUT of the level), then writes the status; for a
Schema being deleted it sends a DELETE and removes the finalizer. The
SchemaRegistry controller checks the server and writes the status, an event
that makes the Schema controller reconcile every Schema of the namespace that
names this registry.

What is hard. The cache lags behind the API; users write between any two calls
of a reconcile; a write may conflict, fail, or succeed without an answer; a
request may be lost, answered with a lost reply, or served after the client has
given up; the manager may die between any two calls; a reconcile that ends
without a requeue relies on an event still to come.

What makes each part correct:

- *Schema controller*: nothing is registered unless the finalizer is stored; no
  write takes back a user's; no change or failure is forgotten; what is
  registered belongs to a Schema that will delete it; a Schema becomes Ready, a
  deleted one goes away.
- *SchemaRegistry controller*: every registry goes on being checked; edits and
  Secrets are noticed at once, outages in the end.
- *Credentials*: the Secrets read are the Secrets referenced.
- *HTTP client*: repeating any call is harmless (a POST of the same content adds
  no version, a DELETE of nothing succeeds). This is part of the other
  properties rather than one of its own.
- *Webhooks*: the subject of a Schema does not change; a SchemaRegistry that is
  let in names the Secrets it needs; no validation stands in the way of the
  controller's own writes, or it is known when it does.
- *The whole*: neither controller breaks what the other promises; a registry that
  moves takes its Schemas along; what others undo at the servers comes back.

## 2. Modules

| module | models |
|---|---|
| `Faults` | which faults may happen, and a bound on the number of all but one: servers may be down as often as they like |
| `ControllerRuntime` | API server, informer cache and workqueue, as the controllers use them (external code) |
| `SchemaRegistryClient` | requests of the HTTP client and the servers that serve them (the servers are external code) |
| `SchemaWebhook`, `SchemaRegistryWebhook` | what the validating webhooks let through |
| `SchemaReconciler` | the Schema controller, its users and its faults; properties |
| `SchemaReconciler_proofs` | theorems about it |
| `SchemaRegistration_proofs` | theorems about it: what is at the registry |
| `SchemaLifecycle` | abstract: what the finalizer promises, without caches, calls and failures; a theorem |
| `SchemaLifecycle_proofs` | that `SchemaReconciler` implements `SchemaLifecycle` |
| `AuthConfig` | `loadAuthConfig`, `schemaRegistryReferencesSecret`, `addAuth` and TLS trust, as operators |
| `SchemaRegistryReconciler` | the SchemaRegistry controller, Secrets, servers that come and go; properties |
| `SchemaRegistryReconciler_proofs` | theorems about it |
| `SchemaOperator` | both controllers in one manager, over one cache and the same servers; properties |
| `SchemaOperator_proofs` | theorems about it |
| `MC*` | values for TLC |

Both reconcilers extend `ControllerRuntime`, and with it `Faults`;
`SchemaReconciler` also extends `SchemaRegistryClient` and `SchemaWebhook`,
`SchemaRegistryReconciler` extends `SchemaRegistryWebhook`, and with it
`AuthConfig`. `SchemaOperator` instantiates both reconcilers, each with
variables of its own for objects, cache, queue and worker. It instantiates the
modules of their proofs, which extend them, so that `SchemaOperator_proofs` can
cite their lemmas.

### Correspondence

`Reconcile` is one action per call that leaves the process, or reads state
others write (`pc` names the call that comes next). An action performs the
call with each of its outcomes, and what the code does up to the next call.
The action that ends a reconcile also does what controller-runtime does with
the result: an error or `RequeueAfter` keeps the key in the queue (`Retry`), an
empty result does not (`Done`). `loadAuthConfig` reads up to two Secrets in one
step.

- *Objects.* `generation` is bumped by a change of the spec and by a deletion,
  as the API server does. `resourceVersion` is abstracted to whether a copy is
  the stored one (`cacheCurrent`, `current`), which is all an Update asks.
  `subject`, `schema` (with `schemaType` and `references`, here the *content*),
  `compatibilityLevel` and `registryRef` are the fields of a Schema's spec.
- *Status.* The Ready condition is its reason and its generation.
  `registeredAt` and `lastChecked` have second precision: a write of a status
  equal but for them may or may not be an event, and both are modelled
  (`Unchanged`, `Updated`).
- *Users* create, edit and delete Schemas; they do not strip finalizers, so a Schema
  does not vanish in the middle of a reconcile and the NotFound branches after
  the first `Get` are there but not taken.
- *Watch.* An event brings the newest version to the cache and enqueues the key;
  versions in between are skipped. A change of a Secret is in the index first
  and mapped to keys later (`secretEvents`), through whatever the cache shows
  then. In `SchemaReconciler` the SchemaRegistries and their Secrets are seen as
  the cache shows them, so a change and its event are one step.
- *Queue.* A key is `ready`, `delayed` (backoff, one minute, five minutes), or not
  there. Time is not modelled: a delay elapses at some moment.
- *Webhook.* An object is created or edited only if `ValidateSchemaSpec`,
  `ValidateUpdate` or `ValidateSchemaRegistrySpec` lets it through. It sees the
  controller's own Updates as well: the two of the finalizer pass it
  (`Admitted`), those of the status go to a subresource it does not watch.
  `ENABLE_WEBHOOKS` belongs to the process: `Restart` may change it
  (`WebhookModes`), so that the objects of an unguarded past meet a webhook.
  The model drops the checks that the CRD makes as well (an empty subject,
  schema, URL, a negative timeout), and that references are sound is a
  property of the content (`ValidReferences`).
- *Failing servers.* A call fails in three ways (`Unanswered`): the server does not
  do what is asked, has done it, or does it later. Each such fault counts toward
  `MaxFaults`. `down` is the first of them without a count: a server that is out
  of reach, or answers 401 or 5xx, for as long as it likes. A Schema's client whose
  credentials load but are not accepted meets such a server.
- *Registry.* A server keeps the versions of each subject and its level. `Strict`
  levels admit no second content, `Invalid` contents are refused always: both
  make a POST fail as an incompatible or malformed schema does.
- *Secrets* are worth `valid`, `refused`, `garbled` or `absent`. In
  `SchemaReconciler` they are one bit per registry (`authLoads`). Bearer tokens
  behave as basic credentials in every definition but the name of the type, and
  are in no instance.

### The life cycle

`SchemaLifecycle` knows of a Schema whether it is absent, new (stored, without the
finalizer), held, or leaving, and which subjects of the registry are occupied.
A subject is occupied only in the name of a Schema that is held or leaving, and
must be clear when that Schema goes; anyone may clear a subject before. The
refinement mapping (`L` in `SchemaReconciler`) reads the phase off the stored
object's finalizer and deletion, and the occupied subjects off all servers:
what caches, copies and calls do is invisible to it. A POST served twice, a
DELETE repeated after a restart, a lost answer are stutters or repeated steps.

### The operator

`SchemaOperator` replaces what `SchemaReconciler` assumes of its surroundings by
the other controller. A Schema's client is built from the SchemaRegistry in the
cache (`CachedURL`) and from the Secrets it names (`CredentialsLoad`, by
`LoadFails`); a write to a Secret, an edit of a SchemaRegistry, a status written by
a health check reach the Schema controller as they do in the program: the
informer updates the cache (`RegistryInformer`), the handler that maps the event
to Schemas runs later (`RegistryEvent`). A crash takes both. `Outsider` is another
client of the same servers, which deletes a subject or a level (where the
constant `Outsiders` says that there is one).

The manager of this model starts over what an earlier one left at rest (or an
empty cluster): the history before is the other runs' subject, and the state
space would be three times as large. Servers stay up and take any content, and
a Secret is valid or absent: what a refused request leads to is in
`SchemaReconciler`.

## 3. Runs

Every model stops when users, faults and queue have nothing left to do, so the
runs do not check for deadlock.

| run | properties | instance |
|---|---|---|
| `schema_safety` | `TypeOK`, `FinalizerGuardsRegistration`, `CopiesInv`, `SettledSchemaIsReady`, `SettledInv`, `UserIntentPreserved` | 1 Schema; 2 subjects, 3 contents of which one is invalid, a strict level; registry and Secret may be missing; no webhook; 3 edits, 2 faults of any kind |
| `schema_cleanup` | `NoOrphanedSubject`, `CleanupInvariant`, `FinalizerIsAdmitted`, `LifecycleKept` | 2 Schemas, one subject or two; webhook, and a content it refuses; 4 edits, 1 fault (none late) |
| `schema_settled` | `SettledSchemaIsRegistered`, `RegistrationInv`, `DeletedSubjectIsGone`, `DeletionInv` | 1 Schema of 2 subjects; 2 URLs or no registry, Secrets; no webhook; 4 edits, 1 fault (none late) |
| `schema_liveness` | `SchemaEventuallyReady`, `DeletionCompletes` | 1 Schema; a content the webhook refuses, one the server refuses, and one it refuses under a strict level; webhook on or off in each process; registry and Secret may be missing; a server that may be down at any call; 3 edits, 1 fault (none late) |
| `registry_monitor` | `TypeOK`, `RegistryIsMonitored`, `MonitorInv`, `StatusEventuallyTrue` | 1 registry with mTLS, basic or no authentication, references empty or not; no webhook; 2 Secrets, 2 servers with outages; 4 edits, 1 fault of any kind |
| `registry_status` | `WaitingStatusIsTrue`, `StatusInv`, `SecretCanMend` | 2 registries in 2 namespaces with 2 Secrets each; webhook; 4 edits, 1 restart or lost reply |
| `operator_heals` | `SchemasHeal` | 1 Schema with a level, 1 registry of an open server; 2 edits by users or outsiders, 1 late request |
| `operator_safety` | `TypeOK`, `ControllersKeepPromises`, `SettledSchemaIsServed`, `UsersGetTheirWay` | 1 Schema, 1 registry that moves between an open server and one with basic authentication, its Secret; 2 edits, 1 restart |

*Edits* count what users (and servers' outages) do, *faults* what goes wrong.
Three edits are the shortest history with a creation, a change and a deletion,
four add a change of the registry or a second object, or let a Secret, an outage
and its end follow the creation. Two faults suffice for a
failure while another is being made good. One key is enough where keys do not
interact; they do through a subject (`schema_cleanup`), and through Secrets of
the same name (`registry_status`). Where a bound matters for the truth of a
property it is a hypothesis, not a bound:

- `SettledSchemaIsRegistered` and `NoOrphanedSubject` fail if a request is served
  after its client gave up; nothing in the code guards against it, and the runs
  leave that fault out. `DeletedSubjectIsGone` is checked without it for the same
  reason.
- `SettledSchemaIsRegistered` is about Schemas that share no subject, in the
  namespace of their registry (`RegistrationHypothesis`; see the findings for the
  others). The run has one Schema; that others do not disturb it is proved.
- `DeletionCompletes` has a fairness hypothesis about the server: a DELETE that is
  sent again and again is answered (`SF_vars(DeleteAnswered(k))`). The code owes
  the Schema no other way out: while a server is down, or refuses the DELETE, the
  finalizer stays. `SchemaEventuallyReady` is about a Schema whose registrations
  fail only finitely often (`PostFails`), other than because the server refuses the
  content; a content it refuses is not Ready, and is left out (`Refused`). In
  the run a server may be `down` at any call, for ever, and there are contents it
  refuses: without any one of the three hypotheses TLC refutes the property.
  The API server's failures are among the counted faults: it comes to rest.
- Both make an exception of a Schema that is `Barred`: stored without the
  webhook, refused by it now. Its finalizer can be neither added nor removed
  until a user mends the spec.
- `FinalizerIsAdmitted` is the other side of that: where every manager runs the
  webhook nothing is barred.
- Late requests are left out of `schema_liveness` for its size. They touch neither
  property but through `Refused`.
- `SettledSchemaIsServed` takes `ServedHypothesis`: what
  `SettledSchemaIsRegistered` takes, and that no outsider deletes subjects. Its run
  needs two edits, so that the registry moves while a Schema is created, deleted
  or registered, or moves there and back. That two Schemas do not disturb each
  other, and that more faults change nothing, is proved.
- `SchemasHeal`'s run needs two edits: that a late DELETE removes the subject of a Schema
  takes the deletion of one before it and its creation. To make room for that,
  Secrets and restarts are left to `operator_safety`.
- `SchemasHeal` is about a Schema in the namespace of its registry: of the others
  no event of the registry reaches the controller (`doc_registry_namespace`).
- `WaitingStatusIsTrue` is about a stable API and stable servers: after a
  status write that failed, or an outage, the status is old until the timer.

Liveness assumes weak fairness of the worker's next call, of each watch and of
each timer, and strong fairness of taking a key, since the workqueue serves the
ready keys in turn and is never stuck behind one. `SchemasHeal` assumes moreover
that a check which is repeated for ever stores its status again and again
(strong fairness of `StatusStored`): a check that its timer brings, minutes after
the last, writes another `lastChecked`. Nothing is assumed of users,
of faults, of outages, or of the events of other objects, but what a property
names as its hypothesis; that the number of edits and counted faults is bounded
says that users, the API server and the network come to rest.

Each property has a mutant, a plausible bug in the code it is about, that
violates it; the mutants stand before the definitions they replace.

### Findings

Each run `doc_*` states what a comment says and TLC refutes it.

| run | property | the code |
|---|---|---|
| `doc_version` | `SettledVersionIsOfSchema` | reports the latest version of the subject as the version of the schema |
| `doc_finalizer_secret` | `NoOrphanedSubject` | skips the clean-up for any error of `buildClient`, such as a missing Secret |
| `doc_registry_namespace` | `SettledSchemaIsRegistered` | looks for Schemas in the namespace of the SchemaRegistry, although `registryRef.namespace` may name another |
| `doc_registry_generation` | `ObservedGenerationIsCurrent` | does not set `status.observedGeneration` after `AuthLoadFailed` |

Further behaviour a reader may not expect, seen in the models and without a
run of its own:

- Deleting a Schema deletes its subject also if another Schema names the same;
  that one stays Ready (`schema_controller.go:193`).
- A failure of `SetCompatibility` is logged and forgotten
  (`schema_controller.go:116`), and nobody compares a subject with its Schema once
  it is Ready. Both are made good by an event of the SchemaRegistry, whose status
  is written every five minutes: that is what `SchemasHeal` shows, and what a
  Schema in another namespace lacks.
- A server that is down, or refuses the DELETE, holds a deleted Schema for as long
  as it does (`schema_controller.go:67`): only a SchemaRegistry or a Secret that is
  missing skips the clean-up.
- With the webhook on, a Schema that was stored without it and does not pass
  cannot be deleted: the removal of its finalizer is validated as a whole
  (`schema_webhook.go:79`, `Barred`).
- After its finalizer is gone, a Schema may be deleted from the registry once
  more: the cache still shows it when a registry event queues its key
  (`schema_controller.go:63`). This is harmless unless another Schema has taken
  the subject over. (The model brings the events of different keys in any order,
  so it includes this case.)
- The level is set only after a registration under the old one, so a spec that
  relaxes the level and brings a content that needs it is refused at every
  retry (`schema_controller.go:115`).
- A Ready status may carry the generation of an edit made between the POST and
  the re-fetch, until the next reconcile (`schema_controller.go:132`).
- After `AuthLoadFailed` there is no timer (`schemaregistry_controller.go:64`);
  `RegistryIsMonitored` shows why that is enough.
- The SchemaRegistry controller is triggered by its own status writes, without
  the pause of five minutes, as long as checks end in different seconds
  (`schemaregistry_controller.go:93`).

## 4. Proofs

The theorems hold for any sets of keys, subjects, contents, servers, Secrets,
any specs, any fault kinds and any bounds, under the assumptions the modules
name (`FaultAssumption`, `ClientAssumption`, `ReconcilerAssumption`,
`AuthAssumption`, `RegistryReconcilerAssumption`: types of the constants, and
that `Nil` and `""` are not among the values; `OperatorAssumption` asks the same of
the constants of both instances).

`SchemaReconciler_proofs`:

- `TypeCorrect`: `Spec => []TypeOK`, with one case per action.
- `CopiesCorrect`, `FinalizerGuards`: `FinalizerGuardsRegistration` is not
  inductive, because the worker and the cache hold copies of different age.
  `CopiesInv` says what a copy may be out of date in: a current copy equals the
  stored object; a cached object that shows the finalizer and is not being
  deleted has it stored; after the Update of `AddFinalizer` it is stored; only a
  copy being deleted leads to its removal.
- `UserIntent`: with `CopiesInv` every write of the worker is based on the stored
  object, so generation, spec and deletion are the user's.
- `SettledCorrect`, `SettledReady`: a Schema for which nothing is due is Ready for
  its current spec. `SettledInv` adds to `CopiesInv` that a reconcile works on the
  object as it is cached, and has registered that object's content, unless its
  key is queued again; and that what is stored as deleted has the finalizer.
  A reconcile that ends without a retry has then either written its result, so
  that an event is to come, or found it stored.
- `CleanupCorrect`, `Cleanup`: under `CleanupHypothesis(v)` (one server, usable
  registries, webhooks, no late requests) `[]NoOrphanedSubject`. `CleanupInv` adds
  to `CopiesInv` that nothing is under way to the server, that the copies agree on
  the subject, and that the subject is empty before the finalizer goes.
- `FinalizerAdmitted`: no copy of an object, however old, has a spec that users did
  not write (`SpecsInStep`), and the webhook has let in what they wrote.

`SchemaRegistration_proofs`:

- `RegistrationCorrect`, `SettledRegistered`: under `RegistrationHypothesis`,
  `[]SettledSchemaIsRegistered`. `RegistrationInv` adds to `SettledInv` that the
  client of a reconcile points to where the registry is now, and that the schema
  is there from the answer on, unless the key is queued again. A change of the
  registry queues the key, since the cached copy names that registry
  (`EditQueues`, the mapping of `findSchemasForRegistry`); the reconcile of
  another Schema touches another subject (`RegisteredKept`).
- `DeletionCorrect`, `DeletedGone`: `DeletedSubjectIsGone` where no request is served
  late. Only `RemoveFinalizer` ends an object with a finalizer, and then the
  worker's copy is the stored object (`RemovalStep`), whose subject the worker
  has deleted just before.

`SchemaLifecycle`, `SchemaLifecycle_proofs`:

- `Promise`: the abstract specification keeps `OccupiedIsHeld`.
- `KeepsLifecycle`: under `CleanupHypothesis(v)`, `Spec => LifecycleKept`. Each action
  is matched with the abstract step it takes; that a POST occupies only the
  subject of a held Schema, and that the subject is clear when the finalizer
  goes, is `CleanupInv`.

`SchemaRegistryReconciler_proofs`:

- `LoadReadsReferences`: what `loadAuthConfig` returns depends only on the
  Secrets `schemaRegistryReferencesSecret` names.
- `TypeCorrect`: as above.
- `MonitorCorrect`, `Monitored`: a registry without a timer cannot load its
  credentials now. The invariant `MonitorInv` follows a failure from the read
  that saw it to the end of the reconcile: either it is still so for the cached
  spec and the Secrets of the moment, or the key is due (queued, its copy out of
  date, or a referenced Secret's event still to be mapped). That a Secret
  written in between makes the key due is `LoadReadsReferences`.

- `Mendable`: with the webhook, a registry without a timer refers to a Secret that
  is absent or garbled, from `MonitorInv` and what the webhook let in.
- `StatusCorrect`, `StatusIsTrue`: under `Stable` (no outages, and no API write that
  fails), `[]WaitingStatusIsTrue`. `StatusInv` follows a check from the object it
  was given to the status it stores: what it has loaded and found, it would load
  and find now, or the key is due. The argument is that every step but the one
  that takes the key is calm for it (`CalmStep`): it makes the key due, or leaves
  what a check would load as it is.

`SchemaOperator_proofs` proves that the theorems about the controllers survive their
composition, and what only the two together can promise. Every step of the
operator is of one side, or the mapping of an event from one to the other, or
somebody else's, or a restart of both (`StepKinds`). A step of a side is a step of
that controller's own specification, so the lemmas of its module apply; to the
other controller it is a change of what that one leaves to its environment, and
lemmas say that this disturbs nothing (`AloneSettled`, `AloneMonitor`,
`AloneStatus`: its own variables stay, and keys may only become ready).

- `ControllersCorrect`, `OperatorTypeCorrect`, `PromisesKept`: `ControllersInv`, the
  inductive invariants of both controllers, holds with any faults and outsiders;
  `TypeOK` and `ControllersKeepPromises` follow.
- `ServedCorrect`, `SchemaServed`: under `ServedHypothesis`, `[]SettledSchemaIsServed`.
  In `SchemaReconciler` the URL of a registry changes together with the event that
  queues its Schemas; here the cache changes first. So `ServedInv` speaks of
  registries without an event that is still to be mapped: the client of a
  reconcile points to where such a registry is in the cache, unless the key is
  queued again, and the schema is there once the POST is answered
  (`WorkIsServed`); so it is for a Schema at rest (`RestIsServed`). The event of a
  registry queues every Schema whose cached spec names it (`EventQueues`). That the
  cache shows what is stored, where nothing is due for the registry, is the
  other controller's `CacheIsStored`. TLC has checked `ServedInv` on the instance of
  `operator_safety`.
- `IntentIsKept`, `UsersWay`: the action properties of `SchemaReconciler` hold for the
  operator, the second without late requests: from the DELETE to the removal of
  the finalizer others can only empty the subject.

Only model-checked: liveness (`SchemaEventuallyReady`, `DeletionCompletes`,
`StatusEventuallyTrue`, `SchemasHeal`), since fairness and ENABLED are out of the
prover's reach. Every other property of a passing run is proved.

## 5. Not modelled

Wording, logging, JSON, the syntax of schemas, TLS itself, timeouts as
durations, the CRD's validation, metrics, and what `PROJECT.json` lists as not
modelled. `ClientCreateFailed` cannot happen: `NewClient` returns no error.

Two managers at once: the deployed manifest passes `--leader-elect`, and a
manager that loses its lease exits, which is the `Crash` of the models. Without
that flag two workers would share a key, which the models do not have.

What the API server does when the webhook cannot be reached (it refuses the
write, as after `apiError`) is not distinguished from its other failures.

## 6. Plan

1. Done: the Schema controller with its faults; its safety theorems.
2. Done: the SchemaRegistry controller and the credentials; `Monitored`.
3. Done: the webhooks, and both reconcilers behind them.
4. Done: `SchemaLifecycle`, the refinement and its proof; `SettledReady`.
5. Done: `SchemaOperator`.
6. Done: `Mendable`, `StatusIsTrue`, `SettledRegistered`, `DeletedGone`.
7. Done: the move of a registry between two servers (`operator_safety`), the
   composition of the invariants, `SchemaServed`; `FinalizerAdmitted`.
8. Next: an abstract specification of the operator, where a Schema follows its
   registry, for `SchemaOperator` to implement.

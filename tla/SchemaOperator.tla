--------------------------- MODULE SchemaOperator ---------------------------
(***************************************************************************)
(* The operator as main.go assembles it: one manager process with both     *)
(* controllers, over one API server, one set of informer caches and the    *)
(* same Schema Registry servers.                                           *)
(*                                                                         *)
(* What SchemaReconciler leaves to its environment is here what the other  *)
(* controller and its users do.  A Schema's client is built from the       *)
(* SchemaRegistry and the Secrets in the shared cache; and the watch on    *)
(* SchemaRegistry brings the Schema controller every status that the       *)
(* SchemaRegistry controller writes, one with each of its checks.  The     *)
(* cache has an object before the handlers of its event have run.          *)
(*                                                                         *)
(* Others use the servers as well: they delete a subject, or its level.    *)
(***************************************************************************)
EXTENDS Naturals, Functions

CONSTANTS
  Nil, Namespaces, RegistryNames, SecretNames, SchemaKeys,
  Servers, Subjects, Contents, Levels, Demands,
  SchemaSpecs, RegistrySpecs, SecretData,
  FaultKinds, MaxFaults, MaxEdits,
  Outsiders  \* do others change the servers behind the operator's back?

VARIABLES
  schemaApi, schemaCache, schemaCacheCurrent, schemaSched,
  schemaPc, schemaKey, schema, schemaCurrent, server, resp, reason, webhooks,
  registryApi, registryCache, registryCacheCurrent, registrySched,
  registryPc, registryKey, sr, srCurrent, authConfig, healthErr,
  secrets, secretEvents, online,
  subjects, levels, late,
  edits, faults,
  registryEvents  \* SchemaRegistries whose event is not mapped to Schemas yet

RegistryKeys == [namespace : Namespaces, name : RegistryNames]

\* The controllers are instances of the modules with their theorems, which
\* SchemaOperator_proofs cites.
R == INSTANCE SchemaRegistryReconciler_proofs WITH
       Keys <- RegistryKeys, Specs <- RegistrySpecs, Outages <- FALSE,
       WebhooksEnabled <- TRUE,
       api <- registryApi, cache <- registryCache,
       cacheCurrent <- registryCacheCurrent, sched <- registrySched,
       pc <- registryPc, key <- registryKey, current <- srCurrent

\* buildClient and loadAuthConfig read the cache.
CachedURL(r) == IF registryCache[r] = Nil THEN Nil ELSE registryCache[r].spec.url

CredentialsLoad(r) ==
  /\ registryCache[r] # Nil
  /\ ~R!LoadFails(registryCache[r].spec.auth, R!DataIn(r.namespace))

S == INSTANCE SchemaRegistration_proofs WITH
       Keys <- SchemaKeys, Specs <- SchemaSpecs,
       Strict <- {}, Invalid <- {},
       SchemaType <- [c \in Contents |-> "AVRO"],
       ValidJSON <- Contents, ValidReferences <- Contents,
       RegistryURLs <- Servers \cup {Nil}, SecretsVary <- TRUE,
       WebhookModes <- {TRUE},
       api <- schemaApi, cache <- schemaCache,
       cacheCurrent <- schemaCacheCurrent, sched <- schemaSched,
       pc <- schemaPc, key <- schemaKey, current <- schemaCurrent,
       registry <- [r \in RegistryKeys |-> CachedURL(r)],
       authLoads <- [r \in RegistryKeys |-> CredentialsLoad(r)]

\* What the two controllers ask of their constants.
ASSUME OperatorAssumption ==
  /\ S!FaultAssumption /\ S!RuntimeAssumption /\ S!ClientAssumption
  /\ S!ReconcilerAssumption
  /\ R!RuntimeAssumption /\ R!AuthAssumption /\ R!RegistryReconcilerAssumption
  /\ Outsiders \in BOOLEAN

schemaVars ==
  << schemaApi, schemaCache, schemaCacheCurrent, schemaSched,
     schemaPc, schemaKey, schema, schemaCurrent, server, resp, reason, webhooks >>
serverVars == << subjects, levels, late >>
registryVars ==
  << registryApi, registryCache, registryCacheCurrent, registrySched,
     registryPc, registryKey, sr, srCurrent, authConfig, healthErr,
     secrets, secretEvents, online >>
vars == << schemaVars, serverVars, registryVars, edits, faults, registryEvents >>

\* The manager starts over what an earlier one left at rest: Schemas and
\* SchemaRegistries that are Ready, or none.
RegisteredSchema(spec) ==
  [generation |-> 1, spec |-> spec, deleting |-> FALSE, finalizer |-> TRUE,
   status |-> [reason |-> "Registered", condGeneration |-> 1,
               schemaID |-> spec.content, version |-> 1,
               observedGeneration |-> 1]]

ConnectedRegistry(spec) ==
  [generation |-> 1, spec |-> spec,
   status |-> [reason |-> "Connected", condGeneration |-> 1,
               observedGeneration |-> 1]]

\* The schema and the level that the Schema k, stored as o, asks for are at the
\* server that its SchemaRegistry names.
InForce(k, o) ==
  LET v == registryApi[S!RegistryOf(k, o)].spec.url IN
    /\ S!Registered(v, o.spec.subject, o.spec.content)
    /\ o.spec.level # Nil => levels[v][o.spec.subject] = {o.spec.level}

Init ==
  /\ schemaApi \in
       [SchemaKeys -> {Nil} \cup {RegisteredSchema(spec) :
                                  spec \in UNION Range(SchemaSpecs)}]
  /\ registryApi \in
       [RegistryKeys -> {Nil} \cup {ConnectedRegistry(spec) :
                                    spec \in UNION Range(RegistrySpecs)}]
  /\ secrets \in [R!Secrets -> SecretData]
  /\ subjects \in [Servers -> [Subjects -> {<< >>} \cup {<< c >> : c \in Contents}]]
  /\ levels \in [Servers -> [Subjects -> {{}} \cup {{l} : l \in Levels}]]
  /\ \A k \in SchemaKeys : schemaApi[k] # Nil =>
       /\ schemaApi[k].spec \in SchemaSpecs[k]
       /\ registryApi[S!RegistryOf(k, schemaApi[k])] # Nil
       /\ InForce(k, schemaApi[k])
  /\ late = {} /\ edits = 0 /\ faults = 0
  /\ schemaCache = schemaApi /\ registryCache = registryApi
  /\ \A r \in RegistryKeys : registryApi[r] # Nil => CredentialsLoad(r)
  /\ schemaCacheCurrent = [k \in SchemaKeys |-> TRUE]
  /\ registryCacheCurrent = [r \in RegistryKeys |-> TRUE]
  /\ schemaSched =
       [k \in SchemaKeys |-> IF schemaApi[k] = Nil THEN "none" ELSE "ready"]
  /\ registrySched =
       [r \in RegistryKeys |-> IF registryApi[r] = Nil THEN "none" ELSE "ready"]
  /\ schemaPc = "idle" /\ schemaKey = Nil /\ schema = Nil
  /\ schemaCurrent = FALSE /\ server = Nil /\ resp = S!NoResp
  /\ reason = "none" /\ webhooks = TRUE
  /\ registryPc = "idle" /\ registryKey = Nil /\ sr = Nil
  /\ srCurrent = FALSE /\ authConfig = R!NoAuth /\ healthErr = FALSE
  /\ secretEvents = {} /\ online = [v \in Servers |-> TRUE]
  /\ registryEvents = {}

-----------------------------------------------------------------------------
(***************************************************************************)
(* The Schema controller: a step of it leaves the other one alone.         *)
(***************************************************************************)
SchemaAlone == UNCHANGED << registryVars, registryEvents >>

SchemaStep        == SchemaAlone /\ S!Step
SchemaDequeue(k)  == SchemaAlone /\ S!Dequeue(k)
SchemaInformer(k) == SchemaAlone /\ S!Informer(k)
SchemaTimer(k)    == SchemaAlone /\ S!Timer(k)
LateRequest       == SchemaAlone /\ S!LateRequest

(***************************************************************************)
(* The SchemaRegistry controller.                                          *)
(***************************************************************************)
RegistryAlone == UNCHANGED << schemaVars, serverVars, registryEvents >>

RegistryStep       == RegistryAlone /\ R!Step
RegistryDequeue(r) == RegistryAlone /\ R!Dequeue(r)
RegistryTimer(r)   == RegistryAlone /\ R!Timer(r)
SecretEvent(s)     == RegistryAlone /\ R!SecretEvent(s)

\* The watch on SchemaRegistry serves both controllers.
RegistryInformer(r) ==
  /\ R!Informer(r)
  /\ registryEvents' = registryEvents \cup {r}
  /\ UNCHANGED << schemaVars, serverVars >>

RegistryEvent(r) ==
  /\ r \in registryEvents
  /\ registryEvents' = registryEvents \ {r}
  /\ schemaSched' = S!Enqueue(S!FindSchemasForRegistry(r))
  /\ UNCHANGED << schemaApi, schemaCache, schemaCacheCurrent, schemaPc,
                  schemaKey, schema, schemaCurrent, server, resp, reason,
                  webhooks, serverVars, registryVars, edits, faults >>

(***************************************************************************)
(* Users of the cluster, other users of the servers, a crash.              *)
(***************************************************************************)
User ==
  \/ /\ SchemaAlone
     /\ \E k \in SchemaKeys :
          \/ \E spec \in SchemaSpecs[k] :
               S!CreateSchema(k, spec) \/ S!UpdateSchema(k, spec)
          \/ S!DeleteSchema(k)
  \/ RegistryAlone /\ R!User

Outsider ==
  /\ Outsiders
  /\ S!Edit
  /\ \E v \in Servers, j \in Subjects :
       \/ /\ subjects' = [subjects EXCEPT ![v][j] = << >>]
          /\ UNCHANGED levels
       \/ /\ levels' = [levels EXCEPT ![v][j] = {}]
          /\ UNCHANGED subjects
  /\ UNCHANGED << schemaVars, late, registryVars, registryEvents, faults >>

\* Both controllers go and come back together.  The events of the new list
\* add every Schema, those of the registries included.
Crash ==
  /\ R!Crash
  /\ S!Restart
  /\ registryEvents' = {}

Next ==
  \/ SchemaStep \/ RegistryStep
  \/ \E k \in SchemaKeys : SchemaDequeue(k) \/ SchemaInformer(k) \/ SchemaTimer(k)
  \/ \E r \in RegistryKeys : \/ RegistryDequeue(r) \/ RegistryTimer(r)
                             \/ RegistryInformer(r) \/ RegistryEvent(r)
  \/ \E s \in R!Secrets : SecretEvent(s)
  \/ LateRequest
  \/ User \/ Outsider
  \/ Crash

Spec == Init /\ [][Next]_vars

\* A check that comes from its timer finds another lastChecked in the stored
\* status: its write is stored.  One that follows at once may not be.
StatusStored(r) ==
  RegistryAlone /\ R!PutStatus /\ registryCacheCurrent[r] # registryCacheCurrent'[r]

Fairness ==
  /\ WF_vars(SchemaStep) /\ WF_vars(RegistryStep)
  /\ \A k \in SchemaKeys : /\ SF_vars(SchemaDequeue(k))
                           /\ WF_vars(SchemaInformer(k))
                           /\ WF_vars(SchemaTimer(k))
  /\ \A r \in RegistryKeys : /\ SF_vars(RegistryDequeue(r))
                             /\ WF_vars(RegistryInformer(r))
                             /\ WF_vars(RegistryTimer(r))
                             /\ WF_vars(RegistryEvent(r))
                             /\ SF_vars(StatusStored(r))
  /\ \A s \in R!Secrets : WF_vars(SecretEvent(s))

FairSpec == Spec /\ Fairness

-----------------------------------------------------------------------------
(***************************************************************************)
(* Properties.                                                             *)
(***************************************************************************)
TypeOK == S!TypeOK /\ R!TypeOK /\ registryEvents \subseteq RegistryKeys

\* The promises of the two controllers, each with the other for its
\* environment: of Reconcile of schema_controller.go, that a schema is
\* registered only under a stored finalizer and no change is forgotten; of
\* schemaregistry_controller.go, that every registry is monitored and, where
\* the API is stable, waits with a true status.
ControllersKeepPromises ==
  /\ S!FinalizerGuardsRegistration
  /\ S!SettledSchemaIsReady
  /\ R!RegistryIsMonitored
  /\ R!Stable => R!WaitingStatusIsTrue

\* Nothing is due for the SchemaRegistry r: the cache shows it as it is stored,
\* and the Schemas that refer to it have had its event.
RegistrySettled(r) == registryCacheCurrent[r] /\ r \notin registryEvents

\* The watch of one controller's resource carries to the other: where nothing is
\* due for a Schema and for its SchemaRegistry, the schema is at the server that
\* the STORED SchemaRegistry names, however its edits, the event that is mapped
\* after the cache has the edit, and the calls of a reconcile fell.
SettledSchemaIsServed ==
  \A k \in SchemaKeys : S!Settled(k) /\ schemaApi[k] # Nil =>
    LET o == schemaApi[k]
        r == S!RegistryOf(k, o)
    IN  RegistrySettled(r) /\ registryApi[r] # Nil =>
          S!Registered(registryApi[r].spec.url, o.spec.subject, o.spec.content)

\* It holds for Schemas that share no subject, in the namespace of their
\* registry, where a request that was given up is not served later and nobody
\* else deletes subjects.
ServedHypothesis == S!RegistrationHypothesis /\ ~Outsiders

\* Why: the client of a reconcile points to where the cached registry is, unless
\* its event is not mapped yet or the key is queued again, and once the POST is
\* answered the schema is there;
WorkIsServed ==
  /\ schemaPc \in {"register", "latest", "setCompatibility",
                   "getStatus", "putStatus"}
  /\ schemaSched[schemaKey] # "ready"
  /\ S!RegistryOf(schemaKey, schema) \notin registryEvents
  => /\ server = CachedURL(S!RegistryOf(schemaKey, schema))
     /\ schemaPc # "register" =>
          S!Registered(server, schema.spec.subject, schema.spec.content)

\* and so it is for a Schema at rest.
RestIsServed ==
  \A k \in SchemaKeys : S!Settled(k) /\ schemaApi[k] # Nil =>
    LET o == schemaApi[k]
        r == S!RegistryOf(k, o)
    IN  r \notin registryEvents /\ CachedURL(r) # Nil =>
          S!Registered(CachedURL(r), o.spec.subject, o.spec.content)

ControllersInv ==
  /\ S!SettledInv
  /\ R!MonitorInv
  /\ registryEvents \subseteq RegistryKeys

ServedInv ==
  /\ ControllersInv
  /\ late = {}
  /\ S!SpecsAreOfKey
  /\ WorkIsServed
  /\ RestIsServed

\* No write of a reconcile takes back what a user wrote, and a Schema goes
\* without its subject: also when its registry moves, or loses its credentials,
\* while the deletion is under way, and whoever else deletes subjects.
UsersGetTheirWay == S!UserIntentPreserved /\ S!DeletedSubjectIsGone

\* The operator heals: a subject or a level that somebody removed behind its
\* back, a level that a lost call has not set, and a subject that the late DELETE
\* of a Schema before this one has removed, are there again in the end, though
\* Reconcile neither compares nor retries them.  It is the monitoring of the
\* registry that brings the Schema back.  (Only for a Schema in the namespace of
\* its registry.)
SchemasHeal ==
  \A k \in SchemaKeys :
    <>[](schemaApi[k] # Nil =>
           LET o == schemaApi[k]
               r == S!RegistryOf(k, o)
           IN  ~o.deleting /\ registryApi[r] # Nil /\ S!Usable(r) =>
                 InForce(k, o))
=============================================================================

----------------------- MODULE SchemaLifecycle_proofs -----------------------
(***************************************************************************)
(* SchemaReconciler implements SchemaLifecycle, where CleanupHypothesis    *)
(* holds: each step of the worker or of a user is a step of the lifecycle  *)
(* or none.                                                                *)
(***************************************************************************)
EXTENDS SchemaReconciler_proofs

\* The subjects with versions, at any server.
Occupied == {j \in Subjects : \E v \in Servers : subjects[v][j] # << >>}

SubjectOf(o) == IF o = Nil THEN Nil ELSE o.spec.subject

Turns(k, o, from, to) == Phase(api[k]) = from /\ Phase(o) = to

SameSubject(k, o) == SubjectOf(o) = SubjectOf(api[k])

\* A write to one object, seen as a step of its life.
LEMMA WriteIsTurn ==
  ASSUME api \in [Keys -> SchemaObject \cup {Nil}], subjects' = subjects,
         NEW k \in Keys, NEW o \in SchemaObject \cup {Nil},
         api' = [api EXCEPT ![k] = o],
         \/ Phase(o) = Phase(api[k]) /\ SameSubject(k, o)
         \/ Turns(k, o, "absent", "new")
         \/ Turns(k, o, "new", "held") /\ SameSubject(k, o)
         \/ Turns(k, o, "held", "leaving") /\ SameSubject(k, o)
         \/ Turns(k, o, "new", "absent")
         \/ Turns(k, o, "leaving", "absent") /\ SubjectOf(api[k]) \notin Occupied
  PROVE  [L!LifecycleNext]_(L!lifecycleVars)
<1>. DEFINE phase     == [i \in Keys |-> Phase(api[i])]
            subjectOf == [i \in Keys |-> IF api[i] = Nil THEN Nil
                                         ELSE api[i].spec.subject]
<1>1. phase' = [phase EXCEPT ![k] = Phase(o)]
  OBVIOUS
<1>2. subjectOf' = [subjectOf EXCEPT ![k] = SubjectOf(o)]
  BY DEF SubjectOf
<1>3. phase[k] = Phase(api[k]) /\ subjectOf[k] = SubjectOf(api[k])
  BY DEF SubjectOf
<1>4. UNCHANGED Occupied
  BY DEF Occupied
<1>5. Phase(o) = "absent" => SubjectOf(o) = Nil
  BY DEF Phase, SubjectOf
<1>6. Phase(o) = "new" => SubjectOf(o) \in Subjects
  BY DEF Phase, SubjectOf, SchemaObject, SchemaSpec
<1>7. SameSubject(k, o) => subjectOf' = subjectOf
  BY <1>2, <1>3 DEF SameSubject
<1>. HIDE DEF phase, subjectOf
<1>8. CASE Phase(o) = Phase(api[k]) /\ SameSubject(k, o)
  <2>1. phase' = phase
    BY <1>1, <1>3, <1>8 DEF phase
  <2>. QED
    BY <1>4, <1>7, <1>8, <2>1
       DEF L!lifecycleVars, Occupied, phase, subjectOf
<1>9. ASSUME NEW from, NEW to, Turns(k, o, from, to) PROVE L!Turn(k, from, to)
  BY <1>1, <1>3, <1>9 DEF L!Turn, Turns, phase
<1>10. CASE Turns(k, o, "absent", "new")
  <2>1. L!Create(k, SubjectOf(o))
    BY <1>2, <1>4, <1>9, <1>10 DEF L!Create, subjectOf, Occupied
  <2>. QED
    BY <1>6, <1>10, <2>1 DEF L!LifecycleNext, Turns
<1>11. CASE Turns(k, o, "new", "held") /\ SameSubject(k, o)
  <2>1. L!Hold(k)
    BY <1>4, <1>7, <1>9, <1>11 DEF L!Hold, subjectOf, Occupied
  <2>. QED
    BY <2>1 DEF L!LifecycleNext
<1>12. CASE Turns(k, o, "held", "leaving") /\ SameSubject(k, o)
  <2>1. L!Leave(k)
    BY <1>4, <1>7, <1>9, <1>12 DEF L!Leave, subjectOf, Occupied
  <2>. QED
    BY <2>1 DEF L!LifecycleNext
<1>13. CASE Turns(k, o, "new", "absent")
  <2>1. L!Withdraw(k)
    BY <1>2, <1>4, <1>5, <1>9, <1>13 DEF L!Withdraw, subjectOf, Occupied, Turns
  <2>. QED
    BY <2>1 DEF L!LifecycleNext
<1>14. CASE Turns(k, o, "leaving", "absent") /\ SubjectOf(api[k]) \notin Occupied
  <2>1. L!Release(k)
    BY <1>2, <1>3, <1>4, <1>5, <1>9, <1>14
       DEF L!Release, subjectOf, Occupied, Turns
  <2>. QED
    BY <2>1 DEF L!LifecycleNext
<1>. QED
  BY <1>8, <1>10, <1>11, <1>12, <1>13, <1>14

\* Where only the server v has subjects, it is its subjects that are occupied.
LEMMA OccupiedAt ==
  ASSUME NEW v \in Servers, OneServerUsed(v)
  PROVE  Occupied = {j \in Subjects : subjects[v][j] # << >>}
BY DEF Occupied, OneServerUsed

\* A call to the registry occupies the subject of its Schema, or clears it.
LEMMA CallIsLifecycleStep ==
  ASSUME NEW v \in Servers, CleanupHypothesis(v), CleanupInv(v), CleanupInv(v)',
         Step, UNCHANGED api
  PROVE  [L!LifecycleNext]_(L!lifecycleVars)
<1>t. /\ TypeOK
      /\ subjects \in [Servers -> [Subjects -> Seq(Contents)]]
  BY DEF CleanupInv, CopiesInv, TypeOK, RegistryTypeOK
<1>s. CASE subjects' = subjects
  BY <1>s DEF L!lifecycleVars
<1>o. /\ Occupied = {j \in Subjects : subjects[v][j] # << >>}
      /\ Occupied' = {j \in Subjects : subjects'[v][j] # << >>}
  BY OccupiedAt DEF CleanupInv, OneServerUsed, Occupied
<1>1. CASE RegisterSchema
  <2>. DEFINE q == Post(server, schema.spec.subject, schema.spec.content)
  <2>1. /\ Answered(q) \/ Unanswered(q)
        /\ q.op = "POST" /\ q.subject = schema.spec.subject /\ q.server = server
    BY <1>1 DEF RegisterSchema, Post
  <2>. HIDE DEF q
  <2>2. \/ subjects' = subjects
        \/ subjects' = [subjects EXCEPT ![q.server][q.subject] =
                          Append(@, q.content)]
    BY <2>1, CallEffect DEF CleanupHypothesis
  <2>3. /\ key \in Keys /\ api[key] # Nil /\ api[key].finalizer
        /\ schema.spec.subject = api[key].spec.subject
        /\ server = v
    BY <1>1, <1>t DEF RegisterSchema, CleanupInv, CopiesInv, FinalizerIsStored,
       SubjectsAgree, OneServerUsed, RegisterCalls, RegistryCalls, TypeOK,
       WorkerTypeOK
  <2>4. ASSUME subjects' = [subjects EXCEPT ![v][api[key].spec.subject] =
                              Append(@, q.content)]
        PROVE  Occupied' = Occupied \cup {api[key].spec.subject}
    <3>1. api[key].spec.subject \in Subjects
      BY <2>3, <1>t DEF TypeOK, ClusterTypeOK, SchemaObject, SchemaSpec
    <3>2. q.content \in Contents
      BY <1>1, <1>t DEF q, Post, RegisterSchema, TypeOK, WorkerTypeOK,
         SchemaObject, SchemaSpec
    <3>3. ASSUME NEW s \in Seq(Contents) PROVE Append(s, q.content) # << >>
      BY <3>2
    <3>. QED
      BY <2>4, <3>1, <3>3, <1>o, <1>t
  <2>5. CASE subjects' # subjects
    <3>1. \E k \in Keys : L!Occupy(k)
      BY <2>1, <2>2, <2>3, <2>4, <2>5 DEF L!Occupy, Phase, Occupied
    <3>. QED
      BY <3>1 DEF L!LifecycleNext
  <2>. QED
    BY <1>s, <2>5
<1>2. CASE DeleteSubject
  <2>. DEFINE q == Delete(server, schema.spec.subject)
  <2>1. /\ Answered(q) \/ Unanswered(q)
        /\ q.op = "DELETE" /\ q.subject = schema.spec.subject /\ q.server = server
    BY <1>2 DEF DeleteSubject, Delete
  <2>. HIDE DEF q
  <2>2. \/ subjects' = subjects
        \/ subjects' = [subjects EXCEPT ![q.server][q.subject] = << >>]
    BY <2>1, CallEffect DEF CleanupHypothesis
  <2>3. server = v /\ schema.spec.subject \in Subjects
    BY <1>2, <1>t DEF DeleteSubject, CleanupInv, OneServerUsed, RegistryCalls,
       TypeOK, WorkerTypeOK, SchemaObject, SchemaSpec
  <2>4. CASE subjects' # subjects
    <3>1. Occupied' = Occupied \ {schema.spec.subject}
      BY <2>1, <2>2, <2>3, <2>4, <1>o, <1>t
    <3>2. \E j \in Subjects : L!Clear(j)
      BY <2>3, <3>1 DEF L!Clear, Occupied
    <3>. QED
      BY <3>2 DEF L!LifecycleNext
  <2>. QED
    BY <1>s, <2>4
<1>3. CASE SetCompatibility
  <2>. DEFINE q == Put(server, schema.spec.subject, schema.spec.level)
  <2>1. (Answered(q) \/ Unanswered(q)) /\ q.op = "PUT"
    BY <1>3 DEF SetCompatibility, Put
  <2>. HIDE DEF q
  <2>. QED
    BY <2>1, <1>s, CallEffect DEF CleanupHypothesis
<1>4. CASE ~RegisterSchema /\ ~DeleteSubject /\ ~SetCompatibility
  BY <1>4, <1>s DEF Step, AddFinalizer, Refetch, BuildClient,
     GetLatestVersion, GetForStatus, PutStatus, GetForFailure, PutFailure,
     BuildClientForDelete, RemoveFinalizer, registryVars
<1>. QED
  BY <1>1, <1>2, <1>3, <1>4

\* A call to the API server stores a finalizer, releases the Schema, or writes
\* a status.
LEMMA WriteIsLifecycleStep ==
  ASSUME NEW v \in Servers, CleanupHypothesis(v), CleanupInv(v), Step,
         ~UNCHANGED api
  PROVE  [L!LifecycleNext]_(L!lifecycleVars)
<1>t. /\ TypeOK /\ CopiesInv
      /\ api \in [Keys -> SchemaObject \cup {Nil}]
  BY DEF CleanupInv, CopiesInv, TypeOK, ClusterTypeOK
<1>a. /\ key \in Keys /\ schema \in SchemaObject /\ schema # Nil
      /\ pc # "idle"
      /\ subjects' = subjects
  BY <1>t, ReconcilerAssumption DEF Step, AddFinalizer, Refetch, BuildClient,
     RegisterSchema, GetLatestVersion, SetCompatibility, GetForStatus, PutStatus,
     GetForFailure, PutFailure, BuildClientForDelete, DeleteSubject,
     RemoveFinalizer, TypeOK, WorkerTypeOK, registryVars
<1>1. ASSUME current, NEW o \in SchemaObject, Store(key, o),
             o.spec = schema.spec, o.deleting = schema.deleting,
             \/ o.finalizer = schema.finalizer
             \/ pc = "addFinalizer" /\ o.finalizer
      PROVE  [L!LifecycleNext]_(L!lifecycleVars)
  <2>1. api[key] = schema
    BY <1>1, <1>a, <1>t DEF CopiesInv, CopyIsStored
  <2>2. pc = "addFinalizer" => ~schema.deleting
    BY <1>t DEF CopiesInv, CopyFitsBranch
  <2>3. o # Nil
    BY ReconcilerAssumption
  <2>4. \/ Phase(o) = Phase(api[key]) /\ SameSubject(key, o)
        \/ Turns(key, o, "new", "held") /\ SameSubject(key, o)
    BY <1>1, <1>a, <2>1, <2>2, <2>3 DEF Phase, SubjectOf, SameSubject, Turns
  <2>. QED
    BY <1>1, <1>a, <1>t, <2>4, WriteIsTurn DEF Store
<1>2. CASE RemoveFinalizer /\ current /\ Store(key, Nil)
  <2>1. /\ api[key] = schema
        /\ schema.deleting /\ schema.finalizer
        /\ subjects[v][schema.spec.subject] = << >>
    BY <1>2, <1>a DEF CleanupInv, CopiesInv, CopyIsStored, CopyFitsBranch,
       DeleteCalls, SubjectIsGone, RemoveFinalizer
  <2>2. schema.spec.subject \notin Occupied
    BY <2>1, OccupiedAt DEF CleanupInv
  <2>3. Turns(key, Nil, "leaving", "absent") /\ SubjectOf(api[key]) \notin Occupied
    BY <1>a, <2>1, <2>2 DEF Turns, Phase, SubjectOf
  <2>. QED
    BY <1>2, <1>a, <1>t, <2>3, WriteIsTurn DEF Store
<1>. QED
  BY <1>1, <1>2, <1>t, StepWrites

\* A user creates, edits or deletes a Schema.
LEMMA UserIsLifecycleStep ==
  ASSUME NEW v \in Servers, CleanupHypothesis(v), TypeOK, User
  PROVE  [L!LifecycleNext]_(L!lifecycleVars)
<1>t. api \in [Keys -> SchemaObject \cup {Nil}]
  BY DEF TypeOK, ClusterTypeOK
<1>1. CASE UNCHANGED << api, registryVars >>
  BY <1>1 DEF registryVars, L!lifecycleVars
<1>2. ASSUME NEW k \in Keys, NEW o \in SchemaObject \cup {Nil}, UserWrites(k, o)
      PROVE  [L!LifecycleNext]_(L!lifecycleVars)
  <2>1. api' = [api EXCEPT ![k] = o] /\ subjects' = subjects
    BY <1>2 DEF UserWrites, UserWrite, Store, registryVars
  <2>2. Nil \notin SchemaObject
    BY ReconcilerAssumption
  <2>3. \/ Phase(o) = Phase(api[k]) /\ SameSubject(k, o)
        \/ Turns(k, o, "absent", "new")
        \/ Turns(k, o, "held", "leaving") /\ SameSubject(k, o)
        \/ Turns(k, o, "new", "absent")
    BY <1>2, <2>2 DEF UserWrites, Phase, SubjectOf, SameSubject, Turns,
       CleanupHypothesis, SchemaObject
  <2>. QED
    BY <2>1, <2>3, <1>t, WriteIsTurn
<1>. QED
  BY <1>1, <1>2, UserSteps

\* The controller keeps the promise of its finalizer.
THEOREM KeepsLifecycle ==
  ASSUME NEW v \in Servers, CleanupHypothesis(v)
  PROVE  Spec => LifecycleKept
<1>1. Init => L!LifecycleInit
  BY DEF Init, ClusterInit, RegistryInit, L!LifecycleInit, Phase
<1>2. ASSUME CleanupInv(v), CleanupInv(v)', [Next]_vars
      PROVE  [L!LifecycleNext]_(L!lifecycleVars)
  <2>1. TypeOK
    BY <1>2 DEF CleanupInv, CopiesInv
  <2>2. CASE Step
    BY <1>2, <2>2, CallIsLifecycleStep, WriteIsLifecycleStep
  <2>3. CASE User
    BY <2>1, <2>3, UserIsLifecycleStep
  <2>4. CASE \/ \E k \in Keys : Dequeue(k) \/ Informer(k) \/ Timer(k)
             \/ Crash \/ LateRequest \/ UNCHANGED vars
    <3>1. late = {}
      BY <1>2 DEF CleanupInv, OneServerUsed
    <3>. QED
      BY <2>4, <3>1 DEF Dequeue, Informer, WatchEvent, Timer, DelayElapses,
         Crash, Restart, Relist, LateRequest, vars, clusterVars, registryVars,
         L!lifecycleVars
  <2>. QED
    BY <1>2, <2>2, <2>3, <2>4 DEF Next
<1>3. CleanupInvariant => CleanupInv(v)
  BY DEF CleanupInvariant
<1>. QED
  BY <1>1, <1>2, <1>3, CleanupCorrect, PTL
     DEF Spec, LifecycleKept, L!LifecycleSpec
=============================================================================

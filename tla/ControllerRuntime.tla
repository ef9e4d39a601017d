------------------------- MODULE ControllerRuntime --------------------------
(***************************************************************************)
(* What the reconcilers use of Kubernetes and of controller-runtime: the   *)
(* API server's objects, the informer cache that mgr.GetClient() reads,    *)
(* the workqueue, and the worker that takes keys from it.                  *)
(*                                                                         *)
(* resourceVersion is abstracted to the one thing an Update tells apart:   *)
(* whether a copy still carries the version stored in the API server.      *)
(* cacheCurrent[k] says so of the cached copy; every write to api[k]       *)
(* clears it.  The queue holds a key at most once, ready or waiting out a  *)
(* RequeueAfter or a backoff, and adding a waiting key makes it ready.     *)
(* The watch may bring the keys in any order.                              *)
(***************************************************************************)
EXTENDS Faults

CONSTANTS
  Keys,     \* NamespacedNames of the objects of one kind
  Nil,      \* no object, an empty field, a nil pointer
  MaxEdits  \* bound on the changes of the environment in a behaviour

ASSUME RuntimeAssumption == MaxEdits \in Nat /\ Nil \notin Keys

VARIABLES
  api,           \* api[k]: the object in the API server, or Nil
  cache,         \* cache[k]: the informer's copy of it, or Nil
  cacheCurrent,  \* cacheCurrent[k]: is the copy the stored version?
  sched,         \* sched[k]: place of k in the workqueue
  pc,            \* the call the worker is about to make
  key,           \* the key being reconciled
  current,       \* does the worker's copy carry the stored resourceVersion?
  edits          \* changes of the environment so far

clusterVars == << api, cache, cacheCurrent, sched >>

SchedStates == {"none", "delayed", "ready"}

ClusterInit ==
  /\ api = [k \in Keys |-> Nil]
  /\ cache = [k \in Keys |-> Nil]
  /\ cacheCurrent = [k \in Keys |-> TRUE]
  /\ sched = [k \in Keys |-> "none"]

\* The queue after the keys K are added by an event.
Enqueue(K) == [k \in Keys |-> IF k \in K THEN "ready" ELSE sched[k]]

\* The queue after the result of a reconcile of k is an error (rate-limited
\* retry) or RequeueAfter: an event added meanwhile keeps the key ready.
Requeue(k) == [sched EXCEPT ![k] = IF @ = "ready" THEN @ ELSE "delayed"]

\* The API server stores o (Nil: removes the object) under k.
Store(k, o) ==
  /\ api' = [api EXCEPT ![k] = o]
  /\ cacheCurrent' = [cacheCurrent EXCEPT ![k] = FALSE]

\* Mutant: a write without the resourceVersion precondition.
UpdatedUnconditionally(o) == Store(key, o) /\ UNCHANGED faults

\* r.Update and r.Status().Update: the API server stores o if the copy is
\* current, or else refuses it (conflict, not found).
Updated(o) ==
  /\ current
  /\ Store(key, o)
  /\ UNCHANGED faults

UpdateError(o) ==
  \/ ~current /\ UNCHANGED << api, cacheCurrent, faults >>
  \/ Fault("apiError") /\ UNCHANGED << api, cacheCurrent >>
  \/ Fault("apiReplyLost") /\ current /\ Store(key, o)

Edit == edits < MaxEdits /\ edits' = edits + 1

\* The watch brings the stored version of k to the cache, and For() adds the
\* key.  Versions in between are skipped: nothing tells them apart.
WatchEvent(k) ==
  /\ ~cacheCurrent[k]
  /\ cache' = [cache EXCEPT ![k] = api[k]]
  /\ cacheCurrent' = [cacheCurrent EXCEPT ![k] = TRUE]
  /\ sched' = Enqueue({k})
  /\ UNCHANGED api

\* The delay or the backoff of k has elapsed.
DelayElapses(k) ==
  /\ sched[k] = "delayed"
  /\ sched' = Enqueue({k})
  /\ UNCHANGED << api, cache, cacheCurrent >>

\* A new manager process lists all objects and adds every one of them.
Relist ==
  /\ cache' = api
  /\ cacheCurrent' = [k \in Keys |-> TRUE]
  /\ sched' = [k \in Keys |-> IF api[k] = Nil THEN "none" ELSE "ready"]
  /\ UNCHANGED api
=============================================================================

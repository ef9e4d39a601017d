-------------------------- MODULE SchemaLifecycle ---------------------------
(***************************************************************************)
(* What the finalizer of a Schema promises, without caches, copies, calls  *)
(* and failures: "A finalizer ensures the subject is removed from the      *)
(* registry before the CR is deleted" (schema_controller.go:53).           *)
(*                                                                         *)
(* A Schema is new, then held by its finalizer, then leaving.  A subject   *)
(* is occupied in the name of a Schema that is held or leaving, may be     *)
(* cleared at any time, and must be clear when such a Schema goes.         *)
(* SchemaReconciler implements this where CleanupHypothesis holds.         *)
(***************************************************************************)
EXTENDS TLAPS

CONSTANTS
  Keys,      \* names of Schema resources
  Subjects,  \* subjects of the registry
  Nil        \* the subject of a Schema that does not exist

VARIABLES
  phase,     \* phase[k]: where k is in its life
  subjectOf, \* subjectOf[k]: its subject, chosen once
  occupied   \* subjects with versions in the registry

lifecycleVars == << phase, subjectOf, occupied >>

Phases == {"absent", "new", "held", "leaving"}

LifecycleInit ==
  /\ phase = [k \in Keys |-> "absent"]
  /\ subjectOf = [k \in Keys |-> Nil]
  /\ occupied = {}

Turn(k, from, to) ==
  /\ phase[k] = from
  /\ phase' = [phase EXCEPT ![k] = to]

Create(k, j) ==
  /\ Turn(k, "absent", "new")
  /\ subjectOf' = [subjectOf EXCEPT ![k] = j]
  /\ UNCHANGED occupied

Hold(k) == Turn(k, "new", "held") /\ UNCHANGED << subjectOf, occupied >>

Leave(k) == Turn(k, "held", "leaving") /\ UNCHANGED << subjectOf, occupied >>

\* Without the finalizer there is nothing to clean up.
Withdraw(k) ==
  /\ Turn(k, "new", "absent")
  /\ subjectOf' = [subjectOf EXCEPT ![k] = Nil]
  /\ UNCHANGED occupied

Release(k) ==
  /\ Turn(k, "leaving", "absent")
  /\ subjectOf[k] \notin occupied
  /\ subjectOf' = [subjectOf EXCEPT ![k] = Nil]
  /\ UNCHANGED occupied

Occupy(k) ==
  /\ phase[k] \in {"held", "leaving"}
  /\ occupied' = occupied \cup {subjectOf[k]}
  /\ UNCHANGED << phase, subjectOf >>

Clear(j) ==
  /\ occupied' = occupied \ {j}
  /\ UNCHANGED << phase, subjectOf >>

LifecycleNext ==
  \/ \E k \in Keys :
       \/ \E j \in Subjects : Create(k, j)
       \/ Hold(k) \/ Leave(k) \/ Withdraw(k) \/ Release(k) \/ Occupy(k)
  \/ \E j \in Subjects : Clear(j)

LifecycleSpec == LifecycleInit /\ [][LifecycleNext]_lifecycleVars

\* No subject stays behind without a Schema that will clear it.
OccupiedIsHeld ==
  \A j \in occupied :
    \E k \in Keys : phase[k] \in {"held", "leaving"} /\ subjectOf[k] = j

\* The promise does what it is made for.
THEOREM Promise == LifecycleSpec => []OccupiedIsHeld
<1>. DEFINE Functions == /\ phase \in [Keys -> Phases]
                         /\ subjectOf \in [Keys -> Subjects \cup {Nil}]
            Inv       == Functions /\ OccupiedIsHeld
<1>1. LifecycleInit => Inv
  BY DEF LifecycleInit, Phases, OccupiedIsHeld
<1>2. Inv /\ [LifecycleNext]_lifecycleVars => Inv'
  <2>. SUFFICES ASSUME Inv, [LifecycleNext]_lifecycleVars PROVE Inv'
    OBVIOUS
  <2>1. ASSUME NEW k \in Keys, NEW j \in Subjects, Create(k, j) PROVE Inv'
    BY <2>1 DEF Create, Turn, Phases, OccupiedIsHeld
  <2>2. ASSUME NEW k \in Keys, Hold(k) \/ Leave(k) PROVE Inv'
    BY <2>2 DEF Hold, Leave, Turn, Phases, OccupiedIsHeld
  <2>3. ASSUME NEW k \in Keys, Withdraw(k) \/ Release(k) PROVE Inv'
    BY <2>3 DEF Withdraw, Release, Turn, Phases, OccupiedIsHeld
  <2>4. ASSUME NEW k \in Keys, Occupy(k) PROVE Inv'
    BY <2>4 DEF Occupy, OccupiedIsHeld
  <2>5. ASSUME NEW j \in Subjects, Clear(j) PROVE Inv'
    BY <2>5 DEF Clear, OccupiedIsHeld
  <2>6. CASE UNCHANGED lifecycleVars
    BY <2>6 DEF lifecycleVars, OccupiedIsHeld
  <2>. QED
    BY <2>1, <2>2, <2>3, <2>4, <2>5, <2>6 DEF LifecycleNext
<1>. QED
  BY <1>1, <1>2, PTL DEF LifecycleSpec
=============================================================================

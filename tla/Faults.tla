------------------------------- MODULE Faults -------------------------------
(***************************************************************************)
(* The faults of the environment, each a disjunct of the call it strikes.  *)
(*                                                                         *)
(* An HTTP request: "unserved" (it never reaches the server, or is         *)
(* answered with an error), "replyLost" (it is served, the client gets an  *)
(* error), "late" (the client gets an error, it is served afterwards).     *)
(* A write to the Kubernetes API: "apiError" (not stored), "apiReplyLost"  *)
(* (stored, the client gets an error).  "crash": the manager dies.         *)
(*                                                                         *)
(* These are bounded.  "down" is not: a server that is out of reach, or    *)
(* that refuses what the client asks or who asks, as often as it likes.    *)
(***************************************************************************)
EXTENDS Naturals

CONSTANTS
  FaultKinds,  \* the faults that may happen
  MaxFaults    \* bound on the number of those that are counted

NetworkFaults == {"unserved", "replyLost", "late"}
ApiFaults     == {"apiError", "apiReplyLost"}

ASSUME FaultAssumption ==
  /\ FaultKinds \subseteq NetworkFaults \cup ApiFaults \cup {"crash", "down"}
  /\ MaxFaults \in Nat

VARIABLE faults  \* counted faults so far

Fault(kind) ==
  /\ kind \in FaultKinds
  /\ faults < MaxFaults
  /\ faults' = faults + 1

Down == "down" \in FaultKinds /\ UNCHANGED faults
=============================================================================

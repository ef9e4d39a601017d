------------------------ MODULE SchemaRegistryClient ------------------------
(***************************************************************************)
(* The HTTP client of the operator (internal/client/client.go) and the     *)
(* Schema Registry servers it talks to.                                    *)
(*                                                                         *)
(* A server keeps, per subject, the sequence of its versions: the number   *)
(* of a version is its position, and after a DELETE counting starts again  *)
(* (no property compares numbers across one).  The registry's id of a      *)
(* schema is identified with the schema's content: equal contents have     *)
(* equal ids.  A call is one request: it is answered, or the client gets   *)
(* an error, and then the server may have served the request, may never    *)
(* serve it, or may serve it LATER: the client gives up after              *)
(* http.Client.Timeout (or dies), which recalls nothing from the wire.     *)
(***************************************************************************)
EXTENDS Faults, Sequences, Functions

CONSTANTS
  Servers,     \* registry endpoints (baseURL)
  Subjects,    \* subjects
  Contents,    \* schema texts, and the registry's ids for them
  Levels,      \* compatibility levels
  Strict,      \* levels under which a subject takes no further content
  Invalid      \* contents every server refuses (status 422)

ASSUME ClientAssumption ==
  /\ Strict \subseteq Levels
  /\ Invalid \subseteq Contents

VARIABLES
  subjects,    \* subjects[v][j]: versions of subject j at server v
  levels,      \* levels[v][j]: the level set for subject j at v, if any
  late         \* requests given up by their client, still to be served

registryVars == << subjects, levels, late, faults >>

(***************************************************************************)
(* The requests that change a server.                                      *)
(***************************************************************************)
PostRequest   == [op : {"POST"}, server : Servers, subject : Subjects,
                  content : Contents]
PutRequest    == [op : {"PUT"}, server : Servers, subject : Subjects,
                  level : Levels]
DeleteRequest == [op : {"DELETE"}, server : Servers, subject : Subjects]
Request       == PostRequest \cup PutRequest \cup DeleteRequest

Post(v, j, c)   == [op |-> "POST", server |-> v, subject |-> j, content |-> c]
Put(v, j, l)    == [op |-> "PUT", server |-> v, subject |-> j, level |-> l]
Delete(v, j)    == [op |-> "DELETE", server |-> v, subject |-> j]

RegistryTypeOK ==
  /\ subjects \in [Servers -> [Subjects -> Seq(Contents)]]
  /\ levels \in [Servers -> [Subjects -> SUBSET Levels]]
  /\ late \subseteq Request
  /\ faults \in 0 .. MaxFaults

RegistryInit ==
  /\ subjects = [v \in Servers |-> [j \in Subjects |-> << >>]]
  /\ levels = [v \in Servers |-> [j \in Subjects |-> {}]]
  /\ late = {}
  /\ faults = 0

Registered(v, j, c) == c \in Range(subjects[v][j])

\* A POST is answered with an error: invalid, or incompatible (409).
Refused(q) ==
  \/ q.content \in Invalid
  \/ /\ subjects[q.server][q.subject] # << >>
     /\ ~Registered(q.server, q.subject, q.content)
     /\ levels[q.server][q.subject] \cap Strict # {}

(***************************************************************************)
(* What a server does with a request.  POST adds a version unless the      *)
(* subject has the content already; DELETE drops all versions of the       *)
(* subject; PUT records the level.                                         *)
(***************************************************************************)
ServePost(q) ==
  /\ q.op = "POST"
  /\ subjects' =
       IF Refused(q) \/ Registered(q.server, q.subject, q.content)
       THEN subjects
       ELSE [subjects EXCEPT ![q.server][q.subject] = Append(@, q.content)]
  /\ UNCHANGED levels

ServePut(q) ==
  /\ q.op = "PUT"
  /\ levels' = [levels EXCEPT ![q.server][q.subject] = {q.level}]
  /\ UNCHANGED subjects

ServeDelete(q) ==
  /\ q.op = "DELETE"
  /\ subjects' = [subjects EXCEPT ![q.server][q.subject] = << >>]
  /\ UNCHANGED levels

Serve(q) == ServePost(q) \/ ServePut(q) \/ ServeDelete(q)

(***************************************************************************)
(* The two ends of a call: the response arrives, or the client returns an  *)
(* error and the fault decides what the server saw of the request.         *)
(***************************************************************************)
Answered(q) == Serve(q) /\ UNCHANGED << late, faults >>

Unserved == Fault("unserved") \/ Down

Unanswered(q) ==
  \/ Unserved /\ UNCHANGED << subjects, levels, late >>
  \/ Fault("replyLost") /\ Serve(q) /\ UNCHANGED late
  \/ Fault("late") /\ late' = late \cup {q} /\ UNCHANGED << subjects, levels >>

\* A request its client has given up reaches the server.
ServeLate(q) ==
  /\ q \in late
  /\ Serve(q)
  /\ late' = late \ {q}
  /\ UNCHANGED faults

\* GET /subjects/{j}/versions/latest; 0 stands for the error (404).
LatestVersion(v, j) == Len(subjects[v][j])
=============================================================================

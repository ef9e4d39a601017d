------------------------- MODULE MCSchemaReconciler -------------------------
(***************************************************************************)
(* Instances of SchemaReconciler for TLC.                                  *)
(***************************************************************************)
EXTENDS SchemaReconciler, TLC

CONSTANTS ns1, ns2, reg, a, b, s1, s2, v1, v2, c1, c2, c3, l1

KeyA == [namespace |-> ns1, name |-> a]
KeyB == [namespace |-> ns2, name |-> b]
KeyC == [namespace |-> ns1, name |-> b]

MySpec(j, c, l, n) ==
  [subject |-> j, content |-> c, level |-> l,
   registryRef |-> [namespace |-> n, name |-> reg]]

\* One subject: new content, a level with it, another way to name the
\* registry.
Contents2(j) == {MySpec(j, c1, Nil, Nil), MySpec(j, c2, l1, ns1)}

\* One key.  Without the webhook a Schema may also move to another subject;
\* c3 is a content that every server refuses.
OneKey          == {KeyA}
OneSubject      == KeyA :> Contents2(s1)
TwoSubjects     == KeyA :> (Contents2(s1) \cup {MySpec(s2, c1, l1, Nil),
                                                MySpec(s1, c3, l1, Nil)})
OneContent      == KeyA :> {MySpec(s1, c1, Nil, Nil)}
SubjectChanged  == KeyA :> (Contents2(s1) \cup {MySpec(s2, c1, Nil, Nil)})

\* Two keys of one namespace, with one subject or with two, one of them with a
\* content that the webhook refuses; a key of another namespace than the
\* registry it refers to.
TwoKeys         == {KeyA, KeyC}
SubjectsMixed   == KeyA :> {MySpec(s1, c, Nil, Nil) : c \in {c1, c2}}
                     @@ KeyC :> {MySpec(j, c1, l1, Nil) : j \in {s1, s2}}
KeyAbroad       == {KeyB}
RegistryAbroad  == KeyB :> {MySpec(s1, c1, Nil, ns1)}

\* A content that the webhook refuses and the server takes (a reference to the
\* version -1, the latest), with a level under which it takes no other; and one
\* that the webhook takes and the server refuses.
Unreferenced    == KeyA :> {MySpec(s1, c1, Nil, Nil), MySpec(s1, c3, l1, ns1),
                            MySpec(s1, c2, Nil, Nil)}
AllAvro         == [c \in Contents |-> "AVRO"]

AllFaults  == NetworkFaults \cup ApiFaults \cup {"crash"}
CalmFaults == AllFaults \ {"late"}
CalmAndDown == CalmFaults \cup {"down"}
=============================================================================

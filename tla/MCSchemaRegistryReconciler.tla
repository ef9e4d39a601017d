--------------------- MODULE MCSchemaRegistryReconciler ---------------------
(***************************************************************************)
(* Instances of SchemaRegistryReconciler for TLC.                          *)
(***************************************************************************)
EXTENDS SchemaRegistryReconciler, TLC

CONSTANTS ns1, ns2, a, b, n1, n2, v1, v2

KeyA == [namespace |-> ns1, name |-> a]
KeyB == [namespace |-> ns2, name |-> b]

MySpec(v, type, secretRef, caSecretRef, insecure) ==
  [url |-> v, auth |-> [type |-> type, secretRef |-> secretRef,
                        caSecretRef |-> caSecretRef],
   insecureSkipVerify |-> insecure]

\* mTLS, its CA in a Secret of its own or unchecked; basic authentication
\* with either Secret; none; and a reference that is empty, which only the
\* webhook refuses.
TLSSpecs   == {MySpec(v1, "MTLS", n1, n2, FALSE),
               MySpec(v1, "MTLS", n1, "", TRUE)}
BasicSpecs == {MySpec(v2, "BASIC", n1, "", FALSE),
               MySpec(v2, "BASIC", n2, "", FALSE)}
Nameless   == {MySpec(v2, "BASIC", "", "", FALSE)}
OpenSpecs  == {MySpec(v1, "NONE", "", "", FALSE)} \cup Nameless

OneKey  == {KeyA}
TwoKeys == {KeyA, KeyB}

DemandTLSAndBasic == v1 :> "MTLS" @@ v2 :> "BASIC"

OneOfTLS   == KeyA :> TLSSpecs
OneOfAny   == KeyA :> (TLSSpecs \cup BasicSpecs \cup OpenSpecs)
TwoOfBoth  == KeyA :> {MySpec(v1, "MTLS", n1, n2, FALSE)}
                @@ KeyB :> (BasicSpecs \cup Nameless)

\* A health check is a read: whether a server sees it makes no difference.
AllFaults == {"unserved", "crash"} \cup ApiFaults
=============================================================================

-------------------------- MODULE MCSchemaOperator --------------------------
(***************************************************************************)
(* Instances of SchemaOperator for TLC: one Schema, one SchemaRegistry of  *)
(* an open server, or one that moves between it and a server with basic    *)
(* authentication.                                                         *)
(***************************************************************************)
EXTENDS SchemaOperator, TLC

CONSTANTS ns1, reg, a, n1, s1, v1, v2, c1, l1

Key == [namespace |-> ns1, name |-> a]

MySpec(l) == [subject |-> s1, content |-> c1, level |-> l,
              registryRef |-> [namespace |-> Nil, name |-> reg]]

MyRegistry(v, type, secretRef) ==
  [url |-> v, auth |-> [type |-> type, secretRef |-> secretRef,
                        caSecretRef |-> ""],
   insecureSkipVerify |-> FALSE]

OneKey     == {Key}
OneSchema  == Key :> {MySpec(l1)}
NoLevel    == Key :> {MySpec(Nil)}
OneOrTwoServers ==
  [namespace |-> ns1, name |-> reg] :>
    {MyRegistry(v, IF v = v1 THEN "NONE" ELSE "BASIC",
                   IF v = v1 THEN "" ELSE n1) : v \in Servers}
OpenAndBasic == [v \in Servers |-> IF v = v1 THEN "NONE" ELSE "BASIC"]
=============================================================================

----------------------------- MODULE AuthConfig -----------------------------
(***************************************************************************)
(* The credentials of a SchemaRegistry: what loadAuthConfig                *)
(* (internal/controller/helpers.go) makes of spec.auth and of the Secrets  *)
(* it names, what the HTTP client does with it, and the Secrets by which   *)
(* the controller finds the registries a Secret concerns.                  *)
(*                                                                         *)
(* A Secret is abstracted to its worth: "valid" (the right credentials or  *)
(* certificates), "refused" (well-formed, and of no use at the server),    *)
(* "garbled" (without the expected keys, or unreadable), or "absent".      *)
(***************************************************************************)
CONSTANT SecretNames  \* names of Secrets

ASSUME AuthAssumption == "" \notin SecretNames

AuthTypes    == {"NONE", "BASIC", "BEARER", "MTLS"}
SecretStates == {"valid", "refused", "garbled", "absent"}

\* spec.auth, of type NONE where it is nil.  secretRef is the reference in
\* the struct that goes with the type (basicAuth, bearerAuth, mtls); "" where
\* there is none.
Auth == [type : AuthTypes, secretRef : SecretNames \cup {""},
         caSecretRef : SecretNames \cup {""}]

\* The Secrets that are read: the credentials of every type but NONE, the CA
\* of MTLS.
NeedsSecret(auth) == auth.type # "NONE"
NeedsCA(auth)     == auth.type = "MTLS" /\ auth.caSecretRef # ""

\* The Secret read under a name; data[n] is the Secret n in the namespace of
\* the registry.
Read(data, name) == IF name = "" THEN "absent" ELSE data[name]

\* loadAuthConfig returns an error.  Credentials without their keys are no
\* error, nor is an unreadable CA (the result of AppendCertsFromPEM is
\* dropped).
LoadFails(auth, data) ==
  \/ NeedsSecret(auth) /\ Read(data, auth.secretRef) = "absent"
  \/ auth.type = "MTLS" /\ Read(data, auth.secretRef) = "garbled"
  \/ NeedsCA(auth) /\ Read(data, auth.caSecretRef) = "absent"

\* The AuthConfig of a load that succeeds; "absent" stands for no credentials
\* and for no CA.
LoadAuthConfig(auth, data) ==
  [type        |-> auth.type,
   credentials |-> IF NeedsSecret(auth) THEN Read(data, auth.secretRef)
                                        ELSE "absent",
   ca          |-> IF NeedsCA(auth) THEN Read(data, auth.caSecretRef)
                                    ELSE "absent"]

AuthConfigs == [type : AuthTypes, credentials : SecretStates,
                ca : SecretStates]

NoAuth == [type |-> "NONE", credentials |-> "absent", ca |-> "absent"]

\* NewClient and addAuth: the client takes the server for what it claims to
\* be, and the server, which demands one type of authentication, lets it in.
\* With a CA of its own the client trusts no other.
ServerTrusted(config, insecureSkipVerify) ==
  insecureSkipVerify \/ config.ca \in {"absent", "valid"}

ClientAdmitted(config, demand) ==
  \/ demand = "NONE"
  \/ config.type = demand /\ config.credentials = "valid"

\* schemaRegistryReferencesSecret.
ReferencesSecret(auth, name) ==
  \/ NeedsSecret(auth) /\ auth.secretRef = name
  \/ auth.type = "MTLS" /\ auth.caSecretRef = name
=============================================================================

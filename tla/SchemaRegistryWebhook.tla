----------------------- MODULE SchemaRegistryWebhook ------------------------
(***************************************************************************)
(* The validating webhook of SchemaRegistry                                *)
(* (internal/webhook/v1alpha1/schemaregistry_webhook.go), the same for a   *)
(* create and an update.  Of the reference of MTLS to a CA it asks         *)
(* nothing, and it looks at no Secret.  url and timeout are sound: a spec  *)
(* names a server.                                                         *)
(***************************************************************************)
EXTENDS AuthConfig

\* Mutant: the secretRef of basicAuth is not looked at.
ValidateCertificatesOnly(spec) ==
  spec.auth.type \in {"BEARER", "MTLS"} => spec.auth.secretRef # ""

\* The struct that goes with the type is there, with a reference in it.
ValidateSchemaRegistrySpec(spec) ==
  NeedsSecret(spec.auth) => spec.auth.secretRef # ""
=============================================================================

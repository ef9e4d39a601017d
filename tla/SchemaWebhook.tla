--------------------------- MODULE SchemaWebhook ----------------------------
(***************************************************************************)
(* The validating webhook of Schema                                        *)
(* (internal/webhook/v1alpha1/schema_webhook.go).  It sees every create    *)
(* and update of the resource, whoever sends it; deletions and updates of  *)
(* the status pass it by.  A content stands for schemaType, schema and     *)
(* references; the API server itself refuses an empty subject or schema.   *)
(***************************************************************************)
CONSTANTS
  SchemaType,      \* SchemaType[c]: schemaType of the content c
  ValidJSON,       \* contents whose schema is valid JSON
  ValidReferences  \* contents whose references have name, subject, version >= 1

ValidateSchemaSpec(spec) ==
  /\ spec.registryRef.name # ""
  /\ SchemaType[spec.content] \in {"AVRO", "JSON"} => spec.content \in ValidJSON
  /\ spec.content \in ValidReferences

\* Mutant: the subject may change.
ValidateUpdateOfType(old, new) ==
  /\ SchemaType[old.content] = SchemaType[new.content]
  /\ ValidateSchemaSpec(new)

\* Mutant: an update is not validated otherwise.
ValidateImmutables(old, new) ==
  /\ old.subject = new.subject
  /\ SchemaType[old.content] = SchemaType[new.content]

\* subject and schemaType are immutable, and the new spec is validated as if
\* it were created.
ValidateUpdate(old, new) ==
  /\ old.subject = new.subject
  /\ SchemaType[old.content] = SchemaType[new.content]
  /\ ValidateSchemaSpec(new)
=============================================================================

SPECIFICATION Spec
CONSTANTS
  Nil = Nil
  ns1 = ns1
  ns2 = ns2
  reg = reg
  a = a
  b = b
  s1 = s1
  s2 = s2
  v1 = v1
  v2 = v2
  c1 = c1
  c2 = c2
  c3 = c3
  l1 = l1
  Keys <- OneKey
  Servers = {v1}
  Subjects = {s1, s2}
  Contents = {c1, c2, c3}
  Levels = {l1}
  Strict = {l1}
  Invalid = {c3}
  FaultKinds <- AllFaults
  MaxFaults = 2
  Namespaces = {ns1}
  RegistryNames = {reg}
  Specs <- TwoSubjects
  RegistryURLs = {v1, Nil}
  SecretsVary = TRUE
  WebhookModes = {FALSE}
  SchemaType <- AllAvro
  ValidJSON = {c1, c2, c3}
  ValidReferences = {c1, c2, c3}
  MaxEdits = 3
INVARIANTS TypeOK FinalizerGuardsRegistration CopiesInv SettledSchemaIsReady SettledInv
PROPERTY UserIntentPreserved
CHECK_DEADLOCK FALSE

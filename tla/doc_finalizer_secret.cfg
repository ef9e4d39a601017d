SPECIFICATION Spec
CONSTANTS
  Nil = Nil
  ns1 = ns1
  ns2 = ns2
  reg = reg
  a = a
  b = b
  s1 = s1
  s2 = s2
  v1 = v1
  v2 = v2
  c1 = c1
  c2 = c2
  c3 = c3
  l1 = l1
  Keys <- OneKey
  Servers = {v1}
  Subjects = {s1}
  Contents = {c1, c2}
  Levels = {l1}
  Strict = {}
  Invalid = {}
  FaultKinds = {}
  MaxFaults = 0
  Namespaces = {ns1}
  RegistryNames = {reg}
  Specs <- OneContent
  RegistryURLs = {v1}
  SecretsVary = TRUE
  WebhookModes = {TRUE}
  SchemaType <- AllAvro
  ValidJSON = {c1, c2, c3}
  ValidReferences = {c1, c2, c3}
  MaxEdits = 3
INVARIANT NoOrphanedSubject
CHECK_DEADLOCK FALSE

SPECIFICATION FairSpec
CONSTANTS
  Nil = Nil
  ns1 = ns1
  reg = reg
  a = a
  n1 = n1
  s1 = s1
  v1 = v1
  v2 = v2
  c1 = c1
  l1 = l1
  Namespaces = {ns1}
  RegistryNames = {reg}
  SecretNames = {}
  SchemaKeys <- OneKey
  Servers = {v1}
  Subjects = {s1}
  Contents = {c1}
  Levels = {l1}
  Demands <- OpenAndBasic
  SchemaSpecs <- OneSchema
  RegistrySpecs <- OneOrTwoServers
  SecretData = {"valid"}
  FaultKinds = {"late"}
  MaxFaults = 1
  MaxEdits = 2
  Outsiders = TRUE
PROPERTY SchemasHeal
CHECK_DEADLOCK FALSE

SPECIFICATION Spec
CONSTANTS
  Nil = Nil
  ns1 = ns1
  reg = reg
  a = a
  n1 = n1
  s1 = s1
  v1 = v1
  v2 = v2
  c1 = c1
  l1 = l1
  Namespaces = {ns1}
  RegistryNames = {reg}
  SecretNames = {n1}
  SchemaKeys <- OneKey
  Servers = {v1, v2}
  Subjects = {s1}
  Contents = {c1}
  Levels = {}
  Demands <- OpenAndBasic
  SchemaSpecs <- NoLevel
  RegistrySpecs <- OneOrTwoServers
  SecretData = {"valid", "absent"}
  FaultKinds = {"crash"}
  MaxFaults = 1
  MaxEdits = 2
  Outsiders = FALSE
INVARIANTS
  TypeOK
  ControllersKeepPromises
  SettledSchemaIsServed
PROPERTY UsersGetTheirWay
CHECK_DEADLOCK FALSE

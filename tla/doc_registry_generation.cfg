SPECIFICATION Spec
CONSTANTS
  Nil = Nil
  ns1 = ns1
  ns2 = ns2
  a = a
  b = b
  n1 = n1
  n2 = n2
  v1 = v1
  v2 = v2
  Keys <- OneKey
  Namespaces = {ns1}
  Servers = {v1, v2}
  SecretNames = {n1, n2}
  Demands <- DemandTLSAndBasic
  Specs <- OneOfTLS
  SecretData = {"valid"}
  WebhooksEnabled = FALSE
  Outages = FALSE
  FaultKinds = {}
  MaxFaults = 0
  MaxEdits = 2
INVARIANT ObservedGenerationIsCurrent
CHECK_DEADLOCK FALSE

SPECIFICATION Spec
CONSTANTS
  Nil = Nil
  ns1 = ns1
  ns2 = ns2
  a = a
  b = b
  n1 = n1
  n2 = n2
  v1 = v1
  v2 = v2
  Keys <- TwoKeys
  Namespaces = {ns1, ns2}
  Servers = {v1, v2}
  SecretNames = {n1, n2}
  Demands <- DemandTLSAndBasic
  Specs <- TwoOfBoth
  SecretData = {"valid", "refused", "garbled", "absent"}
  WebhooksEnabled = TRUE
  Outages = FALSE
  FaultKinds = {"apiReplyLost", "crash"}
  MaxFaults = 1
  MaxEdits = 4
INVARIANTS WaitingStatusIsTrue StatusInv SecretCanMend
CHECK_DEADLOCK FALSE

CONSTANTS
  n1 = n1
  n2 = n2
  Nodes = {n1, n2}
  NoNode = NoNode
  N = 3
  Declares <- BothDeclareAll
  MaxRegistryChanges = 1
  Graphs <- AllGraphs
  Policies = {"local"}
  AuditMayFail = FALSE
SPECIFICATION Spec
CHECK_DEADLOCK FALSE
INVARIANT CompletedIsReported

CONSTANTS
  k1 = k1
  k2 = k2
  k3 = k3
  Keys = {k1, k2, k3}
  MaxFlows = 2
  FlowQueue = 2
  MaxAssocFlows = 1
  RecentMax = 2
  MaxIds = 3
  Envs <- AllEnvs
SPECIFICATION LiveSpec
INVARIANT ConnsAddUp
INVARIANT InOrder
PROPERTY FlowsEnd
CHECK_DEADLOCK FALSE

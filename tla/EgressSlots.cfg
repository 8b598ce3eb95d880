CONSTANTS
  A = A
  B = B
  Exits = {A, B}
  NoExit = NoExit
  a1 = a1
  a2 = a2
  k1 = k1
  k2 = k2
  Appliers = {a1, a2}
  Keyers = {k1, k2}
  Envs <- AllEnvs
SPECIFICATION LiveSpec
CHECK_DEADLOCK FALSE
INVARIANT OneServer
INVARIANT StopsAreFinal
PROPERTY EventuallyPinned
PROPERTY KeyReachesWaiting

CONSTANTS
  Prefixes = {p1, p2}
  r1 = r1
  r2 = r2
  op1 = op1
  Reloaders = {r1, r2}
  Operators = {op1}
  Envs <- AllEnvs
  NoThread = NoThread
SPECIFICATION LiveSpec
CHECK_DEADLOCK FALSE
INVARIANT CleanExit
INVARIANT SelfHeal
PROPERTY CallsReturn

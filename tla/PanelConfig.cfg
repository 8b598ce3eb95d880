CONSTANTS
  x = x
  y = y
  Names = {x}
  s1 = s1
  s2 = s2
  Sessions = {s1, s2}
  NoSession = NoSession
  Envs <- AllEnvs
SPECIFICATION Spec
INVARIANT EgressFollowsConfig
PROPERTY NoLostEdit

CONSTANTS
  x = x
  y = y
  Names = {x, y}
  s1 = s1
  s2 = s2
  Sessions = {s1, s2}
  NoSession = NoSession
  Envs <- EgressEnvs
SPECIFICATION Spec
PROPERTY NoOverwrite

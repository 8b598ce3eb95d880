CONSTANTS
  www = www
  cdn = cdn
  a1 = a1
  a2 = a2
  web = web
  tls = tls
  px = px
  Names = {www, cdn}
  Addrs = {a1, a2}
  Ports = {web, tls}
  Direct = Direct
  Targets = {px, Direct}
  NoName = NoName
  NoAddr = NoAddr
  None = None
  PortFirst = PortFirst
  Shadowed = Shadowed
  Unshadowed = Unshadowed
  SomePorts = SomePorts
  Engines <- AllEngines
  RulesOf <- AllRules
  BlockLists <- AllLists
  ApplyEvery = 1
  Envs <- StopEnvs
SPECIFICATION Spec
CHECK_DEADLOCK FALSE
INVARIANT CloseRemovesRules

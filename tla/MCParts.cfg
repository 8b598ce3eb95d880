SPECIFICATION Spec
CONSTANTS
  s1 = s1
  s2 = s2
  d1 = d1
  d2 = d2
  r = r
  k1 = k1
  k2 = k2
  Starters = {s1, s2}
  Runs = {r}
  Stoppers = {k1, k2}
  Child <- MCChild
  Old = old
  None = None
  Envs <- MCEnvs
  Names = {n1, n2, n3, n4, n5}
  Span = 6
  MaxEntries = 4
  NoName = NoName
  NoOff = NoOff
  MaxGiven = 9
  Paths <- MCPaths
  Addrs = {"pub", "pub2", "priv"}
  ClassOf <- Cls
  Streams <- MCStreams
  MaxPeek = 10
  MaxHTTP = 5
  Clients <- MCClients
  MaxCrypto = 8
  MaxPackets = 4
  Fronts <- MCFronts
  MaxAttempts = 3
  Lookups = {"l1", "l2"}
  MinTTL = 2
  MaxTTL = 3
  Zones <- MCZones
  Hosts <- MCHosts
INVARIANT TokenAgreed
INVARIANT StartTellsTruth
INVARIANT ServingHasRules
INVARIANT StateNamesServer
INVARIANT AnswerRoundTrip
PROPERTY FollowsQueue
INVARIANT OnlyAllowed
INVARIANT AnswersTrue
PROPERTY DataArrives
PROPERTY PathEnds
INVARIANT NameIsTrue
PROPERTY AllReplayed
INVARIANT HelloFound
INVARIANT AnswersRight
PROPERTY AllAnswered
INVARIANT ServedTrue
PROPERTY PanelFollowsNode
CHECK_DEADLOCK FALSE

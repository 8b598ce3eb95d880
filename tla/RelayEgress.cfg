CONSTANTS
  t1 = t1
  t2 = t2
  p1 = p1
  p2 = p2
  lo = lo
  ts = ts
  Tokens = {t1, t2}
  NoToken = NoToken
  BadToken = BadToken
  Addrs = {lo, ts}
  Loopback = {lo}
  Down = Down
  Requests = {p1, p2}
  Dialers = {dialer}
  Health = Health
  Envs <- AllEnvs
SPECIFICATION LiveSpec
CHECK_DEADLOCK FALSE
INVARIANT SavedTokenIsUsed
INVARIANT RemovedAreStopped
INVARIANT PickIsBest
PROPERTY StateFollows
PROPERTY CallsReturn
PROPERTY HealthRecovers

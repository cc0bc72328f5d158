SPECIFICATION FairSpec
CONSTANTS
  i1 = i1
  i2 = i2
  r1 = r1
  r2 = r2
  r3 = r3
  info = info
  auth = auth
  Nil = Nil
  Instances = {i1}
  Requests = {r1, r2}
  Host <- OneHost
  InfoKeys = {info}
  AuthKeys = {}
  Rewrites <- AllAuth
  MaxVersion = 3
  MaxPending = 2
  Faults = {"redis", "db", "lag", "loss", "slow", "crash", "retry"}
CHECK_DEADLOCK FALSE
PROPERTIES EventuallyConsistent LocksAreFreed CirculationSpec

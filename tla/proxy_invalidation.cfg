SPECIFICATION Spec
CONSTANTS
  i1 = i1
  i2 = i2
  r1 = r1
  r2 = r2
  r3 = r3
  info = info
  auth = auth
  Nil = Nil
  Instances = {i1, i2}
  Requests = {r1, r2, r3}
  Host <- SplitHosts
  InfoKeys = {info}
  AuthKeys = {}
  Rewrites <- AllAuth
  MaxVersion = 3
  MaxPending = 0
  Faults = {"lag", "slow", "retry"}
SYMMETRY PeerSymmetry
CHECK_DEADLOCK FALSE
INVARIANTS StaleIsDoomed

SPECIFICATION Spec
CONSTANTS
  i1 = i1
  i2 = i2
  r1 = r1
  r2 = r2
  r3 = r3
  info = info
  auth = auth
  Nil = Nil
  Instances = {i1, i2}
  Requests = {r1, r2}
  Host <- SplitHosts
  InfoKeys = {info}
  AuthKeys = {auth}
  Rewrites <- AllAuth
  MaxVersion = 2
  MaxPending = 0
  Faults = {"crash", "db", "loss", "retry"}
CHECK_DEADLOCK FALSE
INVARIANTS TypeOK CoalescedLoad FillsNeverRegress RedisNeverRegresses
PROPERTIES CirculationSpec

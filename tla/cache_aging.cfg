SPECIFICATION Spec
CONSTANTS
  i1 = i1
  Instances = {i1}
  Requests = {r1, r2}
  Host <- OneHost
  Replicas = {replica}
  ExpirationSeconds = 1
  Jitter = 1
  LifeWindow = 2
  CleanWindow = 1
  TokenLife = 2
  HoldTime = 1
  Master = master
  Nil = Nil
CHECK_DEADLOCK FALSE
SYMMETRY Symmetry
INVARIANTS AgingTypeOK AnswersAreRecent SessionsEnd

SPECIFICATION FairSpec
CONSTANTS
  m1 = m1
  m2 = m2
  m3 = m3
  k1 = k1
  k2 = k2
  Nil = Nil
  Workers = {w1, w2}
  Tasks = {m1, m2, m3}
  Keys = {k1, k2}
  KeyOf <- TwoOfOneKey
  Callers = {subscriber, closer}
  Subscriber = subscriber
  Closer = closer
  ChannelSize = 2
CHECK_DEADLOCK FALSE
INVARIANTS CleanerTypeOK CloseIsAllOrNothing LoopNeverStuck
PROPERTIES InvalidationSpec CloseStopsStarted EveryMessageApplied CloseReturns

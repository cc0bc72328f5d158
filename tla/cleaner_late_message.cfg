SPECIFICATION Spec
CONSTANTS
  m1 = m1
  m2 = m2
  m3 = m3
  k1 = k1
  k2 = k2
  Nil = Nil
  Workers = {w1}
  Tasks = {m1}
  Keys = {k1, k2}
  KeyOf <- TwoOfOneKey
  Callers = {subscriber, closer}
  Subscriber = subscriber
  Closer = closer
  ChannelSize = 1
CHECK_DEADLOCK FALSE
INVARIANTS NoSendOnClosed

SPECIFICATION FairPoolSpec
CONSTANTS
  Workers = {w1, w2}
  Callers = {c1, c2}
  Tasks = {t1, t2, t3, t4}
  Nil = Nil
CHECK_DEADLOCK FALSE
INVARIANTS PoolTypeOK WaitCoversWork NobodyStuck
PROPERTIES ServiceSpec StopDrains

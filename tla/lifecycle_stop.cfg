SPECIFICATION FairSpec
CONSTANTS
  Handlers = {h1, h2}
  Rpcs = {q1}
CHECK_DEADLOCK FALSE
INVARIANTS LifecycleTypeOK ResourcesOutliveRequests StopIsOrderly
PROPERTIES SignalEndsProcess

SPECIFICATION FairSpec
CONSTANTS
  t1 = t1
  t2 = t2
  Threads <- TwoThreads
  NoThread = NoThread
  Strategy = "ErrorCount"
  Threshold = 2
  Scale = 1
  MinRequestAmount = 1
  RetryTimeout = 2
  ProbeNum = 0
  StatCap = 2
INVARIANTS TypeOK HalfOpenOwned TimeoutArmed
PROPERTIES ImplementsMachine ImplementsFairMachine

SPECIFICATION FairSpec
CONSTANTS
  e1 = e1
  e2 = e2
  c1 = c1
  c2 = c2
  o1 = o1
  o2 = o2
  n1 = n1
  n2 = n2
  Entries <- TwoEntries
  Contexts <- TwoContexts
  Options <- TwoOptions
  Nodes <- TwoNodes
  None = None
  StatSlots = 2
  Threshold = 1
  Named <- First
  Grayed <- First
  Faulty <- First
INVARIANTS TypeOK ContextPartition ErrorsOwned ConcurrencyExact
PROPERTIES EveryEntryFinishes

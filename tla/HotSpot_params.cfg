SPECIFICATION FairSpec
CONSTANTS
  NumRequests = 3
  x = x
  y = y
  key = key
  header = header
  meta = meta
  Args <- AllArgs
  NoArg = NoArg
  Blank = Blank
  Inputs <- AllInputs
  Parsable <- Ints
  Batches = {1}
  RuleLists <- Strategies
  LastStart = 1
  MaxClock = 4
INVARIANTS TypeOK TokensInBucket ConcurrencyExact RateKept Spaced
PROPERTIES SlotGetsEmpty

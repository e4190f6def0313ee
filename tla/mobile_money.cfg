SPECIFICATION FairSpec
CONSTANTS
  MaxKeys = 3
  MaxEntries = 2
  None = None
  Account = {a1, a2}
  Savings = {}
  Fault <- EveryFault
INVARIANTS
  TypeOK
  RecordedOncePerAnswer
  ConflictMeansReversed
PROPERTIES
  HistoryCatchesUp

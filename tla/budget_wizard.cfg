SPECIFICATION FairSpec
CONSTANTS
  Category = {c1}
  Suggested = Suggested
  MaxMoney = 2
  MaxSubmits = 2
  Fault <- EveryFault
INVARIANTS
  TypeOK
  OneActiveBudget
PROPERTIES
  ActiveIsShown

SPECIFICATION FairSpec
CONSTANTS
  MaxCalls = 3
  None = None
  Call = {c1, c2}
  Token = {t1, t2, t3, t4, t5, t6, t7, t8, t9, t10, t11}
  Kind <- Everything
  Fault <- EveryFault
INVARIANTS
  TypeOK
  KeepsSession
  LoggedOutStays
PROPERTIES
  HydrationEnds
  CallsSettle

SPECIFICATION FairSpec
CONSTANTS
  Parts = 3
  Zones <- AllZones
  DueDays = {1, 2}
  MonthLength <- ShortMonths
  FirstMonth = 2
  LastMonth = 3
  Offsets = 1
  MaxTaps = 2
  Fault <- EveryFault
INVARIANTS
  TypeOK
  ChargedOncePerPeriod
  LunasMeansPaid
  CountsTheDays
  ReportsAddUp
PROPERTIES
  PaidIsShown

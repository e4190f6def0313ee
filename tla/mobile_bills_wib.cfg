SPECIFICATION FairSpec
CONSTANTS
  Parts = 3
  Zones = {1}
  DueDays = {1, 2}
  MonthLength <- ShortMonths
  FirstMonth = 2
  LastMonth = 3
  Offsets = 1
  MaxTaps = 2
  Fault <- EveryFault
PROPERTIES
  StopsAsking

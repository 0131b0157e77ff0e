SPECIFICATION FairSpec
CONSTANTS
  Conns = {x, y}
  HoursPerDay = 2
  DaysPerMonth = 2
  Zones = {0, 1}
  FirstZone = 0
  Terms = {0, 1}
  Limits = {1, 2}
  LastHour = 6
  LastDay = 3
  MaxBytes = 1
  MaxCommands = 4
INVARIANTS TypeOK DisabledByHandStays ExpiredStays TermKept
PROPERTY LimitLastsItsPeriod

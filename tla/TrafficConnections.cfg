SPECIFICATION FairSpec
CONSTANTS
  Clients = {alice}
  Conns = {x, y}
  Routes = {r1}
  DefaultRoute = r1
  NoRoute = noroute
  CascadeOn = FALSE
  Timers = {timer}
  ExecStop = execstop
  NoSync = nosync
  MaxBytes = 1
  MaxRuns = 2
  MaxMishaps = 0
INVARIANTS TypeOK TotalsAddUp MovesCountOnce
PROPERTY EveryWaitEnds

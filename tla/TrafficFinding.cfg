SPECIFICATION Spec
CONSTANTS
  Clients = {alice}
  Conns = {x}
  Routes = {r1}
  DefaultRoute = r1
  NoRoute = noroute
  CascadeOn = FALSE
  Timers = {timer}
  ExecStop = execstop
  NoSync = nosync
  MaxBytes = 2
  MaxRuns = 2
  MaxMishaps = 0
PROPERTIES RestartCountsFromZero

SPECIFICATION Spec
CONSTANTS
  Clients = {alice}
  Conns = {x}
  Routes = {r1}
  DefaultRoute = r1
  NoRoute = noroute
  CascadeOn = FALSE
  Timers = {timer, hand}
  ExecStop = execstop
  NoSync = nosync
  MaxBytes = 1
  MaxRuns = 3
  MaxMishaps = 1
SYMMETRY TimerSymmetry
INVARIANT NeverOvercounts

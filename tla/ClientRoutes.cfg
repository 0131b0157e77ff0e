SPECIFICATION FairSpec
CONSTANTS
  Clients = {alice}
  Conns = {x}
  Routes = {r1, r2}
  DefaultRoute = r1
  NoRoute = noroute
  CascadeOn = TRUE
  Procs = {p1, p2}
  NoProc = noproc
INVARIANTS XrayFollowsConfig
PROPERTIES EveryCommandEnds

SPECIFICATION Spec
CONSTANTS
  Clients = {alice}
  Conns = {x, y}
  Routes = {r1}
  DefaultRoute = r1
  NoRoute = noroute
  CascadeOn = FALSE
  Procs = {p1, p2}
  NoProc = noproc
SYMMETRY ProcSymmetry
INVARIANTS TypeOK StoresAgree SnapshotFresh
PROPERTIES CommitFollowsConfig CommandsAreAtomic

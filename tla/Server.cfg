SPECIFICATION FairSpec
CONSTANTS
  Procs = {p1, p2}
  Timer = p2
  NoProc = noproc
  Kits <- SmallKits
  Down = down
  Nothing = nothing
  Clients = {alice}
  Cascades = {c1, c2}
  Bypasses = {b1, b2}
  Regions = {ru, us}
  Targets = {t1}
  Default = r1
  Reals = {r1, r2}
  Fronts = {f1, f2}
  Ports = {8443, 2053, 444}
  Looks = {l1, l2}
  Domains = {d1, d2}
  People = {ann, bob}
INVARIANTS
  TypeOK
  ConfigSound
  ChoiceApplies
  StrategyReturns
  StoresMatch
  ServicesFollow
  FilesWhole
  PanelSound
PROPERTIES
  BlocksGetIn

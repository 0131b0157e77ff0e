SPECIFICATION FairSpec
CONSTANTS
  Clients = {alice, bob}
  Procs = {timer, hand}
  Timer = timer
  NoProc = noproc
  Inodes = {i1, i2, i3}
  NoFile = nofile
  Kits <- SmallKits
  MaxLines = 2
  MaxByHand = 2
  MaxMishaps = 1
  Chats = {alice}
  MaxDays = 2
INVARIANTS TypeOK CountedOnce NoneLost NothingPassedOver SummaryOnce
PROPERTIES EventsGetThrough

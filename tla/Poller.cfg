SPECIFICATION Spec
CONSTANTS
  Pollers = {service, manual}
  Service = service
  Owner = owning
  NoOne = noone
  MaxSent = 2
  MaxTries = 1
  MaxNotices = 0
  MaxKills = 1
  MaxAges = 1
INVARIANTS TypeOK HandledOnce NothingLost WorksForOwner OvertakenOnce
SYMMETRY PollerSymmetry

SPECIFICATION FairSpec
CONSTANTS
  Pollers = {service}
  Service = service
  Owner = owning
  NoOne = noone
  MaxSent = 2
  MaxTries = 1
  MaxNotices = 0
  MaxKills = 1
  MaxAges = 0
PROPERTIES EveryUpdateHandled OwnerGetsIn

SPECIFICATION Spec
CONSTANTS
  Pollers = {service}
  Service = service
  Owner = owning
  NoOne = noone
  MaxSent = 2
  MaxTries = 0
  MaxNotices = 2
  MaxKills = 1
  MaxAges = 0
INVARIANT NoticesOnce

SPECIFICATION Spec
CONSTANTS
  Pollers = {service}
  Service = service
  Owner = owning
  NoOne = noone
  MaxSent = 2
  MaxTries = 0
  MaxNotices = 1
  MaxKills = 0
  MaxAges = 0
INVARIANTS ButtonOnceAlways

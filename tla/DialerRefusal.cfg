\* The refusal to reset is decided by a count that is never pruned.
SPECIFICATION Spec
CONSTANTS
  Rungs = 1
  RegSubs = 1
  IpPolls = 1
  Limit = 1
  Window = 1
  LedgerMax = 2
  MaxClock = 1
  Kinds = {"ecm"}
  Confs = {{"apn", "reset"}}
PROPERTY RefusalIsTrue

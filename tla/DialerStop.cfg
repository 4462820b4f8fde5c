\* A stop after a respawn sends no disconnect; one context, so that none is
\* left open for having been configured away.
SPECIFICATION SessionSpec
CONSTANTS
  Rungs = 1
  RegSubs = 2
  IpPolls = 2
  Limit = 1
  Window = 1
  LedgerMax = 2
  MaxClock = 1
  Kinds = {"ecm", "other"}
  Confs = {{"apn"}, {"apn", "auto"}, {}}
  Cids = {1}
PROPERTY StopDisconnects

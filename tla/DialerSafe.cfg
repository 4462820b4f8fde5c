\* The ladder, the ledger and the supervision.
SPECIFICATION FairSpec
CONSTANTS
  Rungs = 1
  RegSubs = 2
  IpPolls = 2
  Limit = 2
  Window = 1
  LedgerMax = 2
  MaxClock = 1
  Kinds = {"ecm"}
  Confs = {{"apn", "reset"}, {"apn"}}
INVARIANT FlagsAgree
INVARIANT LedgerComplete
INVARIANT ResetsBounded
PROPERTY LossIsNoticed
PROPERTY HealingEnds
PROPERTY Connects

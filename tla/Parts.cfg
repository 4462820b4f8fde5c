SPECIFICATION PartsSpec
CONSTANTS
  a = a
  b = b
  t1 = t1
  t2 = t2
  t3 = t3
  p1 = p1
  p2 = p2
  Text = {a, b}
  NoText = NoText
  Keep = 2
  MaxTries = 2
  Capacity = 2
  Segments = 2
  Weathers <- MCWeathers
  SmsUsed <- MCSmsUsed
  MaxArrivals = 2
  MaxDeletions = 1
  MaxSmsLives = 1
  MaxLines = 2
  LineCapacity = 2
  DrainBudget = 1
  MaxCommands = 2
  MaxSaid = 4
  MaxPlugs = 1
  DaemonUsed <- MCDaemonUsed
  Tty = {t1, t2, t3}
  Layouts <- MCLayouts
  CandMax = 2
  SoftLimit = 1
  HardLimit = 2
  IdentItems = 1
  MaxMoves = 2
  StopRounds = 2
  MaxGen = 2
  MaxFailures = 2
  MaxOrders = 1
  Prefix = {p1, p2}
  NoPrefix = NoPrefix
  UserNdp = {"server"}
  MaxRuns = 2
CHECK_DEADLOCK FALSE
INVARIANT MemoryIsFile
INVARIANT RingInOrder
INVARIANT ArmedWhenDone
PROPERTY ReadIsListedOnce
PROPERTY ListingSpec
PROPERTY SetupComesUp
INVARIANT NoLostWakeup
INVARIANT DropsAreTold
INVARIANT LinesInOrder
INVARIANT LinesFindTheirCommand
INVARIANT ProbedOncePerSweep
INVARIANT IdentityIsWhole
PROPERTY FoundAgain
INVARIANT OneWatcher
INVARIANT OnlyOnRecord
INVARIANT NdpComesBack

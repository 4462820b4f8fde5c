\* Crashes, lost writes and failed reads.
SPECIFICATION FairSpec
CONSTANTS
  ecm = ecm
  qmi = qmi
  dark = dark
  rndis = rndis
  NoMode = NoMode
  Mode = {ecm, qmi, dark, rndis}
  Whitelist = {ecm, dark}
  Offered = {ecm, qmi, dark, rndis}
  Silent = {dark, rndis}
  StuckAfter = 2
  Grace = 1
  MaxLives = 2
  Faults = {"crash", "lost write", "read fails"}
INVARIANT Mirrored
INVARIANT WayBackIsOrigin
PROPERTY GatesHold
INVARIANT RollbackPerLife
PROPERTY StuckHasWaited
PROPERTY UnreachableIsReported
PROPERTY JournalSpec

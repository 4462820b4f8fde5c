\* A restart between two read-backs.
SPECIFICATION Spec
CONSTANTS
  ecm = ecm
  qmi = qmi
  dark = dark
  rndis = rndis
  NoMode = NoMode
  Mode = {ecm, qmi, dark, rndis}
  Whitelist = {ecm, dark}
  Offered = {ecm, qmi, dark, rndis}
  Silent = {dark, rndis}
  StuckAfter = 2
  Grace = 1
  MaxLives = 2
  Faults = {"crash"}
INVARIANT OneRollback

\* A message is deleted, and the daemon starts again.
SPECIFICATION SmsSpec
CONSTANTS
  Text = {a}
  NoText = NoText
  Keep = 2
  MaxTries = 2
  Capacity = 1
  Segments = 1
  Weathers = {{"crash", "refuse"}}
  MaxArrivals = 1
  MaxDeletions = 1
  MaxSmsLives = 1
  MaxLines = 2
  SmsUsed <- MCFresh
INVARIANT DeletedStaysDeleted

SPECIFICATION SmsSpec
CONSTANTS
  Text = {a}
  NoText = NoText
  Keep = 2
  MaxTries = 2
  Capacity = 2
  Segments = 1
  Weathers = {{}}
  MaxArrivals = 2
  MaxDeletions = 1
  MaxSmsLives = 0
  MaxLines = 2
  SmsUsed <- MCFresh
PROPERTY DeletionReachesList

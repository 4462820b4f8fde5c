\* A prompt that arrives after the queue has given up on it.
SPECIFICATION Spec
CONSTANTS
  csq = csq
  cereg = cereg
  Cmds = {csq, cereg}
  MaxDepth = 3
  SoftLimit = 2
  HardLimit = 3
  Callbacks = {{0, 1}}
  MaxReqs = 4
PROPERTY NothingTypedIntoPrompt

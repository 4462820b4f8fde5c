\* The queue against callbacks that may submit anything, polls included, and
\* against those the daemon has today, which submit follow-ups of interactive
\* and state priority only.
SPECIFICATION FairSpec
CONSTANTS
  csq = csq
  cereg = cereg
  Cmds = {csq, cereg}
  MaxDepth = 3
  SoftLimit = 2
  HardLimit = 3
  Callbacks = {{0, 1}, {0, 1, 2}}
  MaxReqs = 7
INVARIANT DrainedAtLoop
INVARIANT InOnePlace
INVARIANT BoundedDepth
INVARIANT PollsCoalesced
INVARIANT Routable
INVARIANT BreakerAgrees
PROPERTY LineSpec
PROPERTY PollsRespectGates
PROPERTY ReturnsToLoop

CONSTANTS
  QueueSize = 1
  MaxMessages = 2
  MaxConns = 2
  MaxLosses = 1
  StreamEnd = 2
  Prefetch = 2
  MaxRestarts = 2
  MaxSent = 2
SPECIFICATION FairSpec
INVARIANT NothingSkipped
PROPERTIES KeepsPromise PipeLeaves Delivers

CONSTANTS
  QueueSize = 2
  DefaultBatchSize = 1
  MaxDrainRetries = 3
  MaxMessages = 4
  MaxEchoes = 1
SPECIFICATION FairSpec
INVARIANT DrainKeepsEarlier
PROPERTIES KeepsPromise CloseReturns

CONSTANTS
  QueueSize = 2
  ChannelSize = 2
  ReturnAck = TRUE
  ReturnError = TRUE
  MaxMessages = 5
SPECIFICATION FairSpec
INVARIANT DrainedAtClose
PROPERTIES KeepsPromise CloseReturns

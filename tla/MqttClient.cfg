CONSTANTS
  QueueSize = 2
  MaxMessages = 2
  MaxEchoes = 1
  MaxLinks = 2
SPECIFICATION FairSpec
PROPERTIES KeepsPromise Realigned PipeLeaves

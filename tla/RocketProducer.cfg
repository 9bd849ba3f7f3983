CONSTANTS
  QueueSize = 2
  AsyncSend = TRUE
  MaxMessages = 4
  MaxEchoes = 1
SPECIFICATION FairSpec
INVARIANT NoSilentDrop
PROPERTIES KeepsPromise SenderLeaves

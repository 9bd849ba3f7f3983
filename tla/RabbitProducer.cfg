CONSTANTS
  QueueSize = 2
  MaxMessages = 5
  MaxEchoes = 3
SPECIFICATION FairSpec
INVARIANT DrainsBeforeExit
PROPERTIES KeepsPromise SenderLeaves

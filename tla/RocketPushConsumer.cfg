CONSTANTS
  c1 = c1
  c2 = c2
  Callbacks = {c1, c2}
  ChanSize = 2
  MaxBatch = 2
  MaxMessages = 3
SPECIFICATION PushFairSpec
INVARIANTS BrokerAgrees HandledBeforeExit
PROPERTIES CallbacksFinish PushCloseReturns

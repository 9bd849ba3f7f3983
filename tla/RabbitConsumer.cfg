CONSTANTS
  h1 = h1
  h2 = h2
  m1 = m1
  m2 = m2
  m3 = m3
  Handlers = {h1, h2}
  Messages = {m1, m2, m3}
  AutoCommit = "none"
SPECIFICATION ConsumerFairSpec
INVARIANTS QuietAfterExit RemovedWereShown
PROPERTY CloseReturns

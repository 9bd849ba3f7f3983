CONSTANTS
  l1 = l1
  l2 = l2
  Loops = {l1, l2}
  ChanSize = 3
  PullSize = 2
  MaxMessages = 2
SPECIFICATION PullFairSpec
INVARIANTS LoopOrder LeftoverBounded
PROPERTIES PullersFreed PullCloseReturns

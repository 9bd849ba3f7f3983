CONSTANTS
  p1 = p1
  Partitions = {p1}
  LogEnd = 2
  BufferSize = 2
  AutoCommit = "none"
  StartOffset <- NoStart
  MaxSessions = 1
  MaxCrashes = 0
SPECIFICATION Spec
INVARIANT AckCommitsOnlyAcked

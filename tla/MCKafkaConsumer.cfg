CONSTANTS
  p1 = p1
  Partitions = {p1}
  LogEnd = 3
  BufferSize = 1
  AutoCommit = "native"
  StartOffset <- Rewind
  MaxSessions = 2
  MaxCrashes = 1
SPECIFICATION FairSpec
INVARIANTS CrashLossBounded QuietAfterReturn Accounted SessionOrder
PROPERTIES ShutdownCompletes QueuedIsHandled NoLateRewind

CONSTANT MaxFaults = 2
SPECIFICATION SubFairSpec
INVARIANT QuietAfterClose
PROPERTIES Resubscribes ShutdownCompletes

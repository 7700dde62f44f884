SPECIFICATION Spec
CONSTANTS
  Null = Null
  MaxEvents = 1
  TickPeriod = 2
\* Every property is about the behaviour until the two threads meet.
CONSTRAINT Apart
\* A panic stops the kernel, so deadlock is not an error here.
CHECK_DEADLOCK FALSE
INVARIANTS CoroutineInOnePlace FramesAreFreed CurrentIsExecuting LoopsAreKnown
PROPERTIES YieldedCoroutineRuns TickWakesWaiter

SPECIFICATION Spec
CONSTANTS
  Null = Null
  MaxEvents = 1
  TickPeriod = 2
\* A panic stops the kernel, so deadlock is not an error here.
CHECK_DEADLOCK FALSE
INVARIANT AllYieldsProcessed

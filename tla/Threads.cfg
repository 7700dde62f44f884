SPECIFICATION Spec
CONSTANTS
  Null = Null
  ThreadCount = 4
  MaxThreadId = 7
  Creators = {0, 1, 2, 3}
  TickInCreate = FALSE
INVARIANTS ContextsKept QueueIsOrder SchedulerInv
PROPERTIES ReadyThreadRuns RoundRobinSpec

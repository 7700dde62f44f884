\* A store behind the array is undefined, and ends the model.
SPECIFICATION Spec
CONSTANTS
  Size = 4
  SizeMax = 255
  TickPeriod = 2
  IsrEvent = {serial_rx, system_timer}
  Tick = tick
  Nothing = nothing
PROPERTIES OverrunMeansFull FifoUntilSpoilt EveryEventIsRead
CHECK_DEADLOCK FALSE

\* The owner stops when it has used its objects or joins one for ever, and the
\* model ends with a stray store.
SPECIFICATION Spec
CONSTANTS
  Handle = {h1, h2}
  Slot = {1, 2}
INVARIANT EndIsRecorded
PROPERTIES StrayOnlyByMoveOrOverlap JoinWaits JoinReturns
CHECK_DEADLOCK FALSE

SPECIFICATION Spec
CONSTANTS
  Events = {authorized, disconnected}
  NoEvent = NoEvent
  Capacity = 4
  CountMax = 2
  MaxLost = 4
INVARIANTS
  LossesReported
PROPERTY
  ImplementsQueue

\* One connection and one accept error.
SPECIFICATION Spec
CONSTANTS
  Conn = {c1}
  Listener = {l1}
  NumWorkers = 1
  QueueCap = 1
  EventCap = 1
  IdStride = 2
  Shutdown = Shutdown
  None = None
PROPERTY DrainSurvivesErrors

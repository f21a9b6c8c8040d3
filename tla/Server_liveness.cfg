\* Two of everything, without symmetry: the liveness properties.
SPECIFICATION Spec
CONSTANTS
  Conn = {c1, c2}
  Listener = {l1, l2}
  NumWorkers = 2
  QueueCap = 1
  EventCap = 1
  IdStride = 2
  Shutdown = Shutdown
  None = None
PROPERTIES QueuedIsTaken BacklogIsAccepted ShutdownCompletes

\* Two workers with room for one job each: one has a job waiting, the other is idle.
SPECIFICATION Spec
CONSTANTS
  Conn = {c1, c2, c3}
  Listener = {l1}
  NumWorkers = 2
  QueueCap = 1
  EventCap = 1
  IdStride = 2
  Shutdown = Shutdown
  None = None
PROPERTY DropOnlyWhenAllBusy

\* Three connections, two workers with room for one job each, two listeners
\* and an event buffer of one: full channels, leftover edges, late arrivals.
SPECIFICATION Spec
CONSTANTS
  Conn = {c1, c2, c3}
  Listener = {l1, l2}
  NumWorkers = 2
  QueueCap = 1
  EventCap = 1
  IdStride = 2
  Shutdown = Shutdown
  None = None
SYMMETRY Symmetry
INVARIANTS TypeOK OneOwner OpenEventsAreLive UniqueIds LateStartBound Balanced NothingStranded

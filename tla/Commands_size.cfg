\* A refused command with a new chunk size.
SPECIFICATION Spec
CONSTANTS
  MIN_CHUNK_SIZE = 2
  MAX_CHUNK_SIZE = 3
  CHUNK_SIZE = 2
  MAX_CHUNKS = 2
  MAX_SECONDS = 1
  SECOND = 3
  ReportGap = 2
  Args = {0, 1, 2, 3, 4}
  CommandBound = 1
  ChunkBound = 3
  TimeBound = 4
INVARIANTS ChunkSizeAgreed

\* Sizes and numbers below, at and above each limit; a second is longer than the
\* report gap; a transfer outlasts both.  Two commands: two
\* transfers of the same kind with a change of the chunk size between them.
SPECIFICATION Spec
CONSTANTS
  MIN_CHUNK_SIZE = 2
  MAX_CHUNK_SIZE = 3
  CHUNK_SIZE = 2
  MAX_CHUNKS = 2
  MAX_SECONDS = 1
  SECOND = 3
  ReportGap = 2
  Args = {0, 1, 2, 3, 4}
  CommandBound = 2
  ChunkBound = 3
  TimeBound = 4
INVARIANTS TypeOK RepliesComplete GettimeLasts StatsMatchWire PingsMatch ReportsSpaced FirstChunkReported
PROPERTIES DownloadEnds

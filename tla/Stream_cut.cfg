\* A head and one line that is cut by the end of file.
SPECIFICATION Spec
CONSTANTS
  CHUNK_SIZE = 3
  MAX_LINE_LENGTH = 4
  MAX_HEAD = 3
  Slack = 1
  BufSize = 2
  Heads <- MCHeads
  Lines <- MCLines
  Chunks <- MCChunks
  MessageBound = 2
  WireBound = 4
INVARIANTS LinesAreTerminated

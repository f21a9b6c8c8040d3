\* A head, then four messages: a line of 4 bytes is the longest, a chunk has
\* 3, the reader's buffer 2, so that messages straddle its refills.
SPECIFICATION Spec
CONSTANTS
  CHUNK_SIZE = 3
  MAX_LINE_LENGTH = 4
  MAX_HEAD = 3
  Slack = 1
  BufSize = 2
  Heads <- MCHeads
  Lines <- MCLines
  Chunks <- MCChunks
  MessageBound = 5
  WireBound = 4
INVARIANTS TypeOK BlameIsDeserved NothingIsLost DownloadIntact
PROPERTIES ReadsAreWhole

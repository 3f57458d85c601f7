\* Three clients; the first 511 bytes of one request are the other request.
\* A client is served once, so the system stops.
CONSTANTS
  Threads = {t1, t2, t3}
  get = get
  long = long
  piece = piece
  Gets = {get, long}
  BadVersion = {v}
  Unparsable = {x}
  Datas <- OneData
  Size <- MCSize
  MAX_SIZE = 5
  MAX_ELEMENT_SIZE = 4
  HashInsert = TRUE
  Buckets = {0}
  Stored <- Truncated
  PendingHash <- OneBucket
  NULL = NULL
SPECIFICATION FairSpec
PROPERTY EveryClientClosed
CHECK_DEADLOCK FALSE

\* Two clients of the proxy as committed, without the hash table insertion.
CONSTANTS
  Threads = {t1, t2}
  get = get
  long = long
  piece = piece
  Gets = {get, long}
  BadVersion = {v}
  Unparsable = {x}
  Datas <- MCDatas
  Size <- MCSize
  MAX_SIZE = 9
  MAX_ELEMENT_SIZE = 9
  HashInsert = FALSE
  Buckets = {0}
  Stored <- Truncated
  PendingHash <- OneBucket
  NULL = NULL
SPECIFICATION Spec
INVARIANT WaitersServed
CHECK_DEADLOCK FALSE

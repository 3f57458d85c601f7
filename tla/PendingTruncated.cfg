\* As PendingSafe, with three threads: a waiter whose entry nobody will complete.
CONSTANTS
  Threads = {t1, t2, t3}
  a = a
  b = b
  long = long
  Urls = {a, b, long}
  Buckets = {0, 1}
  Entries = {e1, e2, e3}
  Stored <- StoredTruncated
  PendingHash <- MCHash
  NULL = NULL
SYMMETRY ThreadSymmetry
SPECIFICATION Spec
INVARIANT NoOrphanedWaiter
CHECK_DEADLOCK FALSE

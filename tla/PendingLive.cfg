\* Three threads, two colliding keys that fit in an entry.
CONSTANTS
  Threads = {t1, t2, t3}
  a = a
  b = b
  long = long
  Urls = {a, b}
  Buckets = {0, 1}
  Entries = {e1, e2, e3}
  Stored <- StoredWhole
  PendingHash <- MCHash
  NULL = NULL
SPECIFICATION FairSpec
INVARIANT WaitersHaveFetcher
INVARIANT EntriesReclaimed
PROPERTY EveryWaiterReleased

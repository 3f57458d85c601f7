\* Four threads; keys a, b in one bucket, and a long key stored as a.
\* Entries stored under a truncated key stay in the table for ever, so the
\* finite set of addresses can run out and threads can wait for ever.
CONSTANTS
  Threads = {t1, t2, t3, t4}
  a = a
  b = b
  long = long
  Urls = {a, b, long}
  Buckets = {0, 1}
  Entries = {e1, e2, e3, e4}
  Stored <- StoredTruncated
  PendingHash <- MCHash
  NULL = NULL
SYMMETRY ThreadSymmetry
SPECIFICATION Spec
INVARIANT TypeOK
INVARIANT SingleFlight
INVARIANT RefCountExact
INVARIANT NoDanglingEntry
INVARIANT NoLostWakeup
CHECK_DEADLOCK FALSE

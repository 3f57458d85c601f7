\* Two requests to servers of two hosts that share a bucket, with two ports each;
\* room for one pooled connection, responses in two pieces.
\* Each request is made once, so the system stops.
CONSTANTS
  h = h
  g = g
  Requests = {r1, r2}
  Hosts = {h, g}
  Ports = {80, 81}
  Buckets = {0}
  PoolHash <- OneBucket
  OpenMax = 2
  Chunks = 2
  MAX_POOL_SIZE = 1
  MAX_HOST_BUCKETS = 1
  NULL = NULL
SPECIFICATION FairSpec
INVARIANT TypeOK
INVARIANT FdOwnedOnce
INVARIANT CountExact
INVARIANT OwnServer
INVARIANT ResponseIsPrefix
PROPERTY RequestsReturn
CHECK_DEADLOCK FALSE

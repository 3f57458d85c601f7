\* Three clients, two hosts, room for five open descriptors: accept and socket
\* run out of descriptors, accept also out of slots, which stops the server.
CONSTANTS
  MAX_CLIENTS = 3
  OpenMax = 5
  h1 = h1
  h2 = h2
  Hosts = {h1, h2}
  HostOf <- MCHostOf
  NULL = NULL
SPECIFICATION FairSpec
INVARIANT TypeOK
INVARIANT DescriptorsOwned
PROPERTY EveryThreadEnds
CHECK_DEADLOCK FALSE

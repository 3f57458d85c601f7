\* Two slots and semaphore tokens, four clients, room for three open
\* descriptors and three threads.  The server stops when it has run out of
\* clients or of descriptors.
CONSTANTS
  Connections = 4
  OpenMax = 3
  MAX_CLIENTS = 2
  ThreadLimit = 3
  NULL = NULL
SPECIFICATION Spec
INVARIANT AlwaysServesOwnClient
CHECK_DEADLOCK FALSE

\* Two threads on two colliding keys; room for three small responses, or a
\* large one and a small one.
CONSTANTS
  Threads = {t1, t2}
  a = a
  b = b
  small = small
  large = large
  Urls = {a, b}
  Datas = {small, large}
  Addresses = {e1, e2, e3}
  Buckets = {0, 1}
  Hash <- MCHash
  UrlLen <- MCUrlLen
  DataLen <- MCDataLen
  Sizeof = 1
  MAX_SIZE = 13
  MAX_ELEMENT_SIZE = 7
  HashInsert = TRUE
  NULL = NULL
SPECIFICATION FairSpec
INVARIANT TypeOK
INVARIANT ListWellFormed
INVARIANT NothingLeaked
INVARIANT SiteValid
INVARIANT TableMatchesList
INVARIANT SizeAccounted
PROPERTY CallsReturn
PROPERTY ImplementsLRUCache

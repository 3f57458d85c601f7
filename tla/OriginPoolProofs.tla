--------------------------- MODULE OriginPoolProofs ---------------------------
(* Machine-checked proofs about connections to origins: every open one has   *)
(* exactly one owner, and what a request passes on is its own response.      *)
EXTENDS OriginPool, ListFacts

-----------------------------------------------------------------------------
(* The inductive invariant.  First the ownership of connections, without     *)
(* counting: no two places, of a request or of the pool, hold one descriptor *)
NoneShared ==
  /\ \A r, q \in Requests : remote[r] = remote[q] /\ remote[r] # NULL => r = q
  /\ \A b, c \in Buckets : \A i \in DOMAIN pool[b], j \in DOMAIN pool[c] :
       pool[b][i].socket_fd = pool[c][j].socket_fd => b = c /\ i = j
  /\ \A r \in Requests, b \in Buckets : \A i \in DOMAIN pool[b] :
       remote[r] # pool[b][i].socket_fd

(* ... a place holds only descriptors that are open ...                      *)
NoneStale ==
  /\ \A r \in Requests : remote[r] # NULL => conn[remote[r]] # NULL
  /\ \A b \in Buckets : \A i \in DOMAIN pool[b] : conn[pool[b][i].socket_fd] # NULL

(* ... and an open descriptor is held.                                       *)
NoneLeaked ==
  \A f \in Fds : conn[f] # NULL =>
    \/ \E r \in Requests : remote[r] = f
    \/ \E b \in Buckets : \E i \in DOMAIN pool[b] : pool[b][i].socket_fd = f

(* Then the pieces of responses.  An idle connection has none unread and     *)
(* none to come, and a request to which one is given has passed on none.     *)
Drained(f) == conn[f].arrived = <<>> /\ conn[f].owed = <<>>

(* What is passed on are the first pieces of the response to the request ... *)
FirstOf(r, t) == Len(t) <= Chunks /\ \A k \in 1..Len(t) : t[k] = <<r, k>>

(* ... and while it receives, its connection holds the next ones in order.   *)
NextOf(r, n, arrived, owed) ==
  /\ n + Len(arrived) + Len(owed) <= Chunks
  /\ \A k \in 1..Len(arrived) : arrived[k] = <<r, n + k>>
  /\ \A k \in 1..Len(owed) : owed[k] = <<r, n + Len(arrived) + k>>

InOrder(r) == FirstOf(r, temp_buffer[r])

Continues(r) ==
  NextOf(r, Len(temp_buffer[r]), conn[remote[r]].arrived, conn[remote[r]].owed)

PiecesOf(r) ==
  /\ InOrder(r)
  /\ pc[r] \in {"get", "check", "connect", "connected"} => temp_buffer[r] = <<>>
  /\ pc[r] \in {"check", "connected"} => Drained(remote[r])
  /\ pc[r] \in {"sent", "receiving"} => Continues(r)

Pieces ==
  /\ \A b \in Buckets : \A i \in DOMAIN pool[b] : Drained(pool[b][i].socket_fd)
  /\ \A r \in Requests : PiecesOf(r)

Owned == NoneShared /\ NoneStale /\ NoneLeaked /\ CountExact /\ OwnServer

IInv == TypeOK /\ Owned /\ (~abandoned => Pieces)

-----------------------------------------------------------------------------
(* Descriptors and lists.                                                    *)

(* A descriptor is not NULL, nor is a connection.                            *)
LEMMA NotNull == NULL \notin Fds /\ NULL \notin Connection
BY OriginPoolAssumption, NoConnection DEF Fds

(* socket gives a descriptor that is closed.                                 *)
LEMMA LowestIsFree ==
  ASSUME FreeFds # {}
  PROVE  Min(FreeFds) \in Fds /\ conn[Min(FreeFds)] = NULL
<1>1. FreeFds \subseteq Nat
  BY OriginPoolAssumption DEF FreeFds, Fds
<1> QED BY <1>1, MinIsMember DEF FreeFds

(* The bucket of a server.                                                   *)
LEMMA BucketOf == \A s \in Servers : Bucket(s) \in Buckets
BY OriginPoolAssumption DEF Bucket, Servers

(* The list of a bucket.                                                     *)
LEMMA PoolLists ==
  ASSUME TypeOK, NEW b \in Buckets
  PROVE  /\ pool[b] \in Seq(PooledConnection) /\ Len(pool[b]) \in Nat
         /\ DOMAIN pool[b] = 1..Len(pool[b])
         /\ \A i \in DOMAIN pool[b] : /\ pool[b][i] \in PooledConnection
                                      /\ pool[b][i].socket_fd \in Fds
                                      /\ pool[b][i].server \in Servers
<1>1. pool[b] \in Seq(PooledConnection)
  BY DEF TypeOK
<1>2. Len(pool[b]) \in Nat /\ DOMAIN pool[b] = 1..Len(pool[b])
  BY <1>1, LenProperties
<1>3. \A i \in DOMAIN pool[b] : pool[b][i] \in PooledConnection
  BY <1>1, <1>2, ElementOfSeq
<1> QED BY <1>1, <1>2, <1>3 DEF PooledConnection

(* A request's connection is open.                                           *)
LEMMA InUse ==
  ASSUME TypeOK, NoneStale, NEW r \in Requests, remote[r] # NULL
  PROVE  /\ remote[r] \in Fds /\ conn[remote[r]] \in Connection
         /\ conn[remote[r]].server \in Servers /\ conn[remote[r]].closed \in BOOLEAN
         /\ conn[remote[r]].arrived \in Seq(Chunk) /\ conn[remote[r]].owed \in Seq(Chunk)
<1>1. remote[r] \in Fds /\ conn[remote[r]] \in Connection
  BY DEF TypeOK, NoneStale
<1> QED BY <1>1 DEF Connection

-----------------------------------------------------------------------------
(* Ownership.  The steps change it in five ways.                             *)

(* Most do not: they may change what a connection holds.                     *)
LEMMA OwnershipKept ==
  ASSUME TypeOK, Owned, pool' = pool, count' = count, remote' = remote, server' = server,
         \A f \in Fds : /\ conn'[f] = NULL <=> conn[f] = NULL
                        /\ conn[f] # NULL => conn'[f].server = conn[f].server
  PROVE  Owned'
<1> USE DEF Owned
<1>1. \A b \in Buckets : \A i \in DOMAIN pool[b] : pool[b][i].socket_fd \in Fds
  BY PoolLists
<1>2. \A r \in Requests : remote[r] # NULL => remote[r] \in Fds
  BY DEF TypeOK
<1>3. NoneShared'
  BY DEF NoneShared
<1>4. NoneStale'
  BY <1>1, <1>2 DEF NoneStale
<1>5. NoneLeaked'
  BY DEF NoneLeaked
<1>6. CountExact'
  BY DEF CountExact
<1>7. OwnServer'
  <2>1. \A r \in Requests : remote[r] # NULL => conn'[remote[r]].server = server[r]
    BY <1>2 DEF NoneStale, OwnServer
  <2>2. \A b \in Buckets : \A i \in DOMAIN pool[b] :
          conn'[pool[b][i].socket_fd].server = pool[b][i].server
    BY <1>1 DEF NoneStale, OwnServer
  <2> QED BY <2>1, <2>2 DEF OwnServer
<1> QED BY <1>3, <1>4, <1>5, <1>6, <1>7

(* A request closes its connection: nobody else held it.                     *)
LEMMA ClosingKeepsOwned ==
  ASSUME TypeOK, Owned, NEW r \in Requests, remote[r] # NULL,
         pool' = pool, count' = count, server' = server,
         conn' = [conn EXCEPT ![remote[r]] = NULL], remote' = [remote EXCEPT ![r] = NULL]
  PROVE  Owned'
<1> USE DEF Owned
<1>1. PICK f \in Fds : f = remote[r]
  BY DEF TypeOK
<1>2. conn'[f] = NULL /\ \A g \in Fds : g # f => conn'[g] = conn[g]
  BY <1>1 DEF TypeOK
<1>3. remote'[r] = NULL /\ \A q \in Requests : q # r => remote'[q] = remote[q]
  BY DEF TypeOK
<1>4. \A b \in Buckets : \A i \in DOMAIN pool[b] :
        pool[b][i].socket_fd \in Fds /\ pool[b][i].socket_fd # f
  BY <1>1, PoolLists DEF NoneShared
<1>5. \A q \in Requests : q # r /\ remote[q] # NULL => remote[q] \in Fds /\ remote[q] # f
  BY <1>1 DEF TypeOK, NoneShared
<1>6. NoneShared'
  <2>1. \A p, q \in Requests : remote'[p] = remote'[q] /\ remote'[p] # NULL => p = q
    BY <1>3 DEF NoneShared
  <2>2. \A q \in Requests, b \in Buckets : \A i \in DOMAIN pool[b] :
          remote'[q] # pool[b][i].socket_fd
    BY <1>3, <1>4, NotNull DEF NoneShared
  <2> QED BY <2>1, <2>2 DEF NoneShared
<1>7. NoneStale'
  BY <1>2, <1>3, <1>4, <1>5 DEF NoneStale
<1>8. NoneLeaked'
  BY <1>1, <1>2, <1>3 DEF NoneLeaked
<1>9. CountExact'
  BY DEF CountExact
<1>10. OwnServer'
  BY <1>2, <1>3, <1>4, <1>5 DEF OwnServer
<1> QED BY <1>6, <1>7, <1>8, <1>9, <1>10

(* A new connection is made on a descriptor that nobody holds.               *)
LEMMA ConnectKeepsOwned ==
  ASSUME TypeOK, Owned, NEW r \in Requests, Connect(r)
  PROVE  Owned'
<1> USE DEF Owned
<1>1. PICK f \in Fds : f = Min(FreeFds) /\ conn[f] = NULL
  BY LowestIsFree DEF Connect
<1>2. /\ conn'[f] = [server |-> server[r], arrived |-> <<>>, owed |-> <<>>, closed |-> FALSE]
      /\ \A g \in Fds : g # f => conn'[g] = conn[g]
  BY <1>1 DEF Connect, TypeOK
<1>3. conn'[f] # NULL
  <2>1. server[r] \in Servers /\ <<>> \in Seq(Chunk)
    BY EmptySeq DEF TypeOK
  <2>2. conn'[f] \in Connection
    BY <1>2, <2>1 DEF Connection
  <2> QED BY <2>2, NotNull
<1>4. remote'[r] = f /\ \A q \in Requests : q # r => remote'[q] = remote[q]
  BY <1>1 DEF Connect, TypeOK
<1>5. pool' = pool /\ count' = count /\ server' = server
  BY DEF Connect
<1>6. \A b \in Buckets : \A i \in DOMAIN pool[b] :
        pool[b][i].socket_fd \in Fds /\ pool[b][i].socket_fd # f
  BY <1>1, PoolLists DEF NoneStale
<1>7. \A q \in Requests : remote[q] # NULL => remote[q] \in Fds /\ remote[q] # f
  BY <1>1 DEF TypeOK, NoneStale
<1>8. remote[r] = NULL
  BY DEF Connect, TypeOK
<1>9. NoneShared'
  <2>1. \A p, q \in Requests : remote'[p] = remote'[q] /\ remote'[p] # NULL => p = q
    BY <1>4, <1>7, NotNull DEF NoneShared
  <2>2. \A q \in Requests, b \in Buckets : \A i \in DOMAIN pool[b] :
          remote'[q] # pool[b][i].socket_fd
    BY <1>4, <1>6 DEF NoneShared
  <2> QED BY <2>1, <2>2, <1>5 DEF NoneShared
<1>10. NoneStale'
  BY <1>2, <1>3, <1>4, <1>5, <1>6, <1>7 DEF NoneStale
<1>11. NoneLeaked'
  <2>1. ASSUME NEW g \in Fds, g # f, conn'[g] # NULL
        PROVE  \/ \E q \in Requests : remote'[q] = g
               \/ \E b \in Buckets : \E i \in DOMAIN pool[b] : pool[b][i].socket_fd = g
    BY <2>1, <1>2, <1>4, <1>8, NotNull DEF NoneLeaked
  <2> QED BY <2>1, <1>4, <1>5 DEF NoneLeaked
<1>12. CountExact'
  BY <1>5 DEF CountExact
<1>13. OwnServer'
  BY <1>2, <1>4, <1>5, <1>6, <1>7 DEF OwnServer
<1> QED BY <1>9, <1>10, <1>11, <1>12, <1>13

(* get_from_pool moves a connection from its place in a list to the request. *)
LEMMA GetKeepsOwned ==
  ASSUME TypeOK, Owned, NEW r \in Requests, GetFromPool(r)
  PROVE  /\ Owned'
         /\ pool' \in [Buckets -> Seq(PooledConnection)] /\ count' \in [Buckets -> Nat]
         /\ remote' \in [Requests -> Fds \cup {NULL}]
         /\ \E b \in Buckets : \E i \in DOMAIN pool[b] : remote'[r] = pool[b][i].socket_fd
         /\ \A b \in Buckets : \A i \in DOMAIN pool'[b] :
              \E j \in DOMAIN pool[b] : pool'[b][i] = pool[b][j]
<1> USE DEF Owned
<1>1. PICK b \in Buckets : b = Bucket(server[r])
  BY BucketOf DEF TypeOK
<1>2. PICK i \in DOMAIN pool[b] :
        /\ pool[b][i].server = server[r]
        /\ remote' = [remote EXCEPT ![r] = pool[b][i].socket_fd]
        /\ pool' = [pool EXCEPT ![b] = RemoveAt(pool[b], i)]
  BY <1>1 DEF GetFromPool, FirstMatch, Matches
<1>3. /\ pc[r] = "get" /\ count' = [count EXCEPT ![b] = count[b] - 1]
      /\ server' = server /\ conn' = conn
  BY <1>1 DEF GetFromPool, Discounted
<1>4. PICK f \in Fds : f = pool[b][i].socket_fd
  BY <1>2, PoolLists
<1>5. /\ pool[b] \in Seq(PooledConnection) /\ Len(pool[b]) \in Nat /\ i \in 1..Len(pool[b])
      /\ \A c \in Buckets : DOMAIN pool[c] = 1..Len(pool[c]) /\ Len(pool[c]) \in Nat
  BY <1>2, PoolLists
<1>6. /\ pool'[b] \in Seq(PooledConnection)
      /\ Len(pool'[b]) = Len(pool[b]) - 1
      /\ \A j \in 1..(Len(pool[b]) - 1) :
           pool'[b][j] = IF j < i THEN pool[b][j] ELSE pool[b][j + 1]
      /\ \A c \in Buckets : c # b => pool'[c] = pool[c]
      /\ pool' \in [Buckets -> Seq(PooledConnection)]
  <2>1. /\ pool'[b] = RemoveAt(pool[b], i)
        /\ \A c \in Buckets : c # b => pool'[c] = pool[c]
    BY <1>2 DEF TypeOK
  <2>2. /\ RemoveAt(pool[b], i) \in Seq(PooledConnection)
        /\ Len(RemoveAt(pool[b], i)) = Len(pool[b]) - 1
        /\ \A j \in 1..(Len(pool[b]) - 1) :
             RemoveAt(pool[b], i)[j] = IF j < i THEN pool[b][j] ELSE pool[b][j + 1]
    BY <1>5, RemoveAtSeq
  <2>3. pool' \in [Buckets -> Seq(PooledConnection)]
    BY <1>2, <2>2 DEF TypeOK
  <2> QED BY <2>1, <2>2, <2>3
<1>7. DOMAIN pool'[b] = 1..(Len(pool[b]) - 1)
  BY <1>6, LenProperties
<1> DEFINE Was(c, j) == IF c = b /\ j >= i THEN j + 1 ELSE j
<1>8. \A c \in Buckets : \A j \in DOMAIN pool'[c] :
        /\ Was(c, j) \in DOMAIN pool[c] /\ pool'[c][j] = pool[c][Was(c, j)]
        /\ c = b => Was(c, j) # i
  BY <1>5, <1>6, <1>7
<1>9. \A c \in Buckets : \A j, k \in DOMAIN pool'[c] : Was(c, j) = Was(c, k) => j = k
  BY <1>5, <1>6, <1>7
<1>10. \A c \in Buckets : \A j \in DOMAIN pool[c] : c # b \/ j # i =>
         \E k \in DOMAIN pool'[c] : pool'[c][k] = pool[c][j]
  <2> SUFFICES ASSUME NEW c \in Buckets, NEW j \in DOMAIN pool[c], c # b \/ j # i
               PROVE  \E k \in DOMAIN pool'[c] : pool'[c][k] = pool[c][j]
    OBVIOUS
  <2>1. CASE c # b
    BY <2>1, <1>6
  <2>2. CASE c = b /\ j < i
    <3>1. j \in DOMAIN pool'[c] /\ pool'[c][j] = pool[c][j]
      <4>1. j \in 1..Len(pool[b]) /\ i \in 1..Len(pool[b]) /\ Len(pool[b]) \in Nat
        BY <2>2, <1>5
      <4>2. j \in 1..(Len(pool[b]) - 1)
        BY <2>2, <4>1
      <4> QED BY <2>2, <4>2, <1>6, <1>7
    <3> QED BY <3>1
  <2>3. CASE c = b /\ j > i
    <3>1. j - 1 \in DOMAIN pool'[c] /\ pool'[c][j - 1] = pool[c][j]
      <4>1. j \in 1..Len(pool[b]) /\ i \in 1..Len(pool[b]) /\ Len(pool[b]) \in Nat
        BY <2>3, <1>5
      <4>2. j - 1 \in 1..(Len(pool[b]) - 1) /\ ~ (j - 1 < i) /\ (j - 1) + 1 = j
        BY <2>3, <4>1
      <4> QED BY <2>3, <4>2, <1>6, <1>7
    <3> QED BY <3>1
  <2>4. c = b => j \in Int /\ i \in Int
    BY <1>5
  <2> QED BY <2>1, <2>2, <2>3, <2>4
<1> HIDE DEF Was
<1>11. remote'[r] = f /\ \A q \in Requests : q # r => remote'[q] = remote[q]
  BY <1>2, <1>4 DEF TypeOK
<1>12. remote[r] = NULL
  BY <1>3 DEF TypeOK
<1>13. \A q \in Requests : remote[q] # f
  BY <1>2, <1>4 DEF NoneShared
<1>14. \A c \in Buckets : \A j \in DOMAIN pool'[c] : pool'[c][j].socket_fd # f
  <2> SUFFICES ASSUME NEW c \in Buckets, NEW j \in DOMAIN pool'[c], pool'[c][j].socket_fd = f
               PROVE  FALSE
    OBVIOUS
  <2>1. Was(c, j) \in DOMAIN pool[c] /\ pool[c][Was(c, j)].socket_fd = pool[b][i].socket_fd
    BY <1>4, <1>8
  <2>2. c = b /\ Was(c, j) = i
    BY <2>1, <1>2 DEF NoneShared
  <2> QED BY <2>2, <1>8
<1>15. NoneShared'
  <2>1. \A p, q \in Requests : remote'[p] = remote'[q] /\ remote'[p] # NULL => p = q
    BY <1>11, <1>13 DEF NoneShared
  <2>2. ASSUME NEW c \in Buckets, NEW d \in Buckets,
               NEW j \in DOMAIN pool'[c], NEW k \in DOMAIN pool'[d],
               pool'[c][j].socket_fd = pool'[d][k].socket_fd
        PROVE  c = d /\ j = k
    <3>1. c = d /\ Was(c, j) = Was(d, k)
      BY <2>2, <1>8 DEF NoneShared
    <3> QED BY <3>1, <1>9
  <2>3. ASSUME NEW q \in Requests, NEW c \in Buckets, NEW j \in DOMAIN pool'[c]
        PROVE  remote'[q] # pool'[c][j].socket_fd
    BY <1>8, <1>11, <1>14 DEF NoneShared
  <2> QED BY <2>1, <2>2, <2>3 DEF NoneShared
<1>16. NoneStale'
  <2>1. conn[f] # NULL
    BY <1>2, <1>4 DEF NoneStale
  <2> QED BY <2>1, <1>3, <1>8, <1>11 DEF NoneStale
<1>17. NoneLeaked'
  <2> SUFFICES ASSUME NEW g \in Fds, conn[g] # NULL
               PROVE  \/ \E q \in Requests : remote'[q] = g
                      \/ \E c \in Buckets : \E j \in DOMAIN pool'[c] : pool'[c][j].socket_fd = g
    BY <1>3 DEF NoneLeaked
  <2>1. CASE \E q \in Requests : remote[q] = g
    BY <2>1, <1>11, <1>12, NotNull
  <2>2. CASE \E c \in Buckets : \E j \in DOMAIN pool[c] : pool[c][j].socket_fd = g
    <3>1. PICK c \in Buckets : \E j \in DOMAIN pool[c] : pool[c][j].socket_fd = g
      BY <2>2
    <3>2. PICK j \in DOMAIN pool[c] : pool[c][j].socket_fd = g
      BY <3>1
    <3>3. CASE c = b /\ j = i
      BY <3>2, <3>3, <1>4, <1>11
    <3>4. CASE c # b \/ j # i
      BY <3>2, <3>4, <1>10
    <3> QED BY <3>3, <3>4
  <2> QED BY <2>1, <2>2 DEF NoneLeaked
<1>18. CountExact' /\ count' \in [Buckets -> Nat]
  <2>1. count \in [Buckets -> Nat] /\ count[b] = Len(pool[b])
    BY DEF TypeOK, CountExact
  <2>2. count'[b] = count[b] - 1 /\ \A c \in Buckets : c # b => count'[c] = count[c]
    BY <1>3, <2>1
  <2>3. count'[b] = Len(pool'[b]) /\ count'[b] \in Nat
    BY <2>1, <2>2, <1>5, <1>6
  <2>4. count' \in [Buckets -> Nat]
    BY <1>3, <2>1, <2>2, <2>3
  <2>5. count'[b] <= MAX_POOL_SIZE \div MAX_HOST_BUCKETS
    <3>1. count[b] <= MAX_POOL_SIZE \div MAX_HOST_BUCKETS
      BY DEF CountExact
    <3>2. MAX_POOL_SIZE \div MAX_HOST_BUCKETS \in Int
      BY OriginPoolAssumption
    <3> QED BY <3>1, <3>2, <2>1, <2>2
  <2>6. \A c \in Buckets : c # b => /\ count'[c] = Len(pool'[c])
                                    /\ count'[c] <= MAX_POOL_SIZE \div MAX_HOST_BUCKETS
    BY <2>2, <1>6 DEF CountExact
  <2> QED BY <2>3, <2>4, <2>5, <2>6 DEF CountExact
<1>19. OwnServer'
  <2>1. conn[f].server = server[r]
    BY <1>2, <1>4 DEF OwnServer
  <2>2. \A q \in Requests : remote'[q] # NULL => conn[remote'[q]].server = server[q]
    BY <2>1, <1>11 DEF OwnServer
  <2>3. \A c \in Buckets : \A j \in DOMAIN pool'[c] :
          conn[pool'[c][j].socket_fd].server = pool'[c][j].server
    BY <1>8 DEF OwnServer
  <2> QED BY <2>2, <2>3, <1>3 DEF OwnServer
<1>20. remote' \in [Requests -> Fds \cup {NULL}]
  BY <1>2, <1>4 DEF TypeOK
<1>21. \E c \in Buckets : \E j \in DOMAIN pool[c] : remote'[r] = pool[c][j].socket_fd
  BY <1>2, <1>4, <1>11
<1> QED BY <1>6, <1>8, <1>15, <1>16, <1>17, <1>18, <1>19, <1>20, <1>21

(* return_to_pool moves a request's connection to the head of a list.        *)
LEMMA ReturnKeepsOwned ==
  ASSUME TypeOK, Owned, NEW r \in Requests, ReturnToPool(r)
  PROVE  /\ Owned'
         /\ pool' \in [Buckets -> Seq(PooledConnection)] /\ count' \in [Buckets -> Nat]
         /\ \A b \in Buckets : \A i \in DOMAIN pool'[b] :
              \/ pool'[b][i].socket_fd = remote[r]
              \/ \E j \in DOMAIN pool[b] : pool'[b][i] = pool[b][j]
<1> USE DEF Owned
<1>1. PICK b \in Buckets : b = Bucket(server[r])
  BY BucketOf DEF TypeOK
<1>2. pc[r] = "return" /\ server' = server /\ conn' = conn
  BY DEF ReturnToPool
<1>3. PICK f \in Fds : f = remote[r] /\ conn[f] # NULL
  BY <1>2 DEF TypeOK, NoneStale
<1>4. PICK e \in PooledConnection : e.server = server[r] /\ e.socket_fd = f
                                    /\ pool' = [pool EXCEPT ![b] = <<e>> \o pool[b]]
  <2>1. server[r] \in Servers
    BY DEF TypeOK
  <2>2. [server |-> server[r], socket_fd |-> f] \in PooledConnection
    BY <2>1 DEF PooledConnection
  <2> QED BY <2>2, <1>1, <1>3 DEF ReturnToPool
<1>5. /\ pool[b] \in Seq(PooledConnection) /\ Len(pool[b]) \in Nat
      /\ \A c \in Buckets : DOMAIN pool[c] = 1..Len(pool[c]) /\ Len(pool[c]) \in Nat
  BY PoolLists
<1>6. /\ pool'[b] \in Seq(PooledConnection)
      /\ Len(pool'[b]) = Len(pool[b]) + 1
      /\ pool'[b][1] = e
      /\ \A j \in 2..(Len(pool[b]) + 1) : pool'[b][j] = pool[b][j - 1]
      /\ \A c \in Buckets : c # b => pool'[c] = pool[c]
      /\ pool' \in [Buckets -> Seq(PooledConnection)]
  <2>1. /\ pool'[b] = <<e>> \o pool[b]
        /\ \A c \in Buckets : c # b => pool'[c] = pool[c]
    BY <1>4 DEF TypeOK
  <2>2. /\ <<e>> \o pool[b] \in Seq(PooledConnection)
        /\ Len(<<e>> \o pool[b]) = Len(pool[b]) + 1
        /\ (<<e>> \o pool[b])[1] = e
        /\ \A j \in 2..(Len(pool[b]) + 1) : (<<e>> \o pool[b])[j] = pool[b][j - 1]
    BY <1>5, PrependSeq
  <2>3. pool' \in [Buckets -> Seq(PooledConnection)]
    BY <1>4, <2>2 DEF TypeOK
  <2> QED BY <2>1, <2>2, <2>3
<1>7. DOMAIN pool'[b] = 1..(Len(pool[b]) + 1)
  BY <1>6, LenProperties
<1> DEFINE Was(c, j) == IF c = b THEN j - 1 ELSE j
<1>8. \A c \in Buckets : \A j \in DOMAIN pool'[c] : c # b \/ j # 1 =>
        /\ Was(c, j) \in DOMAIN pool[c] /\ pool'[c][j] = pool[c][Was(c, j)]
  <2> SUFFICES ASSUME NEW c \in Buckets, NEW j \in DOMAIN pool'[c], c # b \/ j # 1
               PROVE  Was(c, j) \in DOMAIN pool[c] /\ pool'[c][j] = pool[c][Was(c, j)]
    OBVIOUS
  <2>1. CASE c # b
    BY <2>1, <1>6
  <2>2. CASE c = b
    <3>1. j \in 2..(Len(pool[b]) + 1) /\ j - 1 \in 1..Len(pool[b])
      BY <2>2, <1>5, <1>7
    <3> QED BY <3>1, <2>2, <1>5, <1>6
  <2> QED BY <2>1, <2>2
<1>9. \A c \in Buckets : \A j, k \in DOMAIN pool'[c] : Was(c, j) = Was(c, k) => j = k
  BY <1>5, <1>6, <1>7
<1>10. \A c \in Buckets : \A j \in DOMAIN pool[c] :
         \E k \in DOMAIN pool'[c] : pool'[c][k] = pool[c][j]
  <2> SUFFICES ASSUME NEW c \in Buckets, NEW j \in DOMAIN pool[c]
               PROVE  \E k \in DOMAIN pool'[c] : pool'[c][k] = pool[c][j]
    OBVIOUS
  <2>1. CASE c # b
    BY <2>1, <1>6
  <2>2. CASE c = b
    <3>1. j + 1 \in 2..(Len(pool[b]) + 1) /\ j + 1 \in DOMAIN pool'[c] /\ (j + 1) - 1 = j
      BY <2>2, <1>5, <1>7
    <3>2. pool'[c][j + 1] = pool[c][j]
      BY <2>2, <3>1, <1>6
    <3> QED BY <3>1, <3>2
  <2> QED BY <2>1, <2>2
<1> HIDE DEF Was
<1>11. remote'[r] = NULL /\ \A q \in Requests : q # r => remote'[q] = remote[q]
  BY DEF ReturnToPool, TypeOK
<1>12. \A q \in Requests : q # r => remote[q] # f
  BY <1>3, NotNull DEF NoneShared
<1>13. \A c \in Buckets : \A j \in DOMAIN pool[c] : pool[c][j].socket_fd # f
  BY <1>3 DEF NoneShared
<1>14. 1 \in DOMAIN pool'[b] /\ pool'[b][1].socket_fd = f
  BY <1>4, <1>5, <1>6, <1>7
<1>15. \A c \in Buckets : \A j \in DOMAIN pool'[c] : pool'[c][j].socket_fd = f => c = b /\ j = 1
  BY <1>8, <1>13
<1>16. NoneShared'
  <2>1. \A p, q \in Requests : remote'[p] = remote'[q] /\ remote'[p] # NULL => p = q
    BY <1>11 DEF NoneShared
  <2>2. ASSUME NEW c \in Buckets, NEW d \in Buckets,
               NEW j \in DOMAIN pool'[c], NEW k \in DOMAIN pool'[d],
               pool'[c][j].socket_fd = pool'[d][k].socket_fd
        PROVE  c = d /\ j = k
    <3>1. CASE pool'[c][j].socket_fd = f
      BY <3>1, <2>2, <1>15
    <3>2. CASE pool'[c][j].socket_fd # f
      <4>1. (c # b \/ j # 1) /\ (d # b \/ k # 1)
        BY <3>2, <2>2, <1>14
      <4>2. c = d /\ Was(c, j) = Was(d, k)
        BY <4>1, <2>2, <1>8 DEF NoneShared
      <4> QED BY <4>2, <1>9
    <3> QED BY <3>1, <3>2
  <2>3. ASSUME NEW q \in Requests, NEW c \in Buckets, NEW j \in DOMAIN pool'[c]
        PROVE  remote'[q] # pool'[c][j].socket_fd
    <3>1. CASE c = b /\ j = 1
      BY <3>1, <1>11, <1>12, <1>14, NotNull
    <3>2. CASE c # b \/ j # 1
      <4>1. Was(c, j) \in DOMAIN pool[c] /\ pool'[c][j] = pool[c][Was(c, j)]
        BY <3>2, <1>8
      <4>2. pool[c][Was(c, j)].socket_fd \in Fds
        BY <4>1, PoolLists
      <4> QED BY <4>1, <4>2, <1>11, NotNull DEF NoneShared
    <3> QED BY <3>1, <3>2
  <2> QED BY <2>1, <2>2, <2>3 DEF NoneShared
<1>17. NoneStale'
  <2>1. ASSUME NEW c \in Buckets, NEW j \in DOMAIN pool'[c]
        PROVE  conn[pool'[c][j].socket_fd] # NULL
    <3>1. CASE c = b /\ j = 1
      BY <3>1, <1>3, <1>14
    <3>2. CASE c # b \/ j # 1
      BY <3>2, <1>8 DEF NoneStale
    <3> QED BY <3>1, <3>2
  <2> QED BY <2>1, <1>2, <1>11 DEF NoneStale
<1>18. NoneLeaked'
  <2> SUFFICES ASSUME NEW g \in Fds, conn[g] # NULL
               PROVE  \/ \E q \in Requests : remote'[q] = g
                      \/ \E c \in Buckets : \E j \in DOMAIN pool'[c] : pool'[c][j].socket_fd = g
    BY <1>2 DEF NoneLeaked
  <2>1. CASE \E q \in Requests : remote[q] = g
    BY <2>1, <1>3, <1>11, <1>14
  <2>2. CASE \E c \in Buckets : \E j \in DOMAIN pool[c] : pool[c][j].socket_fd = g
    BY <2>2, <1>10
  <2> QED BY <2>1, <2>2 DEF NoneLeaked
<1>19. CountExact' /\ count' \in [Buckets -> Nat]
  <2>1. count \in [Buckets -> Nat] /\ count[b] = Len(pool[b])
    BY DEF TypeOK, CountExact
  <2>2. count' = [count EXCEPT ![b] = count[b] + 1]
    BY <1>1 DEF ReturnToPool
  <2>3. count'[b] = count[b] + 1 /\ \A c \in Buckets : c # b => count'[c] = count[c]
    BY <2>1, <2>2
  <2>4. count'[b] = Len(pool'[b]) /\ count'[b] \in Nat
    BY <2>1, <2>3, <1>5, <1>6
  <2>5. count' \in [Buckets -> Nat]
    BY <2>1, <2>2, <2>4
  <2>6. count'[b] <= MAX_POOL_SIZE \div MAX_HOST_BUCKETS
    <3>1. ~ (count[b] >= MAX_POOL_SIZE \div MAX_HOST_BUCKETS)
      BY <1>1 DEF ReturnToPool, BucketFull
    <3>2. MAX_POOL_SIZE \div MAX_HOST_BUCKETS \in Int
      BY OriginPoolAssumption
    <3> QED BY <3>1, <3>2, <2>1, <2>3
  <2>7. \A c \in Buckets : c # b => /\ count'[c] = Len(pool'[c])
                                    /\ count'[c] <= MAX_POOL_SIZE \div MAX_HOST_BUCKETS
    BY <2>3, <1>6 DEF CountExact
  <2> QED BY <2>4, <2>5, <2>6, <2>7 DEF CountExact
<1>20. OwnServer'
  <2>1. conn[f].server = server[r]
    BY <1>3, NotNull DEF OwnServer
  <2>2. \A q \in Requests : remote'[q] # NULL => conn[remote'[q]].server = server[q]
    BY <1>11 DEF OwnServer
  <2>3. ASSUME NEW c \in Buckets, NEW j \in DOMAIN pool'[c]
        PROVE  conn[pool'[c][j].socket_fd].server = pool'[c][j].server
    <3>1. CASE c = b /\ j = 1
      BY <3>1, <2>1, <1>4, <1>6
    <3>2. CASE c # b \/ j # 1
      BY <3>2, <1>8 DEF OwnServer
    <3> QED BY <3>1, <3>2
  <2> QED BY <2>2, <2>3, <1>2 DEF OwnServer
<1>21. \A c \in Buckets : \A i \in DOMAIN pool'[c] :
         \/ pool'[c][i].socket_fd = remote[r]
         \/ \E j \in DOMAIN pool[c] : pool'[c][i] = pool[c][j]
  BY <1>3, <1>8, <1>14
<1> QED BY <1>6, <1>16, <1>17, <1>18, <1>19, <1>20, <1>21

-----------------------------------------------------------------------------
(* Pieces of responses.                                                      *)

(* The response to a request has Chunks pieces.                              *)
LEMMA ResponseSeq ==
  ASSUME NEW r \in Requests
  PROVE  /\ Response(r) \in Seq(Chunk) /\ Len(Response(r)) = Chunks
         /\ \A k \in 1..Chunks : Response(r)[k] = <<r, k>>
BY OriginPoolAssumption DEF Response, Chunk

(* The first element of a sequence.                                          *)
LEMMA HeadIsFirst ==
  ASSUME NEW S, NEW s \in Seq(S), s # <<>>
  PROVE  Head(s) = s[1] /\ Head(s) \in S /\ Len(s) \in Nat /\ Len(s) > 0
BY EmptySeq, HeadTailProperties

(* A piece that is passed on is the next of the response.                    *)
LEMMA PassedOn ==
  ASSUME NEW r \in Requests, NEW t \in Seq(Chunk), NEW a \in Seq(Chunk), NEW o \in Seq(Chunk),
         a # <<>>, FirstOf(r, t), NextOf(r, Len(t), a, o)
  PROVE  /\ FirstOf(r, Append(t, Head(a)))
         /\ NextOf(r, Len(Append(t, Head(a))), Tail(a), o)
<1>1. /\ Tail(a) \in Seq(Chunk) /\ Len(Tail(a)) = Len(a) - 1
      /\ \A k \in 1..(Len(a) - 1) : Tail(a)[k] = a[k + 1]
      /\ Head(a) = a[1] /\ Head(a) \in Chunk /\ Len(a) \in Nat /\ Len(a) > 0
  BY HeadTailProperties, HeadIsFirst
<1>2. /\ Len(Append(t, Head(a))) = Len(t) + 1
      /\ \A k \in 1..Len(t) : Append(t, Head(a))[k] = t[k]
      /\ Append(t, Head(a))[Len(t) + 1] = Head(a)
  BY <1>1, AppendProperties
<1>3. Len(t) \in Nat /\ Len(o) \in Nat /\ Chunks \in Nat
  BY LenProperties, OriginPoolAssumption
<1>4. Head(a) = <<r, Len(t) + 1>>
  BY <1>1 DEF NextOf
<1>5. FirstOf(r, Append(t, Head(a)))
  <2>1. Len(t) + 1 <= Chunks
    BY <1>1, <1>3 DEF NextOf
  <2>2. \A k \in 1..(Len(t) + 1) : Append(t, Head(a))[k] = <<r, k>>
    BY <1>2, <1>3, <1>4 DEF FirstOf
  <2> QED BY <2>1, <2>2, <1>2 DEF FirstOf
<1>6. NextOf(r, Len(t) + 1, Tail(a), o)
  <2>1. Len(t) + 1 + Len(Tail(a)) = Len(t) + Len(a)
    BY <1>1, <1>3
  <2>2. ASSUME NEW k \in 1..Len(Tail(a))
        PROVE  Tail(a)[k] = <<r, Len(t) + 1 + k>>
    <3>1. k \in 1..(Len(a) - 1) /\ k + 1 \in 1..Len(a) /\ Len(t) + (k + 1) = Len(t) + 1 + k
      BY <1>1, <1>3
    <3>2. a[k + 1] = <<r, Len(t) + (k + 1)>>
      BY <3>1 DEF NextOf
    <3> QED BY <3>1, <3>2, <1>1
  <2> QED BY <2>1, <2>2 DEF NextOf
<1> QED BY <1>2, <1>5, <1>6

(* A piece that the origin delivers comes behind those that have arrived.    *)
LEMMA Delivered ==
  ASSUME NEW r \in Requests, NEW n \in Nat, NEW a \in Seq(Chunk), NEW o \in Seq(Chunk),
         o # <<>>, NextOf(r, n, a, o)
  PROVE  NextOf(r, n, Append(a, Head(o)), Tail(o))
<1>1. /\ Tail(o) \in Seq(Chunk) /\ Len(Tail(o)) = Len(o) - 1
      /\ \A k \in 1..(Len(o) - 1) : Tail(o)[k] = o[k + 1]
      /\ Head(o) = o[1] /\ Head(o) \in Chunk /\ Len(o) \in Nat /\ Len(o) > 0
  BY HeadTailProperties, HeadIsFirst
<1>2. /\ Len(Append(a, Head(o))) = Len(a) + 1
      /\ \A k \in 1..Len(a) : Append(a, Head(o))[k] = a[k]
      /\ Append(a, Head(o))[Len(a) + 1] = Head(o)
  BY <1>1, AppendProperties
<1>3. Len(a) \in Nat
  BY LenProperties
<1>4. n + Len(Append(a, Head(o))) + Len(Tail(o)) = n + Len(a) + Len(o)
  BY <1>1, <1>2, <1>3
<1>5. Head(o) = <<r, n + (Len(a) + 1)>>
  <2>1. Head(o) = <<r, n + Len(a) + 1>>
    BY <1>1 DEF NextOf
  <2> QED BY <2>1, <1>3
<1>6. \A k \in 1..(Len(a) + 1) : Append(a, Head(o))[k] = <<r, n + k>>
  BY <1>2, <1>3, <1>5 DEF NextOf
<1>7. ASSUME NEW k \in 1..Len(Tail(o))
      PROVE  Tail(o)[k] = <<r, n + Len(Append(a, Head(o))) + k>>
  <2>1. /\ k \in 1..(Len(o) - 1) /\ k + 1 \in 1..Len(o)
        /\ n + Len(a) + (k + 1) = n + Len(Append(a, Head(o))) + k
    BY <1>1, <1>2, <1>3
  <2>2. o[k + 1] = <<r, n + Len(a) + (k + 1)>>
    BY <2>1 DEF NextOf
  <2> QED BY <2>1, <2>2, <1>1
<1>8. n + Len(a) + Len(o) <= Chunks
  BY DEF NextOf
<1> QED BY <1>2, <1>4, <1>6, <1>7, <1>8 DEF NextOf

(* An origin that closes delivers no more, and may take back what is unread. *)
LEMMA CutShort ==
  ASSUME NEW r \in Requests, NEW n \in Nat, NEW a \in Seq(Chunk), NEW o \in Seq(Chunk),
         NextOf(r, n, a, o)
  PROVE  NextOf(r, n, a, <<>>) /\ NextOf(r, n, <<>>, <<>>)
<1>1. Len(a) \in Nat /\ Len(o) \in Nat /\ Len(<<>>) = 0 /\ Chunks \in Nat
  BY LenProperties, OriginPoolAssumption
<1>2. n + Len(a) + 0 <= Chunks /\ n + 0 + 0 <= Chunks
  BY <1>1 DEF NextOf
<1> QED BY <1>1, <1>2 DEF NextOf

(* A request's step on its own connection leaves the others' alone.          *)
LEMMA OthersConnections ==
  ASSUME TypeOK, Owned, NEW r \in Requests, remote[r] # NULL, NEW x,
         conn' = [conn EXCEPT ![remote[r]] = x]
  PROVE  /\ conn'[remote[r]] = x
         /\ \A f \in Fds : f # remote[r] => conn'[f] = conn[f]
         /\ \A q \in Requests : q # r /\ remote[q] # NULL => conn'[remote[q]] = conn[remote[q]]
         /\ \A b \in Buckets : \A i \in DOMAIN pool[b] :
              conn'[pool[b][i].socket_fd] = conn[pool[b][i].socket_fd]
<1>1. remote[r] \in Fds
  BY DEF TypeOK
<1>2. conn'[remote[r]] = x /\ \A f \in Fds : f # remote[r] => conn'[f] = conn[f]
  BY <1>1 DEF TypeOK
<1>3. \A q \in Requests : q # r /\ remote[q] # NULL =>
        remote[q] \in Fds /\ remote[q] # remote[r]
  BY DEF TypeOK, Owned, NoneShared
<1>4. \A b \in Buckets : \A i \in DOMAIN pool[b] :
        pool[b][i].socket_fd \in Fds /\ pool[b][i].socket_fd # remote[r]
  BY PoolLists DEF Owned, NoneShared
<1> QED BY <1>2, <1>3, <1>4

(* So only what the request has of pieces has to be looked at.               *)
LEMMA OthersPieces ==
  ASSUME TypeOK, Pieces, NEW r \in Requests,
         \A q \in Requests : q # r =>
           /\ pc'[q] = pc[q] /\ temp_buffer'[q] = temp_buffer[q] /\ remote'[q] = remote[q]
           /\ remote[q] # NULL => conn'[remote[q]] = conn[remote[q]],
         \A b \in Buckets : \A i \in DOMAIN pool'[b] : Drained(pool[b][i].socket_fd)',
         PiecesOf(r)'
  PROVE  Pieces'
<1>1. ASSUME NEW q \in Requests, q # r
      PROVE  PiecesOf(q)'
  <2>1. /\ pc'[q] = pc[q] /\ temp_buffer'[q] = temp_buffer[q] /\ remote'[q] = remote[q]
        /\ remote[q] # NULL => conn'[remote[q]] = conn[remote[q]]
    BY <1>1
  <2>2. InOrder(q)'
    BY <2>1 DEF Pieces, PiecesOf, InOrder
  <2>3. pc'[q] \in {"get", "check", "connect", "connected"} => temp_buffer'[q] = <<>>
    BY <2>1 DEF Pieces, PiecesOf
  <2>4. pc[q] \in {"check", "connected", "sent", "receiving"} => remote[q] # NULL
    BY DEF TypeOK
  <2>5. pc'[q] \in {"check", "connected"} => Drained(remote[q])'
    BY <2>1, <2>4 DEF Pieces, PiecesOf, Drained
  <2>6. pc'[q] \in {"sent", "receiving"} => Continues(q)'
    <3> SUFFICES ASSUME pc'[q] \in {"sent", "receiving"}
                 PROVE  Continues(q)'
      OBVIOUS
    <3>1. Continues(q)
      BY <2>1 DEF Pieces, PiecesOf
    <3>2. temp_buffer'[q] = temp_buffer[q] /\ conn'[remote'[q]] = conn[remote[q]]
      BY <2>1, <2>4
    <3> QED BY <3>1, <3>2 DEF Continues
  <2> QED BY <2>2, <2>3, <2>5, <2>6 DEF PiecesOf
<1> QED BY <1>1 DEF Pieces

-----------------------------------------------------------------------------
(* The inductive invariant holds at the start.                               *)
LEMMA InitInductive ==
  ASSUME Init
  PROVE  IInv
<1>1. TypeOK
  <2>1. <<>> \in Seq(Chunk) /\ <<>> \in Seq(PooledConnection) /\ 0 \in Nat
    BY EmptySeq
  <2>2. /\ server \in [Requests -> Servers] /\ remote \in [Requests -> Fds \cup {NULL}]
        /\ temp_buffer \in [Requests -> Seq(Chunk)]
        /\ pool \in [Buckets -> Seq(PooledConnection)] /\ count \in [Buckets -> Nat]
        /\ conn \in [Fds -> Connection \cup {NULL}] /\ abandoned \in BOOLEAN
    BY <2>1 DEF Init
  <2>3. pc \in [Requests -> {"get", "check", "connect", "connected", "sent",
                             "receiving", "cleanup", "return", "done"}]
    BY DEF Init
  <2>4. \A r \in Requests : (remote[r] = NULL) <=> (pc[r] \in {"get", "connect", "done"})
    BY DEF Init
  <2> QED BY <2>2, <2>3, <2>4 DEF TypeOK
<1>2. Owned
  <2>1. \A b \in Buckets : pool[b] = <<>> /\ Len(pool[b]) = 0 /\ DOMAIN pool[b] = {}
    BY EmptySeq DEF Init
  <2>2. NoneShared /\ NoneStale /\ NoneLeaked
    BY <2>1 DEF Init, NoneShared, NoneStale, NoneLeaked
  <2>3. CountExact
    <3>1. 0 <= MAX_POOL_SIZE \div MAX_HOST_BUCKETS
      BY OriginPoolAssumption
    <3> QED BY <3>1, <2>1 DEF Init, CountExact
  <2>4. OwnServer
    BY <2>1 DEF Init, OwnServer
  <2> QED BY <2>2, <2>3, <2>4 DEF Owned
<1>3. Pieces
  <2>1. \A b \in Buckets : DOMAIN pool[b] = {}
    BY EmptySeq DEF Init
  <2>2. \A r \in Requests : temp_buffer[r] = <<>> /\ pc[r] = "get"
    BY DEF Init
  <2>3. \A r \in Requests : InOrder(r)
    BY <2>2, OriginPoolAssumption DEF InOrder, FirstOf
  <2> QED BY <2>1, <2>2, <2>3 DEF Pieces, PiecesOf
<1> QED BY <1>1, <1>2, <1>3 DEF IInv

(* Steps of a thread that change no connection.                              *)
LEMMA LocalStepInductive ==
  ASSUME IInv, NEW r \in Requests,
         \/ PoolMiss(r) \/ Reuse(r) \/ ConnectFails(r) \/ EndOfResponse(r) \/ ReturnAlive(r)
  PROVE  IInv'
<1>1. /\ server' = server /\ remote' = remote /\ temp_buffer' = temp_buffer /\ pool' = pool
      /\ count' = count /\ conn' = conn /\ abandoned' = abandoned
  BY DEF PoolMiss, Reuse, ConnectFails, EndOfResponse, ReturnAlive
<1>2. PICK p \in {"connect", "connected", "done", "cleanup", "return"} :
        /\ pc' = [pc EXCEPT ![r] = p]
        /\ p = "connect" => pc[r] = "get"
        /\ p = "connected" => pc[r] = "check"
        /\ p = "done" => pc[r] = "connect"
        /\ p \in {"cleanup", "return"} => pc[r] \in {"sent", "receiving", "cleanup"}
  BY DEF PoolMiss, Reuse, ConnectFails, EndOfResponse, ReturnAlive
<1>3. /\ pc'[r] = p /\ \A q \in Requests : q # r => pc'[q] = pc[q]
      /\ pc' \in [Requests -> {"get", "check", "connect", "connected", "sent",
                               "receiving", "cleanup", "return", "done"}]
  BY <1>2 DEF IInv, TypeOK
<1>4. TypeOK'
  <2>1. \A q \in Requests : (remote[q] = NULL) <=> (pc'[q] \in {"get", "connect", "done"})
    BY <1>2, <1>3 DEF IInv, TypeOK
  <2> QED BY <2>1, <1>1, <1>3 DEF IInv, TypeOK
<1>5. Owned'
  BY <1>1, OwnershipKept DEF IInv
<1>6. ASSUME ~abandoned'
      PROVE  Pieces'
  <2>1. Pieces
    BY <1>6, <1>1 DEF IInv
  <2>2. \A b \in Buckets : \A i \in DOMAIN pool'[b] : Drained(pool[b][i].socket_fd)'
    BY <1>1, <2>1 DEF Pieces, Drained
  <2>3. PiecesOf(r)'
    <3>1. InOrder(r)'
      BY <1>1, <2>1 DEF Pieces, PiecesOf, InOrder
    <3>2. /\ pc'[r] \in {"get", "check", "connect", "connected"} => temp_buffer'[r] = <<>>
          /\ pc'[r] \in {"check", "connected"} => Drained(remote[r])'
          /\ pc'[r] \notin {"sent", "receiving"}
      BY <1>1, <1>2, <1>3, <2>1 DEF Pieces, PiecesOf, Drained
    <3> QED BY <3>1, <3>2 DEF PiecesOf
  <2> QED BY <1>1, <1>3, <2>1, <2>2, <2>3, OthersPieces DEF IInv
<1> QED BY <1>4, <1>5, <1>6 DEF IInv

(* Steps of a thread that close its connection.                              *)
LEMMA ClosingInductive ==
  ASSUME IInv, NEW r \in Requests,
         Discard(r) \/ ExchangeFails(r) \/ ReturnDead(r) \/ ReturnRefused(r)
  PROVE  IInv'
<1>1. /\ server' = server /\ temp_buffer' = temp_buffer /\ pool' = pool
      /\ count' = count /\ abandoned' = abandoned
      /\ conn' = [conn EXCEPT ![remote[r]] = NULL] /\ remote' = [remote EXCEPT ![r] = NULL]
  BY DEF Discard, Closed, ExchangeFails, ReturnDead, ReturnRefused, CloseAndReturn
<1>2. PICK p \in {"get", "done"} :
        /\ pc' = [pc EXCEPT ![r] = p]
        /\ p = "get" => pc[r] = "check"
        /\ pc[r] \notin {"get", "connect", "done"}
  BY DEF Discard, ExchangeFails, ReturnDead, ReturnRefused, CloseAndReturn
<1>3. remote[r] # NULL /\ remote[r] \in Fds
  BY <1>2 DEF IInv, TypeOK
<1>4. /\ pc'[r] = p /\ \A q \in Requests : q # r => pc'[q] = pc[q]
      /\ pc' \in [Requests -> {"get", "check", "connect", "connected", "sent",
                               "receiving", "cleanup", "return", "done"}]
  BY <1>2 DEF IInv, TypeOK
<1>5. /\ remote'[r] = NULL /\ \A q \in Requests : q # r => remote'[q] = remote[q]
      /\ remote' \in [Requests -> Fds \cup {NULL}]
  BY <1>1 DEF IInv, TypeOK
<1>6. TypeOK'
  <2>1. \A q \in Requests : (remote'[q] = NULL) <=> (pc'[q] \in {"get", "connect", "done"})
    BY <1>4, <1>5 DEF IInv, TypeOK
  <2>2. conn' \in [Fds -> Connection \cup {NULL}]
    BY <1>1 DEF IInv, TypeOK
  <2> QED BY <2>1, <2>2, <1>1, <1>4, <1>5 DEF IInv, TypeOK
<1>7. Owned'
  BY <1>1, <1>3, ClosingKeepsOwned DEF IInv
<1>8. ASSUME ~abandoned'
      PROVE  Pieces'
  <2>1. Pieces
    BY <1>8, <1>1 DEF IInv
  <2>2. /\ \A q \in Requests : q # r /\ remote[q] # NULL => conn'[remote[q]] = conn[remote[q]]
        /\ \A b \in Buckets : \A i \in DOMAIN pool[b] :
             conn'[pool[b][i].socket_fd] = conn[pool[b][i].socket_fd]
    BY <1>1, <1>3, OthersConnections DEF IInv
  <2>3. \A b \in Buckets : \A i \in DOMAIN pool'[b] : Drained(pool[b][i].socket_fd)'
    BY <1>1, <2>1, <2>2 DEF Pieces, Drained
  <2>4. PiecesOf(r)'
    <3>1. InOrder(r)'
      BY <1>1, <2>1 DEF Pieces, PiecesOf, InOrder
    <3>2. pc'[r] = "get" => temp_buffer'[r] = <<>>
      BY <1>1, <1>2, <1>4, <2>1 DEF Pieces, PiecesOf
    <3> QED BY <3>1, <3>2, <1>4 DEF PiecesOf
  <2> QED BY <1>1, <1>4, <1>5, <2>1, <2>2, <2>3, <2>4, OthersPieces DEF IInv
<1> QED BY <1>6, <1>7, <1>8 DEF IInv

(* A connection taken from the pool is drained, unless one was abandoned.    *)
LEMMA GetInductive ==
  ASSUME IInv, NEW r \in Requests, GetFromPool(r)
  PROVE  IInv'
<1>1. /\ pc[r] = "get" /\ server' = server /\ temp_buffer' = temp_buffer /\ conn' = conn
      /\ abandoned' = abandoned /\ pc' = [pc EXCEPT ![r] = "check"]
  BY DEF GetFromPool
<1>2. \E x : remote' = [remote EXCEPT ![r] = x]
  BY DEF GetFromPool
<1>3. /\ Owned' /\ pool' \in [Buckets -> Seq(PooledConnection)] /\ count' \in [Buckets -> Nat]
      /\ remote' \in [Requests -> Fds \cup {NULL}]
      /\ \E b \in Buckets : \E i \in DOMAIN pool[b] : remote'[r] = pool[b][i].socket_fd
      /\ \A b \in Buckets : \A i \in DOMAIN pool'[b] :
           \E j \in DOMAIN pool[b] : pool'[b][i] = pool[b][j]
  BY GetKeepsOwned DEF IInv
<1>4. /\ pc'[r] = "check" /\ \A q \in Requests : q # r => pc'[q] = pc[q]
      /\ pc' \in [Requests -> {"get", "check", "connect", "connected", "sent",
                               "receiving", "cleanup", "return", "done"}]
  BY <1>1 DEF IInv, TypeOK
<1>5. \A q \in Requests : q # r => remote'[q] = remote[q]
  BY <1>2 DEF IInv, TypeOK
<1>6. remote'[r] # NULL
  BY <1>3, PoolLists, NotNull DEF IInv
<1>7. TypeOK'
  <2>1. \A q \in Requests : (remote'[q] = NULL) <=> (pc'[q] \in {"get", "connect", "done"})
    BY <1>4, <1>5, <1>6 DEF IInv, TypeOK
  <2> QED BY <2>1, <1>1, <1>3, <1>4 DEF IInv, TypeOK
<1>8. ASSUME ~abandoned'
      PROVE  Pieces'
  <2>1. Pieces
    BY <1>8, <1>1 DEF IInv
  <2>2. \A b \in Buckets : \A i \in DOMAIN pool'[b] : Drained(pool[b][i].socket_fd)'
    BY <1>1, <1>3, <2>1 DEF Pieces, Drained
  <2>3. PiecesOf(r)'
    <3>1. InOrder(r)'
      BY <1>1, <2>1 DEF Pieces, PiecesOf, InOrder
    <3>2. temp_buffer'[r] = <<>>
      BY <1>1, <2>1 DEF Pieces, PiecesOf
    <3>3. Drained(remote[r])'
      BY <1>1, <1>3, <2>1 DEF Pieces, Drained
    <3> QED BY <3>1, <3>2, <3>3, <1>4 DEF PiecesOf
  <2> QED BY <1>1, <1>4, <1>5, <2>1, <2>2, <2>3, OthersPieces DEF IInv
<1> QED BY <1>3, <1>7, <1>8 DEF IInv

(* A new connection is drained.                                              *)
LEMMA ConnectInductive ==
  ASSUME IInv, NEW r \in Requests, Connect(r)
  PROVE  IInv'
<1>1. PICK f \in Fds : f = Min(FreeFds) /\ conn[f] = NULL
  BY LowestIsFree DEF Connect
<1>2. /\ pc[r] = "connect" /\ pc' = [pc EXCEPT ![r] = "connected"]
      /\ remote' = [remote EXCEPT ![r] = f]
      /\ conn' = [conn EXCEPT ![f] = [server |-> server[r], arrived |-> <<>>,
                                      owed |-> <<>>, closed |-> FALSE]]
      /\ server' = server /\ temp_buffer' = temp_buffer /\ pool' = pool
      /\ count' = count /\ abandoned' = abandoned
  BY <1>1 DEF Connect
<1>3. /\ pc'[r] = "connected" /\ \A q \in Requests : q # r => pc'[q] = pc[q]
      /\ pc' \in [Requests -> {"get", "check", "connect", "connected", "sent",
                               "receiving", "cleanup", "return", "done"}]
  BY <1>2 DEF IInv, TypeOK
<1>4. /\ remote'[r] = f /\ \A q \in Requests : q # r => remote'[q] = remote[q]
      /\ remote' \in [Requests -> Fds \cup {NULL}]
  BY <1>2 DEF IInv, TypeOK
<1>5. /\ conn'[f].arrived = <<>> /\ conn'[f].owed = <<>>
      /\ \A g \in Fds : g # f => conn'[g] = conn[g]
      /\ conn' \in [Fds -> Connection \cup {NULL}]
  <2>1. server[r] \in Servers /\ <<>> \in Seq(Chunk)
    BY EmptySeq DEF IInv, TypeOK
  <2>2. [server |-> server[r], arrived |-> <<>>, owed |-> <<>>, closed |-> FALSE] \in Connection
    BY <2>1 DEF Connection
  <2>3. conn \in [Fds -> Connection \cup {NULL}]
    BY DEF IInv, TypeOK
  <2> QED BY <1>2, <2>2, <2>3
<1>6. TypeOK'
  <2>1. \A q \in Requests : (remote'[q] = NULL) <=> (pc'[q] \in {"get", "connect", "done"})
    BY <1>3, <1>4, NotNull DEF IInv, TypeOK
  <2> QED BY <2>1, <1>2, <1>3, <1>4, <1>5 DEF IInv, TypeOK
<1>7. Owned'
  BY ConnectKeepsOwned DEF IInv
<1>8. ASSUME ~abandoned'
      PROVE  Pieces'
  <2>1. Pieces
    BY <1>8, <1>2 DEF IInv
  <2>2. \A q \in Requests : q # r /\ remote[q] # NULL => conn'[remote[q]] = conn[remote[q]]
    <3>1. \A q \in Requests : remote[q] # NULL => remote[q] \in Fds /\ remote[q] # f
      BY <1>1 DEF IInv, TypeOK, Owned, NoneStale
    <3> QED BY <3>1, <1>5
  <2>3. \A b \in Buckets : \A i \in DOMAIN pool'[b] : Drained(pool[b][i].socket_fd)'
    <3>1. \A b \in Buckets : \A i \in DOMAIN pool[b] :
            pool[b][i].socket_fd \in Fds /\ pool[b][i].socket_fd # f
      BY <1>1, PoolLists DEF IInv, Owned, NoneStale
    <3> QED BY <3>1, <1>2, <1>5, <2>1 DEF Pieces, Drained
  <2>4. PiecesOf(r)'
    <3>1. InOrder(r)'
      BY <1>2, <2>1 DEF Pieces, PiecesOf, InOrder
    <3>2. temp_buffer'[r] = <<>>
      BY <1>2, <2>1 DEF Pieces, PiecesOf
    <3>3. Drained(remote[r])'
      BY <1>4, <1>5 DEF Drained
    <3> QED BY <3>1, <3>2, <3>3, <1>3 DEF PiecesOf
  <2> QED BY <1>2, <1>3, <1>4, <2>1, <2>2, <2>3, <2>4, OthersPieces DEF IInv
<1> QED BY <1>6, <1>7, <1>8 DEF IInv

(* The request is sent to an origin that owes nothing: what comes on this    *)
(* connection from now on is its response.                                   *)
LEMMA SendInductive ==
  ASSUME IInv, NEW r \in Requests, SendRequest(r)
  PROVE  IInv'
<1> DEFINE f == remote[r]
           owes == IF conn[f].closed THEN conn[f].owed ELSE conn[f].owed \o Response(r)
<1>1. /\ pc[r] = "connected" /\ pc' = [pc EXCEPT ![r] = "sent"]
      /\ conn' = [conn EXCEPT ![f] = [conn[f] EXCEPT !.owed = owes]]
      /\ server' = server /\ remote' = remote /\ temp_buffer' = temp_buffer /\ pool' = pool
      /\ count' = count /\ abandoned' = abandoned
  BY DEF SendRequest
<1>2. f # NULL
  BY <1>1 DEF IInv, TypeOK
<1>3. /\ f \in Fds /\ conn[f] \in Connection
      /\ conn[f].arrived \in Seq(Chunk) /\ conn[f].owed \in Seq(Chunk)
  BY <1>2, InUse DEF IInv, Owned
<1>4. owes \in Seq(Chunk)
  BY <1>3, ResponseSeq, ConcatProperties
<1> HIDE DEF owes
<1>5. /\ [conn[f] EXCEPT !.owed = owes] \in Connection
      /\ [conn[f] EXCEPT !.owed = owes].server = conn[f].server
      /\ [conn[f] EXCEPT !.owed = owes].arrived = conn[f].arrived
      /\ [conn[f] EXCEPT !.owed = owes].owed = owes
  BY <1>3, <1>4 DEF Connection
<1>6. /\ conn'[f] = [conn[f] EXCEPT !.owed = owes]
      /\ \A g \in Fds : g # f => conn'[g] = conn[g]
      /\ \A q \in Requests : q # r /\ remote[q] # NULL => conn'[remote[q]] = conn[remote[q]]
      /\ \A b \in Buckets : \A i \in DOMAIN pool[b] :
           conn'[pool[b][i].socket_fd] = conn[pool[b][i].socket_fd]
  BY <1>1, <1>2, OthersConnections DEF IInv
<1>7. /\ pc'[r] = "sent" /\ \A q \in Requests : q # r => pc'[q] = pc[q]
      /\ pc' \in [Requests -> {"get", "check", "connect", "connected", "sent",
                               "receiving", "cleanup", "return", "done"}]
  BY <1>1 DEF IInv, TypeOK
<1>8. TypeOK'
  <2>1. \A q \in Requests : (remote[q] = NULL) <=> (pc'[q] \in {"get", "connect", "done"})
    BY <1>2, <1>7 DEF IInv, TypeOK
  <2>2. conn' \in [Fds -> Connection \cup {NULL}]
    BY <1>1, <1>3, <1>5 DEF IInv, TypeOK
  <2> QED BY <2>1, <2>2, <1>1, <1>7 DEF IInv, TypeOK
<1>9. Owned'
  BY <1>1, <1>3, <1>5, <1>6, NotNull, OwnershipKept DEF IInv
<1>10. ASSUME ~abandoned'
       PROVE  Pieces'
  <2>1. Pieces
    BY <1>10, <1>1 DEF IInv
  <2>2. \A b \in Buckets : \A i \in DOMAIN pool'[b] : Drained(pool[b][i].socket_fd)'
    <3>1. /\ pool' = pool
          /\ \A b \in Buckets : \A i \in DOMAIN pool[b] :
               conn'[pool[b][i].socket_fd] = conn[pool[b][i].socket_fd]
      BY <1>1, <1>6
    <3> QED BY <3>1, <2>1 DEF Pieces, Drained
  <2>3. PiecesOf(r)'
    <3>1. InOrder(r)'
      BY <1>1, <2>1 DEF Pieces, PiecesOf, InOrder
    <3>2. temp_buffer[r] = <<>> /\ conn[f].arrived = <<>> /\ conn[f].owed = <<>>
      BY <1>1, <2>1 DEF Pieces, PiecesOf, Drained
    <3>3. owes = <<>> \/ owes = Response(r)
      BY <3>2, ResponseSeq, ConcatEmptySeq DEF owes
    <3>4. NextOf(r, 0, <<>>, owes)
      <4>1. Len(<<>>) = 0 /\ Chunks \in Nat
        BY OriginPoolAssumption
      <4>2. CASE owes = <<>>
        BY <4>1, <4>2 DEF NextOf
      <4>3. CASE owes = Response(r)
        <5>1. 0 + 0 + Len(owes) <= Chunks
          BY <4>1, <4>3, ResponseSeq
        <5>2. \A k \in 1..Len(owes) : owes[k] = <<r, 0 + 0 + k>>
          BY <4>1, <4>3, ResponseSeq
        <5> QED BY <4>1, <5>1, <5>2 DEF NextOf
      <4> QED BY <4>2, <4>3, <3>3
    <3>5. Continues(r)'
      <4>1. /\ temp_buffer'[r] = <<>> /\ conn'[remote'[r]].arrived = <<>>
            /\ conn'[remote'[r]].owed = owes
        BY <3>2, <1>1, <1>5, <1>6
      <4>2. Len(<<>>) = 0
        OBVIOUS
      <4> QED BY <4>1, <4>2, <3>4 DEF Continues
    <3> QED BY <3>1, <3>5, <1>7 DEF PiecesOf
  <2> QED BY <1>1, <1>6, <1>7, <2>1, <2>2, <2>3, OthersPieces DEF IInv
<1> QED BY <1>8, <1>9, <1>10 DEF IInv

(* A piece is passed on and kept, or lost, which ends the receiving.         *)
LEMMA ReceiveInductive ==
  ASSUME IInv, NEW r \in Requests, Receive(r) \/ ReceiveFails(r)
  PROVE  IInv'
<1> DEFINE f == remote[r]
           a == conn[f].arrived
           t == temp_buffer[r]
<1>1. /\ pc[r] \in {"sent", "receiving"} /\ a # <<>>
      /\ conn' = [conn EXCEPT ![f] = [conn[f] EXCEPT !.arrived = Tail(a)]]
      /\ server' = server /\ remote' = remote /\ pool' = pool
      /\ count' = count /\ abandoned' = abandoned
  BY DEF Receive, ReceiveFails
<1>2. \/ /\ pc' = [pc EXCEPT ![r] = "receiving"]
         /\ temp_buffer' = [temp_buffer EXCEPT ![r] = Append(t, Head(a))]
      \/ pc' = [pc EXCEPT ![r] = "cleanup"] /\ temp_buffer' = temp_buffer
  BY DEF Receive, ReceiveFails, AfterLoss
<1>3. f # NULL
  BY <1>1 DEF IInv, TypeOK
<1>4. /\ f \in Fds /\ conn[f] \in Connection
      /\ a \in Seq(Chunk) /\ conn[f].owed \in Seq(Chunk) /\ t \in Seq(Chunk)
  BY <1>3, InUse DEF IInv, Owned, TypeOK
<1>5. /\ Tail(a) \in Seq(Chunk) /\ Len(Tail(a)) = Len(a) - 1
      /\ \A k \in 1..(Len(a) - 1) : Tail(a)[k] = a[k + 1]
      /\ Head(a) = a[1] /\ Head(a) \in Chunk /\ Len(a) \in Nat /\ Len(a) > 0
  BY <1>1, <1>4, HeadTailProperties, HeadIsFirst
<1>6. /\ Append(t, Head(a)) \in Seq(Chunk) /\ Len(Append(t, Head(a))) = Len(t) + 1
      /\ \A k \in 1..Len(t) : Append(t, Head(a))[k] = t[k]
      /\ Append(t, Head(a))[Len(t) + 1] = Head(a)
  BY <1>4, <1>5, AppendProperties
<1>7. /\ [conn[f] EXCEPT !.arrived = Tail(a)] \in Connection
      /\ [conn[f] EXCEPT !.arrived = Tail(a)].server = conn[f].server
      /\ [conn[f] EXCEPT !.arrived = Tail(a)].arrived = Tail(a)
      /\ [conn[f] EXCEPT !.arrived = Tail(a)].owed = conn[f].owed
  BY <1>4, <1>5 DEF Connection
<1>8. /\ conn'[f] = [conn[f] EXCEPT !.arrived = Tail(a)]
      /\ \A g \in Fds : g # f => conn'[g] = conn[g]
      /\ \A q \in Requests : q # r /\ remote[q] # NULL => conn'[remote[q]] = conn[remote[q]]
      /\ \A b \in Buckets : \A i \in DOMAIN pool[b] :
           conn'[pool[b][i].socket_fd] = conn[pool[b][i].socket_fd]
  BY <1>1, <1>3, OthersConnections DEF IInv
<1>9. /\ \/ pc'[r] = "receiving" /\ temp_buffer'[r] = Append(t, Head(a))
         \/ pc'[r] = "cleanup" /\ temp_buffer'[r] = t
      /\ \A q \in Requests : q # r => pc'[q] = pc[q] /\ temp_buffer'[q] = temp_buffer[q]
      /\ pc' \in [Requests -> {"get", "check", "connect", "connected", "sent",
                               "receiving", "cleanup", "return", "done"}]
      /\ temp_buffer' \in [Requests -> Seq(Chunk)]
  BY <1>2, <1>6 DEF IInv, TypeOK
<1>10. TypeOK'
  <2>1. \A q \in Requests : (remote[q] = NULL) <=> (pc'[q] \in {"get", "connect", "done"})
    BY <1>3, <1>9 DEF IInv, TypeOK
  <2>2. conn' \in [Fds -> Connection \cup {NULL}]
    BY <1>1, <1>4, <1>7 DEF IInv, TypeOK
  <2> QED BY <2>1, <2>2, <1>1, <1>9 DEF IInv, TypeOK
<1>11. Owned'
  BY <1>1, <1>4, <1>7, <1>8, NotNull, OwnershipKept DEF IInv
<1>12. ASSUME ~abandoned'
       PROVE  Pieces'
  <2>1. Pieces
    BY <1>12, <1>1 DEF IInv
  <2>2. \A b \in Buckets : \A i \in DOMAIN pool'[b] : Drained(pool[b][i].socket_fd)'
    <3>1. /\ pool' = pool
          /\ \A b \in Buckets : \A i \in DOMAIN pool[b] :
               conn'[pool[b][i].socket_fd] = conn[pool[b][i].socket_fd]
      BY <1>1, <1>8
    <3> QED BY <3>1, <2>1 DEF Pieces, Drained
  <2>3. FirstOf(r, t) /\ NextOf(r, Len(t), a, conn[f].owed)
    BY <1>1, <2>1 DEF Pieces, PiecesOf, InOrder, Continues
  <2>4. /\ FirstOf(r, Append(t, Head(a)))
        /\ NextOf(r, Len(Append(t, Head(a))), Tail(a), conn[f].owed)
    BY <2>3, <1>1, <1>4, PassedOn
  <2>5. conn'[remote'[r]].arrived = Tail(a) /\ conn'[remote'[r]].owed = conn[f].owed
    <3>1. remote' = remote /\ conn'[f] = [conn[f] EXCEPT !.arrived = Tail(a)]
      BY <1>1, <1>8
    <3> QED BY <3>1, <1>7
  <2>6. PiecesOf(r)'
    <3>1. CASE pc'[r] = "cleanup" /\ temp_buffer'[r] = t
      BY <3>1, <2>3 DEF PiecesOf, InOrder
    <3>2. CASE pc'[r] = "receiving" /\ temp_buffer'[r] = Append(t, Head(a))
      <4>1. InOrder(r)'
        BY <3>2, <2>4 DEF InOrder
      <4>2. Continues(r)'
        BY <3>2, <2>4, <2>5 DEF Continues
      <4> QED BY <3>2, <4>1, <4>2 DEF PiecesOf
    <3> QED BY <3>1, <3>2, <1>9
  <2>7. \A q \in Requests : q # r =>
          /\ pc'[q] = pc[q] /\ temp_buffer'[q] = temp_buffer[q] /\ remote'[q] = remote[q]
          /\ remote[q] # NULL => conn'[remote[q]] = conn[remote[q]]
    BY <1>1, <1>8, <1>9
  <2> QED BY <2>1, <2>2, <2>6, <2>7, OthersPieces DEF IInv
<1> QED BY <1>10, <1>11, <1>12 DEF IInv

(* A connection goes to the pool drained, unless that is noted as abandoned. *)
LEMMA ReturnInductive ==
  ASSUME IInv, NEW r \in Requests, ReturnToPool(r)
  PROVE  IInv'
<1>1. /\ pc[r] = "return" /\ pc' = [pc EXCEPT ![r] = "done"]
      /\ server' = server /\ temp_buffer' = temp_buffer /\ conn' = conn
      /\ remote' = [remote EXCEPT ![r] = NULL]
      /\ abandoned' = (abandoned \/ conn[remote[r]].arrived \o conn[remote[r]].owed # <<>>)
  BY DEF ReturnToPool
<1>2. /\ Owned' /\ pool' \in [Buckets -> Seq(PooledConnection)] /\ count' \in [Buckets -> Nat]
      /\ \A b \in Buckets : \A i \in DOMAIN pool'[b] :
           \/ pool'[b][i].socket_fd = remote[r]
           \/ \E j \in DOMAIN pool[b] : pool'[b][i] = pool[b][j]
  BY ReturnKeepsOwned DEF IInv
<1>3. /\ pc'[r] = "done" /\ \A q \in Requests : q # r => pc'[q] = pc[q]
      /\ pc' \in [Requests -> {"get", "check", "connect", "connected", "sent",
                               "receiving", "cleanup", "return", "done"}]
  BY <1>1 DEF IInv, TypeOK
<1>4. /\ remote'[r] = NULL /\ \A q \in Requests : q # r => remote'[q] = remote[q]
      /\ remote' \in [Requests -> Fds \cup {NULL}]
  BY <1>1 DEF IInv, TypeOK
<1>5. TypeOK'
  <2>1. \A q \in Requests : (remote'[q] = NULL) <=> (pc'[q] \in {"get", "connect", "done"})
    BY <1>3, <1>4 DEF IInv, TypeOK
  <2>2. abandoned' \in BOOLEAN
    BY <1>1 DEF IInv, TypeOK
  <2> QED BY <2>1, <2>2, <1>1, <1>2, <1>3, <1>4 DEF IInv, TypeOK
<1>6. ASSUME ~abandoned'
      PROVE  Pieces'
  <2>1. Pieces /\ conn[remote[r]].arrived \o conn[remote[r]].owed = <<>>
    BY <1>6, <1>1 DEF IInv
  <2>2. Drained(remote[r])
    <3>1. remote[r] # NULL
      BY <1>1 DEF IInv, TypeOK
    <3>2. conn[remote[r]].arrived \in Seq(Chunk) /\ conn[remote[r]].owed \in Seq(Chunk)
      BY <3>1, InUse DEF IInv, Owned
    <3> QED BY <2>1, <3>2, ConcatEqualIffEmpty DEF Drained
  <2>3. \A b \in Buckets : \A i \in DOMAIN pool'[b] : Drained(pool[b][i].socket_fd)'
    <3>1. \A b \in Buckets : \A j \in DOMAIN pool[b] : Drained(pool[b][j].socket_fd)
      BY <2>1 DEF Pieces
    <3>2. \A b \in Buckets : \A i \in DOMAIN pool'[b] : Drained(pool'[b][i].socket_fd)
      BY <3>1, <1>2, <2>2
    <3> QED BY <3>2, <1>1 DEF Drained
  <2>4. PiecesOf(r)'
    BY <1>1, <1>3, <2>1 DEF Pieces, PiecesOf, InOrder
  <2> QED BY <1>1, <1>3, <1>4, <2>1, <2>3, <2>4, OthersPieces DEF IInv
<1> QED BY <1>2, <1>5, <1>6 DEF IInv

(* What the origin does to a connection: pieces move up, or are cut off.     *)
LEMMA OriginInductive ==
  ASSUME IInv, NEW f \in Fds, OriginDelivers(f) \/ OriginCloses(f)
  PROVE  IInv'
<1>1. /\ conn[f] # NULL /\ pc' = pc /\ server' = server /\ remote' = remote
      /\ temp_buffer' = temp_buffer /\ pool' = pool /\ count' = count /\ abandoned' = abandoned
  BY DEF OriginDelivers, OriginCloses, thread
<1>2. /\ conn[f] \in Connection
      /\ conn[f].arrived \in Seq(Chunk) /\ conn[f].owed \in Seq(Chunk)
  BY <1>1 DEF IInv, TypeOK, Connection
<1>3. PICK a \in Seq(Chunk), o \in Seq(Chunk), z \in BOOLEAN :
        /\ conn' = [conn EXCEPT ![f] = [conn[f] EXCEPT !.arrived = a, !.owed = o, !.closed = z]]
        /\ \/ /\ conn[f].owed # <<>> /\ o = Tail(conn[f].owed)
              /\ a = Append(conn[f].arrived, Head(conn[f].owed))
           \/ o = <<>> /\ (a = conn[f].arrived \/ a = <<>>)
  <2>1. CASE OriginDelivers(f)
    <3>1. /\ conn[f].owed # <<>>
          /\ conn' = [conn EXCEPT ![f] = [conn[f] EXCEPT
               !.arrived = Append(conn[f].arrived, Head(conn[f].owed)),
               !.owed = Tail(conn[f].owed)]]
      BY <2>1 DEF OriginDelivers, IInv, TypeOK
    <3>2. /\ Tail(conn[f].owed) \in Seq(Chunk) /\ conn[f].closed \in BOOLEAN
          /\ Append(conn[f].arrived, Head(conn[f].owed)) \in Seq(Chunk)
      BY <3>1, <1>2, HeadTailProperties, AppendProperties DEF Connection
    <3>3. [conn[f] EXCEPT !.arrived = Append(conn[f].arrived, Head(conn[f].owed)),
                          !.owed = Tail(conn[f].owed)]
          = [conn[f] EXCEPT !.arrived = Append(conn[f].arrived, Head(conn[f].owed)),
                            !.owed = Tail(conn[f].owed), !.closed = conn[f].closed]
      BY <1>2 DEF Connection
    <3> QED BY <3>1, <3>2, <3>3
  <2>2. CASE OriginCloses(f)
    <3>1. PICK a \in {conn[f].arrived, <<>>} :
            conn' = [conn EXCEPT ![f] = [conn[f] EXCEPT !.closed = TRUE, !.owed = <<>>,
                                                        !.arrived = a]]
      BY <2>2 DEF OriginCloses, IInv, TypeOK
    <3>2. a \in Seq(Chunk) /\ <<>> \in Seq(Chunk)
      BY <3>1, <1>2, EmptySeq
    <3>3. [conn[f] EXCEPT !.closed = TRUE, !.owed = <<>>, !.arrived = a]
          = [conn[f] EXCEPT !.arrived = a, !.owed = <<>>, !.closed = TRUE]
      BY <1>2 DEF Connection
    <3> QED BY <3>1, <3>2, <3>3
  <2> QED BY <2>1, <2>2
<1>4. /\ conn'[f] \in Connection /\ conn'[f].server = conn[f].server
      /\ conn'[f].arrived = a /\ conn'[f].owed = o
      /\ \A g \in Fds : g # f => conn'[g] = conn[g]
      /\ conn' \in [Fds -> Connection \cup {NULL}]
  <2>1. [conn[f] EXCEPT !.arrived = a, !.owed = o, !.closed = z] \in Connection
    BY <1>2, <1>3 DEF Connection
  <2>2. /\ [conn[f] EXCEPT !.arrived = a, !.owed = o, !.closed = z].server = conn[f].server
        /\ [conn[f] EXCEPT !.arrived = a, !.owed = o, !.closed = z].arrived = a
        /\ [conn[f] EXCEPT !.arrived = a, !.owed = o, !.closed = z].owed = o
    BY <1>2, <1>3 DEF Connection
  <2>3. conn \in [Fds -> Connection \cup {NULL}]
    BY DEF IInv, TypeOK
  <2> QED BY <1>3, <2>1, <2>2, <2>3
<1>5. TypeOK'
  BY <1>1, <1>4 DEF IInv, TypeOK
<1>6. Owned'
  BY <1>1, <1>4, NotNull, OwnershipKept DEF IInv
<1>7. ASSUME ~abandoned'
      PROVE  Pieces'
  <2>1. Pieces
    BY <1>7, <1>1 DEF IInv
  <2>2. Drained(f) => Drained(f)'
    BY <1>3, <1>4 DEF Drained
  <2>3. \A g \in Fds : Drained(g) => Drained(g)'
    BY <2>2, <1>4 DEF Drained
  <2>4. \A b \in Buckets : \A i \in DOMAIN pool'[b] : Drained(pool[b][i].socket_fd)'
    <3>1. \A b \in Buckets : \A i \in DOMAIN pool[b] : pool[b][i].socket_fd \in Fds
      BY PoolLists DEF IInv
    <3>2. \A b \in Buckets : \A i \in DOMAIN pool[b] : Drained(pool[b][i].socket_fd)
      BY <2>1 DEF Pieces
    <3> QED BY <3>1, <3>2, <2>3, <1>1 DEF Drained
  <2>5. ASSUME NEW r \in Requests
        PROVE  PiecesOf(r)'
    <3>1. PiecesOf(r)
      BY <2>1 DEF Pieces
    <3>2. pc[r] \in {"check", "connected", "sent", "receiving"} => remote[r] \in Fds
      BY DEF IInv, TypeOK
    <3>3. InOrder(r)'
      BY <3>1, <1>1 DEF PiecesOf, InOrder
    <3>4. pc'[r] \in {"get", "check", "connect", "connected"} => temp_buffer'[r] = <<>>
      BY <3>1, <1>1 DEF PiecesOf
    <3>5. pc'[r] \in {"check", "connected"} => Drained(remote[r])'
      <4> SUFFICES ASSUME pc[r] \in {"check", "connected"}
                   PROVE  Drained(remote[r])'
        BY <1>1
      <4>1. remote[r] \in Fds /\ Drained(remote[r])
        BY <3>1, <3>2 DEF PiecesOf
      <4> QED BY <4>1, <2>3, <1>1 DEF Drained
    <3>6. pc'[r] \in {"sent", "receiving"} => Continues(r)'
      <4> SUFFICES ASSUME pc[r] \in {"sent", "receiving"}
                   PROVE  Continues(r)'
        BY <1>1
      <4>1. remote[r] \in Fds /\ Continues(r)
        BY <3>1, <3>2 DEF PiecesOf
      <4>2. CASE remote[r] # f
        <5>1. conn'[remote'[r]] = conn[remote[r]] /\ temp_buffer' = temp_buffer
          BY <4>1, <4>2, <1>1, <1>4
        <5> QED BY <4>1, <5>1 DEF Continues
      <4>3. CASE remote[r] = f
        <5>1. NextOf(r, Len(temp_buffer[r]), conn[f].arrived, conn[f].owed)
          BY <4>1, <4>3 DEF Continues
        <5>2. Len(temp_buffer[r]) \in Nat
          BY LenProperties DEF IInv, TypeOK
        <5>3. NextOf(r, Len(temp_buffer[r]), a, o)
          BY <5>1, <5>2, <1>2, <1>3, Delivered, CutShort
        <5>4. conn'[remote'[r]].arrived = a /\ conn'[remote'[r]].owed = o
          BY <4>3, <1>1, <1>4
        <5> QED BY <5>3, <5>4, <1>1 DEF Continues
      <4> QED BY <4>2, <4>3
    <3> QED BY <3>3, <3>4, <3>5, <3>6 DEF PiecesOf
  <2> QED BY <2>4, <2>5 DEF Pieces
<1> QED BY <1>5, <1>6, <1>7 DEF IInv

-----------------------------------------------------------------------------
(* The invariant is inductive: every behaviour satisfies it.                 *)
THEOREM Inductive == Spec => []IInv
<1>1. ASSUME IInv, [Next]_vars
      PROVE  IInv'
  <2>1. ASSUME NEW r \in Requests, Run(r)
        PROVE  IInv'
    BY <1>1, <2>1, LocalStepInductive, ClosingInductive, GetInductive, ConnectInductive,
       SendInductive, ReceiveInductive, ReturnInductive DEF Run
  <2>2. ASSUME NEW f \in Fds, OriginDelivers(f) \/ OriginCloses(f)
        PROVE  IInv'
    BY <1>1, <2>2, OriginInductive
  <2>3. CASE UNCHANGED vars
    <3>1. /\ pc' = pc /\ server' = server /\ remote' = remote /\ temp_buffer' = temp_buffer
          /\ pool' = pool /\ count' = count /\ conn' = conn /\ abandoned' = abandoned
      BY <2>3 DEF vars, thread
    <3>2. TypeOK'
      BY <1>1, <3>1 DEF IInv, TypeOK
    <3>3. Owned'
      BY <1>1, <3>1, OwnershipKept DEF IInv
    <3>4. Pieces => Pieces'
      BY <3>1 DEF Pieces, PiecesOf, InOrder, Continues, Drained
    <3> QED BY <1>1, <3>1, <3>2, <3>3, <3>4 DEF IInv
  <2> QED BY <1>1, <2>1, <2>2, <2>3 DEF Next
<1> QED BY <1>1, InitInductive, PTL DEF Spec

(* Every variable keeps its type, and a request has a connection exactly     *)
(* where handle_request holds one.                                           *)
THEOREM TypeCorrect == Spec => []TypeOK
<1>1. IInv => TypeOK
  BY DEF IInv
<1> QED BY <1>1, Inductive, PTL

(* Every open connection has one owner, a request or an entry of the pool,   *)
(* and a descriptor that is not open has none: no thread leaks, shares or    *)
(* closes twice a descriptor, whatever origins do and whenever they close.   *)
THEOREM EveryFdOwnedOnce == Spec => []FdOwnedOnce
<1>1. ASSUME TypeOK, Owned
      PROVE  FdOwnedOnce
  <2> SUFFICES ASSUME NEW f \in Fds
               PROVE  Cardinality(Users(f)) + Cardinality(Positions(f)) =
                        IF conn[f] = NULL THEN 0 ELSE 1
    BY DEF FdOwnedOnce
  <2>1. \A p : p \in Positions(f) <=>
          \E b \in Buckets : \E i \in DOMAIN pool[b] :
            p = <<b, i>> /\ pool[b][i].socket_fd = f
    BY DEF Positions
  <2>2. Cardinality({}) = 0 /\ \A x : Cardinality({x}) = 1
    BY FS_EmptySet, FS_Singleton
  <2>3. CASE conn[f] = NULL
    <3>1. Users(f) = {}
      BY <1>1, <2>3, NotNull DEF Users, Owned, NoneStale
    <3>2. Positions(f) = {}
      BY <1>1, <2>1, <2>3 DEF Owned, NoneStale
    <3> QED BY <2>2, <2>3, <3>1, <3>2
  <2>4. CASE conn[f] # NULL /\ \E r \in Requests : remote[r] = f
    <3>1. PICK r \in Requests : remote[r] = f
      BY <2>4
    <3>2. Users(f) = {r}
      BY <1>1, <3>1, NotNull DEF Users, Owned, NoneShared
    <3>3. Positions(f) = {}
      BY <1>1, <2>1, <3>1 DEF Owned, NoneShared
    <3>4. Cardinality(Users(f)) = 1 /\ Cardinality(Positions(f)) = 0
      BY <2>2, <3>2, <3>3
    <3> QED BY <2>4, <3>4
  <2>5. CASE conn[f] # NULL /\ \E b \in Buckets : \E i \in DOMAIN pool[b] :
                                 pool[b][i].socket_fd = f
    <3>1. PICK b \in Buckets : \E i \in DOMAIN pool[b] : pool[b][i].socket_fd = f
      BY <2>5
    <3>2. PICK i \in DOMAIN pool[b] : pool[b][i].socket_fd = f
      BY <3>1
    <3>3. Users(f) = {}
      BY <1>1, <3>2 DEF Users, Owned, NoneShared
    <3>4. Positions(f) = {<<b, i>>}
      BY <1>1, <2>1, <3>2 DEF Owned, NoneShared
    <3>5. Cardinality(Users(f)) = 0 /\ Cardinality(Positions(f)) = 1
      BY <2>2, <3>3, <3>4
    <3> QED BY <2>5, <3>5
  <2> QED BY <1>1, <2>3, <2>4, <2>5 DEF Owned, NoneLeaked
<1>2. IInv => FdOwnedOnce
  BY <1>1 DEF IInv
<1> QED BY <1>2, Inductive, PTL

(* The count of a bucket is the length of its list, which keeps its limit.   *)
THEOREM CountsExact == Spec => []CountExact
<1>1. IInv => CountExact
  BY DEF IInv, Owned
<1> QED BY <1>1, Inductive, PTL

(* A request talks to the server it is for, on a new connection or a pooled  *)
(* one, although hosts share buckets and descriptor numbers are reused.      *)
THEOREM TalksToOwnServer == Spec => []OwnServer
<1>1. IInv => OwnServer
  BY DEF IInv, Owned
<1> QED BY <1>1, Inductive, PTL

(* What a request passes on is the beginning of its own response, as long as *)
(* no connection went back to the pool with a part of one unread.            *)
THEOREM PassesOnItsResponse == Spec => []ResponseIsPrefix
<1>1. ASSUME TypeOK, Pieces, NEW r \in Requests
      PROVE  IsPrefix(temp_buffer[r], Response(r))
  <2> DEFINE t == temp_buffer[r]
             n == Len(t)
  <2>1. t \in Seq(Chunk) /\ FirstOf(r, t)
    BY <1>1 DEF TypeOK, Pieces, PiecesOf, InOrder
  <2>2. n \in Nat /\ n <= Chunks /\ Chunks \in Nat
    BY <2>1, LenProperties, OriginPoolAssumption DEF FirstOf
  <2>3. \A k \in 1..n : Response(r)[k] \in Chunk
    BY <2>2, ResponseSeq, ElementOfSeq
  <2>4. /\ SubSeq(Response(r), 1, n) \in Seq(Chunk)
        /\ Len(SubSeq(Response(r), 1, n)) = n
        /\ \A k \in 1..n : SubSeq(Response(r), 1, n)[k] = <<r, k>>
    <3>1. /\ SubSeq(Response(r), 1, n) \in Seq(Chunk)
          /\ Len(SubSeq(Response(r), 1, n)) = IF 1 <= n THEN n - 1 + 1 ELSE 0
          /\ \A k \in 1..(n - 1 + 1) : SubSeq(Response(r), 1, n)[k] = Response(r)[1 + k - 1]
      BY <2>2, <2>3, SubSeqProperties
    <3>2. \A k \in 1..n : 1 + k - 1 = k /\ k \in 1..Chunks
      BY <2>2
    <3> QED BY <2>2, <3>1, <3>2, ResponseSeq
  <2>5. SubSeq(t, 1, n) = t
    BY <2>1, SubSeqFull
  <2>6. t = SubSeq(Response(r), 1, n)
    BY <2>1, <2>4, SeqEqual DEF FirstOf
  <2>7. Len(Response(r)) = Chunks
    BY ResponseSeq
  <2> QED BY <2>2, <2>5, <2>6, <2>7 DEF IsPrefix
<1>2. IInv => ResponseIsPrefix
  BY <1>1 DEF IInv, ResponseIsPrefix
<1> QED BY <1>2, Inductive, PTL
=============================================================================

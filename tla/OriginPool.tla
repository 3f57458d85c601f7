------------------------------ MODULE OriginPool ------------------------------
(***************************************************************************)
(* The exchange with an origin server in proxy_server_with_cache.c, as it  *)
(* uses connections: handle_request, connectRemoteServer, and the pool of  *)
(* idle connections (get_from_pool, return_to_pool, is_connection_alive).  *)
(*                                                                         *)
(* A request is one call of handle_request, in the thread of its client.   *)
(* A section under a bucket's lock is one action; is_connection_alive runs *)
(* outside the lock, so the origin, and other threads, may act between the *)
(* sections.  An origin answers each request with at most Chunks pieces,   *)
(* in order, at any pace; it may close the connection at any time.  A      *)
(* response that never ends, and a client that never reads, are left out.  *)
(***************************************************************************)
EXTENDS Integers, SequencesExt

CONSTANTS
  Requests,       \* calls of handle_request
  Hosts, Ports,   \* a server is a host and a port
  Buckets,        \* indexes of host_pools
  PoolHash,       \* pool_hash, of the host alone
  OpenMax,        \* descriptors available for origin connections
  Chunks,         \* pieces in which a response arrives
  MAX_POOL_SIZE, MAX_HOST_BUCKETS,
  NULL

ASSUME OriginPoolAssumption ==
  /\ PoolHash \in [Hosts -> Buckets]
  /\ Chunks \in Nat /\ OpenMax \in Nat
  /\ MAX_POOL_SIZE \in Nat /\ MAX_HOST_BUCKETS \in Nat \ {0}
  /\ NULL \notin Int \cup (Hosts \X Ports)

Fds == 0..(OpenMax - 1)

VARIABLES
  pc,          \* where each request is in handle_request
  server,      \* the host and port it is for
  remote,      \* remoteSocketID, NULL when it has none
  temp_buffer, \* what it has passed on and will add to the cache
  pool,        \* bucket -> list of idle connections, the head first
  count,       \* bucket -> its count field
  conn,        \* descriptor -> the connection, NULL when not open
  abandoned    \* history: a connection was pooled with part of a response
               \* still unread or still to come

thread == <<pc, server, remote, temp_buffer>>
vars == <<thread, pool, count, conn, abandoned>>

Servers == Hosts \X Ports

(* What the origin is to deliver in answer to request r.                     *)
Response(r) == [k \in 1..Chunks |-> <<r, k>>]

Chunk == Requests \X (1..Chunks)

(* arrived: what a receive on the connection can return; owed: what is still *)
(* to come; closed: the origin has closed its end.                           *)
Connection == [server : Servers, arrived : Seq(Chunk), owed : Seq(Chunk), closed : BOOLEAN]

ASSUME NoConnection == NULL \notin Connection

PooledConnection == [server : Servers, socket_fd : Fds]

Init ==
  /\ pc = [r \in Requests |-> "get"]
  /\ server \in [Requests -> Servers]
  /\ remote = [r \in Requests |-> NULL]
  /\ temp_buffer = [r \in Requests |-> <<>>]
  /\ pool = [b \in Buckets |-> <<>>]
  /\ count = [b \in Buckets |-> 0]
  /\ conn = [f \in Fds |-> NULL]
  /\ abandoned = FALSE

-----------------------------------------------------------------------------
Bucket(s) == PoolHash[s[1]]

(* is_connection_alive: unread bytes count as alive, whatever they are.      *)
Alive(f) == conn[f].arrived # <<>> \/ ~conn[f].closed

(* Mutant: the port is not compared.                                         *)
MatchesHost(s, i) ==
  i \in DOMAIN pool[Bucket(s)] /\ pool[Bucket(s)][i].server[1] = s[1]

Matches(s, i) == i \in DOMAIN pool[Bucket(s)] /\ pool[Bucket(s)][i].server = s

FirstMatch(s, i) == Matches(s, i) /\ \A j \in 1..(i - 1) : ~Matches(s, j)

(* The end of a call that has no connection any more: close and return.      *)
CloseAndReturn(r) ==
  /\ conn' = [conn EXCEPT ![remote[r]] = NULL]
  /\ remote' = [remote EXCEPT ![r] = NULL]
  /\ pc' = [pc EXCEPT ![r] = "done"]

-----------------------------------------------------------------------------
(* Mutants: the entry is not discounted; or discounted twice.                *)
NotDiscounted(b) == count[b]
DiscountedTwice(b) == count[b] - 2

Discounted(b) == count[b] - 1

(* handle_request begins with connectRemoteServer, which tries the pool:     *)
(* get_from_pool, under the lock, takes the first connection to the server.  *)
GetFromPool(r) ==
  /\ pc[r] = "get"
  /\ \E i \in DOMAIN pool[Bucket(server[r])] :
       /\ FirstMatch(server[r], i)
       /\ remote' = [remote EXCEPT ![r] = pool[Bucket(server[r])][i].socket_fd]
       /\ pool' = [pool EXCEPT ![Bucket(server[r])] = RemoveAt(@, i)]
  /\ count' = [count EXCEPT ![Bucket(server[r])] = Discounted(Bucket(server[r]))]
  /\ pc' = [pc EXCEPT ![r] = "check"]
  /\ UNCHANGED <<server, temp_buffer, conn, abandoned>>

(* No connection to the server is pooled.                                    *)
PoolMiss(r) ==
  /\ pc[r] = "get"
  /\ \A i \in DOMAIN pool[Bucket(server[r])] : ~Matches(server[r], i)
  /\ pc' = [pc EXCEPT ![r] = "connect"]
  /\ UNCHANGED <<server, remote, temp_buffer, pool, count, conn, abandoned>>

(* The connection taken from the pool is used ...                            *)
Reuse(r) ==
  /\ pc[r] = "check"
  /\ Alive(remote[r])
  /\ pc' = [pc EXCEPT ![r] = "connected"]
  /\ UNCHANGED <<server, remote, temp_buffer, pool, count, conn, abandoned>>

(* Mutant: the dead connection is passed over but not closed.                *)
NotClosed(r) == conn

Closed(r) == [conn EXCEPT ![remote[r]] = NULL]

(* ... or closed, and another one is tried.                                  *)
Discard(r) ==
  /\ pc[r] = "check"
  /\ ~Alive(remote[r])
  /\ conn' = Closed(r)
  /\ remote' = [remote EXCEPT ![r] = NULL]
  /\ pc' = [pc EXCEPT ![r] = "get"]
  /\ UNCHANGED <<server, temp_buffer, pool, count, abandoned>>

FreeFds == {f \in Fds : conn[f] = NULL}

(* socket, which gives the lowest free descriptor, getaddrinfo, connect.     *)
Connect(r) ==
  /\ pc[r] = "connect"
  /\ FreeFds # {}
  /\ LET f == Min(FreeFds) IN
       /\ conn' = [conn EXCEPT ![f] = [server |-> server[r], arrived |-> <<>>,
                                       owed |-> <<>>, closed |-> FALSE]]
       /\ remote' = [remote EXCEPT ![r] = f]
  /\ pc' = [pc EXCEPT ![r] = "connected"]
  /\ UNCHANGED <<server, temp_buffer, pool, count, abandoned>>

(* One of them fails; a socket that was made is closed.                      *)
ConnectFails(r) ==
  /\ pc[r] = "connect"
  /\ pc' = [pc EXCEPT ![r] = "done"]
  /\ UNCHANGED <<server, remote, temp_buffer, pool, count, conn, abandoned>>

-----------------------------------------------------------------------------
(* Send the request.  To an origin that has closed, it may seem to succeed.  *)
SendRequest(r) ==
  /\ pc[r] = "connected"
  /\ conn' = [conn EXCEPT ![remote[r]].owed = IF conn[remote[r]].closed THEN @
                                              ELSE @ \o Response(r)]
  /\ pc' = [pc EXCEPT ![r] = "sent"]
  /\ UNCHANGED <<server, remote, temp_buffer, pool, count, abandoned>>

(* The send fails, or, after the first receive, so does malloc: return -1.   *)
ExchangeFails(r) ==
  /\ \/ pc[r] = "connected" /\ conn[remote[r]].closed
     \/ pc[r] = "sent"
  /\ CloseAndReturn(r)
  /\ UNCHANGED <<server, temp_buffer, pool, count, abandoned>>

(* Receive a piece, pass it on to the client, and keep it for the cache.     *)
Receive(r) ==
  /\ pc[r] \in {"sent", "receiving"}
  /\ conn[remote[r]].arrived # <<>>
  /\ conn' = [conn EXCEPT ![remote[r]].arrived = Tail(@)]
  /\ temp_buffer' = [temp_buffer EXCEPT ![r] = Append(@, Head(conn[remote[r]].arrived))]
  /\ pc' = [pc EXCEPT ![r] = "receiving"]
  /\ UNCHANGED <<server, remote, pool, count, abandoned>>

(* Mutant: a piece that could not be passed on is skipped.                   *)
NextPiece == "receiving"

AfterLoss == "cleanup"

(* The client is gone, or the buffer cannot grow: the piece is lost.         *)
ReceiveFails(r) ==
  /\ pc[r] \in {"sent", "receiving"}
  /\ conn[remote[r]].arrived # <<>>
  /\ conn' = [conn EXCEPT ![remote[r]].arrived = Tail(@)]
  /\ pc' = [pc EXCEPT ![r] = AfterLoss]
  /\ UNCHANGED <<server, remote, temp_buffer, pool, count, abandoned>>

(* Mutant: no time limit.                                                    *)
ClosedBehind(r) == conn[remote[r]].arrived = <<>> /\ conn[remote[r]].closed

NothingArrives(r) == conn[remote[r]].arrived = <<>>

(* recv returns 0 or -1: the origin has closed, or nothing has arrived for a *)
(* second, although the response may not be complete.                        *)
EndOfResponse(r) ==
  /\ pc[r] \in {"sent", "receiving"}
  /\ NothingArrives(r)
  /\ pc' = [pc EXCEPT ![r] = "cleanup"]
  /\ UNCHANGED <<server, remote, temp_buffer, pool, count, conn, abandoned>>

-----------------------------------------------------------------------------
(* return_to_pool, after the response has been offered to the cache.  The    *)
(* connection is tested before the lock is taken.                            *)
ReturnDead(r) ==
  /\ pc[r] = "cleanup"
  /\ ~Alive(remote[r])
  /\ CloseAndReturn(r)
  /\ UNCHANGED <<server, temp_buffer, pool, count, abandoned>>

ReturnAlive(r) ==
  /\ pc[r] = "cleanup"
  /\ Alive(remote[r])
  /\ pc' = [pc EXCEPT ![r] = "return"]
  /\ UNCHANGED <<server, remote, temp_buffer, pool, count, conn, abandoned>>

BucketFull(s) == count[Bucket(s)] >= MAX_POOL_SIZE \div MAX_HOST_BUCKETS

ReturnToPool(r) ==
  /\ pc[r] = "return"
  /\ ~BucketFull(server[r])
  /\ pool' = [pool EXCEPT ![Bucket(server[r])] =
                <<[server |-> server[r], socket_fd |-> remote[r]]>> \o @]
  /\ count' = [count EXCEPT ![Bucket(server[r])] = @ + 1]
  /\ abandoned' = (abandoned \/ conn[remote[r]].arrived \o conn[remote[r]].owed # <<>>)
  /\ remote' = [remote EXCEPT ![r] = NULL]
  /\ pc' = [pc EXCEPT ![r] = "done"]
  /\ UNCHANGED <<server, temp_buffer, conn>>

(* The bucket is full, or there is no memory for the entry.                  *)
ReturnRefused(r) ==
  /\ pc[r] = "return"
  /\ CloseAndReturn(r)
  /\ UNCHANGED <<server, temp_buffer, pool, count, abandoned>>

-----------------------------------------------------------------------------
(* The origin, at the other end of connection f.                             *)
OriginDelivers(f) ==
  /\ conn[f] # NULL
  /\ conn[f].owed # <<>>
  /\ conn' = [conn EXCEPT ![f].arrived = Append(@, Head(conn[f].owed)),
                          ![f].owed = Tail(@)]
  /\ UNCHANGED <<thread, pool, count, abandoned>>

(* It closes, in order or by a reset that also loses what is unread.         *)
OriginCloses(f) ==
  /\ conn[f] # NULL
  /\ ~conn[f].closed
  /\ \E a \in {conn[f].arrived, <<>>} :
       conn' = [conn EXCEPT ![f].closed = TRUE, ![f].owed = <<>>, ![f].arrived = a]
  /\ UNCHANGED <<thread, pool, count, abandoned>>

Run(r) ==
  \/ GetFromPool(r) \/ PoolMiss(r) \/ Reuse(r) \/ Discard(r)
  \/ Connect(r) \/ ConnectFails(r)
  \/ SendRequest(r) \/ ExchangeFails(r)
  \/ Receive(r) \/ ReceiveFails(r) \/ EndOfResponse(r)
  \/ ReturnDead(r) \/ ReturnAlive(r) \/ ReturnToPool(r) \/ ReturnRefused(r)

Next ==
  \/ \E r \in Requests : Run(r)
  \/ \E f \in Fds : OriginDelivers(f) \/ OriginCloses(f)

Spec == Init /\ [][Next]_vars

(* A thread goes on: bucket locks are held for bounded sections, and every   *)
(* receive ends after a second.  Fairness of Receive assumes that the client *)
(* reads: sending to it has no time limit.  That Connect or ConnectFails is  *)
(* taken assumes that look-up and connect return.                            *)
FairSpec == Spec /\ \A r \in Requests : WF_vars(Run(r))

-----------------------------------------------------------------------------
TypeOK ==
  /\ pc \in [Requests -> {"get", "check", "connect", "connected", "sent",
                          "receiving", "cleanup", "return", "done"}]
  /\ server \in [Requests -> Servers]
  /\ remote \in [Requests -> Fds \cup {NULL}]
  /\ temp_buffer \in [Requests -> Seq(Chunk)]
  /\ pool \in [Buckets -> Seq(PooledConnection)]
  /\ count \in [Buckets -> Nat]
  /\ conn \in [Fds -> Connection \cup {NULL}]
  /\ abandoned \in BOOLEAN
  /\ \A r \in Requests :
       (remote[r] = NULL) <=> (pc[r] \in {"get", "connect", "done"})

(* The places that hold descriptor f: requests, and positions in the pool.   *)
Users(f) == {r \in Requests : remote[r] = f}
Positions(f) ==
  {p \in UNION {{b} \X DOMAIN pool[b] : b \in Buckets} : pool[p[1]][p[2]].socket_fd = f}

(* Every open connection has exactly one owner, a request or an entry of the *)
(* pool, and nobody holds a descriptor that is not open (it could be given   *)
(* to another connection): nothing is leaked, shared, or closed twice.       *)
FdOwnedOnce ==
  \A f \in Fds :
    Cardinality(Users(f)) + Cardinality(Positions(f)) = IF conn[f] = NULL THEN 0 ELSE 1

(* The count that limits a bucket is the length of its list, and the limit   *)
(* is kept.                                                                  *)
CountExact ==
  \A b \in Buckets :
    count[b] = Len(pool[b]) /\ count[b] <= MAX_POOL_SIZE \div MAX_HOST_BUCKETS

(* A request talks to the server it is for, although hosts share buckets and *)
(* descriptor numbers are reused.                                            *)
OwnServer ==
  /\ \A r \in Requests : remote[r] # NULL => conn[remote[r]].server = server[r]
  /\ \A b \in Buckets : \A i \in DOMAIN pool[b] :
       conn[pool[b][i].socket_fd].server = pool[b][i].server

(* What a request passes on and offers to the cache is the response to it,   *)
(* or the beginning of one, as long as no connection has gone back to the    *)
(* pool with a part of a response still unread or still to come.             *)
ResponseIsPrefix ==
  ~abandoned => \A r \in Requests : IsPrefix(temp_buffer[r], Response(r))

(* handle_request returns, although origins fall silent or close at any      *)
(* point, in the middle of a response too, and connections are taken from    *)
(* the pool dead.  A response has at most Chunks pieces: the time limit is   *)
(* one for each silence, and the loop of lines 511-541 does not end while an *)
(* origin keeps sending.                                                     *)
RequestsReturn == \A r \in Requests : pc[r] = "get" ~> pc[r] = "done"
=============================================================================

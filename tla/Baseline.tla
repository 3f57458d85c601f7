------------------------------- MODULE Baseline -------------------------------
(***************************************************************************)
(* proxy_server_without_cache.c: the accept loop, and one thread per       *)
(* client that receives a request, connects to its origin, passes the      *)
(* response on and closes the client's connection.  Nothing is ever added  *)
(* to its list of responses, so find never finds one.                      *)
(*                                                                         *)
(* Clients and origins share the descriptors of the process.  The socket   *)
(* to an origin is never closed.  The slots of Connected_socketId are used *)
(* once: an accept beyond the last one writes outside the array, and what  *)
(* happens then is undefined.                                              *)
(***************************************************************************)
EXTENDS Integers, FiniteSets, FiniteSetsExt

CONSTANTS
  MAX_CLIENTS,  \* slots, and tokens of the semaphore
  OpenMax,      \* descriptors the process may have open besides its own
  Hosts,
  HostOf,       \* the host that each client's request is for
  NULL

ASSUME BaselineAssumption ==
  /\ MAX_CLIENTS \in Nat \ {0} /\ OpenMax \in Nat
  /\ HostOf \in [0..(MAX_CLIENTS - 1) -> Hosts]
  /\ NULL \notin Int \cup Hosts
  /\ NULL \notin [kind : {"client", "origin"}, peer : 0..(MAX_CLIENTS - 1) \cup Hosts \cup {NULL}]

Fds == 0..(OpenMax - 1)

\* Each client has a slot of its own, and is named by it.
Clients == 0..(MAX_CLIENTS - 1)

VARIABLES
  running,             \* neither exited, nor killed, nor in undefined behaviour
  i,                   \* the next slot
  Connected_socketId,  \* slot -> descriptor, NULL while unused
  seamaphore,
  conn,                \* descriptor -> what it is open for, NULL: closed
  pc,                  \* where each client's thread is
  socket,              \* the client's descriptor, as its thread has read it
  remoteSocket,        \* the descriptor of its connection to an origin
  hostent,             \* the one static result of gethostbyname
  overlapped           \* history: a thread has looked a host up between the
                       \* look-up of another thread and its use of the result

main == <<i, Connected_socketId>>
thread == <<socket, remoteSocket>>
lookup == <<hostent, overlapped>>
vars == <<running, main, seamaphore, conn, pc, thread, lookup>>

ToClient(c) == [kind |-> "client", peer |-> c]
ToOrigin(h) == [kind |-> "origin", peer |-> h]

Init ==
  /\ running = TRUE
  /\ i = 0
  /\ Connected_socketId = [c \in Clients |-> NULL]
  /\ seamaphore = MAX_CLIENTS
  /\ conn = [f \in Fds |-> NULL]
  /\ pc = [c \in Clients |-> "none"]
  /\ socket = [c \in Clients |-> NULL]
  /\ remoteSocket = [c \in Clients |-> NULL]
  /\ hostent = NULL
  /\ overlapped = FALSE

-----------------------------------------------------------------------------
(* The accept loop.                                                          *)
FreeFds == {f \in Fds : conn[f] = NULL}

(* A connection is accepted on the lowest free descriptor, and gets a thread *)
(* unless pthread_create fails, which nothing notices.                       *)
Accept ==
  /\ running
  /\ i < MAX_CLIENTS /\ FreeFds # {}
  /\ conn' = [conn EXCEPT ![Min(FreeFds)] = ToClient(i)]
  /\ Connected_socketId' = [Connected_socketId EXCEPT ![i] = Min(FreeFds)]
  /\ \E s \in {"created", "no thread"} : pc' = [pc EXCEPT ![i] = s]
  /\ i' = i + 1
  /\ UNCHANGED <<running, seamaphore, thread, lookup>>

(* accept fails for want of a descriptor and the server exits; or there is   *)
(* no slot left.                                                             *)
AcceptFails ==
  /\ running
  /\ FreeFds = {} \/ i = MAX_CLIENTS
  /\ running' = FALSE
  /\ UNCHANGED <<main, seamaphore, conn, pc, thread, lookup>>

-----------------------------------------------------------------------------
Move(c, from, to) ==
  /\ running
  /\ pc[c] = from
  /\ pc' = [pc EXCEPT ![c] = to]
  /\ UNCHANGED <<running, main>>

(* sem_wait, and socket = *t: nobody writes to the slot any more.            *)
SemWait(c) ==
  /\ Move(c, "created", "receiving")
  /\ seamaphore > 0
  /\ seamaphore' = seamaphore - 1
  /\ socket' = [socket EXCEPT ![c] = Connected_socketId[c]]
  /\ UNCHANGED <<conn, remoteSocket, lookup>>

(* Mutant: a request that does not parse ends the thread on the spot.        *)
ReceiveReturns(c) ==
  /\ \E s \in {"close", "returned"} : Move(c, "receiving", s)
  /\ UNCHANGED <<seamaphore, conn, thread, lookup>>

(* The client goes away, or fills the buffer without ending its request; or  *)
(* the request does not parse, or is answered 500 for its version.           *)
ReceiveNothing(c) ==
  /\ Move(c, "receiving", "close")
  /\ UNCHANGED <<seamaphore, conn, thread, lookup>>

-----------------------------------------------------------------------------
(* A whole request is received and parses, with a version that is served:    *)
(* handle_request, which calls connectRemoteServer.  First the socket ...    *)
Socket(c) ==
  /\ Move(c, "receiving", "look up")
  /\ FreeFds # {}
  /\ conn' = [conn EXCEPT ![Min(FreeFds)] = ToOrigin(NULL)]
  /\ remoteSocket' = [remoteSocket EXCEPT ![c] = Min(FreeFds)]
  /\ UNCHANGED <<seamaphore, socket, lookup>>

SocketFails(c) ==
  /\ Move(c, "receiving", "close")
  /\ FreeFds = {}
  /\ UNCHANGED <<seamaphore, conn, thread, lookup>>

(* ... then the host, whose address is left in static storage ...            *)
LookUp(c) ==
  /\ Move(c, "look up", "connect")
  /\ hostent' = HostOf[c]
  /\ overlapped' = (overlapped \/ \E d \in Clients : pc[d] = "connect")
  /\ UNCHANGED <<seamaphore, conn, thread>>

(* Mutant: the error path closes the wrong socket.                           *)
ClientSocketClosed(c) == [conn EXCEPT ![socket[c]] = NULL]

(* The error paths return -1 and leave the socket open.                      *)
SocketLeftOpen(c) == conn

(* ... and the connection, to the address that is there now.                 *)
Connect(c) ==
  /\ Move(c, "connect", "connected")
  /\ conn' = [conn EXCEPT ![remoteSocket[c]] = ToOrigin(hostent)]
  /\ UNCHANGED <<seamaphore, thread, lookup>>

ConnectFails(c) ==
  /\ \E s \in {"look up", "connect"} : Move(c, s, "close")
  /\ conn' = SocketLeftOpen(c)
  /\ UNCHANGED <<seamaphore, thread, lookup>>

(* The response is passed on until the origin closes its end; the proxy does *)
(* not close its own.                                                        *)
Exchange(c) ==
  /\ Move(c, "connected", "close")
  /\ UNCHANGED <<seamaphore, conn, thread, lookup>>

(* Sending fails, to the origin, or to the client a piece of the response or *)
(* the 500 of an error: SIGPIPE, or a copy of (size_t)-1 bytes, ends the     *)
(* process before the error is looked at.                                    *)
SendFails(c) ==
  /\ running
  /\ pc[c] \in {"receiving", "look up", "connect", "connected"}
  /\ running' = FALSE
  /\ UNCHANGED <<main, seamaphore, conn, pc, thread, lookup>>

-----------------------------------------------------------------------------
Close(c) ==
  /\ Move(c, "close", "closed")
  /\ conn' = [conn EXCEPT ![socket[c]] = NULL]
  /\ UNCHANGED <<seamaphore, thread, lookup>>

(* Mutant: the semaphore is posted on an error path, and again at the end.   *)
PostedTwice == seamaphore + 2

Posted == seamaphore + 1

SemPost(c) ==
  /\ Move(c, "closed", "done")
  /\ seamaphore' = Posted
  /\ UNCHANGED <<conn, thread, lookup>>

Run(c) ==
  \/ SemWait(c) \/ ReceiveNothing(c) \/ Socket(c) \/ SocketFails(c)
  \/ LookUp(c) \/ Connect(c) \/ ConnectFails(c) \/ Exchange(c)
  \/ Close(c) \/ SemPost(c)

Next == Accept \/ AcceptFails \/ \E c \in Clients : Run(c) \/ SendFails(c)

Spec == Init /\ [][Next]_vars

(* A thread that can go on does, provided that a client sends its request or *)
(* goes away and an origin closes its connection, as "Connection: close"     *)
(* asks it to: no receive has a time limit.                                  *)
FairSpec == Spec /\ \A c \in Clients : WF_vars(Run(c))

-----------------------------------------------------------------------------
Outside == {"none", "created", "no thread", "done"}

(* The threads past sem_wait and not yet past sem_post.                      *)
Inside == {c \in Clients : pc[c] \notin Outside}

(* Type invariant, with the count of the semaphore: what is left of it and   *)
(* the threads past sem_wait make MAX_CLIENTS.                               *)
TypeOK ==
  /\ running \in BOOLEAN
  /\ i \in 0..MAX_CLIENTS
  /\ Connected_socketId \in [Clients -> Fds \cup {NULL}]
  /\ conn \in [Fds -> {ToClient(c) : c \in Clients}
                      \cup {ToOrigin(h) : h \in Hosts \cup {NULL}} \cup {NULL}]
  /\ pc \in [Clients -> Outside \cup {"receiving", "look up", "connect", "connected",
                                      "close", "closed"}]
  /\ socket \in [Clients -> Fds \cup {NULL}]
  /\ remoteSocket \in [Clients -> Fds \cup {NULL}]
  /\ hostent \in Hosts \cup {NULL}
  /\ seamaphore \in 0..MAX_CLIENTS
  /\ seamaphore + Cardinality(Inside) = MAX_CLIENTS

(* Descriptors are not mixed up, although clients and origins share them and *)
(* numbers are reused: a thread serves the client it was created for; an     *)
(* origin's descriptor, never closed, is still that of the one thread that   *)
(* opened it, long after it has ended; the origin is the one its request     *)
(* names, unless look-ups have overlapped; and nothing else is open but the  *)
(* connections of clients not yet served, or without a thread.               *)
DescriptorsOwned ==
  /\ \A c \in Clients :
       pc[c] \notin Outside \cup {"closed"} => conn[socket[c]] = ToClient(c)
  /\ \A c, d \in Clients : remoteSocket[c] = remoteSocket[d] /\ remoteSocket[c] # NULL => c = d
  /\ \A c \in Clients : remoteSocket[c] # NULL =>
       \/ conn[remoteSocket[c]] = ToOrigin(NULL) /\ pc[c] # "connected"
       \/ conn[remoteSocket[c]] = ToOrigin(HostOf[c])
       \/ overlapped /\ \E h \in Hosts : conn[remoteSocket[c]] = ToOrigin(h)
  /\ \A f \in Fds : conn[f] # NULL =>
       \/ \E c \in Clients : remoteSocket[c] = f
       \/ \E c \in Clients : conn[f] = ToClient(c) /\ pc[c] \notin {"none", "closed", "done"}

(* Every thread ends, unless the server does first.                          *)
EveryThreadEnds ==
  \A c \in Clients : pc[c] = "created" ~> (pc[c] = "done" \/ ~running)
=============================================================================

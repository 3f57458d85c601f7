------------------------------ MODULE Acceptor ------------------------------
(***************************************************************************)
(* main and the outer shell of thread_fn of proxy_server_with_cache.c: the *)
(* accept loop, which leaves each client's descriptor in the next slot of  *)
(* Connected_socketId and hands a new thread the address of the slot; the  *)
(* semaphore that lets MAX_CLIENTS threads serve at a time; and the thread *)
(* that reads its slot once the semaphore lets it through, serves the      *)
(* descriptor it read and closes it.                                       *)
(***************************************************************************)
EXTENDS Integers, FiniteSets

CONSTANTS
  Connections,  \* bound on the connections made to the proxy
  OpenMax,      \* descriptors the process may have open for its clients
  MAX_CLIENTS,
  ThreadLimit,  \* threads the process may create, and never joins
  NULL

ASSUME AcceptorAssumption ==
  /\ Connections \in Nat /\ OpenMax \in Nat /\ ThreadLimit \in Nat
  /\ MAX_CLIENTS \in Nat \ {0}
  /\ NULL \notin Int

\* Clients are numbered in the order in which they are accepted.
Clients == 0..(Connections - 1)
Fds == 0..(OpenMax - 1)
Slots == 0..(MAX_CLIENTS - 1)

VARIABLES
  running,             \* the process has not exited
  i,                   \* the slot of the next connection
  Connected_socketId,  \* slot -> descriptor, NULL before the first
  seamaphore,
  created,             \* threads created so far
  conn,                \* descriptor -> the client connected on it, NULL: closed
  pc,                  \* client -> where its thread is
  slot,                \* client -> the slot its thread was given
  socket,              \* client -> the descriptor its thread has read from it
  accepts,             \* history: connections accepted so far, the next client
  overrun              \* history: MAX_CLIENTS more were accepted before some
                       \* thread had read its slot

thread == <<pc, slot, socket>>
history == <<accepts, overrun>>
vars == <<running, i, Connected_socketId, seamaphore, created, conn, thread, history>>

Init ==
  /\ running = TRUE
  /\ i = 0
  /\ Connected_socketId = [s \in Slots |-> NULL]
  /\ seamaphore = MAX_CLIENTS
  /\ created = 0
  /\ conn = [f \in Fds |-> NULL]
  /\ pc = [c \in Clients |-> "none"]
  /\ slot = [c \in Clients |-> NULL]
  /\ socket = [c \in Clients |-> NULL]
  /\ accepts = 0
  /\ overrun = FALSE

-----------------------------------------------------------------------------
(* The accept loop.                                                          *)
FreeFds == {f \in Fds : conn[f] = NULL}

(* A thread that still has to read its slot.                                 *)
Unread(c) == pc[c] \in {"created", "admitted"}

(* Mutants: the index is not wrapped, or is wrapped one slot too early.      *)
NextSlotUnwrapped == i + 1
NextSlotEarly == IF i + 1 >= MAX_CLIENTS - 1 THEN 0 ELSE i + 1

NextSlot == (i + 1) % MAX_CLIENTS

(* accept succeeds and gives a free descriptor, which goes into slot i; a    *)
(* thread is created for it, or pthread_create fails, which nothing notices. *)
Accept(c) ==
  /\ running
  /\ c = accepts
  /\ \E f \in FreeFds :
       /\ conn' = [conn EXCEPT ![f] = c]
       /\ Connected_socketId' = [Connected_socketId EXCEPT ![i] = f]
  /\ IF created < ThreadLimit
     THEN /\ created' = created + 1
          /\ pc' = [pc EXCEPT ![c] = "created"]
          /\ slot' = [slot EXCEPT ![c] = i]
     ELSE /\ pc' = [pc EXCEPT ![c] = "no thread"]
          /\ UNCHANGED <<created, slot>>
  /\ i' = NextSlot
  /\ accepts' = accepts + 1
  /\ overrun' = (overrun \/ \E d \in Clients : Unread(d) /\ c - d >= MAX_CLIENTS)
  /\ UNCHANGED <<running, seamaphore, socket>>

(* accept fails when no descriptor is left, and the server exits.            *)
AcceptFails ==
  /\ running
  /\ FreeFds = {}
  /\ accepts < Connections
  /\ running' = FALSE
  /\ UNCHANGED <<i, Connected_socketId, seamaphore, created, conn, thread, history>>

-----------------------------------------------------------------------------
(* The thread.                                                               *)
SemWait(c) ==
  /\ running
  /\ pc[c] = "created"
  /\ seamaphore > 0
  /\ seamaphore' = seamaphore - 1
  /\ pc' = [pc EXCEPT ![c] = "admitted"]
  /\ UNCHANGED <<running, i, Connected_socketId, created, conn, slot, socket, history>>

(* socket = *t, after sem_wait.                                              *)
ReadSlot(c) ==
  /\ running
  /\ pc[c] = "admitted"
  /\ socket' = [socket EXCEPT ![c] = Connected_socketId[slot[c]]]
  /\ pc' = [pc EXCEPT ![c] = "serving"]
  /\ UNCHANGED <<running, i, Connected_socketId, seamaphore, created, conn, slot, history>>

(* Mutant: the error path keeps the semaphore.                               *)
NoBufferNoPost(c) ==
  /\ running
  /\ pc[c] = "serving"
  /\ pc' = [pc EXCEPT ![c] = "leaked"]
  /\ UNCHANGED <<running, i, Connected_socketId, seamaphore, created, conn, slot,
                 socket, history>>

(* calloc fails: sem_post and return, the socket stays open.                 *)
NoBuffer(c) ==
  /\ running
  /\ pc[c] = "serving"
  /\ seamaphore' = seamaphore + 1
  /\ pc' = [pc EXCEPT ![c] = "leaked"]
  /\ UNCHANGED <<running, i, Connected_socketId, created, conn, slot, socket, history>>

(* Mutant: the connection is shut down but the descriptor not closed.        *)
ShutdownOnly(c) ==
  /\ running
  /\ pc[c] = "serving"
  /\ pc' = [pc EXCEPT ![c] = "closed"]
  /\ UNCHANGED <<running, i, Connected_socketId, seamaphore, created, conn, slot,
                 socket, history>>

(* shutdown and close of the descriptor the thread read, whoever has it now; *)
(* both fail, unnoticed, when it is not open.                                *)
Close(c) ==
  /\ running
  /\ pc[c] = "serving"
  /\ conn' = [conn EXCEPT ![socket[c]] = NULL]
  /\ pc' = [pc EXCEPT ![c] = "closed"]
  /\ UNCHANGED <<running, i, Connected_socketId, seamaphore, created, slot, socket, history>>

(* Mutant: a served thread keeps the semaphore.                              *)
EndNoPost(c) ==
  /\ running
  /\ pc[c] = "closed"
  /\ pc' = [pc EXCEPT ![c] = "done"]
  /\ UNCHANGED <<running, i, Connected_socketId, seamaphore, created, conn, slot,
                 socket, history>>

SemPost(c) ==
  /\ running
  /\ pc[c] = "closed"
  /\ seamaphore' = seamaphore + 1
  /\ pc' = [pc EXCEPT ![c] = "done"]
  /\ UNCHANGED <<running, i, Connected_socketId, created, conn, slot, socket, history>>

Run(c) == SemWait(c) \/ ReadSlot(c) \/ NoBuffer(c) \/ Close(c) \/ SemPost(c)

Next == AcceptFails \/ \E c \in Clients : Accept(c) \/ Run(c)

Spec == Init /\ [][Next]_vars

(* A thread that can run runs, and one that waits for the semaphore is       *)
(* eventually let through.  Close is fair on the assumption that a client    *)
(* sends its request or goes away: the receive from the client has no        *)
(* time limit.                                                               *)
Fairness ==
  \A c \in Clients :
    /\ SF_vars(SemWait(c))
    /\ WF_vars(ReadSlot(c) \/ NoBuffer(c) \/ Close(c) \/ SemPost(c))

FairSpec == Spec /\ Fairness

-----------------------------------------------------------------------------
Holders == {c \in Clients : pc[c] \in {"admitted", "serving", "closed"}}

TypeOK ==
  /\ running \in BOOLEAN
  /\ i \in Slots
  /\ Connected_socketId \in [Slots -> Fds \cup {NULL}]
  /\ seamaphore \in 0..MAX_CLIENTS
  /\ created \in 0..ThreadLimit
  /\ conn \in [Fds -> Clients \cup {NULL}]
  /\ pc \in [Clients -> {"none", "created", "no thread", "admitted", "serving",
                         "closed", "leaked", "done"}]
  /\ slot \in [Clients -> Slots \cup {NULL}]
  /\ socket \in [Clients -> Fds \cup {NULL}]
  /\ accepts \in Nat
  /\ overrun \in BOOLEAN

(* The semaphore counts: what is left of it and the threads past sem_wait    *)
(* make MAX_CLIENTS, on the error paths of thread_fn too.                    *)
SemaphoreConserved == seamaphore + Cardinality(Holders) = MAX_CLIENTS

(* A thread serves the client it was created for, on a descriptor that no    *)
(* other thread serves or has closed, although slots and descriptor numbers  *)
(* are reused, as long as no thread was so late to read its slot that        *)
(* MAX_CLIENTS other clients had been accepted since its own.                *)
ServesOwnClient ==
  ~overrun => \A c \in Clients : pc[c] = "serving" => conn[socket[c]] = c

(* The same without the proviso: the array "stores socket descriptors of     *)
(* connected clients", and threads beyond MAX_CLIENTS are to wait their turn *)
(* on the semaphore, then serve their clients.                               *)
AlwaysServesOwnClient ==
  \A c \in Clients : pc[c] = "serving" => conn[socket[c]] = c

(* Without an overrun every connection whose thread has ended is closed,     *)
(* except when the thread could not allocate its buffer.                     *)
ConnectionsClosed ==
  ~overrun => \A f \in Fds : conn[f] # NULL => pc[conn[f]] \notin {"closed", "done"}

(* Every thread waiting for the semaphore ends, unless the server exits.     *)
EveryThreadEnds ==
  \A c \in Clients : pc[c] = "created" ~> (pc[c] \in {"done", "leaked"} \/ ~running)

(***************************************************************************)
(* The strengthening that makes these invariants inductive.  Clients that  *)
(* have not been accepted have no thread and no connection.  Without an    *)
(* overrun, a thread that has not read its slot was given the slot k       *)
(* places behind i, for some k of at most MAX_CLIENTS, and its client's    *)
(* descriptor is still in it.                                              *)
(***************************************************************************)
NotYetAccepted ==
  /\ \A c \in Clients : c >= accepts => pc[c] = "none"
  /\ \A f \in Fds : conn[f] # NULL => conn[f] < accepts

OneDescriptor == \A f, g \in Fds : conn[f] = conn[g] /\ conn[f] # NULL => f = g

SlotGiven == \A c \in Clients : Unread(c) => slot[c] \in Slots

Behind(k) == IF i >= k THEN i - k ELSE i - k + MAX_CLIENTS

SlotStillOwn ==
  ~overrun => \A c \in Clients : Unread(c) =>
    /\ accepts - c \in 1..MAX_CLIENTS
    /\ slot[c] = Behind(accepts - c)
    /\ Connected_socketId[slot[c]] \in Fds
    /\ conn[Connected_socketId[slot[c]]] = c

ServesADescriptor ==
  ~overrun => \A c \in Clients : pc[c] = "serving" => socket[c] \in Fds

IInv ==
  /\ TypeOK
  /\ SemaphoreConserved
  /\ NotYetAccepted
  /\ OneDescriptor
  /\ SlotGiven
  /\ SlotStillOwn
  /\ ServesADescriptor
  /\ ServesOwnClient
  /\ ConnectionsClosed
=============================================================================

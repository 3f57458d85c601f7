---------------------------- MODULE BaselineProofs ----------------------------
(* Machine-checked proofs about the server without a cache: its semaphore    *)
(* is conserved, and no two of its connections share a descriptor.           *)
EXTENDS Baseline, ListFacts

-----------------------------------------------------------------------------
(* The inductive invariant.  DescriptorsOwned follows a descriptor from the  *)
(* slot of the accept loop to the thread that has read it; these conjuncts   *)
(* say where it is at each point of that way.                                *)

(* The slots from i on are those of clients that have not come.              *)
SlotsUsedOnce ==
  \A c \in Clients :
    /\ pc[c] = "none" <=> c >= i
    /\ Connected_socketId[c] = NULL <=> c >= i

(* The slot of a client holds the descriptor of its connection, the only one *)
(* it has, from accept until its thread has closed it.                       *)
SlotHoldsOwn ==
  /\ \A c \in Clients : pc[c] \notin {"none", "closed", "done"} =>
       Connected_socketId[c] \in Fds /\ conn[Connected_socketId[c]] = ToClient(c)
  /\ \A c \in Clients, f \in Fds : conn[f] = ToClient(c) => Connected_socketId[c] = f

(* A thread past sem_wait has read its slot.                                 *)
SlotRead ==
  \A c \in Clients :
    pc[c] \notin {"none", "created", "no thread"} => socket[c] = Connected_socketId[c]

(* A thread has a descriptor to an origin from its call to socket on.        *)
OriginSocket ==
  \A c \in Clients :
    /\ pc[c] \in {"none", "created", "no thread", "receiving"} => remoteSocket[c] = NULL
    /\ pc[c] \in {"look up", "connect", "connected"} => remoteSocket[c] # NULL

(* Between look-up and connection the static result is the thread's own,     *)
(* unless another look-up has overlapped.                                    *)
LookedUp ==
  \A c \in Clients : pc[c] = "connect" =>
    hostent \in Hosts /\ (hostent = HostOf[c] \/ overlapped)

IInv ==
  /\ TypeOK /\ SlotsUsedOnce /\ SlotHoldsOwn /\ SlotRead /\ OriginSocket /\ LookedUp
  /\ DescriptorsOwned

-----------------------------------------------------------------------------
(* Descriptors and counting.                                                 *)

(* A descriptor is not NULL.                                                 *)
LEMMA FdsNotNull == NULL \notin Fds
BY BaselineAssumption DEF Fds

(* accept and socket take a descriptor that is closed.                       *)
LEMMA LowestIsFree ==
  ASSUME FreeFds # {}
  PROVE  Min(FreeFds) \in Fds /\ conn[Min(FreeFds)] = NULL
<1>1. FreeFds \subseteq Nat
  BY BaselineAssumption DEF FreeFds, Fds
<1> QED BY <1>1, MinIsMember DEF FreeFds

(* A connection is of one kind and has one peer, and is not NULL.            *)
LEMMA KindsDiffer ==
  /\ \A c \in Clients : ToClient(c) # NULL
  /\ \A h \in Hosts \cup {NULL} : ToOrigin(h) # NULL
  /\ \A c, h : ToClient(c) # ToOrigin(h)
  /\ \A c, d : ToClient(c) = ToClient(d) => c = d
  /\ \A g, h : ToOrigin(g) = ToOrigin(h) => g = h
BY BaselineAssumption DEF ToClient, ToOrigin, Clients

(* The threads past sem_wait are finitely many.                              *)
LEMMA InsideFinite == IsFiniteSet(Inside) /\ Cardinality(Inside) \in Nat
<1>1. IsFiniteSet(Clients)
  BY BaselineAssumption, FS_Interval DEF Clients
<1>2. Inside \in SUBSET Clients
  BY DEF Inside
<1> QED BY <1>1, <1>2, FS_Subset, FS_CardinalityType

(* What a step of a thread leaves alone.                                     *)
LEMMA MoveChanges ==
  ASSUME TypeOK, NEW c \in Clients, NEW from, NEW to, Move(c, from, to),
         to \in Outside \cup {"receiving", "look up", "connect", "connected", "close", "closed"}
  PROVE  /\ pc[c] = from /\ pc'[c] = to
         /\ \A d \in Clients : d # c => pc'[d] = pc[d]
         /\ pc' \in [Clients -> Outside \cup {"receiving", "look up", "connect", "connected",
                                              "close", "closed"}]
         /\ running' = running /\ i' = i /\ Connected_socketId' = Connected_socketId
BY DEF Move, TypeOK, main

(* The descriptor of a thread's connection to an origin is open for that.    *)
LEMMA OriginSocketOpen ==
  ASSUME IInv, NEW c \in Clients, remoteSocket[c] # NULL
  PROVE  /\ remoteSocket[c] \in Fds
         /\ \E h \in Hosts \cup {NULL} : conn[remoteSocket[c]] = ToOrigin(h)
         /\ \A d \in Clients : conn[remoteSocket[c]] # ToClient(d)
<1>1. remoteSocket[c] \in Fds
  BY DEF IInv, TypeOK
<1>2. HostOf[c] \in Hosts
  BY BaselineAssumption DEF Clients
<1>3. \E h \in Hosts \cup {NULL} : conn[remoteSocket[c]] = ToOrigin(h)
  BY <1>2 DEF IInv, DescriptorsOwned
<1> QED BY <1>1, <1>3, KindsDiffer

(* A step within the part that the semaphore guards leaves its count alone.  *)
LEMMA CountKept ==
  ASSUME TypeOK, Inside' = Inside, seamaphore' = seamaphore
  PROVE  seamaphore' \in 0..MAX_CLIENTS /\ seamaphore' + Cardinality(Inside') = MAX_CLIENTS
BY DEF TypeOK

-----------------------------------------------------------------------------
(* The inductive invariant holds at the start.                               *)
LEMMA InitInductive ==
  ASSUME Init
  PROVE  IInv
<1> USE BaselineAssumption
<1>1. TypeOK
  <2>1. Inside = {}
    BY DEF Init, Inside, Outside
  <2>2. seamaphore \in 0..MAX_CLIENTS /\ seamaphore + Cardinality(Inside) = MAX_CLIENTS
    BY <2>1, FS_EmptySet DEF Init
  <2>3. /\ running \in BOOLEAN /\ i \in 0..MAX_CLIENTS
        /\ Connected_socketId \in [Clients -> Fds \cup {NULL}]
        /\ conn \in [Fds -> {ToClient(c) : c \in Clients}
                            \cup {ToOrigin(h) : h \in Hosts \cup {NULL}} \cup {NULL}]
        /\ socket \in [Clients -> Fds \cup {NULL}]
        /\ remoteSocket \in [Clients -> Fds \cup {NULL}]
        /\ hostent \in Hosts \cup {NULL}
    BY DEF Init
  <2>4. pc \in [Clients -> Outside \cup {"receiving", "look up", "connect", "connected",
                                         "close", "closed"}]
    BY DEF Init, Outside
  <2> QED BY <2>2, <2>3, <2>4 DEF TypeOK
<1>2. SlotsUsedOnce /\ SlotHoldsOwn /\ SlotRead /\ OriginSocket /\ LookedUp
  <2>1. SlotsUsedOnce
    BY DEF Init, SlotsUsedOnce, Clients
  <2>2. SlotHoldsOwn
    BY KindsDiffer DEF Init, SlotHoldsOwn
  <2> QED BY <2>1, <2>2 DEF Init, SlotRead, OriginSocket, LookedUp
<1>3. DescriptorsOwned
  BY DEF Init, DescriptorsOwned, Outside
<1> QED BY <1>1, <1>2, <1>3 DEF IInv

(* Accept: the descriptor was closed, so it is nobody's, and becomes that of *)
(* the client whose slot is i.                                               *)
LEMMA AcceptInductive ==
  ASSUME IInv, Accept
  PROVE  IInv'
<1> USE DEF IInv
<1>1. PICK f \in Fds : f = Min(FreeFds) /\ conn[f] = NULL
  BY LowestIsFree DEF Accept
<1>2. /\ i \in Clients /\ i \in Nat /\ i' = i + 1 /\ i' \in 0..MAX_CLIENTS
      /\ \A c \in Clients : c \in Nat
  <2>1. i \in 0..MAX_CLIENTS /\ i < MAX_CLIENTS /\ i' = i + 1
    BY DEF Accept, TypeOK
  <2> QED BY <2>1, BaselineAssumption DEF Clients
<1>3. /\ conn'[f] = ToClient(i)
      /\ \A g \in Fds : g # f => conn'[g] = conn[g]
      /\ conn' \in [Fds -> {ToClient(c) : c \in Clients}
                           \cup {ToOrigin(h) : h \in Hosts \cup {NULL}} \cup {NULL}]
  BY <1>1, <1>2 DEF Accept, TypeOK
<1>4. /\ Connected_socketId'[i] = f
      /\ \A c \in Clients : c # i => Connected_socketId'[c] = Connected_socketId[c]
      /\ Connected_socketId' \in [Clients -> Fds \cup {NULL}]
  BY <1>1, <1>2 DEF Accept, TypeOK
<1>5. /\ pc'[i] \in {"created", "no thread"}
      /\ \A c \in Clients : c # i => pc'[c] = pc[c]
      /\ pc' \in [Clients -> Outside \cup {"receiving", "look up", "connect", "connected",
                                           "close", "closed"}]
  BY <1>2 DEF Accept, TypeOK, Outside
<1>6. /\ running' = running /\ seamaphore' = seamaphore /\ hostent' = hostent
      /\ socket' = socket /\ remoteSocket' = remoteSocket /\ overlapped' = overlapped
  BY DEF Accept, thread, lookup
<1>7. pc[i] = "none" /\ Connected_socketId[i] = NULL
  BY <1>2 DEF SlotsUsedOnce
<1>8. \A c \in Clients : Connected_socketId[c] # NULL => c # i
  BY <1>7
<1>9. \A c \in Clients : remoteSocket[c] # f
  BY <1>1, OriginSocketOpen, KindsDiffer, BaselineAssumption DEF Fds
<1>10. TypeOK'
  <2>1. Inside' = Inside
    BY <1>2, <1>5, <1>7 DEF Inside, Outside
  <2> QED BY <2>1, <1>2, <1>3, <1>4, <1>5, <1>6, CountKept DEF TypeOK
<1>11. SlotsUsedOnce'
  <2> SUFFICES ASSUME NEW c \in Clients
               PROVE  /\ pc'[c] = "none" <=> c >= i'
                      /\ Connected_socketId'[c] = NULL <=> c >= i'
    BY DEF SlotsUsedOnce
  <2>1. CASE c = i
    <3>1. ~ (c >= i') /\ f # NULL
      BY <2>1, <1>2, BaselineAssumption DEF Fds
    <3> QED BY <2>1, <3>1, <1>4, <1>5
  <2>2. CASE c # i
    <3>1. c >= i' <=> c >= i
      BY <2>2, <1>2
    <3> QED BY <2>2, <3>1, <1>4, <1>5 DEF SlotsUsedOnce
  <2> QED BY <2>1, <2>2
<1>12. SlotHoldsOwn'
  <2>1. ASSUME NEW c \in Clients, pc'[c] \notin {"none", "closed", "done"}
        PROVE  Connected_socketId'[c] \in Fds /\ conn'[Connected_socketId'[c]] = ToClient(c)
    <3>1. CASE c = i
      BY <3>1, <1>3, <1>4
    <3>2. CASE c # i
      <4>1. Connected_socketId[c] \in Fds /\ conn[Connected_socketId[c]] = ToClient(c)
        BY <3>2, <2>1, <1>5 DEF SlotHoldsOwn
      <4>2. Connected_socketId[c] # f
        BY <4>1, <1>1, KindsDiffer
      <4> QED BY <4>1, <4>2, <3>2, <1>3, <1>4
    <3> QED BY <3>1, <3>2
  <2>2. ASSUME NEW c \in Clients, NEW g \in Fds, conn'[g] = ToClient(c)
        PROVE  Connected_socketId'[c] = g
    <3>1. CASE g = f
      BY <3>1, <2>2, <1>3, <1>4, KindsDiffer
    <3>2. CASE g # f
      <4>1. Connected_socketId[c] = g
        BY <3>2, <2>2, <1>3 DEF SlotHoldsOwn
      <4> QED BY <4>1, <1>4, <1>8, BaselineAssumption DEF Fds
    <3> QED BY <3>1, <3>2
  <2> QED BY <2>1, <2>2 DEF SlotHoldsOwn
<1>13. SlotRead'
  BY <1>4, <1>5, <1>6 DEF SlotRead
<1>14. OriginSocket'
  BY <1>5, <1>6, <1>7 DEF OriginSocket
<1>15. LookedUp'
  BY <1>5, <1>6 DEF LookedUp
<1>16. DescriptorsOwned'
  <2>1. ASSUME NEW c \in Clients, pc'[c] \notin Outside \cup {"closed"}
        PROVE  conn'[socket'[c]] = ToClient(c)
    <3>1. c # i /\ pc'[c] = pc[c]
      BY <2>1, <1>5 DEF Outside
    <3>2. conn[socket[c]] = ToClient(c) /\ socket[c] = Connected_socketId[c]
          /\ Connected_socketId[c] \in Fds
      BY <2>1, <3>1 DEF DescriptorsOwned, SlotRead, SlotHoldsOwn, Outside
    <3>3. socket[c] # f
      BY <3>2, <1>1, KindsDiffer
    <3> QED BY <3>2, <3>3, <1>3, <1>6
  <2>2. ASSUME NEW c \in Clients, remoteSocket'[c] # NULL
        PROVE  \/ conn'[remoteSocket'[c]] = ToOrigin(NULL) /\ pc'[c] # "connected"
               \/ conn'[remoteSocket'[c]] = ToOrigin(HostOf[c])
               \/ overlapped' /\ \E h \in Hosts : conn'[remoteSocket'[c]] = ToOrigin(h)
    <3>1. remoteSocket[c] \in Fds /\ conn'[remoteSocket'[c]] = conn[remoteSocket[c]]
      BY <2>2, <1>3, <1>6, <1>9 DEF TypeOK
    <3> QED BY <3>1, <2>2, <1>5, <1>6 DEF DescriptorsOwned
  <2>3. ASSUME NEW g \in Fds, conn'[g] # NULL
        PROVE  \/ \E c \in Clients : remoteSocket'[c] = g
               \/ \E c \in Clients : conn'[g] = ToClient(c) /\ pc'[c] \notin {"none", "closed", "done"}
    <3>1. CASE g = f
      BY <3>1, <1>2, <1>3, <1>5
    <3>2. CASE g # f
      <4>1. conn'[g] = conn[g]
        BY <3>2, <1>3
      <4>2. CASE \E c \in Clients : remoteSocket[c] = g
        BY <4>2, <1>6
      <4>3. CASE \E c \in Clients : conn[g] = ToClient(c) /\ pc[c] \notin {"none", "closed", "done"}
        BY <4>3, <4>1, <1>5, <1>7
      <4> QED BY <4>1, <4>2, <4>3, <2>3 DEF DescriptorsOwned
    <3> QED BY <3>1, <3>2
  <2>4. \A c, d \in Clients :
          remoteSocket'[c] = remoteSocket'[d] /\ remoteSocket'[c] # NULL => c = d
    BY <1>6 DEF DescriptorsOwned
  <2> QED BY <2>1, <2>2, <2>3, <2>4 DEF DescriptorsOwned
<1> QED BY <1>10, <1>11, <1>12, <1>13, <1>14, <1>15, <1>16
(* sem_wait: the thread is one more inside, and socket is what its slot      *)
(* holds, its client's descriptor.                                           *)
LEMMA SemWaitInductive ==
  ASSUME IInv, NEW c \in Clients, SemWait(c)
  PROVE  IInv'
<1> USE DEF IInv
<1>1. /\ pc[c] = "created" /\ pc'[c] = "receiving"
      /\ \A d \in Clients : d # c => pc'[d] = pc[d]
      /\ pc' \in [Clients -> Outside \cup {"receiving", "look up", "connect", "connected",
                                           "close", "closed"}]
      /\ running' = running /\ i' = i /\ Connected_socketId' = Connected_socketId
  BY MoveChanges DEF SemWait
<1>2. /\ conn' = conn /\ remoteSocket' = remoteSocket /\ hostent' = hostent
      /\ overlapped' = overlapped /\ seamaphore > 0 /\ seamaphore' = seamaphore - 1
  BY DEF SemWait, lookup
<1>3. /\ socket' \in [Clients -> Fds \cup {NULL}]
      /\ socket'[c] = Connected_socketId[c]
      /\ \A d \in Clients : d # c => socket'[d] = socket[d]
  BY DEF SemWait, TypeOK
<1>4. TypeOK'
  <2>1. c \notin Inside /\ Inside' = Inside \cup {c}
    BY <1>1 DEF Inside, Outside
  <2>2. Cardinality(Inside') = Cardinality(Inside) + 1
    BY <2>1, InsideFinite, FS_AddElement
  <2>3. seamaphore' \in 0..MAX_CLIENTS /\ seamaphore' + Cardinality(Inside') = MAX_CLIENTS
    <3>1. seamaphore \in 0..MAX_CLIENTS /\ seamaphore + Cardinality(Inside) = MAX_CLIENTS
      BY DEF TypeOK
    <3> QED BY <3>1, <2>2, <1>2, InsideFinite, BaselineAssumption
  <2> QED BY <2>3, <1>1, <1>2, <1>3 DEF TypeOK
<1>5. SlotsUsedOnce' /\ SlotHoldsOwn'
  <2>1. SlotsUsedOnce'
    BY <1>1 DEF SlotsUsedOnce
  <2>2. SlotHoldsOwn'
    BY <1>1, <1>2 DEF SlotHoldsOwn
  <2> QED BY <2>1, <2>2
<1>6. SlotRead'
  BY <1>1, <1>3 DEF SlotRead
<1>7. OriginSocket' /\ LookedUp'
  BY <1>1, <1>2 DEF OriginSocket, LookedUp
<1>8. DescriptorsOwned'
  <2>1. ASSUME NEW d \in Clients, pc'[d] \notin Outside \cup {"closed"}
        PROVE  conn'[socket'[d]] = ToClient(d)
    <3>1. CASE d = c
      BY <3>1, <1>1, <1>2, <1>3 DEF SlotHoldsOwn
    <3>2. CASE d # c
      BY <3>2, <2>1, <1>1, <1>2, <1>3 DEF DescriptorsOwned
    <3> QED BY <3>1, <3>2
  <2>2. ASSUME NEW d \in Clients, remoteSocket'[d] # NULL
        PROVE  \/ conn'[remoteSocket'[d]] = ToOrigin(NULL) /\ pc'[d] # "connected"
               \/ conn'[remoteSocket'[d]] = ToOrigin(HostOf[d])
               \/ overlapped' /\ \E h \in Hosts : conn'[remoteSocket'[d]] = ToOrigin(h)
    BY <2>2, <1>1, <1>2 DEF DescriptorsOwned
  <2>3. ASSUME NEW g \in Fds, conn'[g] # NULL
        PROVE  \/ \E d \in Clients : remoteSocket'[d] = g
               \/ \E d \in Clients : conn'[g] = ToClient(d) /\ pc'[d] \notin {"none", "closed", "done"}
    BY <2>3, <1>1, <1>2 DEF DescriptorsOwned
  <2>4. \A d, e \in Clients :
          remoteSocket'[d] = remoteSocket'[e] /\ remoteSocket'[d] # NULL => d = e
    BY <1>2 DEF DescriptorsOwned
  <2> QED BY <2>1, <2>2, <2>3, <2>4 DEF DescriptorsOwned
<1> QED BY <1>4, <1>5, <1>6, <1>7, <1>8

(* A thread that goes on without touching a descriptor disturbs nothing, so  *)
(* long as the result of the look-up is still right.                         *)
LEMMA QuietMoveInductive ==
  ASSUME IInv, NEW c \in Clients, NEW from \in {"receiving", "look up", "connect", "connected"},
         NEW to \in {"connect", "close"}, Move(c, from, to), to = "connect" => from = "look up",
         conn' = conn, socket' = socket, remoteSocket' = remoteSocket,
         seamaphore' = seamaphore, hostent' \in Hosts \cup {NULL},
         overlapped => overlapped', LookedUp'
  PROVE  IInv'
<1> USE DEF IInv
<1>1. /\ pc[c] = from /\ pc'[c] = to
      /\ \A d \in Clients : d # c => pc'[d] = pc[d]
      /\ pc' \in [Clients -> Outside \cup {"receiving", "look up", "connect", "connected",
                                           "close", "closed"}]
      /\ running' = running /\ i' = i /\ Connected_socketId' = Connected_socketId
  BY MoveChanges DEF Outside
<1>2. TypeOK'
  <2>1. Inside' = Inside
    BY <1>1 DEF Inside, Outside
  <2> QED BY <2>1, <1>1, CountKept DEF TypeOK
<1>3. SlotsUsedOnce' /\ SlotHoldsOwn' /\ SlotRead'
  <2>1. SlotsUsedOnce'
    BY <1>1 DEF SlotsUsedOnce
  <2>2. SlotHoldsOwn'
    BY <1>1 DEF SlotHoldsOwn
  <2>3. SlotRead'
    BY <1>1 DEF SlotRead
  <2> QED BY <2>1, <2>2, <2>3
<1>4. OriginSocket'
  BY <1>1 DEF OriginSocket
<1>5. DescriptorsOwned'
  <2>1. ASSUME NEW d \in Clients, pc'[d] \notin Outside \cup {"closed"}
        PROVE  conn'[socket'[d]] = ToClient(d)
    <3>1. pc[d] \notin Outside \cup {"closed"}
      BY <2>1, <1>1 DEF Outside
    <3> QED BY <3>1 DEF DescriptorsOwned
  <2>2. ASSUME NEW d \in Clients, remoteSocket'[d] # NULL
        PROVE  \/ conn'[remoteSocket'[d]] = ToOrigin(NULL) /\ pc'[d] # "connected"
               \/ conn'[remoteSocket'[d]] = ToOrigin(HostOf[d])
               \/ overlapped' /\ \E h \in Hosts : conn'[remoteSocket'[d]] = ToOrigin(h)
    BY <2>2, <1>1 DEF DescriptorsOwned
  <2>3. ASSUME NEW g \in Fds, conn'[g] # NULL
        PROVE  \/ \E d \in Clients : remoteSocket'[d] = g
               \/ \E d \in Clients : conn'[g] = ToClient(d) /\ pc'[d] \notin {"none", "closed", "done"}
    BY <2>3, <1>1 DEF DescriptorsOwned
  <2>4. \A d, e \in Clients :
          remoteSocket'[d] = remoteSocket'[e] /\ remoteSocket'[d] # NULL => d = e
    BY DEF DescriptorsOwned
  <2> QED BY <2>1, <2>2, <2>3, <2>4 DEF DescriptorsOwned
<1> QED BY <1>2, <1>3, <1>4, <1>5

(* The steps of that kind, of which gethostbyname is the one that writes the *)
(* static result: another thread that was about to use it is overlapped.     *)
LEMMA QuietStepsInductive ==
  ASSUME IInv, NEW c \in Clients,
         \/ ReceiveNothing(c) \/ SocketFails(c) \/ LookUp(c) \/ ConnectFails(c) \/ Exchange(c)
  PROVE  IInv'
<1>1. CASE ReceiveNothing(c) \/ SocketFails(c) \/ ConnectFails(c) \/ Exchange(c)
  <2>1. PICK from \in {"receiving", "look up", "connect", "connected"} : Move(c, from, "close")
    BY <1>1 DEF ReceiveNothing, SocketFails, ConnectFails, Exchange
  <2>2. /\ conn' = conn /\ socket' = socket /\ remoteSocket' = remoteSocket
        /\ seamaphore' = seamaphore /\ hostent' = hostent /\ overlapped' = overlapped
    BY <1>1 DEF ReceiveNothing, SocketFails, ConnectFails, SocketLeftOpen, Exchange, thread, lookup
  <2>3. pc'[c] = "close" /\ \A d \in Clients : d # c => pc'[d] = pc[d]
    BY <2>1, MoveChanges DEF IInv
  <2>4. hostent' \in Hosts \cup {NULL} /\ LookedUp'
    BY <2>2, <2>3 DEF IInv, TypeOK, LookedUp
  <2> QED BY <2>1, <2>2, <2>4, QuietMoveInductive
<1>2. CASE LookUp(c)
  <2>1. Move(c, "look up", "connect")
    BY <1>2 DEF LookUp
  <2>2. /\ conn' = conn /\ socket' = socket /\ remoteSocket' = remoteSocket
        /\ seamaphore' = seamaphore /\ hostent' = HostOf[c]
        /\ overlapped' = (overlapped \/ \E d \in Clients : pc[d] = "connect")
    BY <1>2 DEF LookUp, thread
  <2>3. HostOf[c] \in Hosts
    BY BaselineAssumption DEF Clients
  <2>4. pc'[c] = "connect" /\ \A d \in Clients : d # c => pc'[d] = pc[d]
    BY <2>1, MoveChanges DEF IInv
  <2>5. LookedUp'
    BY <2>2, <2>3, <2>4 DEF LookedUp
  <2> QED BY <2>1, <2>2, <2>3, <2>5, QuietMoveInductive
<1> QED BY <1>1, <1>2
(* socket: the descriptor was closed, so it is nobody's, and becomes that of *)
(* the thread's connection to its origin.                                    *)
LEMMA SocketInductive ==
  ASSUME IInv, NEW c \in Clients, Socket(c)
  PROVE  IInv'
<1> USE DEF IInv
<1>1. /\ pc[c] = "receiving" /\ pc'[c] = "look up"
      /\ \A d \in Clients : d # c => pc'[d] = pc[d]
      /\ pc' \in [Clients -> Outside \cup {"receiving", "look up", "connect", "connected",
                                           "close", "closed"}]
      /\ running' = running /\ i' = i /\ Connected_socketId' = Connected_socketId
  BY MoveChanges DEF Socket
<1>2. PICK f \in Fds : f = Min(FreeFds) /\ conn[f] = NULL
  BY LowestIsFree DEF Socket
<1>3. /\ conn'[f] = ToOrigin(NULL)
      /\ \A g \in Fds : g # f => conn'[g] = conn[g]
      /\ conn' \in [Fds -> {ToClient(d) : d \in Clients}
                           \cup {ToOrigin(h) : h \in Hosts \cup {NULL}} \cup {NULL}]
  BY <1>2 DEF Socket, TypeOK
<1>4. /\ remoteSocket'[c] = f
      /\ \A d \in Clients : d # c => remoteSocket'[d] = remoteSocket[d]
      /\ remoteSocket' \in [Clients -> Fds \cup {NULL}]
  BY <1>2 DEF Socket, TypeOK
<1>5. /\ seamaphore' = seamaphore /\ socket' = socket
      /\ hostent' = hostent /\ overlapped' = overlapped
  BY DEF Socket, lookup
<1>6. \A d \in Clients : remoteSocket[d] # f
  BY <1>2, OriginSocketOpen, KindsDiffer, BaselineAssumption DEF Fds
<1>7. \A d \in Clients, g \in Fds : conn[g] = ToClient(d) => g # f
  BY <1>2, KindsDiffer
<1>8. TypeOK'
  <2>1. Inside' = Inside
    BY <1>1 DEF Inside, Outside
  <2> QED BY <2>1, <1>1, <1>3, <1>4, <1>5, CountKept DEF TypeOK
<1>9. SlotsUsedOnce' /\ SlotRead'
  <2>1. SlotsUsedOnce'
    BY <1>1 DEF SlotsUsedOnce
  <2>2. SlotRead'
    BY <1>1, <1>5 DEF SlotRead
  <2> QED BY <2>1, <2>2
<1>10. SlotHoldsOwn'
  <2>1. ASSUME NEW d \in Clients, pc'[d] \notin {"none", "closed", "done"}
        PROVE  Connected_socketId'[d] \in Fds /\ conn'[Connected_socketId'[d]] = ToClient(d)
    <3>1. Connected_socketId[d] \in Fds /\ conn[Connected_socketId[d]] = ToClient(d)
      BY <2>1, <1>1 DEF SlotHoldsOwn
    <3> QED BY <3>1, <1>1, <1>3, <1>7
  <2>2. ASSUME NEW d \in Clients, NEW g \in Fds, conn'[g] = ToClient(d)
        PROVE  Connected_socketId'[d] = g
    <3>1. g # f
      BY <2>2, <1>3, KindsDiffer
    <3> QED BY <3>1, <2>2, <1>1, <1>3 DEF SlotHoldsOwn
  <2> QED BY <2>1, <2>2 DEF SlotHoldsOwn
<1>11. OriginSocket'
  BY <1>1, <1>4, FdsNotNull DEF OriginSocket
<1>12. LookedUp'
  BY <1>1, <1>5 DEF LookedUp
<1>13. DescriptorsOwned'
  <2>1. ASSUME NEW d \in Clients, pc'[d] \notin Outside \cup {"closed"}
        PROVE  conn'[socket'[d]] = ToClient(d)
    <3>1. pc[d] \notin Outside \cup {"closed"}
      BY <2>1, <1>1 DEF Outside
    <3>2. /\ socket[d] = Connected_socketId[d] /\ Connected_socketId[d] \in Fds
          /\ conn[Connected_socketId[d]] = ToClient(d)
      BY <3>1 DEF SlotRead, SlotHoldsOwn, Outside
    <3> QED BY <3>2, <1>3, <1>5, <1>7
  <2>2. ASSUME NEW d \in Clients, remoteSocket'[d] # NULL
        PROVE  \/ conn'[remoteSocket'[d]] = ToOrigin(NULL) /\ pc'[d] # "connected"
               \/ conn'[remoteSocket'[d]] = ToOrigin(HostOf[d])
               \/ overlapped' /\ \E h \in Hosts : conn'[remoteSocket'[d]] = ToOrigin(h)
    <3>1. CASE d = c
      BY <3>1, <1>1, <1>3, <1>4
    <3>2. CASE d # c
      <4>1. remoteSocket'[d] = remoteSocket[d] /\ remoteSocket[d] \in Fds
        BY <3>2, <2>2, <1>4 DEF TypeOK
      <4>2. conn'[remoteSocket'[d]] = conn[remoteSocket[d]]
        BY <4>1, <1>3, <1>6
      <4> QED BY <3>2, <4>1, <4>2, <2>2, <1>1, <1>5 DEF DescriptorsOwned
    <3> QED BY <3>1, <3>2
  <2>3. ASSUME NEW g \in Fds, conn'[g] # NULL
        PROVE  \/ \E d \in Clients : remoteSocket'[d] = g
               \/ \E d \in Clients : conn'[g] = ToClient(d) /\ pc'[d] \notin {"none", "closed", "done"}
    <3>1. CASE g = f
      BY <3>1, <1>4
    <3>2. CASE g # f
      <4>1. conn'[g] = conn[g]
        BY <3>2, <1>3
      <4>2. CASE \E d \in Clients : remoteSocket[d] = g
        <5>1. remoteSocket[c] = NULL /\ g # NULL
          BY <1>1, FdsNotNull DEF OriginSocket
        <5> QED BY <4>2, <5>1, <1>4
      <4>3. CASE \E d \in Clients : conn[g] = ToClient(d) /\ pc[d] \notin {"none", "closed", "done"}
        BY <4>3, <4>1, <1>1
      <4> QED BY <4>1, <4>2, <4>3, <2>3 DEF DescriptorsOwned
    <3> QED BY <3>1, <3>2
  <2>4. \A d, e \in Clients :
          remoteSocket'[d] = remoteSocket'[e] /\ remoteSocket'[d] # NULL => d = e
    BY <1>4, <1>6 DEF DescriptorsOwned
  <2> QED BY <2>1, <2>2, <2>3, <2>4 DEF DescriptorsOwned
<1> QED BY <1>8, <1>9, <1>10, <1>11, <1>12, <1>13

(* connect: the thread's own descriptor, to the host its look-up has left,   *)
(* or another thread's that has overlapped it.                               *)
LEMMA ConnectInductive ==
  ASSUME IInv, NEW c \in Clients, Connect(c)
  PROVE  IInv'
<1> USE DEF IInv
<1>1. /\ pc[c] = "connect" /\ pc'[c] = "connected"
      /\ \A d \in Clients : d # c => pc'[d] = pc[d]
      /\ pc' \in [Clients -> Outside \cup {"receiving", "look up", "connect", "connected",
                                           "close", "closed"}]
      /\ running' = running /\ i' = i /\ Connected_socketId' = Connected_socketId
  BY MoveChanges DEF Connect
<1>2. remoteSocket[c] # NULL
  BY <1>1 DEF OriginSocket
<1>3. PICK f \in Fds : /\ f = remoteSocket[c] 
                       /\ \E h \in Hosts \cup {NULL} : conn[f] = ToOrigin(h)
  BY <1>2, OriginSocketOpen
<1>4. hostent \in Hosts /\ (hostent = HostOf[c] \/ overlapped)
  BY <1>1 DEF LookedUp
<1>5. /\ conn'[f] = ToOrigin(hostent)
      /\ \A g \in Fds : g # f => conn'[g] = conn[g]
      /\ conn' \in [Fds -> {ToClient(d) : d \in Clients}
                           \cup {ToOrigin(h) : h \in Hosts \cup {NULL}} \cup {NULL}]
  BY <1>3, <1>4 DEF Connect, TypeOK
<1>6. /\ seamaphore' = seamaphore /\ socket' = socket /\ remoteSocket' = remoteSocket
      /\ hostent' = hostent /\ overlapped' = overlapped
  BY DEF Connect, thread, lookup
<1>7. \A d \in Clients, g \in Fds : conn[g] = ToClient(d) => g # f
  BY <1>3, KindsDiffer
<1>8. TypeOK'
  <2>1. Inside' = Inside
    BY <1>1 DEF Inside, Outside
  <2> QED BY <2>1, <1>1, <1>5, <1>6, CountKept DEF TypeOK
<1>9. SlotsUsedOnce' /\ SlotRead'
  <2>1. SlotsUsedOnce'
    BY <1>1 DEF SlotsUsedOnce
  <2>2. SlotRead'
    BY <1>1, <1>6 DEF SlotRead
  <2> QED BY <2>1, <2>2
<1>10. SlotHoldsOwn'
  <2>1. ASSUME NEW d \in Clients, pc'[d] \notin {"none", "closed", "done"}
        PROVE  Connected_socketId'[d] \in Fds /\ conn'[Connected_socketId'[d]] = ToClient(d)
    <3>1. Connected_socketId[d] \in Fds /\ conn[Connected_socketId[d]] = ToClient(d)
      BY <2>1, <1>1 DEF SlotHoldsOwn
    <3> QED BY <3>1, <1>1, <1>5, <1>7
  <2>2. ASSUME NEW d \in Clients, NEW g \in Fds, conn'[g] = ToClient(d)
        PROVE  Connected_socketId'[d] = g
    <3>1. g # f
      BY <2>2, <1>5, KindsDiffer
    <3> QED BY <3>1, <2>2, <1>1, <1>5 DEF SlotHoldsOwn
  <2> QED BY <2>1, <2>2 DEF SlotHoldsOwn
<1>11. OriginSocket'
  BY <1>1, <1>2, <1>6 DEF OriginSocket
<1>12. LookedUp'
  BY <1>1, <1>6 DEF LookedUp
<1>13. DescriptorsOwned'
  <2>1. ASSUME NEW d \in Clients, pc'[d] \notin Outside \cup {"closed"}
        PROVE  conn'[socket'[d]] = ToClient(d)
    <3>1. pc[d] \notin Outside \cup {"closed"}
      BY <2>1, <1>1 DEF Outside
    <3>2. /\ socket[d] = Connected_socketId[d] /\ Connected_socketId[d] \in Fds
          /\ conn[Connected_socketId[d]] = ToClient(d)
      BY <3>1 DEF SlotRead, SlotHoldsOwn, Outside
    <3> QED BY <3>2, <1>5, <1>6, <1>7
  <2>2. ASSUME NEW d \in Clients, remoteSocket'[d] # NULL
        PROVE  \/ conn'[remoteSocket'[d]] = ToOrigin(NULL) /\ pc'[d] # "connected"
               \/ conn'[remoteSocket'[d]] = ToOrigin(HostOf[d])
               \/ overlapped' /\ \E h \in Hosts : conn'[remoteSocket'[d]] = ToOrigin(h)
    <3>1. CASE d = c
      BY <3>1, <1>3, <1>4, <1>5, <1>6
    <3>2. CASE d # c
      <4>1. remoteSocket[d] \in Fds /\ remoteSocket[d] # f
        BY <3>2, <2>2, <1>2, <1>3, <1>6 DEF TypeOK, DescriptorsOwned
      <4>2. conn'[remoteSocket'[d]] = conn[remoteSocket[d]]
        BY <4>1, <1>5, <1>6
      <4>3. \/ conn[remoteSocket[d]] = ToOrigin(NULL) /\ pc[d] # "connected"
            \/ conn[remoteSocket[d]] = ToOrigin(HostOf[d])
            \/ overlapped /\ \E h \in Hosts : conn[remoteSocket[d]] = ToOrigin(h)
        BY <2>2, <1>6 DEF DescriptorsOwned
      <4>4. pc'[d] = pc[d] /\ overlapped' = overlapped
        BY <3>2, <1>1, <1>6
      <4> QED BY <4>2, <4>3, <4>4
    <3> QED BY <3>1, <3>2
  <2>3. ASSUME NEW g \in Fds, conn'[g] # NULL
        PROVE  \/ \E d \in Clients : remoteSocket'[d] = g
               \/ \E d \in Clients : conn'[g] = ToClient(d) /\ pc'[d] \notin {"none", "closed", "done"}
    <3>1. CASE g = f
      BY <3>1, <1>3, <1>6
    <3>2. CASE g # f
      <4>1. conn'[g] = conn[g]
        BY <3>2, <1>5
      <4>2. CASE \E d \in Clients : remoteSocket[d] = g
        BY <4>2, <1>6
      <4>3. CASE \E d \in Clients : conn[g] = ToClient(d) /\ pc[d] \notin {"none", "closed", "done"}
        BY <4>3, <4>1, <1>1
      <4> QED BY <4>1, <4>2, <4>3, <2>3 DEF DescriptorsOwned
    <3> QED BY <3>1, <3>2
  <2>4. \A d, e \in Clients :
          remoteSocket'[d] = remoteSocket'[e] /\ remoteSocket'[d] # NULL => d = e
    BY <1>6 DEF DescriptorsOwned
  <2> QED BY <2>1, <2>2, <2>3, <2>4 DEF DescriptorsOwned
<1> QED BY <1>8, <1>9, <1>10, <1>11, <1>12, <1>13

(* close: the descriptor is the one client's whose thread closes it.         *)
LEMMA CloseInductive ==
  ASSUME IInv, NEW c \in Clients, Close(c)
  PROVE  IInv'
<1> USE DEF IInv
<1>1. /\ pc[c] = "close" /\ pc'[c] = "closed"
      /\ \A d \in Clients : d # c => pc'[d] = pc[d]
      /\ pc' \in [Clients -> Outside \cup {"receiving", "look up", "connect", "connected",
                                           "close", "closed"}]
      /\ running' = running /\ i' = i /\ Connected_socketId' = Connected_socketId
  BY MoveChanges DEF Close
<1>2. PICK f \in Fds : f = socket[c] /\ conn[f] = ToClient(c)
  BY <1>1 DEF SlotRead, SlotHoldsOwn
<1>3. /\ conn'[f] = NULL
      /\ \A g \in Fds : g # f => conn'[g] = conn[g]
      /\ conn' \in [Fds -> {ToClient(d) : d \in Clients}
                           \cup {ToOrigin(h) : h \in Hosts \cup {NULL}} \cup {NULL}]
  BY <1>2 DEF Close, TypeOK
<1>4. /\ seamaphore' = seamaphore /\ socket' = socket /\ remoteSocket' = remoteSocket
      /\ hostent' = hostent /\ overlapped' = overlapped
  BY DEF Close, thread, lookup
<1>5. \A d \in Clients : d # c => \A g \in Fds : conn[g] = ToClient(d) => g # f
  BY <1>2, KindsDiffer
<1>6. \A d \in Clients : remoteSocket[d] # f
  BY <1>2, OriginSocketOpen, KindsDiffer, BaselineAssumption DEF Fds
<1>7. TypeOK'
  <2>1. Inside' = Inside
    BY <1>1 DEF Inside, Outside
  <2> QED BY <2>1, <1>1, <1>3, <1>4, CountKept DEF TypeOK
<1>8. SlotsUsedOnce' /\ SlotRead'
  <2>1. SlotsUsedOnce'
    BY <1>1 DEF SlotsUsedOnce
  <2>2. SlotRead'
    BY <1>1, <1>4 DEF SlotRead
  <2> QED BY <2>1, <2>2
<1>9. SlotHoldsOwn'
  <2>1. ASSUME NEW d \in Clients, pc'[d] \notin {"none", "closed", "done"}
        PROVE  Connected_socketId'[d] \in Fds /\ conn'[Connected_socketId'[d]] = ToClient(d)
    <3>1. d # c /\ Connected_socketId[d] \in Fds /\ conn[Connected_socketId[d]] = ToClient(d)
      BY <2>1, <1>1 DEF SlotHoldsOwn
    <3> QED BY <3>1, <1>1, <1>3, <1>5
  <2>2. ASSUME NEW d \in Clients, NEW g \in Fds, conn'[g] = ToClient(d)
        PROVE  Connected_socketId'[d] = g
    <3>1. g # f
      BY <2>2, <1>3, KindsDiffer
    <3> QED BY <3>1, <2>2, <1>1, <1>3 DEF SlotHoldsOwn
  <2> QED BY <2>1, <2>2 DEF SlotHoldsOwn
<1>10. OriginSocket' /\ LookedUp'
  BY <1>1, <1>4 DEF OriginSocket, LookedUp
<1>11. DescriptorsOwned'
  <2>1. ASSUME NEW d \in Clients, pc'[d] \notin Outside \cup {"closed"}
        PROVE  conn'[socket'[d]] = ToClient(d)
    <3>1. d # c /\ pc[d] \notin Outside \cup {"closed"}
      BY <2>1, <1>1 DEF Outside
    <3>2. /\ socket[d] = Connected_socketId[d] /\ Connected_socketId[d] \in Fds
          /\ conn[Connected_socketId[d]] = ToClient(d)
      BY <3>1 DEF SlotRead, SlotHoldsOwn, Outside
    <3> QED BY <3>1, <3>2, <1>3, <1>4, <1>5
  <2>2. ASSUME NEW d \in Clients, remoteSocket'[d] # NULL
        PROVE  \/ conn'[remoteSocket'[d]] = ToOrigin(NULL) /\ pc'[d] # "connected"
               \/ conn'[remoteSocket'[d]] = ToOrigin(HostOf[d])
               \/ overlapped' /\ \E h \in Hosts : conn'[remoteSocket'[d]] = ToOrigin(h)
    <3>1. remoteSocket[d] \in Fds
      BY <2>2, <1>4 DEF TypeOK
    <3>2. conn'[remoteSocket'[d]] = conn[remoteSocket[d]]
      BY <3>1, <1>3, <1>4, <1>6
    <3> QED BY <3>2, <2>2, <1>1, <1>4 DEF DescriptorsOwned
  <2>3. ASSUME NEW g \in Fds, conn'[g] # NULL
        PROVE  \/ \E d \in Clients : remoteSocket'[d] = g
               \/ \E d \in Clients : conn'[g] = ToClient(d) /\ pc'[d] \notin {"none", "closed", "done"}
    <3>1. g # f /\ conn'[g] = conn[g]
      BY <2>3, <1>3
    <3>2. CASE \E d \in Clients : remoteSocket[d] = g
      BY <3>2, <1>4
    <3>3. CASE \E d \in Clients : conn[g] = ToClient(d) /\ pc[d] \notin {"none", "closed", "done"}
      <4>1. PICK d \in Clients : conn[g] = ToClient(d) /\ pc[d] \notin {"none", "closed", "done"}
        BY <3>3
      <4>2. d # c
        BY <4>1, <3>1, <1>1, <1>2 DEF SlotRead, SlotHoldsOwn
      <4> QED BY <4>1, <4>2, <3>1, <1>1
    <3> QED BY <3>1, <3>2, <3>3, <2>3 DEF DescriptorsOwned
  <2>4. \A d, e \in Clients :
          remoteSocket'[d] = remoteSocket'[e] /\ remoteSocket'[d] # NULL => d = e
    BY <1>4 DEF DescriptorsOwned
  <2> QED BY <2>1, <2>2, <2>3, <2>4 DEF DescriptorsOwned
<1> QED BY <1>7, <1>8, <1>9, <1>10, <1>11

(* sem_post: the thread is one less inside.                                  *)
LEMMA SemPostInductive ==
  ASSUME IInv, NEW c \in Clients, SemPost(c)
  PROVE  IInv'
<1> USE DEF IInv
<1>1. /\ pc[c] = "closed" /\ pc'[c] = "done"
      /\ \A d \in Clients : d # c => pc'[d] = pc[d]
      /\ pc' \in [Clients -> Outside \cup {"receiving", "look up", "connect", "connected",
                                           "close", "closed"}]
      /\ running' = running /\ i' = i /\ Connected_socketId' = Connected_socketId
  BY MoveChanges DEF SemPost, Outside
<1>2. /\ conn' = conn /\ socket' = socket /\ remoteSocket' = remoteSocket
      /\ hostent' = hostent /\ overlapped' = overlapped /\ seamaphore' = seamaphore + 1
  BY DEF SemPost, Posted, thread, lookup
<1>3. TypeOK'
  <2>1. c \in Inside /\ Inside' = Inside \ {c}
    BY <1>1 DEF Inside, Outside
  <2>2. Cardinality(Inside') = Cardinality(Inside) - 1 /\ Cardinality(Inside') \in Nat
    <3>1. IsFiniteSet(Inside) /\ Cardinality(Inside) # 0
      BY <2>1, InsideFinite, FS_EmptySet
    <3>2. Cardinality(Inside \ {c}) = Cardinality(Inside) - 1
      BY <2>1, InsideFinite, FS_RemoveElement
    <3> QED BY <2>1, <3>1, <3>2, InsideFinite
  <2>3. seamaphore' \in 0..MAX_CLIENTS /\ seamaphore' + Cardinality(Inside') = MAX_CLIENTS
    <3>1. seamaphore \in 0..MAX_CLIENTS /\ seamaphore + Cardinality(Inside) = MAX_CLIENTS
      BY DEF TypeOK
    <3> QED BY <3>1, <2>2, <1>2, InsideFinite, BaselineAssumption
  <2> QED BY <2>3, <1>1, <1>2 DEF TypeOK
<1>4. SlotsUsedOnce' /\ SlotHoldsOwn' /\ SlotRead'
  <2>1. SlotsUsedOnce'
    BY <1>1 DEF SlotsUsedOnce
  <2>2. SlotHoldsOwn'
    BY <1>1, <1>2 DEF SlotHoldsOwn
  <2>3. SlotRead'
    BY <1>1, <1>2 DEF SlotRead
  <2> QED BY <2>1, <2>2, <2>3
<1>5. OriginSocket' /\ LookedUp'
  BY <1>1, <1>2 DEF OriginSocket, LookedUp
<1>6. DescriptorsOwned'
  <2>1. ASSUME NEW d \in Clients, pc'[d] \notin Outside \cup {"closed"}
        PROVE  conn'[socket'[d]] = ToClient(d)
    <3>1. pc[d] \notin Outside \cup {"closed"}
      BY <2>1, <1>1 DEF Outside
    <3> QED BY <3>1, <1>2 DEF DescriptorsOwned
  <2>2. ASSUME NEW d \in Clients, remoteSocket'[d] # NULL
        PROVE  \/ conn'[remoteSocket'[d]] = ToOrigin(NULL) /\ pc'[d] # "connected"
               \/ conn'[remoteSocket'[d]] = ToOrigin(HostOf[d])
               \/ overlapped' /\ \E h \in Hosts : conn'[remoteSocket'[d]] = ToOrigin(h)
    BY <2>2, <1>1, <1>2 DEF DescriptorsOwned
  <2>3. ASSUME NEW g \in Fds, conn'[g] # NULL
        PROVE  \/ \E d \in Clients : remoteSocket'[d] = g
               \/ \E d \in Clients : conn'[g] = ToClient(d) /\ pc'[d] \notin {"none", "closed", "done"}
    BY <2>3, <1>1, <1>2 DEF DescriptorsOwned
  <2>4. \A d, e \in Clients :
          remoteSocket'[d] = remoteSocket'[e] /\ remoteSocket'[d] # NULL => d = e
    BY <1>2 DEF DescriptorsOwned
  <2> QED BY <2>1, <2>2, <2>3, <2>4 DEF DescriptorsOwned
<1> QED BY <1>3, <1>4, <1>5, <1>6

(* The end of the server, and a step of something else, change none of this. *)
LEMMA StopInductive ==
  ASSUME IInv, AcceptFails \/ (\E c \in Clients : SendFails(c)) \/ UNCHANGED vars
  PROVE  IInv'
<1>1. /\ i' = i /\ Connected_socketId' = Connected_socketId /\ seamaphore' = seamaphore
      /\ conn' = conn /\ pc' = pc /\ socket' = socket /\ remoteSocket' = remoteSocket
      /\ hostent' = hostent /\ overlapped' = overlapped /\ running' \in BOOLEAN
  <2>1. running \in BOOLEAN
    BY DEF IInv, TypeOK
  <2>2. /\ main' = main /\ seamaphore' = seamaphore /\ conn' = conn /\ pc' = pc
        /\ thread' = thread /\ lookup' = lookup /\ (running' = FALSE \/ running' = running)
    BY DEF AcceptFails, SendFails, vars
  <2> QED BY <2>1, <2>2 DEF main, thread, lookup
<1>2. TypeOK'
  BY <1>1 DEF IInv, TypeOK, Inside
<1>3. SlotsUsedOnce' /\ SlotHoldsOwn' /\ SlotRead' /\ OriginSocket' /\ LookedUp'
  BY <1>1 DEF IInv, SlotsUsedOnce, SlotHoldsOwn, SlotRead, OriginSocket, LookedUp
<1>4. DescriptorsOwned'
  BY <1>1 DEF IInv, DescriptorsOwned
<1> QED BY <1>2, <1>3, <1>4 DEF IInv

-----------------------------------------------------------------------------
(* The invariant is inductive: every behaviour of the server satisfies it.   *)
THEOREM Inductive == Spec => []IInv
<1>1. ASSUME IInv, [Next]_vars
      PROVE  IInv'
  <2>1. CASE Accept
    BY <2>1, <1>1, AcceptInductive
  <2>2. CASE AcceptFails \/ (\E c \in Clients : SendFails(c)) \/ UNCHANGED vars
    BY <2>2, <1>1, StopInductive
  <2>3. ASSUME NEW c \in Clients, Run(c)
        PROVE  IInv'
    BY <2>3, <1>1, SemWaitInductive, QuietStepsInductive, SocketInductive, ConnectInductive,
       CloseInductive, SemPostInductive DEF Run
  <2> QED BY <2>1, <2>2, <2>3, <1>1 DEF Next
<1> QED BY <1>1, InitInductive, PTL DEF Spec

(* The semaphore is conserved: on every path of thread_fn, the error paths   *)
(* included, what is left of it and the threads between sem_wait and         *)
(* sem_post make MAX_CLIENTS.                                                *)
THEOREM SemaphoreConserved == Spec => []TypeOK
<1>1. IInv => TypeOK
  BY DEF IInv
<1> QED BY <1>1, Inductive, PTL

(* A thread serves its own client on a descriptor nobody else uses, and a    *)
(* descriptor to an origin, which is never closed, keeps its one owner and   *)
(* the host its request names unless look-ups have overlapped.               *)
THEOREM DescriptorsNotMixedUp == Spec => []DescriptorsOwned
<1>1. IInv => DescriptorsOwned
  BY DEF IInv
<1> QED BY <1>1, Inductive, PTL
=============================================================================

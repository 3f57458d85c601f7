---------------------------- MODULE AcceptorProofs ----------------------------
(* Machine-checked proofs about the accept loop and its threads.             *)
EXTENDS Acceptor, FiniteSetTheorems, TLAPS

-----------------------------------------------------------------------------
(* Arithmetic of the slot index.                                             *)

(* The index of the next slot is i + 1, or 0 after the last.                 *)
LEMMA NextSlotWraps ==
  ASSUME i \in Slots
  PROVE  /\ NextSlot = IF i + 1 = MAX_CLIENTS THEN 0 ELSE i + 1
         /\ NextSlot \in Slots
<1>1. MAX_CLIENTS \in Nat /\ MAX_CLIENTS > 0 /\ i \in 0..(MAX_CLIENTS - 1)
  BY AcceptorAssumption DEF Slots
<1>2. CASE i + 1 = MAX_CLIENTS
  <2>1. MAX_CLIENTS % MAX_CLIENTS = 0
    BY <1>1
  <2> QED BY <1>1, <1>2, <2>1 DEF NextSlot, Slots
<1>3. CASE i + 1 < MAX_CLIENTS
  <2>1. (i + 1) % MAX_CLIENTS = i + 1
    BY <1>1, <1>3
  <2> QED BY <1>1, <1>3, <2>1 DEF NextSlot, Slots
<1> QED BY <1>1, <1>2, <1>3

-----------------------------------------------------------------------------
(* Counting the threads past sem_wait.                                       *)

(* Sets of clients are finite.                                               *)
LEMMA ClientsFinite == \A S \in SUBSET Clients : IsFiniteSet(S) /\ Cardinality(S) \in Nat
<1>1. IsFiniteSet(Clients)
  BY AcceptorAssumption, FS_Interval DEF Clients
<1> QED BY <1>1, FS_Subset, FS_CardinalityType

(* So are the threads past sem_wait, whose number is a natural number.       *)
LEMMA HoldersFinite == IsFiniteSet(Holders) /\ Cardinality(Holders) \in Nat
<1>1. Holders \in SUBSET Clients
  BY DEF Holders
<1> QED BY <1>1, ClientsFinite

(* A thread that sem_wait lets through is one more of them ...               *)
LEMMA HolderEnters ==
  ASSUME NEW c \in Clients, c \notin Holders, Holders' = Holders \cup {c}
  PROVE  Cardinality(Holders') = Cardinality(Holders) + 1
BY HoldersFinite, FS_AddElement

(* ... and one that posts is one less.                                       *)
LEMMA HolderLeaves ==
  ASSUME NEW c \in Clients, c \in Holders, Holders' = Holders \ {c}
  PROVE  /\ Cardinality(Holders') = Cardinality(Holders) - 1
         /\ Cardinality(Holders) > 0
BY HoldersFinite, FS_RemoveElement, FS_EmptySet

-----------------------------------------------------------------------------
(* The inductive invariant holds at the start.                               *)
LEMMA InitInductive ==
  ASSUME Init
  PROVE  IInv
<1> USE AcceptorAssumption
<1>1. TypeOK
  <2>1. running \in BOOLEAN /\ overrun \in BOOLEAN
    BY DEF Init
  <2>2. i \in Slots /\ seamaphore \in 0..MAX_CLIENTS /\ created \in 0..ThreadLimit
    BY DEF Init, Slots
  <2>3. accepts \in Nat
    BY DEF Init
  <2>4. /\ Connected_socketId \in [Slots -> Fds \cup {NULL}]
        /\ conn \in [Fds -> Clients \cup {NULL}]
        /\ slot \in [Clients -> Slots \cup {NULL}]
        /\ socket \in [Clients -> Fds \cup {NULL}]
    BY DEF Init
  <2>5. pc \in [Clients -> {"none", "created", "no thread", "admitted", "serving",
                          "closed", "leaked", "done"}]
    BY DEF Init
  <2> QED BY <2>1, <2>2, <2>3, <2>4, <2>5 DEF TypeOK
<1>2. SemaphoreConserved
  <2>1. Holders = {}
    BY DEF Init, Holders
  <2> QED BY <2>1, FS_EmptySet DEF Init, SemaphoreConserved
<1>3. NotYetAccepted /\ OneDescriptor
  BY DEF Init, NotYetAccepted, OneDescriptor
<1>4. SlotGiven /\ SlotStillOwn
  BY DEF Init, SlotGiven, SlotStillOwn, Unread
<1>5. ServesADescriptor /\ ServesOwnClient /\ ConnectionsClosed
  BY DEF Init, ServesADescriptor, ServesOwnClient, ConnectionsClosed
<1> QED BY <1>1, <1>2, <1>3, <1>4, <1>5 DEF IInv

(* Accept: the new client's slot is MAX_CLIENTS behind that of the client    *)
(* accepted MAX_CLIENTS before it, so without an overrun no thread that has  *)
(* still to read its slot was given that one.                                *)
LEMMA AcceptInductive ==
  ASSUME IInv, NEW c \in Clients, Accept(c)
  PROVE  IInv'
<1> USE DEF IInv
<1>1. /\ c = accepts /\ accepts \in Nat /\ accepts' = accepts + 1
      /\ MAX_CLIENTS \in Nat /\ MAX_CLIENTS > 0 /\ i \in 0..(MAX_CLIENTS - 1)
      /\ i' = IF i + 1 = MAX_CLIENTS THEN 0 ELSE i + 1
      /\ i' \in Slots
      /\ socket' = socket /\ seamaphore' = seamaphore /\ running' = running
  <2>1. /\ c = accepts /\ accepts' = accepts + 1 /\ i' = NextSlot
        /\ socket' = socket /\ seamaphore' = seamaphore /\ running' = running
    BY DEF Accept
  <2>2. accepts \in Nat /\ i \in Slots
    BY DEF TypeOK
  <2> QED BY <2>1, <2>2, NextSlotWraps, AcceptorAssumption DEF Slots
<1>2. PICK f \in Fds :
        /\ conn[f] = NULL
        /\ conn' = [conn EXCEPT ![f] = c]
        /\ Connected_socketId' = [Connected_socketId EXCEPT ![i] = f]
  BY DEF Accept, FreeFds
<1>3. /\ pc[c] = "none"
      /\ \A d \in Clients : d # c => pc'[d] = pc[d] /\ slot'[d] = slot[d]
      /\ \/ pc'[c] = "created" /\ slot'[c] = i
         \/ pc'[c] = "no thread" /\ slot'[c] = slot[c]
      /\ pc' \in [Clients -> {"none", "created", "no thread", "admitted", "serving",
                              "closed", "leaked", "done"}]
      /\ slot' \in [Clients -> Slots \cup {NULL}]
      /\ created' \in 0..ThreadLimit
  <2>1. pc[c] = "none"
    BY <1>1 DEF NotYetAccepted
  <2>2. CASE created < ThreadLimit
    <3>1. /\ created' = created + 1
          /\ pc' = [pc EXCEPT ![c] = "created"]
          /\ slot' = [slot EXCEPT ![c] = i]
      BY <2>2 DEF Accept
    <3>2. created' \in 0..ThreadLimit
      <4>1. created \in 0..ThreadLimit
        BY DEF TypeOK
      <4> QED BY <4>1, <2>2, <3>1, AcceptorAssumption
    <3>3. i \in Slots /\ slot \in [Clients -> Slots \cup {NULL}]
      BY DEF TypeOK
    <3>4. pc \in [Clients -> {"none", "created", "no thread", "admitted", "serving",
                            "closed", "leaked", "done"}]
      BY DEF TypeOK
    <3> QED BY <2>1, <3>1, <3>2, <3>3, <3>4
  <2>3. CASE ~(created < ThreadLimit)
    BY <2>1, <2>3, <1>1, AcceptorAssumption DEF Accept, TypeOK, Slots
  <2> QED BY <2>2, <2>3
<1>4. /\ conn' \in [Fds -> Clients \cup {NULL}]
      /\ conn'[f] = c
      /\ \A g \in Fds : g # f => conn'[g] = conn[g]
      /\ Connected_socketId' \in [Slots -> Fds \cup {NULL}]
      /\ Connected_socketId'[i] = f
      /\ \A s \in Slots : s # i => Connected_socketId'[s] = Connected_socketId[s]
  BY <1>1, <1>2 DEF TypeOK, Slots
<1>5. TypeOK'
  <2>1. running' \in BOOLEAN /\ overrun' \in BOOLEAN
    BY DEF Accept, TypeOK
  <2>2. accepts' \in Nat
    BY <1>1
  <2>3. seamaphore' \in 0..MAX_CLIENTS /\ socket' \in [Clients -> Fds \cup {NULL}]
    <3>1. seamaphore \in 0..MAX_CLIENTS /\ socket \in [Clients -> Fds \cup {NULL}]
      BY DEF TypeOK
    <3> QED BY <3>1, <1>1
  <2> QED BY <2>1, <2>2, <2>3, <1>1, <1>3, <1>4 DEF TypeOK
<1>6. SemaphoreConserved'
  <2>1. Holders' = Holders
    BY <1>3 DEF Holders
  <2> QED BY <2>1, <1>1 DEF SemaphoreConserved
<1>7. c \in Int /\ c # NULL /\ \A d \in Clients : d \in Int /\ d # NULL
  BY AcceptorAssumption DEF Clients
<1>8. NotYetAccepted'
  <2>1. ASSUME NEW d \in Clients, d >= accepts'
        PROVE  pc'[d] = "none"
    <3>1. d >= accepts /\ d # c
      BY <2>1, <1>1, <1>7
    <3> QED BY <3>1, <1>3 DEF NotYetAccepted
  <2>2. ASSUME NEW g \in Fds, conn'[g] # NULL
        PROVE  conn'[g] < accepts'
    <3>1. CASE g = f
      BY <3>1, <1>1, <1>4
    <3>2. CASE g # f
      <4>1. conn[g] \in Clients /\ conn[g] < accepts
        <5>1. conn[g] # NULL
          BY <2>2, <3>2, <1>4
        <5>2. conn[g] \in Clients
          BY <5>1 DEF TypeOK
        <5> QED BY <5>1, <5>2 DEF NotYetAccepted
      <4>2. conn'[g] = conn[g] /\ conn[g] \in Int
        BY <4>1, <3>2, <1>4, <1>7
      <4> QED BY <4>1, <4>2, <1>1
    <3> QED BY <3>1, <3>2
  <2> QED BY <2>1, <2>2 DEF NotYetAccepted
<1>9. \A g \in Fds : conn[g] # c
  BY <1>1, <1>7 DEF NotYetAccepted
<1>10. OneDescriptor'
  <2> SUFFICES ASSUME NEW g \in Fds, NEW h \in Fds, conn'[g] = conn'[h], conn'[g] # NULL
               PROVE  g = h
    BY DEF OneDescriptor
  <2>1. CASE g = f
    BY <2>1, <1>4, <1>9
  <2>2. CASE h = f
    BY <2>2, <1>4, <1>9
  <2>3. CASE g # f /\ h # f
    BY <2>3, <1>4 DEF OneDescriptor
  <2> QED BY <2>1, <2>2, <2>3
<1>11. SlotGiven'
  BY <1>1, <1>3 DEF SlotGiven, Unread, Slots
<1>12. SlotStillOwn'
  <2> SUFFICES ASSUME ~overrun', NEW d \in Clients, Unread(d)'
               PROVE  /\ accepts' - d \in 1..MAX_CLIENTS
                      /\ slot'[d] = Behind(accepts - d)'
                      /\ Connected_socketId'[slot'[d]] \in Fds
                      /\ conn'[Connected_socketId'[slot'[d]]] = d
    BY DEF SlotStillOwn
  <2>1. ~overrun /\ (Unread(d) => c - d < MAX_CLIENTS)
    <3>1. ~(c - d >= MAX_CLIENTS) => c - d < MAX_CLIENTS
      BY <1>1, <1>7
    <3> QED BY <3>1 DEF Accept
  <2>2. CASE d = c
    <3>1. slot'[c] = i
      BY <2>2, <1>3 DEF Unread
    <3>2. accepts' - c = 1 /\ 1 \in 1..MAX_CLIENTS
      BY <1>1
    <3>3. i = Behind(accepts - c)'
      BY <3>2, <1>1 DEF Behind
    <3>4. i \in Slots
      BY DEF TypeOK
    <3> QED BY <2>2, <3>1, <3>2, <3>3, <1>4
  <2>3. CASE d # c
    <3>1. Unread(d) /\ slot'[d] = slot[d]
      BY <2>3, <1>3 DEF Unread
    <3>2. /\ accepts - d \in 1..MAX_CLIENTS
          /\ slot[d] = Behind(accepts - d)
          /\ Connected_socketId[slot[d]] \in Fds
          /\ conn[Connected_socketId[slot[d]]] = d
          /\ slot[d] \in Slots
      BY <2>1, <3>1 DEF SlotStillOwn, SlotGiven
    <3>3. accepts - d < MAX_CLIENTS
      BY <2>1, <3>1, <1>1
    <3>4. accepts' - d \in 1..MAX_CLIENTS
      BY <3>2, <3>3, <1>1, <1>7
    <3>5. slot[d] # i
      BY <3>2, <3>3, <1>1, <1>7 DEF Behind
    <3>6. slot[d] = Behind(accepts - d)'
      <4> DEFINE k == accepts - d
      <4>1. k \in Int /\ k >= 1 /\ k < MAX_CLIENTS /\ accepts' - d = k + 1
        BY <3>2, <3>3, <1>1, <1>7
      <4>2. slot[d] = IF i >= k THEN i - k ELSE i - k + MAX_CLIENTS
        BY <3>2 DEF Behind
      <4>3. Behind(accepts - d)' = IF i' >= k + 1 THEN i' - (k + 1)
                                   ELSE i' - (k + 1) + MAX_CLIENTS
        BY <4>1 DEF Behind
      <4> HIDE DEF k
      <4> QED BY <4>1, <4>2, <4>3, <1>1
    <3>7. Connected_socketId[slot[d]] # f
      BY <3>2, <1>2, <1>7
    <3> QED BY <3>1, <3>2, <3>4, <3>5, <3>6, <3>7, <1>4
  <2> QED BY <2>2, <2>3
<1>13. ~overrun' => ~overrun
  BY DEF Accept
<1>14. ServesADescriptor' /\ ServesOwnClient'
  <2> SUFFICES ASSUME ~overrun', NEW d \in Clients, pc'[d] = "serving"
               PROVE  socket'[d] \in Fds /\ conn'[socket'[d]] = d
    BY DEF ServesADescriptor, ServesOwnClient
  <2>1. pc[d] = "serving" /\ socket'[d] = socket[d]
    BY <1>1, <1>3
  <2>2. socket[d] \in Fds /\ conn[socket[d]] = d
    BY <2>1, <1>13 DEF ServesADescriptor, ServesOwnClient
  <2>3. socket[d] # f
    BY <2>2, <1>2, <1>7
  <2> QED BY <2>1, <2>2, <2>3, <1>4
<1>15. ConnectionsClosed'
  <2> SUFFICES ASSUME ~overrun', NEW g \in Fds, conn'[g] # NULL
               PROVE  pc'[conn'[g]] \notin {"closed", "done"}
    BY DEF ConnectionsClosed
  <2>1. CASE g = f
    BY <2>1, <1>3, <1>4
  <2>2. CASE g # f
    <3>1. conn'[g] = conn[g] /\ conn[g] \in Clients /\ conn[g] # c
      <4>1. conn'[g] = conn[g]
        BY <2>2, <1>4
      <4>2. conn[g] \in Clients
        BY <4>1 DEF TypeOK
      <4> QED BY <4>1, <4>2, <1>9
    <3> QED BY <3>1, <1>3, <1>13 DEF ConnectionsClosed
  <2> QED BY <2>1, <2>2
<1> QED BY <1>5, <1>6, <1>8, <1>10, <1>11, <1>12, <1>14, <1>15

(* A failing accept stops the server and changes nothing else.               *)
LEMMA AcceptFailsInductive ==
  ASSUME IInv, AcceptFails
  PROVE  IInv'
<1>1. /\ running' = FALSE /\ i' = i /\ Connected_socketId' = Connected_socketId
      /\ seamaphore' = seamaphore /\ created' = created /\ conn' = conn /\ pc' = pc
      /\ slot' = slot /\ socket' = socket /\ accepts' = accepts /\ overrun' = overrun
  BY DEF AcceptFails, thread, history
<1> USE <1>1 DEF IInv
<1>2. TypeOK'
  <2>1. running' \in BOOLEAN
    BY <1>1
  <2> QED BY <2>1 DEF TypeOK
<1>3. SemaphoreConserved' /\ NotYetAccepted' /\ OneDescriptor'
  BY DEF SemaphoreConserved, Holders, NotYetAccepted, OneDescriptor
<1>4. SlotGiven' /\ SlotStillOwn'
  BY DEF SlotGiven, SlotStillOwn, Unread, Behind
<1>5. ServesADescriptor' /\ ServesOwnClient' /\ ConnectionsClosed'
  BY DEF ServesADescriptor, ServesOwnClient, ConnectionsClosed
<1> QED BY <1>2, <1>3, <1>4, <1>5

(* A stuttering step keeps the invariant.                                    *)
LEMMA StutterInductive ==
  ASSUME IInv, UNCHANGED vars
  PROVE  IInv'
<1>1. /\ running' = running /\ i' = i /\ Connected_socketId' = Connected_socketId
      /\ seamaphore' = seamaphore /\ created' = created /\ conn' = conn /\ pc' = pc
      /\ slot' = slot /\ socket' = socket /\ accepts' = accepts /\ overrun' = overrun
  BY DEF vars, thread, history
<1> USE <1>1 DEF IInv
<1>2. TypeOK' /\ SemaphoreConserved' /\ NotYetAccepted' /\ OneDescriptor'
  BY DEF TypeOK, SemaphoreConserved, Holders, NotYetAccepted, OneDescriptor
<1>3. SlotGiven' /\ SlotStillOwn'
  BY DEF SlotGiven, SlotStillOwn, Unread, Behind
<1>4. ServesADescriptor' /\ ServesOwnClient' /\ ConnectionsClosed'
  BY DEF ServesADescriptor, ServesOwnClient, ConnectionsClosed
<1> QED BY <1>2, <1>3, <1>4

-----------------------------------------------------------------------------
(* The steps of a thread.                                                    *)

(* What the steps of the thread of c have in common: the accept loop stays   *)
(* as it is, the thread moves on, the other threads keep their descriptors,  *)
(* and the only connection closed, without an overrun, is that of c, which   *)
(* has read its slot by then.                                                *)
LoopKept ==
  /\ running' = running /\ i' = i /\ Connected_socketId' = Connected_socketId
  /\ created' = created /\ slot' = slot /\ accepts' = accepts /\ overrun' = overrun

Moves(c) ==
  /\ pc[c] \in {"created", "admitted", "serving", "closed"}
  /\ pc'[c] \in {"admitted", "serving", "closed", "leaked", "done"}
  /\ pc' = [pc EXCEPT ![c] = pc'[c]]

Releases(c) ==
  /\ conn' \in [Fds -> Clients \cup {NULL}]
  /\ \A g \in Fds : conn'[g] = conn[g] \/ conn'[g] = NULL
  /\ ~overrun => \A g \in Fds : conn'[g] = conn[g] \/ conn[g] = c
  /\ conn' # conn => ~Unread(c)'

OwnSocket(c) ==
  /\ socket' \in [Clients -> Fds \cup {NULL}]
  /\ \A d \in Clients : d # c => socket'[d] = socket[d]

ThreadStep(c) ==
  /\ LoopKept
  /\ Moves(c)
  /\ Unread(c)' => Unread(c)
  /\ OwnSocket(c)
  /\ Releases(c)

(* Such a step keeps the invariant if it keeps the count of the semaphore    *)
(* and what the invariant says of c itself.                                  *)
LEMMA ThreadKeeps ==
  ASSUME IInv, NEW c \in Clients, ThreadStep(c),
         seamaphore' \in Nat, SemaphoreConserved',
         ~overrun /\ pc'[c] = "serving" => socket'[c] \in Fds /\ conn'[socket'[c]] = c,
         ~overrun /\ pc'[c] \in {"closed", "done"} => \A g \in Fds : conn'[g] # c
  PROVE  IInv'
<1> USE DEF IInv
<1>1. /\ running' = running /\ i' = i /\ Connected_socketId' = Connected_socketId
      /\ created' = created /\ slot' = slot /\ accepts' = accepts
      /\ overrun' = overrun
  BY DEF ThreadStep, LoopKept
<1>2. /\ pc' \in [Clients -> {"none", "created", "no thread", "admitted", "serving",
                              "closed", "leaked", "done"}]
      /\ \A d \in Clients : d # c => pc'[d] = pc[d]
      /\ pc[c] # "none"
  <2>1. pc \in [Clients -> {"none", "created", "no thread", "admitted", "serving",
                           "closed", "leaked", "done"}]
    BY DEF TypeOK
  <2>2. /\ pc[c] \in {"created", "admitted", "serving", "closed"}
        /\ pc'[c] \in {"admitted", "serving", "closed", "leaked", "done"}
        /\ pc' = [pc EXCEPT ![c] = pc'[c]]
    BY DEF ThreadStep, Moves
  <2> QED BY <2>1, <2>2
<1>3. /\ \A d \in Clients : d # c => socket'[d] = socket[d]
      /\ \A g \in Fds : conn'[g] = conn[g] \/ conn'[g] = NULL
      /\ ~overrun => \A g \in Fds : conn'[g] = conn[g] \/ conn[g] = c
      /\ conn' # conn => ~Unread(c)'
      /\ conn' \in [Fds -> Clients \cup {NULL}]
      /\ socket' \in [Clients -> Fds \cup {NULL}]
  BY DEF ThreadStep, OwnSocket, Releases
<1>4. \A d \in Clients : d \in Int /\ d # NULL
  BY AcceptorAssumption DEF Clients
<1>5. TypeOK'
  <2>1. running' \in BOOLEAN /\ overrun' \in BOOLEAN
    BY <1>1 DEF TypeOK
  <2>2. seamaphore' \in 0..MAX_CLIENTS
    <3>1. Cardinality(Holders') \in Nat
      <4>1. Holders' \in SUBSET Clients
        BY DEF Holders
      <4> QED BY <4>1, ClientsFinite
    <3>2. seamaphore' + Cardinality(Holders') = MAX_CLIENTS
      BY DEF SemaphoreConserved
    <3> QED BY <3>1, <3>2, AcceptorAssumption
  <2>3. /\ i' \in Slots /\ created' \in 0..ThreadLimit /\ accepts' \in Nat
        /\ Connected_socketId' \in [Slots -> Fds \cup {NULL}]
        /\ slot' \in [Clients -> Slots \cup {NULL}]
    BY <1>1 DEF TypeOK
  <2> QED BY <2>1, <2>2, <2>3, <1>2, <1>3 DEF TypeOK
<1>6. NotYetAccepted'
  BY <1>1, <1>2, <1>3 DEF NotYetAccepted
<1>7. OneDescriptor'
  BY <1>3 DEF OneDescriptor
<1>8. \A d \in Clients : Unread(d)' => Unread(d)
  BY <1>2 DEF ThreadStep, Unread
<1>9. SlotGiven'
  BY <1>1, <1>8 DEF SlotGiven
<1>10. SlotStillOwn'
  <2> SUFFICES ASSUME ~overrun, NEW d \in Clients, Unread(d)'
               PROVE  /\ accepts - d \in 1..MAX_CLIENTS
                      /\ slot[d] = Behind(accepts - d)
                      /\ Connected_socketId[slot[d]] \in Fds
                      /\ conn'[Connected_socketId[slot[d]]] = d
    BY <1>1 DEF SlotStillOwn, Behind
  <2>1. /\ accepts - d \in 1..MAX_CLIENTS
        /\ slot[d] = Behind(accepts - d)
        /\ Connected_socketId[slot[d]] \in Fds
        /\ conn[Connected_socketId[slot[d]]] = d
    BY <1>8 DEF SlotStillOwn
  <2> QED BY <2>1, <1>3
<1>11. ServesADescriptor' /\ ServesOwnClient'
  <2> SUFFICES ASSUME ~overrun, NEW d \in Clients, pc'[d] = "serving"
               PROVE  socket'[d] \in Fds /\ conn'[socket'[d]] = d
    BY <1>1 DEF ServesADescriptor, ServesOwnClient
  <2>1. CASE d = c
    BY <2>1
  <2>2. CASE d # c
    <3>1. socket[d] \in Fds /\ conn[socket[d]] = d /\ socket'[d] = socket[d]
      BY <2>2, <1>2, <1>3 DEF ServesADescriptor, ServesOwnClient
    <3> QED BY <3>1, <2>2, <1>3
  <2> QED BY <2>1, <2>2
<1>12. ConnectionsClosed'
  <2> SUFFICES ASSUME ~overrun, NEW g \in Fds, conn'[g] # NULL
               PROVE  pc'[conn'[g]] \notin {"closed", "done"}
    BY <1>1 DEF ConnectionsClosed
  <2>1. CASE conn'[g] = c
    BY <2>1
  <2>2. CASE conn'[g] # c
    <3>1. conn'[g] = conn[g] /\ conn[g] \in Clients
      BY <1>3
    <3> QED BY <3>1, <2>2, <1>2 DEF ConnectionsClosed
  <2> QED BY <2>1, <2>2
<1> QED BY <1>5, <1>6, <1>7, <1>9, <1>10, <1>11, <1>12

(* sem_wait moves a token from the semaphore to the thread.                  *)
LEMMA SemWaitInductive ==
  ASSUME IInv, NEW c \in Clients, SemWait(c)
  PROVE  IInv'
<1> USE DEF IInv
<1>1. pc[c] = "created" /\ pc' = [pc EXCEPT ![c] = "admitted"]
  BY DEF SemWait
<1>2. pc'[c] = "admitted" /\ \A d \in Clients : d # c => pc'[d] = pc[d]
  BY <1>1 DEF TypeOK
<1>3. ThreadStep(c)
  <2>1. LoopKept
    BY DEF SemWait, LoopKept, history
  <2>2. Moves(c)
    BY <1>1, <1>2 DEF Moves
  <2>3. Unread(c)' => Unread(c)
    BY <1>1, <1>2 DEF Unread
  <2>4. OwnSocket(c)
    <3>1. socket' = socket
      BY DEF SemWait
    <3> QED BY <3>1 DEF OwnSocket, TypeOK
  <2>5. Releases(c)
    <3>1. conn' = conn
      BY DEF SemWait
    <3>2. conn \in [Fds -> Clients \cup {NULL}]
      BY DEF TypeOK
    <3> QED BY <3>1, <3>2 DEF Releases
  <2> QED BY <2>1, <2>2, <2>3, <2>4, <2>5 DEF ThreadStep
<1>4. seamaphore' \in Nat /\ SemaphoreConserved'
  <2>1. Cardinality(Holders') = Cardinality(Holders) + 1
    <3>1. c \notin Holders /\ Holders' = Holders \cup {c}
      BY <1>1, <1>2 DEF Holders
    <3> QED BY <3>1, HolderEnters
  <2>2. seamaphore > 0 /\ seamaphore' = seamaphore - 1
    BY DEF SemWait
  <2>3. seamaphore \in 0..MAX_CLIENTS
    BY DEF TypeOK
  <2> QED BY <2>1, <2>2, <2>3, HoldersFinite, AcceptorAssumption DEF SemaphoreConserved
<1> QED BY <1>2, <1>3, <1>4, ThreadKeeps

(* The thread reads its slot: without an overrun its own descriptor.         *)
LEMMA ReadSlotInductive ==
  ASSUME IInv, NEW c \in Clients, ReadSlot(c)
  PROVE  IInv'
<1> USE DEF IInv
<1>1. /\ pc[c] = "admitted" /\ pc' = [pc EXCEPT ![c] = "serving"]
      /\ socket' = [socket EXCEPT ![c] = Connected_socketId[slot[c]]]
      /\ conn' = conn /\ seamaphore' = seamaphore
  BY DEF ReadSlot
<1>2. pc'[c] = "serving" /\ \A d \in Clients : d # c => pc'[d] = pc[d]
  BY <1>1 DEF TypeOK
<1>3. Unread(c) /\ slot[c] \in Slots
  BY <1>1 DEF Unread, SlotGiven
<1>4. ThreadStep(c)
  <2>1. LoopKept
    BY DEF ReadSlot, LoopKept, history
  <2>2. Moves(c)
    BY <1>1, <1>2 DEF Moves
  <2>3. OwnSocket(c)
    BY <1>1, <1>3 DEF OwnSocket, TypeOK
  <2>4. Releases(c)
    <3>1. conn \in [Fds -> Clients \cup {NULL}]
      BY DEF TypeOK
    <3> QED BY <3>1, <1>1 DEF Releases
  <2> QED BY <2>1, <2>2, <2>3, <2>4, <1>3 DEF ThreadStep
<1>5. seamaphore' \in Nat /\ SemaphoreConserved'
  <2>1. Holders' = Holders
    BY <1>1, <1>2 DEF Holders
  <2>2. seamaphore \in 0..MAX_CLIENTS
    BY DEF TypeOK
  <2> QED BY <2>1, <2>2, <1>1, AcceptorAssumption DEF SemaphoreConserved
<1>6. ~overrun => socket'[c] \in Fds /\ conn'[socket'[c]] = c
  BY <1>1, <1>3 DEF SlotStillOwn, TypeOK
<1> QED BY <1>2, <1>4, <1>5, <1>6, ThreadKeeps

(* Without a buffer the thread gives the token back and keeps the socket.    *)
LEMMA NoBufferInductive ==
  ASSUME IInv, NEW c \in Clients, NoBuffer(c)
  PROVE  IInv'
<1> USE DEF IInv
<1>1. pc[c] = "serving" /\ pc' = [pc EXCEPT ![c] = "leaked"]
  BY DEF NoBuffer
<1>2. pc'[c] = "leaked" /\ \A d \in Clients : d # c => pc'[d] = pc[d]
  BY <1>1 DEF TypeOK
<1>3. ThreadStep(c)
  <2>1. LoopKept
    BY DEF NoBuffer, LoopKept, history
  <2>2. Moves(c)
    BY <1>1, <1>2 DEF Moves
  <2>3. Unread(c)' => Unread(c)
    BY <1>1, <1>2 DEF Unread
  <2>4. OwnSocket(c)
    <3>1. socket' = socket
      BY DEF NoBuffer
    <3> QED BY <3>1 DEF OwnSocket, TypeOK
  <2>5. Releases(c)
    <3>1. conn' = conn
      BY DEF NoBuffer
    <3>2. conn \in [Fds -> Clients \cup {NULL}]
      BY DEF TypeOK
    <3> QED BY <3>1, <3>2 DEF Releases
  <2> QED BY <2>1, <2>2, <2>3, <2>4, <2>5 DEF ThreadStep
<1>4. seamaphore' \in Nat /\ SemaphoreConserved'
  <2>1. Cardinality(Holders') = Cardinality(Holders) - 1
    <3>1. c \in Holders /\ Holders' = Holders \ {c}
      BY <1>1, <1>2 DEF Holders
    <3> QED BY <3>1, HolderLeaves
  <2>2. seamaphore' = seamaphore + 1 /\ seamaphore \in 0..MAX_CLIENTS
    BY DEF NoBuffer, TypeOK
  <2> QED BY <2>1, <2>2, HoldersFinite, AcceptorAssumption DEF SemaphoreConserved
<1> QED BY <1>2, <1>3, <1>4, ThreadKeeps

(* Without an overrun the thread closes its own connection and no other.     *)
LEMMA CloseInductive ==
  ASSUME IInv, NEW c \in Clients, Close(c)
  PROVE  IInv'
<1> USE DEF IInv
<1>1. /\ pc[c] = "serving" /\ pc' = [pc EXCEPT ![c] = "closed"]
      /\ conn' = [conn EXCEPT ![socket[c]] = NULL]
      /\ socket' = socket /\ seamaphore' = seamaphore
  BY DEF Close
<1>2. pc'[c] = "closed" /\ \A d \in Clients : d # c => pc'[d] = pc[d]
  BY <1>1 DEF TypeOK
<1>3. /\ conn' \in [Fds -> Clients \cup {NULL}]
      /\ \A g \in Fds : conn'[g] = IF g = socket[c] THEN NULL ELSE conn[g]
  BY <1>1 DEF TypeOK
<1>4. ~overrun => socket[c] \in Fds /\ conn[socket[c]] = c
  BY <1>1 DEF ServesADescriptor, ServesOwnClient
<1>5. ThreadStep(c)
  <2>1. LoopKept
    BY DEF Close, LoopKept, history
  <2>2. Moves(c)
    BY <1>1, <1>2 DEF Moves
  <2>3. ~Unread(c)'
    BY <1>2 DEF Unread
  <2>4. OwnSocket(c)
    BY <1>1 DEF OwnSocket, TypeOK
  <2>5. Releases(c)
    BY <2>3, <1>3, <1>4 DEF Releases
  <2> QED BY <2>1, <2>2, <2>3, <2>4, <2>5 DEF ThreadStep
<1>6. seamaphore' \in Nat /\ SemaphoreConserved'
  <2>1. Holders' = Holders
    BY <1>1, <1>2 DEF Holders
  <2>2. seamaphore \in 0..MAX_CLIENTS
    BY DEF TypeOK
  <2> QED BY <2>1, <2>2, <1>1, AcceptorAssumption DEF SemaphoreConserved
<1>7. ~overrun => \A g \in Fds : conn'[g] # c
  <2>1. c # NULL
    BY AcceptorAssumption DEF Clients
  <2> QED BY <2>1, <1>3, <1>4 DEF OneDescriptor
<1> QED BY <1>2, <1>5, <1>6, <1>7, ThreadKeeps

(* sem_post gives the token back.                                            *)
LEMMA SemPostInductive ==
  ASSUME IInv, NEW c \in Clients, SemPost(c)
  PROVE  IInv'
<1> USE DEF IInv
<1>1. pc[c] = "closed" /\ pc' = [pc EXCEPT ![c] = "done"] /\ conn' = conn
  BY DEF SemPost
<1>2. pc'[c] = "done" /\ \A d \in Clients : d # c => pc'[d] = pc[d]
  BY <1>1 DEF TypeOK
<1>3. ThreadStep(c)
  <2>1. LoopKept
    BY DEF SemPost, LoopKept, history
  <2>2. Moves(c)
    BY <1>1, <1>2 DEF Moves
  <2>3. Unread(c)' => Unread(c)
    BY <1>1, <1>2 DEF Unread
  <2>4. OwnSocket(c)
    <3>1. socket' = socket
      BY DEF SemPost
    <3> QED BY <3>1 DEF OwnSocket, TypeOK
  <2>5. Releases(c)
    <3>1. conn' = conn
      BY DEF SemPost
    <3>2. conn \in [Fds -> Clients \cup {NULL}]
      BY DEF TypeOK
    <3> QED BY <3>1, <3>2 DEF Releases
  <2> QED BY <2>1, <2>2, <2>3, <2>4, <2>5 DEF ThreadStep
<1>4. seamaphore' \in Nat /\ SemaphoreConserved'
  <2>1. Cardinality(Holders') = Cardinality(Holders) - 1
    <3>1. c \in Holders /\ Holders' = Holders \ {c}
      BY <1>1, <1>2 DEF Holders
    <3> QED BY <3>1, HolderLeaves
  <2>2. seamaphore' = seamaphore + 1 /\ seamaphore \in 0..MAX_CLIENTS
    BY DEF SemPost, TypeOK
  <2> QED BY <2>1, <2>2, HoldersFinite, AcceptorAssumption DEF SemaphoreConserved
<1>5. ~overrun => \A g \in Fds : conn'[g] # c
  <2>1. c # NULL
    BY AcceptorAssumption DEF Clients
  <2> QED BY <2>1, <1>1 DEF ConnectionsClosed
<1> QED BY <1>2, <1>3, <1>4, <1>5, ThreadKeeps

-----------------------------------------------------------------------------
(* The theorems.                                                             *)

(* Every step of the server keeps the invariant.                             *)
LEMMA NextInductive ==
  ASSUME IInv, [Next]_vars
  PROVE  IInv'
<1>1. CASE AcceptFails
  BY <1>1, AcceptFailsInductive
<1>2. ASSUME NEW c \in Clients, Accept(c)
      PROVE  IInv'
  BY <1>2, AcceptInductive
<1>3. ASSUME NEW c \in Clients, Run(c)
      PROVE  IInv'
  BY <1>3, SemWaitInductive, ReadSlotInductive, NoBufferInductive, CloseInductive,
     SemPostInductive DEF Run
<1>4. CASE UNCHANGED vars
  BY <1>4, StutterInductive
<1> QED BY <1>1, <1>2, <1>3, <1>4 DEF Next

(* The inductive invariant holds in every reachable state, for any number of *)
(* connections, descriptors, threads and slots.                              *)
THEOREM Inductive == Spec => []IInv
<1>1. Init => IInv
  BY InitInductive
<1>2. IInv /\ [Next]_vars => IInv'
  BY NextInductive
<1> QED BY <1>1, <1>2, PTL DEF Spec

(* Slots, descriptors, threads and the semaphore stay within their bounds.   *)
THEOREM TypeCorrect == Spec => []TypeOK
<1>1. IInv => TypeOK
  BY DEF IInv
<1> QED BY <1>1, Inductive, PTL

(* At most MAX_CLIENTS threads are past sem_wait, and no error path of       *)
(* thread_fn loses or gains a token.                                         *)
THEOREM SemaphoreCorrect == Spec => []SemaphoreConserved
<1>1. IInv => SemaphoreConserved
  BY DEF IInv
<1> QED BY <1>1, Inductive, PTL

(* As long as no thread was overtaken by MAX_CLIENTS later clients before it *)
(* read its slot, every thread serves the client it was created for.         *)
THEOREM ServesOwnClientCorrect == Spec => []ServesOwnClient
<1>1. IInv => ServesOwnClient
  BY DEF IInv
<1> QED BY <1>1, Inductive, PTL

(* Likewise the connection of a client whose thread has ended is closed.     *)
THEOREM ConnectionsClosedCorrect == Spec => []ConnectionsClosed
<1>1. IInv => ConnectionsClosed
  BY DEF IInv
<1> QED BY <1>1, Inductive, PTL

(* A thread can be overtaken by MAX_CLIENTS later clients only if there are  *)
(* more than MAX_CLIENTS.                                                    *)
LEMMA NobodyOvertaken ==
  ASSUME Connections <= MAX_CLIENTS, ~overrun, [Next]_vars
  PROVE  ~overrun'
<1>1. ASSUME NEW c \in Clients, Accept(c)
      PROVE  ~overrun'
  <2>1. \A d \in Clients : ~(c - d >= MAX_CLIENTS)
    BY AcceptorAssumption DEF Clients
  <2> QED BY <1>1, <2>1 DEF Accept
<1>2. ASSUME NEW c \in Clients, Run(c)
      PROVE  overrun' = overrun
  BY <1>2 DEF Run, SemWait, ReadSlot, NoBuffer, Close, SemPost, history
<1>3. CASE AcceptFails \/ UNCHANGED vars
  BY <1>3 DEF AcceptFails, vars, history
<1> QED BY <1>1, <1>2, <1>3 DEF Next

(* AlwaysServesOwnClient, which does not hold of a server that has accepted  *)
(* more connections than its array has slots, holds of one that has not:     *)
(* until then no slot is used again.                                         *)
THEOREM FirstClientsServed ==
  Connections <= MAX_CLIENTS => (Spec => []AlwaysServesOwnClient)
<1> SUFFICES ASSUME Connections <= MAX_CLIENTS
             PROVE  Spec => []AlwaysServesOwnClient
  OBVIOUS
<1>1. Init => ~overrun
  BY DEF Init
<1>2. ~overrun /\ [Next]_vars => ~overrun'
  BY NobodyOvertaken
<1>3. ~overrun /\ ServesOwnClient => AlwaysServesOwnClient
  BY DEF ServesOwnClient, AlwaysServesOwnClient
<1> QED BY <1>1, <1>2, <1>3, ServesOwnClientCorrect, PTL DEF Spec
=============================================================================

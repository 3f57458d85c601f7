-------------------------------- MODULE Cache --------------------------------
(***************************************************************************)
(* The response cache of proxy_server_with_cache.c: the doubly linked LRU  *)
(* list, the hash table, the byte counter, and the two locks.  rwlock      *)
(* excludes additions and evictions from everything else; a lookup holds   *)
(* it for reading, so several lookups may want to move an element to the   *)
(* tail of the list at once: those moves are serialised by lru_mutex.      *)
(*                                                                         *)
(* A lookup is the inlined one of thread_fn (label cache_lookup).  What    *)
(* rwlock keeps constant (the hash chains, during a lookup) is read in the *)
(* action that takes the lock; everything done to the list is an action of *)
(* its own.                                                                *)
(***************************************************************************)
EXTENDS Integers, FiniteSets, SequencesExt

CONSTANTS
  Threads,          \* worker threads
  Urls,             \* cache keys
  Datas,            \* responses
  Addresses,        \* heap addresses malloc can give to a cache_element
  Buckets,          \* indexes of hash_table
  Hash,             \* fnv1a_hash
  UrlLen, DataLen,  \* strlen of a key, length of a response
  Sizeof,           \* sizeof(cache_element)
  MAX_SIZE, MAX_ELEMENT_SIZE,
  HashInsert,       \* FALSE: the source as committed, see InsertHash
  NULL

ASSUME CacheAssumption ==
  /\ IsFiniteSet(Threads)
  /\ NULL \notin Threads \cup Addresses \cup Urls \cup Datas
  /\ Hash \in [Urls -> Buckets]
  /\ UrlLen \in [Urls -> Nat] /\ DataLen \in [Datas -> Nat]
  /\ Sizeof \in Nat
  /\ MAX_SIZE \in Nat /\ MAX_ELEMENT_SIZE \in 0..MAX_SIZE
  /\ HashInsert \in BOOLEAN

VARIABLES
  pc,          \* where each thread is in a lookup or an addition
  url, data,   \* its arguments: the key, and the response to add
  site,        \* the element a lookup has found, NULL when none
  cached_data, \* what the thread's last lookup returned, NULL for a miss
  readers, writer,     \* the threads holding rwlock for reading, for writing
  lru_mutex,           \* the thread holding it, or NULL
  lru_head, lru_tail,  \* the ends of the LRU list
  heap,        \* address -> cache_element, NULL when not allocated
  hash_table,  \* bucket -> its chain of elements, the head first
  cache_size,
  order        \* history: the elements linked in, as a list should hold them

locks == <<readers, writer, lru_mutex>>
list == <<lru_head, lru_tail, heap, order>>
vars == <<pc, url, data, site, cached_data, locks, list, hash_table, cache_size>>

Pointer == Addresses \cup {NULL}

Element == [url : Urls, data : Datas, lru_prev : Pointer, lru_next : Pointer]

(* A structure is not NULL.                                                  *)
ASSUME NoElement == NULL \notin Element \cup [url : Urls, data : Datas]

Init ==
  /\ pc = [t \in Threads |-> "idle"]
  /\ url = [t \in Threads |-> NULL]
  /\ data = [t \in Threads |-> NULL]
  /\ site = [t \in Threads |-> NULL]
  /\ cached_data = [t \in Threads |-> NULL]
  /\ readers = {} /\ writer = NULL /\ lru_mutex = NULL
  /\ lru_head = NULL /\ lru_tail = NULL /\ order = <<>>
  /\ heap = [e \in Addresses |-> NULL]
  /\ hash_table = [b \in Buckets |-> <<>>]
  /\ cache_size = 0

-----------------------------------------------------------------------------
(* The LRU list.                                                             *)

(* heap with the lru_next of p, or the lru_prev of n, redirected.            *)
SetNext(h, p, e) == IF p = NULL THEN h ELSE [h EXCEPT ![p].lru_next = e]
SetPrev(h, n, e) == IF n = NULL THEN h ELSE [h EXCEPT ![n].lru_prev = e]

(* lru_remove on the heap: the neighbours of e are linked to each other.     *)
Unlinked(e) ==
  LET p == heap[e].lru_prev
      n == heap[e].lru_next
  IN  [SetPrev(SetNext(heap, p, n), n, p)
         EXCEPT ![e].lru_prev = NULL, ![e].lru_next = NULL]

(* lru_remove on the ends of the list.                                       *)
lru_remove(e) ==
  /\ lru_head' = IF heap[e].lru_prev = NULL THEN heap[e].lru_next ELSE lru_head
  /\ lru_tail' = IF heap[e].lru_next = NULL THEN heap[e].lru_prev ELSE lru_tail
  /\ order' = RemoveFirst(order, e)

(* lru_append_tail, on a heap h in which e is allocated.                     *)
lru_append_tail(h, e) ==
  /\ heap' = SetNext([h EXCEPT ![e].lru_prev = lru_tail, ![e].lru_next = NULL],
                     lru_tail, e)
  /\ lru_tail' = e
  /\ lru_head' = IF lru_head = NULL THEN e ELSE lru_head
  /\ order' = Append(order, e)

-----------------------------------------------------------------------------
(* The hash table.  The walk compares whole keys and stops at the first.     *)
Chain(u) == hash_table[Hash[u]]

FirstMatch(u, i) ==
  /\ i \in DOMAIN Chain(u) /\ heap[Chain(u)[i]].url = u
  /\ \A j \in 1..(i - 1) : heap[Chain(u)[j]].url # u

NoMatch(u) == \A i \in DOMAIN Chain(u) : heap[Chain(u)[i]].url # u

(* The two statements that put an element at the head of its chain are       *)
(* missing from add_cache_element: scratch/bench_suite.py replaces them by   *)
(* the comment "hash disabled" to build its linked-list variant, and the     *)
(* committed source is that variant.  HashInsert = TRUE restores them.       *)
InsertHash(u, e) ==
  hash_table' = IF HashInsert THEN [hash_table EXCEPT ![Hash[u]] = <<e>> \o @]
                ELSE hash_table

(* Mutant: only an element at the head of its chain is unlinked.             *)
RemoveHashHead(e) ==
  hash_table' = [hash_table EXCEPT
                   ![Hash[heap[e].url]] = IF @[1] = e THEN Tail(@) ELSE @]

RemoveHash(e) ==
  hash_table' = [hash_table EXCEPT
                   ![Hash[heap[e].url]] = RemoveFirst(@, e)]

-----------------------------------------------------------------------------
(* Lookup.                                                                   *)
Return(t) ==
  /\ pc' = [pc EXCEPT ![t] = "idle"]
  /\ url' = [url EXCEPT ![t] = NULL]
  /\ data' = [data EXCEPT ![t] = NULL]
  /\ site' = [site EXCEPT ![t] = NULL]

(* rdlock, walk, find nothing, unlock.                                       *)
LookupMiss(t, u) ==
  /\ pc[t] = "idle"
  /\ writer = NULL
  /\ NoMatch(u)
  /\ cached_data' = [cached_data EXCEPT ![t] = NULL]
  /\ UNCHANGED <<pc, url, data, site, locks, list, hash_table, cache_size>>

(* rdlock, walk, find an element.                                            *)
LookupHit(t, u) ==
  /\ pc[t] = "idle"
  /\ writer = NULL
  /\ \E i \in DOMAIN Chain(u) :
       /\ FirstMatch(u, i)
       /\ site' = [site EXCEPT ![t] = Chain(u)[i]]
  /\ readers' = readers \cup {t}
  /\ pc' = [pc EXCEPT ![t] = "hit"]
  /\ url' = [url EXCEPT ![t] = u]
  /\ UNCHANGED <<data, cached_data, writer, lru_mutex, list, hash_table, cache_size>>

(* Mutant: the list is changed under the read lock alone.                    *)
LruUnlocked == TRUE

LruLockFree == lru_mutex = NULL

(* lock lru_mutex; lru_remove(site).                                         *)
TouchRemove(t) ==
  /\ pc[t] = "hit"
  /\ LruLockFree
  /\ lru_mutex' = t
  /\ lru_remove(site[t])
  /\ heap' = Unlinked(site[t])
  /\ pc' = [pc EXCEPT ![t] = "removed"]
  /\ UNCHANGED <<url, data, site, cached_data, readers, writer, hash_table, cache_size>>

(* lru_append_tail(site); unlock lru_mutex.                                  *)
TouchAppend(t) ==
  /\ pc[t] = "removed"
  /\ lru_append_tail(heap, site[t])
  /\ lru_mutex' = NULL
  /\ pc' = [pc EXCEPT ![t] = "touched"]
  /\ UNCHANGED <<url, data, site, cached_data, readers, writer, hash_table, cache_size>>

(* Copy the data, unless malloc fails, and unlock.                           *)
LookupReturn(t) ==
  /\ pc[t] = "touched"
  /\ \E d \in {heap[site[t]].data, NULL} : cached_data' = [cached_data EXCEPT ![t] = d]
  /\ Return(t)
  /\ readers' = readers \ {t}
  /\ UNCHANGED <<writer, lru_mutex, list, hash_table, cache_size>>

-----------------------------------------------------------------------------
(* add_cache_element.                                                        *)
ElementSize(u, d) == DataLen[d] + 1 + UrlLen[u] + Sizeof

(* Mutant: an addition does not wait for lookups.                            *)
WrLockShared == writer = NULL

WrLockFree == writer = NULL /\ readers = {}

AddTooLarge(t, u, d) ==
  /\ pc[t] = "idle"
  /\ WrLockFree
  /\ ElementSize(u, d) > MAX_ELEMENT_SIZE
  /\ UNCHANGED vars

AddLock(t, u, d) ==
  /\ pc[t] = "idle"
  /\ WrLockFree
  /\ ElementSize(u, d) <= MAX_ELEMENT_SIZE
  /\ writer' = t
  /\ pc' = [pc EXCEPT ![t] = "adding"]
  /\ url' = [url EXCEPT ![t] = u]
  /\ data' = [data EXCEPT ![t] = d]
  /\ UNCHANGED <<site, cached_data, readers, lru_mutex, list, hash_table, cache_size>>

Full(t) == cache_size + ElementSize(url[t], data[t]) > MAX_SIZE

(* Mutant: the most recently used element is the victim.                     *)
lru_get_mru == lru_tail

lru_get_lru == lru_head

(* Mutant: the terminating byte of the data is added but not subtracted.     *)
EvictedSizeShort(e) == DataLen[heap[e].data] + Sizeof + UrlLen[heap[e].url]

EvictedSize(e) == DataLen[heap[e].data] + Sizeof + UrlLen[heap[e].url] + 1

(* Mutant: the victim is unlinked but not freed.                             *)
FreedNot(e) == Unlinked(e)

Freed(e) == [Unlinked(e) EXCEPT ![e] = NULL]

(* One turn of the eviction loop: _remove_cache_element_unlocked.            *)
AddEvict(t) ==
  /\ pc[t] = "adding"
  /\ Full(t)
  /\ LET temp == lru_get_lru IN
     IF temp = NULL
     THEN UNCHANGED <<list, hash_table, cache_size>>
     ELSE /\ lru_remove(temp)
          /\ RemoveHash(temp)
          /\ cache_size' = cache_size - EvictedSize(temp)
          /\ heap' = Freed(temp)
  /\ UNCHANGED <<pc, url, data, site, cached_data, locks>>

(* Link the new element in, count it, unlock.                                *)
AddInsert(t) ==
  /\ pc[t] = "adding"
  /\ ~Full(t)
  /\ \E e \in Addresses :
       /\ heap[e] = NULL
       /\ lru_append_tail([heap EXCEPT ![e] = [url |-> url[t], data |-> data[t],
                                               lru_prev |-> NULL, lru_next |-> NULL]], e)
       /\ InsertHash(url[t], e)
  /\ cache_size' = cache_size + ElementSize(url[t], data[t])
  /\ writer' = NULL
  /\ Return(t)
  /\ UNCHANGED <<cached_data, readers, lru_mutex>>

(* One of the three mallocs fails, after the evictions: unlock, return 0.    *)
AddNoMemory(t) ==
  /\ pc[t] = "adding"
  /\ ~Full(t)
  /\ writer' = NULL
  /\ Return(t)
  /\ UNCHANGED <<cached_data, readers, lru_mutex, list, hash_table, cache_size>>

-----------------------------------------------------------------------------
Step(t) ==
  \/ TouchRemove(t) \/ TouchAppend(t) \/ LookupReturn(t)
  \/ AddEvict(t) \/ AddInsert(t) \/ AddNoMemory(t)

Next ==
  \E t \in Threads :
    \/ \E u \in Urls : LookupMiss(t, u) \/ LookupHit(t, u)
    \/ \E u \in Urls, d \in Datas : AddTooLarge(t, u, d) \/ AddLock(t, u, d)
    \/ Step(t)

Spec == Init /\ [][Next]_vars

(* A thread that has begun a call goes on with it.  Only taking lru_mutex    *)
(* competes with other threads.                                              *)
Fairness ==
  \A t \in Threads :
    /\ SF_vars(TouchRemove(t))
    /\ WF_vars(TouchAppend(t) \/ LookupReturn(t))
    /\ WF_vars(AddEvict(t) \/ AddInsert(t) \/ AddNoMemory(t))

FairSpec == Spec /\ Fairness

-----------------------------------------------------------------------------
Stored == ToSet(order)

(* The element a thread has taken out of the list and not yet put back.      *)
InTransit == {site[t] : t \in {s \in Threads : pc[s] = "removed"}}

Allocated == {e \in Addresses : heap[e] # NULL}

(* Type invariant, with what the program counter says of the locks held: a   *)
(* writer is alone, and one thread at a time has an element out of the list. *)
TypeOK ==
  /\ pc \in [Threads -> {"idle", "hit", "removed", "touched", "adding"}]
  /\ url \in [Threads -> Urls \cup {NULL}]
  /\ data \in [Threads -> Datas \cup {NULL}]
  /\ site \in [Threads -> Pointer]
  /\ cached_data \in [Threads -> Datas \cup {NULL}]
  /\ readers \subseteq Threads
  /\ writer \in Threads \cup {NULL}
  /\ lru_mutex \in Threads \cup {NULL}
  /\ lru_head \in Pointer /\ lru_tail \in Pointer
  /\ heap \in [Addresses -> Element \cup {NULL}]
  /\ hash_table \in [Buckets -> Seq(Addresses)]
  /\ cache_size \in Int
  /\ order \in Seq(Addresses)
  /\ writer # NULL => readers = {}
  /\ \A t \in Threads : pc[t] = "adding" <=> writer = t
  /\ \A t \in Threads : pc[t] \in {"hit", "removed", "touched"} <=> t \in readers
  /\ \A t \in Threads : pc[t] = "removed" <=> lru_mutex = t

(* lru_head, lru_tail, lru_prev and lru_next represent one doubly linked     *)
(* list of distinct elements, whoever moves elements in it concurrently.     *)
ListWellFormed ==
  LET n == Len(order) IN
  /\ IsInjective(order)
  /\ lru_head = IF n = 0 THEN NULL ELSE order[1]
  /\ lru_tail = IF n = 0 THEN NULL ELSE order[n]
  /\ \A i \in 1..n :
       /\ heap[order[i]] # NULL
       /\ heap[order[i]].lru_prev = IF i = 1 THEN NULL ELSE order[i - 1]
       /\ heap[order[i]].lru_next = IF i = n THEN NULL ELSE order[i + 1]

(* Every allocated element is in the list, or out of it in a lookup's hands: *)
(* nothing is leaked, and nothing freed is reachable.                        *)
NothingLeaked == Allocated = Stored \cup InTransit /\ Stored \cap InTransit = {}

(* A pointer a lookup found stays valid, and its element is the one that was *)
(* asked for, until the data has been copied ("Copy data while holding lock  *)
(* to prevent use-after-free").                                              *)
SiteValid ==
  \A t \in readers : site[t] \in Allocated /\ heap[site[t]].url = url[t]

(* The hash table and the list hold the same elements, each in the bucket of *)
(* its key, once ("Adds element to both the LRU linked list and the hash     *)
(* table").                                                                  *)
TableMatchesList ==
  /\ \A b \in Buckets :
       /\ IsInjective(hash_table[b])
       /\ \A e \in ToSet(hash_table[b]) : e \in Allocated /\ Hash[heap[e].url] = b
  /\ \A e \in Allocated : e \in ToSet(hash_table[Hash[heap[e].url]])

(* The bytes the elements at a set of addresses of heap h are accounted.     *)
BytesIn(h, S) == FoldSet(LAMBDA e, n : n + ElementSize(h[e].url, h[e].data), 0, S)

(* cache_size is the sum of the sizes of the elements, and never exceeds the *)
(* limit: the amounts add_cache_element adds and evictions subtract agree.   *)
SizeAccounted ==
  /\ cache_size = BytesIn(heap, Allocated)
  /\ cache_size <= MAX_SIZE

(* The eviction loop ends, and so does every call: it never spins on an      *)
(* empty list that still counts as full.                                     *)
CallsReturn == \A t \in Threads : pc[t] # "idle" ~> pc[t] = "idle"

(* The cache as its users see it.  An element in transit is already at the   *)
(* end of the list it is on its way to.                                      *)
AsElement(e) == [url |-> heap[e].url, data |-> heap[e].data]

Cached == order \o SetToSeq(InTransit)

AbsCache == [i \in DOMAIN Cached |-> AsElement(Cached[i])]

AbsAdding ==
  [t \in Threads |-> IF pc[t] = "adding" THEN [url |-> url[t], data |-> data[t]] ELSE NULL]

AbsFound ==
  [t \in Threads |-> IF pc[t] \in {"removed", "touched"} THEN AsElement(site[t]) ELSE NULL]

Abs == INSTANCE LRUCache WITH cache <- AbsCache, adding <- AbsAdding, found <- AbsFound

(* The pointers, the locks and the byte counter implement the LRU cache.     *)
ImplementsLRUCache == Abs!Spec
=============================================================================

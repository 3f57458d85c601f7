------------------------------ MODULE LRUCache ------------------------------
(***************************************************************************)
(* What the response cache of proxy_server_with_cache.c promises to the    *)
(* threads that use it, without pointers, locks or a byte counter: a list  *)
(* of responses, the least recently used first.  A lookup that finds a     *)
(* response moves it to the end and returns it; an addition drops          *)
(* responses from the front, only as many as it needs room for, and        *)
(* appends the new one.  Module Cache is shown to implement it.            *)
(***************************************************************************)
EXTENDS Integers, SequencesExt

CONSTANTS
  Threads, Urls, Datas,
  ElementSize(_, _),  \* bytes accounted to a response to a url
  MAX_SIZE, MAX_ELEMENT_SIZE,
  NULL

VARIABLES
  cache,       \* the cached elements, the least recently used first
  adding,      \* adding[t]: the element thread t is making room for, or NULL
  found,       \* found[t]: the element t's lookup has found and not yet returned
  cached_data  \* cached_data[t]: what t's last lookup returned, NULL for a miss

vars == <<cache, adding, found, cached_data>>

Elements == [url : Urls, data : Datas]

Bytes(s) == FoldLeft(LAMBDA n, e : n + ElementSize(e.url, e.data), 0, s)

Fits(e) == Bytes(cache) + ElementSize(e.url, e.data) <= MAX_SIZE

Idle(t) == adding[t] = NULL /\ found[t] = NULL

Init ==
  /\ cache = <<>>
  /\ adding = [t \in Threads |-> NULL]
  /\ found = [t \in Threads |-> NULL]
  /\ cached_data = [t \in Threads |-> NULL]

(* Additions exclude each other, and lookups while they are in progress.     *)
NoAddition == \A s \in Threads : adding[s] = NULL

(* A lookup misses only when no response to the url is cached.               *)
Miss(t, u) ==
  /\ Idle(t) /\ NoAddition
  /\ \A i \in DOMAIN cache : cache[i].url # u
  /\ cached_data' = [cached_data EXCEPT ![t] = NULL]
  /\ UNCHANGED <<cache, adding, found>>

(* A hit makes the element the most recently used one.                       *)
Hit(t, u) ==
  /\ Idle(t) /\ NoAddition
  /\ \E i \in DOMAIN cache :
       /\ cache[i].url = u
       /\ found' = [found EXCEPT ![t] = cache[i]]
       /\ cache' = Append(RemoveAt(cache, i), cache[i])
  /\ UNCHANGED <<adding, cached_data>>

(* The lookup returns a copy of what it found, or fails to allocate one.     *)
Return(t) ==
  /\ found[t] # NULL
  /\ \E d \in {found[t].data, NULL} : cached_data' = [cached_data EXCEPT ![t] = d]
  /\ found' = [found EXCEPT ![t] = NULL]
  /\ UNCHANGED <<cache, adding>>

(* An addition waits for the lookups in progress to return.                  *)
BeginAdd(t, u, d) ==
  /\ \A s \in Threads : Idle(s)
  /\ ElementSize(u, d) <= MAX_ELEMENT_SIZE
  /\ adding' = [adding EXCEPT ![t] = [url |-> u, data |-> d]]
  /\ UNCHANGED <<cache, found, cached_data>>

(* The least recently used element goes, and only when room is needed.       *)
Evict(t) ==
  /\ adding[t] # NULL
  /\ ~Fits(adding[t])
  /\ cache # <<>>
  /\ cache' = Tail(cache)
  /\ UNCHANGED <<adding, found, cached_data>>

Insert(t) ==
  /\ adding[t] # NULL
  /\ Fits(adding[t])
  /\ cache' = Append(cache, adding[t])
  /\ adding' = [adding EXCEPT ![t] = NULL]
  /\ UNCHANGED <<found, cached_data>>

(* Room was made but memory for the element could not be allocated.          *)
Refuse(t) ==
  /\ adding[t] # NULL
  /\ Fits(adding[t])
  /\ adding' = [adding EXCEPT ![t] = NULL]
  /\ UNCHANGED <<cache, found, cached_data>>

Next ==
  \E t \in Threads :
    \/ \E u \in Urls : Miss(t, u) \/ Hit(t, u)
    \/ Return(t)
    \/ \E u \in Urls, d \in Datas : BeginAdd(t, u, d)
    \/ Evict(t)
    \/ Insert(t)
    \/ Refuse(t)

Spec == Init /\ [][Next]_vars
=============================================================================

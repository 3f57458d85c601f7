----------------------------- MODULE ProxyProofs -----------------------------
(* Machine-checked proofs about thread_fn: it uses the pending table and the *)
(* cache as their modules say, so what is proved of them holds in it; one    *)
(* request per key is at the origin, and a client is answered by its own     *)
(* fetch, out of the cache, or, in the cases listed, not at all.             *)
EXTENDS Proxy, ListFacts

(* The theorems about Pending, for the pending table of Proxy.               *)
PP == INSTANCE PendingProofs WITH
       Entries <- Threads, pc <- ppc, url <- pkey, entry <- pentry, heap <- pheap

-----------------------------------------------------------------------------
(* The inductive invariant.  It says of each thread where it is in Pending   *)
(* when it is anywhere in thread_fn, and under which key; ...                *)
InCoalescing(t) ==
  /\ step[t] \notin {"wait", "fetch", "add", "complete"} => ppc[t] = "idle"
  /\ step[t] \in {"fetch", "add"} => ppc[t] = "fetching" /\ pkey[t] = tempReq[t]
  /\ step[t] = "wait" => ppc[t] \in {"waiting", "blocked", "leaving"}
  /\ step[t] = "complete" => ppc[t] \in {"fetching", "unlinked", "signalled"}

(* ... that past the receive loop it has a key, ...                          *)
HasKey(t) ==
  step[t] \notin {"accepted", "close", "closed"} => tempReq[t] \in Urls

(* ... that its client has been sent nothing before the fetch, nor by a      *)
(* fetch that failed, ...                                                    *)
Unanswered(t) ==
  /\ step[t] \in {"accepted", "lookup", "hit", "register", "wait", "fetch"} =>
       answer[t] = <<>>
  /\ step[t] = "complete" /\ result[t] = -1 => answer[t] = <<>>

(* ... that what its lookup has found is an element with its key; ...        *)
FoundOwn(t) == found[t] # NULL => step[t] = "hit" /\ found[t].url = tempReq[t]

Whereabouts(t) == InCoalescing(t) /\ HasKey(t) /\ Unanswered(t) /\ FoundOwn(t)

(* ... and that whatever is in the cache, on its way into it or out of it,   *)
(* was delivered for the key it is filed under.                              *)
CacheTyped ==
  /\ cache \in Seq(C!Elements)
  /\ adding \in [Threads -> C!Elements \cup {NULL}]
  /\ found \in [Threads -> C!Elements \cup {NULL}]
  /\ cached_data \in [Threads -> Datas \cup {NULL}]

Held == ToSet(cache) \cup {adding[t] : t \in Threads} \cup {found[t] : t \in Threads}

CacheGenuine == \A e \in Held \ {NULL} : e.data \in fetched[e.url]

(* ... and that a thread whose lookup has returned something is done.        *)
FromCache(t) ==
  cached_data[t] # NULL =>
    /\ step[t] \in {"close", "closed"} /\ tempReq[t] \in Urls
    /\ answer[t] = cached_data[t] /\ cached_data[t] \in fetched[tempReq[t]]

IInv ==
  /\ TypeOK /\ P!IInv
  /\ CacheTyped /\ CacheGenuine
  /\ \A t \in Threads : Whereabouts(t) /\ FromCache(t)

-----------------------------------------------------------------------------
(* The pending table.                                                        *)
LEMMA PendingAssumed == PP!PendingAssumption
BY ProxyAssumption, CoalescingAssumption DEF PP!PendingAssumption, PP!IsFiniteSet, IsFiniteSet, Urls

LEMMA SameInvariant == P!IInv <=> PP!IInv
BY DEF P!IInv, PP!IInv, P!TypeOK, PP!TypeOK, P!ChainsOK, PP!ChainsOK, P!PointersOK, PP!PointersOK,
   P!EntriesHeld, PP!EntriesHeld, P!CompleterOK, PP!CompleterOK, P!FetcherListed, PP!FetcherListed,
   P!SingleFlight, PP!SingleFlight, P!RefCountExact, PP!RefCountExact, P!NoLostWakeup, PP!NoLostWakeup,
   P!InTable, PP!InTable, P!Sharers, PP!Sharers, P!Fetching, PP!Fetching, P!Short, PP!Short,
   P!PendingEntry, PP!PendingEntry, P!ToSet, PP!ToSet, P!IsInjective, PP!IsInjective,
   P!Cardinality, PP!Cardinality

LEMMA SameInvariantNext == P!IInv' <=> PP!IInv'
BY SameInvariant, PTL

(* Every call thread_fn makes into the coalescing code is a step of Pending. *)
LEMMA CallsArePending ==
  ASSUME NEW t \in Threads
  PROVE  /\ \A u \in Urls : P!RegisterAt(t, u, t) \/ P!Join(t, u) => PP!Next
         /\ P!WaitTest(t) \/ P!SpuriousWakeup(t) \/ P!Leave(t) => PP!Next
         /\ P!CompleteUnlink(t) \/ P!CompleteNoMatch(t) => PP!Next
         /\ P!CompleteBroadcast(t) \/ P!CompleteRelease(t) => PP!Next
<1>1. ASSUME NEW u \in Urls, P!RegisterAt(t, u, t)
      PROVE  PP!Next
  <2>1. PP!Register(t, u)
    BY <1>1 DEF P!RegisterAt, PP!RegisterAt, PP!Register, P!AddPending, PP!AddPending,
       P!NoMatch, PP!NoMatch, P!Matches, PP!Matches, P!Chain, PP!Chain
  <2> QED BY <2>1 DEF PP!Next
<1>2. ASSUME NEW u \in Urls, P!Join(t, u)
      PROVE  PP!Next
  <2>1. PP!Join(t, u)
    BY <1>2 DEF P!Join, PP!Join, P!FirstMatch, PP!FirstMatch, P!Matches, PP!Matches,
       P!Chain, PP!Chain
  <2> QED BY <2>1 DEF PP!Next
<1>3. /\ P!WaitTest(t) => PP!WaitTest(t)
      /\ P!SpuriousWakeup(t) => PP!SpuriousWakeup(t)
      /\ P!Leave(t) => PP!Leave(t)
  BY DEF P!WaitTest, PP!WaitTest, P!SpuriousWakeup, PP!SpuriousWakeup, P!Leave, PP!Leave,
     P!DropRef, PP!DropRef, P!Return, PP!Return
<1>4. P!CompleteUnlink(t) => PP!CompleteUnlink(t)
  BY DEF P!CompleteUnlink, PP!CompleteUnlink, P!FirstMatch, PP!FirstMatch, P!Matches, PP!Matches,
     P!Chain, PP!Chain, P!RemoveAt, PP!RemoveAt
<1>5. P!CompleteNoMatch(t) => PP!CompleteNoMatch(t)
  BY DEF P!CompleteNoMatch, PP!CompleteNoMatch, P!NoMatch, PP!NoMatch, P!Matches, PP!Matches,
     P!Chain, PP!Chain, P!Return, PP!Return
<1>6. P!CompleteBroadcast(t) => PP!CompleteBroadcast(t)
  BY DEF P!CompleteBroadcast, PP!CompleteBroadcast
<1>7. P!CompleteRelease(t) => PP!CompleteRelease(t)
  BY DEF P!CompleteRelease, PP!CompleteRelease, P!DropRef, PP!DropRef, P!Return, PP!Return
<1> QED BY <1>1, <1>2, <1>3, <1>4, <1>5, <1>6, <1>7 DEF PP!Next, PP!Step

LEMMA PendingKept ==
  ASSUME P!IInv, PP!Next \/ UNCHANGED pvars
  PROVE  P!IInv'
<1>1. [PP!Next]_(PP!vars)
  BY DEF pvars, PP!vars
<1> QED BY <1>1, PendingAssumed, PP!NextInductive, SameInvariant, SameInvariantNext

(* What a call by t changes: t is in place c afterwards, and other threads   *)
(* stay where they are, but for being woken.                                 *)
Stays(s) ==
  /\ pkey'[s] = pkey[s]
  /\ ppc'[s] # ppc[s] => ppc[s] = "blocked" /\ ppc'[s] = "waiting"

Moves(t, c) == ppc'[t] = c /\ \A s \in Threads \ {t} : Stays(s)

LEMMA CallsMove ==
  ASSUME P!IInv, NEW t \in Threads
  PROVE  /\ \A u \in Urls : P!RegisterAt(t, u, t) => Moves(t, "fetching") /\ pkey'[t] = u
         /\ \A u \in Urls : P!Join(t, u) => Moves(t, "waiting")
         /\ P!WaitTest(t) => Moves(t, "leaving") \/ Moves(t, "blocked")
         /\ P!SpuriousWakeup(t) => Moves(t, "waiting")
         /\ P!CompleteUnlink(t) => Moves(t, "unlinked")
         /\ P!CompleteBroadcast(t) => Moves(t, "signalled")
         /\ P!Leave(t) \/ P!CompleteNoMatch(t) \/ P!CompleteRelease(t) => Moves(t, "idle")
<1>1. /\ ppc \in [Threads -> {"idle", "fetching", "waiting", "blocked", "leaving",
                              "unlinked", "signalled"}]
      /\ pkey \in [Threads -> Urls \cup {NULL}]
  BY DEF P!IInv, P!TypeOK
<1>2. ASSUME NEW u \in Urls, P!RegisterAt(t, u, t)
      PROVE  Moves(t, "fetching") /\ pkey'[t] = u
  BY <1>1, <1>2 DEF P!RegisterAt, Moves, Stays
<1>3. ASSUME NEW u \in Urls, P!Join(t, u)
      PROVE  Moves(t, "waiting")
  BY <1>1, <1>3 DEF P!Join, Moves, Stays
<1>4. P!WaitTest(t) => Moves(t, "leaving") \/ Moves(t, "blocked")
  BY <1>1 DEF P!WaitTest, Moves, Stays
<1>5. P!SpuriousWakeup(t) => Moves(t, "waiting")
  BY <1>1 DEF P!SpuriousWakeup, Moves, Stays
<1>6. P!CompleteUnlink(t) => Moves(t, "unlinked")
  BY <1>1 DEF P!CompleteUnlink, Moves, Stays
<1>7. P!CompleteBroadcast(t) => Moves(t, "signalled")
  BY <1>1 DEF P!CompleteBroadcast, Moves, Stays
<1>8. P!Leave(t) \/ P!CompleteNoMatch(t) \/ P!CompleteRelease(t) => Moves(t, "idle")
  BY <1>1 DEF P!Leave, P!CompleteNoMatch, P!CompleteRelease, P!Return, Moves, Stays
<1> QED BY <1>2, <1>3, <1>4, <1>5, <1>6, <1>7, <1>8

-----------------------------------------------------------------------------
(* The cache.  Only BeginAdd brings anything new into it.                    *)
LEMMA NullApart ==
  /\ NULL \notin C!Elements /\ NULL \notin Datas /\ NULL \notin Urls /\ NULL \notin Threads
BY ProxyAssumption DEF C!Elements

LEMMA HitBrings ==
  ASSUME CacheTyped, NEW t \in Threads, NEW u \in Urls, C!Hit(t, u)
  PROVE  /\ CacheTyped' /\ Held' \subseteq Held \cup {NULL}
         /\ found'[t] \in C!Elements /\ found'[t].url = u
         /\ cached_data' = cached_data
         /\ \A s \in Threads \ {t} : found'[s] = found[s]
<1>1. PICK i \in DOMAIN cache :
        /\ cache[i].url = u
        /\ found' = [found EXCEPT ![t] = cache[i]]
        /\ cache' = Append(RemoveAt(cache, i), cache[i])
  BY DEF C!Hit, C!RemoveAt, RemoveAt
<1>2. adding' = adding /\ cached_data' = cached_data
  BY DEF C!Hit
<1>3. cache \in Seq(C!Elements) /\ Len(cache) \in Nat /\ DOMAIN cache = 1..Len(cache)
  BY DEF CacheTyped
<1>4. cache[i] \in C!Elements /\ cache[i] \in ToSet(cache)
  BY <1>3 DEF ToSet
<1>5. RemoveAt(cache, i) \in Seq(C!Elements) /\ ToSet(RemoveAt(cache, i)) \subseteq ToSet(cache)
  <2>1. /\ RemoveAt(cache, i) \in Seq(C!Elements)
        /\ Len(RemoveAt(cache, i)) = Len(cache) - 1
        /\ \A j \in 1..(Len(cache) - 1) :
             RemoveAt(cache, i)[j] = IF j < i THEN cache[j] ELSE cache[j + 1]
    BY <1>3, RemoveAtSeq
  <2>2. \A j \in 1..(Len(cache) - 1) : j \in 1..Len(cache) /\ j + 1 \in 1..Len(cache)
    BY <1>3
  <2> DEFINE r == RemoveAt(cache, i)
  <2> HIDE DEF r
  <2>3. DOMAIN r = 1..(Len(cache) - 1)
    BY <2>1 DEF r
  <2>4. \A j \in DOMAIN r : r[j] \in ToSet(cache)
    BY <1>3, <2>1, <2>2, <2>3 DEF r, ToSet
  <2> QED BY <2>1, <2>4 DEF r, ToSet
<1>6. cache' \in Seq(C!Elements) /\ ToSet(cache') \subseteq ToSet(cache)
  <2>1. /\ Append(RemoveAt(cache, i), cache[i]) \in Seq(C!Elements)
        /\ ToSet(Append(RemoveAt(cache, i), cache[i])) = ToSet(RemoveAt(cache, i)) \cup {cache[i]}
    BY <1>4, <1>5, AppendSet
  <2> QED BY <1>1, <1>4, <1>5, <2>1
<1>7. /\ found'[t] = cache[i] /\ \A s \in Threads \ {t} : found'[s] = found[s]
      /\ found' \in [Threads -> C!Elements \cup {NULL}]
  BY <1>1, <1>4 DEF CacheTyped
<1>8. Held' \subseteq Held
  BY <1>2, <1>4, <1>6, <1>7 DEF Held
<1> QED BY <1>1, <1>2, <1>4, <1>6, <1>7, <1>8 DEF CacheTyped

LEMMA ReturnBrings ==
  ASSUME CacheTyped, NEW t \in Threads, C!Return(t)
  PROVE  /\ CacheTyped' /\ Held' \subseteq Held \cup {NULL}
         /\ found[t] \in C!Elements /\ found[t] \in Held
         /\ found'[t] = NULL /\ cached_data'[t] \in {found[t].data, NULL}
         /\ \A s \in Threads \ {t} : found'[s] = found[s] /\ cached_data'[s] = cached_data[s]
<1>1. /\ found[t] # NULL /\ found' = [found EXCEPT ![t] = NULL]
      /\ UNCHANGED <<cache, adding>>
  BY DEF C!Return
<1>2. PICK d \in {found[t].data, NULL} : cached_data' = [cached_data EXCEPT ![t] = d]
  BY DEF C!Return
<1>3. found[t] \in C!Elements /\ found[t] \in Held
  BY <1>1 DEF CacheTyped, Held
<1>4. d \in Datas \cup {NULL}
  BY <1>3 DEF C!Elements
<1>5. CacheTyped'
  BY <1>1, <1>2, <1>4 DEF CacheTyped
<1>6. found'[t] = NULL /\ \A s \in Threads \ {t} : found'[s] = found[s]
  BY <1>1 DEF CacheTyped
<1>7. cached_data'[t] = d /\ \A s \in Threads \ {t} : cached_data'[s] = cached_data[s]
  BY <1>2 DEF CacheTyped
<1>8. Held' \subseteq Held \cup {NULL}
  BY <1>1, <1>6 DEF Held
<1> QED BY <1>3, <1>5, <1>6, <1>7, <1>8

LEMMA MissBrings ==
  ASSUME CacheTyped, NEW t \in Threads, CacheMiss(t)
  PROVE  /\ CacheTyped' /\ Held' = Held /\ found' = found
         /\ cached_data'[t] = NULL
         /\ \A s \in Threads \ {t} : cached_data'[s] = cached_data[s]
<1>1. /\ cached_data' = [cached_data EXCEPT ![t] = NULL]
      /\ UNCHANGED <<cache, adding, found>>
  BY DEF CacheMiss, C!Miss
<1> QED BY <1>1 DEF CacheTyped, Held

LEMMA BeginBrings ==
  ASSUME CacheTyped, NEW t \in Threads, NEW u \in Urls, NEW d \in Datas, C!BeginAdd(t, u, d)
  PROVE  /\ CacheTyped' /\ Held' \subseteq Held \cup {[url |-> u, data |-> d]}
         /\ found' = found /\ cached_data' = cached_data
<1>1. /\ adding' = [adding EXCEPT ![t] = [url |-> u, data |-> d]]
      /\ UNCHANGED <<cache, found, cached_data>>
  BY DEF C!BeginAdd
<1>2. [url |-> u, data |-> d] \in C!Elements
  BY DEF C!Elements
<1>3. CacheTyped'
  BY <1>1, <1>2 DEF CacheTyped
<1>4. \A s \in Threads : adding'[s] = IF s = t THEN [url |-> u, data |-> d] ELSE adding[s]
  BY <1>1 DEF CacheTyped
<1>5. Held' \subseteq Held \cup {[url |-> u, data |-> d]}
  BY <1>1, <1>4 DEF Held
<1> QED BY <1>1, <1>3, <1>5

LEMMA EvictBrings ==
  ASSUME CacheTyped, NEW t \in Threads, C!Evict(t)
  PROVE  /\ CacheTyped' /\ Held' \subseteq Held
         /\ found' = found /\ cached_data' = cached_data
<1>1. cache # << >> /\ cache' = Tail(cache) /\ UNCHANGED <<adding, found, cached_data>>
  BY DEF C!Evict
<1>2. cache \in Seq(C!Elements) /\ Len(cache) \in Nat /\ DOMAIN cache = 1..Len(cache)
  BY DEF CacheTyped
<1>3. /\ cache' \in Seq(C!Elements) /\ Len(cache') = Len(cache) - 1
      /\ \A i \in 1..Len(cache') : cache'[i] = cache[i + 1]
  BY <1>1, <1>2, HeadTailProperties
<1>4. DOMAIN cache' = 1..Len(cache')
  BY <1>3
<1>5. \A i \in 1..Len(cache') : i + 1 \in DOMAIN cache
  BY <1>2, <1>3
<1>6. ToSet(cache') \subseteq ToSet(cache)
  BY <1>3, <1>4, <1>5 DEF ToSet
<1> QED BY <1>1, <1>3, <1>6 DEF CacheTyped, Held

LEMMA InsertBrings ==
  ASSUME CacheTyped, NEW t \in Threads, C!Insert(t) \/ C!Refuse(t)
  PROVE  /\ CacheTyped' /\ Held' \subseteq Held \cup {NULL}
         /\ found' = found /\ cached_data' = cached_data
<1>1. /\ adding[t] # NULL /\ adding' = [adding EXCEPT ![t] = NULL]
      /\ cache' = Append(cache, adding[t]) \/ cache' = cache
      /\ UNCHANGED <<found, cached_data>>
  BY DEF C!Insert, C!Refuse
<1>2. adding[t] \in C!Elements /\ adding[t] \in Held /\ cache \in Seq(C!Elements)
  BY <1>1 DEF CacheTyped, Held
<1>3. cache' \in Seq(C!Elements) /\ ToSet(cache') \subseteq ToSet(cache) \cup {adding[t]}
  <2>1. CASE cache' = cache
    BY <1>2, <2>1
  <2>2. CASE cache' = Append(cache, adding[t])
    <3>1. /\ Append(cache, adding[t]) \in Seq(C!Elements)
          /\ ToSet(Append(cache, adding[t])) = ToSet(cache) \cup {adding[t]}
      BY <1>2, AppendSet
    <3> QED BY <2>2, <3>1
  <2> QED BY <1>1, <2>1, <2>2
<1>4. \A s \in Threads : adding'[s] = IF s = t THEN NULL ELSE adding[s]
  BY <1>1 DEF CacheTyped
<1>5. CacheTyped'
  BY <1>1, <1>3 DEF CacheTyped
<1>6. Held' \subseteq Held \cup {NULL}
  BY <1>1, <1>2, <1>3, <1>4 DEF Held
<1> QED BY <1>1, <1>5, <1>6

-----------------------------------------------------------------------------
(* One thread at a time.  What a step of t leaves alone in other threads, ...*)
OthersKeep(t) ==
  \A s \in Threads \ {t} :
    /\ step'[s] = step[s] /\ tempReq'[s] = tempReq[s]
    /\ answer'[s] = answer[s] /\ result'[s] = result[s]
    /\ found'[s] = found[s] /\ cached_data'[s] = cached_data[s] /\ Stays(s)

ThreadTypes ==
  /\ step \in [Threads -> Steps]
  /\ tempReq \in [Threads -> Urls \cup {NULL}]
  /\ buffer \in [Threads -> Urls \cup {NULL}]
  /\ alive \in [Threads -> BOOLEAN]
  /\ result \in [Threads -> {NULL, 0, -1}]
  /\ answer \in [Threads -> Datas \cup {<<>>, Error500}]
  /\ fetched \in [Urls -> SUBSET Datas]

LEMMA TypesAre ==
  TypeOK <=> /\ ThreadTypes /\ P!TypeOK
             /\ \A t \in Threads :
                  step[t] \notin {"wait", "fetch", "add", "complete"} => ppc[t] = "idle"
BY DEF TypeOK, ThreadTypes

LEMMA TypesAreNext ==
  TypeOK' <=> /\ ThreadTypes' /\ P!TypeOK'
              /\ \A t \in Threads :
                   step'[t] \notin {"wait", "fetch", "add", "complete"} => ppc'[t] = "idle"
BY DEF TypeOK, ThreadTypes

(* ... and what it has to bring about.                                       *)
LEMMA Together ==
  ASSUME IInv, NEW t \in Threads, OthersKeep(t),
         ThreadTypes', P!IInv', CacheTyped', Whereabouts(t)', FromCache(t)',
         \A u \in Urls : fetched[u] \subseteq fetched'[u],
         \A e \in Held' \ {NULL} : e \in Held \/ e.data \in fetched'[e.url]
  PROVE  IInv'
<1>1. \A s \in Threads \ {t} : Whereabouts(s)'
  <2> SUFFICES ASSUME NEW s \in Threads \ {t}
               PROVE  Whereabouts(s)'
    OBVIOUS
  <2>1. /\ step'[s] = step[s] /\ tempReq'[s] = tempReq[s]
        /\ answer'[s] = answer[s] /\ result'[s] = result[s]
        /\ found'[s] = found[s] /\ Stays(s)
    BY DEF OthersKeep
  <2>2. InCoalescing(s) /\ HasKey(s) /\ Unanswered(s) /\ FoundOwn(s)
    BY DEF IInv, Whereabouts
  <2>3. InCoalescing(s)'
    BY <2>1, <2>2 DEF InCoalescing, Stays
  <2>4. HasKey(s)' /\ Unanswered(s)' /\ FoundOwn(s)'
    BY <2>1, <2>2 DEF HasKey, Unanswered, FoundOwn
  <2> QED BY <2>3, <2>4 DEF Whereabouts
<1>2. \A s \in Threads : Whereabouts(s)'
  BY <1>1
<1>3. TypeOK'
  <2>1. P!TypeOK'
    BY DEF P!IInv
  <2>2. \A s \in Threads : step'[s] \notin {"wait", "fetch", "add", "complete"} => ppc'[s] = "idle"
    BY <1>2 DEF Whereabouts, InCoalescing
  <2> QED BY <2>1, <2>2, TypesAreNext
<1>4. CacheGenuine'
  <2> SUFFICES ASSUME NEW e \in Held' \ {NULL}
               PROVE  e.data \in fetched'[e.url]
    BY DEF CacheGenuine
  <2>1. CASE e \in Held
    <3>1. e.data \in fetched[e.url]
      BY <2>1 DEF IInv, CacheGenuine
    <3>2. e \in C!Elements
      <4>1. cache \in Seq(C!Elements) /\ DOMAIN cache = 1..Len(cache)
        BY DEF IInv, CacheTyped
      <4>2. \A x \in ToSet(cache) : x \in C!Elements
        BY <4>1 DEF ToSet
      <4> QED BY <2>1, <4>2 DEF Held, IInv, CacheTyped
    <3>3. e.url \in Urls
      BY <3>2 DEF C!Elements
    <3> QED BY <3>1, <3>3
  <2> QED BY <2>1
<1>5. \A s \in Threads : FromCache(s)'
  <2> SUFFICES ASSUME NEW s \in Threads, s # t, cached_data'[s] # NULL
               PROVE  /\ step'[s] \in {"close", "closed"} /\ tempReq'[s] \in Urls
                      /\ answer'[s] = cached_data'[s]
                      /\ cached_data'[s] \in fetched'[tempReq'[s]]
    BY DEF FromCache
  <2>1. /\ step'[s] = step[s] /\ tempReq'[s] = tempReq[s]
        /\ answer'[s] = answer[s] /\ cached_data'[s] = cached_data[s]
    BY DEF OthersKeep
  <2>2. FromCache(s)
    BY DEF IInv
  <2> QED BY <2>1, <2>2 DEF FromCache
<1> QED BY <1>2, <1>3, <1>4, <1>5 DEF IInv

(* Steps that do not enter the coalescing code, ...                          *)
LEMMA PendingQuiet ==
  ASSUME IInv, UNCHANGED pvars
  PROVE  /\ P!IInv'
         /\ \A s \in Threads : Stays(s) /\ ppc'[s] = ppc[s] /\ pkey'[s] = pkey[s]
<1>1. P!IInv'
  BY PendingKept DEF IInv
<1> QED BY <1>1 DEF pvars, Stays

(* ... and steps that do not use the cache.                                  *)
LEMMA CacheQuiet ==
  ASSUME IInv, UNCHANGED cvars
  PROVE  CacheTyped' /\ Held' = Held /\ found' = found /\ cached_data' = cached_data
BY DEF IInv, cvars, CacheTyped, Held

(* What is known of t before a step.                                         *)
LEMMA Known ==
  ASSUME IInv, NEW t \in Threads
  PROVE  /\ ThreadTypes
         /\ InCoalescing(t) /\ HasKey(t) /\ Unanswered(t) /\ FoundOwn(t) /\ FromCache(t)
BY TypesAre DEF IInv, Whereabouts

(* A step that is not the answer to a lookup leaves t without one.           *)
LEMMA NoHit ==
  ASSUME IInv, NEW t \in Threads, step[t] \notin {"close", "closed"},
         cached_data'[t] \in {cached_data[t], NULL}
  PROVE  FromCache(t)'
BY Known DEF FromCache

LEMMA InitInductive == Init => IInv
<1> SUFFICES ASSUME Init PROVE IInv
  OBVIOUS
<1>1. P!IInv
  <2>1. PP!Init
    BY DEF Init, P!Init, PP!Init
  <2> QED BY <2>1, PendingAssumed, PP!InitInductive, SameInvariant
<1>2. /\ cache = << >>
      /\ adding = [t \in Threads |-> NULL]
      /\ found = [t \in Threads |-> NULL]
      /\ cached_data = [t \in Threads |-> NULL]
  BY DEF Init, C!Init
<1>3. ToSet(cache) = {}
  BY <1>2 DEF ToSet
<1>4. CacheTyped /\ CacheGenuine
  BY <1>2, <1>3 DEF CacheTyped, CacheGenuine, Held
<1>5. ppc = [t \in Threads |-> "idle"]
  BY DEF Init, P!Init
<1>6. ThreadTypes
  BY DEF Init, ThreadTypes, Steps
<1>7. ASSUME NEW t \in Threads
      PROVE  Whereabouts(t) /\ FromCache(t)
  BY <1>2, <1>5 DEF Init, Whereabouts, InCoalescing, HasKey, Unanswered, FoundOwn, FromCache
<1>8. TypeOK
  BY <1>1, <1>5, <1>6, TypesAre DEF P!IInv
<1> QED BY <1>1, <1>4, <1>7, <1>8 DEF IInv

-----------------------------------------------------------------------------
(* Steps that use neither the pending table nor the cache.                   *)
LEMMA ReceiveInductive ==
  ASSUME IInv, NEW t \in Threads, Receive(t)
  PROVE  IInv'
<1>1. PICK u \in Urls, ok \in BOOLEAN :
        /\ tempReq' = [tempReq EXCEPT ![t] = u]
        /\ buffer' = [buffer EXCEPT ![t] = u]
        /\ alive' = [alive EXCEPT ![t] = ok]
  BY DEF Receive
<1>2. /\ step[t] = "accepted" /\ step' = [step EXCEPT ![t] = "lookup"]
      /\ UNCHANGED <<result, answer, fetched>> /\ UNCHANGED pvars /\ UNCHANGED cvars
  BY DEF Receive, Goto
<1>3. ThreadTypes'
  BY <1>1, <1>2, Known DEF ThreadTypes, Steps
<1>4. OthersKeep(t)
  BY <1>1, <1>2, Known, PendingQuiet, CacheQuiet DEF OthersKeep, ThreadTypes
<1>5. answer[t] = <<>> /\ found[t] = NULL /\ ppc[t] = "idle"
  BY <1>2, Known DEF Unanswered, FoundOwn, InCoalescing
<1>6. step'[t] = "lookup" /\ tempReq'[t] = u
  BY <1>1, <1>2, Known DEF ThreadTypes
<1>7. Whereabouts(t)'
  BY <1>2, <1>5, <1>6, PendingQuiet, CacheQuiet
     DEF Whereabouts, InCoalescing, HasKey, Unanswered, FoundOwn
<1> QED BY <1>2, <1>3, <1>4, <1>5, <1>7, NullApart, PendingQuiet, CacheQuiet, NoHit, Together

(* The step s of a thread that changes nothing else.                         *)
LEMMA GotoInductive ==
  ASSUME IInv, NEW t \in Threads, NEW s,
         \/ step[t] = "accepted" /\ s = "close"
         \/ step[t] = "close" /\ s = "closed",
         Goto(t, s), UNCHANGED <<tvars, pvars, cvars>>
  PROVE  IInv'
<1>1. /\ step' = [step EXCEPT ![t] = s]
      /\ UNCHANGED <<tempReq, buffer, alive, result, answer, fetched>>
      /\ UNCHANGED pvars /\ UNCHANGED cvars
  BY DEF Goto, tvars
<1>2. ThreadTypes'
  BY <1>1, Known DEF ThreadTypes, Steps
<1>3. OthersKeep(t)
  BY <1>1, Known, PendingQuiet, CacheQuiet DEF OthersKeep, ThreadTypes
<1>4. step'[t] = s /\ found[t] = NULL /\ ppc[t] = "idle" /\ HasKey(t)
  BY <1>1, Known DEF ThreadTypes, FoundOwn, InCoalescing
<1>5. Whereabouts(t)'
  BY <1>1, <1>4, PendingQuiet, CacheQuiet
     DEF Whereabouts, InCoalescing, HasKey, Unanswered, FoundOwn
<1>6. FromCache(t)'
  BY <1>1, <1>4, Known, CacheQuiet, NoHit DEF FromCache
<1> QED BY <1>1, <1>2, <1>3, <1>5, <1>6, PendingQuiet, CacheQuiet, Together

LEMMA FetchFailsInductive ==
  ASSUME IInv, NEW t \in Threads, FetchFails(t)
  PROVE  IInv'
<1>1. /\ step[t] = "fetch" /\ step' = [step EXCEPT ![t] = "complete"]
      /\ result' = [result EXCEPT ![t] = -1]
      /\ UNCHANGED <<tempReq, buffer, alive, answer, fetched>>
      /\ UNCHANGED pvars /\ UNCHANGED cvars
  BY DEF FetchFails, Goto, AfterFailure
<1>2. ThreadTypes'
  BY <1>1, Known DEF ThreadTypes, Steps
<1>3. OthersKeep(t)
  BY <1>1, Known, PendingQuiet, CacheQuiet DEF OthersKeep, ThreadTypes
<1>4. step'[t] = "complete" /\ answer[t] = <<>> /\ found[t] = NULL /\ ppc[t] = "fetching"
      /\ tempReq[t] \in Urls
  BY <1>1, Known DEF ThreadTypes, FoundOwn, InCoalescing, Unanswered, HasKey
<1>5. Whereabouts(t)'
  BY <1>1, <1>4, PendingQuiet, CacheQuiet
     DEF Whereabouts, InCoalescing, HasKey, Unanswered, FoundOwn
<1> QED BY <1>1, <1>2, <1>3, <1>5, Known, PendingQuiet, CacheQuiet, NoHit, Together

LEMMA FetchUncachedInductive ==
  ASSUME IInv, NEW t \in Threads, FetchUncached(t)
  PROVE  IInv'
<1>1. PICK d \in Datas, a \in Datas :
        /\ answer' = [answer EXCEPT ![t] = a]
        /\ fetched' = [fetched EXCEPT ![tempReq[t]] = fetched[tempReq[t]] \cup {d}]
  BY DEF FetchUncached, Exchanged
<1>2. /\ step[t] = "fetch" /\ step' = [step EXCEPT ![t] = "complete"]
      /\ result' = [result EXCEPT ![t] = 0]
      /\ UNCHANGED <<tempReq, buffer, alive>> /\ UNCHANGED pvars /\ UNCHANGED cvars
  BY DEF FetchUncached, Goto
<1>3. tempReq[t] \in Urls /\ found[t] = NULL /\ ppc[t] = "fetching"
  BY <1>2, Known DEF HasKey, FoundOwn, InCoalescing
<1>4. ThreadTypes'
  BY <1>1, <1>2, <1>3, Known DEF ThreadTypes, Steps
<1>5. OthersKeep(t)
  BY <1>1, <1>2, Known, PendingQuiet, CacheQuiet DEF OthersKeep, ThreadTypes
<1>6. /\ step'[t] = "complete" /\ result'[t] = 0
      /\ \A u \in Urls : fetched[u] \subseteq fetched'[u]
  BY <1>1, <1>2, <1>3, Known DEF ThreadTypes
<1>7. Whereabouts(t)'
  BY <1>2, <1>3, <1>6, PendingQuiet, CacheQuiet
     DEF Whereabouts, InCoalescing, HasKey, Unanswered, FoundOwn
<1> QED BY <1>2, <1>4, <1>5, <1>6, <1>7, PendingQuiet, CacheQuiet, NoHit, Together

-----------------------------------------------------------------------------
(* Steps that use the cache.                                                 *)
LEMMA LookupHitInductive ==
  ASSUME IInv, NEW t \in Threads, LookupHit(t)
  PROVE  IInv'
<1>1. /\ step[t] = "lookup" /\ step' = [step EXCEPT ![t] = "hit"]
      /\ C!Hit(t, tempReq[t])
      /\ UNCHANGED <<tempReq, buffer, alive, result, answer, fetched>> /\ UNCHANGED pvars
  BY DEF LookupHit, Goto, tvars
<1>2. tempReq[t] \in Urls /\ answer[t] = <<>> /\ ppc[t] = "idle"
  BY <1>1, Known DEF HasKey, Unanswered, InCoalescing
<1>3. /\ CacheTyped' /\ Held' \subseteq Held \cup {NULL}
      /\ found'[t].url = tempReq[t] /\ cached_data' = cached_data
      /\ \A s \in Threads \ {t} : found'[s] = found[s]
  BY <1>1, <1>2, HitBrings DEF IInv
<1>4. ThreadTypes'
  BY <1>1, Known DEF ThreadTypes, Steps
<1>5. OthersKeep(t)
  BY <1>1, <1>3, Known, PendingQuiet DEF OthersKeep, ThreadTypes
<1>6. step'[t] = "hit"
  BY <1>1, Known DEF ThreadTypes
<1>7. Whereabouts(t)'
  BY <1>1, <1>2, <1>3, <1>6, PendingQuiet
     DEF Whereabouts, InCoalescing, HasKey, Unanswered, FoundOwn
<1> QED BY <1>1, <1>3, <1>4, <1>5, <1>7, Known, PendingQuiet, NoHit, Together

LEMMA ServeCachedInductive ==
  ASSUME IInv, NEW t \in Threads, ServeCached(t)
  PROVE  IInv'
<1>1. /\ step[t] = "hit" /\ step' = [step EXCEPT ![t] = "close"]
      /\ C!Return(t) /\ cached_data'[t] # NULL
      /\ answer' = [answer EXCEPT ![t] = cached_data'[t]]
      /\ UNCHANGED <<tempReq, buffer, alive, result, fetched>> /\ UNCHANGED pvars
  BY DEF ServeCached, Goto
<1>2. /\ CacheTyped' /\ Held' \subseteq Held \cup {NULL}
      /\ found[t] \in C!Elements /\ found[t] \in Held
      /\ found'[t] = NULL /\ cached_data'[t] = found[t].data
      /\ \A s \in Threads \ {t} : found'[s] = found[s] /\ cached_data'[s] = cached_data[s]
  BY <1>1, ReturnBrings DEF IInv
<1>3. found[t] # NULL /\ found[t].url = tempReq[t] /\ found[t].data \in fetched[tempReq[t]]
  BY <1>2, NullApart, Known DEF FoundOwn, IInv, CacheGenuine
<1>4. tempReq[t] \in Urls /\ ppc[t] = "idle" /\ found[t].data \in Datas
  BY <1>1, <1>2, Known DEF HasKey, InCoalescing, C!Elements
<1>5. ThreadTypes'
  BY <1>1, <1>2, <1>4, Known DEF ThreadTypes, Steps
<1>6. OthersKeep(t)
  BY <1>1, <1>2, Known, PendingQuiet DEF OthersKeep, ThreadTypes
<1>7. step'[t] = "close" /\ answer'[t] = found[t].data
  BY <1>1, <1>2, Known DEF ThreadTypes
<1>8. Whereabouts(t)'
  BY <1>1, <1>2, <1>4, <1>7, PendingQuiet
     DEF Whereabouts, InCoalescing, HasKey, Unanswered, FoundOwn
<1>9. FromCache(t)'
  BY <1>1, <1>2, <1>3, <1>4, <1>7 DEF FromCache
<1> QED BY <1>1, <1>2, <1>5, <1>6, <1>8, <1>9, PendingQuiet, Together

(* Nothing cached, whatever the thread does next.                            *)
LEMMA NotCachedBrings ==
  ASSUME IInv, NEW t \in Threads, NotCached(t)
  PROVE  /\ CacheTyped' /\ Held' \subseteq Held \cup {NULL}
         /\ found'[t] = NULL /\ cached_data'[t] = NULL
         /\ \A s \in Threads \ {t} : found'[s] = found[s] /\ cached_data'[s] = cached_data[s]
         /\ tempReq[t] \in Urls /\ answer[t] = <<>> /\ ppc[t] = "idle"
         /\ step[t] \in {"lookup", "hit"}
<1>1. CASE step[t] = "lookup" /\ CacheMiss(t)
  BY <1>1, MissBrings, Known DEF IInv, HasKey, Unanswered, InCoalescing, FoundOwn
<1>2. CASE step[t] = "hit" /\ C!Return(t) /\ cached_data'[t] = NULL
  BY <1>2, ReturnBrings, Known DEF IInv, HasKey, Unanswered, InCoalescing
<1> QED BY <1>1, <1>2 DEF NotCached

LEMMA GiveUpInductive ==
  ASSUME IInv, NEW t \in Threads, GiveUp(t)
  PROVE  IInv'
<1>1. /\ NotCached(t) /\ step' = [step EXCEPT ![t] = "close"]
      /\ UNCHANGED <<tempReq, buffer, alive, result, answer, fetched>> /\ UNCHANGED pvars
  BY DEF GiveUp, Goto, tvars
<1>2. /\ CacheTyped' /\ Held' \subseteq Held \cup {NULL}
      /\ found'[t] = NULL /\ cached_data'[t] = NULL
      /\ \A s \in Threads \ {t} : found'[s] = found[s] /\ cached_data'[s] = cached_data[s]
      /\ tempReq[t] \in Urls /\ answer[t] = <<>> /\ ppc[t] = "idle"
      /\ step[t] \in {"lookup", "hit"}
  BY <1>1, NotCachedBrings
<1>3. ThreadTypes'
  BY <1>1, Known DEF ThreadTypes, Steps
<1>4. OthersKeep(t)
  BY <1>1, <1>2, Known, PendingQuiet DEF OthersKeep, ThreadTypes
<1>5. step'[t] = "close"
  BY <1>1, Known DEF ThreadTypes
<1>6. Whereabouts(t)'
  BY <1>1, <1>2, <1>5, PendingQuiet
     DEF Whereabouts, InCoalescing, HasKey, Unanswered, FoundOwn
<1> QED BY <1>1, <1>2, <1>3, <1>4, <1>6, Known, PendingQuiet, NoHit, Together

(* A parsed request, refused or not.                                         *)
LEMMA ParsedInductive ==
  ASSUME IInv, NEW t \in Threads, RejectVersion(t) \/ Parse(t)
  PROVE  IInv'
<1>1. /\ NotCached(t) /\ buffer' = [buffer EXCEPT ![t] = NULL]
      /\ UNCHANGED <<tempReq, alive, result, fetched>> /\ UNCHANGED pvars
      /\ \/ /\ step' = [step EXCEPT ![t] = "close"]
            /\ answer' = [answer EXCEPT ![t] = Error500]
         \/ /\ step' = [step EXCEPT ![t] = "register"]
            /\ answer' = answer
  BY DEF RejectVersion, Parse, Parsed, Goto, Coalesced
<1>2. /\ CacheTyped' /\ Held' \subseteq Held \cup {NULL}
      /\ found'[t] = NULL /\ cached_data'[t] = NULL
      /\ \A s \in Threads \ {t} : found'[s] = found[s] /\ cached_data'[s] = cached_data[s]
      /\ tempReq[t] \in Urls /\ answer[t] = <<>> /\ ppc[t] = "idle"
      /\ step[t] \in {"lookup", "hit"}
  BY <1>1, NotCachedBrings
<1>3. ThreadTypes'
  BY <1>1, Known DEF ThreadTypes, Steps
<1>4. OthersKeep(t)
  BY <1>1, <1>2, Known, PendingQuiet DEF OthersKeep, ThreadTypes
<1>5. \/ step'[t] = "close" /\ answer'[t] = Error500
      \/ step'[t] = "register" /\ answer'[t] = <<>>
  BY <1>1, <1>2, Known DEF ThreadTypes
<1>6. Whereabouts(t)'
  BY <1>1, <1>2, <1>5, PendingQuiet
     DEF Whereabouts, InCoalescing, HasKey, Unanswered, FoundOwn
<1> QED BY <1>1, <1>2, <1>3, <1>4, <1>5, <1>6, NullApart, PendingQuiet, NoHit, Together

LEMMA FetchInductive ==
  ASSUME IInv, NEW t \in Threads, Fetch(t)
  PROVE  IInv'
<1>1. PICK d \in Datas, a \in Datas :
        /\ C!BeginAdd(t, tempReq[t], d)
        /\ answer' = [answer EXCEPT ![t] = a]
        /\ fetched' = [fetched EXCEPT ![tempReq[t]] = fetched[tempReq[t]] \cup {d}]
  BY DEF Fetch, Exchanged, CacheKey
<1>2. /\ step[t] = "fetch" /\ step' = [step EXCEPT ![t] = "add"]
      /\ UNCHANGED <<tempReq, buffer, alive, result>> /\ UNCHANGED pvars
  BY DEF Fetch, Goto
<1>3. /\ tempReq[t] \in Urls /\ found[t] = NULL
      /\ ppc[t] = "fetching" /\ pkey[t] = tempReq[t]
  BY <1>2, Known DEF HasKey, FoundOwn, InCoalescing
<1> DEFINE e == [url |-> tempReq[t], data |-> d]
<1>4. /\ CacheTyped' /\ Held' \subseteq Held \cup {e}
      /\ found' = found /\ cached_data' = cached_data
  BY <1>1, <1>3, BeginBrings DEF IInv
<1>5. ThreadTypes'
  BY <1>1, <1>2, <1>3, Known DEF ThreadTypes, Steps
<1>6. OthersKeep(t)
  BY <1>1, <1>2, <1>4, Known, PendingQuiet DEF OthersKeep, ThreadTypes
<1>7. /\ step'[t] = "add"
      /\ \A u \in Urls : fetched[u] \subseteq fetched'[u]
      /\ d \in fetched'[tempReq[t]]
  BY <1>1, <1>2, <1>3, Known DEF ThreadTypes
<1>8. Whereabouts(t)'
  BY <1>2, <1>3, <1>4, <1>7, PendingQuiet
     DEF Whereabouts, InCoalescing, HasKey, Unanswered, FoundOwn
<1>9. e.url = tempReq[t] /\ e.data = d
  OBVIOUS
<1> HIDE DEF e
<1>10. \A x \in Held' \ {NULL} : x \in Held \/ x.data \in fetched'[x.url]
  BY <1>4, <1>7, <1>9
<1> QED BY <1>2, <1>4, <1>5, <1>6, <1>7, <1>8, <1>10, PendingQuiet, NoHit, Together

LEMMA AddInductive ==
  ASSUME IInv, NEW t \in Threads, Evict(t) \/ Added(t)
  PROVE  IInv'
<1>1. /\ step[t] = "add" /\ UNCHANGED <<tempReq, buffer, alive, answer, fetched>>
      /\ UNCHANGED pvars
      /\ C!Evict(t) \/ C!Insert(t) \/ C!Refuse(t)
      /\ \/ step' = step /\ result' = result
         \/ /\ step' = [step EXCEPT ![t] = "complete"]
            /\ result' = [result EXCEPT ![t] = 0]
  BY DEF Evict, Added, Goto, tvars
<1>2. tempReq[t] \in Urls /\ ppc[t] = "fetching" /\ pkey[t] = tempReq[t] /\ found[t] = NULL
  BY <1>1, Known DEF HasKey, FoundOwn, InCoalescing
<1>3. /\ CacheTyped' /\ Held' \subseteq Held \cup {NULL}
      /\ found' = found /\ cached_data' = cached_data
  BY <1>1, EvictBrings, InsertBrings DEF IInv
<1>4. ThreadTypes'
  BY <1>1, Known DEF ThreadTypes, Steps
<1>5. OthersKeep(t)
  BY <1>1, <1>3, Known, PendingQuiet DEF OthersKeep, ThreadTypes
<1>6. \/ step'[t] = "add"
      \/ step'[t] = "complete" /\ result'[t] = 0
  BY <1>1, Known DEF ThreadTypes
<1>7. Whereabouts(t)'
  BY <1>1, <1>2, <1>3, <1>6, PendingQuiet
     DEF Whereabouts, InCoalescing, HasKey, Unanswered, FoundOwn
<1> QED BY <1>1, <1>3, <1>4, <1>5, <1>7, Known, PendingQuiet, NoHit, Together

-----------------------------------------------------------------------------
(* Steps that use the pending table.                                         *)
LEMMA RegisterInductive ==
  ASSUME IInv, NEW t \in Threads, Register(t) \/ Join(t)
  PROVE  IInv'
<1>1. /\ step[t] = "register"
      /\ UNCHANGED <<tempReq, buffer, alive, result, answer, fetched>> /\ UNCHANGED cvars
      /\ \/ P!RegisterAt(t, tempReq[t], t) /\ step' = [step EXCEPT ![t] = "fetch"]
         \/ P!Join(t, tempReq[t]) /\ step' = [step EXCEPT ![t] = "wait"]
  BY DEF Register, Join, Goto, tvars
<1>2. tempReq[t] \in Urls /\ answer[t] = <<>> /\ found[t] = NULL
  BY <1>1, Known DEF HasKey, FoundOwn, Unanswered
<1>3. P!IInv'
  BY <1>1, <1>2, CallsArePending, PendingKept DEF IInv
<1>4. /\ \A s \in Threads \ {t} : Stays(s)
      /\ \/ step'[t] = "fetch" /\ ppc'[t] = "fetching" /\ pkey'[t] = tempReq[t]
         \/ step'[t] = "wait" /\ ppc'[t] = "waiting"
  <2>1. step \in [Threads -> Steps]
    BY Known DEF ThreadTypes
  <2> QED BY <1>1, <1>2, <2>1, CallsMove DEF IInv, Moves
<1>5. ThreadTypes'
  BY <1>1, Known DEF ThreadTypes, Steps
<1>6. OthersKeep(t)
  BY <1>1, <1>4, Known, CacheQuiet DEF OthersKeep, ThreadTypes
<1>7. Whereabouts(t)'
  BY <1>1, <1>2, <1>4, CacheQuiet
     DEF Whereabouts, InCoalescing, HasKey, Unanswered, FoundOwn
<1> QED BY <1>1, <1>3, <1>5, <1>6, <1>7, Known, CacheQuiet, NoHit, Together

LEMMA WaitInductive ==
  ASSUME IInv, NEW t \in Threads, Wait(t) \/ Resume(t)
  PROVE  IInv'
<1>1. /\ step[t] = "wait"
      /\ UNCHANGED <<tempReq, buffer, alive, result, answer, fetched>> /\ UNCHANGED cvars
      /\ \/ (P!WaitTest(t) \/ P!SpuriousWakeup(t)) /\ step' = step
         \/ P!Leave(t) /\ step' = [step EXCEPT ![t] = "lookup"]
  BY DEF Wait, Resume, Goto, tvars
<1>2. tempReq[t] \in Urls /\ answer[t] = <<>> /\ found[t] = NULL
  BY <1>1, Known DEF HasKey, FoundOwn, Unanswered
<1>3. P!IInv'
  BY <1>1, CallsArePending, PendingKept DEF IInv
<1>4. /\ \A s \in Threads \ {t} : Stays(s)
      /\ \/ step'[t] = "wait" /\ ppc'[t] \in {"leaving", "blocked", "waiting"}
         \/ step'[t] = "lookup" /\ ppc'[t] = "idle"
  <2>1. step \in [Threads -> Steps]
    BY Known DEF ThreadTypes
  <2> QED BY <1>1, <2>1, CallsMove DEF IInv, Moves
<1>5. ThreadTypes'
  BY <1>1, Known DEF ThreadTypes, Steps
<1>6. OthersKeep(t)
  BY <1>1, <1>4, Known, CacheQuiet DEF OthersKeep, ThreadTypes
<1>7. Whereabouts(t)'
  BY <1>1, <1>2, <1>4, CacheQuiet
     DEF Whereabouts, InCoalescing, HasKey, Unanswered, FoundOwn
<1> QED BY <1>1, <1>3, <1>5, <1>6, <1>7, Known, CacheQuiet, NoHit, Together

LEMMA CompletingInductive ==
  ASSUME IInv, NEW t \in Threads, Completing(t)
  PROVE  IInv'
<1>1. /\ step[t] = "complete"
      /\ UNCHANGED <<step, tempReq, buffer, alive, result, answer, fetched>> /\ UNCHANGED cvars
      /\ P!CompleteUnlink(t) \/ P!CompleteBroadcast(t)
  BY DEF Completing, tvars
<1>2. /\ tempReq[t] \in Urls /\ found[t] = NULL
      /\ result[t] = -1 => answer[t] = <<>>
  BY <1>1, Known DEF HasKey, FoundOwn, Unanswered
<1>3. P!IInv'
  BY <1>1, CallsArePending, PendingKept DEF IInv
<1>4. /\ \A s \in Threads \ {t} : Stays(s)
      /\ ppc'[t] \in {"unlinked", "signalled"}
  BY <1>1, CallsMove DEF IInv, Moves
<1>5. ThreadTypes'
  BY <1>1, Known DEF ThreadTypes, Steps
<1>6. OthersKeep(t)
  BY <1>1, <1>4, Known, CacheQuiet DEF OthersKeep, ThreadTypes
<1>7. Whereabouts(t)'
  BY <1>1, <1>2, <1>4, CacheQuiet
     DEF Whereabouts, InCoalescing, HasKey, Unanswered, FoundOwn
<1> QED BY <1>1, <1>3, <1>5, <1>6, <1>7, Known, CacheQuiet, NoHit, Together

LEMMA CompletedInductive ==
  ASSUME IInv, NEW t \in Threads, Completed(t)
  PROVE  IInv'
<1>1. /\ step[t] = "complete" /\ step' = [step EXCEPT ![t] = "close"]
      /\ answer' = [answer EXCEPT ![t] = IF result[t] = -1 THEN Error500 ELSE answer[t]]
      /\ UNCHANGED <<tempReq, buffer, alive, result, fetched>> /\ UNCHANGED cvars
      /\ P!CompleteRelease(t) \/ P!CompleteNoMatch(t)
  BY DEF Completed, Goto, AnswerAfter
<1>2. tempReq[t] \in Urls /\ found[t] = NULL
  BY <1>1, Known DEF HasKey, FoundOwn
<1>3. P!IInv'
  BY <1>1, CallsArePending, PendingKept DEF IInv
<1>4. /\ \A s \in Threads \ {t} : Stays(s)
      /\ ppc'[t] = "idle"
  BY <1>1, CallsMove DEF IInv, Moves
<1>5. ThreadTypes'
  BY <1>1, Known DEF ThreadTypes, Steps
<1>6. OthersKeep(t)
  BY <1>1, <1>4, Known, CacheQuiet DEF OthersKeep, ThreadTypes
<1>7. step'[t] = "close" /\ answer'[t] \in {Error500, answer[t]}
  BY <1>1, Known DEF ThreadTypes
<1>8. Whereabouts(t)'
  BY <1>1, <1>2, <1>4, <1>7, CacheQuiet
     DEF Whereabouts, InCoalescing, HasKey, Unanswered, FoundOwn
<1> QED BY <1>1, <1>3, <1>5, <1>6, <1>7, <1>8, NullApart, Known, CacheQuiet, NoHit, Together

LEMMA NextInductive == IInv /\ [Next]_vars => IInv'
<1> SUFFICES ASSUME IInv, [Next]_vars PROVE IInv'
  OBVIOUS
<1>1. CASE UNCHANGED vars
  <2>1. P!IInv'
    BY <1>1, PendingKept DEF vars, IInv
  <2>2. CacheTyped' /\ Held' = Held
    BY <1>1, CacheQuiet DEF vars
  <2>3. TypeOK'
    BY <1>1, <2>1, TypesAre, TypesAreNext DEF IInv, vars, tvars, pvars, ThreadTypes, P!IInv
  <2>4. CacheGenuine' /\ \A t \in Threads : Whereabouts(t)' /\ FromCache(t)'
    BY <1>1, <2>2 DEF IInv, vars, tvars, pvars, cvars, CacheGenuine, Whereabouts,
       InCoalescing, HasKey, Unanswered, FoundOwn, FromCache
  <2> QED BY <2>1, <2>2, <2>3, <2>4 DEF IInv
<1>2. ASSUME NEW t \in Threads, Receive(t) \/ ReceiveNoMemory(t) \/ Wait(t) \/ Run(t)
      PROVE  IInv'
  <2>1. ReceiveNoMemory(t) \/ Close(t) => IInv'
    BY GotoInductive DEF ReceiveNoMemory, Close
  <2> QED BY <1>2, <2>1, ReceiveInductive, WaitInductive, LookupHitInductive, ServeCachedInductive,
         GiveUpInductive, ParsedInductive, RegisterInductive, FetchFailsInductive,
         FetchUncachedInductive, FetchInductive, AddInductive, CompletingInductive,
         CompletedInductive DEF Run
<1> QED BY <1>1, <1>2 DEF Next

-----------------------------------------------------------------------------
(* Theorems.                                                                 *)

(* The invariant holds in every reachable state.                             *)
THEOREM Inductive == Spec => []IInv
BY InitInductive, NextInductive, PTL DEF Spec

(* TypeOK: a thread is in the coalescing code exactly where thread_fn calls  *)
(* it.                                                                       *)
THEOREM TypeCorrect == Spec => []TypeOK
<1>1. IInv => TypeOK
  BY DEF IInv
<1> QED BY <1>1, Inductive, PTL

(* OneRequestAtOrigin: from SingleFlight of Pending, since a thread fetches  *)
(* and adds to the cache between registering and completing.                 *)
THEOREM OneFetchPerKey == Spec => []OneRequestAtOrigin
<1>1. IInv => OneRequestAtOrigin
  <2> SUFFICES ASSUME IInv, NEW s \in Threads, NEW t \in Threads,
                      step[s] \in {"fetch", "add"}, step[t] \in {"fetch", "add"},
                      tempReq[s] = tempReq[t], P!Short(tempReq[s])
               PROVE  s = t
    BY DEF OneRequestAtOrigin
  <2>1. /\ ppc[s] = "fetching" /\ pkey[s] = tempReq[s]
        /\ ppc[t] = "fetching" /\ pkey[t] = tempReq[t]
    BY DEF IInv, Whereabouts, InCoalescing
  <2> QED BY <2>1 DEF IInv, P!IInv, P!SingleFlight, P!Fetching, P!Short
<1> QED BY <1>1, Inductive, PTL

(* HitsBelong: what the cache gives a client is what it is sent, and was     *)
(* stored under the client's own key.                                        *)
THEOREM HitsUnderOwnKey == Spec => []HitsBelong
<1>1. IInv => HitsBelong
  BY DEF IInv, FromCache, HitsBelong
<1> QED BY <1>1, Inductive, PTL

(* AnsweredOnce: no step replaces what a client has been sent.               *)
THEOREM NoSecondAnswer == Spec => AnsweredOnce
<1>1. IInv /\ [Next]_vars => [\A t \in Threads : answer[t] # <<>> => answer'[t] = answer[t]]_vars
  <2> SUFFICES ASSUME IInv, Next
               PROVE  \A t \in Threads : answer[t] # <<>> => answer'[t] = answer[t]
    OBVIOUS
  <2> PICK t \in Threads : Receive(t) \/ ReceiveNoMemory(t) \/ Wait(t) \/ Run(t)
    BY DEF Next
  <2>1. CASE answer' = answer
    BY <2>1
  <2>2. CASE answer' # answer
    <3>1. ServeCached(t) \/ RejectVersion(t) \/ FetchUncached(t) \/ Fetch(t) \/ Completed(t)
      BY <2>2 DEF Receive, ReceiveNoMemory, Wait, Run, tvars, LookupHit, GiveUp, Parse, Register,
         Join, Resume, FetchFails, Evict, Added, Completing, Close
    <3>2. \A s \in Threads \ {t} : answer'[s] = answer[s]
      BY <3>1, Known DEF ThreadTypes, ServeCached, RejectVersion, FetchUncached, Fetch, Exchanged, Completed
    <3>3. CASE ServeCached(t) \/ FetchUncached(t) \/ Fetch(t)
      BY <3>2, <3>3, Known DEF Unanswered, ServeCached, FetchUncached, Fetch, Exchanged
    <3>4. CASE RejectVersion(t)
      BY <3>2, <3>4, NotCachedBrings DEF RejectVersion, Parsed
    <3>5. CASE Completed(t)
      <4>1. answer[t] # <<>> => answer'[t] = answer[t]
        BY <3>5, Known DEF Completed, AnswerAfter, Unanswered, ThreadTypes
      <4> QED BY <3>2, <4>1
    <3> QED BY <3>1, <3>3, <3>4, <3>5
  <2> QED BY <2>1, <2>2
<1> QED BY <1>1, Inductive, PTL DEF Spec, AnsweredOnce

(* thread_fn uses the coalescing code as Pending says: each of its steps is  *)
(* a step of Pending or does not touch the pending table.                    *)
THEOREM ImplementsPending == Spec => P!Spec
<1>1. Init => P!Init
  BY DEF Init
<1>2. PP!Next => P!Next
  BY DEF P!Next, PP!Next, P!Step, PP!Step, P!Register, PP!Register, P!RegisterAt, PP!RegisterAt,
     P!Join, PP!Join, P!AddPending, PP!AddPending, P!NoMatch, PP!NoMatch, P!FirstMatch, PP!FirstMatch,
     P!Matches, PP!Matches, P!Chain, PP!Chain, P!RemoveAt, PP!RemoveAt, P!WaitTest, PP!WaitTest,
     P!SpuriousWakeup, PP!SpuriousWakeup, P!Leave, PP!Leave, P!DropRef, PP!DropRef,
     P!Return, PP!Return, P!CompleteUnlink, PP!CompleteUnlink,
     P!CompleteNoMatch, PP!CompleteNoMatch, P!CompleteBroadcast, PP!CompleteBroadcast,
     P!CompleteRelease, PP!CompleteRelease
<1>3. IInv /\ [Next]_vars => [P!Next]_(P!vars)
  <2> SUFFICES ASSUME IInv, Next
               PROVE  P!Next \/ UNCHANGED pvars
    BY DEF vars, pvars, P!vars
  <2> PICK t \in Threads : Receive(t) \/ ReceiveNoMemory(t) \/ Wait(t) \/ Run(t)
    BY DEF Next
  <2>1. CASE Register(t) \/ Join(t)
    <3>1. tempReq[t] \in Urls
      BY <2>1, Known DEF HasKey, Register, Join
    <3> QED BY <2>1, <3>1, <1>2, CallsArePending DEF Register, Join
  <2>2. CASE Wait(t) \/ Resume(t) \/ Completing(t) \/ Completed(t)
    BY <2>2, <1>2, CallsArePending DEF Wait, Resume, Completing, Completed
  <2>3. CASE Receive(t) \/ ReceiveNoMemory(t) \/ Close(t) \/ LookupHit(t) \/ ServeCached(t)
             \/ GiveUp(t) \/ RejectVersion(t) \/ Parse(t) \/ FetchFails(t) \/ FetchUncached(t)
             \/ Fetch(t) \/ Evict(t) \/ Added(t)
    BY <2>3 DEF Receive, ReceiveNoMemory, Close, LookupHit, ServeCached, GiveUp, RejectVersion,
       Parse, FetchFails, FetchUncached, Fetch, Evict, Added
  <2> QED BY <2>1, <2>2, <2>3 DEF Run
<1> QED BY <1>1, <1>3, Inductive, PTL DEF Spec, P!Spec

(* thread_fn uses the cache as LRUCache says, one operation of it at a time, *)
(* once elements are entered in the hash table.                              *)
THEOREM ImplementsCache == HashInsert => (Spec => C!Spec)
<1> SUFFICES ASSUME HashInsert PROVE Spec => C!Spec
  OBVIOUS
<1>1. Init => C!Init
  BY DEF Init
<1>2. IInv /\ [Next]_vars => [C!Next]_(C!vars)
  <2> SUFFICES ASSUME IInv, Next
               PROVE  C!Next \/ UNCHANGED cvars
    BY DEF vars, cvars, C!vars
  <2> PICK t \in Threads : Receive(t) \/ ReceiveNoMemory(t) \/ Wait(t) \/ Run(t)
    BY DEF Next
  <2>1. step[t] \in {"lookup", "hit", "fetch"} => tempReq[t] \in Urls
    BY Known DEF HasKey
  <2>2. CASE LookupHit(t) \/ NotCached(t) \/ ServeCached(t)
    BY <2>1, <2>2 DEF LookupHit, NotCached, CacheMiss, ServeCached, C!Next
  <2>3. CASE Fetch(t) \/ Evict(t) \/ Added(t)
    BY <2>1, <2>3 DEF Fetch, CacheKey, Evict, Added, C!Next
  <2>4. CASE Receive(t) \/ ReceiveNoMemory(t) \/ Close(t) \/ Wait(t) \/ Register(t) \/ Join(t)
             \/ Resume(t) \/ FetchFails(t) \/ FetchUncached(t) \/ Completing(t) \/ Completed(t)
    BY <2>4 DEF Receive, ReceiveNoMemory, Close, Wait, Register, Join, Resume, FetchFails,
       FetchUncached, Completing, Completed
  <2>5. GiveUp(t) \/ RejectVersion(t) \/ Parse(t) => NotCached(t)
    BY DEF GiveUp, RejectVersion, Parse, Parsed
  <2> QED BY <2>2, <2>3, <2>4, <2>5 DEF Run
<1> QED BY <1>1, <1>2, Inductive, PTL DEF Spec, C!Spec

(* So each theorem about Pending holds of the pending table of the proxy:    *)
(* for one, no waiter and no chain points to an entry that has been freed.   *)
THEOREM CoalescingSafe == Spec => [](P!NoDanglingEntry /\ P!RefCountExact /\ P!NoLostWakeup)
<1>1. IInv => P!RefCountExact /\ P!NoLostWakeup /\ P!NoDanglingEntry
  <2> SUFFICES ASSUME IInv
               PROVE  P!RefCountExact /\ P!NoLostWakeup /\ P!NoDanglingEntry
    OBVIOUS
  <2>1. P!RefCountExact /\ P!NoLostWakeup
    BY DEF IInv, P!IInv
  <2>2. P!NoDanglingEntry
    <3>1. P!TypeOK /\ P!ChainsOK /\ P!PointersOK
      BY DEF IInv, P!IInv
    <3>2. ASSUME NEW e \in Threads, P!InTable(e) \/ P!Sharers(e) # {}
          PROVE  pheap[e] # NULL
      BY <3>1, <3>2, NullApart DEF P!InTable, P!Sharers, P!ChainsOK, P!PointersOK
    <3> QED BY <3>2 DEF P!NoDanglingEntry
  <2> QED BY <2>1, <2>2
<1> QED BY <1>1, Inductive, PTL
-----------------------------------------------------------------------------
(* Why a client is answered or not: a thread for the key u has been to the   *)
(* origin; ...                                                               *)
BeenThere(u) == \E s \in Threads : tempReq[s] = u /\ result[s] # NULL

(* ... what is so of each thread on its way to the answer; ...               *)
Accountable(t) ==
  /\ buffer[t] \in {NULL, tempReq[t]}
  /\ tempReq[t] \in Gets => alive[t]
  /\ step[t] = "accepted" => tempReq[t] = NULL
  /\ step[t] \in {"accepted", "lookup", "hit", "register", "wait", "fetch", "add"} =>
       result[t] = NULL
  /\ step[t] \in {"lookup", "hit"} /\ buffer[t] = NULL => BeenThere(tempReq[t])
  /\ step[t] = "complete" => result[t] # NULL
  /\ step[t] \in {"close", "closed"} /\ tempReq[t] \in Gets =>
       /\ result[t] = NULL /\ cached_data[t] = NULL => answer[t] = <<>>
       /\ answer[t] = <<>> =>
            \/ result[t] = 0
            \/ cached_data[t] = <<>>
            \/ result[t] = NULL /\ cached_data[t] = NULL /\ BeenThere(tempReq[t])

(* ... the entry it waits on or completes bears its key; ...                 *)
OwnEntry(t) ==
  /\ pentry[t] # NULL => pheap[pentry[t]].url = tempReq[t]
  /\ ppc[t] = "leaving" => pheap[pentry[t]].completed
  /\ step[t] = "complete" => pkey[t] = tempReq[t] \/ ppc[t] = "idle"

(* ... and an entry is completed by a thread that has been to the origin.    *)
CompletedVisited ==
  \A e \in Threads : pheap[e] # NULL /\ pheap[e].completed => BeenThere(pheap[e].url)

Story ==
  /\ \A t \in Threads : Accountable(t) /\ OwnEntry(t)
  /\ CompletedVisited

(* What a step of t leaves alone in another thread s.                        *)
Untouched(s) ==
  /\ step'[s] = step[s] /\ tempReq'[s] = tempReq[s] /\ buffer'[s] = buffer[s]
  /\ alive'[s] = alive[s] /\ answer'[s] = answer[s] /\ result'[s] = result[s]
  /\ cached_data'[s] = cached_data[s]

(* Nor does a step of t make its own visit undone.                           *)
Alone(t) ==
  /\ \A s \in Threads \ {t} : Untouched(s)
  /\ result[t] # NULL => result'[t] # NULL /\ tempReq'[t] = tempReq[t]

LEMMA Typed ==
  ASSUME IInv
  PROVE  ThreadTypes /\ cached_data \in [Threads -> Datas \cup {NULL}]
BY TypesAre DEF IInv, CacheTyped

LEMMA VisitsStay ==
  ASSUME NEW t \in Threads, Alone(t), NEW u, BeenThere(u)
  PROVE  \E s \in Threads : tempReq'[s] = u /\ result'[s] # NULL
<1>1. PICK s \in Threads : tempReq[s] = u /\ result[s] # NULL
  BY DEF BeenThere
<1>2. tempReq'[s] = tempReq[s] /\ result'[s] # NULL
  BY <1>1 DEF Alone, Untouched
<1> QED BY <1>1, <1>2

(* The request is received, ...                                              *)
LEMMA ReceiveAccounts ==
  ASSUME NEW t \in Threads, IInv, Accountable(t), Receive(t) \/ ReceiveNoMemory(t)
  PROVE  Accountable(t)' /\ Alone(t)
<1>1. /\ step[t] = "accepted" /\ tempReq[t] = NULL /\ result[t] = NULL /\ answer[t] = <<>>
      /\ buffer[t] = NULL
  BY Known DEF Receive, ReceiveNoMemory, Accountable, Unanswered
<1>2. CASE Receive(t)
  <2> PICK u \in Urls, ok \in BOOLEAN :
        /\ ok \/ u \in Unparsable
        /\ tempReq' = [tempReq EXCEPT ![t] = u]
        /\ buffer' = [buffer EXCEPT ![t] = u]
        /\ alive' = [alive EXCEPT ![t] = ok]
    BY <1>2 DEF Receive
  <2>1. step' = [step EXCEPT ![t] = "lookup"] /\ UNCHANGED <<result, answer, cached_data>>
    BY <1>2 DEF Receive, Goto, cvars
  <2>2. /\ step'[t] = "lookup" /\ tempReq'[t] = u /\ buffer'[t] = u /\ result'[t] = NULL
        /\ alive'[t] = ok
    BY <2>1, <1>1, Typed DEF ThreadTypes
  <2>3. Alone(t)
    BY <2>1, <1>1, Typed DEF ThreadTypes, Alone, Untouched
  <2>4. u \in Gets => ok
    BY ProxyAssumption
  <2>5. u # NULL
    BY NullApart
  <2> QED BY <2>2, <2>3, <2>4, <2>5 DEF Accountable
<1>3. CASE ReceiveNoMemory(t)
  <2>1. /\ step' = [step EXCEPT ![t] = "close"]
        /\ UNCHANGED <<tempReq, buffer, alive, result, answer, cached_data>>
    BY <1>3 DEF ReceiveNoMemory, Goto, tvars, cvars
  <2>2. step'[t] = "close"
    BY <2>1, Typed DEF ThreadTypes
  <2>3. NULL \notin Gets
    BY NullApart DEF Urls
  <2>4. Alone(t)
    BY <2>1, Typed DEF ThreadTypes, Alone, Untouched
  <2> QED BY <1>1, <2>1, <2>2, <2>3, <2>4 DEF Accountable
<1> QED BY <1>2, <1>3

(* ... the cache is looked up: what was found is sent, ...                   *)
LEMMA HitAccounts ==
  ASSUME NEW t \in Threads, IInv, Accountable(t), LookupHit(t) \/ ServeCached(t)
  PROVE  Accountable(t)' /\ Alone(t)
<1>1. CASE LookupHit(t)
  <2>1. /\ step[t] = "lookup" /\ step' = [step EXCEPT ![t] = "hit"]
        /\ UNCHANGED <<tempReq, buffer, alive, result, answer, cached_data>>
    BY <1>1 DEF LookupHit, Goto, tvars, C!Hit
  <2>2. step'[t] = "hit" /\ Alone(t)
    BY <2>1, Typed DEF ThreadTypes, Alone, Untouched
  <2>3. BeenThere(tempReq[t]) => BeenThere(tempReq[t])'
    BY <2>1 DEF BeenThere
  <2> QED BY <2>1, <2>2, <2>3 DEF Accountable
<1>2. CASE ServeCached(t)
  <2>1. /\ step[t] = "hit" /\ step' = [step EXCEPT ![t] = "close"]
        /\ C!Return(t) /\ cached_data'[t] # NULL
        /\ answer' = [answer EXCEPT ![t] = cached_data'[t]]
        /\ UNCHANGED <<tempReq, buffer, alive, result>>
    BY <1>2 DEF ServeCached, Goto
  <2>2. PICK d \in {found[t].data, NULL} : cached_data' = [cached_data EXCEPT ![t] = d]
    BY <2>1 DEF C!Return
  <2>3. step'[t] = "close" /\ answer'[t] = cached_data'[t]
    BY <2>1, Typed DEF ThreadTypes
  <2>4. Alone(t)
    BY <2>1, <2>2, Typed DEF ThreadTypes, Alone, Untouched
  <2> QED BY <2>1, <2>3, <2>4 DEF Accountable
<1> QED BY <1>1, <1>2

(* ... or nothing was found, and a thread that cannot fetch any more has     *)
(* waited for another, ...                                                   *)
LEMMA MissAccounts ==
  ASSUME NEW t \in Threads, IInv, Accountable(t),
         GiveUp(t) \/ RejectVersion(t) \/ Parse(t)
  PROVE  Accountable(t)' /\ Alone(t)
<1>1. /\ NotCached(t) /\ UNCHANGED <<tempReq, alive, result>>
      /\ buffer' \in {buffer, [buffer EXCEPT ![t] = NULL]}
  BY DEF GiveUp, RejectVersion, Parse, Parsed, tvars
<1>2. /\ step[t] \in {"lookup", "hit"} /\ answer[t] = <<>>
      /\ cached_data'[t] = NULL
      /\ \A s \in Threads \ {t} : cached_data'[s] = cached_data[s]
  BY <1>1, NotCachedBrings
<1>3. result[t] = NULL /\ buffer'[t] \in {NULL, tempReq[t]}
  BY <1>1, <1>2, Typed DEF Accountable, ThreadTypes
<1>4. CASE GiveUp(t)
  <2>1. step' = [step EXCEPT ![t] = "close"] /\ answer' = answer
    BY <1>4 DEF GiveUp, Goto, tvars
  <2>2. step'[t] = "close" /\ Alone(t)
    BY <1>1, <1>2, <2>1, Typed DEF ThreadTypes, Alone, Untouched
  <2>3. tempReq[t] \in Gets => BeenThere(tempReq[t])
    <3>1. ~alive[t] \/ buffer[t] \in Unparsable \cup {NULL}
      BY <1>4 DEF GiveUp
    <3>2. tempReq[t] \in Gets => tempReq[t] \notin Unparsable
      BY ProxyAssumption
    <3> QED BY <1>2, <3>1, <3>2 DEF Accountable
  <2>4. BeenThere(tempReq[t]) => BeenThere(tempReq[t])'
    BY <1>1 DEF BeenThere
  <2> QED BY <1>1, <1>2, <1>3, <2>1, <2>2, <2>3, <2>4 DEF Accountable
<1>5. CASE RejectVersion(t)
  <2>1. /\ step' = [step EXCEPT ![t] = "close"] /\ answer' = [answer EXCEPT ![t] = Error500]
        /\ buffer[t] \in BadVersion
    BY <1>5 DEF RejectVersion, Parsed, Goto
  <2>2. step'[t] = "close" /\ Alone(t)
    BY <1>1, <1>2, <2>1, Typed DEF ThreadTypes, Alone, Untouched
  <2>3. tempReq[t] \notin Gets
    BY <2>1, NullApart, ProxyAssumption DEF Accountable, Urls
  <2> QED BY <1>1, <1>3, <2>2, <2>3 DEF Accountable
<1>6. CASE Parse(t)
  <2>1. step' = [step EXCEPT ![t] = "register"] /\ answer' = answer
    BY <1>6 DEF Parse, Goto, Coalesced
  <2>2. step'[t] = "register" /\ Alone(t)
    BY <1>1, <1>2, <2>1, Typed DEF ThreadTypes, Alone, Untouched
  <2> QED BY <1>1, <1>3, <2>2 DEF Accountable
<1> QED BY <1>4, <1>5, <1>6

(* ... the pending table is asked, and waited for: a waiter that goes on has *)
(* seen its entry completed, ...                                             *)
LEMMA PendingAccounts ==
  ASSUME NEW t \in Threads, IInv, Story,
         Register(t) \/ Join(t) \/ Wait(t) \/ Resume(t) \/ Completing(t)
  PROVE  Accountable(t)' /\ Alone(t)
<1>1. UNCHANGED <<tempReq, buffer, alive, result, answer, cached_data>>
  BY DEF Register, Join, Wait, Resume, Completing, tvars, cvars
<1>2. \/ step' = step
      \/ step[t] = "register" /\ \E p \in {"fetch", "wait"} : step' = [step EXCEPT ![t] = p]
      \/ Resume(t) /\ step[t] = "wait" /\ step' = [step EXCEPT ![t] = "lookup"]
  BY DEF Register, Join, Wait, Resume, Completing, Goto
<1>3. \/ step'[t] = step[t]
      \/ step[t] = "register" /\ step'[t] \in {"fetch", "wait"}
      \/ Resume(t) /\ step[t] = "wait" /\ step'[t] = "lookup"
  BY <1>2, Typed DEF ThreadTypes
<1>4. Alone(t)
  BY <1>1, <1>2, Typed DEF ThreadTypes, Alone, Untouched
<1>5. ASSUME Resume(t)
      PROVE  BeenThere(tempReq[t])
  <2>1. ppc[t] = "leaving"
    BY <1>5 DEF Resume, P!Leave
  <2>2. pentry[t] \in Threads /\ pheap[pentry[t]] # NULL
    BY <2>1 DEF IInv, P!IInv, P!TypeOK, P!PointersOK
  <2>3. OwnEntry(t) /\ CompletedVisited
    BY DEF Story
  <2>4. pentry[t] # NULL
    BY <2>2, NullApart
  <2> QED BY <2>1, <2>2, <2>3, <2>4 DEF OwnEntry, CompletedVisited
<1>6. BeenThere(tempReq[t]) => BeenThere(tempReq[t])'
  BY <1>1 DEF BeenThere
<1>7. Accountable(t)
  BY DEF Story
<1> QED BY <1>1, <1>3, <1>4, <1>5, <1>6, <1>7 DEF Accountable

(* ... the origin is asked, ...                                              *)
LEMMA FetchAccounts ==
  ASSUME NEW t \in Threads, IInv, Accountable(t),
         FetchFails(t) \/ FetchUncached(t) \/ Fetch(t) \/ Evict(t) \/ Added(t)
  PROVE  Accountable(t)' /\ Alone(t)
<1>1. UNCHANGED <<tempReq, buffer, alive, cached_data>>
  BY DEF FetchFails, FetchUncached, Fetch, Evict, Added, tvars, cvars, C!BeginAdd, C!Evict,
     C!Insert, C!Refuse
<1>2. NULL # -1 /\ NULL # 0
  BY ProxyAssumption
<1>3. CASE Evict(t)
  <2>1. step[t] = "add" /\ UNCHANGED <<step, result, answer>>
    BY <1>3 DEF Evict, tvars
  <2>2. Alone(t)
    BY <1>1, <2>1 DEF Alone, Untouched
  <2> QED BY <1>1, <2>1, <2>2 DEF Accountable
<1>4. CASE ~Evict(t)
  <2>1. \/ step' = [step EXCEPT ![t] = "add"] /\ result' = result
        \/ step' = [step EXCEPT ![t] = "complete"] /\ result' = [result EXCEPT ![t] = 0]
        \/ step' = [step EXCEPT ![t] = "complete"] /\ result' = [result EXCEPT ![t] = -1]
    BY <1>4 DEF FetchFails, FetchUncached, Fetch, Added, Goto, AfterFailure
  <2>2. \/ answer' = answer
        \/ \E a \in Datas : answer' = [answer EXCEPT ![t] = a]
    BY <1>4 DEF FetchFails, FetchUncached, Fetch, Added, Exchanged
  <2>3. step[t] \in {"fetch", "add"} /\ result[t] = NULL
    BY <1>4 DEF FetchFails, FetchUncached, Fetch, Added, Accountable
  <2>4. \/ step'[t] = "add" /\ result'[t] = NULL
        \/ step'[t] = "complete" /\ result'[t] # NULL
    BY <1>2, <2>1, <2>3, Typed DEF ThreadTypes
  <2>5. Alone(t)
    BY <1>1, <2>1, <2>2, <2>3, Typed DEF ThreadTypes, Alone, Untouched
  <2> QED BY <1>1, <2>4, <2>5 DEF Accountable
<1> QED BY <1>3, <1>4

(* ... and the connection is closed.                                         *)
LEMMA CloseAccounts ==
  ASSUME NEW t \in Threads, IInv, Accountable(t), Completed(t) \/ Close(t)
  PROVE  Accountable(t)' /\ Alone(t)
<1>1. CASE Completed(t)
  <2>1. /\ step[t] = "complete" /\ step' = [step EXCEPT ![t] = "close"]
        /\ answer' = [answer EXCEPT ![t] = IF result[t] = -1 THEN Error500 ELSE answer[t]]
        /\ UNCHANGED <<tempReq, buffer, alive, result, cached_data>>
    BY <1>1 DEF Completed, Goto, AnswerAfter, cvars
  <2>2. step'[t] = "close" /\ Alone(t)
    BY <2>1, Typed DEF ThreadTypes, Alone, Untouched
  <2>3. result[t] \in {0, -1} /\ result[t] # NULL
    BY <2>1, Typed DEF ThreadTypes, Accountable
  <2>4. answer'[t] = <<>> => result[t] = 0
    <3>1. Error500 # <<>>
      BY DEF Error500
    <3> QED BY <2>1, <2>3, <3>1, Typed DEF ThreadTypes
  <2> QED BY <2>1, <2>2, <2>3, <2>4 DEF Accountable
<1>2. CASE Close(t)
  <2>1. /\ step[t] = "close" /\ step' = [step EXCEPT ![t] = "closed"]
        /\ UNCHANGED <<tempReq, buffer, alive, answer, result, cached_data>>
    BY <1>2 DEF Close, Goto, tvars, cvars
  <2>2. step'[t] = "closed" /\ Alone(t)
    BY <2>1, Typed DEF ThreadTypes, Alone, Untouched
  <2>3. BeenThere(tempReq[t]) => BeenThere(tempReq[t])'
    BY <2>1 DEF BeenThere
  <2> QED BY <2>1, <2>2, <2>3 DEF Accountable
<1> QED BY <1>1, <1>2

(* The entries: an allocated one keeps its key, and is completed by the      *)
(* thread that broadcasts; a new one is not completed.                       *)
Calls(t) ==
  \/ P!RegisterAt(t, tempReq[t], t) \/ P!Join(t, tempReq[t])
  \/ P!WaitTest(t) \/ P!SpuriousWakeup(t) \/ P!Leave(t)
  \/ P!CompleteUnlink(t) \/ P!CompleteNoMatch(t) \/ P!CompleteBroadcast(t)
  \/ P!CompleteRelease(t)

KeepsEntry(t, e) ==
  /\ pheap[e] = NULL => ~pheap'[e].completed
  /\ pheap[e] # NULL =>
       /\ pheap'[e].url = pheap[e].url
       /\ \/ pheap'[e].completed = pheap[e].completed
          \/ pheap'[e].completed /\ P!CompleteBroadcast(t) /\ e = pentry[t]

LEMMA EntriesKept ==
  ASSUME P!IInv, NEW t \in Threads, tempReq[t] \in Urls, Calls(t),
         NEW e \in Threads, pheap'[e] # NULL
  PROVE  KeepsEntry(t, e)
<1>1. /\ pheap \in [Threads -> P!PendingEntry \cup {NULL}]
      /\ pentry \in [Threads -> Threads \cup {NULL}]
      /\ \A b \in Buckets : pending_table[b] \in Seq(Threads)
      /\ Stored[tempReq[t]] \in Urls
  BY CoalescingAssumption DEF P!IInv, P!TypeOK
<1>2. pheap[e] # NULL =>
        /\ pheap[e] \in [url : Urls, ref_count : Nat, completed : BOOLEAN]
        /\ pheap[e].completed \in BOOLEAN
  BY <1>1 DEF P!PendingEntry
<1>3. CASE P!RegisterAt(t, tempReq[t], t)
  <2>1. /\ pheap[t] = NULL
        /\ pheap' = [pheap EXCEPT ![t] = [url |-> Stored[tempReq[t]], ref_count |-> 1,
                                          completed |-> FALSE]]
    BY <1>3 DEF P!RegisterAt, P!AddPending
  <2>2. CASE e = t
    <3>1. ~pheap'[e].completed
      BY <1>1, <2>1, <2>2
    <3> QED BY <2>1, <2>2, <3>1 DEF KeepsEntry
  <2>3. CASE e # t
    <3>1. pheap'[e] = pheap[e]
      BY <1>1, <2>1, <2>3
    <3> QED BY <3>1 DEF KeepsEntry
  <2> QED BY <2>2, <2>3
<1>4. CASE P!Join(t, tempReq[t])
  <2>1. PICK i \in DOMAIN P!Chain(tempReq[t]) :
          pheap' = [pheap EXCEPT ![P!Chain(tempReq[t])[i]].ref_count = @ + 1]
    BY <1>4 DEF P!Join
  <2> DEFINE x == P!Chain(tempReq[t])[i]
  <2>2. pheap[x] # NULL
    <3>1. PendingHash[tempReq[t]] \in Buckets
      BY CoalescingAssumption
    <3>2. x \in P!ToSet(pending_table[PendingHash[tempReq[t]]])
      BY <2>1 DEF P!Chain, P!ToSet
    <3> QED BY <3>1, <3>2 DEF P!IInv, P!ChainsOK
  <2>3. pheap' = [pheap EXCEPT ![x].ref_count = @ + 1]
    BY <2>1
  <2> HIDE DEF x
  <2>4. \/ pheap'[e] = pheap[e]
        \/ e = x /\ pheap'[e] = [pheap[e] EXCEPT !.ref_count = pheap[e].ref_count + 1]
    BY <1>1, <2>3
  <2> QED BY <1>2, <2>2, <2>4 DEF KeepsEntry
<1>5. CASE P!WaitTest(t) \/ P!SpuriousWakeup(t) \/ P!CompleteUnlink(t) \/ P!CompleteNoMatch(t)
  <2>1. pheap' = pheap
    BY <1>5 DEF P!WaitTest, P!SpuriousWakeup, P!CompleteUnlink, P!CompleteNoMatch
  <2> QED BY <2>1 DEF KeepsEntry
<1>6. CASE P!Leave(t) \/ P!CompleteRelease(t)
  <2>1. P!DropRef(pentry[t])
    BY <1>6 DEF P!Leave, P!CompleteRelease
  <2>2. pentry[t] \in Threads /\ pheap[pentry[t]] # NULL
    BY <1>6, <1>1 DEF P!Leave, P!CompleteRelease, P!IInv, P!TypeOK, P!PointersOK
  <2>3. \/ pheap'[e] = pheap[e]
        \/ /\ e = pentry[t]
           /\ pheap'[e] \in {NULL, [pheap[e] EXCEPT !.ref_count = pheap[e].ref_count - 1]}
    BY <1>1, <2>1, <2>2 DEF P!DropRef
  <2> QED BY <1>2, <2>2, <2>3 DEF KeepsEntry
<1>7. CASE P!CompleteBroadcast(t)
  <2>1. pheap' = [pheap EXCEPT ![pentry[t]].completed = TRUE]
    BY <1>7 DEF P!CompleteBroadcast
  <2>2. pentry[t] \in Threads /\ pheap[pentry[t]] # NULL
    BY <1>7, <1>1 DEF P!CompleteBroadcast, P!IInv, P!TypeOK, P!PointersOK
  <2>3. \/ pheap'[e] = pheap[e]
        \/ e = pentry[t] /\ pheap'[e] = [pheap[e] EXCEPT !.completed = TRUE]
    BY <1>1, <2>1
  <2> QED BY <1>2, <1>7, <2>2, <2>3 DEF KeepsEntry
<1> QED BY <1>3, <1>4, <1>5, <1>6, <1>7 DEF Calls

(* Which thread's pointer a call changes, and to what.                       *)
LEMMA PointersMove ==
  ASSUME IInv, NEW t \in Threads, tempReq[t] \in Urls, OwnEntry(t), Calls(t),
         step[t] \in {"register", "wait", "complete"}
  PROVE  /\ \A s \in Threads \ {t} : pentry'[s] = pentry[s]
         /\ pentry'[t] # NULL =>
              pheap[pentry'[t]] # NULL /\ pheap[pentry'[t]].url = tempReq[t]
         /\ ppc'[t] = "leaving" => pheap'[pentry'[t]].completed
         /\ pkey'[t] = pkey[t] \/ ppc'[t] = "idle" \/ step[t] = "register"
<1>1. /\ pheap \in [Threads -> P!PendingEntry \cup {NULL}]
      /\ pentry \in [Threads -> Threads \cup {NULL}]
      /\ ppc \in [Threads -> {"idle", "fetching", "waiting", "blocked", "leaving",
                              "unlinked", "signalled"}]
      /\ pkey \in [Threads -> Urls \cup {NULL}]
      /\ (ppc[t] \in {"idle", "fetching"}) <=> (pentry[t] = NULL)
  BY DEF IInv, P!IInv, P!TypeOK
<1>2. pentry[t] # NULL => pheap[pentry[t]] # NULL /\ pheap[pentry[t]].url = tempReq[t]
  BY DEF IInv, P!IInv, P!PointersOK, OwnEntry
<1>3. CASE P!RegisterAt(t, tempReq[t], t)
  <2>1. pentry' = pentry /\ ppc[t] = "idle" /\ ppc' = [ppc EXCEPT ![t] = "fetching"]
    BY <1>3 DEF P!RegisterAt
  <2>2. step[t] = "register"
    BY <2>1, Known DEF InCoalescing, IInv, Whereabouts, TypeOK, P!RegisterAt
  <2>3. pentry'[t] = NULL /\ ppc'[t] = "fetching"
    BY <1>1, <2>1
  <2> QED BY <2>1, <2>2, <2>3
<1>4. CASE P!Join(t, tempReq[t])
  <2>1. PICK i \in DOMAIN P!Chain(tempReq[t]) :
          /\ P!FirstMatch(tempReq[t], i)
          /\ pentry' = [pentry EXCEPT ![t] = P!Chain(tempReq[t])[i]]
    BY <1>4 DEF P!Join
  <2> DEFINE x == P!Chain(tempReq[t])[i]
  <2>2. pheap[x] # NULL /\ pheap[x].url = tempReq[t]
    BY <2>1, CoalescingAssumption DEF P!Chain, IInv, P!IInv, P!ChainsOK, P!ToSet,
       P!FirstMatch, P!Matches
  <2>3. pentry' = [pentry EXCEPT ![t] = x]
    BY <2>1
  <2> HIDE DEF x
  <2>4. pentry'[t] = x /\ \A s \in Threads \ {t} : pentry'[s] = pentry[s]
    BY <1>1, <2>3
  <2>5. ppc[t] = "idle" /\ ppc'[t] = "waiting"
    BY <1>1, <1>4 DEF P!Join
  <2>6. step[t] = "register"
    BY <2>5, Known DEF InCoalescing
  <2> QED BY <2>2, <2>4, <2>5, <2>6
<1>5. CASE P!WaitTest(t) \/ P!SpuriousWakeup(t) \/ P!CompleteBroadcast(t)
  <2>1. pentry' = pentry /\ pkey' = pkey
    BY <1>5 DEF P!WaitTest, P!SpuriousWakeup, P!CompleteBroadcast
  <2>2. ppc'[t] = "leaving" => pheap'[pentry'[t]].completed
    BY <1>1, <1>5 DEF P!WaitTest, P!SpuriousWakeup, P!CompleteBroadcast
  <2> QED BY <1>2, <2>1, <2>2
<1>6. CASE P!CompleteUnlink(t)
  <2>1. PICK i \in DOMAIN P!Chain(pkey[t]) :
          /\ P!FirstMatch(pkey[t], i)
          /\ pentry' = [pentry EXCEPT ![t] = P!Chain(pkey[t])[i]]
    BY <1>6 DEF P!CompleteUnlink
  <2>2. ppc[t] = "fetching" /\ pkey' = pkey /\ ppc' = [ppc EXCEPT ![t] = "unlinked"]
    BY <1>6 DEF P!CompleteUnlink
  <2>3. step[t] = "complete"
    BY <2>2, Known DEF InCoalescing
  <2>4. pkey[t] = tempReq[t]
    BY <2>2, <2>3 DEF OwnEntry
  <2> DEFINE x == P!Chain(pkey[t])[i]
  <2>5. pheap[x] # NULL /\ pheap[x].url = tempReq[t]
    BY <2>1, <2>4, CoalescingAssumption DEF P!Chain, IInv, P!IInv, P!ChainsOK, P!ToSet,
       P!FirstMatch, P!Matches
  <2>6. pentry' = [pentry EXCEPT ![t] = x]
    BY <2>1
  <2> HIDE DEF x
  <2>7. pentry'[t] = x /\ \A s \in Threads \ {t} : pentry'[s] = pentry[s]
    BY <1>1, <2>6
  <2>8. ppc'[t] = "unlinked"
    BY <1>1, <2>2
  <2> QED BY <2>2, <2>5, <2>7, <2>8
<1>7. CASE P!Leave(t) \/ P!CompleteNoMatch(t) \/ P!CompleteRelease(t)
  <2>1. P!Return(t)
    BY <1>7 DEF P!Leave, P!CompleteNoMatch, P!CompleteRelease
  <2> QED BY <1>1, <2>1 DEF P!Return
<1> QED BY <1>3, <1>4, <1>5, <1>6, <1>7 DEF Calls

LEMMA CallsTell ==
  ASSUME IInv, IInv', Story, NEW t \in Threads, Calls(t), Alone(t), tempReq' = tempReq,
         step[t] \in {"register", "wait", "complete"},
         step'[t] = "complete" => step[t] = "complete",
         \A s \in Threads \ {t} : Stays(s)
  PROVE  (\A s \in Threads : OwnEntry(s)') /\ CompletedVisited'
<1>1. tempReq[t] \in Urls /\ OwnEntry(t)
  BY Known DEF HasKey, Story
<1>2. \A e \in Threads : pheap'[e] # NULL => KeepsEntry(t, e)
  BY <1>1, EntriesKept DEF IInv
<1>3. \A s \in Threads : pentry'[s] # NULL => pentry'[s] \in Threads /\ pheap'[pentry'[s]] # NULL
  BY DEF IInv, P!IInv, P!TypeOK, P!PointersOK
<1>4. \A s \in Threads : pentry[s] # NULL => pentry[s] \in Threads /\ pheap[pentry[s]] # NULL
  BY DEF IInv, P!IInv, P!TypeOK, P!PointersOK
<1>5. OwnEntry(t)'
  <2>1. /\ pentry'[t] # NULL => pheap[pentry'[t]] # NULL /\ pheap[pentry'[t]].url = tempReq[t]
        /\ ppc'[t] = "leaving" => pheap'[pentry'[t]].completed
        /\ pkey'[t] = pkey[t] \/ ppc'[t] = "idle" \/ step[t] = "register"
    BY <1>1, PointersMove
  <2>2. pentry'[t] # NULL => pheap'[pentry'[t]].url = tempReq[t]
    BY <1>2, <1>3, <2>1 DEF KeepsEntry
  <2>3. step'[t] = "complete" => pkey'[t] = tempReq[t] \/ ppc'[t] = "idle"
    <3>1. step[t] = "complete" => ppc[t] # "idle"
      BY Known DEF InCoalescing
    <3> QED BY <1>1, <2>1, <3>1 DEF OwnEntry
  <2> QED BY <2>1, <2>2, <2>3 DEF OwnEntry
<1>6. ASSUME NEW s \in Threads \ {t}
      PROVE  OwnEntry(s)'
  <2>1. pentry'[s] = pentry[s] /\ OwnEntry(s) /\ step'[s] = step[s] /\ Stays(s)
    BY <1>1, PointersMove DEF Story, Alone, Untouched
  <2>2. pentry[s] # NULL => KeepsEntry(t, pentry[s]) /\ pheap[pentry[s]] # NULL
    BY <1>2, <1>3, <1>4, <2>1
  <2>3. pentry'[s] # NULL => pheap'[pentry'[s]].url = tempReq'[s]
    BY <2>1, <2>2 DEF KeepsEntry, OwnEntry
  <2>4. ppc'[s] = "leaving" => pheap'[pentry'[s]].completed
    <3> SUFFICES ASSUME ppc'[s] = "leaving"
                 PROVE  pheap'[pentry'[s]].completed
      OBVIOUS
    <3>1. ppc[s] = "leaving"
      BY <2>1 DEF Stays
    <3>2. pentry[s] # NULL
      BY <3>1 DEF IInv, P!IInv, P!TypeOK
    <3> QED BY <2>1, <2>2, <3>1, <3>2 DEF OwnEntry, KeepsEntry
  <2>5. step'[s] = "complete" => pkey'[s] = tempReq'[s] \/ ppc'[s] = "idle"
    <3>1. step[s] = "complete" => ppc[s] # "idle"
      BY Known DEF InCoalescing
    <3> QED BY <2>1, <3>1 DEF OwnEntry, Stays
  <2> QED BY <2>3, <2>4, <2>5 DEF OwnEntry
<1>7. ASSUME NEW e \in Threads, pheap'[e] # NULL, pheap'[e].completed
      PROVE  \E s \in Threads : tempReq'[s] = pheap'[e].url /\ result'[s] # NULL
  <2>1. KeepsEntry(t, e)
    BY <1>2, <1>7
  <2>2. pheap[e] # NULL /\ pheap'[e].url = pheap[e].url
    BY <1>7, <2>1 DEF KeepsEntry
  <2>3. CASE pheap[e].completed
    <3>1. BeenThere(pheap[e].url)
      BY <2>2, <2>3 DEF Story, CompletedVisited
    <3> QED BY <2>2, <3>1, VisitsStay
  <2>4. CASE ~pheap[e].completed
    <3>1. P!CompleteBroadcast(t) /\ e = pentry[t]
      BY <1>7, <2>1, <2>2, <2>4 DEF KeepsEntry
    <3>2. ppc[t] = "unlinked" /\ step[t] = "complete"
      BY <3>1, Known DEF P!CompleteBroadcast, InCoalescing
    <3>3. pheap[e].url = tempReq[t] /\ result[t] # NULL
      BY <3>1, <3>2, <1>1, NullApart DEF OwnEntry, Story, Accountable
    <3>4. tempReq'[t] = pheap'[e].url /\ result'[t] # NULL
      BY <2>2, <3>3 DEF Alone
    <3> QED BY <3>4
  <2> QED BY <2>3, <2>4
<1> QED BY <1>5, <1>6, <1>7 DEF CompletedVisited, BeenThere

LEMMA QuietTells ==
  ASSUME IInv, Story, NEW t \in Threads, Alone(t), UNCHANGED pvars,
         tempReq'[t] = tempReq[t] \/ step[t] = "accepted",
         step'[t] = "complete" => step[t] \in {"fetch", "add"}
  PROVE  (\A s \in Threads : OwnEntry(s)') /\ CompletedVisited'
<1>1. /\ ppc' = ppc /\ pkey' = pkey /\ pentry' = pentry /\ pheap' = pheap
  BY DEF pvars
<1>2. OwnEntry(t) /\ (step[t] = "accepted" => pentry[t] = NULL)
  BY Known DEF Story, InCoalescing, IInv, P!IInv, P!TypeOK
<1>3. OwnEntry(t)'
  <2>1. step[t] \in {"fetch", "add"} => pkey[t] = tempReq[t]
    BY Known DEF InCoalescing
  <2> QED BY <1>1, <1>2, <2>1 DEF OwnEntry
<1>4. \A s \in Threads \ {t} : OwnEntry(s)'
  BY <1>1 DEF Story, Alone, Untouched, OwnEntry
<1>5. CompletedVisited'
  <2> SUFFICES ASSUME NEW e \in Threads, pheap[e] # NULL, pheap[e].completed
               PROVE  \E s \in Threads : tempReq'[s] = pheap'[e].url /\ result'[s] # NULL
    BY <1>1 DEF CompletedVisited, BeenThere
  <2>1. BeenThere(pheap[e].url)
    BY DEF Story, CompletedVisited
  <2> QED BY <1>1, <2>1, VisitsStay
<1> QED BY <1>3, <1>4, <1>5

LEMMA StepTells ==
  ASSUME IInv, IInv', Story, [Next]_vars
  PROVE  Story'
<1>1. CASE UNCHANGED vars
  BY <1>1 DEF vars, tvars, cvars, pvars, Story, Accountable, OwnEntry, CompletedVisited, BeenThere
<1>2. ASSUME NEW t \in Threads, Receive(t) \/ ReceiveNoMemory(t) \/ Wait(t) \/ Run(t)
      PROVE  Story'
  <2>1. Accountable(t)' /\ Alone(t)
    <3>1. Accountable(t)
      BY DEF Story
    <3> QED BY <1>2, <3>1, ReceiveAccounts, HitAccounts, MissAccounts, PendingAccounts,
           FetchAccounts, CloseAccounts DEF Run
  <2>2. ASSUME NEW s \in Threads \ {t}
        PROVE  Accountable(s)'
    <3>1. Accountable(s) /\ Untouched(s)
      BY <2>1 DEF Story, Alone
    <3>2. BeenThere(tempReq[s]) => BeenThere(tempReq[s])'
      <4> SUFFICES ASSUME BeenThere(tempReq[s])
                   PROVE  \E r \in Threads : tempReq'[r] = tempReq'[s] /\ result'[r] # NULL
        BY DEF BeenThere
      <4>1. \E r \in Threads : tempReq'[r] = tempReq[s] /\ result'[r] # NULL
        BY <2>1, VisitsStay
      <4> QED BY <3>1, <4>1 DEF Untouched
    <3> QED BY <3>1, <3>2 DEF Accountable, Untouched
  <2>3. CASE Register(t) \/ Join(t) \/ Wait(t) \/ Resume(t) \/ Completing(t) \/ Completed(t)
    <3>1. Calls(t) /\ tempReq' = tempReq /\ step[t] \in {"register", "wait", "complete"}
      BY <2>3 DEF Calls, Register, Join, Wait, Resume, Completing, Completed, tvars
    <3>2. step'[t] = "complete" => step[t] = "complete"
      BY <2>3, Typed DEF ThreadTypes, Register, Join, Wait, Resume, Completing, Completed, Goto
    <3>3. \A s \in Threads \ {t} : Stays(s)
      <4>1. tempReq[t] \in Urls
        BY <3>1, Known DEF HasKey
      <4> QED BY <3>1, <4>1, CallsMove DEF IInv, Calls, Moves
    <3>4. (\A s \in Threads : OwnEntry(s)') /\ CompletedVisited'
      BY <2>1, <3>1, <3>2, <3>3, CallsTell
    <3> QED BY <2>1, <2>2, <3>4 DEF Story
  <2>4. CASE \/ Receive(t) \/ ReceiveNoMemory(t) \/ LookupHit(t) \/ ServeCached(t)
             \/ GiveUp(t) \/ RejectVersion(t) \/ Parse(t)
             \/ FetchFails(t) \/ FetchUncached(t) \/ Fetch(t) \/ Evict(t) \/ Added(t) \/ Close(t)
    <3>1. UNCHANGED pvars /\ (tempReq' = tempReq \/ step[t] = "accepted")
      BY <2>4 DEF Receive, ReceiveNoMemory, LookupHit, ServeCached, GiveUp, RejectVersion, Parse,
         Parsed, FetchFails, FetchUncached, Fetch, Evict, Added, Close, tvars
    <3>2. step'[t] = "complete" => step[t] \in {"fetch", "add"}
      BY <2>4, Typed DEF ThreadTypes, Receive, ReceiveNoMemory, LookupHit, ServeCached, GiveUp,
         RejectVersion, Parse, Coalesced, FetchFails, FetchUncached, Fetch, Evict, Added, Close, Goto
    <3>3. (\A s \in Threads : OwnEntry(s)') /\ CompletedVisited'
      BY <2>1, <3>1, <3>2, QuietTells
    <3> QED BY <2>1, <2>2, <3>3 DEF Story
  <2> QED BY <1>2, <2>3, <2>4 DEF Run
<1> QED BY <1>1, <1>2 DEF Next

LEMMA StoryKept == Spec => []Story
<1>1. Init => Story
  <2> SUFFICES ASSUME Init PROVE Story
    OBVIOUS
  <2>1. NULL \notin Gets
    BY NullApart DEF Urls
  <2>2. /\ pentry = [t \in Threads |-> NULL] /\ pheap = [t \in Threads |-> NULL]
        /\ ppc = [t \in Threads |-> "idle"]
    BY DEF Init, P!Init
  <2>3. \A t \in Threads : Accountable(t)
    BY <2>1 DEF Init, Accountable
  <2>4. (\A t \in Threads : OwnEntry(t)) /\ CompletedVisited
    BY <2>2 DEF Init, OwnEntry, CompletedVisited
  <2> QED BY <2>3, <2>4 DEF Story
<1>2. IInv /\ IInv' /\ Story /\ [Next]_vars => Story'
  BY StepTells
<1> QED BY <1>1, <1>2, Inductive, PTL DEF Spec

(* UnansweredExplained: the three ways in which a good request comes to be   *)
(* closed without a byte, and no other.                                      *)
THEOREM NoOtherSilence == Spec => []UnansweredExplained
<1>1. Story => UnansweredExplained
  <2> SUFFICES ASSUME Story, NEW t \in Threads,
                      step[t] = "closed", tempReq[t] \in Gets, answer[t] = <<>>
               PROVE  \/ result[t] = 0
                      \/ cached_data[t] = <<>>
                      \/ result[t] = NULL /\ cached_data[t] = NULL /\ FetchedByOther(t)
    BY DEF UnansweredExplained
  <2>1. \/ result[t] = 0
        \/ cached_data[t] = <<>>
        \/ result[t] = NULL /\ cached_data[t] = NULL /\ BeenThere(tempReq[t])
    BY DEF Story, Accountable
  <2>2. result[t] = NULL /\ BeenThere(tempReq[t]) => FetchedByOther(t)
    BY DEF BeenThere, FetchedByOther
  <2> QED BY <2>1, <2>2
<1> QED BY <1>1, StoryKept, PTL

(* What is so of a cache whose lookups never find anything, ...              *)
NothingCached == cached_data = [t \in Threads |-> NULL] /\ \A t \in Threads : found[t] = NULL

(* ... and of the clients in front of it.                                    *)
OnlyFetchersAnswered ==
  \A t \in Threads :
    step[t] = "closed" /\ tempReq[t] \in Gets /\ result[t] = NULL => answer[t] = <<>>

(* With the insertion into the hash table missing, as committed, a client    *)
(* whose thread did not go to the origin itself is sent nothing: one that    *)
(* waited for another's fetch has its connection closed without a byte.      *)
THEOREM WaitersUnanswered == ~HashInsert => (Spec => []OnlyFetchersAnswered)
<1> SUFFICES ASSUME ~HashInsert
             PROVE  Spec => []OnlyFetchersAnswered
  OBVIOUS
<1>1. Init => NothingCached
  BY DEF Init, C!Init, NothingCached
<1>2. NothingCached /\ [Next]_vars => NothingCached'
  <2> SUFFICES ASSUME NothingCached, [Next]_vars
               PROVE  NothingCached'
    OBVIOUS
  <2>1. CASE UNCHANGED vars
    BY <2>1 DEF vars, cvars, NothingCached
  <2>2. ASSUME NEW t \in Threads, Receive(t) \/ ReceiveNoMemory(t) \/ Wait(t) \/ Run(t)
        PROVE  UNCHANGED <<found, cached_data>>
    <3>1. ~C!Return(t)
      BY DEF NothingCached, C!Return
    <3>2. NotCached(t) => UNCHANGED <<found, cached_data>>
      BY <3>1 DEF NotCached, CacheMiss, NothingCached
    <3> QED BY <2>2, <3>1, <3>2
         DEF Run, Receive, ReceiveNoMemory, Wait, LookupHit, ServeCached, GiveUp, RejectVersion,
             Parse, Parsed, Register, Join, Resume, FetchFails, FetchUncached, Fetch, Evict, Added,
             Completing, Completed, Close, cvars, C!BeginAdd, C!Evict, C!Insert, C!Refuse
  <2> QED BY <2>1, <2>2 DEF Next, NothingCached
<1>3. NothingCached /\ Story => OnlyFetchersAnswered
  BY DEF NothingCached, Story, Accountable, OnlyFetchersAnswered
<1> QED BY <1>1, <1>2, <1>3, StoryKept, PTL DEF Spec
=============================================================================

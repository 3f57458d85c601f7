-------------------------------- MODULE Proxy --------------------------------
(***************************************************************************)
(* The life of one client connection in proxy_server_with_cache.c:         *)
(* thread_fn, from the request it receives to the socket it closes, run by *)
(* one thread per client.  It composes                                     *)
(*   - Pending, the coalescing of concurrent requests, step by step, and   *)
(*   - LRUCache, the abstract response cache that module Cache implements. *)
(* handle_request is here what thread_fn sees of it: it returns -1 before  *)
(* it sends the client anything, or it passes on what it receives, nothing *)
(* included, offers that to the cache, and returns 0.                      *)
(***************************************************************************)
EXTENDS Integers, FiniteSets, SequencesExt

CONSTANTS
  Threads,           \* client connections, each with its thread
  Gets,              \* request texts thread_fn parses as a GET it serves
  BadVersion,        \* those it parses but whose version is not HTTP/1.0 or 1.1
  Unparsable,        \* those ParsedRequest_parse rejects
  Datas,             \* what may be received and sent: sequences of pieces, << >> too
  Size(_),           \* bytes an element with this data is accounted
  MAX_SIZE, MAX_ELEMENT_SIZE,
  HashInsert,        \* as in Cache: FALSE is the source as committed
  Buckets, Stored, PendingHash,  \* as in Pending
  NULL

Urls == Gets \cup BadVersion \cup Unparsable

ASSUME ProxyAssumption ==
  /\ HashInsert \in BOOLEAN
  /\ Gets \cap BadVersion = {} /\ (Gets \cup BadVersion) \cap Unparsable = {}
  /\ NULL \notin Threads \cup Urls \cup Datas \cup [url : Urls, data : Datas]
  /\ NULL \notin {0, -1}

\* As in Pending: a key is cut once, and its hash is the index of a bucket.
ASSUME CoalescingAssumption ==
  /\ IsFiniteSet(Threads)
  /\ NULL \notin [url : Urls, ref_count : Nat, completed : BOOLEAN]
  /\ Stored \in [Urls -> Urls]
  /\ \A u \in Urls : Stored[Stored[u]] = Stored[u]
  /\ PendingHash \in [Urls -> Buckets]

VARIABLES
  step,     \* where each thread is in thread_fn
  tempReq,  \* the request text it received, its key
  buffer,   \* the text still in its buffer, NULL once memset
  alive,    \* bytes_send_client > 0
  result,   \* what handle_request returned to it, NULL before
  answer,   \* what its client was sent, << >> when nothing
  fetched,  \* history: what fetches have collected under each key
  ppc, pkey, pentry, pending_table, pheap, pending_lock,  \* Pending
  cache, adding, found, cached_data                       \* LRUCache

(* A thread registers at most once, so the address of its entry may bear its *)
(* name.                                                                     *)
P == INSTANCE Pending WITH
       Entries <- Threads, pc <- ppc, url <- pkey, entry <- pentry, heap <- pheap

ElementSize(u, d) == Size(d)

C == INSTANCE LRUCache

pvars == <<ppc, pkey, pentry, pending_table, pheap, pending_lock>>
cvars == <<cache, adding, found, cached_data>>
tvars == <<tempReq, buffer, alive, result, answer, fetched>>
vars == <<step, tvars, pvars, cvars>>

Init ==
  /\ step = [t \in Threads |-> "accepted"]
  /\ tempReq = [t \in Threads |-> NULL]
  /\ buffer = [t \in Threads |-> NULL]
  /\ alive = [t \in Threads |-> FALSE]
  /\ result = [t \in Threads |-> NULL]
  /\ answer = [t \in Threads |-> <<>>]
  /\ fetched = [u \in Urls |-> {}]
  /\ P!Init
  /\ C!Init

Goto(t, s) == step' = [step EXCEPT ![t] = s]

-----------------------------------------------------------------------------
(* The receive loop: it ends with a whole request, or when recv returns 0 or *)
(* less, with whatever text, never a whole request, came before that.        *)
Receive(t) ==
  /\ step[t] = "accepted"
  /\ \E u \in Urls, ok \in BOOLEAN :
       /\ ok \/ u \in Unparsable
       /\ tempReq' = [tempReq EXCEPT ![t] = u]
       /\ buffer' = [buffer EXCEPT ![t] = u]
       /\ alive' = [alive EXCEPT ![t] = ok]
  /\ Goto(t, "lookup")
  /\ UNCHANGED <<result, answer, fetched, pvars, cvars>>

(* No memory for tempReq: the connection is closed.                          *)
ReceiveNoMemory(t) ==
  /\ step[t] = "accepted"
  /\ Goto(t, "close")
  /\ UNCHANGED <<tvars, pvars, cvars>>

-----------------------------------------------------------------------------
(* cache_lookup, entered again by a client whose wait is over.  With the     *)
(* insertion into the hash table missing, every chain is empty.              *)
CacheMiss(t) ==
  IF HashInsert THEN C!Miss(t, tempReq[t])
  ELSE /\ C!Idle(t) /\ C!NoAddition
       /\ cached_data' = [cached_data EXCEPT ![t] = NULL]
       /\ UNCHANGED <<cache, adding, found>>

LookupHit(t) ==
  /\ step[t] = "lookup"
  /\ HashInsert
  /\ C!Hit(t, tempReq[t])
  /\ Goto(t, "hit")
  /\ UNCHANGED <<tvars, pvars>>

(* What was found is copied and sent; an empty response sends nothing.       *)
ServeCached(t) ==
  /\ step[t] = "hit"
  /\ C!Return(t)
  /\ cached_data'[t] # NULL
  /\ answer' = [answer EXCEPT ![t] = cached_data'[t]]
  /\ Goto(t, "close")
  /\ UNCHANGED <<tempReq, buffer, alive, result, fetched, pvars>>

(* Nothing was found, or there was no memory for the copy.                   *)
NotCached(t) ==
  \/ step[t] = "lookup" /\ CacheMiss(t)
  \/ step[t] = "hit" /\ C!Return(t) /\ cached_data'[t] = NULL

(* Nothing cached, and nothing usable in the buffer: recv had failed, or     *)
(* ParsedRequest_parse rejects the text, the empty one included.             *)
GiveUp(t) ==
  /\ NotCached(t)
  /\ ~alive[t] \/ buffer[t] \in Unparsable \cup {NULL}
  /\ Goto(t, "close")
  /\ UNCHANGED <<tvars, pvars>>

Error500 == <<"500">>

(* A parsed request clears the buffer, whether it can be served or not.      *)
Parsed(t, kind) ==
  /\ NotCached(t)
  /\ alive[t] /\ buffer[t] \in kind
  /\ buffer' = [buffer EXCEPT ![t] = NULL]

RejectVersion(t) ==
  /\ Parsed(t, BadVersion)
  /\ answer' = [answer EXCEPT ![t] = Error500]
  /\ Goto(t, "close")
  /\ UNCHANGED <<tempReq, alive, result, fetched, pvars>>

(* Mutant: no coalescing, as in the comparison of scratch/b4_proof.py.       *)
Uncoalesced == "fetch"

Coalesced == "register"

Parse(t) ==
  /\ Parsed(t, Gets)
  /\ Goto(t, Coalesced)
  /\ UNCHANGED <<tempReq, alive, result, answer, fetched, pvars>>

-----------------------------------------------------------------------------
(* pending_wait_or_register, and pending_wait.                               *)
Register(t) ==
  /\ step[t] = "register"
  /\ P!RegisterAt(t, tempReq[t], t)
  /\ Goto(t, "fetch")
  /\ UNCHANGED <<tvars, cvars>>

Join(t) ==
  /\ step[t] = "register"
  /\ P!Join(t, tempReq[t])
  /\ Goto(t, "wait")
  /\ UNCHANGED <<tvars, cvars>>

Wait(t) ==
  /\ step[t] = "wait"
  /\ P!WaitTest(t) \/ P!SpuriousWakeup(t)
  /\ UNCHANGED <<step, tvars, cvars>>

(* goto cache_lookup, with the buffer still cleared.                         *)
Resume(t) ==
  /\ step[t] = "wait"
  /\ P!Leave(t)
  /\ Goto(t, "lookup")
  /\ UNCHANGED <<tvars, cvars>>

-----------------------------------------------------------------------------
(* Mutant: the error path returns without pending_complete.                  *)
Uncompleted == "close"

AfterFailure == "complete"

(* handle_request fails before it has sent the client anything: no memory,   *)
(* no connection to the origin, or the request could not be sent.            *)
FetchFails(t) ==
  /\ step[t] = "fetch"
  /\ result' = [result EXCEPT ![t] = -1]
  /\ Goto(t, AfterFailure)
  /\ UNCHANGED <<tempReq, buffer, alive, answer, fetched, pvars, cvars>>

(* The exchange: pieces arrive, each is sent to the client and then appended *)
(* to what is collected, until recv returns 0 or -1, which it may do at once *)
(* (a stale pooled connection, a second of silence).  The last piece sent,   *)
(* or a part of it, is not collected when a send or realloc fails.  Whose    *)
(* bytes the connection brings is OriginPool's question, not asked here.     *)
Exchange(collected, sent) ==
  IsPrefix(collected, sent) /\ Len(sent) <= Len(collected) + 1

Exchanged(t, collected, sent) ==
  /\ Exchange(collected, sent)
  /\ answer' = [answer EXCEPT ![t] = sent]
  /\ fetched' = [fetched EXCEPT ![tempReq[t]] = @ \cup {collected}]

(* What was collected, be it nothing, is offered to the cache, and the       *)
(* result is 0: too large, it is not taken, ...                              *)
FetchUncached(t) ==
  /\ step[t] = "fetch"
  /\ C!NoAddition
  /\ \E d, a \in Datas : Size(d) > MAX_ELEMENT_SIZE /\ Exchanged(t, d, a)
  /\ result' = [result EXCEPT ![t] = 0]
  /\ Goto(t, "complete")
  /\ UNCHANGED <<tempReq, buffer, alive, pvars, cvars>>

(* Mutant: the cache is given the key a pending entry holds.                 *)
PendingKey(t) == Stored[tempReq[t]]

CacheKey(t) == tempReq[t]

(* ... otherwise room is made for it ...                                     *)
Fetch(t) ==
  /\ step[t] = "fetch"
  /\ \E d, a \in Datas : C!BeginAdd(t, CacheKey(t), d) /\ Exchanged(t, d, a)
  /\ Goto(t, "add")
  /\ UNCHANGED <<tempReq, buffer, alive, result, pvars>>

Evict(t) ==
  /\ step[t] = "add"
  /\ C!Evict(t)
  /\ UNCHANGED <<step, tvars, pvars>>

(* ... and it is inserted, or memory for it is refused.                      *)
Added(t) ==
  /\ step[t] = "add"
  /\ C!Insert(t) \/ C!Refuse(t)
  /\ result' = [result EXCEPT ![t] = 0]
  /\ Goto(t, "complete")
  /\ UNCHANGED <<tempReq, buffer, alive, answer, fetched, pvars>>

-----------------------------------------------------------------------------
(* pending_complete, whatever handle_request returned.                       *)
Completing(t) ==
  /\ step[t] = "complete"
  /\ P!CompleteUnlink(t) \/ P!CompleteBroadcast(t)
  /\ UNCHANGED <<step, tvars, cvars>>

(* Mutant: the error test accepts no result at all.                          *)
AlwaysError(t) == Error500

(* Mutant: a failed fetch is not answered.                                   *)
NoError(t) == answer[t]

AnswerAfter(t) == IF result[t] = -1 THEN Error500 ELSE answer[t]

Completed(t) ==
  /\ step[t] = "complete"
  /\ P!CompleteRelease(t) \/ P!CompleteNoMatch(t)
  /\ answer' = [answer EXCEPT ![t] = AnswerAfter(t)]
  /\ Goto(t, "close")
  /\ UNCHANGED <<tempReq, buffer, alive, result, fetched, cvars>>

(* shutdown, close, sem_post.                                                *)
Close(t) ==
  /\ step[t] = "close"
  /\ Goto(t, "closed")
  /\ UNCHANGED <<tvars, pvars, cvars>>

Run(t) ==
  \/ LookupHit(t) \/ ServeCached(t) \/ GiveUp(t) \/ RejectVersion(t) \/ Parse(t)
  \/ Register(t) \/ Join(t) \/ Resume(t)
  \/ FetchFails(t) \/ FetchUncached(t) \/ Fetch(t) \/ Evict(t) \/ Added(t)
  \/ Completing(t) \/ Completed(t) \/ Close(t)

Next == \E t \in Threads : Receive(t) \/ ReceiveNoMemory(t) \/ Wait(t) \/ Run(t)

Spec == Init /\ [][Next]_vars

(* A thread whose request has been received goes on.  That handle_request    *)
(* returns assumes that a response ends (SO_RCVTIMEO bounds each silence of  *)
(* an origin, nothing bounds one that keeps sending) and that clients read:  *)
(* send has no time limit.  Locks are granted to a thread that keeps asking. *)
Fairness ==
  \A t \in Threads :
    /\ SF_vars(Run(t))
    /\ WF_vars(step[t] = "wait" /\ P!WaitTest(t) /\ UNCHANGED <<step, tvars, cvars>>)

FairSpec == Spec /\ Fairness

-----------------------------------------------------------------------------
Steps == {"accepted", "lookup", "hit", "register", "wait", "fetch",
          "add", "complete", "close", "closed"}

(* Type invariant, with the Pending state of a thread where thread_fn is.    *)
TypeOK ==
  /\ step \in [Threads -> Steps]
  /\ tempReq \in [Threads -> Urls \cup {NULL}]
  /\ buffer \in [Threads -> Urls \cup {NULL}]
  /\ alive \in [Threads -> BOOLEAN]
  /\ result \in [Threads -> {NULL, 0, -1}]
  /\ answer \in [Threads -> Datas \cup {<<>>, Error500}]
  /\ fetched \in [Urls -> SUBSET Datas]
  /\ P!TypeOK
  /\ \A t \in Threads : step[t] \notin {"wait", "fetch", "add", "complete"} => ppc[t] = "idle"

(* One flight per key, end to end: while a thread is anywhere in             *)
(* handle_request for a key, the addition to the cache included, no other    *)
(* thread is in handle_request for it.                                       *)
OneRequestAtOrigin ==
  \A s, t \in Threads :
    /\ step[s] \in {"fetch", "add"} /\ step[t] \in {"fetch", "add"}
    /\ tempReq[s] = tempReq[t] /\ P!Short(tempReq[s])
    => s = t

(* A client the cache serves is sent what the cache returned, and that was   *)
(* collected and stored under the client's own key, whatever the elements    *)
(* that came and went and the requests that waited before.                   *)
HitsBelong ==
  \A t \in Threads : cached_data[t] # NULL =>
    answer[t] = cached_data[t] /\ cached_data[t] \in fetched[tempReq[t]]

(* A client is answered once: no error message follows a response or a part  *)
(* of one, and no response follows an error message.                         *)
AnsweredOnce ==
  [][\A t \in Threads : answer[t] # <<>> => answer'[t] = answer[t]]_vars

(* A longer request leaves an entry that bears t's key and that only a       *)
(* thread with t's key would complete.                                       *)
Shadowed(t) ==
  \E s \in Threads : /\ tempReq[s] \in Urls /\ tempReq[s] # tempReq[t]
                     /\ Stored[tempReq[s]] = tempReq[t]

(* Every request that was received ends with its connection closed and its   *)
(* slot of the semaphore given back, unless its key is the first 511 bytes   *)
(* of another one.                                                           *)
EveryClientClosed ==
  \A t \in Threads : step[t] = "lookup" ~> step[t] = "closed" \/ Shadowed(t)

(* Another thread has been to the origin for the same key.                   *)
FetchedByOther(t) ==
  \E s \in Threads \ {t} : tempReq[s] = tempReq[t] /\ result[s] # NULL

(* Why a client with a good request is closed without a byte: handle_request *)
(* returned 0 and had sent nothing; or the cache held an empty response; or  *)
(* the thread waited for one that has been to the origin for its key, and    *)
(* found nothing cached afterwards.  A failure (-1) is never passed over.    *)
UnansweredExplained ==
  \A t \in Threads :
    step[t] = "closed" /\ tempReq[t] \in Gets /\ answer[t] = <<>> =>
      \/ result[t] = 0
      \/ cached_data[t] = <<>>
      \/ result[t] = NULL /\ cached_data[t] = NULL /\ FetchedByOther(t)

(* "Another thread is fetching this. Wait for it.": a client whose thread    *)
(* left the fetch to another one is answered when a response was fetched.    *)
WaitersServed ==
  \A t \in Threads :
    /\ step[t] = "closed" /\ tempReq[t] \in Gets /\ result[t] = NULL
    /\ fetched[tempReq[t]] \ {<<>>} # {}
    => answer[t] # <<>>
=============================================================================

------------------------------- MODULE Pending -------------------------------
(***************************************************************************)
(* Request coalescing ("stampede protection") of the caching proxy:        *)
(* pending_wait_or_register, pending_wait and pending_complete of          *)
(* proxy_server_with_cache.c, run by concurrent worker threads.            *)
(*                                                                         *)
(* pending_table is protected by pending_lock, and so is ref_count;        *)
(* completed is protected by the entry's own mutex.  A section under one   *)
(* lock that takes no other lock is one action.  pending_complete takes    *)
(* the entry's mutex while it holds pending_lock, so it is three actions   *)
(* during which other threads may still test or wait on the entry.         *)
(***************************************************************************)
EXTENDS Integers, FiniteSets, SequencesExt

CONSTANTS
  Threads,     \* worker threads, one per accepted client
  Urls,        \* cache keys: the request texts (tempReq)
  Buckets,     \* indexes of pending_table
  Entries,     \* heap addresses malloc can give to a pending_entry_t
  Stored,      \* Stored[u]: what strncpy leaves in the char[512] of an entry
  PendingHash, \* pending_hash
  NULL

\* A key of at most 511 bytes is stored as it is; the 511-byte prefix of a
\* longer one is itself a key that is stored as it is.
ASSUME PendingAssumption ==
  /\ IsFiniteSet(Threads)
  /\ NULL \notin Threads \cup Entries \cup Urls
  /\ NULL \notin [url : Urls, ref_count : Nat, completed : BOOLEAN]
  /\ Stored \in [Urls -> Urls]
  /\ \A u \in Urls : Stored[Stored[u]] = Stored[u]
  /\ PendingHash \in [Urls -> Buckets]

VARIABLES
  pc,            \* where each thread is in the coalescing code
  url,           \* the key of the call a thread is in
  entry,         \* its local pointer `entry', NULL when it has none
  pending_table, \* bucket -> chain of entries, the head first
  heap,          \* address -> pending_entry_t, NULL when not allocated
  pending_lock   \* the thread holding the mutex, or NULL

vars == <<pc, url, entry, pending_table, heap, pending_lock>>

PendingEntry == [url : Urls, ref_count : Nat, completed : BOOLEAN]

Init ==
  /\ pc = [t \in Threads |-> "idle"]
  /\ url = [t \in Threads |-> NULL]
  /\ entry = [t \in Threads |-> NULL]
  /\ pending_table = [b \in Buckets |-> <<>>]
  /\ heap = [e \in Entries |-> NULL]
  /\ pending_lock = NULL

-----------------------------------------------------------------------------
(* The chain walk shared by find_pending and pending_complete: the bucket    *)
(* is the hash of the caller's whole key, the comparison is with the stored  *)
(* one, and the walk stops at the first match.                               *)
Chain(u) == pending_table[PendingHash[u]]

Matches(u, i) == i \in DOMAIN Chain(u) /\ heap[Chain(u)[i]].url = u

FirstMatch(u, i) == Matches(u, i) /\ \A j \in 1..(i - 1) : ~Matches(u, j)

(* Mutant: the walk looks at the head of the chain only.                     *)
NoMatchAtHead(u) == ~Matches(u, 1)

NoMatch(u) == \A i \in DOMAIN Chain(u) : ~Matches(u, i)

(* Mutant: the count is tested before it is decremented.                     *)
DropRefLate(e) ==
  heap' = [heap EXCEPT ![e] = IF @.ref_count = 0 THEN NULL
                              ELSE [@ EXCEPT !.ref_count = heap[e].ref_count - 1]]

(* ref_count-- and, at zero, destroy and free.                               *)
DropRef(e) ==
  heap' = [heap EXCEPT ![e] = IF @.ref_count = 1 THEN NULL
                              ELSE [@ EXCEPT !.ref_count = heap[e].ref_count - 1]]

Return(t) ==
  /\ pc' = [pc EXCEPT ![t] = "idle"]
  /\ url' = [url EXCEPT ![t] = NULL]
  /\ entry' = [entry EXCEPT ![t] = NULL]

-----------------------------------------------------------------------------
(* Mutant: the table's reference is not counted.                             *)
AddPendingUncounted(u, e) ==
  /\ heap[e] = NULL
  /\ heap' = [heap EXCEPT
                ![e] = [url |-> Stored[u], ref_count |-> 0, completed |-> FALSE]]
  /\ pending_table' = [pending_table EXCEPT ![PendingHash[Stored[u]]] = <<e>> \o @]

(* create_pending_entry and add_pending: the entry goes to the head of the   *)
(* bucket its stored key hashes to.  ref_count 1 is the table's reference.   *)
AddPending(u, e) ==
  /\ heap[e] = NULL
  /\ heap' = [heap EXCEPT
                ![e] = [url |-> Stored[u], ref_count |-> 1, completed |-> FALSE]]
  /\ pending_table' = [pending_table EXCEPT ![PendingHash[Stored[u]]] = <<e>> \o @]

(* pending_wait_or_register finds no entry: the caller is the fetcher, and   *)
(* its entry is at whatever address malloc gives.                            *)
RegisterAt(t, u, e) ==
  /\ pc[t] = "idle"
  /\ pending_lock = NULL
  /\ NoMatch(u)
  /\ AddPending(u, e)
  /\ pc' = [pc EXCEPT ![t] = "fetching"]
  /\ url' = [url EXCEPT ![t] = u]
  /\ UNCHANGED <<entry, pending_lock>>

Register(t, u) == \E e \in Entries : RegisterAt(t, u, e)

(* Mutant: the waiter takes the pointer without counting it.                 *)
JoinUncounted(t, u) ==
  /\ pc[t] = "idle"
  /\ pending_lock = NULL
  /\ \E i \in DOMAIN Chain(u) :
       FirstMatch(u, i) /\ entry' = [entry EXCEPT ![t] = Chain(u)[i]]
  /\ pc' = [pc EXCEPT ![t] = "waiting"]
  /\ url' = [url EXCEPT ![t] = u]
  /\ UNCHANGED <<pending_table, heap, pending_lock>>

(* pending_wait_or_register finds an entry: the caller will wait on it.      *)
Join(t, u) ==
  /\ pc[t] = "idle"
  /\ pending_lock = NULL
  /\ \E i \in DOMAIN Chain(u) :
       /\ FirstMatch(u, i)
       /\ heap' = [heap EXCEPT ![Chain(u)[i]].ref_count = @ + 1]
       /\ entry' = [entry EXCEPT ![t] = Chain(u)[i]]
  /\ pc' = [pc EXCEPT ![t] = "waiting"]
  /\ url' = [url EXCEPT ![t] = u]
  /\ UNCHANGED <<pending_table, pending_lock>>

-----------------------------------------------------------------------------
(* pending_wait: under the entry's mutex, test completed and either leave    *)
(* the loop or block; pthread_cond_wait releases the mutex atomically.       *)
WaitTest(t) ==
  /\ pc[t] = "waiting"
  /\ pc' = [pc EXCEPT ![t] = IF heap[entry[t]].completed THEN "leaving" ELSE "blocked"]
  /\ UNCHANGED <<url, entry, pending_table, heap, pending_lock>>

(* pthread_cond_wait may return without a broadcast; the loop tests again.   *)
SpuriousWakeup(t) ==
  /\ pc[t] = "blocked"
  /\ pc' = [pc EXCEPT ![t] = "waiting"]
  /\ UNCHANGED <<url, entry, pending_table, heap, pending_lock>>

(* The end of pending_wait: drop the reference under pending_lock.           *)
Leave(t) ==
  /\ pc[t] = "leaving"
  /\ pending_lock = NULL
  /\ DropRef(entry[t])
  /\ Return(t)
  /\ UNCHANGED <<pending_table, pending_lock>>

-----------------------------------------------------------------------------
(* Mutant: prev is not advanced, so the head of the chain is unlinked.       *)
CompleteUnlinkHead(t) ==
  /\ pc[t] = "fetching"
  /\ pending_lock = NULL
  /\ \E i \in DOMAIN Chain(url[t]) :
       /\ FirstMatch(url[t], i)
       /\ entry' = [entry EXCEPT ![t] = Chain(url[t])[i]]
       /\ pending_table' = [pending_table EXCEPT ![PendingHash[url[t]]] = Tail(@)]
  /\ pending_lock' = t
  /\ pc' = [pc EXCEPT ![t] = "unlinked"]
  /\ UNCHANGED <<url, heap>>

(* pending_complete: lock pending_lock and unlink the first match.           *)
CompleteUnlink(t) ==
  /\ pc[t] = "fetching"
  /\ pending_lock = NULL
  /\ \E i \in DOMAIN Chain(url[t]) :
       /\ FirstMatch(url[t], i)
       /\ entry' = [entry EXCEPT ![t] = Chain(url[t])[i]]
       /\ pending_table' = [pending_table EXCEPT ![PendingHash[url[t]]] = RemoveAt(@, i)]
  /\ pending_lock' = t
  /\ pc' = [pc EXCEPT ![t] = "unlinked"]
  /\ UNCHANGED <<url, heap>>

(* pending_complete finds nothing to complete and unlocks.                   *)
CompleteNoMatch(t) ==
  /\ pc[t] = "fetching"
  /\ pending_lock = NULL
  /\ NoMatch(url[t])
  /\ Return(t)
  /\ UNCHANGED <<pending_table, heap, pending_lock>>

(* Mutants: one waiter is signalled instead of all; or completed is not set. *)
CompleteSignal(t) ==
  /\ pc[t] = "unlinked"
  /\ heap' = [heap EXCEPT ![entry[t]].completed = TRUE]
  /\ LET blocked == {s \in Threads : pc[s] = "blocked" /\ entry[s] = entry[t]}
         woken == IF blocked = {} THEN {} ELSE {CHOOSE s \in blocked : TRUE}
     IN  pc' = [s \in Threads |-> IF s = t THEN "signalled"
                                  ELSE IF s \in woken THEN "waiting" ELSE pc[s]]
  /\ UNCHANGED <<url, entry, pending_table, pending_lock>>
CompleteForgotten(t) ==
  /\ pc[t] = "unlinked"
  /\ pc' = [s \in Threads |->
              IF s = t THEN "signalled"
              ELSE IF pc[s] = "blocked" /\ entry[s] = entry[t] THEN "waiting"
              ELSE pc[s]]
  /\ UNCHANGED <<url, entry, pending_table, heap, pending_lock>>

(* Under pending_lock and the entry's mutex: completed = 1 and broadcast.    *)
CompleteBroadcast(t) ==
  /\ pc[t] = "unlinked"
  /\ heap' = [heap EXCEPT ![entry[t]].completed = TRUE]
  /\ pc' = [s \in Threads |->
              IF s = t THEN "signalled"
              ELSE IF pc[s] = "blocked" /\ entry[s] = entry[t] THEN "waiting"
              ELSE pc[s]]
  /\ UNCHANGED <<url, entry, pending_table, pending_lock>>

(* Drop the table's reference and release pending_lock.                      *)
CompleteRelease(t) ==
  /\ pc[t] = "signalled"
  /\ DropRef(entry[t])
  /\ pending_lock' = NULL
  /\ Return(t)
  /\ UNCHANGED pending_table

-----------------------------------------------------------------------------
Step(t) ==
  \/ WaitTest(t)
  \/ Leave(t)
  \/ CompleteUnlink(t)
  \/ CompleteNoMatch(t)
  \/ CompleteBroadcast(t)
  \/ CompleteRelease(t)

Next ==
  \E t \in Threads :
    \/ \E u \in Urls : Register(t, u) \/ Join(t, u)
    \/ SpuriousWakeup(t)
    \/ Step(t)

Spec == Init /\ [][Next]_vars

(* A thread that can run runs.  Steps that acquire pending_lock compete with *)
(* other threads for it, so they need strong fairness; steps that hold it or *)
(* take only the entry's mutex need weak fairness.  Nothing obliges a client *)
(* to send a request, nor pthread_cond_wait to return spuriously.            *)
Fairness ==
  \A t \in Threads :
    /\ WF_vars(WaitTest(t))
    /\ WF_vars(CompleteBroadcast(t))
    /\ WF_vars(CompleteRelease(t))
    /\ SF_vars(Leave(t))
    /\ SF_vars(CompleteUnlink(t) \/ CompleteNoMatch(t))

FairSpec == Spec /\ Fairness

-----------------------------------------------------------------------------
(* The threads that hold a pointer to e in their local `entry'.              *)
Sharers(e) == {t \in Threads : entry[t] = e}

InTable(e) == \E b \in Buckets : e \in ToSet(pending_table[b])

Fetching(t) == pc[t] = "fetching"

Short(u) == Stored[u] = u

(* Type invariant: every variable has the C type it models, and a thread has *)
(* a pointer exactly while it is in pending_wait or completing an entry.     *)
TypeOK ==
  /\ pc \in [Threads -> {"idle", "fetching", "waiting", "blocked", "leaving",
                         "unlinked", "signalled"}]
  /\ url \in [Threads -> Urls \cup {NULL}]
  /\ entry \in [Threads -> Entries \cup {NULL}]
  /\ pending_table \in [Buckets -> Seq(Entries)]
  /\ heap \in [Entries -> PendingEntry \cup {NULL}]
  /\ pending_lock \in Threads \cup {NULL}
  /\ \A t \in Threads : (pc[t] = "idle") <=> (url[t] = NULL)
  /\ \A t \in Threads : (pc[t] \in {"idle", "fetching"}) <=> (entry[t] = NULL)

(* Single flight: two threads are never fetching the same key at the same    *)
(* time, provided the key fits in the entry: an entry for a longer one is    *)
(* never found.  This is what pending_wait_or_register returning NULL ("we   *)
(* are the designated fetcher") is for.                                      *)
SingleFlight ==
  \A s, t \in Threads :
    Fetching(s) /\ Fetching(t) /\ url[s] = url[t] /\ Short(url[s]) => s = t

(* The reference count of a live entry is exactly the number of pointers to  *)
(* it: the threads waiting on it or completing it, plus the chain it is in.  *)
(* pending_wait and pending_complete free at zero, so a count too low frees  *)
(* memory in use and a count too high leaks it.                              *)
RefCountExact ==
  \A e \in Entries : heap[e] # NULL =>
    heap[e].ref_count = Cardinality(Sharers(e)) + (IF InTable(e) THEN 1 ELSE 0)

(* No use after free: an entry some chain or some thread points to is        *)
(* allocated, through every order of the last waiter and the completer.      *)
NoDanglingEntry ==
  \A e \in Entries : InTable(e) \/ Sharers(e) # {} => heap[e] # NULL

(* No lost wakeup: no thread sleeps in pthread_cond_wait on an entry whose   *)
(* completion has been broadcast already.                                    *)
NoLostWakeup ==
  \A t \in Threads : pc[t] = "blocked" => ~heap[entry[t]].completed

(* "Another thread is fetching this. Wait for it.": while an entry is not    *)
(* completed, the thread that will complete it for its waiters is at work.   *)
WaitersHaveFetcher ==
  \A t \in Threads :
    pc[t] \in {"waiting", "blocked"} /\ ~heap[entry[t]].completed =>
      \E s \in Threads : pc[s] \in {"fetching", "unlinked"} /\ url[s] = url[t]

(* "Another thread is fetching this. Wait for it.": a thread does not wait   *)
(* when nobody at all is fetching.                                           *)
NoOrphanedWaiter ==
  \A t \in Threads :
    pc[t] \in {"waiting", "blocked"} /\ ~heap[entry[t]].completed =>
      \E s \in Threads : pc[s] \in {"fetching", "unlinked"}

(* Nothing is left behind: when no thread is in the coalescing code, every   *)
(* entry has been freed and every chain is empty.                            *)
EntriesReclaimed ==
  (\A t \in Threads : pc[t] = "idle") =>
    /\ \A e \in Entries : heap[e] = NULL
    /\ \A b \in Buckets : pending_table[b] = <<>>

(* Every thread that waits for another thread's fetch is released.           *)
EveryWaiterReleased ==
  \A t \in Threads : pc[t] = "waiting" ~> pc[t] = "idle"

(***************************************************************************)
(* The strengthening that makes the safety invariants inductive: what a    *)
(* chain contains, that pointers are to allocated entries, that an         *)
(* allocated entry is referenced, that the completer of an entry holds     *)
(* pending_lock and has unlinked it, and that a fetcher whose key fits in  *)
(* an entry finds a listed entry with its key.                             *)
(***************************************************************************)
ChainsOK ==
  \A b \in Buckets :
    /\ IsInjective(pending_table[b])
    /\ \A e \in ToSet(pending_table[b]) :
         heap[e] # NULL /\ PendingHash[heap[e].url] = b

PointersOK == \A t \in Threads : entry[t] # NULL => heap[entry[t]] # NULL

EntriesHeld ==
  \A e \in Entries : heap[e] # NULL => InTable(e) \/ Sharers(e) # {}

CompleterOK ==
  \A t \in Threads : pc[t] \in {"unlinked", "signalled"} =>
    pending_lock = t /\ ~InTable(entry[t])

FetcherListed ==
  \A t \in Threads : Fetching(t) /\ Short(url[t]) =>
    \E e \in Entries : InTable(e) /\ heap[e].url = url[t]

IInv ==
  /\ TypeOK
  /\ ChainsOK
  /\ PointersOK
  /\ EntriesHeld
  /\ CompleterOK
  /\ FetcherListed
  /\ SingleFlight
  /\ RefCountExact
  /\ NoLostWakeup
=============================================================================

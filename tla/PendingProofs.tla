--------------------------- MODULE PendingProofs ---------------------------
(* Machine-checked proofs of the safety of request coalescing.              *)
EXTENDS Pending, ListFacts

-----------------------------------------------------------------------------
(* The heap and the table.                                                   *)

LEMMA Entered ==
  ASSUME TypeOK, NEW e \in Entries, heap[e] # NULL
  PROVE  /\ heap[e] \in PendingEntry
         /\ heap[e].url \in Urls /\ heap[e].ref_count \in Nat /\ heap[e].completed \in BOOLEAN
  BY DEF TypeOK, PendingEntry

(* A chain is a sequence of entries, and what it holds is in the table.      *)
LEMMA ChainElements ==
  ASSUME TypeOK, ChainsOK, NEW u \in Urls
  PROVE  /\ PendingHash[u] \in Buckets
         /\ Chain(u) \in Seq(Entries)
         /\ IsInjective(Chain(u))
         /\ \A i \in DOMAIN Chain(u) : /\ Chain(u)[i] \in Entries
                                       /\ Chain(u)[i] \in ToSet(Chain(u))
                                       /\ InTable(Chain(u)[i])
                                       /\ heap[Chain(u)[i]] # NULL
<1>1. PendingHash[u] \in Buckets
  BY PendingAssumption
<1>2. Chain(u) \in Seq(Entries) /\ IsInjective(Chain(u))
  BY <1>1 DEF TypeOK, ChainsOK, Chain
<1>3. ASSUME NEW i \in DOMAIN Chain(u)
      PROVE  Chain(u)[i] \in Entries /\ Chain(u)[i] \in ToSet(Chain(u))
  BY <1>2 DEF ToSet
<1> QED BY <1>1, <1>2, <1>3 DEF InTable, ChainsOK, Chain

(* A walk that finds nothing means no listed entry has the key.              *)
LEMMA NoMatchNotListed ==
  ASSUME TypeOK, ChainsOK, NEW u \in Urls, NoMatch(u), NEW e \in Entries, InTable(e)
  PROVE  heap[e].url # u
<1> SUFFICES ASSUME heap[e].url = u
             PROVE  FALSE
  OBVIOUS
<1>1. PICK b \in Buckets : e \in ToSet(pending_table[b])
  BY DEF InTable
<1>2. b = PendingHash[u]
  BY <1>1 DEF ChainsOK
<1>3. PICK i \in DOMAIN Chain(u) : Chain(u)[i] = e
  BY <1>1, <1>2 DEF Chain, ToSet
<1> QED BY <1>3 DEF NoMatch, Matches

(* add_pending puts exactly the new entry in the table, and keeps the chains *)
(* well formed: the new entry was not allocated, so it is in no chain.       *)
LEMMA AddPendingTable ==
  ASSUME TypeOK, ChainsOK, NEW u \in Urls, NEW e \in Entries, AddPending(u, e)
  PROVE  /\ pending_table' \in [Buckets -> Seq(Entries)]
         /\ heap' \in [Entries -> PendingEntry \cup {NULL}]
         /\ heap'[e] = [url |-> Stored[u], ref_count |-> 1, completed |-> FALSE]
         /\ heap'[e] # NULL
         /\ \A x \in Entries : x # e => heap'[x] = heap[x]
         /\ ~InTable(e)
         /\ \A x \in Entries : InTable(x)' <=> InTable(x) \/ x = e
         /\ ChainsOK'
<1> DEFINE c == PendingHash[Stored[u]]
           s == pending_table[c]
           r == [url |-> Stored[u], ref_count |-> 1, completed |-> FALSE]
<1>1. c \in Buckets /\ Stored[u] \in Urls
  BY PendingAssumption
<1>2. s \in Seq(Entries) /\ IsInjective(s)
  BY <1>1 DEF TypeOK, ChainsOK
<1>3. \A b \in Buckets : e \notin ToSet(pending_table[b])
  BY DEF ChainsOK, AddPending
<1>4. /\ <<e>> \o s \in Seq(Entries)
      /\ ToSet(<<e>> \o s) = {e} \cup ToSet(s)
      /\ IsInjective(<<e>> \o s)
  BY <1>1, <1>2, <1>3, ConsSet
<1>5. pending_table' = [pending_table EXCEPT ![c] = <<e>> \o s]
  BY DEF AddPending
<1> HIDE DEF s
<1>6. /\ pending_table' \in [Buckets -> Seq(Entries)]
      /\ pending_table'[c] = <<e>> \o s
      /\ \A b \in Buckets : b # c => pending_table'[b] = pending_table[b]
  BY <1>1, <1>4, <1>5 DEF TypeOK
<1>7. r \in PendingEntry /\ r # NULL
  <2>1. r \in PendingEntry
    BY <1>1 DEF PendingEntry
  <2>2. NULL \notin PendingEntry
    BY PendingAssumption DEF PendingEntry
  <2> QED BY <2>1, <2>2
<1>8. /\ heap' \in [Entries -> PendingEntry \cup {NULL}]
      /\ heap'[e] = r
      /\ \A x \in Entries : x # e => heap'[x] = heap[x]
  BY <1>7 DEF AddPending, TypeOK
<1>9. \A x \in Entries : InTable(x)' <=> InTable(x) \/ x = e
  BY <1>1, <1>4, <1>6 DEF InTable, s
<1>10. ChainsOK'
  <2> SUFFICES ASSUME NEW b \in Buckets
               PROVE  /\ IsInjective(pending_table'[b])
                      /\ \A x \in ToSet(pending_table'[b]) :
                           heap'[x] # NULL /\ PendingHash[heap'[x].url] = b
    BY DEF ChainsOK
  <2>1. \A x \in ToSet(pending_table[b]) : x \in Entries /\ heap'[x] = heap[x]
    BY <1>3, <1>8 DEF TypeOK, ToSet
  <2>2. CASE b # c
    <3>1. pending_table'[b] = pending_table[b]
      BY <2>2, <1>6
    <3>2. /\ IsInjective(pending_table[b])
          /\ \A x \in ToSet(pending_table[b]) :
               heap[x] # NULL /\ PendingHash[heap[x].url] = b
      BY DEF ChainsOK
    <3>3. \A x \in ToSet(pending_table[b]) :
            heap'[x] # NULL /\ PendingHash[heap'[x].url] = b
      BY <2>1, <3>2
    <3> QED BY <3>1, <3>2, <3>3
  <2>3. CASE b = c
    <3>1. heap'[e] # NULL /\ PendingHash[heap'[e].url] = b
      BY <2>3, <1>7, <1>8
    <3>2. \A x \in ToSet(s) : heap'[x] # NULL /\ PendingHash[heap'[x].url] = b
      BY <1>1, <2>1, <2>3 DEF ChainsOK, s
    <3> QED BY <2>3, <3>1, <3>2, <1>4, <1>6
  <2> QED BY <2>2, <2>3
<1> QED BY <1>3, <1>6, <1>7, <1>8, <1>9, <1>10 DEF InTable

(* Unlinking the i-th entry of a chain takes exactly that entry out of the   *)
(* table.                                                                    *)
LEMMA UnlinkTable ==
  ASSUME TypeOK, ChainsOK, NEW u \in Urls, NEW i \in DOMAIN Chain(u), heap' = heap,
         pending_table' = [pending_table EXCEPT ![PendingHash[u]] = RemoveAt(@, i)]
  PROVE  /\ pending_table' \in [Buckets -> Seq(Entries)]
         /\ \A x \in Entries : InTable(x)' <=> InTable(x) /\ x # Chain(u)[i]
         /\ ChainsOK'
<1> DEFINE c == PendingHash[u]
           s == pending_table[c]
           e == s[i]
<1>1. /\ c \in Buckets /\ s \in Seq(Entries) /\ IsInjective(s)
      /\ i \in DOMAIN s /\ e \in ToSet(s) /\ e = Chain(u)[i]
  BY ChainElements DEF Chain
<1>2. /\ RemoveAt(s, i) \in Seq(Entries)
      /\ ToSet(RemoveAt(s, i)) = ToSet(s) \ {e}
      /\ IsInjective(RemoveAt(s, i))
  BY <1>1, RemoveAtSet
<1>3. /\ pending_table' \in [Buckets -> Seq(Entries)]
      /\ pending_table'[c] = RemoveAt(s, i)
      /\ \A b \in Buckets : b # c => pending_table'[b] = pending_table[b]
  BY <1>1, <1>2 DEF TypeOK
<1> HIDE DEF s, e
<1>4. \A b \in Buckets : b # c => e \notin ToSet(pending_table[b])
  <2>1. PendingHash[heap[e].url] = c
    BY <1>1 DEF ChainsOK, s
  <2> QED BY <2>1 DEF ChainsOK
<1> USE DEF s
<1>5. \A x \in Entries : InTable(x)' <=> InTable(x) /\ x # e
  BY <1>1, <1>2, <1>3, <1>4 DEF InTable
<1> HIDE DEF s
<1>6. ChainsOK'
  <2> SUFFICES ASSUME NEW b \in Buckets
               PROVE  /\ IsInjective(pending_table'[b])
                      /\ \A x \in ToSet(pending_table'[b]) :
                           heap[x] # NULL /\ PendingHash[heap[x].url] = b
    BY DEF ChainsOK
  <2>1. /\ IsInjective(pending_table[b])
        /\ \A x \in ToSet(pending_table[b]) :
             heap[x] # NULL /\ PendingHash[heap[x].url] = b
    BY DEF ChainsOK
  <2>2. CASE b # c
    BY <1>3, <2>1, <2>2
  <2>3. CASE b = c
    <3>1. ToSet(pending_table'[b]) \subseteq ToSet(pending_table[b])
      BY <1>2, <1>3, <2>3 DEF s
    <3>2. IsInjective(pending_table'[b])
      BY <1>2, <1>3, <2>3
    <3> QED BY <2>1, <3>1, <3>2
  <2> QED BY <2>2, <2>3
<1> QED BY <1>1, <1>3, <1>5, <1>6

-----------------------------------------------------------------------------
(* Counting the threads that share an entry.                                 *)

LEMMA SharersCount ==
  ASSUME NEW e
  PROVE  IsFiniteSet(Sharers(e)) /\ Cardinality(Sharers(e)) \in Nat
<1>1. Sharers(e) \subseteq Threads
  BY DEF Sharers
<1> QED BY <1>1, PendingAssumption, FS_Subset, FS_CardinalityType

(* A thread that takes a pointer adds one sharer to that entry only.         *)
LEMMA SharersTake ==
  ASSUME TypeOK, NEW t \in Threads, entry[t] = NULL, NEW e \in Entries,
         entry' = [entry EXCEPT ![t] = e]
  PROVE  \A x \in Entries :
           /\ Sharers(x)' = IF x = e THEN Sharers(x) \cup {t} ELSE Sharers(x)
           /\ Cardinality(Sharers(x)') =
                IF x = e THEN Cardinality(Sharers(x)) + 1 ELSE Cardinality(Sharers(x))
<1>1. ASSUME NEW x \in Entries
      PROVE  Sharers(x)' = IF x = e THEN Sharers(x) \cup {t} ELSE Sharers(x)
  BY PendingAssumption DEF Sharers, TypeOK
<1>2. t \notin Sharers(e)
  BY PendingAssumption DEF Sharers
<1>3. Cardinality(Sharers(e) \cup {t}) = Cardinality(Sharers(e)) + 1
  BY <1>2, SharersCount, FS_AddElement
<1> QED BY <1>1, <1>3

(* A thread that gives up its pointer removes one sharer.                    *)
LEMMA SharersDrop ==
  ASSUME TypeOK, NEW t \in Threads, NEW e \in Entries, entry[t] = e,
         entry' = [entry EXCEPT ![t] = NULL]
  PROVE  /\ t \in Sharers(e)
         /\ \A x \in Entries :
              /\ Sharers(x)' = IF x = e THEN Sharers(x) \ {t} ELSE Sharers(x)
              /\ Cardinality(Sharers(x)') =
                   IF x = e THEN Cardinality(Sharers(x)) - 1 ELSE Cardinality(Sharers(x))
<1>1. ASSUME NEW x \in Entries
      PROVE  Sharers(x)' = IF x = e THEN Sharers(x) \ {t} ELSE Sharers(x)
  BY PendingAssumption DEF Sharers, TypeOK
<1>2. t \in Sharers(e)
  BY DEF Sharers
<1>3. Cardinality(Sharers(e) \ {t}) = Cardinality(Sharers(e)) - 1
  BY <1>2, SharersCount, FS_RemoveElement
<1> QED BY <1>1, <1>2, <1>3

(* Dropping a reference: the count reaches zero exactly when nothing else     *)
(* points to the entry, so what is freed is neither listed nor shared.        *)
LEMMA Dropped ==
  ASSUME TypeOK, ChainsOK, PointersOK, EntriesHeld, RefCountExact,
         NEW t \in Threads, NEW e \in Entries, entry[t] = e, DropRef(e),
         entry' = [entry EXCEPT ![t] = NULL], UNCHANGED pending_table
  PROVE  /\ heap' \in [Entries -> PendingEntry \cup {NULL}]
         /\ \A x \in Entries : heap'[x] # NULL =>
              /\ heap[x] # NULL
              /\ heap'[x].url = heap[x].url
              /\ heap'[x].completed = heap[x].completed
         /\ \A x \in Entries : InTable(x) => heap'[x] # NULL
         /\ \A x : InTable(x)' <=> InTable(x)
         /\ ChainsOK' /\ PointersOK' /\ EntriesHeld' /\ RefCountExact'
<1> DEFINE n == heap[e].ref_count
           r == [heap[e] EXCEPT !.ref_count = n - 1]
<1>1. /\ heap[e] # NULL /\ heap[e] \in PendingEntry
      /\ n \in Nat /\ heap[e].url \in Urls /\ heap[e].completed \in BOOLEAN
  BY PendingAssumption, Entered DEF PointersOK
<1>2. /\ \A x : IsFiniteSet(Sharers(x)) /\ Cardinality(Sharers(x)) \in Nat
      /\ t \in Sharers(e)
      /\ \A x \in Entries :
           /\ Sharers(x)' = IF x = e THEN Sharers(x) \ {t} ELSE Sharers(x)
           /\ Cardinality(Sharers(x)') =
                IF x = e THEN Cardinality(Sharers(x)) - 1 ELSE Cardinality(Sharers(x))
  BY SharersCount, SharersDrop
<1>3. Cardinality(Sharers(e)) # 0
  BY <1>2, FS_EmptySet
<1>4. n = Cardinality(Sharers(e)) + (IF InTable(e) THEN 1 ELSE 0)
  BY <1>1 DEF RefCountExact
<1>5. /\ \A x : InTable(x)' <=> InTable(x)
      /\ \A x \in Entries : x # e => heap'[x] = heap[x]
  BY DEF InTable, DropRef, TypeOK
<1>6. n # 1 => r \in PendingEntry /\ r # NULL
  <2>1. n # 1 => n - 1 \in Nat
    BY <1>1, <1>2, <1>3, <1>4
  <2>2. n # 1 => r \in PendingEntry
    BY <2>1, <1>1 DEF PendingEntry
  <2>3. NULL \notin PendingEntry
    BY PendingAssumption DEF PendingEntry
  <2> QED BY <2>2, <2>3
<1>7. heap'[e] = IF n = 1 THEN NULL ELSE r
  BY DEF DropRef, TypeOK
<1>8. n # 1 => /\ heap'[e] # NULL
               /\ heap'[e].url = heap[e].url
               /\ heap'[e].completed = heap[e].completed
               /\ heap'[e].ref_count = n - 1
  <2>1. r.url = heap[e].url /\ r.completed = heap[e].completed /\ r.ref_count = n - 1
    BY <1>1 DEF PendingEntry
  <2> QED BY <2>1, <1>6, <1>7
<1>9. heap' \in [Entries -> PendingEntry \cup {NULL}]
  BY <1>6 DEF DropRef, TypeOK
<1>10. n = 1 => ~InTable(e) /\ Sharers(e)' = {}
  <2> SUFFICES ASSUME n = 1
               PROVE  ~InTable(e) /\ Sharers(e)' = {}
    OBVIOUS
  <2>1. ~InTable(e) /\ Cardinality(Sharers(e)) = 1
    BY <1>2, <1>3, <1>4
  <2>2. Cardinality(Sharers(e)') = 0 /\ IsFiniteSet(Sharers(e)')
    BY <2>1, <1>2, FS_RemoveElement
  <2>3. Sharers(e)' = {}
    BY <2>2, FS_EmptySet
  <2> QED BY <2>1, <2>3
<1>11. n # 1 => InTable(e) \/ Sharers(e)' # {}
  <2> SUFFICES ASSUME n # 1, ~InTable(e)
               PROVE  Sharers(e)' # {}
    OBVIOUS
  <2>1. Cardinality(Sharers(e)') # 0
    BY <1>1, <1>2, <1>4
  <2> QED BY <2>1, FS_EmptySet
<1>12. \A x \in Entries : InTable(x) => heap[x] # NULL /\ heap'[x] # NULL
  BY <1>5, <1>8, <1>10 DEF InTable, ChainsOK
<1>13. \A x \in Entries : heap'[x] # NULL =>
         /\ heap[x] # NULL
         /\ heap'[x].url = heap[x].url
         /\ heap'[x].completed = heap[x].completed
  BY <1>1, <1>5, <1>7, <1>8
<1>14. ChainsOK'
  <2>1. \A b \in Buckets : \A x \in ToSet(pending_table[b]) : x \in Entries /\ InTable(x)
    BY DEF InTable, TypeOK, ToSet
  <2> QED BY <2>1, <1>12, <1>13 DEF ChainsOK
<1>15. PointersOK'
  <2> SUFFICES ASSUME NEW s \in Threads, entry'[s] # NULL
               PROVE  heap'[entry'[s]] # NULL
    BY DEF PointersOK
  <2>1. s # t /\ entry'[s] = entry[s] /\ entry[s] \in Entries
    BY DEF TypeOK
  <2>2. CASE entry[s] = e
    <3>1. s \in Sharers(e)'
      BY <2>1, <2>2 DEF Sharers
    <3> QED BY <2>1, <2>2, <3>1, <1>8, <1>10
  <2> QED BY <2>1, <2>2, <1>5 DEF PointersOK
<1>16. EntriesHeld'
  <2> SUFFICES ASSUME NEW x \in Entries, heap'[x] # NULL
               PROVE  InTable(x) \/ Sharers(x)' # {}
    BY <1>5 DEF EntriesHeld
  <2> QED BY <1>2, <1>5, <1>7, <1>11, <1>13 DEF EntriesHeld
<1>17. RefCountExact'
  <2> SUFFICES ASSUME NEW x \in Entries, heap'[x] # NULL
               PROVE  heap'[x].ref_count =
                        Cardinality(Sharers(x)') + (IF InTable(x) THEN 1 ELSE 0)
    BY <1>5 DEF RefCountExact
  <2>1. CASE x = e
    BY <2>1, <1>1, <1>2, <1>4, <1>7, <1>8
  <2>2. CASE x # e
    BY <2>2, <1>2, <1>5 DEF RefCountExact
  <2> QED BY <2>1, <2>2
<1> QED BY <1>5, <1>9, <1>12, <1>13, <1>14, <1>15, <1>16, <1>17

-----------------------------------------------------------------------------
(* Every action preserves the inductive invariant.                           *)

(* Register: the walk found no entry for u, so no other thread that could    *)
(* have listed one is fetching u.                                            *)
LEMMA RegisterInductive ==
  ASSUME IInv, NEW t \in Threads, NEW u \in Urls, Register(t, u)
  PROVE  IInv'
<1> USE DEF IInv
<1>1. PICK e \in Entries : AddPending(u, e)
  BY DEF Register, RegisterAt
<1>2. /\ pending_table' \in [Buckets -> Seq(Entries)]
      /\ heap' \in [Entries -> PendingEntry \cup {NULL}]
      /\ heap'[e] = [url |-> Stored[u], ref_count |-> 1, completed |-> FALSE]
      /\ heap'[e] # NULL /\ heap[e] = NULL
      /\ \A x \in Entries : x # e => heap'[x] = heap[x]
      /\ ~InTable(e)
      /\ \A x \in Entries : InTable(x)' <=> InTable(x) \/ x = e
      /\ ChainsOK'
  BY <1>1, AddPendingTable DEF AddPending
<1>3. /\ pc[t] = "idle" /\ NoMatch(u)
      /\ pc' = [pc EXCEPT ![t] = "fetching"]
      /\ url' = [url EXCEPT ![t] = u]
      /\ entry' = entry /\ pending_lock' = pending_lock
      /\ entry[t] = NULL
  BY DEF Register, RegisterAt, TypeOK
<1>4. TypeOK'
  BY <1>2, <1>3, PendingAssumption DEF TypeOK
<1>5. PointersOK'
  BY <1>2, <1>3 DEF PointersOK, TypeOK
<1>6. \A x : Sharers(x)' = Sharers(x)
  BY <1>3 DEF Sharers
<1>7. EntriesHeld'
  BY <1>2, <1>6 DEF EntriesHeld
<1>8. CompleterOK'
  <2> SUFFICES ASSUME NEW s \in Threads, pc'[s] \in {"unlinked", "signalled"}
               PROVE  (pending_lock = s /\ ~InTable(entry[s]))'
    BY DEF CompleterOK
  <2>1. s # t /\ pc[s] \in {"unlinked", "signalled"}
    BY <1>3 DEF TypeOK
  <2>2. pending_lock = s /\ ~InTable(entry[s])
    BY <2>1 DEF CompleterOK
  <2>3. entry[s] \in Entries /\ heap[entry[s]] # NULL
    BY <2>1 DEF TypeOK, PointersOK
  <2> QED BY <1>2, <1>3, <2>2, <2>3
<1>9. FetcherListed'
  <2> SUFFICES ASSUME NEW s \in Threads, pc'[s] = "fetching", Short(url'[s])
               PROVE  \E x \in Entries : InTable(x)' /\ heap'[x].url = url'[s]
    BY DEF FetcherListed, Fetching, Short
  <2>1. CASE s = t
    BY <2>1, <1>2, <1>3 DEF Short, TypeOK
  <2>2. CASE s # t
    <3>1. PICK x \in Entries : InTable(x) /\ heap[x].url = url[s]
      BY <2>2, <1>3 DEF FetcherListed, Fetching, TypeOK
    <3> QED BY <2>2, <3>1, <1>2, <1>3 DEF TypeOK
  <2> QED BY <2>1, <2>2
<1>10. SingleFlight'
  <2>1. ASSUME NEW s \in Threads, s # t, pc[s] = "fetching", url[s] = u, Short(u)
        PROVE  FALSE
    <3>1. PICK x \in Entries : InTable(x) /\ heap[x].url = u
      BY <2>1 DEF FetcherListed, Fetching
    <3> QED BY <3>1, <1>3, NoMatchNotListed
  <2> QED BY <2>1, <1>3 DEF SingleFlight, Fetching, Short, TypeOK
<1>11. RefCountExact'
  <2> SUFFICES ASSUME NEW x \in Entries, heap'[x] # NULL
               PROVE  heap'[x].ref_count =
                        Cardinality(Sharers(x)) + (IF InTable(x)' THEN 1 ELSE 0)
    BY <1>6 DEF RefCountExact
  <2>1. CASE x = e
    <3>1. Sharers(e) = {}
      BY <1>2, PendingAssumption DEF PointersOK, Sharers
    <3> QED BY <2>1, <3>1, <1>2, FS_EmptySet
  <2>2. CASE x # e
    BY <2>2, <1>2 DEF RefCountExact
  <2> QED BY <2>1, <2>2
<1>12. NoLostWakeup'
  <2> SUFFICES ASSUME NEW s \in Threads, pc'[s] = "blocked"
               PROVE  ~heap'[entry'[s]].completed
    BY DEF NoLostWakeup
  <2>1. s # t /\ pc[s] = "blocked" /\ entry[s] \in Entries /\ heap[entry[s]] # NULL
    BY <1>3 DEF TypeOK, PointersOK
  <2> QED BY <2>1, <1>2, <1>3 DEF NoLostWakeup
<1> QED BY <1>2, <1>4, <1>5, <1>7, <1>8, <1>9, <1>10, <1>11, <1>12

(* Join: one more reference, one more sharer.                                *)
LEMMA JoinInductive ==
  ASSUME IInv, NEW t \in Threads, NEW u \in Urls, Join(t, u)
  PROVE  IInv'
<1> USE DEF IInv
<1>1. PICK i \in DOMAIN Chain(u) :
        /\ heap' = [heap EXCEPT ![Chain(u)[i]].ref_count = @ + 1]
        /\ entry' = [entry EXCEPT ![t] = Chain(u)[i]]
  BY DEF Join
<1> DEFINE e == Chain(u)[i]
           r == [heap[e] EXCEPT !.ref_count = @ + 1]
<1>2. e \in Entries /\ InTable(e) /\ heap[e] # NULL
  BY <1>1, ChainElements
<1>3. /\ pc[t] = "idle" /\ entry[t] = NULL
      /\ pc' = [pc EXCEPT ![t] = "waiting"]
      /\ url' = [url EXCEPT ![t] = u]
      /\ entry' = [entry EXCEPT ![t] = e]
      /\ heap' = [heap EXCEPT ![e] = r]
      /\ UNCHANGED <<pending_table, pending_lock>>
  BY <1>1 DEF Join, TypeOK
<1> HIDE DEF e
<1>4. /\ r \in PendingEntry /\ r # NULL
      /\ r.url = heap[e].url /\ r.completed = heap[e].completed
      /\ r.ref_count = heap[e].ref_count + 1 /\ heap[e].ref_count \in Nat
  <2>1. NULL \notin PendingEntry
    BY PendingAssumption DEF PendingEntry
  <2> QED BY <2>1, <1>2, Entered DEF PendingEntry
<1> HIDE DEF r
<1>5. /\ heap' \in [Entries -> PendingEntry \cup {NULL}]
      /\ heap'[e] = r
      /\ \A x \in Entries : /\ x # e => heap'[x] = heap[x]
                            /\ heap'[x] # NULL <=> heap[x] # NULL
                            /\ heap'[x].url = heap[x].url
                            /\ heap'[x].completed = heap[x].completed
  BY <1>2, <1>3, <1>4 DEF TypeOK
<1>6. TypeOK'
  BY <1>2, <1>3, <1>5, PendingAssumption DEF TypeOK
<1>7. \A x : InTable(x)' <=> InTable(x)
  BY <1>3 DEF InTable
<1>8. ChainsOK'
  <2>1. \A b \in Buckets : \A x \in ToSet(pending_table[b]) : x \in Entries
    BY DEF TypeOK, ToSet
  <2> QED BY <2>1, <1>3, <1>5 DEF ChainsOK
<1>9. PointersOK'
  BY <1>2, <1>3, <1>5 DEF PointersOK, TypeOK
<1>10. \A x \in Entries :
         /\ Sharers(x)' = IF x = e THEN Sharers(x) \cup {t} ELSE Sharers(x)
         /\ Cardinality(Sharers(x)') =
              IF x = e THEN Cardinality(Sharers(x)) + 1 ELSE Cardinality(Sharers(x))
  BY <1>2, <1>3, SharersTake
<1>11. EntriesHeld'
  BY <1>2, <1>5, <1>7, <1>10 DEF EntriesHeld
<1>12. CompleterOK'
  BY <1>3, <1>7 DEF CompleterOK, TypeOK
<1>13. FetcherListed'
  BY <1>3, <1>5, <1>7 DEF FetcherListed, Fetching, Short, TypeOK
<1>14. SingleFlight'
  BY <1>3 DEF SingleFlight, Fetching, Short, TypeOK
<1>15. RefCountExact'
  <2> SUFFICES ASSUME NEW x \in Entries, heap'[x] # NULL
               PROVE  heap'[x].ref_count =
                        Cardinality(Sharers(x)') + (IF InTable(x) THEN 1 ELSE 0)
    BY <1>7 DEF RefCountExact
  <2>1. Cardinality(Sharers(x)) \in Nat
    BY SharersCount
  <2>2. heap[x].ref_count = Cardinality(Sharers(x)) + (IF InTable(x) THEN 1 ELSE 0)
    BY <1>5 DEF RefCountExact
  <2>3. CASE x = e
    BY <2>1, <2>2, <2>3, <1>4, <1>5, <1>10
  <2>4. CASE x # e
    BY <2>2, <2>4, <1>5, <1>10
  <2> QED BY <2>3, <2>4
<1>16. NoLostWakeup'
  <2> SUFFICES ASSUME NEW s \in Threads, pc'[s] = "blocked"
               PROVE  ~heap'[entry'[s]].completed
    BY DEF NoLostWakeup
  <2>1. s # t /\ pc[s] = "blocked" /\ entry[s] \in Entries /\ entry'[s] = entry[s]
    BY <1>3 DEF TypeOK
  <2> QED BY <2>1, <1>5 DEF NoLostWakeup
<1> QED BY <1>6, <1>8, <1>9, <1>11, <1>12, <1>13, <1>14, <1>15, <1>16

(* A thread that only moves its program counter inside pending_wait: it may  *)
(* block only on an entry that is not completed.                             *)
LEMMA WaitingStepInductive ==
  ASSUME IInv, NEW t \in Threads, pc[t] \in {"waiting", "blocked"},
         NEW to \in {"waiting", "blocked", "leaving"},
         to = "blocked" => ~heap[entry[t]].completed,
         pc' = [pc EXCEPT ![t] = to],
         UNCHANGED <<url, entry, pending_table, heap, pending_lock>>
  PROVE  IInv'
<1> USE DEF IInv
<1>1. TypeOK'
  BY DEF TypeOK
<1>2. ChainsOK' /\ PointersOK' /\ EntriesHeld' /\ RefCountExact'
  BY DEF ChainsOK, PointersOK, EntriesHeld, RefCountExact, Sharers, InTable
<1>3. CompleterOK'
  BY DEF CompleterOK, InTable, TypeOK
<1>4. FetcherListed' /\ SingleFlight'
  BY DEF FetcherListed, SingleFlight, Fetching, Short, InTable, TypeOK
<1>5. NoLostWakeup'
  BY DEF NoLostWakeup, TypeOK
<1> QED BY <1>1, <1>2, <1>3, <1>4, <1>5

(* Leave and CompleteRelease: drop the reference and return.                 *)
LEMMA DropInductive ==
  ASSUME IInv, NEW t \in Threads, pc[t] \in {"leaving", "signalled"},
         DropRef(entry[t]), Return(t), UNCHANGED pending_table,
         pending_lock' = IF pc[t] = "signalled" THEN NULL ELSE pending_lock
  PROVE  IInv'
<1> USE DEF IInv
<1>1. PICK e \in Entries : entry[t] = e
  BY DEF TypeOK
<1>2. /\ pc' = [pc EXCEPT ![t] = "idle"]
      /\ url' = [url EXCEPT ![t] = NULL]
      /\ entry' = [entry EXCEPT ![t] = NULL]
  BY DEF Return
<1>3. /\ heap' \in [Entries -> PendingEntry \cup {NULL}]
      /\ \A x \in Entries : heap'[x] # NULL =>
           /\ heap[x] # NULL
           /\ heap'[x].url = heap[x].url
           /\ heap'[x].completed = heap[x].completed
      /\ \A x \in Entries : InTable(x) => heap'[x] # NULL
      /\ \A x : InTable(x)' <=> InTable(x)
      /\ ChainsOK' /\ PointersOK' /\ EntriesHeld' /\ RefCountExact'
  BY <1>1, <1>2, Dropped
<1>4. TypeOK'
  BY <1>2, <1>3 DEF TypeOK
<1>5. CompleterOK'
  <2> SUFFICES ASSUME NEW s \in Threads, pc'[s] \in {"unlinked", "signalled"}
               PROVE  (pending_lock = s /\ ~InTable(entry[s]))'
    BY DEF CompleterOK
  <2>1. s # t /\ pc[s] \in {"unlinked", "signalled"} /\ entry'[s] = entry[s]
    BY <1>2 DEF TypeOK
  <2>2. pending_lock = s /\ ~InTable(entry[s])
    BY <2>1 DEF CompleterOK
  <2>3. pc[t] # "signalled"
    BY <2>1, <2>2 DEF CompleterOK
  <2> QED BY <2>1, <2>2, <2>3, <1>3
<1>6. FetcherListed' /\ SingleFlight'
  BY <1>2, <1>3 DEF FetcherListed, SingleFlight, Fetching, Short, TypeOK
<1>7. NoLostWakeup'
  <2> SUFFICES ASSUME NEW s \in Threads, pc'[s] = "blocked"
               PROVE  ~heap'[entry'[s]].completed
    BY DEF NoLostWakeup
  <2>1. s # t /\ pc[s] = "blocked" /\ entry[s] \in Entries /\ entry'[s] = entry[s]
    BY <1>2 DEF TypeOK
  <2>2. heap'[entry[s]] # NULL
    BY <2>1, <1>3, PendingAssumption DEF PointersOK
  <2> QED BY <2>1, <2>2, <1>3 DEF NoLostWakeup
<1> QED BY <1>3, <1>4, <1>5, <1>6, <1>7

(* CompleteUnlink: the reference passes from the table to the completer; the *)
(* entries of other fetched keys stay listed.                                *)
LEMMA CompleteUnlinkInductive ==
  ASSUME IInv, NEW t \in Threads, CompleteUnlink(t)
  PROVE  IInv'
<1> USE DEF IInv
<1> DEFINE u == url[t]
<1>1. /\ pc[t] = "fetching" /\ u \in Urls /\ entry[t] = NULL /\ pending_lock = NULL
      /\ pending_lock' = t /\ pc' = [pc EXCEPT ![t] = "unlinked"]
      /\ url' = url /\ heap' = heap
  BY DEF CompleteUnlink, TypeOK
<1>2. PICK i \in DOMAIN Chain(u) :
        /\ heap[Chain(u)[i]].url = u
        /\ entry' = [entry EXCEPT ![t] = Chain(u)[i]]
        /\ pending_table' = [pending_table EXCEPT ![PendingHash[u]] = RemoveAt(@, i)]
  BY DEF CompleteUnlink, FirstMatch, Matches
<1> DEFINE e == Chain(u)[i]
<1>3. e \in Entries /\ InTable(e) /\ heap[e] # NULL
  BY <1>1, ChainElements
<1>4. /\ pending_table' \in [Buckets -> Seq(Entries)]
      /\ \A x \in Entries : InTable(x)' <=> InTable(x) /\ x # e
      /\ ChainsOK'
  BY <1>1, <1>2, UnlinkTable
<1> HIDE DEF e
<1>5. /\ entry' = [entry EXCEPT ![t] = e]
      /\ heap[e].url = u
  BY <1>2 DEF e
<1>6. \A x \in Entries :
        /\ Sharers(x)' = IF x = e THEN Sharers(x) \cup {t} ELSE Sharers(x)
        /\ Cardinality(Sharers(x)') =
             IF x = e THEN Cardinality(Sharers(x)) + 1 ELSE Cardinality(Sharers(x))
  BY <1>1, <1>3, <1>5, SharersTake
<1>7. TypeOK'
  BY <1>1, <1>3, <1>4, <1>5, PendingAssumption DEF TypeOK
<1>8. PointersOK'
  BY <1>1, <1>3, <1>5 DEF PointersOK, TypeOK
<1>9. EntriesHeld'
  BY <1>1, <1>4, <1>6 DEF EntriesHeld
<1>10. CompleterOK'
  <2> SUFFICES ASSUME NEW s \in Threads, pc'[s] \in {"unlinked", "signalled"}
               PROVE  (pending_lock = s /\ ~InTable(entry[s]))'
    BY DEF CompleterOK
  <2>1. s = t
    BY <1>1, PendingAssumption DEF CompleterOK, TypeOK
  <2>2. entry'[s] = e
    BY <2>1, <1>5 DEF TypeOK
  <2> QED BY <2>1, <2>2, <1>1, <1>3, <1>4
<1>11. FetcherListed'
  <2> SUFFICES ASSUME NEW s \in Threads, pc'[s] = "fetching", Short(url[s])
               PROVE  \E x \in Entries : InTable(x)' /\ heap[x].url = url[s]
    BY <1>1 DEF FetcherListed, Fetching, Short
  <2>1. s # t /\ pc[s] = "fetching"
    BY <1>1 DEF TypeOK
  <2>2. PICK x \in Entries : InTable(x) /\ heap[x].url = url[s]
    BY <2>1 DEF FetcherListed, Fetching
  <2>3. x # e
    BY <2>1, <2>2, <1>1, <1>5 DEF SingleFlight, Fetching
  <2> QED BY <2>2, <2>3, <1>4
<1>12. SingleFlight'
  BY <1>1 DEF SingleFlight, Fetching, Short, TypeOK
<1>13. RefCountExact'
  <2> SUFFICES ASSUME NEW x \in Entries, heap[x] # NULL
               PROVE  heap[x].ref_count =
                        Cardinality(Sharers(x)') + (IF InTable(x)' THEN 1 ELSE 0)
    BY <1>1 DEF RefCountExact
  <2>1. Cardinality(Sharers(x)) \in Nat
    BY SharersCount
  <2>2. heap[x].ref_count = Cardinality(Sharers(x)) + (IF InTable(x) THEN 1 ELSE 0)
    BY DEF RefCountExact
  <2> QED BY <2>1, <2>2, <1>3, <1>4, <1>6
<1>14. NoLostWakeup'
  BY <1>1, <1>5 DEF NoLostWakeup, TypeOK
<1> QED BY <1>4, <1>7, <1>8, <1>9, <1>10, <1>11, <1>12, <1>13, <1>14

(* CompleteNoMatch: the fetcher just returns.                                *)
LEMMA CompleteNoMatchInductive ==
  ASSUME IInv, NEW t \in Threads, CompleteNoMatch(t)
  PROVE  IInv'
<1> USE DEF IInv
<1>1. /\ pc[t] = "fetching" /\ entry[t] = NULL
      /\ pc' = [pc EXCEPT ![t] = "idle"] /\ url' = [url EXCEPT ![t] = NULL]
      /\ entry' = entry
      /\ UNCHANGED <<pending_table, heap, pending_lock>>
  BY DEF CompleteNoMatch, Return, TypeOK
<1>2. TypeOK'
  BY <1>1 DEF TypeOK
<1>3. ChainsOK' /\ PointersOK'
  BY <1>1 DEF ChainsOK, PointersOK
<1>7. \A e \in Entries : Sharers(e)' = Sharers(e) /\ InTable(e)' = InTable(e)
  BY <1>1 DEF Sharers, InTable
<1>8. EntriesHeld' /\ RefCountExact'
  BY <1>1, <1>7 DEF EntriesHeld, RefCountExact
<1>4. CompleterOK'
  BY <1>1 DEF CompleterOK, InTable, TypeOK
<1>5. FetcherListed' /\ SingleFlight'
  BY <1>1 DEF FetcherListed, SingleFlight, Fetching, Short, InTable, TypeOK
<1>6. NoLostWakeup'
  BY <1>1 DEF NoLostWakeup, TypeOK
<1> QED BY <1>2, <1>3, <1>8, <1>4, <1>5, <1>6

(* CompleteBroadcast: every thread blocked on the entry is woken with it.    *)
LEMMA CompleteBroadcastInductive ==
  ASSUME IInv, NEW t \in Threads, CompleteBroadcast(t)
  PROVE  IInv'
<1> USE DEF IInv
<1>1. PICK e \in Entries : entry[t] = e
  BY DEF CompleteBroadcast, TypeOK
<1> DEFINE r == [heap[e] EXCEPT !.completed = TRUE]
<1>2. /\ pc[t] = "unlinked"
      /\ heap' = [heap EXCEPT ![e] = r]
      /\ pc' = [s \in Threads |->
                  IF s = t THEN "signalled"
                  ELSE IF pc[s] = "blocked" /\ entry[s] = e THEN "waiting"
                  ELSE pc[s]]
      /\ UNCHANGED <<url, entry, pending_table, pending_lock>>
  BY <1>1 DEF CompleteBroadcast
<1>3. heap[e] # NULL
  BY <1>1, PendingAssumption DEF PointersOK
<1>4. /\ r \in PendingEntry /\ r # NULL
      /\ r.url = heap[e].url /\ r.ref_count = heap[e].ref_count
  <2>1. NULL \notin PendingEntry
    BY PendingAssumption DEF PendingEntry
  <2> QED BY <2>1, <1>3, Entered DEF PendingEntry
<1> HIDE DEF r
<1>5. /\ heap' \in [Entries -> PendingEntry \cup {NULL}]
      /\ \A x \in Entries : /\ x # e => heap'[x] = heap[x]
                            /\ heap'[x] # NULL <=> heap[x] # NULL
                            /\ heap'[x].url = heap[x].url
                            /\ heap'[x].ref_count = heap[x].ref_count
  BY <1>2, <1>3, <1>4 DEF TypeOK
<1>6. TypeOK'
  BY <1>2, <1>5 DEF TypeOK
<1>7. /\ \A x : InTable(x)' <=> InTable(x)
      /\ \A x : Sharers(x)' = Sharers(x)
  BY <1>2 DEF InTable, Sharers
<1>8. ChainsOK'
  <2>1. \A b \in Buckets : \A x \in ToSet(pending_table[b]) : x \in Entries
    BY DEF TypeOK, ToSet
  <2> QED BY <2>1, <1>2, <1>5 DEF ChainsOK
<1>9. PointersOK'
  BY <1>2, <1>5 DEF PointersOK, TypeOK
<1>10. EntriesHeld' /\ RefCountExact'
  BY <1>5, <1>7 DEF EntriesHeld, RefCountExact
<1>11. CompleterOK'
  BY <1>2, <1>7 DEF CompleterOK, TypeOK
<1>12. FetcherListed' /\ SingleFlight'
  BY <1>2, <1>5, <1>7 DEF FetcherListed, SingleFlight, Fetching, Short, TypeOK
<1>13. NoLostWakeup'
  <2> SUFFICES ASSUME NEW s \in Threads, pc'[s] = "blocked"
               PROVE  ~heap'[entry[s]].completed
    BY <1>2 DEF NoLostWakeup
  <2>1. pc[s] = "blocked" /\ entry[s] # e /\ entry[s] \in Entries
    BY <1>1, <1>2 DEF TypeOK
  <2> QED BY <2>1, <1>5 DEF NoLostWakeup
<1> QED BY <1>6, <1>8, <1>9, <1>10, <1>11, <1>12, <1>13

-----------------------------------------------------------------------------
(* Init establishes the inductive invariant.                                 *)
LEMMA InitInductive ==
  ASSUME Init
  PROVE  IInv
<1>1. TypeOK
  BY PendingAssumption DEF Init, TypeOK
<1>2. \A e : ~InTable(e)
  BY DEF Init, InTable, ToSet
<1>3. \A e \in Entries : heap[e] = NULL
  BY DEF Init
<1>4. ChainsOK
  BY DEF Init, ChainsOK, ToSet, IsInjective
<1> QED BY <1>1, <1>2, <1>3, <1>4
        DEF Init, IInv, PointersOK, EntriesHeld, CompleterOK, FetcherListed,
            SingleFlight, Fetching, RefCountExact, NoLostWakeup

(* Every step preserves it.                                                  *)
LEMMA NextInductive ==
  ASSUME IInv, [Next]_vars
  PROVE  IInv'
<1>1. ASSUME NEW t \in Threads, NEW u \in Urls, Register(t, u)
      PROVE  IInv'
  BY <1>1, RegisterInductive
<1>2. ASSUME NEW t \in Threads, NEW u \in Urls, Join(t, u)
      PROVE  IInv'
  BY <1>2, JoinInductive
<1>3. ASSUME NEW t \in Threads, SpuriousWakeup(t)
      PROVE  IInv'
  BY <1>3, WaitingStepInductive DEF SpuriousWakeup
<1>4. ASSUME NEW t \in Threads, WaitTest(t)
      PROVE  IInv'
  <2>1. CASE heap[entry[t]].completed
    BY <1>4, <2>1, WaitingStepInductive DEF WaitTest
  <2>2. CASE ~heap[entry[t]].completed
    BY <1>4, <2>2, WaitingStepInductive DEF WaitTest
  <2> QED BY <2>1, <2>2
<1>5. ASSUME NEW t \in Threads, Leave(t)
      PROVE  IInv'
  BY <1>5, DropInductive DEF Leave
<1>6. ASSUME NEW t \in Threads, CompleteUnlink(t)
      PROVE  IInv'
  BY <1>6, CompleteUnlinkInductive
<1>7. ASSUME NEW t \in Threads, CompleteNoMatch(t)
      PROVE  IInv'
  BY <1>7, CompleteNoMatchInductive
<1>8. ASSUME NEW t \in Threads, CompleteBroadcast(t)
      PROVE  IInv'
  BY <1>8, CompleteBroadcastInductive
<1>9. ASSUME NEW t \in Threads, CompleteRelease(t)
      PROVE  IInv'
  BY <1>9, DropInductive DEF CompleteRelease
<1>10. ASSUME UNCHANGED vars
       PROVE  IInv'
  <2>1. UNCHANGED <<pc, url, entry, pending_table, heap, pending_lock>>
    BY <1>10 DEF vars
  <2>2. TypeOK'
    BY <2>1 DEF IInv, TypeOK
  <2>3. ChainsOK' /\ PointersOK' /\ EntriesHeld' /\ RefCountExact'
    BY <2>1 DEF IInv, ChainsOK, PointersOK, EntriesHeld, RefCountExact, Sharers, InTable
  <2>4. CompleterOK' /\ NoLostWakeup'
    BY <2>1 DEF IInv, CompleterOK, NoLostWakeup, InTable
  <2>5. FetcherListed' /\ SingleFlight'
    BY <2>1 DEF IInv, FetcherListed, SingleFlight, Fetching, Short, InTable
  <2> QED BY <2>2, <2>3, <2>4, <2>5 DEF IInv
<1> QED BY <1>1, <1>2, <1>3, <1>4, <1>5, <1>6, <1>7, <1>8, <1>9, <1>10
        DEF Next, Step

(* The inductive invariant holds in every reachable state, for any number of *)
(* threads, keys, buckets and addresses.                                     *)
THEOREM Inductive == Spec => []IInv
<1>1. Init => IInv
  BY InitInductive
<1>2. IInv /\ [Next]_vars => IInv'
  BY NextInductive
<1> QED BY <1>1, <1>2, PTL DEF Spec

(* Type correctness of the coalescing state.                                 *)
THEOREM TypeCorrect == Spec => []TypeOK
<1>1. IInv => TypeOK
  BY DEF IInv
<1> QED BY <1>1, Inductive, PTL

(* pending_wait_or_register never makes two threads the fetcher of one key   *)
(* that fits in an entry.                                                    *)
THEOREM SingleFlightCorrect == Spec => []SingleFlight
<1>1. IInv => SingleFlight
  BY DEF IInv
<1> QED BY <1>1, Inductive, PTL

(* ref_count is the number of pointers to the entry, whatever the order in   *)
(* which the last waiter and the completer drop theirs.                      *)
THEOREM RefCountCorrect == Spec => []RefCountExact
<1>1. IInv => RefCountExact
  BY DEF IInv
<1> QED BY <1>1, Inductive, PTL

(* No thread and no chain ever points to a freed entry.                      *)
THEOREM NoUseAfterFree == Spec => []NoDanglingEntry
<1>1. IInv => NoDanglingEntry
  <2> SUFFICES ASSUME IInv, NEW e \in Entries, InTable(e) \/ Sharers(e) # {}
               PROVE  heap[e] # NULL
    BY DEF NoDanglingEntry
  <2>1. CASE InTable(e)
    BY <2>1 DEF IInv, ChainsOK, InTable
  <2>2. CASE Sharers(e) # {}
    BY <2>2, PendingAssumption DEF IInv, PointersOK, Sharers
  <2> QED BY <2>1, <2>2
<1> QED BY <1>1, Inductive, PTL

(* A completion is never missed by a thread that is blocked on the entry.    *)
THEOREM NoLostWakeupCorrect == Spec => []NoLostWakeup
<1>1. IInv => NoLostWakeup
  BY DEF IInv
<1> QED BY <1>1, Inductive, PTL

-----------------------------------------------------------------------------
(* What an entry promises its waiters, when every key fits in an entry: a    *)
(* key has one listed entry, and its fetcher is at work; an entry that is no *)
(* longer listed and not yet completed is in the hands of its completer; and *)
(* a thread holds the entry of its own key.                                  *)
AllShort == \A u \in Urls : Short(u)

OneEntryPerKey ==
  \A e, f \in Entries : InTable(e) /\ InTable(f) /\ heap[e].url = heap[f].url => e = f

ListedFetched ==
  \A e \in Entries : InTable(e) => \E s \in Threads : Fetching(s) /\ url[s] = heap[e].url

UnlistedCompleted ==
  \A e \in Entries :
    heap[e] # NULL /\ ~InTable(e) /\ ~heap[e].completed =>
      \E s \in Threads : pc[s] = "unlinked" /\ entry[s] = e

OwnEntry == \A t \in Threads : entry[t] # NULL => heap[entry[t]].url = url[t]

Served == OneEntryPerKey /\ ListedFetched /\ UnlistedCompleted /\ OwnEntry

LEMMA ServedInit ==
  ASSUME Init
  PROVE  Served
<1>1. /\ \A e : ~InTable(e)
      /\ \A e \in Entries : heap[e] = NULL
      /\ \A t \in Threads : entry[t] = NULL
  BY DEF Init, InTable, ToSet
<1> QED BY <1>1 DEF Served, OneEntryPerKey, ListedFetched, UnlistedCompleted, OwnEntry

(* Register: no listed entry has the key, and the caller becomes its         *)
(* fetcher.                                                                  *)
LEMMA RegisterServed ==
  ASSUME AllShort, IInv, Served, NEW t \in Threads, NEW u \in Urls, Register(t, u)
  PROVE  Served'
<1> USE DEF IInv, Served
<1>1. PICK e \in Entries : AddPending(u, e)
  BY DEF Register, RegisterAt
<1>2. /\ heap'[e] = [url |-> u, ref_count |-> 1, completed |-> FALSE]
      /\ heap[e] = NULL
      /\ \A x \in Entries : x # e => heap'[x] = heap[x]
      /\ \A x \in Entries : InTable(x)' <=> InTable(x) \/ x = e
  BY <1>1, AddPendingTable DEF AddPending, AllShort, Short
<1>3. /\ pc[t] = "idle" /\ entry[t] = NULL /\ entry' = entry
      /\ pc' = [pc EXCEPT ![t] = "fetching"] /\ url' = [url EXCEPT ![t] = u]
      /\ NoMatch(u)
      /\ pc'[t] = "fetching" /\ url'[t] = u
  BY DEF Register, RegisterAt, TypeOK
<1>4. \A x \in Entries : InTable(x) => x # e /\ heap[x].url # u
  <2> SUFFICES ASSUME NEW x \in Entries, InTable(x)
               PROVE  x # e /\ heap[x].url # u
    OBVIOUS
  <2>1. heap[x] # NULL
    BY DEF ChainsOK, InTable
  <2> QED BY <2>1, <1>2, <1>3, NoMatchNotListed
<1>5. OneEntryPerKey'
  BY <1>2, <1>4 DEF OneEntryPerKey
<1>6. ListedFetched'
  <2> SUFFICES ASSUME NEW x \in Entries, InTable(x)'
               PROVE  \E s \in Threads : pc'[s] = "fetching" /\ url'[s] = heap'[x].url
    BY DEF ListedFetched, Fetching
  <2>1. CASE x = e
    BY <2>1, <1>2, <1>3
  <2>2. CASE x # e
    <3>1. PICK s \in Threads : pc[s] = "fetching" /\ url[s] = heap[x].url
      BY <2>2, <1>2 DEF ListedFetched, Fetching
    <3>2. s # t
      BY <3>1, <1>3
    <3> QED BY <2>2, <3>1, <3>2, <1>2, <1>3 DEF TypeOK
  <2> QED BY <2>1, <2>2
<1>7. UnlistedCompleted'
  <2> SUFFICES ASSUME NEW x \in Entries, heap'[x] # NULL, ~InTable(x)', ~heap'[x].completed
               PROVE  \E s \in Threads : pc'[s] = "unlinked" /\ entry'[s] = x
    BY DEF UnlistedCompleted
  <2>1. PICK s \in Threads : pc[s] = "unlinked" /\ entry[s] = x
    BY <1>2 DEF UnlistedCompleted
  <2>2. s # t
    BY <2>1, <1>3
  <2> QED BY <2>1, <2>2, <1>3 DEF TypeOK
<1>8. OwnEntry'
  <2> SUFFICES ASSUME NEW s \in Threads, entry[s] # NULL
               PROVE  heap'[entry[s]].url = url'[s]
    BY <1>3 DEF OwnEntry
  <2>1. entry[s] \in Entries /\ entry[s] # e /\ s # t
    BY <1>2, <1>3 DEF TypeOK, PointersOK
  <2> QED BY <2>1, <1>2, <1>3 DEF OwnEntry, TypeOK
<1> QED BY <1>5, <1>6, <1>7, <1>8

(* Join: the entry found is the entry of the caller's key.                   *)
LEMMA JoinServed ==
  ASSUME IInv, Served, NEW t \in Threads, NEW u \in Urls, Join(t, u)
  PROVE  Served'
<1> USE DEF IInv, Served
<1>1. PICK i \in DOMAIN Chain(u) :
        /\ heap[Chain(u)[i]].url = u
        /\ heap' = [heap EXCEPT ![Chain(u)[i]].ref_count = @ + 1]
        /\ entry' = [entry EXCEPT ![t] = Chain(u)[i]]
  BY DEF Join, FirstMatch, Matches
<1> DEFINE e == Chain(u)[i]
<1>2. e \in Entries /\ InTable(e) /\ heap[e] # NULL
  BY <1>1, ChainElements
<1>3. /\ pc[t] = "idle" /\ pc' = [pc EXCEPT ![t] = "waiting"]
      /\ url' = [url EXCEPT ![t] = u] /\ pending_table' = pending_table
  BY DEF Join
<1>4. \A x \in Entries : heap[x] # NULL =>
        heap'[x].url = heap[x].url /\ heap'[x].completed = heap[x].completed
  <2> SUFFICES ASSUME NEW x \in Entries, heap[x] # NULL
               PROVE  heap'[x].url = heap[x].url /\ heap'[x].completed = heap[x].completed
    OBVIOUS
  <2>1. heap[x] \in PendingEntry
    BY Entered
  <2> QED BY <2>1, <1>1, <1>2 DEF TypeOK, PendingEntry
<1>5. \A x \in Entries : heap'[x] # NULL => heap[x] # NULL
  BY <1>1, <1>2 DEF TypeOK
<1>6. \A x : InTable(x)' <=> InTable(x)
  BY <1>3 DEF InTable
<1>7. \A x \in Entries : InTable(x) => heap[x] # NULL
  BY DEF ChainsOK, InTable
<1>8. \A s \in Threads \ {t} : pc'[s] = pc[s] /\ url'[s] = url[s] /\ entry'[s] = entry[s]
  BY <1>1, <1>3 DEF TypeOK
<1> HIDE DEF e
<1>9. OneEntryPerKey' /\ ListedFetched' /\ UnlistedCompleted'
  BY <1>3, <1>4, <1>5, <1>6, <1>7, <1>8
     DEF OneEntryPerKey, ListedFetched, UnlistedCompleted, Fetching
<1>10. OwnEntry'
  <2> SUFFICES ASSUME NEW s \in Threads, entry'[s] # NULL
               PROVE  heap'[entry'[s]].url = url'[s]
    BY DEF OwnEntry
  <2>1. CASE s = t
    BY <2>1, <1>1, <1>2, <1>3, <1>4 DEF e, TypeOK
  <2>2. CASE s # t
    BY <2>2, <1>4, <1>8 DEF OwnEntry, PointersOK, TypeOK
  <2> QED BY <2>1, <2>2
<1> QED BY <1>9, <1>10

(* Steps inside pending_wait.                                                *)
LEMMA WaitingStepServed ==
  ASSUME IInv, Served, NEW t \in Threads, WaitTest(t) \/ SpuriousWakeup(t)
  PROVE  Served'
<1>1. /\ UNCHANGED <<url, entry, pending_table, heap>>
      /\ pc[t] \in {"waiting", "blocked"}
      /\ \A s \in Threads \ {t} : pc'[s] = pc[s]
  BY DEF WaitTest, SpuriousWakeup, IInv, TypeOK
<1>2. \A x : InTable(x)' <=> InTable(x)
  BY <1>1 DEF InTable
<1> QED BY <1>1, <1>2
        DEF Served, OneEntryPerKey, ListedFetched, UnlistedCompleted, OwnEntry, Fetching

(* Leave and CompleteRelease: an entry that is still allocated keeps its key *)
(* and its flag.                                                             *)
LEMMA DropServed ==
  ASSUME IInv, Served, NEW t \in Threads, Leave(t) \/ CompleteRelease(t)
  PROVE  Served'
<1> USE DEF IInv, Served
<1>1. /\ pc[t] \in {"leaving", "signalled"} /\ DropRef(entry[t])
      /\ pc' = [pc EXCEPT ![t] = "idle"] /\ url' = [url EXCEPT ![t] = NULL]
      /\ entry' = [entry EXCEPT ![t] = NULL] /\ UNCHANGED pending_table
  BY DEF Leave, CompleteRelease, Return
<1>2. PICK e \in Entries : entry[t] = e
  BY <1>1 DEF TypeOK
<1>3. /\ \A x \in Entries : heap'[x] # NULL =>
           /\ heap[x] # NULL
           /\ heap'[x].url = heap[x].url
           /\ heap'[x].completed = heap[x].completed
      /\ \A x \in Entries : InTable(x) => heap'[x] # NULL
      /\ \A x : InTable(x)' <=> InTable(x)
      /\ PointersOK'
  BY <1>1, <1>2, Dropped
<1>4. \A s \in Threads \ {t} : pc'[s] = pc[s] /\ url'[s] = url[s] /\ entry'[s] = entry[s]
  BY <1>1 DEF TypeOK
<1>5. OneEntryPerKey' /\ ListedFetched' /\ UnlistedCompleted'
  BY <1>1, <1>3, <1>4 DEF OneEntryPerKey, ListedFetched, UnlistedCompleted, Fetching
<1>6. OwnEntry'
  <2> SUFFICES ASSUME NEW s \in Threads, entry'[s] # NULL
               PROVE  heap'[entry'[s]].url = url'[s]
    BY DEF OwnEntry
  <2>1. s # t /\ entry[s] \in Entries /\ entry'[s] = entry[s] /\ url'[s] = url[s]
    BY <1>1, <1>4 DEF TypeOK
  <2> QED BY <2>1, <1>3 DEF OwnEntry, PointersOK
<1> QED BY <1>5, <1>6

(* CompleteUnlink: the only listed entry with the fetched key goes.          *)
LEMMA CompleteUnlinkServed ==
  ASSUME IInv, Served, NEW t \in Threads, CompleteUnlink(t)
  PROVE  Served'
<1> USE DEF IInv, Served
<1> DEFINE u == url[t]
<1>1. /\ pc[t] = "fetching" /\ u \in Urls
      /\ pc' = [pc EXCEPT ![t] = "unlinked"] /\ url' = url /\ heap' = heap
  BY DEF CompleteUnlink, TypeOK
<1>2. PICK i \in DOMAIN Chain(u) :
        /\ heap[Chain(u)[i]].url = u
        /\ entry' = [entry EXCEPT ![t] = Chain(u)[i]]
        /\ pending_table' = [pending_table EXCEPT ![PendingHash[u]] = RemoveAt(@, i)]
  BY DEF CompleteUnlink, FirstMatch, Matches
<1> DEFINE e == Chain(u)[i]
<1>3. e \in Entries /\ InTable(e)
  BY <1>1, ChainElements
<1>4. \A x \in Entries : InTable(x)' <=> InTable(x) /\ x # e
  BY <1>1, <1>2, UnlinkTable
<1>5. pc'[t] = "unlinked" /\ entry'[t] = e /\ heap[e].url = url[t]
  BY <1>1, <1>2 DEF TypeOK
<1>6. \A s \in Threads \ {t} : pc'[s] = pc[s] /\ entry'[s] = entry[s]
  BY <1>1, <1>2 DEF TypeOK
<1> HIDE DEF e
<1>7. OneEntryPerKey'
  BY <1>1, <1>4 DEF OneEntryPerKey
<1>8. ListedFetched'
  <2> SUFFICES ASSUME NEW x \in Entries, InTable(x), x # e
               PROVE  \E s \in Threads : pc'[s] = "fetching" /\ url[s] = heap[x].url
    BY <1>1, <1>4 DEF ListedFetched, Fetching
  <2>1. PICK s \in Threads : pc[s] = "fetching" /\ url[s] = heap[x].url
    BY DEF ListedFetched, Fetching
  <2>2. s # t
    BY <2>1, <1>3, <1>5 DEF OneEntryPerKey
  <2> QED BY <2>1, <2>2, <1>6
<1>9. UnlistedCompleted'
  <2> SUFFICES ASSUME NEW x \in Entries, heap[x] # NULL, ~InTable(x) \/ x = e, ~heap[x].completed
               PROVE  \E s \in Threads : pc'[s] = "unlinked" /\ entry'[s] = x
    BY <1>1, <1>4 DEF UnlistedCompleted
  <2>1. CASE x = e
    BY <2>1, <1>5
  <2>2. CASE x # e
    <3>1. PICK s \in Threads : pc[s] = "unlinked" /\ entry[s] = x
      BY <2>2 DEF UnlistedCompleted
    <3> QED BY <3>1, <1>1, <1>6
  <2> QED BY <2>1, <2>2
<1>10. OwnEntry'
  BY <1>1, <1>5, <1>6 DEF OwnEntry
<1> QED BY <1>7, <1>8, <1>9, <1>10

(* CompleteNoMatch: a fetcher always finds its entry.                        *)
LEMMA EntryFound ==
  ASSUME AllShort, IInv, NEW t \in Threads
  PROVE  ~CompleteNoMatch(t)
<1> SUFFICES ASSUME CompleteNoMatch(t)
             PROVE  FALSE
  OBVIOUS
<1>1. Fetching(t) /\ url[t] \in Urls /\ NoMatch(url[t])
  BY DEF CompleteNoMatch, IInv, TypeOK, Fetching
<1>2. PICK e \in Entries : InTable(e) /\ heap[e].url = url[t]
  BY <1>1 DEF IInv, FetcherListed, AllShort
<1> QED BY <1>1, <1>2, NoMatchNotListed DEF IInv

(* CompleteBroadcast: the completer's entry is completed.                    *)
LEMMA CompleteBroadcastServed ==
  ASSUME IInv, Served, NEW t \in Threads, CompleteBroadcast(t)
  PROVE  Served'
<1> USE DEF IInv, Served
<1>1. PICK e \in Entries : entry[t] = e
  BY DEF CompleteBroadcast, TypeOK
<1>2. /\ pc[t] = "unlinked"
      /\ heap' = [heap EXCEPT ![e] = [heap[e] EXCEPT !.completed = TRUE]]
      /\ UNCHANGED <<url, entry, pending_table>>
      /\ \A s \in Threads \ {t} : pc'[s] # pc[s] => pc[s] = "blocked"
  BY <1>1 DEF CompleteBroadcast
<1>3. heap[e] # NULL
  BY <1>1, PendingAssumption DEF PointersOK
<1>4. \A x \in Entries : /\ heap'[x] # NULL => heap[x] # NULL
                         /\ heap[x] # NULL => heap'[x].url = heap[x].url
                         /\ x # e => heap'[x] = heap[x]
  <2> SUFFICES ASSUME NEW x \in Entries
               PROVE  /\ heap'[x] # NULL => heap[x] # NULL
                      /\ heap[x] # NULL => heap'[x].url = heap[x].url
                      /\ x # e => heap'[x] = heap[x]
    OBVIOUS
  <2>1. heap[e] \in PendingEntry
    BY <1>3, Entered
  <2> QED BY <2>1, <1>2, <1>3 DEF TypeOK, PendingEntry
<1>5. heap'[e].completed
  <2>1. heap[e] \in PendingEntry
    BY <1>3, Entered
  <2> QED BY <2>1, <1>2 DEF TypeOK, PendingEntry
<1>6. \A x : InTable(x)' <=> InTable(x)
  BY <1>2 DEF InTable
<1>7. \A x \in Entries : InTable(x) => heap[x] # NULL
  BY DEF ChainsOK, InTable
<1>8. OneEntryPerKey' /\ ListedFetched'
  BY <1>2, <1>4, <1>6, <1>7 DEF OneEntryPerKey, ListedFetched, Fetching
<1>9. UnlistedCompleted'
  <2> SUFFICES ASSUME NEW x \in Entries, heap'[x] # NULL, ~InTable(x), ~heap'[x].completed
               PROVE  \E s \in Threads : pc'[s] = "unlinked" /\ entry[s] = x
    BY <1>2, <1>6 DEF UnlistedCompleted
  <2>1. x # e
    BY <1>5
  <2>2. PICK s \in Threads : pc[s] = "unlinked" /\ entry[s] = x
    BY <2>1, <1>4 DEF UnlistedCompleted
  <2> QED BY <2>1, <2>2, <1>1, <1>2
<1>10. OwnEntry'
  BY <1>2, <1>4 DEF OwnEntry, PointersOK, TypeOK
<1> QED BY <1>8, <1>9, <1>10

LEMMA NextServed ==
  ASSUME AllShort, IInv, Served, [Next]_vars
  PROVE  Served'
<1>1. CASE UNCHANGED vars
  <2>1. \A x : InTable(x)' <=> InTable(x)
    BY <1>1 DEF vars, InTable
  <2> QED BY <1>1, <2>1
          DEF vars, Served, OneEntryPerKey, ListedFetched, UnlistedCompleted, OwnEntry, Fetching
<1>2. CASE Next
  BY <1>2, RegisterServed, JoinServed, WaitingStepServed, DropServed, CompleteUnlinkServed,
     EntryFound, CompleteBroadcastServed DEF Next, Step
<1> QED BY <1>1, <1>2

(* With keys that fit in an entry, what an entry promises holds in every     *)
(* reachable state.                                                          *)
THEOREM AlwaysServed == AllShort => (Spec => []Served)
<1> SUFFICES ASSUME AllShort PROVE Spec => []Served
  OBVIOUS
<1>1. Init => Served
  BY ServedInit
<1>2. IInv /\ Served /\ [Next]_vars => Served'
  BY NextServed
<1> QED BY <1>1, <1>2, Inductive, PTL DEF Spec

(* WaitersHaveFetcher: nobody waits on an entry that no thread will          *)
(* complete, if every key fits in an entry.                                  *)
THEOREM FetcherAtWork == AllShort => (Spec => []WaitersHaveFetcher)
<1> SUFFICES ASSUME AllShort PROVE Spec => []WaitersHaveFetcher
  OBVIOUS
<1>1. IInv /\ Served => WaitersHaveFetcher
  <2> SUFFICES ASSUME IInv, Served, NEW t \in Threads, pc[t] \in {"waiting", "blocked"},
                      ~heap[entry[t]].completed
               PROVE  \E s \in Threads : pc[s] \in {"fetching", "unlinked"} /\ url[s] = url[t]
    BY DEF WaitersHaveFetcher
  <2>1. PICK e \in Entries : entry[t] = e
    BY DEF IInv, TypeOK
  <2>2. heap[e] # NULL /\ heap[e].url = url[t]
    BY <2>1, PendingAssumption DEF IInv, PointersOK, Served, OwnEntry
  <2>3. CASE InTable(e)
    BY <2>2, <2>3 DEF Served, ListedFetched, Fetching
  <2>4. CASE ~InTable(e)
    <3>1. PICK s \in Threads : pc[s] = "unlinked" /\ entry[s] = e
      BY <2>1, <2>2, <2>4 DEF Served, UnlistedCompleted
    <3>2. url[s] = heap[e].url
      BY <3>1, PendingAssumption DEF Served, OwnEntry
    <3> QED BY <2>2, <3>1, <3>2
  <2> QED BY <2>3, <2>4
<1> QED BY <1>1, Inductive, AlwaysServed, PTL

(* EntriesReclaimed: when the last thread has left, no entry is left in the  *)
(* heap or in a chain, if every key fits in an entry.                        *)
THEOREM NothingLeftBehind == AllShort => (Spec => []EntriesReclaimed)
<1> SUFFICES ASSUME AllShort PROVE Spec => []EntriesReclaimed
  OBVIOUS
<1>1. IInv /\ Served => EntriesReclaimed
  <2> SUFFICES ASSUME IInv, Served, \A t \in Threads : pc[t] = "idle"
               PROVE  /\ \A e \in Entries : heap[e] = NULL
                      /\ \A b \in Buckets : pending_table[b] = <<>>
    BY DEF EntriesReclaimed
  <2>1. \A e \in Entries : ~InTable(e)
    BY DEF Served, ListedFetched, Fetching
  <2>2. ASSUME NEW e \in Entries
        PROVE  heap[e] = NULL
    <3>1. Sharers(e) = {}
      BY PendingAssumption DEF IInv, TypeOK, Sharers
    <3> QED BY <2>1, <3>1 DEF IInv, EntriesHeld
  <2>3. ASSUME NEW b \in Buckets
        PROVE  pending_table[b] = <<>>
    <3>1. pending_table[b] \in Seq(Entries)
      BY DEF IInv, TypeOK
    <3>2. \A i \in DOMAIN pending_table[b] : InTable(pending_table[b][i])
      BY <3>1 DEF InTable, ToSet
    <3>3. ASSUME pending_table[b] # <<>>
          PROVE  FALSE
      <4>1. 1 \in DOMAIN pending_table[b] /\ pending_table[b][1] \in Entries
        BY <3>1, <3>3
      <4> QED BY <4>1, <3>2, <2>1
    <3> QED BY <3>3
  <2> QED BY <2>2, <2>3
<1> QED BY <1>1, Inductive, AlwaysServed, PTL
=============================================================================

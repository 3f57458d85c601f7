----------------------------- MODULE CacheProofs -----------------------------
(* Machine-checked proofs about the response cache: its pointers are one     *)
(* list, its locks keep lookups and evictions apart, its counter is exact,   *)
(* and with the insertion into the hash table it implements an LRU cache.    *)
EXTENDS Cache, ListFacts

-----------------------------------------------------------------------------
(* The inductive invariant.  To the properties of Cache it adds what the     *)
(* thread that adds an element asks for, ...                                 *)
Requested ==
  \A t \in Threads : pc[t] = "adding" =>
    /\ url[t] \in Urls /\ data[t] \in Datas
    /\ ElementSize(url[t], data[t]) <= MAX_ELEMENT_SIZE

(* ... and splits TableMatchesList: chains hold elements of the list whether *)
(* insertions are made or not, ...                                           *)
ChainsHold ==
  \A b \in Buckets :
    /\ IsInjective(hash_table[b])
    /\ \A e \in ToSet(hash_table[b]) : e \in Allocated /\ Hash[heap[e].url] = b

(* ... and hold all of them when they are.                                   *)
AllHashed == \A e \in Allocated : e \in ToSet(hash_table[Hash[heap[e].url]])

IInv ==
  /\ TypeOK /\ ListWellFormed /\ NothingLeaked /\ SiteValid /\ Requested
  /\ ChainsHold /\ (HashInsert => AllHashed)
  /\ SizeAccounted

-----------------------------------------------------------------------------
(* The heap.                                                                 *)
Heap == [Addresses -> Element \cup {NULL}]

LEMMA NullApart ==
  /\ NULL \notin Addresses /\ NULL \notin Element /\ NULL \notin Threads
  /\ NULL \notin Urls /\ NULL \notin Datas
  /\ \A u \in Urls, d \in Datas : [url |-> u, data |-> d] # NULL
BY CacheAssumption, NoElement

(* g is h with the pointers changed: the same elements, and the lru_prev of  *)
(* x is prev[x], its lru_next next[x].                                       *)
Relinks(g, h, prev, next) ==
  /\ g \in Heap
  /\ \A x \in Addresses :
       /\ g[x] = NULL <=> h[x] = NULL
       /\ h[x] # NULL =>
            /\ g[x].url = h[x].url /\ g[x].data = h[x].data
            /\ g[x].lru_prev = prev[x] /\ g[x].lru_next = next[x]

(* Redirecting one lru_next, ...                                             *)
LEMMA SetNextFields ==
  ASSUME NEW h \in Heap, NEW p \in Pointer, p # NULL => h[p] # NULL, NEW e \in Pointer
  PROVE  Relinks(SetNext(h, p, e), h,
                 [x \in Addresses |-> h[x].lru_prev],
                 [x \in Addresses |-> IF x = p THEN e ELSE h[x].lru_next])
<1> DEFINE g == SetNext(h, p, e)
           prev == [x \in Addresses |-> h[x].lru_prev]
           next == [x \in Addresses |-> IF x = p THEN e ELSE h[x].lru_next]
<1>0. \A x \in Addresses : /\ prev[x] = h[x].lru_prev
                           /\ next[x] = IF x = p THEN e ELSE h[x].lru_next
  OBVIOUS
<1> HIDE DEF prev, next
<1> SUFFICES Relinks(g, h, prev, next)
  BY DEF prev, next
<1>1. CASE p = NULL
  <2>1. g = h
    BY <1>1 DEF SetNext
  <2> QED BY <2>1, <1>0, <1>1, NullApart DEF Relinks
<1>2. CASE p # NULL
  <2>1. p \in Addresses /\ h[p] \in Element
    BY <1>2 DEF Pointer, Heap
  <2>2. g = [h EXCEPT ![p].lru_next = e]
    BY <1>2 DEF SetNext
  <2>3. [h[p] EXCEPT !.lru_next = e] \in Element
    BY <2>1 DEF Element
  <2>4. g \in Heap
    BY <2>2, <2>3 DEF Heap
  <2>5. \A x \in Addresses : x # p => g[x] = h[x]
    BY <2>2 DEF Heap
  <2>6. /\ g[p].url = h[p].url /\ g[p].data = h[p].data
        /\ g[p].lru_prev = h[p].lru_prev /\ g[p].lru_next = e /\ g[p] # NULL
    <3>1. g[p] = [h[p] EXCEPT !.lru_next = e]
      BY <2>1, <2>2 DEF Heap
    <3> QED BY <3>1, <2>1, <2>3, NullApart DEF Element
  <2> HIDE DEF g
  <2> QED BY <1>0, <1>2, <2>4, <2>5, <2>6 DEF Relinks
<1> QED BY <1>1, <1>2

(* ... or one lru_prev.                                                      *)
LEMMA SetPrevFields ==
  ASSUME NEW h \in Heap, NEW n \in Pointer, n # NULL => h[n] # NULL, NEW e \in Pointer
  PROVE  Relinks(SetPrev(h, n, e), h,
                 [x \in Addresses |-> IF x = n THEN e ELSE h[x].lru_prev],
                 [x \in Addresses |-> h[x].lru_next])
<1> DEFINE g == SetPrev(h, n, e)
           prev == [x \in Addresses |-> IF x = n THEN e ELSE h[x].lru_prev]
           next == [x \in Addresses |-> h[x].lru_next]
<1>0. \A x \in Addresses : /\ prev[x] = IF x = n THEN e ELSE h[x].lru_prev
                           /\ next[x] = h[x].lru_next
  OBVIOUS
<1> HIDE DEF prev, next
<1> SUFFICES Relinks(g, h, prev, next)
  BY DEF prev, next
<1>1. CASE n = NULL
  <2>1. g = h
    BY <1>1 DEF SetPrev
  <2> QED BY <2>1, <1>0, <1>1, NullApart DEF Relinks
<1>2. CASE n # NULL
  <2>1. n \in Addresses /\ h[n] \in Element
    BY <1>2 DEF Pointer, Heap
  <2>2. g = [h EXCEPT ![n].lru_prev = e]
    BY <1>2 DEF SetPrev
  <2>3. [h[n] EXCEPT !.lru_prev = e] \in Element
    BY <2>1 DEF Element
  <2>4. g \in Heap
    BY <2>2, <2>3 DEF Heap
  <2>5. \A x \in Addresses : x # n => g[x] = h[x]
    BY <2>2 DEF Heap
  <2>6. /\ g[n].url = h[n].url /\ g[n].data = h[n].data
        /\ g[n].lru_prev = e /\ g[n].lru_next = h[n].lru_next /\ g[n] # NULL
    <3>1. g[n] = [h[n] EXCEPT !.lru_prev = e]
      BY <2>1, <2>2 DEF Heap
    <3> QED BY <3>1, <2>1, <2>3, NullApart DEF Element
  <2> HIDE DEF g
  <2> QED BY <1>0, <1>2, <2>4, <2>5, <2>6 DEF Relinks
<1> QED BY <1>1, <1>2

(* Setting both pointers of an element.                                      *)
LEMMA SetBothFields ==
  ASSUME NEW h \in Heap, NEW e \in Addresses, h[e] # NULL, NEW p \in Pointer, NEW n \in Pointer
  PROVE  Relinks([h EXCEPT ![e].lru_prev = p, ![e].lru_next = n], h,
                 [x \in Addresses |-> IF x = e THEN p ELSE h[x].lru_prev],
                 [x \in Addresses |-> IF x = e THEN n ELSE h[x].lru_next])
<1> DEFINE g == [h EXCEPT ![e].lru_prev = p, ![e].lru_next = n]
           prev == [x \in Addresses |-> IF x = e THEN p ELSE h[x].lru_prev]
           next == [x \in Addresses |-> IF x = e THEN n ELSE h[x].lru_next]
<1>0. \A x \in Addresses : /\ prev[x] = IF x = e THEN p ELSE h[x].lru_prev
                           /\ next[x] = IF x = e THEN n ELSE h[x].lru_next
  OBVIOUS
<1> HIDE DEF prev, next
<1>1. h[e] \in Element
  BY DEF Heap
<1>2. g[e] = [h[e] EXCEPT !.lru_prev = p, !.lru_next = n] /\ DOMAIN g = Addresses
  BY DEF Heap
<1>3. [h[e] EXCEPT !.lru_prev = p, !.lru_next = n] \in Element
  BY <1>1 DEF Element
<1>4. \A x \in Addresses : x # e => g[x] = h[x]
  BY DEF Heap
<1>5. /\ g[e].url = h[e].url /\ g[e].data = h[e].data
      /\ g[e].lru_prev = p /\ g[e].lru_next = n /\ g[e] # NULL
  BY <1>1, <1>2, <1>3, NullApart DEF Element
<1>6. g = [x \in Addresses |-> g[x]] /\ \A x \in Addresses : g[x] \in Element \cup {NULL}
  BY <1>2, <1>3, <1>4 DEF Heap
<1> HIDE DEF g
<1>7. g \in Heap
  BY <1>6 DEF Heap
<1>8. Relinks(g, h, prev, next)
  BY <1>0, <1>4, <1>5, <1>7 DEF Relinks
<1> QED BY <1>8 DEF g, prev, next

-----------------------------------------------------------------------------
(* The list, of any heap h.                                                  *)
Linked(h, head, tail, q) ==
  /\ IsInjective(q)
  /\ head = IF Len(q) = 0 THEN NULL ELSE q[1]
  /\ tail = IF Len(q) = 0 THEN NULL ELSE q[Len(q)]
  /\ \A i \in 1..Len(q) :
       /\ h[q[i]] # NULL
       /\ h[q[i]].lru_prev = IF i = 1 THEN NULL ELSE q[i - 1]
       /\ h[q[i]].lru_next = IF i = Len(q) THEN NULL ELSE q[i + 1]

UnlinkedIn(h, e) ==
  [SetPrev(SetNext(h, h[e].lru_prev, h[e].lru_next), h[e].lru_next, h[e].lru_prev)
     EXCEPT ![e].lru_prev = NULL, ![e].lru_next = NULL]

LinkedAtTail(h, tail, e) ==
  SetNext([h EXCEPT ![e].lru_prev = tail, ![e].lru_next = NULL], tail, e)

(* Only the pointers of elements are changed.                                *)
SameData(g, h) ==
  /\ g \in Heap
  /\ \A x \in Addresses :
       /\ g[x] = NULL <=> h[x] = NULL
       /\ h[x] # NULL => g[x].url = h[x].url /\ g[x].data = h[x].data

(* The pointers lru_remove leaves.                                           *)
LEMMA UnlinkedFields ==
  ASSUME NEW h \in Heap, NEW e \in Addresses, h[e] # NULL,
         NEW p \in Pointer, p = h[e].lru_prev, p # NULL => h[p] # NULL,
         NEW n \in Pointer, n = h[e].lru_next, n # NULL => h[n] # NULL
  PROVE  /\ SameData(UnlinkedIn(h, e), h)
         /\ \A x \in Addresses : h[x] # NULL =>
              /\ UnlinkedIn(h, e)[x].lru_prev =
                   IF x = e THEN NULL ELSE IF x = n THEN p ELSE h[x].lru_prev
              /\ UnlinkedIn(h, e)[x].lru_next =
                   IF x = e THEN NULL ELSE IF x = p THEN n ELSE h[x].lru_next
<1> DEFINE f == SetNext(h, p, n)
           g == SetPrev(f, n, p)
           r == [g EXCEPT ![e].lru_prev = NULL, ![e].lru_next = NULL]
<1>1. r = UnlinkedIn(h, e)
  BY DEF UnlinkedIn
<1>2. NULL \in Pointer
  BY DEF Pointer
<1>3. /\ f \in Heap
      /\ \A x \in Addresses :
           /\ f[x] = NULL <=> h[x] = NULL
           /\ h[x] # NULL =>
                /\ f[x].url = h[x].url /\ f[x].data = h[x].data
                /\ f[x].lru_prev = h[x].lru_prev
                /\ f[x].lru_next = IF x = p THEN n ELSE h[x].lru_next
  BY SetNextFields DEF Relinks
<1> HIDE DEF f
<1>4. n # NULL => f[n] # NULL
  BY <1>3 DEF Pointer
<1>5. /\ g \in Heap
      /\ \A x \in Addresses :
           /\ g[x] = NULL <=> f[x] = NULL
           /\ f[x] # NULL =>
                /\ g[x].url = f[x].url /\ g[x].data = f[x].data
                /\ g[x].lru_prev = IF x = n THEN p ELSE f[x].lru_prev
                /\ g[x].lru_next = f[x].lru_next
  BY <1>3, <1>4, SetPrevFields DEF Relinks
<1> HIDE DEF g
<1>6. g[e] # NULL
  BY <1>3, <1>5
<1>7. /\ r \in Heap
      /\ \A x \in Addresses :
           /\ r[x] = NULL <=> g[x] = NULL
           /\ g[x] # NULL =>
                /\ r[x].url = g[x].url /\ r[x].data = g[x].data
                /\ r[x].lru_prev = IF x = e THEN NULL ELSE g[x].lru_prev
                /\ r[x].lru_next = IF x = e THEN NULL ELSE g[x].lru_next
  <2>1. Relinks(r, g, [x \in Addresses |-> IF x = e THEN NULL ELSE g[x].lru_prev],
                      [x \in Addresses |-> IF x = e THEN NULL ELSE g[x].lru_next])
    BY <1>2, <1>5, <1>6, SetBothFields
  <2> HIDE DEF r
  <2> QED BY <2>1 DEF Relinks
<1> HIDE DEF r
<1>8. SameData(r, h)
  BY <1>3, <1>5, <1>7 DEF SameData
<1>9. ASSUME NEW x \in Addresses, h[x] # NULL
      PROVE  /\ r[x].lru_prev = IF x = e THEN NULL ELSE IF x = n THEN p ELSE h[x].lru_prev
             /\ r[x].lru_next = IF x = e THEN NULL ELSE IF x = p THEN n ELSE h[x].lru_next
  BY <1>3, <1>5, <1>7, <1>9
<1> QED BY <1>1, <1>8, <1>9

(* lru_remove takes exactly the element out of the list.                     *)
LEMMA UnlinkKeepsList ==
  ASSUME NEW h \in Heap, NEW q \in Seq(Addresses), NEW head, NEW tail,
         Linked(h, head, tail, q), NEW k \in 1..Len(q)
  PROVE  /\ SameData(UnlinkedIn(h, q[k]), h)
         /\ Linked(UnlinkedIn(h, q[k]),
                   IF h[q[k]].lru_prev = NULL THEN h[q[k]].lru_next ELSE head,
                   IF h[q[k]].lru_next = NULL THEN h[q[k]].lru_prev ELSE tail,
                   RemoveAt(q, k))
<1> DEFINE e == q[k]
           m == Len(q)
           p == IF k = 1 THEN NULL ELSE q[k - 1]
           n == IF k = m THEN NULL ELSE q[k + 1]
           g == UnlinkedIn(h, e)
           r == RemoveAt(q, k)
<1>0. DOMAIN q = 1..m /\ \A i \in 1..m : q[i] \in Addresses
  OBVIOUS
<1>1. m \in Nat /\ k \in Nat /\ 1 <= k /\ k <= m
  OBVIOUS
<1>2. \A i, j \in 1..m : q[i] = q[j] => i = j
  BY <1>0 DEF Linked, IsInjective
<1>3. \A i \in 1..m :
        /\ h[q[i]] # NULL
        /\ h[q[i]].lru_prev = IF i = 1 THEN NULL ELSE q[i - 1]
        /\ h[q[i]].lru_next = IF i = m THEN NULL ELSE q[i + 1]
  BY DEF Linked
<1> HIDE DEF m
<1>4. e \in Addresses /\ h[e] # NULL /\ p = h[e].lru_prev /\ n = h[e].lru_next
  BY <1>0, <1>1, <1>3
<1>5. /\ k # 1 => k - 1 \in 1..m
      /\ k # m => k + 1 \in 1..m
  BY <1>1
<1>6. /\ p \in Pointer /\ (p # NULL => h[p] # NULL)
      /\ n \in Pointer /\ (n # NULL => h[n] # NULL)
  BY <1>0, <1>1, <1>3, <1>5 DEF Pointer
<1>7. /\ SameData(g, h)
      /\ \A x \in Addresses : h[x] # NULL =>
           /\ g[x].lru_prev = IF x = e THEN NULL ELSE IF x = n THEN p ELSE h[x].lru_prev
           /\ g[x].lru_next = IF x = e THEN NULL ELSE IF x = p THEN n ELSE h[x].lru_next
  <2> HIDE DEF e, p, n
  <2> QED BY <1>4, <1>6, UnlinkedFields DEF g
<1>8. /\ r \in Seq(Addresses) /\ Len(r) = m - 1
      /\ \A j \in 1..(m - 1) : r[j] = IF j < k THEN q[j] ELSE q[j + 1]
  BY RemoveAtSeq DEF m
<1>9. IsInjective(r)
  BY <1>0, <1>1, RemoveAtSet DEF Linked
<1> HIDE DEF g, r
<1>10. ASSUME NEW j \in 1..(m - 1)
       PROVE  /\ g[r[j]] # NULL
              /\ g[r[j]].lru_prev = IF j = 1 THEN NULL ELSE r[j - 1]
              /\ g[r[j]].lru_next = IF j = m - 1 THEN NULL ELSE r[j + 1]
  <2> DEFINE i == IF j < k THEN j ELSE j + 1
  <2>1. i \in 1..m /\ i # k /\ r[j] = q[i]
    BY <1>1, <1>8
  <2>2. /\ (i = k + 1) <=> (j = k)
        /\ (i = k - 1) <=> (j = k - 1)
        /\ (j < k) => i = j
        /\ ~ (j < k) => i = j + 1
    BY <1>1
  <2> HIDE DEF i
  <2>3. q[i] \in Addresses /\ q[i] # e /\ h[q[i]] # NULL
    BY <2>1, <1>0, <1>1, <1>2, <1>3
  <2>4. /\ (q[i] = n) <=> (j = k)
        /\ (q[i] = p) <=> (j = k - 1)
    <3>1. NULL \notin Addresses
      BY NullApart
    <3>2. (q[i] = n) <=> (k # m /\ i = k + 1)
      BY <2>1, <2>3, <1>0, <1>1, <1>2, <1>5, <3>1
    <3>3. (q[i] = p) <=> (k # 1 /\ i = k - 1)
      BY <2>1, <2>3, <1>0, <1>1, <1>2, <1>5, <3>1
    <3> QED BY <3>2, <3>3, <2>1, <2>2, <1>1
  <2>5. /\ g[r[j]] # NULL
        /\ g[r[j]].lru_prev = IF j = k THEN p ELSE h[q[i]].lru_prev
        /\ g[r[j]].lru_next = IF j = k - 1 THEN n ELSE h[q[i]].lru_next
    BY <2>1, <2>3, <2>4, <1>7 DEF SameData
  <2>6. /\ h[q[i]].lru_prev = IF i = 1 THEN NULL ELSE q[i - 1]
        /\ h[q[i]].lru_next = IF i = m THEN NULL ELSE q[i + 1]
    BY <2>1, <1>3
  <2>7. (IF j = k THEN p ELSE h[q[i]].lru_prev) = IF j = 1 THEN NULL ELSE r[j - 1]
    <3>1. j # 1 => j - 1 \in 1..(m - 1)
      BY <1>1
    <3>2. j # 1 => r[j - 1] = IF j - 1 < k THEN q[j - 1] ELSE q[j]
      <4>1. (j - 1) + 1 = j
        BY <1>1
      <4> QED BY <3>1, <4>1, <1>8
    <3>3. CASE j < k
      BY <3>2, <3>3, <2>2, <2>6, <1>1
    <3>4. CASE j = k
      BY <3>2, <3>4, <1>1
    <3>5. CASE j > k
      <4>1. i = j + 1 /\ i # 1 /\ i - 1 = j /\ j # 1 /\ ~ (j - 1 < k) /\ j # k
        BY <3>5, <2>2, <1>1
      <4> QED BY <4>1, <3>2, <2>6
    <3> QED BY <3>3, <3>4, <3>5, <1>1
  <2>8. (IF j = k - 1 THEN n ELSE h[q[i]].lru_next) = IF j = m - 1 THEN NULL ELSE r[j + 1]
    <3>1. j # m - 1 => j + 1 \in 1..(m - 1)
      BY <1>1
    <3>2. j # m - 1 => r[j + 1] = IF j + 1 < k THEN q[j + 1] ELSE q[j + 2]
      <4>1. (j + 1) + 1 = j + 2
        BY <1>1
      <4> QED BY <3>1, <4>1, <1>8
    <3>3. CASE j < k - 1
      <4>1. i = j /\ i # m /\ j # m - 1 /\ j + 1 < k /\ j # k - 1
        BY <3>3, <2>2, <1>1
      <4> QED BY <4>1, <3>2, <2>6
    <3>4. CASE j = k - 1
      <4>1. /\ (j = m - 1) <=> (k = m)
            /\ j + 2 = k + 1 /\ ~ (j + 1 < k)
        BY <3>4, <1>1
      <4> QED BY <4>1, <3>2, <3>4
    <3>5. CASE j >= k
      <4>1. i = j + 1 /\ i + 1 = j + 2 /\ ~ (j + 1 < k) /\ j # k - 1 /\ ((i = m) <=> (j = m - 1))
        BY <3>5, <2>2, <1>1
      <4> QED BY <4>1, <3>2, <2>6
    <3> QED BY <3>3, <3>4, <3>5, <1>1
  <2> QED BY <2>5, <2>7, <2>8
<1>11. (IF h[e].lru_prev = NULL THEN h[e].lru_next ELSE head)
         = IF Len(r) = 0 THEN NULL ELSE r[1]
  <2>1. head = q[1]
    BY <1>1 DEF Linked, m
  <2>2. CASE k = 1
    <3>1. h[e].lru_prev = NULL /\ h[e].lru_next = IF m = 1 THEN NULL ELSE q[2]
      BY <2>2, <1>4
    <3>2. m # 1 => r[1] = q[2]
      <4>1. m # 1 => 1 \in 1..(m - 1)
        BY <1>1
      <4> QED BY <4>1, <2>2, <1>8
    <3> QED BY <3>1, <3>2, <1>1, <1>8
  <2>3. CASE k # 1
    <3>1. h[e].lru_prev = q[k - 1] /\ q[k - 1] # NULL
      BY <2>3, <1>0, <1>1, <1>4, <1>5, NullApart
    <3>2. 1 \in 1..(m - 1) /\ 1 < k
      BY <2>3, <1>1
    <3> QED BY <3>1, <3>2, <2>1, <1>8, <1>1
  <2> QED BY <2>2, <2>3
<1>12. (IF h[e].lru_next = NULL THEN h[e].lru_prev ELSE tail)
         = IF Len(r) = 0 THEN NULL ELSE r[Len(r)]
  <2>1. tail = q[m]
    BY <1>1 DEF Linked, m
  <2>2. CASE k = m
    <3>1. h[e].lru_next = NULL /\ h[e].lru_prev = IF m = 1 THEN NULL ELSE q[m - 1]
      BY <2>2, <1>4
    <3>2. m # 1 => r[m - 1] = q[m - 1]
      <4>1. m # 1 => m - 1 \in 1..(m - 1) /\ m - 1 < k
        BY <2>2, <1>1
      <4> QED BY <4>1, <1>8
    <3> QED BY <3>1, <3>2, <1>1, <1>8
  <2>3. CASE k # m
    <3>1. h[e].lru_next = q[k + 1] /\ q[k + 1] # NULL
      BY <2>3, <1>0, <1>1, <1>4, <1>5, NullApart
    <3>2. m - 1 \in 1..(m - 1) /\ ~ (m - 1 < k) /\ (m - 1) + 1 = m
      BY <2>3, <1>1
    <3>3. r[m - 1] = q[m]
      BY <3>2, <1>8
    <3> QED BY <3>1, <3>2, <3>3, <2>1, <1>8, <1>1
  <2> QED BY <2>2, <2>3
<1>13. Linked(g, IF h[e].lru_prev = NULL THEN h[e].lru_next ELSE head,
                 IF h[e].lru_next = NULL THEN h[e].lru_prev ELSE tail, r)
  BY <1>8, <1>9, <1>10, <1>11, <1>12 DEF Linked
<1> QED BY <1>7, <1>13 DEF g, r

(* lru_append_tail puts an element that is not in the list at its end.       *)
LEMMA AppendKeepsList ==
  ASSUME NEW h \in Heap, NEW q \in Seq(Addresses), NEW head, NEW tail,
         Linked(h, head, tail, q), NEW e \in Addresses, h[e] # NULL, e \notin ToSet(q)
  PROVE  /\ SameData(LinkedAtTail(h, tail, e), h)
         /\ Linked(LinkedAtTail(h, tail, e), IF head = NULL THEN e ELSE head, e, Append(q, e))
<1> DEFINE m == Len(q)
           f == [h EXCEPT ![e].lru_prev = tail, ![e].lru_next = NULL]
           g == LinkedAtTail(h, tail, e)
           r == Append(q, e)
<1>1. m \in Nat
  OBVIOUS
<1>2. DOMAIN q = 1..m /\ \A i \in 1..m : q[i] \in Addresses
  OBVIOUS
<1>3. /\ \A i, j \in 1..m : q[i] = q[j] => i = j
      /\ \A i \in 1..m : q[i] # e
  BY <1>2 DEF Linked, IsInjective, ToSet
<1>4. \A i \in 1..m :
        /\ h[q[i]] # NULL
        /\ h[q[i]].lru_prev = IF i = 1 THEN NULL ELSE q[i - 1]
        /\ h[q[i]].lru_next = IF i = m THEN NULL ELSE q[i + 1]
  BY DEF Linked
<1>5. tail = (IF m = 0 THEN NULL ELSE q[m]) /\ head = (IF m = 0 THEN NULL ELSE q[1])
  BY DEF Linked
<1>6. /\ r \in Seq(Addresses) /\ Len(r) = m + 1 /\ IsInjective(r)
      /\ \A i \in 1..(m + 1) : r[i] = IF i = m + 1 THEN e ELSE q[i]
  BY AppendSet DEF Linked
<1> HIDE DEF m, r
<1>7. m # 0 => 1 \in 1..m /\ m \in 1..m
  BY <1>1
<1>8. tail \in Pointer /\ NULL \in Pointer /\ (tail # NULL => h[tail] # NULL)
      /\ e \in Pointer /\ tail # e
  BY <1>2, <1>3, <1>4, <1>5, <1>7, NullApart DEF Pointer
<1>9. /\ f \in Heap
      /\ \A x \in Addresses :
           /\ f[x] = NULL <=> h[x] = NULL
           /\ h[x] # NULL =>
                /\ f[x].url = h[x].url /\ f[x].data = h[x].data
                /\ f[x].lru_prev = IF x = e THEN tail ELSE h[x].lru_prev
                /\ f[x].lru_next = IF x = e THEN NULL ELSE h[x].lru_next
  <2>1. Relinks(f, h, [x \in Addresses |-> IF x = e THEN tail ELSE h[x].lru_prev],
                      [x \in Addresses |-> IF x = e THEN NULL ELSE h[x].lru_next])
    BY <1>8, SetBothFields
  <2> HIDE DEF f
  <2> QED BY <2>1 DEF Relinks
<1>10. g = SetNext(f, tail, e)
  BY DEF LinkedAtTail
<1> HIDE DEF f, g
<1>11. tail # NULL => f[tail] # NULL
  BY <1>8, <1>9 DEF Pointer
<1>12. /\ g \in Heap
       /\ \A x \in Addresses :
            /\ g[x] = NULL <=> f[x] = NULL
            /\ f[x] # NULL =>
                 /\ g[x].url = f[x].url /\ g[x].data = f[x].data
                 /\ g[x].lru_prev = f[x].lru_prev
                 /\ g[x].lru_next = IF x = tail THEN e ELSE f[x].lru_next
  <2>1. Relinks(g, f, [x \in Addresses |-> f[x].lru_prev],
                      [x \in Addresses |-> IF x = tail THEN e ELSE f[x].lru_next])
    BY <1>8, <1>9, <1>10, <1>11, SetNextFields
  <2> QED BY <2>1 DEF Relinks
<1>13. SameData(g, h)
  BY <1>9, <1>12 DEF SameData
<1>14. ASSUME NEW i \in 1..(m + 1)
       PROVE  /\ g[r[i]] # NULL
              /\ g[r[i]].lru_prev = IF i = 1 THEN NULL ELSE r[i - 1]
              /\ g[r[i]].lru_next = IF i = m + 1 THEN NULL ELSE r[i + 1]
  <2>1. i # 1 => i - 1 \in 1..(m + 1) /\ i - 1 # m + 1
    BY <1>1
  <2>2. CASE i = m + 1
    <3>1. r[i] = e
      BY <2>2, <1>6
    <3>2. g[e] # NULL /\ g[e].lru_prev = tail /\ g[e].lru_next = NULL
      BY <1>8, <1>9, <1>12
    <3>3. tail = IF i = 1 THEN NULL ELSE r[i - 1]
      <4>1. (i = 1) <=> (m = 0)
        BY <2>2, <1>1
      <4>2. i # 1 => i - 1 = m /\ r[i - 1] = q[i - 1]
        BY <2>1, <2>2, <1>1, <1>6
      <4> QED BY <4>1, <4>2, <1>5
    <3> QED BY <2>2, <3>1, <3>2, <3>3
  <2>3. CASE i # m + 1
    <3>1. i \in 1..m /\ i + 1 \in 1..(m + 1) /\ ((i + 1 = m + 1) <=> (i = m))
      BY <2>3, <1>1
    <3>2. r[i] = q[i] /\ q[i] \in Addresses /\ q[i] # e /\ h[q[i]] # NULL
      BY <2>3, <3>1, <1>2, <1>3, <1>4, <1>6
    <3>3. (q[i] = tail) <=> (i = m)
      BY <3>1, <1>1, <1>3, <1>5, <1>7
    <3>4. /\ g[q[i]] # NULL /\ g[q[i]].lru_prev = h[q[i]].lru_prev
          /\ g[q[i]].lru_next = IF i = m THEN e ELSE h[q[i]].lru_next
      BY <3>2, <3>3, <1>9, <1>12
    <3>5. h[q[i]].lru_prev = IF i = 1 THEN NULL ELSE r[i - 1]
      BY <2>1, <3>1, <1>4, <1>6
    <3>6. (IF i = m THEN e ELSE h[q[i]].lru_next) = r[i + 1]
      BY <3>1, <1>4, <1>6
    <3> QED BY <2>3, <3>2, <3>4, <3>5, <3>6
  <2> QED BY <2>2, <2>3
<1>15. (IF head = NULL THEN e ELSE head) = r[1] /\ e = r[m + 1]
  <2>1. 1 \in 1..(m + 1) /\ m + 1 \in 1..(m + 1) /\ ((1 = m + 1) <=> (m = 0))
    BY <1>1
  <2>2. head = NULL <=> m = 0
    BY <1>2, <1>5, <1>7, NullApart
  <2> QED BY <2>1, <2>2, <1>5, <1>6
<1>16. m + 1 # 0
  BY <1>1
<1>17. Linked(g, IF head = NULL THEN e ELSE head, e, r)
  BY <1>6, <1>14, <1>15, <1>16 DEF Linked
<1> QED BY <1>13, <1>17 DEF g, r

-----------------------------------------------------------------------------
(* The byte counter.                                                         *)

(* The bytes of a set of elements are the sum of their sizes.                *)
LEMMA BytesAreSums ==
  ASSUME NEW h, NEW S, IsFiniteSet(S), NEW w, NEW g, Sums(g, S, w),
         \A x \in S : w[x] = ElementSize(h[x].url, h[x].data)
  PROVE  BytesIn(h, S) = g[S]
<1> DEFINE c == [s \in SUBSET S |-> CHOOSE x \in s : TRUE]
           Adds(f) == [s \in SUBSET S |->
                         IF s = {} THEN 0
                         ELSE f[s \ {CHOOSE x \in s : TRUE}]
                              + ElementSize(h[CHOOSE x \in s : TRUE].url,
                                            h[CHOOSE x \in s : TRUE].data)]
           iter == CHOOSE f : f = Adds(f)
<1>1. BytesIn(h, S) = iter[S]
  BY DEF BytesIn, FoldSet, MapThenFoldSet
<1> HIDE DEF iter
<1>2. \A s \in SUBSET S : s # {} => c[s] \in s
  OBVIOUS
<1>3. g = Adds(g)
  <2>1. g = [s \in SUBSET S |-> g[s]]
    BY DEF Sums
  <2>2. ASSUME NEW s \in SUBSET S
        PROVE  g[s] = IF s = {} THEN 0
                      ELSE g[s \ {CHOOSE x \in s : TRUE}]
                           + ElementSize(h[CHOOSE x \in s : TRUE].url,
                                         h[CHOOSE x \in s : TRUE].data)
    <3>1. CASE s = {}
      BY <3>1 DEF Sums
    <3>2. CASE s # {}
      <4>1. PICK x \in s : x = CHOOSE y \in s : TRUE
        BY <3>2
      <4>2. g[s] = g[s \ {x}] + w[x] /\ w[x] = ElementSize(h[x].url, h[x].data)
        BY DEF Sums
      <4> QED BY <3>2, <4>1, <4>2
    <3> QED BY <3>1, <3>2
  <2> QED BY <2>1, <2>2
<1>4. iter = Adds(iter)
  BY <1>3 DEF iter
<1>5. \A s \in SUBSET S : iter[s] = IF s = {} THEN 0 ELSE iter[s \ {c[s]}] + w[c[s]]
  <2> SUFFICES ASSUME NEW s \in SUBSET S
               PROVE  iter[s] = IF s = {} THEN 0 ELSE iter[s \ {c[s]}] + w[c[s]]
    OBVIOUS
  <2>1. iter[s] = IF s = {} THEN 0
                  ELSE iter[s \ {CHOOSE x \in s : TRUE}]
                       + ElementSize(h[CHOOSE x \in s : TRUE].url,
                                     h[CHOOSE x \in s : TRUE].data)
    BY <1>4
  <2>2. c[s] = CHOOSE x \in s : TRUE
    OBVIOUS
  <2> HIDE DEF c
  <2>3. s # {} => w[c[s]] = ElementSize(h[c[s]].url, h[c[s]].data)
    BY <1>2
  <2> QED BY <2>1, <2>2, <2>3
<1> HIDE DEF c
<1>6. AddsUp(iter, c, S, w)
  BY <1>2, <1>5 DEF AddsUp
<1>7. iter[S] = g[S]
  BY <1>6, SumsUnique
<1> QED BY <1>1, <1>7

LEMMA ElementSizeNat == \A u \in Urls, d \in Datas : ElementSize(u, d) \in Nat
<1> SUFFICES ASSUME NEW u \in Urls, NEW d \in Datas PROVE ElementSize(u, d) \in Nat
  OBVIOUS
<1>1. DataLen[d] \in Nat /\ UrlLen[u] \in Nat /\ Sizeof \in Nat
  BY CacheAssumption
<1> QED BY <1>1 DEF ElementSize

(* Such sums exist for the elements of a heap.                               *)
LEMMA BytesSums ==
  ASSUME NEW h \in Heap, NEW S \in SUBSET Addresses, IsFiniteSet(S), \A x \in S : h[x] # NULL
  PROVE  \E w, g : /\ \A x \in S : w[x] = ElementSize(h[x].url, h[x].data) /\ w[x] \in Nat
                   /\ Sums(g, S, w)
<1> DEFINE w == [x \in S |-> ElementSize(h[x].url, h[x].data)]
<1>1. ASSUME NEW x \in S
      PROVE  w[x] = ElementSize(h[x].url, h[x].data) /\ w[x] \in Nat
  <2>1. h[x].url \in Urls /\ h[x].data \in Datas
    BY DEF Heap, Element
  <2> QED BY <2>1, ElementSizeNat
<1> HIDE DEF w
<1>2. PICK g : Sums(g, S, w)
  BY <1>1, SumsExist
<1> QED BY <1>1, <1>2

(* Moving pointers changes no sum.                                           *)
LEMMA BytesSame ==
  ASSUME NEW h \in Heap, NEW S \in SUBSET Addresses, IsFiniteSet(S), \A x \in S : h[x] # NULL,
         NEW f, \A x \in S : f[x].url = h[x].url /\ f[x].data = h[x].data
  PROVE  BytesIn(f, S) = BytesIn(h, S)
<1>1. PICK w, g : /\ \A x \in S : w[x] = ElementSize(h[x].url, h[x].data)
                  /\ Sums(g, S, w)
  BY BytesSums
<1>2. \A x \in S : w[x] = ElementSize(f[x].url, f[x].data)
  BY <1>1
<1>3. BytesIn(f, S) = g[S]
  BY <1>1, <1>2, BytesAreSums
<1>4. BytesIn(h, S) = g[S]
  BY <1>1, BytesAreSums
<1> QED BY <1>3, <1>4

(* One element more adds its size.                                           *)
LEMMA BytesMore ==
  ASSUME NEW h \in Heap, NEW S \in SUBSET Addresses, IsFiniteSet(S), \A x \in S : h[x] # NULL,
         NEW e \in S
  PROVE  /\ BytesIn(h, S) = BytesIn(h, S \ {e}) + ElementSize(h[e].url, h[e].data)
         /\ BytesIn(h, S \ {e}) \in Nat
<1>1. PICK w, g : /\ \A x \in S : w[x] = ElementSize(h[x].url, h[x].data)
                  /\ Sums(g, S, w)
  BY BytesSums
<1>2. BytesIn(h, S) = g[S]
  BY <1>1, BytesAreSums
<1> DEFINE T == S \ {e}
           f == [s \in SUBSET T |-> g[s]]
<1>3. T \in SUBSET S /\ IsFiniteSet(T)
  BY FS_RemoveElement
<1>4. Sums(f, T, w)
  BY <1>1, <1>3, SumsRestrict
<1>5. f[T] = g[T] /\ \A x \in T : w[x] = ElementSize(h[x].url, h[x].data)
  BY <1>1
<1> HIDE DEF f
<1>6. BytesIn(h, T) = g[T]
  <2> HIDE DEF T
  <2> QED BY <1>3, <1>4, <1>5, BytesAreSums
<1>7. g[S] = g[T] + w[e] /\ g[T] \in Nat
  BY <1>1 DEF Sums
<1> QED BY <1>1, <1>2, <1>6, <1>7

LEMMA BytesNone ==
  ASSUME NEW h
  PROVE  BytesIn(h, {}) = 0
<1> DEFINE w == [x \in {} |-> 0]
<1>1. IsFiniteSet({}) /\ \A x \in {} : w[x] \in Nat
  BY FS_EmptySet
<1>2. \A x \in {} : w[x] = ElementSize(h[x].url, h[x].data)
  OBVIOUS
<1> HIDE DEF w
<1>3. PICK g : Sums(g, {}, w)
  BY <1>1, SumsExist
<1>4. BytesIn(h, {}) = g[{}]
  BY <1>1, <1>2, <1>3, BytesAreSums
<1> QED BY <1>3, <1>4 DEF Sums

-----------------------------------------------------------------------------
(* States.                                                                   *)

(* At most the holder of lru_mutex has an element out of the list.           *)
LEMMA InTransitIs ==
  ASSUME TypeOK
  PROVE  /\ lru_mutex = NULL => InTransit = {}
         /\ lru_mutex # NULL => InTransit = {site[lru_mutex]}
<1>1. \A t \in Threads : pc[t] = "removed" <=> lru_mutex = t
  BY DEF TypeOK
<1>2. lru_mutex \in Threads \cup {NULL}
  BY DEF TypeOK
<1> QED BY <1>1, <1>2, NullApart DEF InTransit

LEMMA AllocatedFinite ==
  ASSUME TypeOK, NothingLeaked
  PROVE  IsFiniteSet(Allocated) /\ Allocated \in SUBSET Addresses /\ \A e \in Allocated : heap[e] # NULL
<1>1. order \in Seq(Addresses)
  BY DEF TypeOK
<1>2. IsFiniteSet(Stored)
  BY <1>1, ToSetFinite DEF Stored
<1>3. IsFiniteSet(InTransit)
  BY InTransitIs, FS_EmptySet, FS_Singleton
<1>4. IsFiniteSet(Stored \cup InTransit)
  BY <1>2, <1>3, FS_Union
<1> QED BY <1>4 DEF NothingLeaked, Allocated

LEMMA ListIs == ListWellFormed <=> Linked(heap, lru_head, lru_tail, order)
BY DEF ListWellFormed, Linked

LEMMA ListIsNext == ListWellFormed' <=> Linked(heap', lru_head', lru_tail', order')
BY DEF ListWellFormed, Linked

(* The facts about the cache that no change of pointers disturbs.            *)
Kept == ChainsHold /\ (HashInsert => AllHashed) /\ SizeAccounted

LEMMA RelinkKeeps ==
  ASSUME TypeOK, NothingLeaked, Kept, SameData(heap', heap), UNCHANGED <<hash_table, cache_size>>
  PROVE  Kept' /\ Allocated' = Allocated
<1>1. /\ heap' \in Heap
      /\ \A x \in Addresses :
           /\ heap'[x] = NULL <=> heap[x] = NULL
           /\ heap[x] # NULL => heap'[x].url = heap[x].url /\ heap'[x].data = heap[x].data
  BY DEF SameData
<1>2. Allocated' = Allocated
  BY <1>1 DEF Allocated
<1>3. \A x \in Allocated : /\ heap'[x].url = heap[x].url
                           /\ heap'[x].data = heap[x].data
  BY <1>1 DEF Allocated
<1>4. ChainsHold'
  BY <1>2, <1>3 DEF ChainsHold, Kept
<1>5. (HashInsert => AllHashed)'
  BY <1>2, <1>3 DEF AllHashed, Kept
<1>6. heap \in Heap
  BY DEF TypeOK, Heap
<1>7. BytesIn(heap', Allocated) = BytesIn(heap, Allocated)
  BY <1>3, <1>6, AllocatedFinite, BytesSame
<1>8. SizeAccounted'
  BY <1>2, <1>7 DEF SizeAccounted, Kept
<1> QED BY <1>2, <1>4, <1>5, <1>8 DEF Kept

(* Steps that leave the list, the table and the counter alone.               *)
LEMMA QuietKeeps ==
  ASSUME IInv, UNCHANGED <<list, hash_table, cache_size>>, InTransit' = InTransit
  PROVE  ListWellFormed' /\ NothingLeaked' /\ Kept' /\ Allocated' = Allocated
<1>1. /\ heap' = heap /\ lru_head' = lru_head /\ lru_tail' = lru_tail /\ order' = order
      /\ hash_table' = hash_table /\ cache_size' = cache_size
  BY DEF list
<1>2. Allocated' = Allocated /\ Stored' = Stored
  BY <1>1 DEF Allocated, Stored
<1>3. ListWellFormed'
  BY <1>1, ListIs, ListIsNext DEF IInv
<1>4. NothingLeaked'
  BY <1>2 DEF NothingLeaked, IInv
<1>5. Kept'
  BY <1>1, <1>2 DEF Kept, IInv, ChainsHold, AllHashed, SizeAccounted
<1> QED BY <1>2, <1>3, <1>4, <1>5

(* What TypeOK says of threads and locks.                                    *)
LEMMA Locks ==
  ASSUME TypeOK
  PROVE  /\ writer # NULL => readers = {} /\ lru_mutex = NULL
         /\ lru_mutex # NULL => lru_mutex \in readers
<1>1. /\ writer # NULL => readers = {}
      /\ lru_mutex \in Threads \cup {NULL}
      /\ \A t \in Threads : pc[t] = "removed" <=> lru_mutex = t
      /\ \A t \in Threads : pc[t] \in {"hit", "removed", "touched"} <=> t \in readers
  BY DEF TypeOK
<1>2. lru_mutex # NULL => lru_mutex \in readers
  BY <1>1
<1> QED BY <1>1, <1>2

LEMMA InitInductive == Init => IInv
<1> SUFFICES ASSUME Init PROVE IInv
  OBVIOUS
<1> USE NullApart DEF Init
<1>1. TypeOK
  BY DEF TypeOK, Pointer
<1>2. Len(order) = 0 /\ DOMAIN order = 1..0
  OBVIOUS
<1>3. ListWellFormed
  BY <1>2 DEF ListWellFormed, IsInjective
<1>4. Allocated = {} /\ Stored = {} /\ InTransit = {}
  BY <1>2 DEF Allocated, Stored, InTransit, ToSet
<1>5. NothingLeaked
  BY <1>4 DEF NothingLeaked
<1>6. SiteValid /\ Requested
  BY DEF SiteValid, Requested
<1>7. ChainsHold /\ AllHashed
  <2>1. \A b \in Buckets : hash_table[b] = << >>
    OBVIOUS
  <2>2. IsInjective(<< >>) /\ ToSet(<< >>) = {}
    BY DEF IsInjective, ToSet
  <2> QED BY <1>4, <2>1, <2>2 DEF ChainsHold, AllHashed
<1>8. SizeAccounted
  BY <1>4, BytesNone, CacheAssumption DEF SizeAccounted
<1> QED BY <1>1, <1>3, <1>5, <1>6, <1>7, <1>8 DEF IInv

LEMMA MissInductive ==
  ASSUME IInv, NEW t \in Threads, NEW u \in Urls, LookupMiss(t, u)
  PROVE  IInv'
<1>1. TypeOK'
  BY NullApart DEF LookupMiss, IInv, TypeOK, locks, list
<1>2. InTransit' = InTransit
  BY DEF LookupMiss, InTransit
<1>3. UNCHANGED <<list, hash_table, cache_size>>
  BY DEF LookupMiss
<1>4. ListWellFormed' /\ NothingLeaked' /\ Kept' /\ Allocated' = Allocated
  BY <1>2, <1>3, QuietKeeps
<1>5. SiteValid' /\ Requested'
  BY <1>4 DEF LookupMiss, IInv, SiteValid, Requested, locks, list
<1> QED BY <1>1, <1>4, <1>5 DEF IInv, Kept

LEMMA HitInductive ==
  ASSUME IInv, NEW t \in Threads, NEW u \in Urls, LookupHit(t, u)
  PROVE  IInv'
<1> USE DEF IInv
<1>1. PICK i \in DOMAIN Chain(u) :
        /\ heap[Chain(u)[i]].url = u
        /\ site' = [site EXCEPT ![t] = Chain(u)[i]]
  BY DEF LookupHit, FirstMatch
<1> DEFINE e == Chain(u)[i]
<1>2. e \in Allocated /\ e \in Addresses /\ heap[e].url = u
  <2>1. Hash[u] \in Buckets
    BY CacheAssumption
  <2>2. e \in ToSet(hash_table[Hash[u]])
    BY <1>1 DEF Chain, ToSet
  <2> QED BY <1>1, <2>1, <2>2 DEF ChainsHold, Allocated
<1> HIDE DEF e
<1>3. /\ pc[t] = "idle" /\ writer = NULL
      /\ site' = [site EXCEPT ![t] = e]
      /\ readers' = readers \cup {t}
      /\ pc' = [pc EXCEPT ![t] = "hit"]
      /\ url' = [url EXCEPT ![t] = u]
      /\ UNCHANGED <<data, cached_data, writer, lru_mutex, lru_head, lru_tail, heap, order,
                     hash_table, cache_size>>
  BY <1>1 DEF LookupHit, list, e
<1>4. TypeOK'
  BY <1>2, <1>3, NullApart DEF TypeOK, Pointer
<1>5. InTransit' = InTransit
  BY <1>3 DEF InTransit, TypeOK
<1>6. ListWellFormed' /\ NothingLeaked' /\ Kept' /\ Allocated' = Allocated
  BY <1>3, <1>5, QuietKeeps DEF list
<1>7. SiteValid'
  BY <1>2, <1>3, <1>6 DEF SiteValid, TypeOK
<1>8. Requested'
  BY <1>3 DEF Requested, TypeOK
<1> QED BY <1>4, <1>6, <1>7, <1>8 DEF Kept

(* The list changes in the hands of lookups.                                 *)
LEMMA RemoveInductive ==
  ASSUME IInv, NEW t \in Threads, TouchRemove(t)
  PROVE  IInv' /\ SameData(heap', heap)
         /\ \E k \in DOMAIN order : site[t] = order[k] /\ order' = RemoveAt(order, k)
<1> USE DEF IInv
<1> DEFINE e == site[t]
<1>1. /\ pc[t] = "hit" /\ lru_mutex = NULL /\ lru_mutex' = t
      /\ heap' = UnlinkedIn(heap, e)
      /\ lru_head' = IF heap[e].lru_prev = NULL THEN heap[e].lru_next ELSE lru_head
      /\ lru_tail' = IF heap[e].lru_next = NULL THEN heap[e].lru_prev ELSE lru_tail
      /\ order' = RemoveFirst(order, e)
      /\ pc' = [pc EXCEPT ![t] = "removed"]
      /\ UNCHANGED <<url, data, site, cached_data, readers, writer, hash_table, cache_size>>
  BY DEF TouchRemove, LruLockFree, lru_remove, Unlinked, UnlinkedIn
<1>2. InTransit = {} /\ Stored = Allocated
  BY <1>1, InTransitIs DEF NothingLeaked
<1>3. t \in readers
  BY <1>1 DEF TypeOK
<1>4. e \in Stored
  BY <1>2, <1>3 DEF SiteValid
<1>5. order \in Seq(Addresses) /\ IsInjective(order) /\ heap \in Heap
  BY DEF TypeOK, ListWellFormed, Heap
<1>6. PICK k \in DOMAIN order : order[k] = e
  BY <1>4 DEF Stored, ToSet
<1>7. k \in 1..Len(order)
  BY <1>5
<1>8. order' = RemoveAt(order, k)
  BY <1>1, <1>5, <1>6, RemoveFirstAt
<1>9. SameData(heap', heap) /\ Linked(heap', lru_head', lru_tail', order')
  <2>1. Linked(heap, lru_head, lru_tail, order)
    BY ListIs
  <2>2. /\ SameData(UnlinkedIn(heap, order[k]), heap)
        /\ Linked(UnlinkedIn(heap, order[k]),
                  IF heap[order[k]].lru_prev = NULL THEN heap[order[k]].lru_next ELSE lru_head,
                  IF heap[order[k]].lru_next = NULL THEN heap[order[k]].lru_prev ELSE lru_tail,
                  RemoveAt(order, k))
    BY <1>5, <1>7, <2>1, UnlinkKeepsList
  <2> QED BY <1>1, <1>6, <1>8, <2>2
<1>10. Kept' /\ Allocated' = Allocated
  BY <1>1, <1>9, RelinkKeeps DEF Kept
<1>11. order' \in Seq(Addresses) /\ Stored' = Stored \ {e}
  BY <1>5, <1>6, <1>8, RemoveAtSet DEF Stored
<1>12. lru_head' \in Pointer /\ lru_tail' \in Pointer
  <2>1. \A i \in 1..Len(order') : order'[i] \in Addresses
    BY <1>11
  <2>2. Len(order') \in Nat
    BY <1>11
  <2> QED BY <1>9, <2>1, <2>2 DEF Linked, Pointer
<1>13. TypeOK'
  <2>1. heap' \in [Addresses -> Element \cup {NULL}]
    BY <1>9 DEF SameData, Heap
  <2> QED BY <1>1, <1>3, <1>11, <1>12, <2>1, NullApart DEF TypeOK
<1>14. InTransit' = {e}
  <2>1. lru_mutex' = t /\ site' = site /\ t # NULL
    BY <1>1, NullApart
  <2>2. \A s \in Threads : (pc'[s] = "removed") <=> (s = t)
    BY <1>13, <2>1 DEF TypeOK
  <2> QED BY <2>1, <2>2 DEF InTransit
<1>15. NothingLeaked'
  BY <1>2, <1>4, <1>10, <1>11, <1>14 DEF NothingLeaked
<1>16. SiteValid'
  <2> SUFFICES ASSUME NEW s \in readers
               PROVE  site[s] \in Allocated /\ heap'[site[s]].url = url[s]
    BY <1>1, <1>10 DEF SiteValid
  <2>1. site[s] \in Allocated /\ heap[site[s]].url = url[s]
    BY DEF SiteValid
  <2> QED BY <2>1, <1>9 DEF SameData, Allocated
<1>17. Requested'
  BY <1>1 DEF Requested, TypeOK
<1>18. ListWellFormed'
  BY <1>9, ListIsNext
<1> QED BY <1>6, <1>8, <1>9, <1>10, <1>13, <1>15, <1>16, <1>17, <1>18 DEF Kept

LEMMA TouchAppendInductive ==
  ASSUME IInv, NEW t \in Threads, TouchAppend(t)
  PROVE  IInv' /\ SameData(heap', heap) /\ order' = Append(order, site[t])
<1> USE DEF IInv
<1> DEFINE e == site[t]
<1>1. /\ pc[t] = "removed" /\ lru_mutex' = NULL
      /\ heap' = LinkedAtTail(heap, lru_tail, e)
      /\ lru_head' = IF lru_head = NULL THEN e ELSE lru_head
      /\ lru_tail' = e
      /\ order' = Append(order, e)
      /\ pc' = [pc EXCEPT ![t] = "touched"]
      /\ UNCHANGED <<url, data, site, cached_data, readers, writer, hash_table, cache_size>>
  BY DEF TouchAppend, lru_append_tail, LinkedAtTail
<1>2. lru_mutex = t /\ t \in readers /\ t # NULL
  BY <1>1, NullApart DEF TypeOK
<1>3. InTransit = {e}
  BY <1>2, InTransitIs
<1>4. e \in Addresses /\ heap[e] # NULL /\ e \notin ToSet(order)
  BY <1>2, <1>3 DEF NothingLeaked, SiteValid, Allocated, Stored
<1>5. order \in Seq(Addresses) /\ heap \in Heap
  BY DEF TypeOK, Heap
<1>6. SameData(heap', heap) /\ Linked(heap', lru_head', lru_tail', order')
  <2>1. Linked(heap, lru_head, lru_tail, order)
    BY ListIs
  <2>2. /\ SameData(LinkedAtTail(heap, lru_tail, e), heap)
        /\ Linked(LinkedAtTail(heap, lru_tail, e),
                  IF lru_head = NULL THEN e ELSE lru_head, e, Append(order, e))
    BY <1>4, <1>5, <2>1, AppendKeepsList
  <2> QED BY <1>1, <2>2
<1>7. Kept' /\ Allocated' = Allocated
  BY <1>1, <1>6, RelinkKeeps DEF Kept
<1>8. order' \in Seq(Addresses) /\ Stored' = Stored \cup {e}
  BY <1>1, <1>4, <1>5, AppendSet DEF Stored
<1>9. TypeOK'
  <2>1. heap' \in [Addresses -> Element \cup {NULL}]
    BY <1>6 DEF SameData, Heap
  <2>2. lru_head' \in Pointer /\ lru_tail' \in Pointer
    BY <1>1, <1>4 DEF Pointer, TypeOK
  <2> QED BY <1>1, <1>2, <1>8, <2>1, <2>2, NullApart DEF TypeOK
<1>10. InTransit' = {}
  <2>1. \A s \in Threads : pc'[s] # "removed"
    BY <1>1, <1>9, NullApart DEF TypeOK
  <2> QED BY <2>1 DEF InTransit
<1>11. NothingLeaked'
  BY <1>3, <1>7, <1>8, <1>10 DEF NothingLeaked
<1>12. SiteValid'
  <2> SUFFICES ASSUME NEW s \in readers
               PROVE  site[s] \in Allocated /\ heap'[site[s]].url = url[s]
    BY <1>1, <1>7 DEF SiteValid
  <2>1. site[s] \in Allocated /\ heap[site[s]].url = url[s]
    BY DEF SiteValid
  <2> QED BY <2>1, <1>6 DEF SameData, Allocated
<1>13. Requested'
  BY <1>1 DEF Requested, TypeOK
<1>14. ListWellFormed'
  BY <1>6, ListIsNext
<1> QED BY <1>1, <1>6, <1>7, <1>9, <1>11, <1>12, <1>13, <1>14 DEF Kept

LEMMA LookupReturnInductive ==
  ASSUME IInv, NEW t \in Threads, LookupReturn(t)
  PROVE  IInv'
<1> USE DEF IInv
<1>1. /\ pc[t] = "touched"
      /\ cached_data' \in [Threads -> Datas \cup {NULL}]
      /\ pc' = [pc EXCEPT ![t] = "idle"]
      /\ url' = [url EXCEPT ![t] = NULL]
      /\ data' = [data EXCEPT ![t] = NULL]
      /\ site' = [site EXCEPT ![t] = NULL]
      /\ readers' = readers \ {t}
      /\ UNCHANGED <<writer, lru_mutex, lru_head, lru_tail, heap, order, hash_table, cache_size>>
  <2>1. pc[t] = "touched"
    BY DEF LookupReturn
  <2>2. heap[site[t]].data \in Datas
    <3>1. t \in readers
      BY <2>1 DEF TypeOK
    <3>2. site[t] \in Addresses /\ heap[site[t]] # NULL
      BY <3>1 DEF SiteValid, Allocated
    <3> QED BY <3>2 DEF TypeOK, Element
  <2>3. cached_data' \in [Threads -> Datas \cup {NULL}]
    BY <2>2 DEF LookupReturn, TypeOK
  <2> QED BY <2>1, <2>3 DEF LookupReturn, Return, list
<1>2. TypeOK'
  BY <1>1, NullApart DEF TypeOK, Pointer
<1>3. InTransit' = InTransit
  BY <1>1 DEF InTransit, TypeOK
<1>4. ListWellFormed' /\ NothingLeaked' /\ Kept' /\ Allocated' = Allocated
  BY <1>1, <1>3, QuietKeeps DEF list
<1>5. SiteValid'
  BY <1>1, <1>4 DEF SiteValid, TypeOK
<1>6. Requested'
  BY <1>1 DEF Requested, TypeOK
<1> QED BY <1>2, <1>4, <1>5, <1>6 DEF Kept

LEMMA AddLockInductive ==
  ASSUME IInv, NEW t \in Threads, NEW u \in Urls, NEW d \in Datas, AddLock(t, u, d)
  PROVE  IInv'
<1> USE DEF IInv
<1>1. /\ pc[t] = "idle" /\ writer = NULL /\ readers = {}
      /\ ElementSize(u, d) <= MAX_ELEMENT_SIZE
      /\ writer' = t
      /\ pc' = [pc EXCEPT ![t] = "adding"]
      /\ url' = [url EXCEPT ![t] = u]
      /\ data' = [data EXCEPT ![t] = d]
      /\ UNCHANGED <<site, cached_data, readers, lru_mutex, lru_head, lru_tail, heap, order,
                     hash_table, cache_size>>
  BY DEF AddLock, WrLockFree, list
<1>2. TypeOK'
  BY <1>1, NullApart DEF TypeOK, Pointer
<1>3. InTransit' = InTransit
  BY <1>1 DEF InTransit, TypeOK
<1>4. ListWellFormed' /\ NothingLeaked' /\ Kept' /\ Allocated' = Allocated
  BY <1>1, <1>3, QuietKeeps DEF list
<1>5. SiteValid'
  BY <1>1 DEF SiteValid
<1>6. Requested'
  BY <1>1 DEF Requested, TypeOK
<1> QED BY <1>2, <1>4, <1>5, <1>6 DEF Kept

(* The thread that adds an element is alone.                                 *)
LEMMA Alone ==
  ASSUME IInv, NEW t \in Threads, pc[t] = "adding"
  PROVE  /\ writer = t /\ readers = {} /\ lru_mutex = NULL /\ InTransit = {}
         /\ Stored = Allocated
         /\ url[t] \in Urls /\ data[t] \in Datas
         /\ ElementSize(url[t], data[t]) \in Nat
<1> USE DEF IInv
<1>1. writer = t /\ writer # NULL
  BY NullApart DEF TypeOK
<1>2. readers = {} /\ lru_mutex = NULL
  BY <1>1, Locks
<1>3. InTransit = {} /\ Stored = Allocated
  BY <1>2, InTransitIs DEF NothingLeaked
<1> QED BY <1>1, <1>2, <1>3, ElementSizeNat DEF Requested

LEMMA NoMemoryInductive ==
  ASSUME IInv, NEW t \in Threads, AddNoMemory(t)
  PROVE  IInv'
<1> USE DEF IInv
<1>1. /\ pc[t] = "adding" /\ writer' = NULL
      /\ pc' = [pc EXCEPT ![t] = "idle"]
      /\ url' = [url EXCEPT ![t] = NULL]
      /\ data' = [data EXCEPT ![t] = NULL]
      /\ site' = [site EXCEPT ![t] = NULL]
      /\ UNCHANGED <<cached_data, readers, lru_mutex, lru_head, lru_tail, heap, order,
                     hash_table, cache_size>>
  BY DEF AddNoMemory, Return, list
<1>2. writer = t /\ readers = {} /\ lru_mutex = NULL
  BY <1>1, Alone
<1>3. TypeOK'
  BY <1>1, <1>2, NullApart DEF TypeOK, Pointer
<1>4. InTransit' = InTransit
  BY <1>1 DEF InTransit, TypeOK
<1>5. ListWellFormed' /\ NothingLeaked' /\ Kept' /\ Allocated' = Allocated
  BY <1>1, <1>4, QuietKeeps DEF list
<1>6. SiteValid'
  BY <1>1, <1>2 DEF SiteValid
<1>7. Requested'
  BY <1>1 DEF Requested, TypeOK
<1> QED BY <1>3, <1>5, <1>6, <1>7 DEF Kept

(* One turn of the eviction loop frees the head of the list, ...             *)
LEMMA EvictInductive ==
  ASSUME IInv, NEW t \in Threads, AddEvict(t)
  PROVE  /\ IInv'
         /\ lru_head = NULL => UNCHANGED <<list, hash_table, cache_size>>
         /\ lru_head # NULL =>
              /\ order # << >> /\ order' = RemoveAt(order, 1)
              /\ \A x \in Allocated' : /\ heap'[x].url = heap[x].url
                                       /\ heap'[x].data = heap[x].data
<1> USE DEF IInv
<1>1. /\ pc[t] = "adding"
      /\ UNCHANGED <<pc, url, data, site, cached_data, readers, writer, lru_mutex>>
  BY DEF AddEvict, locks
<1>2. /\ readers = {} /\ InTransit = {} /\ Stored = Allocated
  BY <1>1, Alone
<1>3. InTransit' = {} /\ SiteValid' /\ Requested'
  BY <1>1, <1>2 DEF InTransit, SiteValid, Requested
<1>4. order \in Seq(Addresses) /\ IsInjective(order) /\ heap \in Heap
      /\ Len(order) \in Nat /\ DOMAIN order = 1..Len(order)
  BY DEF TypeOK, ListWellFormed, Heap
<1>5. CASE lru_head = NULL
  <2>1. UNCHANGED <<list, hash_table, cache_size>>
    BY <1>5 DEF AddEvict, lru_get_lru
  <2>2. ListWellFormed' /\ NothingLeaked' /\ Kept' /\ Allocated' = Allocated
    BY <1>2, <1>3, <2>1, QuietKeeps
  <2>3. TypeOK'
    BY <1>1, <2>1 DEF TypeOK, list
  <2> QED BY <1>3, <1>5, <2>1, <2>2, <2>3 DEF Kept
<1>6. CASE lru_head # NULL
  <2> DEFINE e == lru_head
             g == UnlinkedIn(heap, e)
             b == Hash[heap[e].url]
  <2>1. /\ lru_head' = IF heap[e].lru_prev = NULL THEN heap[e].lru_next ELSE lru_head
        /\ lru_tail' = IF heap[e].lru_next = NULL THEN heap[e].lru_prev ELSE lru_tail
        /\ order' = RemoveFirst(order, e)
        /\ hash_table' = [hash_table EXCEPT ![b] = RemoveFirst(hash_table[b], e)]
        /\ cache_size' = cache_size - EvictedSize(e)
        /\ heap' = [g EXCEPT ![e] = NULL]
    BY <1>6 DEF AddEvict, lru_get_lru, lru_remove, RemoveHash, Freed, Unlinked, UnlinkedIn
  <2>2. 1 \in 1..Len(order) /\ order[1] = e
    <3>1. lru_head = IF Len(order) = 0 THEN NULL ELSE order[1]
      BY DEF ListWellFormed
    <3> QED BY <1>4, <1>6, <3>1
  <2>3. e \in Allocated /\ e \in Addresses /\ heap[e] \in Element /\ b \in Buckets
    <3>1. e \in Stored
      BY <1>4, <2>2 DEF Stored, ToSet
    <3>2. e \in Addresses /\ heap[e] # NULL
      BY <1>2, <3>1 DEF Allocated
    <3>3. heap[e] \in Element
      BY <3>2 DEF TypeOK
    <3>4. heap[e].url \in Urls
      BY <3>3 DEF Element
    <3> QED BY <1>2, <3>1, <3>2, <3>3, <3>4, CacheAssumption
  <2>4. order' = RemoveAt(order, 1)
    BY <1>4, <2>1, <2>2, RemoveFirstAt
  <2>5. SameData(g, heap) /\ Linked(g, lru_head', lru_tail', order')
    <3>1. Linked(heap, lru_head, lru_tail, order)
      BY ListIs
    <3>2. /\ SameData(UnlinkedIn(heap, order[1]), heap)
          /\ Linked(UnlinkedIn(heap, order[1]),
                    IF heap[order[1]].lru_prev = NULL THEN heap[order[1]].lru_next ELSE lru_head,
                    IF heap[order[1]].lru_next = NULL THEN heap[order[1]].lru_prev ELSE lru_tail,
                    RemoveAt(order, 1))
      BY <1>4, <2>2, <3>1, UnlinkKeepsList
    <3> QED BY <2>1, <2>2, <2>4, <3>2
  <2> HIDE DEF g, b
  <2>6. order' \in Seq(Addresses) /\ Stored' = Stored \ {e}
    BY <1>4, <2>2, <2>4, RemoveAtSet DEF Stored
  <2>7. /\ heap' \in Heap /\ heap'[e] = NULL
        /\ \A x \in Addresses : x # e => heap'[x] = g[x]
    BY <2>1, <2>3, <2>5 DEF SameData, Heap
  <2>8. Allocated' = Allocated \ {e}
    BY <2>5, <2>7 DEF Allocated, SameData
  <2>9. \A x \in Allocated' : /\ heap'[x].url = heap[x].url
                              /\ heap'[x].data = heap[x].data
    BY <2>5, <2>7, <2>8 DEF Allocated, SameData
  <2>10. Linked(heap', lru_head', lru_tail', order')
    <3>1. Len(order') \in Nat /\ DOMAIN order' = 1..Len(order')
          /\ \A i \in 1..Len(order') : order'[i] \in Addresses /\ order'[i] # e
      BY <2>6 DEF Stored, ToSet
    <3>2. \A i \in 1..Len(order') : heap'[order'[i]] = g[order'[i]]
      BY <2>7, <3>1
    <3> QED BY <2>5, <3>2 DEF Linked
  <2>11. ListWellFormed'
    BY <2>10, ListIsNext
  <2>12. NothingLeaked'
    BY <1>2, <1>3, <2>6, <2>8 DEF NothingLeaked
  <2>13. /\ hash_table' \in [Buckets -> Seq(Addresses)]
         /\ \A c \in Buckets : /\ IsInjective(hash_table'[c])
                               /\ ToSet(hash_table'[c]) = ToSet(hash_table[c]) \ {e}
    <3>1. /\ RemoveFirst(hash_table[b], e) \in Seq(Addresses)
          /\ ToSet(RemoveFirst(hash_table[b], e)) = ToSet(hash_table[b]) \ {e}
          /\ IsInjective(RemoveFirst(hash_table[b], e))
      <4>1. hash_table[b] \in Seq(Addresses) /\ IsInjective(hash_table[b])
        BY <2>3 DEF TypeOK, ChainsHold
      <4> QED BY <4>1, RemoveFirstSet
    <3>2. \A c \in Buckets : c # b => e \notin ToSet(hash_table[c])
      BY DEF ChainsHold, b
    <3>3. hash_table'[b] = RemoveFirst(hash_table[b], e)
          /\ \A c \in Buckets : c # b => hash_table'[c] = hash_table[c]
      BY <2>1, <2>3 DEF TypeOK
    <3>4. hash_table' \in [Buckets -> Seq(Addresses)]
      BY <2>1, <3>1 DEF TypeOK
    <3>5. ASSUME NEW c \in Buckets
          PROVE  /\ IsInjective(hash_table'[c])
                 /\ ToSet(hash_table'[c]) = ToSet(hash_table[c]) \ {e}
      <4>1. CASE c = b
        BY <4>1, <3>1, <3>3
      <4>2. CASE c # b
        BY <4>2, <3>2, <3>3 DEF ChainsHold
      <4> QED BY <4>1, <4>2
    <3> QED BY <3>4, <3>5
  <2>14. ChainsHold'
    BY <2>8, <2>9, <2>13 DEF ChainsHold
  <2>15. (HashInsert => AllHashed)'
    <3> SUFFICES ASSUME HashInsert, NEW x \in Allocated'
                 PROVE  x \in ToSet(hash_table'[Hash[heap'[x].url]])
      BY DEF AllHashed
    <3>1. x \in Allocated /\ x # e /\ heap'[x].url = heap[x].url
      BY <2>8, <2>9
    <3>2. Hash[heap[x].url] \in Buckets
      <4>1. heap[x] \in Element
        BY <3>1 DEF TypeOK, Allocated
      <4>2. heap[x].url \in Urls
        BY <4>1 DEF Element
      <4> QED BY <4>2, CacheAssumption
    <3> QED BY <2>13, <3>1, <3>2 DEF AllHashed
  <2>16. EvictedSize(e) = ElementSize(heap[e].url, heap[e].data) /\ EvictedSize(e) \in Nat
    <3>1. heap[e].url \in Urls /\ heap[e].data \in Datas
      BY <2>3 DEF Element
    <3>2. UrlLen[heap[e].url] \in Nat /\ DataLen[heap[e].data] \in Nat /\ Sizeof \in Nat
      BY <3>1, CacheAssumption
    <3> QED BY <3>2 DEF EvictedSize, ElementSize
  <2>17. SizeAccounted'
    <3>1. /\ BytesIn(heap, Allocated) = BytesIn(heap, Allocated \ {e}) + EvictedSize(e)
          /\ BytesIn(heap, Allocated \ {e}) \in Nat
      BY <1>4, <2>3, <2>16, AllocatedFinite, BytesMore
    <3>2. BytesIn(heap', Allocated') = BytesIn(heap, Allocated \ {e})
      <4>1. /\ IsFiniteSet(Allocated \ {e}) /\ Allocated \ {e} \in SUBSET Addresses
            /\ \A x \in Allocated \ {e} : heap[x] # NULL
        BY AllocatedFinite, FS_RemoveElement
      <4>2. \A x \in Allocated \ {e} : heap'[x].url = heap[x].url /\ heap'[x].data = heap[x].data
        BY <2>8, <2>9
      <4>3. BytesIn(heap', Allocated \ {e}) = BytesIn(heap, Allocated \ {e})
        BY <1>4, <4>1, <4>2, BytesSame
      <4> QED BY <2>8, <4>3
    <3>3. cache_size = BytesIn(heap, Allocated) /\ cache_size <= MAX_SIZE /\ MAX_SIZE \in Nat
      BY CacheAssumption DEF SizeAccounted
    <3>4. cache_size' = BytesIn(heap', Allocated') /\ cache_size' <= MAX_SIZE
      BY <2>1, <2>16, <3>1, <3>2, <3>3
    <3> QED BY <3>4 DEF SizeAccounted
  <2>18. TypeOK'
    <3>1. lru_head' \in Pointer /\ lru_tail' \in Pointer
      <4>1. \A i \in 1..Len(order') : order'[i] \in Addresses
        BY <2>6
      <4>2. Len(order') \in Nat
        BY <2>6
      <4> QED BY <2>10, <4>1, <4>2 DEF Linked, Pointer
    <3>2. heap' \in [Addresses -> Element \cup {NULL}]
      BY <2>7 DEF Heap
    <3>3. cache_size' \in Int
      BY <2>1, <2>16 DEF TypeOK
    <3> QED BY <1>1, <2>6, <2>13, <3>1, <3>2, <3>3 DEF TypeOK
  <2>19. order # << >>
    BY <1>4, <2>2, EmptySeq
  <2> QED BY <1>3, <1>6, <2>4, <2>9, <2>11, <2>12, <2>14, <2>15, <2>17, <2>18, <2>19
<1> QED BY <1>5, <1>6

(* ... and the new element, at an address that was free, becomes its tail.   *)
LEMMA InsertInductive ==
  ASSUME IInv, NEW t \in Threads, AddInsert(t)
  PROVE  /\ IInv'
         /\ \E e \in Addresses :
              /\ order' = Append(order, e)
              /\ heap'[e].url = url[t] /\ heap'[e].data = data[t]
              /\ \A x \in Allocated : /\ heap'[x].url = heap[x].url
                                      /\ heap'[x].data = heap[x].data
<1> USE DEF IInv
<1> DEFINE new == [url |-> url[t], data |-> data[t], lru_prev |-> NULL, lru_next |-> NULL]
<1>1. PICK e \in Addresses :
        /\ heap[e] = NULL
        /\ lru_append_tail([heap EXCEPT ![e] = new], e)
        /\ InsertHash(url[t], e)
  BY DEF AddInsert
<1> DEFINE h == [heap EXCEPT ![e] = new]
           b == Hash[url[t]]
<1>2. /\ pc[t] = "adding" /\ ~ Full(t)
      /\ cache_size' = cache_size + ElementSize(url[t], data[t])
      /\ writer' = NULL
      /\ pc' = [pc EXCEPT ![t] = "idle"]
      /\ url' = [url EXCEPT ![t] = NULL]
      /\ data' = [data EXCEPT ![t] = NULL]
      /\ site' = [site EXCEPT ![t] = NULL]
      /\ UNCHANGED <<cached_data, readers, lru_mutex>>
  BY DEF AddInsert, Return
<1>3. /\ heap' = LinkedAtTail(h, lru_tail, e)
      /\ lru_head' = IF lru_head = NULL THEN e ELSE lru_head
      /\ lru_tail' = e
      /\ order' = Append(order, e)
      /\ hash_table' = IF HashInsert THEN [hash_table EXCEPT ![b] = <<e>> \o hash_table[b]]
                       ELSE hash_table
  BY <1>1 DEF lru_append_tail, LinkedAtTail, InsertHash
<1>4. /\ writer = t /\ readers = {} /\ lru_mutex = NULL /\ InTransit = {} /\ Stored = Allocated
      /\ url[t] \in Urls /\ data[t] \in Datas /\ ElementSize(url[t], data[t]) \in Nat
  BY <1>2, Alone
<1>5. e \notin Allocated /\ e \notin ToSet(order)
  BY <1>1, <1>4 DEF Allocated, Stored
<1>6. order \in Seq(Addresses) /\ heap \in Heap /\ b \in Buckets
      /\ Len(order) \in Nat /\ DOMAIN order = 1..Len(order)
  BY <1>4, CacheAssumption DEF TypeOK, Heap
<1>7. new \in Element
  BY <1>4 DEF Element, Pointer
<1>8. /\ h \in Heap /\ h[e] = new /\ h[e] # NULL
      /\ \A x \in Addresses : x # e => h[x] = heap[x]
  BY <1>6, <1>7, NullApart DEF Heap
<1>9. new.url = url[t] /\ new.data = data[t]
  OBVIOUS
<1> HIDE DEF new, h
<1>10. Linked(h, lru_head, lru_tail, order)
  <2>1. \A i \in 1..Len(order) : h[order[i]] = heap[order[i]]
    <3>1. \A i \in 1..Len(order) : order[i] \in Addresses /\ order[i] # e
      BY <1>5, <1>6 DEF ToSet
    <3> QED BY <1>8, <3>1
  <2>2. Linked(heap, lru_head, lru_tail, order)
    BY ListIs
  <2> QED BY <2>1, <2>2 DEF Linked
<1>11. SameData(heap', h) /\ Linked(heap', lru_head', lru_tail', order')
  <2>1. /\ SameData(LinkedAtTail(h, lru_tail, e), h)
        /\ Linked(LinkedAtTail(h, lru_tail, e),
                  IF lru_head = NULL THEN e ELSE lru_head, e, Append(order, e))
    BY <1>5, <1>6, <1>8, <1>10, AppendKeepsList
  <2> QED BY <1>3, <2>1
<1>12. ListWellFormed'
  BY <1>11, ListIsNext
<1>13. /\ heap' \in Heap
       /\ heap'[e] # NULL /\ heap'[e].url = url[t] /\ heap'[e].data = data[t]
       /\ \A x \in Addresses : x # e =>
            /\ heap'[x] = NULL <=> heap[x] = NULL
            /\ heap[x] # NULL => heap'[x].url = heap[x].url /\ heap'[x].data = heap[x].data
  BY <1>8, <1>9, <1>11 DEF SameData
<1>14. Allocated' = Allocated \cup {e}
  BY <1>13 DEF Allocated
<1>15. \A x \in Allocated : /\ heap'[x].url = heap[x].url
                            /\ heap'[x].data = heap[x].data
  BY <1>5, <1>13 DEF Allocated
<1>16. order' \in Seq(Addresses) /\ Stored' = Stored \cup {e}
  BY <1>3, <1>6, AppendSet DEF Stored
<1>17. InTransit' = {} /\ SiteValid' /\ Requested'
  <2>1. InTransit' = {}
    <3>1. \A s \in Threads : pc'[s] # "removed"
      BY <1>2, <1>4, NullApart DEF TypeOK
    <3> QED BY <3>1 DEF InTransit
  <2>2. SiteValid'
    BY <1>2, <1>4 DEF SiteValid
  <2>3. Requested'
    BY <1>2 DEF Requested, TypeOK
  <2> QED BY <2>1, <2>2, <2>3
<1>18. NothingLeaked'
  BY <1>4, <1>14, <1>16, <1>17 DEF NothingLeaked
<1>19. /\ hash_table' \in [Buckets -> Seq(Addresses)]
       /\ \A c \in Buckets :
            /\ IsInjective(hash_table'[c])
            /\ ToSet(hash_table'[c]) = IF HashInsert /\ c = b THEN ToSet(hash_table[c]) \cup {e}
                                       ELSE ToSet(hash_table[c])
  <2>1. \A c \in Buckets : hash_table[c] \in Seq(Addresses) /\ IsInjective(hash_table[c])
    BY DEF TypeOK, ChainsHold
  <2>2. CASE ~ HashInsert
    BY <2>1, <2>2, <1>3 DEF TypeOK
  <2>3. CASE HashInsert
    <3>1. e \notin ToSet(hash_table[b])
      BY <1>5, <1>6 DEF ChainsHold
    <3>2. /\ <<e>> \o hash_table[b] \in Seq(Addresses)
          /\ ToSet(<<e>> \o hash_table[b]) = {e} \cup ToSet(hash_table[b])
          /\ IsInjective(<<e>> \o hash_table[b])
      BY <1>6, <2>1, <3>1, ConsSet
    <3>3. /\ hash_table'[b] = <<e>> \o hash_table[b]
          /\ \A c \in Buckets : c # b => hash_table'[c] = hash_table[c]
      BY <2>3, <1>3, <1>6 DEF TypeOK
    <3>4. hash_table' \in [Buckets -> Seq(Addresses)]
      BY <2>3, <1>3, <3>2 DEF TypeOK
    <3>5. ASSUME NEW c \in Buckets
          PROVE  /\ IsInjective(hash_table'[c])
                 /\ ToSet(hash_table'[c]) = IF c = b THEN ToSet(hash_table[c]) \cup {e}
                                            ELSE ToSet(hash_table[c])
      <4>1. CASE c = b
        BY <4>1, <3>2, <3>3
      <4>2. CASE c # b
        BY <4>2, <2>1, <3>3
      <4> QED BY <4>1, <4>2
    <3> QED BY <2>3, <3>4, <3>5
  <2> QED BY <2>2, <2>3
<1>20. ChainsHold'
  <2> SUFFICES ASSUME NEW c \in Buckets
               PROVE  /\ IsInjective(hash_table'[c])
                      /\ \A x \in ToSet(hash_table'[c]) :
                           x \in Allocated' /\ Hash[heap'[x].url] = c
    BY DEF ChainsHold
  <2>1. ASSUME NEW x \in ToSet(hash_table'[c])
        PROVE  x \in Allocated' /\ Hash[heap'[x].url] = c
    <3>1. CASE x \in ToSet(hash_table[c])
      BY <3>1, <1>14, <1>15 DEF ChainsHold
    <3>2. CASE x = e /\ c = b
      BY <3>2, <1>13, <1>14
    <3> QED BY <1>19, <3>1, <3>2
  <2> QED BY <1>19, <2>1
<1>21. (HashInsert => AllHashed)'
  <2> SUFFICES ASSUME HashInsert, NEW x \in Allocated'
               PROVE  x \in ToSet(hash_table'[Hash[heap'[x].url]])
    BY DEF AllHashed
  <2>1. CASE x = e
    BY <2>1, <1>6, <1>13, <1>19
  <2>2. CASE x \in Allocated
    <3>1. heap'[x].url = heap[x].url /\ x \in ToSet(hash_table[Hash[heap[x].url]])
      BY <2>2, <1>15 DEF AllHashed
    <3>2. Hash[heap[x].url] \in Buckets
      <4>1. heap[x] \in Element
        BY <2>2 DEF TypeOK, Allocated
      <4>2. heap[x].url \in Urls
        BY <4>1 DEF Element
      <4> QED BY <4>2, CacheAssumption
    <3> QED BY <3>1, <3>2, <1>19
  <2> QED BY <2>1, <2>2, <1>14
<1>22. SizeAccounted'
  <2>1. /\ IsFiniteSet(Allocated) /\ Allocated \in SUBSET Addresses
        /\ \A x \in Allocated : heap[x] # NULL
    BY AllocatedFinite
  <2> DEFINE S == Allocated \cup {e}
  <2>2. IsFiniteSet(S) /\ S \in SUBSET Addresses /\ e \in S /\ S \ {e} = Allocated
    BY <1>5, <2>1, FS_AddElement
  <2>3. \A x \in S : heap'[x] # NULL
    BY <1>14 DEF Allocated
  <2> HIDE DEF S
  <2>4. BytesIn(heap', S) = BytesIn(heap', S \ {e}) + ElementSize(heap'[e].url, heap'[e].data)
    BY <1>13, <2>2, <2>3, BytesMore
  <2>5. BytesIn(heap', Allocated) = BytesIn(heap, Allocated)
    BY <1>6, <1>15, <2>1, BytesSame
  <2>6. BytesIn(heap', Allocated') = BytesIn(heap, Allocated) + ElementSize(url[t], data[t])
    BY <1>13, <1>14, <2>2, <2>4, <2>5 DEF S
  <2>7. cache_size = BytesIn(heap, Allocated)
    BY DEF SizeAccounted
  <2>8. cache_size + ElementSize(url[t], data[t]) <= MAX_SIZE
    <3>1. ~ (cache_size + ElementSize(url[t], data[t]) > MAX_SIZE)
      BY <1>2 DEF Full
    <3>2. cache_size \in Int /\ MAX_SIZE \in Nat
      BY CacheAssumption DEF TypeOK
    <3> QED BY <1>4, <3>1, <3>2
  <2> QED BY <1>2, <2>6, <2>7, <2>8 DEF SizeAccounted
<1>23. TypeOK'
  <2>1. lru_head' \in Pointer /\ lru_tail' \in Pointer
    BY <1>3 DEF TypeOK, Pointer
  <2>2. heap' \in [Addresses -> Element \cup {NULL}]
    BY <1>13 DEF Heap
  <2>3. cache_size' \in Int
    BY <1>2, <1>4 DEF TypeOK
  <2> QED BY <1>2, <1>4, <1>16, <1>19, <2>1, <2>2, <2>3, NullApart DEF TypeOK, Pointer
<1>24. IInv'
  BY <1>12, <1>17, <1>18, <1>20, <1>21, <1>22, <1>23
<1> QED BY <1>3, <1>13, <1>15, <1>24

LEMMA NextInductive == IInv /\ [Next]_vars => IInv'
<1> SUFFICES ASSUME IInv, [Next]_vars PROVE IInv'
  OBVIOUS
<1>1. CASE UNCHANGED vars
  <2>1. InTransit' = InTransit /\ UNCHANGED <<list, hash_table, cache_size>>
    BY <1>1 DEF vars, InTransit
  <2>2. ListWellFormed' /\ NothingLeaked' /\ Kept' /\ Allocated' = Allocated
    BY <2>1, QuietKeeps
  <2>3. TypeOK' /\ SiteValid' /\ Requested'
    BY <1>1, <2>2 DEF vars, locks, list, IInv, TypeOK, SiteValid, Requested
  <2> QED BY <2>2, <2>3 DEF IInv, Kept
<1>2. ASSUME NEW t \in Threads, NEW u \in Urls, LookupMiss(t, u) \/ LookupHit(t, u)
      PROVE  IInv'
  BY <1>2, MissInductive, HitInductive
<1>3. ASSUME NEW t \in Threads, NEW u \in Urls, NEW d \in Datas,
             AddTooLarge(t, u, d) \/ AddLock(t, u, d)
      PROVE  IInv'
  BY <1>1, <1>3, AddLockInductive DEF AddTooLarge
<1>4. ASSUME NEW t \in Threads, Step(t)
      PROVE  IInv'
  BY <1>4, RemoveInductive, TouchAppendInductive, LookupReturnInductive, EvictInductive,
     InsertInductive, NoMemoryInductive DEF Step
<1> QED BY <1>1, <1>2, <1>3, <1>4 DEF Next

-----------------------------------------------------------------------------
(* The refinement of LRUCache.                                               *)

(* The cache as its users see it, of any list q in heap h.                   *)
Responses == [url : Urls, data : Datas]

ResponseAt(h, e) == [url |-> h[e].url, data |-> h[e].data]

ResponsesOf(h, q) == [i \in DOMAIN q |-> ResponseAt(h, q[i])]

LEMMA AbsCacheIs ==
  /\ AbsCache = ResponsesOf(heap, Cached) /\ AbsCache' = ResponsesOf(heap', Cached')
  /\ \A e \in Addresses : AsElement(e) = ResponseAt(heap, e)
  /\ \A e \in Addresses : AsElement(e)' = ResponseAt(heap', e)
BY DEF AbsCache, AsElement, ResponsesOf, ResponseAt

Holds(h, q) ==
  /\ h \in Heap /\ q \in Seq(Addresses)
  /\ \A i \in 1..Len(q) : h[q[i]] # NULL

LEMMA ResponsesAreList ==
  ASSUME NEW h, NEW q, Holds(h, q)
  PROVE  /\ ResponsesOf(h, q) \in Seq(Responses)
         /\ Len(ResponsesOf(h, q)) = Len(q)
         /\ \A i \in 1..Len(q) : ResponsesOf(h, q)[i] = ResponseAt(h, q[i])
<1>1. /\ Len(q) \in Nat /\ DOMAIN q = 1..Len(q)
      /\ \A i \in 1..Len(q) : q[i] \in Addresses /\ h[q[i]] \in Element
  BY DEF Holds, Heap
<1>2. \A i \in 1..Len(q) : ResponseAt(h, q[i]) \in Responses
  BY <1>1 DEF ResponseAt, Responses, Element
<1>3. ResponsesOf(h, q) = [i \in 1..Len(q) |-> ResponseAt(h, q[i])]
  BY <1>1 DEF ResponsesOf
<1>4. ResponsesOf(h, q) \in [1..Len(q) -> Responses]
  BY <1>2, <1>3
<1>5. ResponsesOf(h, q) \in Seq(Responses)
  BY <1>1, <1>4, SeqDef
<1> QED BY <1>1, <1>3, <1>5

(* Moving pointers does not show.                                            *)
LEMMA ResponsesSame ==
  ASSUME NEW h, NEW q, Holds(h, q), NEW g \in Heap,
         \A i \in 1..Len(q) : /\ g[q[i]] # NULL
                              /\ g[q[i]].url = h[q[i]].url /\ g[q[i]].data = h[q[i]].data
  PROVE  Holds(g, q) /\ ResponsesOf(g, q) = ResponsesOf(h, q)
<1>1. q \in Seq(Addresses) /\ DOMAIN q = 1..Len(q)
  BY DEF Holds
<1>2. Holds(g, q)
  BY <1>1 DEF Holds
<1>3. \A i \in 1..Len(q) : ResponseAt(g, q[i]) = ResponseAt(h, q[i])
  BY DEF ResponseAt
<1> QED BY <1>1, <1>2, <1>3 DEF ResponsesOf

LEMMA ResponsesMoved ==
  ASSUME NEW h, NEW q, Holds(h, q), NEW g, SameData(g, h)
  PROVE  Holds(g, q) /\ ResponsesOf(g, q) = ResponsesOf(h, q)
<1>1. \A i \in 1..Len(q) : q[i] \in Addresses /\ h[q[i]] # NULL
  BY DEF Holds
<1>2. g \in Heap /\ \A i \in 1..Len(q) : /\ g[q[i]] # NULL
                                       /\ g[q[i]].url = h[q[i]].url
                                       /\ g[q[i]].data = h[q[i]].data
  BY <1>1 DEF SameData
<1> QED BY <1>2, ResponsesSame

(* Appending an element appends its response, ...                            *)
LEMMA ResponsesAppend ==
  ASSUME NEW h, NEW q, Holds(h, q), NEW e \in Addresses, h[e] # NULL
  PROVE  /\ Holds(h, Append(q, e))
         /\ ResponseAt(h, e) \in Responses
         /\ ResponsesOf(h, Append(q, e)) = Append(ResponsesOf(h, q), ResponseAt(h, e))
<1> DEFINE r == Append(q, e)
           s == ResponsesOf(h, q)
           x == ResponseAt(h, e)
<1>1. q \in Seq(Addresses) /\ Len(q) \in Nat /\ h \in Heap
  BY DEF Holds
<1>2. /\ r \in Seq(Addresses) /\ Len(r) = Len(q) + 1
      /\ \A i \in 1..(Len(q) + 1) : r[i] = IF i = Len(q) + 1 THEN e ELSE q[i]
  BY <1>1, AppendSet
<1>3. x \in Responses
  <2>1. h[e] \in Element
    BY <1>1 DEF Heap
  <2> QED BY <2>1 DEF Element, ResponseAt, Responses
<1>4. /\ s \in Seq(Responses) /\ Len(s) = Len(q)
      /\ \A i \in 1..Len(q) : s[i] = ResponseAt(h, q[i])
  BY ResponsesAreList
<1> HIDE DEF r, s, x
<1>5. /\ Append(s, x) \in Seq(Responses) /\ Len(Append(s, x)) = Len(q) + 1
      /\ \A i \in 1..(Len(q) + 1) : Append(s, x)[i] = IF i = Len(q) + 1 THEN x ELSE s[i]
  BY <1>3, <1>4, AppendSet
<1>6. Holds(h, r)
  <2>1. \A i \in 1..(Len(q) + 1) : i = Len(q) + 1 \/ i \in 1..Len(q)
    BY <1>1
  <2> QED BY <1>1, <1>2, <2>1 DEF Holds
<1>7. /\ ResponsesOf(h, r) \in Seq(Responses) /\ Len(ResponsesOf(h, r)) = Len(q) + 1
      /\ \A i \in 1..(Len(q) + 1) : ResponsesOf(h, r)[i] = ResponseAt(h, r[i])
  BY <1>2, <1>6, ResponsesAreList
<1>8. \A i \in 1..(Len(q) + 1) : ResponsesOf(h, r)[i] = Append(s, x)[i]
  <2>1. \A i \in 1..(Len(q) + 1) : i = Len(q) + 1 \/ i \in 1..Len(q)
    BY <1>1
  <2> QED BY <1>2, <1>4, <1>5, <1>7, <2>1 DEF x
<1>9. ResponsesOf(h, r) = Append(s, x)
  BY <1>5, <1>7, <1>8, SeqEqual
<1> QED BY <1>3, <1>6, <1>9 DEF r, s, x

(* ... and removing it removes its response.                                 *)
LEMMA ResponsesRemove ==
  ASSUME NEW h, NEW q, Holds(h, q), NEW k \in 1..Len(q)
  PROVE  /\ Holds(h, RemoveAt(q, k))
         /\ ResponsesOf(h, RemoveAt(q, k)) = RemoveAt(ResponsesOf(h, q), k)
<1> DEFINE r == RemoveAt(q, k)
           s == ResponsesOf(h, q)
           n == Len(q)
<1>1. q \in Seq(Addresses) /\ h \in Heap
  BY DEF Holds
<1>2. /\ r \in Seq(Addresses) /\ Len(r) = n - 1
      /\ \A i \in 1..(n - 1) : r[i] = IF i < k THEN q[i] ELSE q[i + 1]
  BY <1>1, RemoveAtSeq
<1>3. /\ s \in Seq(Responses) /\ Len(s) = n
      /\ \A i \in 1..n : s[i] = ResponseAt(h, q[i])
  BY ResponsesAreList
<1>4. n \in Nat /\ k \in 1..n
  BY <1>1
<1> HIDE DEF r, s
<1>5. /\ RemoveAt(s, k) \in Seq(Responses) /\ Len(RemoveAt(s, k)) = n - 1
      /\ \A i \in 1..(n - 1) : RemoveAt(s, k)[i] = IF i < k THEN s[i] ELSE s[i + 1]
  BY <1>3, RemoveAtSeq
<1> HIDE DEF n
<1>6. \A i \in 1..(n - 1) : i \in 1..n /\ i + 1 \in 1..n
  BY <1>4
<1>7. Holds(h, r)
  BY <1>1, <1>2, <1>6 DEF Holds, n
<1>8. /\ ResponsesOf(h, r) \in Seq(Responses) /\ Len(ResponsesOf(h, r)) = n - 1
      /\ \A i \in 1..(n - 1) : ResponsesOf(h, r)[i] = ResponseAt(h, r[i])
  BY <1>2, <1>7, ResponsesAreList
<1>9. \A i \in 1..(n - 1) : ResponsesOf(h, r)[i] = RemoveAt(s, k)[i]
  BY <1>2, <1>3, <1>5, <1>6, <1>8
<1>10. ResponsesOf(h, r) = RemoveAt(s, k)
  BY <1>5, <1>8, <1>9, SeqEqual
<1> QED BY <1>7, <1>10 DEF r, s

(* The bytes of a list of responses are the sum of their sizes.              *)
LEMMA ListBytesAreSums ==
  ASSUME NEW s, NEW n \in Nat, DOMAIN s = 1..n, NEW w, NEW g, Sums(g, 1..n, w),
         \A i \in 1..n : w[i] = ElementSize(s[i].url, s[i].data)
  PROVE  Abs!Bytes(s) = g[1..n]
<1> DEFINE S == 1..n
           c == [p \in SUBSET S |-> Max(p)]
           Adds(f) == [p \in SUBSET S |->
                         IF p = {} THEN 0
                         ELSE f[p \ {Max(p)}] + ElementSize(s[Max(p)].url, s[Max(p)].data)]
           iter == CHOOSE f : f = Adds(f)
<1>1. Abs!Bytes(s) = iter[S]
  BY DEF Abs!Bytes, Abs!FoldLeft, Abs!MapThenFoldSet, Abs!Max, Max
<1> HIDE DEF iter
<1>2. \A p \in SUBSET S : p # {} => Max(p) \in p /\ c[p] \in p
  BY MaxIsMember
<1>3. g = Adds(g)
  <2>1. g = [p \in SUBSET S |-> g[p]]
    BY DEF Sums
  <2>2. ASSUME NEW p \in SUBSET S
        PROVE  g[p] = IF p = {} THEN 0
                      ELSE g[p \ {Max(p)}] + ElementSize(s[Max(p)].url, s[Max(p)].data)
    <3>1. CASE p = {}
      BY <3>1 DEF Sums
    <3>2. CASE p # {}
      <4>1. PICK x \in p : x = Max(p)
        BY <3>2, <1>2
      <4>2. g[p] = g[p \ {x}] + w[x] /\ w[x] = ElementSize(s[x].url, s[x].data)
        BY DEF Sums
      <4> QED BY <3>2, <4>1, <4>2
    <3> QED BY <3>1, <3>2
  <2> QED BY <2>1, <2>2
<1>4. iter = Adds(iter)
  BY <1>3 DEF iter
<1>5. \A p \in SUBSET S : iter[p] = IF p = {} THEN 0 ELSE iter[p \ {c[p]}] + w[c[p]]
  <2> SUFFICES ASSUME NEW p \in SUBSET S
               PROVE  iter[p] = IF p = {} THEN 0 ELSE iter[p \ {c[p]}] + w[c[p]]
    OBVIOUS
  <2>1. iter[p] = IF p = {} THEN 0
                  ELSE iter[p \ {Max(p)}] + ElementSize(s[Max(p)].url, s[Max(p)].data)
    BY <1>4
  <2>2. c[p] = Max(p)
    OBVIOUS
  <2> HIDE DEF c
  <2>3. p # {} => w[c[p]] = ElementSize(s[c[p]].url, s[c[p]].data)
    BY <1>2
  <2> QED BY <2>1, <2>2, <2>3
<1>6. IsFiniteSet(S)
  BY FS_Interval
<1> HIDE DEF c, S
<1>7. AddsUp(iter, c, S, w)
  BY <1>2, <1>5 DEF AddsUp
<1>8. iter[S] = g[S]
  BY <1>6, <1>7, SumsUnique DEF S
<1> QED BY <1>1, <1>8 DEF S

(* cache_size counts the responses an addition sees.                         *)
LEMMA BytesCounted ==
  ASSUME IInv, InTransit = {}
  PROVE  Abs!Bytes(ResponsesOf(heap, order)) = cache_size
<1>1. order \in Seq(Addresses) /\ IsInjective(order) /\ heap \in Heap /\ ToSet(order) = Allocated
      /\ Len(order) \in Nat /\ DOMAIN order = 1..Len(order)
  BY DEF IInv, TypeOK, ListWellFormed, NothingLeaked, Heap, Stored
<1>2. IsFiniteSet(Allocated) /\ Allocated \in SUBSET Addresses /\ \A x \in Allocated : heap[x] # NULL
  BY AllocatedFinite DEF IInv
<1>3. PICK w, g : /\ \A x \in Allocated : w[x] = ElementSize(heap[x].url, heap[x].data)
                  /\ Sums(g, Allocated, w)
  BY <1>1, <1>2, BytesSums
<1>4. BytesIn(heap, Allocated) = g[Allocated]
  BY <1>2, <1>3, BytesAreSums
<1> DEFINE n == Len(order)
           v == [i \in 1..n |-> w[order[i]]]
           s == ResponsesOf(heap, order)
<1>5. PICK h : Sums(h, DOMAIN order, v) /\ h[DOMAIN order] = g[ToSet(order)]
  <2>1. \A i \in DOMAIN order : v[i] = w[order[i]]
    BY <1>1
  <2> HIDE DEF v
  <2> QED BY <1>1, <1>3, <2>1, SumsOfList
<1>6. \A i \in 1..n : order[i] \in Allocated
  BY <1>1 DEF ToSet
<1>7. Holds(heap, order)
  BY <1>1, <1>2, <1>6 DEF Holds
<1>8. s \in Seq(Responses) /\ Len(s) = n /\ \A i \in 1..n : s[i] = ResponseAt(heap, order[i])
  BY <1>7, ResponsesAreList
<1>9. \A i \in 1..n : v[i] = ElementSize(s[i].url, s[i].data)
  <2>1. \A e : ResponseAt(heap, e).url = heap[e].url /\ ResponseAt(heap, e).data = heap[e].data
    BY DEF ResponseAt
  <2> HIDE DEF s, n
  <2>2. \A i \in 1..n : s[i].url = heap[order[i]].url /\ s[i].data = heap[order[i]].data
    BY <1>8, <2>1
  <2> QED BY <1>3, <1>6, <2>2
<1>10. DOMAIN s = 1..n
  BY <1>8
<1> HIDE DEF s, v
<1>11. Abs!Bytes(s) = h[1..n]
  <2>1. n \in Nat /\ Sums(h, 1..n, v)
    BY <1>1, <1>5
  <2> HIDE DEF n
  <2> QED BY <2>1, <1>9, <1>10, ListBytesAreSums
<1> QED BY <1>1, <1>4, <1>5, <1>11 DEF s, IInv, SizeAccounted

(* What the users see: the list, and the element on its way to its end.      *)
Shown ==
  IInv =>
    /\ Holds(heap, order)
    /\ lru_mutex = NULL => AbsCache = ResponsesOf(heap, order)
    /\ lru_mutex # NULL =>
         /\ site[lru_mutex] \in Addresses /\ heap[site[lru_mutex]] # NULL
         /\ AbsCache = ResponsesOf(heap, Append(order, site[lru_mutex]))

LEMMA Shows == Shown
<1> SUFFICES ASSUME IInv
             PROVE  /\ Holds(heap, order)
                    /\ lru_mutex = NULL => AbsCache = ResponsesOf(heap, order)
                    /\ lru_mutex # NULL =>
                         /\ site[lru_mutex] \in Addresses /\ heap[site[lru_mutex]] # NULL
                         /\ AbsCache = ResponsesOf(heap, Append(order, site[lru_mutex]))
  BY DEF Shown
<1> USE DEF IInv
<1>1. order \in Seq(Addresses) /\ heap \in Heap /\ DOMAIN order = 1..Len(order)
  BY DEF TypeOK, Heap
<1>2. \A e \in Stored : heap[e] # NULL
  BY DEF NothingLeaked, Allocated
<1>3. Holds(heap, order)
  BY <1>1, <1>2 DEF Holds, Stored, ToSet
<1>4. CASE lru_mutex = NULL
  <2>1. InTransit = {}
    BY <1>4, InTransitIs
  <2>2. Cached = order
    BY <1>1, <2>1, SetToSeqSmall, ConcatEmptySeq DEF Cached
  <2> QED BY <1>3, <1>4, <2>2, AbsCacheIs
<1>5. CASE lru_mutex # NULL
  <2> DEFINE e == site[lru_mutex]
  <2>1. InTransit = {e}
    BY <1>5, InTransitIs
  <2>2. e \in Addresses /\ heap[e] # NULL
    BY <2>1 DEF NothingLeaked, Allocated
  <2> HIDE DEF e
  <2>3. Cached = Append(order, e)
    <3>1. Cached = order \o <<e>>
      BY <2>1, SetToSeqSmall DEF Cached
    <3>2. Append(order, e) = order \o <<e>>
      BY <1>1, <2>2, AppendIsConcat
    <3> QED BY <3>1, <3>2
  <2> QED BY <1>3, <1>5, <2>2, <2>3, AbsCacheIs DEF e
<1> QED BY <1>4, <1>5

LEMMA ShowsNext == Shown'
BY Shows, PTL

(* What each thread is doing there.                                          *)
LEMMA Doing ==
  ASSUME IInv, NEW t \in Threads
  PROVE  /\ AbsAdding[t] = NULL <=> pc[t] # "adding"
         /\ AbsFound[t] = NULL <=> pc[t] \notin {"removed", "touched"}
         /\ pc[t] = "adding" => AbsAdding[t] = [url |-> url[t], data |-> data[t]]
         /\ pc[t] \in {"removed", "touched"} =>
              /\ AbsFound[t] = ResponseAt(heap, site[t])
              /\ site[t] \in Addresses /\ heap[site[t]] # NULL
<1>1. pc[t] = "adding" => [url |-> url[t], data |-> data[t]] # NULL
  BY NullApart DEF IInv, Requested
<1>2. ASSUME pc[t] \in {"removed", "touched"}
      PROVE  /\ site[t] \in Addresses /\ heap[site[t]] # NULL
             /\ ResponseAt(heap, site[t]) # NULL
  <2>1. t \in readers
    BY <1>2 DEF IInv, TypeOK
  <2>2. site[t] \in Addresses /\ heap[site[t]] # NULL
    BY <2>1 DEF IInv, SiteValid, Allocated
  <2>3. heap[site[t]].url \in Urls /\ heap[site[t]].data \in Datas
    BY <2>2 DEF IInv, TypeOK, Element
  <2> QED BY <2>2, <2>3, NullApart DEF ResponseAt
<1>3. AbsFound[t] = IF pc[t] \in {"removed", "touched"} THEN ResponseAt(heap, site[t]) ELSE NULL
  BY DEF AbsFound, AsElement, ResponseAt
<1>4. AbsAdding[t] = IF pc[t] = "adding" THEN [url |-> url[t], data |-> data[t]] ELSE NULL
  BY DEF AbsAdding
<1> QED BY <1>1, <1>2, <1>3, <1>4

LEMMA NobodyAdds ==
  ASSUME IInv, writer = NULL
  PROVE  Abs!NoAddition
<1>1. \A t \in Threads : pc[t] # "adding"
  BY NullApart DEF IInv, TypeOK
<1> QED BY <1>1, Doing DEF Abs!NoAddition

(* A thread neither begins nor ends what the users see of its call.          *)
LEMMA FoundSame ==
  ASSUME IInv, NEW t \in Threads, SameData(heap', heap),
         \A s \in Threads \ {t} : pc'[s] = pc[s] /\ site'[s] = site[s]
  PROVE  \A s \in Threads \ {t} : AbsFound'[s] = AbsFound[s]
<1> SUFFICES ASSUME NEW s \in Threads \ {t}
             PROVE  AbsFound'[s] = AbsFound[s]
  OBVIOUS
<1>1. AbsFound'[s] = IF pc'[s] \in {"removed", "touched"} THEN ResponseAt(heap', site'[s]) ELSE NULL
  BY DEF AbsFound, AsElement, ResponseAt
<1>2. AbsFound[s] = IF pc[s] \in {"removed", "touched"} THEN ResponseAt(heap, site[s]) ELSE NULL
  BY DEF AbsFound, AsElement, ResponseAt
<1>3. pc[s] \in {"removed", "touched"} => ResponseAt(heap', site[s]) = ResponseAt(heap, site[s])
  BY Doing DEF SameData, ResponseAt
<1> QED BY <1>1, <1>2, <1>3

-----------------------------------------------------------------------------
(* Every step of Cache is a step of LRUCache or none.                        *)
LEMMA InitRefines == Init => Abs!Init
<1> SUFFICES ASSUME Init PROVE Abs!Init
  OBVIOUS
<1>1. IInv /\ lru_mutex = NULL /\ order = << >>
  BY InitInductive DEF Init
<1>2. AbsCache = ResponsesOf(heap, << >>)
  BY <1>1, Shows DEF Shown
<1>3. AbsCache = << >>
  BY <1>2 DEF ResponsesOf
<1>4. AbsAdding = [t \in Threads |-> NULL] /\ AbsFound = [t \in Threads |-> NULL]
  BY DEF AbsAdding, AbsFound, Init
<1> QED BY <1>3, <1>4 DEF Init, Abs!Init

(* With insertions into the hash table a lookup only misses what the list    *)
(* does not hold.                                                            *)
LEMMA MissRefines ==
  ASSUME IInv, HashInsert, NEW t \in Threads, NEW u \in Urls, LookupMiss(t, u)
  PROVE  Abs!Miss(t, u)
<1>1. /\ pc[t] = "idle" /\ writer = NULL
      /\ \A i \in DOMAIN Chain(u) : heap[Chain(u)[i]].url # u
      /\ cached_data' = [cached_data EXCEPT ![t] = NULL]
      /\ UNCHANGED <<pc, url, data, site, readers, writer, lru_mutex, lru_head, lru_tail, heap, order>>
  BY DEF LookupMiss, NoMatch, locks, list
<1>2. Abs!Idle(t) /\ Abs!NoAddition
  BY <1>1, Doing, NobodyAdds DEF Abs!Idle
<1>3. \A e \in Addresses : heap[e] # NULL => heap[e].url # u
  <2> SUFFICES ASSUME NEW e \in Addresses, heap[e] # NULL, heap[e].url = u
               PROVE  FALSE
    OBVIOUS
  <2>1. e \in ToSet(Chain(u))
    BY DEF IInv, AllHashed, Allocated, Chain
  <2> QED BY <1>1, <2>1 DEF ToSet
<1>4. PICK q : Holds(heap, q) /\ AbsCache = ResponsesOf(heap, q)
  <2>1. CASE lru_mutex = NULL
    BY <2>1, Shows DEF Shown
  <2>2. CASE lru_mutex # NULL
    BY <2>2, Shows, ResponsesAppend DEF Shown
  <2> QED BY <2>1, <2>2
<1>5. \A i \in DOMAIN AbsCache : AbsCache[i].url # u
  <2>1. /\ DOMAIN AbsCache = 1..Len(q)
        /\ \A i \in 1..Len(q) : AbsCache[i] = ResponseAt(heap, q[i])
    BY <1>4, ResponsesAreList
  <2>2. \A i \in 1..Len(q) : q[i] \in Addresses /\ heap[q[i]] # NULL
    BY <1>4 DEF Holds
  <2>3. \A e : ResponseAt(heap, e).url = heap[e].url
    BY DEF ResponseAt
  <2> QED BY <1>3, <2>1, <2>2, <2>3
<1>6. UNCHANGED <<AbsCache, AbsAdding, AbsFound>>
  BY <1>1 DEF AbsCache, Cached, InTransit, AsElement, AbsAdding, AbsFound
<1> QED BY <1>1, <1>2, <1>5, <1>6 DEF Abs!Miss

(* Finding an element does not show yet.                                     *)
LEMMA HitRefines ==
  ASSUME IInv, NEW t \in Threads, NEW u \in Urls, LookupHit(t, u)
  PROVE  UNCHANGED Abs!vars
<1>1. /\ pc[t] = "idle" /\ pc' = [pc EXCEPT ![t] = "hit"]
      /\ \A s \in Threads \ {t} : site'[s] = site[s]
      /\ \A s \in Threads \ {t} : url'[s] = url[s]
      /\ UNCHANGED <<data, cached_data, lru_mutex, heap, order>>
  BY DEF LookupHit, list, IInv, TypeOK
<1>2. InTransit' = InTransit
  <2>1. \A s \in Threads : /\ pc'[s] = "removed" <=> pc[s] = "removed"
                           /\ pc[s] = "removed" => site'[s] = site[s]
    BY <1>1 DEF IInv, TypeOK
  <2> QED BY <2>1 DEF InTransit
<1>3. AbsCache' = AbsCache
  BY <1>1, <1>2 DEF AbsCache, Cached, AsElement
<1>4. AbsFound' = AbsFound /\ AbsAdding' = AbsAdding
  <2>1. \A s \in Threads : pc'[s] = IF s = t THEN "hit" ELSE pc[s]
    BY <1>1 DEF IInv, TypeOK
  <2> QED BY <1>1, <2>1 DEF AbsFound, AbsAdding, AsElement
<1> QED BY <1>1, <1>3, <1>4 DEF Abs!vars

(* Taking it out of the list is the abstract hit: it is already on its way   *)
(* to the end.                                                               *)
LEMMA RemoveRefines ==
  ASSUME IInv, NEW t \in Threads, TouchRemove(t)
  PROVE  url[t] \in Urls /\ Abs!Hit(t, url[t])
<1> DEFINE e == site[t]
<1>1. /\ pc[t] = "hit" /\ lru_mutex = NULL /\ lru_mutex' = t
      /\ pc' = [pc EXCEPT ![t] = "removed"]
      /\ UNCHANGED <<url, data, site, cached_data, readers, writer, hash_table, cache_size>>
  BY DEF TouchRemove, LruLockFree
<1>2. /\ IInv' /\ SameData(heap', heap)
  BY RemoveInductive
<1>3. PICK k \in DOMAIN order : e = order[k] /\ order' = RemoveAt(order, k)
  BY RemoveInductive
<1>4. t \in readers /\ e \in Addresses /\ heap[e] # NULL /\ heap[e].url = url[t] /\ url[t] \in Urls
  <2>1. t \in readers
    BY <1>1 DEF IInv, TypeOK
  <2>2. e \in Addresses /\ heap[e] # NULL /\ heap[e].url = url[t]
    BY <2>1 DEF IInv, SiteValid, Allocated
  <2> QED BY <2>1, <2>2 DEF IInv, TypeOK, Element
<1>5. Abs!Idle(t) /\ Abs!NoAddition
  <2>1. writer = NULL
    BY <1>4 DEF IInv, TypeOK
  <2> QED BY <1>1, <2>1, Doing, NobodyAdds DEF Abs!Idle
<1>6. Holds(heap, order) /\ AbsCache = ResponsesOf(heap, order) /\ k \in 1..Len(order)
  BY <1>1, <1>3, Shows DEF Shown, Holds
<1>7. k \in DOMAIN AbsCache /\ AbsCache[k] = ResponseAt(heap, e)
  BY <1>3, <1>6, ResponsesAreList
<1>8. AbsCache' = Append(RemoveAt(AbsCache, k), ResponseAt(heap, e))
  <2>1. AbsCache' = ResponsesOf(heap', Append(RemoveAt(order, k), e))
    <3>1. lru_mutex' # NULL /\ site'[lru_mutex'] = e
      BY <1>1, NullApart
    <3>2. AbsCache' = ResponsesOf(heap', Append(order', site'[lru_mutex']))
      BY <1>2, <3>1, ShowsNext DEF Shown
    <3> QED BY <1>3, <3>1, <3>2
  <2>2. /\ Holds(heap, RemoveAt(order, k))
        /\ ResponsesOf(heap, RemoveAt(order, k)) = RemoveAt(AbsCache, k)
    BY <1>6, ResponsesRemove
  <2>3. /\ Holds(heap, Append(RemoveAt(order, k), e))
        /\ ResponsesOf(heap, Append(RemoveAt(order, k), e))
             = Append(RemoveAt(AbsCache, k), ResponseAt(heap, e))
    BY <1>4, <2>2, ResponsesAppend
  <2> QED BY <1>2, <2>1, <2>3, ResponsesMoved
<1>9. AbsFound' = [AbsFound EXCEPT ![t] = ResponseAt(heap, e)]
  <2>1. \A s \in Threads \ {t} : AbsFound'[s] = AbsFound[s]
    <3>1. \A s \in Threads \ {t} : pc'[s] = pc[s] /\ site'[s] = site[s]
      BY <1>1 DEF IInv, TypeOK
    <3> QED BY <1>2, <3>1, FoundSame
  <2>2. AbsFound'[t] = ResponseAt(heap', e)
    BY <1>1 DEF AbsFound, AsElement, ResponseAt, IInv, TypeOK
  <2>3. ResponseAt(heap', e) = ResponseAt(heap, e)
    BY <1>2, <1>4 DEF SameData, ResponseAt
  <2>4. AbsFound = [s \in Threads |-> AbsFound[s]] /\ AbsFound' = [s \in Threads |-> AbsFound'[s]]
    BY DEF AbsFound
  <2> QED BY <2>1, <2>2, <2>3, <2>4
<1>10. AbsAdding' = AbsAdding
  BY <1>1 DEF AbsAdding, IInv, TypeOK
<1>11. ResponseAt(heap, e).url = url[t]
  BY <1>4 DEF ResponseAt
<1> HIDE DEF e
<1> QED BY <1>1, <1>4, <1>5, <1>7, <1>8, <1>9, <1>10, <1>11 DEF Abs!Hit, Abs!RemoveAt, RemoveAt

(* Putting it back does not show.                                            *)
LEMMA AppendRefines ==
  ASSUME IInv, NEW t \in Threads, TouchAppend(t)
  PROVE  UNCHANGED Abs!vars
<1> DEFINE e == site[t]
<1>1. /\ pc[t] = "removed" /\ lru_mutex' = NULL
      /\ pc' = [pc EXCEPT ![t] = "touched"]
      /\ UNCHANGED <<url, data, site, cached_data, readers, writer, hash_table, cache_size>>
  BY DEF TouchAppend
<1>2. IInv' /\ SameData(heap', heap) /\ order' = Append(order, e)
  BY TouchAppendInductive
<1>3. lru_mutex = t /\ lru_mutex # NULL
  BY <1>1, NullApart DEF IInv, TypeOK
<1>4. /\ Holds(heap, order) /\ AbsCache = ResponsesOf(heap, Append(order, e))
      /\ e \in Addresses /\ heap[e] # NULL
  BY <1>3, Shows DEF Shown
<1>5. AbsCache' = ResponsesOf(heap', Append(order, e))
  BY <1>1, <1>2, ShowsNext DEF Shown
<1>6. AbsCache' = AbsCache
  BY <1>2, <1>4, <1>5, ResponsesAppend, ResponsesMoved
<1>7. AbsFound' = AbsFound
  <2>1. \A s \in Threads \ {t} : AbsFound'[s] = AbsFound[s]
    <3>1. \A s \in Threads \ {t} : pc'[s] = pc[s] /\ site'[s] = site[s]
      BY <1>1 DEF IInv, TypeOK
    <3> QED BY <1>2, <3>1, FoundSame
  <2>2. AbsFound'[t] = ResponseAt(heap', e) /\ AbsFound[t] = ResponseAt(heap, e)
    BY <1>1 DEF AbsFound, AsElement, ResponseAt, IInv, TypeOK
  <2>3. ResponseAt(heap', e) = ResponseAt(heap, e)
    BY <1>2, <1>4 DEF SameData, ResponseAt
  <2>4. AbsFound = [s \in Threads |-> AbsFound[s]] /\ AbsFound' = [s \in Threads |-> AbsFound'[s]]
    BY DEF AbsFound
  <2> QED BY <2>1, <2>2, <2>3, <2>4
<1>8. AbsAdding' = AbsAdding
  BY <1>1 DEF AbsAdding, IInv, TypeOK
<1> QED BY <1>1, <1>6, <1>7, <1>8 DEF Abs!vars

(* The copy is what the lookup found.                                        *)
LEMMA ReturnRefines ==
  ASSUME IInv, NEW t \in Threads, LookupReturn(t)
  PROVE  Abs!Return(t)
<1>1. /\ pc[t] = "touched"
      /\ pc' = [pc EXCEPT ![t] = "idle"]
      /\ url' = [url EXCEPT ![t] = NULL]
      /\ data' = [data EXCEPT ![t] = NULL]
      /\ site' = [site EXCEPT ![t] = NULL]
      /\ UNCHANGED <<lru_mutex, heap, order>>
  BY DEF LookupReturn, Return, list
<1>2. PICK d \in {heap[site[t]].data, NULL} : cached_data' = [cached_data EXCEPT ![t] = d]
  BY DEF LookupReturn
<1>3. AbsFound[t] # NULL /\ AbsFound[t].data = heap[site[t]].data
  <2>1. AbsFound[t] # NULL /\ AbsFound[t] = ResponseAt(heap, site[t])
    BY <1>1, Doing
  <2>2. ResponseAt(heap, site[t]).data = heap[site[t]].data
    BY DEF ResponseAt
  <2> QED BY <2>1, <2>2
<1>4. AbsFound' = [AbsFound EXCEPT ![t] = NULL]
  BY <1>1 DEF AbsFound, AsElement, IInv, TypeOK
<1>5. AbsAdding' = AbsAdding
  BY <1>1 DEF AbsAdding, IInv, TypeOK
<1>6. InTransit' = InTransit
  BY <1>1 DEF InTransit, IInv, TypeOK
<1>7. AbsCache' = AbsCache
  BY <1>1, <1>6 DEF AbsCache, Cached, AsElement
<1> QED BY <1>2, <1>3, <1>4, <1>5, <1>7 DEF Abs!Return

(* The write lock is taken when every lookup has returned.                   *)
LEMMA AddLockRefines ==
  ASSUME IInv, NEW t \in Threads, NEW u \in Urls, NEW d \in Datas, AddLock(t, u, d)
  PROVE  Abs!BeginAdd(t, u, d)
<1>1. /\ pc[t] = "idle" /\ writer = NULL /\ readers = {}
      /\ ElementSize(u, d) <= MAX_ELEMENT_SIZE
      /\ pc' = [pc EXCEPT ![t] = "adding"]
      /\ url' = [url EXCEPT ![t] = u]
      /\ data' = [data EXCEPT ![t] = d]
      /\ UNCHANGED <<site, cached_data, heap, order>>
  BY DEF AddLock, WrLockFree, list
<1>2. \A s \in Threads : Abs!Idle(s)
  <2>1. \A s \in Threads : pc[s] # "adding" /\ pc[s] \notin {"removed", "touched"}
    BY <1>1, NullApart DEF IInv, TypeOK
  <2> QED BY <2>1, Doing DEF Abs!Idle
<1>3. AbsAdding' = [AbsAdding EXCEPT ![t] = [url |-> u, data |-> d]]
  <2>1. \A s \in Threads : /\ pc'[s] = IF s = t THEN "adding" ELSE pc[s]
                           /\ url'[s] = IF s = t THEN u ELSE url[s]
                           /\ data'[s] = IF s = t THEN d ELSE data[s]
    BY <1>1 DEF IInv, TypeOK
  <2> QED BY <2>1 DEF AbsAdding
<1>4. AbsFound' = AbsFound
  BY <1>1 DEF AbsFound, AsElement, IInv, TypeOK
<1>5. InTransit' = InTransit
  BY <1>1 DEF InTransit, IInv, TypeOK
<1>6. AbsCache' = AbsCache
  BY <1>1, <1>5 DEF AbsCache, Cached, AsElement
<1> QED BY <1>1, <1>2, <1>3, <1>4, <1>6 DEF Abs!BeginAdd

(* What the thread that adds sees of the cache.                              *)
LEMMA AdderSees ==
  ASSUME IInv, NEW t \in Threads, pc[t] = "adding"
  PROVE  /\ Holds(heap, order) /\ AbsCache = ResponsesOf(heap, order)
         /\ AbsAdding[t] = [url |-> url[t], data |-> data[t]]
         /\ AbsAdding[t] # NULL
         /\ Abs!Fits(AbsAdding[t]) <=> ~ Full(t)
<1>1. lru_mutex = NULL /\ InTransit = {} /\ ElementSize(url[t], data[t]) \in Nat
  BY Alone
<1>2. Holds(heap, order) /\ AbsCache = ResponsesOf(heap, order)
  BY <1>1, Shows DEF Shown
<1>3. Abs!Bytes(AbsCache) = cache_size
  BY <1>1, <1>2, BytesCounted
<1>4. AbsAdding[t] = [url |-> url[t], data |-> data[t]] /\ AbsAdding[t] # NULL
  BY Doing
<1>5. cache_size \in Int
  BY DEF IInv, TypeOK
<1>6. AbsAdding[t].url = url[t] /\ AbsAdding[t].data = data[t]
  BY <1>4
<1>7. Abs!Fits(AbsAdding[t]) <=> ~ Full(t)
  BY <1>1, <1>3, <1>5, <1>6, CacheAssumption DEF Abs!Fits, Full
<1> QED BY <1>2, <1>4, <1>7

(* The head of the list is what has not been used for longest.               *)
LEMMA EvictRefines ==
  ASSUME IInv, NEW t \in Threads, AddEvict(t)
  PROVE  Abs!Evict(t) \/ UNCHANGED Abs!vars
<1>1. /\ pc[t] = "adding" /\ Full(t)
      /\ UNCHANGED <<pc, url, data, site, cached_data, readers, writer, lru_mutex>>
  BY DEF AddEvict, locks
<1>2. AbsAdding' = AbsAdding
  BY <1>1 DEF AbsAdding
<1>3. AbsFound' = AbsFound
  <2>1. readers = {}
    BY <1>1, Alone
  <2>2. \A s \in Threads : pc[s] \notin {"removed", "touched"}
    BY <2>1 DEF IInv, TypeOK
  <2> QED BY <1>1, <2>2 DEF AbsFound
<1>4. CASE lru_head = NULL
  <2>1. heap' = heap /\ order' = order
    BY <1>4, EvictInductive DEF list
  <2>2. AbsCache' = AbsCache
    BY <1>1, <2>1 DEF AbsCache, Cached, InTransit, AsElement
  <2> QED BY <1>1, <1>2, <1>3, <2>2 DEF Abs!vars
<1>5. CASE lru_head # NULL
  <2>1. /\ IInv' /\ order # << >> /\ order' = RemoveAt(order, 1)
        /\ \A x \in Allocated' : heap'[x].url = heap[x].url /\ heap'[x].data = heap[x].data
    BY <1>5, EvictInductive
  <2>2. /\ Holds(heap, order) /\ AbsCache = ResponsesOf(heap, order)
        /\ AbsAdding[t] # NULL /\ ~ Abs!Fits(AbsAdding[t])
    BY <1>1, AdderSees
  <2>3. order \in Seq(Addresses) /\ 1 \in 1..Len(order)
    BY <2>1, <2>2, EmptySeq, LenProperties DEF Holds
  <2>4. /\ Holds(heap, order')
        /\ ResponsesOf(heap, order') = RemoveAt(AbsCache, 1)
    BY <2>1, <2>2, <2>3, ResponsesRemove
  <2>5. AbsCache \in Seq(Responses) /\ AbsCache # << >>
    BY <2>2, <2>3, ResponsesAreList, EmptySeq
  <2>6. RemoveAt(AbsCache, 1) = Tail(AbsCache)
    BY <2>5, RemoveHead
  <2>7. Holds(heap', order') /\ AbsCache' = ResponsesOf(heap', order')
    <3>1. lru_mutex' = NULL
      BY <1>1, Alone
    <3> QED BY <2>1, <3>1, ShowsNext DEF Shown
  <2>8. \A i \in 1..Len(order') : order'[i] \in Allocated'
    BY <2>7 DEF Holds, Allocated
  <2>9. ResponsesOf(heap', order') = ResponsesOf(heap, order')
    <3>1. heap' \in Heap /\ \A i \in 1..Len(order') : /\ heap'[order'[i]] # NULL
                                                     /\ heap'[order'[i]].url = heap[order'[i]].url
                                                     /\ heap'[order'[i]].data = heap[order'[i]].data
      BY <2>1, <2>7, <2>8 DEF Holds
    <3> QED BY <2>4, <3>1, ResponsesSame
  <2> QED BY <1>1, <1>2, <1>3, <2>2, <2>4, <2>5, <2>6, <2>7, <2>9 DEF Abs!Evict
<1> QED BY <1>4, <1>5

(* The new element is the most recently used one.                            *)
LEMMA InsertRefines ==
  ASSUME IInv, NEW t \in Threads, AddInsert(t)
  PROVE  Abs!Insert(t)
<1>1. /\ pc[t] = "adding" /\ ~ Full(t)
      /\ pc' = [pc EXCEPT ![t] = "idle"]
      /\ url' = [url EXCEPT ![t] = NULL]
      /\ data' = [data EXCEPT ![t] = NULL]
      /\ UNCHANGED <<cached_data, readers, lru_mutex>>
  BY DEF AddInsert, Return
<1>2. /\ Holds(heap, order) /\ AbsCache = ResponsesOf(heap, order)
      /\ AbsAdding[t] = [url |-> url[t], data |-> data[t]]
      /\ AbsAdding[t] # NULL /\ Abs!Fits(AbsAdding[t])
  BY <1>1, AdderSees
<1>3. IInv'
  BY InsertInductive
<1>4. PICK e \in Addresses :
        /\ order' = Append(order, e)
        /\ heap'[e].url = url[t] /\ heap'[e].data = data[t]
        /\ \A x \in Allocated : heap'[x].url = heap[x].url /\ heap'[x].data = heap[x].data
  BY InsertInductive
<1>5. Holds(heap', order') /\ AbsCache' = ResponsesOf(heap', order')
  <2>1. lru_mutex' = NULL
    BY <1>1, Alone
  <2> QED BY <1>3, <2>1, ShowsNext DEF Shown
<1>6. /\ order \in Seq(Addresses) /\ Len(order) \in Nat
      /\ order' \in Seq(Addresses) /\ Len(order') = Len(order) + 1
      /\ \A i \in 1..(Len(order) + 1) : order'[i] = IF i = Len(order) + 1 THEN e ELSE order[i]
  <2>1. order \in Seq(Addresses)
    BY <1>2 DEF Holds
  <2> QED BY <1>4, <2>1, AppendSet
<1>7. \A i \in 1..Len(order) : order[i] = order'[i] /\ heap'[order[i]] # NULL
  <2>1. \A i \in 1..Len(order) : i \in 1..(Len(order) + 1) /\ i # Len(order) + 1
    BY <1>6
  <2> QED BY <1>5, <1>6, <2>1 DEF Holds
<1>8. heap'[e] # NULL
  <2>1. Len(order) + 1 \in 1..(Len(order) + 1)
    BY <1>6
  <2> QED BY <1>5, <1>6, <2>1 DEF Holds
<1>9. Holds(heap', order) /\ ResponsesOf(heap', order) = ResponsesOf(heap, order)
  <2>1. \A i \in 1..Len(order) : order[i] \in Allocated
    BY <1>2 DEF Holds, Allocated
  <2>2. heap' \in Heap /\ \A i \in 1..Len(order) : /\ heap'[order[i]] # NULL
                                                  /\ heap'[order[i]].url = heap[order[i]].url
                                                  /\ heap'[order[i]].data = heap[order[i]].data
    BY <1>4, <1>5, <1>7, <2>1 DEF Holds
  <2> QED BY <1>2, <2>2, ResponsesSame
<1>10. ResponsesOf(heap', order') = Append(AbsCache, ResponseAt(heap', e))
  BY <1>2, <1>4, <1>8, <1>9, ResponsesAppend
<1>11. ResponseAt(heap', e) = AbsAdding[t]
  BY <1>2, <1>4 DEF ResponseAt
<1>12. AbsAdding' = [AbsAdding EXCEPT ![t] = NULL]
  BY <1>1 DEF AbsAdding, IInv, TypeOK
<1>13. AbsFound' = AbsFound
  <2>1. \A s \in Threads : pc[s] \notin {"removed", "touched"}
    BY <1>1, Alone DEF IInv, TypeOK
  <2>2. \A s \in Threads : pc'[s] \notin {"removed", "touched"}
    BY <1>1, <2>1 DEF IInv, TypeOK
  <2> QED BY <2>1, <2>2 DEF AbsFound
<1> QED BY <1>1, <1>2, <1>5, <1>10, <1>11, <1>12, <1>13 DEF Abs!Insert

LEMMA NoMemoryRefines ==
  ASSUME IInv, NEW t \in Threads, AddNoMemory(t)
  PROVE  Abs!Refuse(t)
<1>1. /\ pc[t] = "adding" /\ ~ Full(t)
      /\ pc' = [pc EXCEPT ![t] = "idle"]
      /\ url' = [url EXCEPT ![t] = NULL]
      /\ data' = [data EXCEPT ![t] = NULL]
      /\ site' = [site EXCEPT ![t] = NULL]
      /\ UNCHANGED <<cached_data, heap, order>>
  BY DEF AddNoMemory, Return, list
<1>2. AbsAdding[t] # NULL /\ Abs!Fits(AbsAdding[t])
  BY <1>1, AdderSees
<1>3. AbsAdding' = [AbsAdding EXCEPT ![t] = NULL]
  BY <1>1 DEF AbsAdding, IInv, TypeOK
<1>4. AbsFound' = AbsFound
  BY <1>1 DEF AbsFound, AsElement, IInv, TypeOK
<1>5. InTransit' = InTransit
  BY <1>1 DEF InTransit, IInv, TypeOK
<1>6. AbsCache' = AbsCache
  BY <1>1, <1>5 DEF AbsCache, Cached, AsElement
<1> QED BY <1>1, <1>2, <1>3, <1>4, <1>6 DEF Abs!Refuse

LEMMA NextRefines == HashInsert /\ IInv /\ [Next]_vars => [Abs!Next]_(Abs!vars)
<1> SUFFICES ASSUME HashInsert, IInv, [Next]_vars
             PROVE  Abs!Next \/ UNCHANGED Abs!vars
  OBVIOUS
<1>1. ASSUME UNCHANGED vars
      PROVE  UNCHANGED Abs!vars
  BY <1>1 DEF vars, list, locks, Abs!vars, AbsCache, Cached, InTransit, AsElement, AbsAdding, AbsFound
<1>2. ASSUME NEW t \in Threads, NEW u \in Urls, LookupMiss(t, u) \/ LookupHit(t, u)
      PROVE  Abs!Next \/ UNCHANGED Abs!vars
  BY <1>2, MissRefines, HitRefines DEF Abs!Next
<1>3. ASSUME NEW t \in Threads, NEW u \in Urls, NEW d \in Datas,
             AddTooLarge(t, u, d) \/ AddLock(t, u, d)
      PROVE  Abs!Next \/ UNCHANGED Abs!vars
  BY <1>1, <1>3, AddLockRefines DEF AddTooLarge, Abs!Next
<1>4. ASSUME NEW t \in Threads, Step(t)
      PROVE  Abs!Next \/ UNCHANGED Abs!vars
  BY <1>4, RemoveRefines, AppendRefines, ReturnRefines, EvictRefines, InsertRefines,
     NoMemoryRefines DEF Step, Abs!Next
<1> QED BY <1>1, <1>2, <1>3, <1>4 DEF Next

-----------------------------------------------------------------------------
(* Theorems.                                                                 *)

(* The invariant holds in every reachable state.                             *)
THEOREM Inductive == Spec => []IInv
BY InitInductive, NextInductive, PTL DEF Spec

(* TypeOK: rwlock and lru_mutex are held as the program counters say; a      *)
(* thread that adds an element is alone.                                     *)
THEOREM TypeCorrect == Spec => []TypeOK
<1>1. IInv => TypeOK
  BY DEF IInv
<1> QED BY <1>1, Inductive, PTL

(* ListWellFormed: lru_remove and lru_append_tail keep the pointers one      *)
(* doubly linked list, for every interleaving of lookups and additions.      *)
THEOREM OneList == Spec => []ListWellFormed
<1>1. IInv => ListWellFormed
  BY DEF IInv
<1> QED BY <1>1, Inductive, PTL

(* NothingLeaked: no element is lost, and none that was freed is reachable.  *)
THEOREM NoElementLost == Spec => []NothingLeaked
<1>1. IInv => NothingLeaked
  BY DEF IInv
<1> QED BY <1>1, Inductive, PTL

(* SiteValid: no element is freed or reused while a lookup works with it.    *)
THEOREM LookupsSafe == Spec => []SiteValid
<1>1. IInv => SiteValid
  BY DEF IInv
<1> QED BY <1>1, Inductive, PTL

(* SizeAccounted: cache_size is exact after every addition and eviction.     *)
THEOREM CounterExact == Spec => []SizeAccounted
<1>1. IInv => SizeAccounted
  BY DEF IInv
<1> QED BY <1>1, Inductive, PTL

(* TableMatchesList: with the insertion the source as committed leaves out,  *)
(* the hash table and the list hold the same elements.                       *)
THEOREM TableExact == HashInsert => (Spec => []TableMatchesList)
<1> SUFFICES ASSUME HashInsert PROVE Spec => []TableMatchesList
  OBVIOUS
<1>1. IInv => TableMatchesList
  BY DEF IInv, TableMatchesList, ChainsHold, AllHashed
<1> QED BY <1>1, Inductive, PTL

(* ImplementsLRUCache: every behaviour of the cache whose elements are all   *)
(* entered in the hash table is one of LRUCache.                             *)
THEOREM Implements == HashInsert => (Spec => ImplementsLRUCache)
<1>1. HashInsert => (IInv /\ [Next]_vars => [Abs!Next]_(Abs!vars))
  BY NextRefines
<1> SUFFICES ASSUME HashInsert
             PROVE  Spec => ImplementsLRUCache
  OBVIOUS
<1>2. IInv /\ [Next]_vars => [Abs!Next]_(Abs!vars)
  BY <1>1
<1> QED BY <1>2, Inductive, InitRefines, PTL DEF Spec, Abs!Spec, ImplementsLRUCache

(* Without the insertion into the hash table no chain ever has an element,   *)
(* so no lookup finds anything.                                              *)
NeverFound ==
  /\ \A b \in Buckets : hash_table[b] = <<>>
  /\ \A t \in Threads : pc[t] \in {"idle", "adding"} /\ cached_data[t] = NULL

LEMMA NothingFound ==
  ASSUME ~HashInsert, TypeOK, NeverFound, [Next]_vars
  PROVE  NeverFound'
<1>0. /\ pc \in [Threads -> {"idle", "hit", "removed", "touched", "adding"}]
      /\ cached_data \in [Threads -> Datas \cup {NULL}]
      /\ hash_table \in [Buckets -> Seq(Addresses)]
  BY DEF TypeOK
<1>1. CASE UNCHANGED vars
  BY <1>1 DEF vars, NeverFound
<1>2. ASSUME NEW t \in Threads, NEW u \in Urls, LookupMiss(t, u)
      PROVE  NeverFound'
  BY <1>0, <1>2 DEF LookupMiss, NeverFound
<1>3. ASSUME NEW t \in Threads, NEW u \in Urls, LookupHit(t, u)
      PROVE  FALSE
  <2>1. Hash[u] \in Buckets
    BY CacheAssumption
  <2>2. DOMAIN Chain(u) = {}
    BY <2>1 DEF NeverFound, Chain
  <2> QED BY <1>3, <2>2 DEF LookupHit
<1>4. ASSUME NEW t \in Threads, NEW u \in Urls, NEW d \in Datas,
             AddTooLarge(t, u, d) \/ AddLock(t, u, d)
      PROVE  NeverFound'
  BY <1>0, <1>1, <1>4 DEF AddTooLarge, AddLock, NeverFound
<1>5. ASSUME NEW t \in Threads, TouchRemove(t) \/ TouchAppend(t) \/ LookupReturn(t)
      PROVE  FALSE
  BY <1>5 DEF TouchRemove, TouchAppend, LookupReturn, NeverFound
<1>6. ASSUME NEW t \in Threads, AddEvict(t)
      PROVE  NeverFound'
  <2>1. UNCHANGED <<pc, cached_data>>
    BY <1>6 DEF AddEvict
  <2>2. CASE hash_table' = hash_table
    BY <2>1, <2>2 DEF NeverFound
  <2>3. CASE \E e : RemoveHash(e)
    <3>1. PICK e : RemoveHash(e)
      BY <2>3
    <3>2. RemoveFirst(<<>>, e) = <<>>
      BY DEF RemoveFirst
    <3>3. \A b \in Buckets : hash_table'[b] = <<>>
      BY <1>0, <3>1, <3>2 DEF RemoveHash, NeverFound
    <3> QED BY <2>1, <3>3 DEF NeverFound
  <2> QED BY <1>6, <2>2, <2>3 DEF AddEvict
<1>7. ASSUME NEW t \in Threads, AddInsert(t) \/ AddNoMemory(t)
      PROVE  NeverFound'
  BY <1>0, <1>7 DEF AddInsert, AddNoMemory, InsertHash, Return, NeverFound
<1> QED BY <1>1, <1>2, <1>3, <1>4, <1>5, <1>6, <1>7 DEF Next, Step

(* In the source as committed, whose hash table gets no element, the cache   *)
(* stores responses and evicts them but no lookup ever returns one.          *)
THEOREM NothingServed == ~HashInsert => (Spec => []NeverFound)
<1> SUFFICES ASSUME ~HashInsert
             PROVE  Spec => []NeverFound
  OBVIOUS
<1>1. Init => NeverFound
  BY DEF Init, NeverFound
<1>2. TypeOK /\ NeverFound /\ [Next]_vars => NeverFound'
  BY NothingFound
<1> QED BY <1>1, <1>2, TypeCorrect, PTL DEF Spec
=============================================================================

------------------------- MODULE ParsedRequestProofs -------------------------
(* Machine-checked proofs about the requests of proxy_parse.c: the table of  *)
(* their headers, the memory they hold, and that what is printed of them is  *)
(* parsed again.                                                             *)
EXTENDS ParsedRequest, ListFacts

-----------------------------------------------------------------------------
(* The notions of HeaderTable, of any sequence of slots h.                   *)
LiveIn(h) == {i \in DOMAIN h : h[i].key # NULL}

KeysIn(h) == {h[i].key : i \in LiveIn(h)}

Distinct(h) == \A i, j \in LiveIn(h) : h[i].key = h[j].key => i = j

FoundIn(h, i, k) ==
  i \in DOMAIN h /\ h[i].key = k /\ \A j \in 1..(i - 1) : ~(h[j].key = k)

MapOf(h) == [k \in KeysIn(h) |-> h[CHOOSE i \in LiveIn(h) : FoundIn(h, i, k)].value]

(* They are those of HeaderTable, of the slots before and after a step.      *)
LEMMA OfHeaders ==
  /\ Live = LiveIn(headers) /\ Live' = LiveIn(headers')
  /\ LiveKeys = KeysIn(headers) /\ LiveKeys' = KeysIn(headers')
  /\ Map = MapOf(headers) /\ Map' = MapOf(headers')
BY DEF Live, LiveIn, LiveKeys, KeysIn, Map, MapOf, Found, Holds, FoundIn

(* ParsedHeader_get finds the one live slot that has the key.                *)
LEMMA MapOfLive ==
  ASSUME NEW h \in Seq(Slot), Distinct(h), NEW i \in LiveIn(h)
  PROVE  h[i].key \in KeysIn(h) /\ MapOf(h)[h[i].key] = h[i].value
<1> DEFINE k == h[i].key
           c == CHOOSE j \in LiveIn(h) : FoundIn(h, j, k)
<1>1. k \in KeysIn(h)
  BY DEF KeysIn
<1>2. FoundIn(h, i, k)
  <2>1. i \in DOMAIN h /\ DOMAIN h = 1..Len(h) /\ Len(h) \in Nat
    BY DEF LiveIn
  <2>2. ASSUME NEW j \in 1..(i - 1), h[j].key = k
        PROVE  FALSE
    <3>1. j \in DOMAIN h /\ j # i
      BY <2>1
    <3>2. j \in LiveIn(h)
      BY <3>1, <2>2 DEF LiveIn
    <3> QED BY <3>1, <3>2, <2>2 DEF Distinct
  <2> QED BY <2>1, <2>2 DEF FoundIn
<1>3. c \in LiveIn(h) /\ FoundIn(h, c, k)
  BY <1>2
<1>4. c = i
  BY <1>3 DEF FoundIn, Distinct
<1> QED BY <1>1, <1>4 DEF MapOf

(* What ParsedHeader_remove does to the slots.                               *)
LEMMA ClearedSlots ==
  ASSUME TableOK, NEW k \in Keys
  PROVE  /\ Cleared(k) \in Seq(Slot)
         /\ Len(Cleared(k)) = Len(headers)
         /\ LiveIn(Cleared(k)) = {i \in Live : headers[i].key # k}
         /\ \A i \in LiveIn(Cleared(k)) : Cleared(k)[i] = headers[i]
<1> DEFINE h == Cleared(k)
<1>1. /\ headers \in Seq(Slot) /\ Len(headers) \in Nat /\ DOMAIN headers = 1..Len(headers)
      /\ \A i \in DOMAIN headers : headers[i] \in Slot
  BY DEF TableOK
<1>2. k # NULL
  BY HeaderTableAssumption
<1>3. ASSUME NEW i \in DOMAIN headers
      PROVE  Found(i, k) <=> headers[i].key = k
  <2>1. ASSUME headers[i].key = k, NEW j \in 1..(i - 1), Holds(j, k)
        PROVE  FALSE
    <3>1. i \in Live /\ j \in Live /\ j # i
      BY <1>1, <1>2, <2>1 DEF Live, Holds
    <3> QED BY <3>1, <2>1 DEF TableOK, Holds
  <2> QED BY <2>1 DEF Found, Holds
<1>4. \A i \in DOMAIN headers :
        /\ headers[i].key = k => h[i] = [headers[i] EXCEPT !.key = NULL]
        /\ headers[i].key # k => h[i] = headers[i]
  BY <1>3 DEF Cleared
<1>5. \A i \in DOMAIN headers : h[i] \in Slot /\ (headers[i].key = k => h[i].key = NULL)
  BY <1>1, <1>4 DEF Slot
<1>6. DOMAIN h = 1..Len(headers)
  BY <1>1 DEF Cleared
<1>7. h \in Seq(Slot) /\ Len(h) = Len(headers)
  <2>1. h = [i \in 1..Len(headers) |-> h[i]]
    BY <1>1 DEF Cleared
  <2> HIDE DEF h
  <2>2. h \in [1..Len(headers) -> Slot]
    BY <1>1, <1>5, <2>1
  <2>3. h \in Seq(Slot)
    BY <1>1, <2>2
  <2> QED BY <1>1, <1>6, <2>3
<1> HIDE DEF h
<1>8. LiveIn(h) = {i \in Live : headers[i].key # k}
  BY <1>1, <1>4, <1>5, <1>6 DEF LiveIn, Live
<1>9. \A i \in LiveIn(h) : h[i] = headers[i]
  BY <1>4, <1>8 DEF Live
<1> QED BY <1>7, <1>8, <1>9 DEF h

(* What ParsedHeader_set does to them.                                       *)
Appended(k, v) == Append(Cleared(k), [key |-> k, value |-> v])

(* The key is live in the new slot, and only there; other slots are kept.    *)
LEMMA AppendedSlots ==
  ASSUME TableOK, NEW k \in Keys, NEW v \in Values
  PROVE  /\ Appended(k, v) \in Seq(Slot)
         /\ Len(Appended(k, v)) = Len(headers) + 1
         /\ LiveIn(Appended(k, v)) = {i \in Live : headers[i].key # k} \cup {Len(headers) + 1}
         /\ \A i \in Live : headers[i].key # k => Appended(k, v)[i] = headers[i]
         /\ Appended(k, v)[Len(headers) + 1] = [key |-> k, value |-> v]
         /\ Len(headers) + 1 \notin Live
<1> DEFINE c == Cleared(k)
           n == Len(headers)
           h == Appended(k, v)
<1>1. /\ c \in Seq(Slot) /\ Len(c) = n
      /\ LiveIn(c) = {i \in Live : headers[i].key # k}
      /\ \A i \in LiveIn(c) : c[i] = headers[i]
  BY ClearedSlots
<1>2. n \in Nat /\ DOMAIN headers = 1..n
  BY DEF TableOK
<1>3. [key |-> k, value |-> v] \in Slot /\ k # NULL
  BY HeaderTableAssumption DEF Slot
<1>4. h = Append(c, [key |-> k, value |-> v])
  BY DEF Appended
<1> HIDE DEF c, n, h
<1>5. /\ h \in Seq(Slot) /\ Len(h) = n + 1 /\ DOMAIN h = 1..(n + 1) /\ DOMAIN c = 1..n
      /\ \A i \in 1..n : h[i] = c[i]
      /\ h[n + 1] = [key |-> k, value |-> v]
  <2> DEFINE e == [key |-> k, value |-> v]
  <2> HIDE DEF e
  <2>1. c \in Seq(Slot) /\ e \in Slot /\ Len(c) = n /\ n \in Nat /\ h = Append(c, e)
    BY <1>1, <1>2, <1>3, <1>4 DEF e
  <2>2. h \in Seq(Slot) /\ Len(h) = n + 1
    BY <2>1, AppendProperties
  <2>3. DOMAIN h = 1..(n + 1) /\ DOMAIN c = 1..n
    BY <2>1, <2>2
  <2>4. (\A i \in 1..n : h[i] = c[i]) /\ h[n + 1] = e
    BY <2>1, AppendProperties
  <2> QED BY <2>2, <2>3, <2>4 DEF e
<1>6. n + 1 \notin Live
  BY <1>2 DEF Live
<1>7. LiveIn(h) = LiveIn(c) \cup {n + 1}
  BY <1>2, <1>3, <1>5 DEF LiveIn
<1>8. \A i \in Live : headers[i].key # k => i \in 1..n /\ h[i] = headers[i]
  BY <1>1, <1>2, <1>5 DEF Live
<1> QED BY <1>1, <1>5, <1>6, <1>7, <1>8 DEF n, h

(* Setting a key gives it the value in the map and changes nothing else.     *)
LEMMA MapAfterSet ==
  ASSUME TableOK, NEW k \in Keys, NEW v \in Values
  PROVE  MapOf(Appended(k, v)) =
           [x \in KeysIn(headers) \cup {k} |-> IF x = k THEN v ELSE MapOf(headers)[x]]
<1> DEFINE h == Appended(k, v)
           n == Len(headers) + 1
<1>1. /\ h \in Seq(Slot)
      /\ LiveIn(h) = {i \in Live : headers[i].key # k} \cup {n}
      /\ \A i \in Live : headers[i].key # k => h[i] = headers[i]
      /\ h[n] = [key |-> k, value |-> v]
  BY AppendedSlots
<1> HIDE DEF h, n
<1>2. headers \in Seq(Slot) /\ Distinct(headers) /\ Live = LiveIn(headers)
  BY OfHeaders DEF TableOK, Distinct
<1>3. Distinct(h)
  BY <1>1, <1>2 DEF Distinct
<1>4. KeysIn(h) = KeysIn(headers) \cup {k}
  BY <1>1, <1>2 DEF KeysIn
<1>5. ASSUME NEW x \in KeysIn(h)
      PROVE  MapOf(h)[x] = IF x = k THEN v ELSE MapOf(headers)[x]
  <2>1. CASE x = k
    <3>1. n \in LiveIn(h) /\ h[n].key = k /\ h[n].value = v
      BY <1>1
    <3> QED BY <1>1, <1>3, <2>1, <3>1, MapOfLive
  <2>2. CASE x # k
    <3>1. PICK i \in LiveIn(headers) : headers[i].key = x
      BY <1>4, <2>2 DEF KeysIn
    <3>2. i \in LiveIn(h) /\ h[i] = headers[i]
      BY <1>1, <1>2, <2>2, <3>1
    <3>3. MapOf(h)[x] = headers[i].value
      BY <1>1, <1>3, <3>1, <3>2, MapOfLive
    <3>4. MapOf(headers)[x] = headers[i].value
      BY <1>2, <3>1, MapOfLive
    <3> QED BY <2>2, <3>3, <3>4
  <2> QED BY <2>1, <2>2
<1>6. MapOf(h) = [x \in KeysIn(h) |-> MapOf(h)[x]]
  BY DEF MapOf
<1> QED BY <1>4, <1>5, <1>6 DEF h

(* Removing a key takes it from the map and changes nothing else.            *)
LEMMA MapAfterClear ==
  ASSUME TableOK, NEW k \in Keys
  PROVE  MapOf(Cleared(k)) = [x \in KeysIn(headers) \ {k} |-> MapOf(headers)[x]]
<1> DEFINE h == Cleared(k)
<1>1. /\ h \in Seq(Slot)
      /\ LiveIn(h) = {i \in Live : headers[i].key # k}
      /\ \A i \in LiveIn(h) : h[i] = headers[i]
  BY ClearedSlots
<1> HIDE DEF h
<1>2. headers \in Seq(Slot) /\ Distinct(headers) /\ Live = LiveIn(headers)
  BY OfHeaders DEF TableOK, Distinct
<1>3. Distinct(h)
  BY <1>1, <1>2 DEF Distinct
<1>4. KeysIn(h) = KeysIn(headers) \ {k}
  BY <1>1, <1>2 DEF KeysIn
<1>5. ASSUME NEW x \in KeysIn(h)
      PROVE  MapOf(h)[x] = MapOf(headers)[x]
  <2>1. PICK i \in LiveIn(h) : h[i].key = x
    BY DEF KeysIn
  <2>2. i \in LiveIn(headers) /\ h[i] = headers[i]
    BY <1>1, <1>2, <2>1
  <2> QED BY <1>1, <1>2, <1>3, <2>1, <2>2, MapOfLive
<1>6. MapOf(h) = [x \in KeysIn(h) |-> MapOf(h)[x]]
  BY DEF MapOf
<1> QED BY <1>4, <1>5, <1>6 DEF h

-----------------------------------------------------------------------------
(* ParsedHeader_set keeps the slots within the array, and no key live twice. *)
LEMMA SetKeepsTable ==
  ASSUME TableOK, NEW k \in Keys, NEW v \in Values, ParsedHeader_set(k, v)
  PROVE  TableOK'
<1>1. headers' = Appended(k, v)
  BY DEF ParsedHeader_set, Appended
<1>2. /\ headers' \in Seq(Slot)
      /\ Len(headers') = Len(headers) + 1
      /\ LiveIn(headers') = {i \in Live : headers[i].key # k} \cup {Len(headers) + 1}
      /\ \A i \in Live : headers[i].key # k => headers'[i] = headers[i]
      /\ headers'[Len(headers) + 1].key = k
  <2>1. /\ Appended(k, v) \in Seq(Slot)
        /\ Len(Appended(k, v)) = Len(headers) + 1
        /\ LiveIn(Appended(k, v)) = {i \in Live : headers[i].key # k} \cup {Len(headers) + 1}
        /\ \A i \in Live : headers[i].key # k => Appended(k, v)[i] = headers[i]
        /\ Appended(k, v)[Len(headers) + 1] = [key |-> k, value |-> v]
    BY AppendedSlots
  <2> QED BY <1>1, <2>1
<1>3. /\ headerslen' \in Nat \ {0, 1} /\ Len(headers') <= headerslen'
      /\ lost' \in BOOLEAN /\ ~lost'
  <2>1. Len(headers) \in Nat /\ headerslen \in Nat \ {0, 1} /\ Len(headers) <= headerslen
    BY DEF TableOK
  <2>2. CASE Grows
    <3>1. headerslen' = 2 * headerslen
      BY <2>2 DEF ParsedHeader_set
    <3>2. Len(headers) + 1 <= 2 * headerslen
      BY <2>1, <2>2 DEF Grows
    <3> QED BY <1>2, <2>1, <3>1, <3>2 DEF ParsedHeader_set, TableOK
  <2>3. CASE ~Grows
    BY <1>2, <2>1, <2>3 DEF ParsedHeader_set, Grows, TableOK
  <2> QED BY <2>2, <2>3
<1>4. ASSUME NEW i \in Live', NEW j \in Live', headers'[i].key = headers'[j].key
      PROVE  i = j
  <2>1. i \in LiveIn(headers') /\ j \in LiveIn(headers')
    BY OfHeaders
  <2>2. CASE i = Len(headers) + 1 \/ j = Len(headers) + 1
    BY <1>2, <1>4, <2>1, <2>2
  <2>3. CASE i # Len(headers) + 1 /\ j # Len(headers) + 1
    BY <1>2, <1>4, <2>1, <2>3 DEF TableOK
  <2> QED BY <2>2, <2>3
<1> QED BY <1>2, <1>3, <1>4 DEF TableOK

(* ParsedHeader_remove keeps the table well formed, and so does the removal  *)
(* a set begins with when it has no memory for more.                         *)
LEMMA ClearKeepsTable ==
  ASSUME TableOK, NEW k \in Keys, headers' = Cleared(k),
         headerslen' \in Nat \ {0, 1}, headerslen <= headerslen', lost' \in BOOLEAN,
         lost' => headers # <<>>
  PROVE  TableOK'
<1>1. /\ headers' \in Seq(Slot) /\ Len(headers') = Len(headers)
      /\ LiveIn(headers') = {i \in Live : headers[i].key # k}
      /\ \A i \in LiveIn(headers') : headers'[i] = headers[i]
  BY ClearedSlots
<1>2. Len(headers') <= headerslen'
  <2>1. Len(headers) \in Nat /\ headerslen \in Nat /\ Len(headers) <= headerslen
    BY DEF TableOK
  <2> QED BY <1>1, <2>1
<1>3. \A i, j \in Live' : headers'[i].key = headers'[j].key => i = j
  BY <1>1, OfHeaders DEF TableOK
<1>4. lost' => headers' # <<>>
  <2> SUFFICES ASSUME lost' PROVE headers' # <<>>
    OBVIOUS
  <2>1. Len(headers) # 0
    BY EmptySeq DEF TableOK
  <2>2. Len(headers') # 0
    BY <1>1, <2>1
  <2> QED BY <2>2
<1> QED BY <1>1, <1>2, <1>3, <1>4 DEF TableOK

(* Every call keeps the table well formed.                                   *)
LEMMA TableInductive == TableOK /\ [TableNext]_tvars => TableOK'
<1> SUFFICES ASSUME TableOK, [TableNext]_tvars
             PROVE  TableOK'
  OBVIOUS
<1>1. CASE UNCHANGED tvars
  BY <1>1 DEF tvars, TableOK, Live
<1>2. ASSUME NEW k \in Keys, NEW v \in Values, ParsedHeader_set(k, v)
      PROVE  TableOK'
  BY <1>2, SetKeepsTable
<1>3. ASSUME NEW k \in Keys, NEW v \in Values, SetNoMemory(k, v)
      PROVE  TableOK'
  <2>1. headerslen' \in Nat \ {0, 1} /\ headerslen <= headerslen'
    <3>1. headerslen \in Nat \ {0, 1} /\ headerslen' = 2 * headerslen
      BY <1>3 DEF SetNoMemory, TableOK
    <3> QED BY <3>1
  <2>2. headers # <<>>
    <3> SUFFICES ASSUME headers = <<>> PROVE FALSE
      OBVIOUS
    <3>1. Len(headers) = 0 /\ headerslen \in Nat \ {0, 1} /\ headerslen <= Len(headers) + 1
      BY <1>3 DEF SetNoMemory, TableOK, Grows
    <3> QED BY <3>1
  <2> QED BY <1>3, <2>1, <2>2, ClearKeepsTable DEF SetNoMemory
<1>4. ASSUME NEW k \in Keys, ParsedHeader_get(k)
      PROVE  TableOK'
  BY <1>4 DEF ParsedHeader_get, TableOK, Live
<1>5. ASSUME NEW k \in Keys, ParsedHeader_remove(k)
      PROVE  TableOK'
  <2>1. /\ headerslen' \in Nat \ {0, 1} /\ headerslen <= headerslen' /\ lost' \in BOOLEAN
        /\ lost' => headers # <<>>
    BY <1>5 DEF ParsedHeader_remove, TableOK
  <2> QED BY <1>5, <2>1, ClearKeepsTable DEF ParsedHeader_remove
<1> QED BY <1>1, <1>2, <1>3, <1>4, <1>5 DEF TableNext

(* A new table is well formed.                                               *)
LEMMA EmptyTable == Empty => TableOK
<1> SUFFICES ASSUME Empty
             PROVE  TableOK
  OBVIOUS
<1>1. headers = <<>> /\ headers \in Seq(Slot) /\ Len(headers) = 0 /\ DOMAIN headers = {}
  BY DEF Empty
<1>2. headerslen \in Nat \ {0, 1} /\ lost \in BOOLEAN /\ ~lost
  BY HeaderTableAssumption DEF Empty
<1>3. Live = {}
  BY <1>1 DEF Live
<1> QED BY <1>1, <1>2, <1>3 DEF TableOK

(* The table is well formed, with every slot in use inside its array.        *)
THEOREM TableCorrect == TableSpec => []TableOK
BY EmptyTable, TableInductive, PTL DEF TableSpec

-----------------------------------------------------------------------------
(* The refinement of HeaderMap, action by action: ParsedHeader_set is Set.   *)
LEMMA SetIsSet ==
  ASSUME TableOK, NEW k \in Keys, NEW v \in Values, ParsedHeader_set(k, v)
  PROVE  HM!Set(k, v)
<1>1. Map' = [x \in DOMAIN Map \cup {k} |-> IF x = k THEN v ELSE Map[x]]
  <2>1. headers' = Appended(k, v)
    BY DEF ParsedHeader_set, Appended
  <2>2. MapOf(headers') = [x \in KeysIn(headers) \cup {k} |->
                             IF x = k THEN v ELSE MapOf(headers)[x]]
    BY <2>1, MapAfterSet
  <2>3. DOMAIN MapOf(headers) = KeysIn(headers)
    BY DEF MapOf
  <2> QED BY <2>2, <2>3, OfHeaders
<1> QED BY <1>1 DEF HM!Set, ParsedHeader_set

(* The slots without a key stand for the map without it.                     *)
LEMMA ClearIsWithout ==
  ASSUME TableOK, NEW k \in Keys, headers' = Cleared(k)
  PROVE  Map' = HM!Without(k)
<1>1. MapOf(headers') = [x \in KeysIn(headers) \ {k} |-> MapOf(headers)[x]]
  BY MapAfterClear
<1>2. DOMAIN MapOf(headers) = KeysIn(headers)
  BY DEF MapOf
<1> QED BY <1>1, <1>2, OfHeaders DEF HM!Without

(* A slot is found exactly when the map has the key, with its value.         *)
LEMMA FoundInMap ==
  ASSUME TableOK, NEW k \in Keys
  PROVE  /\ \A i \in DOMAIN headers :
              Found(i, k) => k \in DOMAIN Map /\ Map[k] = headers[i].value
         /\ Missing(k) <=> k \notin DOMAIN Map
<1>1. headers \in Seq(Slot) /\ Distinct(headers) /\ DOMAIN Map = KeysIn(headers)
  BY OfHeaders DEF TableOK, Distinct, MapOf
<1>2. k # NULL
  BY HeaderTableAssumption
<1>3. ASSUME NEW i \in DOMAIN headers, Found(i, k)
      PROVE  k \in DOMAIN Map /\ Map[k] = headers[i].value
  <2>1. i \in LiveIn(headers) /\ headers[i].key = k
    BY <1>2, <1>3 DEF Found, Holds, LiveIn
  <2> QED BY <1>1, <2>1, MapOfLive, OfHeaders
<1>4. Missing(k) <=> k \notin DOMAIN Map
  BY <1>1, <1>2 DEF Missing, Holds, KeysIn, LiveIn
<1> QED BY <1>3, <1>4

(* Every call is a step of HeaderMap, or a stutter.                          *)
LEMMA NextImplementsMap == TableOK /\ [TableNext]_tvars => [HM!Next]_(HM!vars)
<1> SUFFICES ASSUME TableOK, [TableNext]_tvars
             PROVE  [HM!Next]_(HM!vars)
  OBVIOUS
<1>1. CASE UNCHANGED tvars
  <2>1. headers' = headers /\ call' = call /\ result' = result
    BY <1>1 DEF tvars
  <2>2. MapOf(headers') = MapOf(headers)
    BY <2>1
  <2> QED BY <2>1, <2>2, OfHeaders DEF HM!vars
<1>2. \A c \in Calls : c # NULL
  BY HeaderTableAssumption
<1>3. ASSUME NEW k \in Keys, NEW v \in Values, ParsedHeader_set(k, v)
      PROVE  HM!Next
  <2>1. call' = [op |-> "set", key |-> k, value |-> v] /\ call' \in Calls
    BY <1>3 DEF ParsedHeader_set, Calls
  <2>2. call' # NULL /\ call'.key = k /\ call'.value = v
    BY <1>2, <2>1
  <2>3. HM!Set(k, v)
    BY <1>3, SetIsSet
  <2>4. HM!Set(call'.key, call'.value)
    BY <2>2, <2>3
  <2> QED BY <2>2, <2>4 DEF HM!Next
<1>4. ASSUME NEW k \in Keys, NEW v \in Values, SetNoMemory(k, v)
      PROVE  HM!Next
  <2>1. call' = [op |-> "set", key |-> k, value |-> v] /\ call' \in Calls
    BY <1>4 DEF SetNoMemory, Calls
  <2>2. call' # NULL /\ call'.key = k /\ call'.value = v
    BY <1>2, <2>1
  <2>3. Map' = HM!Without(k)
    BY <1>4, ClearIsWithout DEF SetNoMemory
  <2>4. HM!Set(k, v)
    BY <1>4, <2>1, <2>3 DEF HM!Set, SetNoMemory
  <2>5. HM!Set(call'.key, call'.value)
    BY <2>2, <2>4
  <2> QED BY <2>2, <2>5 DEF HM!Next
<1>5. ASSUME NEW k \in Keys, ParsedHeader_get(k)
      PROVE  HM!Next
  <2>1. call' = [op |-> "get", key |-> k, value |-> NULL] /\ call' \in Calls
    BY <1>5 DEF ParsedHeader_get, Calls
  <2>2. call' # NULL /\ call'.key = k
    BY <1>2, <2>1
  <2>3. MapOf(headers') = MapOf(headers)
    BY <1>5 DEF ParsedHeader_get
  <2>4. result' = IF k \in DOMAIN Map THEN Map[k] ELSE NULL
    BY <1>5, FoundInMap DEF ParsedHeader_get
  <2>5. HM!Get(k)
    BY <2>1, <2>3, <2>4, OfHeaders DEF HM!Get
  <2>6. HM!Get(call'.key)
    BY <2>2, <2>5
  <2> QED BY <2>2, <2>6 DEF HM!Next
<1>6. ASSUME NEW k \in Keys, ParsedHeader_remove(k)
      PROVE  HM!Next
  <2>1. call' = [op |-> "remove", key |-> k, value |-> NULL] /\ call' \in Calls
    BY <1>6 DEF ParsedHeader_remove, Calls
  <2>2. call' # NULL /\ call'.key = k
    BY <1>2, <2>1
  <2>3. Map' = HM!Without(k)
    BY <1>6, ClearIsWithout DEF ParsedHeader_remove
  <2>4. result' = IF k \in DOMAIN Map THEN 0 ELSE -1
    BY <1>6, FoundInMap DEF ParsedHeader_remove
  <2>5. HM!Remove(k)
    BY <2>1, <2>3, <2>4 DEF HM!Remove
  <2>6. HM!Remove(call'.key)
    BY <2>2, <2>5
  <2> QED BY <2>2, <2>6 DEF HM!Next
<1> QED BY <1>1, <1>3, <1>4, <1>5, <1>6 DEF TableNext

(* A new table stands for the empty map.                                     *)
LEMMA EmptyIsInit == Empty => HM!Init
<1> SUFFICES ASSUME Empty
             PROVE  HM!Init
  OBVIOUS
<1>1. DOMAIN headers = {}
  BY DEF Empty
<1>2. KeysIn(headers) = {}
  BY <1>1 DEF KeysIn, LiveIn
<1>3. MapOf(headers) = [k \in {} |-> NULL]
  BY <1>2 DEF MapOf
<1> QED BY <1>3, OfHeaders DEF HM!Init, Empty

(* The table implements the map that proxy_parse.h promises: a get returns   *)
(* the value last set, a set or remove of one key leaves the others alone.   *)
THEOREM TableImplementsMap == TableSpec => ImplementsHeaderMap
<1>1. TableOK /\ [TableNext]_tvars => [HM!Next]_(HM!vars)
  BY NextImplementsMap
<1> QED BY <1>1, EmptyIsInit, TableCorrect, PTL DEF TableSpec, ImplementsHeaderMap, HM!Spec

-----------------------------------------------------------------------------
(* Texts.                                                                    *)
LEMMA MinLeast ==
  ASSUME NEW A, A \subseteq Nat, A # {}
  PROVE  Min(A) \in A /\ \A x \in A : Min(A) <= x
<1>1. \E n \in A : \A m \in A : n <= m
  BY LeastExists
<1> QED BY <1>1 DEF Min

LEMMA SubString ==
  ASSUME NEW s \in Strings, NEW m \in Nat \ {0}, NEW n \in Int, n <= Len(s)
  PROVE  /\ SubSeq(s, m, n) \in Strings
         /\ Len(SubSeq(s, m, n)) = IF m <= n THEN n - m + 1 ELSE 0
         /\ \A i \in 1..(n - m + 1) : SubSeq(s, m, n)[i] = s[m + i - 1]
<1>1. CASE m <= n
  BY <1>1, SubSeqProperties DEF Strings
<1>2. CASE m > n
  <2>1. SubSeq(s, m, n) = << >>
    BY <1>2, SubSeqEmpty
  <2> QED BY <1>2, <2>1 DEF Strings
<1> QED BY <1>1, <1>2

LEMMA LineEnd ==
  /\ CRLF \in Strings /\ Len(CRLF) = 2
  /\ CRLF[1] = "cr" /\ CRLF[2] = "lf"
<1>1. "cr" \in Symbols /\ "lf" \in Symbols
  BY ParsedRequestAssumption
<1> QED BY <1>1 DEF CRLF, Strings

LEMMA TwoLineEnds ==
  /\ CRLF \o CRLF \in Strings /\ Len(CRLF \o CRLF) = 4
  /\ (CRLF \o CRLF)[1] = "cr" /\ (CRLF \o CRLF)[2] = "lf"
  /\ (CRLF \o CRLF)[3] = "cr" /\ (CRLF \o CRLF)[4] = "lf"
<1> DEFINE c == CRLF
<1> HIDE DEF c
<1>1. c \in Strings /\ Len(c) = 2 /\ c[1] = "cr" /\ c[2] = "lf"
  BY LineEnd DEF c
<1>2. /\ c \o c \in Strings /\ Len(c \o c) = 4
      /\ \A i \in 1..4 : (c \o c)[i] = IF i <= 2 THEN c[i] ELSE c[i - 2]
  <2>1. /\ c \o c \in Strings /\ Len(c \o c) = Len(c) + Len(c)
        /\ \A i \in 1..(Len(c) + Len(c)) :
             (c \o c)[i] = IF i <= Len(c) THEN c[i] ELSE c[i - Len(c)]
    BY <1>1, ConcatProperties DEF Strings
  <2>2. Len(c) = 2 /\ Len(c) + Len(c) = 4
    BY <1>1
  <2> QED BY <2>1, <2>2
<1>3. (c \o c)[1] = c[1] /\ (c \o c)[2] = c[2] /\ (c \o c)[3] = c[1] /\ (c \o c)[4] = c[2]
  BY <1>2
<1> QED BY <1>1, <1>2, <1>3 DEF c

(* A text that ends with the end of its headers.                             *)
EndsHeaders(s) == Len(s) >= 4 /\ From(s, Len(s) - 3) = CRLF \o CRLF

(* The four symbols at the end of the headers.                               *)
LEMMA EndSymbols ==
  ASSUME NEW s \in Strings
  PROVE  EndsHeaders(s) <=> /\ Len(s) >= 4
                            /\ s[Len(s) - 3] = "cr" /\ s[Len(s) - 2] = "lf"
                            /\ s[Len(s) - 1] = "cr" /\ s[Len(s)] = "lf"
<1> DEFINE n == Len(s)
           t == SubSeq(s, n - 3, n)
<1> SUFFICES ASSUME n >= 4
             PROVE  t = CRLF \o CRLF <=> /\ s[n - 3] = "cr" /\ s[n - 2] = "lf"
                                         /\ s[n - 1] = "cr" /\ s[n] = "lf"
  BY DEF EndsHeaders, From
<1>1. n \in Nat /\ n - 3 \in Nat \ {0} /\ n - (n - 3) + 1 = 4
  <2>1. n \in Nat
    BY LenProperties DEF Strings
  <2> HIDE DEF n
  <2> QED BY <2>1
<1>2. t \in Strings /\ Len(t) = 4 /\ \A i \in 1..4 : t[i] = s[(n - 3) + i - 1]
  BY <1>1, SubString
<1>3. t[1] = s[n - 3] /\ t[2] = s[n - 2] /\ t[3] = s[n - 1] /\ t[4] = s[n]
  BY <1>1, <1>2
<1>4. /\ CRLF \o CRLF \in Strings /\ Len(CRLF \o CRLF) = 4
      /\ (CRLF \o CRLF)[1] = "cr" /\ (CRLF \o CRLF)[2] = "lf"
      /\ (CRLF \o CRLF)[3] = "cr" /\ (CRLF \o CRLF)[4] = "lf"
  BY TwoLineEnds
<1> HIDE DEF t, n
<1>5. t = CRLF \o CRLF <=> \A i \in 1..4 : t[i] = (CRLF \o CRLF)[i]
  BY <1>2, <1>4, SeqEqual DEF Strings
<1>6. \A i \in 1..4 : i \in {1, 2, 3, 4}
  OBVIOUS
<1> QED BY <1>3, <1>4, <1>5, <1>6

LEMMA IndexIs ==
  ASSUME NEW s \in Strings, NEW i \in Nat \ {0}, NEW S
  PROVE  /\ IndexOf(s, i, S) \in Nat \ {0}
         /\ IndexOf(s, i, S) <= Len(s) + 1
         /\ (\E j \in i..Len(s) : s[j] \in S) =>
              IndexOf(s, i, S) <= Len(s) /\ s[IndexOf(s, i, S)] \in S
<1> DEFINE A == {j \in i..Len(s) : s[j] \in S} \cup {Len(s) + 1}
<1>1. Len(s) \in Nat
  BY DEF Strings
<1>2. A \subseteq Nat \ {0} /\ A # {}
  BY <1>1
<1>3. Min(A) \in A /\ \A x \in A : Min(A) <= x
  BY <1>2, MinLeast
<1>4. IndexOf(s, i, S) = Min(A)
  BY DEF IndexOf
<1> QED BY <1>1, <1>2, <1>3, <1>4

(* Where a text holds the end of a line.                                     *)
LEMMA LineEndAmong ==
  ASSUME NEW s \in Strings
  PROVE  /\ Occurrences(s, CRLF) \subseteq 1..(Len(s) - 1)
         /\ \A i \in 1..(Len(s) - 1) :
              i \in Occurrences(s, CRLF) <=> s[i] = "cr" /\ s[i + 1] = "lf"
<1> DEFINE A == Occurrences(s, CRLF)
<1>1. Len(s) \in Nat
  BY LenProperties DEF Strings
<1>2. ASSUME NEW i \in 1..(Len(s) - 1)
      PROVE  i \in A <=> s[i] = "cr" /\ s[i + 1] = "lf"
  <2>1. SubSeq(s, i, i + 1) \in Strings /\ Len(SubSeq(s, i, i + 1)) = 2
    BY <1>1, SubString
  <2>2. SubSeq(s, i, i + 1)[1] = s[i] /\ SubSeq(s, i, i + 1)[2] = s[i + 1]
    <3>1. \A j \in 1..((i + 1) - i + 1) : SubSeq(s, i, i + 1)[j] = s[i + j - 1]
      BY <1>1, SubString
    <3> QED BY <3>1
  <2>3. SubSeq(s, i, i + 1) = CRLF <=> \A j \in 1..2 : SubSeq(s, i, i + 1)[j] = CRLF[j]
    BY <2>1, LineEnd, SeqEqual DEF Strings
  <2>4. i \in A <=> SubSeq(s, i, i + 1) = CRLF
    <3>1. i + Len(CRLF) - 1 = i + 1 /\ i \in 1..(Len(s) - Len(CRLF) + 1)
      BY LineEnd, <1>1
    <3> QED BY <3>1 DEF Occurrences
  <2>5. \A j \in 1..2 : j = 1 \/ j = 2
    OBVIOUS
  <2> QED BY <2>2, <2>3, <2>4, <2>5, LineEnd
<1>3. A \subseteq 1..(Len(s) - 1)
  BY <1>1, LineEnd DEF Occurrences
<1> QED BY <1>2, <1>3

(* The end of the first line of a text that holds one.                       *)
LEMMA FirstLineEnd ==
  ASSUME NEW s \in Strings, NEW n \in 1..(Len(s) - 1), s[n] = "cr", s[n + 1] = "lf"
  PROVE  /\ Strstr(s, CRLF) \in 1..n
         /\ s[Strstr(s, CRLF)] = "cr" /\ s[Strstr(s, CRLF) + 1] = "lf"
<1> DEFINE A == Occurrences(s, CRLF)
<1>1. Len(s) \in Nat
  BY LenProperties DEF Strings
<1>2. \A i \in 1..(Len(s) - 1) : i \in A <=> s[i] = "cr" /\ s[i + 1] = "lf"
  BY LineEndAmong
<1>3. A \subseteq 1..(Len(s) - 1)
  BY LineEndAmong
<1>4. n \in A
  BY <1>2
<1>5. A \subseteq Nat /\ A # {}
  BY <1>3, <1>4, <1>1
<1>6. Min(A) \in A /\ \A x \in A : Min(A) <= x
  BY <1>5, MinLeast
<1>7. Strstr(s, CRLF) = Min(A)
  BY DEF Strstr
<1> HIDE DEF A
<1>8. PICK q \in 1..(Len(s) - 1) : q = Strstr(s, CRLF) /\ q \in A /\ q <= n
  BY <1>3, <1>4, <1>6, <1>7
<1>9. s[q] = "cr" /\ s[q + 1] = "lf" /\ q \in 1..n
  BY <1>1, <1>2, <1>8
<1> QED BY <1>8, <1>9

(* Where a text holds an end of headers.                                     *)
LEMMA CompleteSymbols ==
  ASSUME NEW s \in Strings
  PROVE  Complete(s) <=>
           \E p \in 1..(Len(s) - 3) : /\ s[p] = "cr" /\ s[p + 1] = "lf"
                                      /\ s[p + 2] = "cr" /\ s[p + 3] = "lf"
<1> DEFINE c == CRLF \o CRLF
<1>1. Len(s) \in Nat
  BY LenProperties DEF Strings
<1>2. /\ c \in Strings /\ Len(c) = 4
      /\ c[1] = "cr" /\ c[2] = "lf" /\ c[3] = "cr" /\ c[4] = "lf"
  BY TwoLineEnds
<1> HIDE DEF c
<1>3. Len(s) - Len(c) + 1 = Len(s) - 3
  BY <1>1, <1>2
<1>4. ASSUME NEW p \in 1..(Len(s) - 3)
      PROVE  SubSeq(s, p, p + Len(c) - 1) = c <=> /\ s[p] = "cr" /\ s[p + 1] = "lf"
                                                  /\ s[p + 2] = "cr" /\ s[p + 3] = "lf"
  <2> DEFINE t == SubSeq(s, p, p + 3)
  <2>1. p \in Nat \ {0} /\ p + 3 \in Int /\ p + 3 <= Len(s) /\ p <= p + 3
        /\ (p + 3) - p + 1 = 4 /\ p + Len(c) - 1 = p + 3
    BY <1>1, <1>2
  <2>2. t \in Strings /\ Len(t) = 4 /\ \A i \in 1..4 : t[i] = s[p + i - 1]
    <3>1. PICK k \in Int : k = p + 3
      BY <2>1
    <3>2. k <= Len(s) /\ p <= k /\ k - p + 1 = 4
      BY <2>1, <3>1
    <3>3. PICK u : u = SubSeq(s, p, k)
      OBVIOUS
    <3>4. u \in Strings /\ Len(u) = k - p + 1
          /\ \A i \in 1..(k - p + 1) : u[i] = s[p + i - 1]
      BY <2>1, <3>1, <3>2, <3>3, SubString
    <3> QED BY <3>1, <3>2, <3>3, <3>4
  <2>3. t[1] = s[p] /\ t[2] = s[p + 1] /\ t[3] = s[p + 2] /\ t[4] = s[p + 3]
    BY <2>1, <2>2
  <2> HIDE DEF t
  <2>4. t = c <=> \A i \in 1..4 : t[i] = c[i]
    BY <1>2, <2>2, SeqEqual DEF Strings
  <2>5. \A i \in 1..4 : i \in {1, 2, 3, 4}
    OBVIOUS
  <2>6. t = c <=> /\ s[p] = "cr" /\ s[p + 1] = "lf"
                  /\ s[p + 2] = "cr" /\ s[p + 3] = "lf"
    BY <1>2, <2>3, <2>4, <2>5
  <2> QED BY <2>1, <2>6 DEF t
<1>5. Complete(s) <=> \E p \in 1..(Len(s) - 3) : SubSeq(s, p, p + Len(c) - 1) = c
  BY <1>3 DEF Complete, Occurrences, c
<1> QED BY <1>4, <1>5

LEMMA CompleteHasLine ==
  ASSUME NEW s \in Strings, Complete(s)
  PROVE  Occurrences(s, CRLF) # {}
<1>1. PICK p \in 1..(Len(s) - 3) : s[p] = "cr" /\ s[p + 1] = "lf"
  BY CompleteSymbols
<1>2. p \in 1..(Len(s) - 1)
  BY LenProperties DEF Strings
<1> QED BY <1>1, <1>2, LineEndAmong

LEMMA EndsComplete ==
  ASSUME NEW s \in Strings, EndsHeaders(s)
  PROVE  Complete(s) /\ Len(s) \in Nat /\ Len(s) >= 4
<1>1. PICK n \in Nat : n = Len(s)
  BY LenProperties DEF Strings
<1>2. /\ n >= 4 /\ s[n - 3] = "cr" /\ s[n - 2] = "lf" /\ s[n - 1] = "cr" /\ s[n] = "lf"
  BY <1>1, EndSymbols
<1>3. PICK p \in 1..(n - 3) : p = n - 3 /\ p + 1 = n - 2 /\ p + 2 = n - 1 /\ p + 3 = n
  BY <1>2
<1>4. s[p] = "cr" /\ s[p + 1] = "lf" /\ s[p + 2] = "cr" /\ s[p + 3] = "lf"
  BY <1>2, <1>3
<1> QED BY <1>1, <1>2, <1>3, <1>4, CompleteSymbols

(* NextLine: what is left after a line still holds the end of the headers,   *)
(* or begins with it.                                                        *)
LEMMA NextLineLeft ==
  ASSUME NEW s \in Strings, Complete(s)
  PROVE  NextLine(s) \in Strings /\ (HeadersEnd(NextLine(s)) \/ Complete(NextLine(s)))
<1>1. PICK n \in Nat : n = Len(s)
  BY LenProperties DEF Strings
<1>2. PICK p \in 1..(n - 3) : /\ s[p] = "cr" /\ s[p + 1] = "lf"
                              /\ s[p + 2] = "cr" /\ s[p + 3] = "lf"
  BY <1>1, CompleteSymbols
<1>3. PICK q \in 1..p : q = Strstr(s, CRLF) /\ s[q] = "cr" /\ s[q + 1] = "lf"
  <2>1. p \in 1..(Len(s) - 1)
    BY <1>1
  <2> QED BY <2>1, <1>2, FirstLineEnd
<1> DEFINE r == SubSeq(s, q + 2, n)
<1>4. NextLine(s) = r
  BY <1>1, <1>3 DEF NextLine, From
<1>5. /\ r \in Strings /\ Len(r) = n - q - 1
      /\ \A i \in 1..(n - q - 1) : r[i] = s[q + i + 1]
  <2>1. q + 2 \in Nat \ {0} /\ n \in Int /\ n <= Len(s) /\ q + 2 <= n
        /\ n - (q + 2) + 1 = n - q - 1
    BY <1>1
  <2>2. /\ r \in Strings /\ Len(r) = IF q + 2 <= n THEN n - (q + 2) + 1 ELSE 0
        /\ \A i \in 1..(n - (q + 2) + 1) : r[i] = s[(q + 2) + i - 1]
    BY <2>1, SubString
  <2> HIDE DEF r
  <2>3. \A i \in 1..(n - q - 1) : (q + 2) + i - 1 = q + i + 1
    OBVIOUS
  <2> QED BY <2>1, <2>2, <2>3
<1> HIDE DEF r
<1>6. CASE q = p
  <2>1. 1 \in 1..(n - q - 1) /\ 2 \in 1..(n - q - 1) /\ q + 1 + 1 = p + 2 /\ q + 2 + 1 = p + 3
    BY <1>6
  <2>2. r[1] = "cr" /\ r[2] = "lf"
    BY <1>2, <1>5, <2>1
  <2> DEFINE t == SubSeq(r, 1, 2)
  <2>3. 2 <= Len(r)
    BY <1>5, <2>1
  <2>4. t \in Strings /\ Len(t) = 2 /\ \A i \in 1..(2 - 1 + 1) : t[i] = r[1 + i - 1]
    BY <1>5, <2>3, SubString
  <2>5. t[1] = "cr" /\ t[2] = "lf"
    <3> HIDE DEF t
    <3> QED BY <2>2, <2>4
  <2> HIDE DEF t
  <2>6. \A j \in 1..2 : j = 1 \/ j = 2
    OBVIOUS
  <2>7. t = CRLF
    BY <2>4, <2>5, <2>6, LineEnd, SeqEqual DEF Strings
  <2>8. SubSeq(CRLF, 1, 2) = CRLF
    BY LineEnd, SubSeqFull DEF Strings
  <2>9. SubSeq(CRLF, 1, Len(CRLF)) = SubSeq(r, 1, Len(CRLF)) /\ Len(CRLF) <= Len(r)
    BY <2>3, <2>7, <2>8, LineEnd DEF t
  <2>10. IsPrefix(CRLF, r)
    BY <2>9 DEF IsPrefix
  <2> QED BY <1>4, <1>5, <2>10 DEF HeadersEnd
<1>7. CASE q # p
  <2>1. q + 1 # p
    BY <1>2, <1>3
  <2>2. PICK i \in 1..(n - q - 1) :
          /\ i = p - q - 1 /\ q + i + 1 = p /\ q + (i + 1) + 1 = p + 1
          /\ q + (i + 2) + 1 = p + 2 /\ q + (i + 3) + 1 = p + 3
          /\ i + 1 \in 1..(n - q - 1) /\ i + 2 \in 1..(n - q - 1) /\ i + 3 \in 1..(n - q - 1)
          /\ i \in 1..((n - q - 1) - 3)
    <3>1. p - q - 1 \in 1..((n - q - 1) - 3)
      BY <1>7, <2>1
    <3> QED BY <3>1
  <2>3. r[i] = "cr" /\ r[i + 1] = "lf" /\ r[i + 2] = "cr" /\ r[i + 3] = "lf"
    BY <1>2, <1>5, <2>2
  <2> QED BY <1>4, <1>5, <2>2, <2>3, CompleteSymbols
<1> QED BY <1>6, <1>7

(* NextLine: what is left after a line still ends with the end of the        *)
(* headers, or is that end.                                                  *)
LEMMA NextLineEnds ==
  ASSUME NEW s \in Strings, EndsHeaders(s)
  PROVE  NextLine(s) \in Strings /\ (HeadersEnd(NextLine(s)) \/ EndsHeaders(NextLine(s)))
<1> DEFINE n == Len(s)
           q == Strstr(s, CRLF)
           r == SubSeq(s, q + 2, n)
<1>1. /\ n \in Nat /\ n >= 4
      /\ s[n - 3] = "cr" /\ s[n - 2] = "lf" /\ s[n - 1] = "cr" /\ s[n] = "lf"
  BY EndSymbols, LenProperties DEF Strings
<1>2. /\ q \in 1..(n - 3) /\ s[q] = "cr" /\ s[q + 1] = "lf"
  <2>1. /\ n - 3 \in 1..(n - 1) /\ s[n - 3] = "cr" /\ s[(n - 3) + 1] = "lf"
    <3>1. (n - 3) + 1 = n - 2
      BY <1>1
    <3> QED BY <1>1, <3>1
  <2> HIDE DEF n
  <2>2. Strstr(s, CRLF) \in 1..(n - 3)
        /\ s[Strstr(s, CRLF)] = "cr" /\ s[Strstr(s, CRLF) + 1] = "lf"
    BY <2>1, FirstLineEnd DEF n
  <2> QED BY <2>2
<1>3. NextLine(s) = r
  BY DEF NextLine, From
<1> HIDE DEF n, q
<1>4. /\ r \in Strings /\ Len(r) = n - q - 1
      /\ \A i \in 1..(n - q - 1) : r[i] = s[q + i + 1]
  <2>1. q + 2 \in Nat \ {0} /\ n \in Int /\ n <= Len(s) /\ q + 2 <= n
    BY <1>1, <1>2 DEF n
  <2>2. /\ r \in Strings /\ Len(r) = IF q + 2 <= n THEN n - (q + 2) + 1 ELSE 0
        /\ \A i \in 1..(n - (q + 2) + 1) : r[i] = s[(q + 2) + i - 1]
    BY <2>1, SubString
  <2> HIDE DEF r
  <2>3. ASSUME NEW i \in 1..(n - q - 1)
        PROVE  r[i] = s[q + i + 1]
    <3>1. i \in 1..(n - (q + 2) + 1) /\ (q + 2) + i - 1 = q + i + 1
      BY <1>1, <1>2
    <3> QED BY <2>2, <3>1
  <2>4. n - (q + 2) + 1 = n - q - 1
    BY <1>1, <1>2
  <2> QED BY <2>1, <2>2, <2>3, <2>4
<1> HIDE DEF r
<1>5. CASE q = n - 3
  <2>1. Len(r) = 2 /\ r[1] = "cr" /\ r[2] = "lf"
    <3>1. n - q - 1 = 2 /\ q + 1 + 1 = n - 1 /\ q + 2 + 1 = n
      BY <1>1, <1>5
    <3> QED BY <1>1, <1>4, <3>1
  <2>2. \A j \in 1..2 : j = 1 \/ j = 2
    OBVIOUS
  <2>3. r = CRLF
    BY <2>1, <2>2, <1>4, LineEnd, SeqEqual DEF Strings
  <2>4. IsPrefix(CRLF, r)
    BY <2>3, LineEnd DEF IsPrefix
  <2> QED BY <1>3, <1>4, <2>4 DEF HeadersEnd
<1>6. CASE q # n - 3
  <2>1. q <= n - 5
    <3>1. q # n - 4
      <4>1. q = n - 4 => q + 1 = n - 3
        BY <1>1, <1>2
      <4> QED BY <4>1, <1>1, <1>2
    <3> QED BY <3>1, <1>1, <1>2, <1>6
  <2>2. Len(r) >= 4 /\ Len(r) \in Nat
    BY <2>1, <1>1, <1>2, <1>4
  <2>3. r[Len(r) - 3] = s[n - 3] /\ r[Len(r) - 2] = s[n - 2] /\ r[Len(r) - 1] = s[n - 1]
        /\ r[Len(r)] = s[n]
    <3>1. \A k \in 0..3 : Len(r) - k \in 1..(n - q - 1) /\ q + (Len(r) - k) + 1 = n - k
      BY <2>1, <1>1, <1>2, <1>4
    <3>2. \A k \in 0..3 : r[Len(r) - k] = s[n - k]
      BY <3>1, <1>4
    <3> QED BY <3>2, <1>1, <2>2
  <2> QED BY <1>1, <1>3, <1>4, <2>2, <2>3, EndSymbols
<1> QED BY <1>5, <1>6

(* The first line of a text is a text.                                       *)
LEMMA LineIsText ==
  ASSUME NEW s \in Strings, Occurrences(s, CRLF) # {}
  PROVE  SubSeq(s, 1, Strstr(s, CRLF) - 1) \in Strings
<1>1. PICK n \in 1..(Len(s) - 1) : s[n] = "cr" /\ s[n + 1] = "lf"
  BY LineEndAmong
<1>2. PICK q \in 1..n : q = Strstr(s, CRLF)
  BY <1>1, FirstLineEnd
<1>3. q - 1 \in Int /\ q - 1 <= Len(s)
  BY LenProperties DEF Strings
<1>4. SubSeq(s, 1, q - 1) \in Strings
  BY <1>3, SubString
<1> QED BY <1>2, <1>4

(* A text with a colon is a key up to there, and a text behind it, or what   *)
(* is beyond the buffer.                                                     *)
LEMMA ColonSplits ==
  ASSUME NEW s \in Strings, NEW beyond \in Strings, HasColon(s)
  PROVE  HeaderKey(s) \in Strings /\ AfterColon(s, beyond) \in Strings
<1>1. PICK n \in Nat : n = Len(s)
  BY LenProperties DEF Strings
<1>2. PICK c \in 1..n : c = IndexOf(s, 1, {":"})
  <2>1. \E j \in 1..Len(s) : s[j] \in {":"}
    BY LenProperties DEF HasColon, Strings
  <2>2. IndexOf(s, 1, {":"}) \in Nat \ {0} /\ IndexOf(s, 1, {":"}) <= Len(s)
    BY <2>1, IndexIs
  <2> QED BY <1>1, <2>2
<1>3. SubSeq(s, 1, c - 1) \in Strings
  <2>1. 1 \in Nat \ {0} /\ c - 1 \in Int /\ c - 1 <= Len(s)
    BY <1>1
  <2>2. PICK k \in Int : k = c - 1
    BY <2>1
  <2>3. SubSeq(s, 1, k) \in Strings
    BY <2>1, <2>2, SubString
  <2> QED BY <2>2, <2>3
<1>4. SubSeq(s, c + 2, n) \in Strings
  <2>1. c + 2 \in Nat \ {0} /\ n \in Int /\ n <= Len(s)
    BY <1>1
  <2> QED BY <2>1, SubString
<1> QED BY <1>1, <1>2, <1>3, <1>4 DEF HeaderKey, AfterColon, From

(* So a header line that has a colon and a value gives a key and a value.    *)
LEMMA HeaderStrings ==
  ASSUME NEW s \in Strings, NEW beyond \in Strings, HasColon(s), HasValue(s, beyond)
  PROVE  HeaderKey(s) \in Strings /\ HeaderValue(s, beyond) \in Strings
<1> DEFINE v == AfterColon(s, beyond)
<1>1. HeaderKey(s) \in Strings /\ v \in Strings
  BY ColonSplits
<1>2. Occurrences(v, CRLF) # {}
  BY DEF HasValue
<1>3. HeaderValue(s, beyond) = SubSeq(v, 1, Strstr(v, CRLF) - 1)
  BY DEF HeaderValue
<1> HIDE DEF v
<1> QED BY <1>1, <1>2, <1>3, LineIsText

(* In a text that ends with the end of its headers every colon has a value.  *)
LEMMA EndsHasValue ==
  ASSUME NEW s \in Strings, EndsHeaders(s), HasColon(s), NEW beyond
  PROVE  HasValue(s, beyond)
<1>1. PICK n \in Nat : n = Len(s)
  BY LenProperties DEF Strings
<1>2. /\ n >= 4 /\ s[n - 3] = "cr" /\ s[n - 2] = "lf" /\ s[n - 1] = "cr" /\ s[n] = "lf"
  BY <1>1, EndSymbols
<1>3. PICK c \in 1..n : c = IndexOf(s, 1, {":"}) /\ s[c] = ":"
  <2>1. \E j \in 1..Len(s) : s[j] \in {":"}
    BY LenProperties DEF HasColon, Strings
  <2>2. /\ IndexOf(s, 1, {":"}) \in Nat \ {0} /\ IndexOf(s, 1, {":"}) <= Len(s)
        /\ s[IndexOf(s, 1, {":"})] \in {":"}
    BY <2>1, IndexIs
  <2> QED BY <1>1, <2>2
<1>4. c <= n - 4
  BY <1>2, <1>3
<1> DEFINE v == SubSeq(s, c + 2, n)
<1>5. AfterColon(s, beyond) = v
  <2>1. c # n
    BY <1>1, <1>2, <1>4
  <2> QED BY <1>1, <1>3, <2>1 DEF AfterColon, From
<1>6. /\ v \in Strings /\ Len(v) = n - c - 1
      /\ \A i \in 1..(n - c - 1) : v[i] = s[c + i + 1]
  <2>1. c + 2 \in Nat \ {0} /\ n \in Int /\ n <= Len(s) /\ c + 2 <= n
        /\ n - (c + 2) + 1 = n - c - 1
    BY <1>1, <1>4
  <2>2. /\ v \in Strings /\ Len(v) = IF c + 2 <= n THEN n - (c + 2) + 1 ELSE 0
        /\ \A i \in 1..(n - (c + 2) + 1) : v[i] = s[(c + 2) + i - 1]
    BY <2>1, SubString
  <2> HIDE DEF v
  <2>3. \A i \in 1..(n - c - 1) : (c + 2) + i - 1 = c + i + 1
    OBVIOUS
  <2> QED BY <2>1, <2>2, <2>3
<1> HIDE DEF v
<1>7. PICK m \in 1..(n - c - 2) : /\ m = n - c - 2 /\ m + 1 \in 1..(n - c - 1)
                                  /\ m \in 1..(n - c - 1)
                                  /\ c + m + 1 = n - 1 /\ c + (m + 1) + 1 = n
  BY <1>4
<1>8. m \in 1..(Len(v) - 1) /\ v[m] = "cr" /\ v[m + 1] = "lf"
  BY <1>2, <1>6, <1>7
<1>9. Occurrences(v, CRLF) # {}
  BY <1>6, <1>8, LineEndAmong
<1> QED BY <1>5, <1>9 DEF HasValue

(* Strtok cuts a text into texts.                                            *)
LEMMA StrtokStrings ==
  ASSUME NEW s \in Strings, NEW delim
  PROVE  Strtok(s, delim).token \in Strings /\ Strtok(s, delim).rest \in Strings
<1> DEFINE A == {j \in 1..Len(s) : s[j] \notin delim} \cup {Len(s) + 1}
           first == TokenStart(s, delim)
           end == IndexOf(s, first, delim)
<1>7. /\ Strtok(s, delim).token = SubSeq(s, first, end - 1)
      /\ Strtok(s, delim).rest = SubSeq(s, end + 1, Len(s))
  <2>1. Strtok(s, delim) = [token |-> SubSeq(s, first, end - 1), rest |-> From(s, end + 1),
                            end |-> end]
    BY Zenon DEF Strtok
  <2> DEFINE t == SubSeq(s, first, end - 1)
             r == From(s, end + 1)
             e == end
  <2>2. Strtok(s, delim) = [token |-> t, rest |-> r, end |-> e]
    BY <2>1
  <2> HIDE DEF t, r, e
  <2>3. Strtok(s, delim).token = t /\ Strtok(s, delim).rest = r
    BY <2>2
  <2> QED BY <2>3 DEF t, r, From
<1>1. Len(s) \in Nat
  BY LenProperties DEF Strings
<1>2. first \in A
  <2>1. A \subseteq Nat /\ A # {}
    BY <1>1
  <2> QED BY <2>1, MinLeast DEF TokenStart
<1>3. first \in Nat \ {0}
  BY <1>1, <1>2
<1> HIDE DEF first
<1>4. end \in Nat \ {0} /\ end <= Len(s) + 1
  BY <1>3, IndexIs
<1> HIDE DEF end
<1>5. SubSeq(s, first, end - 1) \in Strings
  <2>1. end - 1 \in Int /\ end - 1 <= Len(s)
    BY <1>1, <1>4
  <2> QED BY <2>1, <1>3, SubString
<1>6. SubSeq(s, end + 1, Len(s)) \in Strings
  <2>1. end + 1 \in Nat \ {0} /\ Len(s) \in Int /\ Len(s) <= Len(s)
    BY <1>1, <1>4
  <2> QED BY <2>1, SubString
<1> QED BY <1>5, <1>6, <1>7

(* So the fields of a request line are texts.                                *)
LEMMA FieldStrings ==
  ASSUME NEW s \in Strings, NEW beyond \in Strings
  PROVE  Request(LineFields(s, beyond)) \in Requests
<1> DEFINE method    == Strtok(s, {" "})
           full_addr == Strtok(method.rest, {" "})
           version   == IF full_addr.end > Len(method.rest) THEN beyond ELSE full_addr.rest
           protocol  == Strtok(full_addr.token, {":", "/"})
           authority == Strtok(protocol.rest, {"/"})
           host      == Strtok(authority.token, {":"})
           f         == LineFields(s, beyond)
<1>1. method.rest \in Strings
  BY StrtokStrings
<1> HIDE DEF method
<1>2. full_addr.token \in Strings /\ full_addr.rest \in Strings
  BY <1>1, StrtokStrings
<1> HIDE DEF full_addr
<1>3. protocol.token \in Strings /\ protocol.rest \in Strings /\ version \in Strings
  BY <1>2, StrtokStrings
<1> HIDE DEF protocol, version
<1>4. authority.token \in Strings /\ authority.rest \in Strings
  BY <1>3, StrtokStrings
<1> HIDE DEF authority
<1>5. host.token \in Strings /\ host.rest \in Strings
  BY <1>4, StrtokStrings
<1> HIDE DEF host
<1>6. <<"/">> \o authority.rest \in Strings
  <2>1. "/" \in Symbols
    BY ParsedRequestAssumption
  <2>2. <<"/">> \in Seq(Symbols)
    BY <2>1
  <2> QED BY <2>2, <1>4, ConcatProperties DEF Strings
<1>7. /\ f.protocol = protocol.token /\ f.host = host.token /\ f.port = host.rest
      /\ f.path = <<"/">> \o authority.rest /\ f.version = version
  BY DEF LineFields, method, full_addr, version, protocol, authority, host
<1> HIDE DEF f
<1>8. Request(f) = [protocol |-> protocol.token, host |-> host.token, port |-> host.rest,
                    path |-> <<"/">> \o authority.rest, version |-> version]
  BY <1>7 DEF Request
<1>9. Request(f) \in Requests
  BY <1>3, <1>5, <1>6, <1>8 DEF Requests
<1> QED BY <1>9 DEF f

-----------------------------------------------------------------------------
(* FlattenSeq of texts from a set that is closed under concatenation.        *)
Joined(f, q, n) ==
  /\ DOMAIN f = 1..n
  /\ f[1] = q[1]
  /\ \A i \in 2..n : f[i] = f[i - 1] \o q[i]

LEMMA JoinedExists ==
  ASSUME NEW G, NEW q \in Seq(G), NEW n \in 1..Len(q)
  PROVE  \E f : Joined(f, q, n)
<1> DEFINE Bad == {m \in 1..Len(q) : ~ \E f : Joined(f, q, m)}
<1>1. Len(q) \in Nat
  BY LenProperties
<1>2. SUFFICES ASSUME Bad # {} PROVE FALSE
  OBVIOUS
<1>3. PICK m \in Bad : \A k \in Bad : m <= k
  <2>1. Bad \subseteq Nat
    BY <1>1
  <2> QED BY <1>2, <2>1, LeastExists
<1>4. m # 1
  <2>1. Joined([i \in 1..1 |-> q[1]], q, 1)
    BY DEF Joined
  <2> QED BY <2>1
<1>5. m - 1 \in 1..Len(q) /\ m - 1 \notin Bad
  BY <1>1, <1>3, <1>4
<1>6. PICK f : Joined(f, q, m - 1)
  BY <1>5
<1> DEFINE g == [i \in 1..m |-> IF i = m THEN f[m - 1] \o q[m] ELSE f[i]]
<1>7. Joined(g, q, m)
  <2>1. DOMAIN g = 1..m
    OBVIOUS
  <2>2. g[1] = q[1]
    BY <1>1, <1>3, <1>4, <1>6 DEF Joined
  <2>3. ASSUME NEW i \in 2..m
        PROVE  g[i] = g[i - 1] \o q[i]
    <3>1. i - 1 \in 1..m /\ i - 1 # m /\ g[i - 1] = f[i - 1]
      BY <1>1, <1>3
    <3>2. CASE i = m
      <4>1. m \in 1..m /\ g[m - 1] = f[m - 1]
        BY <1>1, <1>3, <3>1, <3>2
      <4>2. g[m] = f[m - 1] \o q[m]
        BY <4>1
      <4> HIDE DEF g
      <4> QED BY <3>2, <4>1, <4>2
    <3>3. CASE i # m
      <4>1. i \in 2..(m - 1) /\ g[i] = f[i]
        BY <1>1, <1>3, <3>3
      <4> QED BY <3>1, <4>1, <1>6 DEF Joined
    <3> QED BY <3>2, <3>3
  <2> HIDE DEF g
  <2> QED BY <2>1, <2>2, <2>3 DEF Joined
<1> QED BY <1>7

LEMMA Flattened ==
  ASSUME NEW G, NEW q \in Seq(G), q # <<>>
  PROVE  \E f : Joined(f, q, Len(q)) /\ FlattenSeq(q) = f[Len(q)]
<1> DEFINE n == Len(q)
           Flat(g) == g = [i \in 1..n |-> IF i = 1 THEN q[i] ELSE g[i - 1] \o q[i]]
           c == CHOOSE g : Flat(g)
<1>1. n \in Nat /\ n # 0 /\ FlattenSeq(q) = c[n]
  <2>1. n \in Nat /\ n # 0
    BY LenProperties, EmptySeq
  <2> QED BY <2>1 DEF FlattenSeq
<1>2. PICK f : Joined(f, q, n)
  BY <1>1, JoinedExists
<1> HIDE DEF n
<1>3. \E g : Flat(g)
  <2> DEFINE h == [i \in 1..n |-> f[i]]
  <2>1. ASSUME NEW i \in 1..n
        PROVE  h[i] = IF i = 1 THEN q[i] ELSE h[i - 1] \o q[i]
    <3>1. CASE i = 1
      BY <3>1, <1>2 DEF Joined
    <3>2. CASE i # 1
      <4>1. i \in 2..n /\ i - 1 \in 1..n
        BY <1>1, <3>2
      <4> QED BY <3>2, <4>1, <1>2 DEF Joined
    <3> QED BY <3>1, <3>2
  <2>2. h = [i \in 1..n |-> IF i = 1 THEN q[i] ELSE h[i - 1] \o q[i]]
    BY <2>1
  <2> HIDE DEF h
  <2> QED BY <2>2
<1>4. Flat(c)
  BY <1>3
<1> HIDE DEF c
<1>5. Joined(c, q, n)
  <2>1. DOMAIN c = 1..n /\ c[1] = q[1]
    BY <1>1, <1>4
  <2>2. ASSUME NEW i \in 2..n
        PROVE  c[i] = c[i - 1] \o q[i]
    <3>1. i \in 1..n /\ i # 1
      BY <1>1
    <3>2. c[i] = IF i = 1 THEN q[i] ELSE c[i - 1] \o q[i]
      BY <1>4, <3>1
    <3> QED BY <3>1, <3>2
  <2> QED BY <2>1, <2>2 DEF Joined
<1> QED BY <1>1, <1>5 DEF n

LEMMA JoinedStays ==
  ASSUME NEW G, \A s, t \in G : s \o t \in G,
         NEW q \in Seq(G), NEW f, Joined(f, q, Len(q)), NEW n \in 1..Len(q)
  PROVE  f[n] \in G
<1> DEFINE Bad == {m \in 1..Len(q) : f[m] \notin G}
<1>1. Len(q) \in Nat /\ \A i \in 1..Len(q) : q[i] \in G
  BY LenProperties
<1>2. SUFFICES ASSUME Bad # {} PROVE FALSE
  OBVIOUS
<1>3. PICK m \in Bad : \A k \in Bad : m <= k
  <2>1. Bad \subseteq Nat
    BY <1>1
  <2> QED BY <1>2, <2>1, LeastExists
<1>4. m # 1
  BY <1>1, <1>3 DEF Joined
<1>5. m - 1 \in 1..Len(q) /\ m - 1 \notin Bad /\ m \in 2..Len(q)
  BY <1>1, <1>3, <1>4
<1>6. f[m - 1] \in G /\ f[m] = f[m - 1] \o q[m]
  BY <1>5 DEF Joined
<1> QED BY <1>1, <1>3, <1>6

-----------------------------------------------------------------------------
(* Texts that are empty or end with the end of a line.                       *)
EndsLine(s) == Len(s) >= 2 /\ s[Len(s) - 1] = "cr" /\ s[Len(s)] = "lf"

WholeLines == {s \in Strings : s = <<>> \/ EndsLine(s)}

LEMMA ConcatStrings ==
  ASSUME NEW s \in Strings, NEW t \in Strings
  PROVE  /\ s \o t \in Strings
         /\ Len(s \o t) = Len(s) + Len(t)
         /\ Len(s) \in Nat /\ Len(t) \in Nat
         /\ \A i \in 1..Len(s) : (s \o t)[i] = s[i]
         /\ \A i \in 1..Len(t) : (s \o t)[Len(s) + i] = t[i]
<1>1. Len(s) \in Nat /\ Len(t) \in Nat
  BY LenProperties DEF Strings
<1>2. /\ s \o t \in Strings /\ Len(s \o t) = Len(s) + Len(t)
      /\ \A i \in 1..(Len(s) + Len(t)) :
           (s \o t)[i] = IF i <= Len(s) THEN s[i] ELSE t[i - Len(s)]
  BY ConcatProperties DEF Strings
<1>3. ASSUME NEW i \in 1..Len(s)
      PROVE  (s \o t)[i] = s[i]
  <2>1. i \in 1..(Len(s) + Len(t)) /\ i <= Len(s)
    BY <1>1
  <2> QED BY <2>1, <1>2
<1>4. ASSUME NEW i \in 1..Len(t)
      PROVE  (s \o t)[Len(s) + i] = t[i]
  <2>1. /\ Len(s) + i \in 1..(Len(s) + Len(t)) /\ ~ (Len(s) + i <= Len(s))
        /\ (Len(s) + i) - Len(s) = i
    BY <1>1
  <2> QED BY <2>1, <1>2
<1> QED BY <1>1, <1>2, <1>3, <1>4

(* A text that ends with a line does so behind any other.                    *)
LEMMA EndsLineBehind ==
  ASSUME NEW s \in Strings, NEW t \in Strings, EndsLine(t)
  PROVE  EndsLine(s \o t)
<1>1. /\ Len(s \o t) = Len(s) + Len(t) /\ Len(s) \in Nat /\ Len(t) \in Nat
      /\ \A i \in 1..Len(t) : (s \o t)[Len(s) + i] = t[i]
  BY ConcatStrings
<1>2. /\ Len(t) - 1 \in 1..Len(t) /\ Len(t) \in 1..Len(t)
      /\ Len(s) + (Len(t) - 1) = Len(s \o t) - 1 /\ Len(s) + Len(t) = Len(s \o t)
  BY <1>1 DEF EndsLine
<1> QED BY <1>1, <1>2 DEF EndsLine

LEMMA WholeLinesClosed ==
  /\ \A s, t \in WholeLines : s \o t \in WholeLines
  /\ CRLF \in WholeLines /\ EndsLine(CRLF)
  /\ \A s \in Strings : EndsLine(s \o CRLF) /\ s \o CRLF \in Strings
<1>1. EndsLine(CRLF) /\ CRLF \in Strings
  BY LineEnd DEF EndsLine
<1>2. ASSUME NEW s \in WholeLines, NEW t \in WholeLines
      PROVE  s \o t \in WholeLines
  <2>1. s \in Strings /\ t \in Strings /\ s \o t \in Strings
    BY ConcatStrings DEF WholeLines
  <2>2. CASE t = <<>>
    <3>1. s \o t = s
      BY <2>1, <2>2, ConcatEmptySeq DEF Strings
    <3> QED BY <3>1
  <2>3. CASE EndsLine(t)
    BY <2>1, <2>3, EndsLineBehind DEF WholeLines
  <2> QED BY <2>2, <2>3 DEF WholeLines
<1>3. ASSUME NEW s \in Strings
      PROVE  EndsLine(s \o CRLF) /\ s \o CRLF \in Strings
  BY <1>1, EndsLineBehind, ConcatStrings
<1> QED BY <1>1, <1>2, <1>3 DEF WholeLines

(* Two ends of a line are the end of the headers.                            *)
LEMMA TwoEnds ==
  ASSUME NEW s \in Strings, EndsLine(s)
  PROVE  s \o CRLF \in Strings /\ EndsHeaders(s \o CRLF)
<1> DEFINE c == CRLF
           n == Len(s)
           r == s \o c
<1> HIDE DEF c
<1>1. c \in Strings /\ Len(c) = 2 /\ c[1] = "cr" /\ c[2] = "lf"
  BY LineEnd DEF c
<1>2. /\ r \in Strings /\ Len(r) = n + 2 /\ n \in Nat
      /\ \A i \in 1..n : r[i] = s[i]
      /\ \A i \in 1..2 : r[n + i] = c[i]
  <2>1. /\ s \o c \in Strings /\ Len(s \o c) = Len(s) + Len(c) /\ Len(s) \in Nat
        /\ \A i \in 1..Len(s) : (s \o c)[i] = s[i]
        /\ \A i \in 1..Len(c) : (s \o c)[Len(s) + i] = c[i]
    BY <1>1, ConcatStrings
  <2>2. Len(c) = 2
    BY <1>1
  <2> HIDE DEF n
  <2>3. /\ s \o c \in Strings /\ Len(s \o c) = n + 2 /\ n \in Nat
        /\ \A i \in 1..n : (s \o c)[i] = s[i]
        /\ \A i \in 1..2 : (s \o c)[n + i] = c[i]
    BY <2>1, <2>2 DEF n
  <2> QED BY <2>3
<1>3. n >= 2 /\ s[n - 1] = "cr" /\ s[n] = "lf"
  BY DEF EndsLine
<1> HIDE DEF n, r
<1>4. r[n - 1] = "cr" /\ r[n] = "lf" /\ r[n + 1] = "cr" /\ r[n + 2] = "lf"
  BY <1>1, <1>2, <1>3
<1>5. Len(r) >= 4 /\ Len(r) - 3 = n - 1 /\ Len(r) - 2 = n /\ Len(r) - 1 = n + 1
  BY <1>2, <1>3
<1>6. EndsHeaders(r)
  BY <1>2, <1>4, <1>5, EndSymbols
<1> QED BY <1>2, <1>6 DEF r, c

-----------------------------------------------------------------------------
LEMMA ShortTexts ==
  ASSUME NEW a \in Symbols, NEW b \in Symbols, NEW c \in Symbols
  PROVE  /\ <<>> \in Strings /\ <<a>> \in Strings /\ <<a, b>> \in Strings
         /\ <<a, b, c>> \in Strings
<1>1. <<>> \in Seq(Symbols)
  OBVIOUS
<1>2. <<a>> \in Seq(Symbols)
  OBVIOUS
<1>3. <<a, b>> \in Seq(Symbols)
  OBVIOUS
<1>4. <<a, b, c>> \in Seq(Symbols)
  OBVIOUS
<1> QED BY <1>1, <1>2, <1>3, <1>4 DEF Strings

(* What is printed is a text, whole lines of it, and the empty line last.    *)
LEMMA PrintedSlotLines ==
  ASSUME NEW h \in Slot
  PROVE  PrintedSlot(h) \in WholeLines
<1>1. CASE h.key = NULL
  BY <1>1 DEF PrintedSlot, WholeLines, Strings
<1>2. CASE h.key # NULL
  <2> DEFINE a == h.key \o <<":", " ">>
             b == a \o h.value
  <2>1. h.key \in Strings /\ h.value \in Strings
    BY <1>2, ParsedRequestAssumption DEF Slot
  <2>2. <<":", " ">> \in Strings
    <3>1. ":" \in Symbols /\ " " \in Symbols
      BY ParsedRequestAssumption
    <3> QED BY <3>1, ShortTexts
  <2>3. a \in Strings
    BY <2>1, <2>2, ConcatStrings
  <2> HIDE DEF a
  <2>4. b \in Strings
    BY <2>1, <2>3, ConcatStrings
  <2>5. PrintedSlot(h) = b \o CRLF
    BY <1>2 DEF PrintedSlot, PrintedHeader, a, b
  <2> HIDE DEF b
  <2>6. EndsLine(b \o CRLF) /\ b \o CRLF \in Strings
    BY <2>4, WholeLinesClosed
  <2> QED BY <2>5, <2>6 DEF WholeLines
<1> QED BY <1>1, <1>2

LEMMA FlatLines ==
  ASSUME headers \in Seq(Slot)
  PROVE  FlattenSeq([i \in DOMAIN headers |-> PrintedSlot(headers[i])]) \in WholeLines
<1> DEFINE q == [i \in DOMAIN headers |-> PrintedSlot(headers[i])]
<1>1. /\ DOMAIN headers = 1..Len(headers) /\ Len(headers) \in Nat
      /\ \A i \in DOMAIN headers : headers[i] \in Slot
  BY LenProperties
<1>2. \A i \in 1..Len(headers) : PrintedSlot(headers[i]) \in WholeLines
  BY <1>1, PrintedSlotLines
<1>3. q = [i \in 1..Len(headers) |-> PrintedSlot(headers[i])]
  BY <1>1
<1>4. q \in [1..Len(headers) -> WholeLines]
  BY <1>2, <1>3
<1>5. q \in Seq(WholeLines)
  BY <1>1, <1>4
<1> HIDE DEF q
<1>6. CASE q = <<>>
  <2>1. FlattenSeq(q) = <<>>
    BY <1>6 DEF FlattenSeq
  <2> QED BY <2>1 DEF WholeLines, Strings, q
<1>7. CASE q # <<>>
  <2>1. PICK f : Joined(f, q, Len(q)) /\ FlattenSeq(q) = f[Len(q)]
    BY <1>5, <1>7, Flattened
  <2>2. Len(q) \in 1..Len(q)
    BY <1>5, <1>7, LenProperties, EmptySeq
  <2>3. f[Len(q)] \in WholeLines
    BY <1>5, <2>1, <2>2, JoinedStays, WholeLinesClosed
  <2> QED BY <2>1, <2>3 DEF q
<1> QED BY <1>6, <1>7

LEMMA PrintedLineIsLine ==
  ASSUME NEW r \in Requests
  PROVE  PrintedLine(r) \in Strings /\ EndsLine(PrintedLine(r))
<1> DEFINE p == IF r.port = <<>> THEN <<>> ELSE <<":">> \o r.port
           a == <<"GET", " ">> \o r.protocol
           b == a \o <<":", "/", "/">>
           c == b \o r.host
           d == c \o p
           e == d \o r.path
           f == e \o <<" ">>
           g == f \o r.version
<1>1. /\ <<"GET", " ">> \in Strings /\ <<":", "/", "/">> \in Strings
      /\ <<":">> \in Strings /\ <<" ">> \in Strings /\ <<>> \in Strings
  <2>1. "GET" \in Symbols /\ " " \in Symbols /\ ":" \in Symbols /\ "/" \in Symbols
    BY ParsedRequestAssumption
  <2> QED BY <2>1, ShortTexts
<1>2. /\ r.protocol \in Strings /\ r.host \in Strings /\ r.port \in Strings
      /\ r.path \in Strings /\ r.version \in Strings
  BY DEF Requests
<1>3. p \in Strings
  BY <1>1, <1>2, ConcatStrings
<1>4. PrintedLine(r) = g \o CRLF
  BY DEF PrintedLine
<1> HIDE DEF p
<1>5. a \in Strings
  BY <1>1, <1>2, ConcatStrings
<1> HIDE DEF a
<1>6. b \in Strings
  BY <1>1, <1>5, ConcatStrings
<1> HIDE DEF b
<1>7. c \in Strings
  BY <1>2, <1>6, ConcatStrings
<1> HIDE DEF c
<1>8. d \in Strings
  BY <1>3, <1>7, ConcatStrings
<1> HIDE DEF d
<1>9. e \in Strings
  BY <1>2, <1>8, ConcatStrings
<1> HIDE DEF e
<1>10. f \in Strings
  BY <1>1, <1>9, ConcatStrings
<1> HIDE DEF f
<1>11. g \in Strings
  BY <1>2, <1>10, ConcatStrings
<1> HIDE DEF g
<1> QED BY <1>4, <1>11, WholeLinesClosed

(* So what ParsedRequest_unparse prints can be given to ParsedRequest_parse. *)
LEMMA PrintedText ==
  ASSUME headers \in Seq(Slot), request \in Requests
  PROVE  /\ PrintedLine(request) \o PrintedHeaders \in Strings
         /\ EndsHeaders(PrintedLine(request) \o PrintedHeaders)
<1> DEFINE l == PrintedLine(request)
           h == FlattenSeq([i \in DOMAIN headers |-> PrintedSlot(headers[i])])
<1>1. l \in Strings /\ EndsLine(l)
  BY PrintedLineIsLine
<1>2. h \in WholeLines
  BY FlatLines
<1>3. PrintedHeaders = h \o CRLF
  BY DEF PrintedHeaders
<1> HIDE DEF l, h
<1>4. h \in Strings /\ CRLF \in Strings
  BY <1>2, LineEnd DEF WholeLines
<1>5. l \o h \in Strings
  BY <1>1, <1>4, ConcatStrings
<1>6. EndsLine(l \o h)
  <2>1. CASE h = <<>>
    <3>1. l \o h = l
      BY <1>1, <2>1, ConcatEmptySeq DEF Strings
    <3> QED BY <1>1, <3>1
  <2>2. CASE EndsLine(h)
    BY <1>1, <1>4, <2>2, EndsLineBehind
  <2> QED BY <1>2, <2>1, <2>2 DEF WholeLines
<1>7. l \o (h \o CRLF) = (l \o h) \o CRLF
  <2>1. l \in Seq(Symbols) /\ h \in Seq(Symbols) /\ CRLF \in Seq(Symbols)
    BY <1>1, <1>4 DEF Strings
  <2> QED BY <2>1, ConcatAssociative, SMTT(20)
<1>8. (l \o h) \o CRLF \in Strings /\ EndsHeaders((l \o h) \o CRLF)
  BY <1>5, <1>6, TwoEnds
<1> QED BY <1>3, <1>7, <1>8 DEF l

-----------------------------------------------------------------------------
(* The lengths ParsedRequest_totalLen adds up are those of what is printed.  *)
SlotLen(h) == IF h.key = NULL THEN 0 ELSE Len(h.key) + Len(h.value) + 4

LEMMA HeaderLen ==
  ASSUME NEW k \in Strings, NEW v \in Strings
  PROVE  /\ Len(k \o <<":", " ">> \o v \o CRLF) = Len(k) + Len(v) + 4
         /\ Len(k) + Len(v) + 4 \in Nat
<1> DEFINE x == <<":", " ">>
           a == k \o x
           b == a \o v
<1>1. x \in Strings /\ Len(x) = 2
  <2>1. ":" \in Symbols /\ " " \in Symbols
    BY ParsedRequestAssumption
  <2> QED BY <2>1, ShortTexts
<1> HIDE DEF x
<1>2. a \in Strings /\ Len(a) = Len(k) + Len(x) /\ Len(k) \in Nat
  BY <1>1, ConcatStrings
<1> HIDE DEF a
<1>3. b \in Strings /\ Len(b) = Len(a) + Len(v) /\ Len(v) \in Nat
  BY <1>2, ConcatStrings
<1> HIDE DEF b
<1>4. Len(b \o CRLF) = Len(b) + Len(CRLF) /\ Len(CRLF) = 2
  BY <1>3, LineEnd, ConcatStrings
<1>5. Len(k) + Len(v) + 4 \in Nat /\ Len(b \o CRLF) = Len(k) + Len(v) + 4
  BY <1>1, <1>2, <1>3, <1>4
<1> QED BY <1>5 DEF b, a, x

LEMMA SlotLenIs ==
  ASSUME NEW h \in Slot
  PROVE  SlotLen(h) = Len(PrintedSlot(h)) /\ SlotLen(h) \in Nat /\ PrintedSlot(h) \in Strings
<1>1. PrintedSlot(h) \in Strings
  BY PrintedSlotLines DEF WholeLines
<1>2. CASE h.key = NULL
  BY <1>1, <1>2, EmptySeq DEF PrintedSlot, SlotLen
<1>3. CASE h.key # NULL
  <2>1. h.key \in Strings /\ h.value \in Strings
    BY <1>3, ParsedRequestAssumption DEF Slot
  <2>2. /\ Len(h.key \o <<":", " ">> \o h.value \o CRLF) = Len(h.key) + Len(h.value) + 4
        /\ Len(h.key) + Len(h.value) + 4 \in Nat
    BY <2>1, HeaderLen
  <2> QED BY <1>1, <1>3, <2>2 DEF PrintedSlot, PrintedHeader, SlotLen
<1> QED BY <1>2, <1>3

(* Texts joined one after the other are as long as all of them together.     *)
LEMMA JoinedLength ==
  ASSUME NEW q \in Seq(Strings), NEW f, Joined(f, q, Len(q)),
         NEW w, \A i \in 1..Len(q) : w[i] = Len(q[i]),
         NEW g, Sums(g, 1..Len(q), w), NEW k \in 1..Len(q)
  PROVE  Len(f[k]) = g[1..k]
<1> DEFINE n == Len(q)
           Bad == {m \in 1..n : Len(f[m]) # g[1..m]}
<1>1. n \in Nat /\ \A i \in 1..n : q[i] \in Strings
  BY LenProperties
<1>2. ASSUME NEW m \in 1..n
      PROVE  g[1..m] = g[1..(m - 1)] + w[m]
  <2>1. (1..m) \in SUBSET (1..n) /\ m \in 1..m /\ (1..m) \ {m} = 1..(m - 1)
    BY <1>1
  <2> HIDE DEF n
  <2>2. g[1..m] = g[(1..m) \ {m}] + w[m]
    BY <2>1 DEF Sums, n
  <2> QED BY <2>1, <2>2
<1>3. SUFFICES ASSUME Bad # {} PROVE FALSE
  OBVIOUS
<1>4. PICK m \in Bad : \A j \in Bad : m <= j
  <2>1. Bad \subseteq Nat
    BY <1>1
  <2> QED BY <1>3, <2>1, LeastExists
<1>5. \A j \in 1..n : f[j] \in Strings
  <2>1. \A s, t \in Strings : s \o t \in Strings
    BY ConcatStrings
  <2> QED BY <2>1, JoinedStays
<1>6. m # 1
  <2> SUFFICES ASSUME m = 1 PROVE FALSE
    OBVIOUS
  <2>1. f[1] = q[1] /\ 1 \in 1..n
    BY <1>4 DEF Joined
  <2>2. 1 - 1 = 0 /\ 1..0 = {}
    OBVIOUS
  <2>3. g[1..1] = g[{}] + w[1] /\ g[{}] = 0
    <3>1. g[1..1] = g[1..(1 - 1)] + w[1]
      BY <1>2, <2>1
    <3>2. 1..(1 - 1) = {}
      BY <2>2
    <3> QED BY <3>1, <3>2 DEF Sums
  <2>4. w[1] = Len(q[1]) /\ Len(q[1]) \in Nat
    BY <1>1, <2>1, ConcatStrings
  <2> QED BY <1>4, <2>1, <2>3, <2>4
<1>7. m - 1 \in 1..n /\ m - 1 \notin Bad /\ m \in 2..n /\ m \in 1..n
  BY <1>1, <1>4, <1>6
<1>8. f[m] = f[m - 1] \o q[m] /\ Len(f[m - 1]) = g[1..(m - 1)]
  BY <1>7 DEF Joined
<1>9. Len(f[m - 1] \o q[m]) = Len(f[m - 1]) + Len(q[m])
  BY <1>1, <1>5, <1>7, ConcatStrings
<1>10. g[1..m] = g[1..(m - 1)] + w[m] /\ w[m] = Len(q[m])
  BY <1>2, <1>7
<1> QED BY <1>4, <1>8, <1>9, <1>10

(* ParsedHeader_headersLen adds up the lengths of the slots.                 *)
LEMMA HeadersLenIsSum ==
  ASSUME NEW n \in Nat, DOMAIN headers = 1..n, NEW w, NEW g, Sums(g, 1..n, w),
         \A i \in 1..n : w[i] = SlotLen(headers[i])
  PROVE  HeadersLen = g[1..n] + 2
<1> DEFINE S == 1..n
           c == [p \in SUBSET S |-> Max(p)]
           Adds(f) == [p \in SUBSET S |->
                         IF p = {} THEN 0
                         ELSE f[p \ {Max(p)}]
                              + (IF headers[Max(p)].key = NULL THEN 0
                                 ELSE Len(headers[Max(p)].key) + Len(headers[Max(p)].value) + 4)]
           iter == CHOOSE f : f = Adds(f)
<1>1. HeadersLen = iter[S] + 2
  BY DEF HeadersLen, FoldLeft, MapThenFoldSet
<1> HIDE DEF iter
<1>2. \A p \in SUBSET S : p # {} => Max(p) \in p /\ c[p] \in p
  BY MaxIsMember
<1>3. g = Adds(g)
  <2>1. g = [p \in SUBSET S |-> g[p]]
    BY DEF Sums
  <2>2. ASSUME NEW p \in SUBSET S
        PROVE  g[p] = IF p = {} THEN 0 ELSE g[p \ {Max(p)}] + SlotLen(headers[Max(p)])
    <3>1. CASE p = {}
      BY <3>1 DEF Sums
    <3>2. CASE p # {}
      <4>1. PICK x \in p : x = Max(p)
        BY <3>2, <1>2
      <4>2. g[p] = g[p \ {x}] + w[x] /\ w[x] = SlotLen(headers[x])
        BY DEF Sums
      <4> QED BY <3>2, <4>1, <4>2
    <3> QED BY <3>1, <3>2
  <2> QED BY <2>1, <2>2 DEF SlotLen
<1>4. iter = Adds(iter)
  BY <1>3 DEF iter
<1>5. \A p \in SUBSET S : iter[p] = IF p = {} THEN 0 ELSE iter[p \ {c[p]}] + w[c[p]]
  <2> SUFFICES ASSUME NEW p \in SUBSET S
               PROVE  iter[p] = IF p = {} THEN 0 ELSE iter[p \ {c[p]}] + w[c[p]]
    OBVIOUS
  <2>1. iter[p] = IF p = {} THEN 0 ELSE iter[p \ {Max(p)}] + SlotLen(headers[Max(p)])
    BY <1>4 DEF SlotLen
  <2>2. c[p] = Max(p)
    OBVIOUS
  <2> HIDE DEF c
  <2>3. p # {} => w[c[p]] = SlotLen(headers[c[p]])
    BY <1>2
  <2> QED BY <2>1, <2>2, <2>3
<1>6. IsFiniteSet(S)
  BY FS_Interval
<1> HIDE DEF c, S
<1>7. AddsUp(iter, c, S, w)
  BY <1>2, <1>5 DEF AddsUp
<1>8. iter[S] = g[S]
  BY <1>6, <1>7, SumsUnique DEF S
<1> QED BY <1>1, <1>8 DEF S

LEMMA PrintedHeadersFit ==
  ASSUME headers \in Seq(Slot)
  PROVE  HeadersLen \in Nat /\ Len(PrintedHeaders) = HeadersLen
<1> DEFINE n == Len(headers)
           q == [i \in DOMAIN headers |-> PrintedSlot(headers[i])]
           w == [i \in 1..n |-> SlotLen(headers[i])]
<1>1. /\ DOMAIN headers = 1..n /\ n \in Nat
      /\ \A i \in 1..n : headers[i] \in Slot
  BY LenProperties
<1>2. \A i \in 1..n : /\ SlotLen(headers[i]) = Len(PrintedSlot(headers[i]))
                      /\ SlotLen(headers[i]) \in Nat /\ PrintedSlot(headers[i]) \in Strings
  BY <1>1, SlotLenIs
<1>3. q \in Seq(Strings) /\ Len(q) = n /\ \A i \in 1..n : q[i] = PrintedSlot(headers[i])
  <2>1. q = [i \in 1..n |-> PrintedSlot(headers[i])]
    BY <1>1
  <2>2. q \in [1..n -> Strings]
    BY <1>2, <2>1
  <2> HIDE DEF n, q
  <2> QED BY <1>1, <2>1, <2>2
<1>4. PrintedHeaders = FlattenSeq(q) \o CRLF
  BY DEF PrintedHeaders
<1>5. FlattenSeq(q) \in Strings
  BY FlatLines DEF WholeLines
<1>6. PICK g : Sums(g, 1..n, w)
  <2>1. IsFiniteSet(1..n)
    BY <1>1, FS_Interval
  <2>2. \A i \in 1..n : w[i] \in Nat
    BY <1>2
  <2> QED BY <2>1, <2>2, SumsExist
<1>7. HeadersLen = g[1..n] + 2
  <2>1. \A i \in 1..n : w[i] = SlotLen(headers[i])
    OBVIOUS
  <2> HIDE DEF w, n
  <2> QED BY <1>1, <1>6, <2>1, HeadersLenIsSum
<1>8. \A i \in 1..n : w[i] = Len(q[i])
  BY <1>2, <1>3
<1> HIDE DEF q, w, n
<1>9. Len(FlattenSeq(q)) = g[1..n]
  <2>1. CASE q = <<>>
    <3>1. Len(q) = 0 /\ FlattenSeq(q) = <<>>
      BY <2>1 DEF FlattenSeq
    <3>2. n = 0 /\ 1..n = {}
      BY <1>3, <3>1
    <3> QED BY <1>6, <3>1, <3>2 DEF Sums
  <2>2. CASE q # <<>>
    <3>1. PICK f : Joined(f, q, Len(q)) /\ FlattenSeq(q) = f[Len(q)]
      BY <1>3, <2>2, Flattened
    <3>2. n \in 1..n
      BY <1>3, <2>2, LenProperties, EmptySeq
    <3> QED BY <1>3, <1>6, <1>8, <3>1, <3>2, JoinedLength
  <2> QED BY <2>1, <2>2
<1>10. g[1..n] \in Nat
  BY <1>6 DEF Sums
<1>11. Len(FlattenSeq(q) \o CRLF) = g[1..n] + 2
  <2>1. Len(FlattenSeq(q) \o CRLF) = Len(FlattenSeq(q)) + Len(CRLF) /\ Len(CRLF) = 2
    BY <1>5, LineEnd, ConcatStrings
  <2> QED BY <1>9, <1>10, <2>1
<1> QED BY <1>4, <1>7, <1>10, <1>11

LEMMA PrintedLineFits ==
  ASSUME NEW r \in Requests
  PROVE  LineLen(r) \in Nat /\ Len(PrintedLine(r)) = LineLen(r)
<1> DEFINE proto == r.protocol
           host  == r.host
           port  == r.port
           path  == r.path
           ver   == r.version
           m == <<"GET", " ">>
           s == <<":", "/", "/">>
           z == <<":">>
           x == <<" ">>
           p == IF port = <<>> THEN <<>> ELSE z \o port
           a == m \o proto
           b == a \o s
           c == b \o host
           d == c \o p
           e == d \o path
           f == e \o x
           g == f \o ver
<1>1. /\ m \in Strings /\ s \in Strings /\ z \in Strings /\ x \in Strings /\ <<>> \in Strings
      /\ Len(m) = 2 /\ Len(s) = 3 /\ Len(z) = 1 /\ Len(x) = 1
  <2>1. "GET" \in Symbols /\ " " \in Symbols /\ ":" \in Symbols /\ "/" \in Symbols
    BY ParsedRequestAssumption
  <2> QED BY <2>1, ShortTexts
<1>2. /\ proto \in Strings /\ host \in Strings /\ port \in Strings
      /\ path \in Strings /\ ver \in Strings
      /\ Len(proto) \in Nat /\ Len(host) \in Nat /\ Len(port) \in Nat
      /\ Len(path) \in Nat /\ Len(ver) \in Nat
  <2>1. /\ proto \in Strings /\ host \in Strings /\ port \in Strings
        /\ path \in Strings /\ ver \in Strings
    BY DEF Requests
  <2> QED BY <2>1, LenProperties DEF Strings
<1>3. PrintedLine(r) = g \o CRLF
  BY DEF PrintedLine
<1>4. LineLen(r) = 1 + 1 + Len(proto) + 3 + Len(host) + 1 + Len(ver) + 2
              + (IF port = <<>> THEN 0 ELSE Len(port) + 1) + Len(path)
  BY DEF LineLen
<1> HIDE DEF proto, host, port, path, ver
<1> HIDE DEF m, s, z, x
<1>5. p \in Strings /\ Len(p) = IF port = <<>> THEN 0 ELSE Len(port) + 1
  <2>1. CASE port = <<>>
    BY <2>1, <1>1, EmptySeq
  <2>2. CASE port # <<>>
    <3>1. z \o port \in Strings /\ Len(z \o port) = Len(z) + Len(port)
      BY <1>1, <1>2, ConcatStrings
    <3> QED BY <1>1, <1>2, <2>2, <3>1
  <2> QED BY <2>1, <2>2
<1> HIDE DEF p
<1>6. a \in Strings /\ Len(a) = Len(m) + Len(proto)
  BY <1>1, <1>2, ConcatStrings
<1> HIDE DEF a
<1>7. b \in Strings /\ Len(b) = Len(a) + Len(s)
  BY <1>1, <1>6, ConcatStrings
<1> HIDE DEF b
<1>8. c \in Strings /\ Len(c) = Len(b) + Len(host)
  BY <1>2, <1>7, ConcatStrings
<1> HIDE DEF c
<1>9. d \in Strings /\ Len(d) = Len(c) + Len(p)
  BY <1>5, <1>8, ConcatStrings
<1> HIDE DEF d
<1>10. e \in Strings /\ Len(e) = Len(d) + Len(path)
  BY <1>2, <1>9, ConcatStrings
<1> HIDE DEF e
<1>11. f \in Strings /\ Len(f) = Len(e) + Len(x)
  BY <1>1, <1>10, ConcatStrings
<1> HIDE DEF f
<1>12. g \in Strings /\ Len(g) = Len(f) + Len(ver)
  BY <1>2, <1>11, ConcatStrings
<1> HIDE DEF g
<1>13. Len(g \o CRLF) = Len(g) + Len(CRLF) /\ Len(CRLF) = 2
  BY <1>12, LineEnd, ConcatStrings
<1>14. Len(g \o CRLF) = 2 + Len(proto) + 3 + Len(host) + Len(p) + Len(path) + 1 + Len(ver) + 2
  <2>1. Len(p) \in Nat
    BY <1>2, <1>5
  <2> QED BY <2>1, <1>1, <1>2, <1>6, <1>7, <1>8, <1>9, <1>10, <1>11, <1>12, <1>13
<1>15. /\ Len(p) \in Nat
       /\ LineLen(r) = 1 + 1 + Len(proto) + 3 + Len(host) + 1 + Len(ver) + 2 + Len(p) + Len(path)
  BY <1>4, <1>2, <1>5
<1> QED BY <1>2, <1>3, <1>14, <1>15

(* What is printed is exactly as long as ParsedRequest_totalLen says.        *)
LEMMA PrintedFits ==
  ASSUME headers \in Seq(Slot), request \in Requests
  PROVE  /\ LineLen(request) \in Nat /\ HeadersLen \in Nat
         /\ Len(PrintedLine(request) \o PrintedHeaders) = TotalLen
<1>1. PrintedLine(request) \in Strings
  BY PrintedLineIsLine
<1>2. PrintedHeaders \in Strings
  BY FlatLines, LineEnd, ConcatStrings DEF PrintedHeaders, WholeLines
<1>3. Len(PrintedLine(request) \o PrintedHeaders) = Len(PrintedLine(request)) + Len(PrintedHeaders)
  BY <1>1, <1>2, ConcatStrings
<1> QED BY <1>3, PrintedLineFits, PrintedHeadersFit DEF TotalLen

-----------------------------------------------------------------------------
(* The strings the table holds, counted by its live slots.                   *)
LEMMA LiveFinite ==
  ASSUME TableOK
  PROVE  IsFiniteSet(Live) /\ Cardinality(Live) \in Nat
<1>1. Live \subseteq 1..Len(headers) /\ Len(headers) \in Nat
  BY DEF TableOK, Live
<1>2. IsFiniteSet(1..Len(headers))
  BY <1>1, FS_Interval
<1>3. IsFiniteSet(Live)
  BY <1>1, <1>2, FS_Subset
<1> QED BY <1>3, FS_CardinalityType

LiveCounted == TableOK => Cardinality(Live) \in Nat

LEMMA LiveIsCounted == LiveCounted /\ LiveCounted'
<1>1. LiveCounted
  BY LiveFinite DEF LiveCounted
<1>2. LiveCounted'
  BY <1>1, PTL
<1> QED BY <1>1, <1>2

(* Clearing a key gives back its slot, if it has one.                        *)
LEMMA ClearedCount ==
  ASSUME TableOK, NEW k \in Keys
  PROVE  /\ IsFiniteSet(LiveIn(Cleared(k)))
         /\ Cardinality(LiveIn(Cleared(k))) = Cardinality(Live) - (IF Missing(k) THEN 0 ELSE 1)
<1> DEFINE L == LiveIn(Cleared(k))
<1>1. L = {i \in Live : headers[i].key # k}
  BY ClearedSlots
<1>2. IsFiniteSet(Live) /\ Cardinality(Live) \in Nat
  BY LiveFinite
<1> HIDE DEF L
<1>3. k # NULL
  BY HeaderTableAssumption
<1>4. CASE Missing(k)
  <2>1. L = Live
    BY <1>1, <1>4 DEF Live, Missing, Holds
  <2> QED BY <1>2, <1>4, <2>1 DEF L
<1>5. CASE ~Missing(k)
  <2>1. PICK i \in DOMAIN headers : headers[i].key = k
    BY <1>5 DEF Missing, Holds
  <2>2. i \in Live
    BY <1>3, <2>1 DEF Live
  <2>3. L = Live \ {i}
    BY <1>1, <2>1, <2>2 DEF TableOK
  <2>4. IsFiniteSet(Live \ {i}) /\ Cardinality(Live \ {i}) = Cardinality(Live) - 1
    BY <1>2, <2>2, FS_RemoveElement
  <2> QED BY <1>5, <2>3, <2>4 DEF L
<1> QED BY <1>4, <1>5

(* Setting a key takes the two strings SetBlocks counts.                     *)
LEMMA AppendedCount ==
  ASSUME TableOK, NEW k \in Keys, NEW v \in Values
  PROVE  2 * Cardinality(LiveIn(Appended(k, v))) = 2 * Cardinality(Live) + SetBlocks(k)
<1> DEFINE L == LiveIn(Cleared(k))
           A == LiveIn(Appended(k, v))
           n == Len(headers) + 1
<1>1. L = {i \in Live : headers[i].key # k}
  BY ClearedSlots
<1>2. A = {i \in Live : headers[i].key # k} \cup {n} /\ n \notin Live
  BY AppendedSlots
<1>3. IsFiniteSet(L) /\ Cardinality(L) = Cardinality(Live) - (IF Missing(k) THEN 0 ELSE 1)
  BY ClearedCount
<1>4. Cardinality(Live) \in Nat
  BY LiveFinite
<1> HIDE DEF L, A, n
<1>5. A = L \cup {n} /\ n \notin L
  BY <1>1, <1>2
<1>6. Cardinality(A) = Cardinality(L) + 1
  BY <1>3, <1>5, FS_AddElement
<1>7. 2 * Cardinality(A) = 2 * Cardinality(Live) + SetBlocks(k)
  BY <1>3, <1>4, <1>6 DEF SetBlocks
<1> QED BY <1>7 DEF A

-----------------------------------------------------------------------------
(* What parsing and printing rely on: the text still to be parsed holds the  *)
(* end of the headers, or begins with it; every text that was printed ends   *)
(* with it, and fills its buffer; and an object that is gone has no headers. *)
TextLeft ==
  /\ pc \in {"line", "headers"} => currentHeader \in Strings
  /\ pc = "line" => Complete(currentHeader)
  /\ pc = "headers" => HeadersEnd(currentHeader) \/ Complete(currentHeader)

WellPrinted(o) ==
  /\ o = [text |-> o.text, buflen |-> o.buflen, request |-> o.request,
          headers |-> o.headers, reparsed |-> o.reparsed]
  /\ o.text \in Strings
  /\ EndsHeaders(o.text)
  /\ Len(o.text) = o.buflen

IInv ==
  /\ TypeOK
  /\ MemoryOwned
  /\ TextLeft
  /\ request # NULL => request \in Requests
  /\ out # NULL => WellPrinted(out)
  /\ pc = "none" => Live = {}

-----------------------------------------------------------------------------
(* The steps, one lemma for each action.                                     *)
LEMMA SameTable ==
  ASSUME TableOK, UNCHANGED tvars
  PROVE  TableOK' /\ Live' = Live /\ lost' = lost /\ headers' = headers
BY DEF tvars, TableOK, Live

LEMMA CreateKeeps ==
  ASSUME IInv, ParsedRequest_create
  PROVE  IInv'
<1>1. TableOK' /\ Live' = Live /\ lost' = lost
  BY SameTable DEF IInv, TypeOK, ParsedRequest_create
<1>2. Live = {} /\ Cardinality(Live) = 0 /\ request = NULL
  <2>1. Live = {} /\ request = NULL
    BY DEF IInv, TypeOK, ParsedRequest_create
  <2> QED BY <2>1, FS_EmptySet
<1>3. TypeOK'
  BY <1>1 DEF IInv, TypeOK, ParsedRequest_create
<1>4. MemoryOwned'
  BY <1>1, <1>2 DEF IInv, MemoryOwned, ParsedRequest_create
<1>5. TextLeft' /\ (request # NULL => request \in Requests)'
        /\ (out # NULL => WellPrinted(out))' /\ (pc = "none" => Live = {})'
  BY DEF IInv, TextLeft, WellPrinted, ParsedRequest_create
<1> QED BY <1>3, <1>4, <1>5 DEF IInv

LEMMA DestroyKeeps ==
  ASSUME IInv, ParsedRequest_destroy
  PROVE  IInv'
<1>1. headers' = <<>> /\ headerslen' = DEFAULT_NHDRS /\ lost' = lost
  BY DEF ParsedRequest_destroy
<1>2. Live' = {} /\ Cardinality(Live') = 0
  <2>1. DOMAIN headers' = {}
    BY <1>1
  <2>2. Live' = {}
    BY <2>1 DEF Live
  <2> QED BY <2>2, FS_EmptySet
<1>3. TableOK'
  <2>1. ~lost /\ ~lost'
    BY <1>1 DEF ParsedRequest_destroy, IInv, TypeOK
  <2>2. headers' \in Seq(Slot) /\ Len(headers') = 0
    BY <1>1
  <2>3. headerslen' \in Nat \ {0, 1} /\ Len(headers') <= headerslen'
    BY <1>1, <2>2, HeaderTableAssumption
  <2> QED BY <1>1, <1>2, <2>1, <2>2, <2>3 DEF IInv, TypeOK, TableOK
<1>4. allocated' = 0
  <2>1. Cardinality(Live) \in Nat /\ ~lost
    BY LiveFinite DEF IInv, TypeOK, ParsedRequest_destroy
  <2>2. allocated = 2 + (IF request = NULL THEN 0 ELSE 2) + 2 * Cardinality(Live)
    BY <2>1 DEF IInv, MemoryOwned, ParsedRequest_destroy
  <2> QED BY <2>1, <2>2 DEF ParsedRequest_destroy, HeldStrings
<1>5. TypeOK' /\ MemoryOwned' /\ TextLeft'
  <2>1. pc' = "none" /\ request' = NULL /\ ~lost
    BY DEF ParsedRequest_destroy, IInv, TypeOK
  <2> QED BY <1>1, <1>2, <1>3, <1>4, <2>1 DEF TypeOK, MemoryOwned, TextLeft
<1>6. (request # NULL => request \in Requests)' /\ (pc = "none" => Live = {})'
  BY <1>2 DEF ParsedRequest_destroy
<1>7. (out # NULL => WellPrinted(out))'
  BY DEF IInv, ParsedRequest_destroy, WellPrinted
<1> QED BY <1>5, <1>6, <1>7 DEF IInv

(* A print-out stays one when the object is said to be parsed from it.       *)
LEMMA ReparsedPrinted ==
  ASSUME out # NULL => WellPrinted(out), NEW t, out' = Reparsed(t)
  PROVE  (out # NULL => WellPrinted(out))'
<1>1. CASE out # NULL /\ t = out.text
  <2>1. WellPrinted(out) /\ out' = [out EXCEPT !.reparsed = TRUE]
    BY <1>1 DEF Reparsed
  <2>2. out' = [text |-> out.text, buflen |-> out.buflen, request |-> out.request,
                headers |-> out.headers, reparsed |-> TRUE]
    BY <2>1 DEF WellPrinted
  <2> QED BY <2>1, <2>2 DEF WellPrinted
<1>2. CASE ~(out # NULL /\ t = out.text)
  BY <1>2 DEF Reparsed
<1> QED BY <1>1, <1>2

LEMMA ParseKeeps ==
  ASSUME IInv, ParseText
  PROVE  IInv'
<1>1. PICK t \in Strings : ParseBegins(t) \/ ParseRefused(t)
  <2>1. CASE \E t \in Texts : ParseBegins(t) \/ ParseRefused(t)
    BY <2>1, ParsedRequestAssumption
  <2>2. CASE out # NULL /\ (ParseBegins(out.text) \/ ParseRefused(out.text))
    BY <2>2 DEF IInv, WellPrinted
  <2> QED BY <2>1, <2>2 DEF ParseText
<1>2. TableOK' /\ Live' = Live /\ lost' = lost
  BY <1>1, SameTable DEF IInv, TypeOK, ParseBegins, ParseRefused
<1>3. (out # NULL => WellPrinted(out))'
  <2>1. out' = Reparsed(t) /\ (out # NULL => WellPrinted(out))
    BY <1>1 DEF ParseBegins, ParseRefused, IInv
  <2> QED BY <2>1, ReparsedPrinted
<1>4. CASE ParseRefused(t)
  <2>1. /\ pc' = pc /\ currentHeader' = currentHeader /\ allocated' = allocated
        /\ request' = request
    BY <1>4 DEF ParseRefused
  <2>2. TypeOK' /\ TextLeft' /\ MemoryOwned'
    BY <1>2, <2>1 DEF IInv, TypeOK, TextLeft, MemoryOwned
  <2>3. (request # NULL => request \in Requests)' /\ (pc = "none" => Live = {})'
    BY <1>2, <2>1 DEF IInv
  <2> QED BY <1>3, <2>2, <2>3 DEF IInv
<1>5. CASE ParseBegins(t)
  <2>1. /\ pc = "created" /\ pc' = "line" /\ currentHeader' = t
        /\ allocated' = allocated + 2 /\ request' = request /\ Complete(t)
    BY <1>5 DEF ParseBegins, Accepted
  <2>2. TypeOK' /\ TextLeft'
    BY <1>2, <2>1 DEF IInv, TypeOK, TextLeft
  <2>3. MemoryOwned'
    BY <1>2, <2>1, LiveFinite DEF IInv, TypeOK, MemoryOwned
  <2>4. (request # NULL => request \in Requests)' /\ (pc = "none" => Live = {})'
    BY <2>1 DEF IInv
  <2> QED BY <1>3, <2>2, <2>3, <2>4 DEF IInv
<1> QED BY <1>1, <1>4, <1>5

LEMMA LineKeeps ==
  ASSUME IInv, ParseLine
  PROVE  IInv'
<1>1. TableOK' /\ Live' = Live /\ lost' = lost
  BY SameTable DEF IInv, TypeOK, ParseLine
<1>2. /\ pc = "line" /\ pc' = "headers" /\ currentHeader' = NextLine(currentHeader)
      /\ allocated' = allocated + 1 /\ out' = out /\ request = NULL
  BY DEF ParseLine, IInv, TypeOK
<1>3. currentHeader \in Strings /\ Complete(currentHeader)
  BY <1>2 DEF IInv, TextLeft
<1>4. request' \in Requests /\ request' # NULL
  <2>1. PICK beyond \in BeyondBuffer : request' = Request(Fields(beyond))
    BY DEF ParseLine
  <2>2. beyond \in Strings
    BY ParsedRequestAssumption
  <2>3. Fields(beyond) = LineFields(SubSeq(currentHeader, 1, Strstr(currentHeader, CRLF) - 1),
                                    beyond)
    BY DEF Fields
  <2>4. SubSeq(currentHeader, 1, Strstr(currentHeader, CRLF) - 1) \in Strings
    BY <1>3, CompleteHasLine, LineIsText
  <2>5. Request(Fields(beyond)) \in Requests
    BY <2>2, <2>3, <2>4, FieldStrings
  <2> QED BY <2>1, <2>5, ParsedRequestAssumption
<1>5. TypeOK'
  BY <1>1, <1>2, <1>4 DEF IInv, TypeOK
<1>6. MemoryOwned'
  BY <1>1, <1>2, <1>4, LiveFinite DEF IInv, TypeOK, MemoryOwned
<1>7. TextLeft'
  BY <1>2, <1>3, NextLineLeft DEF TextLeft
<1>8. (out # NULL => WellPrinted(out))' /\ (pc = "none" => Live = {})'
  BY <1>2 DEF IInv
<1> QED BY <1>4, <1>5, <1>6, <1>7, <1>8 DEF IInv

LEMMA LineFailsKeeps ==
  ASSUME IInv, ParseLineFails
  PROVE  IInv'
<1>1. TableOK' /\ Live' = Live /\ lost' = lost
  BY SameTable DEF IInv, TypeOK, ParseLineFails
<1>2. /\ pc = "line" /\ pc' = "created" /\ allocated' = allocated - 2
      /\ out' = out /\ request' = request /\ request = NULL /\ ~lost
  BY DEF ParseLineFails, IInv, TypeOK, LineBlocks
<1>3. allocated = 4 + 2 * Cardinality(Live) /\ Cardinality(Live) \in Nat
  BY <1>2, LiveFinite DEF IInv, TypeOK, MemoryOwned
<1>4. TypeOK' /\ MemoryOwned' /\ TextLeft'
  BY <1>1, <1>2, <1>3 DEF IInv, TypeOK, MemoryOwned, TextLeft
<1>5. /\ (request # NULL => request \in Requests)'
      /\ (out # NULL => WellPrinted(out))' /\ (pc = "none" => Live = {})'
  BY <1>2 DEF IInv
<1> QED BY <1>4, <1>5 DEF IInv

(* What a set, get or remove of a key does to the table and its strings.     *)
LEMMA SetCounts ==
  ASSUME TableOK, NEW k \in Keys, NEW v \in Values, ParsedHeader_set(k, v)
  PROVE  TableOK' /\ 2 * Cardinality(Live') = 2 * Cardinality(Live) + SetBlocks(k)
<1>1. TableOK'
  BY SetKeepsTable
<1>2. headers' = Appended(k, v)
  BY DEF ParsedHeader_set, Appended
<1>3. LiveIn(headers') = LiveIn(Appended(k, v))
  BY <1>2
<1>4. Live' = LiveIn(Appended(k, v))
  BY <1>3, OfHeaders
<1> QED BY <1>1, <1>4, AppendedCount

LEMMA RemoveCounts ==
  ASSUME TableOK, NEW k \in Keys, ParsedHeader_remove(k)
  PROVE  /\ TableOK'
         /\ 2 * Cardinality(Live') = 2 * Cardinality(Live) - ClearBlocks(k)
<1>1. TableOK'
  BY TableInductive DEF TableNext
<1>2. headers' = Cleared(k)
  BY DEF ParsedHeader_remove
<1>3. LiveIn(headers') = LiveIn(Cleared(k))
  BY <1>2
<1>4. Live' = LiveIn(Cleared(k))
  BY <1>3, OfHeaders
<1>5. Cardinality(Live') = Cardinality(Live) - (IF Missing(k) THEN 0 ELSE 1)
  BY <1>4, ClearedCount
<1> QED BY <1>1, <1>5, LiveFinite DEF ClearBlocks

LEMMA NoMemoryCounts ==
  ASSUME TableOK, NEW k \in Keys, NEW v \in Values, SetNoMemory(k, v)
  PROVE  /\ TableOK'
         /\ 2 * Cardinality(Live') = 2 * Cardinality(Live) - ClearBlocks(k)
<1>1. TableOK'
  BY TableInductive DEF TableNext
<1>2. headers' = Cleared(k)
  BY DEF SetNoMemory
<1>3. LiveIn(headers') = LiveIn(Cleared(k))
  BY <1>2
<1>4. Live' = LiveIn(Cleared(k))
  BY <1>3, OfHeaders
<1>5. Cardinality(Live') = Cardinality(Live) - (IF Missing(k) THEN 0 ELSE 1)
  BY <1>4, ClearedCount
<1> QED BY <1>1, <1>5, LiveFinite DEF ClearBlocks

(* A set that has memory, or none for the array, changes the blocks and the  *)
(* live slots alike.                                                         *)
LEMMA SetBalances ==
  ASSUME TableOK, allocated \in Nat, NEW k \in Keys, NEW v \in Values, NEW b \in Nat,
         \/ ParsedHeader_set(k, v) /\ allocated' = allocated + SetBlocks(k)
         \/ SetNoMemory(k, v) /\ allocated' = allocated - ClearBlocks(k),
         allocated = b + 2 * Cardinality(Live)
  PROVE  TableOK' /\ allocated' = b + 2 * Cardinality(Live') /\ allocated' \in Nat
<1>1. TableOK' /\ Cardinality(Live) \in Nat /\ Cardinality(Live') \in Nat
  BY SetCounts, NoMemoryCounts, LiveIsCounted DEF LiveCounted
<1>2. \/ 2 * Cardinality(Live') = 2 * Cardinality(Live) + SetBlocks(k)
         /\ allocated' = allocated + SetBlocks(k)
      \/ 2 * Cardinality(Live') = 2 * Cardinality(Live) - ClearBlocks(k)
         /\ allocated' = allocated - ClearBlocks(k)
  BY SetCounts, NoMemoryCounts
<1>3. SetBlocks(k) \in Nat /\ ClearBlocks(k) \in Nat
  BY DEF SetBlocks, ClearBlocks
<1> QED BY <1>1, <1>2, <1>3

LEMMA HeaderKeeps ==
  ASSUME IInv, ParseHeader
  PROVE  IInv'
<1>1. PICK beyond \in BeyondBuffer :
        /\ HasValue(currentHeader, beyond)
        /\ \/ /\ ParsedHeader_set(HeaderKey(currentHeader), HeaderValue(currentHeader, beyond))
              /\ allocated' = allocated + SetBlocks(HeaderKey(currentHeader))
           \/ /\ SetNoMemory(HeaderKey(currentHeader), HeaderValue(currentHeader, beyond))
              /\ allocated' = allocated - ClearBlocks(HeaderKey(currentHeader))
  BY DEF ParseHeader
<1>2. /\ pc = "headers" /\ pc' = pc /\ currentHeader' = NextLine(currentHeader)
      /\ request' = request /\ out' = out
      /\ ~HeadersEnd(currentHeader) /\ HasColon(currentHeader)
  BY DEF ParseHeader, AtHeader
<1>3. currentHeader \in Strings /\ Complete(currentHeader)
  BY <1>2 DEF IInv, TextLeft
<1> DEFINE k == HeaderKey(currentHeader)
           v == HeaderValue(currentHeader, beyond)
<1>4. k \in Keys /\ v \in Values
  BY <1>1, <1>2, <1>3, HeaderStrings, ParsedRequestAssumption
<1> HIDE DEF k, v
<1>5. /\ \/ ParsedHeader_set(k, v) /\ allocated' = allocated + SetBlocks(k)
         \/ SetNoMemory(k, v) /\ allocated' = allocated - ClearBlocks(k)
  BY <1>1 DEF k, v
<1>6. TableOK /\ allocated \in Nat /\ allocated = 5 + 2 * Cardinality(Live) /\ request # NULL
  <2>1. Cardinality(Live) \in Nat
    BY LiveFinite DEF IInv, TypeOK
  <2> QED BY <1>2, <2>1 DEF IInv, TypeOK, MemoryOwned
<1>7. TableOK' /\ allocated' = 5 + 2 * Cardinality(Live') /\ allocated' \in Nat
  BY <1>4, <1>5, <1>6, SetBalances
<1>8. TypeOK'
  BY <1>2, <1>7 DEF IInv, TypeOK
<1>9. MemoryOwned'
  <2>1. Cardinality(Live') \in Nat
    BY <1>7, LiveIsCounted DEF LiveCounted
  <2> QED BY <1>2, <1>6, <1>7, <2>1 DEF MemoryOwned
<1>10. TextLeft'
  BY <1>2, <1>3, NextLineLeft DEF TextLeft
<1>11. /\ (request # NULL => request \in Requests)'
       /\ (out # NULL => WellPrinted(out))' /\ (pc = "none" => Live = {})'
  BY <1>2 DEF IInv
<1> QED BY <1>8, <1>9, <1>10, <1>11 DEF IInv

(* A crash keeps everything but the place.                                   *)
LEMMA CrashKeeps ==
  ASSUME IInv, ParseCrashes \/ CallCrashes
  PROVE  IInv'
<1>1. TableOK' /\ Live' = Live /\ lost' = lost
  BY SameTable DEF IInv, TypeOK, ParseCrashes, CallCrashes
<1>2. /\ pc' = "crashed" /\ pc \notin {"none", "created", "line"}
      /\ allocated' = allocated /\ request' = request /\ out' = out
  BY DEF ParseCrashes, CallCrashes, AtHeader
<1>3. TypeOK' /\ MemoryOwned' /\ TextLeft'
  BY <1>1, <1>2 DEF IInv, TypeOK, MemoryOwned, TextLeft
<1>4. /\ (request # NULL => request \in Requests)'
      /\ (out # NULL => WellPrinted(out))' /\ (pc = "none" => Live = {})'
  BY <1>2 DEF IInv
<1> QED BY <1>3, <1>4 DEF IInv

LEMMA EndsKeeps ==
  ASSUME IInv, ParseEnds
  PROVE  IInv'
<1>1. TableOK' /\ Live' = Live /\ lost' = lost
  BY SameTable DEF IInv, TypeOK, ParseEnds
<1>2. /\ pc = "headers" /\ pc' \in {"parsed", "refused"} /\ allocated' = allocated - 1
      /\ out' = out /\ request' = request /\ request # NULL
  BY DEF ParseEnds, IInv, TypeOK
<1>3. allocated = 5 + 2 * Cardinality(Live) /\ Cardinality(Live) \in Nat
  BY <1>2, LiveFinite DEF IInv, TypeOK, MemoryOwned
<1>4. TypeOK' /\ MemoryOwned' /\ TextLeft'
  BY <1>1, <1>2, <1>3 DEF IInv, TypeOK, MemoryOwned, TextLeft
<1>5. /\ (request # NULL => request \in Requests)'
      /\ (out # NULL => WellPrinted(out))' /\ (pc = "none" => Live = {})'
  BY <1>2 DEF IInv
<1> QED BY <1>4, <1>5 DEF IInv

LEMMA SetHeaderKeeps ==
  ASSUME IInv, NEW k \in SetKeys, NEW v \in SetValues, SetHeader(k, v)
  PROVE  IInv'
<1>1. k \in Keys /\ v \in Values
  BY ParsedRequestAssumption
<1>2. /\ pc = "parsed" /\ pc' = pc /\ out' = NULL /\ request' = request /\ request # NULL
      /\ \/ ParsedHeader_set(k, v) /\ allocated' = allocated + SetBlocks(k)
         \/ SetNoMemory(k, v) /\ allocated' = allocated - ClearBlocks(k)
  BY DEF SetHeader, IInv, TypeOK
<1>3. TableOK /\ allocated \in Nat /\ allocated = 4 + 2 * Cardinality(Live)
  <2>1. Cardinality(Live) \in Nat
    BY LiveFinite DEF IInv, TypeOK
  <2> QED BY <1>2, <2>1 DEF IInv, TypeOK, MemoryOwned
<1>4. TableOK' /\ allocated' = 4 + 2 * Cardinality(Live') /\ allocated' \in Nat
  BY <1>1, <1>2, <1>3, SetBalances
<1>5. TypeOK'
  BY <1>2, <1>4 DEF IInv, TypeOK
<1>6. MemoryOwned'
  <2>1. Cardinality(Live') \in Nat
    BY <1>4, LiveIsCounted DEF LiveCounted
  <2> QED BY <1>2, <1>4, <2>1 DEF MemoryOwned
<1>7. TextLeft' /\ (request # NULL => request \in Requests)'
      /\ (out # NULL => WellPrinted(out))' /\ (pc = "none" => Live = {})'
  BY <1>2 DEF IInv, TextLeft
<1> QED BY <1>5, <1>6, <1>7 DEF IInv

LEMMA GetHeaderKeeps ==
  ASSUME IInv, NEW k \in SetKeys, GetHeader(k)
  PROVE  IInv'
<1>1. k \in Keys
  BY ParsedRequestAssumption
<1>2. TableOK'
  BY <1>1, TableInductive DEF TableNext, IInv, TypeOK, GetHeader
<1>3. headers' = headers /\ lost' = lost
  BY DEF GetHeader, ParsedHeader_get
<1>4. Live' = Live
  BY <1>3 DEF Live
<1>5. pc' = pc /\ currentHeader' = currentHeader /\ request' = request
      /\ allocated' = allocated /\ out' = out
  BY DEF GetHeader, rvars
<1>6. TypeOK' /\ MemoryOwned' /\ TextLeft'
  BY <1>2, <1>3, <1>4, <1>5 DEF IInv, TypeOK, MemoryOwned, TextLeft
<1>7. /\ (request # NULL => request \in Requests)'
      /\ (out # NULL => WellPrinted(out))' /\ (pc = "none" => Live = {})'
  BY <1>4, <1>5 DEF IInv
<1> QED BY <1>6, <1>7 DEF IInv

LEMMA RemoveHeaderKeeps ==
  ASSUME IInv, NEW k \in SetKeys, RemoveHeader(k)
  PROVE  IInv'
<1>1. k \in Keys
  BY ParsedRequestAssumption
<1>2. /\ pc = "parsed" /\ pc' = pc /\ out' = NULL /\ request' = request /\ request # NULL
      /\ allocated' = allocated - ClearBlocks(k) /\ ClearBlocks(k) \in Nat
      /\ ~lost /\ lost' = lost
  BY DEF RemoveHeader, ParsedHeader_remove, ClearBlocks, IInv, TypeOK
<1>3. /\ TableOK'
      /\ 2 * Cardinality(Live') = 2 * Cardinality(Live) - ClearBlocks(k)
  BY <1>1, RemoveCounts DEF RemoveHeader, IInv, TypeOK
<1>4. Cardinality(Live) \in Nat /\ Cardinality(Live') \in Nat
  BY <1>3, LiveIsCounted DEF IInv, TypeOK, LiveCounted
<1>5. allocated = 4 + 2 * Cardinality(Live) /\ allocated' = 4 + 2 * Cardinality(Live')
  BY <1>2, <1>3, <1>4 DEF IInv, MemoryOwned
<1>6. TypeOK' /\ MemoryOwned' /\ TextLeft'
  BY <1>2, <1>3, <1>4, <1>5 DEF IInv, TypeOK, MemoryOwned, TextLeft
<1>7. /\ (request # NULL => request \in Requests)'
      /\ (out # NULL => WellPrinted(out))' /\ (pc = "none" => Live = {})'
  BY <1>2 DEF IInv
<1> QED BY <1>6, <1>7 DEF IInv

LEMMA UnparseKeeps ==
  ASSUME IInv, Unparse
  PROVE  IInv'
<1>1. TableOK' /\ Live' = Live /\ lost' = lost
  BY SameTable DEF IInv, TypeOK, Unparse
<1>2. /\ pc = "parsed" /\ pc' = pc /\ request' = request /\ allocated' = allocated
      /\ currentHeader' = currentHeader /\ request \in Requests
  BY DEF Unparse, IInv, TypeOK
<1>3. WellPrinted(out')
  <2>1. PICK buflen \in {TotalLen - 1, TotalLen} :
          /\ LineLen(request) <= buflen /\ HeadersLen <= buflen - LineLen(request)
          /\ out' = [text |-> PrintedLine(request) \o PrintedHeaders, buflen |-> buflen,
                     request |-> request, headers |-> LiveHeaders, reparsed |-> FALSE]
    BY DEF Unparse
  <2>2. headers \in Seq(Slot)
    BY DEF IInv, TypeOK, TableOK
  <2>3. /\ PrintedLine(request) \o PrintedHeaders \in Strings
        /\ EndsHeaders(PrintedLine(request) \o PrintedHeaders)
    BY <1>2, <2>2, PrintedText
  <2>4. /\ LineLen(request) \in Nat /\ HeadersLen \in Nat
        /\ Len(PrintedLine(request) \o PrintedHeaders) = TotalLen
    BY <1>2, <2>2, PrintedFits
  <2>5. buflen = TotalLen
    BY <2>1, <2>4 DEF TotalLen
  <2> QED BY <2>1, <2>3, <2>4, <2>5 DEF WellPrinted
<1>4. TypeOK' /\ MemoryOwned' /\ TextLeft'
  BY <1>1, <1>2 DEF IInv, TypeOK, MemoryOwned, TextLeft
<1>5. /\ (request # NULL => request \in Requests)'
      /\ (out # NULL => WellPrinted(out))' /\ (pc = "none" => Live = {})'
  BY <1>1, <1>2, <1>3 DEF IInv, WellPrinted
<1> QED BY <1>4, <1>5 DEF IInv

-----------------------------------------------------------------------------
LEMMA InitHolds == Init => IInv
<1> SUFFICES ASSUME Init
             PROVE  IInv
  OBVIOUS
<1>1. TableOK /\ Live = {} /\ Cardinality(Live) = 0
  <2>1. TableOK
    BY EmptyTable DEF Init
  <2>2. DOMAIN headers = {}
    BY DEF Init, Empty
  <2>3. Live = {}
    BY <2>2 DEF Live
  <2> QED BY <2>1, <2>3, FS_EmptySet
<1> QED BY <1>1 DEF Init, Empty, IInv, TypeOK, MemoryOwned, TextLeft

LEMMA StepKeeps == IInv /\ [Next]_vars => IInv'
<1> SUFFICES ASSUME IInv, [Next]_vars
             PROVE  IInv'
  OBVIOUS
<1>1. CASE UNCHANGED vars
  <2>1. TableOK' /\ Live' = Live /\ lost' = lost
    BY <1>1, SameTable DEF vars, IInv, TypeOK
  <2>2. pc' = pc /\ currentHeader' = currentHeader /\ request' = request
        /\ allocated' = allocated /\ out' = out
    BY <1>1 DEF vars, rvars
  <2> QED BY <2>1, <2>2 DEF IInv, TypeOK, MemoryOwned, TextLeft, WellPrinted
<1>2. CASE ParsedRequest_create \/ ParsedRequest_destroy
  BY <1>2, CreateKeeps, DestroyKeeps
<1>3. CASE ParseText \/ ParseLine \/ ParseLineFails
  BY <1>3, ParseKeeps, LineKeeps, LineFailsKeeps
<1>4. CASE ParseHeader \/ ParseCrashes \/ ParseEnds
  BY <1>4, HeaderKeeps, CrashKeeps, EndsKeeps
<1>5. ASSUME NEW k \in SetKeys,
             (\E v \in SetValues : SetHeader(k, v)) \/ GetHeader(k) \/ RemoveHeader(k)
      PROVE  IInv'
  BY <1>5, SetHeaderKeeps, GetHeaderKeeps, RemoveHeaderKeeps
<1>6. CASE Unparse \/ CallCrashes
  BY <1>6, UnparseKeeps, CrashKeeps
<1> QED BY <1>1, <1>2, <1>3, <1>4, <1>5, <1>6 DEF Next

(* The invariant above holds in every reachable state.                       *)
THEOREM Inductive == Spec => []IInv
BY InitHolds, StepKeeps, PTL DEF Spec

(* The header table stays within its array whatever is parsed, and the       *)
(* object has a request line exactly after one was accepted.                 *)
THEOREM TypeCorrect == Spec => []TypeOK
<1>1. IInv => TypeOK
  BY DEF IInv
<1> QED BY <1>1, Inductive, PTL

(* No path of ParsedRequest_parse, ParsedHeader_set, ParsedHeader_remove or  *)
(* ParsedRequest_destroy leaks a block or frees one twice.                   *)
THEOREM NothingLeaked == Spec => []MemoryOwned
<1>1. IInv => MemoryOwned
  BY DEF IInv
<1> QED BY <1>1, Inductive, PTL

(* "Recreate the entire buffer from a parsed request object": the text that  *)
(* ParsedRequest_unparse printed fills exactly the length that               *)
(* ParsedRequest_totalLen had asked for, and it ends with the end of the     *)
(* headers, so that ParsedRequest_parse does not refuse it for its form.     *)
PrintedWhole ==
  out # NULL => Len(out.text) = out.buflen /\ out.text \in Strings /\ EndsHeaders(out.text)

THEOREM PrintingFillsBuffer == Spec => []PrintedWhole
<1>1. IInv => PrintedWhole
  BY DEF IInv, WellPrinted, PrintedWhole
<1> QED BY <1>1, Inductive, PTL

-----------------------------------------------------------------------------
(* Destroying the object gives up the map; its other steps are calls on the  *)
(* table, or leave it alone.                                                 *)
LEMMA DestroyRenews ==
  ASSUME ParsedRequest_destroy
  PROVE  HM!Renew
<1>1. headers' = <<>> /\ call' = NULL /\ result' = NULL
  BY DEF ParsedRequest_destroy
<1>2. KeysIn(headers') = {}
  <2>1. DOMAIN headers' = {}
    BY <1>1
  <2> QED BY <2>1 DEF KeysIn, LiveIn
<1>3. MapOf(headers') = [k \in {} |-> NULL]
  BY <1>2 DEF MapOf
<1> QED BY <1>1, <1>3, OfHeaders DEF HM!Renew

LEMMA StepImplementsMap == IInv /\ [Next]_vars => [HM!Next]_(HM!vars)
<1> SUFFICES ASSUME IInv, [Next]_vars
             PROVE  [HM!Next]_(HM!vars)
  OBVIOUS
<1>1. TableOK
  BY DEF IInv, TypeOK
<1>2. CASE [TableNext]_tvars
  BY <1>1, <1>2, NextImplementsMap
<1>3. CASE ParsedRequest_destroy
  BY <1>3, DestroyRenews DEF HM!Next
<1>4. CASE \/ ParsedRequest_create \/ ParseLine \/ ParseLineFails \/ ParseEnds \/ Unparse
           \/ ParseCrashes \/ CallCrashes
  BY <1>2, <1>4 DEF ParsedRequest_create, ParseLine, ParseLineFails, ParseEnds, Unparse,
                    ParseCrashes, CallCrashes
<1>5. CASE ParseText
  BY <1>2, <1>5 DEF ParseText, ParseBegins, ParseRefused
<1>6. CASE ParseHeader
  <2>1. PICK beyond \in BeyondBuffer :
          /\ HasValue(currentHeader, beyond)
          /\ \/ ParsedHeader_set(HeaderKey(currentHeader), HeaderValue(currentHeader, beyond))
             \/ SetNoMemory(HeaderKey(currentHeader), HeaderValue(currentHeader, beyond))
    BY <1>6 DEF ParseHeader
  <2>2. currentHeader \in Strings /\ HasColon(currentHeader)
    BY <1>6 DEF ParseHeader, AtHeader, IInv, TextLeft
  <2>3. HeaderKey(currentHeader) \in Keys /\ HeaderValue(currentHeader, beyond) \in Values
    BY <2>1, <2>2, HeaderStrings, ParsedRequestAssumption
  <2> QED BY <1>2, <2>1, <2>3 DEF TableNext
<1>7. ASSUME NEW k \in SetKeys,
             (\E v \in SetValues : SetHeader(k, v)) \/ GetHeader(k) \/ RemoveHeader(k)
      PROVE  [HM!Next]_(HM!vars)
  <2>1. k \in Keys /\ SetValues \subseteq Values
    BY ParsedRequestAssumption
  <2>2. TableNext
    BY <1>7, <2>1 DEF SetHeader, GetHeader, RemoveHeader, TableNext
  <2> QED BY <1>2, <2>2
<1>8. CASE UNCHANGED vars
  BY <1>2, <1>8 DEF vars
<1> QED BY <1>3, <1>4, <1>5, <1>6, <1>7, <1>8 DEF Next

(* The headers of a request behave as that map through its whole life: what  *)
(* its header lines set while it is parsed, what callers set, get and remove *)
(* after that, and nothing is left of it in the next request.                *)
THEOREM RequestImplementsMap == Spec => ImplementsHeaderMap
<1>1. Init => HM!Init
  BY EmptyIsInit DEF Init
<1> QED BY <1>1, StepImplementsMap, Inductive, PTL DEF Spec, ImplementsHeaderMap, HM!Spec

-----------------------------------------------------------------------------
(* What the text of a field can hold: no symbol of a set, no end of a line.  *)
Without(s, S) == \A i \in 1..Len(s) : s[i] \notin S

OneLine(s) == \A i \in 1..(Len(s) - 1) : ~(s[i] = "cr" /\ s[i + 1] = "lf")

(* The substrings of a text inherit both.                                    *)
LEMMA SubStringInherits ==
  ASSUME NEW s \in Strings, NEW m \in Nat \ {0}, NEW n \in Int, n <= Len(s)
  PROVE  /\ SubSeq(s, m, n) \in Strings
         /\ \A S : Without(s, S) => Without(SubSeq(s, m, n), S)
         /\ OneLine(s) => OneLine(SubSeq(s, m, n))
<1> DEFINE t == SubSeq(s, m, n)
<1>1. /\ t \in Strings /\ Len(t) = IF m <= n THEN n - m + 1 ELSE 0
      /\ \A i \in 1..(n - m + 1) : t[i] = s[m + i - 1]
  BY SubString
<1>2. Len(s) \in Nat
  BY LenProperties DEF Strings
<1> HIDE DEF t
<1>3. ASSUME NEW i \in 1..Len(t)
      PROVE  m + i - 1 \in 1..Len(s) /\ t[i] = s[m + i - 1]
  BY <1>1, <1>2
<1>4. \A S : Without(s, S) => Without(t, S)
  BY <1>3 DEF Without
<1>5. ASSUME OneLine(s), NEW i \in 1..(Len(t) - 1)
      PROVE  ~(t[i] = "cr" /\ t[i + 1] = "lf")
  <2>1. i \in 1..Len(t) /\ i + 1 \in 1..Len(t) /\ m + (i + 1) - 1 = (m + i - 1) + 1
    BY <1>1, <1>2
  <2>2. m + i - 1 \in 1..(Len(s) - 1) /\ t[i] = s[m + i - 1] /\ t[i + 1] = s[(m + i - 1) + 1]
    <3>1. m + (i + 1) - 1 \in 1..Len(s) /\ t[i + 1] = s[m + (i + 1) - 1]
      BY <2>1, <1>3
    <3>2. m + i - 1 \in 1..Len(s) /\ t[i] = s[m + i - 1]
      BY <2>1, <1>3
    <3>3. m + i - 1 \in 1..(Len(s) - 1)
      BY <3>1, <3>2, <1>2
    <3> QED BY <2>1, <3>1, <3>2, <3>3
  <2> QED BY <1>5, <2>2 DEF OneLine
<1> QED BY <1>1, <1>4, <1>5 DEF OneLine, t

(* Texts one behind the other.                                               *)
LEMMA ConcatWithout ==
  ASSUME NEW s \in Strings, NEW t \in Strings, NEW S, Without(s, S), Without(t, S)
  PROVE  Without(s \o t, S)
<1>1. Len(s) \in Nat /\ Len(t) \in Nat
  BY LenProperties DEF Strings
<1>2. /\ Len(s \o t) = Len(s) + Len(t)
      /\ \A i \in 1..(Len(s) + Len(t)) :
           (s \o t)[i] = IF i <= Len(s) THEN s[i] ELSE t[i - Len(s)]
  BY ConcatProperties DEF Strings
<1>3. ASSUME NEW i \in 1..(Len(s) + Len(t))
      PROVE  (s \o t)[i] \notin S
  <2>1. CASE i <= Len(s)
    BY <1>1, <1>2, <2>1 DEF Without
  <2>2. CASE ~(i <= Len(s))
    <3>1. i - Len(s) \in 1..Len(t)
      BY <1>1, <2>2
    <3> QED BY <1>2, <2>2, <3>1 DEF Without
  <2> QED BY <2>1, <2>2
<1> QED BY <1>2, <1>3 DEF Without

(* A line put behind another is one line unless a line end lies across them. *)
LEMMA ConcatOneLine ==
  ASSUME NEW s \in Strings, NEW t \in Strings, OneLine(s), OneLine(t),
         s # <<>> /\ t # <<>> => s[Len(s)] # "cr" \/ t[1] # "lf"
  PROVE  OneLine(s \o t)
<1> DEFINE a == Len(s)
           b == Len(t)
           r == s \o t
<1>1. a \in Nat /\ b \in Nat
  BY LenProperties DEF Strings
<1>2. /\ Len(r) = a + b
      /\ \A i \in 1..a : r[i] = s[i]
      /\ \A i \in 1..b : r[a + i] = t[i]
  BY ConcatStrings
<1>0. a > 0 /\ b > 0 => s[a] # "cr" \/ t[1] # "lf"
  <2>1. (s = <<>> => Len(s) = 0) /\ (t = <<>> => Len(t) = 0)
    OBVIOUS
  <2> QED BY <2>1
<1>s. \A i \in 1..(a - 1) : ~(s[i] = "cr" /\ s[i + 1] = "lf")
  BY DEF OneLine
<1>t. \A i \in 1..(b - 1) : ~(t[i] = "cr" /\ t[i + 1] = "lf")
  BY DEF OneLine
<1> HIDE DEF a, b, r
<1>3. ASSUME NEW i \in 1..(a + b - 1)
      PROVE  ~(r[i] = "cr" /\ r[i + 1] = "lf")
  <2>1. CASE i < a
    <3>1. i \in 1..(a - 1) /\ i \in 1..a /\ i + 1 \in 1..a
      BY <1>1, <2>1
    <3> QED BY <1>2, <1>s, <3>1
  <2>2. CASE i = a
    <3>1. a > 0 /\ b > 0 /\ 1 \in 1..b /\ a + 1 = i + 1 /\ i \in 1..a
      BY <1>1, <2>2
    <3>2. r[i + 1] = t[1] /\ r[i] = s[a]
      BY <3>1, <1>2, <2>2
    <3> QED BY <1>0, <3>1, <3>2
  <2>3. CASE i > a
    <3> DEFINE j == i - a
    <3>1. j \in 1..(b - 1) /\ j \in 1..b /\ j + 1 \in 1..b /\ a + j = i /\ a + (j + 1) = i + 1
      BY <1>1, <2>3
    <3> HIDE DEF j
    <3>2. r[a + j] = t[j] /\ r[a + (j + 1)] = t[j + 1]
      BY <1>2, <3>1
    <3> QED BY <1>t, <3>1, <3>2
  <2> QED BY <1>1, <2>1, <2>2, <2>3
<1> QED BY <1>2, <1>3 DEF r, OneLine

(* A text behind another, and the text before it.                            *)
LEMMA ConcatSubStrings ==
  ASSUME NEW s \in Strings, NEW t \in Strings
  PROVE  /\ SubSeq(s \o t, 1, Len(s)) = s
         /\ From(s \o t, Len(s) + 1) = t
         /\ \A i \in 1..(Len(s) + 1) : From(s \o t, i) = From(s, i) \o t
<1> DEFINE a == Len(s)
           b == Len(t)
           r == s \o t
<1>1. a \in Nat /\ b \in Nat
  BY LenProperties DEF Strings
<1>2. /\ r \in Strings /\ Len(r) = a + b
      /\ \A i \in 1..a : r[i] = s[i]
      /\ \A i \in 1..b : r[a + i] = t[i]
  BY ConcatStrings
<1>3. SubSeq(r, 1, a) = s
  <2>1. /\ SubSeq(r, 1, a) \in Strings
        /\ Len(SubSeq(r, 1, a)) = IF 1 <= a THEN a - 1 + 1 ELSE 0
        /\ \A i \in 1..(a - 1 + 1) : SubSeq(r, 1, a)[i] = r[1 + i - 1]
    <3>1. 1 \in Nat \ {0} /\ a \in Int /\ a <= Len(r)
      <4> HIDE DEF a, b
      <4> QED BY <1>1, <1>2
    <3> QED BY <1>2, <3>1, SubString
  <2> HIDE DEF r, a, b
  <2>2. Len(SubSeq(r, 1, a)) = a
    BY <1>1, <2>1
  <2>3. \A i \in 1..a : SubSeq(r, 1, a)[i] = s[i]
    <3>1. \A i \in 1..a : i \in 1..(a - 1 + 1) /\ 1 + i - 1 = i
      BY <1>1
    <3> QED BY <1>2, <2>1, <3>1
  <2> QED BY <2>1, <2>2, <2>3, SeqEqual DEF Strings, a
<1>4. ASSUME NEW i \in 1..(a + 1)
      PROVE  From(r, i) = From(s, i) \o t
  <2> DEFINE u == SubSeq(s, i, a)
             v == SubSeq(r, i, a + b)
  <2>1. /\ u \in Strings /\ Len(u) = IF i <= a THEN a - i + 1 ELSE 0
        /\ \A j \in 1..(a - i + 1) : u[j] = s[i + j - 1]
    BY <1>1, SubString
  <2>2. /\ v \in Strings /\ Len(v) = IF i <= a + b THEN (a + b) - i + 1 ELSE 0
        /\ \A j \in 1..((a + b) - i + 1) : v[j] = r[i + j - 1]
    <3>1. i \in Nat \ {0} /\ a + b \in Int /\ a + b <= Len(r)
      <4> HIDE DEF a, b, r
      <4> QED BY <1>1, <1>2
    <3> HIDE DEF a, b, r
    <3> QED BY <1>2, <3>1, SubString
  <2>3. /\ u \o t \in Strings /\ Len(u \o t) = Len(u) + b
        /\ \A j \in 1..Len(u) : (u \o t)[j] = u[j]
        /\ \A j \in 1..b : (u \o t)[Len(u) + j] = t[j]
    BY <2>1, ConcatStrings
  <2>f. From(r, i) = v /\ From(s, i) = u
    BY <1>2 DEF From
  <2> HIDE DEF u, v, a, b, r
  <2>4. Len(u) = a - i + 1 /\ Len(v) = a + b - i + 1 /\ Len(u) + b = a + b - i + 1
    BY <1>1, <2>1, <2>2
  <2>5. ASSUME NEW j \in 1..Len(v)
        PROVE  v[j] = (u \o t)[j]
    <3>1. CASE j <= Len(u)
      <4>1. j \in 1..Len(u) /\ j \in 1..(a - i + 1) /\ i + j - 1 \in 1..a
            /\ j \in 1..((a + b) - i + 1)
        BY <1>1, <2>4, <3>1
      <4> QED BY <1>2, <2>1, <2>2, <2>3, <4>1
    <3>2. CASE j > Len(u)
      <4> DEFINE k == j - Len(u)
      <4>1. k \in 1..b /\ Len(u) + k = j /\ i + j - 1 = a + k /\ j \in 1..((a + b) - i + 1)
        BY <1>1, <2>4, <3>2
      <4> HIDE DEF k
      <4>2. (u \o t)[j] = t[k]
        BY <2>3, <4>1
      <4>3. v[j] = r[a + k]
        BY <2>2, <4>1
      <4> QED BY <1>2, <4>1, <4>2, <4>3
    <3>3. j \in Nat /\ Len(u) \in Nat
      <4>1. Len(v) \in Nat /\ Len(u) \in Nat
        BY <2>1, <2>2, LenProperties DEF Strings
      <4> QED BY <4>1
    <3>4. j <= Len(u) \/ j > Len(u)
      BY <3>3
    <3> QED BY <3>1, <3>2, <3>4
  <2>6. v = u \o t
    <3>1. v \in Seq(Symbols) /\ u \o t \in Seq(Symbols) /\ Len(v) = Len(u \o t)
      BY <2>2, <2>3, <2>4 DEF Strings
    <3> QED BY <2>5, <3>1, SeqEqual
  <2> QED BY <2>6, <2>f
<1>5. From(r, a + 1) = t
  <2>1. a + 1 \in 1..(a + 1)
    BY <1>1
  <2>2. From(s, a + 1) = <<>>
    <3>1. a + 1 > a
      BY <1>1
    <3>2. SubSeq(s, a + 1, a) = <<>>
      BY <1>1, <3>1, SubSeqEmpty
    <3> QED BY <3>2 DEF From
  <2> HIDE DEF a, r
  <2>3. From(r, a + 1) = <<>> \o t
    BY <1>4, <2>1, <2>2
  <2>4. <<>> \o t = t
    BY ConcatEmptySeq DEF Strings
  <2> QED BY <2>3, <2>4
<1> QED BY <1>3, <1>4, <1>5

-----------------------------------------------------------------------------
(* The first place where something is found.                                 *)
LEMMA MinIs ==
  ASSUME NEW A, A \subseteq Nat, NEW n \in A, \A x \in A : n <= x
  PROVE  Min(A) = n
<1>1. Min(A) \in A /\ Min(A) <= n /\ n <= Min(A)
  BY MinLeast
<1> DEFINE m == Min(A)
<1>2. m \in Nat /\ n \in Nat /\ m <= n /\ n <= m
  BY <1>1
<1> HIDE DEF m
<1>3. m = n
  BY <1>2
<1> QED BY <1>3 DEF m

(* The first symbol of a set, and that there is none.                        *)
LEMMA IndexAt ==
  ASSUME NEW s, Len(s) \in Nat, NEW S, NEW i \in Nat \ {0}, NEW n \in i..Len(s), s[n] \in S,
         \A j \in i..(n - 1) : s[j] \notin S
  PROVE  IndexOf(s, i, S) = n
<1> DEFINE A == {j \in i..Len(s) : s[j] \in S} \cup {Len(s) + 1}
<1>1. A \subseteq Nat /\ n \in A
  OBVIOUS
<1>2. ASSUME NEW x \in A
      PROVE  n <= x
  <2>1. CASE x = Len(s) + 1
    BY <2>1
  <2>2. CASE x \in i..Len(s) /\ s[x] \in S
    BY <2>2
  <2> QED BY <2>1, <2>2
<1>3. IndexOf(s, i, S) = Min(A)
  BY DEF IndexOf
<1> HIDE DEF A
<1> QED BY <1>1, <1>2, <1>3, MinIs

LEMMA IndexNone ==
  ASSUME NEW s, Len(s) \in Nat, NEW S, NEW i \in Nat \ {0}, \A j \in i..Len(s) : s[j] \notin S
  PROVE  IndexOf(s, i, S) = Len(s) + 1
<1> DEFINE A == {j \in i..Len(s) : s[j] \in S} \cup {Len(s) + 1}
<1>1. A = {Len(s) + 1}
  OBVIOUS
<1>2. IndexOf(s, i, S) = Min(A)
  BY DEF IndexOf
<1> HIDE DEF A
<1>3. A \subseteq Nat /\ Len(s) + 1 \in A /\ \A x \in A : Len(s) + 1 <= x
  BY <1>1
<1> QED BY <1>2, <1>3, MinIs

(* What IndexOf has passed over, and what it has found.                      *)
LEMMA IndexBefore ==
  ASSUME NEW s \in Strings, NEW S, NEW i \in Nat \ {0}, i <= Len(s) + 1
  PROVE  /\ IndexOf(s, i, S) \in i..(Len(s) + 1)
         /\ \A j \in i..(IndexOf(s, i, S) - 1) : s[j] \notin S
         /\ IndexOf(s, i, S) <= Len(s) => s[IndexOf(s, i, S)] \in S
<1> DEFINE A == {j \in i..Len(s) : s[j] \in S} \cup {Len(s) + 1}
<1>1. Len(s) \in Nat
  BY LenProperties DEF Strings
<1>2. A \subseteq Nat /\ A # {}
  BY <1>1
<1>3. Min(A) \in A /\ \A x \in A : Min(A) <= x
  BY <1>2, MinLeast
<1>4. IndexOf(s, i, S) = Min(A)
  BY DEF IndexOf
<1> DEFINE n == Min(A)
<1>5. n \in i..(Len(s) + 1) /\ (n <= Len(s) => s[n] \in S)
  BY <1>1, <1>3
<1>6. ASSUME NEW j \in i..(n - 1)
      PROVE  s[j] \notin S
  <2>1. j \in i..Len(s) /\ ~ (n <= j)
    BY <1>1, <1>5
  <2>2. j \notin A
    BY <1>3, <2>1
  <2> QED BY <2>1, <2>2
<1> HIDE DEF n
<1> QED BY <1>4, <1>5, <1>6 DEF n

(* strstr finds the first end of a line.                                     *)
LEMMA LineEndBefore ==
  ASSUME NEW s \in Strings, NEW n \in 1..(Len(s) - 1), s[n] = "cr", s[n + 1] = "lf"
  PROVE  \A i \in 1..(Strstr(s, CRLF) - 1) : ~(s[i] = "cr" /\ s[i + 1] = "lf")
<1> SUFFICES ASSUME NEW i \in 1..(Strstr(s, CRLF) - 1), s[i] = "cr", s[i + 1] = "lf"
             PROVE  FALSE
  OBVIOUS
<1>1. Strstr(s, CRLF) \in 1..n
  BY FirstLineEnd
<1>2. i \in 1..(Len(s) - 1)
  BY <1>1, LenProperties DEF Strings
<1>3. Strstr(s, CRLF) \in 1..i
  BY <1>2, FirstLineEnd
<1> QED BY <1>1, <1>3

LEMMA LineEndAt ==
  ASSUME NEW s \in Strings, NEW n \in 1..(Len(s) - 1), s[n] = "cr", s[n + 1] = "lf",
         \A i \in 1..(n - 1) : ~(s[i] = "cr" /\ s[i + 1] = "lf")
  PROVE  Strstr(s, CRLF) = n
<1>1. /\ Strstr(s, CRLF) \in 1..n
      /\ s[Strstr(s, CRLF)] = "cr" /\ s[Strstr(s, CRLF) + 1] = "lf"
  BY FirstLineEnd
<1>2. Strstr(s, CRLF) \notin 1..(n - 1)
  BY <1>1
<1> QED BY <1>1, <1>2

(* A line, and what follows it.                                              *)
LEMMA LineAndRest ==
  ASSUME NEW s \in Strings, OneLine(s), NEW t \in Strings
  PROVE  /\ s \o (CRLF \o t) \in Strings
         /\ Strstr(s \o (CRLF \o t), CRLF) = Len(s) + 1
         /\ SubSeq(s \o (CRLF \o t), 1, Len(s)) = s
         /\ NextLine(s \o (CRLF \o t)) = t
<1> DEFINE c == CRLF \o t
           r == s \o c
           n == Len(s)
<1>1. CRLF \in Strings /\ Len(CRLF) = 2 /\ CRLF[1] = "cr" /\ CRLF[2] = "lf"
  BY LineEnd
<1>2. /\ c \in Strings /\ Len(c) = Len(CRLF) + Len(t) /\ Len(t) \in Nat
      /\ \A i \in 1..Len(CRLF) : c[i] = CRLF[i]
  BY <1>1, ConcatStrings
<1>c. From(c, Len(CRLF) + 1) = t
  BY <1>1, ConcatSubStrings
<1> HIDE DEF c
<1>3. c[1] = "cr" /\ c[2] = "lf" /\ Len(c) = 2 + Len(t) /\ From(c, 3) = t
  BY <1>1, <1>2, <1>c
<1>4. /\ r \in Strings /\ Len(r) = n + Len(c) /\ n \in Nat
      /\ \A i \in 1..n : r[i] = s[i]
      /\ \A i \in 1..Len(c) : r[n + i] = c[i]
  BY <1>2, ConcatStrings
<1>5. SubSeq(r, 1, n) = s /\ From(r, n + 1) = c
  BY <1>2, ConcatSubStrings
<1>o. \A i \in 1..(n - 1) : ~(s[i] = "cr" /\ s[i + 1] = "lf")
  BY DEF OneLine
<1>6. Strstr(r, CRLF) = n + 1
  <2> HIDE DEF r, n
  <2>1. /\ n + 1 \in 1..(Len(r) - 1) /\ 1 \in 1..Len(c) /\ 2 \in 1..Len(c) /\ (n + 1) + 1 = n + 2
    BY <1>2, <1>3, <1>4
  <2>2. r[n + 1] = "cr" /\ r[(n + 1) + 1] = "lf"
    BY <1>3, <1>4, <2>1
  <2>3. ASSUME NEW i \in 1..((n + 1) - 1), r[i] = "cr", r[i + 1] = "lf"
        PROVE  FALSE
    <3>1. CASE i = n
      <4>1. r[i + 1] = "cr"
        BY <2>2, <3>1
      <4> QED BY <2>3, <4>1
    <3>2. CASE i # n
      <4>1. i \in 1..(n - 1) /\ i \in 1..n /\ i + 1 \in 1..n
        BY <1>4, <3>2
      <4> QED BY <1>4, <1>o, <2>3, <4>1
    <3> QED BY <3>1, <3>2
  <2> QED BY <1>4, <2>1, <2>2, <2>3, LineEndAt
<1>7. From(r, n + 3) = t
  <2>1. From(r, n + 3) = SubSeq(r, n + 3, Len(r))
    BY DEF From
  <2> DEFINE u == SubSeq(r, n + 3, Len(r))
  <2> HIDE DEF r, n
  <2>2. n + 3 \in Nat \ {0} /\ Len(r) \in Int /\ Len(r) = n + 2 + Len(t)
    BY <1>2, <1>3, <1>4
  <2>3. /\ u \in Strings /\ Len(u) = IF n + 3 <= Len(r) THEN Len(r) - (n + 3) + 1 ELSE 0
        /\ \A i \in 1..(Len(r) - (n + 3) + 1) : u[i] = r[(n + 3) + i - 1]
    BY <1>4, <2>2, SubString
  <2> HIDE DEF u
  <2>4. Len(u) = Len(t)
    BY <1>2, <1>4, <2>2, <2>3
  <2>5. ASSUME NEW i \in 1..Len(u)
        PROVE  u[i] = t[i]
    <3>1. i \in 1..(Len(r) - (n + 3) + 1) /\ (n + 3) + i - 1 = n + (2 + i) /\ 2 + i \in 1..Len(c)
      BY <1>2, <1>3, <1>4, <2>2, <2>4
    <3>2. u[i] = c[2 + i]
      BY <1>4, <2>3, <3>1
    <3>3. \A j \in 1..Len(t) : (CRLF \o t)[Len(CRLF) + j] = t[j]
      BY <1>1, ConcatStrings
    <3>4. c[2 + i] = t[i]
      BY <1>1, <2>4, <3>3 DEF c
    <3> QED BY <3>2, <3>4
  <2>6. u = t
    BY <2>3, <2>4, <2>5, SeqEqual DEF Strings
  <2> QED BY <2>1, <2>6 DEF u
<1>8. NextLine(r) = From(r, (n + 1) + 2)
  BY <1>6 DEF NextLine
<1>9. (n + 1) + 2 = n + 3
  <2> HIDE DEF n
  <2> QED BY <1>4
<1> HIDE DEF n
<1>10. NextLine(r) = t
  BY <1>7, <1>8, <1>9
<1> QED BY <1>4, <1>5, <1>6, <1>10 DEF r, c, n

-----------------------------------------------------------------------------
(* What strtok_r finds in a text: the delimiters in front of a token, the    *)
(* token, the one that ends it.                                              *)
LEMMA StrtokFields ==
  ASSUME NEW s, NEW delim
  PROVE  LET first == TokenStart(s, delim)
             end   == IndexOf(s, first, delim)
         IN /\ Strtok(s, delim).token = SubSeq(s, first, end - 1)
            /\ Strtok(s, delim).rest = SubSeq(s, end + 1, Len(s))
            /\ Strtok(s, delim).end = end
<1> DEFINE first == TokenStart(s, delim)
           end == IndexOf(s, first, delim)
           t == SubSeq(s, first, end - 1)
           r == From(s, end + 1)
           e == end
<1>1. Strtok(s, delim) = [token |-> SubSeq(s, first, end - 1), rest |-> From(s, end + 1),
                          end |-> end]
  BY Zenon DEF Strtok
<1>2. Strtok(s, delim) = [token |-> t, rest |-> r, end |-> e]
  BY <1>1
<1> HIDE DEF t, r, e
<1>3. Strtok(s, delim).token = t /\ Strtok(s, delim).rest = r /\ Strtok(s, delim).end = e
  BY <1>2
<1> QED BY <1>3 DEF t, r, e, From

Between(s, m, n) == SubSeq(s, m, n)

(* The token begins behind the delimiters and ends before the next one.      *)
LEMMA StrtokIs ==
  ASSUME NEW s \in Strings, NEW delim, NEW k \in Nat \ {0}, NEW m \in Nat, k <= m, m <= Len(s),
         \A j \in 1..(k - 1) : s[j] \in delim,
         \A j \in k..m : s[j] \notin delim,
         m < Len(s) => s[m + 1] \in delim
  PROVE  /\ Strtok(s, delim).token = Between(s, k, m)
         /\ Strtok(s, delim).rest = From(s, m + 2)
         /\ Strtok(s, delim).end = m + 1
<1>1. Len(s) \in Nat
  BY LenProperties DEF Strings
<1>2. TokenStart(s, delim) = k
  <2> DEFINE A == {j \in 1..Len(s) : s[j] \notin delim} \cup {Len(s) + 1}
  <2>1. A \subseteq Nat /\ k \in A
    BY <1>1
  <2>2. ASSUME NEW x \in A
        PROVE  k <= x
    <3>1. x \in 1..(Len(s) + 1) /\ x \notin 1..(k - 1)
      BY <1>1
    <3> QED BY <1>1, <3>1
  <2>3. TokenStart(s, delim) = Min(A)
    BY DEF TokenStart
  <2> HIDE DEF A
  <2> QED BY <2>1, <2>2, <2>3, MinIs
<1>3. PICK e \in Nat \ {0} : e = m + 1 /\ e - 1 = m /\ e + 1 = m + 2
  OBVIOUS
<1>4. IndexOf(s, k, delim) = e
  <2>0. \A j \in k..(e - 1) : s[j] \notin delim
    BY <1>3
  <2>1. CASE m < Len(s)
    <3>1. e \in k..Len(s) /\ s[e] \in delim
      BY <1>1, <1>3, <2>1
    <3> QED BY <1>1, <2>0, <3>1, IndexAt
  <2>2. CASE ~(m < Len(s))
    <3>1. e = Len(s) + 1 /\ \A j \in k..Len(s) : s[j] \notin delim
      BY <1>1, <1>3, <2>2
    <3> QED BY <1>1, <3>1, IndexNone
  <2> QED BY <2>1, <2>2
<1>5. /\ Strtok(s, delim).token = SubSeq(s, k, e - 1)
      /\ Strtok(s, delim).rest = SubSeq(s, e + 1, Len(s))
      /\ Strtok(s, delim).end = e
  BY <1>2, <1>4, StrtokFields
<1> QED BY <1>3, <1>5 DEF From, Between

(* The token has no delimiter; token and rest are substrings.                *)
LEMMA StrtokInherits ==
  ASSUME NEW s \in Strings, NEW delim
  PROVE  LET t == Strtok(s, delim).token
             r == Strtok(s, delim).rest
         IN /\ t \in Strings /\ r \in Strings
            /\ Without(t, delim)
            /\ \A S : Without(s, S) => Without(t, S) /\ Without(r, S)
            /\ OneLine(s) => OneLine(t) /\ OneLine(r)
<1> DEFINE first == TokenStart(s, delim)
           end == IndexOf(s, first, delim)
           t == Strtok(s, delim).token
           r == Strtok(s, delim).rest
           A == {j \in 1..Len(s) : s[j] \notin delim} \cup {Len(s) + 1}
<1>1. Len(s) \in Nat
  BY LenProperties DEF Strings
<1>2. t = SubSeq(s, first, end - 1) /\ r = SubSeq(s, end + 1, Len(s))
  BY StrtokFields
<1>3. first \in A
  <2>1. A \subseteq Nat /\ A # {}
    BY <1>1
  <2> QED BY <2>1, MinLeast DEF TokenStart
<1>4. first \in Nat \ {0} /\ first <= Len(s) + 1
  BY <1>1, <1>3
<1> HIDE DEF first, t, r
<1>5. end \in first..(Len(s) + 1) /\ \A j \in first..(end - 1) : s[j] \notin delim
  BY <1>4, IndexBefore
<1> HIDE DEF end
<1>6. /\ t \in Strings
      /\ \A S : Without(s, S) => Without(t, S)
      /\ OneLine(s) => OneLine(t)
  <2>1. end - 1 \in Int /\ end - 1 <= Len(s)
    BY <1>1, <1>4, <1>5
  <2> QED BY <1>2, <1>4, <2>1, SubStringInherits
<1>7. /\ r \in Strings
      /\ \A S : Without(s, S) => Without(r, S)
      /\ OneLine(s) => OneLine(r)
  <2>1. end + 1 \in Nat \ {0} /\ Len(s) \in Int /\ Len(s) <= Len(s)
    BY <1>1, <1>4, <1>5
  <2> QED BY <1>2, <2>1, SubStringInherits
<1>8. Without(t, delim)
  <2>1. end - 1 \in Int /\ end - 1 <= Len(s)
    BY <1>1, <1>4, <1>5
  <2>2. /\ Len(t) = IF first <= end - 1 THEN (end - 1) - first + 1 ELSE 0
        /\ \A i \in 1..((end - 1) - first + 1) : t[i] = s[first + i - 1]
    BY <1>2, <1>4, <2>1, SubString
  <2>3. ASSUME NEW i \in 1..Len(t)
        PROVE  t[i] \notin delim
    <3>1. i \in 1..((end - 1) - first + 1) /\ first + i - 1 \in first..(end - 1)
      BY <1>4, <1>5, <2>2
    <3> QED BY <1>5, <2>2, <3>1
  <2> QED BY <2>3 DEF Without
<1> QED BY <1>6, <1>7, <1>8 DEF t, r

(* What follows a symbol.                                                    *)
LEMMA SymbolAndRest ==
  ASSUME NEW x \in Symbols, NEW t \in Strings
  PROVE  /\ <<x>> \o t \in Strings /\ Len(<<x>> \o t) = 1 + Len(t) /\ Len(t) \in Nat
         /\ (<<x>> \o t)[1] = x /\ From(<<x>> \o t, 2) = t
         /\ <<x>> \o t # <<>>
<1> DEFINE d == <<x>>
           u == d \o t
<1>1. d \in Strings /\ Len(d) = 1 /\ d[1] = x
  BY ShortTexts
<1> HIDE DEF d
<1>2. /\ u \in Strings /\ Len(u) = Len(d) + Len(t) /\ Len(t) \in Nat
      /\ \A i \in 1..Len(d) : u[i] = d[i]
  BY <1>1, ConcatStrings
<1>3. From(u, Len(d) + 1) = t
  BY <1>1, ConcatSubStrings
<1> HIDE DEF u
<1>4. 1 \in 1..Len(d) /\ Len(d) + 1 = 2 /\ Len(u) # 0
  BY <1>1, <1>2
<1>5. u # <<>>
  BY <1>4, EmptySeq
<1> QED BY <1>1, <1>2, <1>3, <1>4, <1>5 DEF u, d

(* A token is found behind delimiters and before one, or at the end.         *)
Placed(r, d, s, u) ==
  /\ Len(r) = Len(d) + Len(s) + Len(u)
  /\ \A i \in 1..Len(d) : r[i] = d[i]
  /\ \A i \in 1..Len(s) : r[Len(d) + i] = s[i]
  /\ \A i \in 1..Len(u) : r[(Len(d) + Len(s)) + i] = u[i]

(* A token between delimiters, at the front, and at the end of a text.       *)
LEMMA StrtokPlaced ==
  ASSUME NEW delim, NEW d \in Strings, NEW s \in Strings, NEW u \in Strings, NEW r \in Strings,
         \A i \in 1..Len(d) : d[i] \in delim,
         s # <<>>, Without(s, delim), u # <<>>, u[1] \in delim, Placed(r, d, s, u)
  PROVE  /\ Strtok(r, delim).token = s
         /\ Strtok(r, delim).rest = From(u, 2)
         /\ Strtok(r, delim).end = Len(d) + Len(s) + 1
<1> DEFINE a == Len(d)
           b == Len(s)
           c == Len(u)
<1>4. a \in Nat /\ b \in Nat /\ c \in Nat
  BY LenProperties DEF Strings
<1>6. b # 0 /\ c # 0
  BY EmptySeq DEF Strings
<1>8. Len(r) = a + b + c
  BY DEF Placed
<1>9. \A j \in 1..a : r[j] \in delim
  BY DEF Placed
<1>10. \A i \in 1..b : r[a + i] = s[i]
  BY DEF Placed
<1>11. \A i \in 1..c : r[(a + b) + i] = u[i]
  BY DEF Placed
<1> HIDE DEF a, b, c
<1>12. PICK k \in Nat \ {0}, m \in Nat : k = a + 1 /\ m = a + b
  BY <1>4
<1>13. ASSUME NEW j \in k..m
       PROVE  r[j] \notin delim
  <2>1. j - a \in 1..b /\ a + (j - a) = j
    BY <1>4, <1>12
  <2>2. r[j] = s[j - a]
    BY <1>10, <2>1
  <2> QED BY <2>1, <2>2 DEF Without, b
<1>14. /\ Strtok(r, delim).token = Between(r, k, m)
       /\ Strtok(r, delim).rest = From(r, m + 2)
       /\ Strtok(r, delim).end = m + 1
  <2>1. k <= m /\ m <= Len(r)
    BY <1>4, <1>6, <1>8, <1>12
  <2>2. \A j \in 1..(k - 1) : r[j] \in delim
    BY <1>4, <1>9, <1>12
  <2>3. r[m + 1] \in delim
    <3>1. 1 \in 1..c
      BY <1>4, <1>6
    <3>2. r[(a + b) + 1] = u[1]
      BY <1>11, <3>1
    <3> QED BY <1>12, <3>2
  <2> QED BY <1>13, <2>1, <2>2, <2>3, StrtokIs
<1>15. SubSeq(r, k, m) = s
  <2> DEFINE w == SubSeq(r, k, m)
  <2>1. /\ w \in Strings /\ Len(w) = IF k <= m THEN m - k + 1 ELSE 0
        /\ \A i \in 1..(m - k + 1) : w[i] = r[k + i - 1]
    <3>1. m <= Len(r)
      BY <1>4, <1>8, <1>12
    <3> QED BY <3>1, SubString
  <2> HIDE DEF w
  <2>2. Len(w) = b
    BY <1>4, <1>6, <1>12, <2>1
  <2>3. ASSUME NEW i \in 1..b
        PROVE  w[i] = s[i]
    <3>1. i \in 1..(m - k + 1) /\ k + i - 1 = a + i
      BY <1>4, <1>12
    <3> QED BY <1>10, <2>1, <3>1
  <2>4. w = s
    BY <2>1, <2>2, <2>3, SeqEqual DEF Strings, b
  <2> QED BY <2>4 DEF w
<1>16. From(r, m + 2) = From(u, 2)
  <2> DEFINE w == SubSeq(r, m + 2, Len(r))
             x == SubSeq(u, 2, c)
  <2>1. /\ w \in Strings /\ Len(w) = IF m + 2 <= Len(r) THEN Len(r) - (m + 2) + 1 ELSE 0
        /\ \A i \in 1..(Len(r) - (m + 2) + 1) : w[i] = r[(m + 2) + i - 1]
    <3>1. m + 2 \in Nat \ {0} /\ Len(r) \in Int /\ Len(r) <= Len(r)
      BY <1>4, <1>8, <1>12
    <3> QED BY <3>1, SubString
  <2>2. /\ x \in Strings /\ Len(x) = IF 2 <= c THEN c - 2 + 1 ELSE 0
        /\ \A i \in 1..(c - 2 + 1) : x[i] = u[2 + i - 1]
    <3>1. c \in Int /\ c <= Len(u)
      BY <1>4 DEF c
    <3> QED BY <3>1, SubString
  <2> HIDE DEF w, x
  <2>3. Len(w) = c - 1 /\ Len(x) = c - 1
    BY <1>4, <1>6, <1>8, <1>12, <2>1, <2>2
  <2>4. ASSUME NEW i \in 1..(c - 1)
        PROVE  w[i] = x[i]
    <3>1. /\ i \in 1..(Len(r) - (m + 2) + 1) /\ (m + 2) + i - 1 = (a + b) + (i + 1)
          /\ i \in 1..(c - 2 + 1) /\ 2 + i - 1 = i + 1 /\ i + 1 \in 1..c
      BY <1>4, <1>8, <1>12
    <3>2. w[i] = u[i + 1]
      BY <1>11, <2>1, <3>1
    <3> QED BY <2>2, <3>1, <3>2
  <2>5. w = x
    BY <2>1, <2>2, <2>3, <2>4, SeqEqual DEF Strings
  <2> QED BY <2>5 DEF w, x, From, c
<1> QED BY <1>12, <1>14, <1>15, <1>16 DEF a, b, c, Between

LEMMA StrtokMiddle ==
  ASSUME NEW delim, NEW d \in Strings, NEW s \in Strings, NEW u \in Strings,
         \A i \in 1..Len(d) : d[i] \in delim,
         s # <<>>, Without(s, delim), u # <<>>, u[1] \in delim
  PROVE  /\ Strtok(d \o (s \o u), delim).token = s
         /\ Strtok(d \o (s \o u), delim).rest = From(u, 2)
         /\ Strtok(d \o (s \o u), delim).end = Len(d) + Len(s) + 1
<1> DEFINE v == s \o u
           r == d \o v
<1>1. /\ v \in Strings /\ Len(v) = Len(s) + Len(u)
      /\ Len(s) \in Nat /\ Len(u) \in Nat
      /\ \A i \in 1..Len(s) : v[i] = s[i]
      /\ \A i \in 1..Len(u) : v[Len(s) + i] = u[i]
  BY ConcatStrings
<1> HIDE DEF v
<1>2. /\ r \in Strings /\ Len(r) = Len(d) + Len(v) /\ Len(d) \in Nat
      /\ \A i \in 1..Len(d) : r[i] = d[i]
      /\ \A i \in 1..Len(v) : r[Len(d) + i] = v[i]
  BY <1>1, ConcatStrings
<1> HIDE DEF r
<1>3. Len(r) = Len(d) + Len(s) + Len(u)
  BY <1>1, <1>2
<1>4. ASSUME NEW i \in 1..Len(s)
      PROVE  r[Len(d) + i] = s[i]
  <2>1. i \in 1..Len(v)
    BY <1>1
  <2> QED BY <1>1, <1>2, <2>1
<1>5. ASSUME NEW i \in 1..Len(u)
      PROVE  r[(Len(d) + Len(s)) + i] = u[i]
  <2>1. Len(s) + i \in 1..Len(v) /\ Len(d) + (Len(s) + i) = (Len(d) + Len(s)) + i
    BY <1>1, <1>2
  <2> QED BY <1>1, <1>2, <2>1
<1>6. /\ Strtok(r, delim).token = s
      /\ Strtok(r, delim).rest = From(u, 2)
      /\ Strtok(r, delim).end = Len(d) + Len(s) + 1
  <2>1. Placed(r, d, s, u)
    BY <1>2, <1>3, <1>4, <1>5 DEF Placed
  <2>2. r \in Strings
    BY <1>2
  <2> QED BY <2>1, <2>2, StrtokPlaced
<1> QED BY <1>6 DEF r, v

LEMMA StrtokFirst ==
  ASSUME NEW delim, NEW s \in Strings, NEW u \in Strings,
         s # <<>>, Without(s, delim), u # <<>>, u[1] \in delim
  PROVE  /\ Strtok(s \o u, delim).token = s
         /\ Strtok(s \o u, delim).rest = From(u, 2)
         /\ Strtok(s \o u, delim).end = Len(s) + 1
<1> DEFINE d == <<>>
           v == s \o u
<1>0. d \in Strings
  BY DEF Strings
<1>1. Len(d) = 0
  OBVIOUS
<1>4. d \o v = v /\ v \in Strings
  <2>1. v \in Strings
    BY ConcatStrings
  <2> HIDE DEF v
  <2> QED BY <2>1, ConcatEmptySeq DEF Strings
<1> HIDE DEF d
<1>5. \A i \in 1..Len(d) : d[i] \in delim
  BY <1>1
<1>6. /\ Strtok(d \o (s \o u), delim).token = s
      /\ Strtok(d \o (s \o u), delim).rest = From(u, 2)
      /\ Strtok(d \o (s \o u), delim).end = Len(d) + Len(s) + 1
  BY <1>0, <1>5, StrtokMiddle
<1>7. Len(d) + Len(s) + 1 = Len(s) + 1
  BY <1>1, LenProperties DEF Strings
<1>8. d \o (s \o u) = s \o u
  BY <1>4
<1> QED BY <1>6, <1>7, <1>8

LEMMA StrtokLast ==
  ASSUME NEW delim, NEW s \in Strings, s # <<>>, Without(s, delim)
  PROVE  /\ Strtok(s, delim).token = s
         /\ Strtok(s, delim).rest = <<>>
         /\ Strtok(s, delim).end = Len(s) + 1
<1>1. PICK m \in Nat : m = Len(s) /\ 1 <= m
  BY EmptySeq, LenProperties DEF Strings
<1>2. /\ \A j \in 1..(1 - 1) : s[j] \in delim
      /\ \A j \in 1..m : s[j] \notin delim
      /\ ~(m < Len(s)) /\ m <= Len(s) /\ 1 \in Nat \ {0}
  BY <1>1 DEF Without
<1>3. /\ Strtok(s, delim).token = Between(s, 1, m)
      /\ Strtok(s, delim).rest = From(s, m + 2)
      /\ Strtok(s, delim).end = m + 1
  BY <1>1, <1>2, StrtokIs
<1>4. SubSeq(s, 1, m) = s
  BY <1>1, SubSeqFull DEF Strings
<1>5. SubSeq(s, m + 2, m) = <<>>
  <2>1. m + 2 > m /\ m + 2 \in Int
    OBVIOUS
  <2> QED BY <2>1, SubSeqEmpty
<1> QED BY <1>1, <1>3, <1>4, <1>5 DEF From, Between

-----------------------------------------------------------------------------
(* What the fields of an accepted request line hold.                         *)
GoodRequest(r) ==
  /\ r.protocol # <<>> /\ Without(r.protocol, {" ", ":", "/"}) /\ OneLine(r.protocol)
  /\ r.host # <<>> /\ Without(r.host, {" ", ":", "/"}) /\ OneLine(r.host)
  /\ Without(r.port, {" ", "/"}) /\ OneLine(r.port)
  /\ r.path # <<>> /\ r.path[1] = "/" /\ Without(r.path, {" "}) /\ OneLine(r.path)
  /\ ~IsPrefix(<<"/", "/">>, r.path)
  /\ r.version # <<>> /\ r.version[1] = "HTTP/" /\ OneLine(r.version)

(* Texts of one symbol, and a path with the slash put before it.             *)
LEMMA OneSymbol ==
  ASSUME NEW a \in Symbols
  PROVE  /\ <<a>> \in Strings /\ Len(<<a>>) = 1 /\ <<a>>[1] = a /\ <<a>> # <<>>
         /\ OneLine(<<a>>)
         /\ \A S : a \notin S => Without(<<a>>, S)
<1> DEFINE d == <<a>>
<1>1. d \in Strings /\ Len(d) = 1 /\ d[1] = a
  BY ShortTexts
<1> HIDE DEF d
<1>2. d # <<>>
  BY <1>1, EmptySeq
<1>3. OneLine(d)
  <2>1. 1..(Len(d) - 1) = {}
    BY <1>1
  <2> QED BY <2>1 DEF OneLine
<1>4. ASSUME NEW S, a \notin S
      PROVE  Without(d, S)
  <2>1. \A i \in 1..Len(d) : i = 1
    BY <1>1
  <2> QED BY <1>1, <1>4, <2>1 DEF Without
<1> QED BY <1>1, <1>2, <1>3, <1>4 DEF d

LEMMA SlashPath ==
  ASSUME NEW t \in Strings
  PROVE  /\ <<"/">> \o t \in Strings /\ <<"/">> \o t # <<>> /\ (<<"/">> \o t)[1] = "/"
         /\ Without(t, {" "}) => Without(<<"/">> \o t, {" "})
         /\ OneLine(t) => OneLine(<<"/">> \o t)
<1> DEFINE d == <<"/">>
<1>1. /\ d \in Strings /\ Len(d) = 1 /\ d[1] = "/"
      /\ OneLine(d) /\ \A S : "/" \notin S => Without(d, S)
  <2>1. "/" \in Symbols
    BY ParsedRequestAssumption
  <2> QED BY <2>1, OneSymbol
<1> HIDE DEF d
<1>3. Without(d, {" "})
  <2>1. "/" \notin {" "}
    OBVIOUS
  <2> QED BY <1>1, <2>1, Zenon
<1>4. /\ d \o t \in Strings /\ Len(d \o t) = 1 + Len(t) /\ Len(t) \in Nat
      /\ (d \o t)[1] = "/"
  <2>1. /\ d \o t \in Strings /\ Len(d \o t) = Len(d) + Len(t) /\ Len(t) \in Nat
        /\ \A i \in 1..Len(d) : (d \o t)[i] = d[i]
    BY <1>1, ConcatStrings
  <2>2. 1 \in 1..Len(d)
    BY <1>1
  <2> QED BY <1>1, <2>1, <2>2
<1>5. d \o t # <<>>
  <2>1. Len(d \o t) # 0
    BY <1>4
  <2> QED BY <2>1
<1>6. Without(t, {" "}) => Without(d \o t, {" "})
  BY <1>1, <1>3, ConcatWithout
<1>7. OneLine(t) => OneLine(d \o t)
  BY <1>1, <1>3, ConcatOneLine
<1> QED BY <1>4, <1>5, <1>6, <1>7 DEF d

(* An accepted line gives good fields, and so what a request keeps is good.  *)
LEMMA GoodFields ==
  ASSUME NEW s \in Strings, OneLine(s), NEW beyond \in Strings, OneLine(beyond),
         Acceptable(LineFields(s, beyond))
  PROVE  GoodRequest(Request(LineFields(s, beyond)))
<1> DEFINE method    == Strtok(s, {" "})
           full_addr == Strtok(method.rest, {" "})
           version   == IF full_addr.end > Len(method.rest) THEN beyond ELSE full_addr.rest
           protocol  == Strtok(full_addr.token, {":", "/"})
           authority == Strtok(protocol.rest, {"/"})
           host      == Strtok(authority.token, {":"})
           f         == LineFields(s, beyond)
<1>1. method.rest \in Strings /\ OneLine(method.rest)
  BY StrtokInherits
<1>f. /\ f.protocol = protocol.token /\ f.host = host.token /\ f.port = host.rest
      /\ f.path = <<"/">> \o authority.rest /\ f.version = version
  BY DEF LineFields
<1> HIDE DEF method
<1>2. /\ full_addr.token \in Strings /\ full_addr.rest \in Strings
      /\ OneLine(full_addr.token) /\ OneLine(full_addr.rest)
      /\ Without(full_addr.token, {" "})
  BY <1>1, StrtokInherits
<1> HIDE DEF full_addr
<1>3. version \in Strings /\ OneLine(version)
  BY <1>2
<1> HIDE DEF version
<1>4. /\ protocol.token \in Strings /\ protocol.rest \in Strings
      /\ OneLine(protocol.token) /\ OneLine(protocol.rest)
      /\ Without(protocol.token, {" "}) /\ Without(protocol.rest, {" "})
      /\ Without(protocol.token, {":", "/"})
  BY <1>2, StrtokInherits
<1> HIDE DEF protocol
<1>5. /\ authority.token \in Strings /\ authority.rest \in Strings
      /\ OneLine(authority.token) /\ OneLine(authority.rest)
      /\ Without(authority.token, {" "}) /\ Without(authority.rest, {" "})
      /\ Without(authority.token, {"/"})
  BY <1>4, StrtokInherits
<1> HIDE DEF authority
<1>6. /\ host.token \in Strings /\ host.rest \in Strings
      /\ OneLine(host.token) /\ OneLine(host.rest)
      /\ Without(host.token, {" "}) /\ Without(host.rest, {" "})
      /\ Without(host.token, {"/"}) /\ Without(host.rest, {"/"})
      /\ Without(host.token, {":"})
  BY <1>5, StrtokInherits
<1> HIDE DEF host
<1>7. /\ <<"/">> \o authority.rest # <<>> /\ (<<"/">> \o authority.rest)[1] = "/"
      /\ Without(<<"/">> \o authority.rest, {" "}) /\ OneLine(<<"/">> \o authority.rest)
  BY <1>5, SlashPath
<1> DEFINE path == <<"/">> \o authority.rest
<1> HIDE DEF path
<1>8. /\ f.protocol = protocol.token /\ f.host = host.token /\ f.port = host.rest
      /\ f.path = path /\ f.version = version
      /\ path # <<>> /\ path[1] = "/" /\ Without(path, {" "}) /\ OneLine(path)
  BY <1>f, <1>7 DEF path
<1>9. /\ f.protocol # <<>> /\ f.host # <<>> /\ ~IsPrefix(<<"/", "/">>, f.path)
      /\ f.version # <<>> /\ f.version[1] = "HTTP/"
  BY DEF Acceptable
<1>10. /\ Request(f).protocol = f.protocol /\ Request(f).host = f.host
       /\ Request(f).port = f.port /\ Request(f).path = f.path
       /\ Request(f).version = f.version
  BY DEF Request
<1> HIDE DEF f
<1>11. /\ Without(protocol.token, {" ", ":", "/"}) /\ Without(host.token, {" ", ":", "/"})
       /\ Without(host.rest, {" ", "/"})
  BY <1>4, <1>6 DEF Without
<1>12. GoodRequest(Request(f))
  BY <1>3, <1>4, <1>6, <1>8, <1>9, <1>10, <1>11 DEF GoodRequest
<1> QED BY <1>12 DEF f

-----------------------------------------------------------------------------
(* Putting texts together.                                                   *)
LEMMA Assoc ==
  ASSUME NEW s \in Strings, NEW t \in Strings, NEW u \in Strings
  PROVE  (s \o t) \o u = s \o (t \o u)
BY ConcatAssociative, SMTT(20) DEF Strings

LEMMA ConcatNonEmpty ==
  ASSUME NEW s \in Strings, NEW t \in Strings, s # <<>> \/ t # <<>>
  PROVE  s \o t # <<>>
<1>1. /\ Len(s \o t) = Len(s) + Len(t) /\ Len(s) \in Nat /\ Len(t) \in Nat
  BY ConcatStrings
<1>2. Len(s) # 0 \/ Len(t) # 0
  BY EmptySeq DEF Strings
<1>3. Len(s \o t) # 0
  BY <1>1, <1>2
<1> QED BY <1>3

LEMMA FirstOfConcat ==
  ASSUME NEW s \in Strings, NEW t \in Strings, s # <<>>
  PROVE  (s \o t)[1] = s[1]
<1>1. 1 \in 1..Len(s)
  BY EmptySeq, LenProperties DEF Strings
<1> QED BY <1>1, ConcatStrings

(* The request line as it is read: the address between two spaces, and in it *)
(* the protocol, two slashes, host and port, and the path.                   *)
Authority(r) == r.host \o (IF r.port = <<>> THEN <<>> ELSE <<":">> \o r.port)

Address(r) == r.protocol \o (<<":">> \o (<<"/", "/">> \o (Authority(r) \o r.path)))

LineText(r) == <<"GET">> \o (<<" ">> \o (Address(r) \o (<<" ">> \o r.version)))

(* The parts of the address, and the authority as strtok_r takes it apart.   *)
LEMMA TwoSlashes ==
  /\ <<"/", "/">> \in Strings /\ Len(<<"/", "/">>) = 2 /\ <<"/", "/">> # <<>>
  /\ OneLine(<<"/", "/">>) /\ Without(<<"/", "/">>, {" "})
  /\ \A i \in 1..Len(<<"/", "/">>) : <<"/", "/">>[i] = "/"
  /\ <<"/", "/">>[Len(<<"/", "/">>)] = "/"
<1> DEFINE d == <<"/", "/">>
<1>1. d \in Strings /\ Len(d) = 2 /\ d[1] = "/" /\ d[2] = "/"
  <2>1. "/" \in Symbols
    BY ParsedRequestAssumption
  <2> QED BY <2>1, ShortTexts
<1> HIDE DEF d
<1>2. \A i \in 1..Len(d) : d[i] = "/"
  <2>1. \A i \in 1..2 : i = 1 \/ i = 2
    OBVIOUS
  <2> QED BY <1>1, <2>1
<1>3. d # <<>>
  BY <1>1, EmptySeq
<1>4. Without(d, {" "})
  BY <1>2 DEF Without
<1>5. OneLine(d)
  <2>1. \A i \in 1..(Len(d) - 1) : i \in 1..Len(d)
    BY <1>1
  <2> QED BY <1>2, <2>1 DEF OneLine
<1>6. d[Len(d)] = "/"
  BY <1>1
<1> QED BY <1>1, <1>2, <1>3, <1>4, <1>5, <1>6 DEF d

LEMMA AuthorityText ==
  ASSUME NEW r \in Requests, GoodRequest(r)
  PROVE  /\ Authority(r) \in Strings /\ Authority(r) # <<>> /\ OneLine(Authority(r))
         /\ Without(Authority(r), {" "}) /\ Without(Authority(r), {"/"})
         /\ Strtok(Authority(r), {":"}).token = r.host
         /\ Strtok(Authority(r), {":"}).rest = r.port
<1> DEFINE host == r.host
           port == r.port
           z == <<":">>
<1>1. /\ host \in Strings /\ port \in Strings /\ host # <<>>
      /\ Without(host, {" "}) /\ Without(host, {"/"}) /\ Without(host, {":"})
      /\ Without(port, {" "}) /\ Without(port, {"/"})
      /\ OneLine(host) /\ OneLine(port)
  BY DEF Requests, GoodRequest, Without
<1>2. /\ z \in Strings /\ z[1] = ":" /\ z # <<>> /\ Len(z) = 1 /\ OneLine(z)
      /\ Without(z, {" "}) /\ Without(z, {"/"})
  <2>1. ":" \in Symbols
    BY ParsedRequestAssumption
  <2>2. ":" \notin {" "} /\ ":" \notin {"/"}
    OBVIOUS
  <2>3. /\ z \in Strings /\ z[1] = ":" /\ z # <<>> /\ Len(z) = 1 /\ OneLine(z)
        /\ \A S : ":" \notin S => Without(z, S)
    BY <2>1, OneSymbol
  <2>4. Without(z, {" "}) /\ Without(z, {"/"})
    BY <2>2, <2>3, Zenon
  <2> QED BY <2>3, <2>4
<1>3. Authority(r) = host \o (IF port = <<>> THEN <<>> ELSE z \o port)
  BY DEF Authority
<1> HIDE DEF host, port
<1>4. CASE port = <<>>
  <2>1. Authority(r) = host
    <3>1. Authority(r) = host \o <<>>
      BY <1>3, <1>4
    <3>2. host \o <<>> = host
      BY <1>1, ConcatEmptySeq DEF Strings
    <3> QED BY <3>1, <3>2
  <2>2. Strtok(host, {":"}).token = host /\ Strtok(host, {":"}).rest = <<>>
    BY <1>1, StrtokLast
  <2> QED BY <1>1, <1>4, <2>1, <2>2 DEF host, port
<1>5. CASE port # <<>>
  <2> DEFINE c == z \o port
             a == host \o c
  <2>1. Authority(r) = a
    BY <1>3, <1>5
  <2>2. /\ c \in Strings /\ Without(c, {" "}) /\ Without(c, {"/"}) /\ OneLine(c)
        /\ c # <<>> /\ c[1] = ":" /\ From(c, 2) = port
    <3>1. ":" \in Symbols
      BY ParsedRequestAssumption
    <3>2. c \in Strings /\ c # <<>> /\ c[1] = ":" /\ From(c, 2) = port
      BY <1>1, <3>1, SymbolAndRest
    <3>3. Without(c, {" "}) /\ Without(c, {"/"})
      BY <1>1, <1>2, ConcatWithout
    <3>4. OneLine(c)
      BY <1>1, <1>2, ConcatOneLine
    <3> QED BY <3>2, <3>3, <3>4
  <2> HIDE DEF c
  <2>3. Strtok(a, {":"}).token = host /\ Strtok(a, {":"}).rest = port
    <3>1. PICK delim : delim = {":"}
      OBVIOUS
    <3>2. /\ host \in Strings /\ host # <<>> /\ Without(host, delim)
          /\ c \in Strings /\ c # <<>> /\ c[1] \in delim
      BY <1>1, <2>2, <3>1
    <3>3. /\ Strtok(host \o c, delim).token = host
          /\ Strtok(host \o c, delim).rest = From(c, 2)
      BY <3>2, StrtokFirst
    <3> QED BY <2>2, <3>1, <3>3
  <2>4. a \in Strings
    BY <1>1, <2>2, ConcatStrings
  <2>5. Without(a, {" "}) /\ Without(a, {"/"})
    BY <1>1, <2>2, ConcatWithout
  <2>6. OneLine(a)
    <3>1. c[1] # "lf"
      BY <2>2
    <3> QED BY <1>1, <2>2, <3>1, ConcatOneLine
  <2>7. a # <<>>
    BY <1>1, <2>2, ConcatNonEmpty
  <2> HIDE DEF a
  <2> QED BY <2>1, <2>3, <2>4, <2>5, <2>6, <2>7 DEF host, port
<1> QED BY <1>4, <1>5

(* The address up to the path, and the parts strtok_r finds in it.           *)
LEMMA AddressText ==
  ASSUME NEW r \in Requests, GoodRequest(r)
  PROVE  /\ Address(r) \in Strings /\ Address(r) # <<>> /\ OneLine(Address(r))
         /\ Without(Address(r), {" "})
         /\ Len(Address(r)) = Len(r.protocol) + 3 + Len(Authority(r)) + Len(r.path)
         /\ Len(r.protocol) \in Nat /\ Len(Authority(r)) \in Nat /\ Len(r.path) \in Nat \ {0}
<1> DEFINE proto == r.protocol
           path  == r.path
           auth  == Authority(r)
           d == <<"/", "/">>
           z == <<":">>
           e == auth \o path
           f == d \o e
           g == z \o f
           h == proto \o g
<1>1. /\ proto \in Strings /\ proto # <<>> /\ Without(proto, {" "}) /\ OneLine(proto)
      /\ path \in Strings /\ path # <<>> /\ Without(path, {" "}) /\ OneLine(path)
      /\ path[1] = "/"
  BY DEF Requests, GoodRequest, Without
<1>2. auth \in Strings /\ auth # <<>> /\ Without(auth, {" "}) /\ OneLine(auth)
  BY AuthorityText
<1>3. d \in Strings /\ Len(d) = 2 /\ Without(d, {" "}) /\ OneLine(d) /\ d[Len(d)] = "/"
  BY TwoSlashes
<1>4. /\ z \in Strings /\ Len(z) = 1 /\ Without(z, {" "}) /\ OneLine(z) /\ z[1] = ":"
      /\ z # <<>>
  <2>1. ":" \in Symbols /\ ":" \notin {" "}
    BY ParsedRequestAssumption
  <2>2. /\ z \in Strings /\ Len(z) = 1 /\ OneLine(z) /\ z[1] = ":" /\ z # <<>>
        /\ \A S : ":" \notin S => Without(z, S)
    BY <2>1, OneSymbol
  <2> QED BY <2>1, <2>2, Zenon
<1>5. Address(r) = h
  BY DEF Address
<1> HIDE DEF proto, path, auth, d, z
<1>6. e \in Strings /\ Len(e) = Len(auth) + Len(path) /\ Without(e, {" "}) /\ OneLine(e)
  <2>1. path[1] # "lf"
    BY <1>1
  <2> QED BY <1>1, <1>2, <2>1, ConcatStrings, ConcatWithout, ConcatOneLine
<1> HIDE DEF e
<1>7. f \in Strings /\ Len(f) = Len(d) + Len(e) /\ Without(f, {" "}) /\ OneLine(f)
  <2>1. d[Len(d)] # "cr"
    BY <1>3
  <2> QED BY <1>3, <1>6, <2>1, ConcatStrings, ConcatWithout, ConcatOneLine
<1> HIDE DEF f
<1>8. /\ g \in Strings /\ Len(g) = Len(z) + Len(f) /\ Without(g, {" "}) /\ OneLine(g)
      /\ g[1] = ":"
  <2>1. z[Len(z)] # "cr"
    BY <1>4
  <2> QED BY <1>4, <1>7, <2>1, ConcatStrings, ConcatWithout, ConcatOneLine, FirstOfConcat
<1> HIDE DEF g
<1>9. /\ h \in Strings /\ Len(h) = Len(proto) + Len(g) /\ Without(h, {" "}) /\ OneLine(h)
      /\ h # <<>>
  <2>1. g[1] # "lf"
    BY <1>8
  <2> QED BY <1>1, <1>8, <2>1, ConcatStrings, ConcatWithout, ConcatOneLine, ConcatNonEmpty
<1> HIDE DEF h
<1>10. Len(proto) \in Nat /\ Len(auth) \in Nat /\ Len(path) \in Nat /\ Len(path) # 0
  BY <1>1, <1>2, LenProperties, EmptySeq DEF Strings
<1>11. Len(h) = Len(proto) + 3 + Len(auth) + Len(path)
  <2>1. Len(f) = 2 + (Len(auth) + Len(path))
    BY <1>3, <1>6, <1>7
  <2>2. Len(h) = Len(proto) + (1 + (2 + (Len(auth) + Len(path))))
    BY <1>4, <1>8, <1>9, <2>1
  <2> QED BY <1>10, <2>2
<1> QED BY <1>5, <1>9, <1>10, <1>11 DEF proto, path, auth

(* path is a slash and what follows it.                                      *)
LEMMA SlashAndRest ==
  ASSUME NEW path \in Strings, path # <<>>, path[1] = "/"
  PROVE  <<"/">> \o From(path, 2) = path /\ From(path, 2) \in Strings
<1> DEFINE n == Len(path)
           t == SubSeq(path, 2, n)
           z == <<"/">>
           p == z \o t
<1>1. n \in Nat /\ n # 0
  BY EmptySeq, LenProperties DEF Strings
<1>2. /\ t \in Strings /\ Len(t) = IF 2 <= n THEN n - 2 + 1 ELSE 0
      /\ \A i \in 1..(n - 2 + 1) : t[i] = path[2 + i - 1]
  <2>1. n \in Int /\ n <= Len(path) /\ 2 \in Nat \ {0}
    BY <1>1
  <2> QED BY <2>1, SubString
<1> HIDE DEF t
<1>3. /\ z \in Strings /\ Len(z) = 1 /\ z[1] = "/"
  <2>1. "/" \in Symbols
    BY ParsedRequestAssumption
  <2> QED BY <2>1, OneSymbol
<1> HIDE DEF z
<1>4. /\ p \in Strings /\ Len(p) = Len(z) + Len(t)
      /\ \A i \in 1..Len(z) : p[i] = z[i]
      /\ \A i \in 1..Len(t) : p[Len(z) + i] = t[i]
  BY <1>2, <1>3, ConcatStrings
<1> HIDE DEF p, n
<1>5. Len(t) = n - 1 /\ Len(p) = n
  BY <1>1, <1>2, <1>3, <1>4
<1>6. ASSUME NEW i \in 1..n
      PROVE  p[i] = path[i]
  <2>1. CASE i = 1
    <3>1. 1 \in 1..Len(z)
      BY <1>3
    <3> QED BY <1>3, <1>4, <2>1, <3>1
  <2>2. CASE i # 1
    <3> DEFINE k == i - 1
    <3>1. k \in 1..Len(t) /\ Len(z) + k = i /\ k \in 1..(n - 2 + 1) /\ 2 + k - 1 = i
      BY <1>1, <1>3, <1>5, <2>2
    <3> HIDE DEF k
    <3>2. p[Len(z) + k] = t[k] /\ t[k] = path[2 + k - 1]
      BY <1>2, <1>4, <3>1
    <3> QED BY <3>1, <3>2
  <2> QED BY <2>1, <2>2
<1>7. p = path
  BY <1>4, <1>5, <1>6, SeqEqual DEF Strings, n
<1> QED BY <1>2, <1>7 DEF p, t, n, z, From

(* The line is one line, and what is printed.                                *)
LEMMA LineTextOneLine ==
  ASSUME NEW r \in Requests, GoodRequest(r)
  PROVE  LineText(r) \in Strings /\ OneLine(LineText(r))
<1> DEFINE m == <<"GET">>
           x == <<" ">>
           a == Address(r)
           ver == r.version
           e == x \o ver
           f == a \o e
           g == x \o f
           h == m \o g
<1>1. ver \in Strings /\ OneLine(ver)
  BY DEF Requests, GoodRequest
<1>2. a \in Strings /\ OneLine(a)
  BY AddressText
<1>3. /\ x \in Strings /\ OneLine(x) /\ x[Len(x)] = " " /\ x[1] = " " /\ x # <<>>
      /\ m \in Strings /\ OneLine(m)
  <2>1. " " \in Symbols /\ "GET" \in Symbols
    BY ParsedRequestAssumption
  <2> QED BY <2>1, OneSymbol
<1>4. LineText(r) = h
  BY DEF LineText
<1> HIDE DEF a, ver, m, x
<1>5. e \in Strings /\ OneLine(e) /\ e[1] = " "
  <2>1. x[Len(x)] # "cr"
    BY <1>3
  <2> QED BY <1>1, <1>3, <2>1, ConcatStrings, ConcatOneLine, FirstOfConcat
<1> HIDE DEF e
<1>6. f \in Strings /\ OneLine(f)
  <2>1. e[1] # "lf"
    BY <1>5
  <2> QED BY <1>2, <1>5, <2>1, ConcatStrings, ConcatOneLine
<1> HIDE DEF f
<1>7. g \in Strings /\ OneLine(g) /\ g[1] = " "
  <2>1. x[Len(x)] # "cr"
    BY <1>3
  <2> QED BY <1>3, <1>6, <2>1, ConcatStrings, ConcatOneLine, FirstOfConcat
<1> HIDE DEF g
<1>8. h \in Strings /\ OneLine(h)
  <2>1. g[1] # "lf"
    BY <1>7
  <2> QED BY <1>3, <1>7, <2>1, ConcatStrings, ConcatOneLine
<1> HIDE DEF h
<1> QED BY <1>4, <1>8

(* Symbols written together are symbols put behind each other.               *)
LEMMA TuplesSplit ==
  ASSUME NEW a \in Symbols, NEW b \in Symbols, NEW c \in Symbols
  PROVE  <<a, b, c>> = <<a>> \o <<b, c>> /\ <<a, b>> = <<a>> \o <<b>>
<1>1. ASSUME NEW d, d = <<a>>, NEW e, e = <<b, c>>, NEW f, f = <<a, b, c>>
      PROVE  f = d \o e
  <2>1. /\ d \in Strings /\ Len(d) = 1 /\ d[1] = a
        /\ e \in Strings /\ Len(e) = 2 /\ e[1] = b /\ e[2] = c
        /\ f \in Strings /\ Len(f) = 3 /\ f[1] = a /\ f[2] = b /\ f[3] = c
    BY <1>1, ShortTexts
  <2> DEFINE g == d \o e
  <2>g. /\ g \in Strings /\ Len(g) = Len(d) + Len(e)
        /\ \A i \in 1..Len(d) : g[i] = d[i]
        /\ \A i \in 1..Len(e) : g[Len(d) + i] = e[i]
    BY <2>1, ConcatStrings
  <2> HIDE DEF g
  <2>2. Len(g) = 3
    BY <2>1, <2>g
  <2>3. g[1] = a /\ g[2] = b /\ g[3] = c
    <3>1. 1 \in 1..Len(d) /\ 1 \in 1..Len(e) /\ 2 \in 1..Len(e) /\ Len(d) + 1 = 2 /\ Len(d) + 2 = 3
      BY <2>1
    <3> QED BY <2>1, <2>g, <3>1
  <2>4. \A i \in 1..Len(f) : i = 1 \/ i = 2 \/ i = 3
    BY <2>1
  <2>5. \A i \in 1..Len(f) : f[i] = g[i]
    BY <2>1, <2>3, <2>4
  <2> QED BY <2>1, <2>g, <2>2, <2>5, SeqEqual DEF Strings, g
<1>2. ASSUME NEW d, d = <<a>>, NEW e, e = <<b>>, NEW f, f = <<a, b>>
      PROVE  f = d \o e
  <2>1. /\ d \in Strings /\ Len(d) = 1 /\ d[1] = a
        /\ e \in Strings /\ Len(e) = 1 /\ e[1] = b
        /\ f \in Strings /\ Len(f) = 2 /\ f[1] = a /\ f[2] = b
    BY <1>2, ShortTexts
  <2> DEFINE g == d \o e
  <2>g. /\ g \in Strings /\ Len(g) = Len(d) + Len(e)
        /\ \A i \in 1..Len(d) : g[i] = d[i]
        /\ \A i \in 1..Len(e) : g[Len(d) + i] = e[i]
    BY <2>1, ConcatStrings
  <2> HIDE DEF g
  <2>2. Len(g) = 2
    BY <2>1, <2>g
  <2>3. g[1] = a /\ g[2] = b
    <3>1. 1 \in 1..Len(d) /\ 1 \in 1..Len(e) /\ Len(d) + 1 = 2
      BY <2>1
    <3> QED BY <2>1, <2>g, <3>1
  <2>4. \A i \in 1..Len(f) : i = 1 \/ i = 2
    BY <2>1
  <2>5. \A i \in 1..Len(f) : f[i] = g[i]
    BY <2>1, <2>3, <2>4
  <2> QED BY <2>1, <2>g, <2>2, <2>5, SeqEqual DEF Strings, g
<1> QED BY <1>1, <1>2

(* Concatenation under a name of its own, for equations between texts.      *)
Cat(s, t) == s \o t

(* Concatenation as an operator that the provers leave alone.                *)
LEMMA CatAssoc ==
  /\ \A s, t \in Strings : Cat(s, t) \in Strings
  /\ \A s, t, u \in Strings : Cat(Cat(s, t), u) = Cat(s, Cat(t, u))
<1>1. ASSUME NEW s \in Strings, NEW t \in Strings
      PROVE  Cat(s, t) \in Strings
  BY ConcatStrings DEF Cat
<1>2. ASSUME NEW s \in Strings, NEW t \in Strings, NEW u \in Strings
      PROVE  Cat(Cat(s, t), u) = Cat(s, Cat(t, u))
  BY Assoc DEF Cat
<1> QED BY <1>1, <1>2

(* ParsedRequest_printRequestLine prints that line, and its end.             *)
LEMMA LineTextPrinted ==
  ASSUME NEW r \in Requests
  PROVE  PrintedLine(r) = LineText(r) \o CRLF
<1> DEFINE proto == r.protocol
           host  == r.host
           port  == r.port
           path  == r.path
           ver   == r.version
           m == <<"GET">>
           x == <<" ">>
           mx == <<"GET", " ">>
           z == <<":">>
           d == <<"/", "/">>
           zd == <<":", "/", "/">>
           p == IF port = <<>> THEN <<>> ELSE z \o port
           h == mx \o proto \o zd \o host \o p \o path \o x \o ver
<1>0. "GET" \in Symbols /\ " " \in Symbols /\ ":" \in Symbols /\ "/" \in Symbols
  BY ParsedRequestAssumption
<1>1. m \in Strings /\ x \in Strings /\ z \in Strings /\ d \in Strings /\ <<>> \in Strings
  BY <1>0, ShortTexts
<1>2. mx = Cat(m, x) /\ zd = Cat(z, d)
  BY <1>0, TuplesSplit DEF Cat
<1>3. /\ proto \in Strings /\ host \in Strings /\ port \in Strings
      /\ path \in Strings /\ ver \in Strings
  BY DEF Requests
<1>4. PrintedLine(r) = h \o CRLF
  BY DEF PrintedLine
<1>5. LineText(r)
        = Cat(m, Cat(x, Cat(Cat(proto, Cat(z, Cat(d, Cat(Cat(host, p), path)))),
                            Cat(x, ver))))
  BY DEF LineText, Address, Authority, Cat
<1>6. h = Cat(Cat(Cat(Cat(Cat(Cat(Cat(mx, proto), zd), host), p), path), x), ver)
  BY DEF Cat
<1>7. p \in Strings
  BY <1>1, <1>3, ConcatStrings
<1> HIDE DEF proto, host, port, path, ver, m, x, mx, z, d, zd, p, h
<1>8. Cat(Cat(Cat(Cat(Cat(Cat(Cat(Cat(m, x), proto), Cat(z, d)), host), p), path), x),
          ver)
        = Cat(m, Cat(x, Cat(Cat(proto, Cat(z, Cat(d, Cat(Cat(host, p), path)))),
                            Cat(x, ver))))
  <2> DEFINE addr == Cat(proto, Cat(z, Cat(d, Cat(Cat(host, p), path))))
             cd == Cat(z, d)
             c == Cat(Cat(Cat(m, x), proto), cd)
             ee == Cat(Cat(Cat(c, host), p), path)
  <2>1. addr \in Strings /\ c \in Strings /\ cd \in Strings /\ Cat(m, x) \in Strings
    BY <1>1, <1>3, <1>7, CatAssoc
  <2>2. ee = Cat(c, Cat(Cat(host, p), path))
    <3> HIDE DEF c
    <3> QED BY <1>1, <1>3, <1>7, <2>1, CatAssoc
  <2>3. ee = Cat(Cat(m, x), addr)
    <3> DEFINE k == Cat(Cat(host, p), path)
               gs == Cat(m, x)
    <3>1. k \in Strings /\ gs \in Strings
      BY <1>1, <1>3, <1>7, CatAssoc
    <3>2. addr = Cat(proto, Cat(z, Cat(d, k))) /\ ee = Cat(Cat(Cat(gs, proto), cd), k)
      BY <2>2
    <3> HIDE DEF k, gs, addr, ee
    <3>3. Cat(z, Cat(d, k)) = Cat(cd, k)
      BY <1>1, <1>3, <1>7, <3>1, CatAssoc
    <3> HIDE DEF cd
    <3>4. Cat(Cat(Cat(gs, proto), cd), k) = Cat(gs, Cat(proto, Cat(cd, k)))
      <4>1. Cat(gs, proto) \in Strings /\ Cat(cd, k) \in Strings
        BY <1>1, <1>3, <1>7, <2>1, <3>1, CatAssoc
      <4>2. Cat(Cat(Cat(gs, proto), cd), k) = Cat(Cat(gs, proto), Cat(cd, k))
        BY <1>1, <1>3, <1>7, <2>1, <3>1, <4>1, CatAssoc
      <4>3. Cat(Cat(gs, proto), Cat(cd, k)) = Cat(gs, Cat(proto, Cat(cd, k)))
        BY <1>1, <1>3, <1>7, <3>1, <4>1, CatAssoc
      <4> QED BY <4>2, <4>3
    <3>5. ee = Cat(gs, addr)
      BY <3>2, <3>3, <3>4
    <3> QED BY <3>5 DEF gs
  <2> HIDE DEF addr, ee
  <2>4. Cat(Cat(Cat(Cat(m, x), addr), x), ver) = Cat(m, Cat(x, Cat(addr, Cat(x, ver))))
    <3> DEFINE w == Cat(x, ver)
    <3>1. /\ w \in Strings /\ Cat(m, x) \in Strings /\ Cat(Cat(m, x), addr) \in Strings
          /\ Cat(addr, w) \in Strings
      BY <1>1, <1>3, <1>7, <2>1, CatAssoc
    <3>2. Cat(Cat(Cat(Cat(m, x), addr), x), ver) = Cat(Cat(Cat(m, x), addr), w)
      BY <1>1, <1>3, <1>7, <3>1, CatAssoc
    <3> HIDE DEF w
    <3>3. Cat(Cat(Cat(m, x), addr), w) = Cat(Cat(m, x), Cat(addr, w))
      BY <1>1, <1>3, <1>7, <2>1, <3>1, CatAssoc
    <3>4. Cat(Cat(m, x), Cat(addr, w)) = Cat(m, Cat(x, Cat(addr, w)))
      BY <1>1, <1>3, <1>7, <3>1, CatAssoc
    <3> QED BY <3>2, <3>3, <3>4 DEF w
  <2>5. Cat(Cat(ee, x), ver) = Cat(m, Cat(x, Cat(addr, Cat(x, ver))))
    BY <2>3, <2>4
  <2> QED BY <2>5 DEF addr, ee, c, cd
<1>9. LineText(r) = h
  BY <1>2, <1>5, <1>6, <1>8
<1> QED BY <1>4, <1>9

(* strtok_r on the address finds the protocol, the authority and the path.   *)
LEMMA AddressRead ==
  ASSUME NEW r \in Requests, GoodRequest(r)
  PROVE  LET protocol  == Strtok(Address(r), {":", "/"})
             authority == Strtok(protocol.rest, {"/"})
         IN /\ protocol.token = r.protocol /\ protocol.end = Len(r.protocol) + 1
            /\ authority.token = Authority(r) /\ <<"/">> \o authority.rest = r.path
<1> DEFINE proto == r.protocol
           path  == r.path
           auth  == Authority(r)
           d == <<"/", "/">>
           z == <<":">>
           e == auth \o path
           f == d \o e
           g == z \o f
<1>1. /\ proto \in Strings /\ proto # <<>> /\ Without(proto, {":", "/"})
      /\ path \in Strings /\ path # <<>> /\ path[1] = "/"
  <2>1. Without(proto, {":", "/"})
    BY DEF GoodRequest, Without
  <2> QED BY <2>1 DEF Requests, GoodRequest
<1>2. auth \in Strings /\ auth # <<>> /\ Without(auth, {"/"})
  BY AuthorityText
<1>3. d \in Strings /\ d # <<>> /\ \A i \in 1..Len(d) : d[i] = "/"
  BY TwoSlashes
<1>4. ":" \in Symbols
  BY ParsedRequestAssumption
<1>5. Address(r) = proto \o g
  BY DEF Address
<1> HIDE DEF proto, path, auth, d
<1>6. e \in Strings /\ e # <<>>
  BY <1>1, <1>2, ConcatStrings, ConcatNonEmpty
<1>7. f \in Strings /\ f # <<>>
  <2> HIDE DEF e
  <2> QED BY <1>3, <1>6, ConcatStrings, ConcatNonEmpty
<1>8. g \in Strings /\ g # <<>> /\ g[1] = ":" /\ From(g, 2) = f
  <2> HIDE DEF f
  <2> QED BY <1>4, <1>7, SymbolAndRest
<1> HIDE DEF g
<1>9. PICK delim : delim = {":", "/"}
  OBVIOUS
<1>10. PICK slash : slash = {"/"}
  OBVIOUS
<1>11. Without(proto, delim) /\ g[1] \in delim
  BY <1>1, <1>8, <1>9
<1>12. /\ Strtok(proto \o g, delim).token = proto
       /\ Strtok(proto \o g, delim).rest = From(g, 2)
       /\ Strtok(proto \o g, delim).end = Len(proto) + 1
  BY <1>1, <1>8, <1>11, StrtokFirst
<1>13. /\ Without(auth, slash) /\ path[1] \in slash /\ \A i \in 1..Len(d) : d[i] \in slash
  BY <1>1, <1>2, <1>3, <1>10
<1>14. /\ Strtok(d \o (auth \o path), slash).token = auth
       /\ Strtok(d \o (auth \o path), slash).rest = From(path, 2)
  BY <1>1, <1>2, <1>3, <1>13, StrtokMiddle
<1>15. <<"/">> \o From(path, 2) = path
  BY <1>1, SlashAndRest
<1>16. /\ Strtok(Address(r), delim).token = proto /\ Strtok(Address(r), delim).rest = f
       /\ Strtok(Address(r), delim).end = Len(proto) + 1
  BY <1>5, <1>8, <1>12
<1>17. /\ Strtok(f, slash).token = auth /\ Strtok(f, slash).rest = From(path, 2)
  BY <1>14 DEF f, e
<1> HIDE DEF f
<1>18. /\ Strtok(Strtok(Address(r), delim).rest, slash).token = auth
       /\ Strtok(Strtok(Address(r), delim).rest, slash).rest = From(path, 2)
  BY <1>16, <1>17
<1> QED BY <1>9, <1>10, <1>15, <1>16, <1>18 DEF proto, path, auth

(* On the line it finds the method, the address and the version.             *)
LEMMA LineRead ==
  ASSUME NEW r \in Requests, GoodRequest(r)
  PROVE  LET method    == Strtok(LineText(r), {" "})
             full_addr == Strtok(method.rest, {" "})
         IN /\ method.token = <<"GET">>
            /\ full_addr.token = Address(r) /\ full_addr.rest = r.version
            /\ ~(full_addr.end > Len(method.rest))
<1> DEFINE ver == r.version
           a == Address(r)
           m == <<"GET">>
           x == <<" ">>
           e == x \o ver
           f == a \o e
           g == x \o f
<1>1. ver \in Strings /\ ver # <<>> /\ a \in Strings /\ a # <<>> /\ Without(a, {" "})
  BY AddressText DEF Requests, GoodRequest
<1>2. " " \in Symbols /\ "GET" \in Symbols
  BY ParsedRequestAssumption
<1>3. m \in Strings /\ m # <<>> /\ Without(m, {" "})
  <2>1. "GET" \notin {" "}
    OBVIOUS
  <2>2. m \in Strings /\ m # <<>> /\ \A S : "GET" \notin S => Without(m, S)
    BY <1>2, OneSymbol
  <2> QED BY <2>1, <2>2, Zenon
<1>4. LineText(r) = m \o g
  BY DEF LineText
<1> HIDE DEF ver, a, m
<1>5. /\ e \in Strings /\ e # <<>> /\ e[1] = " " /\ From(e, 2) = ver
      /\ Len(e) = 1 + Len(ver) /\ Len(ver) \in Nat
  BY <1>1, <1>2, SymbolAndRest
<1> HIDE DEF e
<1>6. f \in Strings /\ f # <<>> /\ Len(f) = Len(a) + Len(e) /\ Len(a) \in Nat
  BY <1>1, <1>5, ConcatStrings, ConcatNonEmpty
<1>7. g \in Strings /\ g # <<>> /\ g[1] = " " /\ From(g, 2) = f
  <2> HIDE DEF f
  <2> QED BY <1>2, <1>6, SymbolAndRest
<1> HIDE DEF g
<1>8. PICK space : space = {" "}
  OBVIOUS
<1>9. Without(m, space) /\ Without(a, space) /\ g[1] \in space /\ e[1] \in space
  BY <1>1, <1>3, <1>5, <1>7, <1>8
<1>10. Strtok(m \o g, space).token = m /\ Strtok(m \o g, space).rest = From(g, 2)
  BY <1>3, <1>7, <1>9, StrtokFirst
<1>11. /\ Strtok(a \o e, space).token = a /\ Strtok(a \o e, space).rest = From(e, 2)
       /\ Strtok(a \o e, space).end = Len(a) + 1
  <2>1. a \in Strings /\ a # <<>> /\ e \in Strings /\ e # <<>> /\ Without(a, space)
        /\ e[1] \in space
    BY <1>1, <1>5, <1>9
  <2> QED BY <2>1, StrtokFirst
<1>12. ~(Strtok(f, space).end > Len(f))
  <2>1. Strtok(f, space).end = Len(a) + 1
    BY <1>11 DEF f
  <2>2. PICK n \in Nat, k \in Nat : n = Len(a) /\ k = Len(ver)
    BY <1>5, <1>6
  <2> HIDE DEF f
  <2>3. Len(f) = n + (1 + k)
    BY <1>5, <1>6, <2>2
  <2>4. ~(n + 1 > n + (1 + k))
    BY <2>2
  <2> QED BY <2>1, <2>2, <2>3, <2>4
<1>13. Strtok(f, space).token = a /\ Strtok(f, space).rest = ver
  BY <1>5, <1>11 DEF f
<1> HIDE DEF f
<1>14. Strtok(LineText(r), space).token = m /\ Strtok(LineText(r), space).rest = f
  BY <1>4, <1>7, <1>10
<1> QED BY <1>8, <1>12, <1>13, <1>14 DEF m, a, ver

(* The length the length of the host is compared with: up to the NUL behind  *)
(* the address, whatever follows it.                                         *)
Memory(a, v, n) == [a \o <<"nul">> \o v \o <<"nul">> EXCEPT ![n] = "nul"]

(* Texts and the NULs written behind and into them.                          *)
NulTexts == Seq(Symbols \cup {"nul"})

(* The memory that the length of the URI is taken of, which holds NULs.      *)
LEMMA ConcatPlaces ==
  ASSUME NEW s \in NulTexts, NEW t \in NulTexts
  PROVE  /\ s \o t \in NulTexts
         /\ Len(s \o t) = Len(s) + Len(t)
         /\ Len(s) \in Nat /\ Len(t) \in Nat
         /\ \A i \in 1..Len(s) : (s \o t)[i] = s[i]
         /\ \A i \in 1..Len(t) : (s \o t)[Len(s) + i] = t[i]
<1>1. Len(s) \in Nat /\ Len(t) \in Nat
  BY LenProperties DEF NulTexts
<1>2. /\ s \o t \in NulTexts /\ Len(s \o t) = Len(s) + Len(t)
      /\ \A i \in 1..(Len(s) + Len(t)) :
           (s \o t)[i] = IF i <= Len(s) THEN s[i] ELSE t[i - Len(s)]
  BY ConcatProperties DEF NulTexts
<1>3. ASSUME NEW i \in 1..Len(s)
      PROVE  (s \o t)[i] = s[i]
  <2>1. i \in 1..(Len(s) + Len(t)) /\ i <= Len(s)
    BY <1>1
  <2> QED BY <2>1, <1>2
<1>4. ASSUME NEW i \in 1..Len(t)
      PROVE  (s \o t)[Len(s) + i] = t[i]
  <2>1. /\ Len(s) + i \in 1..(Len(s) + Len(t)) /\ ~ (Len(s) + i <= Len(s))
        /\ (Len(s) + i) - Len(s) = i
    BY <1>1
  <2> QED BY <2>1, <1>2
<1> QED BY <1>1, <1>2, <1>3, <1>4

(* The URI ends behind the address when it begins inside it, behind the NUL. *)
LEMMA UriLen ==
  ASSUME NEW a \in Strings, NEW v \in Strings, NEW n \in Nat \ {0}, NEW k \in Nat,
         n < k, k <= Len(a) + 1
  PROVE  IndexOf(Memory(a, v, n), k, {"nul"}) = Len(a) + 1
<1> DEFINE x == <<"nul">>
           b == a \o x
           c == b \o v
           d == c \o x
           u == [d EXCEPT ![n] = "nul"]
           l == Len(a)
<1>1. /\ a \in NulTexts /\ v \in NulTexts /\ x \in NulTexts
      /\ Len(x) = 1 /\ x[1] = "nul"
  <2> DEFINE T == Symbols \cup {"nul"}
  <2>1. a \in Seq(Symbols) /\ v \in Seq(Symbols)
    BY DEF Strings
  <2>2. Symbols \subseteq T /\ "nul" \in T
    OBVIOUS
  <2> HIDE DEF T
  <2>3. a \in Seq(T) /\ v \in Seq(T) /\ x \in Seq(T)
    BY <2>1, <2>2
  <2> QED BY <2>3 DEF NulTexts, T
<1> HIDE DEF x
<1>l. l \in Nat /\ Len(v) \in Nat
  BY <1>1, LenProperties DEF NulTexts
<1>2. /\ b \in NulTexts /\ Len(b) = l + 1
      /\ \A i \in 1..l : b[i] = a[i]
      /\ b[l + 1] = "nul"
  <2>1. /\ b \in NulTexts /\ Len(b) = Len(a) + Len(x)
        /\ \A i \in 1..Len(a) : b[i] = a[i]
        /\ \A i \in 1..Len(x) : b[Len(a) + i] = x[i]
    BY <1>1, ConcatPlaces
  <2>2. 1 \in 1..Len(x)
    BY <1>1
  <2>3. b[Len(a) + 1] = x[1]
    BY <2>1, <2>2
  <2> QED BY <1>1, <2>1, <2>3
<1> HIDE DEF b, l
<1>3. /\ c \in NulTexts /\ Len(c) = (l + 1) + Len(v)
      /\ \A i \in 1..(l + 1) : c[i] = b[i]
  <2>1. c \in NulTexts /\ Len(c) = Len(b) + Len(v) /\ \A i \in 1..Len(b) : c[i] = b[i]
    BY <1>1, <1>2, ConcatPlaces
  <2> QED BY <1>2, <2>1
<1> HIDE DEF c
<1>4. /\ Len(d) = (l + 1) + Len(v) + 1 /\ d \in NulTexts
      /\ \A i \in 1..(l + 1) : d[i] = c[i]
  <2>1. d \in NulTexts /\ Len(d) = Len(c) + Len(x) /\ \A i \in 1..Len(c) : d[i] = c[i]
    BY <1>1, <1>3, ConcatPlaces
  <2>2. \A i \in 1..(l + 1) : i \in 1..Len(c)
    BY <1>l, <1>3
  <2> QED BY <1>1, <1>3, <2>1, <2>2
<1> HIDE DEF d
<1>5. /\ Len(u) = Len(d)
      /\ \A i \in 1..Len(d) : i # n => u[i] = d[i]
      /\ n \in 1..Len(d) => u[n] = "nul"
  BY <1>4
<1>6. \A i \in 1..l : a[i] # "nul"
  <2>1. \A i \in 1..l : a[i] \in Symbols
    BY DEF Strings, l
  <2> QED BY <2>1, ParsedRequestAssumption
<1> HIDE DEF u
<1>7. n \in 1..Len(d) /\ l + 1 \in 1..Len(d) /\ n < l + 1 /\ n < k /\ k <= l + 1
      /\ \A j \in k..l : j \in 1..l /\ j \in 1..(l + 1) /\ j \in 1..Len(d) /\ j # n
  <2>1. PICK e \in Nat, g \in Nat : e = l /\ g = Len(v)
    BY <1>l
  <2>2. Len(d) = (e + 1) + g + 1 /\ k <= e + 1
    BY <1>4, <2>1 DEF l
  <2> QED BY <2>1, <2>2
<1>8. u[l + 1] = "nul"
  <2>1. l + 1 \in 1..(l + 1) /\ l + 1 # n
    BY <1>l, <1>7
  <2>2. d[l + 1] = "nul"
    BY <1>2, <1>3, <1>4, <2>1
  <2> QED BY <1>5, <1>7, <2>1, <2>2
<1>9. ASSUME NEW j \in k..l
      PROVE  u[j] # "nul"
  <2>1. u[j] = d[j]
    BY <1>5, <1>7
  <2>2. d[j] = a[j]
    BY <1>2, <1>3, <1>4, <1>7
  <2> QED BY <1>6, <1>7, <2>1, <2>2
<1>10. IndexOf(u, k, {"nul"}) = l + 1
  <2>1. PICK S : S = {"nul"}
    OBVIOUS
  <2>2. PICK e \in Nat : e = l + 1
    BY <1>l
  <2>3. Len(u) \in Nat /\ k \in Nat \ {0} /\ e \in k..Len(u)
    <3>1. Len(u) = Len(d) /\ Len(d) \in Nat
      BY <1>4, <1>5, LenProperties DEF NulTexts
    <3> QED BY <1>7, <2>2, <3>1
  <2>4. u[e] \in S
    BY <1>8, <2>1, <2>2
  <2>5. ASSUME NEW j \in k..(e - 1)
        PROVE  u[j] \notin S
    <3>1. j \in k..l
      BY <1>l, <2>2
    <3> QED BY <1>9, <2>1, <3>1
  <2>6. IndexOf(u, k, S) = e
    BY <2>3, <2>4, <2>5, IndexAt
  <2> QED BY <2>1, <2>2, <2>6
<1> QED BY <1>10 DEF Memory, u, d, c, b, x, l

(* A request line that was printed is accepted, whatever lies beyond the     *)
(* buffer, and gives the fields it was printed from.                         *)
LEMMA LineReparses ==
  ASSUME NEW r \in Requests, GoodRequest(r), NEW beyond
  PROVE  /\ Acceptable(LineFields(LineText(r), beyond))
         /\ Request(LineFields(LineText(r), beyond)) = r
<1> DEFINE s == LineText(r)
           method    == Strtok(s, {" "})
           full_addr == Strtok(method.rest, {" "})
           version   == IF full_addr.end > Len(method.rest) THEN beyond ELSE full_addr.rest
           protocol  == Strtok(full_addr.token, {":", "/"})
           memory    == Memory(full_addr.token, version, protocol.end)
           rem       == Len(protocol.token) + 4
           authority == Strtok(protocol.rest, {"/"})
           host      == Strtok(authority.token, {":"})
           len       == IndexOf(memory, rem, {"nul"}) - rem
           path      == <<"/">> \o authority.rest
           f         == LineFields(s, beyond)
<1>1. /\ method.token = <<"GET">> /\ full_addr.token = Address(r)
      /\ full_addr.rest = r.version /\ ~(full_addr.end > Len(method.rest))
  BY LineRead
<1>2. f = [method |-> method.token, protocol |-> protocol.token, host |-> host.token,
           port |-> host.rest, path |-> path, version |-> version,
           authority |-> authority.token, abs_uri_len |-> len]
  BY Zenon DEF LineFields, Memory
<1> HIDE DEF f
<1>3. /\ f.method = method.token /\ f.protocol = protocol.token /\ f.host = host.token
      /\ f.port = host.rest /\ f.path = path /\ f.version = version
      /\ f.authority = authority.token /\ f.abs_uri_len = len
  <2> HIDE DEF method, protocol, host, path, version, authority, len
  <2> QED BY <1>2
<1>4. version = r.version
  BY <1>1
<1> HIDE DEF method, version
<1>5. /\ protocol.token = r.protocol /\ protocol.end = Len(r.protocol) + 1
      /\ authority.token = Authority(r) /\ path = r.path
  BY <1>1, AddressRead
<1>6. host.token = r.host /\ host.rest = r.port
  <2>1. authority.token = Authority(r)
    BY <1>5
  <2> HIDE DEF authority
  <2> QED BY <2>1, AuthorityText
<1>7. len = Len(Authority(r)) + Len(r.path) /\ Len(Authority(r)) # len
  <2> DEFINE n == Len(r.protocol)
             a == Len(Address(r))
             b == Len(Authority(r))
             c == Len(r.path)
             x == n + 1
             k == n + 4
  <2>1. memory = Memory(Address(r), r.version, x) /\ rem = k
    BY <1>1, <1>4, <1>5
  <2>2. Address(r) \in Strings /\ r.version \in Strings
    BY AddressText DEF Requests
  <2>3. a = n + 3 + b + c /\ n \in Nat /\ b \in Nat /\ c \in Nat \ {0}
    BY AddressText
  <2> HIDE DEF n, b, c, a, memory, rem
  <2>4. /\ x \in Nat \ {0} /\ k \in Nat /\ x < k /\ k <= a + 1 /\ (a + 1) - k = b + c
        /\ b # b + c
    BY <2>3
  <2> HIDE DEF x, k
  <2>5. IndexOf(Memory(Address(r), r.version, x), k, {"nul"}) = Len(Address(r)) + 1
    <3>1. k <= Len(Address(r)) + 1
      BY <2>4 DEF a
    <3> QED BY <2>2, <2>4, <3>1, UriLen
  <2>6. IndexOf(memory, rem, {"nul"}) = a + 1
    BY <2>1, <2>5 DEF a
  <2>7. len = b + c
    BY <2>1, <2>4, <2>6
  <2> HIDE DEF len
  <2> QED BY <2>4, <2>7 DEF b, c
<1> HIDE DEF protocol, authority, host, path, len
<1>8. Acceptable(f)
  <2>1. Len(Authority(r)) # len
    BY <1>7
  <2>2. /\ r.version # <<>> /\ r.version[1] = "HTTP/" /\ r.protocol # <<>>
        /\ r.host # <<>> /\ ~IsPrefix(<<"/", "/">>, r.path)
    BY DEF GoodRequest
  <2> QED BY <1>1, <1>3, <1>4, <1>5, <1>6, <2>1, <2>2 DEF Acceptable
<1>9. Request(f) = r
  <2>1. /\ f.protocol = r.protocol /\ f.host = r.host /\ f.port = r.port
        /\ f.path = r.path /\ f.version = r.version
    BY <1>3, <1>4, <1>5, <1>6
  <2>2. r = [protocol |-> r.protocol, host |-> r.host, port |-> r.port, path |-> r.path,
             version |-> r.version]
    BY DEF Requests
  <2> QED BY <2>1, <2>2 DEF Request
<1> QED BY <1>8, <1>9 DEF f, s

-----------------------------------------------------------------------------
(* The first line of a text has no end of a line in it.                      *)
LEMMA FirstLineIsOne ==
  ASSUME NEW s \in Strings, Occurrences(s, CRLF) # {}
  PROVE  /\ SubSeq(s, 1, Strstr(s, CRLF) - 1) \in Strings
         /\ OneLine(SubSeq(s, 1, Strstr(s, CRLF) - 1))
<1>1. PICK n \in Nat : n = Len(s)
  BY LenProperties DEF Strings
<1>2. PICK m \in 1..(n - 1) : s[m] = "cr" /\ s[m + 1] = "lf"
  BY <1>1, LineEndAmong
<1>3. m \in 1..(Len(s) - 1)
  BY <1>1
<1> DEFINE q == Strstr(s, CRLF)
<1>4. q \in 1..m /\ \A i \in 1..(q - 1) : ~(s[i] = "cr" /\ s[i + 1] = "lf")
  BY <1>2, <1>3, FirstLineEnd, LineEndBefore
<1> HIDE DEF q
<1> DEFINE t == SubSeq(s, 1, q - 1)
<1>5. PICK l \in Nat : l = q - 1 /\ l <= n
  BY <1>4
<1>6. t \in Strings /\ Len(t) = l /\ \A i \in 1..l : t[i] = s[i]
  <2>1. /\ t \in Strings
        /\ Len(t) = IF 1 <= l THEN l - 1 + 1 ELSE 0
        /\ \A i \in 1..(l - 1 + 1) : t[i] = s[1 + i - 1]
    BY <1>1, <1>5, SubString
  <2> QED BY <1>5, <2>1
<1> HIDE DEF t
<1>7. OneLine(t)
  <2> SUFFICES ASSUME NEW i \in 1..(l - 1)
               PROVE  ~(t[i] = "cr" /\ t[i + 1] = "lf")
    BY <1>6 DEF OneLine
  <2>1. i \in 1..l /\ i + 1 \in 1..l /\ i \in 1..(q - 1)
    BY <1>5
  <2> QED BY <1>4, <1>6, <2>1
<1> QED BY <1>6, <1>7 DEF t, q

(* A key ends before the first colon, a value before the first end of a line.*)
LEMMA HeaderPlain ==
  ASSUME NEW s \in Strings, NEW beyond \in Strings, HasColon(s), HasValue(s, beyond)
  PROVE  Without(HeaderKey(s), {":"}) /\ OneLine(HeaderValue(s, beyond))
<1>1. PICK n \in Nat : n = Len(s)
  BY LenProperties DEF Strings
<1>2. PICK c \in 1..n : c = IndexOf(s, 1, {":"})
  <2>1. \E j \in 1..Len(s) : s[j] \in {":"}
    BY LenProperties DEF HasColon, Strings
  <2>2. IndexOf(s, 1, {":"}) \in Nat \ {0} /\ IndexOf(s, 1, {":"}) <= Len(s)
    BY <2>1, IndexIs
  <2> QED BY <1>1, <2>2
<1>3. \A j \in 1..(c - 1) : s[j] \notin {":"}
  <2>1. 1 \in Nat \ {0} /\ 1 <= Len(s) + 1
    BY <1>1
  <2> QED BY <2>1, <1>2, IndexBefore
<1>4. Without(SubSeq(s, 1, c - 1), {":"})
  <2> DEFINE k == SubSeq(s, 1, c - 1)
  <2>1. c - 1 \in Int /\ c - 1 <= Len(s) /\ 1 \in Nat \ {0} /\ (c - 1) - 1 + 1 = c - 1
    BY <1>1
  <2>2. /\ Len(k) = IF 1 <= c - 1 THEN (c - 1) - 1 + 1 ELSE 0
        /\ \A i \in 1..((c - 1) - 1 + 1) : k[i] = s[1 + i - 1]
    BY <2>1, SubString
  <2> HIDE DEF k
  <2>3. \A i \in 1..Len(k) : i \in 1..(c - 1) /\ 1 + i - 1 = i
    BY <2>1, <2>2
  <2>4. \A i \in 1..Len(k) : k[i] = s[i] /\ i \in 1..(c - 1)
    BY <2>1, <2>2, <2>3
  <2>5. Without(k, {":"})
    BY <1>3, <2>4 DEF Without
  <2> QED BY <2>5 DEF k
<1>5. OneLine(HeaderValue(s, beyond))
  <2> DEFINE v == AfterColon(s, beyond)
  <2>1. v \in Strings
    BY ColonSplits
  <2>2. Occurrences(v, CRLF) # {}
    BY DEF HasValue
  <2>3. HeaderValue(s, beyond) = SubSeq(v, 1, Strstr(v, CRLF) - 1)
    BY DEF HeaderValue
  <2> HIDE DEF v
  <2> QED BY <2>1, <2>2, <2>3, FirstLineIsOne
<1> QED BY <1>2, <1>4, <1>5 DEF HeaderKey

(* What follows the key of a header that was printed.                        *)
Behind(h, z) == <<":", " ">> \o (h.value \o (CRLF \o z))

(* The colon and the space behind a key, and what follows a key.             *)
LEMMA ColonSpace ==
  /\ <<":", " ">> \in Strings /\ Len(<<":", " ">>) = 2 /\ <<":", " ">> # <<>>
  /\ <<":", " ">>[1] = ":" /\ <<":", " ">>[Len(<<":", " ">>)] = " "
  /\ OneLine(<<":", " ">>)
<1> DEFINE d == <<":", " ">>
<1>1. d \in Strings /\ Len(d) = 2 /\ d[1] = ":" /\ d[2] = " "
  <2>1. ":" \in Symbols /\ " " \in Symbols
    BY ParsedRequestAssumption
  <2> QED BY <2>1, ShortTexts
<1>2. d # <<>>
  <2>1. d = <<":">> \o <<" ">> /\ ":" \in Symbols /\ <<" ">> \in Strings
    BY ParsedRequestAssumption, TuplesSplit, ShortTexts
  <2>2. <<":">> \o <<" ">> # <<>>
    BY <2>1, SymbolAndRest
  <2> QED BY <2>1, <2>2
<1> HIDE DEF d
<1>l. PICK n \in Nat : n = Len(d) /\ n = 2
  <2> DEFINE n == Len(d)
  <2>1. n = 2
    BY <1>1
  <2> HIDE DEF n
  <2>2. n \in Nat
    BY <2>1
  <2> QED BY <2>1, <2>2 DEF n
<1>4. d[Len(d)] = " "
  BY <1>1
<1>3. OneLine(d)
  <2>2. n - 1 = 1
    BY <1>l
  <2>3. d[1] # "cr"
    BY <1>1
  <2>4. \A i \in 1..(n - 1) : ~(d[i] = "cr" /\ d[i + 1] = "lf")
    BY <2>2, <2>3
  <2> QED BY <1>l, <2>4 DEF OneLine
<1> QED BY <1>1, <1>2, <1>3, <1>4 DEF d

(* Behind a key is a line that begins with the colon.                        *)
LEMMA BehindIs ==
  ASSUME NEW h \in [key : Strings, value : Strings], OneLine(h.value), NEW z \in Strings
  PROVE  \E w \in Strings : /\ w # <<>> /\ OneLine(w) /\ w[1] = ":"
                            /\ Behind(h, z) = w \o (CRLF \o z)
<1> DEFINE d == <<":", " ">>
           v == h.value
           c == CRLF \o z
           w == d \o v
<1>1. v \in Strings /\ OneLine(v)
  OBVIOUS
<1>2. d \in Strings /\ d # <<>> /\ OneLine(d) /\ d[1] = ":" /\ d[Len(d)] = " "
  BY ColonSpace
<1>3. c \in Strings
  BY LineEnd, ConcatStrings
<1>4. Behind(h, z) = d \o (v \o c)
  BY DEF Behind
<1> HIDE DEF d, v, c
<1>5. w \in Strings /\ w # <<>> /\ OneLine(w) /\ w[1] = ":"
  <2>1. d[Len(d)] # "cr"
    BY <1>2
  <2> QED BY <1>1, <1>2, <2>1, ConcatStrings, ConcatNonEmpty, ConcatOneLine, FirstOfConcat
<1>6. (d \o v) \o c = d \o (v \o c)
  <2>1. Cat(Cat(d, v), c) = Cat(d, Cat(v, c))
    BY <1>1, <1>2, <1>3, CatAssoc
  <2> QED BY <2>1 DEF Cat
<1> QED BY <1>4, <1>5, <1>6 DEF c

(* A printed header is its key and what follows it; it is read as it was.    *)
LEMMA PrintedHeaderBehind ==
  ASSUME NEW h \in [key : Strings, value : Strings], NEW z \in Strings
  PROVE  PrintedHeader(h) \o z = h.key \o Behind(h, z) /\ h.key \o Behind(h, z) \in Strings
<1> DEFINE x == <<":", " ">>
           k == h.key
           v == h.value
           e == CRLF
           r == Cat(e, z)
           w == Cat(v, r)
<1>1. x \in Strings /\ k \in Strings /\ v \in Strings /\ e \in Strings
  BY ColonSpace, LineEnd
<1>2. PrintedHeader(h) \o z = Cat(Cat(Cat(Cat(k, x), v), e), z)
  BY DEF PrintedHeader, Cat
<1>3. h.key \o Behind(h, z) = Cat(k, Cat(x, w))
  BY DEF Behind, Cat
<1> HIDE DEF x, k, v, e
<1>4. /\ Cat(k, x) \in Strings /\ Cat(Cat(k, x), v) \in Strings /\ r \in Strings /\ w \in Strings
  BY <1>1, CatAssoc
<1>5. Cat(Cat(Cat(Cat(k, x), v), e), z) = Cat(Cat(Cat(k, x), v), r)
  BY <1>1, <1>4, CatAssoc
<1> HIDE DEF r
<1>6. Cat(Cat(Cat(k, x), v), r) = Cat(Cat(k, x), w)
  BY <1>1, <1>4, CatAssoc
<1> HIDE DEF w
<1>7. Cat(Cat(k, x), w) = Cat(k, Cat(x, w))
  BY <1>1, <1>4, CatAssoc
<1>8. Cat(k, Cat(x, w)) \in Strings
  BY <1>1, <1>4, CatAssoc
<1> QED BY <1>2, <1>3, <1>5, <1>6, <1>7, <1>8

(* A printed header read from its front gives its key and its value, when no *)
(* symbol of the key ends a line.                                            *)
LEMMA HeaderReread ==
  ASSUME NEW h \in [key : Strings, value : Strings], NEW z \in Strings,
         OneLine(h.value), Without(h.key, {":"}), Without(h.key, {"cr"})
  PROVE  /\ HeaderKey(h.key \o Behind(h, z)) = h.key
         /\ \A beyond : HeaderValue(h.key \o Behind(h, z), beyond) = h.value
         /\ NextLine(h.key \o Behind(h, z)) = z
         /\ ~HeadersEnd(h.key \o Behind(h, z))
<1> DEFINE x == <<":", " ">>
           k == h.key
           v == h.value
           r == CRLF \o z
           b == Behind(h, z)
           s == k \o b
           l == Len(k)
<1>1. /\ k \in Strings /\ v \in Strings /\ OneLine(v) /\ Without(k, {":"}) /\ Without(k, {"cr"})
      /\ r \in Strings
  BY LineEnd, ConcatStrings
<1>x. x \in Strings /\ Len(x) = 2 /\ x # <<>>
  BY ColonSpace
<1>2. PICK w \in Strings : w # <<>> /\ OneLine(w) /\ w[1] = ":" /\ b = w \o r
  BY BehindIs
<1>3. b = x \o (v \o r)
  BY DEF Behind
<1>4. b \in Strings /\ b[1] = ":" /\ b # <<>>
  BY <1>1, <1>2, ConcatStrings, ConcatNonEmpty, FirstOfConcat
<1>5. /\ v \o r \in Strings /\ Strstr(v \o r, CRLF) = Len(v) + 1
      /\ SubSeq(v \o r, 1, Len(v)) = v
  BY <1>1, LineAndRest
<1> HIDE DEF x, k, v, r, b
<1>6. /\ s \in Strings /\ s # <<>> /\ l \in Nat /\ Len(s) = l + Len(b) /\ Len(b) \in Nat
      /\ \A i \in 1..l : s[i] = k[i]
      /\ \A i \in 1..Len(b) : s[l + i] = b[i]
  BY <1>1, <1>4, ConcatStrings, ConcatNonEmpty
<1>7. 1 \in 1..Len(b)
  BY <1>4, <1>6, EmptySeq DEF Strings
<1>8. SubSeq(s, 1, l) = k
  BY <1>1, <1>4, ConcatSubStrings
<1>9. IndexOf(s, 1, {":"}) = l + 1
  <2> HIDE DEF s, l
  <2>1. PICK n \in Nat \ {0} : n = l + 1
    BY <1>6
  <2>2. PICK S : S = {":"}
    OBVIOUS
  <2>3. n \in 1..Len(s) /\ 1 \in Nat \ {0} /\ Len(s) \in Nat
    BY <1>6, <1>7, <2>1
  <2>4. s[n] \in S
    BY <1>4, <1>6, <1>7, <2>1, <2>2
  <2>5. ASSUME NEW j \in 1..(n - 1)
        PROVE  s[j] \notin S
    <3>1. j \in 1..l
      BY <1>6, <2>1
    <3> QED BY <1>1, <1>6, <2>2, <3>1 DEF Without, l
  <2>6. IndexOf(s, 1, S) = n
    BY <2>3, <2>4, <2>5, IndexAt
  <2> QED BY <2>1, <2>2, <2>6
<1>10. HeaderKey(s) = k
  <2> HIDE DEF s, l
  <2>1. (l + 1) - 1 = l
    BY <1>6
  <2> QED BY <1>8, <1>9, <2>1 DEF HeaderKey
<1>11. From(s, l + 3) = v \o r
  <2> DEFINE y == v \o r
             kx == k \o x
  <2>1. s = kx \o y
    <3>1. Cat(Cat(k, x), y) = Cat(k, Cat(x, y))
      BY <1>1, <1>x, <1>5, CatAssoc
    <3> QED BY <1>3, <3>1 DEF Cat
  <2>2. kx \in Strings /\ Len(kx) = l + Len(x)
    BY <1>1, <1>x, ConcatStrings
  <2>3. y \in Strings
    BY <1>5
  <2> HIDE DEF kx, y, s
  <2>4. From(s, Len(kx) + 1) = y
    BY <2>1, <2>2, <2>3, ConcatSubStrings
  <2>5. Len(kx) + 1 = l + 3
    <3> HIDE DEF l
    <3> QED BY <1>x, <1>6, <2>2
  <2> QED BY <2>4, <2>5 DEF y
<1>12. ASSUME NEW beyond
       PROVE  HeaderValue(s, beyond) = v
  <2>0. l + 1 # Len(s)
    <3>1. Len(b) >= 2
      <4>1. Len(b) = Len(x) + Len(v \o r) /\ Len(v \o r) \in Nat
        BY <1>3, <1>5, <1>x, ConcatStrings
      <4> QED BY <4>1, <1>x
    <3> HIDE DEF s, l
    <3> QED BY <3>1, <1>6
  <2> HIDE DEF s, l
  <2>1. (l + 1) + 2 = l + 3
    BY <1>6
  <2>2. PICK n \in Nat : n = Len(v)
    BY <1>1, LenProperties DEF Strings
  <2>3. (n + 1) - 1 = n
    BY <2>2
  <2>4. AfterColon(s, beyond) = v \o r
    BY <1>9, <1>11, <2>0, <2>1 DEF AfterColon
  <2>5. HeaderValue(s, beyond) = SubSeq(v \o r, 1, Strstr(v \o r, CRLF) - 1)
    BY <2>4 DEF HeaderValue
  <2> QED BY <1>5, <2>2, <2>3, <2>5
<1>13. OneLine(k)
  BY <1>1, <1>6 DEF OneLine, Without
<1>14. NextLine(s) = z
  <2> DEFINE kw == k \o w
  <2>1. w[1] # "lf"
    BY <1>2
  <2>2. kw \in Strings /\ OneLine(kw)
    BY <1>1, <1>2, <1>13, <2>1, ConcatStrings, ConcatOneLine
  <2>3. s = kw \o r
    <3>1. Cat(Cat(k, w), r) = Cat(k, Cat(w, r))
      BY <1>1, <1>2, CatAssoc
    <3> QED BY <1>2, <3>1 DEF Cat
  <2> HIDE DEF kw, s
  <2>4. NextLine(kw \o (CRLF \o z)) = z
    BY <2>2, LineAndRest
  <2> QED BY <2>3, <2>4 DEF r
<1>15. s[1] # "cr"
  <2>1. CASE l = 0
    BY <1>4, <1>6, <1>7, <2>1
  <2>2. CASE l # 0
    <3>1. 1 \in 1..l
      BY <1>6, <2>2
    <3> QED BY <1>1, <1>6, <3>1 DEF Without
  <2> QED BY <2>1, <2>2
<1>16. ~HeadersEnd(s)
  <2> HIDE DEF s
  <2>1. ASSUME IsPrefix(CRLF, s)
        PROVE  FALSE
    <3>1. Len(CRLF) <= Len(s) /\ SubSeq(CRLF, 1, Len(CRLF)) = SubSeq(s, 1, Len(CRLF))
      BY <2>1 DEF IsPrefix
    <3>2. SubSeq(CRLF, 1, 2) = SubSeq(s, 1, 2) /\ 2 <= Len(s)
      BY <3>1, LineEnd
    <3>3. \A i \in 1..(2 - 1 + 1) : SubSeq(s, 1, 2)[i] = s[1 + i - 1]
      BY <1>6, <3>2, SubString
    <3>4. \A i \in 1..(2 - 1 + 1) : SubSeq(CRLF, 1, 2)[i] = CRLF[1 + i - 1]
      BY LineEnd, SubString
    <3>5. SubSeq(s, 1, 2)[1] = s[1] /\ SubSeq(CRLF, 1, 2)[1] = "cr"
      BY <3>3, <3>4, LineEnd
    <3> QED BY <1>15, <3>2, <3>5
  <2> QED BY <1>6, <2>1 DEF HeadersEnd
<1> QED BY <1>10, <1>12, <1>14, <1>16 DEF s, k, v, b

(* Whatever comes before the colon of a printed header, the line after it    *)
(* begins before that colon, or behind the header.                           *)
LEMMA ReadAhead ==
  ASSUME NEW h \in [key : Strings, value : Strings], NEW z \in Strings, NEW t \in Strings,
         OneLine(h.value)
  PROVE  /\ t \o Behind(h, z) \in Strings /\ HasColon(t \o Behind(h, z))
         /\ t \o Behind(h, z) # <<>>
         /\ \/ NextLine(t \o Behind(h, z)) = z
            \/ \E u \in Strings : NextLine(t \o Behind(h, z)) = u \o Behind(h, z)
<1> DEFINE r == CRLF \o z
           b == Behind(h, z)
           s == t \o b
           l == Len(t)
<1>1. r \in Strings
  BY LineEnd, ConcatStrings
<1>2. PICK w \in Strings : w # <<>> /\ OneLine(w) /\ w[1] = ":" /\ b = w \o r
  BY BehindIs
<1> HIDE DEF r, b
<1>3. b \in Strings /\ b[1] = ":" /\ b # <<>>
  BY <1>1, <1>2, ConcatStrings, ConcatNonEmpty, FirstOfConcat
<1>4. /\ s \in Strings /\ s # <<>> /\ l \in Nat /\ Len(s) = l + Len(b) /\ Len(b) \in Nat
      /\ \A i \in 1..l : s[i] = t[i]
      /\ \A i \in 1..Len(b) : s[l + i] = b[i]
  BY <1>3, ConcatStrings, ConcatNonEmpty
<1>5. 1 \in 1..Len(b)
  BY <1>3, <1>4, EmptySeq DEF Strings
<1>6. HasColon(s)
  <2> HIDE DEF s, l
  <2>1. PICK n \in Nat : n = l + 1
    BY <1>4
  <2>2. n \in 1..Len(s) /\ s[n] = ":"
    BY <1>3, <1>4, <1>5, <2>1
  <2>3. n \in DOMAIN s
    BY <1>4, <2>2, LenProperties DEF Strings
  <2> QED BY <2>2, <2>3 DEF HasColon
<1>7. CASE OneLine(t)
  <2> DEFINE kw == t \o w
  <2>1. w[1] # "lf"
    BY <1>2
  <2>2. kw \in Strings /\ OneLine(kw)
    BY <1>2, <1>7, <2>1, ConcatStrings, ConcatOneLine
  <2>3. s = kw \o r
    <3>1. Cat(Cat(t, w), r) = Cat(t, Cat(w, r))
      BY <1>1, <1>2, CatAssoc
    <3> QED BY <1>2, <3>1 DEF Cat
  <2> HIDE DEF kw, s
  <2>4. NextLine(kw \o (CRLF \o z)) = z
    BY <2>2, LineAndRest
  <2>5. NextLine(s) = z
    BY <2>3, <2>4 DEF r
  <2> QED BY <1>4, <1>6, <2>5 DEF s, b
<1>8. CASE ~OneLine(t)
  <2> HIDE DEF s, l
  <2>1. PICK m \in 1..(Len(t) - 1) : t[m] = "cr" /\ t[m + 1] = "lf"
    BY <1>8 DEF OneLine
  <2>2. PICK n : n = Strstr(t, CRLF)
    OBVIOUS
  <2>3. /\ n \in 1..m /\ t[n] = "cr" /\ t[n + 1] = "lf"
        /\ \A i \in 1..(n - 1) : ~(t[i] = "cr" /\ t[i + 1] = "lf")
    BY <2>1, <2>2, FirstLineEnd, LineEndBefore
  <2>4. m \in 1..(l - 1)
    BY <2>1 DEF l
  <2>5. /\ n \in 1..(Len(s) - 1) /\ n \in 1..l /\ n + 1 \in 1..l
        /\ \A i \in 1..(n - 1) : i \in 1..l /\ i + 1 \in 1..l
    BY <1>4, <2>3, <2>4
  <2>6. s[n] = "cr" /\ s[n + 1] = "lf"
    BY <1>4, <2>3, <2>5
  <2>7. \A i \in 1..(n - 1) : ~(s[i] = "cr" /\ s[i + 1] = "lf")
    BY <1>4, <2>3, <2>5
  <2>8. Strstr(s, CRLF) = n
    BY <1>4, <2>5, <2>6, <2>7, LineEndAt
  <2>9. NextLine(s) = From(s, n + 2)
    BY <2>8 DEF NextLine
  <2>10. PICK q \in Nat \ {0} : q = n + 2 /\ q <= l + 1
    BY <1>4, <2>3, <2>4
  <2>11. From(s, q) = From(t, q) \o b
    <3>1. q \in 1..(Len(t) + 1)
      BY <2>10, <1>4 DEF l
    <3> QED BY <1>3, <3>1, ConcatSubStrings DEF s
  <2>12. From(t, q) \in Strings
    <3>1. l \in Int /\ l <= Len(t) /\ q \in Nat \ {0}
      BY <1>4, <2>10 DEF l
    <3> QED BY <3>1, SubString DEF From, l
  <2>13. \E u \in Strings : NextLine(s) = u \o b
    BY <2>9, <2>10, <2>11, <2>12
  <2> QED BY <1>4, <1>6, <2>13 DEF s, b
<1> QED BY <1>7, <1>8

-----------------------------------------------------------------------------
(* What is left of a print-out of the headers hs before each of them, with z *)
(* behind the last.                                                          *)
Kept == [key : Strings, value : Strings]

TailsTo(g, hs, z) ==
  /\ g \in [0..Len(hs) -> Strings]
  /\ g[Len(hs)] = z
  /\ \A n \in 0..(Len(hs) - 1) : g[n] = PrintedHeader(hs[n + 1]) \o g[n + 1]

OfSlots(hs, q, i) ==
  /\ hs \in Seq(Kept)
  /\ \A a \in 1..Len(hs) : \E j \in 1..i : q[j].key # NULL /\ hs[a] = q[j]
  /\ \A a, b \in 1..Len(hs) : hs[a].key = hs[b].key => a = b
  /\ (\A j \in 1..i : q[j].key # NULL) => Len(hs) = i /\ \A j \in 1..i : hs[j] = q[j]

PrintsAs(hs, t) == \A z \in Strings : \E g : TailsTo(g, hs, z) /\ g[0] = t \o z

(* One more header printed.                                                  *)
LEMMA TailsStep ==
  ASSUME NEW hs \in Seq(Kept), NEW t \in Strings, NEW h \in Kept, PrintsAs(hs, t)
  PROVE  PrintsAs(Append(hs, h), t \o PrintedHeader(h)) /\ PrintedHeader(h) \in Strings
<1> DEFINE m == Len(hs)
           p == PrintedHeader(h)
           e == Append(hs, h)
<1>1. m \in Nat
  BY LenProperties
<1>2. /\ e \in Seq(Kept) /\ Len(e) = m + 1 /\ e[m + 1] = h
      /\ \A i \in 1..m : e[i] = hs[i]
  BY AppendProperties
<1>3. p \in Strings
  <2> DEFINE x == <<":", " ">>
             k == h.key
             v == h.value
             kx == k \o x
             kv == kx \o v
  <2>1. k \in Strings /\ v \in Strings /\ x \in Strings
    BY ColonSpace DEF Kept
  <2>2. p = kv \o CRLF
    BY DEF PrintedHeader
  <2> HIDE DEF k, v, x, p
  <2>3. kx \in Strings
    BY <2>1, ConcatStrings
  <2> HIDE DEF kx
  <2>4. kv \in Strings
    BY <2>1, <2>3, ConcatStrings
  <2> HIDE DEF kv
  <2> QED BY <2>2, <2>4, LineEnd, ConcatStrings
<1>4. ASSUME NEW z \in Strings
      PROVE  \E g : TailsTo(g, e, z) /\ g[0] = (t \o p) \o z
  <2> HIDE DEF e, p
  <2>1. p \o z \in Strings
    BY <1>3, ConcatStrings
  <2>2. PICK f : TailsTo(f, hs, p \o z) /\ f[0] = t \o (p \o z)
    BY <2>1 DEF PrintsAs
  <2>3. /\ f \in [0..m -> Strings] /\ f[m] = p \o z
        /\ \A n \in 0..(m - 1) : f[n] = PrintedHeader(hs[n + 1]) \o f[n + 1]
    BY <2>2 DEF TailsTo
  <2> HIDE DEF m
  <2> DEFINE g == [n \in 0..(m + 1) |-> IF n = m + 1 THEN z ELSE f[n]]
  <2>4. /\ g \in [0..(m + 1) -> Strings] /\ g[m + 1] = z
        /\ \A n \in 0..m : g[n] = f[n]
    BY <1>1, <2>3
  <2> HIDE DEF g
  <2>5. ASSUME NEW n \in 0..m
        PROVE  g[n] = PrintedHeader(e[n + 1]) \o g[n + 1]
    <3>1. CASE n = m
      BY <1>1, <1>2, <2>3, <2>4, <3>1 DEF p
    <3>2. CASE n # m
      <4>1. n \in 0..(m - 1) /\ n + 1 \in 1..m /\ n + 1 \in 0..m
        BY <1>1, <3>2
      <4>2. g[n] = f[n] /\ g[n + 1] = f[n + 1] /\ e[n + 1] = hs[n + 1]
        BY <1>2, <2>4, <4>1
      <4> QED BY <2>3, <4>1, <4>2
    <3> QED BY <3>1, <3>2
  <2>6. TailsTo(g, e, z)
    <3>1. (m + 1) - 1 = m
      BY <1>1
    <3> QED BY <1>2, <2>4, <2>5, <3>1 DEF TailsTo
  <2>7. g[0] = (t \o p) \o z
    <3>1. Cat(Cat(t, p), z) = Cat(t, Cat(p, z))
      BY <1>3, CatAssoc
    <3>2. 0 \in 0..m
      BY <1>1
    <3> QED BY <2>2, <2>4, <3>1, <3>2 DEF Cat
  <2> QED BY <2>6, <2>7
<1> QED BY <1>3, <1>4 DEF PrintsAs, e, p

(* One more slot: nothing is printed for it when it has been cleared.        *)
LEMMA SlotStep ==
  ASSUME NEW q \in Seq(Slot), Distinct(q), NEW i \in 0..(Len(q) - 1),
         NEW hs, NEW t \in Strings, OfSlots(hs, q, i), PrintsAs(hs, t)
  PROVE  /\ OfSlots(hs \o LiveSlot(q[i + 1]), q, i + 1)
         /\ t \o PrintedSlot(q[i + 1]) \in Strings
         /\ PrintsAs(hs \o LiveSlot(q[i + 1]), t \o PrintedSlot(q[i + 1]))
<1> DEFINE h == q[i + 1]
           m == Len(hs)
           e == Append(hs, h)
<1>1. Len(q) \in Nat /\ i \in Nat /\ i + 1 \in 1..Len(q) /\ h \in Slot /\ DOMAIN q = 1..Len(q)
  BY LenProperties
<1>2. /\ hs \in Seq(Kept) /\ m \in Nat
      /\ \A a \in 1..m : \E j \in 1..i : q[j].key # NULL /\ hs[a] = q[j]
      /\ \A a, b \in 1..m : hs[a].key = hs[b].key => a = b
  BY LenProperties DEF OfSlots
<1>3. (\A j \in 1..i : q[j].key # NULL) => m = i /\ \A j \in 1..i : hs[j] = q[j]
  BY DEF OfSlots
<1> HIDE DEF h, m
<1>4. CASE h.key = NULL
  <2>1. LiveSlot(h) = <<>> /\ PrintedSlot(h) = <<>>
    BY <1>4 DEF LiveSlot, PrintedSlot
  <2>2. hs \o LiveSlot(h) = hs
    BY <1>2, <2>1, ConcatEmptySeq
  <2>3. t \o PrintedSlot(h) = t
    BY <2>1, ConcatEmptySeq DEF Strings
  <2>4. OfSlots(hs, q, i + 1)
    <3>1. \A a \in 1..m : \E j \in 1..(i + 1) : q[j].key # NULL /\ hs[a] = q[j]
      BY <1>1, <1>2
    <3>2. ~\A j \in 1..(i + 1) : q[j].key # NULL
      BY <1>1, <1>4 DEF h
    <3> QED BY <1>2, <3>1, <3>2 DEF OfSlots, m
  <2> QED BY <2>2, <2>3, <2>4 DEF h
<1>5. CASE h.key # NULL
  <2>1. h \in Kept
    <3>1. h.key \in Strings /\ h.value \in Strings /\ h = [key |-> h.key, value |-> h.value]
      BY <1>1, <1>5, ParsedRequestAssumption DEF Slot
    <3> QED BY <3>1 DEF Kept
  <2>2. LiveSlot(h) = <<h>> /\ PrintedSlot(h) = PrintedHeader(h)
    BY <1>5 DEF LiveSlot, PrintedSlot
  <2>3. hs \o LiveSlot(h) = e
    BY <1>2, <2>1, <2>2, AppendIsConcat
  <2>4. PrintsAs(e, t \o PrintedHeader(h)) /\ PrintedHeader(h) \in Strings
    BY <1>2, <2>1, TailsStep
  <2>5. t \o PrintedHeader(h) \in Strings
    BY <2>4, ConcatStrings
  <2>6. /\ e \in Seq(Kept) /\ Len(e) = m + 1 /\ e[m + 1] = h
        /\ \A a \in 1..m : e[a] = hs[a]
    BY <1>2, <2>1, AppendProperties DEF m
  <2> HIDE DEF e
  <2>7. ASSUME NEW a \in 1..(m + 1)
        PROVE  \E j \in 1..(i + 1) : q[j].key # NULL /\ e[a] = q[j]
    <3>1. CASE a = m + 1
      <4>1. i + 1 \in 1..(i + 1) /\ q[i + 1].key # NULL /\ e[a] = q[i + 1]
        BY <1>1, <1>5, <2>6, <3>1 DEF h
      <4> QED BY <4>1
    <3>2. CASE a # m + 1
      <4>1. a \in 1..m
        BY <1>2, <3>2
      <4>2. PICK j \in 1..i : q[j].key # NULL /\ hs[a] = q[j]
        BY <1>2, <4>1
      <4>3. j \in 1..(i + 1)
        BY <1>1
      <4> QED BY <2>6, <4>1, <4>2, <4>3
    <3> QED BY <3>1, <3>2
  <2>8. ASSUME NEW a \in 1..m
        PROVE  hs[a].key # h.key
    <3>1. PICK j \in 1..i : q[j].key # NULL /\ hs[a] = q[j]
      BY <1>2
    <3>2. j \in LiveIn(q) /\ i + 1 \in LiveIn(q) /\ j # i + 1
      BY <1>1, <1>5, <3>1 DEF LiveIn, h
    <3>3. q[j].key # q[i + 1].key
      BY <3>2 DEF Distinct
    <3> QED BY <3>1, <3>3 DEF h
  <2>9. ASSUME NEW a \in 1..(m + 1), NEW b \in 1..(m + 1), e[a].key = e[b].key
        PROVE  a = b
    <3>1. \A c \in 1..(m + 1) : c = m + 1 \/ c \in 1..m
      BY <1>2
    <3>2. CASE a = m + 1 /\ b = m + 1
      BY <3>2
    <3>3. CASE a = m + 1 /\ b \in 1..m
      BY <2>6, <2>8, <2>9, <3>3
    <3>4. CASE a \in 1..m /\ b = m + 1
      BY <2>6, <2>8, <2>9, <3>4
    <3>5. CASE a \in 1..m /\ b \in 1..m
      BY <1>2, <2>6, <2>9, <3>5
    <3> QED BY <3>1, <3>2, <3>3, <3>4, <3>5
  <2>10. ASSUME \A j \in 1..(i + 1) : q[j].key # NULL
         PROVE  m + 1 = i + 1 /\ \A j \in 1..(i + 1) : e[j] = q[j]
    <3>1. \A j \in 1..i : j \in 1..(i + 1)
      BY <1>1
    <3>2. m = i /\ \A j \in 1..i : hs[j] = q[j]
      BY <1>3, <2>10, <3>1
    <3>3. \A j \in 1..(i + 1) : j = i + 1 \/ j \in 1..i
      BY <1>1
    <3> QED BY <2>6, <3>2, <3>3 DEF h
  <2>11. OfSlots(e, q, i + 1)
    BY <2>6, <2>7, <2>9, <2>10 DEF OfSlots
  <2> QED BY <2>2, <2>3, <2>4, <2>5, <2>11 DEF h
<1> QED BY <1>4, <1>5

(* Before the first slot, and at each slot.                                  *)
LEMMA NoSlots ==
  ASSUME NEW q
  PROVE  OfSlots(<<>>, q, 0) /\ PrintsAs(<<>>, <<>>) /\ <<>> \in Strings
<1> DEFINE d == <<>>
<1>1. d \in Seq(Kept) /\ Len(d) = 0 /\ d \in Strings
  BY EmptySeq DEF Strings
<1>2. \A z \in Strings : d \o z = z
  BY ConcatEmptySeq DEF Strings
<1> HIDE DEF d
<1>3. 1..Len(d) = {} /\ 1..0 = {} /\ 0..Len(d) = {0} /\ 0..(Len(d) - 1) = {}
  BY <1>1
<1>4. OfSlots(d, q, 0)
  BY <1>1, <1>3 DEF OfSlots
<1>5. ASSUME NEW z \in Strings
      PROVE  \E g : TailsTo(g, d, z) /\ g[0] = d \o z
  <2> DEFINE g == [n \in {0} |-> z]
  <2>1. g \in [{0} -> Strings] /\ g[0] = z
    OBVIOUS
  <2> HIDE DEF g
  <2>2. g \in [0..Len(d) -> Strings]
    BY <1>3, <2>1
  <2>3. TailsTo(g, d, z)
    BY <1>1, <1>3, <2>1, <2>2 DEF TailsTo
  <2> QED BY <1>2, <2>1, <2>3
<1> QED BY <1>1, <1>4, <1>5 DEF PrintsAs, d

LEMMA LiveSlotIs ==
  ASSUME NEW h \in Slot
  PROVE  LiveSlot(h) \in Seq(Kept) /\ PrintedSlot(h) \in Strings
<1>1. PrintedSlot(h) \in Strings
  BY PrintedSlotLines DEF WholeLines
<1>2. CASE h.key = NULL
  <2>1. LiveSlot(h) = <<>>
    BY <1>2 DEF LiveSlot
  <2>2. <<>> \in Seq(Kept)
    BY EmptySeq
  <2> QED BY <1>1, <2>1, <2>2
<1>3. CASE h.key # NULL
  <2>1. h.key \in Strings /\ h.value \in Strings /\ h = [key |-> h.key, value |-> h.value]
    BY <1>3, ParsedRequestAssumption DEF Slot
  <2>2. h \in Kept
    BY <2>1 DEF Kept
  <2> HIDE DEF Kept
  <2>3. <<h>> \in Seq(Kept)
    BY <2>2
  <2>4. LiveSlot(h) = <<h>>
    BY <1>3 DEF LiveSlot
  <2> QED BY <1>1, <2>3, <2>4
<1> QED BY <1>1, <1>2, <1>3

(* What is printed of a table whose keys differ, and the headers it holds.   *)
LEMMA PrintedTails ==
  ASSUME NEW q \in Seq(Slot), Distinct(q)
  PROVE  \E hs, t : /\ hs = FlattenSeq([i \in DOMAIN q |-> LiveSlot(q[i])])
                    /\ t = FlattenSeq([i \in DOMAIN q |-> PrintedSlot(q[i])])
                    /\ OfSlots(hs, q, Len(q)) /\ t \in Strings /\ PrintsAs(hs, t)
<1> DEFINE n == Len(q)
           L == [i \in DOMAIN q |-> LiveSlot(q[i])]
           P == [i \in DOMAIN q |-> PrintedSlot(q[i])]
<1>1. n \in Nat /\ DOMAIN q = 1..n /\ \A i \in 1..n : q[i] \in Slot
  BY LenProperties
<1>2. /\ L \in Seq(Seq(Kept)) /\ Len(L) = n /\ \A i \in 1..n : L[i] = LiveSlot(q[i])
  <2>1. \A i \in 1..n : LiveSlot(q[i]) \in Seq(Kept)
    BY <1>1, LiveSlotIs
  <2>2. L = [i \in 1..n |-> LiveSlot(q[i])]
    BY <1>1
  <2> HIDE DEF n
  <2>3. L \in [1..n -> Seq(Kept)]
    BY <2>1, <2>2
  <2> QED BY <1>1, <2>2, <2>3
<1>3. /\ P \in Seq(Strings) /\ Len(P) = n /\ \A i \in 1..n : P[i] = PrintedSlot(q[i])
  <2>1. \A i \in 1..n : PrintedSlot(q[i]) \in Strings
    BY <1>1, LiveSlotIs
  <2>2. P = [i \in 1..n |-> PrintedSlot(q[i])]
    BY <1>1
  <2> HIDE DEF n
  <2>3. P \in [1..n -> Strings]
    BY <2>1, <2>2
  <2> QED BY <1>1, <2>2, <2>3
<1> HIDE DEF L, P, n
<1>4. CASE n = 0
  <2>1. L = <<>> /\ P = <<>>
    BY <1>2, <1>3, <1>4, EmptySeq
  <2>2. FlattenSeq(L) = <<>> /\ FlattenSeq(P) = <<>>
    BY <2>1 DEF FlattenSeq
  <2>3. OfSlots(<<>>, q, n) /\ PrintsAs(<<>>, <<>>) /\ <<>> \in Strings
    BY <1>4, NoSlots
  <2> QED BY <2>2, <2>3 DEF L, P, n
<1>5. CASE n # 0
  <2>1. L # <<>> /\ P # <<>> /\ n \in 1..n
    BY <1>1, <1>2, <1>3, <1>5, EmptySeq
  <2>2. PICK e : Joined(e, L, n) /\ FlattenSeq(L) = e[n]
    BY <1>2, <2>1, Flattened
  <2>3. PICK f : Joined(f, P, n) /\ FlattenSeq(P) = f[n]
    BY <1>3, <2>1, Flattened
  <2> DEFINE Good(i) == OfSlots(e[i], q, i) /\ f[i] \in Strings /\ PrintsAs(e[i], f[i])
             Bad == {i \in 1..n : ~Good(i)}
  <2>4. ASSUME NEW i \in 1..n, NEW hs, NEW t \in Strings,
               OfSlots(hs, q, i - 1), PrintsAs(hs, t),
               e[i] = hs \o LiveSlot(q[i]), f[i] = t \o PrintedSlot(q[i])
        PROVE  Good(i)
    <3>1. PICK k : k = i - 1
      OBVIOUS
    <3>2. k \in 0..(Len(q) - 1) /\ k + 1 = i
      BY <1>1, <3>1 DEF n
    <3>3. OfSlots(hs, q, k)
      BY <2>4, <3>1
    <3>4. /\ OfSlots(hs \o LiveSlot(q[k + 1]), q, k + 1)
          /\ t \o PrintedSlot(q[k + 1]) \in Strings
          /\ PrintsAs(hs \o LiveSlot(q[k + 1]), t \o PrintedSlot(q[k + 1]))
      BY <2>4, <3>2, <3>3, SlotStep
    <3> QED BY <2>4, <3>2, <3>4
  <2> HIDE DEF Good
  <2>5. Bad = {}
    <3> SUFFICES ASSUME Bad # {} PROVE FALSE
      OBVIOUS
    <3>1. Bad \subseteq Nat
      BY <1>1
    <3>2. PICK m \in Bad : \A k \in Bad : m <= k
      BY <3>1, LeastExists
    <3>3. CASE m = 1
      <4>1. 1 \in 1..n /\ 1 - 1 = 0
        BY <1>1, <1>5
      <4>2. e[1] = LiveSlot(q[1]) /\ f[1] = PrintedSlot(q[1]) /\ q[1] \in Slot
        BY <1>1, <1>2, <1>3, <2>2, <2>3, <4>1 DEF Joined
      <4>3. e[1] = <<>> \o LiveSlot(q[1]) /\ f[1] = <<>> \o PrintedSlot(q[1])
        <5>1. LiveSlot(q[1]) \in Seq(Kept) /\ PrintedSlot(q[1]) \in Seq(Symbols)
          BY <4>2, LiveSlotIs DEF Strings
        <5> QED BY <4>2, <5>1, ConcatEmptySeq
      <4>4. OfSlots(<<>>, q, 0) /\ PrintsAs(<<>>, <<>>) /\ <<>> \in Strings
        BY NoSlots
      <4>5. OfSlots(<<>>, q, 1 - 1)
        BY <4>1, <4>4
      <4>6. Good(1)
        BY <2>4, <4>1, <4>3, <4>4, <4>5
      <4> QED BY <3>2, <3>3, <4>6
    <3>4. CASE m # 1
      <4>1. m \in 1..n /\ m \in 2..n /\ m - 1 \in 1..n /\ ~(m <= m - 1)
        BY <1>1, <3>2, <3>4
      <4>2. Good(m - 1)
        BY <3>2, <4>1
      <4>3. e[m] = e[m - 1] \o LiveSlot(q[m]) /\ f[m] = f[m - 1] \o PrintedSlot(q[m])
        BY <1>2, <1>3, <2>2, <2>3, <4>1 DEF Joined
      <4>4. OfSlots(e[m - 1], q, m - 1) /\ f[m - 1] \in Strings /\ PrintsAs(e[m - 1], f[m - 1])
        BY <4>2 DEF Good
      <4>5. Good(m)
        BY <2>4, <4>1, <4>3, <4>4
      <4> QED BY <3>2, <4>5
    <3> QED BY <3>3, <3>4
  <2>6. OfSlots(e[n], q, n) /\ f[n] \in Strings /\ PrintsAs(e[n], f[n])
    BY <2>1, <2>5 DEF Good
  <2> QED BY <2>2, <2>3, <2>6 DEF L, P, n
<1> QED BY <1>4, <1>5

-----------------------------------------------------------------------------
(* What a print-out o holds, and how far it has been read again when s is    *)
(* left of it and h are the slots.                                           *)
GoodHeader(h) == Without(h.key, {":"}) /\ OneLine(h.value)

KeysDiffer(hs) == \A i, j \in 1..Len(hs) : hs[i].key = hs[j].key => i = j

PrintedGood(o) ==
  /\ o.request \in Requests /\ GoodRequest(o.request)
  /\ o.headers \in Seq(Kept)
  /\ \A i \in 1..Len(o.headers) : GoodHeader(o.headers[i])
  /\ KeysDiffer(o.headers)
  /\ \E g : TailsTo(g, o.headers, CRLF) /\ o.text = PrintedLine(o.request) \o g[0]

(* The next header is h behind a text t, which is its key unless an end of a *)
(* line in the key has been taken for the end of the header.                 *)
AmidHeader(hs, n, g, s) == \E t \in Strings : s = t \o Behind(hs[n + 1], g[n + 1])

LeftAt(hs, n, g, s, h) ==
  \/ s = g[n] /\ (RunTogether(hs) \/ h = SubSeq(hs, 1, n))
  \/ n < Len(hs) /\ RunTogether(hs) /\ AmidHeader(hs, n, g, s)

LeftOf(hs, s, h) ==
  \E n \in 0..Len(hs) : \E g : TailsTo(g, hs, CRLF) /\ LeftAt(hs, n, g, s, h)

(* Before each header is that header, and a colon behind its key.            *)
LEMMA TailBegins ==
  ASSUME NEW hs \in Seq(Kept), NEW g, TailsTo(g, hs, CRLF), NEW n \in 0..(Len(hs) - 1)
  PROVE  /\ hs[n + 1] \in Kept /\ g[n + 1] \in Strings /\ n + 1 \in 1..Len(hs)
         /\ hs[n + 1].key \in Strings
         /\ g[n] = hs[n + 1].key \o Behind(hs[n + 1], g[n + 1])
<1>1. Len(hs) \in Nat /\ n + 1 \in 1..Len(hs) /\ n + 1 \in 0..Len(hs) /\ hs[n + 1] \in Kept
  BY LenProperties
<1>2. g[n] = PrintedHeader(hs[n + 1]) \o g[n + 1] /\ g[n + 1] \in Strings
  BY <1>1 DEF TailsTo
<1>3. hs[n + 1].key \in Strings
  BY <1>1 DEF Kept
<1>4. PrintedHeader(hs[n + 1]) \o g[n + 1] = hs[n + 1].key \o Behind(hs[n + 1], g[n + 1])
  BY <1>1, <1>2, PrintedHeaderBehind DEF Kept
<1> QED BY <1>1, <1>2, <1>3, <1>4

(* An empty line ends the headers.                                           *)
LEMMA EndOfHeaders == CRLF # <<>> /\ IsPrefix(CRLF, CRLF) /\ HeadersEnd(CRLF)
<1>1. IsPrefix(CRLF, CRLF)
  BY LineEnd DEF IsPrefix
<1>2. CRLF # <<>>
  <2>1. Len(CRLF) # 0
    BY LineEnd
  <2> QED BY <2>1, EmptySeq
<1> QED BY <1>1, <1>2 DEF HeadersEnd

(* In a text that has not run together no key holds the end of a line.       *)
LEMMA NotRunTogether ==
  ASSUME NEW hs \in Seq(Kept), ~RunTogether(hs), NEW n \in 1..Len(hs)
  PROVE  Without(hs[n].key, {"cr"})
<1>1. DOMAIN hs = 1..Len(hs) /\ hs[n] \in Kept
  BY LenProperties
<1>2. hs[n].key \in Seq(Symbols)
  BY <1>1 DEF Kept, Strings
<1>3. DOMAIN hs[n].key = 1..Len(hs[n].key)
  BY <1>2, LenProperties
<1> QED BY <1>1, <1>3 DEF RunTogether, Without

(* A print-out is never refused for want of a colon, and its headers end     *)
(* only behind the last one unless a key holds the end of a line.            *)
LEMMA LeftEnds ==
  ASSUME NEW hs \in Seq(Kept), \A i \in 1..Len(hs) : GoodHeader(hs[i]),
         NEW s, NEW h, LeftOf(hs, s, h)
  PROVE  /\ HeadersEnd(s) \/ HasColon(s)
         /\ HeadersEnd(s) => RunTogether(hs) \/ h = hs
<1>1. PICK n \in 0..Len(hs) : \E g : TailsTo(g, hs, CRLF) /\ LeftAt(hs, n, g, s, h)
  BY DEF LeftOf
<1>g. PICK g : TailsTo(g, hs, CRLF) /\ LeftAt(hs, n, g, s, h)
  BY <1>1
<1>2. Len(hs) \in Nat
  BY LenProperties
<1>3. CASE n = Len(hs)
  <2>1. g[n] = CRLF
    BY <1>g, <1>3 DEF TailsTo
  <2>2. s = CRLF /\ (RunTogether(hs) \/ h = SubSeq(hs, 1, Len(hs)))
    BY <1>g, <1>2, <1>3, <2>1 DEF LeftAt
  <2>3. SubSeq(hs, 1, Len(hs)) = hs
    BY SubSeqFull
  <2> QED BY <2>2, <2>3, EndOfHeaders
<1>4. CASE n # Len(hs)
  <2> DEFINE e == hs[n + 1]
             z == g[n + 1]
  <2>0. n \in 0..(Len(hs) - 1)
    BY <1>2, <1>4
  <2>1. e \in Kept /\ z \in Strings /\ n + 1 \in 1..Len(hs) /\ e.key \in Strings
        /\ g[n] = e.key \o Behind(e, z)
    BY <1>g, <2>0, TailBegins
  <2>2. GoodHeader(e)
    BY <2>1
  <2>3. ~RunTogether(hs) => Without(e.key, {"cr"})
    BY <2>1, NotRunTogether
  <2>4. PICK t \in Strings : s = t \o Behind(e, z) /\ (~RunTogether(hs) => t = e.key)
    BY <1>g, <2>1 DEF LeftAt, AmidHeader
  <2> HIDE DEF e, z
  <2>5. HasColon(t \o Behind(e, z))
    BY <2>1, <2>2, ReadAhead DEF Kept, GoodHeader
  <2>6. ~RunTogether(hs) => ~HeadersEnd(e.key \o Behind(e, z))
    BY <2>1, <2>2, <2>3, HeaderReread DEF Kept, GoodHeader
  <2> QED BY <2>4, <2>5, <2>6
<1> QED BY <1>3, <1>4

(* Reading on: the header that is read is the next one of the print-out.     *)
LEMMA LeftAfter ==
  ASSUME NEW hs \in Seq(Kept), \A i \in 1..Len(hs) : GoodHeader(hs[i]),
         KeysDiffer(hs), NEW s, LeftOf(hs, s, headers), ~HeadersEnd(s), TableOK, NEW beyond
  PROVE  LeftOf(hs, NextLine(s), Appended(HeaderKey(s), HeaderValue(s, beyond)))
<1> DEFINE h == Appended(HeaderKey(s), HeaderValue(s, beyond))
<1> HIDE DEF h
<1>1. PICK n \in 0..Len(hs) : \E g : TailsTo(g, hs, CRLF) /\ LeftAt(hs, n, g, s, headers)
  BY DEF LeftOf
<1>g. PICK g : TailsTo(g, hs, CRLF) /\ LeftAt(hs, n, g, s, headers)
  BY <1>1
<1>2. Len(hs) \in Nat
  BY LenProperties
<1>3. n # Len(hs)
  <2> SUFFICES ASSUME n = Len(hs) PROVE FALSE
    OBVIOUS
  <2>1. g[n] = CRLF
    BY <1>g DEF TailsTo
  <2>2. s = CRLF
    BY <1>g, <1>2, <2>1 DEF LeftAt
  <2> QED BY <2>2, EndOfHeaders
<1> DEFINE e == hs[n + 1]
           z == g[n + 1]
<1>4. n \in 0..(Len(hs) - 1)
  BY <1>2, <1>3
<1>5. e \in Kept /\ z \in Strings /\ n + 1 \in 1..Len(hs) /\ e.key \in Strings
      /\ g[n] = e.key \o Behind(e, z) /\ n + 1 \in 0..Len(hs)
  <2>1. n + 1 \in 0..Len(hs)
    BY <1>2, <1>4
  <2>2. TailsTo(g, hs, CRLF)
    BY <1>g
  <2>3. /\ hs[n + 1] \in Kept /\ g[n + 1] \in Strings /\ n + 1 \in 1..Len(hs)
        /\ hs[n + 1].key \in Strings
        /\ g[n] = hs[n + 1].key \o Behind(hs[n + 1], g[n + 1])
    BY <1>4, <2>2, TailBegins
  <2> QED BY <2>1, <2>3 DEF e, z
<1>6. OneLine(e.value) /\ Without(e.key, {":"})
  BY <1>5 DEF GoodHeader
<1>7. CASE RunTogether(hs)
  <2>1. PICK t \in Strings : s = t \o Behind(e, z)
    BY <1>g, <1>5 DEF LeftAt, AmidHeader
  <2>2. \/ NextLine(t \o Behind(e, z)) = z
        \/ \E u \in Strings : NextLine(t \o Behind(e, z)) = u \o Behind(e, z)
    <3> HIDE DEF e, z
    <3> QED BY <1>5, <1>6, ReadAhead DEF Kept
  <2>3. CASE NextLine(s) = z
    <3>1. LeftAt(hs, n + 1, g, NextLine(s), h)
      BY <1>7, <2>3 DEF LeftAt
    <3> QED BY <1>g, <1>5, <3>1 DEF LeftOf, h
  <2>4. CASE \E u \in Strings : NextLine(s) = u \o Behind(e, z)
    <3>1. n < Len(hs)
      BY <1>2, <1>4
    <3>2. LeftAt(hs, n, g, NextLine(s), h)
      BY <1>7, <2>4, <3>1 DEF LeftAt, AmidHeader
    <3> QED BY <1>g, <3>2 DEF LeftOf, h
  <2> QED BY <2>1, <2>2, <2>3, <2>4
<1>8. CASE ~RunTogether(hs)
  <2>1. s = g[n] /\ headers = SubSeq(hs, 1, n)
    BY <1>g, <1>8 DEF LeftAt
  <2>2. Without(e.key, {"cr"})
    BY <1>5, <1>8, NotRunTogether
  <2>3. HeaderKey(s) = e.key /\ HeaderValue(s, beyond) = e.value /\ NextLine(s) = z
    <3> HIDE DEF e, z
    <3>1. /\ HeaderKey(e.key \o Behind(e, z)) = e.key
          /\ HeaderValue(e.key \o Behind(e, z), beyond) = e.value
          /\ NextLine(e.key \o Behind(e, z)) = z
      BY <1>5, <1>6, <2>2, HeaderReread DEF Kept
    <3> QED BY <1>5, <2>1, <3>1
  <2>4. e = [key |-> e.key, value |-> e.value]
    BY <1>5 DEF Kept
  <2>5. /\ Len(headers) = n /\ DOMAIN headers = 1..n
        /\ \A i \in 1..n : headers[i] = hs[i]
    <3>1. n \in Nat /\ 1 \in Nat /\ n <= Len(hs)
      BY <1>2, <1>4
    <3>2. /\ Len(SubSeq(hs, 1, n)) = n
          /\ \A i \in 1..n : SubSeq(hs, 1, n)[i] = hs[i]
      BY <3>1
    <3>3. headers \in Seq(Slot)
      BY DEF TableOK
    <3> QED BY <2>1, <3>2, <3>3, LenProperties
  <2>6. ASSUME NEW i \in DOMAIN headers
        PROVE  headers[i].key # e.key
    <3>1. i \in 1..Len(hs) /\ i # n + 1 /\ headers[i] = hs[i]
      BY <1>2, <1>4, <2>5
    <3> QED BY <1>5, <3>1 DEF KeysDiffer
  <2>7. Cleared(e.key) = headers
    <3>1. \A i \in DOMAIN headers : ~Found(i, e.key)
      BY <2>6 DEF Found, Holds
    <3>2. headers = [i \in DOMAIN headers |-> headers[i]]
      BY DEF TableOK
    <3> QED BY <3>1, <3>2 DEF Cleared
  <2>8. h = Append(headers, e)
    BY <2>3, <2>4, <2>7 DEF h, Appended
  <2>9. Append(SubSeq(hs, 1, n), e) = SubSeq(hs, 1, n + 1)
    <3> DEFINE a == SubSeq(hs, 1, n)
               b == Append(a, e)
               c == SubSeq(hs, 1, n + 1)
    <3>1. n \in Nat /\ n + 1 \in Nat /\ n + 1 <= Len(hs) /\ n <= Len(hs)
      BY <1>2, <1>4
    <3>2. /\ a \in Seq(Kept) /\ Len(a) = n
          /\ \A i \in 1..n : a[i] = hs[i]
      BY <3>1
    <3>3. /\ c \in Seq(Kept) /\ Len(c) = n + 1
          /\ \A i \in 1..(n + 1) : c[i] = hs[i]
      BY <3>1
    <3> HIDE DEF a, c
    <3>4. /\ b \in Seq(Kept) /\ Len(b) = n + 1 /\ b[n + 1] = e
          /\ \A i \in 1..n : b[i] = a[i]
      BY <1>5, <3>2, AppendProperties
    <3> HIDE DEF b
    <3>5. \A i \in 1..(n + 1) : b[i] = c[i]
      <4>1. \A i \in 1..(n + 1) : i = n + 1 \/ i \in 1..n
        BY <3>1
      <4> QED BY <3>2, <3>3, <3>4, <4>1
    <3>6. b = c
      BY <3>3, <3>4, <3>5, SeqEqual
    <3> QED BY <3>6 DEF b, a, c
  <2>10. h = SubSeq(hs, 1, n + 1)
    BY <2>1, <2>8, <2>9
  <2>11. LeftAt(hs, n + 1, g, NextLine(s), h)
    BY <2>3, <2>10 DEF LeftAt
  <2> QED BY <1>g, <1>5, <2>11 DEF LeftOf, h
<1> QED BY <1>7, <1>8

-----------------------------------------------------------------------------
(* What a header table is made of that only knows headers a parser could     *)
(* have read.                                                                *)
HeadersGood(h) == \A i \in LiveIn(h) : GoodHeader(h[i])

(* Clearing a slot, or setting a header that is good, keeps them good.       *)
LEMMA ClearedGood ==
  ASSUME TableOK, NEW k \in Keys, HeadersGood(headers)
  PROVE  HeadersGood(Cleared(k))
<1>1. /\ LiveIn(Cleared(k)) = {i \in Live : headers[i].key # k}
      /\ \A i \in LiveIn(Cleared(k)) : Cleared(k)[i] = headers[i]
  BY ClearedSlots
<1>2. Live = LiveIn(headers)
  BY OfHeaders
<1> QED BY <1>1, <1>2 DEF HeadersGood

LEMMA AppendedGood ==
  ASSUME TableOK, NEW k \in Keys, NEW v \in Values, HeadersGood(headers),
         Without(k, {":"}), OneLine(v)
  PROVE  HeadersGood(Appended(k, v))
<1> DEFINE h == Appended(k, v)
           n == Len(headers) + 1
<1>1. /\ LiveIn(h) = {i \in Live : headers[i].key # k} \cup {n}
      /\ \A i \in Live : headers[i].key # k => h[i] = headers[i]
      /\ h[n] = [key |-> k, value |-> v]
  BY AppendedSlots
<1>2. Live = LiveIn(headers)
  BY OfHeaders
<1> HIDE DEF h, n
<1>3. GoodHeader(h[n])
  BY <1>1 DEF GoodHeader
<1>4. HeadersGood(h)
  BY <1>1, <1>2, <1>3 DEF HeadersGood
<1> QED BY <1>4 DEF h

(* What is printed of such a table and of a good request line.               *)
LEMMA UnparsedGood ==
  ASSUME TableOK, HeadersGood(headers), request \in Requests, GoodRequest(request),
         NEW o, o.text = PrintedLine(request) \o PrintedHeaders,
         o.request = request, o.headers = LiveHeaders
  PROVE  PrintedGood(o)
<1>1. headers \in Seq(Slot) /\ Distinct(headers)
  BY OfHeaders DEF TableOK, Distinct
<1>2. PICK hs, t : /\ hs = FlattenSeq([i \in DOMAIN headers |-> LiveSlot(headers[i])])
                   /\ t = FlattenSeq([i \in DOMAIN headers |-> PrintedSlot(headers[i])])
                   /\ OfSlots(hs, headers, Len(headers)) /\ t \in Strings /\ PrintsAs(hs, t)
  BY <1>1, PrintedTails
<1>3. hs = o.headers /\ PrintedHeaders = t \o CRLF
  BY <1>2 DEF LiveHeaders, PrintedHeaders
<1>4. hs \in Seq(Kept) /\ KeysDiffer(hs)
  BY <1>2 DEF OfSlots, KeysDiffer
<1>5. \A i \in 1..Len(hs) : GoodHeader(hs[i])
  <2> SUFFICES ASSUME NEW i \in 1..Len(hs)
               PROVE  GoodHeader(hs[i])
    OBVIOUS
  <2>1. PICK j \in 1..Len(headers) : headers[j].key # NULL /\ hs[i] = headers[j]
    BY <1>2 DEF OfSlots
  <2>2. j \in LiveIn(headers)
    BY <1>1, <2>1, LenProperties DEF LiveIn
  <2> QED BY <2>1, <2>2 DEF HeadersGood
<1>6. PICK g : TailsTo(g, hs, CRLF) /\ g[0] = t \o CRLF
  BY <1>2, LineEnd DEF PrintsAs
<1>7. o.text = PrintedLine(o.request) \o g[0]
  BY <1>3, <1>6
<1> QED BY <1>3, <1>4, <1>5, <1>6, <1>7 DEF PrintedGood

(* The first line of a print-out is its request line, the rest its headers.  *)
LEMMA PrintedStart ==
  ASSUME NEW o, PrintedGood(o)
  PROVE  /\ SubSeq(o.text, 1, Strstr(o.text, CRLF) - 1) = LineText(o.request)
         /\ \E g : TailsTo(g, o.headers, CRLF) /\ NextLine(o.text) = g[0]
<1> DEFINE r == o.request
           l == LineText(r)
<1>1. r \in Requests /\ GoodRequest(r) /\ o.headers \in Seq(Kept)
  BY DEF PrintedGood
<1>2. PICK g : TailsTo(g, o.headers, CRLF) /\ o.text = PrintedLine(r) \o g[0]
  BY DEF PrintedGood
<1>3. l \in Strings /\ OneLine(l)
  BY <1>1, LineTextOneLine
<1>4. g[0] \in Strings
  <2>1. Len(o.headers) \in Nat
    BY <1>1, LenProperties
  <2>2. 0 \in 0..Len(o.headers)
    BY <2>1
  <2> QED BY <1>2, <2>2 DEF TailsTo
<1>5. PrintedLine(r) = Cat(l, CRLF)
  BY <1>1, LineTextPrinted DEF Cat
<1> HIDE DEF l
<1>6. Cat(Cat(l, CRLF), g[0]) = Cat(l, Cat(CRLF, g[0]))
  BY <1>3, <1>4, LineEnd, CatAssoc
<1>7. o.text = l \o (CRLF \o g[0])
  BY <1>2, <1>5, <1>6 DEF Cat
<1>8. /\ Strstr(o.text, CRLF) = Len(l) + 1
      /\ SubSeq(o.text, 1, Len(l)) = l
      /\ NextLine(o.text) = g[0]
  BY <1>3, <1>4, <1>7, LineAndRest
<1>9. Strstr(o.text, CRLF) - 1 = Len(l)
  <2>1. Len(l) \in Nat
    BY <1>3, LenProperties DEF Strings
  <2> QED BY <1>8, <2>1
<1>10. SubSeq(o.text, 1, Strstr(o.text, CRLF) - 1) = l
  BY <1>8, <1>9
<1> QED BY <1>2, <1>8, <1>10 DEF l

(* A table that has cleared no slot has its headers in their order.          *)
LEMMA AllLive ==
  ASSUME TableOK, NEW hs \in Seq(Kept), headers = hs
  PROVE  LiveHeaders = hs
<1>1. headers \in Seq(Slot) /\ Distinct(headers)
  BY OfHeaders DEF TableOK, Distinct
<1>2. PICK ls : /\ ls = FlattenSeq([i \in DOMAIN headers |-> LiveSlot(headers[i])])
                /\ OfSlots(ls, headers, Len(headers))
  BY <1>1, PrintedTails
<1>3. \A j \in 1..Len(hs) : hs[j].key # NULL
  <2> SUFFICES ASSUME NEW j \in 1..Len(hs)
               PROVE  hs[j].key # NULL
    OBVIOUS
  <2>1. hs[j] \in Kept
    BY LenProperties
  <2>2. hs[j].key \in Keys
    BY <2>1, ParsedRequestAssumption DEF Kept
  <2> QED BY <2>2, HeaderTableAssumption
<1>4. ls \in Seq(Kept) /\ Len(ls) = Len(hs) /\ \A j \in 1..Len(hs) : hs[j] = ls[j]
  BY <1>2, <1>3 DEF OfSlots
<1>5. ls = hs
  BY <1>4, SeqEqual
<1> QED BY <1>2, <1>5 DEF LiveHeaders

-----------------------------------------------------------------------------
(* What callers set and what lies behind a request line can be told from a   *)
(* colon and from an end of a line.                                          *)
CleanStrings ==
  /\ \A b \in BeyondBuffer : OneLine(b)
  /\ \A k \in SetKeys : Without(k, {":"})
  /\ \A v \in SetValues : OneLine(v)

(* Every state of the object: its line and its headers are good; a print-out *)
(* holds nothing else; and an object that is parsed from it, while there is  *)
(* memory, has refused it for its length or read as much as is gone from it. *)
HeldGood ==
  /\ request # NULL => GoodRequest(request)
  /\ HeadersGood(headers)
  /\ pc \in {"none", "created", "line"} => headers = <<>>

ReadingAgain(o) ==
  /\ pc \in {"created", "line", "headers", "parsed"}
  /\ pc = "created" <=> Len(o.text) > MAX_REQ_LEN
  /\ pc = "line" => currentHeader = o.text
  /\ pc = "headers" => /\ request = o.request
                       /\ HeadersEnd(currentHeader) \/ EndsHeaders(currentHeader)
                       /\ LeftOf(o.headers, currentHeader, headers)
  /\ pc = "parsed" => request = o.request /\ (RunTogether(o.headers) \/ LiveHeaders = o.headers)

RInv ==
  /\ HeldGood
  /\ out # NULL => PrintedGood(out)
  /\ out # NULL /\ out.reparsed /\ ~lost => ReadingAgain(out)

(* What a step keeps when it leaves line, headers and print-out alone.       *)
LEMMA SameHeld ==
  ASSUME RInv, UNCHANGED <<request, headers, out>>
  PROVE  /\ (request # NULL => GoodRequest(request))' /\ HeadersGood(headers)'
         /\ (out # NULL => PrintedGood(out))' /\ LiveHeaders' = LiveHeaders
BY DEF RInv, HeldGood, LiveHeaders

(* The steps again, one lemma for each action.                               *)
LEMMA CreateRereads ==
  ASSUME IInv, RInv, ParsedRequest_create
  PROVE  RInv'
<1>1. pc = "none" /\ pc' = "created" /\ lost' = lost /\ UNCHANGED <<request, headers, out>>
  BY DEF ParsedRequest_create, tvars
<1>2. HeldGood'
  BY <1>1, SameHeld DEF RInv, HeldGood
<1>3. ~(out' # NULL /\ out'.reparsed /\ ~lost')
  BY <1>1 DEF RInv, ReadingAgain
<1> QED BY <1>1, <1>2, <1>3, SameHeld DEF RInv

LEMMA DestroyRereads ==
  ASSUME IInv, RInv, ParsedRequest_destroy
  PROVE  RInv'
<1>1. /\ pc' = "none" /\ request' = NULL /\ headers' = <<>>
      /\ out' = IF out # NULL /\ out.reparsed THEN NULL ELSE out
  BY DEF ParsedRequest_destroy
<1>2. HeldGood'
  BY <1>1 DEF HeldGood, HeadersGood, LiveIn
<1> QED BY <1>1, <1>2 DEF RInv

LEMMA ParseRereads ==
  ASSUME IInv, RInv, ParseText
  PROVE  RInv'
<1>1. PICK t : ParseBegins(t) \/ ParseRefused(t)
  BY DEF ParseText
<1>2. /\ pc = "created" /\ request' = request /\ headers' = headers /\ out' = Reparsed(t)
      /\ pc' \in {"created", "line"}
  BY <1>1 DEF ParseBegins, ParseRefused, tvars
<1>3. HeldGood'
  BY <1>2 DEF RInv, HeldGood
<1>4. CASE out' = NULL
  BY <1>3, <1>4 DEF RInv
<1>5. CASE out' # NULL
  <2>1. out # NULL /\ t = out.text /\ out' = [out EXCEPT !.reparsed = TRUE]
    BY <1>2, <1>5 DEF Reparsed
  <2>2. out = [text |-> out.text, buflen |-> out.buflen, request |-> out.request,
               headers |-> out.headers, reparsed |-> out.reparsed]
    BY <2>1 DEF IInv, WellPrinted
  <2>3. out'.text = out.text /\ out'.request = out.request /\ out'.headers = out.headers
    BY <2>1, <2>2
  <2>4. PrintedGood(out')
    BY <2>1, <2>3 DEF RInv, PrintedGood
  <2>5. t \in Strings /\ Complete(t) /\ Len(t) \in Nat /\ Len(t) >= 4
    BY <2>1, EndsComplete DEF IInv, WellPrinted
  <2>6. Accepted(t) <=> ~(Len(t) > MAX_REQ_LEN)
    <3>1. PICK n \in Nat : n = Len(t) /\ n >= 4
      BY <2>5
    <3>2. MAX_REQ_LEN \in Nat
      BY ParsedRequestAssumption
    <3>3. n \in 4..MAX_REQ_LEN <=> ~(n > MAX_REQ_LEN)
      BY <3>1, <3>2
    <3> QED BY <2>5, <3>1, <3>3 DEF Accepted
  <2>7. CASE ParseBegins(t)
    <3>1. pc' = "line" /\ currentHeader' = t /\ ~(Len(t) > MAX_REQ_LEN)
      BY <2>6, <2>7 DEF ParseBegins
    <3>2. ReadingAgain(out)'
      BY <2>1, <2>3, <3>1 DEF ReadingAgain
    <3> QED BY <1>3, <2>4, <3>2 DEF RInv
  <2>8. CASE ParseRefused(t)
    <3>1. pc' = "created" /\ Len(t) > MAX_REQ_LEN
      BY <1>2, <2>6, <2>8 DEF ParseRefused
    <3>2. ReadingAgain(out)'
      BY <2>1, <2>3, <3>1 DEF ReadingAgain
    <3> QED BY <1>3, <2>4, <3>2 DEF RInv
  <2> QED BY <1>1, <2>7, <2>8
<1> QED BY <1>4, <1>5

LEMMA LineRereads ==
  ASSUME CleanStrings, IInv, RInv, ParseLine
  PROVE  RInv'
<1>1. /\ pc = "line" /\ pc' = "headers" /\ currentHeader' = NextLine(currentHeader)
      /\ out' = out /\ headers' = headers /\ headers = <<>> /\ lost' = lost
  BY DEF ParseLine, RInv, HeldGood, tvars
<1>2. currentHeader \in Strings /\ Complete(currentHeader)
  BY <1>1 DEF IInv, TextLeft
<1> DEFINE l == SubSeq(currentHeader, 1, Strstr(currentHeader, CRLF) - 1)
<1>3. PICK beyond \in BeyondBuffer :
        Acceptable(LineFields(l, beyond)) /\ request' = Request(LineFields(l, beyond))
  BY DEF ParseLine, Fields
<1>4. l \in Strings /\ OneLine(l)
  BY <1>2, CompleteHasLine, FirstLineIsOne
<1>5. beyond \in Strings /\ OneLine(beyond)
  BY ParsedRequestAssumption DEF CleanStrings
<1>6. GoodRequest(request')
  <2> HIDE DEF l
  <2> QED BY <1>3, <1>4, <1>5, GoodFields
<1>7. HeldGood'
  BY <1>1, <1>6 DEF RInv, HeldGood
<1>8. (out # NULL => PrintedGood(out))'
  BY <1>1 DEF RInv
<1>9. ASSUME out # NULL /\ out.reparsed /\ ~lost
      PROVE  ReadingAgain(out)'
  <2>1. currentHeader = out.text /\ PrintedGood(out) /\ ~(Len(out.text) > MAX_REQ_LEN)
    BY <1>1, <1>9 DEF RInv, ReadingAgain
  <2>2. PICK g : TailsTo(g, out.headers, CRLF) /\ NextLine(currentHeader) = g[0]
    BY <2>1, PrintedStart
  <2>3. l = LineText(out.request)
    BY <2>1, PrintedStart
  <2>4. request' = out.request
    <3>1. out.request \in Requests /\ GoodRequest(out.request)
      BY <2>1 DEF PrintedGood
    <3> HIDE DEF l
    <3> QED BY <1>3, <2>3, <3>1, LineReparses
  <2>5. headers = SubSeq(out.headers, 1, 0)
    BY <1>1, SubSeqEmpty
  <2>6. LeftAt(out.headers, 0, g, NextLine(currentHeader), headers)
    BY <2>2, <2>5 DEF LeftAt
  <2>7. 0 \in 0..Len(out.headers)
    <3>1. Len(out.headers) \in Nat
      BY <2>1, LenProperties DEF PrintedGood
    <3> QED BY <3>1
  <2>8. LeftOf(out.headers, NextLine(currentHeader), headers)
    BY <2>2, <2>6, <2>7 DEF LeftOf
  <2>9. HeadersEnd(NextLine(currentHeader)) \/ EndsHeaders(NextLine(currentHeader))
    <3>1. EndsHeaders(currentHeader)
      BY <1>9, <2>1 DEF IInv, WellPrinted
    <3> QED BY <1>2, <3>1, NextLineEnds
  <2> QED BY <1>1, <2>1, <2>4, <2>8, <2>9 DEF ReadingAgain
<1> QED BY <1>1, <1>7, <1>8, <1>9 DEF RInv

LEMMA LineFailsRereads ==
  ASSUME IInv, RInv, ParseLineFails
  PROVE  RInv'
<1>1. /\ pc = "line" /\ pc' = "created" /\ lost' = lost /\ UNCHANGED <<request, headers, out>>
  BY DEF ParseLineFails, tvars
<1>2. HeldGood'
  BY <1>1, SameHeld DEF RInv, HeldGood
<1>3. ASSUME out # NULL /\ out.reparsed /\ ~lost
      PROVE  FALSE
  <2>1. currentHeader = out.text /\ PrintedGood(out)
    BY <1>1, <1>3 DEF RInv, ReadingAgain
  <2>2. SubSeq(currentHeader, 1, Strstr(currentHeader, CRLF) - 1) = LineText(out.request)
    BY <2>1, PrintedStart
  <2>3. \A beyond : Acceptable(LineFields(LineText(out.request), beyond))
    BY <2>1, LineReparses DEF PrintedGood
  <2> QED BY <2>2, <2>3 DEF ParseLineFails, Fields
<1> QED BY <1>1, <1>2, <1>3, SameHeld DEF RInv

LEMMA HeaderRereads ==
  ASSUME IInv, RInv, ParseHeader
  PROVE  RInv'
<1> DEFINE s == currentHeader
<1>1. PICK beyond \in BeyondBuffer :
        /\ HasValue(s, beyond)
        /\ \/ ParsedHeader_set(HeaderKey(s), HeaderValue(s, beyond))
           \/ SetNoMemory(HeaderKey(s), HeaderValue(s, beyond))
  BY DEF ParseHeader
<1> DEFINE h == Appended(HeaderKey(s), HeaderValue(s, beyond))
<1>2. /\ pc = "headers" /\ pc' = pc /\ currentHeader' = NextLine(s)
      /\ ~HeadersEnd(s) /\ request' = request /\ out' = out
      /\ TableOK /\ s \in Strings /\ HasColon(s)
  BY DEF ParseHeader, AtHeader, IInv, TypeOK, TextLeft
<1>3. beyond \in Strings
  BY ParsedRequestAssumption
<1>4. \/ headers' = h /\ ~lost
      \/ headers' = Cleared(HeaderKey(s)) /\ lost'
  BY <1>1 DEF ParsedHeader_set, SetNoMemory, Appended
<1>5. HeaderKey(s) \in Keys /\ HeaderValue(s, beyond) \in Values
  BY <1>1, <1>2, <1>3, HeaderStrings, ParsedRequestAssumption
<1>6. HeadersGood(h) /\ HeadersGood(Cleared(HeaderKey(s)))
  <2>1. Without(HeaderKey(s), {":"}) /\ OneLine(HeaderValue(s, beyond))
    BY <1>1, <1>2, <1>3, HeaderPlain
  <2> QED BY <1>2, <1>5, <2>1, AppendedGood, ClearedGood DEF RInv, HeldGood
<1> HIDE DEF h
<1>7. HeldGood'
  BY <1>2, <1>4, <1>6 DEF RInv, HeldGood
<1>8. (out # NULL => PrintedGood(out))'
  BY <1>2 DEF RInv
<1>9. ASSUME out # NULL /\ out.reparsed /\ ~lost'
      PROVE  ReadingAgain(out)'
  <2>1. headers' = h /\ ~lost
    BY <1>4, <1>9
  <2>2. /\ request = out.request /\ LeftOf(out.headers, s, headers) /\ PrintedGood(out)
        /\ EndsHeaders(s) /\ ~(Len(out.text) > MAX_REQ_LEN)
    BY <1>2, <1>9, <2>1 DEF RInv, ReadingAgain
  <2>3. LeftOf(out.headers, NextLine(s), h)
    BY <1>2, <2>2, LeftAfter DEF PrintedGood, h
  <2>4. HeadersEnd(NextLine(s)) \/ EndsHeaders(NextLine(s))
    BY <1>2, <2>2, NextLineEnds
  <2> QED BY <1>2, <2>1, <2>2, <2>3, <2>4 DEF ReadingAgain
<1> QED BY <1>2, <1>7, <1>8, <1>9 DEF RInv

(* A print-out crashes no parse while there is memory.                       *)
LEMMA CrashRereads ==
  ASSUME IInv, RInv, ParseCrashes \/ CallCrashes
  PROVE  RInv'
<1> DEFINE s == currentHeader
<1>1. pc' = "crashed" /\ lost' = lost /\ UNCHANGED <<request, headers, out>>
  BY DEF ParseCrashes, CallCrashes, tvars
<1>2. HeldGood'
  BY <1>1, SameHeld DEF RInv, HeldGood
<1>3. ASSUME out # NULL /\ out.reparsed /\ ~lost
      PROVE  FALSE
  <2>1. /\ pc = "headers" /\ s \in Strings /\ ~HeadersEnd(s) /\ HasColon(s)
        /\ \E beyond \in BeyondBuffer : ~HasValue(s, beyond)
    BY <1>3 DEF ParseCrashes, CallCrashes, AtHeader, IInv, TextLeft
  <2>2. EndsHeaders(s)
    BY <1>3, <2>1 DEF RInv, ReadingAgain
  <2> QED BY <2>1, <2>2, EndsHasValue
<1> QED BY <1>1, <1>2, <1>3, SameHeld DEF RInv

LEMMA EndsRereads ==
  ASSUME IInv, RInv, ParseEnds
  PROVE  RInv'
<1> DEFINE s == currentHeader
<1>1. /\ pc = "headers" /\ pc' = IF HeadersEnd(s) THEN "parsed" ELSE "refused"
      /\ (HeadersEnd(s) \/ ~HasColon(s)) /\ lost' = lost /\ UNCHANGED <<request, headers, out>>
  BY DEF ParseEnds, tvars
<1>2. HeldGood'
  BY <1>1, SameHeld DEF RInv, HeldGood
<1>3. ASSUME out # NULL /\ out.reparsed /\ ~lost
      PROVE  ReadingAgain(out)'
  <2> DEFINE hs == out.headers
  <2>1. /\ request = out.request /\ LeftOf(hs, s, headers) /\ PrintedGood(out)
        /\ ~(Len(out.text) > MAX_REQ_LEN)
    BY <1>1, <1>3 DEF RInv, ReadingAgain
  <2>2. hs \in Seq(Kept) /\ \A i \in 1..Len(hs) : GoodHeader(hs[i])
    BY <2>1 DEF PrintedGood
  <2>3. HeadersEnd(s) /\ (RunTogether(hs) \/ headers = hs)
    BY <1>1, <2>1, <2>2, LeftEnds
  <2>4. headers = hs => LiveHeaders = hs
    BY <2>2, AllLive DEF IInv, TypeOK
  <2>5. LiveHeaders' = LiveHeaders
    BY <1>1, SameHeld
  <2> QED BY <1>1, <2>1, <2>3, <2>4, <2>5 DEF ReadingAgain
<1> QED BY <1>1, <1>2, <1>3, SameHeld DEF RInv

LEMMA SetHeaderRereads ==
  ASSUME CleanStrings, IInv, RInv, NEW k \in SetKeys, NEW v \in SetValues, SetHeader(k, v)
  PROVE  RInv'
<1>1. TableOK /\ k \in Keys /\ v \in Values /\ Without(k, {":"}) /\ OneLine(v)
  BY ParsedRequestAssumption DEF CleanStrings, IInv, TypeOK
<1>2. /\ pc = "parsed" /\ pc' = pc /\ out' = NULL /\ request' = request
      /\ headers' \in {Appended(k, v), Cleared(k)}
  BY DEF SetHeader, ParsedHeader_set, SetNoMemory, Appended
<1>3. HeadersGood(headers')
  BY <1>1, <1>2, AppendedGood, ClearedGood DEF RInv, HeldGood
<1>4. HeldGood'
  BY <1>2, <1>3 DEF RInv, HeldGood
<1> QED BY <1>2, <1>4 DEF RInv

LEMMA GetHeaderRereads ==
  ASSUME RInv, NEW k \in SetKeys, GetHeader(k)
  PROVE  RInv'
<1>1. UNCHANGED <<pc, currentHeader, request, out, headers, lost>>
  BY DEF GetHeader, ParsedHeader_get, rvars
<1>2. LiveHeaders' = LiveHeaders
  BY <1>1, SameHeld
<1> QED BY <1>1, <1>2 DEF RInv, HeldGood, ReadingAgain

LEMMA RemoveHeaderRereads ==
  ASSUME IInv, RInv, NEW k \in SetKeys, RemoveHeader(k)
  PROVE  RInv'
<1>1. TableOK /\ k \in Keys
  BY ParsedRequestAssumption DEF IInv, TypeOK
<1>2. /\ pc = "parsed" /\ pc' = pc /\ out' = NULL /\ request' = request
      /\ headers' = Cleared(k)
  BY DEF RemoveHeader, ParsedHeader_remove
<1>3. HeadersGood(headers')
  BY <1>1, <1>2, ClearedGood DEF RInv, HeldGood
<1>4. HeldGood'
  BY <1>2, <1>3 DEF RInv, HeldGood
<1> QED BY <1>2, <1>4 DEF RInv

LEMMA UnparseRereads ==
  ASSUME IInv, RInv, Unparse
  PROVE  RInv'
<1>1. /\ pc = "parsed" /\ UNCHANGED <<pc, request, headers>>
      /\ out' # NULL => /\ out'.text = PrintedLine(request) \o PrintedHeaders
                        /\ out'.request = request /\ out'.headers = LiveHeaders
                        /\ ~out'.reparsed
  BY DEF Unparse, tvars
<1>2. TableOK /\ request \in Requests /\ GoodRequest(request) /\ HeadersGood(headers)
  BY <1>1 DEF IInv, TypeOK, RInv, HeldGood
<1>3. out' # NULL => PrintedGood(out')
  BY <1>1, <1>2, UnparsedGood
<1>4. HeldGood'
  BY <1>1 DEF RInv, HeldGood
<1> QED BY <1>1, <1>3, <1>4 DEF RInv

LEMMA InitRereads == Init => RInv
BY DEF Init, Empty, RInv, HeldGood, HeadersGood, LiveIn

LEMMA StepRereads == CleanStrings /\ IInv /\ RInv /\ [Next]_vars => RInv'
<1> SUFFICES ASSUME CleanStrings, IInv, RInv, [Next]_vars
             PROVE  RInv'
  OBVIOUS
<1>1. CASE UNCHANGED vars
  <2>1. UNCHANGED <<pc, currentHeader, request, out, headers, lost>>
    BY <1>1 DEF vars, rvars, tvars
  <2>2. LiveHeaders' = LiveHeaders
    BY <2>1, SameHeld
  <2> QED BY <2>1, <2>2 DEF RInv, HeldGood, ReadingAgain
<1>2. CASE ParsedRequest_create \/ ParsedRequest_destroy
  BY <1>2, CreateRereads, DestroyRereads
<1>3. CASE ParseText \/ ParseLine \/ ParseLineFails
  BY <1>3, ParseRereads, LineRereads, LineFailsRereads
<1>4. CASE ParseHeader \/ ParseCrashes \/ ParseEnds
  BY <1>4, HeaderRereads, CrashRereads, EndsRereads
<1>5. ASSUME NEW k \in SetKeys,
             (\E v \in SetValues : SetHeader(k, v)) \/ GetHeader(k) \/ RemoveHeader(k)
      PROVE  RInv'
  BY <1>5, SetHeaderRereads, GetHeaderRereads, RemoveHeaderRereads
<1>6. CASE Unparse \/ CallCrashes
  BY <1>6, UnparseRereads, CrashRereads
<1> QED BY <1>1, <1>2, <1>3, <1>4, <1>5, <1>6 DEF Next

(* "Recreate the entire buffer from a parsed request object": what is        *)
(* printed fills the length that was asked for.  While there is memory,      *)
(* parsing it again refuses it exactly when it is longer than MAX_REQ_LEN,   *)
(* never crashes, whatever lay behind the headers of the text first parsed,  *)
(* and gives the same request line and the same headers in order, unless a   *)
(* line without a colon has run together with the one after it.              *)
(* CleanStrings asks of the strings that callers set, and of the memory      *)
(* behind a text, what parsed strings fulfil by themselves.                  *)
THEOREM PrintedIsReparsed == CleanStrings => (Spec => []PrintedReparses)
<1> SUFFICES ASSUME CleanStrings
             PROVE  Spec => []PrintedReparses
  OBVIOUS
<1>1. IInv /\ RInv => PrintedReparses
  BY DEF IInv, RInv, WellPrinted, ReadingAgain, PrintedReparses
<1>2. IInv /\ RInv /\ [Next]_vars => RInv'
  BY StepRereads
<1> QED BY <1>1, <1>2, InitRereads, Inductive, PTL DEF Spec
=============================================================================

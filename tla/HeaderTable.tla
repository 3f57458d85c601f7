----------------------------- MODULE HeaderTable -----------------------------
(***************************************************************************)
(* The headers of a ParsedRequest in proxy_parse.c: an array of key-value  *)
(* pairs that only grows.  Removing a key leaves its slot behind with a    *)
(* NULL key; setting one removes it and appends a new slot.                *)
(***************************************************************************)
EXTENDS Integers, Sequences, FiniteSets

CONSTANTS
  Keys, Values,
  DEFAULT_NHDRS,  \* slots of a new array
  NULL

Calls == [op : {"set", "get", "remove"}, key : Keys, value : Values \cup {NULL}]

ASSUME HeaderTableAssumption ==
  /\ DEFAULT_NHDRS \in Nat \ {0, 1}
  /\ NULL \notin Keys \cup Calls

VARIABLES
  headers,     \* the slots in use; their number is headersused
  headerslen,  \* the slots there is room for
  lost,        \* realloc has failed: headers is NULL, the slots are unreachable
  call,        \* the last call of set, get or remove
  result       \* what it returned

tvars == <<headers, headerslen, lost, call, result>>

Slot == [key : Keys \cup {NULL}, value : Values]

(* ParsedHeader_create.                                                      *)
Empty ==
  /\ headers = <<>>
  /\ headerslen = DEFAULT_NHDRS
  /\ lost = FALSE
  /\ call = NULL
  /\ result = NULL

-----------------------------------------------------------------------------
(* The walk of ParsedHeader_get passes over the slots without a key.         *)
Holds(i, k) == headers[i].key = k

Found(i, k) ==
  i \in DOMAIN headers /\ Holds(i, k) /\ \A j \in 1..(i - 1) : ~Holds(j, k)

Missing(k) == \A i \in DOMAIN headers : ~Holds(i, k)

(* Mutant: the freed slot keeps its key.                                     *)
ClearedNot(k) == headers

(* ParsedHeader_remove, as it leaves the slots.                              *)
Cleared(k) ==
  [i \in DOMAIN headers |->
     IF Found(i, k) THEN [headers[i] EXCEPT !.key = NULL] ELSE headers[i]]

(* Mutant: the array grows one slot too late.                                *)
GrowsLate == headerslen < Len(headers)

Grows == headerslen <= Len(headers) + 1

-----------------------------------------------------------------------------
ParsedHeader_set(k, v) ==
  /\ ~lost
  /\ headers' = Append(Cleared(k), [key |-> k, value |-> v])
  /\ headerslen' = IF Grows THEN 2 * headerslen ELSE headerslen
  /\ call' = [op |-> "set", key |-> k, value |-> v]
  /\ result' = 0
  /\ UNCHANGED lost

(* realloc fails, after the old value has gone, and the old array is leaked. *)
(* headersused is not 0, so that any later call dereferences NULL: no call   *)
(* has a step of its own then, and its caller crashes.                       *)
SetNoMemory(k, v) ==
  /\ ~lost
  /\ Grows
  /\ headers' = Cleared(k)
  /\ headerslen' = 2 * headerslen
  /\ lost' = TRUE
  /\ call' = [op |-> "set", key |-> k, value |-> v]
  /\ result' = -1

ParsedHeader_get(k) ==
  /\ ~lost
  /\ \/ \E i \in DOMAIN headers : Found(i, k) /\ result' = headers[i].value
     \/ Missing(k) /\ result' = NULL
  /\ call' = [op |-> "get", key |-> k, value |-> NULL]
  /\ UNCHANGED <<headers, headerslen, lost>>

ParsedHeader_remove(k) ==
  /\ ~lost
  /\ headers' = Cleared(k)
  /\ result' = IF Missing(k) THEN -1 ELSE 0
  /\ call' = [op |-> "remove", key |-> k, value |-> NULL]
  /\ UNCHANGED <<headerslen, lost>>

TableNext ==
  \E k \in Keys :
    \/ \E v \in Values : ParsedHeader_set(k, v) \/ SetNoMemory(k, v)
    \/ ParsedHeader_get(k)
    \/ ParsedHeader_remove(k)

TableSpec == Empty /\ [][TableNext]_tvars

-----------------------------------------------------------------------------
Live == {i \in DOMAIN headers : headers[i].key # NULL}

LiveKeys == {headers[i].key : i \in Live}

(* Every slot in use lies inside the array, and no key is live twice.        *)
TableOK ==
  /\ headers \in Seq(Slot)
  /\ headerslen \in Nat \ {0, 1}
  /\ Len(headers) <= headerslen
  /\ lost \in BOOLEAN /\ (lost => headers # <<>>)
  /\ \A i, j \in Live : headers[i].key = headers[j].key => i = j

(* The map the table stands for: what ParsedHeader_get finds.                *)
Map == [k \in LiveKeys |-> headers[CHOOSE i \in Live : Found(i, k)].value]

HM == INSTANCE HeaderMap WITH map <- Map

(* The table behaves as a map from keys to values: the last set of a key     *)
(* wins, a removed key is gone, and a get returns nothing else.              *)
ImplementsHeaderMap == HM!Spec
=============================================================================

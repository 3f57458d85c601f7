------------------------------ MODULE HeaderMap ------------------------------
(***************************************************************************)
(* What proxy_parse.h promises of the headers of a request: a map from     *)
(* keys to values, with ParsedHeader_set, ParsedHeader_get and             *)
(* ParsedHeader_remove.  A set that fails may lose the key's old value.    *)
(***************************************************************************)
EXTENDS Integers

CONSTANT NULL

VARIABLES
  map,    \* the value of each key that has one
  call,   \* the last call
  result  \* what it returned

vars == <<map, call, result>>

Without(k) == [x \in DOMAIN map \ {k} |-> map[x]]

Init ==
  /\ map = [k \in {} |-> NULL]
  /\ call = NULL
  /\ result = NULL

Set(k, v) ==
  /\ call' = [op |-> "set", key |-> k, value |-> v]
  /\ \/ /\ map' = [x \in DOMAIN map \cup {k} |-> IF x = k THEN v ELSE map[x]]
        /\ result' = 0
     \/ /\ map' = Without(k)
        /\ result' = -1

Get(k) ==
  /\ call' = [op |-> "get", key |-> k, value |-> NULL]
  /\ result' = IF k \in DOMAIN map THEN map[k] ELSE NULL
  /\ UNCHANGED map

Remove(k) ==
  /\ call' = [op |-> "remove", key |-> k, value |-> NULL]
  /\ map' = Without(k)
  /\ result' = IF k \in DOMAIN map THEN 0 ELSE -1

(* The request is destroyed and another one created.                         *)
Renew ==
  /\ map' = [k \in {} |-> NULL]
  /\ call' = NULL
  /\ result' = NULL

Next ==
  \/ /\ call' # NULL
     /\ \/ Set(call'.key, call'.value)
        \/ Get(call'.key)
        \/ Remove(call'.key)
  \/ Renew

Spec == Init /\ [][Next]_vars
=============================================================================

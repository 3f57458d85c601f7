------------------------------ MODULE MCPending ------------------------------
(* Instances of Pending for TLC.                                             *)
EXTENDS Pending

CONSTANTS a, b, long

ThreadSymmetry == Permutations(Threads) \cup Permutations(Entries)

(* Two keys share a bucket, so chains have more than one entry.  The long    *)
(* key's first 511 bytes are the key a, and it hashes elsewhere.             *)
MCHash == [u \in Urls |-> IF u = long THEN 1 ELSE 0]

StoredWhole == [u \in Urls |-> u]

StoredTruncated == [u \in Urls |-> IF u = long THEN a ELSE u]
=============================================================================

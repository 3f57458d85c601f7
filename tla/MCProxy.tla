------------------------------- MODULE MCProxy -------------------------------
(* Instances of Proxy for TLC.                                               *)
EXTENDS Proxy

CONSTANTS get, long, piece

(* The first 511 bytes of the long request are the request get.              *)
Truncated == [u \in Urls |-> IF u = long THEN get ELSE u]

OneBucket == [u \in Urls |-> 0]

(* A response is nothing, one piece or two.                                  *)
MCDatas == {<<>>, <<piece>>, <<piece, piece>>}

(* What a response holds does not matter to whether its client is closed.    *)
OneData == {<<piece>>}

ThreadSymmetry == Permutations(Threads)

(* Room for one piece and an empty response; two pieces are refused.         *)
MCSize(d) == 1 + 3 * Len(d)
=============================================================================

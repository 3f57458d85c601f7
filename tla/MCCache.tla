------------------------------- MODULE MCCache -------------------------------
(* Instances of Cache for TLC.                                               *)
EXTENDS Cache, TLC

CONSTANTS a, b, small, large

(* The keys collide.                                                         *)
MCHash == [u \in Urls |-> 0]

(* With Sizeof = 1, a small response takes 4 bytes under a and 5 under b; a  *)
(* large one takes 7 under a, and under b, with 8, it is refused.            *)
MCUrlLen == [u \in Urls |-> IF u = a THEN 1 ELSE 2]

MCDataLen == [d \in Datas |-> IF d = small THEN 1 ELSE 4]
=============================================================================

----------------------------- MODULE MCOriginPool -----------------------------
(* An instance of OriginPool for TLC.                                        *)
EXTENDS OriginPool

CONSTANTS h, g

(* Two hosts share a bucket.                                                 *)
OneBucket == [x \in Hosts |-> 0]
=============================================================================

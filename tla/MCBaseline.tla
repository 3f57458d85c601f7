------------------------------ MODULE MCBaseline ------------------------------
(* An instance of Baseline for TLC.                                          *)
EXTENDS Baseline

CONSTANTS h1, h2

MCHostOf == [c \in Clients |-> IF c = 1 THEN h2 ELSE h1]
=============================================================================

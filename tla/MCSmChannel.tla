---------------------------- MODULE MCSmChannel ----------------------------
(* Instances of SmChannel for TLC. *)
EXTENDS SmChannel

CONSTANTS w1, w2, o1, o2
=============================================================================

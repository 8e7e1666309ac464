-------------------------- MODULE MCOperationQueue --------------------------
(* Instances of OperationQueue for TLC. *)
EXTENDS OperationQueue

CONSTANTS t1, t2, x1
=============================================================================

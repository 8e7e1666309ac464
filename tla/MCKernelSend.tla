---------------------------- MODULE MCKernelSend ----------------------------
(* Instances of KernelSend for TLC. *)
EXTENDS KernelSend

CONSTANTS t1, t2
=============================================================================

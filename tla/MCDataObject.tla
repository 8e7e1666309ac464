---------------------------- MODULE MCDataObject ----------------------------
(***************************************************************************)
(* Instances of DataObject for TLC: two descriptors so that their          *)
(* operations compete for the workers, and up to MaxPackets packets, so    *)
(* that a push can meet an operation in each of its stages.                *)
(***************************************************************************)
EXTENDS DataObject, TLC

Symmetry == Permutations(Workers)
=============================================================================

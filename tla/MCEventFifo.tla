---------------------------- MODULE MCEventFifo ----------------------------
(***************************************************************************)
(* Instances of EventFifo for TLC: three slots and counters of three bits, *)
(* so that FMaxValue = 6 and every position of the counters relative to    *)
(* the wrap occurs.  As with the 24 slots and 16 bits of the default       *)
(* configuration, FMaxValue is no multiple of UintMax.                     *)
(***************************************************************************)
EXTENDS EventFifo, TLC

Symmetry == Permutations(Data) \cup Permutations(Control)
=============================================================================

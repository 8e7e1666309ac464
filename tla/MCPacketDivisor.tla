-------------------------- MODULE MCPacketDivisor --------------------------
(* Instances of PacketDivisor for TLC. *)
EXTENDS PacketDivisor

(* Three links, each with a smaller limit than the one before. *)
LimitOfLink == <<6, 4, 3>>
=============================================================================

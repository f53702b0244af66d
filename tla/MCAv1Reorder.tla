---------------------------- MODULE MCAv1Reorder ----------------------------
(* Bounds for the reorder window: a sequence space small enough to wrap.   *)
EXTENDS Av1ReorderJitter

CONSTANTS FirstPacket, LastPacket

MCPackets == FirstPacket .. LastPacket
=============================================================================

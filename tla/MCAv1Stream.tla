----------------------------- MODULE MCAv1Stream -----------------------------
(***************************************************************************)
(* A keyframe of two OBUs cut into two packets, an inter frame of one      *)
(* packet, and a frame too large for the receive buffer.                   *)
(***************************************************************************)
EXTENDS Av1Stream

Obu(type, len) == [type |-> type, len |-> len]
Unit(obus) == [obus |-> obus, malformed |-> FALSE]

Key   == Unit(<<Obu("delimiter", 1), Obu("sequence", 2), Obu("frame", 4)>>)
Inter == Unit(<<Obu("frame", 3)>>)
Large == Unit(<<Obu("frame", 8)>>)

MCUnits == {Key, Inter, Large}
=============================================================================

--------------------------- MODULE MCAv1Packetizer ---------------------------
(***************************************************************************)
(* Temporal units of up to two forwarded OBUs, of every length from one    *)
(* byte to more than one packet, so that a fragment ends just before, at   *)
(* and just after the end of a packet and its length field lies on either  *)
(* side of the second byte of leb128.                                      *)
(***************************************************************************)
EXTENDS Av1Packetizer

CONSTANTS MaxLen

Obu(type, len) == [type |-> type, len |-> len]
Unit(obus) == [obus |-> obus, malformed |-> FALSE]

MCUnits ==
  {Unit(<<Obu("delimiter", 1), Obu("sequence", a), Obu("frame", b)>>) :
     a \in 1 .. MaxLen, b \in 1 .. MaxLen}
  \cup {Unit(<<Obu("frame", a), Obu("padding", 2)>>) : a \in 1 .. MaxLen}
  \cup {Unit(<<Obu("delimiter", 1)>>),
        Unit([j \in 1 .. 3 |-> Obu("frame", 1)]),
        [obus |-> <<Obu("frame", 1)>>, malformed |-> TRUE]}
=============================================================================

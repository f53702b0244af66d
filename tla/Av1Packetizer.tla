---------------------------- MODULE Av1Packetizer ----------------------------
(***************************************************************************)
(* The sender's side of the AV1 payload format (src/src/rtp.c,             *)
(* av1_parse_temporal_unit and rtp_encoder_encode_av1).                    *)
(*                                                                         *)
(* A temporal unit is a sequence of OBUs of which only the type and the    *)
(* length matter.  The encoder packs the OBUs that are forwarded, its      *)
(* "elements", into packets of PayloadSize bytes, each element or fragment *)
(* behind its leb128 length.  A fragment (chunk) is named by what it is a  *)
(* part of: temporal unit, element, first byte and length.                 *)
(*                                                                         *)
(* One step is one iteration of the inner loop (AddElement) or the end of  *)
(* the outer loop's body (SendPacket).                                     *)
(***************************************************************************)
EXTENDS Integers, Sequences

CONSTANTS
  PayloadSize,   \* AV1_PAYLOAD_SIZE: bytes of a packet after the headers
  LebBase,       \* values a byte of leb128 distinguishes, 128 in the code
  MaxElements,   \* AV1_MAX_OBU_PER_TU
  FirstSeq,      \* number of the first packet (the uint16_t counter wraps)
  Units,         \* temporal units the video encoder may hand over:
                 \* [obus : sequence of [type, len], malformed : BOOLEAN]
  MaxUnits       \* bound: how many of them

ASSUME PacketizerAssumption ==
  /\ LebBase \in Nat \ {0, 1, 2}
  /\ PayloadSize \in 3 .. LebBase * LebBase
  /\ MaxElements \in Nat \ {0}
  /\ FirstSeq \in Nat
  /\ MaxUnits \in Nat
  /\ \A t \in Units : /\ t.obus \in Seq([type : STRING, len : Nat \ {0}])
                      /\ t.malformed \in BOOLEAN

VARIABLES
  stream,      \* history: the temporal units handed over so far
  elements,    \* lengths of its elements, << >> between calls
  index,       \* element being packetized (index + 1 here)
  offset,      \* how much of it is already sent
  z,           \* the next packet continues a fragment
  firstPacket, \* first_packet
  isNew,       \* new_coded_video_sequence
  payload,     \* chunks put in the current packet
  payloadLen,  \* payload_len
  y,           \* the last chunk continues in the next packet
  wire         \* history: packets given to on_packet

encoderVars ==
  <<stream, elements, index, offset, z, firstPacket, isNew, payload, payloadLen, y, wire>>

\* av1_leb128_size, for the values below LebBase^3 that occur here
LebSize(v) == IF v < LebBase THEN 1 ELSE IF v < LebBase * LebBase THEN 2 ELSE 3

Dropped == {"delimiter", "tilelist", "padding"}
Forwarded(obus) ==
  LET upTo[n \in 0 .. Len(obus)] ==
        IF n = 0 THEN << >>
        ELSE IF obus[n].type \in Dropped THEN upTo[n - 1] ELSE Append(upTo[n - 1], obus[n])
  IN  upTo[Len(obus)]

Lengths(obus) == [j \in 1 .. Len(obus) |-> obus[j].len]

HasSequenceHeader(obus) == \E j \in 1 .. Len(obus) : obus[j].type = "sequence"

EncoderInit ==
  /\ stream = << >>
  /\ elements = << >>
  /\ index = 1
  /\ offset = 0
  /\ z = FALSE
  /\ firstPacket = TRUE
  /\ isNew = FALSE
  /\ payload = << >>
  /\ payloadLen = 0
  /\ y = FALSE
  /\ wire = << >>

-----------------------------------------------------------------------------
Encoding == elements # << >>

(* av1_parse_temporal_unit fails, or finds nothing to send. *)
Unsendable(t) ==
  \/ t.malformed
  \/ Len(Forwarded(t.obus)) > MaxElements
  \/ Forwarded(t.obus) = << >>

Accept(t) ==
  /\ ~Encoding /\ Len(stream) < MaxUnits
  /\ stream' = Append(stream, t)

EncodeNothing(t) ==
  /\ Accept(t)
  /\ Unsendable(t)
  /\ UNCHANGED <<elements, index, offset, z, firstPacket, isNew, payload, payloadLen, y, wire>>

EncodeBegin(t) ==
  /\ Accept(t)
  /\ ~Unsendable(t)
  /\ elements' = Lengths(Forwarded(t.obus))
  /\ isNew' = HasSequenceHeader(Forwarded(t.obus))
  /\ index' = 1 /\ offset' = 0 /\ z' = FALSE /\ firstPacket' = TRUE
  /\ payload' = << >> /\ payloadLen' = 0 /\ y' = FALSE
  /\ UNCHANGED wire

-----------------------------------------------------------------------------
Room == PayloadSize - payloadLen
Remaining == elements[index] - offset

\* what of the element still fits behind its length field
Chunk ==
  IF LebSize(Remaining) + Remaining > Room THEN Room - 2 ELSE Remaining

AddElement ==
  /\ Encoding /\ index <= Len(elements) /\ ~y
  /\ Room >= 3
  /\ payload' = Append(payload, [unit |-> Len(stream), element |-> index,
                                 from |-> offset, len |-> Chunk])
  /\ payloadLen' = payloadLen + LebSize(Chunk) + Chunk
  /\ IF offset + Chunk < elements[index]
     THEN /\ y' = TRUE
          /\ offset' = offset + Chunk
          /\ UNCHANGED index
     ELSE /\ offset' = 0
          /\ index' = index + 1
          /\ UNCHANGED y
  /\ UNCHANGED <<stream, elements, z, firstPacket, isNew, wire>>

\* the inner loop ended: nothing left, no room, or a fragment was cut
PacketFull == index > Len(elements) \/ y \/ Room < 3

Packet ==
  [kind |-> "media", seq |-> FirstSeq + Len(wire), z |-> z, y |-> y, n |-> firstPacket /\ isNew,
   marker |-> index > Len(elements), elems |-> payload]

SendPacketStickyZ ==        \* mutant: z is not cleared at an element's end
  /\ Encoding /\ PacketFull
  /\ wire' = Append(wire, Packet)
  /\ z' = (z \/ offset > 0)
  /\ firstPacket' = FALSE
  /\ payload' = << >> /\ payloadLen' = 0 /\ y' = FALSE
  /\ elements' = IF index > Len(elements) THEN << >> ELSE elements
  /\ UNCHANGED <<stream, index, offset, isNew>>

SendPacket ==
  /\ Encoding /\ PacketFull
  /\ wire' = Append(wire, Packet)
  /\ z' = (offset > 0)
  /\ firstPacket' = FALSE
  /\ payload' = << >> /\ payloadLen' = 0 /\ y' = FALSE
  /\ elements' = IF index > Len(elements) THEN << >> ELSE elements
  /\ UNCHANGED <<stream, index, offset, isNew>>

EncoderNext ==
  \/ \E t \in Units : EncodeNothing(t) \/ EncodeBegin(t)
  \/ AddElement
  \/ SendPacket

EncoderSpec == EncoderInit /\ [][EncoderNext]_encoderVars

-----------------------------------------------------------------------------
ChunkType == [unit : Nat, element : Nat \ {0}, from : Nat, len : Nat \ {0}]

PacketType ==
  [kind : {"media"}, seq : Nat, z : BOOLEAN, y : BOOLEAN, n : BOOLEAN, marker : BOOLEAN, elems : Seq(ChunkType)]

EncoderTypeOK ==
  /\ stream \in Seq(Units)
  /\ elements \in Seq(Nat \ {0})
  /\ index \in Nat \ {0}
  /\ offset \in Nat
  /\ {z, firstPacket, isNew, y} \subseteq BOOLEAN
  /\ payload \in Seq(ChunkType)
  /\ payloadLen \in Nat
  /\ wire \in Seq(PacketType)

(***************************************************************************)
(* No packet outgrows its buffer: the length of the fragment and the       *)
(* fragment itself always fit in what is left ("chunk < 16384, so its      *)
(* length field is 2 bytes at most", rtp.c:357).                           *)
(***************************************************************************)
PacketFits == EncoderTypeOK /\ payloadLen <= PayloadSize

(***************************************************************************)
(* Z of a packet says exactly what Y of the packet before it said; the     *)
(* receiver drops a coded video sequence when the two disagree             *)
(* (rtp.c:665-671).  A temporal unit never starts inside a fragment.       *)
(***************************************************************************)
FragmentsAgree ==
  \A k \in 1 .. Len(wire) :
    wire[k].z = IF k = 1 THEN FALSE ELSE wire[k - 1].y

Chunks(p) == {p.elems[j] : j \in 1 .. Len(p.elems)}

(***************************************************************************)
(* What goes on the wire for a finished temporal unit is its elements,     *)
(* every byte once: chunks tile each element, none is empty, and exactly   *)
(* the last packet carries the marker bit.                                 *)
(***************************************************************************)
WireOf(u) == {k \in 1 .. Len(wire) : \E c \in Chunks(wire[k]) : c.unit = u}

EveryByteOnce ==
  \A u \in 1 .. Len(stream) :
    (u = Len(stream) => ~Encoding) =>
      LET obus == Forwarded(stream[u].obus)
          sent == UNION {Chunks(wire[k]) : k \in WireOf(u)}
      IN  \/ Unsendable(stream[u]) /\ WireOf(u) = {}
          \/ /\ \A j \in 1 .. Len(obus) : \A b \in 0 .. obus[j].len - 1 :
                  \E c \in sent : /\ c.element = j /\ b \in c.from .. c.from + c.len - 1
                                  /\ \A d \in sent :
                                       d.element = j /\ b \in d.from .. d.from + d.len - 1
                                         => d = c
             /\ \A k \in WireOf(u) :
                  wire[k].marker <=> \A l \in WireOf(u) : l <= k

(***************************************************************************)
(* A temporal unit goes on the wire within the packet size, with agreeing  *)
(* Z and Y bits and every byte once (rtp_encoder_encode_av1).              *)
(***************************************************************************)
EncodedWhole == PacketFits /\ FragmentsAgree /\ EveryByteOnce

=============================================================================

-------------------------------- MODULE H264Rtp --------------------------------
(***************************************************************************)
(* H.264 over RTP (src/src/rtp.c): the search for NAL units in what the    *)
(* video encoder hands over, single packets and FU-A fragments, a network  *)
(* that loses and reorders, and the decoder, which keeps one buffer and    *)
(* never looks at the sequence number.                                     *)
(*                                                                         *)
(* Positions in a buffer count from 0.                                     *)
(***************************************************************************)
EXTENDS Integers, Sequences, FiniteSets, SequencesExt

CONSTANTS
  RtpPayloadSize,  \* RTP_PAYLOAD_SIZE
  MaxNaluSize,     \* CONFIG_MAX_NALU_SIZE
  AccessUnits,     \* what the video encoder may hand over: NAL units, each
                   \* behind a start code of 2 or 3 zeros
  MaxAccessUnits,  \* bound: how many of them
  MaxInFlight      \* bound: packets under way

ASSUME H264Assumption ==
  /\ RtpPayloadSize \in Nat \ {0, 1, 2} /\ RtpPayloadSize + 4 <= MaxNaluSize
  /\ {MaxNaluSize, MaxAccessUnits, MaxInFlight} \subseteq Nat
  /\ \A unit \in AccessUnits : unit \in Seq([zeros : 2 .. 3, nalu : Seq(Nat)])

\* A byte stream (Annex B of H.264): no NAL unit is empty, ends in a zero, or
\* has a start code in it.
ASSUME AnnexB ==
  \A unit \in AccessUnits : \A j \in 1 .. Len(unit) :
    LET nalu == unit[j].nalu
    IN  /\ nalu # << >> /\ nalu[Len(nalu)] # 0
        /\ \A i \in 1 .. Len(nalu) - 2 : <<nalu[i], nalu[i + 1], nalu[i + 2]>> # <<0, 0, 1>>

\* NAL units are bytes, the first of them a header without its forbidden bit; one
\* that the decoder takes for a fragment has the two bytes of a fragment's header.
NalType(header) == header % 32
SingleTypes == 1 .. 23

ASSUME NalHeaders ==
  \A unit \in AccessUnits : \A j \in 1 .. Len(unit) :
    LET nalu == unit[j].nalu
    IN  /\ \A i \in 1 .. Len(nalu) : nalu[i] < 256
        /\ nalu[1] < 128
        /\ NalType(nalu[1]) \in SingleTypes \/ Len(nalu) > 1

VARIABLES
  buf,        \* the buffer being encoded, << >> between calls
  pstart,     \* where the next NAL unit starts in it
  rest,       \* what is left of the NAL unit being fragmented
  fu,         \* its header, and s and timestamp of the fragments' headers
  timestamp,  \* of the encoder, in frames
  inFlight,   \* packets under way
  naluBuf,    \* the decoder's buffer up to offset
  units,      \* history: access units handed over
  sentStamps, \* history: packets sent: [unit, timestamp, marker, last]
  nth, part,  \* history: the NAL unit last sent of, and its packets sent
  decoded,    \* history: <<NAL unit, packet>> in the order they were decoded
  delivered   \* history: what on_packet was given, and at which arrival

senderVars == <<buf, pstart, rest, fu, timestamp, units, sentStamps, nth, part>>
receiverVars == <<naluBuf, decoded, delivered>>
h264Vars == <<senderVars, inFlight, receiverVars>>

FuPayloadSize == RtpPayloadSize - 2
NoFu == [header |-> 0, s |-> FALSE, timestamp |-> 0]

StartCode(zeros) == [i \in 1 .. zeros + 1 |-> IF i <= zeros THEN 0 ELSE 1]

BytesOf(unit) ==
  FlattenSeq([n \in 1 .. Len(unit) |-> StartCode(unit[n].zeros) \o unit[n].nalu])

\* The NAL units handed over, which is what has to come out.
NalusOf(unit) == [j \in 1 .. Len(unit) |-> unit[j].nalu]
Handed == FlattenSeq([n \in 1 .. Len(units) |-> NalusOf(units[n])])

H264Init ==
  /\ buf = << >> /\ pstart = 0 /\ rest = << >> /\ fu = NoFu /\ timestamp = 0
  /\ inFlight = {} /\ naluBuf = << >>
  /\ units = << >> /\ sentStamps = {} /\ nth = 0 /\ part = 0
  /\ decoded = << >> /\ delivered = {}

-----------------------------------------------------------------------------
(* h264_find_nalu, and the size of the NAL unit between two of its results. *)
FindNalu(b, from) ==
  LET ones == {p \in from + 2 .. Len(b) - 1 : b[p - 1] = 0 /\ b[p] = 0 /\ b[p + 1] = 1}
  IN  IF ones = {} THEN Len(b) ELSE 1 + CHOOSE p \in ones : \A q \in ones : p <= q

Pend == FindNalu(buf, pstart)

NaluSizeKeepingOne ==       \* mutant: the 1 of a start code belongs to the unit
  LET sizes == {n \in 0 .. Pend - pstart : buf[pstart + n] # 0}
  IN  CHOOSE n \in sizes : \A m \in sizes : m <= n
NaluSize ==
  LET upper == Pend - pstart - (IF Pend # Len(buf) THEN 1 ELSE 0)
      sizes == {n \in 0 .. upper : buf[pstart + n] # 0}
  IN  CHOOSE n \in sizes : \A m \in sizes : m <= n

Nalu == SubSeq(buf, pstart + 1, pstart + NaluSize)

IsSlice(header) == NalType(header) \in {1, 5}

EncodeH264(unit) ==
  /\ buf = << >> /\ Len(units) < MaxAccessUnits
  /\ units' = Append(units, unit)
  /\ buf' = BytesOf(unit) /\ pstart' = FindNalu(BytesOf(unit), 0)
  /\ UNCHANGED <<rest, fu, timestamp, sentStamps, nth, part, inFlight, receiverVars>>

EncodeH264Returns ==
  /\ buf # << >> /\ pstart >= Len(buf)
  /\ buf' = << >> /\ pstart' = 0
  /\ UNCHANGED <<rest, fu, timestamp, units, sentStamps, nth, part, inFlight, receiverVars>>

\* on_packet; nalu and part say which packet of the stream it is.
OnPacket(packet, last) ==
  /\ Cardinality(inFlight) < MaxInFlight
  /\ inFlight' = inFlight \cup {packet}
  /\ nth' = packet.nalu /\ part' = packet.part
  /\ sentStamps' = sentStamps \cup
       {[unit |-> Len(units), timestamp |-> packet.timestamp, marker |-> packet.marker,
         last |-> last /\ Pend = Len(buf)]}

NextNalu == buf # << >> /\ pstart < Len(buf) /\ rest = << >>

EncodeSingle ==
  /\ NextNalu /\ NaluSize <= RtpPayloadSize
  /\ OnPacket([nalu |-> nth + 1, part |-> 1, timestamp |-> timestamp,
               marker |-> IsSlice(Nalu[1]), payload |-> Nalu], TRUE)
  /\ timestamp' = timestamp + (IF IsSlice(Nalu[1]) THEN 1 ELSE 0)
  /\ pstart' = Pend
  /\ UNCHANGED <<buf, rest, fu, units, receiverVars>>

\* rtp_encoder_encode_h264_fu_a up to its loop
BeginFu ==
  /\ NextNalu /\ NaluSize > RtpPayloadSize
  /\ rest' = Tail(Nalu)
  /\ fu' = [header |-> Nalu[1], s |-> TRUE, timestamp |-> timestamp]
  /\ timestamp' = timestamp + (IF IsSlice(Nalu[1]) THEN 1 ELSE 0)
  /\ nth' = nth + 1 /\ part' = 0
  /\ UNCHANGED <<buf, pstart, units, sentStamps, inFlight, receiverVars>>

\* fu_indicator and fu_header, and a fragment behind them
Bit(flag, value) == IF flag THEN value ELSE 0

FuPayload(header, s, e, fragment) ==
  <<((header - NalType(header)) % 128) + 28, Bit(s, 128) + Bit(e, 64) + NalType(header)>> \o fragment

\* one iteration of it
EncodeFu ==
  /\ rest # << >>
  /\ LET end  == Len(rest) <= FuPayloadSize
         size == IF end THEN Len(rest) ELSE FuPayloadSize
     IN  /\ OnPacket([nalu |-> nth, part |-> part + 1, timestamp |-> fu.timestamp,
                      marker |-> end,
                      payload |-> FuPayload(fu.header, fu.s, end, SubSeq(rest, 1, size))], end)
         /\ rest' = SubSeq(rest, size + 1, Len(rest))
         /\ IF end THEN fu' = NoFu /\ pstart' = Pend
            ELSE fu' = [fu EXCEPT !.s = FALSE] /\ UNCHANGED pstart
  /\ UNCHANGED <<buf, timestamp, units, receiverVars>>

-----------------------------------------------------------------------------
(* rtp_decode_h264 *)
HandOver(bytes) ==
  delivered' = delivered \cup {[at |-> Len(decoded) + 1, bytes |-> bytes]}

\* What the decoder makes of the payload: everything but the types of single
\* packets is a fragment to it.
Single(payload) == NalType(payload[1]) \in SingleTypes
FuStarts(payload) == payload[2] >= 128
FuEnds(payload) == payload[2] % 128 >= 64
FuNaluHeader(payload) == (payload[1] - NalType(payload[1])) + NalType(payload[2])
FuBytes(payload) == SubSeq(payload, 3, Len(payload))

DecodeSingle(payload) ==
  /\ Single(payload)
  /\ naluBuf' = StartCode(3) \o payload
  /\ HandOver(naluBuf')

DecodeFuStart(payload) ==
  /\ ~Single(payload) /\ FuStarts(payload)
  /\ naluBuf' = StartCode(3) \o <<FuNaluHeader(payload)>> \o FuBytes(payload)
  /\ UNCHANGED delivered

FuGoesOn(payload) == ~Single(payload) /\ ~FuStarts(payload) /\ Len(naluBuf) < MaxNaluSize

DecodeFu(payload) ==
  /\ FuGoesOn(payload) /\ Len(naluBuf \o FuBytes(payload)) <= MaxNaluSize
  /\ LET whole == naluBuf \o FuBytes(payload)
     IN  IF FuEnds(payload) THEN naluBuf' = << >> /\ HandOver(whole)
         ELSE naluBuf' = whole /\ UNCHANGED delivered

\* The offset is compared, not where the fragment ends: it is written past the
\* buffer, over whatever lies there, the offset itself included.
DecodeFuPast(payload) ==
  /\ FuGoesOn(payload) /\ Len(naluBuf \o FuBytes(payload)) > MaxNaluSize
  /\ naluBuf' \in {naluBuf \o FuBytes(payload), << >>}
  /\ (HandOver(naluBuf \o FuBytes(payload)) \/ UNCHANGED delivered)

DecodeFuFull(payload) ==
  /\ ~Single(payload) /\ ~FuStarts(payload) /\ Len(naluBuf) >= MaxNaluSize
  /\ UNCHANGED <<naluBuf, delivered>>

DecodeH264 ==
  /\ \E packet \in inFlight :
       /\ inFlight' = inFlight \ {packet}
       /\ decoded' = Append(decoded, <<packet.nalu, packet.part>>)
       /\ \/ DecodeSingle(packet.payload) \/ DecodeFuStart(packet.payload)
          \/ DecodeFu(packet.payload) \/ DecodeFuPast(packet.payload)
          \/ DecodeFuFull(packet.payload)
  /\ UNCHANGED senderVars

LosePacket ==
  /\ \E packet \in inFlight : inFlight' = inFlight \ {packet}
  /\ UNCHANGED <<senderVars, receiverVars>>

H264Next ==
  \/ \E unit \in AccessUnits : EncodeH264(unit)
  \/ EncodeSingle \/ BeginFu \/ EncodeFu \/ EncodeH264Returns
  \/ DecodeH264 \/ LosePacket

H264Spec == H264Init /\ [][H264Next]_h264Vars

-----------------------------------------------------------------------------
\* The packets a NAL unit of that length takes.
Parts(nalu) ==
  IF Len(nalu) <= RtpPayloadSize THEN 1
  ELSE (Len(nalu) - 1 + FuPayloadSize - 1) \div FuPayloadSize

\* What the decoder can put together: a NAL unit that fits its buffer, and that is
\* fragmented or of a type it knows for one in a single packet.
Decodable(nalu) ==
  /\ Len(StartCode(3) \o nalu) <= MaxNaluSize
  /\ Len(nalu) > RtpPayloadSize \/ NalType(nalu[1]) \in SingleTypes

\* Such a NAL unit comes out whole when its packets arrive one right after the
\* other, whatever was lost, mixed up, mistaken for a fragment or left in the
\* buffer before; and with the access unit every NAL unit in it was found and
\* sent (rtp_decode_h264, h264_find_nalu, rtp_encoder_encode_h264).
ComesOutWhole ==
  /\ buf = << >> => nth = Len(Handed)
  /\ \A n \in 1 .. Len(Handed), a \in 1 .. Len(decoded) :
       LET parts == Parts(Handed[n])
           end   == a + parts - 1
       IN  /\ Decodable(Handed[n])
           /\ end <= Len(decoded)
           /\ SubSeq(decoded, a, end) = [p \in 1 .. parts |-> <<n, p>>]
           => [at |-> end, bytes |-> StartCode(3) \o Handed[n]] \in delivered

\* Parameter sets and slice of one access unit carry one timestamp, two access
\* units never share one, and the last packet of each is marked, however many
\* fragments the slice takes (rtp.c:59-63, 82-92, 106-108).
FramesKeepTimestamp ==
  /\ \A a, b \in sentStamps : a.unit = b.unit <=> a.timestamp = b.timestamp
  /\ \A a \in sentStamps : a.last => a.marker
================================================================================

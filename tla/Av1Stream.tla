------------------------------ MODULE Av1Stream ------------------------------
(***************************************************************************)
(* One AV1 video track end to end: Av1Packetizer puts temporal units on    *)
(* the wire, the network (and an SFU that adds probes and unreadable       *)
(* packets) loses, repeats and reorders what it carries, Av1Reorder puts   *)
(* it back in order as far as its window reaches, and every packet it      *)
(* releases goes through Av1Depay within the same call                     *)
(* (av1_reorder_release, src/src/rtp.c:748-752).                           *)
(*                                                                         *)
(* Packet number n of the stream is wire[n - FirstSeq + 1].                *)
(***************************************************************************)
EXTENDS Integers, Sequences, FiniteSets, SequencesExt

CONSTANTS
  SeqModulus, Depth,                                  \* receiver
  PayloadSize, LebBase, MaxElements, FirstSeq, Units, MaxUnits,   \* sender
  MaxUnitSize,
  MaxExtra      \* bound: packets the SFU adds

VARIABLES
  stream, elements, index, offset, z, firstPacket, isNew, payload, payloadLen, y, wire,
  started, expect, held, pc, i, pkt, base, out,
  closed, tuLen, obu, obuOpen, nextSeq, haveSeq, dropping, delivered

senderVars ==
  <<stream, elements, index, offset, z, firstPacket, isNew, payload, payloadLen, y, wire>>
reorderVars == <<started, expect, held, pc, i, pkt, base, out>>
depayVars == <<closed, tuLen, obu, obuOpen, nextSeq, haveSeq, dropping, delivered>>
vars == <<senderVars, reorderVars, depayVars>>

Sender  == INSTANCE Av1Packetizer
Reorder == INSTANCE Av1Reorder WITH Packets <- Nat
Depay   == INSTANCE Av1Depay

ASSUME StreamAssumption ==
  /\ Sender!PacketizerAssumption
  /\ {SeqModulus, Depth} \subseteq Nat \ {0}
  /\ {MaxUnitSize, MaxExtra} \subseteq Nat

Init == Sender!EncoderInit /\ Reorder!WindowInit /\ Depay!DepayInit

-----------------------------------------------------------------------------
Number(k) == FirstSeq + k - 1
OnWire == {Number(k) : k \in 1 .. Len(wire)}
PacketOf(n) == wire[n - FirstSeq + 1]


Encode == Sender!EncoderNext /\ UNCHANGED <<reorderVars, depayVars>>

(***************************************************************************)
(* An SFU in the path probes the downlink with padding-only packets, and   *)
(* may add header extensions the depacketizer cannot read; it numbers its  *)
(* packets along with those it forwards.                                   *)
(***************************************************************************)
SfuPackets == {k \in 1 .. Len(wire) : wire[k].kind # "media"}

SfuAdds(kind) ==
  /\ Cardinality(SfuPackets) < MaxExtra
  /\ wire' = Append(wire, [kind |-> kind, seq |-> FirstSeq + Len(wire), z |-> FALSE, y |-> FALSE,
                           n |-> FALSE, marker |-> FALSE, elems |-> << >>])
  /\ UNCHANGED <<stream, elements, index, offset, z, firstPacket, isNew, payload, payloadLen, y,
                 reorderVars, depayVars>>

\* any packet on the wire arrives, in any order, any number of times
Arrive(n) == Reorder!Decode(n) /\ UNCHANGED <<senderVars, depayVars>>

\* a released packet is depacketized in the same call
Step(A) ==
  /\ A
  /\ IF out' = out THEN UNCHANGED depayVars ELSE Depay!DepayPacket(PacketOf(Last(out')))
  /\ UNCHANGED senderVars

Flush == Step(Reorder!FlushSlot)
FlushDone == Step(Reorder!FlushDone)
Drain == Step(Reorder!DrainSlot)
DrainDone == Step(Reorder!DrainDone)

Next ==
  \/ Encode
  \/ \E kind \in {"probe", "bad"} : SfuAdds(kind)
  \/ \E n \in OnWire : Arrive(n)
  \/ Flush
  \/ FlushDone
  \/ Drain
  \/ DrainDone

Spec == Init /\ [][Next]_vars

-----------------------------------------------------------------------------
TypeOK ==
  /\ Reorder!TypeOK
  /\ nextSeq \in 0 .. SeqModulus - 1
  /\ {obuOpen, haveSeq, dropping} \subseteq BOOLEAN
  /\ tuLen \in 2 .. MaxUnitSize
  /\ Depay!ByteCount(obu) + tuLen <= MaxUnitSize
  /\ Len(delivered) <= MaxUnits

\* the chunks are element j of temporal unit u, from its first to its last byte
WholeElement(chunks, u, j) ==
  LET len == Sender!Forwarded(stream[u].obus)[j].len
  IN  /\ chunks # << >>
      /\ chunks[1].from = 0
      /\ \A k \in 1 .. Len(chunks) :
           /\ chunks[k].unit = u /\ chunks[k].element = j
           /\ chunks[k].from + chunks[k].len =
                IF k = Len(chunks) THEN len ELSE chunks[k + 1].from

IsUnit(d, u) ==
  /\ Len(d) = Len(Sender!Forwarded(stream[u].obus))
  /\ \A j \in 1 .. Len(d) : WholeElement(d[j], u, j)

DeliveredUnit(k) == delivered[k][1][1].unit

(***************************************************************************)
(* Whatever the network does, a temporal unit reaches the decoder complete *)
(* and unmixed or not at all: every OBU of it, in order, byte for byte,    *)
(* and nothing of another unit.                                            *)
(***************************************************************************)
DeliveredWhole ==
  \A k \in 1 .. Len(delivered) : IsUnit(delivered[k], DeliveredUnit(k))

StartsSequence(u) == Sender!HasSequenceHeader(Sender!Forwarded(stream[u].obus))

\* units the sender put on the wire at all
Sent(u) == ~Sender!Unsendable(stream[u])

(***************************************************************************)
(* ... and the decoder is never given a unit whose references it lacks: a  *)
(* unit follows the one the encoder made before it, or starts a new coded  *)
(* video sequence ("dropping until the next coded video sequence",         *)
(* rtp.c:629).                                                             *)
(***************************************************************************)
Decodable(u, w) == u < w /\ (StartsSequence(w) \/ \A v \in u + 1 .. w - 1 : ~Sent(v))

DeliveredDecodable ==
  /\ DeliveredWhole
  /\ delivered # << >> => StartsSequence(DeliveredUnit(1))
  /\ \A k \in 1 .. Len(delivered) - 1 : Decodable(DeliveredUnit(k), DeliveredUnit(k + 1))

(***************************************************************************)
(* Nothing that could be decoded is thrown away: a unit that starts a new  *)
(* coded video sequence is delivered whenever all its packets are          *)
(* released, whatever was lost before it, and a later unit whenever the    *)
(* one before it was and nothing between the two is missing or             *)
(* unreadable.  In particular a probe in the middle costs nothing ("it     *)
(* advances the sequence and nothing else", rtp.c:647).                    *)
(***************************************************************************)
PacketsOf(u) ==
  {n \in OnWire : \E j \in 1 .. Len(PacketOf(n).elems) : PacketOf(n).elems[j].unit = u}
FirstOf(u) == Min(PacketsOf(u))
LastOf(u) == Max(PacketsOf(u))

Released(from, to) ==
  \A n \in from .. to : n \in Range(out) /\ PacketOf(n).kind # "bad"

\* bytes of the first n OBUs, with the delimiter and an obu_size in every OBU
RebuiltSize(obus) ==
  LET upTo[n \in 0 .. Len(obus)] ==
        IF n = 0 THEN Depay!DelimiterSize
        ELSE upTo[n - 1] + obus[n].len + Depay!LebLength(obus[n].len - Depay!HeaderSize)
  IN  upTo

FitsBuffer(u) ==
  LET obus == Sender!Forwarded(stream[u].obus)
  IN  RebuiltSize(obus)[Len(obus)] <= MaxUnitSize

Finished == {u \in 1 .. Len(stream) : Sent(u) /\ (u = Len(stream) => ~Sender!Encoding)}

Previous(u) == Max({v \in Finished : v < u})

DeliveredUnits == {DeliveredUnit(k) : k \in 1 .. Len(delivered)}

NothingWasted ==
  \A u \in Finished :
    /\ FitsBuffer(u)
    /\ \/ StartsSequence(u) /\ Released(FirstOf(u), LastOf(u))
       \/ /\ \E v \in Finished : v < u
          /\ Previous(u) \in DeliveredUnits
          /\ Released(LastOf(Previous(u)) + 1, LastOf(u))
    => u \in DeliveredUnits
=============================================================================

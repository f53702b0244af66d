------------------------------- MODULE Av1Depay -------------------------------
(***************************************************************************)
(* The AV1 depacketizer (src/src/rtp.c, Av1Depacketizer, av1_depay_packet  *)
(* and av1_depay_close_obu): it rebuilds temporal units from packets that  *)
(* arrive in order, and after any gap discards everything until a packet   *)
(* that starts a new coded video sequence (N = 1).                         *)
(*                                                                         *)
(* A packet is what Av1Packetizer puts on the wire, or a packet of an SFU  *)
(* in the path: a "probe" that is all padding, or one whose header does    *)
(* not parse ("bad").  The bytes of an OBU are the chunks it came in.      *)
(***************************************************************************)
EXTENDS Integers, Sequences

CONSTANTS
  SeqModulus,   \* 2^16 (uint16_t)
  LebBase,      \* 128
  MaxUnitSize   \* CONFIG_MAX_AV1_TU_SIZE

VARIABLES
  closed,       \* completed OBUs of the temporal unit, each a sequence of chunks
  tuLen,        \* tu_len: their bytes, with the temporal delimiter
  obu,          \* the OBU accumulating after them
  obuOpen,      \* obu_open
  nextSeq,      \* next_seq
  haveSeq,      \* have_seq
  dropping,     \* dropping; TRUE before the first packet (started = 0)
  delivered     \* history: temporal units given to on_packet

depayVars == <<closed, tuLen, obu, obuOpen, nextSeq, haveSeq, dropping, delivered>>

DelimiterSize == 2   \* sizeof(av1_temporal_delimiter)
HeaderSize == 1      \* an OBU header without extension

LebLength(v) == IF v < LebBase THEN 1 ELSE IF v < LebBase * LebBase THEN 2 ELSE 3

ByteCount(chunks) ==
  LET upTo[n \in 0 .. Len(chunks)] == IF n = 0 THEN 0 ELSE upTo[n - 1] + chunks[n].len
  IN  upTo[Len(chunks)]

DepayInit ==
  /\ closed = << >>
  /\ tuLen = DelimiterSize
  /\ obu = << >>
  /\ obuOpen = FALSE
  /\ nextSeq = 0
  /\ haveSeq = FALSE
  /\ dropping = TRUE
  /\ delivered = << >>

-----------------------------------------------------------------------------
(* The element loop works on an accumulator [closed, tuLen, obu, ok];      *)
(* ok = FALSE stands for the jump to "corrupt".                            *)
Fresh == [closed |-> << >>, tuLen |-> DelimiterSize, obu |-> << >>, ok |-> TRUE]

\* av1_depay_close_obu: obu_size is put back, which needs room
CloseObu(acc) ==
  LET len     == ByteCount(acc.obu)
      lenSize == LebLength(len - HeaderSize)
  IN  IF len = 0 THEN acc
      ELSE IF acc.tuLen + len + lenSize > MaxUnitSize THEN [acc EXCEPT !.ok = FALSE]
      ELSE [closed |-> Append(acc.closed, acc.obu), tuLen |-> acc.tuLen + len + lenSize,
            obu |-> << >>, ok |-> TRUE]

AddChunk(acc, chunk) ==
  IF acc.tuLen + ByteCount(acc.obu) + chunk.len > MaxUnitSize
  THEN [acc EXCEPT !.ok = FALSE]
  ELSE [acc EXCEPT !.obu = Append(@, chunk)]

\* every element is complete except a trailing one that Y continues
Element(acc, p, j) ==
  LET added == AddChunk(acc, p.elems[j])
  IN  IF ~acc.ok \/ ~added.ok THEN [acc EXCEPT !.ok = FALSE]
      ELSE IF j < Len(p.elems) \/ ~p.y THEN CloseObu(added)
      ELSE added

ReadElements(acc, p) ==
  LET upTo[n \in 0 .. Len(p.elems)] == IF n = 0 THEN acc ELSE Element(upTo[n - 1], p, n)
  IN  upTo[Len(p.elems)]

-----------------------------------------------------------------------------
GapIgnored(p) == FALSE        \* mutant: a jump in the sequence goes unnoticed
Gap(p) == haveSeq /\ p.seq % SeqModulus # nextSeq

TakeSeq(p) == haveSeq' = TRUE /\ nextSeq' = (p.seq + 1) % SeqModulus

Hold(acc) == closed' = acc.closed /\ tuLen' = acc.tuLen /\ obu' = acc.obu

Discard == Hold(Fresh) /\ obuOpen' = FALSE /\ dropping' = TRUE /\ UNCHANGED delivered

\* the header does not parse: returned before the sequence number is read
BadHeader(p) == p.kind = "bad" /\ UNCHANGED depayVars

\* all padding: the sequence advances and nothing else, unless there was a gap
ProbeNotCounted(p) ==               \* mutant: a probe does not advance the sequence
  p.kind = "probe" /\ UNCHANGED depayVars
Probe(p) ==
  /\ p.kind = "probe"
  /\ TakeSeq(p)
  /\ IF Gap(p) THEN Discard
     ELSE UNCHANGED <<closed, tuLen, obu, obuOpen, dropping, delivered>>

Continuing(p) == ~dropping /\ ~Gap(p)

\* waiting for a new coded video sequence
Skip(p) ==
  /\ p.kind = "media"
  /\ TakeSeq(p)
  /\ ~Continuing(p) /\ ~p.n
  /\ Discard

Unit(p) == IF Continuing(p) THEN [closed |-> closed, tuLen |-> tuLen, obu |-> obu, ok |-> TRUE]
           ELSE Fresh
OpenBefore(p) == Continuing(p) /\ obuOpen

\* Z does not agree with what the previous packet left open
Mismatch(p) == p.z # OpenBefore(p)

Corrupt(p) ==
  LET acc == ReadElements(Unit(p), p)
  IN  ~acc.ok \/ (p.marker /\ p.y /\ p.elems # << >>)

Refuse(p) ==
  /\ p.kind = "media"
  /\ TakeSeq(p)
  /\ Continuing(p) \/ p.n
  /\ Mismatch(p) \/ Corrupt(p)
  /\ Discard

Accumulate(p) ==
  /\ p.kind = "media"
  /\ TakeSeq(p)
  /\ Continuing(p) \/ p.n
  /\ ~Mismatch(p) /\ ~Corrupt(p)
  /\ dropping' = FALSE
  /\ LET acc == ReadElements(Unit(p), p)
     IN  IF p.marker
         THEN /\ delivered' = IF acc.tuLen > DelimiterSize
                              THEN Append(delivered, acc.closed) ELSE delivered
              /\ Hold(Fresh)
              /\ obuOpen' = FALSE
         ELSE /\ Hold(acc)
              /\ obuOpen' = p.y
              /\ UNCHANGED delivered

DepayPacket(p) == BadHeader(p) \/ Probe(p) \/ Skip(p) \/ Refuse(p) \/ Accumulate(p)
=============================================================================

------------------------------ MODULE Av1Reorder ------------------------------
(***************************************************************************)
(* The reorder window in front of the AV1 depacketizer (src/src/rtp.c,     *)
(* Av1Reorder and rtp_decode_av1).                                         *)
(*                                                                         *)
(* A packet is the natural number n that counts the packets of the stream; *)
(* what the code sees of it is its RTP sequence number, n % SeqModulus,    *)
(* which wraps.  The network hands packets over in any order, loses them   *)
(* (a packet that never arrives) and repeats them; the one thing assumed   *)
(* of it is that an arrival is less than half the sequence space away from *)
(* the window, which is what the int16_t subtraction can tell apart.       *)
(*                                                                         *)
(* The two loops of the code (flush and drain) are modelled one iteration  *)
(* per step, with pc naming the loop that runs: the code is one call, so   *)
(* nothing else happens while pc # "idle".                                 *)
(***************************************************************************)
EXTENDS Integers, Sequences

CONSTANTS
  SeqModulus,  \* sequence numbers, 2^16 in the code (uint16_t)
  Depth,       \* CONFIG_AV1_REORDER_DEPTH
  Packets      \* the packets that may arrive

ASSUME ConstantsAssumption ==
  /\ SeqModulus \in Nat \ {0}
  /\ Depth \in Nat \ {0}
  /\ Packets \subseteq Nat

(***************************************************************************)
(* What the window relies on and the code nowhere states: the slot of a    *)
(* sequence number is seq % Depth, so the window is contiguous across the  *)
(* wrap only when Depth divides 2^16.                                      *)
(***************************************************************************)
DepthDividesModulus == \E k \in Nat : SeqModulus = k * Depth

NoPacket == -1            \* len[slot] = 0
Slots == 0 .. Depth - 1

VARIABLES
  started,   \* Av1Reorder.started
  expect,    \* Av1Reorder.expect, a sequence number
  held,      \* Av1Reorder.buf and len: the packet in each slot
  pc,        \* which loop of rtp_decode_av1 is running
  i,         \* its loop counter (flush)
  pkt,       \* the packet in hand while older ones are flushed
  base,      \* history: the packet number expect stands for
  out        \* history: packets given to av1_depay_packet, in order

vars == <<started, expect, held, pc, i, pkt, base, out>>

Seq16(n) == n % SeqModulus

\* (int16_t)(seq - reorder.expect)
SeqAheadUnsigned(seq, from) == (seq - from) % SeqModulus  \* mutant: the cast dropped
SeqAhead(seq, from) ==
  LET d == (seq - from) % SeqModulus
  IN  IF d < SeqModulus \div 2 THEN d ELSE d - SeqModulus

SlotOf(seq) == seq % Depth

WindowInit ==
  /\ started = FALSE
  /\ expect = 0
  /\ held = [s \in Slots |-> NoPacket]
  /\ pc = "idle"
  /\ i = 0
  /\ pkt = NoPacket
  /\ base = 0
  /\ out = << >>

-----------------------------------------------------------------------------
(* The first packet of all decides where the window starts. *)
Expect(n) == IF started THEN expect ELSE Seq16(n)
Base(n)   == IF started THEN base ELSE n

(* The int16_t difference identifies the packet. *)
Distinguishable(n) ==
  n - Base(n) \in -(SeqModulus \div 2) .. (SeqModulus \div 2) - 1

Ahead(n) == SeqAhead(Seq16(n), Expect(n))

Start(n) == started' = TRUE /\ expect' = Expect(n) /\ base' = Base(n)

\* Behind the window: returned as consumed, nothing changes.
DropLate(n) ==
  /\ pc = "idle"
  /\ Distinguishable(n)
  /\ Ahead(n) < 0
  /\ UNCHANGED vars

\* Inside the window: stored, and whatever is now contiguous drains.
StoreMisplaced(n) ==          \* mutant: the slot counted from expect
  /\ pc = "idle"
  /\ Distinguishable(n)
  /\ Ahead(n) \in 0 .. Depth - 1
  /\ Start(n)
  /\ held' = [held EXCEPT ![Ahead(n)] = n]
  /\ pc' = "drain"
  /\ UNCHANGED <<i, pkt, out>>

Store(n) ==
  /\ pc = "idle"
  /\ Distinguishable(n)
  /\ Ahead(n) \in 0 .. Depth - 1
  /\ Start(n)
  /\ held' = [held EXCEPT ![SlotOf(Seq16(n))] = n]
  /\ pc' = "drain"
  /\ UNCHANGED <<i, pkt, out>>

\* Past the window: the gap is a real loss, the window moves to this packet.
Jump(n) ==
  /\ pc = "idle"
  /\ Distinguishable(n)
  /\ Ahead(n) >= Depth
  /\ Start(n)
  /\ pc' = "flush"
  /\ i' = 0
  /\ pkt' = n
  /\ UNCHANGED <<held, out>>

-----------------------------------------------------------------------------
\* av1_reorder_release: the slot is freed and its packet depacketized.
Release(s) ==
  /\ held' = [held EXCEPT ![s] = NoPacket]
  /\ out' = Append(out, held[s])

FlushedSlot == SlotOf(Seq16(expect + i))

FlushSlot ==
  /\ pc = "flush"
  /\ i < Depth
  /\ IF held[FlushedSlot] # NoPacket
     THEN Release(FlushedSlot)
     ELSE UNCHANGED <<held, out>>
  /\ i' = i + 1
  /\ UNCHANGED <<started, expect, pc, pkt, base>>

FlushDone ==
  /\ pc = "flush"
  /\ i = Depth
  /\ expect' = Seq16(pkt)
  /\ base' = pkt
  /\ held' = [held EXCEPT ![SlotOf(Seq16(pkt))] = pkt]
  /\ pc' = "drain"
  /\ i' = 0
  /\ pkt' = NoPacket
  /\ UNCHANGED <<started, out>>

DrainSlot ==
  /\ pc = "drain"
  /\ held[SlotOf(expect)] # NoPacket
  /\ Release(SlotOf(expect))
  /\ expect' = Seq16(expect + 1)
  /\ base' = base + 1
  /\ UNCHANGED <<started, pc, i, pkt>>

DrainDone ==
  /\ pc = "drain"
  /\ held[SlotOf(expect)] = NoPacket
  /\ pc' = "idle"
  /\ UNCHANGED <<started, expect, held, i, pkt, base, out>>

Decode(n) == DropLate(n) \/ Store(n) \/ Jump(n)

WindowNext ==
  \/ \E n \in Packets : Decode(n)
  \/ FlushSlot
  \/ FlushDone
  \/ DrainSlot
  \/ DrainDone

WindowSpec == WindowInit /\ [][WindowNext]_vars

-----------------------------------------------------------------------------
Holding == {s \in Slots : held[s] # NoPacket}

TypeOK ==
  /\ started \in BOOLEAN
  /\ expect \in 0 .. SeqModulus - 1
  /\ held \in [Slots -> Nat \cup {NoPacket}]
  /\ pc \in {"idle", "flush", "drain"}
  /\ i \in 0 .. Depth
  /\ pkt \in Nat \cup {NoPacket}
  /\ base \in Nat
  /\ out \in Seq(Nat)

(***************************************************************************)
(* The depacketizer never sees a packet twice and never one older than the *)
(* last it was given: av1_depay_packet takes any step back for a loss and  *)
(* drops a whole coded video sequence (rtp.c:626-636, 791-795).            *)
(***************************************************************************)
InOrder == \A k, l \in 1 .. Len(out) : k < l => out[k] < out[l]

(***************************************************************************)
(* Every packet kept back sits in the slot of its own sequence number and  *)
(* is less than Depth ahead of the gap; when the call returns the gap is   *)
(* really there (nothing contiguous is kept back: "no latency is added     *)
(* while packets come in order", config.h:87-88).                          *)
(***************************************************************************)
WindowOK ==
  /\ TypeOK
  /\ pc = "idle" =>
       \A s \in Holding : /\ held[s] \in base + 1 .. base + Depth - 1
                          /\ s = held[s] % Depth

(***************************************************************************)
(* A packet taken into the window leaves it only by being released, in     *)
(* particular when the gap is given up: the flush lets out everything kept *)
(* back before it catches up (rtp.c:736-738).  A later packet never        *)
(* overwrites one that is still waiting.                                   *)
(***************************************************************************)
NothingOverwritten ==
  [][\A s \in Slots :
       held[s] # NoPacket /\ held'[s] # held[s] => out' = Append(out, held[s])]_vars

=============================================================================

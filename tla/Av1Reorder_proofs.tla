-------------------------- MODULE Av1Reorder_proofs --------------------------
(***************************************************************************)
(* For every window depth that divides the sequence space, and every       *)
(* network: the depacketizer sees the packets in order and at most once,   *)
(* and the window loses none of the packets it keeps back.  For every      *)
(* packet size and every temporal unit: the packetizer puts each byte of   *)
(* its OBUs on the wire once.                                              *)
(***************************************************************************)
EXTENDS Av1ReorderJitter, Av1Packetizer, ModularLemmas, WellFoundedInduction

(* Where the packets of the window lie: above everything already passed    *)
(* on, below the end of the window, in the slot of their own number.       *)
Low == base + (IF pc = "flush" THEN i ELSE IF pc = "idle" THEN 1 ELSE 0)

Behind(n) == n < base + (IF pc = "flush" THEN i ELSE 0)

WindowInv ==
  \A s \in Slots : held[s] # NoPacket =>
    /\ held[s] % Depth = s
    /\ Low <= held[s]
    /\ held[s] < base + Depth

CounterInv ==
  /\ expect = Seq16(base)
  /\ ~started => /\ pc = "idle" /\ base = 0 /\ out = << >>
                 /\ \A s \in Slots : held[s] = NoPacket
  /\ pc = "flush" => pkt \in Nat /\ base + Depth <= pkt

OutInv == InOrder /\ \A k \in 1 .. Len(out) : Behind(out[k])

IInv == TypeOK /\ CounterInv /\ WindowInv /\ OutInv

-----------------------------------------------------------------------------
(* A packet's slot depends on its number alone, wrap or no wrap.           *)
LEMMA SlotOfPacket ==
  ASSUME ConstantsAssumption, DepthDividesModulus, NEW n \in Nat
  PROVE  SlotOf(Seq16(n)) = n % Depth /\ SlotOf(Seq16(n)) \in Slots
<1>1. PICK k \in Nat : SeqModulus = k * Depth
  BY DEF DepthDividesModulus
<1>2. k \in Nat \ {0} /\ Depth \in Nat \ {0} /\ n \in Int
  BY <1>1 DEF ConstantsAssumption
<1>3. (n % (k * Depth)) % Depth = n % Depth
  BY <1>2, ModOfMultiple
<1>4. n % Depth \in 0 .. Depth - 1
  BY <1>2, DivMod
<1> QED BY <1>1, <1>3, <1>4 DEF SlotOf, Seq16, Slots

(* The window position as the code computes it, from expect.               *)
LEMMA SlotOfExpect ==
  ASSUME ConstantsAssumption, DepthDividesModulus, NEW n \in Nat, NEW j \in Nat
  PROVE  /\ Seq16(Seq16(n) + j) = Seq16(n + j)
         /\ SlotOf(Seq16(Seq16(n) + j)) = (n + j) % Depth
         /\ Seq16(n) \in 0 .. SeqModulus - 1
<1>1. SeqModulus \in Nat \ {0} /\ n \in Int /\ j \in Int
  BY DEF ConstantsAssumption
<1>2. ((n % SeqModulus) + j) % SeqModulus = (n + j) % SeqModulus
  BY <1>1, ModAdd
<1>3. n + j \in Nat
  OBVIOUS
<1>4. SlotOf(Seq16(n + j)) = (n + j) % Depth
  BY <1>3, SlotOfPacket
<1>5. n % SeqModulus \in 0 .. SeqModulus - 1
  BY <1>1, DivMod
<1> QED BY <1>2, <1>4, <1>5 DEF Seq16

(* The int16_t difference is the distance between the packets.             *)
LEMMA AheadIsDistance ==
  ASSUME ConstantsAssumption, NEW n \in Nat, NEW b \in Nat,
         n - b \in -(SeqModulus \div 2) .. (SeqModulus \div 2) - 1
  PROVE  SeqAhead(Seq16(n), Seq16(b)) = n - b
<1> DEFINE h == SeqModulus \div 2
<1>1. SeqModulus \in Nat \ {0} /\ n - b \in Int /\ n \in Int /\ b \in Int
  BY DEF ConstantsAssumption
<1>2. h \in Nat /\ h + h <= SeqModulus
  BY <1>1
<1>3. ((n % SeqModulus) - (b % SeqModulus)) % SeqModulus = (n - b) % SeqModulus
  BY <1>1, ModSub
<1>4. CASE n - b >= 0
  <2>1. n - b \in 0 .. SeqModulus - 1
    BY <1>1, <1>2, <1>4
  <2>2. (n - b) % SeqModulus = n - b
    BY <1>1, <2>1, ModSmall
  <2> QED BY <1>3, <2>2, <1>2 DEF SeqAhead, Seq16
<1>5. CASE n - b < 0
  <2> DEFINE r == (n - b) + SeqModulus
  <2>1. r \in 0 .. SeqModulus - 1 /\ r >= h /\ n - b = SeqModulus * (-1) + r
    BY <1>1, <1>2, <1>5
  <2> HIDE DEF r
  <2>2. (n - b) % SeqModulus = r
    BY <1>1, <2>1, ModIs
  <2>3. r - SeqModulus = n - b
    BY <1>1 DEF r
  <2> QED BY <1>3, <2>1, <2>2, <2>3, <1>1 DEF SeqAhead, Seq16
<1> QED BY <1>1, <1>4, <1>5

(* At most one packet number of a window fits a slot.                      *)
LEMMA SamePacket ==
  ASSUME ConstantsAssumption, NEW m \in Nat, NEW n \in Nat, NEW b \in Nat,
         m % Depth = n % Depth, b <= m, m < b + Depth, b <= n, n < b + Depth
  PROVE  m = n
<1>1. m \in Int /\ n \in Int /\ Depth \in Nat \ {0} /\ m - n < Depth /\ n - m < Depth
  BY DEF ConstantsAssumption
<1> QED BY <1>1, ModWindow

-----------------------------------------------------------------------------
\* IInv holds of the empty window.
LEMMA InitHolds == ASSUME ConstantsAssumption PROVE WindowInit => IInv
<1> SUFFICES ASSUME WindowInit PROVE IInv
  OBVIOUS
<1>1. 0 % SeqModulus = 0
  <2>1. SeqModulus \in Nat \ {0} /\ 0 \in 0 .. SeqModulus - 1
    BY DEF ConstantsAssumption
  <2> QED BY <2>1, ModSmall
<1>2. TypeOK
  <2>1. out \in Seq(Nat)
    BY DEF WindowInit
  <2>2. started \in BOOLEAN
    BY DEF WindowInit
  <2>3. expect \in 0 .. SeqModulus - 1 /\ i \in 0 .. Depth /\ base \in Nat
    BY DEF WindowInit, ConstantsAssumption
  <2> QED BY <2>1, <2>2, <2>3 DEF WindowInit, TypeOK
<1>3. CounterInv /\ WindowInv /\ OutInv
  BY <1>1 DEF WindowInit, CounterInv, WindowInv, OutInv, InOrder, Seq16
<1> QED BY <1>2, <1>3 DEF IInv

(* A packet is taken into the window.                                      *)
LEMMA StoreStep ==
  ASSUME ConstantsAssumption, DepthDividesModulus, IInv, NEW n \in Nat, Store(n)
  PROVE  IInv'
<1> DEFINE b == Base(n)
<1>1. b \in Nat /\ Expect(n) = Seq16(b) /\ b' = b
  BY DEF IInv, TypeOK, CounterInv, Base, Expect, Store, Start
<1>2. Ahead(n) = n - b
  BY <1>1, AheadIsDistance DEF Store, Distinguishable, Ahead
<1>3. b <= n /\ n < b + Depth
  BY <1>1, <1>2 DEF Store, ConstantsAssumption
<1>4. base' = b /\ expect' = Seq16(b) /\ started' = TRUE /\ pc = "idle" /\ pc' = "drain"
  BY <1>1 DEF Store, Start
<1>5. held' = [held EXCEPT ![n % Depth] = n] /\ n % Depth \in Slots
  BY SlotOfPacket DEF Store
<1>6. TypeOK'
  BY <1>1, <1>4, <1>5, SlotOfExpect DEF IInv, TypeOK, Store
<1>7. CounterInv'
  BY <1>4 DEF CounterInv
<1>8. WindowInv'
  <2> SUFFICES ASSUME NEW s \in Slots, held'[s] # NoPacket
               PROVE  held'[s] % Depth = s /\ b <= held'[s] /\ held'[s] < b + Depth
    BY <1>1, <1>4 DEF WindowInv, Low
  <2>1. CASE s = n % Depth
    BY <2>1, <1>3, <1>5 DEF IInv, TypeOK
  <2>2. CASE s # n % Depth
    <3>1. held'[s] = held[s] /\ started
      BY <2>2, <1>5 DEF IInv, TypeOK, CounterInv
    <3>2. b = base /\ base \in Nat /\ held[s] \in Nat
      BY <3>1 DEF Base, IInv, TypeOK
    <3> QED BY <3>1, <3>2, <1>4 DEF IInv, WindowInv, Low
  <2> QED BY <2>1, <2>2
<1>9. OutInv'
  <2>1. out' = out
    BY DEF Store
  <2>2. CASE started
    BY <2>1, <2>2, <1>4 DEF IInv, OutInv, InOrder, Behind, Base
  <2>3. CASE ~started
    BY <2>1, <2>3 DEF IInv, CounterInv, OutInv, InOrder
  <2> QED BY <2>2, <2>3
<1> QED BY <1>6, <1>7, <1>8, <1>9 DEF IInv

(* A packet beyond the window starts the flush.                            *)
LEMMA JumpStep ==
  ASSUME ConstantsAssumption, DepthDividesModulus, IInv, NEW n \in Nat, Jump(n)
  PROVE  IInv'
<1>1. Base(n) \in Nat /\ Expect(n) = Seq16(Base(n))
  BY DEF IInv, TypeOK, CounterInv, Base, Expect
<1>2. Ahead(n) = n - Base(n)
  BY <1>1, AheadIsDistance DEF Jump, Distinguishable, Ahead
<1>3. started
  BY <1>2 DEF Jump, Base, ConstantsAssumption
<1>4. Base(n) = base /\ base + Depth <= n /\ base' = base /\ expect' = expect /\ started' = TRUE
  BY <1>1, <1>2, <1>3 DEF Jump, Start, Base, Expect, ConstantsAssumption
<1>5. pc = "idle" /\ pc' = "flush" /\ i' = 0 /\ pkt' = n /\ held' = held /\ out' = out
  BY DEF Jump
<1>6. TypeOK'
  BY <1>4, <1>5 DEF IInv, TypeOK, ConstantsAssumption
<1>7. CounterInv'
  BY <1>4, <1>5 DEF IInv, CounterInv
<1>8. WindowInv'
  BY <1>4, <1>5 DEF IInv, TypeOK, WindowInv, Low
<1>9. OutInv'
  BY <1>4, <1>5 DEF IInv, TypeOK, OutInv, InOrder, Behind
<1> QED BY <1>6, <1>7, <1>8, <1>9 DEF IInv

(* What a release does to the history: it grows by the packet in the slot. *)
LEMMA AppendInOrder ==
  ASSUME NEW seq \in Seq(Nat), NEW n \in Nat,
         \A k, l \in 1 .. Len(seq) : k < l => seq[k] < seq[l],
         \A k \in 1 .. Len(seq) : seq[k] < n
  PROVE  /\ Append(seq, n) \in Seq(Nat)
         /\ \A k, l \in 1 .. Len(Append(seq, n)) : k < l => Append(seq, n)[k] < Append(seq, n)[l]
         /\ \A k \in 1 .. Len(Append(seq, n)) : Append(seq, n)[k] <= n
  OBVIOUS

(* One slot of the flush loop: it is released if it holds a packet.        *)
LEMMA FlushSlotStep ==
  ASSUME ConstantsAssumption, DepthDividesModulus, IInv, FlushSlot
  PROVE  IInv'
<1> DEFINE c == base + i  s0 == c % Depth
<1>1. base \in Nat /\ i \in Nat /\ i < Depth /\ c \in Nat /\ Depth \in Nat \ {0}
  BY DEF FlushSlot, IInv, TypeOK, ConstantsAssumption
<1>2. FlushedSlot = s0 /\ s0 \in Slots
  BY <1>1, SlotOfExpect, SlotOfPacket DEF FlushedSlot, IInv, CounterInv
<1>3. /\ pc = "flush" /\ pc' = "flush" /\ i' = i + 1 /\ base' = base /\ expect' = expect
      /\ pkt' = pkt /\ started' = started
  BY DEF FlushSlot
<1>4. c' = c + 1 /\ Low = c /\ Low' = c + 1
  BY <1>1, <1>3 DEF Low
<1>5. CounterInv'
  BY <1>3 DEF IInv, CounterInv
<1>6. \A s \in Slots : held[s] # NoPacket /\ s # s0 => held[s] # c
  BY <1>1 DEF IInv, WindowInv
<1>7. CASE held[s0] # NoPacket
  <2>1. held' = [held EXCEPT ![s0] = NoPacket] /\ out' = Append(out, held[s0])
    BY <1>2, <1>7 DEF FlushSlot, Release
  <2>2. held[s0] = c
    <3>1. held[s0] \in Nat /\ held[s0] % Depth = c % Depth /\ base <= held[s0]
          /\ held[s0] < base + Depth
      <4>1. held[s0] \in Nat
        BY <1>2, <1>7 DEF IInv, TypeOK
      <4>2. held[s0] % Depth = s0 /\ c <= held[s0] /\ held[s0] < base + Depth
        BY <1>2, <1>4, <1>7 DEF IInv, WindowInv
      <4> QED BY <1>1, <4>1, <4>2
    <3>2. base <= c /\ c < base + Depth
      BY <1>1
    <3> QED BY <1>1, <3>1, <3>2, SamePacket
  <2>3. \A k \in 1 .. Len(out) : out[k] < c
    BY <1>3, <1>1 DEF IInv, OutInv, Behind
  <2>4. /\ out' \in Seq(Nat) /\ InOrder'
        /\ \A k \in 1 .. Len(out') : out'[k] <= c
    BY <1>1, <2>1, <2>2, <2>3, AppendInOrder DEF IInv, TypeOK, OutInv, InOrder
  <2>5. OutInv'
    <3>1. \A k \in 1 .. Len(out') : out'[k] < c + 1
      BY <1>1, <2>4
    <3> QED BY <1>1, <1>3, <2>4, <3>1 DEF OutInv, Behind
  <2>6. TypeOK'
    BY <1>1, <1>2, <1>3, <2>1, <2>4 DEF IInv, TypeOK
  <2>7. WindowInv'
    <3> SUFFICES ASSUME NEW s \in Slots, held'[s] # NoPacket
                 PROVE  held'[s] % Depth = s /\ c + 1 <= held'[s] /\ held'[s] < base + Depth
      BY <1>3, <1>4 DEF WindowInv
    <3>1. s # s0 /\ held'[s] = held[s]
      BY <1>2, <2>1 DEF IInv, TypeOK
    <3>2. held[s] \in Nat /\ held[s] % Depth = s /\ c <= held[s] /\ held[s] < base + Depth
      BY <1>4, <3>1 DEF IInv, TypeOK, WindowInv
    <3>3. held[s] # c
      BY <1>6, <3>1
    <3> QED BY <1>1, <3>1, <3>2, <3>3
  <2> QED BY <1>5, <2>5, <2>6, <2>7 DEF IInv
<1>8. CASE held[s0] = NoPacket
  <2>1. held' = held /\ out' = out
    BY <1>2, <1>8 DEF FlushSlot
  <2>2. TypeOK'
    BY <1>1, <1>3, <2>1 DEF IInv, TypeOK
  <2>3. WindowInv'
    <3> SUFFICES ASSUME NEW s \in Slots, held[s] # NoPacket
                 PROVE  held[s] % Depth = s /\ c + 1 <= held[s] /\ held[s] < base + Depth
      BY <1>3, <1>4, <2>1 DEF WindowInv
    <3>1. held[s] \in Nat /\ held[s] % Depth = s /\ c <= held[s] /\ held[s] < base + Depth
      BY <1>4 DEF IInv, TypeOK, WindowInv
    <3>2. held[s] # c
      BY <1>6, <1>8
    <3> QED BY <1>1, <3>1, <3>2
  <2>4. OutInv'
    <3>1. \A k \in 1 .. Len(out) : out[k] < c /\ out[k] \in Nat
      BY <1>3, <1>1 DEF IInv, TypeOK, OutInv, Behind
    <3> QED BY <1>1, <1>3, <2>1, <3>1 DEF IInv, OutInv, InOrder, Behind
  <2> QED BY <1>5, <2>2, <2>3, <2>4 DEF IInv
<1> QED BY <1>7, <1>8

(* After the flush the window is empty and starts at the packet in hand.   *)
LEMMA FlushDoneStep ==
  ASSUME ConstantsAssumption, DepthDividesModulus, IInv, FlushDone
  PROVE  IInv'
<1>1. pkt \in Nat /\ base + Depth <= pkt /\ base \in Nat /\ i = Depth /\ Depth \in Nat \ {0}
  BY DEF FlushDone, IInv, TypeOK, CounterInv, ConstantsAssumption
<1>2. /\ pc = "flush" /\ pc' = "drain" /\ i' = 0 /\ base' = pkt /\ expect' = Seq16(pkt)
      /\ pkt' = NoPacket /\ started' = started /\ out' = out
  BY DEF FlushDone
<1>3. held' = [held EXCEPT ![pkt % Depth] = pkt] /\ pkt % Depth \in Slots
  BY <1>1, SlotOfPacket DEF FlushDone
<1>4. \A s \in Slots : held[s] = NoPacket
  BY <1>1, <1>2 DEF IInv, TypeOK, WindowInv, Low
<1>5. TypeOK'
  <2>1. expect' \in 0 .. SeqModulus - 1 /\ i' \in 0 .. Depth
    BY <1>1, <1>2, SlotOfExpect
  <2>2. held' \in [Slots -> Nat \cup {NoPacket}]
    BY <1>1, <1>3 DEF IInv, TypeOK
  <2> QED BY <1>1, <1>2, <2>1, <2>2 DEF IInv, TypeOK
<1>6. CounterInv'
  BY <1>2 DEF IInv, CounterInv
<1>7. WindowInv'
  BY <1>1, <1>2, <1>3, <1>4 DEF IInv, TypeOK, WindowInv, Low
<1>8. OutInv'
  <2>1. \A k \in 1 .. Len(out) : out[k] < pkt
    <3>1. \A k \in 1 .. Len(out) : out[k] < base + i /\ out[k] \in Nat
      BY <1>2 DEF IInv, TypeOK, OutInv, Behind
    <3> QED BY <1>1, <3>1
  <2>2. \A k \in 1 .. Len(out') : out'[k] < base' + 0
    BY <1>1, <1>2, <2>1
  <2>3. InOrder'
    BY <1>2 DEF IInv, OutInv, InOrder
  <2> QED BY <1>2, <2>2, <2>3 DEF OutInv, Behind
<1> QED BY <1>5, <1>6, <1>7, <1>8 DEF IInv

(* The packet at the front of the window is passed on, the window moves.   *)
LEMMA DrainSlotStep ==
  ASSUME ConstantsAssumption, DepthDividesModulus, IInv, DrainSlot
  PROVE  IInv'
<1> DEFINE s0 == base % Depth
<1>1. base \in Nat /\ Depth \in Nat \ {0}
  BY DEF IInv, TypeOK, ConstantsAssumption
<1>2. SlotOf(expect) = s0 /\ s0 \in Slots
  BY <1>1, SlotOfPacket DEF IInv, CounterInv
<1>3. /\ pc = "drain" /\ pc' = "drain" /\ i' = i /\ pkt' = pkt /\ started' = started
      /\ base' = base + 1 /\ expect' = Seq16(expect + 1)
  BY DEF DrainSlot
<1>4. held[s0] # NoPacket /\ held' = [held EXCEPT ![s0] = NoPacket]
      /\ out' = Append(out, held[s0])
  BY <1>2 DEF DrainSlot, Release
<1>5. Low = base /\ Low' = base + 1
  BY <1>1, <1>3 DEF Low
<1>6. held[s0] = base
  <2>1. held[s0] \in Nat
    BY <1>2, <1>4 DEF IInv, TypeOK
  <2>2. held[s0] % Depth = s0 /\ base <= held[s0] /\ held[s0] < base + Depth
    BY <1>2, <1>4, <1>5 DEF IInv, WindowInv
  <2> QED BY <1>1, <2>1, <2>2, SamePacket
<1>7. expect' = Seq16(base + 1) /\ expect' \in 0 .. SeqModulus - 1
  <2>1. Seq16(Seq16(base) + 1) = Seq16(base + 1)
    BY <1>1, SlotOfExpect
  <2>2. Seq16(base + 1) \in 0 .. SeqModulus - 1
    BY <1>1, SlotOfExpect
  <2> QED BY <1>3, <2>1, <2>2 DEF IInv, CounterInv
<1>8. \A k \in 1 .. Len(out) : out[k] < base
  BY <1>1, <1>3 DEF IInv, OutInv, Behind
<1>9. /\ out' \in Seq(Nat) /\ InOrder'
      /\ \A k \in 1 .. Len(out') : out'[k] <= base
  BY <1>1, <1>4, <1>6, <1>8, AppendInOrder DEF IInv, TypeOK, OutInv, InOrder
<1>10. TypeOK'
  BY <1>1, <1>2, <1>3, <1>4, <1>7, <1>9 DEF IInv, TypeOK
<1>11. CounterInv'
  BY <1>3, <1>7 DEF IInv, CounterInv
<1>12. WindowInv'
  <2> SUFFICES ASSUME NEW s \in Slots, held'[s] # NoPacket
               PROVE  held'[s] % Depth = s /\ base + 1 <= held'[s] /\ held'[s] < (base + 1) + Depth
    BY <1>3, <1>5 DEF WindowInv
  <2>1. s # s0 /\ held'[s] = held[s]
    BY <1>2, <1>4 DEF IInv, TypeOK
  <2>2. held[s] \in Nat /\ held[s] % Depth = s /\ base <= held[s] /\ held[s] < base + Depth
    BY <1>5, <2>1 DEF IInv, TypeOK, WindowInv
  <2>3. held[s] # base
    BY <2>1, <2>2
  <2> QED BY <1>1, <2>1, <2>2, <2>3
<1>13. OutInv'
  <2>1. \A k \in 1 .. Len(out') : out'[k] < base + 1
    BY <1>1, <1>9
  <2> QED BY <1>1, <1>3, <1>9, <2>1 DEF OutInv, Behind
<1> QED BY <1>10, <1>11, <1>12, <1>13 DEF IInv

(* The loop ends at the gap: nothing kept back is contiguous any more.     *)
LEMMA DrainDoneStep ==
  ASSUME ConstantsAssumption, DepthDividesModulus, IInv, DrainDone
  PROVE  IInv'
<1>1. base \in Nat /\ Depth \in Nat \ {0}
  BY DEF IInv, TypeOK, ConstantsAssumption
<1>2. SlotOf(expect) = base % Depth /\ base % Depth \in Slots
  BY <1>1, SlotOfPacket DEF IInv, CounterInv
<1>3. /\ pc = "drain" /\ pc' = "idle" /\ i' = i /\ pkt' = pkt /\ started' = started
      /\ base' = base /\ expect' = expect /\ held' = held /\ out' = out
  BY DEF DrainDone
<1>4. held[base % Depth] = NoPacket
  BY <1>2 DEF DrainDone
<1>5. TypeOK' /\ CounterInv'
  BY <1>3 DEF IInv, TypeOK, CounterInv
<1>6. WindowInv'
  <2> SUFFICES ASSUME NEW s \in Slots, held[s] # NoPacket
               PROVE  held[s] % Depth = s /\ base + 1 <= held[s] /\ held[s] < base + Depth
    BY <1>3 DEF WindowInv, Low
  <2>1. held[s] \in Nat /\ held[s] % Depth = s /\ base <= held[s] /\ held[s] < base + Depth
    BY <1>1, <1>3 DEF IInv, TypeOK, WindowInv, Low
  <2>2. held[s] # base
    BY <1>4, <2>1
  <2> QED BY <1>1, <2>1, <2>2
<1>7. OutInv'
  BY <1>3 DEF IInv, OutInv, InOrder, Behind
<1> QED BY <1>5, <1>6, <1>7 DEF IInv

\* Every step of the window keeps IInv.
LEMMA NextPreserves ==
  ASSUME ConstantsAssumption, DepthDividesModulus, IInv, [WindowNext]_vars
  PROVE  IInv'
<1>1. CASE UNCHANGED vars
  BY <1>1 DEF vars, IInv, TypeOK, CounterInv, WindowInv, OutInv, InOrder, Low, Behind
<1>2. ASSUME NEW n \in Packets, Decode(n) PROVE IInv'
  <2>1. n \in Nat
    BY DEF ConstantsAssumption
  <2>2. CASE DropLate(n)
    BY <1>1, <2>2 DEF DropLate
  <2> QED BY <1>2, <2>1, <2>2, StoreStep, JumpStep DEF Decode
<1> QED BY <1>1, <1>2, FlushSlotStep, FlushDoneStep, DrainSlotStep, DrainDoneStep DEF WindowNext

-----------------------------------------------------------------------------
(* The window invariant holds of every behaviour when Depth divides the    *)
(* sequence space.                                                         *)
THEOREM WindowInvariant == DepthDividesModulus => (WindowSpec => []IInv)
<1> SUFFICES ASSUME DepthDividesModulus PROVE WindowSpec => []IInv
  OBVIOUS
<1>1. WindowInit => IInv
  BY ConstantsAssumption, InitHolds
<1>2. IInv /\ [WindowNext]_vars => IInv'
  BY ConstantsAssumption, NextPreserves
<1> QED BY <1>1, <1>2, PTL DEF WindowSpec

(* The depacketizer sees the packets in order, each at most once           *)
(* (rtp_decode_av1 never steps back), for every Depth that divides the     *)
(* sequence space, every stream length and every network.                  *)
THEOREM ReleasedInOrder == DepthDividesModulus => (WindowSpec => []InOrder)
<1> SUFFICES ASSUME DepthDividesModulus PROVE WindowSpec => []InOrder
  OBVIOUS
<1>1. IInv => InOrder
  BY DEF IInv, OutInv
<1>2. WindowSpec => []IInv
  BY WindowInvariant
<1> QED BY <1>1, <1>2, PTL

(* When the call returns, everything kept back lies behind a gap, in the   *)
(* slot of its own number, less than Depth ahead.                          *)
THEOREM WindowCorrect == DepthDividesModulus => (WindowSpec => []WindowOK)
<1> SUFFICES ASSUME DepthDividesModulus PROVE WindowSpec => []WindowOK
  OBVIOUS
<1>1. IInv => WindowOK
  <2> SUFFICES ASSUME IInv, pc = "idle", NEW s \in Slots, held[s] # NoPacket
               PROVE  held[s] \in base + 1 .. base + Depth - 1 /\ s = held[s] % Depth
    BY DEF WindowOK, Holding, IInv
  <2>1. held[s] \in Nat /\ base \in Nat /\ Depth \in Nat
    BY ConstantsAssumption DEF IInv, TypeOK
  <2>2. s = held[s] % Depth /\ base + 1 <= held[s] /\ held[s] < base + Depth
    BY DEF IInv, WindowInv, Low
  <2> QED BY <2>1, <2>2
<1>2. WindowSpec => []IInv
  BY WindowInvariant
<1> QED BY <1>1, <1>2, PTL

-----------------------------------------------------------------------------
(* How far the window may jump.  An arrival is less than half the sequence *)
(* space ahead of the gap, and that is where the window then goes.         *)
Newest == out[Len(out)]
HalfSpace == SeqModulus \div 2

JumpInv ==
  /\ pc # "idle" => 1 <= HalfSpace
  /\ pc = "flush" => pkt - base < HalfSpace
  /\ out # << >> =>
       /\ pc = "idle" => Newest = base - 1
       /\ pc = "flush" => base - 1 <= Newest /\ pkt - Newest <= HalfSpace
       /\ pc = "drain" => /\ base - Newest <= HalfSpace
                          /\ held[base % Depth] = NoPacket => Newest = base - 1

ShortGaps == \A k \in 1 .. Len(out) - 1 : out[k + 1] - out[k] <= HalfSpace

\* A packet is released.
LEMMA GapMore ==
  ASSUME TypeOK, ShortGaps, NEW n \in Nat, out' = Append(out, n),
         out # << >> => n - Newest <= HalfSpace
  PROVE  ShortGaps' /\ Newest' = n /\ out' # << >>
<1> DEFINE h == HalfSpace
<1>1. out \in Seq(Nat) /\ Len(out) \in Nat
  BY DEF TypeOK
<1>2. /\ Len(out') = Len(out) + 1 /\ out'[Len(out) + 1] = n
      /\ \A k \in 1 .. Len(out) : out'[k] = out[k]
  BY <1>1
<1>3. HalfSpace' = h
  BY DEF HalfSpace
<1>4. out = << >> <=> Len(out) = 0
  BY <1>1
<1> HIDE DEF h
<1>5. ASSUME NEW k \in 1 .. Len(out') - 1 PROVE out'[k + 1] - out'[k] <= h
  <2>1. k \in 1 .. Len(out)
    BY <1>1, <1>2
  <2>2. CASE k = Len(out)
    <3>1. out # << >> /\ Newest = out[k]
      BY <1>1, <1>4, <2>1, <2>2 DEF Newest
    <3>2. n - out[k] <= h
      BY <3>1 DEF h
    <3> QED BY <1>2, <2>1, <2>2, <3>2
  <2>3. CASE k # Len(out)
    <3>1. k \in 1 .. Len(out) - 1 /\ k + 1 \in 1 .. Len(out)
      BY <1>1, <2>1, <2>3
    <3>2. out[k + 1] - out[k] <= h
      BY <3>1 DEF ShortGaps, h
    <3> QED BY <1>2, <2>1, <3>1, <3>2
  <2> QED BY <2>2, <2>3
<1>6. out' # << >>
  BY <1>1, <1>2
<1> QED BY <1>2, <1>3, <1>5, <1>6 DEF ShortGaps, Newest

LEMMA InHalf ==
  ASSUME NEW a \in Int, NEW b \in Int, NEW h \in Int, a - b \in -h .. h - 1
  PROVE  a - b < h /\ 1 <= h
  OBVIOUS

\* An arrival changes nothing of what was released.
LEMMA ArrivalGap ==
  ASSUME ConstantsAssumption, DepthDividesModulus, IInv, IInv', JumpInv, NEW n \in Nat, Decode(n)
  PROVE  JumpInv' /\ out' = out
<1> DEFINE h == HalfSpace  d == Ahead(n)
<1>1. /\ SeqModulus \in Nat \ {0} /\ Depth \in Nat \ {0} /\ base \in Nat /\ h \in Nat /\ h = HalfSpace'
  BY DEF ConstantsAssumption, IInv, TypeOK, HalfSpace, Newest
<1>2. CASE DropLate(n)
  BY <1>2 DEF DropLate, vars, JumpInv, Newest, HalfSpace
<1>3. ASSUME pc = "idle", Distinguishable(n), Start(n), out' = out, Store(n) \/ Jump(n)
      PROVE  /\ n - base' < h /\ 1 <= h
             /\ out # << >> => base' = base /\ Newest' = Newest /\ Newest = base - 1
  <2>1. base' = Base(n) /\ (started => Base(n) = base)
    BY <1>3 DEF Start, Base
  <2>2. n - base' \in -h .. h - 1 /\ base' \in Nat
    <3>1. base' \in Nat
      BY DEF IInv, TypeOK
    <3> QED BY <1>1, <1>3, <2>1, <3>1 DEF Distinguishable, HalfSpace
  <2>3. out # << >> => started
    BY DEF IInv, CounterInv
  <2>4. out # << >> => Newest = base - 1
    BY <1>3 DEF JumpInv
  <2> HIDE DEF h, d
  <2>5. n - base' < h /\ 1 <= h
    <3>1. n \in Int
      OBVIOUS
    <3>2. base' \in Int
      BY <2>2
    <3>3. h \in Int
      BY <1>1
    <3>4. n - base' \in -h .. h - 1
      BY <2>2
    <3>5. \A a, b, c \in Int : a - b \in -c .. c - 1 => a - b < c /\ 1 <= c
      BY InHalf
    <3> QED BY ONLY <3>1, <3>2, <3>3, <3>4, <3>5
  <2> QED BY <1>3, <2>1, <2>3, <2>4, <2>5 DEF Newest
<1>4. CASE Store(n)
  <2>1. pc = "idle" /\ Distinguishable(n) /\ Start(n) /\ out' = out /\ pc' = "drain"
    BY <1>4 DEF Store
  <2>2. /\ 1 <= h /\ (out # << >> => base' = base /\ Newest' = Newest /\ Newest = base - 1)
    BY <1>3, <1>4, <2>1
  <2>3. out # << >> => base' - Newest' = 1 /\ Newest' = base' - 1
    BY <1>1, <2>2
  <2> HIDE DEF h
  <2>4. out # << >> => base' - Newest' <= h
    BY <1>1, <2>2, <2>3
  <2> QED BY <1>1, <2>1, <2>2, <2>3, <2>4 DEF JumpInv
<1>5. CASE Jump(n)
  <2>1. pc = "idle" /\ Distinguishable(n) /\ Start(n) /\ out' = out /\ pc' = "flush" /\ pkt' = n
    BY <1>5 DEF Jump
  <2>2. /\ n - base' < h /\ 1 <= h
        /\ out # << >> => base' = base /\ Newest' = Newest /\ Newest = base - 1
    BY <1>3, <1>5, <2>1
  <2> HIDE DEF h
  <2>3. out # << >> => base' - 1 <= Newest' /\ n - Newest' <= h
    BY <1>1, <2>2
  <2> QED BY <1>1, <2>1, <2>2, <2>3 DEF JumpInv
<1> QED BY <1>2, <1>4, <1>5, <1>1 DEF Decode, DropLate, vars, Store, Jump

\* What is flushed lies between the gap and the packet in hand.
LEMMA FlushGap ==
  ASSUME ConstantsAssumption, DepthDividesModulus, IInv, JumpInv, ShortGaps, FlushSlot
  PROVE  JumpInv' /\ ShortGaps'
<1> DEFINE h == HalfSpace  s0 == FlushedSlot
<1>1. /\ Depth \in Nat \ {0} /\ base \in Nat /\ pkt \in Nat /\ h \in Int /\ h = HalfSpace'
      /\ base + Depth <= pkt /\ i \in Nat /\ i < Depth
      /\ pc = "flush" /\ pc' = "flush" /\ base' = base /\ pkt' = pkt /\ TypeOK
  BY DEF ConstantsAssumption, IInv, TypeOK, CounterInv, HalfSpace, FlushSlot
<1>2. /\ 1 <= h /\ pkt - base < h
      /\ out # << >> => base - 1 <= Newest /\ pkt - Newest <= h
  BY <1>1 DEF JumpInv
<1>3. s0 \in Slots
  <2>1. base + i \in Nat /\ expect = Seq16(base)
    BY <1>1 DEF IInv, CounterInv
  <2> QED BY <1>1, <2>1, SlotOfExpect, SlotOfPacket DEF FlushedSlot
<1> HIDE DEF h, s0
<1>4. CASE held[s0] = NoPacket
  <2>1. out' = out
    BY <1>4 DEF FlushSlot, s0
  <2> QED BY <1>1, <1>2, <2>1 DEF JumpInv, ShortGaps, Newest, HalfSpace, h
<1>5. CASE held[s0] # NoPacket
  <2> DEFINE n == held[s0]
  <2>1. out' = Append(out, n)
    BY <1>5 DEF FlushSlot, Release, s0
  <2>2. n \in Nat /\ base + i <= n /\ n < base + Depth
    BY <1>1, <1>3, <1>5 DEF IInv, TypeOK, WindowInv, Low
  <2> HIDE DEF n
  <2>3. out # << >> => Newest \in Nat
    BY DEF IInv, TypeOK, Newest
  <2>4. out # << >> => n - Newest <= h
    BY <1>1, <1>2, <2>2, <2>3
  <2>5. ShortGaps' /\ Newest' = n
    BY <1>1, <2>1, <2>2, <2>4, GapMore DEF h
  <2>6. base - 1 <= n /\ pkt - n <= h
    BY <1>1, <1>2, <2>2
  <2> QED BY <1>1, <1>2, <2>5, <2>6 DEF JumpInv, h
<1> QED BY <1>4, <1>5

LEMMA DrainGap ==
  ASSUME ConstantsAssumption, DepthDividesModulus, IInv, JumpInv, ShortGaps, DrainSlot
  PROVE  JumpInv' /\ ShortGaps'
<1> DEFINE h == HalfSpace  s0 == base % Depth
<1>1. /\ Depth \in Nat \ {0} /\ base \in Nat /\ h \in Int /\ h = HalfSpace'
      /\ pc = "drain" /\ pc' = "drain" /\ base' = base + 1 /\ TypeOK
  BY DEF ConstantsAssumption, IInv, TypeOK, HalfSpace, DrainSlot
<1>2. /\ 1 <= h /\ (out # << >> => base - Newest <= h)
  BY <1>1 DEF JumpInv
<1>3. SlotOf(expect) = s0 /\ s0 \in Slots
  BY <1>1, SlotOfPacket DEF IInv, CounterInv
<1>4. held[s0] # NoPacket /\ out' = Append(out, held[s0])
  BY <1>3 DEF DrainSlot, Release
<1>5. held[s0] = base
  <2>1. held[s0] \in Nat
    BY <1>3, <1>4 DEF IInv, TypeOK
  <2>2. Low = base
    BY <1>1 DEF Low
  <2>3. held[s0] % Depth = s0 /\ base <= held[s0] /\ held[s0] < base + Depth
    BY <1>3, <1>4, <2>2 DEF IInv, WindowInv
  <2>4. base <= base /\ base < base + Depth
    BY <1>1
  <2> QED BY <1>1, <2>1, <2>3, <2>4, SamePacket
<1>6. ShortGaps' /\ Newest' = base
  BY <1>1, <1>2, <1>4, <1>5, GapMore
<1> HIDE DEF h, s0
<1>7. base' - Newest' <= h /\ Newest' = base' - 1
  BY <1>1, <1>2, <1>6
<1> QED BY <1>1, <1>2, <1>6, <1>7 DEF JumpInv, h

LEMMA GapStep ==
  ASSUME ConstantsAssumption, DepthDividesModulus, IInv, IInv', JumpInv, ShortGaps, [WindowNext]_vars
  PROVE  JumpInv' /\ ShortGaps'
<1>1. CASE UNCHANGED vars
  BY <1>1 DEF vars, JumpInv, ShortGaps, Newest, HalfSpace
<1>2. ASSUME NEW n \in Packets, Decode(n) PROVE JumpInv' /\ ShortGaps'
  <2>1. JumpInv' /\ out' = out
    <3>1. n \in Nat
      BY DEF ConstantsAssumption
    <3> QED BY <1>2, <3>1, ArrivalGap
  <2> QED BY <2>1 DEF ShortGaps, HalfSpace
<1>3. CASE FlushDone
  <2>1. /\ Depth \in Nat \ {0} /\ pkt \in Nat /\ HalfSpace' = HalfSpace
        /\ pc = "flush" /\ pc' = "drain" /\ base' = pkt /\ out' = out
    BY <1>3 DEF ConstantsAssumption, IInv, CounterInv, HalfSpace, FlushDone
  <2>2. held'[base' % Depth] # NoPacket
    <3>1. held' = [held EXCEPT ![pkt % Depth] = pkt] /\ pkt % Depth \in Slots
      BY <1>3, <2>1, SlotOfPacket DEF FlushDone
    <3>2. held'[pkt % Depth] = pkt
      BY <3>1 DEF IInv, TypeOK
    <3> QED BY <2>1, <3>2 DEF NoPacket
  <2> QED BY <2>1, <2>2 DEF JumpInv, ShortGaps, Newest
<1>4. CASE DrainDone
  <2>1. /\ base \in Nat /\ pc = "drain" /\ pc' = "idle"
        /\ UNCHANGED <<base, out>> /\ held[SlotOf(expect)] = NoPacket
    BY <1>4 DEF IInv, TypeOK, DrainDone
  <2>2. SlotOf(expect) = base % Depth
    BY <2>1, SlotOfPacket DEF IInv, CounterInv
  <2> QED BY <2>1, <2>2 DEF JumpInv, ShortGaps, Newest, HalfSpace
<1> QED BY <1>1, <1>2, <1>3, <1>4, FlushGap, DrainGap DEF WindowNext

(* However long packets stay away, the depacketizer never sees the         *)
(* sequence jump by more than half its space: no gap looks like none       *)
(* (rtp_decode_av1, av1_depay_packet).                                     *)
THEOREM GapsAreShort == DepthDividesModulus => (WindowSpec => []ShortGaps)
<1> SUFFICES ASSUME DepthDividesModulus PROVE WindowSpec => []ShortGaps
  OBVIOUS
<1>1. WindowInit => JumpInv /\ ShortGaps
  BY DEF WindowInit, JumpInv, ShortGaps
<1>2. IInv /\ IInv' /\ JumpInv /\ ShortGaps /\ [WindowNext]_vars => JumpInv' /\ ShortGaps'
  BY ConstantsAssumption, GapStep
<1>3. WindowSpec => []IInv
  BY WindowInvariant
<1> QED BY <1>1, <1>2, <1>3, PTL DEF WindowSpec

-----------------------------------------------------------------------------
(* A packet stored into an occupied slot is the packet already there.      *)
LEMMA StoreKeepsOthers ==
  ASSUME ConstantsAssumption, DepthDividesModulus, IInv, NEW n \in Nat, Store(n),
         NEW s \in Slots, held[s] # NoPacket
  PROVE  held'[s] = held[s]
<1>1. started /\ Base(n) = base /\ Expect(n) = Seq16(base) /\ base \in Nat
  BY DEF IInv, TypeOK, CounterInv, Base, Expect
<1>2. Ahead(n) = n - base
  BY <1>1, AheadIsDistance DEF Store, Distinguishable, Ahead
<1>3. base <= n /\ n < base + Depth
  BY <1>1, <1>2 DEF Store, ConstantsAssumption
<1>4. held' = [held EXCEPT ![n % Depth] = n] /\ n % Depth \in Slots
  BY SlotOfPacket DEF Store
<1>5. held[s] \in Nat /\ held[s] % Depth = s /\ base <= held[s] /\ held[s] < base + Depth
  BY <1>1 DEF IInv, TypeOK, WindowInv, Low, Store
<1>6. CASE s = n % Depth
  <2>1. held[s] = n
    BY <1>1, <1>3, <1>5, <1>6, SamePacket
  <2> QED BY <1>4, <1>6, <2>1 DEF IInv, TypeOK
<1>7. CASE s # n % Depth
  BY <1>4, <1>7 DEF IInv, TypeOK
<1> QED BY <1>6, <1>7

(* Whatever leaves the window has just been given to the depacketizer.     *)
THEOREM NoPacketOverwritten == DepthDividesModulus => (WindowSpec => NothingOverwritten)
<1> DEFINE Kept == \A s \in Slots :
             held[s] # NoPacket /\ held'[s] # held[s] => out' = Append(out, held[s])
<1> SUFFICES ASSUME DepthDividesModulus PROVE WindowSpec => [][Kept]_vars
  BY DEF NothingOverwritten
<1>1. IInv /\ [WindowNext]_vars => [Kept]_vars
  <2> SUFFICES ASSUME IInv, WindowNext, NEW s \in Slots,
                      held[s] # NoPacket, held'[s] # held[s]
               PROVE  out' = Append(out, held[s])
    OBVIOUS
  <2>1. ASSUME NEW n \in Packets, Decode(n) PROVE FALSE
    <3>1. n \in Nat
      BY ConstantsAssumption DEF ConstantsAssumption
    <3>2. ~Store(n)
      BY <3>1, ConstantsAssumption, StoreKeepsOthers
    <3> QED BY <2>1, <3>2 DEF Decode, DropLate, Jump, vars
  <2>2. CASE FlushSlot
    BY <2>2 DEF FlushSlot, Release, IInv, TypeOK
  <2>3. CASE FlushDone
    <3>1. i = Depth /\ pc = "flush" /\ base \in Nat /\ Depth \in Nat
      BY <2>3, ConstantsAssumption DEF FlushDone, IInv, TypeOK, ConstantsAssumption
    <3>2. held[s] \in Nat /\ base + Depth <= held[s] /\ held[s] < base + Depth
      BY <3>1 DEF IInv, TypeOK, WindowInv, Low
    <3> QED BY <3>1, <3>2
  <2>4. CASE DrainSlot
    BY <2>4 DEF DrainSlot, Release, IInv, TypeOK
  <2>5. CASE DrainDone
    BY <2>5 DEF DrainDone
  <2> QED BY <2>1, <2>2, <2>3, <2>4, <2>5 DEF WindowNext
<1>2. WindowSpec => []IInv
  BY WindowInvariant
<1> QED BY <1>1, <1>2, PTL DEF WindowSpec

-----------------------------------------------------------------------------
(***************************************************************************)
(* The tame network: what is displaced by less than Depth is absorbed.     *)
(***************************************************************************)
Kept == {held[s] : s \in Holding}

(* What a tame network can do to the window: it never makes it jump, what  *)
(* has arrived is what was passed on or is kept back, and nothing before   *)
(* the window is still to come.                                            *)
TameInv ==
  tame =>
    /\ pc # "flush"
    /\ arrived = Passed \cup Kept
    /\ started => /\ First \in arrived /\ First <= base
                  /\ \A m \in Packets : m < base => m \in arrived

JitterInv == IInv /\ TameInv /\ arrived \subseteq Packets

-----------------------------------------------------------------------------
(* The first packet of the stream is there if there is one at all.         *)
LEMMA FirstIs ==
  ASSUME ConstantsAssumption, NEW p \in Packets
  PROVE  First \in Packets /\ First \in Nat /\ \A m \in Packets : First <= m
<1> DEFINE Less == OpToRel(<, Nat)
<1>1. Packets \subseteq Nat /\ Packets # {}
  BY DEF ConstantsAssumption
<1>2. PICK x \in Packets : \A q \in Packets : ~(<<q, x>> \in Less)
  BY <1>1, NatLessThanWellFounded, WFMin
<1>3. \A q \in Packets : x <= q
  <2> SUFFICES ASSUME NEW q \in Packets PROVE x <= q
    OBVIOUS
  <2>1. x \in Nat /\ q \in Nat
    BY <1>1
  <2>2. ~(q < x)
    BY <1>2, <2>1 DEF OpToRel
  <2>3. QED
    BY <2>1, <2>2
<1>4. \E n \in Packets : \A m \in Packets : n <= m
  BY <1>3
<1>5. QED
  BY <1>1, <1>4 DEF First

(* Before anything has arrived, nothing is kept back or passed on.          *)
LEMMA JitterInitHolds == JitterInit => JitterInv
<1> SUFFICES ASSUME JitterInit PROVE JitterInv
  OBVIOUS
<1>1. IInv
  BY ConstantsAssumption, InitHolds DEF JitterInit
<1>2. Passed = {} /\ Kept = {}
  BY DEF JitterInit, WindowInit, Passed, Kept, Holding
<1>3. QED
  BY <1>1, <1>2 DEF JitterInit, WindowInit, JitterInv, TameInv

(* What is kept back after a slot was emptied, and what was passed on.     *)
LEMMA Released ==
  ASSUME held \in [Slots -> Nat \cup {NoPacket}], out \in Seq(Nat), NEW s \in Slots,
         held[s] # NoPacket, Release(s)
  PROVE  Passed' \cup Kept' = Passed \cup Kept
<1>1. /\ held' = [held EXCEPT ![s] = NoPacket] /\ out' = Append(out, held[s])
      /\ held[s] \in Nat /\ Len(out) \in Nat
  BY DEF Release
<1>2. Passed' = Passed \cup {held[s]}
  <2>1. /\ Len(out') = Len(out) + 1 /\ out'[Len(out) + 1] = held[s]
        /\ \A k \in 1 .. Len(out) : out'[k] = out[k]
    BY <1>1
  <2>2. 1 .. Len(out') = (1 .. Len(out)) \cup {Len(out) + 1}
    BY <1>1, <2>1
  <2>3. QED
    BY <2>1, <2>2 DEF Passed
<1>3. Holding' = Holding \ {s} /\ \A t \in Holding' : held'[t] = held[t]
  BY <1>1 DEF Holding
<1>4. s \in Holding
  BY DEF Holding
<1>5. Kept' \cup {held[s]} = Kept
  BY <1>3, <1>4 DEF Kept
<1>6. QED
  BY <1>2, <1>5

(* A packet is taken into the window beside those it keeps.                *)
LEMMA StoreKeeps ==
  ASSUME ConstantsAssumption, DepthDividesModulus, IInv, NEW n \in Nat, Store(n)
  PROVE  Passed' = Passed /\ Kept' = Kept \cup {n}
<1>1. /\ held' = [held EXCEPT ![n % Depth] = n] /\ n % Depth \in Slots /\ out' = out
      /\ held \in [Slots -> Nat \cup {NoPacket}]
  BY SlotOfPacket DEF Store, IInv, TypeOK
<1>2. \A s \in Slots : held[s] # NoPacket => held'[s] = held[s]
  BY StoreKeepsOthers
<1>3. n # NoPacket
  BY DEF NoPacket
<1>4. Holding' = Holding \cup {n % Depth} /\ held'[n % Depth] = n
  BY <1>1, <1>3 DEF Holding
<1>5. \A s \in Holding : held'[s] = held[s]
  BY <1>2 DEF Holding
<1>6. Kept' = Kept \cup {n}
  BY <1>4, <1>5 DEF Kept
<1>7. QED
  BY <1>1, <1>6 DEF Passed

(* A packet of a tame network is neither late nor beyond the window.       *)
LEMMA HandedInWindow ==
  ASSUME ConstantsAssumption, NothingMissing, JitterInv, NEW n \in Packets, Hand(n)
  PROVE  /\ Store(n) /\ arrived' = arrived \cup {n} /\ tame
         /\ First \in arrived' /\ First <= base'
         /\ \A m \in Packets : m < base' => m \in arrived'
<1> DEFINE b == Base(n)
<1>1. /\ n \in Nat /\ First \in Packets /\ First \in Nat /\ \A m \in Packets : First <= m
      /\ Depth \in Nat \ {0} /\ Packets \subseteq Nat /\ base \in Nat
  BY FirstIs DEF ConstantsAssumption, JitterInv, IInv, TypeOK
<1>2. /\ tame /\ arrived' = arrived \cup {n} /\ n \notin arrived
      /\ \A m \in Packets : m + Depth <= n => m \in arrived
      /\ n # First => First \in arrived
      /\ Decode(n) /\ arrived = Passed \cup Kept
  BY DEF Hand, Deliverable, JitterInv, TameInv
<1>3. /\ b \in Nat /\ Expect(n) = Seq16(b) /\ Distinguishable(n) /\ pc = "idle"
  BY <1>1, <1>2 DEF Decode, DropLate, Store, Jump, Base, Expect, JitterInv, IInv, CounterInv
<1>4. Ahead(n) = n - b
  BY <1>1, <1>3, AheadIsDistance DEF Distinguishable, Ahead
<1>5. CASE ~started
  <2>1. b = n
    BY <1>5 DEF Base
  <2>2. arrived = {}
    BY <1>2, <1>5 DEF JitterInv, IInv, CounterInv, Passed, Kept, Holding
  <2>3. n = First
    BY <1>2, <2>2
  <2>4. Ahead(n) = 0
    BY <1>1, <1>4, <2>1
  <2>5. Store(n)
    BY <1>1, <1>2, <2>4 DEF Decode, DropLate, Jump
  <2>6. base' = n
    BY <2>1, <2>5 DEF Store, Start
  <2>7. QED
    BY <1>1, <1>2, <2>3, <2>5, <2>6
<1>6. CASE started
  <2>1. /\ b = base /\ First \in arrived /\ First <= base
        /\ \A m \in Packets : m < base => m \in arrived
    BY <1>2, <1>6 DEF Base, JitterInv, TameInv
  <2>2. n >= base
    BY <1>1, <1>2, <2>1
  <2>3. base \notin arrived
    <3>1. \A k \in 1 .. Len(out) : out[k] \in Nat /\ out[k] < base
      BY <1>1, <1>3 DEF JitterInv, IInv, TypeOK, OutInv, Behind
    <3>2. \A s \in Slots : held[s] # NoPacket => held[s] \in Nat /\ base + 1 <= held[s]
      BY <1>3 DEF JitterInv, IInv, TypeOK, WindowInv, Low
    <3>3. base \notin Passed
      BY <1>1, <3>1 DEF Passed
    <3>4. base \notin Kept
      BY <1>1, <3>2 DEF Kept, Holding
    <3>5. QED
      BY <1>2, <3>3, <3>4
  <2>4. n < base + Depth
    <3> SUFFICES ASSUME base + Depth <= n PROVE FALSE
      BY <1>1
    <3>1. base \in Packets
      <4>1. First <= base /\ base <= n
        BY <1>1, <2>1, <2>2
      <4>2. QED
        BY <1>1, <4>1 DEF NothingMissing
    <3>2. QED
      BY <1>2, <2>3, <3>1
  <2>5. ~(Ahead(n) < 0) /\ ~(Ahead(n) >= Depth)
    BY <1>1, <1>4, <2>1, <2>2, <2>4
  <2>6. Store(n)
    BY <1>2, <2>5 DEF Decode, DropLate, Jump
  <2>7. base' = base
    BY <2>1, <2>6 DEF Store, Start
  <2>8. QED
    BY <1>2, <2>1, <2>6, <2>7
<1>7. QED
  BY <1>5, <1>6

(* Every step of the network and of the loops keeps it.                    *)
LEMMA JitterStepInvariant ==
  ASSUME DepthDividesModulus, NothingMissing, JitterInv, [JitterNext]_jitterVars
  PROVE  JitterInv'
<1>1. [WindowNext]_vars
  BY DEF JitterNext, jitterVars, Hand, HandAny, Loop, WindowNext
<1>2. IInv'
  BY <1>1, ConstantsAssumption, NextPreserves DEF JitterInv
<1>3. ASSUME NEW n \in Packets, Hand(n)
      PROVE  JitterInv'
  <2>1. /\ Store(n) /\ arrived' = arrived \cup {n} /\ tame /\ tame' = tame
        /\ First \in arrived' /\ First <= base'
        /\ \A m \in Packets : m < base' => m \in arrived'
    BY <1>3, ConstantsAssumption, HandedInWindow DEF Hand
  <2>2. Passed' = Passed /\ Kept' = Kept \cup {n}
    <3>1. n \in Nat
      BY ConstantsAssumption DEF ConstantsAssumption
    <3>2. QED
      BY <2>1, <3>1, ConstantsAssumption, StoreKeeps DEF JitterInv
  <2>3. pc' = "drain"
    BY <2>1 DEF Store
  <2>4. QED
    BY <1>2, <2>1, <2>2, <2>3 DEF JitterInv, TameInv
<1>4. CASE (\E n \in Packets : HandAny(n)) \/ (~tame /\ Loop) \/ UNCHANGED jitterVars
  <2>1. CASE UNCHANGED jitterVars
    BY <1>2, <2>1 DEF jitterVars, vars, JitterInv, TameInv, Passed, Kept, Holding
  <2>2. CASE ~tame /\ tame' = tame /\ arrived' = arrived
    BY <1>2, <2>2 DEF JitterInv, TameInv
  <2>3. QED
    BY <1>4, <2>1, <2>2 DEF HandAny, Loop
<1>5. CASE tame /\ Loop
  <2>1. /\ tame' = tame /\ arrived' = arrived /\ pc # "flush"
        /\ arrived = Passed \cup Kept
        /\ started => /\ First \in arrived /\ First <= base
                      /\ \A m \in Packets : m < base => m \in arrived
    BY <1>5, FirstIs DEF Loop, JitterInv, TameInv, IInv, TypeOK
  <2>2. CASE DrainDone
    BY <1>2, <2>1, <2>2 DEF DrainDone, JitterInv, TameInv, Passed, Kept, Holding
  <2>3. CASE DrainSlot
    <3> DEFINE s == SlotOf(expect)
    <3>1. /\ s = base % Depth /\ s \in Slots /\ base \in Nat /\ started
      <4>1. base \in Nat /\ pc = "drain"
        BY <2>3 DEF JitterInv, IInv, TypeOK, DrainSlot
      <4>2. SlotOf(Seq16(base)) = base % Depth /\ SlotOf(Seq16(base)) \in Slots
        BY <4>1, ConstantsAssumption, SlotOfPacket
      <4>3. started
        BY <4>1 DEF JitterInv, IInv, CounterInv
      <4>4. expect = Seq16(base)
        BY <4>1, <4>3 DEF JitterInv, IInv, CounterInv
      <4>5. s = SlotOf(Seq16(base))
        BY <4>4
      <4>6. base \in Nat
        BY <4>1
      <4> HIDE DEF s
      <4>7. QED
        BY <4>2, <4>3, <4>5, <4>6
    <3>2. held[s] # NoPacket /\ Release(s) /\ base' = base + 1 /\ started' = started /\ pc' = pc
      BY <2>3 DEF DrainSlot
    <3>3. Passed' \cup Kept' = arrived'
      BY <2>1, <3>1, <3>2, Released DEF JitterInv, IInv, TypeOK
    <3>4. held[s] = base
      <4>1. held[s] \in Nat /\ held[s] % Depth = s /\ base <= held[s] /\ held[s] < base + Depth
        BY <2>3, <3>1, <3>2 DEF JitterInv, IInv, TypeOK, WindowInv, Low, DrainSlot
      <4>2. Depth \in Nat \ {0}
        BY ConstantsAssumption DEF ConstantsAssumption
      <4>3. base \in Nat /\ s = base % Depth
        BY <3>1
      <4> DEFINE h == held[s]
      <4>4. /\ h \in Nat /\ h % Depth = base % Depth
            /\ base <= h /\ h < base + Depth
            /\ base <= base /\ base < base + Depth
        BY <4>1, <4>2, <4>3
      <4> HIDE DEF h, s
      <4>5. h = base
        BY <4>2, <4>3, <4>4, ConstantsAssumption, SamePacket
      <4>6. QED
        BY <4>5 DEF h
    <3>5. base \in arrived
      BY <2>1, <3>1, <3>2, <3>4 DEF Kept, Holding
    <3>6. \A m \in Packets : m < base + 1 => m \in arrived
      BY <2>1, <3>1, <3>5, ConstantsAssumption DEF ConstantsAssumption
    <3>7. First <= base + 1
      <4>1. First \in Nat
        BY <3>5, ConstantsAssumption, FirstIs DEF JitterInv
      <4>2. QED
        BY <2>1, <3>1, <4>1
    <3>8. QED
      BY <1>2, <2>1, <3>1, <3>2, <3>3, <3>6, <3>7 DEF JitterInv, TameInv
  <2>4. QED
    BY <1>5, <2>1, <2>2, <2>3 DEF Loop, FlushSlot, FlushDone
<1>6. QED
  BY <1>3, <1>4, <1>5 DEF JitterNext

(* A packet displaced by less than Depth is neither dropped nor given up,  *)
(* for every depth that divides the sequence space and every stream that   *)
(* starts with its first packet (rtp.c:730-840).                           *)
THEOREM JitterIsAbsorbed ==
  DepthDividesModulus /\ NothingMissing => (JitterSpec => []JitterAbsorbed)
<1> SUFFICES ASSUME DepthDividesModulus, NothingMissing PROVE JitterSpec => []JitterAbsorbed
  OBVIOUS
<1>1. JitterInit => JitterInv
  BY JitterInitHolds
<1>2. JitterInv /\ [JitterNext]_jitterVars => JitterInv'
  BY JitterStepInvariant
<1>3. JitterInv => JitterAbsorbed
  BY DEF JitterInv, TameInv, JitterAbsorbed, Kept
<1>4. QED
  BY <1>1, <1>2, <1>3, PTL DEF JitterSpec
-----------------------------------------------------------------------------
(* The packetizer (Av1Packetizer): what is forwarded of a temporal unit      *)

Obus == [type : STRING, len : Nat \ {0}]

\* f[n] is what is forwarded of the first n OBUs.
ForwardedUpTo(f, s) ==
  f = [n \in 0 .. Len(s) |->
         IF n = 0 THEN << >>
         ELSE IF s[n].type \in Dropped THEN f[n - 1] ELSE Append(f[n - 1], s[n])]

\* One OBU more.
LEMMA ForwardedMore ==
  ASSUME NEW s \in Seq(Obus), NEW c \in Obus, NEW f, ForwardedUpTo(f, s)
  PROVE  LET g == [n \in 0 .. Len(s) + 1 |->
                     IF n = Len(s) + 1
                     THEN IF c.type \in Dropped THEN f[Len(s)] ELSE Append(f[Len(s)], c)
                     ELSE f[n]]
         IN  ForwardedUpTo(g, Append(s, c))
<1> DEFINE t == Append(s, c)  L == Len(s)
           g == [n \in 0 .. L + 1 |->
                   IF n = L + 1 THEN IF c.type \in Dropped THEN f[L] ELSE Append(f[L], c) ELSE f[n]]
           h == [n \in 0 .. L + 1 |->
                   IF n = 0 THEN << >>
                   ELSE IF t[n].type \in Dropped THEN g[n - 1] ELSE Append(g[n - 1], t[n])]
<1>1. L \in Nat /\ Len(t) = L + 1 /\ t[L + 1] = c /\ \A m \in 1 .. L : t[m] = s[m]
  BY AppendProperties, LenProperties
<1> HIDE DEF t
<1>2. ASSUME NEW n \in 0 .. L + 1 PROVE g[n] = h[n]
  <2>1. CASE n = 0
    BY <1>1, <2>1 DEF ForwardedUpTo
  <2>2. CASE n = L + 1
    <3>1. n - 1 = L /\ n # 0 /\ g[L] = f[L] /\ t[n] = c
      BY <1>1, <2>2
    <3>2. QED
      BY <2>2, <3>1
  <2>3. CASE n \in 1 .. L
    <3>1. g[n] = f[n] /\ g[n - 1] = f[n - 1] /\ t[n] = s[n] /\ n # 0
      BY <1>1, <2>3
    <3>2. f[n] = IF s[n].type \in Dropped THEN f[n - 1] ELSE Append(f[n - 1], s[n])
      <4>1. n \in 0 .. Len(s) /\ n # 0
        BY <1>1, <2>3
      <4>2. QED
        BY <4>1 DEF ForwardedUpTo
    <3> HIDE DEF g
    <3>3. QED
      BY <3>1, <3>2
  <2>4. QED
    BY <1>1, <2>1, <2>2, <2>3
<1>3. g = h
  BY <1>2
<1>4. QED
  BY <1>1, <1>3 DEF ForwardedUpTo, t

LEMMA ForwardedExists ==
  \A s \in Seq(Obus) : \E f : ForwardedUpTo(f, s)
<1> DEFINE P == {s \in Seq(Obus) : \E f : ForwardedUpTo(f, s)}
<1>1. << >> \in P
  <2>1. Len(<< >>) = 0 /\ << >> \in Seq(Obus)
    BY EmptySeq
  <2>2. ForwardedUpTo([n \in 0 .. 0 |-> << >>], << >>)
    BY <2>1 DEF ForwardedUpTo
  <2>3. QED
    BY <2>1, <2>2
<1>2. \A s \in Seq(Obus), c \in Obus : s \in P => Append(s, c) \in P
  BY ForwardedMore, AppendProperties
<1>3. \A s \in Seq(Obus) : s \in P
  <2> HIDE DEF P
  <2>1. QED
    BY <1>1, <1>2, EverySequence
<1>4. QED
  BY <1>3

LEMMA ForwardedSeq ==
  ASSUME NEW s \in Seq(Obus)
  PROVE  Forwarded(s) \in Seq(Obus)
<1> DEFINE f == CHOOSE f : ForwardedUpTo(f, s)
           N == {n \in Nat : n <= Len(s) => f[n] \in Seq(Obus)}
<1>1. ForwardedUpTo(f, s)
  BY ForwardedExists
<1>2. Forwarded(s) = f[Len(s)]
  BY DEF Forwarded, ForwardedUpTo
<1> HIDE DEF f
<1>3. Len(s) \in Nat
  BY LenProperties
<1>4. 0 \in N
  BY <1>1, <1>3, EmptySeq DEF ForwardedUpTo
<1>5. ASSUME NEW n \in Nat, n \in N PROVE n + 1 \in N
  <2> SUFFICES ASSUME n + 1 <= Len(s) PROVE f[n + 1] \in Seq(Obus)
    OBVIOUS
  <2>1. n + 1 \in 0 .. Len(s) /\ n + 1 # 0 /\ (n + 1) - 1 = n /\ n + 1 \in 1 .. Len(s)
    BY <1>3
  <2>2. f[n + 1] = IF s[n + 1].type \in Dropped THEN f[n] ELSE Append(f[n], s[n + 1])
    BY <1>1, <2>1 DEF ForwardedUpTo
  <2>3. f[n] \in Seq(Obus)
    BY <1>3, <1>5
  <2>4. s[n + 1] \in Obus
    BY <2>1, ElementOfSeq
  <2>5. Append(f[n], s[n + 1]) \in Seq(Obus)
    BY <2>3, <2>4, AppendProperties
  <2>6. QED
    BY <2>2, <2>3, <2>5
<1>6. \A n \in Nat : n \in N
  <2> HIDE DEF N
  <2>1. QED
    BY <1>4, <1>5, EveryNumber
<1>7. QED
  BY <1>2, <1>3, <1>6

\* The elements of a temporal unit have positive lengths.
LEMMA LengthsSeq ==
  ASSUME NEW t \in Units
  PROVE  LET obus == Forwarded(t.obus)  els == Lengths(obus)
         IN  /\ els \in Seq(Nat \ {0}) /\ Len(els) = Len(obus) /\ Len(els) \in Nat
             /\ (obus # << >> => els # << >>)
             /\ \A j \in 1 .. Len(obus) : els[j] = obus[j].len
<1> DEFINE obus == Forwarded(t.obus)
<1>1. t.obus \in Seq(Obus)
  BY PacketizerAssumption DEF Obus
<1>2. obus \in Seq(Obus)
  BY <1>1, ForwardedSeq
<1> HIDE DEF obus
<1>3. Len(obus) \in Nat /\ \A j \in 1 .. Len(obus) : obus[j].len \in Nat \ {0}
  <2>1. Len(obus) \in Nat
    BY <1>2, LenProperties
  <2>2. \A j \in 1 .. Len(obus) : obus[j] \in Obus
    BY <1>2, ElementOfSeq
  <2>3. QED
    BY <2>1, <2>2 DEF Obus
<1>4. Lengths(obus) \in Seq(Nat \ {0}) /\ Len(Lengths(obus)) = Len(obus)
  BY <1>3 DEF Lengths
<1>5. obus # << >> => Len(obus) # 0
  BY <1>2, EmptySeq
<1>6. Lengths(obus) = << >> => Len(Lengths(obus)) = 0
  BY EmptySeq
<1>7. QED
  BY <1>3, <1>4, <1>5, <1>6 DEF Lengths, obus

-----------------------------------------------------------------------------
(* Chunks that tile the elements up to a position                            *)

Holds(c, j, b) == c.element = j /\ b \in c.from .. c.from + c.len - 1

\* How much of element j lies before the position.
Reached(els, at, upto, j) == IF j < at THEN els[j] ELSE IF j = at THEN upto ELSE 0

Tiled(S, els, at, upto) ==
  /\ \A c \in S : c.element <= at /\ (c.element = at => c.from + c.len <= upto)
  /\ \A j \in 1 .. Len(els) : \A b \in 0 .. Reached(els, at, upto, j) - 1 :
       \E c \in S : Holds(c, j, b) /\ \A d \in S : Holds(d, j, b) => d = c

\* A chunk more, from the position on.
LEMMA TileMore ==
  ASSUME NEW els \in Seq(Nat \ {0}), NEW at \in 1 .. Len(els), NEW upto \in 0 .. els[at] - 1,
         NEW S, S \subseteq ChunkType, Tiled(S, els, at, upto), NEW c \in ChunkType,
         c.element = at, c.from = upto, upto + c.len <= els[at]
  PROVE  /\ upto + c.len < els[at] => Tiled(S \cup {c}, els, at, upto + c.len)
         /\ upto + c.len = els[at] => Tiled(S \cup {c}, els, at + 1, 0)
<1>1. /\ at \in Nat \ {0} /\ upto \in Nat /\ c.len \in Nat \ {0} /\ Len(els) \in Nat
      /\ \A j \in 1 .. Len(els) : els[j] \in Nat \ {0}
  <2>1. \A j \in 1 .. Len(els) : els[j] \in Nat \ {0}
    BY ElementOfSeq
  <2>2. Len(els) \in Nat
    BY LenProperties
  <2>3. QED
    BY <2>1, <2>2 DEF ChunkType
<1>2. \A d \in S : d.element \in Nat /\ d.from \in Nat /\ d.len \in Nat
  BY DEF ChunkType
<1>3. ASSUME NEW j \in 1 .. Len(els), j # at, NEW b \in 0 .. Reached(els, at, upto, j) - 1
      PROVE  \E d \in S \cup {c} : Holds(d, j, b) /\ \A e \in S \cup {c} : Holds(e, j, b) => e = d
  <2>1. ~Holds(c, j, b)
    BY <1>3 DEF Holds
  <2>2. PICK d \in S : Holds(d, j, b) /\ \A e \in S : Holds(e, j, b) => e = d
    BY DEF Tiled
  <2>3. QED
    BY <2>1, <2>2
<1>4. ASSUME NEW b \in 0 .. upto + c.len - 1
      PROVE  \E d \in S \cup {c} : Holds(d, at, b) /\ \A e \in S \cup {c} : Holds(e, at, b) => e = d
  <2>1. CASE b < upto
    <3>1. ~Holds(c, at, b)
      BY <1>1, <2>1 DEF Holds
    <3>2. at \in 1 .. Len(els) /\ b \in 0 .. Reached(els, at, upto, at) - 1
      BY <1>1, <2>1 DEF Reached
    <3>3. PICK d \in S : Holds(d, at, b) /\ \A e \in S : Holds(e, at, b) => e = d
      BY <3>2 DEF Tiled
    <3>4. QED
      BY <3>1, <3>3
  <2>2. CASE ~(b < upto)
    <3>1. Holds(c, at, b)
      BY <1>1, <2>2 DEF Holds
    <3>2. ASSUME NEW e \in S PROVE ~Holds(e, at, b)
      <4>1. e.element = at => e.from + e.len <= upto
        BY DEF Tiled
      <4>2. QED
        BY <1>1, <1>2, <2>2, <4>1 DEF Holds
    <3>3. QED
      BY <3>1, <3>2
  <2>3. QED
    BY <2>1, <2>2
<1>5. \A d \in S : d.element <= at /\ (d.element = at => d.from + d.len <= upto)
  BY DEF Tiled
<1>6. ASSUME upto + c.len < els[at] PROVE Tiled(S \cup {c}, els, at, upto + c.len)
  <2>1. \A d \in S \cup {c} : d.element <= at /\ (d.element = at => d.from + d.len <= upto + c.len)
    BY <1>1, <1>2, <1>5
  <2>2. /\ Reached(els, at, upto + c.len, at) = upto + c.len
        /\ \A j \in 1 .. Len(els) :
             j # at => Reached(els, at, upto + c.len, j) = Reached(els, at, upto, j)
    BY <1>1 DEF Reached
  <2>3. ASSUME NEW j \in 1 .. Len(els), NEW b \in 0 .. Reached(els, at, upto + c.len, j) - 1
        PROVE  \E d \in S \cup {c} : Holds(d, j, b) /\ \A e \in S \cup {c} : Holds(e, j, b) => e = d
    <3>1. CASE j = at
      <4>1. Reached(els, at, upto + c.len, j) = upto + c.len
        BY <2>2, <3>1
      <4>2. b \in 0 .. upto + c.len - 1
        BY <1>1, <2>3, <4>1, SMT
      <4>3. QED
        BY <1>4, <3>1, <4>2, Zenon
    <3>2. CASE j # at
      <4>1. Reached(els, at, upto + c.len, j) = Reached(els, at, upto, j)
        BY <2>2, <3>2
      <4>2. QED
        BY <1>3, <3>2, <4>1, Zenon
    <3>3. QED
      BY <3>1, <3>2
  <2>4. QED
    BY <2>1, <2>3, Zenon DEF Tiled
<1>7. ASSUME upto + c.len = els[at] PROVE Tiled(S \cup {c}, els, at + 1, 0)
  <2>1. \A d \in S \cup {c} : d.element <= at + 1 /\ (d.element = at + 1 => d.from + d.len <= 0)
    BY <1>1, <1>2, <1>5
  <2>2. /\ Reached(els, at + 1, 0, at) = upto + c.len
        /\ \A j \in 1 .. Len(els) :
             j # at => Reached(els, at + 1, 0, j) = Reached(els, at, upto, j)
    BY <1>1, <1>7 DEF Reached
  <2>3. ASSUME NEW j \in 1 .. Len(els), NEW b \in 0 .. Reached(els, at + 1, 0, j) - 1
        PROVE  \E d \in S \cup {c} : Holds(d, j, b) /\ \A e \in S \cup {c} : Holds(e, j, b) => e = d
    <3>1. CASE j = at
      <4>1. Reached(els, at + 1, 0, j) = upto + c.len
        BY <2>2, <3>1
      <4>2. b \in 0 .. upto + c.len - 1
        BY <1>1, <2>3, <4>1, SMT
      <4>3. QED
        BY <1>4, <3>1, <4>2, Zenon
    <3>2. CASE j # at
      <4>1. Reached(els, at + 1, 0, j) = Reached(els, at, upto, j)
        BY <2>2, <3>2
      <4>2. QED
        BY <1>3, <3>2, <4>1, Zenon
    <3>3. QED
      BY <3>1, <3>2
  <2>4. QED
    BY <2>1, <2>3, Zenon DEF Tiled
<1>8. QED
  BY <1>6, <1>7

\* With the position behind the last element every byte is in one chunk.
LEMMA AllTiled ==
  ASSUME NEW S, NEW els \in Seq(Nat \ {0}), Tiled(S, els, Len(els) + 1, 0)
  PROVE  \A j \in 1 .. Len(els) : \A b \in 0 .. els[j] - 1 :
           \E c \in S : Holds(c, j, b) /\ \A d \in S : Holds(d, j, b) => d = c
<1>1. Len(els) \in Nat
  BY LenProperties
<1>2. \A j \in 1 .. Len(els) : Reached(els, Len(els) + 1, 0, j) = els[j]
  BY <1>1 DEF Reached
<1>3. QED
  BY <1>2 DEF Tiled
-----------------------------------------------------------------------------
(* The packetizer: what is sent of a temporal unit                           *)

\* The packets of w with chunks of unit u, and those chunks.
WireIn(w, u) == {k \in 1 .. Len(w) : \E c \in Chunks(w[k]) : c.unit = u}
SentIn(w, u) == UNION {Chunks(w[k]) : k \in WireIn(w, u)}

\* Unit u, which is t, is finished.
Done(w, t, u) ==
  LET obus == Forwarded(t.obus)
  IN  \/ Unsendable(t) /\ WireIn(w, u) = {}
      \/ /\ \A j \in 1 .. Len(obus) : \A b \in 0 .. obus[j].len - 1 :
              \E c \in SentIn(w, u) : Holds(c, j, b) /\ \A d \in SentIn(w, u) : Holds(d, j, b) => d = c
         /\ \A k \in WireIn(w, u) : w[k].marker <=> \A l \in WireIn(w, u) : l <= k

\* Every packet of w carries something, all of one of n units.
OneUnit(w, n) ==
  \A k \in 1 .. Len(w) :
    /\ w[k].elems # << >>
    /\ \E u \in 1 .. n : \A c \in Chunks(w[k]) : c.unit = u

\* A packet more changes only the unit it belongs to.
LEMMA WireMore ==
  ASSUME NEW w \in Seq(PacketType), NEW p \in PacketType, NEW n \in Nat, p.elems # << >>,
         \A c \in Chunks(p) : c.unit = n
  PROVE  LET v == Append(w, p)
         IN  /\ v \in Seq(PacketType) /\ Len(v) = Len(w) + 1 /\ Len(w) \in Nat
             /\ v[Len(w) + 1] = p /\ \A k \in 1 .. Len(w) : v[k] = w[k]
             /\ WireIn(v, n) = WireIn(w, n) \cup {Len(w) + 1}
             /\ SentIn(v, n) = SentIn(w, n) \cup Chunks(p)
             /\ \A u : u # n => WireIn(v, u) = WireIn(w, u) /\ SentIn(v, u) = SentIn(w, u)
<1> DEFINE v == Append(w, p)
<1>1. /\ v \in Seq(PacketType) /\ Len(v) = Len(w) + 1 /\ Len(w) \in Nat
      /\ v[Len(w) + 1] = p /\ \A k \in 1 .. Len(w) : v[k] = w[k]
  BY AppendProperties, LenProperties
<1> HIDE DEF v
<1>2. 1 .. Len(v) = (1 .. Len(w)) \cup {Len(w) + 1}
  BY <1>1
<1>3. \E c \in Chunks(p) : c.unit = n
  <2>1. p.elems \in Seq(ChunkType)
    BY DEF PacketType
  <2>2. Len(p.elems) \in Nat /\ Len(p.elems) # 0
    BY <2>1, EmptySeq, LenProperties
  <2>3. p.elems[1] \in Chunks(p)
    BY <2>2 DEF Chunks
  <2>4. QED
    BY <2>3
<1>4. WireIn(v, n) = WireIn(w, n) \cup {Len(w) + 1}
  BY <1>1, <1>2, <1>3 DEF WireIn
<1>5. \A u : u # n => WireIn(v, u) = WireIn(w, u)
  BY <1>1, <1>2 DEF WireIn
<1>6. \A u : \A k \in WireIn(w, u) : k \in 1 .. Len(w) /\ v[k] = w[k]
  BY <1>1 DEF WireIn
<1>7. \A u : u # n => SentIn(v, u) = SentIn(w, u)
  BY <1>5, <1>6 DEF SentIn
<1>8. SentIn(v, n) = SentIn(w, n) \cup Chunks(p)
  BY <1>1, <1>4, <1>6 DEF SentIn
<1>9. QED
  BY <1>1, <1>4, <1>5, <1>7, <1>8 DEF v

\* No packet belongs to a unit that is not handed over yet.
LEMMA NoneYet ==
  ASSUME NEW w, NEW n \in Nat, OneUnit(w, n)
  PROVE  WireIn(w, n + 1) = {} /\ SentIn(w, n + 1) = {}
<1>1. ASSUME NEW k \in WireIn(w, n + 1) PROVE FALSE
  <2>1. k \in 1 .. Len(w) /\ \E c \in Chunks(w[k]) : c.unit = n + 1
    BY DEF WireIn
  <2>2. PICK u \in 1 .. n : \A c \in Chunks(w[k]) : c.unit = u
    BY <2>1 DEF OneUnit
  <2>3. QED
    BY <2>1, <2>2
<1>2. QED
  BY <1>1 DEF SentIn

LEMMA SentAreChunks ==
  ASSUME NEW w \in Seq(PacketType)
  PROVE  \A u : SentIn(w, u) \subseteq ChunkType
<1>1. ASSUME NEW k \in 1 .. Len(w) PROVE Chunks(w[k]) \subseteq ChunkType
  <2>1. w[k] \in PacketType
    BY ElementOfSeq
  <2>2. w[k].elems \in Seq(ChunkType)
    BY <2>1 DEF PacketType
  <2>3. \A j \in 1 .. Len(w[k].elems) : w[k].elems[j] \in ChunkType
    BY <2>2, ElementOfSeq
  <2>4. QED
    BY <2>3 DEF Chunks
<1>2. QED
  BY <1>1 DEF SentIn, WireIn

-----------------------------------------------------------------------------
(* The invariant of the packetizer                                           *)

LastY == IF wire = << >> THEN FALSE ELSE wire[Len(wire)].y
InPacket == {payload[j] : j \in 1 .. Len(payload)}

\* Where the encoder is in t, the unit it encodes.
Place(t) ==
  /\ ~Unsendable(t) /\ elements = Lengths(Forwarded(t.obus))
  /\ index \in 1 .. Len(elements) + 1
  /\ index <= Len(elements) => offset < elements[index]
  /\ index > Len(elements) => offset = 0 /\ payload # << >>
  /\ y => offset > 0 /\ payload # << >>
  /\ offset > 0 => y \/ payload = << >>
  /\ payload = << >> => payloadLen = 0
  /\ Tiled(SentIn(wire, Len(stream)) \cup InPacket, elements, index, offset)
  /\ \A k \in WireIn(wire, Len(stream)) : wire[k].marker = FALSE

EncoderInv ==
  /\ PacketFits /\ FragmentsAgree /\ OneUnit(wire, Len(stream))
  /\ \A c \in InPacket : c.unit = Len(stream)
  /\ Encoding => stream # << >> /\ Place(stream[Len(stream)]) /\ z = LastY
  /\ ~Encoding => LastY = FALSE /\ payload = << >>
  /\ \A u \in 1 .. Len(stream) : (u = Len(stream) => ~Encoding) => Done(wire, stream[u], u)

LEMMA EncoderInitInvariant == EncoderInit => EncoderInv
<1> SUFFICES ASSUME EncoderInit PROVE EncoderInv
  OBVIOUS
<1>1. \A S : << >> \in Seq(S)
  BY EmptySeq
<1>2. Len(<< >>) = 0
  BY EmptySeq
<1>3. /\ stream = << >> /\ elements = << >> /\ index = 1 /\ offset = 0 /\ z = FALSE
      /\ firstPacket = TRUE /\ isNew = FALSE /\ payload = << >> /\ payloadLen = 0 /\ y = FALSE
      /\ wire = << >>
  BY DEF EncoderInit
<1>4. PacketFits
  <2>1. /\ stream \in Seq(Units) /\ elements \in Seq(Nat \ {0}) /\ payload \in Seq(ChunkType)
        /\ wire \in Seq(PacketType)
    BY <1>1, <1>3
  <2>2. index \in Nat \ {0} /\ offset \in Nat /\ payloadLen \in Nat
    BY <1>3
  <2>3. {z, firstPacket, isNew, y} \subseteq BOOLEAN
    BY <1>3
  <2>4. EncoderTypeOK
    BY <2>1, <2>2, <2>3, Zenon DEF EncoderTypeOK
  <2>5. QED
    BY <1>3, <2>4, PacketizerAssumption DEF PacketFits
<1>5. Len(wire) = 0 /\ Len(stream) = 0 /\ Len(payload) = 0
  BY <1>2, <1>3
<1>6. FragmentsAgree /\ OneUnit(wire, Len(stream)) /\ InPacket = {}
  BY <1>5 DEF FragmentsAgree, OneUnit, InPacket
<1>7. LastY = FALSE /\ ~Encoding
  BY <1>3 DEF LastY, Encoding
<1>8. QED
  BY <1>3, <1>4, <1>5, <1>6, <1>7 DEF EncoderInv

\* A temporal unit handed over; the ones before stay finished.
LEMMA UnitAccepted ==
  ASSUME EncoderInv, NEW t \in Units, Accept(t), wire' = wire
  PROVE  LET n == Len(stream) + 1
         IN  /\ stream' \in Seq(Units) /\ Len(stream') = n /\ stream' # << >> /\ stream'[n] = t
             /\ n \in Nat \ {0}
             /\ FragmentsAgree' /\ LastY' = FALSE /\ OneUnit(wire', n)
             /\ WireIn(wire', n) = {} /\ SentIn(wire', n) = {}
             /\ \A u \in 1 .. n : u # n => Done(wire', stream'[u], u)
<1>1. /\ stream \in Seq(Units) /\ Len(stream) \in Nat /\ stream' = Append(stream, t)
      /\ ~Encoding /\ OneUnit(wire, Len(stream)) /\ FragmentsAgree /\ LastY = FALSE
  BY LenProperties DEF EncoderInv, PacketFits, EncoderTypeOK, Accept
<1>2. \A u \in 1 .. Len(stream) : Done(wire, stream[u], u)
  BY <1>1 DEF EncoderInv
<1>3. /\ stream' \in Seq(Units) /\ Len(stream') = Len(stream) + 1
      /\ \A u \in 1 .. Len(stream) : stream'[u] = stream[u]
      /\ stream'[Len(stream) + 1] = t
  BY <1>1, AppendProperties
<1>4. stream' # << >>
  BY <1>1, <1>3, EmptySeq
<1>5. OneUnit(wire, Len(stream) + 1)
  BY <1>1 DEF OneUnit
<1>6. WireIn(wire, Len(stream) + 1) = {} /\ SentIn(wire, Len(stream) + 1) = {}
  BY <1>1, NoneYet
<1>7. FragmentsAgree' /\ LastY' = FALSE
  BY <1>1 DEF FragmentsAgree, LastY
<1>8. \A u \in 1 .. Len(stream) + 1 : u # Len(stream) + 1 => Done(wire, stream'[u], u)
  BY <1>1, <1>2, <1>3
<1>9. QED
  BY <1>1, <1>3, <1>4, <1>5, <1>6, <1>7, <1>8

LEMMA EncodeNothingStep ==
  ASSUME EncoderInv, NEW t \in Units, EncodeNothing(t) PROVE EncoderInv'
<1> DEFINE n == Len(stream) + 1
<1>1. /\ Accept(t) /\ Unsendable(t) /\ ~Encoding
      /\ UNCHANGED <<elements, index, offset, z, firstPacket, isNew, payload, payloadLen, y, wire>>
  BY DEF EncodeNothing, Accept
<1>2. /\ stream' \in Seq(Units) /\ Len(stream') = n /\ stream' # << >> /\ stream'[n] = t
      /\ FragmentsAgree' /\ LastY' = FALSE /\ OneUnit(wire', n)
      /\ WireIn(wire', n) = {} /\ \A u \in 1 .. n : u # n => Done(wire', stream'[u], u)
  BY <1>1, UnitAccepted
<1>3. payload = << >> /\ PacketFits
  BY <1>1 DEF EncoderInv
<1>4. PacketFits'
  BY <1>1, <1>2, <1>3 DEF PacketFits, EncoderTypeOK
<1>5. Done(wire', stream'[n], n)
  BY <1>1, <1>2 DEF Done
<1>6. ~Encoding' /\ InPacket' = {} /\ payload' = << >>
  <2>1. payload' = << >> /\ Len(payload') = 0
    BY <1>1, <1>3, EmptySeq
  <2>2. QED
    BY <1>1, <2>1 DEF Encoding, InPacket
<1> HIDE DEF n
<1>7. QED
  BY <1>2, <1>4, <1>5, <1>6 DEF EncoderInv

LEMMA EncodeBeginStep ==
  ASSUME EncoderInv, NEW t \in Units, EncodeBegin(t) PROVE EncoderInv'
<1> DEFINE n == Len(stream) + 1
           els == Lengths(Forwarded(t.obus))
<1>1. /\ Accept(t) /\ ~Unsendable(t) /\ elements' = els
      /\ isNew' = HasSequenceHeader(Forwarded(t.obus))
      /\ index' = 1 /\ offset' = 0 /\ z' = FALSE /\ firstPacket' = TRUE
      /\ payload' = << >> /\ payloadLen' = 0 /\ y' = FALSE /\ wire' = wire
  BY DEF EncodeBegin
<1>2. /\ stream' \in Seq(Units) /\ Len(stream') = n /\ stream' # << >> /\ stream'[n] = t
      /\ FragmentsAgree' /\ LastY' = FALSE /\ OneUnit(wire', n)
      /\ WireIn(wire', n) = {} /\ SentIn(wire', n) = {}
      /\ \A u \in 1 .. n : u # n => Done(wire', stream'[u], u)
  BY <1>1, UnitAccepted
<1>3. els \in Seq(Nat \ {0}) /\ els # << >> /\ Len(els) \in Nat \ {0} /\ els[1] \in Nat \ {0}
  <2>1. els \in Seq(Nat \ {0}) /\ els # << >> /\ Len(els) \in Nat
    BY <1>1, LengthsSeq DEF Unsendable
  <2> HIDE DEF els
  <2>2. Len(els) # 0
    BY <2>1, EmptySeq
  <2>3. 1 \in 1 .. Len(els)
    BY <2>1, <2>2
  <2>4. els[1] \in Nat \ {0}
    BY <2>1, <2>3, ElementOfSeq
  <2>5. QED
    BY <2>1, <2>2, <2>4
<1>4. payload' \in Seq(ChunkType) /\ Len(payload') = 0 /\ InPacket' = {}
  BY <1>1, EmptySeq DEF InPacket
<1>5. PacketFits'
  <2>1. wire \in Seq(PacketType)
    BY DEF EncoderInv, PacketFits, EncoderTypeOK
  <2>2. isNew' \in BOOLEAN
    BY <1>1 DEF HasSequenceHeader
  <2>3. {z', firstPacket', isNew', y'} \subseteq BOOLEAN
    BY <1>1, <2>2
  <2>4. index' \in Nat \ {0} /\ offset' \in Nat /\ payloadLen' \in Nat
    BY <1>1
  <2> HIDE DEF els
  <2>5. EncoderTypeOK'
    BY <1>1, <1>2, <1>3, <1>4, <2>1, <2>3, <2>4, Zenon DEF EncoderTypeOK
  <2>6. QED
    BY <1>1, <2>5, PacketizerAssumption DEF PacketFits
<1>6. Encoding'
  BY <1>1, <1>3 DEF Encoding
<1>7. Tiled({}, els, 1, 0)
  <2> HIDE DEF els
  <2>1. \A j \in 1 .. Len(els) : Reached(els, 1, 0, j) = 0
    BY <1>3 DEF Reached
  <2>2. \A j \in 1 .. Len(els) : 0 .. Reached(els, 1, 0, j) - 1 = {}
    BY <2>1
  <2>3. QED
    BY <2>2 DEF Tiled
<1>8. Place(t)'
  <2>1. elements' = els
    BY <1>1
  <2>2. index' \in 1 .. Len(elements') + 1 /\ index' <= Len(elements') /\ offset' < elements'[index']
    <3> HIDE DEF els
    <3>1. QED
      BY <1>1, <1>3
  <2>3. SentIn(wire', Len(stream')) \cup InPacket' = {} /\ WireIn(wire', Len(stream')) = {}
    BY <1>2, <1>4
  <2>4. Tiled(SentIn(wire', Len(stream')) \cup InPacket', elements', index', offset')
    <3> HIDE DEF els
    <3>1. QED
      BY <1>1, <1>7, <2>3
  <2>5. ~(index' > Len(elements')) /\ ~(offset' > 0) /\ ~y' /\ payloadLen' = 0
    <3> HIDE DEF els
    <3>1. QED
      BY <1>1, <1>3
  <2>6. QED
    BY <1>1, <2>1, <2>2, <2>3, <2>4, <2>5 DEF Place
<1>9. z' = LastY'
  BY <1>1, <1>2
<1> HIDE DEF n, els
<1>10. QED
  BY <1>2, <1>4, <1>5, <1>6, <1>8, <1>9 DEF EncoderInv

\* What is put in fits, and is no more than what remains (rtp.c:357).
LEMMA ChunkFits ==
  ASSUME NEW room \in Nat, room >= 3, room <= PayloadSize, NEW r \in Nat \ {0}
  PROVE  LET c == IF LebSize(r) + r > room THEN room - 2 ELSE r
         IN  c \in 1 .. r /\ LebSize(c) + c <= room /\ LebSize(c) \in Nat
<1> DEFINE B == LebBase * LebBase
           c == IF LebSize(r) + r > room THEN room - 2 ELSE r
<1>1. LebBase \in Nat /\ B \in Nat /\ PayloadSize <= B /\ PayloadSize \in Nat
  BY PacketizerAssumption
<1>2. \A v \in Nat : LebSize(v) = IF v < LebBase THEN 1 ELSE IF v < B THEN 2 ELSE 3
  BY DEF LebSize
<1> HIDE DEF B
<1>3. \A v \in Nat : LebSize(v) \in 1 .. 3 /\ (v < B => LebSize(v) <= 2)
  BY <1>1, <1>2
<1>4. CASE LebSize(r) + r > room
  <2>1. c = room - 2 /\ c \in Nat /\ c < B /\ c >= 1
    BY <1>1, <1>4
  <2>2. LebSize(c) <= 2 /\ LebSize(c) \in Nat
    <3> HIDE DEF c
    <3>1. QED
      BY <1>3, <2>1
  <2>3. c <= r
    <3>1. r < B => LebSize(r) <= 2
      BY <1>3
    <3>2. LebSize(r) \in 1 .. 3
      BY <1>3
    <3> HIDE DEF c
    <3>3. QED
      BY <1>1, <1>4, <2>1, <3>1, <3>2
  <2> HIDE DEF c
  <2>4. c \in 1 .. r /\ LebSize(c) + c <= room /\ LebSize(c) \in Nat
    BY <2>1, <2>2, <2>3
  <2>5. QED
    BY <2>4 DEF c
<1>5. CASE ~(LebSize(r) + r > room)
  <2>1. c = r /\ LebSize(r) \in 1 .. 3
    BY <1>3, <1>5
  <2>2. QED
    BY <1>5, <2>1
<1>6. QED
  BY <1>4, <1>5

LEMMA AddElementStep ==
  ASSUME EncoderInv, AddElement PROVE EncoderInv'
<1> DEFINE n == Len(stream)
           c == [unit |-> n, element |-> index, from |-> offset, len |-> Chunk]
           S == SentIn(wire, n) \cup InPacket
<1>1. /\ Encoding /\ index <= Len(elements) /\ ~y /\ Room >= 3
      /\ payload' = Append(payload, c) /\ payloadLen' = payloadLen + LebSize(Chunk) + Chunk
      /\ UNCHANGED <<stream, elements, z, firstPacket, isNew, wire>>
  BY DEF AddElement
<1>2. /\ EncoderTypeOK /\ FragmentsAgree /\ OneUnit(wire, n) /\ stream # << >>
      /\ Place(stream[n]) /\ z = LastY /\ payloadLen <= PayloadSize
      /\ \A d \in InPacket : d.unit = n
      /\ \A u \in 1 .. n : u # n => Done(wire, stream[u], u)
  BY <1>1 DEF EncoderInv, PacketFits
<1>3. /\ stream \in Seq(Units) /\ n \in Nat \ {0} /\ elements \in Seq(Nat \ {0}) /\ Len(elements) \in Nat
      /\ wire \in Seq(PacketType) /\ payload \in Seq(ChunkType) /\ payloadLen \in Nat
      /\ offset \in Nat /\ index \in Nat \ {0} /\ PayloadSize \in Nat
  BY <1>2, LenProperties, EmptySeq, PacketizerAssumption DEF EncoderTypeOK
<1>4. index \in 1 .. Len(elements) /\ elements[index] \in Nat \ {0} /\ offset < elements[index]
  <2>1. index \in 1 .. Len(elements) /\ offset < elements[index]
    BY <1>1, <1>2, <1>3 DEF Place
  <2>2. QED
    BY <1>3, <2>1, ElementOfSeq
<1>5. Chunk \in 1 .. Remaining /\ LebSize(Chunk) + Chunk <= Room /\ LebSize(Chunk) \in Nat
  <2>1. Room \in Nat /\ Room <= PayloadSize /\ Remaining \in Nat \ {0}
    BY <1>2, <1>3, <1>4 DEF Room, Remaining
  <2>2. QED
    BY <1>1, <2>1, ChunkFits DEF Chunk
<1>6. Chunk \in Nat \ {0} /\ offset + Chunk <= elements[index] /\ c \in ChunkType
  <2>1. Chunk \in Nat \ {0} /\ offset + Chunk <= elements[index]
    BY <1>3, <1>4, <1>5 DEF Remaining
  <2>2. QED
    BY <1>3, <2>1 DEF ChunkType
<1>7. payloadLen' \in Nat /\ payloadLen' <= PayloadSize
  <2> DEFINE size == LebSize(Chunk) + Chunk
  <2>1. size \in Nat /\ size <= PayloadSize - payloadLen
    BY <1>5, <1>6 DEF Room
  <2>2. payloadLen' = payloadLen + size
    BY <1>1, <1>3, <1>5, <1>6
  <2> HIDE DEF size
  <2>3. QED
    BY <1>3, <2>1, <2>2
<1>8. /\ payload' \in Seq(ChunkType) /\ payload' # << >> /\ InPacket' = InPacket \cup {c}
  <2> HIDE DEF c
  <2>1. /\ payload' \in Seq(ChunkType) /\ Len(payload') = Len(payload) + 1 /\ Len(payload) \in Nat
        /\ payload'[Len(payload) + 1] = c /\ \A m \in 1 .. Len(payload) : payload'[m] = payload[m]
    BY <1>1, <1>3, <1>6, AppendProperties, LenProperties
  <2>2. payload' # << >>
    BY <2>1, EmptySeq
  <2>3. 1 .. Len(payload') = (1 .. Len(payload)) \cup {Len(payload) + 1}
    BY <2>1
  <2>4. InPacket' = InPacket \cup {c}
    BY <2>1, <2>3 DEF InPacket
  <2>5. QED
    BY <2>1, <2>2, <2>4
<1>9. S \subseteq ChunkType /\ Tiled(S, elements, index, offset)
  <2>1. InPacket \subseteq ChunkType
    <3>1. \A m \in 1 .. Len(payload) : payload[m] \in ChunkType
      BY <1>3, ElementOfSeq
    <3>2. QED
      BY <3>1 DEF InPacket
  <2>2. QED
    BY <1>2, <1>3, <2>1, SentAreChunks DEF Place
<1>10. c.element = index /\ c.from = offset /\ c.len = Chunk /\ c.unit = n
  OBVIOUS
<1>11. /\ offset + Chunk < elements[index] => Tiled(S \cup {c}, elements, index, offset + Chunk)
       /\ offset + Chunk = elements[index] => Tiled(S \cup {c}, elements, index + 1, 0)
  <2>1. offset \in 0 .. elements[index] - 1
    BY <1>3, <1>4
  <2> HIDE DEF c, S
  <2>2. QED
    BY <1>3, <1>4, <1>6, <1>9, <1>10, <2>1, TileMore
<1>12. SentIn(wire', Len(stream')) \cup InPacket' = S \cup {c}
  BY <1>1, <1>8
<1>13. /\ index' \in 1 .. Len(elements) + 1 /\ offset' \in Nat /\ y' \in BOOLEAN
       /\ index' <= Len(elements) => offset' < elements[index']
       /\ index' > Len(elements) => offset' = 0
       /\ (y' => offset' > 0) /\ (offset' > 0 => y')
       /\ Tiled(S \cup {c}, elements, index', offset')
  <2> HIDE DEF c, S
  <2>1. CASE offset + Chunk < elements[index]
    <3>1. y' = TRUE /\ offset' = offset + Chunk /\ index' = index
      BY <2>1 DEF AddElement
    <3>2. QED
      BY <1>3, <1>4, <1>6, <1>11, <2>1, <3>1
  <2>2. CASE ~(offset + Chunk < elements[index])
    <3>1. offset' = 0 /\ index' = index + 1 /\ y' = y
      BY <2>2 DEF AddElement
    <3>2. offset + Chunk = elements[index]
      <4>1. /\ offset \in Nat /\ Chunk \in Nat /\ elements[index] \in Nat
            /\ offset + Chunk <= elements[index] /\ ~(offset + Chunk < elements[index])
        BY <1>3, <1>4, <1>6, <2>2, Zenon
      <4>2. QED
        BY <4>1
    <3>3. y' = FALSE
      BY <1>1, <1>2, <3>1 DEF EncoderTypeOK
    <3>4. index' \in 1 .. Len(elements) + 1
      BY <1>3, <1>4, <3>1
    <3>5. index' <= Len(elements) => 0 < elements[index']
      <4>1. \A j \in 1 .. Len(elements) : elements[j] \in Nat \ {0}
        BY <1>3, ElementOfSeq
      <4>2. QED
        BY <1>3, <3>4, <4>1
    <3>6. Tiled(S \cup {c}, elements, index', offset')
      BY <1>11, <3>1, <3>2
    <3>7. /\ offset' \in Nat /\ ~(offset' > 0)
          /\ y' \in BOOLEAN /\ ~y'
      <4>1. offset' \in Nat /\ ~(offset' > 0)
        BY <3>1
      <4>2. y' \in BOOLEAN /\ ~y'
        BY <3>3, Zenon
      <4>3. QED
        BY <4>1, <4>2, Zenon
    <3>8. QED
      BY <3>1, <3>4, <3>5, <3>6, <3>7
  <2>3. QED
    BY <2>1, <2>2
<1>14. PacketFits'
  <2>1. index' \in Nat \ {0}
    BY <1>3, <1>13
  <2>2. EncoderTypeOK'
    BY <1>1, <1>2, <1>7, <1>8, <1>13, <2>1 DEF EncoderTypeOK
  <2>3. QED
    BY <1>7, <2>2 DEF PacketFits
<1>15. Place(stream[n])'
  BY <1>1, <1>2, <1>8, <1>12, <1>13 DEF Place
<1>16. LastY' = LastY /\ FragmentsAgree' /\ Encoding'
  BY <1>1, <1>2 DEF LastY, FragmentsAgree, Encoding
<1>17. \A d \in InPacket' : d.unit = Len(stream')
  BY <1>1, <1>2, <1>8, <1>10
<1> HIDE DEF c, S
<1>18. QED
  BY <1>1, <1>2, <1>14, <1>15, <1>16, <1>17 DEF EncoderInv

\* What SendPacket sends, as a packet of its own.
LEMMA PacketIsTyped ==
  ASSUME EncoderTypeOK
  PROVE  /\ Packet \in PacketType /\ Packet.elems = payload /\ Packet.z = z /\ Packet.y = y
         /\ Packet.marker = (index > Len(elements)) /\ Chunks(Packet) = InPacket
<1>1. /\ Packet.elems = payload /\ Packet.z = z /\ Packet.y = y
      /\ Packet.marker = (index > Len(elements))
  BY DEF Packet
<1>2. FirstSeq + Len(wire) \in Nat
  BY LenProperties, PacketizerAssumption DEF EncoderTypeOK
<1>3. {z, firstPacket, isNew, y} \subseteq BOOLEAN /\ payload \in Seq(ChunkType)
  BY DEF EncoderTypeOK
<1>4. Packet \in PacketType
  BY <1>2, <1>3 DEF Packet, PacketType
<1>5. Chunks(Packet) = InPacket
  BY <1>1 DEF Chunks, InPacket
<1>6. QED
  BY <1>1, <1>4, <1>5

LEMMA SendPacketStep ==
  ASSUME EncoderInv, SendPacket PROVE EncoderInv'
<1> DEFINE n == Len(stream)
           t == stream[n]
           m == Len(wire) + 1
<1>1. /\ Encoding /\ PacketFull /\ wire' = Append(wire, Packet) /\ z' = (offset > 0)
      /\ firstPacket' = FALSE /\ payload' = << >> /\ payloadLen' = 0 /\ y' = FALSE
      /\ elements' = (IF index > Len(elements) THEN << >> ELSE elements)
      /\ UNCHANGED <<stream, index, offset, isNew>>
  BY DEF SendPacket
<1>2. /\ EncoderTypeOK /\ FragmentsAgree /\ OneUnit(wire, n) /\ stream # << >>
      /\ Place(t) /\ z = LastY
      /\ \A d \in InPacket : d.unit = n
      /\ \A u \in 1 .. n : u # n => Done(wire, stream[u], u)
  BY <1>1 DEF EncoderInv, PacketFits
<1>3. /\ stream \in Seq(Units) /\ n \in Nat \ {0} /\ elements \in Seq(Nat \ {0}) /\ Len(elements) \in Nat
      /\ wire \in Seq(PacketType) /\ offset \in Nat /\ index \in Nat \ {0}
      /\ PayloadSize \in Nat /\ PayloadSize >= 3 /\ y \in BOOLEAN /\ t \in Units
  <2>1. /\ stream \in Seq(Units) /\ n \in Nat \ {0} /\ elements \in Seq(Nat \ {0})
        /\ Len(elements) \in Nat
        /\ wire \in Seq(PacketType) /\ offset \in Nat /\ index \in Nat \ {0}
        /\ PayloadSize \in Nat /\ PayloadSize >= 3
    BY <1>2, LenProperties, EmptySeq, PacketizerAssumption DEF EncoderTypeOK
  <2>2. y \in BOOLEAN
    BY <1>2 DEF EncoderTypeOK
  <2>3. n \in 1 .. Len(stream)
    BY <2>1
  <2>4. t \in Units
    BY <2>1, <2>3, ElementOfSeq
  <2>5. QED
    BY <2>1, <2>2, <2>4
<1>4. /\ Packet \in PacketType /\ Packet.elems = payload /\ Packet.z = z /\ Packet.y = y
      /\ Packet.marker = (index > Len(elements)) /\ Chunks(Packet) = InPacket
  BY <1>2, PacketIsTyped
<1>5. payload # << >> /\ (offset > 0 => y) /\ (index > Len(elements) => ~y /\ offset = 0)
  <2>1. /\ index > Len(elements) => offset = 0 /\ payload # << >>
        /\ y => offset > 0 /\ payload # << >>
        /\ offset > 0 => y \/ payload = << >>
        /\ payload = << >> => payloadLen = 0
    BY <1>2 DEF Place
  <2>2. payload # << >>
    <3>1. SUFFICES ASSUME payload = << >> PROVE FALSE
      OBVIOUS
    <3>2. Room = PayloadSize
      BY <1>3, <2>1, <3>1 DEF Room
    <3>3. ~(Room < 3)
      BY <1>3, <3>2
    <3>4. QED
      BY <1>1, <2>1, <3>1, <3>3 DEF PacketFull
  <2>3. offset > 0 => y
    BY <2>1, <2>2
  <2>4. index > Len(elements) => ~y /\ offset = 0
    <3>1. offset = 0 => ~(offset > 0)
      OBVIOUS
    <3>2. QED
      BY <2>1, <3>1
  <2>5. QED
    BY <2>2, <2>3, <2>4
<1>6. /\ wire' \in Seq(PacketType) /\ Len(wire') = m /\ Len(wire) \in Nat
      /\ wire'[m] = Packet /\ \A k \in 1 .. Len(wire) : wire'[k] = wire[k]
      /\ WireIn(wire', n) = WireIn(wire, n) \cup {m}
      /\ SentIn(wire', n) = SentIn(wire, n) \cup InPacket
      /\ \A u : u # n => WireIn(wire', u) = WireIn(wire, u) /\ SentIn(wire', u) = SentIn(wire, u)
  <2> HIDE DEF n
  <2>1. n \in Nat /\ Packet.elems # << >> /\ \A d \in Chunks(Packet) : d.unit = n
    BY <1>2, <1>3, <1>4, <1>5
  <2> DEFINE p == Packet
  <2>2. p \in PacketType /\ p.elems # << >> /\ \A d \in Chunks(p) : d.unit = n
    BY <1>4, <2>1
  <2> HIDE DEF p
  <2>3. LET v == Append(wire, p)
        IN  /\ v \in Seq(PacketType) /\ Len(v) = Len(wire) + 1 /\ Len(wire) \in Nat
            /\ v[Len(wire) + 1] = p /\ \A k \in 1 .. Len(wire) : v[k] = wire[k]
            /\ WireIn(v, n) = WireIn(wire, n) \cup {Len(wire) + 1}
            /\ SentIn(v, n) = SentIn(wire, n) \cup Chunks(p)
            /\ \A u : u # n => WireIn(v, u) = WireIn(wire, u) /\ SentIn(v, u) = SentIn(wire, u)
    BY <1>3, <2>1, <2>2, WireMore
  <2>4. wire' = Append(wire, p) /\ Chunks(p) = InPacket
    BY <1>1, <1>4 DEF p
  <2>5. QED
    BY <2>3, <2>4, Zenon DEF p
<1>7. wire' # << >> /\ LastY' = y
  <2>1. wire' # << >>
    BY <1>6, EmptySeq
  <2>2. QED
    BY <1>4, <1>6, <2>1 DEF LastY
<1>8. payload' \in Seq(ChunkType) /\ Len(payload') = 0 /\ InPacket' = {}
  BY <1>1, EmptySeq DEF InPacket
<1>9. PacketFits'
  <2>1. elements' \in Seq(Nat \ {0})
    BY <1>1, <1>3, EmptySeq
  <2>2. isNew \in BOOLEAN
    BY <1>2 DEF EncoderTypeOK
  <2>3. {z', firstPacket', isNew', y'} \subseteq BOOLEAN
    <3>1. z' \in BOOLEAN
      BY <1>1
    <3>2. QED
      BY <1>1, <2>2, <3>1
  <2>4. index' \in Nat \ {0} /\ offset' \in Nat /\ payloadLen' \in Nat /\ stream' \in Seq(Units)
    BY <1>1, <1>3
  <2>5. EncoderTypeOK'
    BY <1>6, <1>8, <2>1, <2>3, <2>4, Zenon DEF EncoderTypeOK
  <2>6. payloadLen' <= PayloadSize
    BY <1>1, <1>3
  <2>7. QED
    BY <2>5, <2>6 DEF PacketFits
<1>10. OneUnit(wire', Len(stream'))
  <2>1. \A k \in 1 .. Len(wire') : k \in 1 .. Len(wire) \/ k = m
    BY <1>6
  <2>2. Packet.elems # << >> /\ \A d \in Chunks(Packet) : d.unit = n
    BY <1>2, <1>4, <1>5
  <2>3. n \in 1 .. Len(stream')
    BY <1>1, <1>3
  <2> HIDE DEF m
  <2>4. ASSUME NEW k \in 1 .. Len(wire')
        PROVE  wire'[k].elems # << >> /\ \E u \in 1 .. Len(stream') : \A d \in Chunks(wire'[k]) : d.unit = u
    <3>1. CASE k = m
      BY <1>6, <2>2, <2>3, <3>1
    <3>2. CASE k \in 1 .. Len(wire)
      <4>1. wire[k].elems # << >> /\ \E u \in 1 .. n : \A d \in Chunks(wire[k]) : d.unit = u
        BY <1>2, <3>2 DEF OneUnit
      <4>2. QED
        BY <1>1, <1>6, <3>2, <4>1
    <3>3. QED
      BY <2>1, <3>1, <3>2
  <2>5. QED
    BY <2>4 DEF OneUnit
<1>11. FragmentsAgree'
  <2>1. SUFFICES ASSUME NEW k \in 1 .. Len(wire')
        PROVE  wire'[k].z = IF k = 1 THEN FALSE ELSE wire'[k - 1].y
    BY DEF FragmentsAgree
  <2>2. CASE k \in 1 .. Len(wire)
    <3>1. wire[k].z = IF k = 1 THEN FALSE ELSE wire[k - 1].y
      BY <1>2, <2>2 DEF FragmentsAgree
    <3>2. wire'[k] = wire[k] /\ (k # 1 => wire'[k - 1] = wire[k - 1])
      BY <1>6, <2>2
    <3>3. QED
      BY <3>1, <3>2
  <2>3. CASE k = m
    <3>1. wire'[k].z = LastY
      BY <1>2, <1>4, <1>6, <2>3
    <3>2. CASE wire = << >>
      <4>1. Len(wire) = 0
        BY <3>2, EmptySeq
      <4>2. k = 1 /\ LastY = FALSE
        BY <2>3, <3>2, <4>1 DEF LastY
      <4>3. QED
        BY <3>1, <4>2
    <3>3. CASE wire # << >>
      <4>1. Len(wire) # 0
        BY <1>3, <3>3, EmptySeq
      <4>2. k # 1 /\ k - 1 = Len(wire) /\ Len(wire) \in 1 .. Len(wire)
        BY <1>6, <2>3, <4>1
      <4>3. LastY = wire[Len(wire)].y
        BY <3>3 DEF LastY
      <4>4. QED
        BY <1>6, <3>1, <4>2, <4>3
    <3>4. QED
      BY <3>2, <3>3
  <2>4. k \in 1 .. Len(wire) \/ k = m
    BY <1>6
  <2>5. QED
    BY <2>2, <2>3, <2>4
<1>12. \A u \in 1 .. n : u # n => Done(wire', stream[u], u)
  <2>1. SUFFICES ASSUME NEW u \in 1 .. n, u # n PROVE Done(wire', stream[u], u)
    OBVIOUS
  <2>2. WireIn(wire', u) = WireIn(wire, u) /\ SentIn(wire', u) = SentIn(wire, u)
    BY <1>6, <2>1
  <2>3. \A k \in WireIn(wire, u) : wire'[k] = wire[k]
    BY <1>6 DEF WireIn
  <2>4. Done(wire, stream[u], u)
    BY <1>2, <2>1
  <2>5. QED
    BY <2>2, <2>3, <2>4 DEF Done
<1>13. /\ \A k \in WireIn(wire, n) : k \in 1 .. Len(wire) /\ wire'[k].marker = FALSE
       /\ wire'[m].marker = (index > Len(elements))
  <2>1. \A k \in WireIn(wire, n) : wire[k].marker = FALSE
    BY <1>2 DEF Place
  <2>2. \A k \in WireIn(wire, n) : k \in 1 .. Len(wire)
    BY DEF WireIn
  <2>3. QED
    BY <1>4, <1>6, <2>1, <2>2
<1>14. CASE index > Len(elements)
  <2>1. ~Encoding' /\ elements' = << >>
    BY <1>1, <1>14 DEF Encoding
  <2>2. LastY' = FALSE
    BY <1>3, <1>5, <1>7, <1>14
  <2>3. Done(wire', t, n)
    <3> DEFINE obus == Forwarded(t.obus)
               els == Lengths(obus)
               S == SentIn(wire', n)
    <3>1. /\ els \in Seq(Nat \ {0}) /\ Len(els) = Len(obus)
          /\ \A j \in 1 .. Len(obus) : els[j] = obus[j].len
      BY <1>3, LengthsSeq
    <3>2. elements = els /\ index = Len(els) + 1 /\ offset = 0
      <4>1. elements = els /\ index \in 1 .. Len(elements) + 1
        BY <1>2 DEF Place
      <4>2. index = Len(elements) + 1
        BY <1>3, <1>14, <4>1
      <4>3. QED
        BY <1>5, <1>14, <4>1, <4>2
    <3>3. Tiled(S, els, Len(els) + 1, 0)
      BY <1>2, <1>6, <3>2 DEF Place
    <3> HIDE DEF els, S
    <3>4. \A j \in 1 .. Len(els) : \A b \in 0 .. els[j] - 1 :
            \E c \in S : Holds(c, j, b) /\ \A d \in S : Holds(d, j, b) => d = c
      BY <3>1, <3>3, AllTiled
    <3>5. \A j \in 1 .. Len(obus) : \A b \in 0 .. obus[j].len - 1 :
            \E c \in S : Holds(c, j, b) /\ \A d \in S : Holds(d, j, b) => d = c
      BY <3>1, <3>4
    <3>6. \A k \in WireIn(wire', n) : wire'[k].marker <=> \A l \in WireIn(wire', n) : l <= k
      <4>1. wire'[m].marker = TRUE
        BY <1>13, <1>14
      <4>2. \A l \in WireIn(wire', n) : l <= m
        BY <1>6, <1>13
      <4>3. \A k \in WireIn(wire, n) : ~(m <= k)
        BY <1>6, <1>13
      <4> HIDE DEF m, n
      <4>4. QED
        BY <1>6, <1>13, <4>1, <4>2, <4>3, Zenon
    <3>7. QED
      BY <3>5, <3>6 DEF Done, S
  <2> HIDE DEF m, t
  <2>4. \A u \in 1 .. n : Done(wire', stream[u], u)
    BY <1>12, <2>3 DEF t
  <2>5. QED
    BY <1>1, <1>8, <1>9, <1>10, <1>11, <2>1, <2>2, <2>4 DEF EncoderInv
<1>15. CASE ~(index > Len(elements))
  <2>1. elements' = elements /\ Encoding'
    BY <1>1, <1>15 DEF Encoding
  <2>2. z' = LastY'
    <3>1. (offset > 0) <=> y
      BY <1>2, <1>5 DEF Place
    <3>2. QED
      BY <1>1, <1>3, <1>7, <3>1
  <2>3. \A k \in WireIn(wire', n) : wire'[k].marker = FALSE
    <3>1. (index > Len(elements)) = FALSE
      BY <1>3, <1>15, SMT
    <3>2. wire'[m].marker = FALSE
      BY <1>13, <3>1, Zenon
    <3> HIDE DEF m, n
    <3>3. QED
      BY <1>6, <1>13, <3>2
  <2>4. SentIn(wire', Len(stream')) \cup InPacket' = SentIn(wire, n) \cup InPacket
    BY <1>1, <1>6, <1>8
  <2>5. Place(t)'
    <3>1. /\ ~Unsendable(t) /\ elements = Lengths(Forwarded(t.obus))
          /\ index \in 1 .. Len(elements) + 1
          /\ index <= Len(elements) => offset < elements[index]
          /\ Tiled(SentIn(wire, n) \cup InPacket, elements, index, offset)
      BY <1>2 DEF Place
    <3>2. ~y' /\ payload' = << >> /\ payloadLen' = 0
      BY <1>1
    <3>3. stream' = stream /\ index' = index /\ offset' = offset
      BY <1>1
    <3>4. t' = t
      BY <3>3
    <3> HIDE DEF t, m
    <3>5. QED
      BY <1>15, <2>1, <2>3, <2>4, <3>1, <3>2, <3>3, <3>4 DEF Place
  <2>6. stream' # << >> /\ stream'[Len(stream')] = t
    BY <1>1, <1>2
  <2> HIDE DEF m
  <2>7. QED
    BY <1>1, <1>8, <1>9, <1>10, <1>11, <1>12, <2>1, <2>2, <2>5, <2>6 DEF EncoderInv
<1>16. QED
  BY <1>14, <1>15

LEMMA EncoderInvariant == EncoderSpec => []EncoderInv
<1>1. EncoderInit => EncoderInv
  BY EncoderInitInvariant
<1>2. EncoderInv /\ [EncoderNext]_encoderVars => EncoderInv'
  <2> SUFFICES ASSUME EncoderInv, [EncoderNext]_encoderVars PROVE EncoderInv'
    OBVIOUS
  <2>1. ASSUME NEW t \in Units, EncodeNothing(t) PROVE EncoderInv'
    BY <2>1, EncodeNothingStep
  <2>2. ASSUME NEW t \in Units, EncodeBegin(t) PROVE EncoderInv'
    BY <2>2, EncodeBeginStep
  <2>3. CASE AddElement
    BY <2>3, AddElementStep
  <2>4. CASE SendPacket
    BY <2>4, SendPacketStep
  <2>5. CASE UNCHANGED encoderVars
    <3>1. /\ stream' = stream /\ elements' = elements /\ index' = index /\ offset' = offset
          /\ z' = z /\ firstPacket' = firstPacket /\ isNew' = isNew /\ payload' = payload
          /\ payloadLen' = payloadLen /\ y' = y /\ wire' = wire
      BY <2>5 DEF encoderVars
    <3>2. EncoderTypeOK' = EncoderTypeOK
      BY <3>1 DEF EncoderTypeOK
    <3>3. PacketFits' = PacketFits
      BY <3>1, <3>2 DEF PacketFits
    <3>4. FragmentsAgree' = FragmentsAgree /\ InPacket' = InPacket /\ Encoding' = Encoding
          /\ LastY' = LastY
      BY <3>1 DEF FragmentsAgree, InPacket, Encoding, LastY
    <3>5. \A t : Place(t)' = Place(t)
      BY <3>1, <3>4 DEF Place
    <3>6. EncoderInv' = EncoderInv
      BY <3>1, <3>3, <3>4, <3>5 DEF EncoderInv
    <3>7. QED
      BY <3>6
  <2>6. QED
    BY <2>1, <2>2, <2>3, <2>4, <2>5 DEF EncoderNext
<1>3. QED
  BY <1>1, <1>2, PTL DEF EncoderSpec

(***************************************************************************)
(* A temporal unit goes on the wire within the packet size, with agreeing  *)
(* Z and Y bits and every byte once (rtp_encoder_encode_av1).              *)
(***************************************************************************)
THEOREM UnitsAreEncodedWhole == EncoderSpec => []EncodedWhole
<1>1. EncoderInv => EncodedWhole
  <2>1. SUFFICES ASSUME EncoderInv PROVE EveryByteOnce
    BY DEF EncoderInv, EncodedWhole
  <2>2. SUFFICES ASSUME NEW u \in 1 .. Len(stream), u = Len(stream) => ~Encoding
        PROVE  LET obus == Forwarded(stream[u].obus)
                   sent == UNION {Chunks(wire[k]) : k \in WireOf(u)}
               IN  \/ Unsendable(stream[u]) /\ WireOf(u) = {}
                   \/ /\ \A j \in 1 .. Len(obus) : \A b \in 0 .. obus[j].len - 1 :
                           \E c \in sent : /\ c.element = j /\ b \in c.from .. c.from + c.len - 1
                                           /\ \A d \in sent :
                                                d.element = j /\ b \in d.from .. d.from + d.len - 1
                                                  => d = c
                      /\ \A k \in WireOf(u) :
                           wire[k].marker <=> \A l \in WireOf(u) : l <= k
    BY DEF EveryByteOnce
  <2>3. Done(wire, stream[u], u)
    BY <2>1, <2>2 DEF EncoderInv
  <2>4. QED
    BY <2>3, Zenon DEF Done, Holds, SentIn, WireIn, WireOf
<1>2. QED
  BY <1>1, EncoderInvariant, PTL
=============================================================================

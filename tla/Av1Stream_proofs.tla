-------------------------- MODULE Av1Stream_proofs --------------------------
(***************************************************************************)
(* For every network, every window and every stream of temporal units: the *)
(* decoder is given whole units only, and only units whose references it   *)
(* has, and it is given each of those that arrives.                        *)
(***************************************************************************)
EXTENDS Av1Stream, ModularLemmas

\* What is known about the window and the packetizer alone.
Proofs == INSTANCE Av1Reorder_proofs WITH Packets <- Nat, tame <- FALSE, arrived <- {}

-----------------------------------------------------------------------------
(* Stream s: its units, their elements, and the order of its bytes.          *)

Obus(s, u) == Sender!Forwarded(s[u].obus)
Els(s, u) == Sender!Lengths(Obus(s, u))
Starts(s, u) == Sender!HasSequenceHeader(Obus(s, u))
Silent(s, from, to) == \A v \in from .. to : Sender!Unsendable(s[v])

GoodChunk(s, c) ==
  /\ c \in Sender!ChunkType
  /\ c.unit \in 1 .. Len(s) /\ ~Sender!Unsendable(s[c.unit])
  /\ c.element \in 1 .. Len(Els(s, c.unit))
  /\ c.from + c.len <= Els(s, c.unit)[c.element]

Ends(s, c) == c.from + c.len = Els(s, c.unit)[c.element]
Final(s, c) == Ends(s, c) /\ c.element = Len(Els(s, c.unit))

\* What follows chunk c is byte f of element e of unit u.
Follows(s, c, u, e, f) ==
  \/ ~Ends(s, c) /\ u = c.unit /\ e = c.element /\ f = c.from + c.len
  \/ Ends(s, c) /\ ~Final(s, c) /\ u = c.unit /\ e = c.element + 1 /\ f = 0
  \/ Final(s, c) /\ u > c.unit /\ e = 1 /\ f = 0 /\ Silent(s, c.unit + 1, u - 1)

-----------------------------------------------------------------------------
(* What is on the wire.                                                      *)

AnyPacket == [kind : {"media", "probe", "bad"}, seq : Nat, z : BOOLEAN, y : BOOLEAN, n : BOOLEAN,
              marker : BOOLEAN, elems : Seq(Sender!ChunkType)]

LastChunk(q) == q[Len(q)]

\* Chunks that may stand in one packet: only the last need not end its element.
Elems(s, q) ==
  /\ q \in Seq(Sender!ChunkType) /\ q # << >>
  /\ \A j \in 1 .. Len(q) :
       /\ GoodChunk(s, q[j])
       /\ q[j].unit = q[1].unit /\ q[j].element = q[1].element + j - 1
       /\ j > 1 => q[j].from = 0
       /\ j < Len(q) => Ends(s, q[j])

FirstOfUnit(c) == c.element = 1 /\ c.from = 0

MediaOK(s, p) ==
  /\ Elems(s, p.elems)
  /\ p.z <=> p.elems[1].from > 0
  /\ p.y <=> ~Ends(s, LastChunk(p.elems))
  /\ p.marker <=> Final(s, LastChunk(p.elems))
  /\ p.n => FirstOfUnit(p.elems[1]) /\ Starts(s, p.elems[1].unit)

UnitOf(p) == p.elems[1].unit

Media(w, k) == k \in 1 .. Len(w) /\ w[k].kind = "media"

NoMediaIn(w, from, to) == \A x \in from .. to : ~Media(w, x)

WireOK(s, w) ==
  /\ w \in Seq(AnyPacket)
  /\ \A k \in 1 .. Len(w) : w[k].seq = FirstSeq + k - 1
  /\ \A k \in 1 .. Len(w) : Media(w, k) => MediaOK(s, w[k])
  /\ \A k, l \in 1 .. Len(w) :
       Media(w, k) /\ Media(w, l) /\ k < l =>
         /\ UnitOf(w[k]) <= UnitOf(w[l])
         /\ w[k].marker => UnitOf(w[k]) < UnitOf(w[l])
         /\ NoMediaIn(w, k + 1, l - 1) =>
              Follows(s, LastChunk(w[k].elems), UnitOf(w[l]), w[l].elems[1].element,
                      w[l].elems[1].from)

-----------------------------------------------------------------------------
(* The sender, in the middle of unit n = Len(stream).                        *)

PacketBegun ==
  /\ Elems(stream, payload) /\ payload[1].unit = Len(stream)
  /\ z <=> payload[1].from > 0
  /\ firstPacket => FirstOfUnit(payload[1])
  /\ y <=> ~Ends(stream, LastChunk(payload))
  /\ y => index = LastChunk(payload).element
          /\ offset = LastChunk(payload).from + LastChunk(payload).len
  /\ ~y => index = LastChunk(payload).element + 1 /\ offset = 0

PacketEmpty ==
  /\ payload = << >> /\ payloadLen = 0 /\ y = FALSE
  /\ z <=> offset > 0
  /\ firstPacket => index = 1 /\ offset = 0
  /\ index <= Len(elements)

StartElement == IF payload = << >> THEN index ELSE payload[1].element
StartByte == IF payload = << >> THEN offset ELSE payload[1].from

SenderEncoding ==
  /\ stream # << >> /\ ~Sender!Unsendable(stream[Len(stream)])
  /\ elements = Els(stream, Len(stream))
  /\ isNew <=> Starts(stream, Len(stream))
  /\ index \in 1 .. Len(elements) + 1
  /\ index <= Len(elements) => offset < elements[index]
  /\ index > Len(elements) => offset = 0
  /\ PacketEmpty \/ PacketBegun
  /\ \A k \in 1 .. Len(wire) : Media(wire, k) =>
       /\ UnitOf(wire[k]) <= Len(stream)
       /\ wire[k].marker => UnitOf(wire[k]) < Len(stream)
       /\ NoMediaIn(wire, k + 1, Len(wire)) =>
            Follows(stream, LastChunk(wire[k].elems), Len(stream), StartElement, StartByte)

SenderIdle ==
  /\ payload = << >>
  /\ \A k \in 1 .. Len(wire) :
       Media(wire, k) /\ NoMediaIn(wire, k + 1, Len(wire)) =>
         /\ Final(stream, LastChunk(wire[k].elems))
         /\ Silent(stream, UnitOf(wire[k]) + 1, Len(stream))

SenderOK ==
  /\ stream \in Seq(Units)
  /\ index \in Nat /\ offset \in Nat /\ payload \in Seq(Sender!ChunkType) /\ payloadLen \in Nat
  /\ {z, y, firstPacket, isNew} \subseteq BOOLEAN
  /\ IF Sender!Encoding THEN SenderEncoding ELSE SenderIdle

-----------------------------------------------------------------------------
(* The window only keeps, and only releases, what was on the wire.           *)

WindowOK ==
  /\ held \in [Reorder!Slots -> OnWire \cup {Reorder!NoPacket}]
  /\ pc = "flush" => pkt \in OnWire
  /\ out \in Seq(OnWire)

-----------------------------------------------------------------------------
(* The depacketizer has got as far as byte f of element e of unit u.         *)

\* q is the first f bytes of element e of unit u.
Part(q, u, e, f) ==
  /\ q \in Seq(Sender!ChunkType)
  /\ q = << >> <=> f = 0
  /\ \A k \in 1 .. Len(q) :
       /\ q[k].unit = u /\ q[k].element = e
       /\ k = 1 => q[k].from = 0
       /\ q[k].from + q[k].len = IF k = Len(q) THEN f ELSE q[k + 1].from
  /\ Depay!ByteCount(q) = f

At(s, acc, u, e, f) ==
  /\ acc.closed \in Seq(Seq(Sender!ChunkType)) /\ Len(acc.closed) = e - 1
  /\ \A j \in 1 .. Len(acc.closed) : Part(acc.closed[j], u, j, Els(s, u)[j])
  /\ Part(acc.obu, u, e, f)
  /\ acc.tuLen = RebuiltSize(Obus(s, u))[e - 1]

Behind(s, acc, c) ==
  At(s, acc, c.unit, IF Ends(s, c) THEN c.element + 1 ELSE c.element,
     IF Ends(s, c) THEN 0 ELSE c.from + c.len)

Whole(s, d) ==
  /\ d # << >> /\ d[1] # << >> /\ d[1][1].unit \in 1 .. Len(s)
  /\ Len(d) = Len(Els(s, d[1][1].unit))
  /\ \A j \in 1 .. Len(d) :
       Part(d[j], d[1][1].unit, j, Els(s, d[1][1].unit)[j])

UnitIn(d) == d[1][1].unit

MayFollow(s, u, v) == u < v /\ (Starts(s, v) \/ Silent(s, u + 1, v - 1))

DeliveredOK(s, d) ==
  /\ d \in Seq(Seq(Seq(Sender!ChunkType)))
  /\ \A k \in 1 .. Len(d) : Whole(s, d[k])
  /\ d # << >> => Starts(s, UnitIn(d[1]))
  /\ \A k \in 1 .. Len(d) - 1 : MayFollow(s, UnitIn(d[k]), UnitIn(d[k + 1]))

\* u is what the decoder can make use of after d.
Wanted(s, d, u) ==
  IF d = << >> THEN Starts(s, u) ELSE MayFollow(s, UnitIn(LastChunk(d)), u)

\* The last packet that counted, and the last one with media, is number l and m.
LastParsed(l) ==
  \E k \in 1 .. Len(out) :
    /\ out[k] = l /\ PacketOf(l).kind # "bad"
    /\ \A j \in k + 1 .. Len(out) : PacketOf(out[j]).kind = "bad"

Acc == [closed |-> closed, tuLen |-> tuLen, obu |-> obu, ok |-> TRUE]

Carry(l, m) ==
  /\ LastParsed(l) /\ m <= l /\ PacketOf(m).kind = "media"
  /\ \A x \in m + 1 .. l : PacketOf(x).kind = "probe"
  /\ haveSeq /\ nextSeq = (l + 1) % SeqModulus
  /\ IF PacketOf(m).marker
     THEN /\ Acc = Depay!Fresh /\ ~obuOpen
          /\ delivered # << >> /\ UnitIn(LastChunk(delivered)) = UnitOf(PacketOf(m))
     ELSE /\ Behind(stream, Acc, LastChunk(PacketOf(m).elems))
          /\ obuOpen <=> ~Ends(stream, LastChunk(PacketOf(m).elems))
          /\ Wanted(stream, delivered, UnitOf(PacketOf(m)))

DepayOK ==
  /\ {obuOpen, haveSeq, dropping} \subseteq BOOLEAN
  /\ DeliveredOK(stream, delivered)
  /\ delivered # << >> =>
       \E n \in OnWire, k \in 1 .. Len(out) :
         /\ n <= out[k] /\ PacketOf(n).kind = "media" /\ PacketOf(n).marker
         /\ UnitOf(PacketOf(n)) = UnitIn(LastChunk(delivered))
  /\ ~dropping => \E l, m \in OnWire : Carry(l, m)

SourceInv == WireOK(stream, wire) /\ SenderOK /\ WindowOK
StreamInv == SourceInv /\ DepayOK

-----------------------------------------------------------------------------
(* The depacketizer compares 16-bit numbers: a loss of exactly 2^16 packets  *)
(* would go unnoticed.  The window never lets that many go at once, but      *)
(* packets the depacketizer cannot read do not count as received.            *)
Tracked ==
  \A k, l \in 1 .. Len(out) :
    /\ k < l /\ PacketOf(out[k]).kind # "bad" /\ PacketOf(out[l]).kind # "bad"
    /\ \A j \in k + 1 .. l - 1 : PacketOf(out[j]).kind = "bad"
    => out[l] - out[k] <= SeqModulus

-----------------------------------------------------------------------------
(* What is sent of a unit, from its first packet to its last.                *)

FirstPacket(w, k) == Media(w, k) /\ FirstOfUnit(w[k].elems[1])

SentWhole(w, u) ==
  /\ \E k \in 1 .. Len(w) : FirstPacket(w, k) /\ UnitOf(w[k]) = u
  /\ \E k \in 1 .. Len(w) : Media(w, k) /\ w[k].marker /\ UnitOf(w[k]) = u

WireFirsts(s, w) ==
  /\ \A k \in 1 .. Len(w) : ~Media(w, k) => w[k].elems = << >>
  /\ \A k, l \in 1 .. Len(w) :
       Media(w, k) /\ FirstPacket(w, l) /\ k < l => UnitOf(w[k]) < UnitOf(w[l])
  /\ \A l \in 1 .. Len(w) : FirstPacket(w, l) /\ Starts(s, UnitOf(w[l])) => w[l].n

FirstsEncoding ==
  /\ StartElement = 1 /\ StartByte = 0 => firstPacket
  /\ firstPacket => \A k \in 1 .. Len(wire) : Media(wire, k) => UnitOf(wire[k]) < Len(stream)
  /\ ~firstPacket => \E k \in 1 .. Len(wire) : FirstPacket(wire, k) /\ UnitOf(wire[k]) = Len(stream)

FirstsOK ==
  /\ WireFirsts(stream, wire)
  /\ \A u \in Finished : SentWhole(wire, u)
  /\ Sender!Encoding => FirstsEncoding

-----------------------------------------------------------------------------
(* What the depacketizer owes: from packet a on it has everything it needs.  *)

Anchor(a) ==
  \/ PacketOf(a).kind = "media" /\ PacketOf(a).n
  \/ /\ a - 1 \in OnWire /\ PacketOf(a - 1).kind = "media" /\ PacketOf(a - 1).marker
     /\ UnitOf(PacketOf(a - 1)) \in DeliveredUnits

MediaIn(a, b) == {x \in a .. b : PacketOf(x).kind = "media"}

Owed(a, b) ==
  /\ LastParsed(b) => ~dropping
  /\ \A x \in MediaIn(a, b) : PacketOf(x).marker => UnitOf(PacketOf(x)) \in DeliveredUnits

DebtsPaid ==
  /\ \A u \in DeliveredUnits : \E k \in 1 .. Len(out) :
       PacketOf(out[k]).kind = "media" /\ PacketOf(out[k]).marker /\ UnitOf(PacketOf(out[k])) = u
  /\ \A l \in OnWire :
       LastParsed(l) /\ PacketOf(l).kind = "media" /\ PacketOf(l).marker
         /\ UnitOf(PacketOf(l)) \in DeliveredUnits => ~dropping
  /\ \A a, b \in OnWire :
       /\ Anchor(a) /\ a <= b /\ Released(a, b)
       /\ \A x \in MediaIn(a, b) : FitsBuffer(UnitOf(PacketOf(x)))
       => Owed(a, b)

-----------------------------------------------------------------------------
(* The operators of the model.                                               *)

LEMMA Assumptions == Proofs!PacketizerAssumption /\ Proofs!ConstantsAssumption
<1>1. Proofs!PacketizerAssumption
  BY StreamAssumption DEF Sender!PacketizerAssumption, Proofs!PacketizerAssumption
<1>2. Proofs!ConstantsAssumption
  BY StreamAssumption DEF Proofs!ConstantsAssumption
<1>3. QED
  BY <1>1, <1>2

LEMMA SameOperators ==
  /\ \A o : Sender!Forwarded(o) = Proofs!Forwarded(o) /\ Sender!Lengths(o) = Proofs!Lengths(o)
  /\ \A t : Sender!Unsendable(t) <=> Proofs!Unsendable(t)
  /\ \A v : Sender!LebSize(v) = Proofs!LebSize(v)
<1>1. \A o : Sender!Forwarded(o) = Proofs!Forwarded(o)
  BY DEF Sender!Forwarded, Proofs!Forwarded, Sender!Dropped, Proofs!Dropped
<1>2. QED
  BY <1>1 DEF Sender!Lengths, Proofs!Lengths, Sender!Unsendable, Proofs!Unsendable, Sender!LebSize, Proofs!LebSize

\* The elements of a unit are its OBUs, and a unit that is sent has some.
LEMMA ElsType ==
  ASSUME NEW s \in Seq(Units), NEW u \in 1 .. Len(s)
  PROVE  /\ Els(s, u) \in Seq(Nat \ {0}) /\ Len(Els(s, u)) = Len(Obus(s, u)) /\ Len(Els(s, u)) \in Nat
         /\ \A j \in 1 .. Len(Els(s, u)) :
              /\ Els(s, u)[j] = Obus(s, u)[j].len /\ Els(s, u)[j] \in Nat \ {0}
         /\ ~Sender!Unsendable(s[u]) => Len(Els(s, u)) > 0
<1>1. s[u] \in Units
  BY ElementOfSeq
<1> DEFINE o == Obus(s, u)  e == Els(s, u)
<1>2. o = Proofs!Forwarded(s[u].obus) /\ e = Proofs!Lengths(o)
  BY SameOperators DEF Obus, Els
<1>3. /\ e \in Seq(Nat \ {0}) /\ Len(e) = Len(o) /\ Len(e) \in Nat /\ (o # << >> => e # << >>)
      /\ \A j \in 1 .. Len(o) : e[j] = o[j].len
  BY <1>1, <1>2, Assumptions, Proofs!LengthsSeq
<1>4. ~Sender!Unsendable(s[u]) => o # << >>
  BY DEF Sender!Unsendable, Obus
<1> HIDE DEF o, e
<1>5. \A j \in 1 .. Len(e) : e[j] \in Nat \ {0}
  BY <1>3, ElementOfSeq
<1>6. e # << >> => Len(e) > 0
  BY <1>3, EmptySeq
<1>7. QED
  BY <1>3, <1>4, <1>5, <1>6 DEF o, e

-----------------------------------------------------------------------------
(* The bytes of a sequence of chunks.                                        *)

CountUpTo(f, q) == f = [n \in 0 .. Len(q) |-> IF n = 0 THEN 0 ELSE f[n - 1] + q[n].len]

LEMMA CountMore ==
  ASSUME NEW q \in Seq(Sender!ChunkType), NEW c \in Sender!ChunkType, NEW f, CountUpTo(f, q)
  PROVE  LET g == [n \in 0 .. Len(q) + 1 |-> IF n = Len(q) + 1 THEN f[Len(q)] + c.len ELSE f[n]]
         IN  CountUpTo(g, Append(q, c))
<1> DEFINE t == Append(q, c)  L == Len(q)
           g == [n \in 0 .. L + 1 |-> IF n = L + 1 THEN f[L] + c.len ELSE f[n]]
           h == [n \in 0 .. L + 1 |-> IF n = 0 THEN 0 ELSE g[n - 1] + t[n].len]
<1>1. L \in Nat /\ Len(t) = L + 1 /\ t[L + 1] = c /\ \A m \in 1 .. L : t[m] = q[m]
  BY AppendProperties, LenProperties
<1> HIDE DEF t
<1>2. ASSUME NEW n \in 0 .. L + 1 PROVE g[n] = h[n]
  <2>1. CASE n = 0
    BY <1>1, <2>1 DEF CountUpTo
  <2>2. CASE n = L + 1
    <3>1. n - 1 = L /\ n # 0 /\ g[L] = f[L] /\ t[n] = c
      BY <1>1, <2>2
    <3>2. QED
      BY <2>2, <3>1
  <2>3. CASE n \in 1 .. L
    <3>1. g[n] = f[n] /\ g[n - 1] = f[n - 1] /\ t[n] = q[n] /\ n # 0
      BY <1>1, <2>3
    <3>2. f[n] = f[n - 1] + q[n].len
      <4>1. n \in 0 .. Len(q) /\ n # 0
        BY <1>1, <2>3
      <4>2. QED
        BY <4>1 DEF CountUpTo
    <3> HIDE DEF g
    <3>3. QED
      BY <3>1, <3>2
  <2>4. QED
    BY <1>1, <2>1, <2>2, <2>3
<1>3. g = h
  BY <1>2
<1>4. QED
  BY <1>1, <1>3 DEF CountUpTo, t

LEMMA CountExists ==
  \A q \in Seq(Sender!ChunkType) : \E f : CountUpTo(f, q)
<1> DEFINE P == {q \in Seq(Sender!ChunkType) : \E f : CountUpTo(f, q)}
<1>1. << >> \in P
  <2>1. Len(<< >>) = 0 /\ << >> \in Seq(Sender!ChunkType)
    BY EmptySeq
  <2>2. CountUpTo([n \in 0 .. 0 |-> 0], << >>)
    BY <2>1 DEF CountUpTo
  <2>3. QED
    BY <2>1, <2>2
<1>2. \A q \in Seq(Sender!ChunkType), c \in Sender!ChunkType : q \in P => Append(q, c) \in P
  BY CountMore, AppendProperties
<1>3. \A q \in Seq(Sender!ChunkType) : q \in P
  <2> HIDE DEF P
  <2>1. QED
    BY <1>1, <1>2, EverySequence
<1>4. QED
  BY <1>3

\* There is but one such count.
LEMMA CountUnique ==
  ASSUME NEW q \in Seq(Sender!ChunkType), NEW f, NEW g, CountUpTo(f, q), CountUpTo(g, q)
  PROVE  f[Len(q)] = g[Len(q)]
<1> DEFINE N == {n \in Nat : n <= Len(q) => f[n] = g[n]}
<1>1. Len(q) \in Nat
  BY LenProperties
<1>2. 0 \in N
  <2>1. 0 \in 0 .. Len(q)
    BY <1>1
  <2>2. QED
    BY <2>1 DEF CountUpTo
<1>3. ASSUME NEW n \in Nat, n \in N PROVE n + 1 \in N
  <2> SUFFICES ASSUME n + 1 <= Len(q) PROVE f[n + 1] = g[n + 1]
    OBVIOUS
  <2>1. n + 1 \in 0 .. Len(q) /\ n + 1 # 0 /\ (n + 1) - 1 = n
    BY <1>1
  <2>2. f[n + 1] = f[n] + q[n + 1].len /\ g[n + 1] = g[n] + q[n + 1].len
    BY <2>1 DEF CountUpTo
  <2>3. f[n] = g[n]
    BY <1>1, <1>3
  <2>4. QED
    BY <2>2, <2>3
<1>4. \A n \in Nat : n \in N
  <2> HIDE DEF N
  <2>1. QED
    BY <1>2, <1>3, EveryNumber
<1>5. QED
  BY <1>1, <1>4

LEMMA ByteCountIs ==
  ASSUME NEW q \in Seq(Sender!ChunkType)
  PROVE  \E f : CountUpTo(f, q) /\ Depay!ByteCount(q) = f[Len(q)]
<1> DEFINE f == CHOOSE f : CountUpTo(f, q)
<1>1. CountUpTo(f, q)
  BY CountExists
<1>2. Depay!ByteCount(q) = f[Len(q)]
  BY DEF Depay!ByteCount, CountUpTo
<1>3. QED
  BY <1>1, <1>2

LEMMA ByteCountMore ==
  /\ Depay!ByteCount(<< >>) = 0
  /\ \A q \in Seq(Sender!ChunkType), c \in Sender!ChunkType :
       Depay!ByteCount(Append(q, c)) = Depay!ByteCount(q) + c.len
<1>1. Depay!ByteCount(<< >>) = 0
  <2>1. Len(<< >>) = 0 /\ << >> \in Seq(Sender!ChunkType)
    BY EmptySeq
  <2>2. PICK f : CountUpTo(f, << >>) /\ Depay!ByteCount(<< >>) = f[Len(<< >>)]
    BY <2>1, ByteCountIs
  <2>3. QED
    BY <2>1, <2>2 DEF CountUpTo
<1>2. ASSUME NEW q \in Seq(Sender!ChunkType), NEW c \in Sender!ChunkType
      PROVE  Depay!ByteCount(Append(q, c)) = Depay!ByteCount(q) + c.len
  <2> DEFINE t == Append(q, c)
  <2>1. t \in Seq(Sender!ChunkType) /\ Len(t) = Len(q) + 1 /\ Len(q) \in Nat
    BY AppendProperties, LenProperties
  <2>2. PICK f : CountUpTo(f, q) /\ Depay!ByteCount(q) = f[Len(q)]
    BY ByteCountIs
  <2>3. PICK g : CountUpTo(g, t) /\ Depay!ByteCount(t) = g[Len(t)]
    BY <2>1, ByteCountIs
  <2> DEFINE h == [n \in 0 .. Len(q) + 1 |-> IF n = Len(q) + 1 THEN f[Len(q)] + c.len ELSE f[n]]
  <2>4. CountUpTo(h, t)
    BY <2>2, CountMore
  <2>5. h[Len(q) + 1] = f[Len(q)] + c.len
    BY <2>1
  <2> HIDE DEF h, t
  <2>6. g[Len(t)] = h[Len(t)]
    BY <2>1, <2>3, <2>4, CountUnique
  <2>7. QED
    BY <2>1, <2>2, <2>3, <2>5, <2>6 DEF t
<1>3. QED
  BY <1>1, <1>2

-----------------------------------------------------------------------------
(* The size of a rebuilt unit.                                               *)

Rebuilt(f, o, m) ==
  f = [n \in 0 .. m |->
         IF n = 0 THEN Depay!DelimiterSize
         ELSE f[n - 1] + o[n].len + Depay!LebLength(o[n].len - Depay!HeaderSize)]

LEMMA RebuiltExists ==
  ASSUME NEW o
  PROVE  \A m \in Nat : \E f : Rebuilt(f, o, m)
<1> DEFINE N == {m \in Nat : \E f : Rebuilt(f, o, m)}
<1>1. 0 \in N
  <2>1. Rebuilt([n \in 0 .. 0 |-> Depay!DelimiterSize], o, 0)
    BY DEF Rebuilt
  <2>2. QED
    BY <2>1
<1>2. ASSUME NEW m \in Nat, m \in N PROVE m + 1 \in N
  <2>1. PICK f : Rebuilt(f, o, m)
    BY <1>2
  <2> DEFINE more == o[m + 1].len + Depay!LebLength(o[m + 1].len - Depay!HeaderSize)
             g == [n \in 0 .. m + 1 |->
                     IF n = m + 1
                     THEN f[m] + o[m + 1].len + Depay!LebLength(o[m + 1].len - Depay!HeaderSize)
                     ELSE f[n]]
             h == [n \in 0 .. m + 1 |->
                     IF n = 0 THEN Depay!DelimiterSize
                     ELSE g[n - 1] + o[n].len + Depay!LebLength(o[n].len - Depay!HeaderSize)]
  <2>2. ASSUME NEW n \in 0 .. m + 1 PROVE g[n] = h[n]
    <3>1. CASE n = 0
      BY <2>1, <3>1 DEF Rebuilt
    <3>2. CASE n = m + 1
      <4>1. n - 1 = m /\ n # 0 /\ g[m] = f[m]
        BY <3>2
      <4>2. QED
        BY <3>2, <4>1
    <3>3. CASE n \in 1 .. m
      <4>1. g[n] = f[n] /\ g[n - 1] = f[n - 1] /\ n # 0 /\ n \in 0 .. m
        BY <3>3
      <4>2. f[n] = f[n - 1] + o[n].len + Depay!LebLength(o[n].len - Depay!HeaderSize)
        BY <2>1, <4>1 DEF Rebuilt
      <4> HIDE DEF g
      <4>3. QED
        BY <4>1, <4>2
    <3>4. QED
      BY <3>1, <3>2, <3>3
  <2>3. g = h
    BY <2>2
  <2>4. Rebuilt(g, o, m + 1)
    BY <2>3 DEF Rebuilt
  <2>5. QED
    BY <2>4
<1>3. \A m \in Nat : m \in N
  <2> HIDE DEF N
  <2>1. QED
    BY <1>1, <1>2, EveryNumber
<1>4. QED
  BY <1>3

LEMMA RebuiltSteps ==
  ASSUME NEW o, Len(o) \in Nat, \A j \in 1 .. Len(o) : o[j].len \in Nat \ {0}
  PROVE  /\ RebuiltSize(o)[0] = Depay!DelimiterSize
         /\ \A n \in 1 .. Len(o) :
              /\ RebuiltSize(o)[n - 1] \in Nat /\ RebuiltSize(o)[n - 1] >= Depay!DelimiterSize
              /\ RebuiltSize(o)[n] = RebuiltSize(o)[n - 1] + o[n].len
                                       + Depay!LebLength(o[n].len - Depay!HeaderSize)
              /\ RebuiltSize(o)[n] \in Nat /\ RebuiltSize(o)[n] > Depay!DelimiterSize
<1> DEFINE f == CHOOSE f : Rebuilt(f, o, Len(o))
           N == {n \in Nat : n <= Len(o) =>
                   f[n] \in Nat /\ f[n] >= 2 /\ (n > 0 => f[n] > 2)}
<1>1. Rebuilt(f, o, Len(o))
  BY RebuiltExists
<1>2. RebuiltSize(o) = f
  BY DEF RebuiltSize, Rebuilt
<1> HIDE DEF f
<1>3. f[0] = 2
  BY <1>1 DEF Rebuilt, Depay!DelimiterSize
<1>4. ASSUME NEW n \in 1 .. Len(o)
      PROVE  f[n] = f[n - 1] + o[n].len + Depay!LebLength(o[n].len - Depay!HeaderSize)
  <2>1. n \in 0 .. Len(o) /\ n # 0
    OBVIOUS
  <2>2. QED
    BY <1>1, <2>1 DEF Rebuilt
<1>5. 0 \in N
  BY <1>3
<1>6. ASSUME NEW n \in Nat, n \in N PROVE n + 1 \in N
  <2> SUFFICES ASSUME n + 1 <= Len(o) PROVE f[n + 1] \in Nat /\ f[n + 1] > 2
    OBVIOUS
  <2>1. n + 1 \in 1 .. Len(o) /\ (n + 1) - 1 = n
    OBVIOUS
  <2>2. f[n + 1] = f[n] + o[n + 1].len + Depay!LebLength(o[n + 1].len - Depay!HeaderSize)
    BY <1>4, <2>1
  <2>3. o[n + 1].len \in Nat \ {0}
    BY <2>1
  <2>4. Depay!LebLength(o[n + 1].len - Depay!HeaderSize) \in {1, 2, 3}
    BY DEF Depay!LebLength
  <2>5. f[n] \in Nat /\ f[n] >= 2
    BY <1>6
  <2>6. QED
    BY <2>2, <2>3, <2>4, <2>5
<1>7. \A n \in Nat : n \in N
  <2> HIDE DEF N
  <2>1. QED
    BY <1>5, <1>6, EveryNumber
<1>8. ASSUME NEW n \in 1 .. Len(o)
      PROVE  f[n - 1] \in Nat /\ f[n - 1] >= 2 /\ f[n] \in Nat /\ f[n] > 2
  <2>1. n \in Nat /\ n - 1 \in Nat /\ n <= Len(o) /\ n - 1 <= Len(o) /\ n > 0
    OBVIOUS
  <2>2. n \in N /\ n - 1 \in N
    BY <1>7, <2>1
  <2>3. QED
    BY <2>1, <2>2
<1>9. QED
  BY <1>2, <1>3, <1>4, <1>8 DEF Depay!DelimiterSize

-----------------------------------------------------------------------------
(* The element loop.                                                         *)

Read(f, acc, p, m) ==
  f = [n \in 0 .. m |-> IF n = 0 THEN acc ELSE Depay!Element(f[n - 1], p, n)]

LEMMA ReadExists ==
  ASSUME NEW acc, NEW p
  PROVE  \A m \in Nat : \E f : Read(f, acc, p, m)
<1> DEFINE N == {m \in Nat : \E f : Read(f, acc, p, m)}
<1>1. 0 \in N
  <2>1. Read([n \in 0 .. 0 |-> acc], acc, p, 0)
    BY DEF Read
  <2>2. QED
    BY <2>1
<1>2. ASSUME NEW m \in Nat, m \in N PROVE m + 1 \in N
  <2>1. PICK f : Read(f, acc, p, m)
    BY <1>2
  <2> DEFINE g == [n \in 0 .. m + 1 |->
                     IF n = m + 1 THEN Depay!Element(f[m], p, m + 1) ELSE f[n]]
             h == [n \in 0 .. m + 1 |-> IF n = 0 THEN acc ELSE Depay!Element(g[n - 1], p, n)]
  <2>2. ASSUME NEW n \in 0 .. m + 1 PROVE g[n] = h[n]
    <3>1. CASE n = 0
      BY <2>1, <3>1 DEF Read
    <3>2. CASE n = m + 1
      <4>1. n - 1 = m /\ n # 0 /\ g[m] = f[m]
        BY <3>2
      <4>2. QED
        BY <3>2, <4>1
    <3>3. CASE n \in 1 .. m
      <4>1. g[n] = f[n] /\ g[n - 1] = f[n - 1] /\ n # 0 /\ n \in 0 .. m
        BY <3>3
      <4>2. f[n] = Depay!Element(f[n - 1], p, n)
        BY <2>1, <4>1 DEF Read
      <4> HIDE DEF g
      <4>3. QED
        BY <4>1, <4>2
    <3>4. QED
      BY <3>1, <3>2, <3>3
  <2>3. g = h
    BY <2>2
  <2>4. Read(g, acc, p, m + 1)
    BY <2>3 DEF Read
  <2>5. QED
    BY <2>4
<1>3. \A m \in Nat : m \in N
  <2> HIDE DEF N
  <2>1. QED
    BY <1>1, <1>2, EveryNumber
<1>4. QED
  BY <1>3

LEMMA ReadSteps ==
  ASSUME NEW acc, NEW p, Len(p.elems) \in Nat
  PROVE  \E f : /\ Depay!ReadElements(acc, p) = f[Len(p.elems)] /\ f[0] = acc
                /\ \A n \in 1 .. Len(p.elems) : f[n] = Depay!Element(f[n - 1], p, n)
<1> DEFINE f == CHOOSE f : Read(f, acc, p, Len(p.elems))
<1>1. Read(f, acc, p, Len(p.elems))
  BY ReadExists
<1>2. Depay!ReadElements(acc, p) = f[Len(p.elems)]
  BY DEF Depay!ReadElements, Read
<1> HIDE DEF f
<1>3. f[0] = acc
  BY <1>1 DEF Read
<1>4. ASSUME NEW n \in 1 .. Len(p.elems) PROVE f[n] = Depay!Element(f[n - 1], p, n)
  <2>1. n \in 0 .. Len(p.elems) /\ n # 0
    OBVIOUS
  <2>2. QED
    BY <1>1, <2>1 DEF Read
<1>5. QED
  BY <1>2, <1>3, <1>4

-----------------------------------------------------------------------------
(* A stream that grows keeps what is known of the units it had.              *)

Extends(s, r) ==
  /\ s \in Seq(Units) /\ r \in Seq(Units) /\ Len(s) \in Nat /\ Len(r) \in Nat /\ Len(s) <= Len(r)
  /\ \A u \in 1 .. Len(s) : r[u] = s[u]

LEMMA SameUnits ==
  ASSUME NEW s, NEW r, Extends(s, r)
  PROVE  \A u \in 1 .. Len(s) :
           /\ u \in 1 .. Len(r) /\ Obus(r, u) = Obus(s, u) /\ Els(r, u) = Els(s, u)
           /\ Starts(r, u) = Starts(s, u) /\ Sender!Unsendable(r[u]) = Sender!Unsendable(s[u])
  BY DEF Extends, Obus, Els, Starts

LEMMA SameChunks ==
  ASSUME NEW s, NEW r, Extends(s, r), NEW c, GoodChunk(s, c)
  PROVE  /\ GoodChunk(r, c) /\ Ends(r, c) = Ends(s, c) /\ Final(r, c) = Final(s, c)
         /\ \A u \in 1 .. Len(s) : \A e, f : Follows(s, c, u, e, f) => Follows(r, c, u, e, f)
<1>1. c.unit \in 1 .. Len(s)
  BY DEF GoodChunk
<1>2. GoodChunk(r, c) /\ Ends(r, c) = Ends(s, c) /\ Final(r, c) = Final(s, c)
  BY <1>1, SameUnits DEF GoodChunk, Ends, Final
<1>3. ASSUME NEW u \in 1 .. Len(s), Silent(s, c.unit + 1, u - 1)
      PROVE  Silent(r, c.unit + 1, u - 1)
  <2> SUFFICES ASSUME NEW v \in c.unit + 1 .. u - 1 PROVE Sender!Unsendable(r[v])
    BY DEF Silent
  <2>1. v \in 1 .. Len(s)
    BY <1>1
  <2>2. Sender!Unsendable(s[v])
    BY <1>3 DEF Silent
  <2>3. QED
    BY <2>1, <2>2, SameUnits
<1>4. QED
  BY <1>2, <1>3 DEF Follows

LEMMA SamePackets ==
  ASSUME NEW s, NEW r, Extends(s, r)
  PROVE  /\ \A q : Elems(s, q) => Elems(r, q)
         /\ \A p : MediaOK(s, p) => MediaOK(r, p)
<1>1. ASSUME NEW q, Elems(s, q) PROVE Elems(r, q)
  <2>1. ASSUME NEW j \in 1 .. Len(q)
        PROVE  GoodChunk(r, q[j]) /\ (j < Len(q) => Ends(r, q[j]))
    BY <1>1, SameChunks DEF Elems
  <2>2. QED
    BY <1>1, <2>1 DEF Elems
<1>2. ASSUME NEW p, MediaOK(s, p) PROVE MediaOK(r, p)
  <2> DEFINE q == p.elems
  <2>1. Elems(s, q)
    BY <1>2 DEF MediaOK
  <2>2. Len(q) \in 1 .. Len(q) /\ 1 \in 1 .. Len(q)
    BY <2>1, EmptySeq, LenProperties DEF Elems
  <2>3. GoodChunk(s, LastChunk(q)) /\ GoodChunk(s, q[1])
    BY <2>1, <2>2 DEF Elems, LastChunk
  <2>4. Ends(r, LastChunk(q)) = Ends(s, LastChunk(q)) /\ Final(r, LastChunk(q)) = Final(s, LastChunk(q))
    BY <2>3, SameChunks
  <2>5. Starts(r, q[1].unit) = Starts(s, q[1].unit)
    BY <2>3, SameUnits DEF GoodChunk
  <2>6. Elems(r, q)
    BY <1>1, <2>1
  <2>7. QED
    BY <1>2, <2>4, <2>5, <2>6 DEF MediaOK
<1>3. QED
  BY <1>1, <1>2

\* The first and the last chunk of a packet.
LEMMA PacketEnds ==
  ASSUME NEW s, NEW q, Elems(s, q)
  PROVE  /\ Len(q) \in Nat \ {0} /\ GoodChunk(s, q[1]) /\ GoodChunk(s, LastChunk(q))
         /\ LastChunk(q).unit = q[1].unit
         /\ LastChunk(q).element = q[1].element + Len(q) - 1
         /\ q[1].unit \in 1 .. Len(s) /\ LastChunk(q) = q[Len(q)]
<1>1. Len(q) \in Nat \ {0}
  BY EmptySeq, LenProperties DEF Elems
<1>2. Len(q) \in 1 .. Len(q) /\ 1 \in 1 .. Len(q)
  BY <1>1
<1>3. QED
  BY <1>1, <1>2 DEF Elems, LastChunk, GoodChunk

LEMMA SameWire ==
  ASSUME NEW s, NEW r, Extends(s, r), NEW w, WireOK(s, w)
  PROVE  WireOK(r, w)
<1>1. ASSUME NEW k \in 1 .. Len(w), Media(w, k)
      PROVE  /\ MediaOK(r, w[k]) /\ GoodChunk(s, LastChunk(w[k].elems))
             /\ UnitOf(w[k]) \in 1 .. Len(s)
  <2>1. MediaOK(s, w[k])
    BY <1>1 DEF WireOK
  <2>2. Elems(s, w[k].elems)
    BY <2>1 DEF MediaOK
  <2>3. QED
    BY <2>1, <2>2, SamePackets, PacketEnds DEF UnitOf
<1>2. ASSUME NEW k \in 1 .. Len(w), NEW l \in 1 .. Len(w), Media(w, k), Media(w, l), k < l,
             NoMediaIn(w, k + 1, l - 1)
      PROVE  Follows(r, LastChunk(w[k].elems), UnitOf(w[l]), w[l].elems[1].element,
                     w[l].elems[1].from)
  <2>1. Follows(s, LastChunk(w[k].elems), UnitOf(w[l]), w[l].elems[1].element,
                w[l].elems[1].from)
    BY <1>2 DEF WireOK
  <2>2. QED
    BY <1>1, <1>2, <2>1, SameChunks
<1>3. QED
  BY <1>1, <1>2 DEF WireOK

LEMMA SameDelivered ==
  ASSUME NEW s, NEW r, Extends(s, r), NEW d, DeliveredOK(s, d)
  PROVE  /\ DeliveredOK(r, d)
         /\ \A u \in 1 .. Len(s) : Wanted(s, d, u) => Wanted(r, d, u)
<1>1. Len(d) \in Nat /\ (d # << >> => Len(d) > 0)
  BY EmptySeq, LenProperties DEF DeliveredOK
<1>2. ASSUME NEW k \in 1 .. Len(d)
      PROVE  UnitIn(d[k]) \in 1 .. Len(s) /\ Whole(r, d[k])
  <2>1. Whole(s, d[k])
    BY DEF DeliveredOK
  <2>2. UnitIn(d[k]) \in 1 .. Len(s)
    BY <2>1 DEF Whole, UnitIn
  <2>3. UnitIn(d[k]) \in 1 .. Len(r) /\ Els(r, UnitIn(d[k])) = Els(s, UnitIn(d[k]))
    BY <2>2, SameUnits
  <2>4. QED
    BY <2>1, <2>2, <2>3 DEF Whole, UnitIn
<1>3. ASSUME NEW u \in 1 .. Len(s), NEW v \in 1 .. Len(s), MayFollow(s, u, v)
      PROVE  MayFollow(r, u, v)
  <2>1. Starts(r, v) = Starts(s, v)
    BY SameUnits
  <2>2. ASSUME Silent(s, u + 1, v - 1) PROVE Silent(r, u + 1, v - 1)
    <3> SUFFICES ASSUME NEW x \in u + 1 .. v - 1 PROVE Sender!Unsendable(r[x])
      BY DEF Silent
    <3>1. x \in 1 .. Len(s) /\ Sender!Unsendable(s[x])
      BY <2>2 DEF Silent
    <3>2. QED
      BY <3>1, SameUnits
  <2>3. QED
    BY <1>3, <2>1, <2>2 DEF MayFollow
<1>4. d # << >> => Starts(r, UnitIn(d[1]))
  BY <1>1, <1>2, SameUnits DEF DeliveredOK
<1>5. ASSUME NEW k \in 1 .. Len(d) - 1 PROVE MayFollow(r, UnitIn(d[k]), UnitIn(d[k + 1]))
  <2>1. MayFollow(s, UnitIn(d[k]), UnitIn(d[k + 1])) /\ k \in 1 .. Len(d) /\ k + 1 \in 1 .. Len(d)
    BY <1>1 DEF DeliveredOK
  <2>2. QED
    BY <1>2, <1>3, <2>1
<1>6. ASSUME NEW u \in 1 .. Len(s), Wanted(s, d, u) PROVE Wanted(r, d, u)
  <2>1. CASE d = << >>
    BY <1>6, <2>1, SameUnits DEF Wanted
  <2>2. CASE d # << >>
    <3>1. LastChunk(d) = d[Len(d)] /\ Len(d) \in 1 .. Len(d)
      BY <1>1, <2>2 DEF LastChunk
    <3>2. QED
      BY <1>2, <1>3, <1>6, <2>2, <3>1 DEF Wanted
  <2>3. QED
    BY <2>1, <2>2
<1>7. QED
  BY <1>2, <1>4, <1>5, <1>6 DEF DeliveredOK

LEMMA SameBehind ==
  ASSUME NEW s, NEW r, Extends(s, r), NEW c, GoodChunk(s, c), NEW acc, Behind(s, acc, c)
  PROVE  Behind(r, acc, c)
<1>1. c.unit \in 1 .. Len(s) /\ Ends(r, c) = Ends(s, c)
  BY SameChunks DEF GoodChunk
<1>2. Els(r, c.unit) = Els(s, c.unit) /\ Obus(r, c.unit) = Obus(s, c.unit)
  BY <1>1, SameUnits
<1>3. QED
  BY <1>1, <1>2 DEF Behind, At

-----------------------------------------------------------------------------
(* The element loop puts units together.                                     *)

AccType == [closed : Seq(Seq(Sender!ChunkType)), tuLen : Nat, obu : Seq(Sender!ChunkType),
            ok : BOOLEAN]

LEMMA PartMore ==
  ASSUME NEW q, NEW u, NEW e, NEW f \in Nat, Part(q, u, e, f),
         NEW c \in Sender!ChunkType, c.unit = u, c.element = e, c.from = f
  PROVE  Part(Append(q, c), u, e, f + c.len) /\ Append(q, c) # << >>
<1> DEFINE t == Append(q, c)  L == Len(q)
<1>1. /\ q \in Seq(Sender!ChunkType) /\ t \in Seq(Sender!ChunkType) /\ L \in Nat /\ Len(t) = L + 1
      /\ t[L + 1] = c /\ \A m \in 1 .. L : t[m] = q[m]
  BY AppendProperties, LenProperties DEF Part
<1>2. t # << >>
  BY <1>1, EmptySeq
<1>3. Depay!ByteCount(t) = f + c.len
  BY <1>1, ByteCountMore DEF Part
<1>4. c.len \in Nat \ {0}
  BY DEF Sender!ChunkType
<1>5. L = 0 <=> q = << >>
  BY <1>1, EmptySeq
<1> HIDE DEF t
<1>6. ASSUME NEW k \in 1 .. Len(t)
      PROVE  /\ t[k].unit = u /\ t[k].element = e
             /\ k = 1 => t[k].from = 0
             /\ t[k].from + t[k].len = IF k = Len(t) THEN f + c.len ELSE t[k + 1].from
  <2>1. CASE k = L + 1
    <3>1. k = 1 => f = 0
      BY <1>1, <1>5, <2>1 DEF Part
    <3>2. QED
      BY <1>1, <2>1, <3>1
  <2>2. CASE k = L /\ k \in 1 .. L
    <3>1. /\ q[k].unit = u /\ q[k].element = e /\ (k = 1 => q[k].from = 0)
          /\ q[k].from + q[k].len = f
      BY <2>2 DEF Part
    <3>2. t[k] = q[k] /\ t[k + 1] = c /\ k # Len(t)
      BY <1>1, <2>2
    <3>3. QED
      BY <3>1, <3>2
  <2>3. CASE k \in 1 .. L - 1
    <3>1. /\ q[k].unit = u /\ q[k].element = e /\ (k = 1 => q[k].from = 0)
          /\ q[k].from + q[k].len = q[k + 1].from
      BY <1>1, <2>3 DEF Part
    <3>2. t[k] = q[k] /\ t[k + 1] = q[k + 1] /\ k # Len(t)
      BY <1>1, <2>3
    <3>3. QED
      BY <3>1, <3>2
  <2>4. QED
    BY <1>1, <2>1, <2>2, <2>3
<1>7. f + c.len # 0
  BY <1>4
<1>8. QED
  BY <1>1, <1>2, <1>3, <1>6, <1>7 DEF Part, t

LEMMA ElementStep ==
  ASSUME NEW s \in Seq(Units), NEW p, Elems(s, p.elems), p.y <=> ~Ends(s, LastChunk(p.elems)),
         NEW j \in 1 .. Len(p.elems), NEW acc \in AccType, acc.ok,
         At(s, acc, p.elems[j].unit, p.elems[j].element, p.elems[j].from)
  PROVE  LET b == Depay!Element(acc, p, j)
         IN  b \in AccType /\ (b.ok => Behind(s, b, p.elems[j]))
<1> DEFINE c == p.elems[j]  b == Depay!Element(acc, p, j)  added == Depay!AddChunk(acc, c)
           more == [acc EXCEPT !.obu = Append(acc.obu, c)]
           els == Els(s, c.unit)
<1>1. c \in Sender!ChunkType /\ GoodChunk(s, c) /\ Len(p.elems) \in Nat
  BY LenProperties DEF Elems, GoodChunk
<1>2. /\ c.unit \in 1 .. Len(s) /\ c.element \in 1 .. Len(els) /\ c.from \in Nat /\ c.len \in Nat \ {0}
      /\ c.element \in Nat \ {0}
  BY <1>1 DEF GoodChunk, Sender!ChunkType
<1>3. /\ Len(els) = Len(Obus(s, c.unit)) /\ Len(els) \in Nat
      /\ \A n \in 1 .. Len(els) : els[n] = Obus(s, c.unit)[n].len /\ els[n] \in Nat \ {0}
  BY <1>2, ElsType
<1>4. Part(acc.obu, c.unit, c.element, c.from) /\ acc.tuLen = RebuiltSize(Obus(s, c.unit))[c.element - 1]
  BY DEF At
<1>5. Part(Append(acc.obu, c), c.unit, c.element, c.from + c.len) /\ Append(acc.obu, c) # << >>
  BY <1>1, <1>2, <1>4, PartMore
<1>6. Append(acc.obu, c) \in Seq(Sender!ChunkType)
  BY <1>5 DEF Part
<1> HIDE DEF c
<1>7. /\ more \in AccType /\ more.ok /\ more.obu = Append(acc.obu, c) /\ more.closed = acc.closed
      /\ more.tuLen = acc.tuLen
  BY <1>6 DEF AccType
<1>8. [acc EXCEPT !.ok = FALSE] \in AccType /\ ~[acc EXCEPT !.ok = FALSE].ok
  BY DEF AccType
<1> HIDE DEF more
<1>9. CASE ~added.ok
  <2>1. b = [acc EXCEPT !.ok = FALSE]
    BY <1>9 DEF Depay!Element, c
  <2>2. QED
    BY <1>8, <2>1
<1>10. CASE added = more
  <2>1. CASE j < Len(p.elems) \/ ~p.y
    <3>1. b = Depay!CloseObu(more)
      BY <1>7, <1>10, <2>1 DEF Depay!Element, c
    <3>2. Ends(s, c)
      BY <2>1, <1>1 DEF Elems, LastChunk, c
    <3>3. c.from + c.len = els[c.element]
      BY <3>2 DEF Ends
    <3> DEFINE len == Depay!ByteCount(more.obu)  lenSize == Depay!LebLength(len - Depay!HeaderSize)
               done == [closed |-> Append(more.closed, more.obu),
                        tuLen |-> more.tuLen + len + lenSize, obu |-> << >>, ok |-> TRUE]
    <3>4. len = els[c.element] /\ len # 0
      BY <1>2, <1>3, <1>5, <1>7, <3>3 DEF Part
    <3>5. b = IF more.tuLen + len + lenSize > MaxUnitSize THEN [more EXCEPT !.ok = FALSE] ELSE done
      BY <3>1, <3>4 DEF Depay!CloseObu
    <3>6. [more EXCEPT !.ok = FALSE] \in AccType /\ ~[more EXCEPT !.ok = FALSE].ok
      BY <1>7 DEF AccType
    <3>7. lenSize \in Nat
      BY DEF Depay!LebLength
    <3>8. more.closed \in Seq(Seq(Sender!ChunkType)) /\ more.obu \in Seq(Sender!ChunkType) /\ more.tuLen \in Nat
          /\ Len(more.closed) = c.element - 1
      BY <1>7 DEF AccType, At, c
    <3>9. /\ done.closed \in Seq(Seq(Sender!ChunkType)) /\ Len(done.closed) = c.element
          /\ done.closed[c.element] = more.obu
          /\ \A n \in 1 .. c.element - 1 : done.closed[n] = acc.closed[n]
      <4> DEFINE cl == more.closed  t == Append(cl, more.obu)
      <4>1. t \in Seq(Seq(Sender!ChunkType)) /\ Len(t) = Len(cl) + 1 /\ t[Len(cl) + 1] = more.obu
            /\ \A n \in 1 .. Len(cl) : t[n] = cl[n]
        BY <3>8, AppendProperties
      <4>2. done.closed = t
        OBVIOUS
      <4>3. Len(cl) = c.element - 1 /\ Len(cl) + 1 = c.element /\ cl = acc.closed
        BY <1>2, <1>7, <3>8
      <4> HIDE DEF t, done, cl
      <4>4. QED
        BY <4>1, <4>2, <4>3
    <3>10. done \in AccType
      <4>1. len \in Nat /\ more.tuLen \in Nat /\ lenSize \in Nat
        BY <1>2, <1>3, <3>4, <3>7, <3>8
      <4>2. << >> \in Seq(Sender!ChunkType) /\ done.closed \in Seq(Seq(Sender!ChunkType))
        BY <3>9, EmptySeq
      <4> HIDE DEF len, lenSize
      <4>3. QED
        BY <4>1, <4>2 DEF AccType
    <3>11. done.tuLen = RebuiltSize(Obus(s, c.unit))[c.element]
      <4>1. RebuiltSize(Obus(s, c.unit))[c.element] =
              RebuiltSize(Obus(s, c.unit))[c.element - 1] + els[c.element]
                + Depay!LebLength(els[c.element] - Depay!HeaderSize)
        <5> DEFINE o == Obus(s, c.unit)
        <5>1. Len(o) \in Nat /\ c.element \in 1 .. Len(o) /\ o[c.element].len = els[c.element]
          BY <1>2, <1>3
        <5>2. \A n \in 1 .. Len(o) : o[n].len \in Nat \ {0}
          BY <1>3
        <5> HIDE DEF o
        <5>3. RebuiltSize(o)[c.element] =
                RebuiltSize(o)[c.element - 1] + o[c.element].len
                  + Depay!LebLength(o[c.element].len - Depay!HeaderSize)
          BY <5>1, <5>2, RebuiltSteps
        <5>4. QED
          BY <5>1, <5>3 DEF o
      <4>2. QED
        BY <1>4, <1>7, <3>4, <4>1
    <3>12. Part(done.obu, c.unit, c.element + 1, 0)
      <4>1. done.obu = << >> /\ Len(<< >>) = 0 /\ << >> \in Seq(Sender!ChunkType)
        BY EmptySeq
      <4>2. Depay!ByteCount(<< >>) = 0
        BY ByteCountMore
      <4> HIDE DEF done
      <4>3. QED
        BY <4>1, <4>2 DEF Part
    <3>13. ASSUME NEW n \in 1 .. Len(done.closed)
           PROVE  Part(done.closed[n], c.unit, n, els[n])
      <4>1. CASE n = c.element
        BY <1>5, <1>7, <3>3, <3>9, <4>1
      <4>2. CASE n # c.element
        <5>1. n \in 1 .. c.element - 1
          BY <1>2, <3>9, <4>2
        <5>2. Part(acc.closed[n], c.unit, n, els[n])
          BY <5>1 DEF At, c
        <5>3. QED
          BY <3>9, <5>1, <5>2
      <4>3. QED
        BY <4>1, <4>2
    <3> HIDE DEF done
    <3>14. Behind(s, done, c)
      <4>1. (c.element + 1) - 1 = c.element
        BY <1>2
      <4>2. QED
        BY <3>2, <3>9, <3>11, <3>12, <3>13, <4>1 DEF Behind, At
    <3>15. QED
      BY <3>5, <3>6, <3>10, <3>14 DEF c
  <2>2. CASE ~(j < Len(p.elems) \/ ~p.y)
    <3>1. b = more
      BY <1>7, <1>10, <2>2 DEF Depay!Element, c
    <3>2. ~Ends(s, c)
      BY <1>1, <2>2 DEF LastChunk, c
    <3> HIDE DEF b, more
    <3>3. Behind(s, b, c)
      BY <1>4, <1>5, <1>7, <3>1, <3>2 DEF Behind, At, c
    <3>4. QED
      BY <1>7, <3>1, <3>3 DEF b, c
  <2>3. QED
    BY <2>1, <2>2
<1>11. added = more \/ added = [acc EXCEPT !.ok = FALSE]
  BY DEF Depay!AddChunk, more
<1>12. QED
  BY <1>8, <1>9, <1>10, <1>11

\* A unit that fits the receiver's buffer never runs out of room.
Fits(s, u) == RebuiltSize(Obus(s, u))[Len(Obus(s, u))] <= MaxUnitSize

LEMMA RebuiltGrows ==
  ASSUME NEW o, Len(o) \in Nat, \A j \in 1 .. Len(o) : o[j].len \in Nat \ {0}, NEW n \in 1 .. Len(o)
  PROVE  RebuiltSize(o)[n] <= RebuiltSize(o)[Len(o)]
<1> DEFINE R == RebuiltSize(o)  N == {m \in Nat : m \in n .. Len(o) => R[n] <= R[m]}
<1>1. \A m \in 1 .. Len(o) : R[m - 1] \in Nat /\ R[m] \in Nat /\ R[m - 1] <= R[m]
  <2> TAKE m \in 1 .. Len(o)
  <2>1. /\ R[m - 1] \in Nat /\ R[m] \in Nat /\ o[m].len \in Nat
        /\ R[m] = R[m - 1] + o[m].len + Depay!LebLength(o[m].len - Depay!HeaderSize)
    BY RebuiltSteps
  <2>2. Depay!LebLength(o[m].len - Depay!HeaderSize) \in Nat
    BY DEF Depay!LebLength
  <2> HIDE DEF R
  <2>3. QED
    BY <2>1, <2>2
<1> HIDE DEF R
<1>2. 0 \in N
  OBVIOUS
<1>3. ASSUME NEW m \in Nat, m \in N PROVE m + 1 \in N
  <2> SUFFICES ASSUME m + 1 \in n .. Len(o) PROVE R[n] <= R[m + 1]
    OBVIOUS
  <2>1. CASE m + 1 = n
    BY <1>1, <2>1
  <2>2. CASE m + 1 # n
    <3>1. m \in n .. Len(o) /\ m + 1 \in 1 .. Len(o) /\ (m + 1) - 1 = m
      BY <2>2
    <3>2. R[n] <= R[m] /\ R[m] <= R[m + 1] /\ R[m] \in Nat /\ R[m + 1] \in Nat /\ R[n] \in Nat
      BY <1>1, <1>3, <3>1
    <3>3. QED
      BY <3>2
  <2>3. QED
    BY <2>1, <2>2
<1>4. \A m \in Nat : m \in N
  <2> HIDE DEF N
  <2>1. QED
    BY <1>2, <1>3, EveryNumber
<1>5. Len(o) \in N /\ Len(o) \in n .. Len(o)
  BY <1>4
<1>6. QED
  BY <1>5 DEF R

LEMMA RoomLeft ==
  ASSUME NEW t \in Nat, NEW f \in Nat, NEW len \in Nat, NEW e \in Nat, NEW b \in Nat, NEW r \in Nat,
         NEW w \in Nat, f + len <= e, r = t + e + b, r <= w, w <= MaxUnitSize
  PROVE  ~(t + f + len > MaxUnitSize) /\ ~(t + e + b > MaxUnitSize)
<1>1. MaxUnitSize \in Nat
  BY StreamAssumption
<1>2. QED
  BY <1>1

LEMMA ElementFits ==
  ASSUME NEW s \in Seq(Units), NEW p, Elems(s, p.elems), p.y <=> ~Ends(s, LastChunk(p.elems)),
         NEW j \in 1 .. Len(p.elems), NEW acc \in AccType, acc.ok,
         At(s, acc, p.elems[j].unit, p.elems[j].element, p.elems[j].from),
         Fits(s, p.elems[j].unit)
  PROVE  Depay!Element(acc, p, j).ok
<1> DEFINE c == p.elems[j]  added == Depay!AddChunk(acc, c)  o == Obus(s, c.unit)
           more == [acc EXCEPT !.obu = Append(acc.obu, c)]  R == RebuiltSize(o)
           els == Els(s, c.unit)  leb == Depay!LebLength(els[c.element] - Depay!HeaderSize)
<1>1. c \in Sender!ChunkType /\ GoodChunk(s, c) /\ Len(p.elems) \in Nat
  BY LenProperties DEF Elems, GoodChunk
<1>2. /\ c.unit \in 1 .. Len(s) /\ c.element \in 1 .. Len(els) /\ c.from \in Nat /\ c.len \in Nat
      /\ c.element \in Nat \ {0} /\ c.from + c.len <= els[c.element]
  BY <1>1 DEF GoodChunk, Sender!ChunkType
<1>3. /\ Len(els) = Len(o) /\ Len(els) \in Nat
      /\ \A n \in 1 .. Len(els) : els[n] = o[n].len /\ els[n] \in Nat \ {0}
  BY <1>2, ElsType
<1>4. /\ Part(acc.obu, c.unit, c.element, c.from) /\ acc.tuLen = R[c.element - 1]
      /\ Depay!ByteCount(acc.obu) = c.from
  BY DEF At, Part
<1>5. Part(Append(acc.obu, c), c.unit, c.element, c.from + c.len)
  BY <1>1, <1>2, <1>4, PartMore
<1> HIDE DEF c, els, R
<1>6. /\ R[c.element - 1] \in Nat /\ R[c.element] \in Nat /\ R[Len(o)] \in Nat
      /\ R[c.element] = R[c.element - 1] + els[c.element] + leb /\ R[c.element] <= R[Len(o)]
      /\ R[Len(o)] <= MaxUnitSize
  <2>1. Len(o) \in Nat /\ c.element \in 1 .. Len(o) /\ Len(o) \in 1 .. Len(o) /\ o[c.element].len = els[c.element]
        /\ \A n \in 1 .. Len(o) : o[n].len \in Nat \ {0}
    BY <1>2, <1>3
  <2>2. RebuiltSize(o)[Len(o)] <= MaxUnitSize
    BY DEF Fits, c
  <2> HIDE DEF o
  <2>3. /\ R[c.element - 1] \in Nat /\ R[c.element] \in Nat
        /\ R[c.element] = R[c.element - 1] + els[c.element] + leb
    BY <2>1, RebuiltSteps DEF R
  <2>4. R[Len(o)] \in Nat
    BY <2>1, RebuiltSteps DEF R
  <2>5. R[c.element] <= R[Len(o)]
    BY <2>1, RebuiltGrows DEF R
  <2>6. QED
    BY <2>2, <2>3, <2>4, <2>5 DEF R
<1>7. leb \in Nat /\ els[c.element] \in Nat
  BY <1>2, <1>3 DEF Depay!LebLength
<1> HIDE DEF o, leb
<1>8. /\ ~(acc.tuLen + c.from + c.len > MaxUnitSize)
      /\ ~(acc.tuLen + els[c.element] + leb > MaxUnitSize)
  BY <1>2, <1>4, <1>6, <1>7, RoomLeft
<1>9. added = more /\ more.ok /\ more.obu = Append(acc.obu, c) /\ more.tuLen = acc.tuLen
  BY <1>4, <1>8 DEF Depay!AddChunk, AccType
<1>10. CASE j < Len(p.elems) \/ ~p.y
  <2>1. Depay!Element(acc, p, j) = Depay!CloseObu(more)
    BY <1>9, <1>10 DEF Depay!Element, c
  <2>2. c.from + c.len = els[c.element]
    BY <1>1, <1>10 DEF Elems, LastChunk, Ends, c, els
  <2>3. Depay!ByteCount(more.obu) = els[c.element]
    BY <1>5, <1>9, <2>2 DEF Part
  <2> HIDE DEF more, added
  <2>4. Depay!CloseObu(more).ok
    BY <1>8, <1>9, <2>3 DEF Depay!CloseObu, leb
  <2>5. QED
    BY <2>1, <2>4
<1>11. CASE ~(j < Len(p.elems) \/ ~p.y)
  BY <1>9, <1>11 DEF Depay!Element, c
<1>12. QED
  BY <1>10, <1>11

LEMMA LoopStep ==
  ASSUME NEW s \in Seq(Units), NEW p, Elems(s, p.elems), p.y <=> ~Ends(s, LastChunk(p.elems)),
         NEW acc \in AccType, acc.ok,
         At(s, acc, p.elems[1].unit, p.elems[1].element, p.elems[1].from)
  PROVE  LET b == Depay!ReadElements(acc, p)
         IN  /\ b \in AccType /\ (b.ok => Behind(s, b, LastChunk(p.elems)))
             /\ Fits(s, p.elems[1].unit) => b.ok
<1> DEFINE q == p.elems  L == Len(q)
<1>1. L \in Nat \ {0} /\ LastChunk(q) = q[L]
  BY PacketEnds
<1>2. PICK f : /\ Depay!ReadElements(acc, p) = f[L] /\ f[0] = acc
               /\ \A n \in 1 .. L : f[n] = Depay!Element(f[n - 1], p, n)
  BY <1>1, ReadSteps
<1> DEFINE room == Fits(s, q[1].unit)
           N == {n \in Nat : n \in 1 .. L => /\ f[n] \in AccType
                                            /\ (f[n].ok => Behind(s, f[n], q[n]))
                                            /\ (room => f[n].ok)}
<1>3. 0 \in N
  OBVIOUS
<1>4. ASSUME NEW n \in Nat, n \in N PROVE n + 1 \in N
  <2> SUFFICES ASSUME n + 1 \in 1 .. L
               PROVE  /\ f[n + 1] \in AccType /\ (f[n + 1].ok => Behind(s, f[n + 1], q[n + 1]))
                      /\ room => f[n + 1].ok
    OBVIOUS
  <2> HIDE DEF room
  <2>0. room => Fits(s, q[n + 1].unit)
    BY DEF room, Elems
  <2>1. f[n + 1] = Depay!Element(f[n], p, n + 1)
    <3>1. (n + 1) - 1 = n
      OBVIOUS
    <3>2. QED
      BY <1>2, <3>1
  <2>2. CASE n = 0
    <3>1. f[n] = acc /\ n + 1 = 1
      BY <1>2, <2>2
    <3>2. QED
      BY <2>0, <2>1, <3>1, ElementStep, ElementFits
  <2>3. CASE n # 0 /\ f[n].ok
    <3>1. n \in 1 .. L /\ n < L
      BY <1>1, <2>3
    <3>2. f[n] \in AccType /\ Behind(s, f[n], q[n])
      BY <1>4, <2>3, <3>1
    <3>3. /\ Ends(s, q[n]) /\ q[n + 1].unit = q[n].unit /\ q[n + 1].element = q[n].element + 1
          /\ q[n + 1].from = 0
      <4>1. /\ q[n].unit = q[1].unit /\ q[n].element = q[1].element + n - 1 /\ Ends(s, q[n])
            /\ GoodChunk(s, q[1])
        BY <1>1, <3>1 DEF Elems
      <4>2. /\ q[n + 1].unit = q[1].unit /\ q[n + 1].element = q[1].element + (n + 1) - 1
            /\ (n + 1 > 1 => q[n + 1].from = 0)
        BY DEF Elems
      <4>3. q[1].element \in Nat
        BY <4>1 DEF GoodChunk, Sender!ChunkType
      <4>4. n + 1 > 1 /\ q[1].element + (n + 1) - 1 = (q[1].element + n - 1) + 1
        BY <2>3, <4>3
      <4>5. q[n + 1].from = 0 /\ q[n + 1].unit = q[n].unit
        BY <4>1, <4>2, <4>4
      <4>6. q[n + 1].element = q[n].element + 1
        BY <4>1, <4>2, <4>4
      <4>7. QED
        BY <4>1, <4>5, <4>6
    <3>4. At(s, f[n], q[n + 1].unit, q[n + 1].element, q[n + 1].from)
      BY <3>2, <3>3 DEF Behind
    <3>5. QED
      BY <2>0, <2>1, <2>3, <3>2, <3>4, ElementStep, ElementFits
  <2>4. CASE n # 0 /\ ~f[n].ok
    <3>1. f[n] \in AccType /\ ~room
      BY <1>1, <1>4, <2>4
    <3>2. f[n + 1] = [f[n] EXCEPT !.ok = FALSE]
      BY <2>1, <2>4 DEF Depay!Element
    <3>3. QED
      BY <3>1, <3>2 DEF AccType
  <2>5. QED
    BY <2>2, <2>3, <2>4
<1>5. \A n \in Nat : n \in N
  <2> HIDE DEF N
  <2>1. QED
    BY <1>3, <1>4, EveryNumber
<1>6. L \in N /\ L \in 1 .. L
  BY <1>1, <1>5
<1>7. QED
  BY <1>1, <1>2, <1>6

-----------------------------------------------------------------------------
(* What the sender does.                                                     *)

LEMMA WireGrows ==
  ASSUME NEW w \in Seq(AnyPacket), NEW p \in AnyPacket
  PROVE  LET v == Append(w, p)
         IN  /\ v \in Seq(AnyPacket) /\ Len(w) \in Nat /\ Len(v) = Len(w) + 1 /\ v[Len(v)] = p
             /\ \A k \in 1 .. Len(w) : k \in 1 .. Len(v) /\ v[k] = w[k] /\ Media(v, k) = Media(w, k)
             /\ Media(v, Len(v)) = (p.kind = "media")
             /\ \A from, to \in Int : to <= Len(w) => NoMediaIn(v, from, to) = NoMediaIn(w, from, to)
<1> DEFINE v == Append(w, p)
<1>1. /\ v \in Seq(AnyPacket) /\ Len(w) \in Nat /\ Len(v) = Len(w) + 1 /\ v[Len(w) + 1] = p
      /\ \A k \in 1 .. Len(w) : v[k] = w[k]
  BY AppendProperties, LenProperties
<1> HIDE DEF v
<1>2. \A k \in Int : k <= Len(w) => Media(v, k) = Media(w, k)
  BY <1>1 DEF Media
<1>3. ASSUME NEW from \in Int, NEW to \in Int, to <= Len(w)
      PROVE  NoMediaIn(v, from, to) = NoMediaIn(w, from, to)
  <2>1. \A x \in from .. to : x \in Int /\ x <= Len(w)
    BY <1>1, <1>3
  <2>2. \A x \in from .. to : Media(v, x) = Media(w, x)
    BY <1>2, <2>1
  <2>3. QED
    BY <2>2 DEF NoMediaIn
<1>4. Media(v, Len(v)) = (p.kind = "media")
  BY <1>1 DEF Media
<1>5. QED
  BY <1>1, <1>2, <1>3, <1>4 DEF v

\* One packet more.
LEMMA WireMore ==
  ASSUME NEW s, NEW w, WireOK(s, w), NEW p \in AnyPacket, p.seq = FirstSeq + Len(w),
         p.kind = "media" =>
           /\ MediaOK(s, p)
           /\ \A k \in 1 .. Len(w) : Media(w, k) =>
                /\ UnitOf(w[k]) <= UnitOf(p)
                /\ w[k].marker => UnitOf(w[k]) < UnitOf(p)
                /\ NoMediaIn(w, k + 1, Len(w)) =>
                     Follows(s, LastChunk(w[k].elems), UnitOf(p), p.elems[1].element, p.elems[1].from)
  PROVE  WireOK(s, Append(w, p))
<1> DEFINE v == Append(w, p)
<1>1. w \in Seq(AnyPacket)
  BY DEF WireOK
<1>2. /\ v \in Seq(AnyPacket) /\ Len(w) \in Nat /\ Len(v) = Len(w) + 1 /\ v[Len(v)] = p
      /\ \A k \in 1 .. Len(w) : k \in 1 .. Len(v) /\ v[k] = w[k] /\ Media(v, k) = Media(w, k)
      /\ Media(v, Len(v)) = (p.kind = "media")
      /\ \A from, to \in Int : to <= Len(w) => NoMediaIn(v, from, to) = NoMediaIn(w, from, to)
  BY <1>1, WireGrows
<1> HIDE DEF v
<1>3. FirstSeq \in Nat
  BY StreamAssumption DEF Sender!PacketizerAssumption
<1>4. ASSUME NEW k \in 1 .. Len(v)
      PROVE  v[k].seq = FirstSeq + k - 1 /\ (Media(v, k) => MediaOK(s, v[k]))
  <2>1. CASE k \in 1 .. Len(w)
    BY <1>2, <2>1 DEF WireOK
  <2>2. CASE k = Len(v)
    <3>1. v[k] = p /\ FirstSeq + k - 1 = FirstSeq + Len(w)
      BY <1>2, <1>3, <2>2
    <3>2. Media(v, k) => p.kind = "media"
      BY <1>2, <2>2
    <3>3. QED
      BY <3>1, <3>2
  <2>3. QED
    BY <1>2, <2>1, <2>2
<1>5. ASSUME NEW k \in 1 .. Len(v), NEW l \in 1 .. Len(v), Media(v, k), Media(v, l), k < l
      PROVE  /\ UnitOf(v[k]) <= UnitOf(v[l])
             /\ v[k].marker => UnitOf(v[k]) < UnitOf(v[l])
             /\ NoMediaIn(v, k + 1, l - 1) =>
                  Follows(s, LastChunk(v[k].elems), UnitOf(v[l]), v[l].elems[1].element,
                          v[l].elems[1].from)
  <2>1. k \in 1 .. Len(w) /\ Media(w, k) /\ v[k] = w[k]
    BY <1>2, <1>5
  <2>2. CASE l \in 1 .. Len(w)
    <3>1. Media(w, l) /\ v[l] = w[l] /\ NoMediaIn(v, k + 1, l - 1) = NoMediaIn(w, k + 1, l - 1)
      BY <1>2, <1>5, <2>2
    <3>2. QED
      BY <1>5, <2>1, <2>2, <3>1 DEF WireOK
  <2>3. CASE l = Len(v)
    <3>1. p.kind = "media" /\ v[l] = p /\ l - 1 = Len(w)
      <4>1. Media(v, Len(v))
        BY <1>5, <2>3
      <4>2. p.kind = "media"
        BY <1>2, <4>1
      <4>3. v[l] = p /\ l - 1 = Len(w)
        BY <1>2, <2>3
      <4>4. QED
        BY <4>2, <4>3
    <3>2. NoMediaIn(v, k + 1, l - 1) = NoMediaIn(w, k + 1, l - 1)
      BY <1>2, <3>1
    <3>3. QED
      BY <2>1, <3>1, <3>2
  <2>4. QED
    BY <1>2, <2>2, <2>3
<1>6. QED
  BY <1>2, <1>4, <1>5 DEF WireOK, v

LEMMA AppendExtends ==
  ASSUME NEW s \in Seq(Units), NEW t \in Units
  PROVE  Extends(s, Append(s, t)) /\ Len(Append(s, t)) = Len(s) + 1 /\ Append(s, t)[Len(s) + 1] = t
<1>1. /\ Append(s, t) \in Seq(Units) /\ Len(Append(s, t)) = Len(s) + 1 /\ Append(s, t)[Len(s) + 1] = t
      /\ Len(s) \in Nat /\ \A u \in 1 .. Len(s) : Append(s, t)[u] = s[u]
  BY AppendProperties, LenProperties
<1>2. QED
  BY <1>1 DEF Extends

\* The units on the wire are units of the stream.
LEMMA WireUnits ==
  ASSUME NEW s, NEW w, WireOK(s, w), NEW k \in 1 .. Len(w), Media(w, k)
  PROVE  /\ MediaOK(s, w[k]) /\ Elems(s, w[k].elems) /\ UnitOf(w[k]) \in 1 .. Len(s)
         /\ GoodChunk(s, LastChunk(w[k].elems)) /\ LastChunk(w[k].elems).unit = UnitOf(w[k])
         /\ w[k].marker <=> Final(s, LastChunk(w[k].elems))
         /\ w[k].y <=> ~Ends(s, LastChunk(w[k].elems))
<1>1. MediaOK(s, w[k])
  BY DEF WireOK
<1>2. Elems(s, w[k].elems)
  BY <1>1 DEF MediaOK
<1>3. QED
  BY <1>1, <1>2, PacketEnds DEF UnitOf, MediaOK

LEMMA EncodeNothingStep ==
  ASSUME WireOK(stream, wire), SenderOK, NEW t \in Units, Sender!EncodeNothing(t)
  PROVE  WireOK(stream', wire') /\ SenderOK' /\ Extends(stream, stream') /\ wire' = wire
<1>1. /\ stream' = Append(stream, t) /\ elements = << >> /\ Sender!Unsendable(t)
      /\ UNCHANGED <<elements, index, offset, z, firstPacket, isNew, payload, payloadLen, y, wire>>
      /\ stream \in Seq(Units)
  BY DEF Sender!EncodeNothing, Sender!Accept, Sender!Encoding, SenderOK
<1>2. Extends(stream, stream') /\ Len(stream') = Len(stream) + 1 /\ stream'[Len(stream) + 1] = t
  BY <1>1, AppendExtends
<1>3. WireOK(stream', wire')
  BY <1>1, <1>2, SameWire
<1>4. SenderIdle
  BY <1>1 DEF SenderOK, Sender!Encoding
<1>5. ASSUME NEW k \in 1 .. Len(wire), Media(wire, k), NoMediaIn(wire, k + 1, Len(wire))
      PROVE  /\ Final(stream', LastChunk(wire[k].elems))
             /\ Silent(stream', UnitOf(wire[k]) + 1, Len(stream'))
  <2>1. GoodChunk(stream, LastChunk(wire[k].elems)) /\ UnitOf(wire[k]) \in 1 .. Len(stream)
    BY <1>5, WireUnits
  <2>2. Final(stream, LastChunk(wire[k].elems)) /\ Silent(stream, UnitOf(wire[k]) + 1, Len(stream))
    BY <1>4, <1>5 DEF SenderIdle
  <2>3. ASSUME NEW v \in UnitOf(wire[k]) + 1 .. Len(stream') PROVE Sender!Unsendable(stream'[v])
    <3>1. CASE v = Len(stream) + 1
      BY <1>1, <1>2, <3>1
    <3>2. CASE v # Len(stream) + 1
      <4>1. v \in UnitOf(wire[k]) + 1 .. Len(stream) /\ v \in 1 .. Len(stream)
        BY <1>2, <2>1, <3>2
      <4>2. QED
        BY <1>2, <2>2, <4>1, SameUnits DEF Silent
    <3>3. QED
      BY <3>1, <3>2
  <2>4. QED
    BY <1>2, <2>1, <2>2, <2>3, SameChunks DEF Silent
<1>6. SenderIdle'
  BY <1>1, <1>4, <1>5 DEF SenderIdle
<1>7. SenderOK'
  BY <1>1, <1>2, <1>6 DEF SenderOK, Sender!Encoding, Extends
<1>8. QED
  BY <1>1, <1>2, <1>3, <1>7

LEMMA EncodeBeginStep ==
  ASSUME WireOK(stream, wire), SenderOK, NEW t \in Units, Sender!EncodeBegin(t)
  PROVE  WireOK(stream', wire') /\ SenderOK' /\ Extends(stream, stream') /\ wire' = wire
<1> DEFINE n == Len(stream) + 1
<1>1. /\ stream' = Append(stream, t) /\ elements = << >> /\ ~Sender!Unsendable(t)
      /\ elements' = Sender!Lengths(Sender!Forwarded(t.obus))
      /\ isNew' = Sender!HasSequenceHeader(Sender!Forwarded(t.obus))
      /\ index' = 1 /\ offset' = 0 /\ z' = FALSE /\ firstPacket' = TRUE
      /\ payload' = << >> /\ payloadLen' = 0 /\ y' = FALSE /\ wire' = wire
      /\ stream \in Seq(Units)
  BY DEF Sender!EncodeBegin, Sender!Accept, Sender!Encoding, SenderOK
<1>2. Extends(stream, stream') /\ Len(stream') = n /\ stream'[n] = t
  BY <1>1, AppendExtends
<1>3. WireOK(stream', wire')
  BY <1>1, <1>2, SameWire
<1>4. SenderIdle
  BY <1>1 DEF SenderOK, Sender!Encoding
<1>5. n \in Nat \ {0} /\ Len(stream) \in Nat /\ stream' \in Seq(Units) /\ n \in 1 .. Len(stream')
  BY <1>2 DEF Extends
<1>6. elements' = Els(stream', n) /\ isNew' = Starts(stream', n)
  BY <1>1, <1>2 DEF Els, Obus, Starts
<1>7. Len(elements') > 0 /\ Len(elements') \in Nat /\ elements'[1] \in Nat \ {0} /\ elements' # << >>
  <2>1. /\ Len(elements') \in Nat /\ Len(elements') > 0
        /\ \A j \in 1 .. Len(elements') : elements'[j] \in Nat \ {0}
    BY <1>1, <1>2, <1>5, <1>6, ElsType
  <2>2. QED
    BY <2>1, EmptySeq
<1>8. ASSUME NEW k \in 1 .. Len(wire), Media(wire, k)
      PROVE  /\ UnitOf(wire[k]) <= n /\ UnitOf(wire[k]) < n
             /\ NoMediaIn(wire, k + 1, Len(wire)) =>
                  Follows(stream', LastChunk(wire[k].elems), n, 1, 0)
  <2> DEFINE c == LastChunk(wire[k].elems)
  <2>1. GoodChunk(stream, c) /\ c.unit = UnitOf(wire[k]) /\ UnitOf(wire[k]) \in 1 .. Len(stream)
    BY <1>8, WireUnits
  <2>2. ASSUME NoMediaIn(wire, k + 1, Len(wire)) PROVE Follows(stream', c, n, 1, 0)
    <3>1. Final(stream, c) /\ Silent(stream, c.unit + 1, Len(stream))
      BY <1>4, <1>8, <2>1, <2>2 DEF SenderIdle
    <3>2. Final(stream', c)
      BY <1>2, <2>1, <3>1, SameChunks
    <3>3. ASSUME NEW v \in c.unit + 1 .. n - 1 PROVE Sender!Unsendable(stream'[v])
      <4>1. v \in c.unit + 1 .. Len(stream) /\ v \in 1 .. Len(stream)
        BY <1>5, <2>1
      <4>2. QED
        BY <1>2, <3>1, <4>1, SameUnits DEF Silent
    <3>4. n > c.unit
      BY <1>5, <2>1
    <3> HIDE DEF c, n
    <3>5. QED
      BY <3>2, <3>3, <3>4 DEF Follows, Silent
  <2>3. QED
    BY <1>5, <2>1, <2>2
<1>9. SenderEncoding'
  <2>1. PacketEmpty'
    BY <1>1, <1>7 DEF PacketEmpty
  <2>2. StartElement' = 1 /\ StartByte' = 0
    BY <1>1 DEF StartElement, StartByte
  <2>3. stream' # << >>
    BY <1>2, <1>5, EmptySeq
  <2>4. index' \in 1 .. Len(elements') + 1 /\ (index' <= Len(elements') => offset' < elements'[index'])
        /\ (index' > Len(elements') => offset' = 0)
    BY <1>1, <1>7
  <2>5. ASSUME NEW k \in 1 .. Len(wire'), Media(wire', k)
        PROVE  /\ UnitOf(wire'[k]) <= Len(stream')
               /\ wire'[k].marker => UnitOf(wire'[k]) < Len(stream')
               /\ NoMediaIn(wire', k + 1, Len(wire')) =>
                    Follows(stream', LastChunk(wire'[k].elems), Len(stream'), StartElement', StartByte')
    BY <1>1, <1>2, <1>8, <2>2, <2>5
  <2>6. QED
    BY <1>1, <1>2, <1>6, <2>1, <2>3, <2>4, <2>5 DEF SenderEncoding
<1>10. SenderOK'
  <2>1. payload' \in Seq(Sender!ChunkType)
    BY <1>1, EmptySeq
  <2>2. isNew' \in BOOLEAN
    BY <1>1 DEF Sender!HasSequenceHeader
  <2>3. QED
    BY <1>1, <1>5, <1>7, <1>9, <2>1, <2>2 DEF SenderOK, Sender!Encoding
<1>11. QED
  BY <1>1, <1>2, <1>3, <1>10

LEMMA ElemsOne ==
  ASSUME NEW s, NEW c, GoodChunk(s, c)
  PROVE  /\ Elems(s, Append(<< >>, c)) /\ Append(<< >>, c)[1] = c
         /\ LastChunk(Append(<< >>, c)) = c /\ Append(<< >>, c) # << >>
<1> DEFINE t == Append(<< >>, c)
<1>1. c \in Sender!ChunkType
  BY DEF GoodChunk
<1>2. t \in Seq(Sender!ChunkType) /\ Len(t) = 1 /\ t[1] = c
  BY <1>1, EmptySeq, AppendProperties
<1>3. t # << >> /\ LastChunk(t) = c
  BY <1>2, EmptySeq DEF LastChunk
<1>4. c.element \in Nat
  BY <1>1 DEF Sender!ChunkType
<1> HIDE DEF t
<1>5. Elems(s, t)
  BY <1>2, <1>3, <1>4 DEF Elems
<1>6. QED
  BY <1>2, <1>3, <1>5 DEF t

LEMMA ElemsMore ==
  ASSUME NEW s, NEW q, Elems(s, q), Ends(s, LastChunk(q)), NEW c, GoodChunk(s, c),
         c.unit = q[1].unit, c.element = LastChunk(q).element + 1, c.from = 0
  PROVE  /\ Elems(s, Append(q, c)) /\ Append(q, c)[1] = q[1]
         /\ LastChunk(Append(q, c)) = c /\ Append(q, c) # << >>
<1> DEFINE t == Append(q, c)
<1>1. /\ Len(q) \in Nat \ {0} /\ GoodChunk(s, q[1])
      /\ LastChunk(q).element = q[1].element + Len(q) - 1 /\ LastChunk(q) = q[Len(q)]
  BY PacketEnds
<1>2. c \in Sender!ChunkType /\ q[1].element \in Nat
  BY <1>1 DEF GoodChunk, Sender!ChunkType
<1>3. /\ t \in Seq(Sender!ChunkType) /\ Len(t) = Len(q) + 1 /\ t[Len(q) + 1] = c
      /\ \A m \in 1 .. Len(q) : t[m] = q[m]
  BY <1>2, AppendProperties DEF Elems
<1>4. t # << >> /\ LastChunk(t) = c /\ t[1] = q[1]
  BY <1>1, <1>3, EmptySeq DEF LastChunk
<1>5. c.element = q[1].element + (Len(q) + 1) - 1
  BY <1>1, <1>2
<1> HIDE DEF t
<1>6. ASSUME NEW j \in 1 .. Len(t)
      PROVE  /\ GoodChunk(s, t[j])
             /\ t[j].unit = t[1].unit /\ t[j].element = t[1].element + j - 1
             /\ j > 1 => t[j].from = 0
             /\ j < Len(t) => Ends(s, t[j])
  <2>1. CASE j = Len(q) + 1
    BY <1>3, <1>4, <1>5, <2>1
  <2>2. CASE j = Len(q) /\ j \in 1 .. Len(q)
    BY <1>1, <1>3, <1>4, <2>2 DEF Elems
  <2>3. CASE j \in 1 .. Len(q) - 1
    BY <1>1, <1>3, <1>4, <2>3 DEF Elems
  <2>4. QED
    BY <1>1, <1>3, <2>1, <2>2, <2>3
<1>7. QED
  BY <1>3, <1>4, <1>6 DEF Elems, t

LEMMA AddElementStep ==
  ASSUME WireOK(stream, wire), SenderOK, Sender!AddElement
  PROVE  SenderOK' /\ UNCHANGED <<stream, wire>> /\ StartElement' = StartElement /\ StartByte' = StartByte
<1> DEFINE c == [unit |-> Len(stream), element |-> index, from |-> offset, len |-> Sender!Chunk]
           n == Len(stream)
<1>1. /\ SenderEncoding /\ index <= Len(elements) /\ ~y /\ Sender!Room >= 3
      /\ payload' = Append(payload, c)
      /\ payloadLen' = payloadLen + Sender!LebSize(Sender!Chunk) + Sender!Chunk
      /\ UNCHANGED <<stream, elements, z, firstPacket, isNew, wire>>
      /\ elements # << >> /\ stream \in Seq(Units)
      /\ index \in Nat /\ offset \in Nat /\ payload \in Seq(Sender!ChunkType) /\ payloadLen \in Nat
      /\ {z, y, firstPacket, isNew} \subseteq BOOLEAN
  BY DEF Sender!AddElement, Sender!Encoding, SenderOK
<1>2. IF offset + Sender!Chunk < elements[index]
      THEN y' = TRUE /\ offset' = offset + Sender!Chunk /\ index' = index
      ELSE offset' = 0 /\ index' = index + 1 /\ y' = y
  BY DEF Sender!AddElement
<1>3. n \in 1 .. Len(stream) /\ n \in Nat
  BY <1>1, EmptySeq, LenProperties DEF SenderEncoding
<1>4. /\ elements = Els(stream, n) /\ Len(elements) \in Nat
      /\ \A j \in 1 .. Len(elements) : elements[j] \in Nat \ {0}
  BY <1>1, <1>3, ElsType DEF SenderEncoding
<1>5. index \in 1 .. Len(elements) /\ offset < elements[index] /\ elements[index] \in Nat \ {0}
  BY <1>1, <1>4 DEF SenderEncoding
<1>6. Sender!Remaining \in Nat \ {0} /\ Sender!Remaining = elements[index] - offset
  BY <1>1, <1>5 DEF Sender!Remaining
<1>7. /\ Sender!Chunk \in 1 .. Sender!Remaining /\ Sender!LebSize(Sender!Chunk) \in Nat
  <2>1. PayloadSize \in Nat
    BY StreamAssumption DEF Sender!PacketizerAssumption
  <2>2. Sender!Room \in Nat /\ Sender!Room <= PayloadSize
    BY <1>1, <2>1 DEF Sender!Room
  <2>3. Sender!Chunk = IF Proofs!LebSize(Sender!Remaining) + Sender!Remaining > Sender!Room
                       THEN Sender!Room - 2 ELSE Sender!Remaining
    BY SameOperators DEF Sender!Chunk
  <2>4. QED
    BY <1>1, <1>6, <2>2, <2>3, Assumptions, SameOperators, Proofs!ChunkFits
<1>8. Sender!Chunk \in Nat \ {0} /\ offset + Sender!Chunk <= elements[index]
  <2> DEFINE r == Sender!Remaining
             k == Sender!Chunk
             e == elements[index]
  <2>1. r \in Nat /\ e \in Nat /\ offset \in Nat /\ r = e - offset /\ k \in 1 .. r
    BY <1>1, <1>5, <1>6, <1>7
  <2> HIDE DEF r, k, e
  <2>2. k \in Nat \ {0} /\ offset + k <= e
    BY <2>1
  <2>3. QED
    BY <2>2 DEF k, e
<1>9. c \in Sender!ChunkType /\ GoodChunk(stream, c)
  <2>1. c \in Sender!ChunkType
    BY <1>3, <1>5, <1>8, <1>1 DEF Sender!ChunkType
  <2>2. ~Sender!Unsendable(stream[n])
    BY <1>1 DEF SenderEncoding
  <2>3. QED
    BY <1>3, <1>4, <1>5, <1>8, <2>1, <2>2 DEF GoodChunk
<1>10. c.unit = n /\ c.element = index /\ c.from = offset /\ c.len = Sender!Chunk
  OBVIOUS
<1> HIDE DEF c
<1>11. Ends(stream, c) <=> offset + Sender!Chunk = elements[index]
  BY <1>4, <1>10 DEF Ends
<1>12. /\ y' <=> ~Ends(stream, c)
       /\ y' => index' = c.element /\ offset' = c.from + c.len
       /\ ~y' => index' = c.element + 1 /\ offset' = 0
       /\ y' \in BOOLEAN
  <2>1. CASE offset + Sender!Chunk < elements[index]
    <3>1. ~Ends(stream, c)
      BY <1>1, <1>5, <1>8, <1>11, <2>1
    <3>2. y' = TRUE /\ offset' = offset + Sender!Chunk /\ index' = index
      BY <1>2, <2>1
    <3>3. QED
      BY <1>10, <3>1, <3>2
  <2>2. CASE ~(offset + Sender!Chunk < elements[index])
    <3>1. Ends(stream, c)
      <4>1. offset + Sender!Chunk = elements[index]
        BY <1>1, <1>5, <1>8, <2>2
      <4>2. QED
        BY <1>11, <4>1
    <3>2. y' = FALSE /\ offset' = 0 /\ index' = index + 1
      BY <1>1, <1>2, <2>2
    <3>3. QED
      BY <1>10, <3>1, <3>2
  <2>3. QED
    BY <2>1, <2>2
<1>13. /\ Elems(stream, payload') /\ LastChunk(payload') = c /\ payload' # << >>
       /\ payload'[1].unit = n
       /\ z <=> payload'[1].from > 0
       /\ firstPacket => FirstOfUnit(payload'[1])
       /\ payload'[1].element = StartElement /\ payload'[1].from = StartByte
  <2>1. CASE PacketEmpty
    <3>1. payload' = Append(<< >>, c) /\ payload = << >>
      BY <1>1, <2>1 DEF PacketEmpty, c
    <3>2. Elems(stream, payload') /\ LastChunk(payload') = c /\ payload' # << >> /\ payload'[1] = c
      BY <1>9, <3>1, ElemsOne
    <3>3. QED
      BY <1>10, <2>1, <3>1, <3>2 DEF PacketEmpty, FirstOfUnit, StartElement, StartByte
  <2>2. CASE PacketBegun
    <3>1. /\ payload' = Append(payload, c) /\ Elems(stream, payload) /\ payload[1].unit = n
          /\ Ends(stream, LastChunk(payload)) /\ c.element = LastChunk(payload).element + 1
          /\ c.from = 0
      BY <1>1, <1>10, <2>2 DEF PacketBegun, c
    <3>2. /\ Elems(stream, payload') /\ LastChunk(payload') = c /\ payload' # << >>
          /\ payload'[1] = payload[1]
      BY <1>9, <1>10, <3>1, ElemsMore
    <3>3. payload # << >>
      BY <3>1 DEF Elems
    <3>4. QED
      BY <2>2, <3>1, <3>2, <3>3 DEF PacketBegun, StartElement, StartByte
  <2>3. QED
    BY <1>1, <2>1, <2>2 DEF SenderEncoding
<1>14. PacketBegun'
  BY <1>1, <1>12, <1>13 DEF PacketBegun
<1>15. StartElement' = StartElement /\ StartByte' = StartByte
  BY <1>13 DEF StartElement, StartByte
<1>16. /\ index' \in 1 .. Len(elements) + 1 /\ offset' \in Nat /\ index' \in Nat
       /\ index' <= Len(elements) => offset' < elements[index']
       /\ index' > Len(elements) => offset' = 0
  BY <1>1, <1>2, <1>4, <1>5, <1>8
<1>17. SenderEncoding'
  BY <1>1, <1>14, <1>15, <1>16 DEF SenderEncoding
<1>18. payload' \in Seq(Sender!ChunkType)
  BY <1>13 DEF Elems
<1>19. payloadLen' \in Nat
  BY <1>1, <1>7, <1>8
<1>20. QED
  BY <1>1, <1>12, <1>15, <1>16, <1>17, <1>18, <1>19 DEF SenderOK, Sender!Encoding

LEMMA SendPacketStep ==
  ASSUME WireOK(stream, wire), SenderOK, Sender!SendPacket
  PROVE  /\ WireOK(stream', wire') /\ SenderOK' /\ stream' = stream
         /\ PacketBegun /\ Sender!Packet \in AnyPacket /\ wire' = Append(wire, Sender!Packet)
<1> DEFINE p == Sender!Packet  n == Len(stream)  L == LastChunk(payload)
<1>1. /\ SenderEncoding /\ Sender!PacketFull /\ wire' = Append(wire, p)
      /\ z' = (offset > 0) /\ firstPacket' = FALSE /\ payload' = << >> /\ payloadLen' = 0 /\ y' = FALSE
      /\ elements' = (IF index > Len(elements) THEN << >> ELSE elements)
      /\ UNCHANGED <<stream, index, offset, isNew>>
      /\ elements # << >> /\ stream \in Seq(Units)
      /\ index \in Nat /\ offset \in Nat /\ payload \in Seq(Sender!ChunkType) /\ payloadLen \in Nat
      /\ {z, y, firstPacket, isNew} \subseteq BOOLEAN
  BY DEF Sender!SendPacket, Sender!Encoding, SenderOK
<1>2. n \in 1 .. Len(stream) /\ n \in Nat
  BY <1>1, EmptySeq, LenProperties DEF SenderEncoding
<1>3. elements = Els(stream, n) /\ Len(elements) \in Nat /\ index \in 1 .. Len(elements) + 1
      /\ \A j \in 1 .. Len(elements) : elements[j] \in Nat \ {0}
  BY <1>1, <1>2, ElsType DEF SenderEncoding
<1>4. PacketBegun
  <2>1. ASSUME PacketEmpty PROVE FALSE
    <3>1. PayloadSize \in Nat /\ PayloadSize >= 3
      BY StreamAssumption DEF Sender!PacketizerAssumption
    <3>2. Sender!Room >= 3
      BY <2>1, <3>1 DEF PacketEmpty, Sender!Room
    <3>3. ~Sender!PacketFull
      BY <1>1, <1>3, <2>1, <3>1, <3>2 DEF PacketEmpty, Sender!PacketFull, Sender!Room
    <3>4. QED
      BY <1>1, <3>3
  <2>2. QED
    BY <1>1, <2>1 DEF SenderEncoding
<1>5. /\ Elems(stream, payload) /\ payload[1].unit = n /\ GoodChunk(stream, L) /\ L.unit = n
      /\ L.element \in 1 .. Len(elements) /\ L.from \in Nat /\ L.len \in Nat \ {0}
      /\ L.from + L.len <= elements[L.element] /\ payload # << >>
  <2>1. Elems(stream, payload) /\ payload[1].unit = n
    BY <1>4 DEF PacketBegun
  <2>2. GoodChunk(stream, L) /\ L.unit = n
    BY <2>1, PacketEnds
  <2> HIDE DEF L
  <2>3. QED
    BY <1>3, <2>1, <2>2 DEF GoodChunk, Sender!ChunkType, Elems
<1>6. /\ p.kind = "media" /\ p.seq = FirstSeq + Len(wire) /\ p.z = z /\ p.y = y
      /\ p.n = (firstPacket /\ isNew) /\ p.marker = (index > Len(elements)) /\ p.elems = payload
  BY DEF Sender!Packet
<1>7. p \in AnyPacket
  <2>1. FirstSeq + Len(wire) \in Nat
    BY StreamAssumption, LenProperties DEF Sender!PacketizerAssumption, WireOK
  <2>2. (firstPacket /\ isNew) \in BOOLEAN /\ (index > Len(elements)) \in BOOLEAN
    BY <1>1, <1>3
  <2>3. QED
    BY <1>1, <2>1, <2>2 DEF Sender!Packet, AnyPacket
<1> HIDE DEF p
<1>8. p.y <=> ~Ends(stream, L)
  BY <1>4, <1>6 DEF PacketBegun
<1>9. p.marker <=> Final(stream, L)
  <2>1. CASE y
    <3>1. index = L.element /\ ~Ends(stream, L)
      BY <1>4, <2>1 DEF PacketBegun
    <3>2. L.element \in 1 .. Len(elements)
      BY <1>5
    <3> HIDE DEF L
    <3>3. ~(index > Len(elements))
      BY <1>3, <3>1, <3>2
    <3>4. QED
      BY <1>6, <3>1, <3>3 DEF Final
  <2>2. CASE ~y
    <3>1. index = L.element + 1 /\ Ends(stream, L)
      BY <1>4, <2>2 DEF PacketBegun
    <3>2. Final(stream, L) <=> L.element = Len(elements)
      BY <1>3, <1>5, <3>1 DEF Final
    <3> HIDE DEF L
    <3>3. index > Len(elements) <=> L.element = Len(elements)
      BY <1>3, <1>5, <3>1
    <3>4. QED
      BY <1>6, <3>2, <3>3
  <2>3. QED
    BY <2>1, <2>2
<1>10. MediaOK(stream, p)
  <2>1. p.n => FirstOfUnit(payload[1]) /\ Starts(stream, payload[1].unit)
    BY <1>1, <1>4, <1>5, <1>6 DEF PacketBegun, SenderEncoding
  <2>2. p.z <=> payload[1].from > 0
    BY <1>4, <1>6 DEF PacketBegun
  <2>3. QED
    BY <1>5, <1>6, <1>8, <1>9, <2>1, <2>2 DEF MediaOK
<1>11. UnitOf(p) = n /\ p.elems[1].element = StartElement /\ p.elems[1].from = StartByte
  BY <1>5, <1>6 DEF UnitOf, StartElement, StartByte
<1>12. WireOK(stream', wire')
  <2>1. \A k \in 1 .. Len(wire) : Media(wire, k) =>
          /\ UnitOf(wire[k]) <= UnitOf(p)
          /\ wire[k].marker => UnitOf(wire[k]) < UnitOf(p)
          /\ NoMediaIn(wire, k + 1, Len(wire)) =>
               Follows(stream, LastChunk(wire[k].elems), UnitOf(p), p.elems[1].element, p.elems[1].from)
    BY <1>1, <1>11 DEF SenderEncoding
  <2>2. WireOK(stream, Append(wire, p))
    BY <1>6, <1>7, <1>10, <2>1, WireMore
  <2>3. QED
    BY <1>1, <2>2
<1>13. /\ Len(wire) \in Nat /\ Len(wire') = Len(wire) + 1 /\ wire'[Len(wire')] = p
       /\ \A k \in 1 .. Len(wire) : wire'[k] = wire[k] /\ Media(wire', k) = Media(wire, k)
       /\ Media(wire', Len(wire'))
  <2>1. wire \in Seq(AnyPacket)
    BY DEF WireOK
  <2>2. QED
    BY <1>1, <1>6, <1>7, <2>1, WireGrows
\* no media behind packet k: it is the last
<1>14. ASSUME NEW k \in 1 .. Len(wire'), NoMediaIn(wire', k + 1, Len(wire'))
       PROVE  k = Len(wire') /\ wire'[k] = p
  BY <1>13, <1>14 DEF NoMediaIn
<1>15. {z', y', firstPacket', isNew'} \subseteq BOOLEAN /\ payload' \in Seq(Sender!ChunkType)
  <2>1. (offset > 0) \in BOOLEAN
    BY <1>1
  <2>2. QED
    BY <1>1, <2>1, EmptySeq
<1>16. CASE index > Len(elements)
  <2>1. elements' = << >> /\ Final(stream, L)
    BY <1>1, <1>6, <1>9, <1>16
  <2>2. ASSUME NEW v \in n + 1 .. Len(stream) PROVE FALSE
    BY <1>2, <2>2
  <2>3. Silent(stream, n + 1, Len(stream))
    BY <2>2 DEF Silent
  <2>4. SenderIdle'
    <3>1. ASSUME NEW k \in 1 .. Len(wire'), NoMediaIn(wire', k + 1, Len(wire'))
          PROVE  /\ Final(stream', LastChunk(wire'[k].elems))
                 /\ Silent(stream', UnitOf(wire'[k]) + 1, Len(stream'))
      <4>1. wire'[k] = p
        BY <1>14, <3>1
      <4>2. QED
        BY <1>1, <1>6, <1>11, <2>1, <2>3, <4>1
    <3>2. QED
      BY <1>1, <3>1 DEF SenderIdle
  <2>5. SenderOK'
    BY <1>1, <1>15, <2>1, <2>4 DEF SenderOK, Sender!Encoding
  <2>6. QED
    BY <1>1, <1>4, <1>7, <1>12, <2>5 DEF p
<1>17. CASE ~(index > Len(elements))
  <2>1. elements' = elements /\ ~Final(stream, L) /\ index \in 1 .. Len(elements)
    <3>1. elements' = elements
      BY <1>1, <1>17
    <3>2. ~Final(stream, L)
      BY <1>6, <1>9, <1>17
    <3>3. index \in 1 .. Len(elements)
      BY <1>3, <1>17
    <3>4. QED
      BY <3>1, <3>2, <3>3
  <2>2. PacketEmpty'
    <3>1. z' <=> offset' > 0
      BY <1>1
    <3>2. index' <= Len(elements')
      BY <1>1, <1>3, <2>1
    <3>3. QED
      BY <1>1, <3>1, <3>2 DEF PacketEmpty
  <2>3. StartElement' = index /\ StartByte' = offset
    BY <1>1 DEF StartElement, StartByte
  <2>4. Follows(stream, L, n, index, offset)
    BY <1>4, <1>5, <2>1 DEF PacketBegun, Follows
  <2>5. ASSUME NEW k \in 1 .. Len(wire'), Media(wire', k)
        PROVE  /\ UnitOf(wire'[k]) <= Len(stream')
               /\ wire'[k].marker => UnitOf(wire'[k]) < Len(stream')
               /\ NoMediaIn(wire', k + 1, Len(wire')) =>
                    Follows(stream', LastChunk(wire'[k].elems), Len(stream'), StartElement', StartByte')
    <3>1. CASE k = Len(wire')
      <4>1. wire'[k] = p
        BY <1>13, <3>1
      <4>2. UnitOf(wire'[k]) = n /\ ~wire'[k].marker
        BY <1>6, <1>11, <1>17, <4>1
      <4>3. QED
        BY <1>1, <1>2, <1>6, <2>3, <2>4, <4>1, <4>2
    <3>2. CASE k # Len(wire')
      <4>1. k \in 1 .. Len(wire) /\ wire'[k] = wire[k] /\ Media(wire, k)
        BY <1>13, <2>5, <3>2
      <4>2. ~NoMediaIn(wire', k + 1, Len(wire'))
        BY <1>14, <3>2
      <4>3. QED
        BY <1>1, <4>1, <4>2 DEF SenderEncoding
    <3>3. QED
      BY <3>1, <3>2
  <2>6. SenderEncoding'
    BY <1>1, <2>1, <2>2, <2>5 DEF SenderEncoding
  <2>7. SenderOK'
    BY <1>1, <1>15, <2>1, <2>6 DEF SenderOK, Sender!Encoding
  <2>8. QED
    BY <1>1, <1>4, <1>7, <1>12, <2>7 DEF p
<1>18. QED
  BY <1>16, <1>17

LEMMA SfuStep ==
  ASSUME WireOK(stream, wire), SenderOK, NEW kind \in {"probe", "bad"}, SfuAdds(kind)
  PROVE  /\ WireOK(stream', wire') /\ SenderOK' /\ stream' = stream
         /\ \E p \in AnyPacket : wire' = Append(wire, p)
<1> DEFINE p == [kind |-> kind, seq |-> FirstSeq + Len(wire), z |-> FALSE, y |-> FALSE,
                 n |-> FALSE, marker |-> FALSE, elems |-> << >>]
<1>1. /\ wire' = Append(wire, p)
      /\ UNCHANGED <<stream, elements, index, offset, z, firstPacket, isNew, payload, payloadLen, y>>
  BY DEF SfuAdds, reorderVars, depayVars
<1>2. wire \in Seq(AnyPacket)
  BY DEF WireOK
<1>3. p \in AnyPacket /\ p.kind # "media" /\ p.seq = FirstSeq + Len(wire)
  <2>1. FirstSeq + Len(wire) \in Nat
    BY <1>2, StreamAssumption, LenProperties DEF Sender!PacketizerAssumption
  <2>2. QED
    BY <2>1, EmptySeq DEF AnyPacket
<1> HIDE DEF p
<1>4. WireOK(stream', wire')
  BY <1>1, <1>3, WireMore
<1>5. /\ Len(wire) \in Nat /\ Len(wire') = Len(wire) + 1
      /\ \A k \in 1 .. Len(wire) : wire'[k] = wire[k] /\ Media(wire', k) = Media(wire, k)
      /\ ~Media(wire', Len(wire'))
      /\ \A from, to \in Int : to <= Len(wire) => NoMediaIn(wire', from, to) = NoMediaIn(wire, from, to)
  BY <1>1, <1>2, <1>3, WireGrows
<1>6. ASSUME NEW k \in 1 .. Len(wire'), Media(wire', k)
      PROVE  /\ k \in 1 .. Len(wire) /\ Media(wire, k) /\ wire'[k] = wire[k]
             /\ NoMediaIn(wire', k + 1, Len(wire')) => NoMediaIn(wire, k + 1, Len(wire))
  <2>1. k \in 1 .. Len(wire)
    BY <1>5, <1>6
  <2>2. NoMediaIn(wire', k + 1, Len(wire')) => NoMediaIn(wire', k + 1, Len(wire))
    BY <1>5 DEF NoMediaIn
  <2>3. QED
    BY <1>5, <1>6, <2>1, <2>2
<1>7. CASE Sender!Encoding
  <2>1. SenderEncoding /\ elements' # << >>
    BY <1>1, <1>7 DEF SenderOK, Sender!Encoding
  <2>2. PacketEmpty' \/ PacketBegun'
    BY <1>1, <2>1 DEF SenderEncoding, PacketEmpty, PacketBegun
  <2>3. StartElement' = StartElement /\ StartByte' = StartByte
    BY <1>1 DEF StartElement, StartByte
  <2>4. SenderEncoding'
    BY <1>1, <1>6, <2>1, <2>2, <2>3 DEF SenderEncoding
  <2>5. QED
    BY <1>1, <1>3, <1>4, <2>1, <2>4 DEF SenderOK, Sender!Encoding
<1>8. CASE ~Sender!Encoding
  <2>1. SenderIdle /\ elements' = << >>
    BY <1>1, <1>8 DEF SenderOK, Sender!Encoding
  <2>2. SenderIdle'
    BY <1>1, <1>6, <2>1 DEF SenderIdle
  <2>3. QED
    BY <1>1, <1>3, <1>4, <2>1, <2>2 DEF SenderOK, Sender!Encoding
<1>9. QED
  BY <1>7, <1>8

-----------------------------------------------------------------------------
(* Numbers on the wire.                                                      *)

LEMMA NumberOnWire ==
  ASSUME NEW n \in OnWire, wire \in Seq(AnyPacket)
  PROVE  /\ n \in Nat /\ Len(wire) \in Nat /\ n - FirstSeq + 1 \in 1 .. Len(wire)
         /\ PacketOf(n) = wire[n - FirstSeq + 1] /\ PacketOf(n) \in AnyPacket
         /\ \A x \in Int : FirstSeq <= x /\ x <= n => x \in OnWire
         /\ FirstSeq <= n /\ FirstSeq \in Nat
         /\ Media(wire, n - FirstSeq + 1) <=> PacketOf(n).kind = "media"
<1>1. FirstSeq \in Nat /\ Len(wire) \in Nat
  BY StreamAssumption, LenProperties DEF Sender!PacketizerAssumption
<1>2. PICK k \in 1 .. Len(wire) : n = FirstSeq + k - 1
  BY DEF OnWire, Number
<1>3. n \in Nat /\ n - FirstSeq + 1 = k /\ FirstSeq <= n
  BY <1>1, <1>2
<1>4. PacketOf(n) = wire[k] /\ wire[k] \in AnyPacket
  BY <1>3, ElementOfSeq DEF PacketOf
<1>5. ASSUME NEW x \in Int, FirstSeq <= x, x <= n PROVE x \in OnWire
  <2>1. x - FirstSeq + 1 \in 1 .. Len(wire) /\ x = FirstSeq + (x - FirstSeq + 1) - 1
    BY <1>1, <1>2, <1>5
  <2>2. QED
    BY <2>1 DEF OnWire, Number
<1>6. QED
  BY <1>1, <1>3, <1>4, <1>5 DEF Media

LEMMA OnWireGrows ==
  ASSUME wire \in Seq(AnyPacket), wire' = wire \/ \E p \in AnyPacket : wire' = Append(wire, p),
         NEW n \in OnWire
  PROVE  n \in OnWire' /\ PacketOf(n)' = PacketOf(n)
<1>1. Len(wire) \in Nat /\ Len(wire') \in Nat /\ Len(wire) <= Len(wire')
      /\ \A k \in 1 .. Len(wire) : wire'[k] = wire[k]
  <2>1. CASE wire' = wire
    BY <2>1, LenProperties
  <2>2. CASE \E p \in AnyPacket : wire' = Append(wire, p)
    BY <2>2, LenProperties, AppendProperties
  <2>3. QED
    BY <2>1, <2>2
<1>2. PICK k \in 1 .. Len(wire) : n = FirstSeq + k - 1
  BY DEF OnWire, Number
<1>3. k \in 1 .. Len(wire') /\ n - FirstSeq + 1 = k
  BY <1>1, <1>2, StreamAssumption DEF Sender!PacketizerAssumption
<1>4. n \in OnWire'
  BY <1>2, <1>3 DEF OnWire, Number
<1>5. QED
  BY <1>1, <1>3, <1>4 DEF PacketOf

\* The window when the sender or the SFU has acted.
LEMMA WindowKept ==
  ASSUME wire \in Seq(AnyPacket), wire' = wire \/ \E p \in AnyPacket : wire' = Append(wire, p),
         WindowOK, UNCHANGED <<held, pc, pkt, out>>
  PROVE  WindowOK'
<1>1. OnWire \subseteq OnWire'
  BY OnWireGrows
<1>2. held \in [Reorder!Slots -> OnWire' \cup {Reorder!NoPacket}]
  BY <1>1 DEF WindowOK
<1>3. out \in Seq(OnWire')
  <2>1. out \in Seq(OnWire) /\ Len(out) \in Nat
    BY LenProperties DEF WindowOK
  <2>2. \A k \in 1 .. Len(out) : out[k] \in OnWire'
    BY <1>1, <2>1, ElementOfSeq
  <2>3. QED
    BY <2>1, <2>2, SeqDef
<1>4. QED
  BY <1>1, <1>2, <1>3 DEF WindowOK, Reorder!Slots, Reorder!NoPacket

LEMMA ArriveStep ==
  ASSUME WindowOK, NEW n \in OnWire, Reorder!Decode(n), wire' = wire
  PROVE  WindowOK' /\ out' = out
<1>1. OnWire' = OnWire
  BY DEF OnWire, Number
<1>2. CASE Reorder!DropLate(n)
  BY <1>1, <1>2 DEF Reorder!DropLate, Reorder!vars, WindowOK, Reorder!Slots, Reorder!NoPacket
<1>3. CASE Reorder!Store(n)
  <2>1. /\ held' = [held EXCEPT ![Reorder!SlotOf(Reorder!Seq16(n))] = n]
        /\ pc' = "drain" /\ out' = out /\ pkt' = pkt
    BY <1>3 DEF Reorder!Store
  <2>2. held' \in [Reorder!Slots -> OnWire \cup {Reorder!NoPacket}]
    BY <2>1 DEF WindowOK
  <2>3. QED
    BY <1>1, <2>1, <2>2 DEF WindowOK, Reorder!Slots, Reorder!NoPacket
<1>4. CASE Reorder!Jump(n)
  BY <1>1, <1>4 DEF Reorder!Jump, WindowOK, Reorder!Slots, Reorder!NoPacket
<1>5. QED
  BY <1>2, <1>3, <1>4 DEF Reorder!Decode

\* What the loops release was on the wire.
LEMMA ReleaseStep ==
  ASSUME WindowOK, NEW s \in Reorder!Slots, held[s] # Reorder!NoPacket, Reorder!Release(s),
         wire' = wire, pc' = pc, pkt' = pkt
  PROVE  WindowOK' /\ \E n \in OnWire : out' = Append(out, n)
<1>1. OnWire' = OnWire
  BY DEF OnWire, Number
<1>2. held[s] \in OnWire /\ out' = Append(out, held[s])
      /\ held' = [held EXCEPT ![s] = Reorder!NoPacket]
  BY DEF WindowOK, Reorder!Release
<1>3. out' \in Seq(OnWire)
  BY <1>2, AppendProperties DEF WindowOK
<1>4. held' \in [Reorder!Slots -> OnWire \cup {Reorder!NoPacket}]
  BY <1>2 DEF WindowOK
<1>5. QED
  BY <1>1, <1>2, <1>3, <1>4 DEF WindowOK, Reorder!Slots, Reorder!NoPacket

LEMMA SlotIn ==
  ASSUME Proofs!TypeOK
  PROVE  /\ Reorder!FlushedSlot \in Reorder!Slots /\ Reorder!SlotOf(expect) \in Reorder!Slots
<1>1. expect \in Int /\ i \in Int /\ SeqModulus \in Nat \ {0} /\ Depth \in Nat \ {0}
  BY StreamAssumption DEF Proofs!TypeOK
<1>2. Reorder!Seq16(expect + i) \in Int
  BY <1>1, DivMod DEF Reorder!Seq16
<1>3. QED
  BY <1>1, <1>2, DivMod DEF Reorder!FlushedSlot, Reorder!SlotOf, Reorder!Slots

LEMMA LoopsStep ==
  ASSUME WindowOK, Proofs!TypeOK, wire' = wire,
         Reorder!FlushSlot \/ Reorder!FlushDone \/ Reorder!DrainSlot \/ Reorder!DrainDone
  PROVE  WindowOK' /\ (out' = out \/ \E n \in OnWire : out' = Append(out, n))
<1>1. OnWire' = OnWire
  BY DEF OnWire, Number
<1>2. CASE Reorder!FlushSlot
  <2>1. pc' = pc /\ pkt' = pkt
    BY <1>2 DEF Reorder!FlushSlot
  <2>2. CASE held[Reorder!FlushedSlot] # Reorder!NoPacket
    BY <1>2, <2>1, <2>2, SlotIn, ReleaseStep DEF Reorder!FlushSlot
  <2>3. CASE ~(held[Reorder!FlushedSlot] # Reorder!NoPacket)
    <3>1. held' = held /\ out' = out
      BY <1>2, <2>3 DEF Reorder!FlushSlot
    <3>2. QED
      BY <1>1, <2>1, <3>1 DEF WindowOK, Reorder!Slots, Reorder!NoPacket
  <2>4. QED
    BY <2>2, <2>3
<1>3. CASE Reorder!FlushDone
  <2>1. /\ held' = [held EXCEPT ![Reorder!SlotOf(Reorder!Seq16(pkt))] = pkt]
        /\ pc = "flush" /\ pc' = "drain" /\ out' = out
    BY <1>3 DEF Reorder!FlushDone
  <2>2. held' \in [Reorder!Slots -> OnWire \cup {Reorder!NoPacket}]
    BY <2>1 DEF WindowOK
  <2>3. QED
    BY <1>1, <2>1, <2>2 DEF WindowOK, Reorder!Slots, Reorder!NoPacket
<1>4. CASE Reorder!DrainSlot
  BY <1>4, SlotIn, ReleaseStep DEF Reorder!DrainSlot
<1>5. CASE Reorder!DrainDone
  BY <1>1, <1>5 DEF Reorder!DrainDone, WindowOK, Reorder!Slots, Reorder!NoPacket
<1>6. QED
  BY <1>2, <1>3, <1>4, <1>5

-----------------------------------------------------------------------------
(* The depacketizer while others act.                                        *)

LEMMA PacketIs ==
  ASSUME WireOK(stream, wire), NEW n \in OnWire, PacketOf(n).kind = "media"
  PROVE  /\ MediaOK(stream, PacketOf(n)) /\ Elems(stream, PacketOf(n).elems)
         /\ UnitOf(PacketOf(n)) \in 1 .. Len(stream)
         /\ GoodChunk(stream, LastChunk(PacketOf(n).elems))
         /\ LastChunk(PacketOf(n).elems).unit = UnitOf(PacketOf(n))
         /\ PacketOf(n).marker <=> Final(stream, LastChunk(PacketOf(n).elems))
         /\ PacketOf(n).y <=> ~Ends(stream, LastChunk(PacketOf(n).elems))
<1>1. wire \in Seq(AnyPacket)
  BY DEF WireOK
<1>2. /\ n - FirstSeq + 1 \in 1 .. Len(wire) /\ PacketOf(n) = wire[n - FirstSeq + 1]
      /\ Media(wire, n - FirstSeq + 1)
  BY <1>1, NumberOnWire
<1>3. QED
  BY <1>2, WireUnits

LEMMA DepayKept ==
  ASSUME WireOK(stream, wire), WindowOK, DepayOK, Extends(stream, stream'),
         wire' = wire \/ \E p \in AnyPacket : wire' = Append(wire, p),
         out' = out, UNCHANGED depayVars
  PROVE  DepayOK'
<1>1. wire \in Seq(AnyPacket)
  BY DEF WireOK
<1>2. \A n \in OnWire : n \in OnWire' /\ PacketOf(n)' = PacketOf(n)
  BY <1>1, OnWireGrows
<1>3. /\ closed' = closed /\ tuLen' = tuLen /\ obu' = obu /\ obuOpen' = obuOpen /\ nextSeq' = nextSeq
      /\ haveSeq' = haveSeq /\ dropping' = dropping /\ delivered' = delivered
  BY DEF depayVars
<1>4. \A k \in 1 .. Len(out) : out[k] \in OnWire
  BY ElementOfSeq DEF WindowOK
<1>5. ASSUME NEW l \in OnWire, NEW m \in OnWire, Carry(l, m) PROVE Carry(l, m)'
  <2> DEFINE c == LastChunk(PacketOf(m).elems)
  <2>1. PacketOf(m).kind = "media" /\ PacketOf(m)' = PacketOf(m)
    BY <1>2, <1>5 DEF Carry
  <2>2. GoodChunk(stream, c) /\ c.unit = UnitOf(PacketOf(m)) /\ UnitOf(PacketOf(m)) \in 1 .. Len(stream)
    BY <2>1, PacketIs
  <2>3. LastParsed(l)'
    <3>1. LastParsed(l)
      BY <1>5 DEF Carry
    <3>2. \A k \in 1 .. Len(out) : PacketOf(out[k])' = PacketOf(out[k])
      BY <1>2, <1>3, <1>4
    <3>3. PICK k \in 1 .. Len(out) :
            /\ out[k] = l /\ PacketOf(l).kind # "bad"
            /\ \A j \in k + 1 .. Len(out) : PacketOf(out[j]).kind = "bad"
      BY <3>1 DEF LastParsed
    <3>4. \A j \in k + 1 .. Len(out) : j \in 1 .. Len(out)
      BY LenProperties DEF WindowOK
    <3>5. PacketOf(l)' = PacketOf(l)
      BY <1>2
    <3>6. QED
      BY <3>2, <3>3, <3>4, <3>5 DEF LastParsed
  <2>4. \A x \in m + 1 .. l : PacketOf(x)' = PacketOf(x) /\ PacketOf(x).kind = "probe"
    <3>1. SUFFICES ASSUME NEW x \in m + 1 .. l PROVE PacketOf(x)' = PacketOf(x) /\ PacketOf(x).kind = "probe"
      OBVIOUS
    <3>2. m \in Nat /\ l \in Nat /\ FirstSeq <= m
      BY <1>1, NumberOnWire
    <3>3. x \in Int /\ FirstSeq <= x /\ x <= l
      BY <3>2, StreamAssumption DEF Sender!PacketizerAssumption
    <3>4. x \in OnWire
      BY <1>1, <3>3, NumberOnWire
    <3>5. QED
      BY <1>2, <1>5, <3>4 DEF Carry
  <2>5. Acc' = Acc
    BY <1>3 DEF Acc
  <2>6. CASE PacketOf(m).marker
    <3>1. /\ Acc = Depay!Fresh /\ ~obuOpen /\ delivered # << >>
          /\ UnitIn(LastChunk(delivered)) = UnitOf(PacketOf(m))
      BY <1>5, <2>6 DEF Carry
    <3>2. Depay!Fresh' = Depay!Fresh
      BY DEF Depay!Fresh, Depay!DelimiterSize
    <3>3. QED
      BY <1>3, <1>5, <2>1, <2>3, <2>4, <2>5, <2>6, <3>1, <3>2 DEF Carry
  <2>7. CASE ~PacketOf(m).marker
    <3>1. /\ Behind(stream, Acc, c) /\ (obuOpen <=> ~Ends(stream, c))
          /\ Wanted(stream, delivered, UnitOf(PacketOf(m)))
      BY <1>5, <2>7 DEF Carry
    <3>2. Behind(stream', Acc, c) /\ Ends(stream', c) = Ends(stream, c)
      BY <2>2, <3>1, SameBehind, SameChunks
    <3>3. Wanted(stream', delivered, UnitOf(PacketOf(m)))
      BY <2>2, <3>1, SameDelivered DEF DepayOK
    <3>4. QED
      BY <1>3, <1>5, <2>1, <2>3, <2>4, <2>5, <2>7, <3>1, <3>2, <3>3 DEF Carry
  <2>8. QED
    BY <2>6, <2>7
<1>6. DeliveredOK(stream', delivered)
  BY SameDelivered DEF DepayOK
<1>7. ASSUME delivered # << >>
      PROVE  \E n \in OnWire', k \in 1 .. Len(out) :
               /\ n <= out[k] /\ PacketOf(n)'.kind = "media" /\ PacketOf(n)'.marker
               /\ UnitOf(PacketOf(n)') = UnitIn(LastChunk(delivered))
  BY <1>2, <1>7 DEF DepayOK
<1>8. ~dropping => \E l, m \in OnWire' : Carry(l, m)'
  BY <1>2, <1>5 DEF DepayOK
<1>9. QED
  BY <1>3, <1>6, <1>7, <1>8 DEF DepayOK

-----------------------------------------------------------------------------
(* The depacketizer is given packet n.                                       *)

\* What holds of a step that releases packet n.
Given(n) ==
  /\ WireOK(stream, wire) /\ WindowOK /\ DepayOK
  /\ n \in OnWire /\ out' = Append(out, n) /\ wire' = wire /\ stream' = stream
  /\ Proofs!InOrder' /\ Tracked'

LEMMA GivenFacts ==
  ASSUME NEW n, Given(n)
  PROVE  /\ Len(out) \in Nat /\ Len(out') = Len(out) + 1 /\ out'[Len(out')] = n /\ n \in Nat
         /\ \A k \in 1 .. Len(out) : out'[k] = out[k] /\ out[k] \in OnWire /\ out[k] \in Nat /\ out[k] < n
         /\ OnWire' = OnWire /\ wire \in Seq(AnyPacket)
         /\ \A x : PacketOf(x)' = PacketOf(x)
<1>1. wire \in Seq(AnyPacket) /\ out \in Seq(OnWire) /\ n \in OnWire
  BY DEF Given, WireOK, WindowOK
<1>2. Len(out) \in Nat /\ Len(out') = Len(out) + 1 /\ out'[Len(out) + 1] = n
      /\ \A k \in 1 .. Len(out) : out'[k] = out[k] /\ out[k] \in OnWire
  BY <1>1, AppendProperties, LenProperties, ElementOfSeq DEF Given
<1>3. \A x \in OnWire : x \in Nat
  BY <1>1, NumberOnWire
<1>4. ASSUME NEW k \in 1 .. Len(out) PROVE out[k] < n
  <2>1. k \in 1 .. Len(out') /\ Len(out') \in 1 .. Len(out') /\ k < Len(out')
    BY <1>2
  <2>2. out'[k] < out'[Len(out')]
    BY <2>1 DEF Given, Proofs!InOrder
  <2>3. QED
    BY <1>2, <2>2
<1>5. OnWire' = OnWire /\ \A x : PacketOf(x)' = PacketOf(x)
  BY DEF Given, OnWire, Number, PacketOf
<1>6. QED
  BY <1>1, <1>2, <1>3, <1>4, <1>5

\* A packet that counts becomes the last one that did.
LEMMA NowLast ==
  ASSUME NEW n, Given(n), PacketOf(n).kind # "bad"
  PROVE  LastParsed(n)'
<1>1. /\ Len(out) \in Nat /\ Len(out') = Len(out) + 1 /\ out'[Len(out')] = n
      /\ PacketOf(n)' = PacketOf(n)
  BY GivenFacts
<1>2. Len(out') \in 1 .. Len(out') /\ \A j \in Len(out') + 1 .. Len(out') : FALSE
  BY <1>1
<1>3. QED
  BY <1>1, <1>2 DEF LastParsed

\* Without a gap, a packet that counts is the next one.
LEMMA NextNumber ==
  ASSUME NEW n, Given(n), PacketOf(n).kind # "bad", NEW l, LastParsed(l),
         n % SeqModulus = (l + 1) % SeqModulus
  PROVE  n = l + 1
<1>1. /\ Len(out) \in Nat /\ Len(out') = Len(out) + 1 /\ out'[Len(out')] = n /\ n \in Nat
      /\ \A k \in 1 .. Len(out) : out'[k] = out[k] /\ out[k] \in OnWire /\ out[k] \in Nat /\ out[k] < n
      /\ \A x : PacketOf(x)' = PacketOf(x)
  BY GivenFacts
<1>2. PICK k \in 1 .. Len(out) :
        /\ out[k] = l /\ PacketOf(l).kind # "bad"
        /\ \A j \in k + 1 .. Len(out) : PacketOf(out[j]).kind = "bad"
  BY DEF LastParsed
<1>3. l \in Nat /\ l < n /\ out'[k] = l /\ k \in 1 .. Len(out') /\ Len(out') \in 1 .. Len(out')
      /\ k < Len(out')
  BY <1>1, <1>2
<1>4. \A j \in k + 1 .. Len(out') - 1 : PacketOf(out[j])'.kind = "bad"
  <2> SUFFICES ASSUME NEW j \in k + 1 .. Len(out') - 1 PROVE PacketOf(out[j])'.kind = "bad"
    OBVIOUS
  <2>1. j \in k + 1 .. Len(out) /\ j \in 1 .. Len(out)
    BY <1>1, <1>2
  <2>2. out'[j] = out[j] /\ PacketOf(out[j]).kind = "bad"
    BY <1>1, <1>2, <2>1
  <2>3. PacketOf(out[j])' = PacketOf(out[j])
    BY <2>2 DEF Given, PacketOf
  <2>4. QED
    BY <2>2, <2>3
<1>5. PacketOf(out[k])' = PacketOf(l) /\ PacketOf(out[Len(out)])' = PacketOf(n)
  BY <1>1, <1>3 DEF Given, PacketOf
<1>6. n - l <= SeqModulus
  <2>1. out'[Len(out')] - out'[k] <= SeqModulus
    BY <1>2, <1>3, <1>4, <1>5 DEF Given, Tracked
  <2>2. QED
    BY <1>1, <1>3, <2>1
<1>7. SeqModulus \in Nat \ {0}
  BY StreamAssumption
<1>8. n \in Int /\ l + 1 \in Int /\ n - (l + 1) < SeqModulus /\ (l + 1) - n < SeqModulus
  BY <1>1, <1>3, <1>6, <1>7
<1>9. QED
  BY <1>7, <1>8, ModWindow

LEMMA FreshAt ==
  ASSUME NEW s \in Seq(Units), NEW u \in 1 .. Len(s)
  PROVE  At(s, Depay!Fresh, u, 1, 0) /\ Depay!Fresh \in AccType /\ Depay!Fresh.ok
<1>1. /\ Depay!Fresh.closed = << >> /\ Depay!Fresh.obu = << >> /\ Depay!Fresh.ok
      /\ Depay!Fresh.tuLen = Depay!DelimiterSize /\ Depay!Fresh \in AccType
  BY EmptySeq DEF Depay!Fresh, AccType, Depay!DelimiterSize
<1>2. Len(<< >>) = 0 /\ << >> \in Seq(Seq(Sender!ChunkType)) /\ << >> \in Seq(Sender!ChunkType)
  BY EmptySeq
<1>3. Part(<< >>, u, 1, 0)
  BY <1>2, ByteCountMore DEF Part
<1>4. RebuiltSize(Obus(s, u))[0] = Depay!DelimiterSize
  <2> DEFINE o == Obus(s, u)
  <2>1. Len(o) \in Nat /\ \A j \in 1 .. Len(o) : o[j].len \in Nat \ {0}
    BY ElsType
  <2> HIDE DEF o
  <2>2. RebuiltSize(o)[0] = Depay!DelimiterSize
    BY <2>1, RebuiltSteps
  <2>3. QED
    BY <2>2 DEF o
<1>5. QED
  BY <1>1, <1>2, <1>3, <1>4 DEF At

\* What the depacketizer holds is typed.
LEMMA AccTyped ==
  ASSUME NEW s \in Seq(Units), NEW c, GoodChunk(s, c), Behind(s, Acc, c)
  PROVE  Acc \in AccType /\ Acc.ok
<1> DEFINE e == IF Ends(s, c) THEN c.element + 1 ELSE c.element  o == Obus(s, c.unit)
<1>1. /\ Acc.closed \in Seq(Seq(Sender!ChunkType)) /\ Acc.obu \in Seq(Sender!ChunkType)
      /\ Acc.tuLen = RebuiltSize(o)[e - 1]
  BY DEF Behind, At, Part
<1>2. /\ c.unit \in 1 .. Len(s) /\ c.element \in 1 .. Len(Els(s, c.unit))
  BY DEF GoodChunk
<1>3. Len(o) \in Nat /\ Len(o) = Len(Els(s, c.unit)) /\ \A j \in 1 .. Len(o) : o[j].len \in Nat \ {0}
  BY <1>2, ElsType
<1> HIDE DEF o
<1>4. c.element \in 1 .. Len(o) /\ (e - 1 = c.element \/ e - 1 = c.element - 1)
  BY <1>2, <1>3
<1>5. RebuiltSize(o)[c.element] \in Nat /\ RebuiltSize(o)[c.element - 1] \in Nat
  BY <1>3, <1>4, RebuiltSteps
<1> HIDE DEF e
<1>6. Acc.tuLen \in Nat
  BY <1>1, <1>4, <1>5
<1>7. QED
  BY <1>1, <1>6 DEF Acc, AccType

\* The unit of a later packet is a later one when the earlier packet has the marker.
LEMMA LaterUnit ==
  ASSUME WireOK(stream, wire), NEW m \in OnWire, NEW n \in OnWire, m < n,
         PacketOf(m).kind = "media", PacketOf(n).kind = "media", PacketOf(m).marker
  PROVE  UnitOf(PacketOf(m)) < UnitOf(PacketOf(n))
<1>1. wire \in Seq(AnyPacket)
  BY DEF WireOK
<1> DEFINE j == m - FirstSeq + 1  k == n - FirstSeq + 1
<1>2. /\ j \in 1 .. Len(wire) /\ k \in 1 .. Len(wire) /\ m \in Nat /\ n \in Nat /\ FirstSeq \in Nat
      /\ PacketOf(m) = wire[j] /\ PacketOf(n) = wire[k] /\ Media(wire, j) /\ Media(wire, k)
  BY <1>1, NumberOnWire
<1>3. j < k
  BY <1>2
<1> HIDE DEF j, k
<1>4. QED
  BY <1>2, <1>3 DEF WireOK

LEMMA NumberBetween ==
  ASSUME NEW f \in Int, NEW m \in Int, NEW l \in Int, NEW x \in Int,
         m - f + 2 <= x, x <= l + 1 - f
  PROVE  /\ x + f - 1 \in m + 1 .. l /\ (x + f - 1) - f + 1 = x
  OBVIOUS

\* Where a media packet meets a unit being put together, or starts one.
LEMMA StartsAt ==
  ASSUME NEW n, Given(n), stream \in Seq(Units), PacketOf(n).kind = "media",
         Depay!Continuing(PacketOf(n)) \/ PacketOf(n).n
  PROVE  LET p == PacketOf(n)  acc == Depay!Unit(p)  c == p.elems[1]
         IN  /\ acc \in AccType /\ acc.ok /\ At(stream, acc, c.unit, c.element, c.from)
             /\ Wanted(stream, delivered, c.unit) /\ ~Depay!Mismatch(p)
<1> DEFINE p == PacketOf(n)  acc == Depay!Unit(p)  c == p.elems[1]
<1>1. /\ Len(out) \in Nat /\ Len(out') = Len(out) + 1 /\ out'[Len(out')] = n /\ n \in Nat
      /\ \A k \in 1 .. Len(out) : out'[k] = out[k] /\ out[k] \in OnWire /\ out[k] \in Nat /\ out[k] < n
      /\ wire \in Seq(AnyPacket)
  BY GivenFacts
<1>2. WireOK(stream, wire) /\ DepayOK /\ n \in OnWire
  BY DEF Given
<1>3. MediaOK(stream, p) /\ Elems(stream, p.elems) /\ UnitOf(p) = c.unit /\ c.unit \in 1 .. Len(stream)
  BY <1>2, PacketIs DEF UnitOf
<1>4. /\ n - FirstSeq + 1 \in 1 .. Len(wire) /\ p = wire[n - FirstSeq + 1] /\ FirstSeq \in Nat
      /\ Media(wire, n - FirstSeq + 1) /\ p.seq = n
  <2>1. /\ n - FirstSeq + 1 \in 1 .. Len(wire) /\ p = wire[n - FirstSeq + 1] /\ FirstSeq \in Nat
        /\ Media(wire, n - FirstSeq + 1)
    BY <1>1, <1>2, NumberOnWire
  <2>2. wire[n - FirstSeq + 1].seq = FirstSeq + (n - FirstSeq + 1) - 1
    BY <1>2, <2>1 DEF WireOK
  <2>3. QED
    BY <1>1, <2>1, <2>2
<1>5. p.z \in BOOLEAN /\ (p.z <=> c.from > 0) /\ c.from \in Nat /\ obuOpen \in BOOLEAN
  <2>1. p \in AnyPacket
    BY <1>2, NumberOnWire DEF WireOK
  <2>2. GoodChunk(stream, c)
    BY <1>3, PacketEnds
  <2>3. QED
    BY <1>2, <1>3, <2>1, <2>2 DEF AnyPacket, MediaOK, GoodChunk, Sender!ChunkType, DepayOK
<1> HIDE DEF p
<1>6. CASE Depay!Continuing(p)
  <2>1. ~dropping /\ ~(haveSeq /\ n % SeqModulus # nextSeq)
    BY <1>4, <1>6 DEF Depay!Continuing, Depay!Gap
  <2>2. PICK l \in OnWire, m \in OnWire : Carry(l, m)
    BY <1>2, <2>1 DEF DepayOK
  <2>3. n = l + 1
    <3>1. LastParsed(l) /\ n % SeqModulus = (l + 1) % SeqModulus
      BY <2>1, <2>2 DEF Carry
    <3>2. PacketOf(n).kind # "bad"
      OBVIOUS
    <3>3. QED
      BY <3>1, <3>2, NextNumber
  <2> DEFINE q == PacketOf(m)  L == LastChunk(q.elems)  j == m - FirstSeq + 1  k == n - FirstSeq + 1
  <2>4. q.kind = "media" /\ m \in Nat /\ l \in Nat /\ m <= l /\ \A x \in m + 1 .. l : PacketOf(x).kind = "probe"
    BY <1>1, <2>2, NumberOnWire DEF Carry
  <2>5. /\ GoodChunk(stream, L) /\ L.unit = UnitOf(q) /\ UnitOf(q) \in 1 .. Len(stream)
        /\ q.marker <=> Final(stream, L)
    BY <1>2, <2>4, PacketIs
  <2>6. /\ j \in 1 .. Len(wire) /\ q = wire[j] /\ Media(wire, j) /\ k \in 1 .. Len(wire) /\ j < k
        /\ p = wire[k] /\ Media(wire, k)
    BY <1>1, <1>4, <2>3, <2>4, NumberOnWire
  <2>7. NoMediaIn(wire, j + 1, k - 1)
    <3> SUFFICES ASSUME NEW x \in j + 1 .. k - 1 PROVE ~Media(wire, x)
      BY DEF NoMediaIn
    <3> DEFINE g == x + FirstSeq - 1
    <3>1. g \in m + 1 .. l /\ g - FirstSeq + 1 = x
      <4>1. x \in Int /\ m - FirstSeq + 2 <= x /\ x <= n - FirstSeq
        BY <1>1, <1>4, <2>4
      <4>2. x <= l + 1 - FirstSeq
        <5>1. n \in Nat /\ l \in Nat /\ FirstSeq \in Nat
          BY <1>1, <1>4, <2>4
        <5>2. QED
          BY <2>3, <4>1, <5>1
      <4>3. QED
        BY <1>4, <2>4, <4>1, <4>2, NumberBetween
    <3> HIDE DEF g
    <3>2. PacketOf(g) = wire[x]
      BY <3>1 DEF PacketOf
    <3>3. QED
      BY <2>4, <3>1, <3>2 DEF Media
  <2> HIDE DEF q, j, k, L
  <2>8. Follows(stream, L, c.unit, c.element, c.from)
    BY <1>2, <1>3, <2>6, <2>7 DEF WireOK, L, UnitOf
  <2>9. acc = Acc
    BY <1>6 DEF Depay!Unit, Acc
  <2>10. CASE q.marker
    <3>1. /\ Acc = Depay!Fresh /\ delivered # << >> /\ UnitIn(LastChunk(delivered)) = UnitOf(q)
      BY <2>2, <2>10 DEF Carry, q
    <3>2. /\ c.unit > L.unit /\ c.element = 1 /\ c.from = 0
          /\ Silent(stream, L.unit + 1, c.unit - 1)
      BY <2>5, <2>8, <2>10 DEF Follows, Final
    <3>3. At(stream, acc, c.unit, 1, 0) /\ acc \in AccType /\ acc.ok
      BY <1>3, <2>9, <3>1, FreshAt
    <3>4. Wanted(stream, delivered, c.unit)
      <4>1. UnitOf(q) < c.unit
        BY <1>3, <2>5, <3>2
      <4>2. QED
        BY <2>5, <3>1, <3>2, <4>1 DEF Wanted, MayFollow
    <3>5. ~obuOpen
      BY <2>2, <2>10 DEF Carry, q
    <3>6. ~Depay!Mismatch(p)
      BY <1>5, <3>2, <3>5 DEF Depay!Mismatch, Depay!OpenBefore
    <3>7. QED
      BY <3>2, <3>3, <3>4, <3>6 DEF p
  <2>11. CASE ~q.marker
    <3>1. Behind(stream, Acc, L) /\ Wanted(stream, delivered, UnitOf(q))
      BY <2>2, <2>11 DEF Carry, q, L
    <3>2. acc \in AccType /\ acc.ok
      BY <2>5, <2>9, <3>1, AccTyped
    <3>3. c.unit = L.unit /\ At(stream, acc, c.unit, c.element, c.from)
      BY <2>5, <2>8, <2>9, <2>11, <3>1 DEF Follows, Behind
    <3>4. obuOpen <=> ~Ends(stream, L)
      BY <2>2, <2>11 DEF Carry, q, L
    <3>5. Ends(stream, L) => c.from = 0
      BY <2>8 DEF Follows
    <3>6. ~Ends(stream, L) => c.from > 0
      <4>1. L.from \in Nat /\ L.len \in Nat \ {0}
        BY <2>5 DEF GoodChunk, Sender!ChunkType
      <4>2. ~Ends(stream, L) => c.from = L.from + L.len
        BY <2>8 DEF Follows, Final
      <4>3. QED
        BY <4>1, <4>2
    <3>7. p.z <=> obuOpen
      BY <1>5, <3>4, <3>5, <3>6
    <3>8. ~Depay!Mismatch(p)
      BY <1>6, <1>5, <3>7 DEF Depay!Mismatch, Depay!OpenBefore
    <3>9. QED
      BY <2>5, <3>1, <3>2, <3>3, <3>8 DEF p
  <2>12. QED
    BY <2>10, <2>11
<1>7. CASE ~Depay!Continuing(p)
  <2>1. acc = Depay!Fresh /\ p.n
    BY <1>7 DEF Depay!Unit, p
  <2>2. c.element = 1 /\ c.from = 0 /\ Starts(stream, c.unit)
    BY <1>3, <2>1 DEF MediaOK, FirstOfUnit
  <2>3. At(stream, acc, c.unit, 1, 0) /\ acc \in AccType /\ acc.ok
    BY <1>3, <2>1, FreshAt
  <2>4. Wanted(stream, delivered, c.unit)
    <3>1. CASE delivered = << >>
      BY <2>2, <3>1 DEF Wanted
    <3>2. CASE delivered # << >>
      <4>1. PICK m \in OnWire, k \in 1 .. Len(out) :
              /\ m <= out[k] /\ PacketOf(m).kind = "media" /\ PacketOf(m).marker
              /\ UnitOf(PacketOf(m)) = UnitIn(LastChunk(delivered))
        BY <1>2, <3>2 DEF DepayOK
      <4>2. m < n
        <5>1. m \in Nat
          BY <1>1, NumberOnWire
        <5>2. QED
          BY <1>1, <4>1, <5>1
      <4>3. UnitOf(PacketOf(m)) < UnitOf(PacketOf(n))
        BY <1>2, <4>1, <4>2, LaterUnit
      <4>4. UnitOf(PacketOf(m)) < c.unit
        BY <1>3, <4>3 DEF p
      <4>5. QED
        BY <2>2, <3>2, <4>1, <4>4 DEF Wanted, MayFollow
    <3>3. QED
      BY <3>1, <3>2
  <2>5. ~p.z
    BY <1>5, <2>2
  <2>6. ~Depay!Mismatch(p)
    BY <1>5, <1>7, <2>5 DEF Depay!Mismatch, Depay!OpenBefore
  <2>7. QED
    BY <2>2, <2>3, <2>4, <2>6 DEF p
<1>8. QED
  BY <1>6, <1>7

\* An unreadable packet leaves everything as it was.
LEMMA BadStep ==
  ASSUME NEW n, Given(n), Depay!BadHeader(PacketOf(n)) PROVE DepayOK'
<1>1. /\ Len(out) \in Nat /\ Len(out') = Len(out) + 1 /\ out'[Len(out')] = n
      /\ \A k \in 1 .. Len(out) : out'[k] = out[k] /\ out[k] \in OnWire
      /\ OnWire' = OnWire /\ \A x : PacketOf(x)' = PacketOf(x)
  BY GivenFacts
<1>2. /\ PacketOf(n).kind = "bad" /\ DepayOK /\ stream' = stream
      /\ closed' = closed /\ tuLen' = tuLen /\ obu' = obu /\ obuOpen' = obuOpen /\ nextSeq' = nextSeq
      /\ haveSeq' = haveSeq /\ dropping' = dropping /\ delivered' = delivered
  BY DEF Given, Depay!BadHeader, Depay!depayVars
<1>3. ASSUME NEW l \in OnWire, NEW m \in OnWire, Carry(l, m) PROVE Carry(l, m)'
  <2>1. PICK k \in 1 .. Len(out) :
          /\ out[k] = l /\ PacketOf(l).kind # "bad"
          /\ \A j \in k + 1 .. Len(out) : PacketOf(out[j]).kind = "bad"
    BY <1>3 DEF Carry, LastParsed
  <2>2. k \in 1 .. Len(out') /\ out'[k] = l
    BY <1>1, <2>1
  <2>3. ASSUME NEW j \in k + 1 .. Len(out') PROVE PacketOf(out[j])'.kind = "bad"
    <3>1. PacketOf(out[j])' = wire[out'[j] - FirstSeq + 1]
      BY DEF Given, PacketOf
    <3>2. CASE j = Len(out')
      BY <1>1, <1>2, <3>1, <3>2 DEF PacketOf
    <3>3. CASE j # Len(out')
      <4>1. j \in k + 1 .. Len(out) /\ j \in 1 .. Len(out)
        BY <1>1, <2>1, <3>3
      <4>2. out'[j] = out[j] /\ PacketOf(out[j]).kind = "bad"
        BY <1>1, <2>1, <4>1
      <4>3. QED
        BY <3>1, <4>2 DEF PacketOf
    <3>4. QED
      BY <3>2, <3>3
  <2>4. LastParsed(l)'
    BY <1>1, <2>1, <2>2, <2>3 DEF LastParsed
  <2>5. Acc' = Acc /\ Depay!Fresh' = Depay!Fresh
    BY <1>2 DEF Acc, Depay!Fresh, Depay!DelimiterSize
  <2>6. QED
    BY <1>1, <1>2, <1>3, <2>4, <2>5 DEF Carry
<1>4. delivered # << >> =>
        \E m \in OnWire', k \in 1 .. Len(out') :
          /\ m <= out'[k] /\ PacketOf(m)'.kind = "media" /\ PacketOf(m)'.marker
          /\ UnitOf(PacketOf(m)') = UnitIn(LastChunk(delivered))
  <2> SUFFICES ASSUME delivered # << >>
               PROVE  \E m \in OnWire', k \in 1 .. Len(out') :
                        /\ m <= out'[k] /\ PacketOf(m)'.kind = "media" /\ PacketOf(m)'.marker
                        /\ UnitOf(PacketOf(m)') = UnitIn(LastChunk(delivered))
    OBVIOUS
  <2>1. PICK m \in OnWire, k \in 1 .. Len(out) :
          /\ m <= out[k] /\ PacketOf(m).kind = "media" /\ PacketOf(m).marker
          /\ UnitOf(PacketOf(m)) = UnitIn(LastChunk(delivered))
    BY <1>2 DEF DepayOK
  <2>2. k \in 1 .. Len(out') /\ out'[k] = out[k] /\ m \in OnWire' /\ PacketOf(m)' = PacketOf(m)
    BY <1>1, <2>1
  <2>3. QED
    BY <2>1, <2>2
<1>5. QED
  BY <1>1, <1>2, <1>3, <1>4 DEF DepayOK

\* The packet a delivered unit ended with stays behind the window.
LEMMA MarkerStays ==
  ASSUME NEW n, Given(n), delivered # << >>
  PROVE  \E m \in OnWire', k \in 1 .. Len(out') :
           /\ m <= out'[k] /\ PacketOf(m)'.kind = "media" /\ PacketOf(m)'.marker
           /\ UnitOf(PacketOf(m)') = UnitIn(LastChunk(delivered))
<1>1. /\ Len(out) \in Nat /\ Len(out') = Len(out) + 1
      /\ \A k \in 1 .. Len(out) : out'[k] = out[k]
      /\ OnWire' = OnWire /\ \A x : PacketOf(x)' = PacketOf(x)
  BY GivenFacts
<1>2. PICK m \in OnWire, k \in 1 .. Len(out) :
        /\ m <= out[k] /\ PacketOf(m).kind = "media" /\ PacketOf(m).marker
        /\ UnitOf(PacketOf(m)) = UnitIn(LastChunk(delivered))
  BY DEF Given, DepayOK
<1>3. k \in 1 .. Len(out') /\ out'[k] = out[k] /\ m \in OnWire' /\ PacketOf(m)' = PacketOf(m)
  BY <1>1, <1>2
<1>4. QED
  BY <1>2, <1>3

LEMMA DiscardStep ==
  ASSUME NEW n, Given(n), Depay!Discard, Depay!TakeSeq(PacketOf(n))
  PROVE  DepayOK'
<1>1. dropping' = TRUE /\ delivered' = delivered /\ obuOpen' = FALSE /\ haveSeq' = TRUE
  BY DEF Depay!Discard, Depay!TakeSeq
<1>2. DepayOK /\ stream' = stream
  BY DEF Given
<1>3. {obuOpen', haveSeq', dropping'} \subseteq BOOLEAN
  BY <1>1
<1>4. QED
  BY <1>1, <1>2, <1>3, MarkerStays DEF DepayOK

LEMMA ProbeStep ==
  ASSUME NEW n, Given(n), Depay!Probe(PacketOf(n)) PROVE DepayOK'
<1> DEFINE p == PacketOf(n)
<1>1. p.kind = "probe" /\ Depay!TakeSeq(p)
  BY DEF Depay!Probe
<1>2. CASE Depay!Gap(p)
  BY <1>1, <1>2, DiscardStep DEF Depay!Probe
<1>3. CASE ~Depay!Gap(p)
  <2>1. UNCHANGED <<closed, tuLen, obu, obuOpen, dropping, delivered>>
    BY <1>3 DEF Depay!Probe
  <2>2. /\ Len(out) \in Nat /\ Len(out') = Len(out) + 1 /\ out'[Len(out')] = n /\ n \in Nat
        /\ OnWire' = OnWire /\ wire \in Seq(AnyPacket) /\ \A x : PacketOf(x)' = PacketOf(x)
    BY GivenFacts
  <2>3. DepayOK /\ stream' = stream /\ WireOK(stream, wire) /\ n \in OnWire
    BY DEF Given
  <2>4. p.seq = n
    <3>1. n - FirstSeq + 1 \in 1 .. Len(wire) /\ p = wire[n - FirstSeq + 1] /\ FirstSeq \in Nat
      BY <2>2, <2>3, NumberOnWire
    <3>2. wire[n - FirstSeq + 1].seq = FirstSeq + (n - FirstSeq + 1) - 1
      BY <2>3, <3>1 DEF WireOK
    <3>3. QED
      BY <2>2, <3>1, <3>2
  <2>5. haveSeq' = TRUE /\ nextSeq' = (n + 1) % SeqModulus
    BY <1>1, <2>4 DEF Depay!TakeSeq
  <2>6. ASSUME NEW l \in OnWire, NEW m \in OnWire, Carry(l, m) PROVE Carry(n, m)'
    <3>1. n = l + 1
      <4>1. n % SeqModulus = (l + 1) % SeqModulus /\ LastParsed(l)
        BY <1>3, <2>4, <2>6 DEF Carry, Depay!Gap
      <4>2. QED
        BY <1>1, <4>1, NextNumber
    <3>2. LastParsed(n)'
      BY <1>1, NowLast
    <3>3. m \in Nat /\ l \in Nat /\ m <= l
      BY <2>2, <2>6, NumberOnWire DEF Carry
    <3>4. m <= n /\ \A x \in m + 1 .. n : x \in m + 1 .. l \/ x = n
      BY <2>2, <3>1, <3>3
    <3>5. \A x \in m + 1 .. n : PacketOf(x).kind = "probe"
      BY <1>1, <2>6, <3>4 DEF Carry
    <3>6. Acc' = Acc /\ Depay!Fresh' = Depay!Fresh
      BY <2>1 DEF Acc, Depay!Fresh, Depay!DelimiterSize
    <3> HIDE DEF p
    <3>7. QED
      BY <2>1, <2>2, <2>3, <2>5, <2>6, <3>2, <3>4, <3>5, <3>6 DEF Carry
  <2>7. ~dropping' => \E l, m \in OnWire' : Carry(l, m)'
    BY <2>1, <2>2, <2>3, <2>6 DEF DepayOK
  <2>8. QED
    BY <2>1, <2>3, <2>5, <2>7, MarkerStays DEF DepayOK
<1>4. QED
  BY <1>2, <1>3

\* A unit read to its last byte is whole.
LEMMA ReadWhole ==
  ASSUME NEW s \in Seq(Units), NEW c, GoodChunk(s, c), Final(s, c), NEW r \in AccType, Behind(s, r, c)
  PROVE  /\ Whole(s, r.closed) /\ UnitIn(r.closed) = c.unit /\ r.tuLen > Depay!DelimiterSize
         /\ r.closed \in Seq(Seq(Sender!ChunkType))
<1> DEFINE u == c.unit  els == Els(s, c.unit)  o == Obus(s, c.unit)
<1>1. u \in 1 .. Len(s) /\ c.element \in 1 .. Len(els)
  BY DEF GoodChunk
<1>2. /\ Len(els) \in Nat /\ Len(els) = Len(o) /\ \A j \in 1 .. Len(o) : o[j].len \in Nat \ {0}
      /\ \A j \in 1 .. Len(els) : els[j] \in Nat \ {0}
  BY <1>1, ElsType
<1>3. Ends(s, c) /\ c.element = Len(els)
  BY DEF Final
<1>4. At(s, r, u, c.element + 1, 0)
  BY <1>3 DEF Behind
<1>5. /\ r.closed \in Seq(Seq(Sender!ChunkType)) /\ Len(r.closed) = Len(els)
      /\ \A j \in 1 .. Len(r.closed) : Part(r.closed[j], u, j, els[j])
      /\ r.tuLen = RebuiltSize(o)[Len(els)]
  <2>1. (c.element + 1) - 1 = Len(els)
    BY <1>2, <1>3
  <2>2. QED
    BY <1>4, <2>1 DEF At
<1> HIDE DEF u, els, o
<1>6. Len(els) > 0 /\ 1 \in 1 .. Len(els)
  BY <1>1, <1>2
<1>7. r.closed # << >>
  BY <1>5, <1>6, EmptySeq
<1>8. r.closed[1] # << >> /\ r.closed[1][1].unit = u
  <2>1. Part(r.closed[1], u, 1, els[1]) /\ els[1] # 0
    BY <1>2, <1>5, <1>6
  <2>2. r.closed[1] # << >> /\ r.closed[1] \in Seq(Sender!ChunkType)
    BY <2>1 DEF Part
  <2>3. 1 \in 1 .. Len(r.closed[1])
    BY <2>2, EmptySeq, LenProperties
  <2>4. QED
    BY <2>1, <2>2, <2>3 DEF Part
<1>9. r.tuLen > Depay!DelimiterSize
  <2>1. Len(els) \in 1 .. Len(o)
    BY <1>2, <1>6
  <2>2. QED
    BY <1>2, <1>5, <2>1, RebuiltSteps
<1>10. QED
  BY <1>1, <1>5, <1>7, <1>8, <1>9 DEF Whole, UnitIn, u, els

\* One unit more is delivered.
LEMMA DeliverMore ==
  ASSUME NEW s, NEW d, DeliveredOK(s, d), NEW r \in Seq(Seq(Sender!ChunkType)), Whole(s, r),
         Wanted(s, d, UnitIn(r))
  PROVE  /\ DeliveredOK(s, Append(d, r)) /\ LastChunk(Append(d, r)) = r /\ Append(d, r) # << >>
<1> DEFINE t == Append(d, r)
<1>1. /\ t \in Seq(Seq(Seq(Sender!ChunkType))) /\ Len(d) \in Nat /\ Len(t) = Len(d) + 1
      /\ t[Len(d) + 1] = r /\ \A k \in 1 .. Len(d) : t[k] = d[k]
  BY AppendProperties, LenProperties DEF DeliveredOK
<1> HIDE DEF t
<1>2. t # << >> /\ LastChunk(t) = r
  BY <1>1, EmptySeq DEF LastChunk
<1>3. d = << >> <=> Len(d) = 0
  BY <1>1, EmptySeq DEF DeliveredOK
<1>4. \A k \in 1 .. Len(t) : Whole(s, t[k])
  <2> SUFFICES ASSUME NEW k \in 1 .. Len(t) PROVE Whole(s, t[k])
    OBVIOUS
  <2>1. k \in 1 .. Len(d) \/ k = Len(d) + 1
    BY <1>1
  <2>2. QED
    BY <1>1, <2>1 DEF DeliveredOK
<1>5. Starts(s, UnitIn(t[1]))
  <2>1. CASE d = << >>
    BY <1>1, <1>3, <2>1 DEF Wanted
  <2>2. CASE d # << >>
    <3>1. 1 \in 1 .. Len(d)
      BY <1>1, <1>3, <2>2
    <3>2. QED
      BY <1>1, <2>2, <3>1 DEF DeliveredOK
  <2>3. QED
    BY <2>1, <2>2
<1>6. ASSUME NEW k \in 1 .. Len(t) - 1 PROVE MayFollow(s, UnitIn(t[k]), UnitIn(t[k + 1]))
  <2>1. CASE k = Len(d)
    <3>1. d # << >> /\ t[k + 1] = r /\ t[k] = LastChunk(d)
      BY <1>1, <1>3, <2>1 DEF LastChunk
    <3>2. QED
      BY <3>1 DEF Wanted
  <2>2. CASE k # Len(d)
    <3>1. k \in 1 .. Len(d) - 1 /\ k \in 1 .. Len(d) /\ k + 1 \in 1 .. Len(d)
      BY <1>1, <2>2
    <3>2. t[k] = d[k] /\ t[k + 1] = d[k + 1]
      BY <1>1, <3>1
    <3>3. QED
      BY <3>1, <3>2 DEF DeliveredOK
  <2>3. QED
    BY <2>1, <2>2
<1>7. QED
  BY <1>1, <1>2, <1>4, <1>5, <1>6 DEF DeliveredOK, t

LEMMA AccumulateStep ==
  ASSUME NEW n, Given(n), stream \in Seq(Units), Depay!Accumulate(PacketOf(n))
  PROVE  /\ DepayOK'
         /\ IF PacketOf(n).marker
            THEN \E d \in Seq(Seq(Sender!ChunkType)) :
                   delivered' = Append(delivered, d) /\ UnitIn(d) = UnitOf(PacketOf(n))
            ELSE delivered' = delivered
<1> DEFINE p == PacketOf(n)  r == Depay!ReadElements(Depay!Unit(p), p)  L == LastChunk(p.elems)
<1>1. /\ p.kind = "media" /\ Depay!TakeSeq(p) /\ (Depay!Continuing(p) \/ p.n) /\ ~Depay!Corrupt(p)
      /\ dropping' = FALSE
  BY DEF Depay!Accumulate
<1>2. /\ Len(out) \in Nat /\ Len(out') = Len(out) + 1 /\ out'[Len(out')] = n /\ n \in Nat
      /\ OnWire' = OnWire /\ wire \in Seq(AnyPacket) /\ \A x : PacketOf(x)' = PacketOf(x)
  BY GivenFacts
<1>3. DepayOK /\ stream' = stream /\ WireOK(stream, wire) /\ n \in OnWire
  BY DEF Given
<1>4. /\ MediaOK(stream, p) /\ Elems(stream, p.elems) /\ UnitOf(p) = p.elems[1].unit
      /\ GoodChunk(stream, L) /\ L.unit = UnitOf(p)
      /\ (p.marker <=> Final(stream, L)) /\ (p.y <=> ~Ends(stream, L))
  BY <1>1, <1>3, PacketIs DEF UnitOf
<1>5. p.seq = n
  <2>1. n - FirstSeq + 1 \in 1 .. Len(wire) /\ p = wire[n - FirstSeq + 1] /\ FirstSeq \in Nat
    BY <1>2, <1>3, NumberOnWire
  <2>2. wire[n - FirstSeq + 1].seq = FirstSeq + (n - FirstSeq + 1) - 1
    BY <1>3, <2>1 DEF WireOK
  <2>3. QED
    BY <1>2, <2>1, <2>2
<1>6. haveSeq' = TRUE /\ nextSeq' = (n + 1) % SeqModulus
  BY <1>1, <1>5 DEF Depay!TakeSeq
<1>7. r \in AccType /\ Behind(stream, r, L) /\ Wanted(stream, delivered, UnitOf(p))
  <2>1. /\ Depay!Unit(p) \in AccType /\ Depay!Unit(p).ok
        /\ At(stream, Depay!Unit(p), p.elems[1].unit, p.elems[1].element, p.elems[1].from)
        /\ Wanted(stream, delivered, p.elems[1].unit)
    BY <1>1, StartsAt
  <2>2. r.ok
    BY <1>1 DEF Depay!Corrupt
  <2>3. r \in AccType /\ (r.ok => Behind(stream, r, L))
    BY <1>4, <2>1, LoopStep
  <2>4. QED
    BY <1>4, <2>1, <2>2, <2>3
<1>8. LastParsed(n)'
  BY <1>1, NowLast
<1>9. n <= n /\ \A x \in n + 1 .. n : FALSE
  BY <1>2
<1>10. IF p.marker
       THEN /\ delivered' = (IF r.tuLen > Depay!DelimiterSize THEN Append(delivered, r.closed) ELSE delivered)
            /\ Depay!Hold(Depay!Fresh) /\ obuOpen' = FALSE
       ELSE Depay!Hold(r) /\ obuOpen' = p.y /\ delivered' = delivered
  BY DEF Depay!Accumulate
<1> HIDE DEF p, r, L
<1>11. CASE p.marker
  <2>1. /\ Whole(stream, r.closed) /\ UnitIn(r.closed) = L.unit /\ r.tuLen > Depay!DelimiterSize
        /\ r.closed \in Seq(Seq(Sender!ChunkType))
    BY <1>4, <1>7, <1>11, ReadWhole
  <2>2. delivered' = Append(delivered, r.closed) /\ Depay!Hold(Depay!Fresh) /\ obuOpen' = FALSE
    BY <1>10, <1>11, <2>1
  <2>3. /\ DeliveredOK(stream, delivered') /\ LastChunk(delivered') = r.closed /\ delivered' # << >>
    BY <1>3, <1>4, <1>7, <2>1, <2>2, DeliverMore DEF DepayOK
  <2>4. Acc' = Depay!Fresh'
    BY <2>2 DEF Depay!Hold, Acc, Depay!Fresh, Depay!DelimiterSize
  <2>5. Carry(n, n)'
    BY <1>1, <1>2, <1>4, <1>6, <1>8, <1>9, <1>11, <2>1, <2>2, <2>3, <2>4 DEF Carry, p
  <2>6. n \in OnWire' /\ Len(out') \in 1 .. Len(out') /\ n <= out'[Len(out')]
    BY <1>2, <1>3
  <2>7. /\ PacketOf(n)'.kind = "media" /\ PacketOf(n)'.marker
        /\ UnitOf(PacketOf(n)') = UnitIn(LastChunk(delivered'))
    BY <1>1, <1>2, <1>4, <1>11, <2>1, <2>3 DEF p
  <2>8. QED
    BY <1>1, <1>3, <1>4, <1>6, <1>11, <2>1, <2>2, <2>3, <2>5, <2>6, <2>7 DEF DepayOK, p
<1>12. CASE ~p.marker
  <2>1. Depay!Hold(r) /\ obuOpen' = p.y /\ delivered' = delivered
    BY <1>10, <1>12
  <2>2. Acc'.closed = r.closed /\ Acc'.tuLen = r.tuLen /\ Acc'.obu = r.obu
    BY <2>1 DEF Acc, Depay!Hold
  <2>3. Behind(stream, Acc', L)
    BY <1>7, <2>2 DEF Behind, At
  <2>4. obuOpen' <=> ~Ends(stream, L)
    BY <1>4, <2>1
  <2>5. Carry(n, n)'
    BY <1>1, <1>2, <1>3, <1>6, <1>7, <1>8, <1>9, <1>12, <2>1, <2>3, <2>4 DEF Carry, p, L
  <2>6. obuOpen' \in BOOLEAN
    <3>1. PacketOf(n) \in AnyPacket
      BY <1>2, <1>3, NumberOnWire
    <3>2. QED
      BY <2>1, <3>1 DEF AnyPacket, p
  <2>7. QED
    BY <1>1, <1>2, <1>3, <1>6, <1>12, <2>1, <2>5, <2>6, MarkerStays DEF DepayOK, p
<1>13. QED
  BY <1>11, <1>12

LEMMA PacketStep ==
  ASSUME NEW n, Given(n), stream \in Seq(Units), Depay!DepayPacket(PacketOf(n)) PROVE DepayOK'
<1>1. CASE Depay!BadHeader(PacketOf(n))
  BY <1>1, BadStep
<1>2. CASE Depay!Probe(PacketOf(n))
  BY <1>2, ProbeStep
<1>3. CASE Depay!Skip(PacketOf(n))
  BY <1>3, DiscardStep DEF Depay!Skip
<1>4. CASE Depay!Refuse(PacketOf(n))
  BY <1>4, DiscardStep DEF Depay!Refuse
<1>5. CASE Depay!Accumulate(PacketOf(n))
  BY <1>5, AccumulateStep
<1>6. QED
  BY <1>1, <1>2, <1>3, <1>4, <1>5 DEF Depay!DepayPacket

-----------------------------------------------------------------------------
(* The whole system.                                                         *)

LEMMA StreamInit == Init => StreamInv
<1> SUFFICES ASSUME Init PROVE StreamInv
  OBVIOUS
<1>1. /\ stream = << >> /\ elements = << >> /\ index = 1 /\ offset = 0 /\ z = FALSE
      /\ firstPacket = TRUE /\ isNew = FALSE /\ payload = << >> /\ payloadLen = 0 /\ y = FALSE
      /\ wire = << >>
  BY DEF Init, Sender!EncoderInit
<1>2. /\ held = [s \in Reorder!Slots |-> Reorder!NoPacket] /\ pc = "idle" /\ out = << >>
  BY DEF Init, Reorder!WindowInit
<1>3. obuOpen = FALSE /\ haveSeq = FALSE /\ dropping = TRUE /\ delivered = << >>
  BY DEF Init, Depay!DepayInit
<1>4. \A S : << >> \in Seq(S) /\ Len(<< >>) = 0
  BY EmptySeq
<1>5. WireOK(stream, wire)
  BY <1>1, <1>4 DEF WireOK, Media
<1>6. SenderOK
  <2>1. Len(wire) = 0 /\ stream \in Seq(Units) /\ payload \in Seq(Sender!ChunkType)
    BY <1>1, <1>4
  <2>2. SenderIdle
    BY <1>1, <2>1 DEF SenderIdle
  <2>3. index \in Nat /\ offset \in Nat /\ payloadLen \in Nat
        /\ {z, y, firstPacket, isNew} \subseteq BOOLEAN
    BY <1>1
  <2>4. QED
    BY <1>1, <2>1, <2>2, <2>3 DEF SenderOK, Sender!Encoding
<1>7. WindowOK
  BY <1>2, <1>4 DEF WindowOK
<1>8. DepayOK
  <2>1. Len(delivered) = 0 /\ delivered \in Seq(Seq(Seq(Sender!ChunkType)))
    BY <1>3, <1>4
  <2>2. DeliveredOK(stream, delivered)
    BY <1>3, <2>1 DEF DeliveredOK
  <2>3. {obuOpen, haveSeq, dropping} \subseteq BOOLEAN
    BY <1>3
  <2>4. QED
    BY <1>3, <2>2, <2>3 DEF DepayOK
<1>9. QED
  BY <1>5, <1>6, <1>7, <1>8 DEF StreamInv, SourceInv

\* When the stream does not grow.
LEMMA SameStream == stream \in Seq(Units) => Extends(stream, stream)
  BY LenProperties DEF Extends

LEMMA SenderKept ==
  ASSUME WireOK(stream, wire), SenderOK, UNCHANGED senderVars
  PROVE  WireOK(stream', wire') /\ SenderOK'
<1>1. /\ stream' = stream /\ elements' = elements /\ index' = index /\ offset' = offset /\ z' = z
      /\ firstPacket' = firstPacket /\ isNew' = isNew /\ payload' = payload
      /\ payloadLen' = payloadLen /\ y' = y /\ wire' = wire
  BY DEF senderVars
<1>2. StartElement' = StartElement /\ StartByte' = StartByte
  BY <1>1 DEF StartElement, StartByte
<1>3. SenderEncoding' = SenderEncoding /\ SenderIdle' = SenderIdle
  BY <1>1, <1>2 DEF SenderEncoding, SenderIdle, PacketEmpty, PacketBegun
<1>4. QED
  BY <1>1, <1>3 DEF SenderOK, Sender!Encoding

\* What is sent and what the window keeps.
LEMMA SourceStep ==
  ASSUME SourceInv, Proofs!TypeOK, [Next]_vars
  PROVE  /\ SourceInv' /\ Extends(stream, stream')
         /\ wire' = wire \/ \E p \in AnyPacket : wire' = Append(wire, p)
         /\ \/ out' = out /\ UNCHANGED depayVars
            \/ /\ wire' = wire /\ stream' = stream
               /\ \E n \in OnWire : out' = Append(out, n) /\ Depay!DepayPacket(PacketOf(n))
<1>1. /\ WireOK(stream, wire) /\ SenderOK /\ WindowOK /\ stream \in Seq(Units)
      /\ wire \in Seq(AnyPacket)
  BY DEF SourceInv, SenderOK, WireOK
<1>2. CASE Encode
  <2>1. Sender!EncoderNext /\ UNCHANGED reorderVars /\ UNCHANGED depayVars
    BY <1>2 DEF Encode
  <2>2. /\ WireOK(stream', wire') /\ SenderOK' /\ Extends(stream, stream')
        /\ wire' = wire \/ \E p \in AnyPacket : wire' = Append(wire, p)
    <3>1. CASE \E t \in Units : Sender!EncodeNothing(t) \/ Sender!EncodeBegin(t)
      BY <1>1, <3>1, EncodeNothingStep, EncodeBeginStep
    <3>2. CASE Sender!AddElement
      BY <1>1, <3>2, AddElementStep, SameStream
    <3>3. CASE Sender!SendPacket
      BY <1>1, <3>3, SendPacketStep, SameStream
    <3>4. QED
      BY <2>1, <3>1, <3>2, <3>3 DEF Sender!EncoderNext
  <2>3. UNCHANGED <<held, pc, pkt, out>>
    BY <2>1 DEF reorderVars
  <2>4. WindowOK'
    BY <1>1, <2>2, <2>3, WindowKept
  <2>5. QED
    BY <2>1, <2>2, <2>3, <2>4 DEF SourceInv
<1>3. CASE \E kind \in {"probe", "bad"} : SfuAdds(kind)
  <2>1. /\ WireOK(stream', wire') /\ SenderOK' /\ stream' = stream
        /\ \E p \in AnyPacket : wire' = Append(wire, p)
    BY <1>1, <1>3, SfuStep
  <2>2. UNCHANGED <<held, pc, pkt, out>> /\ UNCHANGED depayVars
    BY <1>3 DEF SfuAdds, reorderVars
  <2>3. WindowOK'
    BY <1>1, <2>1, <2>2, WindowKept
  <2>4. QED
    BY <1>1, <2>1, <2>2, <2>3, SameStream DEF SourceInv
<1>4. CASE \E n \in OnWire : Arrive(n)
  <2>1. PICK n \in OnWire : Arrive(n)
    BY <1>4
  <2>2. Reorder!Decode(n) /\ UNCHANGED senderVars /\ UNCHANGED depayVars
    BY <2>1 DEF Arrive
  <2>3. WireOK(stream', wire') /\ SenderOK' /\ wire' = wire /\ stream' = stream
    BY <1>1, <2>2, SenderKept DEF senderVars
  <2>4. WindowOK' /\ out' = out
    BY <1>1, <2>2, <2>3, ArriveStep
  <2>5. QED
    BY <1>1, <2>2, <2>3, <2>4, SameStream DEF SourceInv
<1>5. CASE Flush \/ FlushDone \/ Drain \/ DrainDone
  <2>1. /\ Reorder!FlushSlot \/ Reorder!FlushDone \/ Reorder!DrainSlot \/ Reorder!DrainDone
        /\ IF out' = out THEN UNCHANGED depayVars ELSE Depay!DepayPacket(PacketOf(Last(out')))
        /\ UNCHANGED senderVars
    BY <1>5 DEF Flush, FlushDone, Drain, DrainDone, Step
  <2>2. WireOK(stream', wire') /\ SenderOK' /\ wire' = wire /\ stream' = stream
    BY <1>1, <2>1, SenderKept DEF senderVars
  <2>3. WindowOK' /\ (out' = out \/ \E n \in OnWire : out' = Append(out, n))
    BY <1>1, <2>1, <2>2, LoopsStep
  <2>4. CASE out' = out
    BY <1>1, <2>1, <2>2, <2>3, <2>4, SameStream DEF SourceInv
  <2>5. CASE out' # out
    <3>1. PICK n \in OnWire : out' = Append(out, n)
      BY <2>3, <2>5
    <3>2. Last(out') = n
      <4>1. out \in Seq(OnWire)
        BY <1>1 DEF WindowOK
      <4>2. out'[Len(out')] = n
        BY <3>1, <4>1, AppendProperties
      <4>3. QED
        BY <4>2 DEF Last
    <3>3. Depay!DepayPacket(PacketOf(n))
      <4>1. Depay!DepayPacket(PacketOf(Last(out')))
        BY <2>1, <2>5
      <4>2. QED
        BY <3>2, <4>1
    <3>4. QED
      BY <1>1, <2>2, <2>3, <3>1, <3>3, SameStream DEF SourceInv
  <2>6. QED
    BY <2>4, <2>5
<1>6. CASE UNCHANGED vars
  <2>1. UNCHANGED senderVars /\ UNCHANGED reorderVars /\ UNCHANGED depayVars
    BY <1>6 DEF vars
  <2>2. /\ WireOK(stream', wire') /\ SenderOK' /\ wire' = wire /\ stream' = stream
        /\ UNCHANGED <<held, pc, pkt, out>>
    BY <1>1, <2>1, SenderKept DEF senderVars, reorderVars
  <2>3. WindowOK'
    BY <1>1, <2>2, WindowKept
  <2>4. QED
    BY <1>1, <2>1, <2>2, <2>3, SameStream DEF SourceInv
<1>7. QED
  BY <1>2, <1>3, <1>4, <1>5, <1>6 DEF Next

LEMMA StreamStep ==
  ASSUME StreamInv, Proofs!TypeOK, Proofs!InOrder', Tracked', [Next]_vars
  PROVE  StreamInv'
<1>1. SourceInv /\ WireOK(stream, wire) /\ WindowOK /\ DepayOK /\ stream \in Seq(Units)
  BY DEF StreamInv, SourceInv, SenderOK
<1>2. /\ SourceInv' /\ Extends(stream, stream')
      /\ wire' = wire \/ \E p \in AnyPacket : wire' = Append(wire, p)
      /\ \/ out' = out /\ UNCHANGED depayVars
         \/ /\ wire' = wire /\ stream' = stream
            /\ \E n \in OnWire : out' = Append(out, n) /\ Depay!DepayPacket(PacketOf(n))
  BY <1>1, SourceStep
<1>3. CASE out' = out /\ UNCHANGED depayVars
  BY <1>1, <1>2, <1>3, DepayKept DEF StreamInv
<1>4. CASE /\ wire' = wire /\ stream' = stream
           /\ \E n \in OnWire : out' = Append(out, n) /\ Depay!DepayPacket(PacketOf(n))
  <2>1. PICK n \in OnWire : out' = Append(out, n) /\ Depay!DepayPacket(PacketOf(n))
    BY <1>4
  <2>2. Given(n)
    BY <1>1, <1>4, <2>1 DEF Given
  <2>3. DepayOK'
    BY <1>1, <2>1, <2>2, PacketStep
  <2>4. QED
    BY <1>2, <2>3 DEF StreamInv
<1>5. QED
  BY <1>2, <1>3, <1>4

\* The window within the stream is the window of its own specification.
LEMMA WindowInStream ==
  Reorder!DepthDividesModulus =>
    (Spec => [](Proofs!TypeOK /\ Proofs!InOrder /\ Proofs!ShortGaps))
<1> SUFFICES ASSUME Reorder!DepthDividesModulus
             PROVE  Spec => [](Proofs!TypeOK /\ Proofs!InOrder /\ Proofs!ShortGaps)
  OBVIOUS
<1>1. Init => Proofs!WindowInit
  BY DEF Init, Reorder!WindowInit, Proofs!WindowInit, Reorder!Slots, Proofs!Slots,
    Reorder!NoPacket, Proofs!NoPacket
<1>2. [Next]_vars => [Proofs!WindowNext]_(Proofs!vars)
  <2> SUFFICES ASSUME [Next]_vars PROVE [Proofs!WindowNext]_(Proofs!vars)
    OBVIOUS
  <2>1. CASE Encode \/ (\E kind \in {"probe", "bad"} : SfuAdds(kind)) \/ UNCHANGED vars
    BY <2>1 DEF Encode, SfuAdds, vars, reorderVars, Proofs!vars
  <2>2. CASE \E n \in OnWire : Arrive(n)
    <3>1. PICK n \in OnWire : Reorder!Decode(n)
      BY <2>2 DEF Arrive
    <3>2. n \in Nat
      <4>1. FirstSeq \in Nat /\ \A k \in 1 .. Len(wire) : FirstSeq + k - 1 \in Nat
        BY StreamAssumption DEF Sender!PacketizerAssumption
      <4>2. QED
        BY <4>1 DEF OnWire, Number
    <3>3. Proofs!Decode(n)
      BY <3>1 DEF Reorder!Decode, Reorder!DropLate, Reorder!Store, Reorder!Jump, Reorder!Start,
        Reorder!Ahead, Reorder!Distinguishable, Reorder!Expect, Reorder!Base, Reorder!Seq16,
        Reorder!SeqAhead, Reorder!SlotOf, Reorder!vars,
        Proofs!Decode, Proofs!DropLate, Proofs!Store, Proofs!Jump, Proofs!Start,
        Proofs!Ahead, Proofs!Distinguishable, Proofs!Expect, Proofs!Base, Proofs!Seq16,
        Proofs!SeqAhead, Proofs!SlotOf, Proofs!vars
    <3>4. QED
      BY <3>2, <3>3 DEF Proofs!WindowNext
  <2>3. CASE Flush
    BY <2>3 DEF Flush, Step, Reorder!FlushSlot, Reorder!FlushedSlot, Reorder!Release, Reorder!SlotOf,
      Reorder!Seq16, Reorder!NoPacket, Proofs!WindowNext, Proofs!FlushSlot, Proofs!FlushedSlot,
      Proofs!Release, Proofs!SlotOf, Proofs!Seq16, Proofs!NoPacket
  <2>4. CASE FlushDone
    BY <2>4 DEF FlushDone, Step, Reorder!FlushDone, Reorder!SlotOf, Reorder!Seq16, Reorder!NoPacket,
      Proofs!WindowNext, Proofs!FlushDone, Proofs!SlotOf, Proofs!Seq16, Proofs!NoPacket
  <2>5. CASE Drain
    BY <2>5 DEF Drain, Step, Reorder!DrainSlot, Reorder!Release, Reorder!SlotOf, Reorder!Seq16,
      Reorder!NoPacket, Proofs!WindowNext, Proofs!DrainSlot, Proofs!Release, Proofs!SlotOf,
      Proofs!Seq16, Proofs!NoPacket
  <2>6. CASE DrainDone
    BY <2>6 DEF DrainDone, Step, Reorder!DrainDone, Reorder!SlotOf, Reorder!NoPacket,
      Proofs!WindowNext, Proofs!DrainDone, Proofs!SlotOf, Proofs!NoPacket
  <2>7. QED
    BY <2>1, <2>2, <2>3, <2>4, <2>5, <2>6 DEF Next
<1>3. Proofs!WindowSpec => []Proofs!IInv /\ []Proofs!ShortGaps
  <2>1. Proofs!DepthDividesModulus
    BY DEF Reorder!DepthDividesModulus, Proofs!DepthDividesModulus
  <2>2. Proofs!WindowSpec => []Proofs!IInv
    BY <2>1, Assumptions, Proofs!WindowInvariant
  <2>3. Proofs!WindowSpec => []Proofs!ShortGaps
    BY <2>1, Assumptions, Proofs!GapsAreShort
  <2>4. QED
    BY <2>2, <2>3
<1>4. Proofs!IInv => Proofs!TypeOK /\ Proofs!InOrder
  BY DEF Proofs!IInv, Proofs!OutInv
<1>5. QED
  BY <1>1, <1>2, <1>3, <1>4, PTL DEF Spec, Proofs!WindowSpec

\* The inductive invariant of the stream.
LEMMA StreamInvariant ==
  Reorder!DepthDividesModulus => (Spec /\ []Tracked => []StreamInv)
<1> SUFFICES ASSUME Reorder!DepthDividesModulus PROVE Spec /\ []Tracked => []StreamInv
  OBVIOUS
<1>1. Init => StreamInv
  BY StreamInit
<1>2. StreamInv /\ Proofs!TypeOK /\ Proofs!InOrder' /\ Tracked' /\ [Next]_vars => StreamInv'
  BY StreamStep
<1>3. Spec => [](Proofs!TypeOK /\ Proofs!InOrder)
  BY WindowInStream
<1>4. QED
  BY <1>1, <1>2, <1>3, PTL DEF Spec

-----------------------------------------------------------------------------
\* A delivered unit is the one the sender was given.
LEMMA WholeIsUnit ==
  ASSUME stream \in Seq(Units), NEW d, Whole(stream, d)
  PROVE  IsUnit(d, UnitIn(d))
<1> DEFINE u == UnitIn(d)
<1>1. u \in 1 .. Len(stream) /\ Len(d) = Len(Els(stream, u))
      /\ \A j \in 1 .. Len(d) : Part(d[j], u, j, Els(stream, u)[j])
  BY DEF Whole, UnitIn
<1>2. /\ Len(Els(stream, u)) = Len(Obus(stream, u)) /\ Len(Els(stream, u)) \in Nat
      /\ \A j \in 1 .. Len(Els(stream, u)) :
           Els(stream, u)[j] = Obus(stream, u)[j].len /\ Els(stream, u)[j] \in Nat \ {0}
  BY <1>1, ElsType
<1> HIDE DEF u
<1>3. Obus(stream, u) = Sender!Forwarded(stream[u].obus)
  BY DEF Obus
<1>4. ASSUME NEW j \in 1 .. Len(d) PROVE WholeElement(d[j], u, j)
  <2> DEFINE q == d[j]  len == Sender!Forwarded(stream[u].obus)[j].len
  <2>1. Part(q, u, j, len) /\ len # 0
    BY <1>1, <1>2, <1>3
  <2> HIDE DEF q, len
  <2>2. q # << >> /\ q \in Seq(Sender!ChunkType)
    BY <2>1 DEF Part
  <2>3. 1 \in 1 .. Len(q)
    BY <2>2, EmptySeq, LenProperties
  <2>4. q[1].from = 0
    BY <2>1, <2>3 DEF Part
  <2>5. QED
    BY <2>1, <2>2, <2>4 DEF Part, WholeElement, q, len
<1>5. Len(d) = Len(Sender!Forwarded(stream[u].obus))
  BY <1>1, <1>2, <1>3
<1>6. QED
  BY <1>4, <1>5 DEF IsUnit, u

(***************************************************************************)
(* Whatever the network and an SFU in the path do, what the decoder is     *)
(* given are whole temporal units, the first starts a coded video          *)
(* sequence, and each one follows the unit the encoder made before it or   *)
(* starts a sequence itself (av1_depay_packet, rtp.c:600-700).             *)
(***************************************************************************)
THEOREM DecoderGetsDecodable ==
  Reorder!DepthDividesModulus => (Spec /\ []Tracked => []DeliveredDecodable)
<1> SUFFICES ASSUME Reorder!DepthDividesModulus
             PROVE  Spec /\ []Tracked => []DeliveredDecodable
  OBVIOUS
<1>1. ASSUME StreamInv PROVE DeliveredDecodable
  <2>1. DeliveredOK(stream, delivered) /\ stream \in Seq(Units)
    BY <1>1 DEF StreamInv, SourceInv, DepayOK, SenderOK
  <2>2. \A k \in 1 .. Len(delivered) : DeliveredUnit(k) = UnitIn(delivered[k])
    BY DEF DeliveredUnit, UnitIn
  <2>3. DeliveredWhole
    BY <2>1, <2>2, WholeIsUnit DEF DeliveredWhole, DeliveredOK
  <2>4. \A u : StartsSequence(u) = Starts(stream, u)
    BY DEF StartsSequence, Starts, Obus
  <2>5. \A u, v : MayFollow(stream, u, v) => Decodable(u, v)
    BY <2>4 DEF MayFollow, Decodable, Silent, Sent
  <2>6. delivered # << >> => 1 \in 1 .. Len(delivered)
    BY <2>1, EmptySeq, LenProperties DEF DeliveredOK
  <2>7. delivered # << >> => StartsSequence(DeliveredUnit(1))
    BY <2>1, <2>2, <2>4, <2>6 DEF DeliveredOK
  <2>8. ASSUME NEW k \in 1 .. Len(delivered) - 1
        PROVE  Decodable(DeliveredUnit(k), DeliveredUnit(k + 1))
    <3>1. k \in 1 .. Len(delivered) /\ k + 1 \in 1 .. Len(delivered)
      BY <2>1, LenProperties DEF DeliveredOK
    <3>2. QED
      BY <2>1, <2>2, <2>5, <3>1 DEF DeliveredOK
  <2>9. QED
    BY <2>3, <2>7, <2>8 DEF DeliveredDecodable
<1>2. QED
  BY <1>1, StreamInvariant, PTL

(***************************************************************************)
(* An SFU that adds header extensions the depacketizer cannot read does so *)
(* now and then: of two packets released one after the other, one at least *)
(* is read.  The window never lets more than half the sequence space go at *)
(* once, so every loss is then noticed.                                    *)
(***************************************************************************)
Sparse ==
  \A k \in 1 .. Len(out) - 1 :
    PacketOf(out[k]).kind # "bad" \/ PacketOf(out[k + 1]).kind # "bad"

LEMMA TwoGaps ==
  ASSUME NEW a \in Int, NEW b \in Int, NEW c \in Int, NEW m \in Nat,
         b - a <= m \div 2, c - b <= m \div 2
  PROVE  b - a <= m /\ c - a <= m
  OBVIOUS

LEMMA SparseIsTracked ==
  ASSUME Proofs!TypeOK, Proofs!ShortGaps, Sparse
  PROVE  Tracked
<1>1. out \in Seq(Nat) /\ Len(out) \in Nat /\ SeqModulus \in Nat
  <2>1. out \in Seq(Nat)
    BY DEF Proofs!TypeOK
  <2>2. QED
    BY <2>1, StreamAssumption, LenProperties
<1>2. \A k \in 1 .. Len(out) - 1 : out[k + 1] - out[k] <= SeqModulus \div 2
  BY DEF Proofs!ShortGaps, Proofs!HalfSpace
<1>3. \A k \in 1 .. Len(out) : out[k] \in Int
  BY <1>1
<1>4. ASSUME NEW k \in 1 .. Len(out), NEW l \in 1 .. Len(out), k < l,
             \A j \in k + 1 .. l - 1 : PacketOf(out[j]).kind = "bad"
      PROVE  out[l] - out[k] <= SeqModulus
  <2>1. CASE l = k + 1
    <3>1. k \in 1 .. Len(out) - 1 /\ out[k] \in Int /\ out[l] \in Int
      BY <1>1, <1>3, <2>1
    <3>2. out[l] - out[k] <= SeqModulus \div 2
      BY <1>2, <2>1, <3>1
    <3>3. QED
      BY <1>1, <3>1, <3>2, TwoGaps
  <2>2. CASE l = k + 2
    <3>1. /\ k \in 1 .. Len(out) - 1 /\ k + 1 \in 1 .. Len(out) - 1
          /\ out[k] \in Int /\ out[k + 1] \in Int /\ out[l] \in Int
      BY <1>1, <1>3, <2>2
    <3>2. out[k + 1] - out[k] <= SeqModulus \div 2 /\ out[l] - out[k + 1] <= SeqModulus \div 2
      <4>1. l = (k + 1) + 1
        BY <2>2
      <4>2. QED
        BY <1>2, <3>1, <4>1
    <3>3. QED
      BY <1>1, <3>1, <3>2, TwoGaps
  <2>3. CASE l > k + 2
    <3>1. k + 1 \in k + 1 .. l - 1 /\ k + 2 \in k + 1 .. l - 1 /\ k + 1 \in 1 .. Len(out) - 1
      BY <1>1, <2>3
    <3>2. PacketOf(out[k + 1]).kind = "bad" /\ PacketOf(out[k + 2]).kind = "bad"
      BY <1>4, <3>1
    <3>3. k + 2 = (k + 1) + 1
      OBVIOUS
    <3>4. QED
      BY <3>1, <3>2, <3>3 DEF Sparse
  <2>4. QED
    BY <1>1, <1>4, <2>1, <2>2, <2>3
<1>5. QED
  BY <1>4 DEF Tracked

\* ... and so for every network, when unreadable packets are not released in a row.
THEOREM SparseKeepsDecodable ==
  Reorder!DepthDividesModulus => (Spec /\ []Sparse => []DeliveredDecodable)
<1> SUFFICES ASSUME Reorder!DepthDividesModulus
             PROVE  Spec /\ []Sparse => []DeliveredDecodable
  OBVIOUS
<1>1. Spec => [](Proofs!TypeOK /\ Proofs!InOrder /\ Proofs!ShortGaps)
  BY WindowInStream
<1>2. Proofs!TypeOK /\ Proofs!ShortGaps /\ Sparse => Tracked
  BY SparseIsTracked
<1>3. Spec /\ []Tracked => []DeliveredDecodable
  BY DecoderGetsDecodable
<1>4. QED
  BY <1>1, <1>2, <1>3, PTL

-----------------------------------------------------------------------------
(* What is sent of a unit.                                                   *)

LEMMA FirstsMore ==
  ASSUME NEW s, NEW w \in Seq(AnyPacket), WireFirsts(s, w), NEW p \in AnyPacket,
         p.kind # "media" => p.elems = << >>,
         p.kind = "media" /\ FirstOfUnit(p.elems[1]) =>
           /\ \A k \in 1 .. Len(w) : Media(w, k) => UnitOf(w[k]) < UnitOf(p)
           /\ Starts(s, UnitOf(p)) => p.n
  PROVE  /\ WireFirsts(s, Append(w, p))
         /\ \A u : SentWhole(w, u) => SentWhole(Append(w, p), u)
<1> DEFINE v == Append(w, p)
<1>1. /\ Len(w) \in Nat /\ Len(v) = Len(w) + 1 /\ v[Len(v)] = p
      /\ \A k \in 1 .. Len(w) : k \in 1 .. Len(v) /\ v[k] = w[k] /\ Media(v, k) = Media(w, k)
      /\ Media(v, Len(v)) = (p.kind = "media")
  BY WireGrows
<1> HIDE DEF v
<1>2. \A k \in 1 .. Len(w) : FirstPacket(v, k) = FirstPacket(w, k)
  BY <1>1 DEF FirstPacket
<1>3. FirstPacket(v, Len(v)) <=> p.kind = "media" /\ FirstOfUnit(p.elems[1])
  BY <1>1 DEF FirstPacket
<1>4. \A k \in 1 .. Len(v) : k = Len(v) \/ k \in 1 .. Len(w)
  BY <1>1
<1>5. ASSUME NEW k \in 1 .. Len(v), ~Media(v, k) PROVE v[k].elems = << >>
  BY <1>1, <1>4, <1>5 DEF WireFirsts
<1>6. ASSUME NEW k \in 1 .. Len(v), NEW l \in 1 .. Len(v), Media(v, k), FirstPacket(v, l), k < l
      PROVE  UnitOf(v[k]) < UnitOf(v[l])
  <2>1. k \in 1 .. Len(w)
    BY <1>1, <1>6
  <2>2. CASE l = Len(v)
    BY <1>1, <1>3, <1>6, <2>1, <2>2
  <2>3. CASE l \in 1 .. Len(w)
    BY <1>1, <1>2, <1>6, <2>1, <2>3 DEF WireFirsts
  <2>4. QED
    BY <1>4, <2>2, <2>3
<1>7. ASSUME NEW l \in 1 .. Len(v), FirstPacket(v, l), Starts(s, UnitOf(v[l])) PROVE v[l].n
  BY <1>1, <1>2, <1>3, <1>4, <1>7 DEF WireFirsts
<1>8. \A u : SentWhole(w, u) => SentWhole(v, u)
  BY <1>1, <1>2 DEF SentWhole
<1>9. QED
  BY <1>5, <1>6, <1>7, <1>8 DEF WireFirsts, v

LEMMA FirstsExtend ==
  ASSUME NEW s, NEW r, Extends(s, r), NEW w, WireOK(s, w), WireFirsts(s, w)
  PROVE  WireFirsts(r, w)
<1>1. ASSUME NEW l \in 1 .. Len(w), FirstPacket(w, l) PROVE Starts(r, UnitOf(w[l])) = Starts(s, UnitOf(w[l]))
  BY <1>1, WireUnits, SameUnits DEF FirstPacket
<1>2. QED
  BY <1>1 DEF WireFirsts

\* The unit begun is the first of its packets' unit that nothing was sent of.
LEMMA BeginFirsts ==
  ASSUME WireOK(stream, wire), SenderOK, FirstsOK, NEW t \in Units,
         Sender!EncodeNothing(t) \/ Sender!EncodeBegin(t)
  PROVE  FirstsOK'
<1>1. /\ stream' = Append(stream, t) /\ ~Sender!Encoding /\ stream \in Seq(Units) /\ wire' = wire
  BY DEF Sender!EncodeNothing, Sender!EncodeBegin, Sender!Accept, SenderOK
<1>2. Extends(stream, stream') /\ Len(stream') = Len(stream) + 1 /\ stream'[Len(stream) + 1] = t
      /\ Len(stream) \in Nat
  BY <1>1, AppendExtends, LenProperties
<1>3. WireFirsts(stream', wire')
  BY <1>1, <1>2, FirstsExtend DEF FirstsOK
<1>4. ASSUME NEW u \in Finished' PROVE SentWhole(wire', u)
  <2>1. /\ u \in 1 .. Len(stream') /\ ~Sender!Unsendable(stream'[u])
        /\ u = Len(stream') => ~(elements' # << >>)
    BY DEF Finished, Sent, Sender!Encoding
  <2>2. u # Len(stream')
    <3>1. CASE Sender!EncodeNothing(t)
      BY <1>2, <2>1, <3>1 DEF Sender!EncodeNothing
    <3>2. CASE Sender!EncodeBegin(t)
      <4>1. elements' = Els(stream', Len(stream')) /\ stream' \in Seq(Units) /\ ~Sender!Unsendable(t)
            /\ Len(stream') \in 1 .. Len(stream')
        BY <1>1, <1>2, <3>2 DEF Sender!EncodeBegin, Els, Obus, Extends
      <4>2. Len(elements') > 0
        BY <1>2, <4>1, ElsType
      <4>3. elements' # << >>
        BY <4>2, EmptySeq
      <4>4. QED
        BY <2>1, <4>3
    <3>3. QED
      BY <3>1, <3>2
  <2>3. u \in 1 .. Len(stream) /\ ~Sender!Unsendable(stream[u])
    <3>1. u \in 1 .. Len(stream)
      BY <1>2, <2>1, <2>2
    <3>2. QED
      BY <1>2, <2>1, <3>1, SameUnits
  <2>4. u \in Finished
    BY <1>1, <2>3 DEF Finished, Sent
  <2>5. QED
    BY <1>1, <2>4 DEF FirstsOK
<1>5. ASSUME Sender!Encoding' PROVE FirstsEncoding'
  <2>1. firstPacket' = TRUE
    <3>1. ~Sender!EncodeNothing(t)
      BY <1>1, <1>5 DEF Sender!EncodeNothing, Sender!Encoding
    <3>2. QED
      BY <3>1 DEF Sender!EncodeBegin
  <2>2. ASSUME NEW k \in 1 .. Len(wire), Media(wire, k) PROVE UnitOf(wire[k]) < Len(stream')
    <3>1. UnitOf(wire[k]) \in 1 .. Len(stream)
      BY <2>2, WireUnits
    <3>2. QED
      BY <1>2, <3>1
  <2>3. QED
    BY <1>1, <2>1, <2>2 DEF FirstsEncoding
<1>6. QED
  BY <1>3, <1>4, <1>5 DEF FirstsOK

LEMMA AddFirsts ==
  ASSUME WireOK(stream, wire), SenderOK, FirstsOK, Sender!AddElement
  PROVE  FirstsOK'
<1>1. UNCHANGED <<stream, elements, firstPacket, wire>> /\ Sender!Encoding
  BY DEF Sender!AddElement
<1>2. StartElement' = StartElement /\ StartByte' = StartByte
  BY AddElementStep
<1>3. Finished' = Finished
  BY <1>1 DEF Finished, Sent, Sender!Encoding
<1>4. FirstsEncoding' = FirstsEncoding
  BY <1>1, <1>2 DEF FirstsEncoding
<1>5. QED
  BY <1>1, <1>3, <1>4 DEF FirstsOK

\* The first packet of a unit says so, the last one carries the marker.
LEMMA SendFirsts ==
  ASSUME WireOK(stream, wire), SenderOK, FirstsOK, Sender!SendPacket
  PROVE  FirstsOK'
<1> DEFINE p == Sender!Packet  n == Len(stream)
<1>1. /\ SenderEncoding /\ Sender!Encoding /\ FirstsEncoding
      /\ firstPacket' = FALSE /\ payload' = << >> /\ stream \in Seq(Units)
      /\ elements' = (IF index > Len(elements) THEN << >> ELSE elements)
      /\ UNCHANGED <<stream, index, offset, isNew>>
  BY DEF Sender!SendPacket, SenderOK, FirstsOK
<1>2. PacketBegun /\ p \in AnyPacket /\ wire' = Append(wire, p)
  BY SendPacketStep
<1>3. /\ p.kind = "media" /\ p.n = (firstPacket /\ isNew) /\ p.marker = (index > Len(elements))
      /\ p.elems = payload
  BY DEF Sender!Packet
<1> HIDE DEF p
<1>4. /\ Elems(stream, payload) /\ payload # << >> /\ payload[1].unit = n /\ UnitOf(p) = n
      /\ StartElement = payload[1].element /\ StartByte = payload[1].from
  BY <1>2, <1>3 DEF PacketBegun, Elems, UnitOf, StartElement, StartByte
<1>5. FirstOfUnit(p.elems[1]) <=> firstPacket
  BY <1>1, <1>2, <1>3, <1>4 DEF FirstOfUnit, PacketBegun, FirstsEncoding
<1>6. wire \in Seq(AnyPacket)
  BY DEF WireOK
<1>7. /\ Len(wire) \in Nat /\ Len(wire') = Len(wire) + 1 /\ wire'[Len(wire')] = p
      /\ \A k \in 1 .. Len(wire) : k \in 1 .. Len(wire') /\ wire'[k] = wire[k] /\ Media(wire', k) = Media(wire, k)
      /\ Media(wire', Len(wire'))
  BY <1>2, <1>3, <1>6, WireGrows
<1>8. /\ WireFirsts(stream', wire')
      /\ \A u : SentWhole(wire, u) => SentWhole(wire', u)
  <2>1. FirstOfUnit(p.elems[1]) =>
          /\ \A k \in 1 .. Len(wire) : Media(wire, k) => UnitOf(wire[k]) < UnitOf(p)
          /\ Starts(stream, UnitOf(p)) => p.n
    BY <1>1, <1>3, <1>4, <1>5 DEF FirstsEncoding, SenderEncoding
  <2>2. WireFirsts(stream, wire)
    BY DEF FirstsOK
  <2>3. /\ WireFirsts(stream, Append(wire, p))
        /\ \A u : SentWhole(wire, u) => SentWhole(Append(wire, p), u)
    BY <1>2, <1>3, <1>6, <2>1, <2>2, FirstsMore
  <2>4. QED
    BY <1>1, <1>2, <2>3
\* by now the first packet of the unit is sent
<1>9. \E k \in 1 .. Len(wire') : FirstPacket(wire', k) /\ UnitOf(wire'[k]) = n
  <2>1. CASE firstPacket
    <3>1. FirstPacket(wire', Len(wire')) /\ Len(wire') \in 1 .. Len(wire')
      BY <1>5, <1>7, <2>1 DEF FirstPacket
    <3>2. QED
      BY <1>4, <1>7, <3>1
  <2>2. CASE ~firstPacket
    <3>1. PICK k \in 1 .. Len(wire) : FirstPacket(wire, k) /\ UnitOf(wire[k]) = n
      BY <1>1, <2>2 DEF FirstsEncoding
    <3>2. QED
      BY <1>7, <3>1 DEF FirstPacket
  <2>3. QED
    BY <2>1, <2>2
<1>10. ASSUME NEW u \in Finished' PROVE SentWhole(wire', u)
  <2>1. CASE u \in Finished
    BY <1>8, <2>1 DEF FirstsOK
  <2>2. CASE u \notin Finished
    <3>1. u = n /\ elements' = << >>
      BY <1>1, <1>10, <2>2 DEF Finished, Sent, Sender!Encoding
    <3>2. index > Len(elements)
      BY <1>1, <3>1 DEF Sender!Encoding
    <3>3. Len(wire') \in 1 .. Len(wire') /\ wire'[Len(wire')].marker
      <4>1. p.marker
        BY <1>3, <3>2
      <4>2. QED
        BY <1>7, <4>1
    <3>4. QED
      BY <1>4, <1>7, <1>9, <3>1, <3>3 DEF SentWhole
  <2>3. QED
    BY <2>1, <2>2
<1>11. FirstsEncoding'
  <2>1. StartElement' = index /\ StartByte' = offset
    BY <1>1 DEF StartElement, StartByte
  <2>2. ~(index = 1 /\ offset = 0)
    <3>1. /\ GoodChunk(stream, LastChunk(payload))
      BY <1>4, PacketEnds
    <3>2. /\ LastChunk(payload).element \in Nat \ {0} /\ LastChunk(payload).from \in Nat
          /\ LastChunk(payload).len \in Nat \ {0}
      BY <3>1 DEF GoodChunk, Sender!ChunkType
    <3>3. \/ offset = LastChunk(payload).from + LastChunk(payload).len
          \/ index = LastChunk(payload).element + 1
      BY <1>2 DEF PacketBegun
    <3>4. QED
      BY <3>2, <3>3
  <2>3. QED
    BY <1>1, <1>9, <2>1, <2>2 DEF FirstsEncoding
<1>12. QED
  BY <1>8, <1>10, <1>11 DEF FirstsOK

LEMMA SfuFirsts ==
  ASSUME WireOK(stream, wire), FirstsOK, NEW kind \in {"probe", "bad"}, SfuAdds(kind)
  PROVE  FirstsOK'
<1> DEFINE p == [kind |-> kind, seq |-> FirstSeq + Len(wire), z |-> FALSE, y |-> FALSE,
                 n |-> FALSE, marker |-> FALSE, elems |-> << >>]
<1>1. /\ wire' = Append(wire, p) /\ UNCHANGED <<stream, elements, index, offset, firstPacket, payload>>
      /\ p.kind # "media" /\ p.elems = << >>
  BY DEF SfuAdds
<1>2. wire \in Seq(AnyPacket) /\ p \in AnyPacket
  <2>1. FirstSeq + Len(wire) \in Nat
    BY StreamAssumption, LenProperties DEF Sender!PacketizerAssumption, WireOK
  <2>2. QED
    BY <2>1, EmptySeq DEF AnyPacket, WireOK
<1> HIDE DEF p
<1>3. /\ WireFirsts(stream, wire')
      /\ \A u : SentWhole(wire, u) => SentWhole(wire', u)
  BY <1>1, <1>2, FirstsMore DEF FirstsOK
<1>4. Finished' = Finished
  BY <1>1 DEF Finished, Sent, Sender!Encoding
<1>5. Sender!Encoding' = Sender!Encoding /\ StartElement' = StartElement /\ StartByte' = StartByte
  BY <1>1 DEF Sender!Encoding, StartElement, StartByte
<1>6. /\ Len(wire) \in Nat /\ Len(wire') = Len(wire) + 1
      /\ \A k \in 1 .. Len(wire) : k \in 1 .. Len(wire') /\ wire'[k] = wire[k] /\ Media(wire', k) = Media(wire, k)
      /\ ~Media(wire', Len(wire'))
  BY <1>1, <1>2, WireGrows
<1>7. ASSUME FirstsEncoding PROVE FirstsEncoding'
  <2>1. ASSUME NEW k \in 1 .. Len(wire'), Media(wire', k) PROVE k \in 1 .. Len(wire)
    BY <1>6, <2>1
  <2>2. QED
    BY <1>1, <1>5, <1>6, <1>7, <2>1 DEF FirstsEncoding, FirstPacket
<1>8. QED
  BY <1>1, <1>3, <1>4, <1>5, <1>7 DEF FirstsOK

LEMMA FirstsStep ==
  ASSUME SourceInv, FirstsOK, [Next]_vars
  PROVE  FirstsOK'
<1>1. WireOK(stream, wire) /\ SenderOK
  BY DEF SourceInv
<1>2. CASE Encode
  <2>1. CASE \E t \in Units : Sender!EncodeNothing(t) \/ Sender!EncodeBegin(t)
    BY <1>1, <2>1, BeginFirsts
  <2>2. CASE Sender!AddElement
    BY <1>1, <2>2, AddFirsts
  <2>3. CASE Sender!SendPacket
    BY <1>1, <2>3, SendFirsts
  <2>4. QED
    BY <1>2, <2>1, <2>2, <2>3 DEF Encode, Sender!EncoderNext
<1>3. CASE \E kind \in {"probe", "bad"} : SfuAdds(kind)
  BY <1>1, <1>3, SfuFirsts
<1>4. CASE UNCHANGED senderVars
  <2>1. UNCHANGED <<stream, elements, index, offset, firstPacket, payload, wire>>
    BY <1>4 DEF senderVars
  <2>2. Finished' = Finished /\ Sender!Encoding' = Sender!Encoding
    BY <2>1 DEF Finished, Sent, Sender!Encoding
  <2>3. StartElement' = StartElement /\ StartByte' = StartByte
    BY <2>1 DEF StartElement, StartByte
  <2>4. FirstsEncoding' = FirstsEncoding
    BY <2>1, <2>3 DEF FirstsEncoding
  <2>5. QED
    BY <2>1, <2>2, <2>4 DEF FirstsOK
<1>5. QED
  BY <1>2, <1>3, <1>4 DEF Next, Arrive, Flush, FlushDone, Drain, DrainDone, Step, vars

LEMMA FirstsInit == Init => FirstsOK
<1> SUFFICES ASSUME Init PROVE FirstsOK
  OBVIOUS
<1>1. stream = << >> /\ elements = << >> /\ wire = << >>
  BY DEF Init, Sender!EncoderInit
<1>2. Len(stream) = 0 /\ Len(wire) = 0
  BY <1>1, EmptySeq
<1>3. \A u \in Finished : FALSE
  BY <1>2 DEF Finished
<1>4. WireFirsts(stream, wire)
  BY <1>2 DEF WireFirsts
<1>5. QED
  BY <1>1, <1>3, <1>4 DEF FirstsOK, Sender!Encoding
-----------------------------------------------------------------------------
(* The depacketizer pays what it owes.                                       *)

LEMMA InOut ==
  ASSUME NEW S, out \in Seq(S)
  PROVE  \A x : x \in Range(out) <=> \E k \in 1 .. Len(out) : out[k] = x
  BY LenProperties DEF Range

\* A media packet that continues, or starts, a unit the buffer has room for is kept.
LEMMA NoDrop ==
  ASSUME NEW n, Given(n), stream \in Seq(Units), PacketOf(n).kind = "media",
         Depay!Continuing(PacketOf(n)) \/ PacketOf(n).n, FitsBuffer(UnitOf(PacketOf(n)))
  PROVE  ~Depay!Mismatch(PacketOf(n)) /\ ~Depay!Corrupt(PacketOf(n))
<1> DEFINE p == PacketOf(n)
<1>1. WireOK(stream, wire) /\ n \in OnWire
  BY DEF Given
<1>2. /\ Elems(stream, p.elems) /\ (p.marker <=> Final(stream, LastChunk(p.elems)))
      /\ (p.y <=> ~Ends(stream, LastChunk(p.elems)))
  BY <1>1, PacketIs
<1>3. /\ Depay!Unit(p) \in AccType /\ Depay!Unit(p).ok /\ ~Depay!Mismatch(p)
      /\ At(stream, Depay!Unit(p), p.elems[1].unit, p.elems[1].element, p.elems[1].from)
  BY StartsAt
<1>4. Fits(stream, p.elems[1].unit)
  BY DEF FitsBuffer, Fits, Obus, UnitOf
<1>5. Depay!ReadElements(Depay!Unit(p), p).ok
  BY <1>2, <1>3, <1>4, LoopStep
<1>6. ~(p.marker /\ p.y)
  BY <1>2 DEF Final
<1>7. QED
  BY <1>3, <1>5, <1>6 DEF Depay!Corrupt

\* Two units delivered are two different markers.
LEMMA OneMarker ==
  ASSUME WireOK(stream, wire), NEW m \in OnWire, NEW n \in OnWire,
         PacketOf(m).kind = "media", PacketOf(n).kind = "media", PacketOf(m).marker, PacketOf(n).marker,
         UnitOf(PacketOf(m)) = UnitOf(PacketOf(n))
  PROVE  m = n
<1>1. wire \in Seq(AnyPacket)
  BY DEF WireOK
<1>2. m \in Nat /\ n \in Nat
  BY <1>1, NumberOnWire
<1>3. UnitOf(PacketOf(m)) \in Int /\ UnitOf(PacketOf(n)) \in Int
  BY PacketIs
<1>4. ~(m < n) /\ ~(n < m)
  BY <1>3, LaterUnit
<1>5. QED
  BY <1>2, <1>4

\* What the depacketizer has delivered after packet n.
LEMMA Outcome ==
  ASSUME NEW n, Given(n), stream \in Seq(Units), Depay!DepayPacket(PacketOf(n))
  PROVE  LET p == PacketOf(n)
         IN  /\ DeliveredUnits \subseteq DeliveredUnits'
             /\ \/ DeliveredUnits' = DeliveredUnits
                \/ /\ Depay!Accumulate(p) /\ p.marker
                   /\ DeliveredUnits' = DeliveredUnits \cup {UnitOf(p)}
             /\ Depay!Accumulate(p) /\ p.marker => UnitOf(p) \in DeliveredUnits'
<1> DEFINE p == PacketOf(n)
<1>1. DeliveredUnits = {UnitIn(delivered[k]) : k \in 1 .. Len(delivered)}
  BY DEF DeliveredUnits, DeliveredUnit, UnitIn
<1>2. DeliveredUnits' = {UnitIn(delivered'[k]) : k \in 1 .. Len(delivered')}
  BY DEF DeliveredUnits, DeliveredUnit, UnitIn
<1>3. CASE delivered' = delivered /\ ~(Depay!Accumulate(p) /\ p.marker)
  BY <1>1, <1>2, <1>3
<1>4. CASE Depay!Accumulate(p) /\ p.marker
  <2>1. PICK d \in Seq(Seq(Sender!ChunkType)) :
          delivered' = Append(delivered, d) /\ UnitIn(d) = UnitOf(p)
    BY <1>4, AccumulateStep
  <2>2. delivered \in Seq(Seq(Seq(Sender!ChunkType)))
    BY DEF Given, DepayOK, DeliveredOK
  <2>3. /\ Len(delivered) \in Nat /\ Len(delivered') = Len(delivered) + 1
        /\ delivered'[Len(delivered) + 1] = d
        /\ \A k \in 1 .. Len(delivered) : delivered'[k] = delivered[k]
    BY <2>1, <2>2, AppendProperties, LenProperties
  <2>4. \A k \in 1 .. Len(delivered') : k \in 1 .. Len(delivered) \/ k = Len(delivered) + 1
    BY <2>3
  <2>5. \A k \in 1 .. Len(delivered) : k \in 1 .. Len(delivered')
    BY <2>3
  <2>6. Len(delivered) + 1 \in 1 .. Len(delivered')
    BY <2>3
  <2> HIDE DEF p
  <2>7. DeliveredUnits' = DeliveredUnits \cup {UnitOf(p)}
    BY <1>1, <1>2, <2>1, <2>3, <2>4, <2>5, <2>6
  <2>8. QED
    BY <1>4, <2>7 DEF p
<1>5. delivered' = delivered \/ (Depay!Accumulate(p) /\ p.marker)
  <2>1. CASE Depay!Accumulate(p)
    BY <2>1, AccumulateStep
  <2>2. CASE ~Depay!Accumulate(p)
    BY <2>2 DEF Depay!DepayPacket, Depay!BadHeader, Depay!Probe, Depay!Skip, Depay!Refuse,
      Depay!Discard, Depay!depayVars
  <2>3. QED
    BY <2>1, <2>2
<1>6. CASE delivered' # delivered
  BY <1>4, <1>5, <1>6
<1>7. QED
  BY <1>3, <1>4, <1>6

\* A packet that parses is the last that did.
LEMMA OnlyLast ==
  ASSUME NEW n, Given(n), PacketOf(n).kind # "bad", NEW l, LastParsed(l)'
  PROVE  l = n
<1>1. /\ Len(out) \in Nat /\ Len(out') = Len(out) + 1 /\ out'[Len(out')] = n
      /\ \A x : PacketOf(x)' = PacketOf(x)
  BY GivenFacts
<1>2. PICK k \in 1 .. Len(out') :
        out'[k] = l /\ \A j \in k + 1 .. Len(out') : PacketOf(out[j])'.kind = "bad"
  BY DEF LastParsed
<1>3. PICK last \in Nat : last = Len(out')
  BY <1>1
<1>4. CASE k = last
  BY <1>1, <1>2, <1>3, <1>4
<1>5. CASE k # last
  <2>1. last \in k + 1 .. Len(out')
    BY <1>1, <1>2, <1>3, <1>5
  <2>2. PacketOf(out[last])'.kind = "bad"
    BY <1>2, <2>1
  <2>3. PacketOf(out[last])' = PacketOf(n)
    <3>1. PacketOf(out[last])' = wire[out'[last] - FirstSeq + 1]
      BY DEF Given, PacketOf
    <3>2. QED
      BY <1>1, <1>3, <3>1 DEF PacketOf
  <2>4. QED
    BY <2>2, <2>3
<1>6. QED
  BY <1>4, <1>5

\* An unreadable packet leaves the last one that parsed the last.
LEMMA StillLast ==
  ASSUME NEW n, Given(n), PacketOf(n).kind = "bad", NEW l, LastParsed(l)'
  PROVE  LastParsed(l) /\ l # n
<1>1. /\ Len(out) \in Nat /\ Len(out') = Len(out) + 1 /\ out'[Len(out')] = n
      /\ \A k \in 1 .. Len(out) : out'[k] = out[k]
      /\ \A x : PacketOf(x)' = PacketOf(x)
  BY GivenFacts
<1>2. PICK k \in 1 .. Len(out') :
        /\ out'[k] = l /\ PacketOf(l)'.kind # "bad"
        /\ \A j \in k + 1 .. Len(out') : PacketOf(out[j])'.kind = "bad"
  BY DEF LastParsed
<1>3. l # n
  BY <1>1, <1>2
<1>4. k \in 1 .. Len(out)
  BY <1>1, <1>2, <1>3
<1>5. ASSUME NEW j \in k + 1 .. Len(out) PROVE PacketOf(out[j]).kind = "bad"
  <2>1. j \in k + 1 .. Len(out') /\ j \in 1 .. Len(out)
    BY <1>1, <1>4
  <2>2. PacketOf(out[j])' = PacketOf(out[j])
    <3>1. PacketOf(out[j])' = wire[out'[j] - FirstSeq + 1]
      BY DEF Given, PacketOf
    <3>2. QED
      BY <1>1, <2>1, <3>1 DEF PacketOf
  <2>3. QED
    BY <1>2, <2>1, <2>2
<1>6. QED
  BY <1>1, <1>2, <1>3, <1>4, <1>5 DEF LastParsed

\* The number before n, if it was released and could be read, was released just before.
LEMMA JustBefore ==
  ASSUME NEW n, Given(n), NEW k \in 1 .. Len(out), out[k] = n - 1, PacketOf(n - 1).kind # "bad"
  PROVE  LastParsed(n - 1) /\ \A l : LastParsed(l) => l = n - 1
<1>1. /\ Len(out) \in Nat /\ Len(out') = Len(out) + 1 /\ out'[Len(out')] = n /\ n \in Nat
      /\ \A j \in 1 .. Len(out) : out'[j] = out[j] /\ out[j] \in Nat /\ out[j] < n
  BY GivenFacts
<1>2. k = Len(out)
  <2> SUFFICES ASSUME k # Len(out) PROVE FALSE
    OBVIOUS
  <2>1. k < Len(out) /\ Len(out) \in 1 .. Len(out) /\ k \in 1 .. Len(out') /\ Len(out) \in 1 .. Len(out')
    BY <1>1
  <2>2. out'[k] < out'[Len(out)]
    BY <2>1 DEF Given, Proofs!InOrder
  <2>3. out[k] < out[Len(out)] /\ out[Len(out)] < n /\ out[Len(out)] \in Nat
    BY <1>1, <2>1, <2>2
  <2>4. QED
    BY <1>1, <2>3
<1>3. ASSUME NEW l, LastParsed(l) PROVE l = n - 1
  <2>1. PICK j \in 1 .. Len(out) :
          out[j] = l /\ \A x \in j + 1 .. Len(out) : PacketOf(out[x]).kind = "bad"
    BY <1>3 DEF LastParsed
  <2>2. j = Len(out)
    <3> SUFFICES ASSUME j # Len(out) PROVE FALSE
      OBVIOUS
    <3>1. k \in j + 1 .. Len(out)
      BY <1>1, <1>2, <2>1
    <3>2. QED
      BY <2>1, <3>1
  <2>3. QED
    BY <1>2, <2>1, <2>2
<1>4. \A x \in k + 1 .. Len(out) : FALSE
  BY <1>1, <1>2
<1>5. QED
  BY <1>3, <1>4 DEF LastParsed

\* Behind the packet before it, with nothing lost, packet n continues.
LEMMA Continues ==
  ASSUME NEW n, Given(n), NEW k \in 1 .. Len(out), out[k] = n - 1, PacketOf(n - 1).kind # "bad",
         ~dropping
  PROVE  Depay!Continuing(PacketOf(n))
<1>1. PICK l \in OnWire, m \in OnWire : Carry(l, m)
  BY DEF Given, DepayOK
<1>2. l = n - 1 /\ n \in Nat
  BY <1>1, JustBefore, GivenFacts DEF Carry
<1>3. PacketOf(n).seq = n
  <2>1. WireOK(stream, wire) /\ n \in OnWire /\ wire \in Seq(AnyPacket)
    BY DEF Given, WireOK
  <2>2. n - FirstSeq + 1 \in 1 .. Len(wire) /\ PacketOf(n) = wire[n - FirstSeq + 1] /\ FirstSeq \in Nat
    BY <2>1, NumberOnWire
  <2>3. wire[n - FirstSeq + 1].seq = FirstSeq + (n - FirstSeq + 1) - 1
    BY <2>1, <2>2 DEF WireOK
  <2>4. QED
    BY <1>2, <2>2, <2>3
<1>4. nextSeq = n % SeqModulus
  <2>1. l + 1 = n
    BY <1>2
  <2>2. QED
    BY <1>1, <2>1 DEF Carry
<1>5. QED
  BY <1>3, <1>4 DEF Depay!Continuing, Depay!Gap

\* A packet the decoder can make use of is kept.
LEMMA Kept ==
  ASSUME NEW n, Given(n), stream \in Seq(Units), Depay!DepayPacket(PacketOf(n)), PacketOf(n).kind # "bad",
         \/ Depay!Continuing(PacketOf(n))
         \/ PacketOf(n).kind = "media" /\ PacketOf(n).n,
         PacketOf(n).kind = "media" => FitsBuffer(UnitOf(PacketOf(n)))
  PROVE  /\ ~dropping'
         /\ PacketOf(n).kind = "media" => Depay!Accumulate(PacketOf(n))
<1> DEFINE p == PacketOf(n)
<1>1. CASE p.kind = "media"
  <2>1. ~Depay!Mismatch(p) /\ ~Depay!Corrupt(p)
    BY <1>1, NoDrop
  <2>2. Depay!Accumulate(p)
    BY <1>1, <2>1 DEF Depay!DepayPacket, Depay!BadHeader, Depay!Probe, Depay!Skip, Depay!Refuse
  <2>3. dropping' = FALSE
    BY <2>2 DEF Depay!Accumulate
  <2>4. QED
    BY <2>2, <2>3
<1>2. CASE p.kind # "media"
  <2>1. Depay!Probe(p)
    BY <1>2 DEF Depay!DepayPacket, Depay!BadHeader, Depay!Skip, Depay!Refuse, Depay!Accumulate
  <2>2. ~dropping /\ ~Depay!Gap(p)
    BY <1>2 DEF Depay!Continuing
  <2>3. dropping' = dropping
    BY <2>1, <2>2 DEF Depay!Probe
  <2>4. QED
    BY <1>2, <2>2, <2>3
<1>3. QED
  BY <1>1, <1>2

LEMMA DebtsKept ==
  ASSUME NEW n, Given(n), stream \in Seq(Units), Depay!DepayPacket(PacketOf(n)), DebtsPaid
  PROVE  DebtsPaid'
<1> DEFINE p == PacketOf(n)
<1>1. /\ Len(out) \in Nat /\ Len(out') = Len(out) + 1 /\ out'[Len(out')] = n /\ n \in Nat
      /\ \A k \in 1 .. Len(out) : out'[k] = out[k] /\ out[k] \in OnWire /\ out[k] \in Nat /\ out[k] < n
      /\ OnWire' = OnWire /\ wire \in Seq(AnyPacket) /\ \A x : PacketOf(x)' = PacketOf(x)
  BY GivenFacts
<1>2. /\ WireOK(stream, wire) /\ n \in OnWire /\ stream' = stream /\ wire' = wire
      /\ out \in Seq(OnWire) /\ out' \in Seq(OnWire)
  <2>1. out \in Seq(OnWire) /\ n \in OnWire /\ out' = Append(out, n)
    BY DEF Given, WindowOK
  <2>2. QED
    BY <2>1, AppendProperties DEF Given
<1>3. \A x : x \in Range(out)' <=> x \in Range(out) \/ x = n
  <2>1. \A x : x \in Range(out) <=> \E k \in 1 .. Len(out) : out[k] = x
    BY <1>2, InOut
  <2>2. Range(out)' = Range(out')
    OBVIOUS
  <2>3. \A x : x \in Range(out') <=> \E k \in 1 .. Len(out') : out'[k] = x
    BY <1>2, LenProperties DEF Range
  <2>4. \A k \in 1 .. Len(out') : k \in 1 .. Len(out) \/ k = Len(out')
    BY <1>1
  <2>5. Len(out') \in 1 .. Len(out') /\ \A k \in 1 .. Len(out) : k \in 1 .. Len(out')
    BY <1>1
  <2>6. QED
    BY <1>1, <2>1, <2>2, <2>3, <2>4, <2>5
<1>4. \A x \in Range(out) : x \in OnWire /\ x \in Nat /\ x < n
  BY <1>1, <1>2, InOut
<1>5. /\ DeliveredUnits \subseteq DeliveredUnits'
      /\ \/ DeliveredUnits' = DeliveredUnits
         \/ /\ Depay!Accumulate(p) /\ p.marker
            /\ DeliveredUnits' = DeliveredUnits \cup {UnitOf(p)}
      /\ Depay!Accumulate(p) /\ p.marker => UnitOf(p) \in DeliveredUnits'
  BY Outcome
<1>6. Depay!Accumulate(p) => p.kind = "media" /\ dropping' = FALSE
  BY DEF Depay!Accumulate
<1>7. /\ \A u \in DeliveredUnits : \E k \in 1 .. Len(out) :
           PacketOf(out[k]).kind = "media" /\ PacketOf(out[k]).marker /\ UnitOf(PacketOf(out[k])) = u
      /\ \A l \in OnWire :
           LastParsed(l) /\ PacketOf(l).kind = "media" /\ PacketOf(l).marker
             /\ UnitOf(PacketOf(l)) \in DeliveredUnits => ~dropping
      /\ \A a, b \in OnWire :
           /\ Anchor(a) /\ a <= b /\ Released(a, b)
           /\ \A x \in MediaIn(a, b) : FitsBuffer(UnitOf(PacketOf(x)))
           => Owed(a, b)
  BY DEF DebtsPaid
<1> HIDE DEF p
\* the marker of a unit delivered before is another packet
<1>8. ASSUME NEW m \in OnWire, PacketOf(m).kind = "media", PacketOf(m).marker,
             UnitOf(PacketOf(m)) \in DeliveredUnits
      PROVE  m < n /\ \E k \in 1 .. Len(out) : out[k] = m
  <2>1. PICK k \in 1 .. Len(out) :
          PacketOf(out[k]).kind = "media" /\ PacketOf(out[k]).marker
            /\ UnitOf(PacketOf(out[k])) = UnitOf(PacketOf(m))
    BY <1>7, <1>8
  <2>2. out[k] \in OnWire /\ out[k] < n
    BY <1>1
  <2>3. out[k] = m
    BY <1>2, <1>8, <2>1, <2>2, OneMarker
  <2>4. QED
    BY <2>2, <2>3
<1>9. ASSUME NEW u \in DeliveredUnits'
      PROVE  \E k \in 1 .. Len(out') :
               PacketOf(out[k])'.kind = "media" /\ PacketOf(out[k])'.marker /\ UnitOf(PacketOf(out[k]))' = u
  <2>1. \A k : PacketOf(out[k])' = wire[out'[k] - FirstSeq + 1] /\ UnitOf(PacketOf(out[k]))' = UnitOf(PacketOf(out[k])')
    BY <1>2 DEF PacketOf, UnitOf
  <2>2. CASE u \in DeliveredUnits
    <3>1. PICK k \in 1 .. Len(out) :
            PacketOf(out[k]).kind = "media" /\ PacketOf(out[k]).marker /\ UnitOf(PacketOf(out[k])) = u
      BY <1>7, <2>2
    <3>2. k \in 1 .. Len(out') /\ PacketOf(out[k])' = PacketOf(out[k])
      BY <1>1, <2>1 DEF PacketOf
    <3>3. QED
      BY <2>1, <3>1, <3>2
  <2>3. CASE u \notin DeliveredUnits
    <3>1. Depay!Accumulate(p) /\ p.marker /\ u = UnitOf(p)
      BY <1>5, <1>9, <2>3
    <3>2. PICK last \in 1 .. Len(out') : last = Len(out')
      BY <1>1
    <3>3. PacketOf(out[last])' = p
      BY <1>1, <2>1, <3>2 DEF PacketOf, p
    <3>4. QED
      BY <1>6, <2>1, <3>1, <3>2, <3>3
  <2>4. QED
    BY <2>2, <2>3
<1>10. ASSUME NEW l \in OnWire, LastParsed(l)', PacketOf(l).kind = "media", PacketOf(l).marker,
              UnitOf(PacketOf(l)) \in DeliveredUnits'
       PROVE  ~dropping'
  <2>1. CASE PacketOf(n).kind = "bad"
    <3>1. LastParsed(l)
      BY <1>10, <2>1, StillLast
    <3>2. Depay!BadHeader(p)
      BY <2>1 DEF Depay!DepayPacket, Depay!Probe, Depay!Skip, Depay!Refuse, Depay!Accumulate, p
    <3>3. dropping' = dropping /\ DeliveredUnits' = DeliveredUnits
      BY <1>5, <1>6, <2>1, <3>2 DEF Depay!BadHeader, Depay!depayVars, p
    <3>4. QED
      BY <1>7, <1>10, <3>1, <3>3
  <2>2. CASE PacketOf(n).kind # "bad"
    <3>1. l = n
      BY <1>10, <2>2, OnlyLast
    <3>2. UnitOf(PacketOf(l)) \notin DeliveredUnits
      BY <1>1, <1>8, <1>10, <3>1
    <3>3. QED
      BY <1>5, <1>6, <1>10, <3>2
  <2>3. QED
    BY <2>1, <2>2
<1>11. ASSUME NEW a \in OnWire, NEW b \in OnWire, Anchor(a)', a <= b, Released(a, b)',
              \A x \in MediaIn(a, b) : FitsBuffer(UnitOf(PacketOf(x)))
       PROVE  Owed(a, b)'
  <2>1. a \in Nat /\ b \in Nat /\ FirstSeq \in Nat /\ FirstSeq <= a
    BY <1>1, NumberOnWire
  <2>2. \A x \in a .. b : (x \in Range(out) \/ x = n) /\ PacketOf(x).kind # "bad"
    BY <1>1, <1>3, <1>11 DEF Released
  <2>3. a <= n /\ b <= n
    <3>1. a \in a .. b /\ b \in a .. b
      BY <1>11, <2>1
    <3>2. QED
      BY <1>1, <1>4, <2>1, <2>2, <3>1
  <2>4. Anchor(a)
    <3> SUFFICES ASSUME ~(PacketOf(a).kind = "media" /\ PacketOf(a).n)
                 PROVE  Anchor(a)
      BY DEF Anchor
    <3>1. /\ a - 1 \in OnWire /\ PacketOf(a - 1).kind = "media" /\ PacketOf(a - 1).marker
          /\ UnitOf(PacketOf(a - 1)) \in DeliveredUnits'
      <4>1. \/ PacketOf(a)'.kind = "media" /\ PacketOf(a)'.n
            \/ /\ a - 1 \in OnWire' /\ PacketOf(a - 1)'.kind = "media" /\ PacketOf(a - 1)'.marker
               /\ UnitOf(PacketOf(a - 1)') \in DeliveredUnits'
        BY <1>11 DEF Anchor, UnitOf
      <4>2. QED
        BY <1>1, <4>1
    <3>2. UnitOf(PacketOf(a - 1)) \in DeliveredUnits
      <4> SUFFICES ASSUME UnitOf(PacketOf(a - 1)) \notin DeliveredUnits PROVE FALSE
        OBVIOUS
      <4>1. p.marker /\ p.kind = "media" /\ UnitOf(PacketOf(a - 1)) = UnitOf(p)
        BY <1>5, <1>6, <3>1
      <4>2. a - 1 = n
        BY <1>2, <3>1, <4>1, OneMarker DEF p
      <4>3. QED
        BY <1>1, <2>1, <2>3, <4>2
    <3>3. QED
      BY <3>1, <3>2 DEF Anchor
  <2>5. CASE n \notin a .. b
    <3>1. Released(a, b)
      BY <2>2, <2>5 DEF Released
    <3>2. Owed(a, b)
      BY <1>7, <1>11, <2>4, <3>1
    <3>3. LastParsed(b)' => ~dropping'
      <4> SUFFICES ASSUME LastParsed(b)' PROVE ~dropping'
        OBVIOUS
      <4>1. b # n
        BY <1>1, <1>11, <2>1, <2>5
      <4>2. PacketOf(n).kind = "bad"
        BY <4>1, OnlyLast
      <4>3. LastParsed(b)
        BY <4>2, StillLast
      <4>4. Depay!BadHeader(p)
        BY <4>2 DEF Depay!DepayPacket, Depay!Probe, Depay!Skip, Depay!Refuse, Depay!Accumulate, p
      <4>5. QED
        BY <3>2, <4>3, <4>4 DEF Depay!BadHeader, Depay!depayVars, Owed
    <3>4. QED
      BY <1>1, <1>5, <3>2, <3>3 DEF Owed, MediaIn, UnitOf
  <2>6. CASE n \in a .. b
    <3>1. b = n /\ PacketOf(n).kind # "bad"
      BY <1>1, <2>1, <2>2, <2>3, <2>6
    <3>2. ASSUME a < n
          PROVE  /\ n - 1 \in OnWire /\ Owed(a, n - 1) /\ \E k \in 1 .. Len(out) : out[k] = n - 1
                 /\ PacketOf(n - 1).kind # "bad"
      <4>1. n - 1 \in a .. b /\ n - 1 # n /\ n - 1 \in Int /\ a <= n - 1 /\ FirstSeq <= n - 1 /\ n - 1 <= n
        BY <1>1, <2>1, <3>1, <3>2
      <4>2. n - 1 \in OnWire
        BY <1>1, <1>2, <4>1, NumberOnWire
      <4>3. n - 1 \in Range(out) /\ PacketOf(n - 1).kind # "bad"
        BY <2>2, <4>1
      <4>4. \A x \in a .. n - 1 : x \in a .. b /\ x # n
        BY <1>1, <2>1, <3>1
      <4>5. Released(a, n - 1)
        BY <2>2, <4>4 DEF Released
      <4>6. \A x \in MediaIn(a, n - 1) : x \in MediaIn(a, b)
        BY <4>4 DEF MediaIn
      <4>7. Owed(a, n - 1)
        BY <1>7, <1>11, <2>4, <4>1, <4>2, <4>5, <4>6
      <4>8. QED
        BY <1>2, <4>2, <4>3, <4>7, InOut
    <3>3. Depay!Continuing(p) \/ (p.kind = "media" /\ p.n)
      <4>1. CASE a < n
        <5>1. LastParsed(n - 1)
          BY <3>2, <4>1, JustBefore
        <5>2. ~dropping
          BY <3>2, <4>1, <5>1 DEF Owed
        <5>3. QED
          BY <3>2, <4>1, <5>2, Continues DEF p
      <4>2. CASE a = n /\ ~(p.kind = "media" /\ p.n)
        <5>1. /\ n - 1 \in OnWire /\ PacketOf(n - 1).kind = "media" /\ PacketOf(n - 1).marker
              /\ UnitOf(PacketOf(n - 1)) \in DeliveredUnits
          BY <2>4, <4>2 DEF Anchor, p
        <5>2. \E k \in 1 .. Len(out) : out[k] = n - 1
          BY <1>8, <5>1
        <5>3. LastParsed(n - 1)
          BY <5>1, <5>2, JustBefore
        <5>4. ~dropping
          BY <1>7, <5>1, <5>3
        <5>5. QED
          BY <5>1, <5>2, <5>4, Continues DEF p
      <4>3. QED
        BY <1>1, <2>1, <2>3, <4>1, <4>2
    <3>4. p.kind = "media" => FitsBuffer(UnitOf(p))
      BY <1>11, <2>6 DEF MediaIn, p
    <3>5. ~dropping' /\ (p.kind = "media" => Depay!Accumulate(p))
      BY <3>1, <3>3, <3>4, Kept DEF p
    <3>6. ASSUME NEW x \in MediaIn(a, b), PacketOf(x).marker
          PROVE  UnitOf(PacketOf(x)) \in DeliveredUnits'
      <4>1. x \in a .. b /\ PacketOf(x).kind = "media"
        BY <3>6 DEF MediaIn
      <4>2. CASE x = n
        BY <1>5, <3>5, <3>6, <4>1, <4>2 DEF p
      <4>3. CASE x # n
        <5>1. a < n /\ x \in a .. n - 1
          BY <1>1, <2>1, <3>1, <4>1, <4>3
        <5>2. x \in MediaIn(a, n - 1)
          BY <4>1, <5>1 DEF MediaIn
        <5>3. QED
          BY <1>5, <3>2, <3>6, <5>1, <5>2 DEF Owed
      <4>4. QED
        BY <4>2, <4>3
    <3>7. QED
      BY <1>1, <3>5, <3>6 DEF Owed, MediaIn, UnitOf
  <2>7. QED
    BY <2>5, <2>6
<1>12. ASSUME NEW a \in OnWire', NEW b \in OnWire', Anchor(a)', a <= b, Released(a, b)',
              (\A x \in MediaIn(a, b) : FitsBuffer(UnitOf(PacketOf(x))))'
       PROVE  Owed(a, b)'
  <2>1. a \in OnWire /\ b \in OnWire
    BY <1>1
  <2>2. MediaIn(a, b)' = MediaIn(a, b)
    BY <1>1 DEF MediaIn
  <2>3. \A x \in MediaIn(a, b) : FitsBuffer(UnitOf(PacketOf(x)))
    BY <1>2, <1>12, <2>2 DEF FitsBuffer, UnitOf, PacketOf
  <2>4. QED
    BY <1>11, <1>12, <2>1, <2>3
<1>13. ASSUME NEW l \in OnWire', LastParsed(l)', PacketOf(l)'.kind = "media", PacketOf(l)'.marker,
              UnitOf(PacketOf(l))' \in DeliveredUnits'
       PROVE  ~dropping'
  BY <1>1, <1>10, <1>13 DEF UnitOf
<1>14. QED
  BY <1>9, <1>12, <1>13 DEF DebtsPaid

\* Nothing is released: nothing more is owed, and nothing is taken back.
LEMMA DebtsSame ==
  ASSUME WireOK(stream, wire), WindowOK, Extends(stream, stream'), DebtsPaid,
         wire' = wire \/ \E p \in AnyPacket : wire' = Append(wire, p),
         out' = out, UNCHANGED depayVars
  PROVE  DebtsPaid'
<1>1. wire \in Seq(AnyPacket) /\ FirstSeq \in Nat
  BY StreamAssumption DEF WireOK, Sender!PacketizerAssumption
<1>2. \A x \in OnWire : x \in OnWire' /\ PacketOf(x)' = PacketOf(x)
  BY <1>1, OnWireGrows
<1>3. \A x \in OnWire : wire'[x - FirstSeq + 1] = wire[x - FirstSeq + 1]
  BY <1>2 DEF PacketOf
<1>4. out \in Seq(OnWire) /\ Len(out) \in Nat /\ \A k \in 1 .. Len(out) : out[k] \in OnWire
  BY LenProperties, ElementOfSeq DEF WindowOK
<1>5. \A x \in Range(out) : x \in OnWire
  BY <1>4, InOut
<1>6. dropping' = dropping /\ delivered' = delivered /\ DeliveredUnits' = DeliveredUnits
  BY DEF depayVars, DeliveredUnits, DeliveredUnit
<1>7. \A k \in 1 .. Len(out) : PacketOf(out[k])' = PacketOf(out[k])
  BY <1>3, <1>4 DEF PacketOf
<1>8. ASSUME NEW l, LastParsed(l)' PROVE LastParsed(l) /\ l \in OnWire
  <2>1. PICK k \in 1 .. Len(out) :
          /\ out[k] = l /\ PacketOf(l)'.kind # "bad"
          /\ \A j \in k + 1 .. Len(out) : PacketOf(out[j])'.kind = "bad"
    BY <1>8 DEF LastParsed
  <2>2. l \in OnWire /\ PacketOf(l)' = PacketOf(l)
    BY <1>2, <1>4, <2>1
  <2>3. \A j \in k + 1 .. Len(out) : j \in 1 .. Len(out)
    BY <1>4, <2>1
  <2>4. QED
    BY <1>7, <2>1, <2>2, <2>3 DEF LastParsed
<1>9. ASSUME NEW u \in DeliveredUnits
      PROVE  \E k \in 1 .. Len(out') :
               PacketOf(out[k])'.kind = "media" /\ PacketOf(out[k])'.marker /\ UnitOf(PacketOf(out[k]))' = u
  <2>1. PICK k \in 1 .. Len(out) :
          PacketOf(out[k]).kind = "media" /\ PacketOf(out[k]).marker /\ UnitOf(PacketOf(out[k])) = u
    BY DEF DebtsPaid
  <2>2. QED
    BY <1>7, <2>1 DEF UnitOf
<1>10. ASSUME NEW l, LastParsed(l)', PacketOf(l)'.kind = "media", PacketOf(l)'.marker,
              UnitOf(PacketOf(l))' \in DeliveredUnits'
       PROVE  ~dropping'
  <2>1. LastParsed(l) /\ l \in OnWire /\ PacketOf(l)' = PacketOf(l)
    BY <1>2, <1>8, <1>10
  <2>2. UnitOf(PacketOf(l)) \in DeliveredUnits
    BY <1>6, <1>10, <2>1 DEF UnitOf
  <2>3. QED
    BY <1>6, <1>10, <2>1, <2>2 DEF DebtsPaid
<1>11. ASSUME NEW a \in OnWire', NEW b \in OnWire', Anchor(a)', a <= b, Released(a, b)',
              (\A x \in MediaIn(a, b) : FitsBuffer(UnitOf(PacketOf(x))))'
       PROVE  Owed(a, b)'
  <2>1. a \in Nat /\ b \in Nat
    <3>1. \A k \in 1 .. Len(wire') : FirstSeq + k - 1 \in Nat
      BY <1>1
    <3>2. QED
      BY <3>1 DEF OnWire, Number
  <2>2. \A x \in a .. b : x \in Range(out) /\ PacketOf(x)'.kind # "bad"
    BY <1>11 DEF Released
  <2>3. \A x \in a .. b : x \in OnWire /\ PacketOf(x)' = PacketOf(x)
    BY <1>2, <1>5, <2>2
  <2>4. a \in a .. b /\ b \in a .. b
    BY <1>11, <2>1
  <2>5. Released(a, b)
    BY <2>2, <2>3 DEF Released
  <2>6. MediaIn(a, b)' = MediaIn(a, b) /\ \A x \in MediaIn(a, b) : x \in OnWire /\ PacketOf(x).kind = "media"
    BY <2>3 DEF MediaIn
  <2>7. Anchor(a)
    <3>1. CASE PacketOf(a)'.kind = "media" /\ PacketOf(a)'.n
      BY <2>3, <2>4, <3>1 DEF Anchor
    <3>2. CASE /\ a - 1 \in OnWire' /\ PacketOf(a - 1)'.kind = "media" /\ PacketOf(a - 1)'.marker
               /\ UnitOf(PacketOf(a - 1)') \in DeliveredUnits'
      <4>1. FirstSeq <= a - 1
        <5>1. PICK k \in 1 .. Len(wire') : a - 1 = FirstSeq + k - 1
          BY <3>2 DEF OnWire, Number
        <5>2. QED
          BY <1>1, <2>1, <5>1
      <4>2. a - 1 \in OnWire
        BY <1>1, <2>1, <2>3, <2>4, <4>1, NumberOnWire
      <4>3. PacketOf(a - 1)' = PacketOf(a - 1)
        BY <1>2, <4>2
      <4>4. QED
        BY <1>6, <3>2, <4>2, <4>3 DEF Anchor
    <3>3. QED
      BY <1>11, <3>1, <3>2 DEF Anchor, UnitOf
  <2>8. ASSUME NEW x \in MediaIn(a, b) PROVE FitsBuffer(UnitOf(PacketOf(x)))
    <3>1. x \in OnWire /\ PacketOf(x)' = PacketOf(x) /\ UnitOf(PacketOf(x)) \in 1 .. Len(stream)
      BY <1>2, <2>6, PacketIs
    <3>2. FitsBuffer(UnitOf(PacketOf(x)))'
      BY <1>11, <2>6
    <3>3. Obus(stream', UnitOf(PacketOf(x))) = Obus(stream, UnitOf(PacketOf(x)))
      BY <3>1, SameUnits
    <3>4. QED
      BY <3>1, <3>2, <3>3 DEF FitsBuffer, Obus, UnitOf
  <2>9. Owed(a, b)
    BY <1>11, <2>3, <2>4, <2>5, <2>7, <2>8 DEF DebtsPaid
  <2>10. LastParsed(b)' => ~dropping'
    BY <1>6, <1>8, <2>9 DEF Owed
  <2>11. QED
    BY <1>2, <1>6, <2>6, <2>9, <2>10 DEF Owed, UnitOf
<1>12. QED
  BY <1>6, <1>9, <1>10, <1>11 DEF DebtsPaid

LEMMA DebtsInit == Init => DebtsPaid
<1> SUFFICES ASSUME Init PROVE DebtsPaid
  OBVIOUS
<1>1. wire = << >> /\ out = << >> /\ delivered = << >> /\ dropping = TRUE
  BY DEF Init, Sender!EncoderInit, Reorder!WindowInit, Depay!DepayInit
<1>2. Len(wire) = 0 /\ Len(out) = 0 /\ Len(delivered) = 0
  BY <1>1, EmptySeq
<1>3. \A x \in OnWire : FALSE
  BY <1>2 DEF OnWire
<1>4. \A x \in DeliveredUnits : FALSE
  BY <1>2 DEF DeliveredUnits
<1>5. QED
  BY <1>3, <1>4 DEF DebtsPaid

-----------------------------------------------------------------------------
(* What is owed is what NothingWasted asks for.                              *)

LEMMA LargestIs ==
  ASSUME NEW S \in SUBSET Nat, NEW m \in Nat, NEW e \in S, \A x \in S : x <= m
  PROVE  Max(S) \in S /\ \A x \in S : x <= Max(S)
<1> DEFINE N == {k \in Nat : \A T \in SUBSET Nat : T # {} /\ (\A x \in T : x <= k) =>
                               \E y1 \in T : \A x \in T : x <= y1}
<1>1. 0 \in N
  <2> SUFFICES ASSUME NEW T \in SUBSET Nat, NEW y1 \in T, \A x \in T : x <= 0
               PROVE  \E y2 \in T : \A x \in T : x <= y2
    OBVIOUS
  <2>1. \A x \in T : x <= y1
    OBVIOUS
  <2>2. QED
    BY <2>1
<1>2. ASSUME NEW k \in Nat, k \in N PROVE k + 1 \in N
  <2> SUFFICES ASSUME NEW T \in SUBSET Nat, T # {}, \A x \in T : x <= k + 1
               PROVE  \E y2 \in T : \A x \in T : x <= y2
    OBVIOUS
  <2>1. CASE k + 1 \in T
    BY <2>1
  <2>2. CASE k + 1 \notin T
    <3>1. \A x \in T : x <= k
      BY <2>2
    <3>2. QED
      BY <1>2, <3>1
  <2>3. QED
    BY <2>1, <2>2
<1>3. \A k \in Nat : k \in N
  <2> HIDE DEF N
  <2>1. QED
    BY <1>1, <1>2, EveryNumber
<1>4. m \in N /\ S # {}
  BY <1>3
<1>5. \E y1 \in S : \A x \in S : x <= y1
  BY <1>4
<1>6. QED
  BY <1>5 DEF Max

\* The packets of a unit are the media packets that start within it.
LEMMA PacketsAre ==
  ASSUME WireOK(stream, wire), WireFirsts(stream, wire), NEW u
  PROVE  PacketsOf(u) = {n \in OnWire : PacketOf(n).kind = "media" /\ UnitOf(PacketOf(n)) = u}
<1> SUFFICES ASSUME NEW n \in OnWire
             PROVE  (\E j \in 1 .. Len(PacketOf(n).elems) : PacketOf(n).elems[j].unit = u)
                      <=> PacketOf(n).kind = "media" /\ UnitOf(PacketOf(n)) = u
  BY DEF PacketsOf
<1>1. /\ n - FirstSeq + 1 \in 1 .. Len(wire) /\ PacketOf(n) = wire[n - FirstSeq + 1]
      /\ (Media(wire, n - FirstSeq + 1) <=> PacketOf(n).kind = "media")
  BY NumberOnWire DEF WireOK
<1>2. CASE PacketOf(n).kind = "media"
  <2>1. Elems(stream, PacketOf(n).elems)
    BY <1>2, PacketIs
  <2>2. 1 \in 1 .. Len(PacketOf(n).elems)
    BY <2>1, EmptySeq DEF Elems
  <2>3. \A j \in 1 .. Len(PacketOf(n).elems) : PacketOf(n).elems[j].unit = PacketOf(n).elems[1].unit
    BY <2>1 DEF Elems
  <2>4. QED
    BY <1>2, <2>2, <2>3 DEF UnitOf
<1>3. CASE PacketOf(n).kind # "media"
  <2>1. PacketOf(n).elems = << >>
    BY <1>1, <1>3 DEF WireFirsts
  <2>2. Len(PacketOf(n).elems) = 0
    BY <2>1, EmptySeq
  <2>3. QED
    BY <1>3, <2>2
<1>4. QED
  BY <1>2, <1>3

\* The units on the wire do not go back.
LEMMA UnitsRise ==
  ASSUME WireOK(stream, wire), NEW m \in OnWire, NEW n \in OnWire, m <= n,
         PacketOf(m).kind = "media", PacketOf(n).kind = "media"
  PROVE  UnitOf(PacketOf(m)) <= UnitOf(PacketOf(n))
<1> DEFINE j == m - FirstSeq + 1  k == n - FirstSeq + 1
<1>1. /\ j \in 1 .. Len(wire) /\ k \in 1 .. Len(wire) /\ m \in Nat /\ n \in Nat /\ FirstSeq \in Nat
      /\ PacketOf(m) = wire[j] /\ PacketOf(n) = wire[k] /\ Media(wire, j) /\ Media(wire, k)
  BY NumberOnWire DEF WireOK
<1>2. UnitOf(PacketOf(m)) \in Nat
  BY PacketIs
<1>3. CASE m = n
  BY <1>2, <1>3
<1>4. CASE m # n
  <2>1. j < k
    BY <1>1, <1>4
  <2> HIDE DEF j, k
  <2>2. QED
    BY <1>1, <2>1 DEF WireOK
<1>5. QED
  BY <1>3, <1>4

\* A finished unit has a first and a last packet.
LEMMA FirstAndLast ==
  ASSUME WireOK(stream, wire), FirstsOK, NEW u \in Finished
  PROVE  /\ FirstOf(u) \in OnWire /\ LastOf(u) \in OnWire /\ FirstOf(u) <= LastOf(u)
         /\ PacketOf(FirstOf(u)).kind = "media" /\ UnitOf(PacketOf(FirstOf(u))) = u
         /\ Starts(stream, u) => PacketOf(FirstOf(u)).n
         /\ PacketOf(LastOf(u)).kind = "media" /\ UnitOf(PacketOf(LastOf(u))) = u
         /\ PacketOf(LastOf(u)).marker
<1>1. /\ wire \in Seq(AnyPacket) /\ WireFirsts(stream, wire) /\ SentWhole(wire, u) /\ FirstSeq \in Nat
      /\ Len(wire) \in Nat
  BY StreamAssumption, LenProperties DEF WireOK, FirstsOK, Sender!PacketizerAssumption
<1> DEFINE S == {n \in OnWire : PacketOf(n).kind = "media" /\ UnitOf(PacketOf(n)) = u}
<1>2. PacketsOf(u) = S
  BY <1>1, PacketsAre
<1>3. \A n \in S : n \in Nat
  BY <1>1, NumberOnWire
<1>4. ASSUME NEW k \in 1 .. Len(wire)
      PROVE  Number(k) \in OnWire /\ PacketOf(Number(k)) = wire[k] /\ Number(k) - FirstSeq + 1 = k
  <2>1. Number(k) - FirstSeq + 1 = k
    BY <1>1 DEF Number
  <2>2. QED
    BY <2>1 DEF OnWire, PacketOf
<1>5. \E f \in S : /\ \A x \in S : f <= x
                   /\ Starts(stream, u) => PacketOf(f).n
  <2>1. PICK k \in 1 .. Len(wire) : FirstPacket(wire, k) /\ UnitOf(wire[k]) = u
    BY <1>1 DEF SentWhole
  <2>2. Number(k) \in S
    BY <1>4, <2>1 DEF FirstPacket, Media
  <2>3. ASSUME NEW x \in S PROVE Number(k) <= x
    <3>1. /\ x - FirstSeq + 1 \in 1 .. Len(wire) /\ PacketOf(x) = wire[x - FirstSeq + 1]
          /\ Media(wire, x - FirstSeq + 1) /\ x \in Nat
      BY <1>1, NumberOnWire
    <3>2. ~(x - FirstSeq + 1 < k)
      <4> SUFFICES ASSUME x - FirstSeq + 1 < k PROVE FALSE
        OBVIOUS
      <4>1. UnitOf(wire[x - FirstSeq + 1]) < UnitOf(wire[k])
        BY <1>1, <2>1, <3>1 DEF WireFirsts
      <4>2. u < u /\ u \in Int
        BY <2>1, <3>1, <4>1 DEF Finished
      <4>3. QED
        BY <4>2
    <3>3. QED
      BY <1>1, <3>1, <3>2 DEF Number
  <2>4. Starts(stream, u) => PacketOf(Number(k)).n
    BY <1>1, <1>4, <2>1 DEF WireFirsts
  <2>5. QED
    BY <2>2, <2>3, <2>4
<1>6. \E l \in S : (\A x \in S : x <= l) /\ PacketOf(l).marker
  <2>1. PICK k \in 1 .. Len(wire) : Media(wire, k) /\ wire[k].marker /\ UnitOf(wire[k]) = u
    BY <1>1 DEF SentWhole
  <2>2. Number(k) \in S /\ PacketOf(Number(k)).marker
    BY <1>4, <2>1 DEF Media
  <2>3. ASSUME NEW x \in S PROVE x <= Number(k)
    <3>1. ~(Number(k) < x)
      <4> SUFFICES ASSUME Number(k) < x PROVE FALSE
        OBVIOUS
      <4>1. UnitOf(PacketOf(Number(k))) < UnitOf(PacketOf(x))
        BY <2>2, LaterUnit
      <4>2. u < u /\ u \in Int
        BY <2>2, <4>1 DEF Finished
      <4>3. QED
        BY <4>2
    <3>2. QED
      BY <1>3, <2>2, <3>1
  <2>4. QED
    BY <2>2, <2>3
<1>7. PICK f \in S : /\ \A x \in S : f <= x
                     /\ Starts(stream, u) => PacketOf(f).n
  BY <1>5
<1>8. PICK l \in S : (\A x \in S : x <= l) /\ PacketOf(l).marker
  BY <1>6
<1> HIDE DEF S
<1>9. Min(S) \in S /\ \A x \in S : Min(S) <= x
  BY <1>7 DEF Min
<1>10. Max(S) \in S /\ \A x \in S : x <= Max(S)
  BY <1>8 DEF Max
<1>11. Min(S) = f /\ Max(S) = l /\ f <= l
  BY <1>3, <1>7, <1>8, <1>9, <1>10
<1>12. FirstOf(u) = f /\ LastOf(u) = l
  BY <1>2, <1>11 DEF FirstOf, LastOf
<1>13. QED
  BY <1>7, <1>8, <1>11, <1>12 DEF S

\* The unit before u is the last of the finished ones.
LEMMA PreviousIs ==
  ASSUME stream \in Seq(Units), NEW u \in Finished, NEW w \in Finished, w < u
  PROVE  /\ Previous(u) \in Finished /\ Previous(u) < u
         /\ \A v \in Finished : v < u => v <= Previous(u)
<1> DEFINE S == {v \in Finished : v < u}
<1>1. Len(stream) \in Nat /\ S \in SUBSET Nat /\ w \in S /\ \A x \in S : x <= Len(stream)
  BY LenProperties DEF Finished
<1>2. Max(S) \in S /\ \A x \in S : x <= Max(S)
  BY <1>1, LargestIs
<1>3. QED
  BY <1>2 DEF Previous

LEMMA DebtsAreWaste ==
  ASSUME SourceInv, FirstsOK, DebtsPaid
  PROVE  NothingWasted
<1>1. WireOK(stream, wire) /\ stream \in Seq(Units) /\ wire \in Seq(AnyPacket) /\ Len(stream) \in Nat
  BY LenProperties DEF SourceInv, SenderOK, WireOK
<1> SUFFICES ASSUME NEW u \in Finished, FitsBuffer(u),
                    \/ StartsSequence(u) /\ Released(FirstOf(u), LastOf(u))
                    \/ /\ \E v \in Finished : v < u
                       /\ Previous(u) \in DeliveredUnits
                       /\ Released(LastOf(Previous(u)) + 1, LastOf(u))
             PROVE  u \in DeliveredUnits
  BY DEF NothingWasted
<1> DEFINE l == LastOf(u)
<1>2. /\ l \in OnWire /\ PacketOf(l).kind = "media" /\ PacketOf(l).marker /\ UnitOf(PacketOf(l)) = u
      /\ u \in 1 .. Len(stream)
  BY <1>1, FirstAndLast DEF Finished
<1> HIDE DEF l
\* between a and the last packet of u there is only u
<1>3. ASSUME NEW a \in OnWire, a <= l, Anchor(a), Released(a, l),
             \A x \in MediaIn(a, l) : UnitOf(PacketOf(x)) = u
      PROVE  u \in DeliveredUnits
  <2>1. Owed(a, l)
    BY <1>2, <1>3 DEF DebtsPaid
  <2>2. l \in a .. l
    BY <1>1, <1>2, <1>3, NumberOnWire
  <2>3. l \in MediaIn(a, l)
    BY <1>2, <2>2 DEF MediaIn
  <2>4. QED
    BY <1>2, <2>1, <2>3 DEF Owed
\* every number up to one that is on the wire is on the wire
<1>4. ASSUME NEW a \in OnWire, NEW x \in MediaIn(a, l)
      PROVE  x \in OnWire /\ a <= x /\ x <= l /\ PacketOf(x).kind = "media"
  <2>1. a \in Nat /\ l \in Nat /\ FirstSeq <= a /\ FirstSeq \in Nat
    BY <1>1, <1>2, NumberOnWire
  <2>2. x \in Int /\ a <= x /\ x <= l /\ PacketOf(x).kind = "media"
    BY <2>1 DEF MediaIn
  <2>3. FirstSeq <= x
    BY <2>1, <2>2
  <2>4. QED
    BY <1>1, <1>2, <2>2, <2>3, NumberOnWire
<1>5. CASE StartsSequence(u) /\ Released(FirstOf(u), l)
  <2> DEFINE a == FirstOf(u)
  <2>1. /\ a \in OnWire /\ a <= l /\ PacketOf(a).kind = "media" /\ UnitOf(PacketOf(a)) = u
        /\ (Starts(stream, u) => PacketOf(a).n)
    BY <1>1, FirstAndLast DEF l
  <2> HIDE DEF a
  <2>2. Anchor(a)
    BY <1>5, <2>1 DEF Anchor, StartsSequence, Starts, Obus
  <2>3. ASSUME NEW x \in MediaIn(a, l) PROVE UnitOf(PacketOf(x)) = u
    <3>1. x \in OnWire /\ a <= x /\ x <= l /\ PacketOf(x).kind = "media"
      BY <1>4, <2>1
    <3>2. u <= UnitOf(PacketOf(x)) /\ UnitOf(PacketOf(x)) <= u
      BY <1>1, <1>2, <2>1, <3>1, UnitsRise
    <3>3. UnitOf(PacketOf(x)) \in Int
      BY <1>1, <3>1, PacketIs
    <3>4. QED
      BY <1>2, <3>2, <3>3
  <2>4. QED
    BY <1>3, <1>5, <2>1, <2>2, <2>3 DEF a
<1>6. CASE /\ \E v \in Finished : v < u
           /\ Previous(u) \in DeliveredUnits
           /\ Released(LastOf(Previous(u)) + 1, l)
  <2> DEFINE v == Previous(u)  b == LastOf(v)  a == b + 1
  <2>1. v \in Finished /\ v < u /\ \A w \in Finished : w < u => w <= v
    BY <1>1, <1>6, PreviousIs
  <2>2. /\ b \in OnWire /\ PacketOf(b).kind = "media" /\ PacketOf(b).marker /\ UnitOf(PacketOf(b)) = v
        /\ v \in 1 .. Len(stream)
    BY <1>1, <2>1, FirstAndLast DEF Finished
  <2>3. v \in DeliveredUnits /\ Released(a, l)
    BY <1>6
  <2> HIDE DEF v, b
  <2>4. b < l
    <3> SUFFICES ASSUME ~(b < l) PROVE FALSE
      OBVIOUS
    <3>1. l <= b
      BY <1>1, <1>2, <2>2, NumberOnWire
    <3>2. u <= v
      BY <1>1, <1>2, <2>2, <3>1, UnitsRise
    <3>3. QED
      BY <1>2, <2>1, <2>2, <3>2
  <2>5. /\ a \in Int /\ a <= l /\ a - 1 = b /\ FirstSeq <= a /\ b < a
    <3>1. b \in Nat /\ l \in Nat /\ FirstSeq <= b /\ FirstSeq \in Nat
      BY <1>1, <1>2, <2>2, NumberOnWire
    <3>2. QED
      BY <2>4, <3>1
  <2> HIDE DEF a
  <2>6. a \in OnWire
    BY <1>1, <1>2, <2>5, NumberOnWire
  <2>7. Anchor(a)
    BY <2>2, <2>3, <2>5 DEF Anchor
  <2>8. ASSUME NEW x \in MediaIn(a, l) PROVE UnitOf(PacketOf(x)) = u
    <3> DEFINE w == UnitOf(PacketOf(x))
    <3>1. x \in OnWire /\ a <= x /\ x <= l /\ PacketOf(x).kind = "media"
      BY <1>4, <2>6
    <3>2. b < x
      <4>1. b \in Nat /\ x \in Nat
        BY <1>1, <2>2, <3>1, NumberOnWire
      <4>2. QED
        BY <2>5, <3>1, <4>1
    <3>3. v < w
      BY <1>1, <2>2, <3>1, <3>2, LaterUnit
    <3>4. w <= u
      BY <1>1, <1>2, <3>1, UnitsRise
    <3>5. w \in 1 .. Len(stream) /\ ~Sender!Unsendable(stream[w])
      BY <1>1, <3>1, PacketIs DEF GoodChunk
    <3> HIDE DEF w
    <3>6. ~(w < u)
      <4> SUFFICES ASSUME w < u PROVE FALSE
        OBVIOUS
      <4>1. w \in Finished
        <5>1. w # Len(stream)
          BY <1>1, <1>2, <3>5
        <5>2. QED
          BY <3>5, <5>1 DEF Finished, Sent
      <4>2. w <= v
        BY <2>1, <4>1
      <4>3. QED
        BY <2>2, <3>3, <3>5, <4>2
    <3>7. QED
      BY <1>2, <3>4, <3>5, <3>6 DEF w
  <2>9. QED
    BY <1>3, <2>3, <2>5, <2>6, <2>7, <2>8
<1>7. QED
  BY <1>5, <1>6 DEF l

LEMMA DebtsStep ==
  ASSUME StreamInv, FirstsOK, DebtsPaid, Proofs!TypeOK, Proofs!InOrder', Tracked', [Next]_vars
  PROVE  FirstsOK' /\ DebtsPaid'
<1>1. SourceInv /\ WireOK(stream, wire) /\ WindowOK /\ DepayOK /\ stream \in Seq(Units)
  BY DEF StreamInv, SourceInv, SenderOK
<1>2. FirstsOK'
  BY <1>1, FirstsStep
<1>3. /\ Extends(stream, stream')
      /\ wire' = wire \/ \E p \in AnyPacket : wire' = Append(wire, p)
      /\ \/ out' = out /\ UNCHANGED depayVars
         \/ /\ wire' = wire /\ stream' = stream
            /\ \E n \in OnWire : out' = Append(out, n) /\ Depay!DepayPacket(PacketOf(n))
  BY <1>1, SourceStep
<1>4. CASE out' = out /\ UNCHANGED depayVars
  BY <1>1, <1>2, <1>3, <1>4, DebtsSame
<1>5. CASE /\ wire' = wire /\ stream' = stream
           /\ \E n \in OnWire : out' = Append(out, n) /\ Depay!DepayPacket(PacketOf(n))
  <2>1. PICK n \in OnWire : out' = Append(out, n) /\ Depay!DepayPacket(PacketOf(n))
    BY <1>5
  <2>2. Given(n)
    BY <1>1, <1>5, <2>1 DEF Given
  <2>3. QED
    BY <1>1, <1>2, <2>1, <2>2, DebtsKept
<1>6. QED
  BY <1>3, <1>4, <1>5

(***************************************************************************)
(* Nothing that could be decoded is thrown away: a unit that starts a      *)
(* coded video sequence is given to the decoder whenever all its packets   *)
(* are released, whatever was lost before it, and a later unit whenever    *)
(* the one before it was and nothing between the two is missing or         *)
(* unreadable; a probe in the middle costs nothing (av1_depay_packet,      *)
(* rtp.c:600-700).                                                         *)
(***************************************************************************)
THEOREM NothingIsWasted ==
  Reorder!DepthDividesModulus => (Spec /\ []Tracked => []NothingWasted)
<1> SUFFICES ASSUME Reorder!DepthDividesModulus
             PROVE  Spec /\ []Tracked => []NothingWasted
  OBVIOUS
<1>1. Init => FirstsOK /\ DebtsPaid
  BY FirstsInit, DebtsInit
<1>2. StreamInv /\ FirstsOK /\ DebtsPaid /\ Proofs!TypeOK /\ Proofs!InOrder' /\ Tracked' /\ [Next]_vars
        => FirstsOK' /\ DebtsPaid'
  BY DebtsStep
<1>3. Spec => [](Proofs!TypeOK /\ Proofs!InOrder)
  BY WindowInStream
<1>4. Spec /\ []Tracked => []StreamInv
  BY StreamInvariant
<1>5. StreamInv /\ FirstsOK /\ DebtsPaid => NothingWasted
  BY DebtsAreWaste DEF StreamInv
<1>6. QED
  BY <1>1, <1>2, <1>3, <1>4, <1>5, PTL DEF Spec

\* ... and so whenever unreadable packets are not released in a row.
THEOREM SparseWastesNothing ==
  Reorder!DepthDividesModulus => (Spec /\ []Sparse => []NothingWasted)
<1> SUFFICES ASSUME Reorder!DepthDividesModulus
             PROVE  Spec /\ []Sparse => []NothingWasted
  OBVIOUS
<1>1. Spec => [](Proofs!TypeOK /\ Proofs!InOrder /\ Proofs!ShortGaps)
  BY WindowInStream
<1>2. Proofs!TypeOK /\ Proofs!ShortGaps /\ Sparse => Tracked
  BY SparseIsTracked
<1>3. Spec /\ []Tracked => []NothingWasted
  BY NothingIsWasted
<1>4. QED
  BY <1>1, <1>2, <1>3, PTL
=============================================================================

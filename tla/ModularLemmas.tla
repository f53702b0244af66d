---------------------------- MODULE ModularLemmas ----------------------------
(***************************************************************************)
(* Facts about % and \div that the ring buffers of this code rely on: the  *)
(* reorder window indexes its slots with seq % Depth where seq itself is   *)
(* counted modulo 2^16, and the datagram queue counts modulo its size;     *)
(* induction over numbers and sequences in terms of sets, for functions    *)
(* that are defined by recursion over messages and queues; and sequences   *)
(* put behind one another, as fragments and packets are in a stream.       *)
(***************************************************************************)
EXTENDS Integers, SequencesExt, SequenceTheorems, WellFoundedInduction, TLAPS

(* Division with remainder, stated once for every integer.                 *)
LEMMA DivMod ==
  ASSUME NEW x \in Int, NEW d \in Nat \ {0}
  PROVE  /\ x \div d \in Int
         /\ x % d \in 0 .. d - 1
         /\ x = d * (x \div d) + (x % d)
  OBVIOUS

(* Quotient and remainder are unique.                                      *)
LEMMA DivModUnique ==
  ASSUME NEW d \in Nat \ {0}, NEW q \in Int, NEW p \in Int,
         NEW r \in 0 .. d - 1, NEW s \in 0 .. d - 1,
         d * q + r = d * p + s
  PROVE  q = p /\ r = s
<1>1. d * (q - p) = s - r
  OBVIOUS
<1>2. CASE q - p >= 1
  <2>1. d * (q - p) >= d
    BY <1>2
  <2> QED BY <2>1, <1>1
<1>3. CASE q - p =< -1
  <2>1. d * (q - p) =< -d
    BY <1>3
  <2> QED BY <2>1, <1>1
<1>4. CASE q = p
  BY <1>4
<1> QED BY <1>2, <1>3, <1>4

(* What is left over by a division that is already written out.            *)
LEMMA ModIs ==
  ASSUME NEW x \in Int, NEW d \in Nat \ {0}, NEW q \in Int, NEW r \in 0 .. d - 1,
         x = d * q + r
  PROVE  x % d = r
<1> DEFINE p == x \div d  s == x % d
<1>1. p \in Int /\ s \in 0 .. d - 1 /\ x = d * p + s
  BY DivMod
<1> HIDE DEF p, s
<1>2. s = r
  BY <1>1, DivModUnique
<1> QED BY <1>2 DEF s

(* The quotient in closed form, and that it grows with the dividend.       *)
LEMMA DivIs ==
  ASSUME NEW x \in Int, NEW d \in Nat \ {0}, NEW q \in Int, NEW r \in 0 .. d - 1,
         x = d * q + r
  PROVE  x \div d = q
<1> DEFINE p == x \div d  s == x % d
<1>1. p \in Int /\ s \in 0 .. d - 1 /\ x = d * p + s
  BY DivMod
<1> HIDE DEF p, s
<1>2. p = q
  BY <1>1, DivModUnique
<1> QED BY <1>2 DEF p

LEMMA DivMonotonic ==
  ASSUME NEW x \in Int, NEW y \in Int, NEW d \in Nat \ {0}, x <= y
  PROVE  x \div d <= y \div d
<1> DEFINE p == x \div d  s == x % d  q == y \div d  t == y % d
<1>1. p \in Int /\ s \in 0 .. d - 1 /\ x = d * p + s
  BY DivMod
<1>2. q \in Int /\ t \in 0 .. d - 1 /\ y = d * q + t
  BY DivMod
<1> HIDE DEF p, s, q, t
<1>3. d * (p - q) <= t - s
  BY <1>1, <1>2
<1>4. CASE p - q >= 1
  <2>1. d * (p - q) >= d
    BY <1>1, <1>2, <1>4
  <2> QED BY <2>1, <1>1, <1>2, <1>3
<1>5. p <= q
  BY <1>1, <1>2, <1>4
<1> QED BY <1>5 DEF p, q

(* A multiple of the modulus does not matter.                              *)
LEMMA ModShift ==
  ASSUME NEW x \in Int, NEW d \in Nat \ {0}, NEW q \in Int
  PROVE  (x + d * q) % d = x % d
<1> DEFINE p == x \div d  s == x % d
<1>1. p \in Int /\ s \in 0 .. d - 1 /\ x = d * p + s
  BY DivMod
<1> HIDE DEF p, s
<1>2. d * (p + q) = d * p + d * q
  BY <1>1
<1>3. x + d * q = d * (p + q) + s
  BY <1>1, <1>2
<1>4. x + d * q \in Int /\ p + q \in Int
  BY <1>1
<1>5. (x + d * q) % d = s
  BY <1>1, <1>3, <1>4, ModIs
<1> QED BY <1>5 DEF s

(* The remainder of a small number is the number.                          *)
LEMMA ModSmall ==
  ASSUME NEW d \in Nat \ {0}, NEW x \in 0 .. d - 1
  PROVE  x % d = x
<1>1. x = d * 0 + x
  OBVIOUS
<1> QED BY <1>1, ModIs

(* Reducing an argument of a sum first changes nothing.                    *)
LEMMA ModAdd ==
  ASSUME NEW x \in Int, NEW j \in Int, NEW d \in Nat \ {0}
  PROVE  ((x % d) + j) % d = (x + j) % d
<1> DEFINE p == x \div d  s == x % d
<1>1. p \in Int /\ s \in 0 .. d - 1 /\ x = d * p + s
  BY DivMod
<1> HIDE DEF p, s
<1>2. x + j = (s + j) + d * p
  BY <1>1
<1>3. s + j \in Int
  BY <1>1
<1>4. ((s + j) + d * p) % d = (s + j) % d
  BY <1>1, <1>3, ModShift
<1> QED BY <1>2, <1>4 DEF s

(* The same for a difference of two reduced numbers.                       *)
LEMMA ModSub ==
  ASSUME NEW x \in Int, NEW w \in Int, NEW d \in Nat \ {0}
  PROVE  ((x % d) - (w % d)) % d = (x - w) % d
<1> DEFINE p == w \div d  s == w % d  t == x % d
<1>1. p \in Int /\ s \in 0 .. d - 1 /\ w = d * p + s /\ t \in 0 .. d - 1
  BY DivMod
<1>2. -s \in Int /\ x - w \in Int
  BY <1>1
<1>3. ((x % d) + (-s)) % d = (x + (-s)) % d
  BY <1>2, ModAdd
<1> HIDE DEF p, s
<1>4. x + (-s) = (x - w) + d * p
  BY <1>1
<1>5. ((x - w) + d * p) % d = (x - w) % d
  BY <1>1, <1>2, ModShift
<1>6. t + (-s) = t - s
  BY <1>1
<1> QED BY <1>3, <1>4, <1>5, <1>6 DEF s, t

(* Reducing modulo a multiple of d first changes nothing modulo d.         *)
LEMMA ModOfMultiple ==
  ASSUME NEW x \in Int, NEW d \in Nat \ {0}, NEW k \in Nat \ {0}
  PROVE  (x % (k * d)) % d = x % d
<1> DEFINE m == k * d  p == x \div m  s == x % m
<1>1. m \in Nat \ {0}
  OBVIOUS
<1>2. p \in Int /\ s \in 0 .. m - 1 /\ x = m * p + s
  BY <1>1, DivMod
<1>3. m * p = d * (k * p)
  BY <1>2
<1> HIDE DEF p, s, m
<1>4. x = s + d * (k * p) /\ k * p \in Int /\ s \in Int
  BY <1>1, <1>2, <1>3
<1>5. (s + d * (k * p)) % d = s % d
  BY <1>4, ModShift
<1> QED BY <1>4, <1>5 DEF s, m

(* Two numbers less than d apart with the same remainder are equal.        *)
LEMMA ModWindow ==
  ASSUME NEW x \in Int, NEW w \in Int, NEW d \in Nat \ {0},
         x % d = w % d, x - w < d, w - x < d
  PROVE  x = w
<1> DEFINE p == x \div d  s == x % d  q == w \div d
<1>1. p \in Int /\ s \in 0 .. d - 1 /\ x = d * p + s
  BY DivMod
<1>2. q \in Int /\ w = d * q + s
  BY DivMod
<1> HIDE DEF p, s, q
<1>3. x - w = d * (p - q)
  BY <1>1, <1>2
<1>4. CASE p - q >= 1
  <2>1. d * (p - q) >= d
    BY <1>4, <1>1, <1>2
  <2> QED BY <2>1, <1>3
<1>5. CASE p - q =< -1
  <2>1. d * (p - q) =< -d
    BY <1>5, <1>1, <1>2
  <2> QED BY <2>1, <1>3
<1>6. CASE p = q
  BY <1>6, <1>1, <1>2
<1> QED BY <1>1, <1>2, <1>4, <1>5, <1>6

-----------------------------------------------------------------------------
(* Induction: the least number that a set does not hold has a predecessor.  *)

\* A set of numbers that holds 0 and every successor holds all of them.
LEMMA EveryNumber ==
  ASSUME NEW S, 0 \in S, \A n \in Nat : n \in S => n + 1 \in S
  PROVE  \A n \in Nat : n \in S
<1> DEFINE Missing == Nat \ S
           Less == OpToRel(<, Nat)
<1> SUFFICES ASSUME Missing # {} PROVE FALSE
  OBVIOUS
<1>1. PICK x \in Missing : \A y \in Missing : ~(<<y, x>> \in Less)
  <2>1. IsWellFoundedOn(Less, Nat) /\ Missing \subseteq Nat
    BY NatLessThanWellFounded
  <2> HIDE DEF Missing, Less
  <2>2. QED
    BY <2>1, WFMin
<1>2. x \in Nat /\ x - 1 \in Nat /\ x - 1 < x
  OBVIOUS
<1>3. x - 1 \notin Missing
  BY <1>1, <1>2 DEF OpToRel
<1>4. QED
  BY <1>2, <1>3

\* A set that holds the empty sequence and every sequence one longer than one it
\* holds, holds all of them.
LEMMA EverySequence ==
  ASSUME NEW S, NEW P, << >> \in P, \A s \in Seq(S), c \in S : s \in P => Append(s, c) \in P
  PROVE  \A s \in Seq(S) : s \in P
<1> DEFINE N == {n \in Nat : \A s \in Seq(S) : Len(s) = n => s \in P}
<1>1. 0 \in N
  <2>1. \A s \in Seq(S) : Len(s) = 0 => s = << >>
    BY EmptySeq
  <2>2. QED
    BY <2>1
<1>2. ASSUME NEW n \in Nat, n \in N PROVE n + 1 \in N
  <2> SUFFICES ASSUME NEW s \in Seq(S), Len(s) = n + 1 PROVE s \in P
    OBVIOUS
  <2>1. s # << >>
    BY EmptySeq
  <2>2. PICK t \in Seq(S), c \in S : s = Append(t, c)
    BY <2>1, SequenceEmptyOrAppend
  <2>3. Len(t) = n
    BY <2>2, AppendProperties, LenProperties
  <2>4. QED
    BY <1>2, <2>2, <2>3
<1>3. \A n \in Nat : n \in N
  <2> HIDE DEF N
  <2>1. QED
    BY <1>1, <1>2, EveryNumber
<1>4. QED
  BY <1>3, LenProperties

-----------------------------------------------------------------------------
(* Sequences put behind one another.                                         *)

Flat(f, q, m) == f = [i \in 1 .. m |-> IF i = 1 THEN q[i] ELSE f[i - 1] \o q[i]]

LEMMA FlatExists ==
  ASSUME NEW q
  PROVE  \A m \in Nat : \E f : Flat(f, q, m)
<1> DEFINE N == {m \in Nat : \E f : Flat(f, q, m)}
<1>1. 0 \in N
  <2>1. Flat([i \in 1 .. 0 |-> << >>], q, 0)
    BY DEF Flat
  <2>2. QED
    BY <2>1
<1>2. ASSUME NEW m \in Nat, m \in N PROVE m + 1 \in N
  <2>1. PICK f : Flat(f, q, m)
    BY <1>2
  <2> DEFINE last == IF m = 0 THEN q[1] ELSE f[m] \o q[m + 1]
             g == [i \in 1 .. m + 1 |-> IF i = m + 1 THEN last ELSE f[i]]
             h == [i \in 1 .. m + 1 |-> IF i = 1 THEN q[i] ELSE g[i - 1] \o q[i]]
  <2>2. ASSUME NEW i \in 1 .. m + 1 PROVE g[i] = h[i]
    <3>1. CASE i = m + 1
      <4>1. CASE m = 0
        BY <3>1, <4>1
      <4>2. CASE m > 0
        <5>1. i - 1 = m /\ i # 1 /\ m \in 1 .. m + 1 /\ m # m + 1
          BY <3>1, <4>2
        <5>2. g[i - 1] = f[m]
          BY <5>1
        <5>3. h[i] = f[m] \o q[m + 1]
          BY <3>1, <5>1, <5>2
        <5>4. g[i] = last
          BY <3>1
        <5>5. m # 0
          BY <4>2
        <5>6. last = f[m] \o q[m + 1]
          BY <5>5, Zenon
        <5> HIDE DEF g, h
        <5>7. QED
          BY <5>3, <5>4, <5>6
      <4>3. QED
        BY <4>1, <4>2
    <3>2. CASE i \in 1 .. m
      <4>1. f[i] = IF i = 1 THEN q[i] ELSE f[i - 1] \o q[i]
        BY <2>1, <3>2 DEF Flat
      <4>2. g[i] = f[i] /\ (i # 1 => g[i - 1] = f[i - 1])
        BY <3>2
      <4>3. h[i] = IF i = 1 THEN q[i] ELSE g[i - 1] \o q[i]
        OBVIOUS
      <4> HIDE DEF g, h
      <4>4. QED
        BY <4>1, <4>2, <4>3
    <3>3. QED
      BY <3>1, <3>2
  <2>3. g = h
    BY <2>2
  <2>4. Flat(g, q, m + 1)
    BY <2>3 DEF Flat
  <2>5. QED
    BY <2>4
<1>3. \A m \in Nat : m \in N
  <2> HIDE DEF N
  <2>1. QED
    BY <1>1, <1>2, EveryNumber
<1>4. QED
  BY <1>3

LEMMA FlatAgrees ==
  ASSUME NEW q, NEW r, NEW m \in Nat, NEW f, NEW g, Flat(f, q, m), Flat(g, r, m + 1),
         \A i \in 1 .. m : q[i] = r[i]
  PROVE  \A i \in 1 .. m : f[i] = g[i]
<1> DEFINE N == {i \in Nat : i \in 1 .. m => f[i] = g[i]}
<1>1. 0 \in N
  OBVIOUS
<1>2. ASSUME NEW i \in Nat, i \in N PROVE i + 1 \in N
  <2> SUFFICES ASSUME i + 1 \in 1 .. m PROVE f[i + 1] = g[i + 1]
    OBVIOUS
  <2>1. i + 1 \in 1 .. m + 1 /\ (i + 1) - 1 = i /\ q[i + 1] = r[i + 1]
    OBVIOUS
  <2>2. /\ f[i + 1] = IF i + 1 = 1 THEN q[i + 1] ELSE f[(i + 1) - 1] \o q[i + 1]
        /\ g[i + 1] = IF i + 1 = 1 THEN r[i + 1] ELSE g[(i + 1) - 1] \o r[i + 1]
    BY <2>1 DEF Flat
  <2>3. CASE i = 0
    BY <2>1, <2>2, <2>3
  <2>4. CASE i > 0
    <3>1. f[i] = g[i] /\ i + 1 # 1
      BY <1>2, <2>4
    <3>2. QED
      BY <2>1, <2>2, <3>1
  <2>5. QED
    BY <2>3, <2>4
<1>3. \A i \in Nat : i \in N
  <2> HIDE DEF N
  <2>1. QED
    BY <1>1, <1>2, EveryNumber
<1>4. QED
  BY <1>3

LEMMA FlattenIs ==
  ASSUME NEW q, Len(q) \in Nat \ {0}
  PROVE  \E f : Flat(f, q, Len(q)) /\ FlattenSeq(q) = f[Len(q)]
<1> DEFINE f == CHOOSE f : Flat(f, q, Len(q))
<1>1. Flat(f, q, Len(q))
  BY FlatExists
<1>2. FlattenSeq(q) = f[Len(q)]
  BY DEF FlattenSeq, Flat
<1>3. QED
  BY <1>1, <1>2

LEMMA FlattenEmpty ==
  FlattenSeq(<< >>) = << >>
<1>1. Len(<< >>) = 0
  BY EmptySeq
<1>2. QED
  BY <1>1 DEF FlattenSeq

LEMMA FlattenLonger ==
  ASSUME NEW q, NEW t, NEW m \in Nat \ {0}, Len(q) = m, Len(t) = m + 1,
         \A i \in 1 .. m : q[i] = t[i]
  PROVE  FlattenSeq(t) = FlattenSeq(q) \o t[m + 1]
<1>1. PICK f : Flat(f, q, m) /\ FlattenSeq(q) = f[m]
  BY FlattenIs
<1>2. PICK g : Flat(g, t, m + 1) /\ FlattenSeq(t) = g[m + 1]
  <2>1. Len(t) \in Nat \ {0}
    OBVIOUS
  <2>2. QED
    BY <2>1, FlattenIs
<1>3. m \in Nat /\ m \in 1 .. m /\ m + 1 \in 1 .. m + 1 /\ m + 1 # 1 /\ (m + 1) - 1 = m
  OBVIOUS
<1>4. f[m] = g[m]
  BY <1>1, <1>2, <1>3, FlatAgrees
<1>5. g[m + 1] = IF m + 1 = 1 THEN t[m + 1] ELSE g[(m + 1) - 1] \o t[m + 1]
  BY <1>2, <1>3 DEF Flat
<1>6. g[m + 1] = g[m] \o t[m + 1]
  BY <1>3, <1>5, Zenon
<1>7. QED
  BY <1>1, <1>2, <1>4, <1>6, Zenon

LEMMA FlattenMore ==
  ASSUME NEW S, NEW q \in Seq(Seq(S)), NEW e \in Seq(S)
  PROVE  FlattenSeq(Append(q, e)) = FlattenSeq(q) \o e
<1> DEFINE t == Append(q, e)
<1>1. t \in Seq(Seq(S)) /\ Len(t) = Len(q) + 1 /\ Len(q) \in Nat
      /\ t[Len(q) + 1] = e /\ \A i \in 1 .. Len(q) : t[i] = q[i]
  BY AppendProperties, LenProperties
<1>2. CASE q # << >>
  <2>1. Len(q) \in Nat \ {0}
    BY <1>1, <1>2, EmptySeq
  <2> HIDE DEF t
  <2>2. FlattenSeq(t) = FlattenSeq(q) \o t[Len(q) + 1]
    BY <1>1, <2>1, FlattenLonger
  <2>3. QED
    BY <1>1, <2>2, Zenon DEF t
<1>3. CASE q = << >>
  <2>1. Len(q) = 0 /\ FlattenSeq(q) = << >> /\ << >> \o e = e
    BY <1>3, FlattenEmpty, EmptySeq, ConcatEmptySeq
  <2> HIDE DEF t
  <2>2. Len(t) = 1 /\ t[1] = e /\ Len(t) \in Nat \ {0}
    BY <1>1, <2>1
  <2>3. PICK g : Flat(g, t, 1) /\ FlattenSeq(t) = g[1]
    BY <2>2, FlattenIs
  <2>4. g[1] = t[1]
    BY <2>3 DEF Flat
  <2>5. QED
    BY <2>1, <2>2, <2>3, <2>4 DEF t
<1>4. QED
  BY <1>2, <1>3

LEMMA FlattenType ==
  ASSUME NEW S
  PROVE  \A q \in Seq(Seq(S)) : FlattenSeq(q) \in Seq(S)
<1> DEFINE P == {q \in Seq(Seq(S)) : FlattenSeq(q) \in Seq(S)}
<1>1. << >> \in P
  BY FlattenEmpty, EmptySeq
<1>2. \A q \in Seq(Seq(S)), e \in Seq(S) : q \in P => Append(q, e) \in P
  BY FlattenMore, AppendProperties, ConcatProperties
<1>3. \A q \in Seq(Seq(S)) : q \in P
  <2> HIDE DEF P
  <2>1. QED
    BY <1>1, <1>2, EverySequence
<1>4. QED
  BY <1>3

\* The first j of the sequences in q, put behind one another.
Joined(q, j) == FlattenSeq(SubSeq(q, 1, j))

LEMMA FirstOnes ==
  ASSUME NEW S, NEW u \in Seq(S), NEW e \in S, NEW j \in 1 .. Len(u)
  PROVE  /\ SubSeq(u, 1, j) = Append(SubSeq(u, 1, j - 1), u[j])
         /\ SubSeq(u, 1, j - 1) \in Seq(S) /\ u[j] \in S
         /\ SubSeq(Append(u, e), 1, j - 1) = SubSeq(u, 1, j - 1)
         /\ SubSeq(Append(u, e), 1, Len(u)) = u
<1> DEFINE t == Append(u, e)  s == SubSeq(u, 1, j)  p == SubSeq(u, 1, j - 1)
           a == Append(p, u[j])  q == SubSeq(t, 1, j - 1)  w == SubSeq(t, 1, Len(u))
<1>1. /\ t \in Seq(S) /\ Len(t) = Len(u) + 1 /\ Len(u) \in Nat
      /\ \A n \in 1 .. Len(u) : t[n] = u[n] /\ u[n] \in S
  BY AppendProperties, LenProperties, ElementOfSeq
<1> HIDE DEF t
<1>2. /\ s \in Seq(S) /\ Len(s) = j /\ \A i \in 1 .. j : s[i] = u[i]
  <2>1. \A i \in 1 .. j : u[i] \in S
    BY <1>1
  <2>2. QED
    BY <1>1, <2>1, SubSeqProperties
<1>3. /\ p \in Seq(S) /\ Len(p) = j - 1 /\ \A i \in 1 .. j - 1 : p[i] = u[i]
  <2>1. \A i \in 1 .. j - 1 : u[i] \in S
    BY <1>1
  <2>2. QED
    BY <1>1, <2>1, SubSeqProperties
<1>4. /\ q \in Seq(S) /\ Len(q) = j - 1 /\ \A i \in 1 .. j - 1 : q[i] = u[i]
  <2>1. \A i \in 1 .. j - 1 : t[i] \in S /\ t[i] = u[i]
    BY <1>1
  <2>2. QED
    BY <1>1, <2>1, SubSeqProperties
<1>5. /\ w \in Seq(S) /\ Len(w) = Len(u) /\ \A i \in 1 .. Len(u) : w[i] = u[i]
  <2>1. \A i \in 1 .. Len(u) : t[i] \in S /\ t[i] = u[i]
    BY <1>1
  <2>2. QED
    BY <1>1, <2>1, SubSeqProperties
<1> HIDE DEF s, p, q, w
<1>6. a \in Seq(S) /\ Len(a) = j /\ a[j] = u[j] /\ \A i \in 1 .. j - 1 : a[i] = u[i]
  <2>1. u[j] \in S
    BY <1>1
  <2>2. Len(a) = Len(p) + 1 /\ a \in Seq(S) /\ a[Len(p) + 1] = u[j]
        /\ \A i \in 1 .. Len(p) : a[i] = p[i]
    BY <1>3, <2>1, AppendProperties
  <2>3. Len(p) + 1 = j
    BY <1>3
  <2> HIDE DEF a
  <2>4. QED
    BY <1>3, <2>2, <2>3
<1> HIDE DEF a
<1>7. s = a
  <2>1. \A i \in 1 .. Len(s) : s[i] = a[i]
    BY <1>2, <1>6
  <2>2. QED
    BY <1>2, <1>6, <2>1, SeqEqual
<1>8. q = p
  <2>1. \A i \in 1 .. Len(q) : q[i] = p[i]
    BY <1>3, <1>4
  <2>2. QED
    BY <1>3, <1>4, <2>1, SeqEqual
<1>9. w = u
  <2>1. \A i \in 1 .. Len(w) : w[i] = u[i]
    BY <1>5
  <2>2. QED
    BY <1>5, <2>1, SeqEqual
<1>10. QED
  BY <1>1, <1>3, <1>7, <1>8, <1>9 DEF s, p, q, w, a, t

\* One more sequence goes behind what is there.
LEMMA JoinedIs ==
  ASSUME NEW S, NEW q \in Seq(Seq(S))
  PROVE  /\ Joined(q, 0) = << >> /\ Joined(q, Len(q)) = FlattenSeq(q)
         /\ \A j \in 0 .. Len(q) : Joined(q, j) \in Seq(S)
         /\ \A j \in 1 .. Len(q) : q[j] \in Seq(S) /\ Joined(q, j) = Joined(q, j - 1) \o q[j]
<1>0. Len(q) \in Nat
  BY LenProperties
<1>1. SubSeq(q, 1, 0) = << >>
  BY SubSeqEmpty
<1>2. Joined(q, 0) = << >>
  BY <1>1, FlattenEmpty DEF Joined
<1>3. ASSUME NEW j \in 1 .. Len(q)
      PROVE  /\ q[j] \in Seq(S) /\ SubSeq(q, 1, j - 1) \in Seq(Seq(S))
             /\ SubSeq(q, 1, j) \in Seq(Seq(S))
             /\ Joined(q, j) = Joined(q, j - 1) \o q[j]
  <2>1. /\ SubSeq(q, 1, j) = Append(SubSeq(q, 1, j - 1), q[j])
        /\ SubSeq(q, 1, j - 1) \in Seq(Seq(S)) /\ q[j] \in Seq(S)
    <3>1. q[j] \in Seq(S)
      BY ElementOfSeq
    <3>2. QED
      BY <3>1, FirstOnes
  <2>2. Append(SubSeq(q, 1, j - 1), q[j]) \in Seq(Seq(S))
    BY <2>1, AppendProperties
  <2>3. QED
    BY <2>1, <2>2, FlattenMore DEF Joined
<1>4. SubSeq(q, 1, Len(q)) = q
  <2>1. CASE q = << >>
    <3>1. Len(q) = 0
      BY <2>1, EmptySeq
    <3>2. QED
      BY <1>1, <2>1, <3>1
  <2>2. CASE q # << >>
    <3>1. PICK t \in Seq(Seq(S)), c \in Seq(S) : q = Append(t, c)
      BY <2>2, SequenceEmptyOrAppend
    <3> DEFINE s == SubSeq(q, 1, Len(q))
    <3>2. /\ s \in Seq(Seq(S)) /\ Len(s) = Len(q) /\ \A i \in 1 .. Len(q) : s[i] = q[i]
      <4>1. \A i \in 1 .. Len(q) : q[i] \in Seq(S)
        BY ElementOfSeq
      <4>2. QED
        BY <1>0, <4>1, SubSeqProperties
    <3> HIDE DEF s
    <3>3. s = q
      BY <3>2, SeqEqual
    <3>4. QED
      BY <3>3 DEF s
  <2>3. QED
    BY <2>1, <2>2
<1>5. ASSUME NEW j \in 0 .. Len(q) PROVE Joined(q, j) \in Seq(S)
  <2>1. CASE j = 0
    BY <2>1, <1>2, EmptySeq
  <2>2. CASE j # 0
    <3>1. j \in 1 .. Len(q)
      BY <2>2
    <3>2. SubSeq(q, 1, j) \in Seq(Seq(S))
      BY <1>3, <3>1
    <3>3. QED
      BY <3>2, FlattenType DEF Joined
  <2>3. QED
    BY <2>1, <2>2
<1>6. QED
  BY <1>2, <1>3, <1>4, <1>5 DEF Joined

\* What is joined stays where it is.
LEMMA JoinedStays ==
  ASSUME NEW S, NEW q \in Seq(Seq(S))
  PROVE  \A m \in 0 .. Len(q) : \A j \in 0 .. m :
           /\ Len(Joined(q, j)) \in Nat /\ Len(Joined(q, j)) <= Len(Joined(q, m))
           /\ \A i \in 1 .. Len(Joined(q, j)) : Joined(q, m)[i] = Joined(q, j)[i]
<1> DEFINE Stays(j, m) == /\ Len(Joined(q, j)) \in Nat /\ Len(Joined(q, j)) <= Len(Joined(q, m))
                          /\ \A i \in 1 .. Len(Joined(q, j)) : Joined(q, m)[i] = Joined(q, j)[i]
           N == {m \in Nat : m <= Len(q) => \A j \in 0 .. m : Stays(j, m)}
<1>0. Len(q) \in Nat /\ \A j \in 0 .. Len(q) : Len(Joined(q, j)) \in Nat
  BY JoinedIs, LenProperties
<1>1. 0 \in N
  <2>1. Stays(0, 0)
    BY <1>0
  <2>2. QED
    BY <2>1
<1>2. ASSUME NEW m \in Nat, m \in N PROVE m + 1 \in N
  <2> SUFFICES ASSUME m + 1 <= Len(q), NEW j \in 0 .. m + 1 PROVE Stays(j, m + 1)
    OBVIOUS
  <2>1. CASE j = m + 1
    BY <1>0, <2>1
  <2>2. CASE j # m + 1
    <3> DEFINE a == Joined(q, j)  b == Joined(q, m)  c == q[m + 1]  d == Joined(q, m + 1)
    <3>1. j \in 0 .. m /\ m + 1 \in 1 .. Len(q) /\ (m + 1) - 1 = m /\ m \in 0 .. Len(q)
      BY <1>0, <2>2
    <3>2. d = b \o c /\ b \in Seq(S) /\ c \in Seq(S)
      BY <3>1, JoinedIs
    <3>3. Len(a) \in Nat /\ Len(a) <= Len(b) /\ \A i \in 1 .. Len(a) : b[i] = a[i]
      <4>1. Stays(j, m)
        BY <1>0, <1>2, <3>1
      <4>2. QED
        BY <4>1
    <3> HIDE DEF a, b, c, d
    <3>4. /\ Len(d) = Len(b) + Len(c) /\ Len(b) \in Nat /\ Len(c) \in Nat
          /\ \A i \in 1 .. Len(b) : d[i] = b[i]
      BY <3>2, ConcatProperties, LenProperties
    <3>5. Len(a) <= Len(d) /\ \A i \in 1 .. Len(a) : d[i] = a[i]
      BY <3>3, <3>4
    <3>6. QED
      BY <3>3, <3>5 DEF a, d
  <2>3. QED
    BY <2>1, <2>2
<1>3. \A m \in Nat : m \in N
  <2> HIDE DEF N
  <2>1. QED
    BY <1>1, <1>2, EveryNumber
<1> HIDE DEF Stays
<1>4. \A m \in 0 .. Len(q) : \A j \in 0 .. m : Stays(j, m)
  BY <1>0, <1>3
<1>5. QED
  BY <1>4 DEF Stays

\* Sequence j begins where those before it end.
LEMMA JoinedAt ==
  ASSUME NEW S, NEW q \in Seq(Seq(S)), NEW j \in 1 .. Len(q)
  PROVE  /\ Len(Joined(q, j - 1)) \in Nat /\ Len(q[j]) \in Nat
         /\ Len(Joined(q, j)) = Len(Joined(q, j - 1)) + Len(q[j])
         /\ Len(Joined(q, j)) <= Len(FlattenSeq(q))
         /\ \A i \in 1 .. Len(q[j]) : FlattenSeq(q)[Len(Joined(q, j - 1)) + i] = q[j][i]
<1> DEFINE a == Joined(q, j - 1)  b == Joined(q, j)  c == q[j]  d == FlattenSeq(q)
<1>1. Len(q) \in Nat /\ j - 1 \in 0 .. Len(q) /\ j \in 0 .. Len(q) /\ Len(q) \in 0 .. Len(q)
  BY LenProperties
<1>2. a \in Seq(S) /\ c \in Seq(S) /\ b = a \o c /\ Joined(q, Len(q)) = d
  BY <1>1, JoinedIs
<1>3. Len(b) <= Len(d) /\ \A i \in 1 .. Len(b) : d[i] = b[i]
  BY <1>1, <1>2, JoinedStays
<1> HIDE DEF a, b, c, d
<1>4. /\ Len(b) = Len(a) + Len(c) /\ Len(a) \in Nat /\ Len(c) \in Nat
      /\ \A i \in 1 .. Len(a) + Len(c) : b[i] = IF i <= Len(a) THEN a[i] ELSE c[i - Len(a)]
  BY <1>2, ConcatProperties, LenProperties
<1>5. ASSUME NEW i \in 1 .. Len(c) PROVE d[Len(a) + i] = c[i]
  <2> DEFINE g == Len(a) + i
  <2>1. g \in 1 .. Len(a) + Len(c) /\ ~(g <= Len(a)) /\ g - Len(a) = i /\ g \in 1 .. Len(b)
    BY <1>4
  <2> HIDE DEF g
  <2>2. b[g] = c[g - Len(a)] /\ d[g] = b[g]
    BY <1>3, <1>4, <2>1
  <2>3. QED
    BY <2>1, <2>2 DEF g
<1>6. QED
  BY <1>3, <1>4, <1>5 DEF a, b, c, d

\* n elements from behind element a on.
LEMMA SliceIs ==
  ASSUME NEW S, NEW s \in Seq(S), NEW a \in Nat, NEW n \in Nat, a + n <= Len(s)
  PROVE  /\ SubSeq(s, a + 1, a + n) \in Seq(S) /\ Len(SubSeq(s, a + 1, a + n)) = n
         /\ \A i \in 1 .. n : SubSeq(s, a + 1, a + n)[i] = s[a + i]
<1> DEFINE t == SubSeq(s, a + 1, a + n)  b == a + 1  c == a + n
<1>1. Len(s) \in Nat /\ b \in Int /\ c \in Int /\ (b <= c <=> n # 0) /\ (c - b) + 1 = n
      /\ \A i \in 1 .. n : (b + i) - 1 = a + i
  BY LenProperties
<1>2. \A i \in b .. c : s[i] \in S
  BY <1>1, ElementOfSeq
<1>3. t = SubSeq(s, b, c)
  OBVIOUS
<1> HIDE DEF t, b, c
<1>4. /\ t \in Seq(S) /\ Len(t) = IF b <= c THEN c - b + 1 ELSE 0
      /\ \A i \in 1 .. c - b + 1 : t[i] = s[b + i - 1]
  BY <1>1, <1>2, <1>3, SubSeqProperties
<1>5. QED
  BY <1>1, <1>4 DEF t, b, c
=============================================================================

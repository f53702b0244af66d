---------------------------- MODULE Audio_proofs -----------------------------
(***************************************************************************)
(* The walkie-talkie's sound, for every value of the constants.  The       *)
(* loudspeaker ring (ito-denwa/src/audio.c, with the pump of tts.c): what  *)
(* was written is heard, in order and once, and a playback leaves silence  *)
(* behind; both while core 0 alone follows the DMA (~Core1Resets).  The    *)
(* microphone (mic.c, up to the POST of linephone.c): speech is sent once  *)
(* and in order, without a hole within a frame while the pump keeps up.    *)
(***************************************************************************)
EXTENDS AudioRing, Mic, SequenceTheorems, ModularLemmas, TLAPS

\* The counters are wide enough for a ring on either side of zero: 2^32 for a
\* ring of some thousand words.
WideCounters == 2 * BufWords <= Width

\* What the program relies on while core 0 alone follows the DMA.
AudioTypeOK ==
  /\ buf \in [0 .. BufWords - 1 -> Nat]
  /\ dacPos \in 0 .. BufWords - 1 /\ dacLast \in 0 .. BufWords - 1
  /\ abs \in 0 .. Width - 1 /\ write \in 0 .. Width - 1
  /\ paused \in BOOLEAN /\ phase \in {"idle", "sine", "silence", "stream", "pad"}
  /\ left \in Nat /\ next \in Nat /\ gap \in 0 .. MaxGap
  /\ half \in [delta : -1 .. BufWords - 1, now : 0 .. BufWords - 1]
  /\ half # NoHalf => half.delta >= 0
  /\ phase \in {"sine", "silence", "pad"} => left > 0
  /\ due \in Seq(Nat)

\* The tracker knows where the DMA was, and the DMA has not gone round since;
\* what core 0 has read of it, in the middle of the tracker, is on the way.
Tracker ==
  /\ abs % BufWords = dacLast /\ Moved <= gap
  /\ half # NoHalf => (dacLast + half.delta) % BufWords = half.now /\ half.delta <= Moved

\* What is due is less than a ring, and while somebody writes it is what the
\* writer is ahead of the DMA; an underrun is no longer than a gap.
Level ==
  /\ Len(due) < BufWords
  /\ phase # "idle" =>
       /\ Len(due) = IF Ahead > 0 THEN Ahead ELSE 0
       /\ Ahead >= -1 - (IF paused THEN MaxGap ELSE gap)

\* The inductive invariant.
AudioInv == AudioTypeOK /\ Tracker /\ Level /\ HeardIsDue

-----------------------------------------------------------------------------
(* The counters                                                            *)

\* What the proofs use of the constants.
LEMMA AudioConstants ==
  /\ BufWords \in Nat \ {0} /\ Width \in Nat \ {0} /\ Block \in Nat \ {0}
  /\ PadExtra \in Nat /\ MaxGap \in 0 .. BufWords - 1 /\ SilenceWords \in Nat \ {0}
  /\ \E h \in Nat \ {0} : BufWords = 2 * h
  /\ \E m \in Nat \ {0} : Width = m * BufWords
<1> USE AudioAssumption
<1>1. /\ BufWords \in Nat \ {0} /\ Width \in Nat \ {0} /\ Block \in Nat \ {0}
      /\ PadExtra \in Nat /\ MaxGap \in 0 .. BufWords - 1 /\ SilenceWords \in Nat \ {0}
  OBVIOUS
<1>2. \E h \in Nat \ {0} : BufWords = 2 * h
  <2> DEFINE h == BufWords \div 2
  <2>1. h \in Int /\ BufWords = 2 * h + 0
    BY <1>1, DivMod
  <2> HIDE DEF h
  <2>2. h \in Nat \ {0} /\ BufWords = 2 * h
    BY <1>1, <2>1
  <2>3. QED
    BY <2>2
<1>3. \E m \in Nat \ {0} : Width = m * BufWords
  <2> DEFINE m == Width \div BufWords
  <2>1. m \in Int /\ Width = BufWords * m + 0
    BY <1>1, DivMod
  <2> HIDE DEF m
  <2>2. m <= 0 => BufWords * m <= 0
    BY <1>1, <2>1
  <2>3. m > 0 /\ BufWords * m = m * BufWords
    BY <1>1, <2>1, <2>2
  <2>4. QED
    BY <1>1, <2>1, <2>3
<1>4. QED
  BY <1>1, <1>2, <1>3

\* A full turn of a counter is a number of full turns of the ring.
LEMMA Turns ==
  ASSUME NEW x \in Int, NEW k \in Int
  PROVE  (x + Width * k) % BufWords = x % BufWords /\ (x % Width) % BufWords = x % BufWords
<1>1. PICK m \in Nat \ {0} : Width = m * BufWords
  BY AudioConstants
<1>2. Width * k = BufWords * (m * k) /\ m * k \in Int
  BY <1>1, AudioConstants
<1>3. (x + BufWords * (m * k)) % BufWords = x % BufWords
  BY <1>2, AudioConstants, ModShift
<1>4. (x % (m * BufWords)) % BufWords = x % BufWords
  BY AudioConstants, ModOfMultiple
<1>5. QED
  BY <1>1, <1>2, <1>3, <1>4

\* A number and its half.
LEMMA HalfIs ==
  ASSUME NEW x \in Int
  PROVE  x \div 2 \in Int /\ x % 2 \in 0 .. 1 /\ x = 2 * (x \div 2) + (x % 2)
<1>1. 2 \in Nat \ {0}
  OBVIOUS
<1>2. x \div 2 \in Int /\ x % 2 \in 0 .. 2 - 1 /\ x = 2 * (x \div 2) + (x % 2)
  BY <1>1, DivMod
<1>3. QED
  BY <1>2

\* The difference of two counters, as int32_t, differs from it by full turns.
LEMMA SignedIs ==
  ASSUME NEW d \in Int
  PROVE  /\ Signed(d) \in Int /\ -Width <= 2 * Signed(d) /\ 2 * Signed(d) < Width
         /\ \E k \in Int : d = Signed(d) + Width * k
<1> DEFINE q == (d + Width) \div Width  m == (d + Width) % Width
<1>1. d + Width \in Int /\ Width \in Nat \ {0}
  BY AudioConstants
<1>2. q \in Int /\ m \in 0 .. Width - 1 /\ d + Width = Width * q + m
  BY <1>1, DivMod
<1>3. Signed(d) = IF 2 * m >= Width THEN m - Width ELSE m
  BY DEF Signed
<1> HIDE DEF q, m
<1>4. CASE 2 * m >= Width
  <2>1. d = Signed(d) + Width * q
    BY <1>1, <1>2, <1>3, <1>4
  <2>2. QED
    BY <1>1, <1>2, <1>3, <1>4, <2>1
<1>5. CASE ~(2 * m >= Width)
  <2>1. Width * (q - 1) = Width * q - Width
    BY <1>1, <1>2
  <2>2. d = Signed(d) + Width * (q - 1) /\ q - 1 \in Int
    BY <1>1, <1>2, <1>3, <1>5, <2>1
  <2>3. QED
    BY <1>1, <1>2, <1>3, <1>5, <2>2
<1>6. QED
  BY <1>4, <1>5

\* It is the only such number that int32_t can hold.
LEMMA SignedUnique ==
  ASSUME NEW a \in Int, NEW k \in Int, NEW d \in Int, d = a + Width * k,
         -Width <= 2 * a, 2 * a < Width
  PROVE  Signed(d) = a
<1>1. PICK j \in Int : d = Signed(d) + Width * j
  BY SignedIs
<1>2. Signed(d) \in Int /\ -Width <= 2 * Signed(d) /\ 2 * Signed(d) < Width
  BY SignedIs
<1> DEFINE s == Signed(d)
<1>3. s \in Int /\ s + Width * j = a + Width * k /\ -Width <= 2 * s /\ 2 * s < Width
  BY <1>1, <1>2
<1> HIDE DEF s
<1>4. Width \in Nat \ {0} /\ s - a = Width * (k - j) /\ s - a < Width /\ a - s < Width
  BY <1>3, AudioConstants
<1>5. k - j = 0
  <2>1. k - j >= 1 => Width * (k - j) >= Width
    BY <1>4
  <2>2. k - j <= -1 => Width * (k - j) <= -Width
    BY <1>4
  <2>3. QED
    BY <1>3, <1>4, <2>1, <2>2
<1>6. s = a
  BY <1>3, <1>4, <1>5
<1>7. QED
  BY <1>6 DEF s

\* The position k words behind x, and back.
LEMMA PlaceIs ==
  ASSUME NEW x \in Int, NEW k \in 0 .. BufWords - 1
  PROVE  /\ (x + k) % BufWords \in 0 .. BufWords - 1
         /\ (((x + k) % BufWords) + BufWords - (x % BufWords)) % BufWords = k
<1> DEFINE w == (x + k) % BufWords
<1>0. BufWords \in Nat \ {0}
  BY AudioConstants
<1>1. w \in 0 .. BufWords - 1 /\ x % BufWords \in 0 .. BufWords - 1
  BY <1>0, DivMod
<1>2. (w - (x % BufWords)) % BufWords = ((x + k) - x) % BufWords
  <2>1. x + k \in Int
    OBVIOUS
  <2>2. (((x + k) % BufWords) - (x % BufWords)) % BufWords = ((x + k) - x) % BufWords
    BY <1>0, <2>1, ModSub
  <2>3. QED
    BY <2>2
<1>3. (x + k) - x = k /\ k % BufWords = k
  BY <1>0, ModSmall
<1> HIDE DEF w
<1>4. w + BufWords - (x % BufWords) = (w - (x % BufWords)) + BufWords * 1
      /\ w - (x % BufWords) \in Int
  BY <1>0, <1>1
<1> DEFINE d == w - (x % BufWords)
<1>5. (d + BufWords * 1) % BufWords = d % BufWords
  <2>1. d \in Int /\ 1 \in Int
    BY <1>4
  <2> HIDE DEF d
  <2>2. QED
    BY <1>0, <2>1, ModShift
<1>6. QED
  BY <1>1, <1>2, <1>3, <1>4, <1>5 DEF w

\* Two counts that agree up to full turns of the ring name the same word.
LEMMA SamePlace ==
  ASSUME NEW x \in Int, NEW y \in Int, NEW j \in Int, x % BufWords = y % BufWords
  PROVE  (x + j) % BufWords = (y + j) % BufWords
<1>1. BufWords \in Nat \ {0}
  BY AudioConstants
<1>2. ((x % BufWords) + j) % BufWords = (x + j) % BufWords
  BY <1>1, ModAdd
<1>3. ((y % BufWords) + j) % BufWords = (y + j) % BufWords
  BY <1>1, ModAdd
<1>4. QED
  BY <1>2, <1>3

\* The tracker finds how far a position has moved by less than a ring.
LEMMA MovedIs ==
  ASSUME NEW p \in 0 .. BufWords - 1, NEW l \in 0 .. BufWords - 1,
         NEW m \in 0 .. BufWords - 1, (l + m) % BufWords = p
  PROVE  (p + BufWords - l) % BufWords = m
<1>1. l % BufWords = l
  BY AudioConstants, ModSmall
<1>2. l \in Int
  BY AudioConstants
<1>3. (((l + m) % BufWords) + BufWords - (l % BufWords)) % BufWords = m
  BY <1>2, PlaceIs
<1>4. QED
  BY <1>1, <1>3

\* Where the tracker says the DMA is, it is.
LEMMA Follows ==
  ASSUME AudioTypeOK, Tracker
  PROVE  /\ Moved \in 0 .. MaxGap /\ (dacLast + Moved) % BufWords = dacPos
         /\ Consumed \in 0 .. Width - 1 /\ Consumed % BufWords = dacPos
         /\ Ahead \in Int /\ -Width <= 2 * Ahead /\ 2 * Ahead < Width
         /\ \E k \in Int : write - Consumed = Ahead + Width * k
<1>0. /\ BufWords \in Nat \ {0} /\ Width \in Nat \ {0} /\ MaxGap \in 0 .. BufWords - 1
      /\ dacPos \in 0 .. BufWords - 1 /\ dacLast \in 0 .. BufWords - 1
      /\ abs \in 0 .. Width - 1 /\ gap \in 0 .. MaxGap /\ write \in 0 .. Width - 1
  BY AudioConstants DEF AudioTypeOK
<1>1. Moved \in 0 .. BufWords - 1
  <2>1. dacPos + BufWords - dacLast \in Int
    BY <1>0
  <2>2. QED
    BY <1>0, <2>1, DivMod DEF Moved
<1>2. (dacLast + Moved) % BufWords = dacPos
  <2> DEFINE d == dacPos + BufWords - dacLast
  <2>1. d \in Int /\ dacLast \in Int /\ dacPos \in Int /\ 1 \in Int
    BY <1>0
  <2>2. d + dacLast = dacPos + BufWords * 1
    BY <1>0
  <2>3. Moved = d % BufWords
    BY DEF Moved
  <2> HIDE DEF d
  <2>4. ((d % BufWords) + dacLast) % BufWords = (d + dacLast) % BufWords
    BY <1>0, <2>1, ModAdd
  <2>5. (dacPos + BufWords * 1) % BufWords = dacPos % BufWords /\ dacPos % BufWords = dacPos
    BY <1>0, <2>1, ModShift, ModSmall
  <2>6. dacLast + Moved = (d % BufWords) + dacLast
    BY <1>0, <1>1, <2>3
  <2>7. QED
    BY <2>2, <2>4, <2>5, <2>6
<1>3. Moved \in 0 .. MaxGap
  BY <1>0, <1>1 DEF Tracker
<1>4. abs + Moved \in Int /\ Consumed = (abs + Moved) % Width
  BY <1>0, <1>1 DEF Consumed
<1>5. Consumed \in 0 .. Width - 1
  BY <1>0, <1>4, DivMod
<1>6. Consumed % BufWords = dacPos
  <2>1. Consumed % BufWords = (abs + Moved) % BufWords
    BY <1>4, Turns
  <2>2. ((abs % BufWords) + Moved) % BufWords = (abs + Moved) % BufWords
    <3>1. abs \in Int /\ Moved \in Int
      BY <1>0, <1>1
    <3>2. QED
      BY <1>0, <3>1, ModAdd
  <2>3. abs % BufWords = dacLast
    BY DEF Tracker
  <2>4. QED
    BY <1>2, <2>1, <2>2, <2>3
<1>7. write - Consumed \in Int
  BY <1>0, <1>5
<1>8. QED
  BY <1>2, <1>3, <1>5, <1>6, <1>7, SignedIs DEF Ahead

\* A call of dma_consumed_abs brings the tracker up to the DMA.
LEMMA TrackedIs ==
  ASSUME AudioTypeOK, Tracker, Tracked, dacPos' = dacPos, half' = NoHalf
  PROVE  /\ Tracker' /\ Consumed' = Consumed
         /\ dacLast' \in 0 .. BufWords - 1 /\ abs' \in 0 .. Width - 1 /\ gap' = 0
<1>0. /\ BufWords \in Nat \ {0} /\ Width \in Nat \ {0} /\ MaxGap \in Nat
      /\ dacPos \in 0 .. BufWords - 1 /\ Consumed \in 0 .. Width - 1
      /\ Consumed % BufWords = dacPos
  BY AudioConstants, Follows DEF AudioTypeOK
<1>1. dacLast' = dacPos /\ abs' = Consumed /\ gap' = 0
  BY DEF Tracked
<1>2. Moved' = 0
  <2>1. (dacPos + 0) % BufWords = dacPos
    BY <1>0, ModSmall
  <2>2. 0 \in 0 .. BufWords - 1
    BY <1>0
  <2>3. (dacPos + BufWords - dacPos) % BufWords = 0
    BY <1>0, <2>1, <2>2, MovedIs
  <2>4. QED
    BY <1>1, <2>3 DEF Moved
<1>3. Consumed' = Consumed
  <2>1. (Consumed + 0) % Width = Consumed
    BY <1>0, ModSmall
  <2>2. QED
    BY <1>1, <1>2, <2>1 DEF Consumed
<1>4. QED
  BY <1>0, <1>1, <1>2, <1>3 DEF Tracker

\* A word played.
LEMMA TickIs ==
  ASSUME AudioTypeOK, Tracker, Tick
  PROVE  /\ Tracker' /\ dacPos' \in 0 .. BufWords - 1
         /\ \E j \in Int : Consumed' = Consumed + 1 - Width * j
<1>0. /\ BufWords \in Nat \ {0} /\ Width \in Nat \ {0} /\ MaxGap \in 0 .. BufWords - 1
      /\ dacPos \in 0 .. BufWords - 1 /\ dacLast \in 0 .. BufWords - 1
      /\ abs \in 0 .. Width - 1 /\ gap \in 0 .. MaxGap
  BY AudioConstants DEF AudioTypeOK
<1>1. /\ dacPos' = (dacPos + 1) % BufWords /\ gap' = gap + 1 /\ gap < MaxGap
      /\ UNCHANGED <<dacLast, abs, half>>
  BY DEF Tick
<1>2. /\ Moved \in 0 .. MaxGap /\ (dacLast + Moved) % BufWords = dacPos /\ Moved <= gap
      /\ Consumed = (abs + Moved) % Width
  BY Follows DEF Tracker, Consumed
<1>3. dacPos' \in 0 .. BufWords - 1
  BY <1>0, <1>1, DivMod
<1>4. Moved' = Moved + 1
  <2>1. Moved + 1 \in 0 .. BufWords - 1
    BY <1>0, <1>1, <1>2
  <2>2. (((dacLast + Moved) % BufWords) + 1) % BufWords = ((dacLast + Moved) + 1) % BufWords
    <3>1. dacLast + Moved \in Int
      BY <1>0, <1>2
    <3>2. QED
      BY <1>0, <3>1, ModAdd
  <2>3. (dacLast + (Moved + 1)) % BufWords = dacPos'
    BY <1>0, <1>1, <1>2, <2>2
  <2>4. (dacPos' + BufWords - dacLast) % BufWords = Moved + 1
    BY <1>0, <1>3, <2>1, <2>3, MovedIs
  <2>5. QED
    BY <1>1, <2>4 DEF Moved
<1>5. \E j \in Int : Consumed' = Consumed + 1 - Width * j
  <2> DEFINE x == abs + Moved  q == (Consumed + 1) \div Width
  <2>1. /\ x \in Int /\ Consumed \in Int /\ Consumed + 1 \in Int /\ 1 \in Int
        /\ (x % Width) = Consumed
    BY <1>0, <1>2, Follows
  <2>2. Consumed' = (x + 1) % Width
    <3>1. abs + (Moved + 1) = x + 1
      BY <1>0, <1>2
    <3>2. QED
      BY <1>1, <1>4, <3>1 DEF Consumed
  <2> HIDE DEF x
  <2>3. ((x % Width) + 1) % Width = (x + 1) % Width
    BY <1>0, <2>1, ModAdd
  <2>4. q \in Int /\ Consumed + 1 = Width * q + ((Consumed + 1) % Width)
        /\ (Consumed + 1) % Width \in 0 .. Width - 1
    BY <1>0, <2>1, DivMod
  <2>5. Consumed' = (Consumed + 1) % Width
    BY <2>1, <2>2, <2>3
  <2> HIDE DEF q
  <2>6. Consumed' = Consumed + 1 - Width * q
    <3>1. \A c, m, t \in Int : c + 1 = t + m => m = c + 1 - t
      OBVIOUS
    <3>2. Width * q \in Int /\ (Consumed + 1) % Width \in Int
      BY <1>0, <2>4
    <3>3. QED
      BY <2>1, <2>4, <2>5, <3>1, <3>2
  <2>7. QED
    BY <2>4, <2>6
<1>6. Tracker'
  BY <1>0, <1>1, <1>2, <1>4 DEF Tracker, AudioTypeOK
<1>7. QED
  BY <1>3, <1>5, <1>6

\* The two halves of the tracker find what one call would have found.
LEMMA EndTrackIs ==
  ASSUME AudioTypeOK, Tracker, EndTrack
  PROVE  /\ Tracker' /\ Consumed' = Consumed
         /\ dacLast' \in 0 .. BufWords - 1 /\ abs' \in 0 .. Width - 1
<1> DEFINE d == half.delta
<1>0. /\ BufWords \in Nat \ {0} /\ Width \in Nat \ {0} /\ MaxGap \in 0 .. BufWords - 1
      /\ dacPos \in 0 .. BufWords - 1 /\ dacLast \in 0 .. BufWords - 1
      /\ abs \in 0 .. Width - 1 /\ gap \in 0 .. MaxGap
      /\ half.now \in 0 .. BufWords - 1 /\ d \in 0 .. BufWords - 1
  BY AudioConstants DEF AudioTypeOK, EndTrack
<1>1. /\ abs' = (abs + d) % Width /\ dacLast' = half.now /\ half' = NoHalf
      /\ UNCHANGED <<dacPos, gap>>
  BY DEF EndTrack
<1>2. /\ Moved \in 0 .. MaxGap /\ (dacLast + Moved) % BufWords = dacPos /\ Moved <= gap
      /\ Consumed = (abs + Moved) % Width
  BY Follows DEF Tracker, Consumed
<1>3. (dacLast + d) % BufWords = half.now /\ d <= Moved /\ abs % BufWords = dacLast
  BY DEF Tracker, EndTrack
<1> HIDE DEF d
<1>4. abs' \in 0 .. Width - 1
  <2>1. abs + d \in Int
    BY <1>0
  <2>2. QED
    BY <1>0, <1>1, <2>1, DivMod
<1>5. abs' % BufWords = dacLast'
  <2>1. abs + d \in Int
    BY <1>0
  <2>2. abs' % BufWords = (abs + d) % BufWords
    BY <1>1, <2>1, Turns
  <2>3. ((abs % BufWords) + d) % BufWords = (abs + d) % BufWords
    <3>1. abs \in Int /\ d \in Int
      BY <1>0
    <3>2. QED
      BY <1>0, <3>1, ModAdd
  <2>4. QED
    BY <1>1, <1>3, <2>2, <2>3
<1>6. Moved' = Moved - d
  <2>1. Moved - d \in 0 .. BufWords - 1 /\ dacLast + d \in Int /\ Moved - d \in Int
    BY <1>0, <1>2, <1>3
  <2>2. (((dacLast + d) % BufWords) + (Moved - d)) % BufWords
          = ((dacLast + d) + (Moved - d)) % BufWords
    BY <1>0, <2>1, ModAdd
  <2>3. (dacLast + d) + (Moved - d) = dacLast + Moved
    BY <1>0, <1>2
  <2>4. (half.now + (Moved - d)) % BufWords = dacPos
    BY <1>2, <1>3, <2>2, <2>3
  <2>5. (dacPos + BufWords - half.now) % BufWords = Moved - d
    BY <1>0, <2>1, <2>4, MovedIs
  <2>6. QED
    BY <1>1, <2>5 DEF Moved
<1>7. Consumed' = Consumed
  <2>1. abs + d \in Int /\ Moved - d \in Int
    BY <1>0, <1>2
  <2>2. (((abs + d) % Width) + (Moved - d)) % Width = ((abs + d) + (Moved - d)) % Width
    BY <1>0, <2>1, ModAdd
  <2>3. (abs + d) + (Moved - d) = abs + Moved
    BY <1>0, <1>2
  <2>4. QED
    BY <1>1, <1>2, <1>6, <2>2, <2>3 DEF Consumed
<1>8. QED
  BY <1>0, <1>1, <1>2, <1>3, <1>4, <1>5, <1>6, <1>7 DEF Tracker

-----------------------------------------------------------------------------
(* The writer                                                              *)

\* After an underrun the writer is at the DMA, or one word behind it.
LEMMA SnappedIs ==
  ASSUME AudioTypeOK, Tracker
  PROVE  /\ Snapped \in 0 .. Width - 1 /\ Signed(Snapped - Consumed) \in Int
         /\ Ahead >= 0 => Snapped = write /\ Signed(Snapped - Consumed) = Ahead
         /\ Ahead < 0 => Signed(Snapped - Consumed) \in {-1, 0}
         /\ \E k \in Int : Snapped - Consumed = Signed(Snapped - Consumed) + Width * k
<1>0. /\ Width \in Nat \ {0} /\ Width >= 2 /\ write \in 0 .. Width - 1
      /\ Consumed \in 0 .. Width - 1 /\ Ahead \in Int
  <2>1. PICK h \in Nat \ {0} : BufWords = 2 * h
    BY AudioConstants
  <2>2. PICK m \in Nat \ {0} : Width = m * BufWords
    BY AudioConstants
  <2>3. BufWords >= 2 /\ BufWords \in Nat
    BY <2>1
  <2>4. m * BufWords >= BufWords
    BY <2>2, <2>3
  <2>5. QED
    BY <2>2, <2>3, <2>4, AudioConstants, Follows DEF AudioTypeOK
<1>1. CASE Ahead >= 0
  <2>1. Snapped = write
    BY <1>0, <1>1 DEF Snapped, Underrun
  <2>2. QED
    BY <1>0, <1>1, <2>1, Follows DEF Ahead
<1>2. CASE Ahead < 0
  <2> DEFINE c == Consumed  r == c % 2  q == c \div 2
  <2>1. Snapped = c - r
    BY <1>0, <1>2 DEF Snapped, Underrun, Even
  <2>2. q \in Int /\ r \in 0 .. 1 /\ c = 2 * q + r
    BY <1>0, DivMod
  <2> HIDE DEF r, q
  <2>3. c \in 0 .. Width - 1
    BY <1>0
  <2> HIDE DEF c
  <2>4. Snapped \in 0 .. Width - 1
    BY <1>0, <2>1, <2>2, <2>3
  <2>5. Snapped - c = -r + Width * 0 /\ -r \in {-1, 0} /\ Snapped - c \in Int /\ -r \in Int
    BY <1>0, <2>1, <2>2, <2>3
  <2>6. -Width <= 2 * (-r) /\ 2 * (-r) < Width
    BY <1>0, <2>2
  <2>7. Signed(Snapped - c) = -r
    BY <2>5, <2>6, SignedUnique
  <2>8. /\ Signed(Snapped - c) \in {-1, 0} /\ 0 \in Int
        /\ Snapped - c = Signed(Snapped - c) + Width * 0
    BY <2>5, <2>7
  <2>9. \E k \in Int : Snapped - c = Signed(Snapped - c) + Width * k
    BY <2>8
  <2>10. Signed(Snapped - c) \in Int
    BY <2>8
  <2> HIDE DEF c
  <2>11. ~(Ahead >= 0)
    BY <1>0, <1>2
  <2>12. QED
    BY <2>4, <2>8, <2>9, <2>10, <2>11 DEF c
<1>3. QED
  BY <1>0, <1>1, <1>2

\* audio_check_underrun makes words silent, or leaves them.
LEMMA HushedIs ==
  ASSUME AudioTypeOK, Tracker
  PROVE  /\ Hushed \in [0 .. BufWords - 1 -> Nat]
         /\ \A w \in 0 .. BufWords - 1 : Hushed[w] = 0 \/ Hushed[w] = buf[w]
         /\ Ahead >= 0 => Hushed = buf
<1>1. buf \in [0 .. BufWords - 1 -> Nat] /\ Ahead \in Int
  BY Follows DEF AudioTypeOK
<1>2. CASE Ahead >= 0
  BY <1>1, <1>2 DEF Hushed, Underrun
<1>3. CASE Ahead < 0
  <2>1. Hushed = [w \in 0 .. BufWords - 1 |->
                    IF (w + BufWords - (Consumed % BufWords)) % BufWords < SilenceWords
                    THEN 0 ELSE buf[w]]
    BY <1>1, <1>3 DEF Hushed, Underrun
  <2>2. QED
    BY <1>1, <1>3, <2>1
<1>4. QED
  BY <1>1, <1>2, <1>3

\* Everything is dropped and the writer put where the DMA is.
LEMMA WipedIs ==
  ASSUME AudioTypeOK, Tracker, Wiped, dacPos' = dacPos, half' = NoHalf
  PROVE  /\ Tracker' /\ HeardIsDue' /\ due' = << >> /\ buf' = Silence
         /\ buf' \in [0 .. BufWords - 1 -> Nat] /\ Ahead' \in {-1, 0}
         /\ write' \in 0 .. Width - 1 /\ dacLast' \in 0 .. BufWords - 1
         /\ abs' \in 0 .. Width - 1 /\ gap' = 0
<1>0. /\ Width \in Nat \ {0} /\ Width >= 2 /\ Consumed \in 0 .. Width - 1
  <2>1. PICK h \in Nat \ {0} : BufWords = 2 * h
    BY AudioConstants
  <2>2. PICK m \in Nat \ {0} : Width = m * BufWords
    BY AudioConstants
  <2>3. BufWords >= 2 /\ BufWords \in Nat
    BY <2>1
  <2>4. m * BufWords >= BufWords
    BY <2>2, <2>3
  <2>5. QED
    BY <2>2, <2>3, <2>4, AudioConstants, Follows
<1>1. /\ buf' = Silence /\ write' = Even(Consumed) /\ due' = << >> /\ Tracked
  BY DEF Wiped
<1>2. /\ Tracker' /\ Consumed' = Consumed
      /\ dacLast' \in 0 .. BufWords - 1 /\ abs' \in 0 .. Width - 1 /\ gap' = 0
  BY <1>1, TrackedIs
<1>3. write' \in 0 .. Width - 1 /\ Ahead' \in {-1, 0}
  <2> DEFINE c == Consumed  r == c % 2  q == c \div 2
  <2>1. write' = c - r
    BY <1>1 DEF Even
  <2>2. q \in Int /\ r \in 0 .. 1 /\ c = 2 * q + r
    BY <1>0, DivMod
  <2> HIDE DEF r, q
  <2>3. c \in 0 .. Width - 1
    BY <1>0
  <2>4. Ahead' = Signed(write' - c)
    BY <1>2 DEF Ahead
  <2> HIDE DEF c
  <2>5. write' - c = -r + Width * 0 /\ -r \in {-1, 0} /\ write' - c \in Int /\ -r \in Int
    BY <1>0, <2>1, <2>2, <2>3
  <2>6. -Width <= 2 * (-r) /\ 2 * (-r) < Width /\ write' \in 0 .. Width - 1
    BY <1>0, <2>1, <2>2, <2>3
  <2>7. Signed(write' - c) = -r
    BY <2>5, <2>6, SignedUnique
  <2>8. QED
    BY <2>4, <2>5, <2>6, <2>7
<1>4. HeardIsDue'
  BY <1>1 DEF HeardIsDue
<1>5. buf' \in [0 .. BufWords - 1 -> Nat]
  BY <1>1 DEF Silence
<1>6. QED
  BY <1>1, <1>2, <1>3, <1>4, <1>5

\* How much audio_stream_write_mono16 puts: all, or what fills the ring.
LEMMA PutIs ==
  ASSUME AudioTypeOK, Tracker, Level, phase # "idle", NEW fs \in Seq(Nat)
  PROVE  LET a == Signed(Snapped - Consumed)
         IN /\ a \in -1 .. BufWords - 1 /\ Put(fs) \in 0 .. Len(fs)
            /\ a + 2 * Put(fs) <= BufWords - 1
            /\ Put(fs) = Len(fs) \/ a + 2 * Put(fs) >= BufWords - 2
            /\ Len(due) = IF a > 0 THEN a ELSE 0
            /\ a < 0 => Len(due) = 0
<1> DEFINE a == Signed(Snapped - Consumed)  f == (BufWords - 1 - a) \div 2
           r == (BufWords - 1 - a) % 2
<1>0. BufWords \in Nat \ {0} /\ Len(fs) \in Nat /\ Len(due) \in Nat
  BY AudioConstants, LenProperties DEF AudioTypeOK
<1>1. /\ a \in -1 .. BufWords - 1
      /\ a < 0 => Len(due) = 0
      /\ Len(due) = IF a > 0 THEN a ELSE 0
  <2>1. Ahead \in Int
    BY Follows
  <2>2. Len(due) = (IF Ahead > 0 THEN Ahead ELSE 0) /\ Len(due) < BufWords
    BY DEF Level
  <2>3. CASE Ahead >= 0
    <3>1. a = Ahead
      BY <2>3, SnappedIs
    <3>2. QED
      BY <1>0, <2>1, <2>2, <2>3, <3>1
  <2>4. CASE Ahead < 0
    <3>1. a \in {-1, 0}
      BY <2>4, SnappedIs
    <3>2. QED
      BY <1>0, <2>1, <2>2, <2>4, <3>1
  <2>5. QED
    BY <2>1, <2>3, <2>4
<1>2. FreeFrames = f /\ Put(fs) = IF Len(fs) < f THEN Len(fs) ELSE f
  BY DEF FreeFrames, Put
<1> HIDE DEF a
<1>3. f \in Int /\ r \in 0 .. 1 /\ BufWords - 1 - a = 2 * f + r
  <2>1. BufWords - 1 - a \in Int /\ 2 \in Nat \ {0}
    BY <1>0, <1>1
  <2> DEFINE x == BufWords - 1 - a
  <2>2. x \in Int
    BY <2>1
  <2> HIDE DEF x
  <2>3. x \div 2 \in Int /\ x % 2 \in 0 .. 1 /\ x = 2 * (x \div 2) + (x % 2)
    BY <2>2, DivMod
  <2>4. QED
    BY <2>3 DEF x
<1> HIDE DEF f, r
<1>4. f >= 0 /\ a + 2 * f <= BufWords - 1 /\ a + 2 * f >= BufWords - 2
  BY <1>0, <1>1, <1>3
<1>5. QED
  BY <1>0, <1>1, <1>2, <1>3, <1>4 DEF a

\* The words of the frames that are put, two of each.
WordsOf(fs) == [k \in 1 .. 2 * Put(fs) |-> fs[(k + 1) \div 2]]

\* The first word of an underrun falls behind the DMA.
Behindhand == IF Signed(Snapped - Consumed) < 0 THEN 1 ELSE 0

\* The words that will be heard are those of the frames, the late one left out.
LEMMA WordsAre ==
  ASSUME NEW fs \in Seq(Nat), Put(fs) \in 0 .. Len(fs), NEW l \in {0, 1}
  PROVE  LET heard == SubSeq(WordsOf(fs), 1 + l, 2 * Put(fs))
         IN /\ \A k \in 1 .. 2 * Put(fs) : \E i \in 1 .. Len(fs) : WordsOf(fs)[k] = fs[i]
            /\ \A k \in 1 .. 2 * Put(fs) : WordsOf(fs)[k] \in Nat
            /\ heard \in Seq(Nat)
            /\ Len(heard) = IF Put(fs) > 0 THEN 2 * Put(fs) - l ELSE 0
            /\ \A i \in 1 .. Len(heard) : heard[i] = WordsOf(fs)[i + l]
<1> DEFINE n == Put(fs)
<1>0. n \in Nat /\ Len(fs) \in Nat /\ n <= Len(fs)
  BY LenProperties
<1>1. \A k \in 1 .. 2 * n : WordsOf(fs)[k] = fs[(k + 1) \div 2]
  BY DEF WordsOf
<1> HIDE DEF n
<1>2. ASSUME NEW k \in 1 .. 2 * n PROVE (k + 1) \div 2 \in 1 .. Len(fs)
  <2> DEFINE q == (k + 1) \div 2  r == (k + 1) % 2
  <2>1. q \in Int /\ r \in 0 .. 1 /\ k + 1 = 2 * q + r
    <3> DEFINE x == k + 1
    <3>1. x \in Int
      BY <1>0
    <3> HIDE DEF x
    <3>2. x \div 2 \in Int /\ x % 2 \in 0 .. 1 /\ x = 2 * (x \div 2) + (x % 2)
      BY <3>1, HalfIs
    <3>3. QED
      BY <3>2 DEF x
  <2> HIDE DEF q, r
  <2>2. q \in 1 .. Len(fs)
    BY <1>0, <2>1
  <2>3. QED
    BY <2>2 DEF q
<1>3. \A k \in 1 .. 2 * n : \E i \in 1 .. Len(fs) : WordsOf(fs)[k] = fs[i]
  BY <1>1, <1>2
<1>4. \A k \in 1 .. 2 * n : WordsOf(fs)[k] \in Nat
  BY <1>3, ElementOfSeq
<1> DEFINE heard == SubSeq(WordsOf(fs), 1 + l, 2 * n)
<1>5. /\ heard \in Seq(Nat)
      /\ Len(heard) = IF 1 + l <= 2 * n THEN 2 * n - (1 + l) + 1 ELSE 0
      /\ \A i \in 1 .. 2 * n - (1 + l) + 1 : heard[i] = WordsOf(fs)[1 + l + i - 1]
  <2>1. 1 + l \in Int /\ 2 * n \in Int
    BY <1>0
  <2>2. \A k \in 1 + l .. 2 * n : WordsOf(fs)[k] \in Nat
    BY <1>0, <1>4
  <2>3. QED
    BY <2>1, <2>2, SubSeqProperties
<1> HIDE DEF heard
<1>6. Len(heard) = IF n > 0 THEN 2 * n - l ELSE 0
  BY <1>0, <1>5
<1>7. ASSUME NEW i \in 1 .. Len(heard) PROVE heard[i] = WordsOf(fs)[i + l]
  <2>1. i \in 1 .. 2 * n - (1 + l) + 1 /\ 1 + l + i - 1 = i + l
    BY <1>0, <1>6
  <2>2. QED
    BY <1>5, <2>1
<1>8. QED
  BY <1>3, <1>4, <1>5, <1>6, <1>7 DEF n, heard

\* audio_stream_write_mono16, as far as the counters and what is due go.
LEMMA WrittenIs ==
  ASSUME AudioTypeOK, Tracker, Level, WideCounters, phase # "idle", NEW fs \in Seq(Nat),
         WriteMono(fs), dacPos' = dacPos, half' = NoHalf
  PROVE  LET a == Signed(Snapped - Consumed)
         IN /\ Tracker' /\ dacLast' \in 0 .. BufWords - 1 /\ abs' \in 0 .. Width - 1 /\ gap' = 0
            /\ write' = (Snapped + 2 * Put(fs)) % Width /\ write' \in 0 .. Width - 1
            /\ Ahead' = a + 2 * Put(fs)
            /\ due' \in Seq(Nat) /\ Len(due') < BufWords
            /\ Len(due') = IF Ahead' > 0 THEN Ahead' ELSE 0
<1> DEFINE a == Signed(Snapped - Consumed)  n == Put(fs)
           heard == SubSeq(WordsOf(fs), 1 + Behindhand, 2 * n)
<1>1. /\ a \in -1 .. BufWords - 1 /\ n \in 0 .. Len(fs)
      /\ a + 2 * n <= BufWords - 1
      /\ Len(due) = IF a > 0 THEN a ELSE 0
  BY PutIs
<1>2. /\ write' = (Snapped + 2 * n) % Width /\ Tracked /\ due' = due \o heard
  BY DEF WriteMono, WordsOf, Behindhand
<1>3. /\ Tracker' /\ Consumed' = Consumed
      /\ dacLast' \in 0 .. BufWords - 1 /\ abs' \in 0 .. Width - 1 /\ gap' = 0
  BY <1>2, TrackedIs
<1>4. /\ Snapped \in 0 .. Width - 1 /\ Consumed \in 0 .. Width - 1
      /\ Width \in Nat \ {0} /\ BufWords \in Nat \ {0}
      /\ Len(due) \in Nat /\ due \in Seq(Nat) /\ Len(fs) \in Nat
  BY SnappedIs, Follows, AudioConstants, LenProperties DEF AudioTypeOK
<1>5. PICK k \in Int : Snapped - Consumed = a + Width * k
  BY SnappedIs
<1>6. Behindhand \in {0, 1} /\ (Behindhand = 1 <=> a < 0)
  BY DEF Behindhand
<1>7. heard \in Seq(Nat) /\ Len(heard) = IF n > 0 THEN 2 * n - Behindhand ELSE 0
  BY <1>1, <1>6, WordsAre
<1> HIDE DEF a, n, heard
<1>8. write' \in 0 .. Width - 1 /\ Ahead' = a + 2 * n
  <2> DEFINE x == Snapped + 2 * n  q == x \div Width
  <2>1. x \in Int
    BY <1>1, <1>4
  <2>2. q \in Int /\ x % Width \in 0 .. Width - 1 /\ x = Width * q + (x % Width)
    BY <1>4, <2>1, DivMod
  <2>3. write' = x % Width
    BY <1>2
  <2> HIDE DEF q
  <2>4. write' \in 0 .. Width - 1 /\ Width * (-q) = -(Width * q) /\ Width * q \in Int
    BY <1>4, <2>2, <2>3
  <2>5. write' - Consumed = (Snapped - Consumed) + 2 * n + Width * (-q)
    <3> DEFINE t == Width * q
    <3>1. x = t + (x % Width) /\ t \in Int /\ Width * (-q) = -t
      BY <2>2, <2>4
    <3> HIDE DEF t
    <3>2. write' = x - t
      BY <2>1, <2>2, <2>3, <3>1
    <3>3. write' - Consumed = (Snapped - Consumed) + 2 * n + (-t)
      BY <1>1, <1>4, <3>1, <3>2
    <3>4. QED
      BY <3>1, <3>3
  <2>6. /\ -Width <= 2 * (a + 2 * n) /\ 2 * (a + 2 * n) < Width
        /\ a \in Int /\ 2 * n \in Int /\ -q \in Int
    <3>1. 2 * BufWords <= Width /\ q \in Int
      BY <2>2 DEF WideCounters
    <3>2. QED
      BY <1>1, <1>4, <3>1
  <2>7. Signed(write' - Consumed) = a + 2 * n
    <3> DEFINE e == 2 * n  j == -q
    <3>1. Snapped \in Int /\ Consumed \in Int /\ write' \in Int /\ Consumed' = Consumed
      BY <1>3, <1>4, <2>4
    <3>2. /\ write' - Consumed = (Snapped - Consumed) + e + Width * j
          /\ -Width <= 2 * (a + e) /\ 2 * (a + e) < Width
          /\ a \in Int /\ e \in Int /\ j \in Int
      BY <2>5, <2>6
    <3> HIDE DEF e, j
    <3> DEFINE w == write'
    <3>3. w \in Int /\ w - Consumed = (Snapped - Consumed) + e + Width * j
      BY <3>1, <3>2
    <3> HIDE DEF w
    <3>4. Signed(w - Consumed) = a + e
      <4> DEFINE A == a + e  m == k + j  D == w - Consumed
      <4>1. Width * m = Width * k + Width * j
        BY <1>4, <3>2
      <4>2. D = A + Width * m /\ D \in Int /\ A \in Int /\ m \in Int
        <5>1. Width * k \in Int /\ Width * j \in Int
          BY <1>4, <3>2
        <5>2. QED
          BY <1>4, <1>5, <3>1, <3>2, <3>3, <4>1, <5>1
      <4>3. -Width <= 2 * A /\ 2 * A < Width
        BY <3>2
      <4> HIDE DEF A, m, D
      <4>4. Signed(D) = A
        BY <4>2, <4>3, SignedUnique
      <4>5. QED
        BY <4>4 DEF A, D
    <3>5. QED
      BY <3>4 DEF e, w
  <2>8. QED
    BY <1>3, <2>4, <2>7 DEF Ahead
<1>9. due' \in Seq(Nat) /\ Len(due') = Len(due) + Len(heard)
  BY <1>2, <1>4, <1>7, ConcatProperties
<1>10. Len(due') = IF Ahead' > 0 THEN Ahead' ELSE 0
  BY <1>1, <1>4, <1>6, <1>7, <1>8, <1>9
<1>11. Len(due') < BufWords
  BY <1>1, <1>4, <1>8, <1>10
<1>12. QED
  BY <1>2, <1>3, <1>8, <1>9, <1>10, <1>11 DEF a, n

\* The position of a word not yet played, counted from where the writer goes on.
LEMMA PlaceOfDue ==
  ASSUME AudioTypeOK, Tracker, NEW i \in Nat, NEW k \in 0 .. BufWords - 1,
         \/ i - Signed(Snapped - Consumed) = k
         \/ i - Signed(Snapped - Consumed) = k - BufWords
  PROVE  LET w == (dacPos + i) % BufWords
         IN w \in 0 .. BufWords - 1 /\ (w + BufWords - (Snapped % BufWords)) % BufWords = k
<1> DEFINE a == Signed(Snapped - Consumed)  w == (dacPos + i) % BufWords
<1>1. PICK j \in Int : Snapped - Consumed = a + Width * j
  BY SnappedIs
<1>2. /\ Snapped \in Int /\ Consumed \in Int /\ a \in Int /\ dacPos \in Int
      /\ Width \in Nat \ {0} /\ BufWords \in Nat \ {0} /\ Consumed % BufWords = dacPos
      /\ dacPos \in 0 .. BufWords - 1
  <2>1. Width \in Nat \ {0} /\ BufWords \in Nat \ {0}
    BY AudioConstants
  <2>2. Snapped \in 0 .. Width - 1 /\ a \in Int
    BY SnappedIs
  <2>3. Consumed \in 0 .. Width - 1 /\ Consumed % BufWords = dacPos
    BY Follows
  <2>4. dacPos \in 0 .. BufWords - 1
    BY DEF AudioTypeOK
  <2> HIDE DEF a
  <2>5. QED
    BY <2>1, <2>2, <2>3, <2>4
<1>3. w = (Consumed + i) % BufWords
  <2>1. ((Consumed % BufWords) + i) % BufWords = (Consumed + i) % BufWords
    <3>1. i \in Int /\ Consumed \in Int /\ BufWords \in Nat \ {0}
      BY <1>2
    <3>2. QED
      BY <3>1, ModAdd
  <2>2. QED
    BY <1>2, <2>1
<1>4. i - a = k \/ i - a = k - BufWords
  OBVIOUS
<1> HIDE DEF a, w
<1>5. Consumed + i = (Snapped + (i - a)) + Width * (-j)
  <2>1. Width * (-j) = -(Width * j) /\ Width * j \in Int
    BY <1>2
  <2>2. QED
    BY <1>1, <1>2, <2>1
<1>6. w = (Snapped + (i - a)) % BufWords
  <2>1. Snapped + (i - a) \in Int /\ -j \in Int
    BY <1>2
  <2>2. ((Snapped + (i - a)) + Width * (-j)) % BufWords = (Snapped + (i - a)) % BufWords
    BY <2>1, Turns
  <2>3. QED
    BY <1>3, <1>5, <2>2
<1>7. w = (Snapped + k) % BufWords
  <2>1. CASE i - a = k
    BY <1>6, <2>1
  <2>2. CASE i - a = k - BufWords
    <3>1. Snapped + k \in Int /\ -1 \in Int
      BY <1>2
    <3>2. ((Snapped + k) + BufWords * (-1)) % BufWords = (Snapped + k) % BufWords
      BY <1>2, <3>1, ModShift
    <3>3. (Snapped + k) + BufWords * (-1) = Snapped + (i - a)
      BY <1>2, <2>2
    <3>4. QED
      BY <1>6, <3>2, <3>3
  <2>3. QED
    BY <1>4, <2>1, <2>2
<1>8. /\ (Snapped + k) % BufWords \in 0 .. BufWords - 1
      /\ (((Snapped + k) % BufWords) + BufWords - (Snapped % BufWords)) % BufWords = k
  BY <1>2, PlaceIs
<1>9. QED
  BY <1>7, <1>8 DEF w

\* audio_stream_write_mono16, as far as the ring goes: nothing that is due is
\* overwritten, and what is written lies where it becomes due.
LEMMA WrittenHeard ==
  ASSUME AudioInv, WideCounters, phase # "idle", NEW fs \in Seq(Nat),
         WriteMono(fs), dacPos' = dacPos, half' = NoHalf
  PROVE  HeardIsDue' /\ buf' \in [0 .. BufWords - 1 -> Nat]
<1> DEFINE a == Signed(Snapped - Consumed)  n == Put(fs)
           heard == SubSeq(WordsOf(fs), 1 + Behindhand, 2 * n)
           K(w) == (w + BufWords - (Snapped % BufWords)) % BufWords
<1>0. AudioTypeOK /\ Tracker /\ Level /\ HeardIsDue
  BY DEF AudioInv
<1>1. /\ a \in -1 .. BufWords - 1 /\ n \in 0 .. Len(fs) /\ n \in Nat
      /\ a + 2 * n <= BufWords - 1
      /\ Len(due) = IF a > 0 THEN a ELSE 0
      /\ a < 0 => Len(due) = 0
  <2>1. Len(fs) \in Nat
    BY LenProperties
  <2>2. QED
    BY <1>0, <2>1, PutIs
<1>2. /\ due' = due \o heard
      /\ buf' = [w \in 0 .. BufWords - 1 |->
                   IF K(w) < 2 * n THEN WordsOf(fs)[K(w) + 1] ELSE Hushed[w]]
  BY <1>0 DEF WriteMono, WordsOf, Behindhand, AudioTypeOK
<1>3. Behindhand \in {0, 1} /\ (Behindhand = 1 <=> a < 0)
  BY DEF Behindhand
<1>4. /\ \A k \in 1 .. 2 * n : WordsOf(fs)[k] \in Nat
      /\ heard \in Seq(Nat) /\ Len(heard) = IF n > 0 THEN 2 * n - Behindhand ELSE 0
      /\ \A i \in 1 .. Len(heard) : heard[i] = WordsOf(fs)[i + Behindhand]
  BY <1>1, <1>3, WordsAre
<1>5. /\ BufWords \in Nat \ {0} /\ Len(due) \in Nat /\ due \in Seq(Nat) /\ Snapped \in Int
      /\ dacPos \in 0 .. BufWords - 1
  BY <1>0, AudioConstants, SnappedIs, LenProperties DEF AudioTypeOK
<1>6. Hushed \in [0 .. BufWords - 1 -> Nat] /\ (Len(due) > 0 => Hushed = buf)
  <2>1. Len(due) > 0 => Ahead >= 0
    BY <1>0, Follows DEF Level
  <2>2. QED
    BY <1>0, <2>1, HushedIs
<1>7. ASSUME NEW i \in Nat, NEW k \in 0 .. BufWords - 1, i - a = k \/ i - a = k - BufWords
      PROVE  (dacPos + i) % BufWords \in 0 .. BufWords - 1 /\ K((dacPos + i) % BufWords) = k
  BY <1>0, <1>7, PlaceOfDue
<1>8. ASSUME NEW w \in 0 .. BufWords - 1 PROVE K(w) \in 0 .. BufWords - 1
  <2>1. Snapped % BufWords \in 0 .. BufWords - 1
    BY <1>5, DivMod
  <2>2. w + BufWords - (Snapped % BufWords) \in Int
    BY <1>5, <2>1
  <2>3. QED
    BY <1>5, <2>2, DivMod
<1> HIDE DEF a, n, heard, K
<1>9. buf' \in [0 .. BufWords - 1 -> Nat]
  <2> SUFFICES ASSUME NEW w \in 0 .. BufWords - 1
               PROVE  (IF K(w) < 2 * n THEN WordsOf(fs)[K(w) + 1] ELSE Hushed[w]) \in Nat
    BY <1>2
  <2>1. K(w) < 2 * n => K(w) + 1 \in 1 .. 2 * n
    <3>1. K(w) \in 0 .. BufWords - 1 /\ n \in Nat /\ BufWords \in Nat
      BY <1>1, <1>5, <1>8
    <3>2. QED
      BY <3>1
  <2>2. QED
    BY <1>4, <1>6, <2>1
<1>10. /\ Len(due') = Len(due) + Len(heard) /\ Len(heard) \in Nat
       /\ \A i \in 1 .. Len(due) + Len(heard) :
            due'[i] = IF i <= Len(due) THEN due[i] ELSE heard[i - Len(due)]
  BY <1>2, <1>4, <1>5, ConcatProperties, LenProperties
<1>11. ASSUME NEW i \in 1 .. Len(due')
       PROVE  buf'[(dacPos + i - 1) % BufWords] = due'[i]
  <2> DEFINE w == (dacPos + (i - 1)) % BufWords
  <2>0. dacPos + i - 1 = dacPos + (i - 1) /\ i - 1 \in Nat
    BY <1>5, <1>10
  <2>1. CASE i <= Len(due)
    <3> DEFINE k == BufWords + (i - 1) - a
    <3>1. k \in 0 .. BufWords - 1 /\ i - 1 - a = k - BufWords /\ ~(k < 2 * n) /\ Len(due) > 0
      BY <1>1, <1>5, <1>10, <2>0, <2>1
    <3>2. w \in 0 .. BufWords - 1 /\ K(w) = k
      BY <1>7, <2>0, <3>1
    <3>3. buf'[w] = buf[w]
      BY <1>2, <1>6, <3>1, <3>2
    <3>4. buf[w] = due[i]
      BY <1>0, <1>5, <2>0, <2>1 DEF HeardIsDue
    <3>5. due'[i] = due[i]
      BY <1>10, <2>1
    <3>6. QED
      BY <2>0, <3>3, <3>4, <3>5
  <2>2. CASE ~(i <= Len(due))
    <3> DEFINE j == i - Len(due)  k == j - 1 + Behindhand
    <3>1. j \in 1 .. Len(heard) /\ due'[i] = heard[j]
      BY <1>5, <1>10, <2>2
    <3>2. k \in 0 .. BufWords - 1 /\ k < 2 * n /\ k + 1 = j + Behindhand /\ (i - 1) - a = k
      <4>1. /\ a \in -1 .. BufWords - 1 /\ n \in Nat /\ a + 2 * n <= BufWords - 1
            /\ Behindhand = (IF a < 0 THEN 1 ELSE 0) /\ j = i - Len(due) /\ i \in Int
            /\ Len(due) = (IF a > 0 THEN a ELSE 0) /\ BufWords \in Nat
        BY <1>1, <1>3, <1>5, <1>10
      <4>2. j \in Nat \ {0} /\ j <= 2 * n - Behindhand
        BY <1>4, <3>1, <4>1
      <4> HIDE DEF j
      <4>3. QED
        BY <4>1, <4>2
    <3>3. w \in 0 .. BufWords - 1 /\ K(w) = k
      BY <1>7, <2>0, <3>2
    <3>4. buf'[w] = WordsOf(fs)[k + 1]
      BY <1>2, <3>2, <3>3
    <3>5. heard[j] = WordsOf(fs)[j + Behindhand]
      BY <1>4, <3>1
    <3>6. QED
      BY <2>0, <3>1, <3>2, <3>4, <3>5
  <2>3. QED
    BY <2>1, <2>2
<1>12. QED
  BY <1>9, <1>11 DEF HeardIsDue

-----------------------------------------------------------------------------
(* What is due is heard                                                    *)

\* Who may be writing.
Phases == {"idle", "sine", "silence", "stream", "pad"}

\* The program starts with a silent ring.
LEMMA AudioInitInvariant == AudioInit => AudioInv
<1> SUFFICES ASSUME AudioInit PROVE AudioInv
  OBVIOUS
<1>1. /\ BufWords \in Nat \ {0} /\ Width \in Nat \ {0} /\ MaxGap \in Nat
      /\ 0 \in 0 .. BufWords - 1 /\ 0 \in 0 .. Width - 1 /\ 0 \in 0 .. MaxGap
  BY AudioConstants
<1>2. buf \in [0 .. BufWords - 1 -> Nat]
  BY DEF AudioInit, Silence
<1>3. NoHalf \in [delta : -1 .. BufWords - 1, now : 0 .. BufWords - 1]
  BY <1>1 DEF NoHalf
<1>4. AudioTypeOK
  BY <1>1, <1>2, <1>3, EmptySeq DEF AudioInit, AudioTypeOK
<1>5. Tracker
  <2>1. (0 + 0) % BufWords = 0 /\ 0 % BufWords = 0
    BY <1>1, ModSmall
  <2>2. (0 + BufWords - 0) % BufWords = 0
    BY <1>1, <2>1, MovedIs
  <2>3. QED
    BY <2>1, <2>2 DEF AudioInit, Tracker, Moved
<1>6. Level /\ HeardIsDue
  BY <1>1, EmptySeq DEF AudioInit, Level, HeardIsDue
<1>7. QED
  BY <1>4, <1>5, <1>6 DEF AudioInv

\* A call that drops everything.
LEMMA WipedKeeps ==
  ASSUME AudioInv, Wiped, half = NoHalf, UNCHANGED <<dacPos, next, half>>,
         paused' \in BOOLEAN, left' \in Nat, phase' \in Phases,
         phase' \in {"sine", "silence", "pad"} => left' > 0
  PROVE  AudioInv'
<1>0. AudioTypeOK /\ Tracker /\ half' = NoHalf /\ MaxGap \in Nat /\ BufWords \in Nat \ {0}
  BY AudioConstants DEF AudioInv
<1>1. /\ Tracker' /\ HeardIsDue' /\ due' = << >> /\ Ahead' \in {-1, 0}
      /\ buf' \in [0 .. BufWords - 1 -> Nat]
      /\ write' \in 0 .. Width - 1 /\ dacLast' \in 0 .. BufWords - 1
      /\ abs' \in 0 .. Width - 1 /\ gap' = 0
  BY <1>0, WipedIs
<1>2. AudioTypeOK'
  <2>1. << >> \in Seq(Nat) /\ 0 \in 0 .. MaxGap
    BY <1>0, EmptySeq
  <2>2. QED
    BY <1>0, <1>1, <2>1 DEF AudioTypeOK, Phases
<1>3. Level'
  <2>1. Len(<< >>) = 0
    OBVIOUS
  <2>2. QED
    BY <1>0, <1>1, <2>1 DEF Level
<1>4. QED
  BY <1>1, <1>2, <1>3 DEF AudioInv

\* A call that writes frames.
LEMMA WriteKeeps ==
  ASSUME AudioInv, WideCounters, phase # "idle", NEW fs \in Seq(Nat), WriteMono(fs),
         half = NoHalf, UNCHANGED <<dacPos, paused, half>>,
         left' \in Nat, next' \in Nat, phase' \in Phases,
         phase' \in {"sine", "silence", "pad"} => left' > 0
  PROVE  AudioInv'
<1>0. AudioTypeOK /\ Tracker /\ Level /\ half' = NoHalf /\ MaxGap \in Nat
      /\ BufWords \in Nat \ {0}
  BY AudioConstants DEF AudioInv
<1> DEFINE a == Signed(Snapped - Consumed)
<1>1. a \in -1 .. BufWords - 1 /\ Put(fs) \in Nat
  <2>1. Len(fs) \in Nat
    BY LenProperties
  <2>2. QED
    BY <1>0, <2>1, PutIs
<1>2. /\ Tracker' /\ dacLast' \in 0 .. BufWords - 1 /\ abs' \in 0 .. Width - 1 /\ gap' = 0
      /\ write' \in 0 .. Width - 1 /\ Ahead' = a + 2 * Put(fs)
      /\ due' \in Seq(Nat) /\ Len(due') < BufWords
      /\ Len(due') = IF Ahead' > 0 THEN Ahead' ELSE 0
  BY <1>0, WrittenIs
<1>3. HeardIsDue' /\ buf' \in [0 .. BufWords - 1 -> Nat]
  BY <1>0, WrittenHeard
<1> HIDE DEF a
<1>4. AudioTypeOK'
  <2>1. 0 \in 0 .. MaxGap
    BY <1>0
  <2>2. QED
    BY <1>0, <1>2, <1>3, <2>1 DEF AudioTypeOK, Phases
<1>5. Level'
  <2>1. Ahead' >= -1
    BY <1>0, <1>1, <1>2
  <2>2. Ahead' \in Int
    BY <1>1, <1>2
  <2>3. Ahead' >= -1 - (IF paused' THEN MaxGap ELSE gap')
    BY <1>0, <1>2, <2>1, <2>2
  <2>4. QED
    BY <1>2, <2>3 DEF Level
<1>6. QED
  BY <1>2, <1>3, <1>4, <1>5 DEF AudioInv

\* The DMA moves on by a word.
LEMMA TickKeeps ==
  ASSUME AudioInv, WideCounters, Tick
  PROVE  AudioInv' /\ (phase # "idle" => Ahead' = Ahead - 1)
<1>0. /\ AudioTypeOK /\ Tracker /\ Level /\ HeardIsDue /\ MaxGap \in 0 .. BufWords - 1
      /\ BufWords \in Nat \ {0} /\ Width \in Nat \ {0}
  BY AudioConstants DEF AudioInv
<1>1. Tracker' /\ dacPos' \in 0 .. BufWords - 1
  BY <1>0, TickIs
<1>2. /\ dacPos' = (dacPos + 1) % BufWords /\ gap' = gap + 1 /\ gap < MaxGap /\ ~paused
      /\ due' = (IF due = << >> THEN due ELSE Tail(due))
      /\ UNCHANGED <<buf, dacLast, abs, write, paused, phase, left, next, half>>
  BY DEF Tick
<1>3. /\ due \in Seq(Nat) /\ Len(due) \in Nat /\ gap \in 0 .. MaxGap
      /\ dacPos \in 0 .. BufWords - 1
  BY <1>0, LenProperties DEF AudioTypeOK
<1>4. /\ due' \in Seq(Nat) /\ Len(due') = IF Len(due) = 0 THEN 0 ELSE Len(due) - 1
      /\ \A i \in 1 .. Len(due') : i + 1 \in 1 .. Len(due) /\ due'[i] = due[i + 1]
  <2>1. CASE due = << >>
    <3>1. Len(due) = 0 /\ due' = due
      BY <1>2, <2>1
    <3>2. QED
      BY <1>3, <3>1
  <2>2. CASE due # << >>
    <3>1. Len(due) # 0 /\ due' = Tail(due)
      BY <1>2, <1>3, <2>2, EmptySeq
    <3>2. /\ Tail(due) \in Seq(Nat) /\ Len(Tail(due)) = Len(due) - 1
          /\ \A i \in 1 .. Len(Tail(due)) : Tail(due)[i] = due[i + 1]
      BY <1>3, <2>2, HeadTailProperties
    <3>3. QED
      BY <1>3, <3>1, <3>2
  <2>3. QED
    BY <2>1, <2>2
<1>5. AudioTypeOK'
  <2>1. gap' \in 0 .. MaxGap
    BY <1>0, <1>2, <1>3
  <2>2. QED
    BY <1>0, <1>1, <1>2, <1>4, <2>1 DEF AudioTypeOK
<1>6. phase # "idle" => Ahead' = Ahead - 1
  <2> SUFFICES ASSUME phase # "idle" PROVE Ahead' = Ahead - 1
    OBVIOUS
  <2>1. PICK j \in Int : Consumed' = Consumed + 1 - Width * j
    BY <1>0, TickIs
  <2>2. PICK k \in Int : write - Consumed = Ahead + Width * k
    BY <1>0, Follows
  <2>3. Ahead \in Int /\ 2 * Ahead < Width /\ Consumed \in Int /\ write \in Int
    BY <1>0, Follows DEF AudioTypeOK
  <2>4. Ahead >= -1 - gap
    BY <1>0, <1>2 DEF Level
  <2> DEFINE c == Consumed'  a == Ahead
  <2>5. -Width <= 2 * (a - 1) /\ 2 * (a - 1) < Width
    BY <1>0, <1>2, <1>3, <2>3, <2>4 DEF WideCounters
  <2>6. Width * (k + j) = Width * k + Width * j /\ Width * k \in Int /\ Width * j \in Int
    BY <1>0
  <2> HIDE DEF c, a
  <2>7. c = Consumed + 1 - Width * j
    BY <2>1 DEF c
  <2>8. write - c = (a - 1) + Width * (k + j)
    BY <2>2, <2>3, <2>6, <2>7 DEF a
  <2>9. c \in Int /\ a \in Int
    BY <2>3, <2>6, <2>7 DEF a
  <2>10. write - c \in Int /\ a - 1 \in Int /\ k + j \in Int
    BY <2>3, <2>9
  <2>11. Signed(write - c) = a - 1
    BY <2>5, <2>8, <2>10, SignedUnique
  <2>12. Ahead' = Signed(write - c)
    BY <1>2 DEF Ahead, c
  <2>13. QED
    BY <2>11, <2>12 DEF a
<1>7. Level'
  <2>1. Len(due') < BufWords
    BY <1>0, <1>3, <1>4 DEF Level
  <2>2. ASSUME phase # "idle"
        PROVE  /\ Len(due') = IF Ahead' > 0 THEN Ahead' ELSE 0
               /\ Ahead' >= -1 - gap'
    <3>1. Ahead' = Ahead - 1 /\ Ahead \in Int
      BY <1>0, <1>6, <2>2, Follows
    <3>2. (Len(due) = IF Ahead > 0 THEN Ahead ELSE 0) /\ Ahead >= -1 - gap
      BY <1>0, <1>2, <2>2 DEF Level
    <3>3. QED
      BY <1>2, <1>3, <1>4, <3>1, <3>2
  <2>3. QED
    BY <1>2, <2>1, <2>2 DEF Level
<1>8. HeardIsDue'
  <2> SUFFICES ASSUME NEW i \in 1 .. Len(due')
               PROVE  buf[(dacPos' + i - 1) % BufWords] = due'[i]
    BY <1>2 DEF HeardIsDue
  <2>1. i + 1 \in 1 .. Len(due) /\ due'[i] = due[i + 1] /\ i \in Int
    <3>1. i + 1 \in 1 .. Len(due) /\ due'[i] = due[i + 1]
      BY <1>4, Zenon
    <3>2. Len(due') \in Nat
      BY <1>3, <1>4
    <3>3. i \in Int
      BY <3>2
    <3>4. QED
      BY <3>1, <3>3
  <2>2. buf[(dacPos + (i + 1) - 1) % BufWords] = due[i + 1]
    BY <1>0, <2>1 DEF HeardIsDue
  <2>3. (((dacPos + 1) % BufWords) + (i - 1)) % BufWords = ((dacPos + 1) + (i - 1)) % BufWords
    <3>1. dacPos + 1 \in Int /\ i - 1 \in Int
      BY <1>3, <2>1
    <3>2. QED
      BY <1>0, <3>1, ModAdd
  <2>4. /\ (dacPos + 1) + (i - 1) = dacPos + (i + 1) - 1
        /\ dacPos' + i - 1 = ((dacPos + 1) % BufWords) + (i - 1)
    BY <1>1, <1>2, <1>3, <2>1
  <2>5. QED
    BY <2>1, <2>2, <2>3, <2>4
<1>9. QED
  BY <1>1, <1>5, <1>6, <1>7, <1>8 DEF AudioInv

\* The test tone and the pad write blocks, the last one what is left.
LEMMA RestIs ==
  ASSUME NEW x \in Nat \ {0}
  PROVE  LET rest == ((x - 1) % Block) + 1
         IN rest \in 1 .. Block /\ rest <= x
<1>1. Block \in Nat \ {0} /\ x - 1 \in Int
  BY AudioConstants
<1>2. /\ (x - 1) \div Block \in Int /\ (x - 1) % Block \in 0 .. Block - 1
      /\ x - 1 = Block * ((x - 1) \div Block) + ((x - 1) % Block)
  BY <1>1, DivMod
<1> DEFINE q == (x - 1) \div Block  r == (x - 1) % Block
<1>3. q >= 0
  <2>1. q <= -1 => Block * q <= -Block
    BY <1>1, <1>2
  <2>2. QED
    BY <1>1, <1>2, <2>1
<1>4. Block * q >= 0
  BY <1>1, <1>2, <1>3
<1> HIDE DEF q, r
<1>5. r + 1 <= x /\ r + 1 \in 1 .. Block
  BY <1>1, <1>2, <1>4 DEF q, r
<1>6. QED
  BY <1>5 DEF r

\* The silence behind the tone is whole blocks, and a ring at least.
LEMMA WipeFramesIs ==
  /\ WipeFrames \in Nat \ {0} /\ 2 * WipeFrames >= BufWords
  /\ \E j \in Int : WipeFrames = Block * j
<1> DEFINE h == BufWords \div 2  q == h \div Block  r == h % Block
<1>1. PICK i \in Nat \ {0} : BufWords = 2 * i
  BY AudioConstants
<1>2. h = i
  <2>1. 0 \in 0 .. 2 - 1 /\ BufWords = 2 * i + 0 /\ BufWords \in Int /\ 2 \in Nat \ {0}
    BY <1>1
  <2>2. QED
    BY <2>1, DivIs
<1>3. Block \in Nat \ {0}
  BY AudioConstants
<1> HIDE DEF h
<1>4. q \in Int /\ r \in 0 .. Block - 1 /\ h = Block * q + r
  BY <1>2, <1>3, DivMod
<1> HIDE DEF q, r
<1>5. WipeFrames = Block * (q + 1)
  BY DEF WipeFrames, q, h
<1>6. Block * (q + 1) = Block * q + Block
  BY <1>3, <1>4
<1>7. WipeFrames > h
  BY <1>3, <1>4, <1>5, <1>6
<1>8. q + 1 \in Int /\ WipeFrames \in Int
  BY <1>3, <1>4, <1>5
<1>9. QED
  BY <1>1, <1>2, <1>5, <1>7, <1>8

\* A block of n frames.
LEMMA BlockIs ==
  ASSUME NEW n \in Nat, NEW f \in [1 .. n -> Nat]
  PROVE  f \in Seq(Nat) /\ Len(f) = n
<1>1. f \in UNION {[1 .. i -> Nat] : i \in Nat}
  OBVIOUS
<1>2. f \in Seq(Nat)
  BY <1>1, SeqDef
<1>3. DOMAIN f = 1 .. n /\ DOMAIN f = 1 .. Len(f) /\ Len(f) \in Nat
  BY <1>2, LenProperties
<1>4. QED
  BY <1>2, <1>3

\* A tick of the test writes the rest of a block.
TestFrames ==
  [i \in 1 .. ((left - 1) % Block) + 1 |-> IF phase = "sine" THEN next ELSE 0]

\* What a tick of the test does, its guard and choices spelled out.
LEMMA TestTickIs ==
  ASSUME AudioInv, TestTick
  PROVE  /\ TestFrames \in Seq(Nat) /\ Len(TestFrames) = ((left - 1) % Block) + 1
         /\ phase = "silence" => \A i \in 1 .. Len(TestFrames) : TestFrames[i] = 0
         /\ Len(TestFrames) \in 1 .. Block /\ Len(TestFrames) <= left
         /\ Put(TestFrames) \in 0 .. Len(TestFrames)
         /\ WriteMono(TestFrames) /\ half = NoHalf /\ phase \in {"sine", "silence"}
         /\ UNCHANGED <<dacPos, paused, next, half>>
         /\ LET after == left - Put(TestFrames)
            IN /\ after \in Nat
               /\ phase' = IF after > 0 THEN phase ELSE IF phase = "sine" THEN "silence" ELSE "idle"
               /\ left' = IF after = 0 /\ phase = "sine" THEN WipeFrames ELSE after
<1>0. AudioTypeOK /\ Tracker /\ Level /\ phase \in {"sine", "silence"} /\ half = NoHalf
  BY DEF AudioInv, TestTick, Core0
<1>1. left \in Nat \ {0} /\ next \in Nat
  BY <1>0 DEF AudioTypeOK
<1> DEFINE rest == ((left - 1) % Block) + 1
<1>2. rest \in 1 .. Block /\ rest <= left /\ Block \in Nat
  BY <1>1, RestIs, AudioConstants
<1>3. /\ WriteMono(TestFrames) /\ UNCHANGED <<dacPos, paused, next, half>>
      /\ LET after == left - Put(TestFrames)
         IN /\ phase' = IF after > 0 THEN phase ELSE IF phase = "sine" THEN "silence" ELSE "idle"
            /\ left' = IF after = 0 /\ phase = "sine" THEN WipeFrames ELSE after
  BY DEF TestTick, TestFrames
<1> HIDE DEF rest
<1>4. TestFrames \in [1 .. rest -> Nat]
  BY <1>1 DEF TestFrames, rest
<1>5. TestFrames \in Seq(Nat) /\ Len(TestFrames) = rest
  BY <1>2, <1>4, BlockIs
<1>6. Put(TestFrames) \in 0 .. Len(TestFrames)
  <2>1. phase # "idle"
    BY <1>0
  <2>2. QED
    BY <1>0, <1>5, <2>1, PutIs
<1>7. left - Put(TestFrames) \in Nat
  BY <1>1, <1>2, <1>5, <1>6
<1>8. ASSUME phase = "silence" PROVE \A i \in 1 .. Len(TestFrames) : TestFrames[i] = 0
  <2>1. TestFrames = [i \in 1 .. rest |-> 0]
    BY <1>8 DEF TestFrames, rest
  <2>2. QED
    BY <1>5, <2>1
<1>9. QED
  BY <1>0, <1>2, <1>3, <1>5, <1>6, <1>7, <1>8 DEF rest

\* A pass of tts_play_pump behind the end of the stream writes silence.
Todo == IF phase = "stream" THEN PadFrames ELSE left

\* The block of silence a pass writes.
ZeroFrames == [i \in 1 .. (IF Todo < Block THEN Todo ELSE Block) |-> 0]

\* What a pass of the pump does, its guard and choices spelled out.
LEMMA PumpEndIs ==
  ASSUME AudioInv, PumpEnd
  PROVE  /\ ZeroFrames \in Seq(Nat)
         /\ Todo \in Nat \ {0} /\ Len(ZeroFrames) = IF Todo < Block THEN Todo ELSE Block
         /\ \A i \in 1 .. Len(ZeroFrames) : ZeroFrames[i] = 0
         /\ Put(ZeroFrames) \in 0 .. Len(ZeroFrames)
         /\ WriteMono(ZeroFrames) /\ half = NoHalf /\ phase \in {"stream", "pad"}
         /\ UNCHANGED <<dacPos, paused, next, half>>
         /\ left' = Todo - Put(ZeroFrames) /\ left' \in Nat
         /\ phase' = IF left' = 0 THEN "idle" ELSE "pad"
<1>0. AudioTypeOK /\ Tracker /\ Level /\ phase \in {"stream", "pad"} /\ half = NoHalf
  BY DEF AudioInv, PumpEnd, Core0
<1>1. Todo \in Nat \ {0}
  <2>1. PICK h \in Nat \ {0} : BufWords = 2 * h
    BY AudioConstants
  <2>2. BufWords \div 2 = h
    <3>1. 0 \in 0 .. 2 - 1 /\ BufWords = 2 * h + 0 /\ BufWords \in Int /\ 2 \in Nat \ {0}
      BY <2>1
    <3>2. QED
      BY <2>1, <3>1, DivIs
  <2>3. PadFrames \in Nat \ {0}
    BY <2>1, <2>2, AudioConstants DEF PadFrames
  <2>4. QED
    BY <1>0, <2>3 DEF Todo, AudioTypeOK
<1> DEFINE n == IF Todo < Block THEN Todo ELSE Block
<1>2. n \in Nat /\ n <= Todo
  BY <1>1, AudioConstants
<1>3. /\ WriteMono(ZeroFrames) /\ UNCHANGED <<dacPos, paused, next, half>>
      /\ left' = Todo - Put(ZeroFrames)
      /\ phase' = IF left' = 0 THEN "idle" ELSE "pad"
  BY DEF PumpEnd, ZeroFrames, Todo
<1>4. ZeroFrames = [i \in 1 .. n |-> 0]
  BY DEF ZeroFrames
<1> HIDE DEF n
<1>5. ZeroFrames \in [1 .. n -> Nat] /\ \A i \in 1 .. n : ZeroFrames[i] = 0
  BY <1>4
<1>6. ZeroFrames \in Seq(Nat) /\ Len(ZeroFrames) = n
  BY <1>2, <1>5, BlockIs
<1>7. Put(ZeroFrames) \in 0 .. Len(ZeroFrames)
  <2>1. phase # "idle"
    BY <1>0
  <2>2. QED
    BY <1>0, <1>6, <2>1, PutIs
<1>8. left' \in Nat
  BY <1>1, <1>2, <1>3, <1>6, <1>7
<1>9. QED
  BY <1>0, <1>1, <1>3, <1>5, <1>6, <1>7, <1>8 DEF n

\* Every step of the program keeps the invariant.
LEMMA AudioStepInvariant ==
  ASSUME AudioInv, WideCounters, ~Core1Resets, [AudioNext]_audioVars
  PROVE  AudioInv'
<1>0. /\ AudioTypeOK /\ Tracker /\ Level /\ HeardIsDue /\ MaxGap \in Nat
      /\ BufWords \in Nat \ {0} /\ gap \in 0 .. MaxGap
  BY AudioConstants DEF AudioInv, AudioTypeOK
<1>1. CASE Tick
  BY <1>1, TickKeeps
<1>2. CASE Pause
  <2>1. /\ phase \in Phases /\ half = NoHalf /\ paused' = TRUE /\ Tracked
        /\ UNCHANGED <<buf, dacPos, write, phase, left, next, half, due>>
    BY <1>2 DEF Pause, Core0, Phases
  <2>2. /\ Tracker' /\ Consumed' = Consumed /\ gap' = 0
        /\ dacLast' \in 0 .. BufWords - 1 /\ abs' \in 0 .. Width - 1
    BY <1>0, <2>1, TrackedIs
  <2>3. Ahead' = Ahead /\ Ahead \in Int
    BY <1>0, <2>1, <2>2, Follows DEF Ahead
  <2>4. AudioTypeOK'
    <3>1. 0 \in 0 .. MaxGap
      BY <1>0
    <3>2. QED
      BY <1>0, <2>1, <2>2, <3>1 DEF AudioTypeOK
  <2>5. Level'
    <3>1. phase # "idle" => Ahead >= -1 - MaxGap /\ Len(due) = IF Ahead > 0 THEN Ahead ELSE 0
      BY <1>0, <2>3 DEF Level
    <3>2. Len(due) < BufWords
      BY <1>0 DEF Level
    <3>3. QED
      BY <2>1, <2>3, <3>1, <3>2 DEF Level
  <2>6. HeardIsDue'
    BY <1>0, <2>1 DEF HeardIsDue
  <2>7. QED
    BY <2>2, <2>4, <2>5, <2>6 DEF AudioInv
<1>3. CASE Resume \/ Stop \/ BeginTest \/ StartPlayback
  <2>1. /\ Wiped /\ half = NoHalf /\ UNCHANGED <<dacPos, next, half>>
    BY <1>3 DEF Resume, Stop, BeginTest, StartPlayback, Core0
  <2>2. paused' \in BOOLEAN
    BY <1>0, <1>3 DEF Resume, Stop, BeginTest, StartPlayback, AudioTypeOK
  <2>3. left' \in Nat /\ phase' \in Phases /\ (phase' \in {"sine", "silence", "pad"} => left' > 0)
    <3>1. CASE BeginTest
      BY <3>1, AudioConstants DEF BeginTest, Phases
    <3>2. CASE Resume \/ Stop \/ StartPlayback
      BY <1>0, <3>2 DEF Resume, Stop, StartPlayback, AudioTypeOK, Phases
    <3>3. QED
      BY <1>3, <3>1, <3>2
  <2>4. QED
    BY <2>1, <2>2, <2>3, WipedKeeps
<1>4. CASE TestTick
  <2> DEFINE after == left - Put(TestFrames)
  <2>1. /\ TestFrames \in Seq(Nat) /\ WriteMono(TestFrames) /\ half = NoHalf
        /\ phase \in {"sine", "silence"} /\ UNCHANGED <<dacPos, paused, next, half>>
        /\ after \in Nat
        /\ phase' = IF after > 0 THEN phase ELSE IF phase = "sine" THEN "silence" ELSE "idle"
        /\ left' = IF after = 0 /\ phase = "sine" THEN WipeFrames ELSE after
    BY <1>4, TestTickIs
  <2> HIDE DEF after
  <2>2. /\ left' \in Nat /\ phase' \in Phases
        /\ phase' \in {"sine", "silence", "pad"} => left' > 0
    BY <2>1, WipeFramesIs DEF Phases
  <2>3. phase # "idle" /\ next' \in Nat
    BY <1>0, <2>1 DEF AudioTypeOK
  <2>4. QED
    BY <2>1, <2>2, <2>3, WriteKeeps
<1>5. CASE WritePacket
  <2>1. /\ phase = "stream" /\ half = NoHalf /\ WriteMono(<<next>>)
        /\ next' = 1 + (next % 3) /\ UNCHANGED <<dacPos, paused, phase, left, half>>
    BY <1>5 DEF WritePacket, Core0
  <2>2. next \in Nat /\ left \in Nat
    BY <1>0 DEF AudioTypeOK
  <2>3. <<next>> \in Seq(Nat)
    BY <2>2
  <2>4. next' \in Nat
    BY <2>1, <2>2
  <2>5. QED
    BY <2>1, <2>2, <2>3, <2>4, WriteKeeps DEF Phases
<1>6. CASE PlayPump
  <2>1. /\ half = NoHalf /\ phase \in {"idle", "stream"} /\ Tracked
        /\ UNCHANGED <<dacPos, paused, phase, left, next, half, due>>
        /\ \/ phase = "idle" /\ buf' = buf /\ write' = write
           \/ phase = "stream" /\ buf' = Hushed /\ write' = Snapped
    BY <1>6 DEF PlayPump, Core0
  <2>2. /\ Tracker' /\ Consumed' = Consumed /\ gap' = 0
        /\ dacLast' \in 0 .. BufWords - 1 /\ abs' \in 0 .. Width - 1
    BY <1>0, <2>1, TrackedIs
  <2>3. /\ Hushed \in [0 .. BufWords - 1 -> Nat] /\ Snapped \in 0 .. Width - 1
        /\ Ahead >= 0 => Hushed = buf
    BY <1>0, HushedIs, SnappedIs
  <2>4. AudioTypeOK'
    <3>1. 0 \in 0 .. MaxGap
      BY <1>0
    <3>2. buf' \in [0 .. BufWords - 1 -> Nat] /\ write' \in 0 .. Width - 1
      BY <1>0, <2>1, <2>3 DEF AudioTypeOK
    <3>3. QED
      BY <1>0, <2>1, <2>2, <3>1, <3>2 DEF AudioTypeOK
  <2>5. phase = "stream" => /\ Ahead' \in -1 .. BufWords - 1
                            /\ Len(due) = IF Ahead' > 0 THEN Ahead' ELSE 0
    <3> SUFFICES ASSUME phase = "stream"
                 PROVE  /\ Ahead' \in -1 .. BufWords - 1
                        /\ Len(due) = IF Ahead' > 0 THEN Ahead' ELSE 0
      OBVIOUS
    <3>1. Ahead' = Signed(Snapped - Consumed)
      BY <2>1, <2>2 DEF Ahead
    <3>2. << >> \in Seq(Nat)
      BY EmptySeq
    <3>3. QED
      BY <1>0, <3>1, <3>2, PutIs
  <2>6. Level'
    <3>1. Len(due) < BufWords
      BY <1>0 DEF Level
    <3>2. phase = "stream" => Ahead' >= -1 - (IF paused THEN MaxGap ELSE gap')
      BY <1>0, <2>2, <2>5
    <3>3. QED
      BY <2>1, <2>5, <3>1, <3>2 DEF Level
  <2>7. HeardIsDue'
    <3>1. Len(due) > 0 => buf' = buf
      <4>1. phase = "stream" /\ Len(due) > 0 => Ahead >= 0
        BY <1>0, Follows DEF Level
      <4>2. QED
        BY <2>1, <2>3, <4>1
    <3>2. Len(due) \in Nat
      BY <1>0, LenProperties DEF AudioTypeOK
    <3>3. QED
      BY <1>0, <2>1, <3>1, <3>2 DEF HeardIsDue
  <2>8. QED
    BY <2>2, <2>4, <2>6, <2>7 DEF AudioInv
<1>7. CASE PumpEnd
  <2>1. /\ ZeroFrames \in Seq(Nat) /\ WriteMono(ZeroFrames) /\ half = NoHalf
        /\ phase \in {"stream", "pad"} /\ UNCHANGED <<dacPos, paused, next, half>>
        /\ left' \in Nat /\ phase' = IF left' = 0 THEN "idle" ELSE "pad"
    BY <1>7, PumpEndIs
  <2>2. /\ phase' \in Phases /\ (phase' \in {"sine", "silence", "pad"} => left' > 0)
        /\ phase # "idle" /\ next' \in Nat
    BY <1>0, <2>1 DEF Phases, AudioTypeOK
  <2>3. QED
    BY <2>1, <2>2, WriteKeeps
<1>8. CASE BeginTrack
  <2>1. /\ half' = [delta |-> Moved, now |-> dacPos]
        /\ UNCHANGED <<buf, dacPos, dacLast, abs, write, paused, phase, left, next, gap, due>>
    BY <1>8 DEF BeginTrack
  <2>2. Moved \in 0 .. BufWords - 1 /\ (dacLast + Moved) % BufWords = dacPos
    BY <1>0, Follows, AudioConstants
  <2>3. half' \in [delta : -1 .. BufWords - 1, now : 0 .. BufWords - 1] /\ half'.delta >= 0
    BY <1>0, <2>1, <2>2 DEF AudioTypeOK
  <2>4. AudioTypeOK'
    BY <1>0, <2>1, <2>3 DEF AudioTypeOK
  <2>5. Moved' = Moved /\ Ahead' = Ahead
    BY <2>1 DEF Moved, Ahead, Consumed
  <2>6. Tracker'
    BY <1>0, <2>1, <2>2, <2>5 DEF Tracker
  <2>7. Level' /\ HeardIsDue'
    BY <1>0, <2>1, <2>5 DEF Level, HeardIsDue
  <2>8. QED
    BY <2>4, <2>6, <2>7 DEF AudioInv
<1>9. CASE EndTrack
  <2>1. /\ Tracker' /\ Consumed' = Consumed
        /\ dacLast' \in 0 .. BufWords - 1 /\ abs' \in 0 .. Width - 1
    BY <1>0, <1>9, EndTrackIs
  <2>2. /\ half' = NoHalf
        /\ UNCHANGED <<buf, dacPos, write, paused, phase, left, next, gap, due>>
    BY <1>9 DEF EndTrack
  <2>3. half' \in [delta : -1 .. BufWords - 1, now : 0 .. BufWords - 1]
    BY <1>0, <2>2 DEF NoHalf
  <2>4. AudioTypeOK'
    BY <1>0, <2>1, <2>2, <2>3 DEF AudioTypeOK
  <2>5. Ahead' = Ahead
    BY <2>1, <2>2 DEF Ahead
  <2>6. Level' /\ HeardIsDue'
    BY <1>0, <2>2, <2>5 DEF Level, HeardIsDue
  <2>7. QED
    BY <2>1, <2>4, <2>6 DEF AudioInv
<1>10. CASE UNCHANGED audioVars
  BY <1>10 DEF audioVars, AudioInv, AudioTypeOK, Tracker, Level, HeardIsDue, Moved, Ahead,
               Consumed
<1>11. QED
  BY <1>1, <1>2, <1>3, <1>4, <1>5, <1>6, <1>7, <1>8, <1>9, <1>10 DEF AudioNext

\* What was written to the loudspeaker ring is heard, in order and once, whatever
\* the stalls of core 0 (audio.c dma_consumed_abs, audio_stream_write_mono16),
\* while core 0 alone follows the DMA.
THEOREM WrittenIsHeard ==
  ~Core1Resets /\ WideCounters => (AudioSpec => []HeardIsDue)
<1> SUFFICES ASSUME ~Core1Resets, WideCounters PROVE AudioSpec => []HeardIsDue
  OBVIOUS
<1>1. AudioInit => AudioInv
  BY AudioInitInvariant
<1>2. AudioInv /\ [AudioNext]_audioVars => AudioInv'
  BY AudioStepInvariant
<1>3. AudioInv => HeardIsDue
  BY DEF AudioInv
<1>4. QED
  BY <1>1, <1>2, <1>3, PTL DEF AudioSpec

-----------------------------------------------------------------------------
(* Nothing is repeated                                                     *)

\* Core 0 comes back to the pump before the DMA has played two blocks, or
\* half a ring.
PromptPump ==
  MaxGap < 2 * Block /\ 2 * MaxGap <= BufWords /\ MaxGap <= BufWords - 2

\* The last n words before the writer's position are silent.
Zeroed(n) ==
  \A j \in 1 .. BufWords : j <= n => buf[(write + BufWords - j) % BufWords] = 0

\* Behind the tone and behind a stream silence is written without a gap: once
\* there is some of it, the writer stays ahead of the DMA until it is done.  A
\* tick of the test may write less than a block only when the ring was full.
Hush ==
  /\ phase = "idle" => buf = Silence
  /\ phase = "pad" =>
       /\ left <= PadFrames
       /\ \/ buf = Silence
          \/ /\ Zeroed(2 * (PadFrames - left))
             /\ Ahead >= IF paused THEN 0 ELSE MaxGap - gap
  /\ phase \in {"sine", "silence"} => ~paused
  /\ phase = "silence" =>
       /\ left <= WipeFrames
       /\ \/ left = WipeFrames
          \/ /\ Zeroed(2 * (WipeFrames - left))
             /\ Ahead >= MaxGap - gap
             /\ left % Block # 0 => Ahead >= BufWords - 2 - gap

\* A ring whose every word is among the last written is silent.
LEMMA ZeroedIsSilence ==
  ASSUME NEW b \in [0 .. BufWords - 1 -> Nat], NEW v \in Int, NEW n \in Nat, n >= BufWords,
         \A j \in 1 .. BufWords : j <= n => b[(v + BufWords - j) % BufWords] = 0
  PROVE  b = Silence
<1>1. ASSUME NEW w \in 0 .. BufWords - 1 PROVE b[w] = 0
  <2> DEFINE d == v - w  q == d \div BufWords  t == d % BufWords
             j == IF t = 0 THEN BufWords ELSE t
  <2>0. BufWords \in Nat \ {0} /\ w \in Int
    BY AudioConstants
  <2>1. d \in Int
    BY <2>0
  <2>2. q \in Int /\ t \in 0 .. BufWords - 1 /\ d = BufWords * q + t
    BY <2>0, <2>1, DivMod
  <2> HIDE DEF q, t
  <2>3. j \in 1 .. BufWords /\ j <= n
    BY <2>0, <2>2
  <2>4. b[(v + BufWords - j) % BufWords] = 0
    BY <2>3
  <2>5. (v + BufWords - j) % BufWords = w
    <3>1. BufWords * q \in Int /\ BufWords * (q + 1) = BufWords * q + BufWords
      BY <2>0, <2>2
    <3>2. w % BufWords = w
      BY <2>0, ModSmall
    <3>3. CASE t = 0
      <4>1. v + BufWords - j = w + BufWords * q
        BY <2>0, <2>2, <3>1, <3>3
      <4>2. (w + BufWords * q) % BufWords = w % BufWords
        BY <2>0, <2>2, ModShift
      <4>3. QED
        BY <3>2, <4>1, <4>2
    <3>4. CASE t # 0
      <4>1. v + BufWords - j = w + BufWords * (q + 1)
        BY <2>0, <2>2, <3>1, <3>4
      <4>2. q + 1 \in Int
        BY <2>2
      <4>3. (w + BufWords * (q + 1)) % BufWords = w % BufWords
        BY <2>0, <4>2, ModShift
      <4>4. QED
        BY <3>2, <4>1, <4>3
    <3>5. QED
      BY <3>3, <3>4
  <2>6. QED
    BY <2>4, <2>5
<1>2. QED
  BY <1>1 DEF Silence

\* Silence written behind silence.
LEMMA ZeroesWritten ==
  ASSUME AudioInv, WideCounters, phase # "idle", NEW fs \in Seq(Nat),
         \A i \in 1 .. Len(fs) : fs[i] = 0, WriteMono(fs), dacPos' = dacPos, half' = NoHalf
  PROVE  /\ buf = Silence => buf' = Silence
         /\ \A m \in Nat : (m = 0 \/ (Ahead >= 0 /\ Zeroed(m))) =>
              \A j \in 1 .. BufWords : j <= m + 2 * Put(fs) =>
                buf'[(write' + BufWords - j) % BufWords] = 0
<1> DEFINE a == Signed(Snapped - Consumed)  n == Put(fs)
           K(w) == (w + BufWords - (Snapped % BufWords)) % BufWords
<1>0. AudioTypeOK /\ Tracker /\ Level
  BY DEF AudioInv
<1>1. a \in -1 .. BufWords - 1 /\ n \in 0 .. Len(fs) /\ n \in Nat /\ a + 2 * n <= BufWords - 1
  <2>1. Len(fs) \in Nat
    BY LenProperties
  <2>2. QED
    BY <1>0, <2>1, PutIs
<1>2. buf' = [w \in 0 .. BufWords - 1 |->
                IF K(w) < 2 * n THEN WordsOf(fs)[K(w) + 1] ELSE Hushed[w]]
  BY <1>0 DEF WriteMono, WordsOf, AudioTypeOK
<1>3. \A k \in 1 .. 2 * n : WordsOf(fs)[k] = 0
  <2>1. 0 \in {0, 1}
    OBVIOUS
  <2>2. \A k \in 1 .. 2 * n : \E i \in 1 .. Len(fs) : WordsOf(fs)[k] = fs[i]
    BY <1>1, <2>1, WordsAre
  <2>3. QED
    BY <2>2
<1>4. write' = (Snapped + 2 * n) % Width
  BY <1>0, WrittenIs
<1>5. /\ BufWords \in Nat \ {0} /\ Width \in Nat \ {0} /\ Snapped \in 0 .. Width - 1
      /\ Snapped \in Int
  BY <1>0, AudioConstants, SnappedIs
<1>6. ASSUME NEW w \in 0 .. BufWords - 1 PROVE K(w) \in 0 .. BufWords - 1
  <2>1. Snapped % BufWords \in 0 .. BufWords - 1
    BY <1>5, DivMod
  <2>2. w + BufWords - (Snapped % BufWords) \in Int
    BY <1>5, <2>1
  <2>3. QED
    BY <1>5, <2>2, DivMod
<1>7. ASSUME NEW k \in 0 .. BufWords - 1
      PROVE  (Snapped + k) % BufWords \in 0 .. BufWords - 1 /\ K((Snapped + k) % BufWords) = k
  BY <1>5, PlaceIs
<1> HIDE DEF a, n, K
<1>8. ASSUME buf = Silence PROVE buf' = Silence
  <2>1. ASSUME NEW w \in 0 .. BufWords - 1
        PROVE  (IF K(w) < 2 * n THEN WordsOf(fs)[K(w) + 1] ELSE Hushed[w]) = 0
    <3>1. Hushed[w] = 0
      BY <1>0, <1>8, HushedIs DEF Silence
    <3>2. K(w) < 2 * n => K(w) + 1 \in 1 .. 2 * n
      BY <1>1, <1>6
    <3>3. QED
      BY <1>3, <3>1, <3>2
  <2>2. QED
    BY <1>2, <2>1 DEF Silence
<1>9. ASSUME NEW m \in Nat, m = 0 \/ (Ahead >= 0 /\ Zeroed(m)),
             NEW j \in 1 .. BufWords, j <= m + 2 * n
      PROVE  buf'[(write' + BufWords - j) % BufWords] = 0
  <2> DEFINE x == Snapped + 2 * n
             k == IF j <= 2 * n THEN 2 * n - j ELSE 2 * n - j + BufWords
             w == (Snapped + k) % BufWords
  <2>1. k \in 0 .. BufWords - 1 /\ x \in Int /\ (k < 2 * n <=> j <= 2 * n)
    BY <1>1, <1>5
  <2>2. (write' + BufWords - j) % BufWords = w
    <3> DEFINE y == x % Width
    <3>1. y \in Int /\ y % BufWords = x % BufWords
      <4>1. x \in Int
        BY <2>1
      <4> HIDE DEF x
      <4>2. x % Width \in 0 .. Width - 1
        BY <1>5, <4>1, DivMod
      <4>3. 0 \in Int /\ (x % Width) % BufWords = x % BufWords
        BY <4>1, Turns
      <4>4. QED
        BY <1>5, <4>2, <4>3
    <3>2. write' = y
      BY <1>4
    <3> HIDE DEF y, x
    <3>3. BufWords - j \in Int
      BY <1>5
    <3>4. (y + (BufWords - j)) % BufWords = (x + (BufWords - j)) % BufWords
      BY <2>1, <3>1, <3>3, SamePlace
    <3>5. write' + BufWords - j = y + (BufWords - j)
      BY <1>5, <3>1, <3>2
    <3>6. (x + (BufWords - j)) % BufWords = w
      <4>1. CASE j <= 2 * n
        <5>1. x + (BufWords - j) = (Snapped + k) + BufWords * 1
          BY <1>1, <1>5, <4>1 DEF x
        <5>2. Snapped + k \in Int /\ 1 \in Int
          BY <1>5, <2>1
        <5>3. ((Snapped + k) + BufWords * 1) % BufWords = (Snapped + k) % BufWords
          BY <1>5, <5>2, ModShift
        <5>4. QED
          BY <5>1, <5>3
      <4>2. CASE ~(j <= 2 * n)
        <5>1. x + (BufWords - j) = Snapped + k
          BY <1>1, <1>5, <4>2 DEF x
        <5>2. QED
          BY <5>1
      <4>3. QED
        BY <4>1, <4>2
    <3>7. QED
      BY <3>4, <3>5, <3>6
  <2>3. w \in 0 .. BufWords - 1 /\ K(w) = k
    BY <1>7, <2>1
  <2>4. CASE j <= 2 * n
    <3>1. buf'[w] = WordsOf(fs)[k + 1]
      BY <1>2, <2>1, <2>3, <2>4
    <3>2. k + 1 \in 1 .. 2 * n
      BY <1>1, <2>1, <2>4
    <3>3. QED
      BY <1>3, <2>2, <3>1, <3>2
  <2>5. CASE ~(j <= 2 * n)
    <3>1. Ahead >= 0 /\ Zeroed(m)
      BY <1>1, <1>9, <2>5
    <3>2. Hushed = buf /\ Snapped = write
      BY <1>0, <3>1, HushedIs, SnappedIs
    <3>3. buf'[w] = buf[w]
      BY <1>2, <2>1, <2>3, <2>5, <3>2
    <3>4. j - 2 * n \in 1 .. BufWords /\ j - 2 * n <= m
          /\ write + BufWords - (j - 2 * n) = Snapped + k
      BY <1>1, <1>5, <1>9, <2>5, <3>2
    <3>5. buf[w] = 0
      BY <3>1, <3>4 DEF Zeroed
    <3>6. QED
      BY <2>2, <3>3, <3>5
  <2>6. QED
    BY <2>4, <2>5
<1>10. QED
  BY <1>8, <1>9 DEF n

\* What a pad has to fill.
LEMMA PadFramesIs == PadFrames \in Nat \ {0} /\ 2 * PadFrames >= BufWords
<1>1. PICK h \in Nat \ {0} : BufWords = 2 * h
  BY AudioConstants
<1>2. BufWords \div 2 = h
  <2>1. 0 \in 0 .. 2 - 1 /\ BufWords = 2 * h + 0 /\ BufWords \in Int /\ 2 \in Nat \ {0}
    BY <1>1
  <2>2. QED
    BY <1>1, <2>1, DivIs
<1>3. QED
  BY <1>1, <1>2, AudioConstants DEF PadFrames

\* A tick of the test.
LEMMA TestTickHushed ==
  ASSUME AudioInv, AudioInv', WideCounters, PromptPump, Hush, TestTick
  PROVE  Hush'
<1> DEFINE a == Signed(Snapped - Consumed)  n == Put(TestFrames)  rest == Len(TestFrames)
           after == left - n
<1>0. AudioTypeOK /\ Tracker /\ Level
  BY DEF AudioInv
<1>1. /\ TestFrames \in Seq(Nat) /\ WriteMono(TestFrames) /\ half = NoHalf /\ half' = NoHalf
      /\ n \in 0 .. rest /\ after \in Nat
      /\ phase \in {"sine", "silence"} /\ UNCHANGED <<dacPos, paused, next>>
      /\ phase' = IF after > 0 THEN phase ELSE IF phase = "sine" THEN "silence" ELSE "idle"
      /\ left' = IF after = 0 /\ phase = "sine" THEN WipeFrames ELSE after
  BY TestTickIs
<1>r. rest = ((left - 1) % Block) + 1 /\ rest \in 1 .. Block /\ rest <= left
  BY TestTickIs
<1>l. rest \in 1 .. Block
  BY <1>r
<1>z. phase = "silence" => \A i \in 1 .. Len(TestFrames) : TestFrames[i] = 0
  BY TestTickIs
<1>b. /\ after > 0 => phase' = phase /\ left' = after
      /\ after = 0 /\ phase = "sine" => phase' = "silence" /\ left' = WipeFrames
      /\ after = 0 /\ phase = "silence" => phase' = "idle" /\ left' = after
  <2> HIDE DEF after
  <2>1. QED
    BY <1>1
<1>2. /\ BufWords \in Nat \ {0} /\ Block \in Nat \ {0} /\ MaxGap \in Nat /\ gap \in 0 .. MaxGap
      /\ left \in Nat \ {0} /\ WipeFrames \in Nat \ {0} /\ 2 * WipeFrames >= BufWords
      /\ write' \in Int /\ buf' \in [0 .. BufWords - 1 -> Nat]
  <2>1. AudioTypeOK'
    BY DEF AudioInv
  <2>2. write' \in Int /\ buf' \in [0 .. BufWords - 1 -> Nat]
    <3>1. write' \in 0 .. Width - 1 /\ buf' \in [0 .. BufWords - 1 -> Nat]
      BY <2>1 DEF AudioTypeOK
    <3>2. Width \in Nat
      BY AudioConstants
    <3>3. QED
      BY <3>1, <3>2
  <2>3. left \in Nat \ {0} /\ gap \in 0 .. MaxGap
    BY <1>0, <1>1 DEF AudioTypeOK
  <2>4. QED
    BY <2>2, <2>3, AudioConstants, WipeFramesIs
<1>3. a \in -1 .. BufWords - 1 /\ (n = rest \/ a + 2 * n >= BufWords - 2)
  BY <1>0, <1>1, PutIs
<1>4. Ahead' = a + 2 * n /\ gap' = 0
  BY <1>0, <1>1, WrittenIs
<1>5. Ahead \in Int /\ (Ahead >= 0 => a = Ahead)
  BY <1>0, Follows, SnappedIs
<1>e. n \in Nat /\ after = left - n
  BY <1>1, <1>l, AudioConstants
<1> HIDE DEF a, n, rest, after
<1>6. ~paused /\ ~paused'
  BY <1>1 DEF Hush
<1>7. CASE phase = "sine"
  <2>1. phase' = "sine" \/ (phase' = "silence" /\ left' = WipeFrames)
    <3>1. after > 0 \/ after = 0
      BY <1>1
    <3>2. QED
      BY <1>7, <1>b, <3>1
  <2>2. QED
    BY <1>2, <1>6, <2>1 DEF Hush
<1>8. CASE phase = "silence"
  <2> DEFINE m == 2 * (WipeFrames - left)  z == 2 * (WipeFrames - after)
  <2>1. left <= WipeFrames /\ left' = after /\ after <= WipeFrames
    <3>1. left <= WipeFrames
      BY <1>8 DEF Hush
    <3>2. left' = after
      BY <1>1, <1>8
    <3>3. QED
      BY <1>e, <1>2, <3>1, <3>2
  <2>2. m \in Nat /\ z \in Nat /\ z = m + 2 * n /\ (left = WipeFrames => m = 0)
    BY <1>e, <1>2, <2>1
  <2>3. left # WipeFrames =>
          /\ Zeroed(m) /\ Ahead >= MaxGap - gap
          /\ left % Block # 0 => Ahead >= BufWords - 2 - gap
    BY <1>8 DEF Hush
  <2>4. \A i \in 1 .. Len(TestFrames) : TestFrames[i] = 0
    BY <1>8, <1>z
  <2>5. m = 0 \/ (Ahead >= 0 /\ Zeroed(m))
    BY <1>2, <1>5, <2>2, <2>3
  <2> HIDE DEF m, z
  <2>6. \A j \in 1 .. BufWords : j <= z => buf'[(write' + BufWords - j) % BufWords] = 0
    <3>1. phase # "idle" /\ dacPos' = dacPos
      BY <1>1, <1>8
    <3>2. \A i \in Nat : (i = 0 \/ (Ahead >= 0 /\ Zeroed(i))) =>
            \A j \in 1 .. BufWords : j <= i + 2 * Put(TestFrames) =>
              buf'[(write' + BufWords - j) % BufWords] = 0
      BY <1>1, <2>4, <3>1, ZeroesWritten
    <3>3. m \in Nat /\ z = m + 2 * Put(TestFrames)
      BY <2>2 DEF n
    <3>4. QED
      BY <2>5, <3>2, <3>3
  <2>s. Zeroed(2 * (WipeFrames - left))'
    <3>1. z = 2 * (WipeFrames - left')
      BY <2>1 DEF z
    <3>2. QED
      BY <2>6, <3>1 DEF Zeroed
  <2>7. CASE after = 0
    <3>1. phase' = "idle" /\ z >= BufWords
      BY <1>b, <1>1, <1>2, <1>8, <2>7 DEF z
    <3>2. buf' = Silence
      BY <1>2, <2>2, <2>6, <3>1, ZeroedIsSilence
    <3>3. QED
      BY <3>1, <3>2 DEF Hush
  <2>8. CASE after # 0
    <3>1. phase' = "silence"
      BY <1>1, <1>8, <2>8
    <3>2. PICK q \in Int : left = Block * q + rest
      <4>1. left - 1 \in Int
        BY <1>2
      <4>2. /\ (left - 1) \div Block \in Int /\ (left - 1) % Block \in Int
            /\ left - 1 = Block * ((left - 1) \div Block) + ((left - 1) % Block)
        BY <1>2, <4>1, DivMod
      <4> DEFINE e == (left - 1) \div Block  r == (left - 1) % Block  f == Block * e
      <4>a. left - 1 = f + r /\ rest = r + 1 /\ e \in Int /\ r \in Int /\ f \in Int
        BY <1>r, <1>2, <4>2
      <4> HIDE DEF r, f
      <4>b. left = f + rest
        BY <1>2, <4>a
      <4>3. left = Block * e + rest /\ e \in Int
        BY <4>a, <4>b DEF f
      <4>4. QED
        BY <4>3
    <3>3. CASE n # rest
      <4>1. Ahead' >= BufWords - 2 /\ BufWords - 2 >= MaxGap
        BY <1>3, <1>4, <3>3 DEF PromptPump
      <4>2. QED
        BY <1>2, <1>4, <1>6, <2>1, <2>s, <3>1, <4>1 DEF Hush
    <3>4. CASE n = rest
      <4>1. left' = Block * q + 0
        <5>1. Block * q \in Int /\ rest \in Int
          BY <1>l, <1>2, <3>2
        <5>2. QED
          BY <1>e, <1>2, <2>1, <3>2, <3>4, <5>1
      <4>2. left' % Block = 0
        <5>1. left' \in Int /\ 0 \in 0 .. Block - 1
          BY <1>1, <1>2, <2>1
        <5>2. QED
          BY <1>2, <3>2, <4>1, <5>1, ModIs
      <4>3. Ahead' >= MaxGap
        <5>1. CASE rest = Block
          BY <1>2, <1>3, <1>4, <3>4, <5>1 DEF PromptPump
        <5>2. CASE rest < Block
          <6>1. left % Block = rest
            <7>1. rest \in 0 .. Block - 1 /\ left \in Int
              BY <1>l, <1>2, <5>2
            <7>2. QED
              BY <1>2, <3>2, <7>1, ModIs
          <6>2. left # WipeFrames
            <7>1. PICK j \in Int : WipeFrames = Block * j
              BY WipeFramesIs
            <7>2. WipeFrames = Block * j + 0 /\ 0 \in 0 .. Block - 1 /\ WipeFrames \in Int
              BY <1>2, <7>1
            <7>3. WipeFrames % Block = 0
              BY <1>2, <7>1, <7>2, ModIs
            <7>4. QED
              BY <1>l, <6>1, <7>3
          <6>3. Ahead >= BufWords - 2 - gap
            BY <1>l, <2>3, <6>1, <6>2
          <6>4. a = Ahead /\ a >= BufWords - 2 - MaxGap
            BY <1>2, <1>5, <6>3 DEF PromptPump
          <6>5. n >= 1 /\ n \in Int
            BY <1>l, <3>4
          <6>6. QED
            BY <1>2, <1>3, <1>4, <6>4, <6>5 DEF PromptPump
        <5>3. QED
          BY <1>l, <1>2, <5>1, <5>2
      <4>4. QED
        BY <1>2, <1>4, <1>6, <2>1, <2>s, <3>1, <4>2, <4>3 DEF Hush
    <3>5. QED
      BY <3>3, <3>4
  <2>9. QED
    BY <2>7, <2>8
<1>9. QED
  BY <1>1, <1>7, <1>8

\* A pass of the pump behind the end of a stream.
LEMMA PumpEndHushed ==
  ASSUME AudioInv, AudioInv', WideCounters, PromptPump, Hush, PumpEnd
  PROVE  Hush'
<1> DEFINE a == Signed(Snapped - Consumed)  n == Put(ZeroFrames)
           m == 2 * (PadFrames - Todo)  z == 2 * (PadFrames - (Todo - n))
<1>0. AudioTypeOK /\ Tracker /\ Level
  BY DEF AudioInv
<1>1. /\ ZeroFrames \in Seq(Nat) /\ WriteMono(ZeroFrames) /\ half = NoHalf /\ half' = NoHalf
      /\ Todo \in Nat \ {0} /\ Len(ZeroFrames) = IF Todo < Block THEN Todo ELSE Block
      /\ \A i \in 1 .. Len(ZeroFrames) : ZeroFrames[i] = 0
      /\ n \in 0 .. Len(ZeroFrames)
      /\ phase \in {"stream", "pad"} /\ UNCHANGED <<dacPos, paused, next>>
      /\ left' = Todo - n /\ left' \in Nat
      /\ phase' = IF left' = 0 THEN "idle" ELSE "pad"
  BY PumpEndIs
<1>2. /\ BufWords \in Nat \ {0} /\ Block \in Nat \ {0} /\ MaxGap \in Nat /\ gap \in 0 .. MaxGap
      /\ PadFrames \in Nat \ {0} /\ 2 * PadFrames >= BufWords
      /\ write' \in Int /\ buf' \in [0 .. BufWords - 1 -> Nat]
  <2>1. AudioTypeOK'
    BY DEF AudioInv
  <2>2. write' \in Int /\ buf' \in [0 .. BufWords - 1 -> Nat]
    <3>1. write' \in 0 .. Width - 1 /\ buf' \in [0 .. BufWords - 1 -> Nat]
      BY <2>1 DEF AudioTypeOK
    <3>2. Width \in Nat
      BY AudioConstants
    <3>3. QED
      BY <3>1, <3>2
  <2>3. gap \in 0 .. MaxGap
    BY <1>0 DEF AudioTypeOK
  <2>4. QED
    BY <2>2, <2>3, AudioConstants, PadFramesIs
<1>3. /\ a \in -1 .. BufWords - 1
      /\ n = Len(ZeroFrames) \/ a + 2 * n >= BufWords - 2
  BY <1>0, <1>1, PutIs
<1>4. Ahead' = a + 2 * n /\ gap' = 0
  BY <1>0, <1>1, WrittenIs
<1>5. Ahead \in Int
  BY <1>0, Follows
<1>6. Todo <= PadFrames /\ (phase = "stream" => Todo = PadFrames)
  BY <1>1, <1>2 DEF Todo, Hush
<1>7. m \in Nat /\ z \in Nat /\ z = m + 2 * n /\ (phase = "stream" => m = 0)
  <2> HIDE DEF n
  <2>1. n \in Nat
    BY <1>1, <1>2
  <2>2. QED
    BY <1>1, <1>2, <1>6, <2>1
<1>8. \/ buf = Silence
      \/ m = 0 \/ (Ahead >= 0 /\ Zeroed(m))
  <2>1. CASE phase = "stream"
    BY <1>7, <2>1
  <2>2. CASE phase = "pad"
    <3>1. Todo = left
      BY <2>2 DEF Todo
    <3>2. buf = Silence \/ (Zeroed(m) /\ Ahead >= IF paused THEN 0 ELSE MaxGap - gap)
      BY <2>2, <3>1 DEF Hush
    <3>3. QED
      BY <1>2, <1>5, <3>2
  <2>3. QED
    BY <1>1, <2>1, <2>2
<1>9. phase # "idle" /\ dacPos' = dacPos
  BY <1>1
<1>10. /\ buf = Silence => buf' = Silence
       /\ \A i \in Nat : (i = 0 \/ (Ahead >= 0 /\ Zeroed(i))) =>
            \A j \in 1 .. BufWords : j <= i + 2 * n =>
              buf'[(write' + BufWords - j) % BufWords] = 0
  BY <1>1, <1>9, ZeroesWritten
<1> HIDE DEF m, z, a, n
<1>11. \/ buf' = Silence
       \/ \A j \in 1 .. BufWords : j <= z => buf'[(write' + BufWords - j) % BufWords] = 0
  BY <1>7, <1>8, <1>10
<1>12. CASE left' = 0
  <2>1. phase' = "idle" /\ z >= BufWords
    BY <1>1, <1>2, <1>12 DEF z
  <2>2. buf' = Silence
    BY <1>2, <1>7, <1>11, <2>1, ZeroedIsSilence
  <2>3. QED
    BY <2>1, <2>2 DEF Hush
<1>13. CASE left' # 0
  <2>1. phase' = "pad" /\ left' <= PadFrames /\ z = 2 * (PadFrames - left')
    BY <1>1, <1>2, <1>6, <1>13 DEF z
  <2>2. Ahead' >= MaxGap
    <3>1. n = Block \/ a + 2 * n >= BufWords - 2
      BY <1>1, <1>2, <1>3, <1>13
    <3>2. QED
      BY <1>1, <1>2, <1>3, <1>4, <3>1 DEF PromptPump
  <2>3. Ahead' >= IF paused' THEN 0 ELSE MaxGap - gap'
    BY <1>2, <1>4, <2>2
  <2>4. buf' = Silence \/ Zeroed(2 * (PadFrames - left))'
    <3>1. CASE buf' = Silence
      BY <3>1
    <3>2. CASE \A j \in 1 .. BufWords : j <= z => buf'[(write' + BufWords - j) % BufWords] = 0
      BY <2>1, <3>2 DEF Zeroed
    <3>3. QED
      BY <1>11, <3>1, <3>2
  <2>5. QED
    BY <2>1, <2>3, <2>4 DEF Hush
<1>14. QED
  BY <1>12, <1>13

\* A step after which the writer is as far ahead as before, or further, and that
\* leaves the ring and the pumps alone.
LEMMA HushKept ==
  ASSUME AudioInv, Hush, UNCHANGED <<buf, write, phase, left>>, gap' \in Nat, paused' \in BOOLEAN,
         Ahead' \in Int,
         phase = "pad" /\ Ahead >= (IF paused THEN 0 ELSE MaxGap - gap) =>
           Ahead' >= IF paused' THEN 0 ELSE MaxGap - gap',
         phase \in {"sine", "silence"} => ~paused',
         phase = "silence" => Ahead' + gap' >= Ahead + gap
  PROVE  Hush'
<1>0. /\ Ahead \in Int /\ gap \in Nat /\ MaxGap \in Nat /\ BufWords \in Nat
      /\ Ahead' \in Int /\ gap' \in Nat
  BY Follows, AudioConstants DEF AudioInv, AudioTypeOK
<1>i. /\ Ahead \in Int /\ gap \in Int /\ MaxGap \in Int /\ BufWords - 2 \in Int
      /\ Ahead' \in Int /\ gap' \in Int
  BY <1>0
<1>s. \A a, b, c, d, m \in Int : a + b >= c + d /\ c >= m - d => a >= m - b
  OBVIOUS
<1>2. left \in Nat /\ PadFrames \in Nat /\ WipeFrames \in Nat
  BY PadFramesIs, WipeFramesIs DEF AudioInv, AudioTypeOK
<1>3. phase' = "idle" => buf' = Silence
  BY DEF Hush
<1>4. ASSUME phase' = "pad"
      PROVE  /\ left' <= PadFrames
             /\ \/ buf' = Silence
                \/ /\ Zeroed(2 * (PadFrames - left))'
                   /\ Ahead' >= IF paused' THEN 0 ELSE MaxGap - gap'
  <2>1. left' <= PadFrames
    BY <1>4 DEF Hush
  <2>2. buf = Silence \/ (Zeroed(2 * (PadFrames - left)) /\ Ahead >= IF paused THEN 0 ELSE MaxGap - gap)
    BY <1>4 DEF Hush
  <2>3. Zeroed(2 * (PadFrames - left)) => Zeroed(2 * (PadFrames - left))'
    BY DEF Zeroed
  <2>4. QED
    BY <1>4, <2>1, <2>2, <2>3
<1>5. phase' \in {"sine", "silence"} => ~paused'
  OBVIOUS
<1>6. ASSUME phase' = "silence"
      PROVE  /\ left' <= WipeFrames
             /\ \/ left' = WipeFrames
                \/ /\ Zeroed(2 * (WipeFrames - left))'
                   /\ Ahead' >= MaxGap - gap'
                   /\ left' % Block # 0 => Ahead' >= BufWords - 2 - gap'
  <2>1. Zeroed(2 * (WipeFrames - left)) => Zeroed(2 * (WipeFrames - left))'
    BY DEF Zeroed
  <2>2. /\ left <= WipeFrames
        /\ \/ left = WipeFrames
           \/ /\ Zeroed(2 * (WipeFrames - left))
              /\ Ahead >= MaxGap - gap
              /\ left % Block # 0 => Ahead >= BufWords - 2 - gap
    BY <1>6 DEF Hush
  <2>3. Ahead' + gap' >= Ahead + gap
    BY <1>6
  <2>4. Ahead >= MaxGap - gap => Ahead' >= MaxGap - gap'
    BY <1>i, <1>s, <2>3, Zenon
  <2>5. Ahead >= BufWords - 2 - gap => Ahead' >= BufWords - 2 - gap'
    BY <1>i, <1>s, <2>3, Zenon
  <2>6. left' = left
    OBVIOUS
  <2>7. QED
    BY <2>1, <2>2, <2>4, <2>5, <2>6
<1>7. QED
  BY <1>3, <1>4, <1>5, <1>6 DEF Hush

\* A step that drops everything, or one of a stream, repeats nothing.
LEMMA HushWiped ==
  ASSUME AudioInv, buf' = Silence, phase' # "silence",
         phase' = "sine" => ~paused', phase' = "pad" => phase = "pad" /\ left' = left, Hush
  PROVE  Hush'
BY DEF Hush

\* Every step of the program keeps the silence behind a playback.
LEMMA HushStep ==
  ASSUME AudioInv, AudioInv', WideCounters, ~Core1Resets, PromptPump, Hush,
         [AudioNext]_audioVars
  PROVE  Hush'
<1>0. /\ AudioTypeOK /\ Tracker /\ MaxGap \in Nat /\ gap \in 0 .. MaxGap /\ Ahead \in Int
      /\ paused \in BOOLEAN
  <2>1. AudioTypeOK /\ Tracker
    BY DEF AudioInv
  <2>2. MaxGap \in Nat /\ gap \in 0 .. MaxGap /\ paused \in BOOLEAN
    BY <2>1, AudioConstants DEF AudioTypeOK
  <2>3. Ahead \in Int
    BY <2>1, Follows
  <2>4. QED
    BY <2>1, <2>2, <2>3
<1>1. /\ Ahead' \in Int /\ gap' \in Nat /\ paused' \in BOOLEAN
  <2>1. AudioTypeOK' /\ Tracker'
    BY DEF AudioInv
  <2>2. gap' \in Nat /\ paused' \in BOOLEAN
    BY <1>0, <2>1 DEF AudioTypeOK
  <2>3. (AudioTypeOK /\ Tracker => Ahead \in Int)'
    BY Follows, PTL
  <2>4. QED
    BY <2>1, <2>2, <2>3
<1>2. CASE Tick
  <2>1. /\ ~paused /\ gap' = gap + 1 /\ UNCHANGED <<buf, write, paused, phase, left>>
    BY <1>2 DEF Tick
  <2>2. phase # "idle" => Ahead' = Ahead - 1
    BY <1>2, TickKeeps
  <2>3. phase = "pad" /\ Ahead >= (IF paused THEN 0 ELSE MaxGap - gap) =>
          Ahead' >= IF paused' THEN 0 ELSE MaxGap - gap'
    BY <1>0, <2>1, <2>2
  <2>4. phase = "silence" => Ahead' + gap' >= Ahead + gap
    BY <1>0, <2>1, <2>2
  <2>5. QED
    BY <1>1, <2>1, <2>3, <2>4, HushKept
<1>3. CASE Pause
  <2>1. /\ phase \in {"idle", "stream", "pad"} /\ half = NoHalf /\ half' = NoHalf
        /\ ~paused /\ paused' /\ Tracked /\ UNCHANGED <<buf, dacPos, write, phase, left>>
    BY <1>3 DEF Pause, Core0
  <2>2. Consumed' = Consumed
    BY <1>0, <2>1, TrackedIs
  <2>3. Ahead' = Ahead
    BY <2>1, <2>2 DEF Ahead
  <2>4. phase = "pad" /\ Ahead >= (IF paused THEN 0 ELSE MaxGap - gap) =>
          Ahead' >= IF paused' THEN 0 ELSE MaxGap - gap'
    BY <1>0, <2>1, <2>3
  <2>5. phase \notin {"sine", "silence"}
    BY <2>1
  <2>6. QED
    BY <1>1, <2>1, <2>4, <2>5, HushKept
<1>4. CASE Resume
  <2>1. phase \in {"idle", "stream", "pad"} /\ Wiped /\ UNCHANGED <<phase, left>>
    BY <1>4 DEF Resume, Core0
  <2>2. QED
    BY <2>1, HushWiped DEF Wiped
<1>5. CASE Stop
  <2>1. phase \in {"idle", "stream", "pad"} /\ Wiped /\ UNCHANGED <<phase, left>>
    BY <1>5 DEF Stop, Core0
  <2>2. QED
    BY <2>1, HushWiped DEF Wiped
<1>6. CASE BeginTest
  <2>1. phase' = "sine" /\ ~paused' /\ Wiped
    BY <1>6 DEF BeginTest
  <2>2. QED
    BY <2>1, HushWiped DEF Wiped
<1>7. CASE TestTick
  BY <1>7, TestTickHushed
<1>8. CASE StartPlayback
  <2>1. phase' = "stream"
    BY <1>8 DEF StartPlayback
  <2>2. QED
    BY <2>1 DEF Hush
<1>9. CASE WritePacket
  <2>1. phase' = "stream"
    BY <1>9 DEF WritePacket, Core0
  <2>2. QED
    BY <2>1 DEF Hush
<1>10. CASE PlayPump
  <2>1. /\ phase \in {"idle", "stream"} /\ phase' = phase
        /\ phase # "stream" => buf' = buf
    BY <1>10 DEF PlayPump, Core0
  <2>2. QED
    BY <2>1 DEF Hush
<1>11. CASE PumpEnd
  BY <1>11, PumpEndHushed
<1>12. CASE BeginTrack
  <2>1. UNCHANGED <<buf, dacPos, dacLast, abs, write, paused, phase, left, gap>>
    BY <1>12 DEF BeginTrack
  <2>2. Ahead' = Ahead
    BY <2>1 DEF Moved, Ahead, Consumed
  <2>3. phase \in {"sine", "silence"} => ~paused
    BY DEF Hush
  <2>4. Ahead' + gap' >= Ahead + gap
    BY <1>0, <2>1, <2>2
  <2>5. QED
    BY <1>1, <2>1, <2>2, <2>3, <2>4, HushKept
<1>13. CASE EndTrack
  <2>1. UNCHANGED <<buf, write, paused, phase, left, gap>>
    BY <1>13 DEF EndTrack
  <2>2. Consumed' = Consumed
    BY <1>0, <1>13, EndTrackIs
  <2>3. Ahead' = Ahead
    BY <2>1, <2>2 DEF Ahead
  <2>4. phase \in {"sine", "silence"} => ~paused
    BY DEF Hush
  <2>5. Ahead' + gap' >= Ahead + gap
    BY <1>0, <2>1, <2>3
  <2>6. QED
    BY <1>1, <2>1, <2>3, <2>4, <2>5, HushKept
<1>14. CASE UNCHANGED audioVars
  <2>1. UNCHANGED <<buf, dacPos, dacLast, abs, write, paused, phase, left, gap>>
    BY <1>14 DEF audioVars
  <2>2. Ahead' = Ahead
    BY <2>1 DEF Moved, Ahead, Consumed
  <2>3. phase \in {"sine", "silence"} => ~paused
    BY DEF Hush
  <2>4. Ahead' + gap' >= Ahead + gap
    BY <1>0, <2>1, <2>2
  <2>5. QED
    BY <1>1, <2>1, <2>2, <2>3, <2>4, HushKept
<1>15. QED
  BY <1>2, <1>3, <1>4, <1>5, <1>6, <1>7, <1>8, <1>9, <1>10, <1>11, <1>12, <1>13, <1>14
  DEF AudioNext

\* A playback, or the test tone, leaves nothing in the ring for the DMA to repeat
\* (tts.c tts_play_pump, audio.c TEST_SILENCE_BLOCKS), while core 0 alone follows
\* the DMA and comes back to its pump in time.
THEOREM IdleIsSilent ==
  ~Core1Resets /\ WideCounters /\ PromptPump => (AudioSpec => []SilentWhenIdle)
<1> SUFFICES ASSUME ~Core1Resets, WideCounters, PromptPump
             PROVE  AudioSpec => []SilentWhenIdle
  OBVIOUS
<1>1. AudioInit => AudioInv /\ Hush
  BY AudioInitInvariant DEF AudioInit, Hush
<1>2. AudioInv /\ Hush /\ [AudioNext]_audioVars => (AudioInv /\ Hush)'
  BY AudioStepInvariant, HushStep
<1>3. Hush => SilentWhenIdle
  BY DEF Hush, SilentWhenIdle
<1>4. QED
  BY <1>1, <1>2, <1>3, PTL DEF AudioSpec

-----------------------------------------------------------------------------
(* The microphone                                                          *)

\* Samples, the frames of them, and the other messages of the linephone.
Sample == [take : Nat, at : Nat]
Packet == [msg : {"PKT"}, late : BOOLEAN, samples : [1 .. FrameSize -> Sample]]
Note == [msg : {"START", "STOP", "END"}]

\* The types, and that nothing is being filled while the microphone is off.
MicTypeOK ==
  /\ out \in {"none", "START", "STOP", "END"} /\ micActive \in BOOLEAN
  /\ now \in Nat /\ takes \in Nat /\ (micActive => takes > 0)
  /\ ring \in [0 .. RingTime - 1 -> Sample] /\ pos \in 0 .. RingTime - 1
  /\ last \in 0 .. RingTime - 1 /\ read \in Nat
  /\ pumped \in Nat /\ longest \in Nat /\ unread \in Nat /\ seen \in Nat
  /\ acc \in Seq(Sample) /\ (micActive \/ acc = << >>)
  /\ way \in Seq(Packet \cup Note) /\ Len(way) <= Slots
  /\ accum \in Seq(Packet) /\ posted \in Seq(Seq(Packet))

\* The tick of the last sample the pump has read.
Base == seen - unread

\* A pump reads the clock, then the position, then samples; while it is not late
\* it reads on from where it stopped when the clock was read last.
Pumping ==
  /\ pump \in {"out", "clock", "drain"} /\ (pump = "drain" <=> unread > 0)
  /\ pumped <= now /\ seen <= now
  /\ IF pump = "clock" THEN seen <= pumped ELSE pumped <= seen
  /\ pump # "out" => micActive /\ now - pumped < PumpTime
  /\ pump # "out" /\ ~Late => pumped - Base <= longest

\* The ring holds what was captured since the pump's last sample, as far back as
\* it reaches, and the pump will read on where it stopped.
Captured ==
  micActive =>
    /\ (read + unread) % RingTime = last /\ (last + (now - seen)) % RingTime = pos
    /\ \A d \in 1 .. RingTime :
         d <= (now - seen) + unread =>
           ring[(pos + RingTime - d) % RingTime] = [take |-> takes, at |-> now - d + 1]

\* The frame being filled holds samples of this take, and the last ones before
\* the pump's place when it is not late.
Filling ==
  /\ \A i \in 1 .. Len(acc) : acc[i].take = takes /\ acc[i].at <= now
  /\ ~Late => \A i \in 1 .. Len(acc) : acc[i].at = Base - Len(acc) + i

\* Frames in the order they were spoken, but for a late one, whose samples the
\* DMA may have overwritten.
Elements(s) == {s[i] : i \in 1 .. Len(s)}
Before(f, g) == g.late \/ f.samples[FrameSize].at < g.samples[1].at
Ordered(s) ==
  \A i, j \in 1 .. Len(s) : i < j /\ s[i] \in Packet /\ s[j] \in Packet => Before(s[i], s[j])

\* The frames POSTed, in the accumulator, and between the cores.
Sent == UNION {Elements(posted[p]) : p \in 1 .. Len(posted)}
Held == Elements(accum)
Queued == Elements(way) \cap Packet

\* A frame of one take, without a hole unless it is late.
Consecutive(f) ==
  \A i \in 1 .. FrameSize :
    /\ f.samples[i].take > 0 /\ f.samples[i].take = f.samples[1].take
    /\ f.late \/ f.samples[i].at = f.samples[1].at + i - 1

\* The tick that everything shipped was captured by.
Spoken == IF micActive /\ ~Late THEN Base - Len(acc) ELSE now
Shipped(f) == Consecutive(f) /\ f.samples[FrameSize].at <= Spoken

\* Frames of all POSTs in the order they were spoken.
PostsOrdered ==
  \A p, q \in 1 .. Len(posted) : \A i \in 1 .. Len(posted[p]), j \in 1 .. Len(posted[q]) :
    (p < q \/ (p = q /\ i < j)) => Before(posted[p][i], posted[q][j])

\* What was POSTed was spoken before what waits for a POST, and that before
\* what is still between the cores.
InOrder ==
  /\ \A f \in Sent, g \in Held \cup Queued : Before(f, g)
  /\ \A f \in Held, g \in Queued : Before(f, g)
  /\ Ordered(accum) /\ Ordered(way) /\ PostsOrdered
  /\ \A f \in Sent \cup Held \cup Queued : Shipped(f)

\* The inductive invariant.
MicInv == MicTypeOK /\ Pumping /\ Captured /\ Filling /\ InOrder

\* What the proofs use of the constants.
LEMMA MicConstants ==
  /\ RingTime \in Nat \ {0} /\ FrameSize \in Nat \ {0} /\ Slots \in Nat \ {0}
  /\ PumpTime \in Nat \ {0}
BY MicAssumption

\* The elements of a sequence over a set.
LEMMA ElementsTyped ==
  ASSUME NEW S, NEW s \in Seq(S)
  PROVE  /\ Elements(s) \subseteq S /\ Len(s) \in Nat /\ DOMAIN s = 1 .. Len(s)
         /\ \A i \in 1 .. Len(s) : s[i] \in S
<1>1. Len(s) \in Nat /\ DOMAIN s = 1 .. Len(s) /\ \A i \in 1 .. Len(s) : s[i] \in S
  BY LenProperties, ElementOfSeq
<1>2. QED
  BY <1>1 DEF Elements

\* A frame behind all of a sequence keeps it in order.
LEMMA Appended ==
  ASSUME NEW S, NEW s \in Seq(S), NEW e \in S, Ordered(s),
         e \in Packet => \A f \in Elements(s) \cap Packet : Before(f, e)
  PROVE  /\ Elements(Append(s, e)) = Elements(s) \cup {e} /\ Ordered(Append(s, e))
<1> DEFINE t == Append(s, e)  n == Len(s)
<1>1. /\ Len(t) = n + 1 /\ n \in Nat /\ t[n + 1] = e
      /\ \A i \in 1 .. n : t[i] = s[i]
  BY AppendProperties, LenProperties
<1> HIDE DEF t, n
<1>2. Elements(t) = Elements(s) \cup {e}
  <2>1. \A i \in 1 .. n + 1 : i \in 1 .. n \/ i = n + 1
    BY <1>1
  <2>2. 1 .. n \subseteq 1 .. n + 1 /\ n + 1 \in 1 .. n + 1
    BY <1>1
  <2>3. QED
    BY <1>1, <2>1, <2>2 DEF Elements, n
<1>3. ASSUME NEW i \in 1 .. n + 1, NEW j \in 1 .. n + 1, i < j, t[i] \in Packet, t[j] \in Packet
      PROVE  Before(t[i], t[j])
  <2>1. i \in 1 .. n /\ t[i] = s[i] /\ s[i] \in Elements(s)
    BY <1>1, <1>3 DEF Elements, n
  <2>2. CASE j \in 1 .. n
    BY <1>1, <1>3, <2>1, <2>2 DEF Ordered, n
  <2>3. CASE j = n + 1
    BY <1>1, <1>3, <2>1, <2>3
  <2>4. QED
    BY <1>1, <2>2, <2>3
<1>4. Ordered(t)
  BY <1>1, <1>3 DEF Ordered
<1>5. QED
  BY <1>2, <1>4 DEF t

\* The head of a sequence in order lies before the rest of it.
LEMMA Taken ==
  ASSUME NEW S, NEW s \in Seq(S), s # << >>, Ordered(s)
  PROVE  /\ Head(s) \in Elements(s) /\ Elements(Tail(s)) \subseteq Elements(s)
         /\ Ordered(Tail(s)) /\ Tail(s) \in Seq(S) /\ Head(s) \in S /\ Len(Tail(s)) = Len(s) - 1
         /\ Head(s) \in Packet => \A g \in Elements(Tail(s)) \cap Packet : Before(Head(s), g)
<1> DEFINE t == Tail(s)  n == Len(s)
<1>1. /\ t \in Seq(S) /\ Len(t) = n - 1 /\ n \in Nat \ {0} /\ Head(s) = s[1] /\ Head(s) \in S
      /\ \A i \in 1 .. n - 1 : t[i] = s[i + 1]
  BY HeadTailProperties, LenProperties, EmptySeq
<1> HIDE DEF t, n
<1>2. \A i \in 1 .. n - 1 : i + 1 \in 1 .. n /\ 1 < i + 1 /\ 1 \in 1 .. n
  BY <1>1
<1>3. Head(s) \in Elements(s) /\ Elements(t) \subseteq Elements(s)
  BY <1>1, <1>2 DEF Elements, n
<1>4. Ordered(t)
  <2>1. SUFFICES ASSUME NEW i \in 1 .. n - 1, NEW j \in 1 .. n - 1, i < j,
                        t[i] \in Packet, t[j] \in Packet
                 PROVE  Before(t[i], t[j])
    BY <1>1 DEF Ordered
  <2>2. i + 1 \in 1 .. n /\ j + 1 \in 1 .. n /\ i + 1 < j + 1
    BY <1>1, <2>1
  <2>3. QED
    BY <1>1, <2>1, <2>2 DEF Ordered, n
<1>5. ASSUME Head(s) \in Packet, NEW g \in Elements(t) \cap Packet PROVE Before(Head(s), g)
  <2>1. PICK i \in 1 .. n - 1 : g = t[i]
    BY <1>1 DEF Elements
  <2>2. g = s[i + 1] /\ i + 1 \in 1 .. n /\ 1 \in 1 .. n /\ 1 < i + 1
    BY <1>1, <1>2, <2>1
  <2>3. QED
    BY <1>1, <1>5, <2>2 DEF Ordered, n
<1>6. QED
  BY <1>1, <1>3, <1>4, <1>5 DEF t, n

\* The frames shipped, wherever they are.
LEMMA FramesTyped ==
  ASSUME MicTypeOK
  PROVE  /\ Sent \subseteq Packet /\ Held \subseteq Packet /\ Queued \subseteq Packet
         /\ Len(posted) \in Nat /\ \A p \in 1 .. Len(posted) : posted[p] \in Seq(Packet)
<1>1. posted \in Seq(Seq(Packet)) /\ accum \in Seq(Packet)
  BY DEF MicTypeOK
<1>2. Len(posted) \in Nat /\ \A p \in 1 .. Len(posted) : posted[p] \in Seq(Packet)
  BY <1>1, ElementsTyped
<1>3. \A p \in 1 .. Len(posted) : Elements(posted[p]) \subseteq Packet
  BY <1>2, ElementsTyped
<1>4. Held \subseteq Packet /\ Queued \subseteq Packet
  BY <1>1, ElementsTyped DEF Held, Queued
<1>5. QED
  BY <1>2, <1>3, <1>4 DEF Sent

\* When a frame ended.
LEMMA FrameEnds ==
  ASSUME NEW f \in Packet
  PROVE  f.samples[FrameSize].at \in Nat /\ f.msg = "PKT" /\ f.late \in BOOLEAN
<1>1. FrameSize \in 1 .. FrameSize
  BY MicConstants
<1>2. f.samples \in [1 .. FrameSize -> Sample] /\ f.msg = "PKT" /\ f.late \in BOOLEAN
  BY DEF Packet
<1>3. QED
  BY <1>1, <1>2 DEF Sample

\* Where everything shipped lies.
LEMMA SpokenIs ==
  ASSUME MicTypeOK, Pumping
  PROVE  /\ Spoken \in Int /\ Spoken <= now /\ Base \in Int /\ Base <= now /\ Len(acc) \in Nat
         /\ Late \in BOOLEAN /\ now \in Nat /\ (pump # "drain" => Base = seen)
<1>1. /\ seen \in Nat /\ unread \in Nat /\ now \in Nat /\ seen <= now /\ Len(acc) \in Nat
      /\ longest \in Nat /\ PumpTime \in Nat \ {0} /\ RingTime \in Nat \ {0}
      /\ (pump # "drain" => unread = 0)
  BY MicConstants, LenProperties DEF MicTypeOK, Pumping
<1>2. Base \in Int /\ Base <= now /\ (pump # "drain" => Base = seen)
  BY <1>1 DEF Base
<1>3. Spoken \in Int /\ Spoken <= now
  BY <1>1, <1>2 DEF Spoken
<1>4. QED
  BY <1>1, <1>2, <1>3 DEF Late

\* A frame stays behind what is still to be shipped.
LEMMA StillShipped ==
  ASSUME MicInv, Spoken' \in Int, Spoken <= Spoken', NEW f \in Sent \cup Held \cup Queued
  PROVE  Shipped(f)'
<1>1. f \in Packet /\ Shipped(f) /\ Spoken \in Int
  BY FramesTyped, SpokenIs DEF MicInv, InOrder
<1>2. f.samples[FrameSize].at \in Nat /\ f.samples[FrameSize].at <= Spoken
  BY <1>1, FrameEnds DEF Shipped
<1>3. f.samples[FrameSize].at <= Spoken'
  BY <1>1, <1>2
<1>4. Consecutive(f)'
  BY <1>1 DEF Shipped, Consecutive
<1>5. QED
  BY <1>3, <1>4 DEF Shipped

\* A step that moves no frame.
LEMMA NothingShipped ==
  ASSUME MicInv, UNCHANGED <<way, accum, posted>>, Spoken' \in Int, Spoken <= Spoken'
  PROVE  InOrder'
<1>1. Sent' = Sent /\ Held' = Held /\ Queued' = Queued
  BY DEF Sent, Held, Queued, Elements
<1>2. \A f \in Sent \cup Held \cup Queued : Shipped(f)'
  BY StillShipped
<1>3. Ordered(accum)' /\ Ordered(way)' /\ PostsOrdered'
  BY DEF MicInv, InOrder, Ordered, PostsOrdered, Before
<1>4. /\ \A f \in Sent, g \in Held \cup Queued : Before(f, g)'
      /\ \A f \in Held, g \in Queued : Before(f, g)'
  BY DEF MicInv, InOrder, Before
<1>5. QED
  BY <1>1, <1>2, <1>3, <1>4 DEF InOrder

\* A message of core 0 is no frame.
LEMMA SendShips ==
  ASSUME MicInv, Send
  PROVE  MicInv'
<1> DEFINE m == [msg |-> out]
<1>0. MicTypeOK /\ Pumping /\ Captured /\ Filling /\ InOrder
  BY DEF MicInv
<1>1. /\ out \in {"START", "STOP", "END"} /\ Len(way) < Slots /\ way' = Append(way, m)
      /\ out' = "none"
      /\ UNCHANGED <<linephone, now, takes, micActive, ring, pos, last, read, pumped,
                     longest, pump, unread, seen, acc,
                     session, accum, postPending, posted>>
  BY <1>0 DEF Send, MicTypeOK, captureVars, pumpVars, core1Vars
<1>2. m \in Note /\ m \notin Packet
  <2>1. m.msg # "PKT"
    BY <1>1
  <2>2. QED
    BY <1>1, <2>1 DEF Note, Packet
<1> HIDE DEF m
<1>3. way \in Seq(Packet \cup Note) /\ Len(way) \in Nat /\ Slots \in Nat
  BY <1>0, MicConstants, LenProperties DEF MicTypeOK
<1>4. way' \in Seq(Packet \cup Note) /\ Len(way') <= Slots
  BY <1>1, <1>2, <1>3, AppendProperties
<1>5. MicTypeOK'
  BY <1>0, <1>1, <1>4 DEF MicTypeOK
<1>6. Elements(way)' = Elements(way) \cup {m} /\ Ordered(way)'
  <2>1. Ordered(way)
    BY <1>0 DEF InOrder
  <2>2. m \in Packet \cup Note
    BY <1>2
  <2>3. Elements(Append(way, m)) = Elements(way) \cup {m} /\ Ordered(Append(way, m))
    BY <1>2, <1>3, <2>1, <2>2, Appended
  <2>4. QED
    BY <1>1, <2>3 DEF Elements, Ordered, Before
<1>7. Sent' = Sent /\ Held' = Held /\ Queued' = Queued
  BY <1>1, <1>2, <1>6 DEF Sent, Held, Queued, Elements
<1>8. InOrder'
  <2>1. \A f : Shipped(f) => Shipped(f)'
    BY <1>1 DEF Shipped, Consecutive, Spoken, Base, Late
  <2>2. Ordered(accum)' /\ PostsOrdered'
    BY <1>0, <1>1 DEF InOrder, Ordered, PostsOrdered, Before
  <2>3. \A f \in Sent' \cup Held' \cup Queued' : Shipped(f)'
    BY <1>0, <1>7, <2>1 DEF InOrder
  <2>4. /\ \A f \in Sent', g \in Held' \cup Queued' : Before(f, g)
        /\ \A f \in Held', g \in Queued' : Before(f, g)
    BY <1>0, <1>7 DEF InOrder
  <2>5. QED
    BY <1>6, <2>2, <2>3, <2>4 DEF InOrder, Before
<1>9. Pumping' /\ Captured' /\ Filling'
  BY <1>0, <1>1 DEF Pumping, Captured, Filling, Base, Late
<1>10. QED
  BY <1>5, <1>8, <1>9 DEF MicInv

\* Ctrl, B down and B up.
LEMMA ButtonsShip ==
  ASSUME MicInv, Toggle \/ Press \/ Release
  PROVE  MicInv'
<1>0. /\ MicTypeOK /\ Pumping /\ Captured /\ Filling /\ InOrder
      /\ RingTime \in Nat \ {0} /\ << >> \in Seq(Sample) /\ Len(<< >>) = 0
  BY MicConstants DEF MicInv
<1>s. Spoken \in Int /\ Spoken <= now /\ now \in Nat /\ unread \in Nat /\ seen \in Nat
  BY <1>0, SpokenIs DEF MicTypeOK
<1>1. CASE Toggle \/ Release
  <2>1. /\ out' \in {"none", "START", "STOP", "END"} /\ micActive' = FALSE
        /\ (acc' = << >> \/ (~micActive /\ acc' = acc)) /\ pump = "out"
        /\ UNCHANGED <<way, now, takes, ring, pos, last, read, pumped, longest, pump, unread, seen,
                       session, accum, postPending, posted>>
    BY <1>1 DEF Toggle, Release, core1Vars, pumpVars
  <2>2. acc' = << >>
    BY <1>0, <2>1 DEF MicTypeOK
  <2>3. MicTypeOK'
    BY <1>0, <2>1, <2>2 DEF MicTypeOK
  <2>4. Pumping' /\ Captured' /\ Filling'
    BY <1>0, <2>1, <2>2 DEF Pumping, Captured, Filling
  <2>5. Spoken' = now
    BY <2>1 DEF Spoken
  <2>6. InOrder'
    BY <1>s, <2>1, <2>5, NothingShipped
  <2>7. QED
    BY <2>3, <2>4, <2>6 DEF MicInv
<1>2. CASE Press
  <2>1. /\ takes' = takes + 1 /\ micActive' = TRUE /\ ring' = [w \in DOMAIN ring |-> NoSample]
        /\ pos' = 0 /\ last' = 0 /\ read' = 0 /\ pumped' = now /\ acc' = << >>
        /\ longest' = 0 /\ seen' = now /\ pump = "out"
        /\ UNCHANGED <<linephone, out, now, pump, unread, way, session, accum, postPending, posted>>
    BY <1>2 DEF Press, core1Vars
  <2>2. NoSample \in Sample
    BY DEF NoSample, Sample
  <2>3. ring' \in [0 .. RingTime - 1 -> Sample]
    BY <1>0, <2>1, <2>2 DEF MicTypeOK
  <2>4. takes \in Nat /\ 0 \in 0 .. RingTime - 1 /\ unread = 0 /\ unread' = 0
    BY <1>0, <2>1 DEF MicTypeOK, Pumping
  <2>5. MicTypeOK'
    <3>1. /\ takes' \in Nat /\ takes' > 0 /\ now' \in Nat /\ pumped' \in Nat /\ seen' \in Nat
          /\ read' \in Nat /\ longest' \in Nat /\ unread' \in Nat /\ pos' \in 0 .. RingTime - 1
          /\ last' \in 0 .. RingTime - 1
      BY <1>s, <2>1, <2>4
    <3>2. micActive' \in BOOLEAN /\ acc' \in Seq(Sample) /\ micActive'
      BY <1>0, <2>1
    <3>3. /\ out' \in {"none", "START", "STOP", "END"}
          /\ way' \in Seq(Packet \cup Note) /\ Len(way') <= Slots
          /\ accum' \in Seq(Packet) /\ posted' \in Seq(Seq(Packet))
      BY <1>0, <2>1 DEF MicTypeOK
    <3>4. QED
      BY <2>3, <3>1, <3>2, <3>3 DEF MicTypeOK
  <2>6. Captured'
    <3>1. 0 % RingTime = 0 /\ now - now = 0 /\ 0 + 0 = 0
      BY <1>0, <1>s, ModSmall
    <3>2. \A d \in 1 .. RingTime : ~(d <= 0)
      BY <1>0
    <3>3. QED
      BY <2>1, <2>4, <3>1, <3>2 DEF Captured
  <2>7. Filling' /\ Pumping'
    BY <1>0, <1>s, <2>1, <2>4 DEF Filling, Pumping
  <2>8. Spoken' = now
    <3>1. Base' = now /\ Len(acc') = 0 /\ now' = now
      BY <1>0, <1>s, <2>1, <2>4 DEF Base
    <3>2. QED
      BY <1>s, <3>1 DEF Spoken
  <2>9. InOrder'
    BY <1>s, <2>1, <2>8, NothingShipped
  <2>10. QED
    BY <2>5, <2>6, <2>7, <2>9 DEF MicInv
<1>3. QED
  BY <1>1, <1>2

\* The DMA.
LEMMA CaptureShips ==
  ASSUME MicInv, Capture
  PROVE  MicInv'
<1> DEFINE new == [take |-> takes, at |-> now + 1]
<1>0. /\ MicTypeOK /\ Pumping /\ Captured /\ Filling /\ InOrder
      /\ RingTime \in Nat \ {0}
  BY MicConstants DEF MicInv
<1>1. /\ micActive /\ now' = now + 1 /\ ring' = [ring EXCEPT ![pos] = new]
      /\ pos' = (pos + 1) % RingTime
      /\ UNCHANGED <<linephone, out, takes, micActive, last, read, pumped, longest, pump,
                     unread, seen, acc, way, session, accum, postPending, posted>>
      /\ pump # "out" => now + 1 - pumped < PumpTime
  BY <1>0 DEF Capture, core1Vars, pumpVars
<1>2. /\ now \in Nat /\ takes \in Nat /\ pumped \in Nat /\ pumped <= now
      /\ seen \in Nat /\ seen <= now /\ unread \in Nat /\ longest \in Nat
      /\ PumpTime \in Nat \ {0} /\ pos \in 0 .. RingTime - 1 /\ last \in 0 .. RingTime - 1
      /\ ring \in [0 .. RingTime - 1 -> Sample]
  BY <1>0, MicConstants DEF MicTypeOK, Pumping
<1>3. pos' \in 0 .. RingTime - 1 /\ pos + 1 \in Int
  <2>1. pos + 1 \in Int
    BY <1>2
  <2>2. QED
    BY <1>0, <1>1, <2>1, DivMod
<1>4. new \in Sample
  BY <1>2 DEF Sample
<1> HIDE DEF new
<1>5. MicTypeOK'
  <2>1. ring' \in [0 .. RingTime - 1 -> Sample]
    BY <1>1, <1>2, <1>4
  <2>2. now' \in Nat
    BY <1>1, <1>2
  <2>3. QED
    BY <1>0, <1>1, <1>3, <2>1, <2>2 DEF MicTypeOK
<1>6. Captured'
  <2>1. /\ (read + unread) % RingTime = last /\ (last + (now - seen)) % RingTime = pos
        /\ \A d \in 1 .. RingTime : d <= (now - seen) + unread =>
             ring[(pos + RingTime - d) % RingTime] = [take |-> takes, at |-> now - d + 1]
    BY <1>0, <1>1 DEF Captured
  <2>2. (last + (now' - seen')) % RingTime = pos'
    <3>1. last + (now' - seen') = (last + (now - seen)) + 1 /\ last + (now - seen) \in Int
      BY <1>1, <1>2
    <3>2. (((last + (now - seen)) % RingTime) + 1) % RingTime
            = ((last + (now - seen)) + 1) % RingTime
      <4> DEFINE x == last + (now - seen)
      <4>1. x \in Int /\ 1 \in Int
        BY <3>1
      <4> HIDE DEF x
      <4>2. ((x % RingTime) + 1) % RingTime = (x + 1) % RingTime
        BY <1>0, <4>1, ModAdd
      <4>3. QED
        BY <4>2 DEF x
    <3>3. QED
      BY <1>1, <2>1, <3>1, <3>2
  <2>3. ASSUME NEW d \in 1 .. RingTime, d <= (now' - seen') + unread'
        PROVE  ring'[(pos' + RingTime - d) % RingTime] = [take |-> takes', at |-> now' - d + 1]
    <3> DEFINE w == (pos + (RingTime - d + 1)) % RingTime
    <3>1. (pos' + RingTime - d) % RingTime = w
      <4>1. RingTime - d \in Int /\ pos' + RingTime - d = pos' + (RingTime - d)
        BY <1>0, <1>3
      <4>2. (((pos + 1) % RingTime) + (RingTime - d)) % RingTime
              = ((pos + 1) + (RingTime - d)) % RingTime
        BY <1>0, <1>3, <4>1, ModAdd
      <4>3. (pos + 1) + (RingTime - d) = pos + (RingTime - d + 1)
        BY <1>0, <1>2
      <4>4. QED
        BY <1>1, <4>1, <4>2, <4>3
    <3>2. CASE d = 1
      <4>1. pos + (RingTime - d + 1) = pos + RingTime * 1 /\ pos \in Int /\ 1 \in Int
        BY <1>0, <1>2, <3>2
      <4>2. (pos + RingTime * 1) % RingTime = pos % RingTime /\ pos % RingTime = pos
        BY <1>0, <1>2, <4>1, ModShift, ModSmall
      <4>3. w = pos
        BY <4>1, <4>2
      <4>4. ring'[pos] = new
        BY <1>1, <1>2
      <4>5. now' - d + 1 = now + 1
        BY <1>1, <1>2, <3>2
      <4>6. QED
        BY <1>1, <3>1, <4>3, <4>4, <4>5 DEF new
    <3>3. CASE d # 1
      <4>1. /\ d - 1 \in 1 .. RingTime /\ d - 1 <= (now - seen) + unread
            /\ pos + RingTime - (d - 1) = pos + (RingTime - d + 1)
            /\ now - (d - 1) + 1 = now' - d + 1
        BY <1>0, <1>1, <1>2, <2>3, <3>3
      <4>2. ring[w] = [take |-> takes, at |-> now - (d - 1) + 1]
        BY <2>1, <4>1
      <4>3. w \in 0 .. RingTime - 1 /\ w # pos
        <5>1. pos + (RingTime - d + 1) \in Int
          BY <1>0, <1>2
        <5>2. w \in 0 .. RingTime - 1
          BY <1>0, <5>1, DivMod
        <5>3. ASSUME w = pos PROVE FALSE
          <6> DEFINE k == RingTime - d + 1  x == pos + k
          <6>1. k \in 1 .. RingTime - 1 /\ x \in Int /\ pos \in Int
            BY <1>0, <1>2, <3>3
          <6>2. x % RingTime = pos % RingTime
            BY <1>0, <1>2, <5>3, ModSmall
          <6>3. x - pos < RingTime /\ pos - x < RingTime /\ x # pos
            BY <1>0, <6>1
          <6> HIDE DEF x
          <6>4. x = pos
            BY <1>0, <6>1, <6>2, <6>3, ModWindow
          <6>5. QED
            BY <6>3, <6>4
        <5>4. QED
          BY <5>2, <5>3
      <4> HIDE DEF w
      <4>4. ring'[w] = ring[w]
        BY <1>1, <1>2, <4>3
      <4>5. QED
        BY <1>1, <3>1, <4>1, <4>2, <4>4
    <3>4. QED
      BY <3>2, <3>3
  <2>4. QED
    BY <1>1, <2>1, <2>2, <2>3 DEF Captured
<1>7. Pumping' /\ Filling' /\ Late' = Late /\ Base' = Base
  <2>1. Late' = Late /\ Base' = Base
    BY <1>1 DEF Late, Base
  <2>2. Pumping'
    BY <1>0, <1>1, <1>2, <2>1 DEF Pumping
  <2>3. Filling'
    <3>1. \A i \in 1 .. Len(acc) : acc[i].take = takes /\ acc[i].at <= now + 1
      <4>1. \A i \in 1 .. Len(acc) : acc[i] \in Sample
        BY <1>0, ElementOfSeq DEF MicTypeOK
      <4>2. \A x \in Sample : x.at \in Nat
        BY DEF Sample
      <4>3. \A x \in Nat : x <= now => x <= now + 1
        BY <1>2
      <4>4. QED
        BY <1>0, <4>1, <4>2, <4>3 DEF Filling
    <3>2. QED
      BY <1>0, <1>1, <2>1, <3>1 DEF Filling
  <2>4. QED
    BY <2>1, <2>2, <2>3
<1>8. InOrder'
  <2>1. Spoken \in Int /\ Spoken' \in Int /\ Spoken <= Spoken'
    <3>1. Spoken \in Int /\ Base \in Int /\ Len(acc) \in Nat /\ now \in Nat
      BY <1>0, SpokenIs
    <3>2. Len(acc') = Len(acc) /\ now' = now + 1 /\ micActive' = micActive
      BY <1>1
    <3>3. QED
      BY <1>7, <3>1, <3>2 DEF Spoken
  <2>2. QED
    BY <1>1, <2>1, NothingShipped
<1>9. QED
  BY <1>5, <1>6, <1>7, <1>8 DEF MicInv

\* A remainder is no greater than what is divided.
LEMMA NotLonger ==
  ASSUME NEW d \in Nat \ {0}, NEW x \in Nat, NEW q \in Int, NEW r \in 0 .. d - 1, x = d * q + r
  PROVE  r <= x
<1>1. CASE q >= 0
  <2>1. d * q >= 0 /\ d * q \in Int
    BY <1>1
  <2>2. QED
    BY <2>1
<1>2. CASE q <= -1
  <2>1. d * q <= -d /\ d * q \in Int
    BY <1>2
  <2>2. QED
    BY <2>1
<1>3. QED
  BY <1>1, <1>2

\* mic_pump reads the clock.
LEMMA PumpClockShips ==
  ASSUME MicInv, PumpClock
  PROVE  MicInv'
<1>0. MicTypeOK /\ Pumping /\ Captured /\ Filling /\ InOrder
  BY DEF MicInv
<1>1. /\ micActive /\ pump = "out" /\ pumped' = now /\ pump' = "clock"
      /\ longest' = Longer(longest, now - pumped)
      /\ UNCHANGED <<linephone, out, now, takes, micActive, ring, pos, last, read, unread, seen,
                     acc, way, session, accum, postPending, posted>>
  BY DEF PumpClock, core1Vars
<1>2. /\ now \in Nat /\ pumped \in Nat /\ longest \in Nat /\ seen \in Nat /\ unread = 0
      /\ pumped <= seen /\ seen <= now /\ RingTime \in Nat \ {0} /\ PumpTime \in Nat \ {0}
  BY <1>0, <1>1, MicConstants DEF MicTypeOK, Pumping
<1>3. longest' \in Nat /\ longest <= longest' /\ now - pumped <= longest'
  BY <1>1, <1>2 DEF Longer
<1>4. Base' = Base /\ Base = seen /\ (~Late' => ~Late)
  BY <1>1, <1>2, <1>3 DEF Base, Late
<1>5. MicTypeOK'
  BY <1>0, <1>1, <1>2, <1>3 DEF MicTypeOK
<1>6. Pumping'
  BY <1>0, <1>1, <1>2, <1>3, <1>4 DEF Pumping
<1>7. Captured' /\ Filling'
  BY <1>0, <1>1, <1>4 DEF Captured, Filling
<1>8. InOrder'
  <2>1. Spoken \in Int /\ Spoken <= now /\ Base \in Int /\ Len(acc) \in Nat
    BY <1>0, SpokenIs
  <2>2. Len(acc') = Len(acc) /\ now' = now /\ micActive' = micActive
    BY <1>1
  <2>3. Spoken' \in Int /\ Spoken <= Spoken'
    BY <1>2, <1>4, <2>1, <2>2 DEF Spoken
  <2>4. QED
    BY <1>1, <2>3, NothingShipped
<1>9. QED
  BY <1>5, <1>6, <1>7, <1>8 DEF MicInv

\* How far the position moved: all that was captured since it was read last,
\* short of whole rings.
LEMMA ProducedIs ==
  ASSUME MicTypeOK, Pumping, Captured, pump = "clock"
  PROVE  /\ Produced \in 0 .. RingTime - 1 /\ Produced <= now - seen
         /\ (~Late => Produced = now - seen)
         /\ (read + Produced) % RingTime = pos
<1> DEFINE gone == now - seen  q == gone \div RingTime  r == gone % RingTime
<1>0. /\ RingTime \in Nat \ {0} /\ PumpTime \in Nat \ {0} /\ now \in Nat /\ seen \in Nat
      /\ seen <= now /\ pumped \in Nat /\ longest \in Nat /\ unread = 0 /\ micActive
      /\ pos \in 0 .. RingTime - 1 /\ last \in 0 .. RingTime - 1 /\ read \in Nat
  BY MicConstants DEF MicTypeOK, Pumping
<1>g. gone \in Nat
  BY <1>0
<1> HIDE DEF gone
<1>1. q \in Int /\ r \in 0 .. RingTime - 1 /\ gone = RingTime * q + r
  <2>1. gone \in Int
    BY <1>g
  <2>2. QED
    BY <1>0, <2>1, DivMod
<1> HIDE DEF q, r
<1>2. read % RingTime = last /\ (last + gone) % RingTime = pos
  <2>1. read + unread = read
    BY <1>0
  <2>2. QED
    BY <1>0, <2>1 DEF Captured, gone
<1>3. (last + r) % RingTime = pos
  <2>1. last + gone = (last + r) + RingTime * q /\ last + r \in Int
    BY <1>0, <1>1
  <2>2. ((last + r) + RingTime * q) % RingTime = (last + r) % RingTime
    BY <1>0, <1>1, <2>1, ModShift
  <2>3. QED
    BY <1>2, <2>1, <2>2
<1>4. Produced = r
  <2>1. (pos + (RingTime - last)) % RingTime = ((last + r) + (RingTime - last)) % RingTime
    <3>1. last + r \in Int /\ RingTime - last \in Int
      BY <1>0, <1>1
    <3>2. (((last + r) % RingTime) + (RingTime - last)) % RingTime
            = ((last + r) + (RingTime - last)) % RingTime
      BY <1>0, <3>1, ModAdd
    <3>3. QED
      BY <1>3, <3>2
  <2>2. pos + RingTime - last = pos + (RingTime - last)
    BY <1>0
  <2>3. (last + r) + (RingTime - last) = r + RingTime * 1 /\ r \in Int /\ 1 \in Int
    BY <1>0, <1>1
  <2>4. (r + RingTime * 1) % RingTime = r % RingTime /\ r % RingTime = r
    BY <1>0, <1>1, <2>3, ModShift, ModSmall
  <2>5. QED
    BY <2>1, <2>2, <2>3, <2>4 DEF Produced
<1>5. r <= gone
  BY <1>0, <1>g, <1>1, NotLonger
<1>6. ASSUME ~Late PROVE r = gone
  <2>1. gone \in 0 .. RingTime - 1
    <3>1. /\ now - pumped < PumpTime /\ pumped - seen <= longest
          /\ longest + PumpTime <= RingTime
      <4>1. Base = seen
        BY <1>0 DEF Base
      <4>2. QED
        BY <1>0, <1>6, <4>1 DEF Pumping, Late
    <3>2. now - seen < RingTime
      BY <1>0, <3>1
    <3>3. QED
      BY <1>0, <1>g, <3>2 DEF gone
  <2>2. QED
    BY <1>0, <2>1, ModSmall DEF r
<1>7. (read + r) % RingTime = pos
  <2>1. ((read % RingTime) + r) % RingTime = (read + r) % RingTime
    <3>1. read \in Int /\ r \in Int
      BY <1>0, <1>1
    <3>2. QED
      BY <1>0, <3>1, ModAdd
  <2>2. QED
    BY <1>2, <1>3, <2>1
<1>8. QED
  BY <1>1, <1>4, <1>5, <1>6, <1>7 DEF gone

\* mic_pump reads the DMA's position.
LEMMA PumpPositionShips ==
  ASSUME MicInv, PumpPosition
  PROVE  MicInv'
<1>0. /\ MicTypeOK /\ Pumping /\ Captured /\ Filling /\ InOrder /\ pump = "clock" /\ micActive
      /\ RingTime \in Nat \ {0} /\ PumpTime \in Nat \ {0}
  BY MicConstants DEF MicInv, PumpPosition, Pumping
<1>1. /\ last' = pos /\ unread' = Produced /\ seen' = now
      /\ pump' = IF Produced = 0 THEN "out" ELSE "drain"
      /\ UNCHANGED <<linephone, out, now, takes, micActive, ring, pos, read, pumped, longest, acc,
                     way, session, accum, postPending, posted>>
  BY DEF PumpPosition, core1Vars
<1>2. /\ Produced \in 0 .. RingTime - 1 /\ Produced <= now - seen
      /\ (~Late => Produced = now - seen) /\ (read + Produced) % RingTime = pos
  BY <1>0, ProducedIs
<1>3. /\ now \in Nat /\ seen \in Nat /\ seen <= now /\ pumped \in Nat /\ pumped <= now
      /\ seen <= pumped /\ longest \in Nat /\ pos \in 0 .. RingTime - 1 /\ read \in Nat
      /\ unread = 0
  BY <1>0 DEF MicTypeOK, Pumping
<1>4. Late' = Late /\ Base = seen /\ (~Late => Base' = Base)
  BY <1>1, <1>2, <1>3 DEF Late, Base
<1>5. MicTypeOK'
  BY <1>0, <1>1, <1>2, <1>3 DEF MicTypeOK
<1>6. Pumping'
  <2>1. now - pumped < PumpTime /\ (~Late => pumped - Base <= longest)
    BY <1>0 DEF Pumping
  <2>2. pump' \in {"out", "clock", "drain"} /\ (pump' = "drain" <=> unread' > 0) /\ pump' # "clock"
    BY <1>1, <1>2
  <2>3. QED
    BY <1>0, <1>1, <1>3, <1>4, <2>1, <2>2 DEF Pumping
<1>7. Captured'
  <2>1. (pos + (now - now)) % RingTime = pos
    <3>1. pos + (now - now) = pos
      BY <1>3
    <3>2. QED
      BY <1>0, <1>3, <3>1, ModSmall
  <2>2. \A d \in 1 .. RingTime : d <= (now - now) + Produced => d <= (now - seen) + unread
    BY <1>0, <1>2, <1>3
  <2>3. \A d \in 1 .. RingTime :
          d <= (now - now) + Produced =>
            ring[(pos + RingTime - d) % RingTime] = [take |-> takes, at |-> now - d + 1]
    BY <1>0, <2>2 DEF Captured
  <2>4. QED
    BY <1>1, <1>2, <2>1, <2>3 DEF Captured
<1>8. Filling'
  BY <1>0, <1>1, <1>4 DEF Filling
<1>9. InOrder'
  <2>1. Spoken \in Int /\ Spoken <= now /\ Base \in Int /\ Len(acc) \in Nat
    BY <1>0, SpokenIs
  <2>2. Len(acc') = Len(acc) /\ now' = now /\ micActive' = micActive
    BY <1>1
  <2>3. Spoken' = Spoken
    BY <1>4, <2>2 DEF Spoken
  <2>4. QED
    BY <1>1, <2>1, <2>3, NothingShipped
<1>10. QED
  BY <1>5, <1>6, <1>7, <1>8, <1>9 DEF MicInv

\* A sample the pump reads: the next one of the take while it is not late, and
\* then still one of the take.
LEMMA ReadIs ==
  ASSUME MicTypeOK, Pumping, Captured, pump = "drain"
  PROVE  /\ ring[read % RingTime] \in Sample
         /\ ring[read % RingTime].take = takes /\ ring[read % RingTime].at <= now
         /\ ~Late => ring[read % RingTime].at = Base + 1
<1> DEFINE D == (now - seen) + unread  q == (D - 1) \div RingTime  r == (D - 1) % RingTime
           d == r + 1
<1>0. /\ RingTime \in Nat \ {0} /\ PumpTime \in Nat \ {0} /\ now \in Nat /\ seen \in Nat
      /\ seen <= now /\ pumped \in Nat /\ longest \in Nat /\ unread \in Nat \ {0} /\ micActive
      /\ pos \in 0 .. RingTime - 1 /\ last \in 0 .. RingTime - 1 /\ read \in Nat /\ takes \in Nat
      /\ ring \in [0 .. RingTime - 1 -> Sample]
  BY MicConstants DEF MicTypeOK, Pumping
<1>g. D \in Nat \ {0} /\ D - 1 \in Nat /\ D = now - Base /\ Base \in Int
  BY <1>0 DEF Base
<1>c. /\ (read + unread) % RingTime = last /\ (last + (now - seen)) % RingTime = pos
      /\ \A e \in 1 .. RingTime :
           e <= D => ring[(pos + RingTime - e) % RingTime] = [take |-> takes, at |-> now - e + 1]
  BY <1>0 DEF Captured
<1>p. (read + D) % RingTime = pos
  <2> DEFINE x == read + unread  j == now - seen
  <2>1. x \in Int /\ j \in Int /\ x + j = read + D
    BY <1>0
  <2> HIDE DEF x, j
  <2>2. ((x % RingTime) + j) % RingTime = (x + j) % RingTime
    BY <1>0, <2>1, ModAdd
  <2>3. QED
    BY <1>c, <2>1, <2>2 DEF x, j
<1> HIDE DEF D
<1>1. q \in Int /\ r \in 0 .. RingTime - 1 /\ D - 1 = RingTime * q + r
  <2>1. D - 1 \in Int
    BY <1>g
  <2>2. QED
    BY <1>0, <2>1, DivMod
<1>2. ~Late => r = D - 1
  <2>1. ASSUME ~Late PROVE D - 1 \in 0 .. RingTime - 1
    <3>1. /\ now - pumped < PumpTime /\ pumped - Base <= longest
          /\ longest + PumpTime <= RingTime
      BY <1>0, <2>1 DEF Pumping, Late
    <3>2. QED
      BY <1>0, <1>g, <3>1
  <2>2. QED
    BY <1>0, <2>1, ModSmall
<1> HIDE DEF q, r
<1>3. r <= D - 1
  BY <1>0, <1>g, <1>1, NotLonger
<1>4. d \in 1 .. RingTime /\ d <= D
  BY <1>0, <1>g, <1>1, <1>3
<1>5. (pos + RingTime - d) % RingTime = read % RingTime
  <2>1. /\ pos + RingTime - d = pos + (RingTime - d) /\ RingTime - d \in Int /\ read + D \in Int
        /\ (read + D) + (RingTime - d) = read + RingTime * (q + 1) /\ read \in Int /\ q + 1 \in Int
    <3>1. RingTime * (q + 1) = RingTime * q + RingTime /\ RingTime * q \in Int
      BY <1>0, <1>1
    <3>2. QED
      BY <1>0, <1>g, <1>1, <3>1
  <2> HIDE DEF d
  <2>2. (((read + D) % RingTime) + (RingTime - d)) % RingTime
          = ((read + D) + (RingTime - d)) % RingTime
    BY <1>0, <2>1, ModAdd
  <2>3. (read + RingTime * (q + 1)) % RingTime = read % RingTime
    BY <1>0, <2>1, ModShift
  <2>4. QED
    BY <1>p, <2>1, <2>2, <2>3
<1>6. ring[read % RingTime] = [take |-> takes, at |-> now - d + 1]
  BY <1>c, <1>4, <1>5
<1>7. now - d + 1 <= now /\ (~Late => now - d + 1 = Base + 1)
  BY <1>0, <1>g, <1>1, <1>2
<1>8. ring[read % RingTime] \in Sample
  <2>1. read \in Int
    BY <1>0
  <2>2. read % RingTime \in 0 .. RingTime - 1
    BY <1>0, <2>1, DivMod
  <2>3. QED
    BY <1>0, <2>2
<1>9. QED
  BY <1>6, <1>7, <1>8

\* What the pump has of a frame with one more sample.
LEMMA FilledIs ==
  ASSUME MicInv, pump = "drain"
  PROVE  LET filled == Append(acc, ring[read % RingTime])
         IN /\ filled \in Seq(Sample) /\ Len(filled) = Len(acc) + 1
            /\ \A i \in 1 .. Len(filled) : filled[i].take = takes /\ filled[i].at <= now
            /\ ~Late => \A i \in 1 .. Len(filled) : filled[i].at = (Base + 1) - Len(filled) + i
<1> DEFINE e == ring[read % RingTime]  filled == Append(acc, e)  n == Len(acc)
<1>0. MicTypeOK /\ Pumping /\ Captured /\ Filling
  BY DEF MicInv
<1>1. e \in Sample /\ e.take = takes /\ e.at <= now /\ (~Late => e.at = Base + 1)
  BY <1>0, ReadIs
<1> HIDE DEF e
<1>2. acc \in Seq(Sample) /\ n \in Nat /\ Base \in Int
  BY <1>0, SpokenIs DEF MicTypeOK
<1>3. /\ filled \in Seq(Sample) /\ Len(filled) = n + 1 /\ filled[n + 1] = e
      /\ \A i \in 1 .. n : filled[i] = acc[i]
  BY <1>1, <1>2, AppendProperties
<1> HIDE DEF filled
<1>4. \A i \in 1 .. n : acc[i].take = takes /\ acc[i].at <= now
  BY <1>0 DEF Filling
<1>5. ~Late => \A i \in 1 .. n : acc[i].at = Base - n + i
  BY <1>0 DEF Filling
<1> HIDE DEF n
<1>6. \A i \in 1 .. n + 1 : i \in 1 .. n \/ i = n + 1
  BY <1>2
<1>7. \A i \in 1 .. n + 1 : filled[i].take = takes /\ filled[i].at <= now
  BY <1>1, <1>3, <1>4, <1>6
<1>8. ASSUME ~Late, NEW i \in 1 .. n + 1 PROVE filled[i].at = (Base + 1) - (n + 1) + i
  <2>1. CASE i \in 1 .. n
    <3>1. Base - n + i = (Base + 1) - (n + 1) + i
      BY <1>2
    <3>2. QED
      BY <1>3, <1>5, <1>8, <2>1, <3>1
  <2>2. CASE i = n + 1
    <3>1. Base + 1 = (Base + 1) - (n + 1) + i
      BY <1>2, <2>2
    <3>2. QED
      BY <1>1, <1>3, <1>8, <2>2, <3>1
  <2>3. QED
    BY <1>6, <2>1, <2>2
<1>9. QED
  BY <1>3, <1>7, <1>8 DEF filled, e, n

\* mic_pump reads a sample, and ships the frame that it fills behind all the
\* others, or drops it.
LEMMA PumpSampleShips ==
  ASSUME MicInv, PumpSample
  PROVE  MicInv'
<1> DEFINE filled == Append(acc, ring[read % RingTime])  n == Len(filled)
<1>f. PICK g : g = Frame(filled)
  OBVIOUS
<1>0. /\ MicTypeOK /\ Pumping /\ Captured /\ Filling /\ InOrder /\ pump = "drain" /\ micActive
      /\ RingTime \in Nat \ {0} /\ FrameSize \in Nat \ {0} /\ Slots \in Nat
  BY MicConstants DEF MicInv, PumpSample, Pumping
<1>1. /\ read' = read + 1 /\ unread' = unread - 1
      /\ pump' = IF unread = 1 THEN "out" ELSE "drain"
      /\ \/ acc' = filled /\ way' = way /\ n # FrameSize
         \/ acc' = << >> /\ way' = way
         \/ /\ acc' = << >> /\ n = FrameSize
            /\ Len(way) < Slots /\ way' = Append(way, g)
      /\ UNCHANGED <<linephone, out, now, takes, micActive, ring, pos, last, pumped, longest, seen,
                     session, accum, postPending, posted>>
  BY <1>f DEF PumpSample, ShipFrame, core1Vars
<1>2. /\ filled \in Seq(Sample) /\ n = Len(acc) + 1
      /\ \A i \in 1 .. n : filled[i].take = takes /\ filled[i].at <= now
      /\ ~Late => \A i \in 1 .. n : filled[i].at = (Base + 1) - n + i
  BY <1>0, FilledIs
<1> HIDE DEF filled, n
<1>3. /\ now \in Nat /\ takes \in Nat \ {0} /\ seen \in Nat /\ unread \in Nat \ {0} /\ seen <= now
      /\ pumped \in Nat /\ longest \in Nat /\ read \in Nat
      /\ way \in Seq(Packet \cup Note) /\ Len(way) \in Nat /\ Len(way) <= Slots
      /\ Len(acc) \in Nat /\ n \in Nat \ {0} /\ Base \in Int /\ Late \in BOOLEAN
  <2>1. way \in Seq(Packet \cup Note) /\ Len(way) \in Nat /\ Len(way) <= Slots
    BY <1>0, LenProperties DEF MicTypeOK
  <2>2. Len(acc) \in Nat /\ Base \in Int /\ Late \in BOOLEAN
    BY <1>0, SpokenIs
  <2>3. QED
    BY <1>0, <1>2, <2>1, <2>2 DEF MicTypeOK, Pumping
<1>4. Late' = Late /\ Base' = Base + 1
  BY <1>1, <1>3 DEF Late, Base
<1>5. << >> \in Seq(Sample) /\ Len(<< >>) = 0 /\ (acc' = << >> \/ acc' = filled)
  BY <1>1
<1>6. Pumping'
  <2>1. unread' \in Nat /\ (pump' = "drain" <=> unread' > 0) /\ pump' \in {"out", "drain"}
    BY <1>1, <1>3
  <2>2. /\ pumped <= now /\ pumped <= seen /\ now - pumped < PumpTime
        /\ (~Late => pumped - Base <= longest)
    BY <1>0 DEF Pumping
  <2>3. ~Late => pumped - (Base + 1) <= longest
    BY <1>3, <2>2
  <2>4. QED
    BY <1>0, <1>1, <1>3, <1>4, <2>1, <2>2, <2>3 DEF Pumping
<1>7. Captured'
  <2>1. /\ (read + unread) % RingTime = last /\ (last + (now - seen)) % RingTime = pos
        /\ \A d \in 1 .. RingTime : d <= (now - seen) + unread =>
             ring[(pos + RingTime - d) % RingTime] = [take |-> takes, at |-> now - d + 1]
    BY <1>0 DEF Captured
  <2>2. read' + unread' = read + unread
    BY <1>1, <1>3
  <2>3. \A d \in 1 .. RingTime : d <= (now - seen) + unread' => d <= (now - seen) + unread
    BY <1>0, <1>1, <1>3
  <2>4. QED
    BY <1>1, <2>1, <2>2, <2>3 DEF Captured
<1>8. Filling'
  <2>1. CASE acc' = << >>
    BY <1>5, <2>1 DEF Filling
  <2>2. CASE acc' = filled
    <3>1. /\ \A i \in 1 .. Len(acc') : acc'[i].take = takes /\ acc'[i].at <= now
          /\ ~Late => \A i \in 1 .. Len(acc') : acc'[i].at = (Base + 1) - Len(acc') + i
      BY <1>2, <2>2 DEF n
    <3>2. QED
      BY <1>1, <1>4, <3>1 DEF Filling
  <2>3. QED
    BY <1>5, <2>1, <2>2
<1>9. Spoken \in Int /\ Spoken' \in Int /\ Spoken <= Spoken'
  <2>1. Spoken \in Int /\ Spoken = IF ~Late THEN Base - Len(acc) ELSE now
    BY <1>0, SpokenIs DEF Spoken
  <2>2. Spoken' = IF ~Late THEN (Base + 1) - Len(acc') ELSE now
    <3>1. micActive' /\ now' = now
      BY <1>0, <1>1
    <3>2. Spoken' = IF ~Late' THEN Base' - Len(acc') ELSE now'
      BY <3>1 DEF Spoken
    <3>3. Base' - Len(acc') = (Base + 1) - Len(acc')
      BY <1>4
    <3>4. CASE Late
      BY <1>4, <3>1, <3>2, <3>4
    <3>5. CASE ~Late
      BY <1>4, <3>2, <3>3, <3>5
    <3>6. QED
      BY <3>4, <3>5
  <2>3. Len(acc') \in Nat /\ Len(acc') <= Len(acc) + 1
    BY <1>2, <1>3, <1>5 DEF n
  <2>4. QED
    BY <1>3, <2>1, <2>2, <2>3
<1>10. CASE way' = way
  <2>1. MicTypeOK'
    <3>1. read' \in Nat /\ unread' \in Nat
      BY <1>1, <1>3
    <3>2. acc' \in Seq(Sample) /\ micActive'
      BY <1>0, <1>1, <1>2, <1>5
    <3>3. QED
      BY <1>0, <1>1, <1>10, <3>1, <3>2 DEF MicTypeOK
  <2>2. InOrder'
    BY <1>1, <1>9, <1>10, NothingShipped
  <2>3. QED
    BY <1>6, <1>7, <1>8, <2>1, <2>2 DEF MicInv
<1>11. CASE acc' = << >> /\ n = FrameSize /\ Len(way) < Slots /\ way' = Append(way, g)
  <2>1. g \in Packet /\ g.late = Late /\ \A i \in 1 .. FrameSize : g.samples[i] = filled[i]
    <3>1. filled \in [1 .. FrameSize -> Sample]
      BY <1>2, <1>11, LenProperties DEF n
    <3>2. QED
      BY <1>3, <1>f, <3>1 DEF Frame, Packet
  <2>2. 1 \in 1 .. FrameSize /\ FrameSize \in 1 .. FrameSize
    BY <1>0
  <2>3. g.samples[1].at \in Int
    <3>1. filled[1] \in Sample
      BY <1>2, <1>11, <2>2, ElementOfSeq DEF n
    <3>2. QED
      BY <2>1, <2>2, <3>1 DEF Sample
  <2>4. MicTypeOK'
    <3>1. way' \in Seq(Packet \cup Note) /\ Len(way') = Len(way) + 1
      BY <1>3, <1>11, <2>1, AppendProperties
    <3>2. Len(way') <= Slots /\ read' \in Nat /\ unread' \in Nat
      BY <1>0, <1>1, <1>3, <1>11, <3>1
    <3>3. acc' \in Seq(Sample) /\ micActive'
      BY <1>0, <1>1, <1>5, <1>11
    <3>4. QED
      BY <1>0, <1>1, <3>1, <3>2, <3>3 DEF MicTypeOK
  <2>5. ASSUME NEW f \in Sent \cup Held \cup Queued PROVE Before(f, g) /\ Shipped(f)'
    <3>1. f \in Packet /\ Shipped(f)
      BY <1>0, FramesTyped DEF InOrder
    <3>2. f.samples[FrameSize].at \in Nat /\ f.samples[FrameSize].at <= Spoken
      BY <3>1, FrameEnds DEF Shipped
    <3>3. ASSUME ~Late PROVE f.samples[FrameSize].at < g.samples[1].at
      <4>1. Spoken = Base - Len(acc)
        BY <1>0, <3>3 DEF Spoken
      <4>2. g.samples[1].at = (Base + 1) - n + 1
        BY <1>2, <1>11, <2>1, <2>2, <3>3
      <4>3. QED
        BY <1>2, <1>3, <3>2, <4>1, <4>2
    <3>4. Shipped(f)'
      BY <1>9, StillShipped
    <3>5. QED
      BY <2>1, <3>3, <3>4 DEF Before
  <2>6. Shipped(g)'
    <3>1. \A i \in 1 .. FrameSize : g.samples[i].take = takes /\ g.samples[i].at <= now
      BY <1>2, <1>11, <2>1
    <3>2. ASSUME ~Late, NEW i \in 1 .. FrameSize
          PROVE  g.samples[i].at = g.samples[1].at + i - 1
      <4>1. g.samples[i].at = (Base + 1) - n + i /\ g.samples[1].at = (Base + 1) - n + 1
        BY <1>2, <1>11, <2>1, <2>2, <3>2
      <4>2. QED
        BY <1>3, <4>1
    <3>3. Consecutive(g)
      <4>1. takes > 0
        BY <1>3
      <4>2. QED
        BY <2>1, <2>2, <3>1, <3>2, <4>1 DEF Consecutive
    <3>4. g.samples[FrameSize].at <= Spoken'
      <4>1. CASE ~Late
        <5>1. Spoken' = Base + 1
          <6>1. Spoken' = (Base + 1) - 0
            BY <1>0, <1>1, <1>4, <1>5, <1>11, <4>1 DEF Spoken
          <6>2. QED
            BY <1>3, <6>1
        <5>2. g.samples[FrameSize].at = (Base + 1) - n + FrameSize
          BY <1>2, <1>11, <2>1, <2>2, <4>1
        <5>3. QED
          BY <1>0, <1>3, <1>11, <5>1, <5>2
      <4>2. CASE Late
        <5>1. Spoken' = now
          BY <1>1, <1>4, <4>2 DEF Spoken
        <5>2. QED
          BY <2>2, <3>1, <5>1
      <4>3. QED
        BY <4>1, <4>2
    <3>5. Consecutive(g)'
      BY <3>3 DEF Consecutive
    <3>6. QED
      BY <3>4, <3>5 DEF Shipped
  <2>7. Ordered(way)' /\ Queued' = Queued \cup {g}
    <3>1. \A f \in Elements(way) \cap Packet : Before(f, g)
      BY <2>5 DEF Queued
    <3>2. Ordered(way) /\ g \in Packet \cup Note
      BY <1>0, <2>1 DEF InOrder
    <3>3. Elements(Append(way, g)) = Elements(way) \cup {g} /\ Ordered(Append(way, g))
      BY <1>3, <3>1, <3>2, Appended
    <3>4. Ordered(way)' /\ Elements(way)' = Elements(way) \cup {g}
      BY <1>11, <3>3 DEF Ordered, Before, Elements
    <3>5. Queued' = Elements(way)' \cap Packet
      BY DEF Queued
    <3>6. QED
      BY <2>1, <3>4, <3>5 DEF Queued
  <2>8. InOrder'
    <3>1. Sent' = Sent /\ Held' = Held
      BY <1>1 DEF Sent, Held, Elements
    <3>2. /\ \A f \in Sent, h \in Held \cup Queued : Before(f, h)
          /\ \A f \in Held, h \in Queued : Before(f, h)
          /\ Ordered(accum) /\ PostsOrdered
      BY <1>0 DEF InOrder
    <3>3. \A f \in Sent', h \in Held' \cup Queued' : Before(f, h)
      BY <2>5, <2>7, <3>1, <3>2
    <3>4. \A f \in Held', h \in Queued' : Before(f, h)
      BY <2>5, <2>7, <3>1, <3>2
    <3>5. \A f \in Sent' \cup Held' \cup Queued' : Shipped(f)'
      BY <2>5, <2>6, <2>7, <3>1
    <3>6. Ordered(accum)' /\ PostsOrdered'
      BY <1>1, <3>2 DEF Ordered, PostsOrdered, Before
    <3>7. QED
      BY <2>7, <3>3, <3>4, <3>5, <3>6 DEF InOrder, Before
  <2>9. QED
    BY <1>6, <1>7, <1>8, <2>4, <2>8 DEF MicInv
<1>12. QED
  BY <1>1, <1>10, <1>11

\* Core 1 appends a frame to the accumulator, behind those it holds and before
\* those still on the way, or drops it; or it empties the accumulator.
LEMMA HandleShips ==
  ASSUME MicInv, Handle
  PROVE  MicInv'
<1> DEFINE m == Head(way)
<1>0. /\ MicTypeOK /\ Pumping /\ Captured /\ Filling /\ InOrder
  BY DEF MicInv
<1>1. /\ way # << >> /\ way' = Tail(way)
      /\ accum' = << >> \/ accum' = accum \/ (m.msg = "PKT" /\ accum' = Append(accum, m))
      /\ UNCHANGED <<linephone, out, now, takes, micActive, ring, pos, last, read, pumped,
                     longest, pump, unread, seen, acc, posted>>
  BY DEF Handle, captureVars, pumpVars
<1>2. way \in Seq(Packet \cup Note) /\ accum \in Seq(Packet) /\ Ordered(way) /\ Ordered(accum)
      /\ Slots \in Nat /\ Len(way) \in Nat /\ Len(way) <= Slots
  BY <1>0, MicConstants, LenProperties DEF MicTypeOK, InOrder
<1>3. /\ m \in Elements(way) /\ Elements(Tail(way)) \subseteq Elements(way) /\ Ordered(Tail(way))
      /\ Tail(way) \in Seq(Packet \cup Note) /\ m \in Packet \cup Note
      /\ Len(Tail(way)) = Len(way) - 1
      /\ m \in Packet => \A g \in Elements(Tail(way)) \cap Packet : Before(m, g)
  BY <1>1, <1>2, Taken
<1>4. m.msg = "PKT" => m \in Packet
  BY <1>3 DEF Note
<1> HIDE DEF m
<1>5. Queued' = Elements(Tail(way)) \cap Packet /\ Queued' \subseteq Queued /\ Sent' = Sent
      /\ (m \in Packet => m \in Queued)
  BY <1>1, <1>3 DEF Queued, Sent, Elements
<1>6. /\ accum' \in Seq(Packet) /\ Ordered(accum)'
      /\ Held' = {} \/ Held' = Held \/ (m \in Packet /\ Held' = Held \cup {m})
  <2>1. CASE accum' = << >>
    <3>1. Held' = {} /\ Ordered(accum)'
      BY <2>1 DEF Held, Elements, Ordered
    <3>2. QED
      BY <2>1, <3>1
  <2>2. CASE accum' = accum
    BY <1>2, <2>2 DEF Held, Elements, Ordered, Before
  <2>3. CASE m.msg = "PKT" /\ accum' = Append(accum, m)
    <3>1. m \in Packet
      BY <1>4, <2>3
    <3>2. \A f \in Held : Before(f, m)
      BY <1>0, <1>5, <3>1 DEF InOrder
    <3>3. \A f \in Elements(accum) \cap Packet : Before(f, m)
      BY <3>2 DEF Held
    <3>4. Elements(Append(accum, m)) = Elements(accum) \cup {m} /\ Ordered(Append(accum, m))
      BY <1>2, <3>1, <3>3, Appended
    <3>5. Append(accum, m) \in Seq(Packet)
      BY <1>2, <3>1, AppendProperties
    <3>6. QED
      BY <2>3, <3>1, <3>4, <3>5 DEF Held, Elements, Ordered, Before
  <2>4. QED
    BY <1>1, <2>1, <2>2, <2>3
<1>7. MicTypeOK'
  <2>1. Len(way') <= Slots
    BY <1>1, <1>2, <1>3
  <2>2. QED
    BY <1>0, <1>1, <1>3, <1>6, <2>1 DEF MicTypeOK
<1>8. Pumping' /\ Captured' /\ Filling'
  BY <1>0, <1>1 DEF Pumping, Captured, Filling, Base, Late
<1>9. InOrder'
  <2>1. /\ \A f \in Sent, g \in Held \cup Queued : Before(f, g)
        /\ \A f \in Held, g \in Queued : Before(f, g)
        /\ \A f \in Sent \cup Held \cup Queued : Shipped(f)
        /\ PostsOrdered
    BY <1>0 DEF InOrder
  <2>2. \A g \in Queued' : m \in Packet => Before(m, g)
    BY <1>3, <1>5
  <2>3. \A f \in Sent', g \in Held' \cup Queued' : Before(f, g)
    BY <1>5, <1>6, <2>1
  <2>4. \A f \in Held', g \in Queued' : Before(f, g)
    BY <1>5, <1>6, <2>1, <2>2
  <2>5. Ordered(way)' /\ PostsOrdered'
    BY <1>1, <1>3, <2>1 DEF Ordered, PostsOrdered, Before
  <2>6. \A f \in Sent' \cup Held' \cup Queued' : Shipped(f)
    BY <1>5, <1>6, <2>1
  <2>7. \A f : Shipped(f) => Shipped(f)'
    BY <1>1 DEF Shipped, Consecutive, Spoken, Base, Late
  <2>8. QED
    BY <1>6, <2>3, <2>4, <2>5, <2>6, <2>7 DEF InOrder, Before
<1>10. QED
  BY <1>7, <1>8, <1>9 DEF MicInv

\* A POST carries what the accumulator held, or fails and leaves it there.
LEMMA PostShips ==
  ASSUME MicInv, Post
  PROVE  MicInv'
<1> DEFINE n == Len(posted)
<1>0. MicTypeOK /\ Pumping /\ Captured /\ Filling /\ InOrder
  BY DEF MicInv
<1>1. /\ \/ posted' = Append(posted, accum) /\ accum' = << >>
         \/ UNCHANGED <<posted, accum>>
      /\ UNCHANGED <<linephone, out, now, takes, micActive, ring, pos, last, read, pumped,
                     longest, pump, unread, seen, acc, way>>
  BY DEF Post, captureVars, pumpVars
<1>2. CASE UNCHANGED <<posted, accum>>
  <2>1. MicTypeOK' /\ Pumping' /\ Captured' /\ Filling'
    BY <1>0, <1>1, <1>2 DEF MicTypeOK, Pumping, Captured, Filling, Base, Late
  <2>2. Spoken' \in Int /\ Spoken <= Spoken'
    BY <1>0, <1>1, SpokenIs DEF Spoken, Base, Late
  <2>3. InOrder'
    BY <1>1, <1>2, <2>2, NothingShipped
  <2>4. QED
    BY <2>1, <2>3 DEF MicInv
<1>3. CASE posted' = Append(posted, accum) /\ accum' = << >>
  <2>1. posted \in Seq(Seq(Packet)) /\ accum \in Seq(Packet)
    BY <1>0 DEF MicTypeOK
  <2>2. /\ posted' \in Seq(Seq(Packet)) /\ Len(posted') = n + 1 /\ n \in Nat
        /\ \A p \in 1 .. n : posted'[p] = posted[p]
        /\ posted'[n + 1] = accum
    BY <1>3, <2>1, AppendProperties, LenProperties
  <2> HIDE DEF n
  <2>3. MicTypeOK'
    <3>1. accum' \in Seq(Packet)
      BY <1>3
    <3>2. QED
      BY <1>0, <1>1, <2>2, <3>1 DEF MicTypeOK
  <2>4. Pumping' /\ Captured' /\ Filling'
    BY <1>0, <1>1 DEF Pumping, Captured, Filling, Base, Late
  <2>5. \A p \in 1 .. n + 1 : p \in 1 .. n \/ p = n + 1
    BY <2>2
  <2>6. Sent' = Sent \cup Held /\ Held' = {} /\ Queued' = Queued
    <3>1. Sent' = UNION {Elements(posted'[p]) : p \in 1 .. n + 1}
      BY <2>2 DEF Sent, Elements
    <3>2. \A p \in 1 .. n : p \in 1 .. n + 1 /\ Elements(posted'[p]) = Elements(posted[p])
      BY <2>2
    <3>3. n + 1 \in 1 .. n + 1 /\ Elements(posted'[n + 1]) = Held
      BY <2>2 DEF Held
    <3>4. Sent = UNION {Elements(posted[p]) : p \in 1 .. n}
      BY DEF Sent, n
    <3>5. ASSUME NEW f \in Sent' PROVE f \in Sent \cup Held
      <4>1. PICK p \in 1 .. n + 1 : f \in Elements(posted'[p])
        BY <3>1
      <4>2. QED
        BY <2>5, <3>2, <3>3, <3>4, <4>1
    <3>6. ASSUME NEW f \in Sent \cup Held PROVE f \in Sent'
      <4>1. CASE f \in Sent
        <5>1. PICK p \in 1 .. n : f \in Elements(posted[p])
          BY <3>4, <4>1
        <5>2. QED
          BY <3>1, <3>2, <5>1
      <4>2. CASE f \in Held
        BY <3>1, <3>3, <4>2
      <4>3. QED
        BY <3>6, <4>1, <4>2
    <3>7. Held' = {} /\ Queued' = Queued
      BY <1>1, <1>3 DEF Held, Queued, Elements
    <3>8. QED
      BY <3>5, <3>6, <3>7
  <2>7. /\ \A f \in Sent, g \in Held \cup Queued : Before(f, g)
        /\ \A f \in Held, g \in Queued : Before(f, g)
        /\ \A f \in Sent \cup Held \cup Queued : Shipped(f)
        /\ PostsOrdered /\ Ordered(accum) /\ Ordered(way)
    BY <1>0 DEF InOrder
  <2>8. ASSUME NEW p \in 1 .. n + 1, NEW q \in 1 .. n + 1,
               NEW i \in 1 .. Len(posted'[p]), NEW j \in 1 .. Len(posted'[q]),
               p < q \/ (p = q /\ i < j)
        PROVE  Before(posted'[p][i], posted'[q][j])
    <3>1. CASE q \in 1 .. n
      <4>1. p \in 1 .. n
        BY <2>2, <2>8, <3>1
      <4>2. posted'[p] = posted[p] /\ posted'[q] = posted[q]
        BY <2>2, <3>1, <4>1
      <4>3. QED
        BY <2>7, <2>8, <3>1, <4>1, <4>2 DEF PostsOrdered, n
    <3>2. CASE q = n + 1
      <4>1. posted'[q] = accum /\ posted'[q][j] \in Held /\ posted'[q][j] = accum[j]
            /\ j \in 1 .. Len(accum)
        BY <2>2, <3>2 DEF Held, Elements
      <4>2. CASE p \in 1 .. n
        <5>1. posted'[p][i] \in Sent
          <6>1. posted'[p] = posted[p] /\ i \in 1 .. Len(posted[p])
            BY <2>2, <4>2
          <6>2. posted[p][i] \in Elements(posted[p])
            BY <6>1 DEF Elements
          <6>3. posted[p][i] \in Sent
            BY <4>2, <6>2 DEF Sent, n
          <6>4. QED
            BY <6>1, <6>3
        <5>2. QED
          BY <2>7, <4>1, <5>1
      <4>3. CASE p = n + 1
        <5>1. i < j /\ posted'[p][i] = accum[i] /\ i \in 1 .. Len(accum)
          BY <2>2, <2>8, <3>2, <4>3
        <5>2. accum[i] \in Packet /\ accum[j] \in Packet
          BY <2>1, <4>1, <5>1, ElementOfSeq
        <5>3. QED
          BY <2>7, <4>1, <5>1, <5>2 DEF Ordered
      <4>4. QED
        BY <2>5, <4>2, <4>3
    <3>3. QED
      BY <2>5, <3>1, <3>2
  <2>9. PostsOrdered'
    BY <2>2, <2>8 DEF PostsOrdered, Before
  <2>10. Ordered(accum)' /\ Ordered(way)'
    BY <1>1, <1>3, <2>7 DEF Ordered, Before
  <2>11. \A f : Shipped(f) => Shipped(f)'
    BY <1>1 DEF Shipped, Consecutive, Spoken, Base, Late
  <2>12. InOrder'
    <3>1. \A f \in Sent', g \in Held' \cup Queued' : Before(f, g)
      BY <2>6, <2>7
    <3>2. \A f \in Held', g \in Queued' : Before(f, g)
      BY <2>6
    <3>3. \A f \in Sent' \cup Held' \cup Queued' : Shipped(f)
      BY <2>6, <2>7
    <3>4. QED
      BY <2>9, <2>10, <2>11, <3>1, <3>2, <3>3 DEF InOrder, Before
  <2>13. QED
    BY <2>3, <2>4, <2>12 DEF MicInv
<1>4. QED
  BY <1>1, <1>2, <1>3

\* Nothing is captured and nothing on the way when the program starts.
LEMMA MicInitInvariant == MicInit => MicInv
<1> SUFFICES ASSUME MicInit PROVE MicInv
  OBVIOUS
<1>0. RingTime \in Nat \ {0} /\ Slots \in Nat \ {0}
  BY MicConstants
<1>1. /\ acc = << >> /\ way = << >> /\ accum = << >> /\ posted = << >>
      /\ Len(<< >>) = 0 /\ << >> \in Seq(Sample) /\ << >> \in Seq(Packet)
      /\ << >> \in Seq(Packet \cup Note) /\ << >> \in Seq(Seq(Packet))
  BY DEF MicInit
<1>2. ring \in [0 .. RingTime - 1 -> Sample]
  <2>1. NoSample \in Sample
    BY DEF NoSample, Sample
  <2>2. QED
    BY <2>1 DEF MicInit
<1>3. MicTypeOK
  <2>1. 0 \in 0 .. RingTime - 1 /\ 0 \in Nat /\ 0 <= 0 /\ 0 <= Slots
    BY <1>0
  <2>2. /\ linephone = FALSE /\ out = "none" /\ now = 0 /\ takes = 0 /\ micActive = FALSE
        /\ pos = 0 /\ last = 0 /\ read = 0 /\ pumped = 0 /\ longest = 0 /\ unread = 0 /\ seen = 0
    BY DEF MicInit
  <2>3. Len(way) <= Slots
    BY <1>1, <2>1
  <2>4. acc \in Seq(Sample) /\ way \in Seq(Packet \cup Note) /\ accum \in Seq(Packet)
        /\ posted \in Seq(Seq(Packet))
    BY <1>1
  <2>5. QED
    BY <1>1, <1>2, <2>1, <2>2, <2>3, <2>4 DEF MicTypeOK
<1>4. Captured /\ Pumping
  BY DEF MicInit, Captured, Pumping
<1>5. Filling
  BY <1>1 DEF Filling
<1>6. Sent = {} /\ Held = {} /\ Queued = {}
  BY <1>1 DEF Sent, Held, Queued, Elements
<1>7. Ordered(accum) /\ Ordered(way) /\ PostsOrdered
  BY <1>1 DEF Ordered, PostsOrdered
<1>8. InOrder
  BY <1>6, <1>7 DEF InOrder
<1>9. QED
  BY <1>3, <1>4, <1>5, <1>8 DEF MicInv

\* Every step of the program keeps the invariant.
LEMMA MicStepInvariant ==
  ASSUME MicInv, [MicNext]_micVars
  PROVE  MicInv'
<1>1. CASE UNCHANGED micVars
  <2>1. UNCHANGED <<out, now, takes, micActive, ring, pos, last, read, pumped, longest, pump,
                    unread, seen, acc, way, accum, posted>>
    BY <1>1 DEF micVars, pumpVars
  <2>2. MicTypeOK' /\ Pumping' /\ Captured' /\ Filling'
    BY <2>1 DEF MicInv, MicTypeOK, Pumping, Captured, Filling, Base, Late
  <2>3. Spoken' \in Int /\ Spoken <= Spoken'
    <3>1. Spoken' = Spoken
      BY <2>1 DEF Spoken, Base, Late
    <3>2. QED
      BY <3>1, SpokenIs DEF MicInv
  <2>4. InOrder'
    BY <2>1, <2>3, NothingShipped
  <2>5. QED
    BY <2>2, <2>4 DEF MicInv
<1>2. QED
  BY <1>1, SendShips, ButtonsShip, CaptureShips, PumpClockShips, PumpPositionShips,
  PumpSampleShips, HandleShips, PostShips DEF MicNext

\* What the invariant says of the frames POSTed.
LEMMA MicInvSpeech ==
  ASSUME MicInv
  PROVE  SpeechInOrder
<1>0. MicTypeOK /\ InOrder /\ FrameSize \in Nat \ {0}
  BY MicConstants DEF MicInv
<1>1. /\ Len(posted) \in Nat /\ DOMAIN posted = 1 .. Len(posted)
      /\ \A p \in 1 .. Len(posted) : DOMAIN posted[p] = 1 .. Len(posted[p])
      /\ DOMAIN accum = 1 .. Len(accum)
  <2>1. posted \in Seq(Seq(Packet)) /\ accum \in Seq(Packet)
    BY <1>0 DEF MicTypeOK
  <2>2. QED
    BY <2>1, ElementsTyped
<1>2. Frames = Held \cup Sent
  BY <1>1 DEF Frames, Held, Sent, Elements
<1>3. InOnePiece
  <2>1. \A f \in Frames : Consecutive(f)
    BY <1>0, <1>2 DEF InOrder, Shipped
  <2>2. QED
    BY <2>1 DEF InOnePiece, Consecutive
<1>4. \A p, q \in DOMAIN posted : \A i \in DOMAIN posted[p], j \in DOMAIN posted[q] :
        (p < q \/ (p = q /\ i < j)) =>
          \/ posted[q][j].late
          \/ posted[p][i].samples[FrameSize].at < posted[q][j].samples[1].at
  BY <1>0, <1>1 DEF InOrder, PostsOrdered, Before
<1>5. QED
  BY <1>3, <1>4 DEF SpeechInOrder

\* Speech is sent at most once, in the order it was spoken, over all POSTs, and
\* without a hole within a frame (mic.c mic_pump, linephone.c lp_accum_append and
\* lp_kick_post), unless the longest gap between two pumps and a call of it exceed
\* the ring, for every ring, frame and accumulator.
THEOREM SpeechStaysInOrder == MicSpec => []SpeechInOrder
<1>1. MicInit => MicInv
  BY MicInitInvariant
<1>2. MicInv /\ [MicNext]_micVars => MicInv'
  BY MicStepInvariant
<1>3. MicInv => SpeechInOrder
  BY MicInvSpeech
<1>4. QED
  BY <1>1, <1>2, <1>3, PTL DEF MicSpec
==============================================================================

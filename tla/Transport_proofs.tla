---------------------------- MODULE Transport_proofs ---------------------------
(***************************************************************************)
(* The parts below a session, for every value of their constants: consent  *)
(* (Keepalive), connectivity checks (IceAgent), the sockets of the RP2040  *)
(* port (UdpFifo, TcpRx, TcpSocket), and H.264 over RTP (H264Rtp).         *)
(***************************************************************************)
EXTENDS Keepalive, IceAgent, UdpFifo, TcpRx, TcpSocket, H264Rtp, SequenceTheorems,
        ModularLemmas, TLAPS

(***************************************************************************)
(* Consent.  For every tuning that satisfies Tuned, every loop period,     *)
(* round trip and handshake time, one lost consent check never closes the  *)
(* connection of a live peer, and a silent peer is always noticed.  The    *)
(* argument is KeepaliveInv, which dates the last refresh by the fate of   *)
(* the latest check.                                                       *)
(***************************************************************************)

\* Before the wrap the clock is true time.
LEMMA ClockIsTime ==
  ASSUME NoClockWrap, NEW t \in 0 .. Horizon
  PROVE  Clock(t) = StartClock + t
<1>1. StartClock + t \in 0 .. ClockModulus - 1
  BY KeepaliveAssumption DEF NoClockWrap
<1> QED BY <1>1, ModSmall, KeepaliveAssumption DEF Clock

\* ... and the 64-bit difference to an earlier time is the true difference.
LEMMA ElapsedIsTime ==
  ASSUME NoClockWrap, now \in 0 .. Horizon, NEW b \in 0 .. StartClock + now
  PROVE  /\ (Clock(now) - b) % WideModulus = StartClock + now - b
         /\ Elapsed(b) = StartClock + now - b
<1>1. Clock(now) = StartClock + now
  BY ClockIsTime
<1>2. StartClock + now - b \in 0 .. WideModulus - 1
  BY KeepaliveAssumption DEF NoClockWrap
<1> QED BY <1>1, <1>2, ModSmall, KeepaliveAssumption DEF Elapsed

\* It holds when ICE has just succeeded.
LEMMA KeepaliveInvInitially == Tuned /\ KeepaliveInit => KeepaliveInv
BY KeepaliveAssumption
   DEF Tuned, KeepaliveInit, KeepaliveInv, KeepaliveTypeOK, Paced, Fresh, Phases, Fates, Longer, FirstCheckBy

\* Every step of the clock, the loop and the network keeps it.
LEMMA KeepaliveStep ==
  ASSUME Tuned, NoClockWrap, KeepaliveInv, [KeepaliveNext]_keepaliveVars
  PROVE  KeepaliveInv'
<1> USE KeepaliveAssumption
<1>0. FirstCheckBy \in Nat /\ FirstCheckBy >= Interval + LoopPeriod
      /\ Longer(Interval, MaxHandshake) \in Nat
      /\ FirstCheckBy = Longer(Interval, MaxHandshake) + LoopPeriod
      /\ Longer(Interval, MaxHandshake) >= Interval
      /\ Longer(Interval, MaxHandshake) >= MaxHandshake
  BY DEF FirstCheckBy, Longer
<1>t. Timeout >= FirstCheckBy + (Interval + LoopPeriod) + Rtt
  BY DEF Tuned
<1>c. Clock(now) = StartClock + now
  BY ClockIsTime DEF KeepaliveInv, KeepaliveTypeOK
<1>e. Elapsed(consentAt) = StartClock + now - consentAt
  BY ElapsedIsTime DEF KeepaliveInv, KeepaliveTypeOK
<1>1. CASE HandshakeRequest
  BY <1>1, <1>c, <1>0 DEF HandshakeRequest, KeepaliveInv, KeepaliveTypeOK, Paced, Fresh, Phases, Fates
<1>2. CASE HandshakeDone
  BY <1>2, <1>0, <1>t DEF HandshakeDone, KeepaliveInv, KeepaliveTypeOK, Paced, Fresh, Phases, Fates
<1>3. CASE Serve
  <2>1. PICK read \in Reads :
          /\ ConsentStep(read)
          /\ bindingAt' = BindingAfter(read)
          /\ phase' = IF KeepaliveExpired(bindingAt') THEN "CLOSED" ELSE phase
    BY <1>3 DEF Serve
  <2>2. UNCHANGED <<now, alive>> /\ lastLoop' = now /\ phase = "COMPLETED"
    BY <1>3 DEF Serve
  <2>3. bindingAt' \in StartClock .. StartClock + now
    BY <2>1, <1>c DEF BindingAfter, KeepaliveInv, KeepaliveTypeOK
  <2>4. KeepaliveExpired(bindingAt') <=> StartClock + now - bindingAt' > Timeout
    <3>1. bindingAt' \in 0 .. StartClock + now
      BY <2>3 DEF KeepaliveInv, KeepaliveTypeOK
    <3>2. (Clock(now) - bindingAt') % WideModulus = StartClock + now - bindingAt'
      BY <3>1, ElapsedIsTime DEF KeepaliveInv, KeepaliveTypeOK
    <3> QED BY <3>2 DEF KeepaliveExpired
  <2>5. CASE StartClock + now - consentAt > Interval
    <3>1. consentAt' = StartClock + now /\ check' \in FatesOfNewCheck
      BY <2>1, <2>5, <1>e, <1>c DEF ConsentStep, CheckDue
    <3>2. StartClock + now - consentAt <= Interval + LoopPeriod \/ check = "none"
      BY <2>2 DEF KeepaliveInv, KeepaliveTypeOK, Paced
    <3>3. bindingAt' >= bindingAt
      BY <2>1, <1>c DEF BindingAfter, KeepaliveInv, KeepaliveTypeOK
    <3>4. alive => check # "inflight"
      BY <2>5, <1>0 DEF KeepaliveInv, KeepaliveTypeOK, Fresh
    <3>5. alive /\ check = "arrived" => bindingAt' = StartClock + now
      BY <2>1, <1>c DEF Reads, BindingAfter
    <3>6. alive => /\ bindingAt' >= StartClock + now - FirstCheckBy - (Interval + LoopPeriod)
                   /\ check # "lost" => bindingAt' >= StartClock + now - FirstCheckBy
      BY <3>2, <3>3, <3>4, <3>5, <2>2, <2>3, <1>0 DEF KeepaliveInv, KeepaliveTypeOK, Paced, Fresh, Fates
    <3>7. alive => phase' = "COMPLETED"
      BY <3>6, <2>1, <2>2, <2>3, <2>4, <1>0, <1>t DEF KeepaliveInv, KeepaliveTypeOK
    <3>8. check' \in Fates \ {"none", "arrived", "answered"}
      BY <3>1 DEF FatesOfNewCheck, Fates
    <3>9. KeepaliveTypeOK'
      BY <3>1, <3>8, <2>1, <2>2, <2>3 DEF KeepaliveInv, KeepaliveTypeOK, Fates, Phases
    <3>10. Paced'
      BY <3>1, <3>8, <2>1, <2>2, <2>3, <2>4 DEF KeepaliveInv, KeepaliveTypeOK, Paced
    <3>11. Fresh'
      BY <3>1, <3>6, <3>7, <3>8, <2>2, <2>3, <1>0 DEF KeepaliveInv, KeepaliveTypeOK, Fresh, FatesOfNewCheck
    <3> QED BY <3>9, <3>10, <3>11 DEF KeepaliveInv
  <2>6. CASE ~(StartClock + now - consentAt > Interval)
    <3>1. consentAt' = consentAt
          /\ check' = IF read = "answer" THEN "answered" ELSE check
      BY <2>1, <2>6, <1>e DEF ConsentStep, CheckDue
    <3>2. bindingAt' = bindingAt \/ bindingAt' = StartClock + now
      BY <2>1, <1>c DEF BindingAfter
    <3>3. read = "answer" => check = "arrived" /\ bindingAt' = StartClock + now
      BY <2>1, <1>c DEF Reads, BindingAfter
    <3>4. check = "arrived" => bindingAt' = StartClock + now
      BY <2>1, <1>c DEF Reads, BindingAfter
    <3>n. /\ now \in Int /\ StartClock \in Int /\ consentAt \in Int
          /\ bindingAt \in Int /\ bindingAt >= StartClock
      BY DEF KeepaliveInv, KeepaliveTypeOK
    <3>5. check = "none" => now <= Longer(Interval, MaxHandshake)
      <4>1. check = "none" => consentAt <= StartClock
        BY DEF KeepaliveInv, Paced
      <4> QED BY <4>1, <3>n, <2>6, <1>0
    <3>6. alive => StartClock + now - bindingAt' <= Timeout
      <4> SUFFICES ASSUME alive, bindingAt' = bindingAt
                   PROVE  StartClock + now - bindingAt <= Timeout
        BY <3>2, <3>n
      <4>1. CASE check = "none"
        BY <4>1, <3>5, <3>n, <1>0, <1>t
      <4>2. CASE check = "lost"
        <5>1. bindingAt >= consentAt - FirstCheckBy
          BY <4>2 DEF KeepaliveInv, Fresh
        <5> QED BY <5>1, <3>n, <2>6, <1>0, <1>t
      <4>3. CASE check = "inflight"
        <5>1. /\ bindingAt >= consentAt - FirstCheckBy - (Interval + LoopPeriod)
              /\ StartClock + now <= consentAt + Rtt
          BY <4>3 DEF KeepaliveInv, Fresh
        <5> QED BY <5>1, <3>n, <1>0, <1>t
      <4>4. CASE check = "arrived"
        BY <4>4, <3>4, <3>n
      <4>5. CASE check = "answered"
        <5>1. bindingAt >= consentAt
          BY <4>5 DEF KeepaliveInv, Fresh
        <5> QED BY <5>1, <3>n, <2>6, <1>0, <1>t
      <4> QED BY <4>1, <4>2, <4>3, <4>4, <4>5 DEF KeepaliveInv, KeepaliveTypeOK, Fates
    <3>7. alive => phase' = "COMPLETED"
      BY <3>6, <3>n, <2>1, <2>2, <2>3, <2>4
    <3>8. KeepaliveTypeOK'
      BY <3>1, <2>1, <2>2, <2>3 DEF KeepaliveInv, KeepaliveTypeOK, Fates, Phases
    <3>9. Paced'
      <4>1. phase' = "COMPLETED" => StartClock + now - bindingAt' <= Timeout
        BY <3>n, <2>1, <2>3, <2>4
      <4>2. check' = "none" => check = "none"
        BY <3>1
      <4>3. check = "none" => consentAt <= StartClock
        BY DEF KeepaliveInv, Paced
      <4> QED BY <4>1, <4>2, <4>3, <3>1, <3>n, <3>5, <2>1, <2>2, <2>3, <2>6, <1>0
              DEF Paced, KeepaliveInv, KeepaliveTypeOK
    <3>10. Fresh'
      BY <3>1, <3>2, <3>3, <3>7, <2>2, <2>3, <1>0 DEF KeepaliveInv, KeepaliveTypeOK, Fresh, Fates
    <3> QED BY <3>8, <3>9, <3>10 DEF KeepaliveInv
  <2> QED BY <2>5, <2>6
<1>4. CASE AnswerArrives
  BY <1>4, <1>0 DEF AnswerArrives, KeepaliveInv, KeepaliveTypeOK, Paced, Fresh, Phases, Fates
<1>5. CASE PeerFallsSilent
  BY <1>5, <1>0 DEF PeerFallsSilent, KeepaliveInv, KeepaliveTypeOK, Paced, Fresh, Phases, Fates
<1>6. CASE Tick
  BY <1>6, <1>0, <1>e DEF Tick, KeepaliveInv, KeepaliveTypeOK, Paced, Fresh, Phases, Fates
<1>7. CASE UNCHANGED keepaliveVars
  BY <1>7 DEF keepaliveVars, KeepaliveInv, KeepaliveTypeOK, Paced, Fresh
<1> QED BY <1>1, <1>2, <1>3, <1>4, <1>5, <1>6, <1>7 DEF KeepaliveNext

\* The bookkeeping of consent checks and keepalive (peer_connection.c
\* 328-379) stays within the bounds that Tuned adds up.
THEOREM KeepaliveInvariant == Tuned /\ NoClockWrap => (KeepaliveSpec => []KeepaliveInv)
<1> SUFFICES ASSUME Tuned, NoClockWrap PROVE KeepaliveSpec => []KeepaliveInv
  OBVIOUS
<1>1. KeepaliveInit => KeepaliveInv BY KeepaliveInvInitially
<1>2. KeepaliveInv /\ [KeepaliveNext]_keepaliveVars => KeepaliveInv' BY KeepaliveStep
<1> QED BY <1>1, <1>2, PTL DEF KeepaliveSpec

\* A live peer whose checks are not lost twice in a row is never given up
\* (peer_connection.c:374-377, config.h:70-72).
THEOREM LivePeerKept == Tuned /\ NoClockWrap => (KeepaliveSpec => []ClosedOnlyWhenSilent)
<1> SUFFICES ASSUME Tuned, NoClockWrap PROVE KeepaliveSpec => []ClosedOnlyWhenSilent
  OBVIOUS
<1>1. KeepaliveSpec => []KeepaliveInv BY KeepaliveInvariant
<1>2. KeepaliveInv => ClosedOnlyWhenSilent
  BY DEF KeepaliveInv, Fresh, ClosedOnlyWhenSilent
<1> QED BY <1>1, <1>2, PTL

\* A silent peer never keeps a COMPLETED connection for longer than the
\* timeout and one loop period (peer_connection.c:374-377).
THEOREM SilentPeerNoticed == Tuned /\ NoClockWrap => (KeepaliveSpec => []SilenceNoticed)
<1> SUFFICES ASSUME Tuned, NoClockWrap PROVE KeepaliveSpec => []SilenceNoticed
  OBVIOUS
<1>1. KeepaliveSpec => []KeepaliveInv BY KeepaliveInvariant
<1>2. KeepaliveInv => SilenceNoticed
  <2> SUFFICES ASSUME KeepaliveInv, phase = "COMPLETED"
               PROVE  Elapsed(bindingAt) <= Timeout + LoopPeriod
    BY DEF SilenceNoticed
  <2>1. Elapsed(bindingAt) = StartClock + now - bindingAt
    BY ElapsedIsTime, KeepaliveAssumption DEF KeepaliveInv, KeepaliveTypeOK
  <2> QED BY <2>1, KeepaliveAssumption DEF KeepaliveInv, KeepaliveTypeOK, Paced
<1> QED BY <1>1, <1>2, PTL

-----------------------------------------------------------------------------
(***************************************************************************)
(* Connectivity checks.  For any number of pairs and any budget, pairs are *)
(* tried strictly in order and none is given up before its whole budget of *)
(* binding requests went out.                                              *)
(***************************************************************************)

\* The counter divided by the period is a number of requests.
LEMMA SentBelowNat == ASSUME NEW m \in Nat PROVE SentBelow(m) \in Nat
<1> DEFINE x == m + ConncheckPeriod - 1
<1>1. x \in Int /\ 0 <= x /\ ConncheckPeriod \in Nat \ {0}
  BY IceAssumption
<1>2. 0 = ConncheckPeriod * 0 + 0 /\ 0 \in 0 .. ConncheckPeriod - 1
  BY <1>1
<1>3. 0 \div ConncheckPeriod = 0
  BY <1>1, <1>2, DivIs
<1> HIDE DEF x
<1>4. 0 <= x \div ConncheckPeriod /\ x \div ConncheckPeriod \in Int
  BY <1>1, <1>3, DivMonotonic, DivMod
<1> QED BY <1>4 DEF SentBelow, x

\* With more requests sent the counter has come no less far.
LEMMA SentBelowMonotonic ==
  ASSUME NEW m \in Nat, NEW n \in Nat, m <= n
  PROVE  SentBelow(m) <= SentBelow(n)
<1>1. m + ConncheckPeriod - 1 <= n + ConncheckPeriod - 1
      /\ m + ConncheckPeriod - 1 \in Int /\ n + ConncheckPeriod - 1 \in Int
      /\ ConncheckPeriod \in Nat \ {0}
  BY IceAssumption
<1> QED BY <1>1, DivMonotonic DEF SentBelow

\* A request goes out in the passes whose conncheck the period divides.
LEMMA SentBelowStep ==
  ASSUME NEW c \in Nat
  PROVE  SentBelow(c + 1)
           = IF c % ConncheckPeriod = 0 THEN SentBelow(c) + 1 ELSE SentBelow(c)
<1> DEFINE d == ConncheckPeriod  q == c \div d  r == c % d
<1>0. d \in Nat \ {0} /\ c \in Int
  BY IceAssumption
<1>1. q \in Int /\ r \in 0 .. d - 1 /\ c = d * q + r
  BY <1>0, DivMod
<1>2. SentBelow(c) = (c + d - 1) \div d /\ SentBelow(c + 1) = (c + 1 + d - 1) \div d
  BY DEF SentBelow
<1> HIDE DEF d, q, r
<1>3. d * (q + 1) = d * q + d
  BY <1>0, <1>1
<1>4. SentBelow(c + 1) = q + 1
  <2>1. c + 1 + d - 1 = d * (q + 1) + r /\ c + 1 + d - 1 \in Int /\ q + 1 \in Int
    BY <1>0, <1>1, <1>3
  <2> QED BY <2>1, <1>0, <1>1, <1>2, DivIs
<1>5. CASE r = 0
  <2>1. c + d - 1 = d * q + (d - 1) /\ d - 1 \in 0 .. d - 1 /\ c + d - 1 \in Int
    BY <1>0, <1>1, <1>5
  <2>2. SentBelow(c) = q
    BY <2>1, <1>0, <1>1, <1>2, DivIs
  <2> QED BY <2>2, <1>4, <1>5 DEF r, d
<1>6. CASE r # 0
  <2>1. c + d - 1 = d * (q + 1) + (r - 1) /\ r - 1 \in 0 .. d - 1
        /\ c + d - 1 \in Int /\ q + 1 \in Int
    BY <1>0, <1>1, <1>3, <1>6
  <2>2. SentBelow(c) = q + 1
    BY <2>1, <1>0, <1>2, DivIs
  <2> QED BY <2>2, <1>4, <1>6 DEF r, d
<1> QED BY <1>5, <1>6

\* A counter of zero is no request.
LEMMA NothingSentBelowZero == SentBelow(0) = 0
<1>1. ConncheckPeriod \in Nat \ {0} /\ 0 + ConncheckPeriod - 1 \in 0 .. ConncheckPeriod - 1
      /\ 0 + ConncheckPeriod - 1 = ConncheckPeriod * 0 + (0 + ConncheckPeriod - 1)
      /\ 0 + ConncheckPeriod - 1 \in Int
  BY IceAssumption
<1> QED BY <1>1, DivIs DEF SentBelow

-----------------------------------------------------------------------------
(* Types: what one step does to the sequence of pairs. *)
PairType == [state : PairStates, conncheck : 0 .. ConncheckMax]

\* A pair replaced by a pair leaves a list of pairs, as long as before.
LEMMA PairsStayPairs ==
  ASSUME IceTypeOK, NEW i \in Indices, NEW p \in PairType
  PROVE  /\ [pairs EXCEPT ![i] = p] \in Seq(PairType)
         /\ Len([pairs EXCEPT ![i] = p]) = Len(pairs)
BY DEF IceTypeOK, PairType, Indices

\* What the types say of one pair.
LEMMA IndexFacts ==
  ASSUME IceTypeOK, NEW i \in Indices
  PROVE  /\ i \in 1 .. MaxPairs
         /\ pairs[i] \in PairType
         /\ pairs[i].state \in PairStates
         /\ pairs[i].conncheck \in 0 .. ConncheckMax
<1>1. Len(pairs) \in 0 .. MaxPairs /\ pairs \in Seq(PairType)
  BY DEF IceTypeOK, PairType
<1>2. i \in 1 .. Len(pairs) /\ pairs[i] \in PairType
  BY <1>1 DEF Indices
<1>3. i \in 1 .. MaxPairs
  BY <1>1, <1>2, IceAssumption
<1> QED BY <1>2, <1>3 DEF PairType

\* While a pair is being checked it is the nominated one.
LEMMA NominatedIsK ==
  ASSUME IceInv, at \in {"check", "recv"}
  PROVE  k \in Indices /\ nominated = k
<1>1. k \in Indices /\ pairs[k].state \in {"INPROGRESS", "SUCCEEDED"}
  BY DEF IceInv, Position
<1> QED BY <1>1 DEF IceInv, TriedInOrder

\* A further description leaves the pairs that are there and adds frozen ones.
LEMMA Appended ==
  ASSUME IceTypeOK, NEW n \in Nat
  PROVE  LET q == pairs \o UpdatePairs(n) IN
         /\ q \in Seq(PairType) /\ Len(q) = Len(pairs) + n
         /\ \A i \in Indices : q[i] = pairs[i]
         /\ \A i \in Len(pairs) + 1 .. Len(pairs) + n : q[i].state = "FROZEN"
<1> DEFINE q == pairs \o UpdatePairs(n)
<1>1. /\ UpdatePairs(n) \in Seq(PairType) /\ Len(UpdatePairs(n)) = n
      /\ \A j \in 1 .. n : UpdatePairs(n)[j].state = "FROZEN"
  BY IceAssumption DEF UpdatePairs, FrozenPair, PairType, PairStates
<1>2. pairs \in Seq(PairType) /\ Len(pairs) \in Nat
  BY DEF IceTypeOK, PairType
<1>3. q \in Seq(PairType) /\ Len(q) = Len(pairs) + Len(UpdatePairs(n))
  BY <1>1, <1>2, ConcatProperties
<1>4. \A i \in 1 .. Len(pairs) + n :
        q[i] = IF i <= Len(pairs) THEN pairs[i] ELSE UpdatePairs(n)[i - Len(pairs)]
  BY <1>1, <1>2, ConcatProperties
<1>5. ASSUME NEW i \in Indices PROVE q[i] = pairs[i]
  BY <1>2, <1>4, IceAssumption DEF Indices
<1>6. ASSUME NEW i \in Len(pairs) + 1 .. Len(pairs) + n
      PROVE  q[i].state = "FROZEN"
  <2>1. i - Len(pairs) \in 1 .. n /\ ~(i <= Len(pairs)) /\ i \in 1 .. Len(pairs) + n
    BY <1>2, IceAssumption
  <2> QED BY <2>1, <1>1, <1>4
<1> QED BY <1>1, <1>3, <1>5, <1>6

\* It holds when the pairs have been formed.
LEMMA IceInvInitially == IceInit => IceInv
BY IceAssumption
   DEF IceInit, IceInv, IceTypeOK, TriedInOrder, Position, Budget, NoneSentBeyond, Indices, PairStates

\* No step leaves the types.
LEMMA TypeStep == ASSUME IceInv, [IceNext]_iceVars PROVE IceTypeOK'
<1> USE IceAssumption
<1>1. CASE Restart
  <2>1. UpdatePairs(NewPairs) \in Seq(PairType) /\ Len(UpdatePairs(NewPairs)) = NewPairs
    BY DEF UpdatePairs, FrozenPair, PairType, PairStates
  <2> QED BY <2>1, <1>1 DEF Restart, IceInv, IceTypeOK, PairType
<1>2. CASE Select
  BY <1>2 DEF Select, IceInv, IceTypeOK
<1>3. CASE SkipFailed
  BY <1>3 DEF SkipFailed, Looking, IceInv, IceTypeOK, Indices
<1>4. CASE Nominate
  <2>1. pairs' \in Seq(PairType) /\ Len(pairs') = Len(pairs)
    <3>1. [state |-> "INPROGRESS", conncheck |-> 0] \in PairType
      BY DEF PairType, PairStates
    <3> QED BY <3>1, <1>4, PairsStayPairs DEF Nominate, Looking, IceInv
  <2>2. k \in 1 .. MaxPairs
    BY <1>4, IndexFacts DEF Nominate, Looking, IceInv
  <2>3. nominated' = k /\ at' = "check"
        /\ UNCHANGED <<selected, k, verdict, answers, sent, session>>
    BY <1>4 DEF Nominate
  <2> QED BY <2>1, <2>2, <2>3 DEF IceInv, IceTypeOK, PairType
<1>5. CASE KeepChecking
  <2>0. k \in Indices /\ pairs[k] \in PairType
    BY <1>5, IndexFacts DEF KeepChecking, Looking, IceInv
  <2>1. [pairs[k] EXCEPT !.conncheck = @ + 1] \in PairType
    BY <2>0, <1>5 DEF KeepChecking, PairType
  <2>2. pairs' = [pairs EXCEPT ![k] = [pairs[k] EXCEPT !.conncheck = @ + 1]]
    BY <2>0, <1>5 DEF KeepChecking
  <2>3. pairs' \in Seq(PairType) /\ Len(pairs') = Len(pairs)
    BY <2>0, <2>1, <2>2, PairsStayPairs DEF IceInv
  <2> QED BY <2>3, <1>5 DEF KeepChecking, IceInv, IceTypeOK, PairType
<1>6. CASE GiveUp
  <2>0. k \in Indices /\ pairs[k] \in PairType /\ pairs[k].conncheck < ConncheckMax
    BY <1>6, IndexFacts DEF GiveUp, Looking, IceInv, Budget
  <2>1. [state |-> "FAILED", conncheck |-> pairs[k].conncheck + 1] \in PairType
    BY <2>0 DEF PairType, PairStates
  <2>2. pairs' = [pairs EXCEPT ![k] =
                    [state |-> "FAILED", conncheck |-> pairs[k].conncheck + 1]]
    BY <2>0, <1>6 DEF GiveUp
  <2>3. pairs' \in Seq(PairType) /\ Len(pairs') = Len(pairs)
    BY <2>0, <2>1, <2>2, PairsStayPairs DEF IceInv
  <2>4. k \in 1 .. MaxPairs
    BY <1>6, IndexFacts DEF GiveUp, Looking, IceInv
  <2>5. k' = k + 1 /\ UNCHANGED <<nominated, selected, at, verdict, answers, sent, session>>
    BY <1>6 DEF GiveUp
  <2> QED BY <2>3, <2>4, <2>5 DEF IceInv, IceTypeOK, PairType
<1>7. CASE PickSucceeded
  BY <1>7 DEF PickSucceeded, Looking, IceInv, IceTypeOK, Indices
<1>8. CASE AllFailed
  BY <1>8 DEF AllFailed, IceInv, IceTypeOK
<1>9. CASE NotInProgress
  BY <1>9 DEF NotInProgress, IceInv, IceTypeOK
<1>10. CASE SendCheck
  <2>1. nominated \in 1 .. MaxPairs
    BY <1>10, NominatedIsK, IndexFacts DEF SendCheck, IceInv
  <2>2. sent' \in [1 .. MaxPairs -> Nat]
    <3>1. sent \in [1 .. MaxPairs -> Nat]
      BY DEF IceInv, IceTypeOK
    <3>2. sent' = sent \/ sent' = [sent EXCEPT ![nominated] = @ + 1]
      BY <1>10 DEF SendCheck
    <3> QED BY <2>1, <3>1, <3>2
  <2>3. answers' \subseteq 1 .. MaxPairs
    BY <2>1, <1>10 DEF SendCheck, IceInv, IceTypeOK
  <2> QED BY <2>2, <2>3, <1>10 DEF SendCheck, IceInv, IceTypeOK
<1>11. CASE ReceiveNothing
  BY <1>11 DEF ReceiveNothing, IceInv, IceTypeOK
<1>12. CASE ReceiveAnswer
  <2>0. nominated \in Indices /\ pairs[nominated] \in PairType
    BY <1>12, NominatedIsK, IndexFacts DEF ReceiveAnswer, IceInv
  <2>1. [pairs[nominated] EXCEPT !.state = "SUCCEEDED"] \in PairType
    BY <2>0 DEF PairType, PairStates
  <2>2. pairs' = [pairs EXCEPT ![nominated] =
                    [pairs[nominated] EXCEPT !.state = "SUCCEEDED"]]
    BY <2>0, <1>12 DEF ReceiveAnswer, Credited
  <2>3. pairs' \in Seq(PairType) /\ Len(pairs') = Len(pairs)
    BY <2>0, <2>1, <2>2, PairsStayPairs DEF IceInv
  <2> QED BY <2>3, <1>12 DEF ReceiveAnswer, IceInv, IceTypeOK, PairType
<1>13. CASE Reanswer
  <2>1. PICK n \in NewPairs .. MaxPairs - Len(pairs) : pairs' = pairs \o UpdatePairs(n)
    BY <1>13 DEF Reanswer
  <2>2. n \in Nat /\ IceTypeOK /\ Len(pairs) \in Nat
    BY <2>1 DEF IceInv, IceTypeOK
  <2>3. pairs' \in Seq(PairType) /\ Len(pairs') = Len(pairs) + n
    BY <2>1, <2>2, Appended
  <2> QED BY <1>13, <2>1, <2>2, <2>3 DEF Reanswer, IceInv, IceTypeOK, PairType
<1>14. CASE UNCHANGED iceVars
  BY <1>14 DEF iceVars, IceInv, IceTypeOK
<1> QED BY <1>1, <1>2, <1>3, <1>4, <1>5, <1>6, <1>7, <1>8, <1>9, <1>10, <1>11,
          <1>12, <1>13, <1>14 DEF IceNext, CheckStep

-----------------------------------------------------------------------------
(* A step that rewrites at most pair k: what the invariants need of it. *)
LEMMA OrderStep == ASSUME IceInv, [IceNext]_iceVars PROVE TriedInOrder' /\ Position'
<1> USE IceAssumption
<1>0. IceTypeOK
  BY DEF IceInv
<1>1. CASE Restart
  <2>1. /\ Len(UpdatePairs(NewPairs)) = NewPairs
        /\ \A i \in 1 .. NewPairs : UpdatePairs(NewPairs)[i].state = "FROZEN"
    BY DEF UpdatePairs, FrozenPair
  <2> QED BY <2>1, <1>1 DEF Restart, TriedInOrder, Position, Indices
<1>2. CASE Select
  <2>1. at' = "select" /\ k' = 1 /\ UNCHANGED <<pairs, nominated, verdict>> /\ verdict = "none"
    BY <1>2 DEF Select
  <2>2. Len(pairs) \in Nat
    BY <1>0 DEF IceTypeOK
  <2> QED BY <2>1, <2>2 DEF IceInv, TriedInOrder, Position, Indices
<1>3. CASE SkipFailed
  <2>1. k \in Indices /\ pairs[k].state = "FAILED" /\ k' = k + 1 /\ at = "select"
        /\ UNCHANGED <<pairs, nominated, verdict, at>> /\ Len(pairs) \in Nat
    BY <1>3, <1>0 DEF SkipFailed, Looking, IceTypeOK
  <2>2. \A j \in Indices : j < k + 1 => pairs[j].state = "FAILED"
    BY <2>1 DEF IceInv, Position, Indices
  <2> QED BY <2>1, <2>2 DEF IceInv, TriedInOrder, Position, Indices
<1>4. CASE Nominate \/ KeepChecking \/ GiveUp
  <2>1. /\ at = "select" /\ k \in Indices /\ verdict' = verdict /\ verdict = "none"
        /\ k \in 1 .. Len(pairs) /\ Len(pairs) \in Nat
    BY <1>4, <1>0 DEF Nominate, KeepChecking, GiveUp, Looking, IceInv, Position, Indices, IceTypeOK
  <2>2. /\ Len(pairs') = Len(pairs)
        /\ \A i \in Indices : i # k => pairs'[i] = pairs[i]
    <3>1. CASE Nominate
      BY <3>1, <1>0, <2>1 DEF Nominate, IceTypeOK, Indices
    <3>2. CASE KeepChecking
      BY <3>2, <1>0, <2>1 DEF KeepChecking, IceTypeOK, Indices
    <3>3. CASE GiveUp
      BY <3>3, <1>0, <2>1 DEF GiveUp, IceTypeOK, Indices
    <3>4. QED
      BY <1>4, <3>1, <3>2, <3>3
  <2>3. \A j \in Indices : j < k => pairs[j].state = "FAILED"
    BY <2>1 DEF IceInv, Position
  <2>4. \A j \in Indices : j > k => pairs[j].state = "FROZEN"
    <3>1. \A j \in Indices : j > k => (pairs[j].state # "FROZEN" => pairs[k].state = "FAILED")
      BY <2>1 DEF IceInv, TriedInOrder, Indices
    <3>2. pairs[k].state # "FAILED"
      BY <1>4 DEF Nominate, KeepChecking, GiveUp, Looking
    <3> QED BY <3>1, <3>2
  <2>5. CASE Nominate \/ KeepChecking
    <3>1. pairs'[k].state = "INPROGRESS" /\ nominated' = k /\ k' = k /\ at' = "check"
      <4>1. CASE Nominate
        BY <4>1, <2>1, <1>0 DEF Nominate, Indices, IceTypeOK
      <4>2. CASE KeepChecking
        <5>1. nominated = k
          BY <4>2 DEF KeepChecking, Looking, IceInv, TriedInOrder
        <5>2. pairs[k] \in PairType
          BY <2>1, <1>0, IndexFacts
        <5>3. pairs[k].state = "INPROGRESS"
          BY <4>2 DEF KeepChecking, Looking
        <5> QED BY <5>1, <5>2, <5>3, <4>2, <2>1, <1>0 DEF KeepChecking, Indices, IceTypeOK, PairType
      <4> QED BY <2>5, <4>1, <4>2
    <3> QED BY <3>1, <2>1, <2>2, <2>3, <2>4 DEF TriedInOrder, Position, Indices
  <2>6. CASE GiveUp
    <3>1. pairs'[k].state = "FAILED" /\ nominated' = nominated /\ k' = k + 1 /\ at' = "select"
      BY <2>6, <2>1, <1>0 DEF GiveUp, Looking, Indices, IceTypeOK
    <3>2. \A j \in 1 .. Len(pairs) : j < k + 1 => pairs'[j].state = "FAILED"
      BY <3>1, <2>1, <2>2, <2>3 DEF Indices
    <3> QED BY <3>1, <3>2, <2>1, <2>2, <2>3, <2>4 DEF TriedInOrder, Position, Indices
  <2> QED BY <1>4, <2>5, <2>6
<1>5. CASE PickSucceeded
  BY <1>5 DEF PickSucceeded, Looking, IceInv, TriedInOrder, Position, Indices
<1>6. CASE AllFailed
  <2>1. k = Len(pairs) + 1 /\ Len(pairs) \in Nat
    BY <1>6, <1>0 DEF AllFailed, IceInv, Position, Indices, IceTypeOK
  <2>2. \A i \in Indices : pairs[i].state = "FAILED"
    BY <2>1, <1>6 DEF AllFailed, IceInv, Position, Indices
  <2> QED BY <2>2, <1>6 DEF AllFailed, IceInv, TriedInOrder, Position, Indices
<1>7. CASE NotInProgress
  BY <1>7 DEF NotInProgress, IceInv, TriedInOrder, Position, Indices
<1>8. CASE SendCheck
  <2>1. k \in Indices /\ nominated = k /\ pairs[nominated].state = "INPROGRESS"
        /\ at = "check" /\ at' = "recv" /\ UNCHANGED <<pairs, nominated, k, verdict>>
    BY <1>8, NominatedIsK DEF SendCheck
  <2> QED BY <2>1 DEF IceInv, TriedInOrder, Position, Indices
<1>9. CASE ReceiveNothing
  BY <1>9 DEF ReceiveNothing, IceInv, TriedInOrder, Position, Indices
<1>10. CASE ReceiveAnswer
  <2>1. k \in Indices /\ nominated = k /\ pairs[k] \in PairType /\ pairs[k].state = "INPROGRESS"
    BY <1>10, <1>0, NominatedIsK, IndexFacts DEF ReceiveAnswer, IceInv, Position
  <2>2. /\ pairs' = [pairs EXCEPT ![k].state = "SUCCEEDED"]
        /\ at' = "out" /\ UNCHANGED <<nominated, k>>
    BY <1>10, <2>1 DEF ReceiveAnswer, Credited
  <2>3. /\ Len(pairs') = Len(pairs) /\ pairs'[k].state = "SUCCEEDED"
        /\ \A i \in Indices : i # k => pairs'[i] = pairs[i]
    BY <2>1, <2>2, <1>0 DEF IceTypeOK, Indices, PairType
  <2>4. verdict' = "CONNECTED"
    BY <2>3, <2>1, <1>10 DEF ReceiveAnswer
  <2> QED BY <2>1, <2>2, <2>3, <2>4 DEF IceInv, TriedInOrder, Position, Indices
<1>11. CASE Reanswer
  <2>0. Len(pairs) \in Nat
    BY <1>0 DEF IceTypeOK
  <2>n. PICK n \in NewPairs .. MaxPairs - Len(pairs) : pairs' = pairs \o UpdatePairs(n)
    BY <1>11 DEF Reanswer
  <2>1. /\ Len(pairs) \in Nat /\ n \in Nat /\ Len(pairs') = Len(pairs) + n
        /\ \A i \in Indices : pairs'[i] = pairs[i]
        /\ \A i \in Len(pairs) + 1 .. Len(pairs') : pairs'[i].state = "FROZEN"
    <3>1. n \in Nat
      BY <2>0, <2>n
    <3> QED BY <2>0, <2>n, <3>1, <1>0, Appended
  <2>2. at' = "out" /\ verdict' = "none" /\ nominated' = nominated
    BY <1>11 DEF Reanswer
  <2> QED BY <2>1, <2>2 DEF IceInv, TriedInOrder, Position, Indices
<1>12. CASE UNCHANGED iceVars
  BY <1>12 DEF iceVars, IceInv, TriedInOrder, Position, Indices
<1> QED BY <1>1, <1>2, <1>3, <1>4, <1>5, <1>6, <1>7, <1>8, <1>9, <1>10, <1>11,
          <1>12 DEF IceNext, CheckStep

\* Requests sent and check counters change together.
LEMMA BudgetStep == ASSUME IceInv, [IceNext]_iceVars PROVE Budget'
<1> USE IceAssumption
<1>0. IceTypeOK /\ Len(pairs) \in Nat
  BY DEF IceInv, IceTypeOK
<1>1. CASE Restart
  <2>1. /\ Len(UpdatePairs(NewPairs)) = NewPairs
        /\ \A i \in 1 .. NewPairs : UpdatePairs(NewPairs)[i].state = "FROZEN"
    BY DEF UpdatePairs, FrozenPair
  <2> QED BY <2>1, <1>1 DEF Restart, Budget, Indices
<1>2. CASE Select \/ SkipFailed \/ AllFailed \/ ReceiveNothing
  BY <1>2 DEF Select, SkipFailed, AllFailed, ReceiveNothing, Looking, IceInv, Budget, Indices
<1>3. CASE PickSucceeded
  <2>1. pairs[k].state = "SUCCEEDED" /\ k \in Indices /\ UNCHANGED <<pairs, sent>> /\ at = "select"
    BY <1>3 DEF PickSucceeded, Looking
  <2>2. \A i \in Indices : pairs[i].state # "INPROGRESS"
    <3>1. \A i \in Indices : pairs[i].state = "INPROGRESS" => nominated = i /\ nominated = k
      BY <2>1 DEF IceInv, TriedInOrder
    <3> QED BY <3>1, <2>1
  <2> QED BY <2>1, <2>2 DEF IceInv, Budget, Indices
<1>4. CASE NotInProgress
  <2>1. \A i \in Indices : pairs[i].state # "INPROGRESS"
    BY <1>4 DEF NotInProgress, IceInv, TriedInOrder
  <2> QED BY <2>1, <1>4 DEF NotInProgress, IceInv, Budget, Indices
<1>5. CASE Nominate
  <2>1. k \in Indices /\ pairs[k].state = "FROZEN" /\ sent' = sent /\ at' = "check"
        /\ pairs' = [pairs EXCEPT ![k] = [state |-> "INPROGRESS", conncheck |-> 0]]
        /\ at = "select"
    BY <1>5 DEF Nominate, Looking
  <2>2. \A i \in Indices : i # k => pairs[i].state # "INPROGRESS"
    BY <2>1, <1>0 DEF IceInv, TriedInOrder, Position, Indices
  <2>3. sent[k] = SentBelow(0)
    BY <2>1, NothingSentBelowZero DEF IceInv, Budget
  <2> QED BY <2>1, <2>2, <2>3, <1>0 DEF IceInv, Budget, Indices, IceTypeOK
<1>6. CASE KeepChecking
  <2>1. k \in Indices /\ pairs[k].state = "INPROGRESS" /\ sent' = sent /\ at' = "check"
        /\ pairs[k].conncheck + 1 < ConncheckMax /\ at = "select"
        /\ pairs' = [pairs EXCEPT ![k].conncheck = @ + 1]
    BY <1>6 DEF KeepChecking, Looking
  <2>2. \A i \in Indices : i # k => pairs[i].state # "INPROGRESS"
    BY <2>1 DEF IceInv, TriedInOrder
  <2>3. sent[k] = SentBelow(pairs[k].conncheck + 1)
    BY <2>1 DEF IceInv, Budget
  <2>4. /\ Len(pairs') = Len(pairs) /\ pairs'[k].state = "INPROGRESS"
        /\ pairs'[k].conncheck = pairs[k].conncheck + 1
        /\ \A i \in Indices : i # k => pairs'[i] = pairs[i]
    BY <2>1, <1>0, IndexFacts DEF IceTypeOK, Indices, PairType
  <2> QED BY <2>1, <2>2, <2>3, <2>4 DEF IceInv, Budget, Indices
<1>7. CASE GiveUp
  <2>1. k \in Indices /\ pairs[k].state = "INPROGRESS" /\ sent' = sent /\ at' = "select"
        /\ pairs[k].conncheck + 1 >= ConncheckMax /\ at = "select"
        /\ pairs' = [pairs EXCEPT ![k] = [state |-> "FAILED", conncheck |-> pairs[k].conncheck + 1]]
    BY <1>7 DEF GiveUp, Looking
  <2>2. \A i \in Indices : i # k => pairs[i].state # "INPROGRESS"
    BY <2>1 DEF IceInv, TriedInOrder
  <2>3. /\ sent[k] = SentBelow(pairs[k].conncheck + 1)
        /\ pairs[k].conncheck < ConncheckMax /\ pairs[k].conncheck \in Nat
    BY <2>1, <1>0, IndexFacts DEF IceInv, Budget
  <2>4. pairs[k].conncheck + 1 = ConncheckMax
    BY <2>1, <2>3
  <2>5. /\ Len(pairs') = Len(pairs) /\ pairs'[k].state = "FAILED"
        /\ \A i \in Indices : i # k => pairs'[i] = pairs[i]
    BY <2>1, <1>0 DEF IceTypeOK, Indices
  <2> QED BY <2>1, <2>2, <2>3, <2>4, <2>5 DEF IceInv, Budget, Indices
<1>8. CASE SendCheck
  <2> DEFINE c == pairs[k].conncheck
  <2>1. k \in Indices /\ nominated = k /\ pairs[k].state = "INPROGRESS" /\ at = "check"
        /\ c \in Nat /\ k \in 1 .. MaxPairs
    BY <1>8, <1>0, NominatedIsK, IndexFacts DEF SendCheck
  <2>2. sent[k] = SentBelow(c) /\ c < ConncheckMax
    BY <2>1 DEF IceInv, Budget
  <2>3. \A i \in Indices : i # k => pairs[i].state # "INPROGRESS"
    BY <2>1 DEF IceInv, TriedInOrder
  <2>4. sent'[k] = SentBelow(c + 1)
    <3>1. CASE c % ConncheckPeriod = 0
      <4>1. sent' = [sent EXCEPT ![k] = @ + 1]
        BY <3>1, <2>1, <1>8 DEF SendCheck, SendDue
      <4>2. sent'[k] = sent[k] + 1
        BY <4>1, <2>1, <1>0 DEF IceTypeOK
      <4> QED BY <4>2, <3>1, <2>1, <2>2, SentBelowStep
    <3>2. CASE c % ConncheckPeriod # 0
      <4>1. sent' = sent
        BY <3>2, <2>1, <1>8 DEF SendCheck, SendDue
      <4> QED BY <4>1, <3>2, <2>1, <2>2, SentBelowStep
    <3> QED BY <3>1, <3>2
  <2>5. \A i \in Indices : i # k => sent'[i] = sent[i]
    BY <2>1, <1>8, <1>0, IndexFacts DEF SendCheck, IceTypeOK
  <2>6. pairs' = pairs /\ at' = "recv"
    BY <1>8 DEF SendCheck
  <2> HIDE DEF c
  <2> QED BY <2>1, <2>2, <2>3, <2>4, <2>5, <2>6 DEF IceInv, Budget, Indices, c
<1>9. CASE ReceiveAnswer
  <2>1. k \in Indices /\ nominated = k /\ pairs[k] \in PairType /\ pairs[k].state = "INPROGRESS"
        /\ at = "recv" /\ pairs[k].conncheck \in Nat
    BY <1>9, <1>0, NominatedIsK, IndexFacts DEF ReceiveAnswer, IceInv, Position
  <2>2. /\ Len(pairs') = Len(pairs) /\ pairs'[k].state = "SUCCEEDED"
        /\ \A i \in Indices : i # k => pairs'[i] = pairs[i]
    BY <1>9, <2>1, <1>0 DEF ReceiveAnswer, Credited, IceTypeOK, Indices, PairType
  <2>3. sent[k] = SentBelow(pairs[k].conncheck + 1) /\ pairs[k].conncheck < ConncheckMax
    BY <2>1 DEF IceInv, Budget
  <2>4. sent[k] <= SentBelow(ConncheckMax)
    <3>1. pairs[k].conncheck + 1 <= ConncheckMax /\ pairs[k].conncheck + 1 \in Nat
      BY <2>1, <2>3
    <3> QED BY <3>1, <2>3, SentBelowMonotonic
  <2>5. \A i \in Indices : i # k => pairs[i].state # "INPROGRESS"
    BY <2>1 DEF IceInv, TriedInOrder
  <2>6. sent' = sent
    BY <1>9 DEF ReceiveAnswer
  <2> QED BY <2>1, <2>2, <2>4, <2>5, <2>6 DEF IceInv, Budget, Indices
<1>10. CASE Reanswer
  <2>n. PICK n \in NewPairs .. MaxPairs - Len(pairs) : pairs' = pairs \o UpdatePairs(n)
    BY <1>10 DEF Reanswer
  <2>1. /\ Len(pairs) \in Nat /\ n \in Nat
        /\ Len(pairs') = Len(pairs) + n /\ Len(pairs') <= MaxPairs
        /\ \A i \in Indices : pairs'[i] = pairs[i]
        /\ \A i \in Len(pairs) + 1 .. Len(pairs') : pairs'[i].state = "FROZEN"
    <3>1. n \in Nat /\ n <= MaxPairs - Len(pairs)
      BY <1>0, <2>n
    <3>2. /\ Len(pairs') = Len(pairs) + n
          /\ \A i \in Indices : pairs'[i] = pairs[i]
          /\ \A i \in Len(pairs) + 1 .. Len(pairs) + n : pairs'[i].state = "FROZEN"
      BY <2>n, <3>1, <1>0, Appended
    <3>3. MaxPairs \in Nat /\ Len(pairs) \in Nat
      BY <1>0
    <3> QED BY <3>1, <3>2, <3>3
  <2>2. at' = at /\ sent' = sent
    BY <1>10 DEF Reanswer
  <2> QED BY <2>1, <2>2 DEF IceInv, Budget, NoneSentBeyond, Indices
<1>11. CASE UNCHANGED iceVars
  BY <1>11 DEF iceVars, IceInv, Budget, Indices
<1> QED BY <1>1, <1>2, <1>3, <1>4, <1>5, <1>6, <1>7, <1>8, <1>9, <1>10, <1>11
        DEF IceNext, CheckStep

\* No request was sent over a pair that does not exist yet.
LEMMA BeyondStep == ASSUME IceInv, [IceNext]_iceVars PROVE NoneSentBeyond'
<1> USE IceAssumption
<1>0. IceTypeOK /\ Len(pairs) \in Nat
  BY DEF IceInv, IceTypeOK
<1>1. CASE Restart
  BY <1>1 DEF Restart, UpdatePairs, NoneSentBeyond
<1>2. CASE Reanswer
  <2>1. PICK n \in NewPairs .. MaxPairs - Len(pairs) : pairs' = pairs \o UpdatePairs(n)
    BY <1>2 DEF Reanswer
  <2>2. n \in Nat /\ Len(pairs) \in Nat
    BY <1>0, <2>1
  <2>3. Len(pairs') = Len(pairs) + n
    BY <2>1, <2>2, <1>0, Appended
  <2> QED BY <1>2, <1>0, <2>2, <2>3 DEF Reanswer, IceInv, NoneSentBeyond
<1>3. CASE SendCheck
  <2>1. k \in Indices /\ nominated = k /\ pairs' = pairs
    BY <1>3, NominatedIsK DEF SendCheck
  <2>2. \A i \in 1 .. MaxPairs : i # k => sent'[i] = sent[i]
    BY <2>1, <1>3, <1>0 DEF SendCheck, IceTypeOK
  <2> QED BY <2>1, <2>2, <1>0 DEF IceInv, NoneSentBeyond, Indices
<1>4. CASE \/ Nominate \/ KeepChecking \/ GiveUp \/ ReceiveAnswer
  <2>1. Len(pairs') = Len(pairs) /\ sent' = sent
    BY <1>4, <1>0 DEF Nominate, KeepChecking, GiveUp, ReceiveAnswer, IceTypeOK
  <2> QED BY <2>1 DEF IceInv, NoneSentBeyond
<1>5. CASE UNCHANGED <<pairs, sent>>
  BY <1>5 DEF IceInv, NoneSentBeyond
<1> QED BY <1>1, <1>2, <1>3, <1>4, <1>5 DEF IceNext, CheckStep, Select, SkipFailed,
        PickSucceeded, AllFailed, NotInProgress, ReceiveNothing, iceVars

-----------------------------------------------------------------------------
\* The agent's bookkeeping (agent.c:478-530) is inductive.
THEOREM IceInvariant == IceSpec => []IceInv
<1>1. IceInit => IceInv BY IceInvInitially
<1>2. IceInv /\ [IceNext]_iceVars => IceInv'
  BY TypeStep, OrderStep, BudgetStep, BeyondStep DEF IceInv
<1> QED BY <1>1, <1>2, PTL DEF IceSpec

\* Pairs are tried strictly in order, and the pair being checked or used is
\* the nominated one (agent.c:507-530).
THEOREM PairsTriedInOrder == IceSpec => []TriedInOrder
<1>1. IceInv => TriedInOrder BY DEF IceInv
<1> QED BY <1>1, IceInvariant, PTL

\* No pair is given up before its whole budget of binding requests was
\* sent, and none gets more (agent.c:490-495, 516-521).
THEOREM PairsGetFullBudget == IceSpec => []FullBudget
<1>1. IceInv => FullBudget
  <2> SUFFICES ASSUME IceInv, NEW i \in Indices
               PROVE  /\ pairs[i].state = "FAILED" => sent[i] = SentBelow(ConncheckMax)
                      /\ sent[i] <= SentBelow(ConncheckMax)
    BY DEF FullBudget
  <2> DEFINE c == pairs[i].conncheck
  <2>0. c \in Nat /\ pairs[i].state \in PairStates /\ ConncheckMax \in Nat
        /\ SentBelow(ConncheckMax) \in Nat
    BY IndexFacts, SentBelowNat, IceAssumption DEF IceInv
  <2>1. pairs[i].state = "INPROGRESS" =>
          \E m \in {c, c + 1} : sent[i] = SentBelow(m) /\ m <= ConncheckMax
    BY <2>0 DEF IceInv, Budget
  <2>2. pairs[i].state = "INPROGRESS" => sent[i] <= SentBelow(ConncheckMax)
    BY <2>0, <2>1, SentBelowMonotonic
  <2> QED BY <2>0, <2>2 DEF IceInv, Budget, PairStates
<1> QED BY <1>1, IceInvariant, PTL

\* ICE reports failure only after every pair had its budget
\* (agent.c:528-529, peer_connection.c:307-308).
THEOREM FailureIsExhaustive == IceSpec => []FailedAfterAll
<1>1. IceInv => FailedAfterAll
  BY DEF IceInv, Position, Budget, FailedAfterAll
<1> QED BY <1>1, IceInvariant, PTL

-----------------------------------------------------------------------------
(***************************************************************************)
(* Sockets (socket.c).  For every size of their buffers and however lwIP's *)
(* callbacks interleave with the callers, the datagram ring implements the *)
(* bounded queue, the bytes of a TCP stream are read once and in order,    *)
(* and a socket hears its own connection only.                             *)
(***************************************************************************)

(* The receive ring of UDP datagrams (UdpFifo)                             *)

\* The positions go around the ring.
LEMMA NextPosition ==
  ASSUME NEW p \in Positions
  PROVE  /\ NextPos(p) \in Positions
         /\ NextPos(p) = IF p + 1 = FifoSize THEN 0 ELSE p + 1
<1>1. CASE p + 1 < FifoSize
  BY <1>1, FifoAssumption, ModSmall DEF NextPos, Positions
<1>2. CASE p + 1 = FifoSize
  <2>1. FifoSize % FifoSize = 0
    BY FifoAssumption, ModIs, SMT
  <2>2. QED
    BY <1>2, <2>1, FifoAssumption DEF NextPos, Positions
<1>3. QED
  BY <1>1, <1>2, FifoAssumption DEF Positions

\* How many datagrams wait between two positions.
LEMMA CountIs ==
  ASSUME fifoReadPos \in Positions, writePos \in Positions
  PROVE  /\ Count \in Positions
         /\ Count = IF writePos >= fifoReadPos THEN writePos - fifoReadPos
                    ELSE writePos - fifoReadPos + FifoSize
<1>1. CASE writePos >= fifoReadPos
  BY <1>1, FifoAssumption, ModSmall DEF Count, Positions
<1>2. CASE writePos < fifoReadPos
  <2>1. (writePos - fifoReadPos) % FifoSize = writePos - fifoReadPos + FifoSize
    BY <1>2, FifoAssumption, ModIs, SMT DEF Positions
  <2>2. QED
    BY <1>2, <2>1, FifoAssumption DEF Count, Positions
<1>3. QED
  BY <1>1, <1>2, FifoAssumption DEF Positions

\* Where the j-th waiting datagram is.
LEMMA SlotIs ==
  ASSUME fifoReadPos \in Positions, NEW j \in 1 .. FifoSize
  PROVE  /\ Slot(j) \in Positions
         /\ Slot(j) = IF fifoReadPos + j - 1 < FifoSize THEN fifoReadPos + j - 1
                      ELSE fifoReadPos + j - 1 - FifoSize
<1>1. CASE fifoReadPos + j - 1 < FifoSize
  BY <1>1, FifoAssumption, ModSmall DEF Slot, Positions
<1>2. CASE fifoReadPos + j - 1 >= FifoSize
  <2>1. (fifoReadPos + j - 1) % FifoSize = fifoReadPos + j - 1 - FifoSize
    BY <1>2, FifoAssumption, ModIs, SMT DEF Positions
  <2>2. QED
    BY <1>2, <2>1, FifoAssumption DEF Slot, Positions
<1>3. QED
  BY <1>1, <1>2, FifoAssumption DEF Positions

-----------------------------------------------------------------------------
\* What the count and the slots become when a position moves.
LEMMA CountAfterPublish ==
  ASSUME fifoReadPos \in Positions, writePos \in Positions, ~IsFull,
         fifoReadPos' = fifoReadPos, writePos' = NextPos(writePos)
  PROVE  /\ Count' = Count + 1
         /\ Slot(Count + 1) = writePos
         /\ Count + 1 \in Positions
<1>1. /\ Count \in Positions
      /\ Count = IF writePos >= fifoReadPos THEN writePos - fifoReadPos
                 ELSE writePos - fifoReadPos + FifoSize
  BY CountIs
<1>2. /\ writePos' \in Positions
      /\ writePos' = IF writePos + 1 = FifoSize THEN 0 ELSE writePos + 1
  BY NextPosition
<1>3. writePos' # fifoReadPos
  BY DEF IsFull
<1>4. Count' = IF writePos' >= fifoReadPos THEN writePos' - fifoReadPos
               ELSE writePos' - fifoReadPos + FifoSize
  <2>1. CASE writePos' >= fifoReadPos
    BY <2>1, <1>2, FifoAssumption, ModSmall DEF Count, Positions
  <2>2. CASE writePos' < fifoReadPos
    <3>1. (writePos' - fifoReadPos) % FifoSize = writePos' - fifoReadPos + FifoSize
      BY <2>2, <1>2, FifoAssumption, ModIs, SMT DEF Positions
    <3>2. QED
      BY <2>2, <3>1, <1>2, FifoAssumption DEF Count, Positions
  <2>3. QED
    BY <2>1, <2>2, <1>2, FifoAssumption DEF Positions
<1>5. Count' = Count + 1 /\ Count + 1 < FifoSize
  BY <1>1, <1>2, <1>3, <1>4, FifoAssumption DEF Positions
<1>6. Slot(Count + 1) = writePos
  <2>1. Count + 1 \in 1 .. FifoSize
    BY <1>1, <1>5, FifoAssumption DEF Positions
  <2>2. Slot(Count + 1) = IF fifoReadPos + (Count + 1) - 1 < FifoSize
                          THEN fifoReadPos + (Count + 1) - 1
                          ELSE fifoReadPos + (Count + 1) - 1 - FifoSize
    BY <2>1, SlotIs
  <2>3. QED
    BY <2>2, <1>1, FifoAssumption DEF Positions
<1>7. QED
  BY <1>1, <1>5, <1>6, FifoAssumption DEF Positions

\* Popping frees one place (socket.c:74).
LEMMA CountAfterAdvance ==
  ASSUME fifoReadPos \in Positions, writePos \in Positions, ~IsEmpty,
         writePos' = writePos, fifoReadPos' = NextPos(fifoReadPos)
  PROVE  /\ Count \in Positions /\ Count >= 1
         /\ Count' = Count - 1
         /\ Slot(1) = fifoReadPos
         /\ \A j \in 1 .. Count - 1 : Slot(j)' = Slot(j + 1)
<1>1. /\ Count \in Positions
      /\ Count = IF writePos >= fifoReadPos THEN writePos - fifoReadPos
                 ELSE writePos - fifoReadPos + FifoSize
  BY CountIs
<1>2. /\ fifoReadPos' \in Positions
      /\ fifoReadPos' = IF fifoReadPos + 1 = FifoSize THEN 0 ELSE fifoReadPos + 1
  BY NextPosition
<1>3. writePos # fifoReadPos
  BY DEF IsEmpty
<1>4. Count' = IF writePos >= fifoReadPos' THEN writePos - fifoReadPos'
               ELSE writePos - fifoReadPos' + FifoSize
  <2>1. CASE writePos >= fifoReadPos'
    BY <2>1, <1>2, FifoAssumption, ModSmall DEF Count, Positions
  <2>2. CASE writePos < fifoReadPos'
    <3>1. (writePos - fifoReadPos') % FifoSize = writePos - fifoReadPos' + FifoSize
      BY <2>2, <1>2, FifoAssumption, ModIs, SMT DEF Positions
    <3>2. QED
      BY <2>2, <3>1, <1>2, FifoAssumption DEF Count, Positions
  <2>3. QED
    BY <2>1, <2>2, <1>2, FifoAssumption DEF Positions
<1>5. Count' = Count - 1 /\ Count >= 1
  BY <1>1, <1>2, <1>3, <1>4, FifoAssumption DEF Positions
<1>6. Slot(1) = fifoReadPos
  <2>1. 1 \in 1 .. FifoSize
    BY FifoAssumption
  <2>2. Slot(1) = IF fifoReadPos + 1 - 1 < FifoSize THEN fifoReadPos + 1 - 1
                  ELSE fifoReadPos + 1 - 1 - FifoSize
    BY <2>1, SlotIs
  <2>3. QED
    BY <2>2, FifoAssumption DEF Positions
<1>7. ASSUME NEW j \in 1 .. Count - 1
      PROVE  Slot(j)' = Slot(j + 1)
  <2>1. j + 1 \in 1 .. FifoSize /\ j \in Nat
    BY <1>1, FifoAssumption DEF Positions
  <2>2. Slot(j + 1) = IF fifoReadPos + (j + 1) - 1 < FifoSize THEN fifoReadPos + (j + 1) - 1
                      ELSE fifoReadPos + (j + 1) - 1 - FifoSize
    BY <2>1, SlotIs
  <2>3. Slot(j)' = (fifoReadPos' + j - 1) % FifoSize
    BY DEF Slot
  <2>4. CASE fifoReadPos + 1 = FifoSize
    <3>1. (fifoReadPos' + j - 1) % FifoSize = j - 1
      <4>1. fifoReadPos' + j - 1 = j - 1 /\ j - 1 \in 0 .. FifoSize - 1
        BY <2>1, <2>4, <1>2, FifoAssumption
      <4>2. QED
        BY <4>1, FifoAssumption, ModSmall
    <3>2. QED
      BY <2>1, <2>2, <2>3, <2>4, <3>1, FifoAssumption DEF Positions
  <2>5. CASE fifoReadPos + 1 # FifoSize /\ fifoReadPos + j < FifoSize
    <3>1. fifoReadPos' + j - 1 = fifoReadPos + j /\ fifoReadPos + j \in 0 .. FifoSize - 1
      BY <2>1, <2>5, <1>2, FifoAssumption DEF Positions
    <3>2. (fifoReadPos' + j - 1) % FifoSize = fifoReadPos + j
      BY <3>1, FifoAssumption, ModSmall
    <3>3. QED
      BY <2>1, <2>2, <2>3, <2>5, <3>2, FifoAssumption DEF Positions
  <2>6. CASE fifoReadPos + 1 # FifoSize /\ fifoReadPos + j >= FifoSize
    <3>1. /\ fifoReadPos' + j - 1 = FifoSize * 1 + (fifoReadPos + j - FifoSize)
          /\ fifoReadPos + j - FifoSize \in 0 .. FifoSize - 1
          /\ fifoReadPos' + j - 1 \in Int
      BY <2>1, <2>6, <1>2, FifoAssumption DEF Positions
    <3>2. (fifoReadPos' + j - 1) % FifoSize = fifoReadPos + j - FifoSize
      BY <3>1, FifoAssumption, ModIs
    <3>3. QED
      BY <2>1, <2>2, <2>3, <2>6, <3>2, FifoAssumption DEF Positions
  <2>7. QED
    BY <2>1, <2>4, <2>5, <2>6, FifoAssumption DEF Positions
<1>8. QED
  BY <1>1, <1>5, <1>6, <1>7

\* The free slot is none of the waiting ones.
LEMMA FreeSlot ==
  ASSUME fifoReadPos \in Positions, writePos \in Positions, NEW j \in 1 .. Count
  PROVE  Slot(j) \in Positions /\ Slot(j) # writePos
<1>1. /\ Count \in Positions
      /\ Count = IF writePos >= fifoReadPos THEN writePos - fifoReadPos
                 ELSE writePos - fifoReadPos + FifoSize
  BY CountIs
<1>2. j \in 1 .. FifoSize
  BY <1>1, FifoAssumption DEF Positions
<1>3. /\ Slot(j) \in Positions
      /\ Slot(j) = IF fifoReadPos + j - 1 < FifoSize THEN fifoReadPos + j - 1
                   ELSE fifoReadPos + j - 1 - FifoSize
  BY <1>2, SlotIs
<1>4. QED
  BY <1>1, <1>2, <1>3, FifoAssumption DEF Positions

-----------------------------------------------------------------------------
(* The invariant. *)
LEMMA FifoInitInvariant == FifoInit => FifoInv
<1> SUFFICES ASSUME FifoInit PROVE FifoInv
  OBVIOUS
<1>1. FifoTypeOK
  BY FifoAssumption DEF FifoInit, FifoTypeOK, Positions
<1>2. Pushing /\ Popping
  BY DEF FifoInit, Pushing, Popping
<1>3. Whole
  <2>1. Count = 0
    BY FifoAssumption, ModSmall DEF FifoInit, Count
  <2>2. QED
    BY <2>1 DEF Whole
<1>4. QED
  BY <1>1, <1>2, <1>3 DEF FifoInv

\* A step that moves neither position nor touches a waiting slot keeps them.
LEMMA WholeKept ==
  ASSUME FifoInv, fifoReadPos' = fifoReadPos, writePos' = writePos,
         \A j \in 1 .. Count : items'[Slot(j)] = items[Slot(j)]
  PROVE  Whole'
<1>1. Count' = Count /\ \A j : Slot(j)' = Slot(j)
  BY DEF Count, Slot
<1>2. QED
  BY <1>1 DEF Whole, FifoInv

\* Every step of the callback and of the reader keeps the invariant.
LEMMA FifoStepInvariant == FifoInv /\ [FifoNext]_fifoVars => FifoInv'
<1> SUFFICES ASSUME FifoInv, [FifoNext]_fifoVars PROVE FifoInv'
  OBVIOUS
<1> USE DEF FifoInv
<1>0. fifoReadPos \in Positions /\ writePos \in Positions
  BY DEF FifoTypeOK
<1>1. ASSUME NEW d \in Datagrams, RecvCallback(d) PROVE FifoInv'
  <2>1. FifoTypeOK'
    BY <1>1 DEF FifoTypeOK, RecvCallback, consumerVars
  <2>2. Pushing' /\ Popping'
    BY <1>1 DEF Pushing, Popping, IsFull, IsEmpty, RecvCallback, consumerVars
  <2>3. Whole'
    BY <1>1, WholeKept DEF RecvCallback
  <2>4. QED
    BY <2>1, <2>2, <2>3
<1>2. CASE PushRefused
  <2>1. FifoTypeOK'
    BY <1>2 DEF FifoTypeOK, Pushing, PushRefused, consumerVars
  <2>2. Pushing' /\ Popping'
    BY <1>2 DEF Pushing, Popping, IsEmpty, PushRefused, consumerVars
  <2>3. Whole'
    BY <1>2, WholeKept DEF PushRefused
  <2>4. QED
    BY <2>1, <2>2, <2>3
<1>3. CASE PushCopy
  <2>1. FifoTypeOK'
    BY <1>3 DEF FifoTypeOK, PushCopy, consumerVars
  <2>2. Pushing'
    BY <1>3 DEF Pushing, IsFull, PushCopy
  <2>3. Popping'
    BY <1>3, <1>0 DEF Popping, IsEmpty, FifoTypeOK, PushCopy, consumerVars
  <2>4. Whole'
    <3>1. \A j \in 1 .. Count : items'[Slot(j)] = items[Slot(j)]
      BY <1>3, <1>0, FreeSlot DEF FifoTypeOK, PushCopy
    <3>2. QED
      BY <1>3, <3>1, WholeKept DEF PushCopy
  <2>5. QED
    BY <2>1, <2>2, <2>3, <2>4
<1>4. CASE PushCopied
  <2>1. FifoTypeOK'
    BY <1>4 DEF FifoTypeOK, PushCopied, consumerVars
  <2>2. Pushing'
    BY <1>4 DEF Pushing, IsFull, FifoTypeOK, PushCopied
  <2>3. Popping'
    BY <1>4, <1>0 DEF Popping, IsEmpty, FifoTypeOK, PushCopied, consumerVars
  <2>4. Whole'
    <3>1. \A j \in 1 .. Count : items'[Slot(j)] = items[Slot(j)]
      BY <1>4, <1>0, FreeSlot DEF FifoTypeOK, PushCopied
    <3>2. QED
      BY <1>4, <3>1, WholeKept DEF PushCopied
  <2>5. QED
    BY <2>1, <2>2, <2>3, <2>4
<1>5. CASE PushPublish
  <2>1. FifoTypeOK'
    BY <1>5, <1>0, NextPosition DEF FifoTypeOK, PushPublish, consumerVars
  <2>2. Pushing'
    BY <1>5 DEF Pushing, PushPublish
  <2>3. Popping'
    BY <1>5 DEF Popping, Pushing, IsFull, IsEmpty, PushPublish, consumerVars
  <2>4. Whole'
    <3>1. /\ Count' = Count + 1 /\ Slot(Count + 1) = writePos
          /\ \A j : Slot(j)' = Slot(j)
      BY <1>5, <1>0, CountAfterPublish DEF Pushing, PushPublish, Slot
    <3>2. items'[writePos] \in Datagrams
      BY <1>5 DEF Pushing, PushPublish
    <3>3. Count \in Nat
      BY <1>0, CountIs, FifoAssumption DEF Positions
    <3>4. ASSUME NEW j \in 1 .. Count' PROVE items'[Slot(j)'] \in Datagrams
      <4>1. CASE j = Count + 1
        BY <4>1, <3>1, <3>2
      <4>2. CASE j \in 1 .. Count
        BY <4>2, <3>1, <1>5 DEF Whole, PushPublish
      <4>3. QED
        BY <4>1, <4>2, <3>1, <3>3
    <3>5. QED
      BY <3>4 DEF Whole
  <2>5. QED
    BY <2>1, <2>2, <2>3, <2>4
<1>6. CASE PopCopy
  <2>1. FifoTypeOK'
    BY <1>6 DEF FifoTypeOK, PopCopy, producerVars
  <2>2. Pushing' /\ Popping'
    BY <1>6 DEF Pushing, Popping, IsFull, IsEmpty, PopCopy, producerVars
  <2>3. Whole'
    BY <1>6, WholeKept DEF PopCopy
  <2>4. QED
    BY <2>1, <2>2, <2>3
<1>7. CASE PopAdvance
  <2>1. /\ Count \in Positions /\ Count >= 1 /\ Count' = Count - 1
        /\ Slot(1) = fifoReadPos
        /\ \A j \in 1 .. Count - 1 : Slot(j)' = Slot(j + 1)
    BY <1>7, <1>0, CountAfterAdvance DEF Popping, PopAdvance
  <2>2. item \in Datagrams
    BY <1>7, <2>1 DEF Popping, PopAdvance, Whole, Positions
  <2>3. FifoTypeOK'
    BY <1>7, <1>0, <2>2, NextPosition DEF FifoTypeOK, PopAdvance, producerVars
  <2>4. Pushing'
    <3>1. CASE producer \in {"copying", "publish"}
      <4>1. NextPos(writePos) # NextPos(fifoReadPos)
        <5>1. writePos # fifoReadPos /\ writePos \in Positions /\ fifoReadPos \in Positions
          BY <1>7, <1>0 DEF Popping, IsEmpty, PopAdvance
        <5>2. QED
          BY <5>1, NextPosition, FifoAssumption DEF Positions
      <4>2. QED
        BY <1>7, <4>1 DEF Pushing, IsFull, PopAdvance, producerVars, NextPos
    <3>2. CASE producer \notin {"copying", "publish"}
      BY <1>7, <3>2 DEF Pushing, PopAdvance, producerVars
    <3>3. QED
      BY <3>1, <3>2
  <2>5. Popping'
    BY <1>7 DEF Popping, PopAdvance
  <2>6. Whole'
    <3>1. ASSUME NEW j \in 1 .. Count' PROVE items'[Slot(j)'] \in Datagrams
      BY <1>7, <2>1 DEF Whole, PopAdvance, Positions
    <3>2. QED
      BY <3>1 DEF Whole
  <2>7. QED
    BY <2>3, <2>4, <2>5, <2>6
<1>8. CASE UNCHANGED fifoVars
  <2>1. FifoTypeOK' /\ Pushing' /\ Popping'
    BY <1>8 DEF FifoTypeOK, Pushing, Popping, IsFull, IsEmpty, fifoVars
  <2>2. Whole'
    BY <1>8, WholeKept DEF fifoVars
  <2>3. QED
    BY <2>1, <2>2
<1>9. QED
  BY <1>1, <1>2, <1>3, <1>4, <1>5, <1>6, <1>7, <1>8
     DEF FifoNext, Producer, Callback, Consumer

\* Callback and recvfrom never work on one slot at a time, and every waiting
\* slot is whole (socket.c:53-79), at whatever step the interrupt comes.
THEOREM FifoInvariant == FifoSpec => []FifoInv
<1>1. QED
  BY FifoInitInvariant, FifoStepInvariant, PTL DEF FifoSpec

-----------------------------------------------------------------------------
(* The refinement: initial states to initial states, every step to a step  *)
(* of the queue or to none.                                                *)
LEMMA WaitingIsSequence ==
  ASSUME FifoInv
  PROVE  /\ Count \in Nat
         /\ Waiting \in Seq(Datagrams)
         /\ Len(Waiting) = Count
         /\ Count <= FifoSize - 1
<1>1. Count \in Positions
  BY CountIs DEF FifoInv, FifoTypeOK
<1>2. Waiting \in [1 .. Count -> Datagrams]
  BY DEF FifoInv, Whole, Waiting
<1>3. Count \in Nat /\ Count <= FifoSize - 1
  BY <1>1, FifoAssumption DEF Positions
<1>4. QED
  BY <1>2, <1>3

\* The fresh ring is an empty queue.
LEMMA FifoInitRefines == FifoInit => Queue!Init
<1> SUFFICES ASSUME FifoInit PROVE Queue!Init
  OBVIOUS
<1>1. FifoInv
  BY FifoInitInvariant
<1>2. Count = 0
  BY FifoAssumption, ModSmall DEF FifoInit, Count
<1>3. Waiting = << >>
  BY <1>1, <1>2, WaitingIsSequence
<1>4. QED
  BY <1>3 DEF FifoInit, Queue!Init

\* A step that moves no position and touches no waiting slot is no step of
\* the queue.
LEMMA WaitingKept ==
  ASSUME FifoInv, fifoReadPos' = fifoReadPos, writePos' = writePos,
         \A j \in 1 .. Count : items'[Slot(j)] = items[Slot(j)]
  PROVE  Waiting' = Waiting
<1>1. Count' = Count /\ \A j : Slot(j)' = Slot(j)
  BY DEF Count, Slot
<1>2. Waiting' = [j \in 1 .. Count |-> items'[Slot(j)]]
  BY <1>1 DEF Waiting
<1>3. QED
  BY <1>2 DEF Waiting

\* The ring refuses a datagram only while FifoSize - 1 others wait (socket.c:56).
LEMMA RefusalRefines ==
  ASSUME FifoInv, PushRefused
  PROVE  Queue!Refuse(hand) /\ hand \in Datagrams
<1>0. fifoReadPos \in Positions /\ writePos \in Positions
  BY DEF FifoInv, FifoTypeOK
<1>1. Count = FifoSize - 1
  <2>1. NextPos(writePos) = IF writePos + 1 = FifoSize THEN 0 ELSE writePos + 1
    BY <1>0, NextPosition
  <2>2. Count = IF writePos >= fifoReadPos THEN writePos - fifoReadPos
                ELSE writePos - fifoReadPos + FifoSize
    BY <1>0, CountIs
  <2>3. NextPos(writePos) = fifoReadPos
    BY DEF PushRefused, IsFull
  <2>4. QED
    BY <1>0, <2>1, <2>2, <2>3, FifoAssumption DEF Positions
<1>2. Waiting' = Waiting
  BY WaitingKept DEF PushRefused
<1>3. hand \in Datagrams
  BY DEF FifoInv, Pushing, PushRefused
<1>4. QED
  BY <1>1, <1>2, <1>3, WaitingIsSequence DEF Queue!Refuse, PushRefused, consumerVars

\* A sequence is the function of its elements.
LEMMA SequenceIsFunction ==
  ASSUME NEW S, NEW s \in Seq(S)
  PROVE  s = [j \in 1 .. Len(s) |-> s[j]]
<1>1. s \in [1 .. Len(s) -> S]
  OBVIOUS
<1>2. QED
  BY <1>1

\* Moving the write position puts the datagram behind those that wait (socket.c:62).
LEMMA PublishRefines ==
  ASSUME FifoInv, PushPublish
  PROVE  Queue!Put(hand) /\ hand \in Datagrams
<1>0. fifoReadPos \in Positions /\ writePos \in Positions
  BY DEF FifoInv, FifoTypeOK
<1>1. /\ Count' = Count + 1 /\ Slot(Count + 1) = writePos
      /\ \A j : Slot(j)' = Slot(j)
      /\ Count + 1 \in Positions
  BY <1>0, CountAfterPublish DEF FifoInv, Pushing, PushPublish, Slot
<1>2. hand \in Datagrams /\ items[writePos] = hand /\ items' = items
  BY DEF FifoInv, Pushing, PushPublish
<1>3. Waiting' = [j \in 1 .. Count + 1 |-> items[Slot(j)]]
  BY <1>1, <1>2 DEF Waiting
<1>4. /\ Waiting \in Seq(Datagrams) /\ Len(Waiting) = Count /\ Count \in Nat
  BY WaitingIsSequence
<1>5. Waiting' = Append(Waiting, hand)
  <2>1. Append(Waiting, hand) =
          [j \in 1 .. Count + 1 |-> IF j = Count + 1 THEN hand ELSE Waiting[j]]
    <3>1. /\ Append(Waiting, hand) \in Seq(Datagrams)
          /\ Len(Append(Waiting, hand)) = Count + 1
          /\ \A j \in 1 .. Count + 1 :
               Append(Waiting, hand)[j] = IF j = Count + 1 THEN hand ELSE Waiting[j]
      BY <1>2, <1>4
    <3>2. Append(Waiting, hand) = [j \in 1 .. Count + 1 |-> Append(Waiting, hand)[j]]
      BY <3>1, SequenceIsFunction
    <3>3. QED
      BY <3>1, <3>2
  <2>2. ASSUME NEW j \in 1 .. Count + 1
        PROVE  items[Slot(j)] = IF j = Count + 1 THEN hand ELSE Waiting[j]
    <3>1. CASE j = Count + 1
      BY <3>1, <1>1, <1>2
    <3>2. CASE j # Count + 1
      <4>1. j \in 1 .. Count
        BY <3>2, <1>4
      <4>2. QED
        BY <3>2, <4>1 DEF Waiting
    <3>3. QED
      BY <3>1, <3>2
  <2>3. QED
    BY <1>3, <2>1, <2>2
<1>6. Len(Waiting) < FifoSize - 1
  BY <1>1, <1>4, FifoAssumption DEF Positions
<1>7. QED
  BY <1>2, <1>5, <1>6 DEF Queue!Put, PushPublish, consumerVars

\* Moving the read position takes the datagram at the front (socket.c:74).
LEMMA AdvanceRefines ==
  ASSUME FifoInv, PopAdvance
  PROVE  Queue!Get
<1>0. fifoReadPos \in Positions /\ writePos \in Positions
  BY DEF FifoInv, FifoTypeOK
<1>1. /\ Count \in Positions /\ Count >= 1 /\ Count' = Count - 1
      /\ Slot(1) = fifoReadPos
      /\ \A j \in 1 .. Count - 1 : Slot(j)' = Slot(j + 1)
  BY <1>0, CountAfterAdvance DEF FifoInv, Popping, PopAdvance
<1>2. Waiting \in Seq(Datagrams) /\ Len(Waiting) = Count /\ Count \in Nat
  BY WaitingIsSequence
<1>3. Waiting # << >> /\ Head(Waiting) = item
  <2>1. Waiting[1] = items[Slot(1)]
    BY <1>1, <1>2 DEF Waiting
  <2>2. item = items[fifoReadPos]
    BY DEF FifoInv, Popping, PopAdvance
  <2>3. QED
    BY <1>1, <1>2, <2>1, <2>2
<1>4. Waiting' = [j \in 1 .. Count - 1 |-> Waiting[j + 1]]
  <2>1. Waiting' = [j \in 1 .. Count - 1 |-> items[Slot(j)']]
    BY <1>1 DEF Waiting, PopAdvance
  <2>2. ASSUME NEW j \in 1 .. Count - 1
        PROVE  items[Slot(j)'] = Waiting[j + 1]
    <3>1. j + 1 \in 1 .. Count
      BY <1>2
    <3>2. Waiting[j + 1] = items[Slot(j + 1)]
      BY <3>1 DEF Waiting
    <3>3. QED
      BY <1>1, <3>2
  <2>3. QED
    BY <2>1, <2>2
<1>5. Tail(Waiting) = [j \in 1 .. Count - 1 |-> Waiting[j + 1]]
  <2>1. /\ Tail(Waiting) \in Seq(Datagrams)
        /\ Len(Tail(Waiting)) = Count - 1
        /\ \A j \in 1 .. Count - 1 : Tail(Waiting)[j] = Waiting[j + 1]
    BY <1>2, <1>3
  <2>2. Tail(Waiting) = [j \in 1 .. Count - 1 |-> Tail(Waiting)[j]]
    BY <2>1, SequenceIsFunction
  <2>3. QED
    BY <2>1, <2>2
<1>6. QED
  BY <1>3, <1>4, <1>5 DEF Queue!Get, PopAdvance, producerVars

\* Every step of the ring is one of the queue, or changes nothing in it.
LEMMA FifoStepRefines ==
  ASSUME FifoInv, [FifoNext]_fifoVars
  PROVE  [Queue!Next]_<<Waiting, got, refused>>
<1>0. fifoReadPos \in Positions /\ writePos \in Positions
  BY DEF FifoInv, FifoTypeOK
<1>1. ASSUME NEW d \in Datagrams, RecvCallback(d)
      PROVE  UNCHANGED <<Waiting, got, refused>>
  BY <1>1, WaitingKept DEF RecvCallback, consumerVars
<1>2. CASE PushRefused
  BY <1>2, RefusalRefines DEF Queue!Next
<1>3. CASE PushCopy
  <2>1. \A j \in 1 .. Count : items'[Slot(j)] = items[Slot(j)]
    BY <1>3, <1>0, FreeSlot DEF FifoInv, FifoTypeOK, PushCopy
  <2>2. QED
    BY <1>3, <2>1, WaitingKept DEF PushCopy, consumerVars
<1>4. CASE PushCopied
  <2>1. \A j \in 1 .. Count : items'[Slot(j)] = items[Slot(j)]
    BY <1>4, <1>0, FreeSlot DEF FifoInv, FifoTypeOK, PushCopied
  <2>2. QED
    BY <1>4, <2>1, WaitingKept DEF PushCopied, consumerVars
<1>5. CASE PushPublish
  BY <1>5, PublishRefines DEF Queue!Next
<1>6. CASE PopCopy
  BY <1>6, WaitingKept DEF PopCopy, producerVars
<1>7. CASE PopAdvance
  BY <1>7, AdvanceRefines DEF Queue!Next
<1>8. CASE UNCHANGED fifoVars
  BY <1>8, WaitingKept DEF fifoVars
<1>9. QED
  BY <1>1, <1>2, <1>3, <1>4, <1>5, <1>6, <1>7, <1>8
     DEF FifoNext, Producer, Callback, Consumer

\* The ring implements the bounded queue of FifoSize - 1 datagrams
\* (socket.c:44-79).
THEOREM RingImplementsQueue == FifoSpec => FifoIsQueue
<1>1. FifoInit => Queue!Init
  BY FifoInitRefines
<1>2. FifoInv /\ [FifoNext]_fifoVars => [Queue!Next]_<<Waiting, got, refused>>
  BY FifoStepRefines
<1>3. QED
  BY <1>1, <1>2, FifoInvariant, PTL DEF FifoSpec, FifoIsQueue, Queue!Spec

-----------------------------------------------------------------------------
(* The TCP receive buffer (TcpRx)                                          *)

\* The buffer has been read no further than it is filled; between the copy and the
\* test of rx_len nothing is stored in a polling build, and what is emptied has
\* been read.
TcpInv ==
  /\ TcpTypeOK
  /\ sentBytes \in 0 .. MaxBytes
  /\ given \in Seq(1 .. MaxBytes) /\ stored \in Seq(1 .. MaxBytes)
  /\ readPos <= Len(rx)
  /\ reader = "test" => seenLen = Len(rx)
  /\ reader = "reset" => readPos = Len(rx)
  /\ StoredIsRead

\* The constants of the buffer, as numbers (socket.c:103).
LEMMA TcpConstants ==
  /\ RxBufSize \in Nat /\ RxBufSize > 0 /\ Window \in Nat /\ MaxBytes \in Nat
  /\ MaxSegment \in Nat /\ MaxRead \in Nat
BY TcpRxAssumption DEF TcpRxAssumption

\* What is appended to the buffer is appended to what is left to read.
LEMMA UnreadGrows ==
  ASSUME NEW S, NEW s \in Seq(S), NEW t \in Seq(S), NEW p \in 0 .. Len(s)
  PROVE  SubSeq(s \o t, p + 1, Len(s \o t)) = SubSeq(s, p + 1, Len(s)) \o t
<1>1. /\ s \o t \in Seq(S) /\ Len(s \o t) = Len(s) + Len(t)
      /\ \A i \in 1 .. Len(s) + Len(t) :
           (s \o t)[i] = IF i <= Len(s) THEN s[i] ELSE t[i - Len(s)]
  BY ConcatProperties
<1>2. Len(s) \in Nat /\ Len(t) \in Nat
  OBVIOUS
<1> DEFINE a == SubSeq(s \o t, p + 1, Len(s \o t))
           u == SubSeq(s, p + 1, Len(s))
<1>3. /\ a \in Seq(S) /\ Len(a) = Len(s) + Len(t) - p
      /\ \A i \in 1 .. Len(s) + Len(t) - p : a[i] = (s \o t)[p + i]
  <2>1. \A i \in p + 1 .. Len(s \o t) : (s \o t)[i] \in S
    BY <1>1, <1>2, ElementOfSeq
  <2>2. /\ SubSeq(s \o t, p + 1, Len(s \o t)) \in Seq(S)
        /\ Len(SubSeq(s \o t, p + 1, Len(s \o t)))
             = IF p + 1 <= Len(s \o t) THEN Len(s \o t) - (p + 1) + 1 ELSE 0
        /\ \A i \in 1 .. Len(s \o t) - (p + 1) + 1 :
             SubSeq(s \o t, p + 1, Len(s \o t))[i] = (s \o t)[(p + 1) + i - 1]
    BY <2>1, <1>1, <1>2, SubSeqProperties
  <2>3. QED
    BY <2>2, <1>1, <1>2
<1>4. /\ u \in Seq(S) /\ Len(u) = Len(s) - p
      /\ \A i \in 1 .. Len(s) - p : u[i] = s[p + i]
  <2>1. \A i \in p + 1 .. Len(s) : s[i] \in S
    BY <1>2, ElementOfSeq
  <2>2. /\ SubSeq(s, p + 1, Len(s)) \in Seq(S)
        /\ Len(SubSeq(s, p + 1, Len(s))) = IF p + 1 <= Len(s) THEN Len(s) - (p + 1) + 1 ELSE 0
        /\ \A i \in 1 .. Len(s) - (p + 1) + 1 :
             SubSeq(s, p + 1, Len(s))[i] = s[(p + 1) + i - 1]
    BY <2>1, <1>2, SubSeqProperties
  <2>3. QED
    BY <2>2, <1>2
<1> HIDE DEF a, u
<1>5. /\ u \o t \in Seq(S) /\ Len(u \o t) = Len(s) - p + Len(t)
      /\ \A i \in 1 .. Len(s) - p + Len(t) :
           (u \o t)[i] = IF i <= Len(s) - p THEN u[i] ELSE t[i - (Len(s) - p)]
  <2>1. /\ u \o t \in Seq(S) /\ Len(u \o t) = Len(u) + Len(t)
        /\ \A i \in 1 .. Len(u) + Len(t) :
             (u \o t)[i] = IF i <= Len(u) THEN u[i] ELSE t[i - Len(u)]
    BY <1>4, ConcatProperties
  <2>2. QED
    BY <1>2, <1>4, <2>1
<1>6. ASSUME NEW i \in 1 .. Len(a) PROVE a[i] = (u \o t)[i]
  BY <1>6, <1>1, <1>2, <1>3, <1>4, <1>5
<1>7. a = u \o t
  <2>1. Len(a) = Len(u \o t)
    BY <1>2, <1>3, <1>5
  <2>2. a \in Seq(S) /\ u \o t \in Seq(S)
    BY <1>3, <1>5
  <2>3. QED
    BY <2>1, <2>2, <1>6, SeqEqual
<1>8. QED
  BY <1>7 DEF a, u

\* What was read and what is left make up what was left before.
LEMMA UnreadSplits ==
  ASSUME NEW S, NEW s \in Seq(S), NEW p \in 0 .. Len(s), NEW n \in 0 .. Len(s) - p
  PROVE  SubSeq(s, p + 1, p + n) \o SubSeq(s, p + n + 1, Len(s)) = SubSeq(s, p + 1, Len(s))
<1>1. /\ p + 1 \in 1 .. Len(s) + 1
      /\ p + n \in (p + 1) - 1 .. Len(s)
      /\ Len(s) \in p + n .. Len(s)
  OBVIOUS
<1>2. QED
  BY <1>1, ConcatAdjacentSubSeq

\* The length of a sequence given as a function.
LEMMA LenIs ==
  ASSUME NEW S, NEW n \in Nat, NEW f \in [1 .. n -> S]
  PROVE  f \in Seq(S) /\ Len(f) = n
OBVIOUS

\* A part of a sequence is a sequence.
LEMMA PartIsSequence ==
  ASSUME NEW S, NEW s \in Seq(S), NEW m \in 1 .. Len(s) + 1, NEW n \in 0 .. Len(s)
  PROVE  SubSeq(s, m, n) \in Seq(S)
<1>1. \A i \in m .. n : s[i] \in S
  BY ElementOfSeq
<1>2. QED
  BY <1>1, SubSeqProperties

\* A new connection has an empty buffer and nothing read.
LEMMA TcpInitInvariant == TcpInit => TcpInv
<1> SUFFICES ASSUME TcpInit PROVE TcpInv
  OBVIOUS
<1>1. TcpTypeOK
  <2>1. rx \in Seq(1 .. MaxBytes) /\ Len(rx) <= RxBufSize
    BY EmptySeq, TcpConstants DEF TcpInit
  <2>2. readPos \in 0 .. RxBufSize /\ wnd \in 0 .. Window
    BY TcpConstants DEF TcpInit
  <2>3. QED
    BY <2>1, <2>2 DEF TcpInit, TcpTypeOK
<1>2. StoredIsRead
  <2>1. SubSeq(rx, readPos + 1, Len(rx)) = << >>
    BY SubSeqEmpty DEF TcpInit
  <2>2. QED
    BY <2>1 DEF StoredIsRead, TcpInit
<1>3. given \in Seq(1 .. MaxBytes) /\ stored \in Seq(1 .. MaxBytes)
  BY EmptySeq DEF TcpInit
<1>4. /\ readPos <= Len(rx) /\ sentBytes \in 0 .. MaxBytes
      /\ reader \notin {"test", "reset"}
  BY TcpConstants DEF TcpInit
<1>5. QED
  BY <1>1, <1>2, <1>3, <1>4 DEF TcpInv

\* Every step of lwIP's callbacks and of tcp_socket_recv keeps that, if the
\* callbacks run inside cyw43_arch_poll only.
LEMMA TcpStepInvariant ==
  ASSUME Polling, TcpInv, [TcpNext]_tcpVars
  PROVE  TcpInv'
<1> DEFINE unread == SubSeq(rx, readPos + 1, Len(rx))
<1>0. /\ rx \in Seq(1 .. MaxBytes) /\ Len(rx) \in Nat /\ Len(rx) <= RxBufSize
      /\ readPos \in 0 .. Len(rx)
      /\ given \in Seq(1 .. MaxBytes) /\ stored \in Seq(1 .. MaxBytes)
      /\ given \o unread = stored
  <2>1. rx \in Seq(1 .. MaxBytes) /\ Len(rx) <= RxBufSize /\ readPos \in 0 .. RxBufSize
    BY DEF TcpInv, TcpTypeOK
  <2>2. Len(rx) \in Nat
    BY <2>1
  <2>3. readPos \in 0 .. Len(rx)
    BY <2>1, <2>2, TcpConstants DEF TcpInv
  <2>4. QED
    BY <2>1, <2>2, <2>3 DEF TcpInv, StoredIsRead
<1>1. ASSUME NEW n \in 1 .. MaxSegment, TcpRecvCallback(n) PROVE TcpInv'
  <2> DEFINE len == Fitting(n)
             bytes == [b \in 1 .. len |-> sentBytes + b]
  <2>1. len \in 0 .. n /\ len <= RxBufSize - Len(rx)
    BY <1>0, TcpConstants DEF Fitting, Smaller
  <2>2. bytes \in Seq(1 .. MaxBytes) /\ Len(bytes) = len
    <3>1. \A b \in 1 .. len : sentBytes + b \in 1 .. MaxBytes
      BY <1>1, <2>1, TcpConstants DEF TcpRecvCallback, TcpInv
    <3>2. bytes \in [1 .. len -> 1 .. MaxBytes]
      BY <3>1 DEF bytes
    <3>3. len \in Nat
      BY <2>1
    <3>4. QED
      BY <3>2, <3>3, LenIs
  <2>3. /\ rx' = rx \o bytes /\ stored' = stored \o bytes /\ wnd' = wnd - n + len
        /\ sentBytes' = sentBytes + n /\ n <= wnd /\ sentBytes + n <= MaxBytes
        /\ readPos' = readPos /\ given' = given /\ seenLen' = seenLen
        /\ reader' = reader /\ error' = error /\ reader = "poll"
    BY <1>1 DEF TcpRecvCallback, MayCallBack
  <2> HIDE DEF len, bytes
  <2>4. /\ rx' \in Seq(1 .. MaxBytes) /\ Len(rx') = Len(rx) + len
        /\ stored' \in Seq(1 .. MaxBytes)
    BY <1>0, <2>2, <2>3, ConcatProperties
  <2>5. TcpTypeOK'
    BY <1>0, <2>1, <2>3, <2>4, TcpConstants DEF TcpInv, TcpTypeOK
  <2>6. StoredIsRead'
    <3>1. SubSeq(rx', readPos' + 1, Len(rx')) = unread \o bytes
      BY <1>0, <2>2, <2>3, UnreadGrows
    <3>2. unread \in Seq(1 .. MaxBytes)
      <4>1. readPos + 1 \in 1 .. Len(rx) + 1 /\ Len(rx) \in 0 .. Len(rx)
        BY <1>0
      <4>2. QED
        BY <1>0, <4>1, PartIsSequence
    <3> HIDE DEF unread
    <3>3. given \o (unread \o bytes) = (given \o unread) \o bytes
      <4>1. given \in Seq(1 .. MaxBytes) /\ bytes \in Seq(1 .. MaxBytes)
        BY <1>0, <2>2
      <4>2. QED
        BY <3>2, <4>1, ConcatAssociative
    <3>4. QED
      BY <1>0, <2>3, <3>1, <3>3 DEF StoredIsRead
  <2>7. QED
    BY <1>0, <2>1, <2>3, <2>4, <2>5, <2>6, TcpConstants DEF TcpInv
<1>2. ASSUME NEW len \in 1 .. MaxRead, RecvCopy(len) PROVE TcpInv'
  <2> DEFINE n == Smaller(Len(rx) - readPos, len)
             read == SubSeq(rx, readPos + 1, readPos + n)
             later == SubSeq(rx, readPos + n + 1, Len(rx))
  <2>1. n \in 0 .. Len(rx) - readPos
    BY <1>0, TcpConstants DEF Smaller
  <2>2. /\ given' = given \o read
        /\ readPos' = readPos + n /\ seenLen' = Len(rx) /\ reader' = "test"
        /\ rx' = rx /\ stored' = stored /\ wnd' = wnd /\ error' = error
        /\ sentBytes' = sentBytes
    BY <1>2 DEF RecvCopy, Copy
  <2> HIDE DEF n
  <2>3. read \in Seq(1 .. MaxBytes) /\ later \in Seq(1 .. MaxBytes)
    <3>1. /\ readPos + 1 \in 1 .. Len(rx) + 1 /\ readPos + n \in 0 .. Len(rx)
          /\ readPos + n + 1 \in 1 .. Len(rx) + 1 /\ Len(rx) \in 0 .. Len(rx)
      BY <1>0, <2>1
    <3>2. QED
      BY <1>0, <3>1, PartIsSequence
  <2>4. given' \in Seq(1 .. MaxBytes)
    BY <1>0, <2>2, <2>3, ConcatProperties
  <2>5. TcpTypeOK'
    BY <1>0, <2>1, <2>2, TcpConstants DEF TcpInv, TcpTypeOK
  <2>6. StoredIsRead'
    <3>1. read \o later = unread
      BY <1>0, <2>1, UnreadSplits
    <3>2. SubSeq(rx', readPos' + 1, Len(rx')) = later
      BY <2>2
    <3> HIDE DEF read, later, unread
    <3>3. (given \o read) \o later = given \o (read \o later)
      <4>1. given \in Seq(1 .. MaxBytes)
        BY <1>0
      <4>2. QED
        BY <2>3, <4>1, ConcatAssociative
    <3>4. QED
      BY <1>0, <2>2, <3>1, <3>2, <3>3 DEF StoredIsRead
  <2>7. QED
    BY <1>0, <2>1, <2>2, <2>4, <2>5, <2>6 DEF TcpInv
<1>3. CASE RecvReset
  <2>1. /\ rx' = << >> /\ readPos' = 0 /\ readPos = Len(rx) /\ reader' = "idle"
        /\ given' = given /\ stored' = stored
    BY <1>3 DEF RecvReset, TcpInv
  <2>2. SubSeq(rx, readPos + 1, Len(rx)) = << >> /\ SubSeq(rx', readPos' + 1, Len(rx')) = << >>
    BY <1>0, <2>1, SubSeqEmpty
  <2>3. StoredIsRead'
    BY <1>0, <2>1, <2>2 DEF StoredIsRead
  <2>4. TcpTypeOK'
    BY <1>3, TcpConstants DEF RecvReset, TcpInv, TcpTypeOK
  <2>5. QED
    BY <1>3, <2>1, <2>3, <2>4 DEF RecvReset, TcpInv
<1>4. CASE RecvTest
  <2>1. reader' \in {"idle", "reset"} /\ (reader' = "reset" => readPos = Len(rx))
    BY <1>0, <1>4 DEF RecvTest, Consumed, TcpInv
  <2>2. UNCHANGED <<rx, readPos, error, seenLen, wnd, sentBytes, stored, given>>
    BY <1>4 DEF RecvTest
  <2>3. QED
    BY <2>1, <2>2 DEF TcpInv, TcpTypeOK, StoredIsRead
<1>5. CASE TcpError \/ Recv \/ RecvNothing \/ UNCHANGED tcpVars
  BY <1>5 DEF TcpError, Recv, RecvNothing, tcpVars, TcpInv, TcpTypeOK, StoredIsRead
<1>6. QED
  BY <1>1, <1>2, <1>3, <1>4, <1>5 DEF TcpNext, Reader

\* In a polling build every byte that was stored and acknowledged to the peer is
\* read once and in order, whatever the sizes of segments, reads and buffer
\* (socket.c:113-133, 755-788).
THEOREM TcpStoredIsRead == Polling => (TcpSpec => []StoredIsRead)
<1> SUFFICES ASSUME Polling PROVE TcpSpec => []StoredIsRead
  OBVIOUS
<1>1. TcpInv /\ [TcpNext]_tcpVars => TcpInv'
  BY TcpStepInvariant
<1>2. TcpInv => StoredIsRead
  BY DEF TcpInv
<1>3. QED
  BY TcpInitInvariant, <1>1, <1>2, PTL DEF TcpSpec

-----------------------------------------------------------------------------
(* TCP connections on one socket (TcpSocket)                               *)

PcbStates == {"new", "opening", "open", "closing", "ended", "freed"}
Pcb == [st : PcbStates, attached : BOOLEAN]
SocketRecord == [pcb : Nat, connected : Nat, error : Nat, rx : Seq(Nat)]
InUse == caller \in {"opened", "waiting", "using"}

\* Whose callbacks may have written to the socket since it was cleared.
Own == {0} \cup left \cup (IF InUse THEN {Current} ELSE {})

SocketTypeOK ==
  /\ pcbs \in Seq(Pcb)
  /\ sock \in SocketRecord
  /\ caller \in {"idle", "cleared", "opened", "waiting", "using"}

\* The pcb in use is attached, and beside it only forgotten ones, until freed.
OwnCallbacks ==
  \A c \in DOMAIN pcbs :
    pcbs[c].attached /\ pcbs[c].st # "freed" => c \in Own

\* From open on, the socket knows no pcb but the one made for it.
OwnPcb ==
  /\ InUse => Len(pcbs) > 0 /\ sock.pcb \in {0, Current}

\* What the socket and the caller know stems from such callbacks.
OwnWrites ==
  caller # "idle" =>
    /\ sock.connected \in Own /\ sock.error \in Own
    /\ \A j \in DOMAIN sock.rx : sock.rx[j] \in Own
    /\ heard \subseteq Own

\* Whatever reaches the socket comes from its own pcb or from one forgotten at
\* tcp_close.
SocketInv == SocketTypeOK /\ OwnCallbacks /\ OwnPcb /\ OwnWrites

\* A pcb that only changes its state stays attached or not.
LEMMA PcbMoves ==
  ASSUME SocketTypeOK, NEW c \in DOMAIN pcbs, NEW st \in PcbStates,
         pcbs' = [pcbs EXCEPT ![c].st = st]
  PROVE  /\ pcbs' \in Seq(Pcb)
         /\ Len(pcbs') = Len(pcbs) /\ DOMAIN pcbs' = DOMAIN pcbs
         /\ \A d \in DOMAIN pcbs : d # c => pcbs'[d] = pcbs[d]
         /\ pcbs'[c].attached = pcbs[c].attached
<1>1. pcbs \in Seq(Pcb) /\ Len(pcbs) \in Nat /\ DOMAIN pcbs = 1 .. Len(pcbs)
  BY DEF SocketTypeOK, Pcb
<1>2. pcbs[c] \in Pcb
  BY <1>1, ElementOfSeq
<1> DEFINE e == [pcbs[c] EXCEPT !.st = st]
<1>3. e \in Pcb /\ e.attached = pcbs[c].attached
  BY <1>2 DEF Pcb
<1>4. pcbs' = [pcbs EXCEPT ![c] = e]
  BY <1>2
<1> HIDE DEF e
<1>5. c \in 1 .. Len(pcbs)
  BY <1>1
<1>6. /\ pcbs' \in Seq(Pcb) /\ Len(pcbs') = Len(pcbs)
      /\ \A d \in 1 .. Len(pcbs) : pcbs'[d] = IF d = c THEN e ELSE pcbs[d]
  BY <1>1, <1>3, <1>4, <1>5, ExceptSeq
<1>7. QED
  BY <1>1, <1>3, <1>5, <1>6, LenProperties

\* Nothing is open at the start.
LEMMA SocketInitInvariant == SocketInit => SocketInv
BY DEF SocketInit, SocketInv, SocketRecord, Pcb, SocketTypeOK, OwnCallbacks, OwnPcb, OwnWrites, Cleared, PcbStates, InUse

\* Opening, connecting, using and closing the socket and every callback of lwIP keep
\* that: tcp_socket_close detaches the callbacks before tcp_close, and where it does
\* not, or a connect fails without a close, the pcb counts as left (socket.c:582-684).
LEMMA SocketStepInvariant ==
  ASSUME SocketInv, [SocketNext]_socketVars
  PROVE  SocketInv'
<1> USE DEF SocketInv
<1> USE DEF InUse, Current
<1>0. Len(pcbs) \in Nat /\ DOMAIN pcbs = 1 .. Len(pcbs)
  BY DEF SocketTypeOK
<1>1. CASE Open
  <2>1. SocketTypeOK'
    BY <1>1 DEF SocketTypeOK, SocketRecord, Open, Cleared
  <2>2. OwnCallbacks'
    BY <1>1 DEF OwnCallbacks, Own, Open
  <2>3. OwnPcb'
    BY <1>1 DEF OwnPcb, Open
  <2>4. OwnWrites'
    BY <1>1 DEF OwnWrites, Own, Open, Cleared
  <2>5. QED
    BY <2>1, <2>2, <2>3, <2>4
<1>2. CASE NewPcb
  <2> DEFINE pcb == [st |-> "new", attached |-> TRUE]
  <2>1. /\ pcbs' = Append(pcbs, pcb) /\ Len(pcbs') = Len(pcbs) + 1
        /\ pcbs' \in Seq(Pcb)
        /\ \A c \in 1 .. Len(pcbs) : pcbs'[c] = pcbs[c]
        /\ DOMAIN pcbs' = 1 .. Len(pcbs) + 1
    <3>1. pcb \in Pcb
      BY DEF Pcb, PcbStates
    <3>2. QED
      BY <1>2, <3>1, AppendProperties DEF NewPcb, SocketTypeOK
  <2>2. SocketTypeOK'
    <3>1. sock' \in SocketRecord
      <4>1. sock' = [sock EXCEPT !.pcb = Len(pcbs) + 1] /\ Len(pcbs) + 1 \in Nat
        BY <1>0, <1>2, <2>1 DEF NewPcb
      <4>2. QED
        BY <4>1 DEF SocketTypeOK, SocketRecord
    <3>2. QED
      BY <1>2, <2>1, <3>1 DEF SocketTypeOK, NewPcb
  <2>3. OwnCallbacks'
    BY <1>0, <1>2, <2>1 DEF OwnCallbacks, Own, NewPcb
  <2>4. OwnPcb'
    BY <1>0, <1>2, <2>1 DEF OwnPcb, NewPcb, SocketTypeOK
  <2>5. OwnWrites'
    BY <1>2, <2>1 DEF OwnWrites, Own, NewPcb, SocketTypeOK
  <2>6. QED
    BY <2>2, <2>3, <2>4, <2>5
<1>3. CASE OpenFails
  BY <1>3 DEF SocketTypeOK, OwnCallbacks, OwnPcb, OwnWrites, Own, OpenFails
<1>4. CASE Connect
  <2>1. /\ pcbs' = [pcbs EXCEPT ![sock.pcb].st = "opening"] /\ sock.pcb = Current
        /\ Current \in DOMAIN pcbs /\ caller = "opened" /\ caller' = "waiting"
        /\ UNCHANGED <<sock, left, heard>>
    BY <1>0, <1>4 DEF Connect, OwnPcb
  <2>2. /\ pcbs' \in Seq(Pcb)
        /\ Len(pcbs') = Len(pcbs) /\ DOMAIN pcbs' = DOMAIN pcbs
        /\ \A c \in DOMAIN pcbs : c # Current => pcbs'[c] = pcbs[c]
    BY <2>1, PcbMoves DEF PcbStates
  <2>3. SocketTypeOK'
    BY <2>1, <2>2 DEF SocketTypeOK
  <2>4. OwnCallbacks'
    BY <2>1, <2>2 DEF OwnCallbacks, Own
  <2>5. OwnPcb'
    BY <1>0, <2>1, <2>2 DEF OwnPcb
  <2>6. OwnWrites'
    <3>1. Own' = Own
      BY <2>1, <2>2 DEF Own
    <3>2. QED
      BY <2>1, <3>1 DEF OwnWrites
  <2>7. QED
    BY <2>3, <2>4, <2>5, <2>6
<1>5. CASE ConnectFails
  <2>1. SocketTypeOK' /\ OwnPcb' /\ OwnWrites'
    BY <1>5 DEF SocketTypeOK, OwnPcb, OwnWrites, ConnectFails
  <2>2. OwnCallbacks'
    BY <1>5 DEF OwnCallbacks, Own, ConnectFails, Alive
  <2>3. QED
    BY <2>1, <2>2
<1>6. CASE ConnectSucceeds
  BY <1>6 DEF SocketTypeOK, OwnCallbacks, OwnPcb, OwnWrites, Own, ConnectSucceeds
<1>7. CASE TakeBytes
  <2>1. SocketTypeOK'
    <3>1. sock' \in SocketRecord
      BY <1>7, EmptySeq DEF SocketTypeOK, TakeBytes, SocketRecord
    <3>2. QED
      BY <1>7, <3>1 DEF SocketTypeOK, TakeBytes
  <2>2. OwnCallbacks' /\ OwnPcb'
    BY <1>7 DEF OwnCallbacks, OwnPcb, Own, TakeBytes, SocketTypeOK
  <2>3. OwnWrites'
    <3>1. ToSet(sock.rx) \subseteq Own
      BY <1>7 DEF ToSet, OwnWrites, TakeBytes
    <3>2. QED
      BY <1>7, <3>1 DEF OwnWrites, Own, TakeBytes, SocketTypeOK
  <2>4. QED
    BY <2>1, <2>2, <2>3
<1>8. CASE Close
  <2>1. /\ pcbs' \in [1 .. Len(pcbs) -> Pcb]
        /\ \A c \in DOMAIN pcbs :
             pcbs'[c] = IF c = sock.pcb THEN Closed(pcbs[c]) ELSE pcbs[c]
    <3>1. ASSUME NEW p \in Pcb PROVE Closed(p) \in Pcb
      BY DEF Pcb, PcbStates, Closed, Ended
    <3>2. \A c \in 1 .. Len(pcbs) : pcbs[c] \in Pcb
      BY ElementOfSeq DEF SocketTypeOK
    <3>3. pcbs' = [c \in 1 .. Len(pcbs) |->
                     IF c = sock.pcb THEN Closed(pcbs[c]) ELSE pcbs[c]]
      BY <1>0, <1>8 DEF Close
    <3>4. QED
      BY <1>0, <3>1, <3>2, <3>3
  <2>2. /\ pcbs' \in Seq(Pcb) /\ DOMAIN pcbs' = DOMAIN pcbs
        /\ Len(pcbs') = Len(pcbs)
    BY <1>0, <2>1
  <2>3. SocketTypeOK'
    <3>1. sock' \in SocketRecord
      BY <1>8 DEF SocketTypeOK, Close, SocketRecord
    <3>2. QED
      BY <1>8, <2>2, <3>1 DEF SocketTypeOK, Close
  <2>4. OwnCallbacks'
    BY <1>0, <1>8, <2>1, <2>2 DEF OwnCallbacks, OwnPcb, Own, Close, Closed, Alive
  <2>5. OwnPcb' /\ OwnWrites'
    BY <1>8 DEF OwnPcb, OwnWrites, Close
  <2>6. QED
    BY <2>3, <2>4, <2>5
<1>9. ASSUME NEW c \in DOMAIN pcbs, Lwip(c) PROVE SocketInv'
  <2>1. UNCHANGED <<caller, left, heard>>
    BY <1>9 DEF Lwip
  <2>2. pcbs[c].st # "freed"
    BY <1>9 DEF Lwip, Established, Segment, Fin, Dies
  <2>3. pcbs[c].attached => c \in Own
    BY <2>2 DEF OwnCallbacks
  <2>4. /\ pcbs' \in Seq(Pcb)
        /\ Len(pcbs') = Len(pcbs) /\ DOMAIN pcbs' = DOMAIN pcbs
        /\ \A d \in DOMAIN pcbs : d # c => pcbs'[d] = pcbs[d]
        /\ pcbs'[c].attached = pcbs[c].attached
    <3>1. CASE pcbs' = pcbs
      BY <3>1 DEF SocketTypeOK
    <3>2. ASSUME NEW st \in PcbStates, pcbs' = [pcbs EXCEPT ![c].st = st]
          PROVE  /\ pcbs' \in Seq(Pcb)
                 /\ Len(pcbs') = Len(pcbs) /\ DOMAIN pcbs' = DOMAIN pcbs
                 /\ \A d \in DOMAIN pcbs : d # c => pcbs'[d] = pcbs[d]
                 /\ pcbs'[c].attached = pcbs[c].attached
      BY <3>2, PcbMoves
    <3>3. pcbs' = pcbs \/ \E st \in PcbStates : pcbs' = [pcbs EXCEPT ![c].st = st]
      BY <1>9 DEF Lwip, Established, Segment, Fin, Dies, PcbStates
    <3>4. QED
      BY <3>1, <3>2, <3>3
  <2>5. /\ sock'.pcb \in {sock.pcb, 0} /\ sock'.connected \in {sock.connected, c}
        /\ sock'.error \in {sock.error, c}
        /\ sock'.rx \in {sock.rx, Append(sock.rx, c)}
        /\ ~pcbs[c].attached => sock' = sock
        /\ sock' \in SocketRecord
    <3>1. c \in Nat /\ sock \in SocketRecord
      BY <1>0 DEF SocketTypeOK
    <3>2. CASE sock' = sock
      BY <3>1, <3>2 DEF SocketRecord
    <3>3. CASE pcbs[c].attached /\ sock' = [sock EXCEPT !.connected = c]
      BY <3>1, <3>3 DEF SocketRecord
    <3>4. CASE pcbs[c].attached /\ sock' = [sock EXCEPT !.rx = Append(@, c)]
      <4>1. Append(sock.rx, c) \in Seq(Nat)
        BY <3>1, AppendProperties DEF SocketRecord
      <4>2. QED
        BY <3>1, <3>4, <4>1 DEF SocketRecord
    <3>5. CASE pcbs[c].attached /\ sock' = [sock EXCEPT !.error = c]
      BY <3>1, <3>5 DEF SocketRecord
    <3>6. CASE pcbs[c].attached /\ sock' = [sock EXCEPT !.error = c, !.pcb = 0]
      BY <3>1, <3>6 DEF SocketRecord
    <3>7. QED
      BY <1>9, <3>2, <3>3, <3>4, <3>5, <3>6
         DEF Lwip, Established, Segment, Fin, Dies, CallBack
  <2>6. SocketTypeOK'
    BY <2>1, <2>4, <2>5 DEF SocketTypeOK
  <2>7. OwnCallbacks'
    BY <2>1, <2>2, <2>4 DEF OwnCallbacks, Own
  <2>8. OwnPcb'
    BY <2>1, <2>4, <2>5 DEF OwnPcb
  <2>9. OwnWrites'
    <3>1. Own' = Own
      BY <2>1, <2>4 DEF Own
    <3>2. CASE ~pcbs[c].attached
      BY <2>1, <2>5, <3>1, <3>2 DEF OwnWrites
    <3>3. CASE pcbs[c].attached /\ caller # "idle"
      <4>1. c \in Own
        BY <2>3, <3>3
      <4>2. sock'.connected \in Own /\ sock'.error \in Own /\ heard' \subseteq Own
        BY <2>1, <2>5, <3>3, <4>1 DEF OwnWrites
      <4>3. \A j \in DOMAIN sock'.rx : sock'.rx[j] \in Own
        <5>1. sock.rx \in Seq(Nat) /\ c \in Nat
          BY <1>0 DEF SocketTypeOK, SocketRecord
        <5>2. \A j \in DOMAIN sock.rx : sock.rx[j] \in Own
          BY <3>3 DEF OwnWrites
        <5>3. CASE sock'.rx = sock.rx
          BY <5>2, <5>3
        <5>4. CASE sock'.rx = Append(sock.rx, c)
          <6>1. /\ DOMAIN sock.rx = 1 .. Len(sock.rx) /\ Len(sock.rx) \in Nat
                /\ DOMAIN Append(sock.rx, c) = 1 .. Len(sock.rx) + 1
                /\ \A j \in 1 .. Len(sock.rx) : Append(sock.rx, c)[j] = sock.rx[j]
                /\ Append(sock.rx, c)[Len(sock.rx) + 1] = c
            BY <5>1, AppendProperties, LenProperties
          <6>2. QED
            BY <4>1, <5>2, <5>4, <6>1
        <5>5. QED
          BY <2>5, <5>3, <5>4
      <4>4. QED
        BY <3>1, <4>2, <4>3 DEF OwnWrites
    <3>4. QED
      BY <2>1, <3>2, <3>3 DEF OwnWrites
  <2>10. QED
    BY <2>6, <2>7, <2>8, <2>9
<1>10. CASE UNCHANGED socketVars
  BY <1>10 DEF socketVars, SocketTypeOK, OwnCallbacks, OwnPcb, OwnWrites, Own
<1>11. QED
  BY <1>1, <1>2, <1>3, <1>4, <1>5, <1>6, <1>7, <1>8, <1>9, <1>10 DEF SocketNext

\* What the caller learned was written by a pcb of its own.
LEMMA SocketInvariantSuffices == SocketInv => LearnedIsOwn
BY DEF SocketInv, SocketTypeOK, OwnWrites, Own, InUse, LearnedIsOwn, ToSet

\* A caller of tcp_socket_connect and tcp_socket_recv never takes the result, the
\* error or the bytes of another connection for its own, except from one that was
\* left behind, for any number of connections in any order.
THEOREM SocketLearnedIsOwn == SocketSpec => []LearnedIsOwn
<1>1. SocketInv /\ [SocketNext]_socketVars => SocketInv'
  BY SocketStepInvariant
<1>2. QED
  BY SocketInitInvariant, <1>1, SocketInvariantSuffices, PTL DEF SocketSpec

(***************************************************************************)
(* H.264 over RTP.  For every payload and buffer size and every byte       *)
(* stream (AnnexB) with NAL unit headers (NalHeaders), and with packets    *)
(* lost and mixed up at will, a NAL unit the decoder can put together      *)
(* (Decodable: it fits the buffer, and is fragmented or of a type 1 to 23) *)
(* comes out whole when its packets arrive in a row, and every NAL unit of *)
(* an access unit is found and sent.  The invariant is H264Inv: the        *)
(* encoder stands at a NAL unit or between two of its fragments, the       *)
(* decoder reads the fragment it stands for out of a packet under way, and *)
(* its buffer holds as much of a NAL unit as has just arrived in order.    *)
(***************************************************************************)

\* Fragment g of a NAL unit that does not fit a packet.
Fragment(nalu, g) ==
  SubSeq(nalu, (g - 1) * FuPayloadSize + 2,
         IF g = Parts(nalu) THEN Len(nalu) ELSE g * FuPayloadSize + 1)

Coded(e) == StartCode(e.zeros) \o e.nalu

\* Where the start code of NAL unit j begins, and where the unit does.
CodeAt(unit, j) == Len(BytesOf(SubSeq(unit, 1, j - 1)))
NaluAt(unit, j) == CodeAt(unit, j) + unit[j].zeros + 1

AccessUnit == units[Len(units)]
Before == Len(Handed) - Len(AccessUnit)

HandedOK ==
  /\ units \in Seq(AccessUnits)
  /\ Handed \in Seq(Seq(Nat)) /\ \A n \in 1 .. Len(Handed) : Handed[n] # << >>

\* In the middle of a NAL unit, part of its fragments are sent.
Cutting(nalu) ==
  /\ Len(nalu) > RtpPayloadSize /\ part \in 0 .. Parts(nalu) - 1
  /\ {"header", "s", "timestamp"} \subseteq DOMAIN fu /\ fu.header = nalu[1] /\ (fu.s <=> part = 0)
  /\ rest = SubSeq(nalu, part * FuPayloadSize + 2, Len(nalu))

\* The encoder is at NAL unit j of the access unit, or behind the last.
EncoderAt(j) ==
  /\ pstart = IF j <= Len(AccessUnit) THEN NaluAt(AccessUnit, j) ELSE Len(buf)
  /\ IF rest = << >> THEN nth = Before + j - 1
     ELSE nth = Before + j /\ j <= Len(AccessUnit) /\ Cutting(AccessUnit[j].nalu)

EncoderOK ==
  IF buf = << >> THEN rest = << >> /\ nth = Len(Handed)
  ELSE /\ units # << >> /\ buf = BytesOf(AccessUnit)
       /\ Before \in Nat /\ \A j \in 1 .. Len(AccessUnit) : Handed[Before + j] = AccessUnit[j].nalu
       /\ \E j \in 1 .. Len(AccessUnit) + 1 : EncoderAt(j)

\* The decoder takes the payload for fragment g.
ReadAs(payload, nalu, g) ==
  /\ ~Single(payload) /\ FuNaluHeader(payload) = nalu[1] /\ FuBytes(payload) = Fragment(nalu, g)
  /\ FuStarts(payload) <=> g = 1
  /\ FuEnds(payload) <=> g = Parts(nalu)

PacketOK(packet) ==
  /\ packet.nalu \in 1 .. Len(Handed)
  /\ packet.part \in 1 .. Parts(Handed[packet.nalu])
  /\ LET nalu == Handed[packet.nalu]
     IN  IF Len(nalu) <= RtpPayloadSize THEN packet.payload = nalu
         ELSE ReadAs(packet.payload, nalu, packet.part)

\* Of the packets to arrive in the order d, those up to number e are the first
\* g of NAL unit n.
Arrived(d, n, g, e) == g <= e /\ \A p \in 1 .. g : d[e - g + p] = <<n, p>>

FitsNaluBuf(n) == Decodable(Handed[n])

\* A NAL unit of which all packets but the last have just arrived, in order, is
\* in the buffer as far as they go, and one that has arrived came out.
DecoderOK ==
  /\ decoded \in Seq(Nat \X Nat) /\ \A a \in 1 .. Len(decoded) : decoded[a][1] \in 1 .. Len(Handed)
  /\ \A n \in 1 .. Len(Handed) : \A g \in 1 .. Parts(Handed[n]) - 1 :
       FitsNaluBuf(n) /\ Arrived(decoded, n, g, Len(decoded)) =>
         naluBuf = StartCode(3) \o SubSeq(Handed[n], 1, g * FuPayloadSize + 1)
  /\ \A n \in 1 .. Len(Handed), e \in 1 .. Len(decoded) :
       FitsNaluBuf(n) /\ Arrived(decoded, n, Parts(Handed[n]), e) =>
         [at |-> e, bytes |-> StartCode(3) \o Handed[n]] \in delivered

H264Inv ==
  /\ HandedOK /\ EncoderOK /\ DecoderOK
  /\ \A packet \in inFlight : PacketOK(packet)

-----------------------------------------------------------------------------
(* Access units and their bytes.                                             *)

Nal == [zeros : 2 .. 3, nalu : Seq(Nat)]

LEMMA UnitsAre ==
  ASSUME NEW unit \in AccessUnits
  PROVE  /\ unit \in Seq(Nal)
         /\ \A j \in 1 .. Len(unit) :
              /\ unit[j].zeros \in 2 .. 3 /\ unit[j].nalu \in Seq(Nat) /\ unit[j].nalu # << >>
              /\ unit[j].nalu[Len(unit[j].nalu)] # 0
              /\ \A i \in 1 .. Len(unit[j].nalu) - 2 :
                   ~(/\ unit[j].nalu[i] = 0 /\ unit[j].nalu[i + 1] = 0
                     /\ unit[j].nalu[i + 2] = 1)
<1>1. unit \in Seq(Nal)
  BY H264Assumption DEF Nal
<1>2. ASSUME NEW j \in 1 .. Len(unit)
      PROVE  /\ unit[j].zeros \in 2 .. 3 /\ unit[j].nalu \in Seq(Nat) /\ unit[j].nalu # << >>
             /\ unit[j].nalu[Len(unit[j].nalu)] # 0
  <2>1. unit[j] \in Nal
    BY <1>1, ElementOfSeq
  <2>2. QED
    BY <2>1, AnnexB DEF Nal
<1>3. ASSUME NEW j \in 1 .. Len(unit), NEW i \in 1 .. Len(unit[j].nalu) - 2
      PROVE  ~(unit[j].nalu[i] = 0 /\ unit[j].nalu[i + 1] = 0 /\ unit[j].nalu[i + 2] = 1)
  BY AnnexB
<1>4. QED
  BY <1>1, <1>2, <1>3

LEMMA StartCodeIs ==
  ASSUME NEW z \in 2 .. 3
  PROVE  /\ StartCode(z) \in Seq(Nat) /\ Len(StartCode(z)) = z + 1
         /\ \A i \in 1 .. z + 1 : StartCode(z)[i] = IF i <= z THEN 0 ELSE 1
<1>1. z + 1 \in Nat
  OBVIOUS
<1>2. StartCode(z) \in [1 .. z + 1 -> Nat]
  BY DEF StartCode
<1>3. StartCode(z) \in Seq(Nat)
  BY <1>1, <1>2, SeqDef
<1>4. DOMAIN StartCode(z) = 1 .. z + 1 /\ DOMAIN StartCode(z) = 1 .. Len(StartCode(z))
      /\ Len(StartCode(z)) \in Nat
  BY <1>2, <1>3, LenProperties
<1>5. Len(StartCode(z)) = z + 1
  BY <1>1, <1>4
<1>6. QED
  BY <1>3, <1>5 DEF StartCode

LEMMA CodedIs ==
  ASSUME NEW e \in Nal
  PROVE  /\ Coded(e) \in Seq(Nat) /\ Len(Coded(e)) = e.zeros + 1 + Len(e.nalu)
         /\ \A i \in 1 .. e.zeros : Coded(e)[i] = 0
         /\ Coded(e)[e.zeros + 1] = 1
         /\ \A i \in 1 .. Len(e.nalu) : Coded(e)[e.zeros + 1 + i] = e.nalu[i]
<1> DEFINE z == e.zeros  c == StartCode(z)  n == e.nalu  b == c \o n
<1>1. z \in 2 .. 3 /\ n \in Seq(Nat) /\ Len(n) \in Nat
  BY LenProperties DEF Nal
<1>2. /\ c \in Seq(Nat) /\ Len(c) = z + 1
      /\ \A i \in 1 .. z + 1 : c[i] = IF i <= z THEN 0 ELSE 1
  BY <1>1, StartCodeIs
<1> HIDE DEF c, z, n
<1>3. /\ b \in Seq(Nat) /\ Len(b) = Len(c) + Len(n)
      /\ \A i \in 1 .. Len(c) + Len(n) : b[i] = IF i <= Len(c) THEN c[i] ELSE n[i - Len(c)]
  BY <1>1, <1>2, ConcatProperties
<1> HIDE DEF b
<1>4. \A i \in 1 .. z : b[i] = 0
  BY <1>1, <1>2, <1>3
<1>5. b[z + 1] = 1
  BY <1>1, <1>2, <1>3
<1>6. ASSUME NEW i \in 1 .. Len(n) PROVE b[z + 1 + i] = n[i]
  <2> DEFINE g == z + 1 + i
  <2>1. g \in 1 .. Len(c) + Len(n) /\ ~(g <= Len(c)) /\ g - Len(c) = i
    BY <1>1, <1>2
  <2> HIDE DEF g
  <2>2. b[g] = n[g - Len(c)]
    BY <1>3, <2>1
  <2>3. QED
    BY <2>1, <2>2 DEF g
<1>7. Coded(e) = b
  BY DEF Coded, b, c, z, n
<1>8. QED
  BY <1>2, <1>3, <1>4, <1>5, <1>6, <1>7 DEF z, n

\* The bytes of a unit with one NAL unit more.
LEMMA BytesMore ==
  /\ BytesOf(<< >>) = << >>
  /\ \A unit \in Seq(Nal) : BytesOf(unit) \in Seq(Nat)
  /\ \A unit \in Seq(Nal), e \in Nal : BytesOf(Append(unit, e)) = BytesOf(unit) \o Coded(e)
<1> DEFINE all(u) == [n \in 1 .. Len(u) |-> StartCode(u[n].zeros) \o u[n].nalu]
<1>1. ASSUME NEW u \in Seq(Nal)
      PROVE  all(u) \in Seq(Seq(Nat)) /\ Len(all(u)) = Len(u) /\ Len(u) \in Nat
             /\ \A n \in 1 .. Len(u) : all(u)[n] = Coded(u[n])
  <2>1. \A n \in 1 .. Len(u) : u[n] \in Nal
    BY ElementOfSeq
  <2>2. \A n \in 1 .. Len(u) : all(u)[n] = Coded(u[n]) /\ Coded(u[n]) \in Seq(Nat)
    BY <2>1, CodedIs DEF Coded
  <2>3. Len(u) \in Nat
    BY LenProperties
  <2>4. all(u) \in [1 .. Len(u) -> Seq(Nat)]
    BY <2>2
  <2>5. all(u) \in Seq(Seq(Nat))
    BY <2>3, <2>4, SeqDef
  <2>6. DOMAIN all(u) = 1 .. Len(u) /\ DOMAIN all(u) = 1 .. Len(all(u)) /\ Len(all(u)) \in Nat
    BY <2>5, LenProperties
  <2> HIDE DEF all
  <2>7. QED
    BY <2>2, <2>3, <2>5, <2>6
<1>2. \A u : BytesOf(u) = FlattenSeq(all(u))
  BY DEF BytesOf
<1>3. Len(<< >>) = 0 /\ << >> \in Seq(Nal) /\ << >> \in Seq(Seq(Nat))
  BY EmptySeq
<1> HIDE DEF all
<1>4. all(<< >>) = << >>
  BY <1>1, <1>3, EmptySeq
<1>5. ASSUME NEW u \in Seq(Nal), NEW e \in Nal
      PROVE  BytesOf(Append(u, e)) = BytesOf(u) \o Coded(e)
  <2> DEFINE t == Append(u, e)
  <2>1. t \in Seq(Nal) /\ Len(t) = Len(u) + 1 /\ Len(u) \in Nat /\ t[Len(u) + 1] = e
        /\ \A n \in 1 .. Len(u) : t[n] = u[n]
    BY AppendProperties, LenProperties
  <2> HIDE DEF t
  <2>2. Coded(e) \in Seq(Nat)
    BY CodedIs
  <2> DEFINE a == Append(all(u), Coded(e))
  <2>3. /\ all(u) \in Seq(Seq(Nat)) /\ Len(all(u)) = Len(u)
        /\ \A n \in 1 .. Len(u) : all(u)[n] = Coded(u[n])
    BY <1>1
  <2>4. /\ a \in Seq(Seq(Nat)) /\ Len(a) = Len(u) + 1 /\ a[Len(u) + 1] = Coded(e)
        /\ \A n \in 1 .. Len(u) : a[n] = all(u)[n]
    BY <2>2, <2>3, AppendProperties
  <2>5. all(t) \in Seq(Seq(Nat)) /\ Len(all(t)) = Len(t) /\ \A n \in 1 .. Len(t) : all(t)[n] = Coded(t[n])
    BY <1>1, <2>1
  <2> HIDE DEF a
  <2>6. ASSUME NEW n \in 1 .. Len(all(t)) PROVE all(t)[n] = a[n]
    <3>1. all(t)[n] = Coded(t[n])
      BY <2>5
    <3>2. CASE n = Len(u) + 1
      BY <2>1, <2>4, <3>1, <3>2
    <3>3. CASE n \in 1 .. Len(u)
      <4>1. a[n] = all(u)[n] /\ all(u)[n] = Coded(u[n]) /\ t[n] = u[n]
        BY <2>1, <2>3, <2>4, <3>3
      <4>2. QED
        BY <3>1, <4>1
    <3>4. QED
      BY <2>1, <2>5, <3>2, <3>3
  <2>7. all(t) = a
    BY <2>1, <2>4, <2>5, <2>6, SeqEqual
  <2>8. FlattenSeq(a) = FlattenSeq(all(u)) \o Coded(e)
    BY <2>2, <2>3, FlattenMore, FlattenType DEF a
  <2>9. QED
    BY <1>2, <2>7, <2>8 DEF t
<1>6. QED
  BY <1>1, <1>2, <1>4, <1>5, FlattenEmpty, FlattenType

\* Where the NAL units lie in the bytes.
LEMMA BytesAt ==
  \A unit \in Seq(Nal) : \A j \in 1 .. Len(unit) :
    /\ CodeAt(unit, j) \in Nat
    /\ CodeAt(unit, j) + Len(Coded(unit[j])) <= Len(BytesOf(unit))
    /\ \A i \in 1 .. Len(Coded(unit[j])) : BytesOf(unit)[CodeAt(unit, j) + i] = Coded(unit[j])[i]
<1> DEFINE At(u, j) == /\ CodeAt(u, j) \in Nat
                       /\ CodeAt(u, j) + Len(Coded(u[j])) <= Len(BytesOf(u))
                       /\ \A i \in 1 .. Len(Coded(u[j])) :
                            BytesOf(u)[CodeAt(u, j) + i] = Coded(u[j])[i]
           P == {u \in Seq(Nal) : \A j \in 1 .. Len(u) : At(u, j)}
<1>1. << >> \in P
  BY EmptySeq
<1>2. ASSUME NEW u \in Seq(Nal), NEW e \in Nal, u \in P PROVE Append(u, e) \in P
  <2> DEFINE t == Append(u, e)  b == BytesOf(u)  c == Coded(e)
  <2>1. t \in Seq(Nal) /\ Len(t) = Len(u) + 1 /\ Len(u) \in Nat /\ t[Len(u) + 1] = e
        /\ \A n \in 1 .. Len(u) : t[n] = u[n] /\ u[n] \in Nal
    BY AppendProperties, LenProperties, ElementOfSeq
  <2>2. BytesOf(t) = b \o c /\ b \in Seq(Nat) /\ c \in Seq(Nat)
    BY BytesMore, CodedIs
  <2> HIDE DEF b, c
  <2>3. /\ Len(b \o c) = Len(b) + Len(c) /\ Len(b) \in Nat /\ Len(c) \in Nat
        /\ \A i \in 1 .. Len(b) + Len(c) : (b \o c)[i] = IF i <= Len(b) THEN b[i] ELSE c[i - Len(b)]
    BY <2>2, ConcatProperties, LenProperties
  <2>4. ASSUME NEW j \in 1 .. Len(u) PROVE At(t, j)
    <3> DEFINE d == Coded(u[j])  a == CodeAt(u, j)
    <3>1. CodeAt(t, j) = a /\ t[j] = u[j]
      <4>1. SubSeq(t, 1, j - 1) = SubSeq(u, 1, j - 1)
        BY FirstOnes
      <4>2. QED
        BY <2>1, <4>1 DEF CodeAt
    <3>2. /\ a \in Nat /\ a + Len(d) <= Len(b) /\ Len(d) \in Nat
          /\ \A i \in 1 .. Len(d) : b[a + i] = d[i]
      <4>1. At(u, j)
        BY <1>2
      <4>2. Len(d) \in Nat
        BY <2>1, CodedIs, LenProperties
      <4>3. QED
        BY <4>1, <4>2 DEF b
    <3> HIDE DEF a, d
    <3>3. ASSUME NEW i \in 1 .. Len(d) PROVE (b \o c)[a + i] = d[i]
      <4>1. a + i \in 1 .. Len(b) + Len(c) /\ a + i <= Len(b) /\ b[a + i] = d[i]
        BY <2>3, <3>2
      <4>2. QED
        BY <2>3, <4>1
    <3>4. a + Len(d) <= Len(b \o c)
      BY <2>3, <3>2
    <3>5. QED
      BY <2>2, <3>1, <3>2, <3>3, <3>4 DEF d
  <2>5. ASSUME NEW j, j = Len(u) + 1 PROVE At(t, j)
    <3>1. CodeAt(t, j) = Len(b) /\ t[j] = e
      <4>1. SubSeq(t, 1, Len(u)) = u
        <5>1. CASE u = << >>
          <6>1. Len(u) = 0 /\ SubSeq(t, 1, 0) = << >>
            BY <5>1, EmptySeq, SubSeqEmpty
          <6>2. QED
            BY <5>1, <6>1
        <5>2. CASE u # << >>
          <6>1. Len(u) \in 1 .. Len(u)
            BY <2>1, <5>2, EmptySeq
          <6>2. QED
            BY <6>1, FirstOnes
        <5>3. QED
          BY <5>1, <5>2
      <4>2. j - 1 = Len(u)
        BY <2>1, <2>5
      <4>3. QED
        BY <2>1, <2>5, <4>1, <4>2 DEF CodeAt, b
    <3>2. ASSUME NEW i \in 1 .. Len(c) PROVE (b \o c)[Len(b) + i] = c[i]
      <4> DEFINE g == Len(b) + i
      <4>1. g \in 1 .. Len(b) + Len(c) /\ ~(g <= Len(b)) /\ g - Len(b) = i
        BY <2>3
      <4> HIDE DEF g
      <4>2. (b \o c)[g] = c[g - Len(b)]
        BY <2>3, <4>1
      <4>3. QED
        BY <4>1, <4>2 DEF g
    <3>3. QED
      BY <2>2, <2>3, <3>1, <3>2 DEF c
  <2> HIDE DEF At
  <2>6. \A j \in 1 .. Len(t) : At(t, j)
    BY <2>1, <2>4, <2>5
  <2>7. QED
    BY <2>1, <2>6
<1>3. \A u \in Seq(Nal) : u \in P
  <2> HIDE DEF P
  <2>1. QED
    BY <1>1, <1>2, EverySequence
<1>4. QED
  BY <1>3

\* One NAL unit begins where the one before it ends.
LEMMA CodeNext ==
  ASSUME NEW u \in Seq(Nal), NEW j \in 1 .. Len(u)
  PROVE  /\ CodeAt(u, 1) = 0
         /\ CodeAt(u, j + 1) = CodeAt(u, j) + Len(Coded(u[j]))
         /\ j = Len(u) => Len(BytesOf(u)) = CodeAt(u, j) + Len(Coded(u[j]))
<1> DEFINE p == SubSeq(u, 1, j - 1)
<1>1. SubSeq(u, 1, j) = Append(p, u[j]) /\ p \in Seq(Nal) /\ u[j] \in Nal
  BY FirstOnes
<1>2. Coded(u[j]) \in Seq(Nat) /\ BytesOf(p) \in Seq(Nat)
  BY <1>1, CodedIs, BytesMore
<1>3. BytesOf(SubSeq(u, 1, j)) = BytesOf(p) \o Coded(u[j])
  BY <1>1, BytesMore
<1>4. Len(BytesOf(SubSeq(u, 1, j))) = Len(BytesOf(p)) + Len(Coded(u[j]))
  BY <1>2, <1>3, ConcatProperties
<1>5. CodeAt(u, 1) = 0
  <2>1. SubSeq(u, 1, 0) = << >> /\ Len(<< >>) = 0
    BY SubSeqEmpty, EmptySeq
  <2>2. BytesOf(<< >>) = << >>
    BY BytesMore
  <2>3. 1 - 1 = 0
    OBVIOUS
  <2>4. QED
    BY <2>1, <2>2, <2>3 DEF CodeAt
<1>6. (j + 1) - 1 = j
  OBVIOUS
<1>7. j = Len(u) => SubSeq(u, 1, j) = u
  BY SubSeqFull
<1>8. QED
  BY <1>4, <1>5, <1>6, <1>7 DEF CodeAt

-----------------------------------------------------------------------------
(* The search for start codes.                                               *)

Ones(b, from) ==
  {p \in from + 2 .. Len(b) - 1 : b[p - 1] = 0 /\ b[p] = 0 /\ b[p + 1] = 1}

LEMMA FindFirst ==
  ASSUME NEW b, NEW from \in Nat, NEW p \in Ones(b, from), \A q \in Ones(b, from) : p <= q
  PROVE  FindNalu(b, from) = 1 + p
<1> DEFINE first == CHOOSE x \in Ones(b, from) : \A q \in Ones(b, from) : x <= q
<1>1. first \in Ones(b, from) /\ \A q \in Ones(b, from) : first <= q
  OBVIOUS
<1>2. first = p
  <2>1. first \in Int /\ p \in Int
    BY <1>1 DEF Ones
  <2>2. first <= p /\ p <= first
    BY <1>1
  <2> HIDE DEF first
  <2>3. QED
    BY <2>1, <2>2
<1>3. Ones(b, from) # {}
  OBVIOUS
<1>4. FindNalu(b, from) = 1 + first
  BY <1>3 DEF FindNalu, Ones
<1>5. QED
  BY <1>2, <1>4

LEMMA FindNone ==
  ASSUME NEW b, NEW from, Ones(b, from) = {}
  PROVE  FindNalu(b, from) = Len(b)
  BY DEF FindNalu, Ones

LEMMA LargestIs ==
  ASSUME NEW s \in SUBSET Int, NEW x \in s, \A y \in s : y <= x
  PROVE  (CHOOSE n \in s : \A m \in s : m <= n) = x
<1> DEFINE c == CHOOSE n \in s : \A m \in s : m <= n
<1>1. c \in s /\ \A m \in s : m <= c
  OBVIOUS
<1>2. c \in Int /\ x \in Int /\ c <= x /\ x <= c
  BY <1>1
<1> HIDE DEF c
<1>3. c = x
  BY <1>2
<1>4. QED
  BY <1>3 DEF c

LEMMA InWindow ==
  ASSUME NEW q \in Int, NEW start \in Nat, NEW n \in Nat, q >= start + 2, q + 1 <= start + n
  PROVE  LET i == q - 1 - start
         IN  /\ i \in 1 .. n - 2 /\ i \in 1 .. n /\ i + 1 \in 1 .. n
             /\ i + 2 \in 1 .. n /\ q - 1 = start + i /\ q = start + (i + 1) /\ q + 1 = start + (i + 2)
  OBVIOUS

\* What stands in buffer b where NAL unit j of u is.
LEMMA NaluBytes ==
  ASSUME NEW u \in AccessUnits, NEW j \in 1 .. Len(u)
  PROVE  LET b == BytesOf(u)  start == NaluAt(u, j)  nalu == u[j].nalu  a == CodeAt(u, j)
             z == u[j].zeros
         IN  /\ b \in Seq(Nat) /\ Len(b) \in Nat /\ a \in Nat /\ start = a + z + 1
             /\ nalu \in Seq(Nat) /\ Len(nalu) \in Nat \ {0} /\ z \in 2 .. 3
             /\ start + Len(nalu) <= Len(b)
             /\ \A i \in 1 .. z : b[a + i] = 0
             /\ b[start] = 1
             /\ \A i \in 1 .. Len(nalu) : b[start + i] = nalu[i]
             /\ j < Len(u) => CodeAt(u, j + 1) = start + Len(nalu)
             /\ j = Len(u) => Len(b) = start + Len(nalu)
<1> DEFINE b == BytesOf(u)  start == NaluAt(u, j)  nalu == u[j].nalu  a == CodeAt(u, j)
           z == u[j].zeros  c == Coded(u[j])
<1>1. u \in Seq(Nal) /\ u[j] \in Nal /\ z \in 2 .. 3 /\ nalu \in Seq(Nat) /\ nalu # << >>
  BY UnitsAre, ElementOfSeq
<1>2. /\ c \in Seq(Nat) /\ Len(c) = z + 1 + Len(nalu)
      /\ \A i \in 1 .. z : c[i] = 0
      /\ c[z + 1] = 1
      /\ \A i \in 1 .. Len(nalu) : c[z + 1 + i] = nalu[i]
  BY <1>1, CodedIs
<1>3. Len(nalu) \in Nat \ {0} /\ b \in Seq(Nat) /\ Len(b) \in Nat
  BY <1>1, EmptySeq, BytesMore, LenProperties
<1>4. a \in Nat /\ a + Len(c) <= Len(b) /\ \A i \in 1 .. Len(c) : b[a + i] = c[i]
  BY <1>1, BytesAt
<1>5. CodeAt(u, j + 1) = a + Len(c) /\ (j = Len(u) => Len(b) = a + Len(c))
  BY <1>1, CodeNext
<1>6. start = a + z + 1
  BY DEF NaluAt
<1> HIDE DEF b, nalu, a, c, z, start
<1>7. \A i \in 1 .. z : b[a + i] = 0
  <2>1. \A i \in 1 .. z : i \in 1 .. Len(c)
    BY <1>1, <1>2, <1>3
  <2>2. QED
    BY <1>2, <1>4, <2>1
<1>8. b[start] = 1
  <2>1. z + 1 \in 1 .. Len(c) /\ start = a + (z + 1)
    BY <1>1, <1>2, <1>3, <1>4, <1>6
  <2>2. QED
    BY <1>2, <1>4, <2>1
<1>9. ASSUME NEW i \in 1 .. Len(nalu) PROVE b[start + i] = nalu[i]
  <2>1. z + 1 + i \in 1 .. Len(c) /\ start + i = a + (z + 1 + i)
    BY <1>1, <1>2, <1>3, <1>4, <1>6
  <2>2. b[a + (z + 1 + i)] = c[z + 1 + i] /\ c[z + 1 + i] = nalu[i]
    BY <1>2, <1>4, <2>1
  <2>3. QED
    BY <2>1, <2>2
<1>10. start + Len(nalu) = a + Len(c)
  BY <1>1, <1>2, <1>3, <1>4, <1>6
<1>11. /\ b \in Seq(Nat) /\ Len(b) \in Nat /\ a \in Nat /\ start = a + z + 1
       /\ nalu \in Seq(Nat) /\ Len(nalu) \in Nat \ {0} /\ z \in 2 .. 3
       /\ start + Len(nalu) <= Len(b)
       /\ \A i \in 1 .. z : b[a + i] = 0
       /\ b[start] = 1
       /\ \A i \in 1 .. Len(nalu) : b[start + i] = nalu[i]
       /\ j < Len(u) => CodeAt(u, j + 1) = start + Len(nalu)
       /\ j = Len(u) => Len(b) = start + Len(nalu)
  BY <1>1, <1>3, <1>4, <1>5, <1>6, <1>7, <1>8, <1>9, <1>10
<1>12. QED
  BY <1>11 DEF b, nalu, a, c, z, start

\* From the start the search finds the first NAL unit, from one the next, and
\* from the last the end (h264_find_nalu, rtp.c:126-136).
LEMMA FindFromStart ==
  ASSUME NEW u \in AccessUnits
  PROVE  FindNalu(BytesOf(u), 0) = IF u = << >> THEN 0 ELSE NaluAt(u, 1)
<1> DEFINE b == BytesOf(u)
<1>1. u \in Seq(Nal) /\ Len(u) \in Nat
  BY UnitsAre, LenProperties
<1>2. CASE u = << >>
  <2>1. Len(b) = 0
    BY <1>2, BytesMore, EmptySeq
  <2>2. Ones(b, 0) = {}
    <3> HIDE DEF b
    <3>1. QED
      BY <2>1 DEF Ones
  <2>3. QED
    BY <1>2, <2>1, <2>2, FindNone
<1>3. CASE u # << >>
  <2> DEFINE z == u[1].zeros
  <2>1. 1 \in 1 .. Len(u)
    BY <1>1, <1>3, EmptySeq
  <2>2. CodeAt(u, 1) = 0
    BY <1>1, <2>1, CodeNext
  <2>3. /\ Len(b) \in Nat /\ z \in 2 .. 3 /\ NaluAt(u, 1) = z + 1 /\ NaluAt(u, 1) < Len(b)
        /\ \A i \in 1 .. z : b[i] = 0
        /\ b[z + 1] = 1
    <3>1. LET start == NaluAt(u, 1)  nalu == u[1].nalu  a == CodeAt(u, 1)
          IN  /\ b \in Seq(Nat) /\ Len(b) \in Nat /\ a \in Nat /\ start = a + z + 1
              /\ nalu \in Seq(Nat) /\ Len(nalu) \in Nat \ {0} /\ z \in 2 .. 3
              /\ start + Len(nalu) <= Len(b)
              /\ \A i \in 1 .. z : b[a + i] = 0
              /\ b[start] = 1
      BY <2>1, NaluBytes
    <3> HIDE DEF b, z
    <3>2. \A i \in 1 .. z : 0 + i = i
      BY <3>1
    <3>3. QED
      BY <2>2, <3>1, <3>2
  <2> HIDE DEF b, z
  <2>4. z \in Ones(b, 0)
    <3>1. z - 1 \in 1 .. z /\ z \in 1 .. z /\ z \in 0 + 2 .. Len(b) - 1
      BY <2>3
    <3>2. QED
      BY <2>3, <3>1 DEF Ones
  <2>5. ASSUME NEW q \in Ones(b, 0) PROVE z <= q
    <3>1. q \in 0 + 2 .. Len(b) - 1 /\ b[q + 1] = 1
      BY DEF Ones
    <3>2. q < z => q + 1 \in 1 .. z
      BY <2>3, <3>1
    <3>3. QED
      BY <2>3, <3>1, <3>2
  <2>6. FindNalu(b, 0) = 1 + z
    BY <2>4, <2>5, FindFirst
  <2>7. QED
    BY <1>3, <2>3, <2>6 DEF b
<1>4. QED
  BY <1>2, <1>3

LEMMA FindFromNalu ==
  ASSUME NEW u \in AccessUnits, NEW j \in 1 .. Len(u)
  PROVE  LET b == BytesOf(u)  start == NaluAt(u, j)  nalu == u[j].nalu
         IN  /\ FindNalu(b, start) = IF j = Len(u) THEN Len(b) ELSE NaluAt(u, j + 1)
             /\ j < Len(u) => /\ NaluAt(u, j + 1) = start + Len(nalu) + u[j + 1].zeros + 1
                              /\ NaluAt(u, j + 1) < Len(b)
                              /\ \A i \in 1 .. u[j + 1].zeros : b[start + Len(nalu) + i] = 0
<1> DEFINE b == BytesOf(u)  start == NaluAt(u, j)  nalu == u[j].nalu
<1>1. /\ b \in Seq(Nat) /\ Len(b) \in Nat /\ start \in Nat
      /\ nalu \in Seq(Nat) /\ Len(nalu) \in Nat \ {0}
      /\ start + Len(nalu) <= Len(b)
      /\ \A i \in 1 .. Len(nalu) : b[start + i] = nalu[i]
      /\ j < Len(u) => CodeAt(u, j + 1) = start + Len(nalu)
      /\ j = Len(u) => Len(b) = start + Len(nalu)
  <2> DEFINE a == CodeAt(u, j)  z == u[j].zeros
  <2>1. /\ b \in Seq(Nat) /\ Len(b) \in Nat /\ a \in Nat /\ start = a + z + 1
        /\ nalu \in Seq(Nat) /\ Len(nalu) \in Nat \ {0} /\ z \in 2 .. 3
        /\ start + Len(nalu) <= Len(b)
        /\ \A i \in 1 .. Len(nalu) : b[start + i] = nalu[i]
        /\ j < Len(u) => CodeAt(u, j + 1) = start + Len(nalu)
        /\ j = Len(u) => Len(b) = start + Len(nalu)
    BY NaluBytes
  <2> HIDE DEF b, start, nalu, a, z
  <2>2. start \in Nat
    <3>1. start = a + z + 1 /\ a \in Nat /\ z \in Nat
      BY <2>1
    <3>2. QED
      BY <3>1
  <2>3. QED
    BY <2>1, <2>2
<1>2. /\ nalu[Len(nalu)] # 0
      /\ \A i \in 1 .. Len(nalu) - 2 : ~(nalu[i] = 0 /\ nalu[i + 1] = 0 /\ nalu[i + 2] = 1)
  BY UnitsAre
<1> HIDE DEF b, start, nalu
<1>3. ASSUME NEW q \in Ones(b, start) PROVE q + 1 > start + Len(nalu)
  <2>1. q \in start + 2 .. Len(b) - 1 /\ b[q - 1] = 0 /\ b[q] = 0 /\ b[q + 1] = 1
    BY DEF Ones
  <2> SUFFICES ASSUME q + 1 <= start + Len(nalu) PROVE FALSE
    BY <1>1, <2>1
  <2> DEFINE i == q - 1 - start
  <2>2. /\ i \in 1 .. Len(nalu) - 2 /\ i \in 1 .. Len(nalu) /\ i + 1 \in 1 .. Len(nalu)
        /\ i + 2 \in 1 .. Len(nalu) /\ q - 1 = start + i /\ q = start + (i + 1) /\ q + 1 = start + (i + 2)
    <3>1. q \in Int /\ start \in Nat /\ Len(nalu) \in Nat /\ q >= start + 2 /\ q + 1 <= start + Len(nalu)
      BY <1>1, <2>1
    <3>2. QED
      BY <3>1, InWindow
  <2> HIDE DEF i
  <2>3. b[start + i] = nalu[i] /\ b[start + (i + 1)] = nalu[i + 1] /\ b[start + (i + 2)] = nalu[i + 2]
    BY <1>1, <2>2
  <2>4. nalu[i] = 0 /\ nalu[i + 1] = 0 /\ nalu[i + 2] = 1
    BY <2>1, <2>2, <2>3
  <2>5. QED
    BY <1>2, <2>2, <2>4
<1>4. CASE j = Len(u)
  <2>1. Ones(b, start) = {}
    <3> SUFFICES ASSUME NEW q \in Ones(b, start) PROVE FALSE
      OBVIOUS
    <3>1. q \in start + 2 .. Len(b) - 1 /\ q + 1 > start + Len(nalu)
      BY <1>3 DEF Ones
    <3>2. QED
      BY <1>1, <1>4, <3>1
  <2>2. FindNalu(b, start) = Len(b)
    BY <2>1, FindNone
  <2>3. QED
    BY <1>4, <2>2 DEF b, start, nalu
<1>5. CASE j < Len(u)
  <2> DEFINE z == u[j + 1].zeros  next == NaluAt(u, j + 1)  e == start + Len(nalu)
  <2>1. j + 1 \in 1 .. Len(u)
    <3>1. Len(u) \in Nat
      BY UnitsAre, LenProperties
    <3>2. QED
      BY <1>5, <3>1
  <2>2. /\ Len(b) \in Nat /\ z \in 2 .. 3 /\ next = e + z + 1 /\ next < Len(b) /\ e \in Nat
        /\ \A i \in 1 .. z : b[e + i] = 0
        /\ b[next] = 1
    <3> DEFINE n == u[j + 1].nalu
    <3>1. /\ Len(b) \in Nat /\ z \in 2 .. 3 /\ next = CodeAt(u, j + 1) + z + 1
          /\ Len(n) \in Nat \ {0} /\ next + Len(n) <= Len(b)
          /\ \A i \in 1 .. z : b[CodeAt(u, j + 1) + i] = 0
          /\ b[next] = 1
      BY <2>1, NaluBytes DEF b
    <3>2. CodeAt(u, j + 1) = e /\ e \in Nat
      BY <1>1, <1>5
    <3> HIDE DEF n, z, next, e
    <3>3. next = e + z + 1 /\ \A i \in 1 .. z : b[e + i] = 0
      BY <3>1, <3>2
    <3>4. next < Len(b)
      BY <3>1, <3>2, <3>3
    <3>5. QED
      BY <3>1, <3>2, <3>3, <3>4
  <2> HIDE DEF z, next
  <2>3. e + z \in Ones(b, start)
    <3>1. /\ e + z \in start + 2 .. Len(b) - 1 /\ z - 1 \in 1 .. z /\ z \in 1 .. z
          /\ (e + z) - 1 = e + (z - 1) /\ (e + z) + 1 = next
      BY <1>1, <2>2
    <3> HIDE DEF e
    <3>2. b[(e + z) - 1] = 0 /\ b[e + z] = 0 /\ b[(e + z) + 1] = 1
      BY <2>2, <3>1
    <3>3. QED
      BY <3>1, <3>2 DEF Ones
  <2>4. ASSUME NEW q \in Ones(b, start) PROVE e + z <= q
    <3>1. q \in start + 2 .. Len(b) - 1 /\ b[q + 1] = 1 /\ q + 1 > e
      BY <1>3 DEF Ones
    <3> SUFFICES ASSUME q < e + z PROVE FALSE
      BY <1>1, <2>2, <3>1
    <3> DEFINE i == q + 1 - e
    <3>2. i \in 1 .. z /\ q + 1 = e + i
      <4>1. q \in Int /\ e \in Nat /\ z \in Nat /\ q + 1 > e /\ q < e + z
        BY <1>1, <2>2, <3>1
      <4> HIDE DEF e
      <4>2. QED
        BY <4>1
    <3> HIDE DEF i, e
    <3>3. b[e + i] = 0
      BY <2>2, <3>2
    <3>4. QED
      BY <3>1, <3>2, <3>3
  <2>5. FindNalu(b, start) = 1 + (e + z)
    <3> HIDE DEF e
    <3>1. QED
      BY <1>1, <2>3, <2>4, FindFirst
  <2>6. j # Len(u) /\ 1 + (e + z) = next
    BY <1>1, <1>5, <2>2
  <2>7. QED
    BY <2>2, <2>5, <2>6 DEF b, start, nalu, z, next
<1>6. j < Len(u) \/ j = Len(u)
  <2>1. Len(u) \in Nat
    BY UnitsAre, LenProperties
  <2>2. QED
    BY <2>1
<1>7. QED
  BY <1>4, <1>5, <1>6

LEMMA SliceOf ==
  ASSUME NEW p \in Nat, NEW n \in Nat \ {0}
  PROVE  /\ p + 1 \in Int /\ p + n \in Int /\ p + 1 <= p + n /\ (p + n) - (p + 1) + 1 = n
         /\ \A i \in 1 .. n : (p + 1) + i - 1 = p + i
  OBVIOUS

\* What the loop takes out is the NAL unit, without the zeros and the start
\* code behind it (rtp.c:143-153).
LEMMA NaluIs ==
  ASSUME NEW u \in AccessUnits, NEW j \in 1 .. Len(u), buf = BytesOf(u), pstart = NaluAt(u, j)
  PROVE  /\ Pend = IF j = Len(u) THEN Len(buf) ELSE NaluAt(u, j + 1)
         /\ j < Len(u) => Pend < Len(buf)
         /\ NaluSize = Len(u[j].nalu) /\ Nalu = u[j].nalu
         /\ pstart < Len(buf) /\ buf # << >>
<1> DEFINE nalu == u[j].nalu
           upper == Pend - pstart - (IF Pend # Len(buf) THEN 1 ELSE 0)
           sizes == {n \in 0 .. upper : buf[pstart + n] # 0}
<1>1. /\ buf \in Seq(Nat) /\ Len(buf) \in Nat /\ pstart \in Nat
      /\ nalu \in Seq(Nat) /\ Len(nalu) \in Nat \ {0}
      /\ pstart + Len(nalu) <= Len(buf)
      /\ \A i \in 1 .. Len(nalu) : buf[pstart + i] = nalu[i]
      /\ j = Len(u) => Len(buf) = pstart + Len(nalu)
  <2> DEFINE a == CodeAt(u, j)  z == u[j].zeros
  <2>1. /\ buf \in Seq(Nat) /\ Len(buf) \in Nat /\ a \in Nat /\ pstart = a + z + 1
        /\ nalu \in Seq(Nat) /\ Len(nalu) \in Nat \ {0} /\ z \in 2 .. 3
        /\ pstart + Len(nalu) <= Len(buf)
        /\ \A i \in 1 .. Len(nalu) : buf[pstart + i] = nalu[i]
        /\ j = Len(u) => Len(buf) = pstart + Len(nalu)
    BY NaluBytes
  <2> HIDE DEF nalu, a, z
  <2>2. pstart \in Nat
    BY <2>1
  <2>3. QED
    BY <2>1, <2>2
<1>2. /\ Pend = IF j = Len(u) THEN Len(buf) ELSE NaluAt(u, j + 1)
      /\ j < Len(u) => /\ NaluAt(u, j + 1) = pstart + Len(nalu) + u[j + 1].zeros + 1
                       /\ NaluAt(u, j + 1) < Len(buf) /\ u[j + 1].zeros \in 2 .. 3
                       /\ \A i \in 1 .. u[j + 1].zeros : buf[pstart + Len(nalu) + i] = 0
  <2>1. j < Len(u) => j + 1 \in 1 .. Len(u)
    <3>1. Len(u) \in Nat
      BY UnitsAre, LenProperties
    <3>2. QED
      BY <3>1
  <2>2. j < Len(u) => u[j + 1].zeros \in 2 .. 3
    BY <2>1, UnitsAre
  <2>3. QED
    BY <2>2, FindFromNalu DEF Pend
<1>3. nalu[Len(nalu)] # 0
  BY UnitsAre
<1>4. j < Len(u) \/ j = Len(u)
  <2>1. Len(u) \in Nat
    BY UnitsAre, LenProperties
  <2>2. QED
    BY <2>1
<1> HIDE DEF nalu
<1>5. /\ upper \in Nat /\ Len(nalu) <= upper
      /\ \A n \in 0 .. upper : n > Len(nalu) => buf[pstart + n] = 0
  <2>1. CASE j = Len(u)
    <3>1. upper = Len(nalu)
      BY <1>1, <1>2, <2>1
    <3> HIDE DEF upper
    <3>2. QED
      BY <1>1, <3>1
  <2>2. CASE j < Len(u)
    <3> DEFINE z == u[j + 1].zeros
    <3>1. /\ Pend = pstart + Len(nalu) + z + 1 /\ Pend < Len(buf) /\ z \in 2 .. 3
          /\ \A i \in 1 .. z : buf[pstart + Len(nalu) + i] = 0
      <4>1. j # Len(u)
        <5>1. Len(u) \in Nat
          BY UnitsAre, LenProperties
        <5>2. QED
          BY <2>2, <5>1
      <4>2. QED
        BY <1>2, <2>2, <4>1
    <3> HIDE DEF z
    <3>2. upper = Len(nalu) + z
      <4> DEFINE a == Pend  b == pstart  c == Len(nalu)  d == Len(buf)
      <4>1. a = b + c + z + 1 /\ a < d /\ z \in Nat /\ b \in Nat /\ c \in Nat /\ d \in Nat
        BY <1>1, <3>1
      <4> HIDE DEF a, b, c, d
      <4>2. a # d /\ a - b - 1 = c + z
        BY <4>1
      <4>3. QED
        BY <4>2 DEF a, b, c, d
    <3> HIDE DEF upper
    <3>3. ASSUME NEW n \in 0 .. upper, n > Len(nalu) PROVE buf[pstart + n] = 0
      <4> DEFINE i == n - Len(nalu)
      <4>1. i \in 1 .. z /\ pstart + n = pstart + Len(nalu) + i
        <5>1. n \in Nat /\ n <= Len(nalu) + z /\ z \in Nat /\ Len(nalu) \in Nat /\ pstart \in Nat
              /\ n > Len(nalu)
          BY <1>1, <3>1, <3>2, <3>3
        <5>2. QED
          BY <5>1
      <4> HIDE DEF i
      <4>2. QED
        BY <3>1, <4>1
    <3>4. upper \in Nat /\ Len(nalu) <= upper
      <4>1. Len(nalu) \in Nat /\ z \in Nat
        BY <1>1, <3>1
      <4>2. QED
        BY <3>2, <4>1
    <3>5. QED
      BY <3>3, <3>4
  <2>3. QED
    BY <1>4, <2>1, <2>2
<1> HIDE DEF upper
<1>6. Len(nalu) \in sizes /\ \A n \in sizes : n <= Len(nalu)
  <2>1. buf[pstart + Len(nalu)] # 0
    <3>1. Len(nalu) \in 1 .. Len(nalu) /\ nalu[Len(nalu)] # 0
      BY <1>1, <1>3
    <3>2. \A i \in 1 .. Len(nalu) : buf[pstart + i] = nalu[i]
      BY <1>1
    <3>3. buf[pstart + Len(nalu)] = nalu[Len(nalu)]
      BY <3>1, <3>2, Zenon
    <3>4. QED
      BY <3>1, <3>3
  <2>2. QED
    BY <1>1, <1>5, <2>1
<1>7. NaluSize = Len(nalu)
  <2>1. sizes \in SUBSET Int
    BY <1>5
  <2>2. NaluSize = CHOOSE n \in sizes : \A m \in sizes : m <= n
    BY DEF NaluSize, upper
  <2> HIDE DEF sizes
  <2>3. QED
    BY <1>6, <2>1, <2>2, LargestIs
<1>8. Nalu = nalu
  <2> DEFINE s == SubSeq(buf, pstart + 1, pstart + Len(nalu))
  <2>1. ASSUME NEW i \in pstart + 1 .. pstart + Len(nalu) PROVE buf[i] \in Nat
    <3>1. pstart \in Nat /\ Len(nalu) \in Nat /\ Len(buf) \in Nat /\ pstart + Len(nalu) <= Len(buf)
      BY <1>1
    <3>2. i \in 1 .. Len(buf)
      BY <3>1
    <3>3. QED
      BY <1>1, <3>2, ElementOfSeq
  <2>2. /\ s \in Seq(Nat) /\ Len(s) = Len(nalu)
        /\ \A i \in 1 .. Len(nalu) : s[i] = buf[pstart + i]
    <3>1. pstart + 1 \in Int /\ pstart + Len(nalu) \in Int /\ pstart + 1 <= pstart + Len(nalu)
          /\ (pstart + Len(nalu)) - (pstart + 1) + 1 = Len(nalu)
          /\ \A i \in 1 .. Len(nalu) : (pstart + 1) + i - 1 = pstart + i
      <4>1. pstart \in Nat /\ Len(nalu) \in Nat \ {0}
        BY <1>1
      <4>2. QED
        BY <4>1, SliceOf
    <3>2. /\ s \in Seq(Nat) /\ Len(s) = (pstart + Len(nalu)) - (pstart + 1) + 1
          /\ \A i \in 1 .. (pstart + Len(nalu)) - (pstart + 1) + 1 : s[i] = buf[(pstart + 1) + i - 1]
      BY <2>1, <3>1, SubSeqProperties
    <3> HIDE DEF s
    <3>3. QED
      BY <3>1, <3>2
  <2> HIDE DEF s
  <2>3. \A i \in 1 .. Len(s) : s[i] = nalu[i]
    BY <1>1, <2>2
  <2>4. s = nalu
    BY <1>1, <2>2, <2>3, SeqEqual
  <2>5. QED
    BY <1>7, <2>4 DEF Nalu, s
<1>9. pstart < Len(buf) /\ buf # << >>
  BY <1>1, EmptySeq
<1>10. QED
  BY <1>2, <1>4, <1>7, <1>8, <1>9 DEF nalu

-----------------------------------------------------------------------------
(* Fragments.                                                                *)

LEMMA TimesMore ==
  ASSUME NEW f \in Nat \ {0}, NEW a \in Nat, NEW b \in Nat, a <= b
  PROVE  /\ a * f \in Nat /\ b * f \in Nat /\ (a + 1) * f = a * f + f
         /\ (b - 1) * f = b * f - f /\ a * f <= b * f
<1>1. a * f \in Nat /\ b * f \in Nat
  OBVIOUS
<1>2. PICK d \in Nat : b = a + d
  <2>1. b - a \in Nat /\ b = a + (b - a)
    OBVIOUS
  <2>2. QED
    BY <2>1
<1>3. d * f \in Nat /\ b * f = a * f + d * f
  BY <1>2
<1>4. a * f <= b * f
  BY <1>1, <1>3
<1>5. (a + 1) * f = a * f + f
  OBVIOUS
<1>6. (b - 1) * f = b * f - f
  OBVIOUS
<1>7. QED
  BY <1>1, <1>4, <1>5, <1>6

\* How many packets a NAL unit takes, and that all of them are full but for
\* the last.
LEMMA PartsAre ==
  ASSUME NEW nalu \in Seq(Nat), nalu # << >>
  PROVE  /\ FuPayloadSize \in Nat \ {0} /\ Len(nalu) \in Nat \ {0} /\ Parts(nalu) \in Nat \ {0}
         /\ Len(nalu) <= RtpPayloadSize => Parts(nalu) = 1
         /\ Len(nalu) > RtpPayloadSize =>
              /\ Parts(nalu) > 1
              /\ Len(nalu) - 1 <= Parts(nalu) * FuPayloadSize
              /\ \A g \in 0 .. Parts(nalu) - 1 :
                   /\ g * FuPayloadSize \in Nat /\ (g + 1) * FuPayloadSize = g * FuPayloadSize + FuPayloadSize
                   /\ g * FuPayloadSize < Len(nalu) - 1
<1> DEFINE f == FuPayloadSize  m == Len(nalu) - 1  n == (m + f - 1) \div f
<1>1. f \in Nat \ {0} /\ f = RtpPayloadSize - 2 /\ RtpPayloadSize \in Nat
  BY H264Assumption DEF FuPayloadSize
<1>2. Len(nalu) \in Nat \ {0} /\ m \in Nat
  BY EmptySeq
<1> HIDE DEF f
<1>3. CASE Len(nalu) <= RtpPayloadSize
  <2>1. Parts(nalu) = 1
    BY <1>3 DEF Parts
  <2>2. ~(Len(nalu) > RtpPayloadSize)
    BY <1>1, <1>2, <1>3
  <2>3. QED
    BY <1>1, <1>2, <2>1, <2>2 DEF f
<1>4. CASE Len(nalu) > RtpPayloadSize
  <2>1. ~(Len(nalu) <= RtpPayloadSize) /\ m >= f + 2
    BY <1>1, <1>2, <1>4
  <2>2. Parts(nalu) = n
    BY <2>1 DEF Parts, f
  <2> HIDE DEF m
  <2> DEFINE x == m + f - 1  r == x % f
  <2>3. n \in Int /\ r \in 0 .. f - 1 /\ x = f * n + r
    <3>1. x \in Int
      BY <1>1, <1>2
    <3>2. x \div f \in Int /\ x % f \in 0 .. f - 1 /\ x = f * (x \div f) + (x % f)
      <4> HIDE DEF x
      <4>1. QED
        BY <1>1, <3>1, DivMod
    <3>3. QED
      BY <3>2
  <2> HIDE DEF n, r
  <2>4. f * n <= m + f - 1 /\ m <= f * n
    <3> DEFINE y == f * n
    <3>1. y \in Int /\ r \in 0 .. f - 1 /\ m + f - 1 = y + r
      BY <1>1, <2>3
    <3> HIDE DEF y
    <3>2. y <= m + f - 1 /\ m <= y
      BY <1>1, <1>2, <3>1
    <3>3. QED
      BY <3>2 DEF y
  <2>5. n > 1
    <3> SUFFICES ASSUME n <= 1 PROVE FALSE
      BY <2>3
    <3>1. f * n <= f
      <4>1. CASE n = 1
        BY <1>1, <4>1
      <4>2. CASE n <= 0
        <5>1. PICK d \in Nat : n = -d
          <6>1. -n \in Nat /\ n = -(-n)
            BY <2>3, <4>2
          <6>2. QED
            BY <6>1
        <5>2. f * d \in Nat /\ f * n = -(f * d)
          BY <1>1, <5>1
        <5>3. QED
          BY <1>1, <5>2
      <4>3. QED
        BY <2>3, <4>1, <4>2
    <3>2. f * n \in Int
      BY <1>1, <2>3
    <3>3. QED
      BY <1>1, <1>2, <2>1, <2>4, <3>1, <3>2
  <2>6. n \in Nat /\ f * n = n * f /\ n * f \in Nat /\ (n - 1) * f = n * f - f
    BY <1>1, <2>3, <2>5
  <2>7. ASSUME NEW g \in 0 .. n - 1
        PROVE  g * f \in Nat /\ (g + 1) * f = g * f + f /\ g * f < m
    <3>1. g \in Nat /\ n - 1 \in Nat /\ g <= n - 1
      BY <2>6, <2>7
    <3>2. g * f \in Nat /\ (g + 1) * f = g * f + f /\ g * f <= (n - 1) * f
      BY <1>1, <3>1, TimesMore
    <3>3. QED
      BY <1>1, <1>2, <2>4, <2>6, <3>2
  <2>8. QED
    BY <1>1, <1>2, <1>4, <2>1, <2>2, <2>4, <2>5, <2>6, <2>7 DEF f, m
<1>5. QED
  BY <1>1, <1>2, <1>3, <1>4

\* Fragments put together again, one more each time.
LEMMA FragmentsJoin ==
  ASSUME NEW nalu \in Seq(Nat), nalu # << >>, Len(nalu) > RtpPayloadSize
  PROVE  /\ \A g \in 1 .. Parts(nalu) : Fragment(nalu, g) \in Seq(Nat)
         /\ <<nalu[1]>> \o Fragment(nalu, 1) = SubSeq(nalu, 1, 1 * FuPayloadSize + 1)
         /\ \A g \in 1 .. Parts(nalu) - 1 :
              /\ SubSeq(nalu, 1, g * FuPayloadSize + 1) \in Seq(Nat)
              /\ Len(SubSeq(nalu, 1, g * FuPayloadSize + 1)) < Len(nalu)
              /\ SubSeq(nalu, 1, g * FuPayloadSize + 1) \o Fragment(nalu, g + 1) =
                   IF g + 1 = Parts(nalu) THEN nalu
                   ELSE SubSeq(nalu, 1, (g + 1) * FuPayloadSize + 1)
<1> DEFINE f == FuPayloadSize  p == Parts(nalu)  n == Len(nalu)
<1>1. /\ f \in Nat \ {0} /\ n \in Nat \ {0} /\ p \in Nat \ {0} /\ p > 1
      /\ \A g \in 0 .. p - 1 :
           g * f \in Nat /\ (g + 1) * f = g * f + f /\ g * f < n - 1
  BY PartsAre
<1>2. \A i \in 1 .. n : nalu[i] \in Nat
  BY ElementOfSeq
<1> HIDE DEF f, p, n
<1>3. ASSUME NEW g \in 0 .. p - 1
      PROVE  /\ Fragment(nalu, g + 1) = SubSeq(nalu, g * f + 2, IF g + 1 = p THEN n ELSE g * f + f + 1)
             /\ g * f + 1 \in 1 .. n /\ g * f + 2 \in 1 .. n
             /\ g + 1 # p => g * f + f + 1 \in g * f + 2 .. n /\ g + 1 \in 0 .. p - 1
  <2>1. g \in Nat /\ g * f \in Nat /\ (g + 1) * f = g * f + f /\ g * f < n - 1
    BY <1>1
  <2>2. g * f + 1 \in 1 .. n /\ g * f + 2 \in 1 .. n
    <3> DEFINE a == g * f
    <3>1. a \in Nat /\ a < n - 1 /\ n \in Nat
      BY <1>1, <2>1
    <3> HIDE DEF a
    <3>2. a + 1 \in 1 .. n /\ a + 2 \in 1 .. n
      BY <3>1
    <3>3. QED
      BY <3>2 DEF a
  <2>3. (g + 1) - 1 = g /\ (g + 1) * f + 1 = g * f + f + 1
    BY <2>1
  <2>4. Fragment(nalu, g + 1) = SubSeq(nalu, g * f + 2, IF g + 1 = p THEN n ELSE g * f + f + 1)
    BY <2>3 DEF Fragment, f, p, n
  <2>5. ASSUME g + 1 # p PROVE g * f + f + 1 \in g * f + 2 .. n /\ g + 1 \in 0 .. p - 1
    <3>1. g + 1 \in 0 .. p - 1
      BY <1>1, <2>1, <2>5
    <3>2. (g + 1) * f < n - 1
      BY <1>1, <3>1
    <3> DEFINE a == g * f
    <3>3. a \in Nat /\ a + f < n - 1 /\ n \in Nat /\ f \in Nat \ {0}
      BY <1>1, <2>1, <3>2
    <3> HIDE DEF a
    <3>4. a + f + 1 \in a + 2 .. n
      BY <3>3
    <3>5. QED
      BY <3>1, <3>4 DEF a
  <2>6. QED
    BY <2>2, <2>4, <2>5
<1>4. ASSUME NEW g \in 0 .. p - 1
      PROVE  Fragment(nalu, g + 1) \in Seq(Nat)
  <2> DEFINE from == g * f + 2  to == IF g + 1 = p THEN n ELSE g * f + f + 1
  <2>1. from \in 1 .. n /\ to \in from .. n /\ Fragment(nalu, g + 1) = SubSeq(nalu, from, to)
    BY <1>1, <1>3
  <2> HIDE DEF from, to
  <2>2. from \in Int /\ to \in Int /\ \A i \in from .. to : nalu[i] \in Nat
    BY <1>1, <1>2, <2>1
  <2>3. SubSeq(nalu, from, to) \in Seq(Nat)
    BY <2>2, SubSeqProperties
  <2>4. QED
    BY <2>1, <2>3
<1>5. \A g \in 1 .. p : Fragment(nalu, g) \in Seq(Nat)
  <2> TAKE g \in 1 .. p
  <2>1. g - 1 \in 0 .. p - 1 /\ (g - 1) + 1 = g
    BY <1>1
  <2>2. Fragment(nalu, (g - 1) + 1) \in Seq(Nat)
    BY <1>4, <2>1
  <2>3. QED
    BY <2>1, <2>2
<1>6. <<nalu[1]>> \o Fragment(nalu, 1) = SubSeq(nalu, 1, 1 * f + 1)
  <2>1. 0 \in 0 .. p - 1 /\ 0 + 1 = 1 /\ 1 # p /\ 1 * f = f
    BY <1>1
  <2>2. 0 * f = 0 /\ 0 * f + 2 = 2 /\ 0 * f + f + 1 = f + 1
    BY <1>1
  <2>3. Fragment(nalu, 0 + 1) = SubSeq(nalu, 0 * f + 2, 0 * f + f + 1) /\ 0 * f + f + 1 \in 0 * f + 2 .. n
    BY <1>3, <2>1
  <2>4. Fragment(nalu, 1) = SubSeq(nalu, 2, f + 1) /\ f + 1 \in 2 .. n
    BY <2>1, <2>2, <2>3
  <2>5. 1 \in 1 .. n /\ f + 1 \in 1 .. n /\ 1 + 1 = 2
    BY <1>1, <2>4
  <2>6. SubSeq(nalu, 1, f + 1) = <<nalu[1]>> \o SubSeq(nalu, 1 + 1, f + 1)
    BY <2>5, SubSeqRecursiveFirst DEF n
  <2>7. SubSeq(nalu, 1, f + 1) = <<nalu[1]>> \o SubSeq(nalu, 2, f + 1)
    BY <2>5, <2>6
  <2>8. QED
    BY <2>1, <2>4, <2>7
<1>7. ASSUME NEW g \in 1 .. p - 1
      PROVE  /\ SubSeq(nalu, 1, g * f + 1) \in Seq(Nat)
             /\ Len(SubSeq(nalu, 1, g * f + 1)) < n
             /\ SubSeq(nalu, 1, g * f + 1) \o Fragment(nalu, g + 1) =
                  IF g + 1 = p THEN nalu ELSE SubSeq(nalu, 1, (g + 1) * f + 1)
  <2>1. g \in 0 .. p - 1 /\ (g + 1) * f + 1 = g * f + f + 1 /\ g * f < n - 1 /\ g * f \in Nat
    BY <1>1
  <2> DEFINE a == g * f  to == IF g + 1 = p THEN n ELSE a + f + 1
  <2>2. Fragment(nalu, g + 1) = SubSeq(nalu, a + 2, to) /\ a + 1 \in 1 .. n /\ to \in a + 2 .. n
    <3>1. /\ Fragment(nalu, g + 1) = SubSeq(nalu, a + 2, to)
          /\ a + 1 \in 1 .. n /\ a + 2 \in 1 .. n
          /\ g + 1 # p => a + f + 1 \in a + 2 .. n
      BY <1>3, <2>1
    <3> HIDE DEF a
    <3>2. CASE g + 1 = p
      <4>1. to = n /\ n \in a + 2 .. n
        BY <1>1, <3>1, <3>2
      <4>2. QED
        BY <3>1, <4>1
    <3>3. CASE g + 1 # p
      <4>1. to = a + f + 1
        BY <3>3
      <4>2. QED
        BY <3>1, <3>3, <4>1
    <3>4. QED
      BY <3>2, <3>3
  <2> HIDE DEF a, to
  <2>3. a \in Nat /\ a < n - 1 /\ n \in Nat /\ (a + 1) + 1 = a + 2
    BY <1>1, <2>1 DEF a
  <2>4. 1 \in 1 .. n + 1 /\ a + 1 \in 1 - 1 .. n /\ to \in a + 1 .. n
    BY <2>2, <2>3
  <2>5. SubSeq(nalu, 1, a + 1) \o SubSeq(nalu, (a + 1) + 1, to) = SubSeq(nalu, 1, to)
    BY <2>4, ConcatAdjacentSubSeq DEF n
  <2>6. SubSeq(nalu, 1, a + 1) \in Seq(Nat) /\ Len(SubSeq(nalu, 1, a + 1)) = a + 1
    <3>1. \A i \in 1 .. a + 1 : nalu[i] \in Nat
      BY <1>2, <2>3
    <3>2. 1 <= a + 1 /\ (a + 1) - 1 + 1 = a + 1 /\ a + 1 \in Int /\ 1 \in Int
      BY <2>3
    <3>3. SubSeq(nalu, 1, a + 1) \in Seq(Nat)
          /\ Len(SubSeq(nalu, 1, a + 1)) = IF 1 <= a + 1 THEN (a + 1) - 1 + 1 ELSE 0
      BY <3>1, <3>2, SubSeqProperties
    <3>4. QED
      BY <3>2, <3>3
  <2>7. SubSeq(nalu, 1, to) = IF g + 1 = p THEN nalu ELSE SubSeq(nalu, 1, (g + 1) * f + 1)
    <3>1. CASE g + 1 = p
      <4>1. to = n /\ SubSeq(nalu, 1, n) = nalu
        BY <3>1, SubSeqFull DEF to, n
      <4>2. QED
        BY <3>1, <4>1
    <3>2. CASE g + 1 # p
      <4>1. to = (g + 1) * f + 1
        BY <2>1, <3>2 DEF to, a
      <4>2. QED
        BY <3>2, <4>1
    <3>3. QED
      BY <3>1, <3>2
  <2>8. SubSeq(nalu, 1, a + 1) \o Fragment(nalu, g + 1) = SubSeq(nalu, 1, to)
    BY <2>2, <2>3, <2>5
  <2>9. a + 1 < n
    BY <2>3
  <2>10. QED
    BY <2>6, <2>7, <2>8, <2>9 DEF a
<1>8. QED
  BY <1>5, <1>6, <1>7 DEF f, p, n

\* What one iteration of the loop over fragments cuts off r and leaves of it
\* when fragment g + 1 is next (rtp.c:98-121).
CutOff(nalu, g, r) ==
  /\ r \in Seq(Nat) /\ r # << >> /\ (Len(r) <= FuPayloadSize <=> g + 1 = Parts(nalu))
  /\ g + 1 = Parts(nalu) => r = Fragment(nalu, g + 1)
  /\ g + 1 # Parts(nalu) =>
       /\ SubSeq(r, 1, FuPayloadSize) = Fragment(nalu, g + 1)
       /\ SubSeq(r, FuPayloadSize + 1, Len(r)) =
            SubSeq(nalu, (g + 1) * FuPayloadSize + 2, Len(nalu))

LEMMA Cuts ==
  ASSUME NEW nalu \in Seq(Nat), nalu # << >>, Len(nalu) > RtpPayloadSize,
         NEW g \in 0 .. Parts(nalu) - 1, NEW r, r = SubSeq(nalu, g * FuPayloadSize + 2, Len(nalu))
  PROVE  CutOff(nalu, g, r)
<1> DEFINE f == FuPayloadSize  p == Parts(nalu)  n == Len(nalu)  a == g * f
<1>1. /\ f \in Nat \ {0} /\ n \in Nat \ {0} /\ p \in Nat \ {0} /\ p > 1
      /\ n - 1 <= p * f
      /\ \A i \in 0 .. p - 1 :
           i * f \in Nat /\ (i + 1) * f = i * f + f /\ i * f < n - 1
  BY PartsAre
<1>2. \A i \in 1 .. n : nalu[i] \in Nat
  BY ElementOfSeq
<1> HIDE DEF f, p, n
<1>3. g \in 0 .. p - 1 /\ r = SubSeq(nalu, a + 2, n) /\ g \in Nat
  BY DEF f, p, n
<1>4. a \in Nat /\ (g + 1) * f = a + f /\ a < n - 1
  BY <1>1, <1>3
<1>5. g + 1 = p => n - 1 <= a + f
  BY <1>1, <1>4
<1>6. g + 1 # p => a + f < n - 1
  <2> SUFFICES ASSUME g + 1 # p PROVE a + f < n - 1
    OBVIOUS
  <2>1. g + 1 \in 0 .. p - 1
    BY <1>1, <1>3
  <2>2. QED
    BY <1>1, <1>4, <2>1
<1> HIDE DEF a
<1>7. /\ r \in Seq(Nat) /\ Len(r) = n - a - 1
      /\ \A i \in a + 2 .. n : nalu[i] \in Nat
  <2> DEFINE m == a + 2
  <2>1. \A i \in m .. n : nalu[i] \in Nat
    BY <1>1, <1>2, <1>4
  <2>2. m <= n /\ n - m + 1 = n - a - 1 /\ m \in Int /\ n \in Int
    BY <1>1, <1>4
  <2>3. r = SubSeq(nalu, m, n)
    BY <1>3
  <2> HIDE DEF m
  <2>4. SubSeq(nalu, m, n) \in Seq(Nat)
        /\ Len(SubSeq(nalu, m, n)) = IF m <= n THEN n - m + 1 ELSE 0
    BY <2>1, <2>2, SubSeqProperties
  <2>5. QED
    BY <2>1, <2>2, <2>3, <2>4 DEF m
<1>8. r # << >>
  <2>1. n - a - 1 # 0
    BY <1>1, <1>4
  <2>2. QED
    BY <1>7, <2>1, EmptySeq
<1>9. Len(r) <= f <=> g + 1 = p
  BY <1>1, <1>4, <1>5, <1>6, <1>7
<1>10. Fragment(nalu, g + 1) = SubSeq(nalu, a + 2, IF g + 1 = p THEN n ELSE a + f + 1)
  <2>1. (g + 1) - 1 = g
    BY <1>3
  <2>2. QED
    BY <1>4, <2>1 DEF Fragment, f, p, n, a
<1>11. CASE g + 1 = p
  <2>1. Fragment(nalu, g + 1) = r
    BY <1>3, <1>10, <1>11
  <2>2. QED
    BY <1>7, <1>8, <1>9, <1>11, <2>1 DEF CutOff, f, p, n
<1>12. CASE g + 1 # p
  <2> DEFINE m == a + 2  q == Len(r)
  <2>1. /\ m \in 1 .. n /\ n \in 1 .. n /\ 1 \in 1 .. n - m + 1
        /\ f \in 1 .. n - m + 1 /\ f + 1 \in 1 .. n - m + 1 /\ q \in 1 .. n - m + 1
        /\ m + 1 - 1 = m /\ m + f - 1 = a + f + 1
        /\ m + (f + 1) - 1 = (g + 1) * f + 2 /\ m + q - 1 = n
    <3> DEFINE b == (g + 1) * f
    <3>1. a \in Nat /\ n \in Nat /\ f \in Nat \ {0} /\ a + f < n - 1 /\ q = n - a - 1 /\ b = a + f
      BY <1>1, <1>4, <1>6, <1>7, <1>12
    <3> HIDE DEF q, b
    <3>2. /\ m \in 1 .. n /\ n \in 1 .. n /\ 1 \in 1 .. n - m + 1
          /\ f \in 1 .. n - m + 1 /\ f + 1 \in 1 .. n - m + 1 /\ q \in 1 .. n - m + 1
      BY <3>1
    <3>3. /\ m + 1 - 1 = m /\ m + f - 1 = a + f + 1
          /\ m + (f + 1) - 1 = b + 2 /\ m + q - 1 = n
      BY <3>1
    <3>4. QED
      BY <3>2, <3>3 DEF b
  <2>2. r = SubSeq(nalu, m, n)
    BY <1>3
  <2> HIDE DEF m, q
  <2>3. n = Len(nalu)
    BY DEF n
  <2>4. SubSeq(SubSeq(nalu, m, n), 1, f) = SubSeq(nalu, m + 1 - 1, m + f - 1)
    BY <2>1, <2>3, SubSeqOfSubSeq
  <2>5. SubSeq(SubSeq(nalu, m, n), f + 1, q) = SubSeq(nalu, m + (f + 1) - 1, m + q - 1)
    BY <2>1, <2>3, SubSeqOfSubSeq
  <2>6. SubSeq(r, 1, f) = Fragment(nalu, g + 1)
    BY <1>10, <1>12, <2>1, <2>2, <2>4 DEF m
  <2>7. SubSeq(r, f + 1, Len(r)) = SubSeq(nalu, (g + 1) * f + 2, n)
    BY <2>1, <2>2, <2>5 DEF q
  <2>8. QED
    BY <1>7, <1>8, <1>9, <1>12, <2>6, <2>7 DEF CutOff, f, p, n
<1>13. QED
  BY <1>11, <1>12

-----------------------------------------------------------------------------
(* What was handed over.                                                     *)

HandedOf(q) == FlattenSeq([n \in 1 .. Len(q) |-> NalusOf(q[n])])

LEMMA NalusAre ==
  ASSUME NEW unit \in AccessUnits
  PROVE  /\ NalusOf(unit) \in Seq(Seq(Nat)) /\ Len(NalusOf(unit)) = Len(unit) /\ Len(unit) \in Nat
         /\ \A j \in 1 .. Len(unit) : NalusOf(unit)[j] = unit[j].nalu /\ NalusOf(unit)[j] # << >>
<1>1. Len(unit) \in Nat
  BY UnitsAre, LenProperties
<1>2. \A j \in 1 .. Len(unit) : NalusOf(unit)[j] = unit[j].nalu /\ NalusOf(unit)[j] # << >>
                             /\ unit[j].nalu \in Seq(Nat)
  BY UnitsAre DEF NalusOf
<1>3. NalusOf(unit) \in [1 .. Len(unit) -> Seq(Nat)]
  BY <1>2 DEF NalusOf
<1>4. NalusOf(unit) \in Seq(Seq(Nat))
  BY <1>1, <1>3, SeqDef
<1>5. DOMAIN NalusOf(unit) = 1 .. Len(NalusOf(unit)) /\ Len(NalusOf(unit)) \in Nat
  BY <1>4, LenProperties
<1>6. DOMAIN NalusOf(unit) = 1 .. Len(unit)
  BY DEF NalusOf
<1>7. Len(NalusOf(unit)) = Len(unit)
  BY <1>1, <1>5, <1>6
<1>8. QED
  BY <1>1, <1>2, <1>4, <1>7

\* One access unit more puts its NAL units behind the others.
LEMMA HandedMore ==
  ASSUME NEW q \in Seq(AccessUnits), NEW unit \in AccessUnits
  PROVE  /\ HandedOf(<< >>) = << >>
         /\ HandedOf(q) \in Seq(Seq(Nat))
         /\ HandedOf(Append(q, unit)) = HandedOf(q) \o NalusOf(unit)
<1> DEFINE all(u) == [n \in 1 .. Len(u) |-> NalusOf(u[n])]
<1>1. ASSUME NEW u \in Seq(AccessUnits)
      PROVE  all(u) \in Seq(Seq(Seq(Nat))) /\ Len(all(u)) = Len(u) /\ Len(u) \in Nat
             /\ \A n \in 1 .. Len(u) : all(u)[n] = NalusOf(u[n])
  <2>1. \A n \in 1 .. Len(u) : u[n] \in AccessUnits
    BY ElementOfSeq
  <2>2. \A n \in 1 .. Len(u) : all(u)[n] = NalusOf(u[n]) /\ NalusOf(u[n]) \in Seq(Seq(Nat))
    BY <2>1, NalusAre
  <2>3. Len(u) \in Nat
    BY LenProperties
  <2>4. all(u) \in [1 .. Len(u) -> Seq(Seq(Nat))]
    BY <2>2
  <2>5. all(u) \in Seq(Seq(Seq(Nat)))
    BY <2>3, <2>4, SeqDef
  <2>6. DOMAIN all(u) = 1 .. Len(u) /\ DOMAIN all(u) = 1 .. Len(all(u)) /\ Len(all(u)) \in Nat
    BY <2>5, LenProperties
  <2> HIDE DEF all
  <2>7. QED
    BY <2>2, <2>3, <2>5, <2>6
<1>2. \A u : HandedOf(u) = FlattenSeq(all(u))
  BY DEF HandedOf
<1>3. Len(<< >>) = 0 /\ << >> \in Seq(AccessUnits) /\ << >> \in Seq(Seq(Seq(Nat)))
  BY EmptySeq
<1> HIDE DEF all
<1>4. all(<< >>) = << >>
  BY <1>1, <1>3, EmptySeq
<1>5. HandedOf(Append(q, unit)) = HandedOf(q) \o NalusOf(unit)
  <2> DEFINE t == Append(q, unit)
  <2>1. t \in Seq(AccessUnits) /\ Len(t) = Len(q) + 1 /\ Len(q) \in Nat /\ t[Len(q) + 1] = unit
        /\ \A n \in 1 .. Len(q) : t[n] = q[n]
    BY AppendProperties, LenProperties
  <2> HIDE DEF t
  <2>2. NalusOf(unit) \in Seq(Seq(Nat))
    BY NalusAre
  <2> DEFINE a == Append(all(q), NalusOf(unit))
  <2>3. /\ all(q) \in Seq(Seq(Seq(Nat))) /\ Len(all(q)) = Len(q)
        /\ \A n \in 1 .. Len(q) : all(q)[n] = NalusOf(q[n])
    BY <1>1
  <2>4. /\ a \in Seq(Seq(Seq(Nat))) /\ Len(a) = Len(q) + 1 /\ a[Len(q) + 1] = NalusOf(unit)
        /\ \A n \in 1 .. Len(q) : a[n] = all(q)[n]
    BY <2>2, <2>3, AppendProperties
  <2>5. all(t) \in Seq(Seq(Seq(Nat))) /\ Len(all(t)) = Len(t)
        /\ \A n \in 1 .. Len(t) : all(t)[n] = NalusOf(t[n])
    BY <1>1, <2>1
  <2> HIDE DEF a
  <2>6. ASSUME NEW n \in 1 .. Len(all(t)) PROVE all(t)[n] = a[n]
    <3>1. all(t)[n] = NalusOf(t[n])
      BY <2>5
    <3>2. CASE n = Len(q) + 1
      BY <2>1, <2>4, <3>1, <3>2
    <3>3. CASE n \in 1 .. Len(q)
      <4>1. a[n] = all(q)[n] /\ all(q)[n] = NalusOf(q[n]) /\ t[n] = q[n]
        BY <2>1, <2>3, <2>4, <3>3
      <4>2. QED
        BY <3>1, <4>1
    <3>4. QED
      BY <2>1, <2>5, <3>2, <3>3
  <2>7. all(t) = a
    BY <2>1, <2>4, <2>5, <2>6, SeqEqual
  <2>8. FlattenSeq(a) = FlattenSeq(all(q)) \o NalusOf(unit)
    BY <2>2, <2>3, FlattenMore, FlattenType DEF a
  <2>9. QED
    BY <1>2, <2>7, <2>8 DEF t
<1>6. HandedOf(<< >>) = << >>
  BY <1>2, <1>4, FlattenEmpty
<1>7. HandedOf(q) \in Seq(Seq(Nat))
  BY <1>1, <1>2, FlattenType
<1>8. QED
  BY <1>5, <1>6, <1>7

-----------------------------------------------------------------------------
(* The order the packets arrive in.                                          *)

LEMMA ArrivedEarlier ==
  ASSUME NEW d \in Seq(Nat \X Nat), NEW c \in Nat \X Nat, NEW n, NEW g \in Nat,
         NEW e \in 1 .. Len(d), Arrived(Append(d, c), n, g, e)
  PROVE  Arrived(d, n, g, e)
<1> DEFINE t == Append(d, c)
<1>1. \A i \in 1 .. Len(d) : t[i] = d[i]
  BY AppendProperties
<1>2. Len(d) \in Nat
  BY LenProperties
<1>3. g <= e /\ \A p \in 1 .. g : t[e - g + p] = <<n, p>>
  BY DEF Arrived
<1> HIDE DEF t
<1>4. \A p \in 1 .. g : e - g + p \in 1 .. Len(d)
  BY <1>2, <1>3
<1>5. QED
  BY <1>1, <1>3, <1>4 DEF Arrived

LEMMA ArrivedNow ==
  ASSUME NEW d \in Seq(Nat \X Nat), NEW m \in Nat, NEW q \in Nat, NEW n, NEW g \in Nat \ {0},
         Arrived(Append(d, <<m, q>>), n, g, Len(d) + 1)
  PROVE  n = m /\ g = q /\ (g > 1 => Arrived(d, n, g - 1, Len(d)))
<1> DEFINE t == Append(d, <<m, q>>)  L == Len(d)
<1>1. /\ \A i \in 1 .. L : t[i] = d[i]
      /\ t[L + 1] = <<m, q>>
  <2>1. <<m, q>> \in Nat \X Nat
    OBVIOUS
  <2>2. QED
    BY <2>1, AppendProperties
<1>2. L \in Nat
  BY LenProperties
<1>3. g <= L + 1 /\ \A p \in 1 .. g : t[(L + 1) - g + p] = <<n, p>>
  BY Zenon DEF Arrived
<1> HIDE DEF t, L
<1>4. g \in 1 .. g /\ (L + 1) - g + g = L + 1
  BY <1>2
<1>5. <<m, q>> = <<n, g>>
  <2>1. t[(L + 1) - g + g] = <<n, g>>
    BY <1>3, <1>4
  <2>2. QED
    BY <1>1, <1>4, <2>1
<1>6. ASSUME g > 1 PROVE Arrived(d, n, g - 1, L)
  <2>1. g - 1 <= L
    BY <1>2, <1>3
  <2>2. ASSUME NEW p \in 1 .. g - 1 PROVE d[L - (g - 1) + p] = <<n, p>>
    <3>1. p \in 1 .. g /\ (L + 1) - g + p = L - (g - 1) + p /\ L - (g - 1) + p \in 1 .. L
      BY <1>2, <2>1
    <3>2. t[(L + 1) - g + p] = <<n, p>>
      BY <1>3, <3>1
    <3>3. QED
      BY <1>1, <3>1, <3>2
  <2>3. QED
    BY <2>1, <2>2 DEF Arrived
<1>7. QED
  BY <1>5, <1>6 DEF L

\* Packets that follow each other in what the receiver decoded arrived.
LEMMA InARow ==
  ASSUME NEW d \in Seq(Nat \X Nat), NEW n, NEW g \in Nat \ {0}, NEW a \in 1 .. Len(d),
         a + g - 1 <= Len(d), SubSeq(d, a, a + g - 1) = [p \in 1 .. g |-> <<n, p>>]
  PROVE  a + g - 1 \in 1 .. Len(d) /\ Arrived(d, n, g, a + g - 1)
<1> DEFINE e == a + g - 1
<1>1. Len(d) \in Nat /\ \A i \in 1 .. Len(d) : d[i] \in Nat \X Nat
  BY LenProperties, ElementOfSeq
<1>2. e \in 1 .. Len(d) /\ e \in Int /\ a \in Int /\ e - a + 1 = g /\ g <= e
  BY <1>1
<1>3. \A i \in a .. e : d[i] \in Nat \X Nat
  BY <1>1, <1>2
<1> HIDE DEF e
<1>4. \A i \in 1 .. e - a + 1 : SubSeq(d, a, e)[i] = d[a + i - 1]
  BY <1>2, <1>3, SubSeqProperties
<1>5. SubSeq(d, a, e) = [p \in 1 .. g |-> <<n, p>>]
  BY DEF e
<1>6. ASSUME NEW p \in 1 .. g PROVE d[e - g + p] = <<n, p>>
  <2>1. e - g + p = a + p - 1 /\ p \in 1 .. e - a + 1
    BY <1>2
  <2>2. SubSeq(d, a, e)[p] = d[a + p - 1]
    BY <1>4, <2>1
  <2>3. QED
    BY <1>5, <2>1, <2>2
<1>7. QED
  BY <1>2, <1>6 DEF Arrived, e

-----------------------------------------------------------------------------
(* The receiver.                                                             *)

\* What the decoder reads out of the two bytes before a fragment is what the
\* encoder put there (rtp.c:84-104, 486-492).
LEMMA FuPayloadIs ==
  ASSUME NEW h \in Nat, h < 128, NEW s, NEW e, NEW bytes \in Seq(Nat),
         NEW p, p = FuPayload(h, s, e, bytes)
  PROVE  /\ ~Single(p) /\ FuNaluHeader(p) = h /\ FuBytes(p) = bytes
         /\ FuStarts(p) <=> s
         /\ FuEnds(p) <=> e
<1> DEFINE d == h \div 32  r == h % 32  a == Bit(s, 128)  b == Bit(e, 64)
           first == ((h - r) % 128) + 28  second == (a + b) + r
<1>1. d \in Int /\ r \in 0 .. 31 /\ h = 32 * d + r
  BY DivMod
<1>2. /\ a \in {0, 128} /\ (a = 128 <=> s)
      /\ b \in {0, 64} /\ (b = 64 <=> e)
  BY DEF Bit
<1>3. p = <<first, second>> \o bytes
  BY DEF FuPayload, NalType
<1> HIDE DEF d, r, a, b
<1>4. h - r \in 0 .. 128 - 1 /\ h - r = 32 * d /\ 128 \in Nat \ {0}
  BY <1>1
<1>5. first = 32 * d + 28 /\ first \in Nat
  <2> DEFINE x == h - r
  <2>1. x \in 0 .. 128 - 1 /\ 128 \in Nat \ {0} /\ x = 32 * d
    BY <1>4
  <2> HIDE DEF x
  <2>2. x % 128 = x
    BY <2>1, ModSmall
  <2>3. (h - r) % 128 = 32 * d
    BY <2>1, <2>2 DEF x
  <2>4. QED
    BY <1>1, <2>3
<1>6. second \in Nat
  BY <1>1, <1>2
<1>7. first % 32 = 28 /\ second % 32 = r
  <2> DEFINE x == first  y == second
  <2>1. x \in Int /\ x = 32 * d + 28
    BY <1>5
  <2>2. PICK q \in Int : y = 32 * q + r
    <3>1. (a = 0 \/ a = 32 * 4) /\ (b = 0 \/ b = 32 * 2)
      BY <1>2
    <3>2. y = (a + b) + r
      OBVIOUS
    <3> HIDE DEF y
    <3>3. CASE a = 0 /\ b = 0
      BY <1>1, <3>2, <3>3
    <3>4. CASE a = 0 /\ b = 64
      <4>1. y = 32 * 2 + r
        BY <1>1, <3>2, <3>4
      <4> WITNESS 2 \in Int
      <4>2. QED
        BY <4>1
    <3>5. CASE a = 128 /\ b = 0
      <4>1. y = 32 * 4 + r
        BY <1>1, <3>2, <3>5
      <4> WITNESS 4 \in Int
      <4>2. QED
        BY <4>1
    <3>6. CASE a = 128 /\ b = 64
      <4>1. y = 32 * 6 + r
        BY <1>1, <3>2, <3>6
      <4> WITNESS 6 \in Int
      <4>2. QED
        BY <4>1
    <3>7. QED
      BY <1>2, <3>3, <3>4, <3>5, <3>6
  <2>3. y \in Int
    BY <1>6
  <2> HIDE DEF x, y
  <2>4. x % 32 = 28
    BY <1>1, <2>1, ModIs
  <2>5. y % 32 = r
    BY <1>1, <2>2, <2>3, ModIs
  <2>6. QED
    BY <2>4, <2>5 DEF x, y
<1>8. /\ second >= 128 <=> s
      /\ second % 128 >= 64 <=> e
  <2> DEFINE y == second  t == b + r
  <2>1. /\ y \in Int /\ y = a + t /\ (a = 0 \/ a = 128)
        /\ t \in 0 .. 128 - 1 /\ (t >= 64 <=> b = 64) /\ 128 \in Nat \ {0}
    BY <1>1, <1>2, <1>6
  <2> HIDE DEF y, t
  <2>2. PICK q \in Int : y = 128 * q + t
    <3>1. CASE a = 0
      <4>1. y = 128 * 0 + t
        BY <2>1, <3>1
      <4> WITNESS 0 \in Int
      <4>2. QED
        BY <4>1
    <3>2. CASE a = 128
      <4>1. y = 128 * 1 + t
        BY <2>1, <3>2
      <4> WITNESS 1 \in Int
      <4>2. QED
        BY <4>1
    <3>3. a = 0 \/ a = 128
      BY <2>1
    <3>4. QED
      BY <3>1, <3>2, <3>3, Zenon
  <2>3. y % 128 = t
    <3> DEFINE c == 128
    <3>1. c \in Nat \ {0} /\ t \in 0 .. c - 1 /\ y \in Int /\ q \in Int /\ y = c * q + t
      BY <2>1, <2>2
    <3> HIDE DEF c
    <3>2. y % c = t
      BY <3>1, ModIs, Zenon
    <3>3. QED
      BY <3>2 DEF c
  <2>4. y >= 128 <=> a = 128
    BY <2>1
  <2>5. QED
    BY <1>2, <2>1, <2>3, <2>4 DEF y
<1> HIDE DEF first, second
<1> DEFINE two == <<first, second>>
<1>9. two \in Seq(Nat) /\ Len(two) = 2 /\ two[1] = first /\ two[2] = second
  BY <1>5, <1>6
<1> HIDE DEF two
<1>10. Len(bytes) \in Nat
  BY LenProperties
<1>11. /\ p \in Seq(Nat) /\ Len(p) = 2 + Len(bytes)
       /\ \A i \in 1 .. 2 + Len(bytes) : p[i] = IF i <= 2 THEN two[i] ELSE bytes[i - 2]
  <2>1. p = two \o bytes
    BY <1>3 DEF two
  <2>2. two \in Seq(Nat) /\ bytes \in Seq(Nat) /\ Len(two) = 2
    BY <1>9
  <2>3. /\ two \o bytes \in Seq(Nat) /\ Len(two \o bytes) = Len(two) + Len(bytes)
        /\ \A i \in 1 .. Len(two) + Len(bytes) :
             (two \o bytes)[i] = IF i <= Len(two) THEN two[i] ELSE bytes[i - Len(two)]
    BY <2>2, ConcatProperties
  <2>4. QED
    BY <2>1, <2>2, <2>3
<1>12. p[1] = first /\ p[2] = second
  BY <1>9, <1>10, <1>11
<1>13. FuBytes(p) = bytes
  <2> DEFINE n == Len(p)  c == SubSeq(p, 3, n)
  <2>1. n \in Int /\ n = 2 + Len(bytes) /\ \A i \in 3 .. n : p[i] \in Nat
    BY <1>10, <1>11, ElementOfSeq
  <2> HIDE DEF n
  <2>2. /\ c \in Seq(Nat) /\ Len(c) = IF 3 <= n THEN n - 3 + 1 ELSE 0
        /\ \A i \in 1 .. n - 3 + 1 : c[i] = p[3 + i - 1]
    BY <2>1, SubSeqProperties
  <2> HIDE DEF c
  <2>3. Len(c) = Len(bytes)
    BY <1>10, <2>1, <2>2
  <2>4. ASSUME NEW i \in 1 .. Len(c) PROVE c[i] = bytes[i]
    <3>1. i \in 1 .. n - 3 + 1 /\ 3 + i - 1 \in 1 .. 2 + Len(bytes) /\ ~(3 + i - 1 <= 2)
          /\ (3 + i - 1) - 2 = i
      BY <1>10, <2>1, <2>3
    <3> DEFINE m == 3 + i - 1
    <3>2. c[i] = p[m] /\ m \in 1 .. 2 + Len(bytes) /\ ~(m <= 2) /\ m - 2 = i
      BY <2>2, <3>1
    <3> HIDE DEF m
    <3>3. p[m] = bytes[m - 2]
      BY <1>11, <3>2
    <3>4. QED
      BY <3>2, <3>3
  <2>5. c = bytes
    BY <2>2, <2>3, <2>4, SeqEqual
  <2>6. QED
    BY <2>5 DEF FuBytes, c, n
<1>14. ~Single(p)
  <2>1. NalType(p[1]) = 28
    BY <1>7, <1>12 DEF NalType
  <2>2. 28 \notin SingleTypes
    BY DEF SingleTypes
  <2>3. QED
    BY <2>1, <2>2 DEF Single
<1>15. FuNaluHeader(p) = h
  <2>1. FuNaluHeader(p) = (first - 28) + r
    BY <1>7, <1>12 DEF FuNaluHeader, NalType
  <2>2. QED
    BY <1>1, <1>5, <2>1
<1>16. QED
  BY <1>8, <1>12, <1>13, <1>14, <1>15 DEF FuStarts, FuEnds

\* A packet that arrives behind those before it adds its fragment, and the
\* last one hands the NAL unit over (rtp.c:469-513).
LEMMA DecodedNow ==
  ASSUME HandedOK, DecoderOK, NEW packet, PacketOK(packet), FitsNaluBuf(packet.nalu),
         packet.part > 1 =>
           Arrived(decoded, packet.nalu, packet.part - 1, Len(decoded)),
         \/ DecodeSingle(packet.payload) \/ DecodeFuStart(packet.payload)
         \/ DecodeFu(packet.payload) \/ DecodeFuPast(packet.payload)
         \/ DecodeFuFull(packet.payload)
  PROVE  LET nalu == Handed[packet.nalu]
         IN  /\ packet.part < Parts(nalu) =>
                  naluBuf' = StartCode(3) \o SubSeq(nalu, 1, packet.part * FuPayloadSize + 1)
             /\ packet.part = Parts(nalu) =>
                  [at |-> Len(decoded) + 1, bytes |-> StartCode(3) \o nalu] \in delivered'
<1> DEFINE nalu == Handed[packet.nalu]  g == packet.part  f == FuPayloadSize
           code == StartCode(3)
           Said == /\ g < Parts(nalu) => naluBuf' = code \o SubSeq(nalu, 1, g * f + 1)
                   /\ g = Parts(nalu) =>
                        [at |-> Len(decoded) + 1, bytes |-> code \o nalu] \in delivered'
<1> SUFFICES Said
  OBVIOUS
<1>1. nalu \in Seq(Nat) /\ nalu # << >> /\ packet.nalu \in 1 .. Len(Handed)
  BY ElementOfSeq DEF HandedOK, PacketOK
<1>2. /\ f \in Nat \ {0} /\ Parts(nalu) \in Nat \ {0} /\ g \in 1 .. Parts(nalu)
      /\ Len(nalu) \in Nat
      /\ Len(nalu) <= RtpPayloadSize => Parts(nalu) = 1
      /\ Len(nalu) > RtpPayloadSize => Parts(nalu) > 1
  BY <1>1, PartsAre DEF PacketOK
<1>3. code \in Seq(Nat) /\ Len(code) = 4
  BY StartCodeIs
<1>4. RtpPayloadSize \in Nat /\ MaxNaluSize \in Nat
  BY H264Assumption
<1>5. /\ Len(code \o nalu) <= MaxNaluSize
      /\ Len(nalu) > RtpPayloadSize \/ NalType(nalu[1]) \in SingleTypes
  BY DEF FitsNaluBuf, Decodable
<1>6. CASE Len(nalu) <= RtpPayloadSize
  <2>1. packet.payload = nalu /\ g = 1 /\ Parts(nalu) = 1 /\ ~(Len(nalu) > RtpPayloadSize)
    BY <1>2, <1>4, <1>6 DEF PacketOK
  <2>2. DecodeSingle(packet.payload)
    <3>1. Single(packet.payload)
      BY <1>5, <2>1 DEF Single
    <3>2. QED
      BY <3>1 DEF DecodeFuStart, DecodeFu, DecodeFuPast, DecodeFuFull, FuGoesOn
  <2>3. [at |-> Len(decoded) + 1, bytes |-> code \o nalu] \in delivered'
    BY <2>1, <2>2 DEF DecodeSingle, HandOver
  <2>4. ~(g < Parts(nalu))
    BY <2>1
  <2>5. QED
    BY <2>3, <2>4
<1>7. CASE Len(nalu) > RtpPayloadSize
  <2>1. /\ ~Single(packet.payload)
        /\ FuNaluHeader(packet.payload) = nalu[1] /\ FuBytes(packet.payload) = Fragment(nalu, g)
        /\ FuStarts(packet.payload) <=> g = 1
        /\ FuEnds(packet.payload) <=> g = Parts(nalu)
    <3>1. ~(Len(nalu) <= RtpPayloadSize)
      BY <1>2, <1>4, <1>7
    <3>2. QED
      BY <3>1 DEF PacketOK, ReadAs
  <2>2. /\ Fragment(nalu, g) \in Seq(Nat)
        /\ <<nalu[1]>> \o Fragment(nalu, 1) = SubSeq(nalu, 1, 1 * f + 1)
        /\ \A i \in 1 .. Parts(nalu) - 1 :
             /\ SubSeq(nalu, 1, i * f + 1) \in Seq(Nat)
             /\ Len(SubSeq(nalu, 1, i * f + 1)) < Len(nalu)
             /\ SubSeq(nalu, 1, i * f + 1) \o Fragment(nalu, i + 1) =
                  IF i + 1 = Parts(nalu) THEN nalu ELSE SubSeq(nalu, 1, (i + 1) * f + 1)
    BY <1>1, <1>2, <1>7, FragmentsJoin
  <2>3. CASE g = 1
    <3>1. FuStarts(packet.payload) /\ g # Parts(nalu)
      BY <1>2, <1>7, <2>1, <2>3
    <3>2. DecodeFuStart(packet.payload)
      BY <2>1, <3>1 DEF DecodeSingle, DecodeFu, DecodeFuPast, DecodeFuFull, FuGoesOn
    <3>3. naluBuf' = code \o <<nalu[1]>> \o Fragment(nalu, 1)
      BY <2>1, <2>3, <3>2 DEF DecodeFuStart
    <3>4. <<nalu[1]>> \in Seq(Nat) /\ Fragment(nalu, 1) \in Seq(Nat)
      <4>1. 1 \in 1 .. Len(nalu)
        BY <1>2, <1>4, <1>7
      <4>2. nalu[1] \in Nat
        BY <1>1, <4>1, ElementOfSeq
      <4>3. QED
        BY <2>2, <2>3, <4>2
    <3>5. (code \o <<nalu[1]>>) \o Fragment(nalu, 1) = code \o (<<nalu[1]>> \o Fragment(nalu, 1))
      BY <1>3, <3>4, ConcatAssociative
    <3>6. naluBuf' = code \o SubSeq(nalu, 1, g * f + 1)
      BY <2>2, <2>3, <3>3, <3>5
    <3>7. QED
      BY <3>1, <3>6
  <2>4. CASE g # 1
    <3>1. g - 1 \in 1 .. Parts(nalu) - 1 /\ g > 1 /\ (g - 1) + 1 = g
      BY <1>2, <2>4
    <3>2. Arrived(decoded, packet.nalu, g - 1, Len(decoded))
      BY <3>1
    <3>3. naluBuf = code \o SubSeq(nalu, 1, (g - 1) * f + 1)
      BY <1>1, <3>1, <3>2 DEF DecoderOK
    <3>4. /\ SubSeq(nalu, 1, (g - 1) * f + 1) \in Seq(Nat)
          /\ Len(SubSeq(nalu, 1, (g - 1) * f + 1)) < Len(nalu)
          /\ SubSeq(nalu, 1, (g - 1) * f + 1) \o Fragment(nalu, g) =
               IF g = Parts(nalu) THEN nalu ELSE SubSeq(nalu, 1, g * f + 1)
      BY <2>2, <3>1
    <3> DEFINE begun == SubSeq(nalu, 1, (g - 1) * f + 1)
    <3>5. Len(naluBuf) < MaxNaluSize
      <4>1. Len(naluBuf) = Len(code) + Len(begun) /\ Len(code \o nalu) = Len(code) + Len(nalu)
            /\ Len(begun) \in Nat
        BY <1>1, <1>3, <3>3, <3>4, ConcatProperties, LenProperties
      <4> HIDE DEF begun, code, nalu
      <4>2. Len(begun) < Len(nalu)
        BY <3>4 DEF begun
      <4>3. QED
        BY <1>2, <1>3, <1>4, <1>5, <4>1, <4>2
    <3>6. naluBuf \o FuBytes(packet.payload) = code \o (begun \o Fragment(nalu, g))
      <4>1. (code \o begun) \o Fragment(nalu, g) = code \o (begun \o Fragment(nalu, g))
        <5>1. code \in Seq(Nat) /\ begun \in Seq(Nat) /\ Fragment(nalu, g) \in Seq(Nat)
          BY <1>3, <2>2, <3>4
        <5> HIDE DEF code, begun, nalu, g
        <5>2. QED
          BY <5>1, ConcatAssociative
      <4>2. naluBuf = code \o begun /\ FuBytes(packet.payload) = Fragment(nalu, g)
        BY <2>1, <3>3
      <4> HIDE DEF code, begun, nalu, g
      <4>3. QED
        BY <4>1, <4>2
    <3> DEFINE whole == naluBuf \o FuBytes(packet.payload)
    <3>7. g # Parts(nalu) => /\ SubSeq(nalu, 1, g * f + 1) \in Seq(Nat)
                             /\ Len(SubSeq(nalu, 1, g * f + 1)) < Len(nalu)
      <4> SUFFICES ASSUME g # Parts(nalu)
                   PROVE  /\ SubSeq(nalu, 1, g * f + 1) \in Seq(Nat)
                          /\ Len(SubSeq(nalu, 1, g * f + 1)) < Len(nalu)
        OBVIOUS
      <4> DEFINE m == Parts(nalu)
      <4>1. g \in 1 .. m /\ m \in Nat \ {0} /\ g # m
        BY <1>2
      <4>2. \A i \in 1 .. m - 1 :
              /\ SubSeq(nalu, 1, i * f + 1) \in Seq(Nat)
              /\ Len(SubSeq(nalu, 1, i * f + 1)) < Len(nalu)
        BY <2>2
      <4> HIDE DEF m, g, f, nalu
      <4>3. g \in 1 .. m - 1
        BY <4>1
      <4>4. QED
        BY <4>2, <4>3
    <3> HIDE DEF begun, code, nalu, g, f
    <3>8. whole = code \o (IF g = Parts(nalu) THEN nalu ELSE SubSeq(nalu, 1, g * f + 1))
      BY <3>4, <3>6 DEF begun
    <3>9. Len(whole) \in Nat /\ Len(whole) <= MaxNaluSize /\ Len(naluBuf) \in Nat
      <4>1. Len(naluBuf) \in Nat
        BY <1>3, <3>3, <3>4, ConcatProperties, LenProperties
      <4>2. Len(code \o nalu) = Len(code) + Len(nalu)
        BY <1>1, <1>3, ConcatProperties
      <4>3. CASE g = Parts(nalu)
        BY <1>2, <1>3, <1>5, <3>8, <4>1, <4>2, <4>3
      <4>4. CASE g # Parts(nalu)
        <5> DEFINE more == SubSeq(nalu, 1, g * f + 1)
        <5>1. more \in Seq(Nat) /\ Len(more) < Len(nalu) /\ whole = code \o more
          BY <3>7, <3>8, <4>4
        <5> HIDE DEF more, whole
        <5>2. Len(whole) = Len(code) + Len(more) /\ Len(more) \in Nat
          BY <1>3, <5>1, ConcatProperties, LenProperties
        <5>3. QED
          BY <1>2, <1>3, <1>4, <1>5, <4>1, <4>2, <5>1, <5>2
      <4>5. QED
        BY <4>3, <4>4
    <3> HIDE DEF whole
    <3>10. DecodeFu(packet.payload)
      <4>1. ~DecodeSingle(packet.payload) /\ ~DecodeFuStart(packet.payload)
        BY <2>1, <2>4 DEF DecodeSingle, DecodeFuStart
      <4>2. ~(Len(naluBuf) >= MaxNaluSize) /\ ~(Len(whole) > MaxNaluSize)
        BY <1>4, <3>5, <3>9
      <4>3. ~DecodeFuPast(packet.payload) /\ ~DecodeFuFull(packet.payload)
        BY <4>2 DEF DecodeFuPast, DecodeFuFull, whole
      <4>4. QED
        BY <4>1, <4>3
    <3>11. IF FuEnds(packet.payload) THEN HandOver(whole) ELSE naluBuf' = whole
      BY <3>10 DEF DecodeFu, whole
    <3>12. CASE g = Parts(nalu)
      <4>1. whole = code \o nalu /\ FuEnds(packet.payload)
        BY <2>1, <3>8, <3>12
      <4>2. [at |-> Len(decoded) + 1, bytes |-> code \o nalu] \in delivered'
        BY <3>11, <4>1 DEF HandOver
      <4>3. ~(g < Parts(nalu))
        BY <1>2, <3>12
      <4>4. QED
        BY <4>2, <4>3
    <3>13. CASE g # Parts(nalu)
      <4>1. whole = code \o SubSeq(nalu, 1, g * f + 1) /\ ~FuEnds(packet.payload)
        BY <2>1, <3>8, <3>13
      <4>2. QED
        BY <3>11, <3>13, <4>1
    <3>14. QED
      BY <3>12, <3>13
  <2>5. QED
    BY <2>3, <2>4
<1>8. Len(nalu) <= RtpPayloadSize \/ Len(nalu) > RtpPayloadSize
  BY <1>2, <1>4
<1> HIDE DEF Said
<1>9. QED
  BY <1>6, <1>7, <1>8

\* While no access unit is added, what was handed over stays as it is.
LEMMA HandedStays ==
  ASSUME units' = units
  PROVE  Handed' = Handed /\ AccessUnit' = AccessUnit /\ Before' = Before
<1>1. Handed' = Handed
  BY DEF Handed
<1>2. QED
  BY <1>1 DEF AccessUnit, Before

LEMMA PacketStays ==
  ASSUME units' = units, NEW packet, PacketOK(packet)
  PROVE  PacketOK(packet)'
<1>1. Handed' = Handed
  BY HandedStays
<1>2. QED
  BY <1>1 DEF PacketOK, Parts, Fragment

LEMMA EncoderStays ==
  ASSUME EncoderOK, UNCHANGED senderVars
  PROVE  EncoderOK'
<1>1. /\ buf' = buf /\ pstart' = pstart /\ rest' = rest /\ fu' = fu
      /\ units' = units /\ nth' = nth /\ part' = part
  BY DEF senderVars
<1>2. Handed' = Handed /\ AccessUnit' = AccessUnit /\ Before' = Before
  BY <1>1, HandedStays
<1>3. \A nalu : Cutting(nalu)' <=> Cutting(nalu)
  BY <1>1 DEF Cutting, Parts
<1>4. \A j : EncoderAt(j)' <=> EncoderAt(j)
  BY <1>1, <1>2, <1>3 DEF EncoderAt, NaluAt, CodeAt
<1>5. QED
  BY <1>1, <1>2, <1>4 DEF EncoderOK

LEMMA DecoderStays ==
  ASSUME DecoderOK, Handed' = Handed, UNCHANGED receiverVars
  PROVE  DecoderOK'
<1>1. decoded' = decoded /\ naluBuf' = naluBuf /\ delivered' = delivered
  BY DEF receiverVars
<1>2. QED
  BY <1>1 DEF DecoderOK, FitsNaluBuf, Arrived, Parts

LEMMA ReceiverStep ==
  ASSUME H264Inv, DecodeH264
  PROVE  H264Inv'
<1> USE DEF H264Inv
<1>1. PICK packet \in inFlight :
        /\ inFlight' = inFlight \ {packet}
        /\ decoded' = Append(decoded, <<packet.nalu, packet.part>>)
        /\ \/ DecodeSingle(packet.payload) \/ DecodeFuStart(packet.payload)
           \/ DecodeFu(packet.payload) \/ DecodeFuPast(packet.payload)
           \/ DecodeFuFull(packet.payload)
  BY DEF DecodeH264
<1>2. UNCHANGED senderVars /\ units' = units
  BY DEF DecodeH264, senderVars
<1>3. Handed' = Handed
  BY <1>2, HandedStays
<1>4. HandedOK' /\ EncoderOK'
  BY <1>2, <1>3, EncoderStays DEF HandedOK
<1>5. \A p \in inFlight' : PacketOK(p)'
  BY <1>1, <1>2, PacketStays
<1>6. DecoderOK'
  <2> DEFINE m == packet.nalu  q == packet.part  L == Len(decoded)
  <2>1. /\ PacketOK(packet) /\ m \in 1 .. Len(Handed) /\ Len(Handed) \in Nat
        /\ q \in 1 .. Parts(Handed[m]) /\ Parts(Handed[m]) \in Nat \ {0}
    <3>1. PacketOK(packet) /\ Len(Handed) \in Nat
      BY LenProperties DEF HandedOK
    <3>2. m \in 1 .. Len(Handed) /\ q \in 1 .. Parts(Handed[m])
      BY <3>1 DEF PacketOK
    <3>3. Handed[m] \in Seq(Nat) /\ Handed[m] # << >>
      BY <3>2, ElementOfSeq DEF HandedOK
    <3>4. QED
      BY <3>1, <3>2, <3>3, PartsAre
  <2>2. decoded \in Seq(Nat \X Nat) /\ m \in Nat /\ q \in Nat /\ L \in Nat
    BY <2>1, LenProperties DEF DecoderOK
  <2>3. /\ decoded' \in Seq(Nat \X Nat) /\ Len(decoded') = L + 1
        /\ decoded'[L + 1] = <<m, q>> /\ \A i \in 1 .. L : decoded'[i] = decoded[i]
    <3>1. <<m, q>> \in Nat \X Nat
      BY <2>2
    <3>2. QED
      BY <1>1, <2>2, <3>1, AppendProperties
  <2>4. delivered \subseteq delivered'
    BY <1>1 DEF DecodeSingle, DecodeFuStart, DecodeFu, DecodeFuPast, DecodeFuFull, HandOver
  <2>5. \A n : FitsNaluBuf(n)' <=> FitsNaluBuf(n)
    BY <1>3 DEF FitsNaluBuf
  <2>6. \A n \in 1 .. Len(Handed) : Parts(Handed[n]) \in Nat \ {0} /\ Parts(Handed[n])' = Parts(Handed[n])
    <3> TAKE n \in 1 .. Len(Handed)
    <3>1. Handed[n] \in Seq(Nat) /\ Handed[n] # << >>
      BY ElementOfSeq DEF HandedOK
    <3>2. QED
      BY <1>3, <3>1, PartsAre DEF Parts
  <2> HIDE DEF L
  <2>7. ASSUME NEW n \in 1 .. Len(Handed), NEW g \in Nat \ {0}, FitsNaluBuf(n),
               Arrived(decoded', n, g, L + 1)
        PROVE  /\ n = m /\ g = q
               /\ g < Parts(Handed[n]) =>
                    naluBuf' = StartCode(3) \o SubSeq(Handed[n], 1, g * FuPayloadSize + 1)
               /\ g = Parts(Handed[n]) =>
                    [at |-> L + 1, bytes |-> StartCode(3) \o Handed[n]] \in delivered'
    <3>1. n = m /\ g = q /\ (g > 1 => Arrived(decoded, n, g - 1, L))
      BY <1>1, <2>2, <2>7, ArrivedNow DEF L
    <3>2. FitsNaluBuf(m) /\ (q > 1 => Arrived(decoded, m, q - 1, Len(decoded)))
      BY <2>7, <3>1 DEF L
    <3>3. /\ q < Parts(Handed[m]) =>
               naluBuf' = StartCode(3) \o SubSeq(Handed[m], 1, q * FuPayloadSize + 1)
          /\ q = Parts(Handed[m]) =>
               [at |-> Len(decoded) + 1, bytes |-> StartCode(3) \o Handed[m]] \in delivered'
      BY <1>1, <2>1, <3>2, DecodedNow
    <3>4. QED
      BY <3>1, <3>3 DEF L
  <2>8. \A a \in 1 .. Len(decoded') : decoded'[a][1] \in 1 .. Len(Handed')
    <3> TAKE a \in 1 .. Len(decoded')
    <3>1. CASE a = L + 1
      BY <1>3, <2>1, <2>3, <3>1
    <3>2. CASE a \in 1 .. L
      <4>1. decoded'[a] = decoded[a] /\ decoded[a][1] \in 1 .. Len(Handed)
        BY <2>3, <3>2 DEF DecoderOK, L
      <4>2. QED
        BY <1>3, <4>1
    <3>3. QED
      BY <2>2, <2>3, <3>1, <3>2
  <2>9. ASSUME NEW n \in 1 .. Len(Handed'), NEW g \in 1 .. Parts(Handed'[n]) - 1, FitsNaluBuf(n)',
               Arrived(decoded', n, g, Len(decoded'))
        PROVE  naluBuf' = StartCode(3) \o SubSeq(Handed'[n], 1, g * FuPayloadSize + 1)
    <3>1. n \in 1 .. Len(Handed) /\ FitsNaluBuf(n) /\ Arrived(decoded', n, g, L + 1)
          /\ Parts(Handed'[n]) = Parts(Handed[n])
      BY <1>3, <2>3, <2>5, <2>9
    <3>2. g \in Nat \ {0} /\ g < Parts(Handed[n])
      BY <2>6, <3>1
    <3>3. QED
      BY <1>3, <2>7, <3>1, <3>2
  <2>10. ASSUME NEW n \in 1 .. Len(Handed'), NEW e \in 1 .. Len(decoded'), FitsNaluBuf(n)',
                Arrived(decoded', n, Parts(Handed'[n]), e)
         PROVE  [at |-> e, bytes |-> StartCode(3) \o Handed'[n]] \in delivered'
    <3>1. n \in 1 .. Len(Handed) /\ FitsNaluBuf(n) /\ Parts(Handed[n]) \in Nat \ {0}
          /\ Arrived(decoded', n, Parts(Handed[n]), e)
      BY <1>3, <2>5, <2>6, <2>10
    <3>2. CASE e = L + 1
      BY <1>3, <2>7, <3>1, <3>2
    <3>3. CASE e \in 1 .. L
      <4>1. Arrived(decoded, n, Parts(Handed[n]), e)
        <5>1. <<m, q>> \in Nat \X Nat /\ e \in 1 .. Len(decoded)
          BY <2>2, <3>3 DEF L
        <5>2. Arrived(Append(decoded, <<m, q>>), n, Parts(Handed[n]), e)
          BY <1>1, <3>1
        <5>3. QED
          BY <2>2, <3>1, <5>1, <5>2, ArrivedEarlier
      <4>2. [at |-> e, bytes |-> StartCode(3) \o Handed[n]] \in delivered
        BY <3>1, <3>3, <4>1 DEF DecoderOK, L
      <4>3. QED
        BY <1>3, <2>4, <4>2
    <3>4. QED
      BY <2>2, <2>3, <3>2, <3>3
  <2>11. QED
    <3>1. \A n \in 1 .. Len(Handed') : \A g \in 1 .. Parts(Handed'[n]) - 1 :
            FitsNaluBuf(n)' /\ Arrived(decoded', n, g, Len(decoded')) =>
              naluBuf' = StartCode(3) \o SubSeq(Handed'[n], 1, g * FuPayloadSize + 1)
      BY <2>9
    <3>2. \A n \in 1 .. Len(Handed'), e \in 1 .. Len(decoded') :
            FitsNaluBuf(n)' /\ Arrived(decoded', n, Parts(Handed'[n]), e) =>
              [at |-> e, bytes |-> StartCode(3) \o Handed'[n]] \in delivered'
      BY <2>10
    <3>3. QED
      BY <2>3, <2>8, <3>1, <3>2 DEF DecoderOK
<1>7. QED
  BY <1>4, <1>5, <1>6

LEMMA LossStep ==
  ASSUME H264Inv, LosePacket
  PROVE  H264Inv'
<1> USE DEF H264Inv
<1>1. inFlight' \subseteq inFlight /\ UNCHANGED senderVars /\ UNCHANGED receiverVars /\ units' = units
  BY DEF LosePacket, senderVars
<1>2. Handed' = Handed
  BY <1>1, HandedStays
<1>3. HandedOK' /\ EncoderOK' /\ DecoderOK'
  BY <1>1, <1>2, EncoderStays, DecoderStays DEF HandedOK
<1>4. \A p \in inFlight' : PacketOK(p)'
  BY <1>1, PacketStays
<1>5. QED
  BY <1>3, <1>4

-----------------------------------------------------------------------------
(* The sender.                                                               *)

LEMMA H264Starts ==
  H264Init => H264Inv
<1> SUFFICES ASSUME H264Init PROVE H264Inv
  OBVIOUS
<1>1. /\ buf = << >> /\ rest = << >> /\ nth = 0 /\ units = << >> /\ decoded = << >>
      /\ inFlight = {}
  BY DEF H264Init
<1>2. Len(<< >>) = 0 /\ << >> \in Seq(AccessUnits) /\ << >> \in Seq(Seq(Nat)) /\ << >> \in Seq(Nat \X Nat)
  BY EmptySeq
<1>3. Handed = << >>
  <2>1. Handed = HandedOf(<< >>)
    BY <1>1 DEF Handed, HandedOf
  <2>2. FlattenSeq([n \in 1 .. Len(<< >>) |-> NalusOf(<< >>[n])]) = << >>
    <3>1. 1 .. Len(<< >>) = {}
      BY <1>2
    <3>2. [n \in 1 .. Len(<< >>) |-> NalusOf(<< >>[n])] = << >>
      BY <3>1
    <3>3. QED
      BY <3>2, FlattenEmpty
  <2>3. QED
    BY <2>1, <2>2 DEF HandedOf
<1>4. HandedOK
  BY <1>1, <1>2, <1>3 DEF HandedOK
<1>5. EncoderOK
  BY <1>1, <1>2, <1>3 DEF EncoderOK
<1>6. DecoderOK
  BY <1>1, <1>2, <1>3 DEF DecoderOK
<1>7. QED
  BY <1>1, <1>4, <1>5, <1>6 DEF H264Inv

LEMMA DecoderKeeps ==
  ASSUME HandedOK, DecoderOK, UNCHANGED receiverVars,
         Len(Handed) <= Len(Handed'), Handed' \in Seq(Seq(Nat)),
         \A n \in 1 .. Len(Handed) : Handed'[n] = Handed[n],
         \A n \in 1 .. Len(Handed') : Handed'[n] # << >>
  PROVE  DecoderOK'
<1>1. decoded' = decoded /\ naluBuf' = naluBuf /\ delivered' = delivered
  BY DEF receiverVars
<1>2. Len(Handed) \in Nat /\ Len(Handed') \in Nat /\ Len(decoded) \in Nat
  BY LenProperties DEF HandedOK, DecoderOK
<1>3. \A a \in 1 .. Len(decoded) : decoded[a] \in Nat \X Nat /\ decoded[a][1] \in 1 .. Len(Handed)
  BY ElementOfSeq DEF DecoderOK
<1>4. ASSUME NEW n \in 1 .. Len(Handed'), NEW g \in Nat \ {0}, NEW e \in Nat, e <= Len(decoded),
             Arrived(decoded, n, g, e)
      PROVE  n \in 1 .. Len(Handed)
  <2>1. g <= e /\ \A p \in 1 .. g : decoded[e - g + p] = <<n, p>>
    BY <1>4 DEF Arrived
  <2>2. g \in 1 .. g /\ e - g + g = e /\ e \in 1 .. Len(decoded)
    BY <1>2, <1>4, <2>1
  <2>3. decoded[e - g + g] = <<n, g>>
    BY <2>1, <2>2
  <2>4. decoded[e][1] = n
    BY <2>2, <2>3
  <2>5. QED
    BY <1>3, <2>2, <2>4
<1>5. \A n \in 1 .. Len(Handed') : Parts(Handed'[n]) \in Nat \ {0}
  <2> TAKE n \in 1 .. Len(Handed')
  <2>1. Handed'[n] \in Seq(Nat) /\ Handed'[n] # << >>
    BY ElementOfSeq
  <2>2. QED
    BY <2>1, PartsAre
<1>6. ASSUME NEW n \in 1 .. Len(Handed'), NEW g \in 1 .. Parts(Handed'[n]) - 1, FitsNaluBuf(n)',
             Arrived(decoded, n, g, Len(decoded))
      PROVE  naluBuf = StartCode(3) \o SubSeq(Handed'[n], 1, g * FuPayloadSize + 1)
  <2>1. g \in Nat \ {0} /\ Len(decoded) <= Len(decoded)
    BY <1>2, <1>5
  <2>2. n \in 1 .. Len(Handed)
    BY <1>2, <1>4, <1>6, <2>1
  <2>3. Handed'[n] = Handed[n] /\ FitsNaluBuf(n) /\ g \in 1 .. Parts(Handed[n]) - 1
    BY <1>6, <2>2 DEF FitsNaluBuf
  <2>4. QED
    BY <1>6, <2>2, <2>3 DEF DecoderOK
<1>7. ASSUME NEW n \in 1 .. Len(Handed'), NEW e \in 1 .. Len(decoded), FitsNaluBuf(n)',
             Arrived(decoded, n, Parts(Handed'[n]), e)
      PROVE  [at |-> e, bytes |-> StartCode(3) \o Handed'[n]] \in delivered
  <2>1. e \in Nat /\ e <= Len(decoded)
    BY <1>2
  <2>2. n \in 1 .. Len(Handed)
    BY <1>4, <1>5, <1>7, <2>1
  <2>3. Handed'[n] = Handed[n] /\ FitsNaluBuf(n)
    BY <1>7, <2>2 DEF FitsNaluBuf
  <2>4. QED
    BY <1>7, <2>2, <2>3 DEF DecoderOK
<1>8. \A a \in 1 .. Len(decoded) : decoded[a][1] \in 1 .. Len(Handed')
  BY <1>2, <1>3
<1>9. \A n \in 1 .. Len(Handed') : \A g \in 1 .. Parts(Handed'[n]) - 1 :
        FitsNaluBuf(n)' /\ Arrived(decoded, n, g, Len(decoded)) =>
          naluBuf = StartCode(3) \o SubSeq(Handed'[n], 1, g * FuPayloadSize + 1)
  BY <1>6
<1>10. \A n \in 1 .. Len(Handed'), e \in 1 .. Len(decoded) :
         FitsNaluBuf(n)' /\ Arrived(decoded, n, Parts(Handed'[n]), e) =>
           [at |-> e, bytes |-> StartCode(3) \o Handed'[n]] \in delivered
  BY <1>7
<1>11. QED
  BY <1>1, <1>8, <1>9, <1>10 DEF DecoderOK

LEMMA UnitStep ==
  ASSUME H264Inv, NEW unit \in AccessUnits, EncodeH264(unit)
  PROVE  H264Inv'
<1> USE DEF H264Inv
<1>1. /\ buf = << >> /\ units' = Append(units, unit) /\ buf' = BytesOf(unit)
      /\ pstart' = FindNalu(BytesOf(unit), 0)
      /\ rest' = rest /\ nth' = nth /\ inFlight' = inFlight /\ UNCHANGED receiverVars
  BY DEF EncodeH264
<1>2. rest = << >> /\ nth = Len(Handed) /\ units \in Seq(AccessUnits)
  BY <1>1 DEF EncoderOK, HandedOK
<1>3. /\ units' \in Seq(AccessUnits) /\ Len(units') = Len(units) + 1 /\ units'[Len(units) + 1] = unit
      /\ Len(units) \in Nat
  BY <1>1, <1>2, AppendProperties, LenProperties
<1>4. AccessUnit' = unit /\ units' # << >>
  BY <1>3, EmptySeq DEF AccessUnit
<1> DEFINE h == Handed  t == NalusOf(unit)
<1>5. /\ h \in Seq(Seq(Nat)) /\ t \in Seq(Seq(Nat)) /\ Len(t) = Len(unit) /\ Len(unit) \in Nat
      /\ Len(h) \in Nat
      /\ \A j \in 1 .. Len(unit) : t[j] = unit[j].nalu /\ t[j] # << >>
      /\ \A n \in 1 .. Len(h) : h[n] # << >>
  BY NalusAre, LenProperties DEF HandedOK
<1>6. Handed' = h \o t
  <2>1. Handed = HandedOf(units) /\ Handed' = HandedOf(units')
    BY DEF Handed, HandedOf
  <2>2. QED
    BY <1>1, <1>2, <2>1, HandedMore
<1> HIDE DEF h, t
<1>7. /\ Handed' \in Seq(Seq(Nat)) /\ Len(Handed') = Len(h) + Len(unit)
      /\ \A n \in 1 .. Len(h) : Handed'[n] = h[n]
      /\ \A j \in 1 .. Len(unit) : Handed'[Len(h) + j] = unit[j].nalu
  <2>1. /\ h \o t \in Seq(Seq(Nat)) /\ Len(h \o t) = Len(h) + Len(t)
        /\ \A i \in 1 .. Len(h) + Len(t) : (h \o t)[i] = IF i <= Len(h) THEN h[i] ELSE t[i - Len(h)]
    <3>1. h \in Seq(Seq(Nat)) /\ t \in Seq(Seq(Nat))
      BY <1>5
    <3>2. QED
      BY <3>1, ConcatProperties
  <2>2. \A n \in 1 .. Len(h) : (h \o t)[n] = h[n]
    BY <1>5, <2>1
  <2>3. ASSUME NEW j \in 1 .. Len(unit) PROVE (h \o t)[Len(h) + j] = unit[j].nalu
    <3> DEFINE i == Len(h) + j
    <3>1. i \in 1 .. Len(h) + Len(t) /\ ~(i <= Len(h)) /\ i - Len(h) = j
      BY <1>5
    <3> HIDE DEF i
    <3>2. (h \o t)[i] = t[i - Len(h)]
      BY <2>1, <3>1
    <3>3. QED
      BY <1>5, <3>1, <3>2 DEF i
  <2>4. QED
    BY <1>5, <1>6, <2>1, <2>2, <2>3
<1>8. \A n \in 1 .. Len(Handed') : Handed'[n] # << >>
  <2> TAKE n \in 1 .. Len(Handed')
  <2>1. CASE n \in 1 .. Len(h)
    BY <1>5, <1>7, <2>1
  <2>2. CASE n \notin 1 .. Len(h)
    <3>1. n - Len(h) \in 1 .. Len(unit) /\ n = Len(h) + (n - Len(h))
      BY <1>5, <1>7, <2>2
    <3>2. Handed'[n] = unit[n - Len(h)].nalu
      BY <1>7, <3>1
    <3>3. QED
      BY <1>5, <3>1, <3>2
  <2>3. QED
    BY <2>1, <2>2
<1>9. HandedOK'
  BY <1>3, <1>7, <1>8 DEF HandedOK
<1>10. DecoderOK'
  <2>1. Len(Handed) <= Len(Handed') /\ \A n \in 1 .. Len(Handed) : Handed'[n] = Handed[n]
    <3>1. Len(h) <= Len(Handed')
      <4>1. Len(Handed') = Len(h) + Len(unit) /\ Len(h) \in Nat /\ Len(unit) \in Nat
        BY <1>5, <1>7
      <4>2. QED
        BY <4>1
    <3>2. \A n \in 1 .. Len(h) : Handed'[n] = h[n]
      BY <1>7
    <3>3. QED
      BY <3>1, <3>2, Zenon DEF h
  <2>2. QED
    BY <1>1, <1>7, <1>8, <2>1, DecoderKeeps
<1>11. \A packet \in inFlight' : PacketOK(packet)'
  <2> TAKE packet \in inFlight'
  <2>1. PacketOK(packet) /\ packet.nalu \in 1 .. Len(h)
    BY <1>1 DEF PacketOK, h
  <2>2. Handed'[packet.nalu] = Handed[packet.nalu] /\ packet.nalu \in 1 .. Len(Handed')
    BY <1>5, <1>7, <2>1 DEF h
  <2>3. QED
    BY <2>1, <2>2 DEF PacketOK, Parts, Fragment
<1>12. EncoderOK'
  <2>1. CASE unit = << >>
    <3>1. buf' = << >> /\ Len(unit) = 0
      BY <1>1, <2>1, BytesMore, EmptySeq
    <3>2. Len(Handed') = Len(Handed)
      BY <1>5, <1>7, <3>1 DEF h
    <3>3. QED
      BY <1>1, <1>2, <3>1, <3>2 DEF EncoderOK
  <2>2. CASE unit # << >>
    <3>1. Len(unit) \in Nat \ {0} /\ 1 \in 1 .. Len(unit)
      BY <2>2, UnitsAre, EmptySeq
    <3>2. pstart' = NaluAt(unit, 1)
      BY <1>1, <2>2, FindFromStart
    <3>3. buf' # << >>
      <4>1. /\ Len(BytesOf(unit)) \in Nat /\ CodeAt(unit, 1) \in Nat /\ unit[1].zeros \in 2 .. 3
            /\ NaluAt(unit, 1) = CodeAt(unit, 1) + unit[1].zeros + 1
            /\ Len(unit[1].nalu) \in Nat
            /\ NaluAt(unit, 1) + Len(unit[1].nalu) <= Len(BytesOf(unit))
        BY <3>1, NaluBytes
      <4> DEFINE a == CodeAt(unit, 1)  z == unit[1].zeros  m == Len(unit[1].nalu)
                 n == Len(BytesOf(unit))
      <4>2. a \in Nat /\ z \in 2 .. 3 /\ m \in Nat /\ n \in Nat /\ a + z + 1 + m <= n
        BY <4>1
      <4> HIDE DEF a, z, m, n
      <4>3. n # 0
        BY <4>2
      <4>4. QED
        BY <1>1, <4>3, EmptySeq DEF n
    <3>4. Before' = Len(h)
      <4>1. Before' = Len(Handed') - Len(unit)
        BY <1>4 DEF Before
      <4>2. QED
        BY <1>5, <1>7, <4>1
    <3>5. EncoderAt(1)'
      <4>1. nth' = Before' + 1 - 1 /\ 1 <= Len(unit)
        BY <1>1, <1>2, <1>5, <3>1, <3>4 DEF h
      <4>2. EncoderAt(1)' <=>
              /\ pstart' = IF 1 <= Len(AccessUnit') THEN NaluAt(AccessUnit', 1) ELSE Len(buf')
              /\ IF rest' = << >> THEN nth' = Before' + 1 - 1
                 ELSE nth' = Before' + 1 /\ 1 <= Len(AccessUnit') /\ Cutting(AccessUnit[1].nalu)'
        BY DEF EncoderAt, NaluAt, CodeAt
      <4>3. QED
        BY <1>1, <1>2, <1>4, <3>2, <4>1, <4>2
    <3>6. 1 \in 1 .. Len(AccessUnit') + 1
      BY <1>4, <3>1
    <3>7. \A j \in 1 .. Len(AccessUnit') : Handed'[Before' + j] = AccessUnit'[j].nalu
      BY <1>4, <1>7, <3>4
    <3>8. buf' = BytesOf(AccessUnit') /\ Before' \in Nat
      BY <1>1, <1>4, <1>5, <3>4
    <3>9. QED
      BY <1>4, <3>3, <3>5, <3>6, <3>7, <3>8 DEF EncoderOK
  <2>3. QED
    BY <2>1, <2>2
<1>13. QED
  BY <1>9, <1>10, <1>11, <1>12

LEMMA SenderIs ==
  ASSUME H264Inv, buf # << >>
  PROVE  /\ AccessUnit \in AccessUnits /\ Len(AccessUnit) \in Nat /\ buf = BytesOf(AccessUnit)
         /\ Before \in Nat /\ Len(Handed) = Before + Len(AccessUnit)
         /\ \A j \in 1 .. Len(AccessUnit) :
              /\ Before + j \in 1 .. Len(Handed) /\ Handed[Before + j] = AccessUnit[j].nalu
              /\ AccessUnit[j].nalu \in Seq(Nat) /\ AccessUnit[j].nalu # << >>
         /\ \E j \in 1 .. Len(AccessUnit) + 1 : EncoderAt(j)
<1> USE DEF H264Inv
<1>1. /\ units # << >> /\ buf = BytesOf(AccessUnit) /\ Before \in Nat
      /\ \A j \in 1 .. Len(AccessUnit) : Handed[Before + j] = AccessUnit[j].nalu
      /\ \E j \in 1 .. Len(AccessUnit) + 1 : EncoderAt(j)
  BY DEF EncoderOK
<1>2. AccessUnit \in AccessUnits
  <2>1. Len(units) \in 1 .. Len(units)
    BY <1>1, EmptySeq DEF HandedOK
  <2>2. QED
    BY <2>1, ElementOfSeq DEF HandedOK, AccessUnit
<1>3. Len(AccessUnit) \in Nat /\ Len(Handed) \in Nat
  BY <1>2, UnitsAre, LenProperties DEF HandedOK
<1>4. Len(Handed) = Before + Len(AccessUnit)
  BY <1>3 DEF Before
<1>5. \A j \in 1 .. Len(AccessUnit) :
        Before + j \in 1 .. Len(Handed) /\ AccessUnit[j].nalu \in Seq(Nat) /\ AccessUnit[j].nalu # << >>
  <2> TAKE j \in 1 .. Len(AccessUnit)
  <2>1. Before + j \in 1 .. Len(Handed)
    BY <1>1, <1>3, <1>4
  <2>2. QED
    BY <1>2, <2>1, UnitsAre
<1>6. QED
  BY <1>1, <1>2, <1>3, <1>4, <1>5

\* Where the loop over the NAL units is when it has the next one to send.
LEMMA NextIs ==
  ASSUME H264Inv, buf # << >>, pstart < Len(buf)
  PROVE  \E j \in 1 .. Len(AccessUnit) :
           /\ EncoderAt(j) /\ pstart = NaluAt(AccessUnit, j)
           /\ Pend = IF j = Len(AccessUnit) THEN Len(buf) ELSE NaluAt(AccessUnit, j + 1)
           /\ NaluSize = Len(AccessUnit[j].nalu) /\ Nalu = AccessUnit[j].nalu
<1>1. PICK j \in 1 .. Len(AccessUnit) + 1 : EncoderAt(j)
  BY SenderIs
<1>2. Len(AccessUnit) \in Nat /\ AccessUnit \in AccessUnits /\ buf = BytesOf(AccessUnit)
  BY SenderIs
<1>3. Len(buf) \in Nat
  <2>1. AccessUnit \in Seq(Nal)
    BY <1>2, UnitsAre
  <2>2. buf \in Seq(Nat)
    BY <1>2, <2>1, BytesMore
  <2>3. QED
    BY <2>2, LenProperties
<1>4. j <= Len(AccessUnit)
  <2>1. SUFFICES ASSUME ~(j <= Len(AccessUnit)) PROVE FALSE
    OBVIOUS
  <2>2. pstart = Len(buf)
    BY <1>1, <2>1 DEF EncoderAt
  <2>3. QED
    BY <1>3, <2>2
<1>5. j \in 1 .. Len(AccessUnit) /\ pstart = NaluAt(AccessUnit, j)
  BY <1>1, <1>2, <1>4 DEF EncoderAt
<1>6. /\ Pend = IF j = Len(AccessUnit) THEN Len(buf) ELSE NaluAt(AccessUnit, j + 1)
      /\ NaluSize = Len(AccessUnit[j].nalu) /\ Nalu = AccessUnit[j].nalu
  BY <1>2, <1>5, NaluIs
<1>7. QED
  BY <1>1, <1>5, <1>6

\* What a step of the sender within an access unit leaves alone.
LEMMA SenderSteps ==
  ASSUME H264Inv, buf # << >>, units' = units, buf' = buf, UNCHANGED receiverVars,
         \A packet \in inFlight' : packet \in inFlight \/ PacketOK(packet),
         NEW j \in 1 .. Len(AccessUnit) + 1,
         pstart' = IF j <= Len(AccessUnit) THEN NaluAt(AccessUnit, j) ELSE Len(buf),
         IF rest' = << >> THEN nth' = Before + j - 1
         ELSE nth' = Before + j /\ j <= Len(AccessUnit) /\ Cutting(AccessUnit[j].nalu)'
  PROVE  H264Inv'
<1> USE DEF H264Inv
<1>1. Handed' = Handed /\ AccessUnit' = AccessUnit /\ Before' = Before
  BY HandedStays
<1>2. HandedOK' /\ DecoderOK'
  BY <1>1, DecoderStays DEF HandedOK
<1>3. \A packet \in inFlight' : PacketOK(packet)'
  BY PacketStays
<1>4. EncoderAt(j)'
  <2>1. EncoderAt(j)' <=>
          /\ pstart' = IF j <= Len(AccessUnit') THEN NaluAt(AccessUnit', j) ELSE Len(buf')
          /\ IF rest' = << >> THEN nth' = Before' + j - 1
             ELSE nth' = Before' + j /\ j <= Len(AccessUnit') /\ Cutting(AccessUnit[j].nalu)'
    BY DEF EncoderAt, NaluAt, CodeAt
  <2>2. QED
    BY <1>1, <2>1
<1>5. /\ units # << >> /\ buf = BytesOf(AccessUnit) /\ Before \in Nat
      /\ \A i \in 1 .. Len(AccessUnit) : Handed[Before + i] = AccessUnit[i].nalu
  BY DEF EncoderOK
<1>6. EncoderOK'
  BY <1>1, <1>4, <1>5 DEF EncoderOK
<1>7. QED
  BY <1>2, <1>3, <1>6

LEMMA ReturnsStep ==
  ASSUME H264Inv, EncodeH264Returns
  PROVE  H264Inv'
<1> USE DEF H264Inv
<1>1. /\ buf # << >> /\ pstart >= Len(buf) /\ buf' = << >> /\ rest' = rest /\ nth' = nth
      /\ units' = units /\ inFlight' = inFlight /\ UNCHANGED receiverVars
  BY DEF EncodeH264Returns
<1>2. PICK j \in 1 .. Len(AccessUnit) + 1 : EncoderAt(j)
  BY <1>1, SenderIs
<1>3. /\ Len(AccessUnit) \in Nat /\ AccessUnit \in AccessUnits /\ buf = BytesOf(AccessUnit)
      /\ Before \in Nat /\ Len(Handed) = Before + Len(AccessUnit)
  BY <1>1, SenderIs
<1>4. ~(j <= Len(AccessUnit))
  <2> SUFFICES ASSUME j <= Len(AccessUnit) PROVE FALSE
    OBVIOUS
  <2>1. j \in 1 .. Len(AccessUnit) /\ pstart = NaluAt(AccessUnit, j)
    BY <1>2, <1>3 DEF EncoderAt
  <2>2. pstart < Len(buf)
    BY <1>3, <2>1, NaluIs
  <2>3. pstart \in Nat /\ Len(buf) \in Nat
    <3>1. /\ Len(BytesOf(AccessUnit)) \in Nat /\ CodeAt(AccessUnit, j) \in Nat
          /\ AccessUnit[j].zeros \in 2 .. 3
          /\ NaluAt(AccessUnit, j) = CodeAt(AccessUnit, j) + AccessUnit[j].zeros + 1
      BY <1>3, <2>1, NaluBytes
    <3> DEFINE a == CodeAt(AccessUnit, j)  z == AccessUnit[j].zeros
    <3>2. a \in Nat /\ z \in 2 .. 3 /\ pstart = a + z + 1
      BY <2>1, <3>1
    <3> HIDE DEF a, z
    <3>3. pstart \in Nat
      BY <3>2
    <3>4. QED
      BY <1>3, <3>1, <3>3
  <2>4. QED
    BY <1>1, <2>2, <2>3
<1>5. rest = << >> /\ nth = Before + j - 1 /\ j = Len(AccessUnit) + 1
  BY <1>2, <1>3, <1>4 DEF EncoderAt
<1>6. nth = Len(Handed)
  BY <1>3, <1>5
<1>7. Handed' = Handed
  BY <1>1, HandedStays
<1>8. EncoderOK'
  BY <1>1, <1>5, <1>6, <1>7 DEF EncoderOK
<1>9. HandedOK' /\ DecoderOK' /\ \A packet \in inFlight' : PacketOK(packet)'
  BY <1>1, <1>7, DecoderStays, PacketStays DEF HandedOK
<1>10. QED
  BY <1>8, <1>9

LEMMA SingleStep ==
  ASSUME H264Inv, EncodeSingle
  PROVE  H264Inv'
<1> USE DEF H264Inv
<1>1. /\ buf # << >> /\ pstart < Len(buf) /\ rest = << >> /\ NaluSize <= RtpPayloadSize
      /\ pstart' = Pend /\ buf' = buf /\ rest' = rest /\ units' = units /\ UNCHANGED receiverVars
  BY DEF EncodeSingle, NextNalu
<1>2. PICK j \in 1 .. Len(AccessUnit) :
        /\ EncoderAt(j) /\ pstart = NaluAt(AccessUnit, j)
        /\ Pend = IF j = Len(AccessUnit) THEN Len(buf) ELSE NaluAt(AccessUnit, j + 1)
        /\ NaluSize = Len(AccessUnit[j].nalu) /\ Nalu = AccessUnit[j].nalu
  BY <1>1, NextIs
<1>3. /\ Len(AccessUnit) \in Nat /\ Before \in Nat
      /\ Before + j \in 1 .. Len(Handed) /\ Handed[Before + j] = AccessUnit[j].nalu
      /\ AccessUnit[j].nalu \in Seq(Nat) /\ AccessUnit[j].nalu # << >>
  BY <1>1, SenderIs
<1>4. nth + 1 = Before + j
  <2>1. nth = Before + j - 1
    BY <1>1, <1>2 DEF EncoderAt
  <2>2. QED
    BY <1>3, <2>1
<1> DEFINE packet ==
      [nalu |-> nth + 1, part |-> 1, timestamp |-> timestamp, marker |-> IsSlice(Nalu[1]),
       payload |-> Nalu]
<1>5. inFlight' = inFlight \cup {packet} /\ nth' = packet.nalu
  BY DEF EncodeSingle, OnPacket
<1>6. PacketOK(packet)
  <2>1. /\ packet.nalu = Before + j /\ packet.part = 1
        /\ packet.payload = AccessUnit[j].nalu
    BY <1>2, <1>4
  <2> HIDE DEF packet
  <2>2. 1 \in 1 .. Parts(AccessUnit[j].nalu)
    BY <1>3, PartsAre
  <2>3. QED
    BY <1>1, <1>2, <1>3, <2>1, <2>2 DEF PacketOK
<1>7. nth' = Before + j
  BY <1>4, <1>5
<1> HIDE DEF packet
<1> DEFINE i == j + 1
<1>8. /\ i \in 1 .. Len(AccessUnit) + 1 /\ Before + i - 1 = Before + j
      /\ i <= Len(AccessUnit) <=> j # Len(AccessUnit)
  BY <1>3
<1>9. pstart' = IF i <= Len(AccessUnit) THEN NaluAt(AccessUnit, i) ELSE Len(buf)
  BY <1>1, <1>2, <1>8
<1> HIDE DEF i
<1>10. QED
  BY <1>1, <1>5, <1>6, <1>7, <1>8, <1>9, SenderSteps

LEMMA BeginStep ==
  ASSUME H264Inv, BeginFu
  PROVE  H264Inv'
<1> USE DEF H264Inv
<1>1. /\ buf # << >> /\ pstart < Len(buf) /\ rest = << >> /\ NaluSize > RtpPayloadSize
      /\ rest' = Tail(Nalu) /\ fu' = [header |-> Nalu[1], s |-> TRUE, timestamp |-> timestamp]
      /\ nth' = nth + 1 /\ part' = 0 /\ inFlight' = inFlight
      /\ pstart' = pstart /\ buf' = buf /\ units' = units /\ UNCHANGED receiverVars
  BY DEF BeginFu, NextNalu
<1>2. PICK j \in 1 .. Len(AccessUnit) :
        /\ EncoderAt(j) /\ pstart = NaluAt(AccessUnit, j)
        /\ Pend = IF j = Len(AccessUnit) THEN Len(buf) ELSE NaluAt(AccessUnit, j + 1)
        /\ NaluSize = Len(AccessUnit[j].nalu) /\ Nalu = AccessUnit[j].nalu
  BY <1>1, NextIs
<1> DEFINE nalu == AccessUnit[j].nalu
<1>3. Len(AccessUnit) \in Nat /\ Before \in Nat /\ nalu \in Seq(Nat) /\ nalu # << >>
  BY <1>1, SenderIs
<1>4. nth' = Before + j
  <2>1. nth = Before + j - 1
    BY <1>1, <1>2 DEF EncoderAt
  <2>2. QED
    BY <1>1, <1>3, <2>1
<1>5. rest' = SubSeq(nalu, 2, Len(nalu)) /\ Len(nalu) > RtpPayloadSize
  BY <1>1, <1>2, <1>3, TailIsSubSeq
<1>6. /\ FuPayloadSize \in Nat \ {0} /\ Len(nalu) \in Nat \ {0} /\ Parts(nalu) \in Nat \ {0}
      /\ Parts(nalu) > 1
  BY <1>3, <1>5, PartsAre
<1>7. 0 \in 0 .. Parts(nalu) - 1 /\ 0 * FuPayloadSize + 2 = 2
  BY <1>6
<1>8. Cutting(nalu)'
  <2>1. Parts(nalu)' = Parts(nalu) /\ nalu' = nalu
    BY <1>1, HandedStays DEF Parts
  <2>2. /\ part' \in 0 .. Parts(nalu) - 1
        /\ {"header", "s", "timestamp"} \subseteq DOMAIN fu' /\ fu'.header = nalu[1] /\ (fu'.s <=> part' = 0)
        /\ rest' = SubSeq(nalu, part' * FuPayloadSize + 2, Len(nalu))
    <3>1. fu' = [header |-> nalu[1], s |-> TRUE, timestamp |-> timestamp] /\ part' = 0
      BY <1>1, <1>2
    <3>2. {"header", "s", "timestamp"} \subseteq DOMAIN fu' /\ fu'.header = nalu[1] /\ (fu'.s <=> part' = 0)
      BY <3>1
    <3>3. rest' = SubSeq(nalu, part' * FuPayloadSize + 2, Len(nalu))
      BY <1>5, <1>7, <3>1
    <3> HIDE DEF nalu
    <3>4. QED
      BY <1>7, <3>1, <3>2, <3>3
  <2> HIDE DEF nalu
  <2>3. QED
    BY <1>5, <2>1, <2>2 DEF Cutting
<1>9. rest' # << >>
  <2>1. SubSeq(nalu, 0 * FuPayloadSize + 2, Len(nalu)) # << >>
    BY <1>3, <1>5, <1>7, Cuts DEF CutOff
  <2>2. QED
    BY <1>5, <1>7, <2>1
<1>10. j \in 1 .. Len(AccessUnit) + 1 /\ j <= Len(AccessUnit)
  BY <1>3
<1>11. Cutting(AccessUnit[j].nalu)' /\ pstart' = NaluAt(AccessUnit, j)
  BY <1>1, <1>2, <1>8
<1> HIDE DEF nalu
<1>12. QED
  BY <1>1, <1>4, <1>9, <1>10, <1>11, SenderSteps

LEMMA FuStep ==
  ASSUME H264Inv, EncodeFu
  PROVE  H264Inv'
<1> USE DEF H264Inv
<1> DEFINE end == Len(rest) <= FuPayloadSize
           size == IF end THEN Len(rest) ELSE FuPayloadSize
           cut == SubSeq(rest, 1, size)
           packet == [nalu |-> nth, part |-> part + 1, timestamp |-> fu.timestamp, marker |-> end,
                      payload |-> FuPayload(fu.header, fu.s, end, cut)]
<1>1. /\ rest # << >> /\ rest' = SubSeq(rest, size + 1, Len(rest))
      /\ inFlight' = inFlight \cup {packet} /\ nth' = packet.nalu /\ part' = packet.part
      /\ IF end THEN fu' = NoFu /\ pstart' = Pend
         ELSE fu' = [fu EXCEPT !.s = FALSE] /\ UNCHANGED pstart
      /\ buf' = buf /\ units' = units /\ UNCHANGED receiverVars
  BY DEF EncodeFu, OnPacket
<1>2. buf # << >>
  BY <1>1 DEF EncoderOK
<1>3. PICK j \in 1 .. Len(AccessUnit) + 1 : EncoderAt(j)
  BY <1>2, SenderIs
<1>4. nth = Before + j /\ j <= Len(AccessUnit) /\ Cutting(AccessUnit[j].nalu)
      /\ pstart = NaluAt(AccessUnit, j)
  BY <1>1, <1>3 DEF EncoderAt
<1> DEFINE nalu == AccessUnit[j].nalu  g == part
<1>5. /\ Len(AccessUnit) \in Nat /\ j \in 1 .. Len(AccessUnit) /\ AccessUnit \in AccessUnits
      /\ buf = BytesOf(AccessUnit)
  <2>1. Len(AccessUnit) \in Nat /\ AccessUnit \in AccessUnits /\ buf = BytesOf(AccessUnit)
    BY <1>2, SenderIs
  <2>2. QED
    BY <1>4, <2>1
<1>6. /\ Before \in Nat /\ nalu \in Seq(Nat) /\ nalu # << >>
      /\ Before + j \in 1 .. Len(Handed) /\ Handed[Before + j] = nalu
  BY <1>2, <1>5, SenderIs
<1>7. /\ Len(nalu) > RtpPayloadSize /\ g \in 0 .. Parts(nalu) - 1
      /\ {"header", "s", "timestamp"} \subseteq DOMAIN fu /\ fu.header = nalu[1] /\ (fu.s <=> g = 0)
      /\ rest = SubSeq(nalu, g * FuPayloadSize + 2, Len(nalu))
  BY <1>4 DEF Cutting
<1>8. Parts(nalu) \in Nat \ {0} /\ Len(nalu) \in Nat /\ RtpPayloadSize \in Nat
  BY <1>6, PartsAre, H264Assumption
<1>9. Pend = IF j = Len(AccessUnit) THEN Len(buf) ELSE NaluAt(AccessUnit, j + 1)
  BY <1>4, <1>5, NaluIs
<1> HIDE DEF nalu, g
<1>10. /\ end <=> g + 1 = Parts(nalu)
       /\ SubSeq(rest, 1, size) = Fragment(nalu, g + 1)
       /\ SubSeq(rest, size + 1, Len(rest)) =
            IF g + 1 = Parts(nalu) THEN << >>
            ELSE SubSeq(nalu, (g + 1) * FuPayloadSize + 2, Len(nalu))
  <2>1. CutOff(nalu, g, rest)
    BY <1>6, <1>7, Cuts
  <2>2. /\ rest \in Seq(Nat) /\ (end <=> g + 1 = Parts(nalu))
        /\ g + 1 = Parts(nalu) => rest = Fragment(nalu, g + 1)
        /\ g + 1 # Parts(nalu) =>
             /\ SubSeq(rest, 1, FuPayloadSize) = Fragment(nalu, g + 1)
             /\ SubSeq(rest, FuPayloadSize + 1, Len(rest)) =
                  SubSeq(nalu, (g + 1) * FuPayloadSize + 2, Len(nalu))
    BY <2>1, Zenon DEF CutOff
  <2>3. end => size = Len(rest)
    OBVIOUS
  <2>4. ~end => size = FuPayloadSize
    OBVIOUS
  <2> HIDE DEF end, size
  <2>5. CASE g + 1 = Parts(nalu)
    <3>1. SubSeq(rest, 1, Len(rest)) = rest
      BY <2>2, SubSeqFull
    <3>2. SubSeq(rest, Len(rest) + 1, Len(rest)) = << >>
      <4>1. Len(rest) \in Int /\ Len(rest) + 1 \in Int /\ Len(rest) < Len(rest) + 1
        BY <2>2, LenProperties
      <4>2. QED
        BY <4>1, SubSeqEmpty
    <3>3. QED
      BY <2>2, <2>3, <2>5, <3>1, <3>2
  <2>6. CASE g + 1 # Parts(nalu)
    BY <2>2, <2>4, <2>6
  <2>7. QED
    BY <2>2, <2>5, <2>6
<1>11. PacketOK(packet)
  <2>1. /\ packet.nalu = Before + j /\ packet.part = g + 1
        /\ packet.payload = FuPayload(nalu[1], fu.s, end, Fragment(nalu, g + 1))
    BY <1>4, <1>7, <1>10 DEF g
  <2>2. g + 1 \in 1 .. Parts(nalu) /\ (g = 0 <=> g + 1 = 1) /\ ~(Len(nalu) <= RtpPayloadSize)
    <3> DEFINE m == Parts(nalu)
    <3>1. g \in 0 .. m - 1 /\ m \in Nat \ {0}
      BY <1>7, <1>8
    <3> HIDE DEF m
    <3>2. g + 1 \in 1 .. m /\ (g = 0 <=> g + 1 = 1)
      BY <3>1
    <3>3. QED
      BY <1>7, <1>8, <3>2 DEF m
  <2>3. nalu[1] \in Nat /\ nalu[1] < 128 /\ Fragment(nalu, g + 1) \in Seq(Nat)
    <3>1. nalu[1] < 128
      BY <1>5, NalHeaders DEF nalu
    <3>2. 1 \in 1 .. Len(nalu)
      BY <1>6, <1>7, <1>8
    <3>3. nalu[1] \in Nat
      BY <1>6, <3>2, ElementOfSeq
    <3>4. QED
      BY <1>6, <1>7, <2>2, <3>1, <3>3, FragmentsJoin
  <2> HIDE DEF packet, end, cut
  <2>4. /\ ~Single(packet.payload) /\ FuNaluHeader(packet.payload) = nalu[1]
        /\ FuBytes(packet.payload) = Fragment(nalu, g + 1)
        /\ FuStarts(packet.payload) <=> fu.s
        /\ FuEnds(packet.payload) <=> end
    BY <2>1, <2>3, FuPayloadIs
  <2>5. /\ FuStarts(packet.payload) <=> g + 1 = 1
        /\ FuEnds(packet.payload) <=> g + 1 = Parts(nalu)
    BY <1>7, <1>10, <2>2, <2>4
  <2>6. ReadAs(packet.payload, nalu, packet.part)
    BY <2>1, <2>4, <2>5 DEF ReadAs
  <2>7. QED
    BY <1>6, <2>1, <2>2, <2>6 DEF PacketOK
<1>12. nth' = Before + j /\ part' = g + 1
  BY <1>1, <1>4 DEF g
<1>13. \A p \in inFlight' : p \in inFlight \/ PacketOK(p)
  BY <1>1, <1>11
<1> HIDE DEF packet
<1>14. CASE g + 1 = Parts(nalu)
  <2> DEFINE i == j + 1
  <2>1. rest' = << >> /\ pstart' = Pend
    BY <1>1, <1>10, <1>14
  <2>2. /\ i \in 1 .. Len(AccessUnit) + 1 /\ Before + i - 1 = Before + j
        /\ i <= Len(AccessUnit) <=> j # Len(AccessUnit)
    BY <1>5, <1>6
  <2>3. pstart' = IF i <= Len(AccessUnit) THEN NaluAt(AccessUnit, i) ELSE Len(buf)
    BY <1>9, <2>1, <2>2
  <2> HIDE DEF i
  <2>4. nth' = Before + i - 1
    BY <1>12, <2>2
  <2>5. QED
    BY <1>1, <1>2, <1>13, <2>1, <2>2, <2>3, <2>4, SenderSteps
<1>15. CASE g + 1 # Parts(nalu)
  <2>1. /\ rest' = SubSeq(nalu, (g + 1) * FuPayloadSize + 2, Len(nalu)) /\ pstart' = pstart
        /\ fu' = [fu EXCEPT !.s = FALSE]
    BY <1>1, <1>10, <1>15
  <2>2. g + 1 \in 0 .. Parts(nalu) - 1 /\ g + 1 # 0
    <3> DEFINE m == Parts(nalu)
    <3>1. g \in 0 .. m - 1 /\ m \in Nat \ {0} /\ g + 1 # m
      BY <1>7, <1>8, <1>15
    <3> HIDE DEF m
    <3>2. g + 1 \in 0 .. m - 1 /\ g + 1 # 0
      BY <3>1
    <3>3. QED
      BY <3>2 DEF m
  <2>3. rest' # << >>
    BY <1>6, <1>7, <2>1, <2>2, Cuts DEF CutOff
  <2>4. {"header", "s", "timestamp"} \subseteq DOMAIN fu' /\ fu'.header = fu.header /\ ~fu'.s
    BY <1>7, <2>1
  <2>5. fu'.header = nalu[1]
    BY <1>7, <2>4
  <2>6. Cutting(nalu)'
    <3>1. Parts(nalu)' = Parts(nalu) /\ nalu' = nalu
      BY <1>1, HandedStays DEF Parts, nalu
    <3>2. /\ part' \in 0 .. Parts(nalu) - 1
          /\ {"header", "s", "timestamp"} \subseteq DOMAIN fu' /\ fu'.header = nalu[1] /\ (fu'.s <=> part' = 0)
          /\ rest' = SubSeq(nalu, part' * FuPayloadSize + 2, Len(nalu))
      <4>1. part' # 0
        BY <1>12, <2>2
      <4>2. QED
        BY <1>12, <2>1, <2>2, <2>4, <2>5, <4>1
    <3>3. QED
      BY <1>7, <3>1, <3>2 DEF Cutting
  <2>7. Cutting(AccessUnit[j].nalu)'
    BY <2>6 DEF nalu
  <2>8. j \in 1 .. Len(AccessUnit) + 1 /\ pstart' = NaluAt(AccessUnit, j)
    BY <1>4, <2>1
  <2>9. QED
    BY <1>1, <1>2, <1>4, <1>12, <1>13, <2>3, <2>7, <2>8, SenderSteps
<1>16. QED
  BY <1>14, <1>15

-----------------------------------------------------------------------------
LEMMA H264InvHolds ==
  H264Spec => []H264Inv
<1>1. H264Inv /\ [H264Next]_h264Vars => H264Inv'
  <2> SUFFICES ASSUME H264Inv, [H264Next]_h264Vars PROVE H264Inv'
    OBVIOUS
  <2>1. CASE \E unit \in AccessUnits : EncodeH264(unit)
    BY <2>1, UnitStep
  <2>2. CASE EncodeSingle
    BY <2>2, SingleStep
  <2>3. CASE BeginFu
    BY <2>3, BeginStep
  <2>4. CASE EncodeFu
    BY <2>4, FuStep
  <2>5. CASE EncodeH264Returns
    BY <2>5, ReturnsStep
  <2>6. CASE DecodeH264
    BY <2>6, ReceiverStep
  <2>7. CASE LosePacket
    BY <2>7, LossStep
  <2>8. CASE UNCHANGED h264Vars
    <3>1. UNCHANGED senderVars /\ UNCHANGED receiverVars /\ inFlight' = inFlight /\ units' = units
      BY <2>8 DEF h264Vars, senderVars
    <3>2. Handed' = Handed
      BY <3>1, HandedStays
    <3>3. QED
      BY <3>1, <3>2, EncoderStays, DecoderStays, PacketStays DEF H264Inv, HandedOK
  <2>9. QED
    BY <2>1, <2>2, <2>3, <2>4, <2>5, <2>6, <2>7, <2>8 DEF H264Next
<1>2. QED
  BY <1>1, H264Starts, PTL DEF H264Spec

\* What the invariant says of a NAL unit that arrives whole.
LEMMA InvComesOut ==
  H264Inv => ComesOutWhole
<1> SUFFICES ASSUME H264Inv PROVE ComesOutWhole
  OBVIOUS
<1> USE DEF H264Inv
<1>1. buf = << >> => nth = Len(Handed)
  BY DEF EncoderOK
<1>2. ASSUME NEW n \in 1 .. Len(Handed), NEW a \in 1 .. Len(decoded),
             Decodable(Handed[n]),
             a + Parts(Handed[n]) - 1 <= Len(decoded),
             SubSeq(decoded, a, a + Parts(Handed[n]) - 1) = [p \in 1 .. Parts(Handed[n]) |-> <<n, p>>]
      PROVE  [at |-> a + Parts(Handed[n]) - 1, bytes |-> StartCode(3) \o Handed[n]] \in delivered
  <2>1. Handed[n] \in Seq(Nat) /\ Handed[n] # << >>
    BY ElementOfSeq DEF HandedOK
  <2>2. Parts(Handed[n]) \in Nat \ {0} /\ decoded \in Seq(Nat \X Nat)
    BY <2>1, PartsAre DEF DecoderOK
  <2> DEFINE g == Parts(Handed[n])  e == a + g - 1
  <2>3. g \in Nat \ {0} /\ a + g - 1 <= Len(decoded)
        /\ SubSeq(decoded, a, a + g - 1) = [p \in 1 .. g |-> <<n, p>>]
    BY <1>2, <2>2
  <2> HIDE DEF g
  <2>4. e \in 1 .. Len(decoded) /\ Arrived(decoded, n, g, e)
    BY <2>2, <2>3, InARow
  <2> HIDE DEF e
  <2>5. FitsNaluBuf(n)
    BY <1>2 DEF FitsNaluBuf
  <2>6. [at |-> e, bytes |-> StartCode(3) \o Handed[n]] \in delivered
    BY <2>4, <2>5 DEF DecoderOK, g
  <2>7. QED
    BY <2>6 DEF e, g
<1>3. QED
  BY <1>1, <1>2 DEF ComesOutWhole

THEOREM H264ComesOutWhole ==
  H264Spec => []ComesOutWhole
  BY H264InvHolds, InvComesOut, PTL

-----------------------------------------------------------------------------
(* The timestamps.                                                           *)

\* Every access unit ends in its only slice, as an encoder of one slice per
\* picture makes them.
OneSlice ==
  \A unit \in AccessUnits :
    unit # << >> /\ \A j \in 1 .. Len(unit) : IsSlice(unit[j].nalu[1]) <=> j = Len(unit)

\* Frames counted by the encoder's timestamp.
StampsOK ==
  /\ \A a \in sentStamps :
       a.unit \in 1 .. Len(units) /\ a.timestamp = a.unit - 1 /\ (a.last => a.marker)
  /\ buf = << >> => timestamp = Len(units)
  /\ buf # << >> => timestamp = IF nth = Len(Handed) THEN Len(units) ELSE Len(units) - 1
  /\ rest # << >> => fu.timestamp = Len(units) - 1

\* The encoder counts an access unit when it comes to its slice.
LEMMA StampOfNext ==
  ASSUME H264Inv, OneSlice, buf # << >>, pstart < Len(buf), rest = << >>
  PROVE  /\ IsSlice(Nalu[1]) <=> nth + 1 = Len(Handed)
         /\ nth # Len(Handed) /\ Len(units) \in Nat \ {0}
         /\ Pend = Len(buf) => IsSlice(Nalu[1])
<1>1. PICK j \in 1 .. Len(AccessUnit) :
        /\ EncoderAt(j) /\ pstart = NaluAt(AccessUnit, j)
        /\ Pend = IF j = Len(AccessUnit) THEN Len(buf) ELSE NaluAt(AccessUnit, j + 1)
        /\ NaluSize = Len(AccessUnit[j].nalu) /\ Nalu = AccessUnit[j].nalu
  BY NextIs
<1>2. /\ AccessUnit \in AccessUnits /\ Len(AccessUnit) \in Nat /\ buf = BytesOf(AccessUnit)
      /\ Before \in Nat /\ Len(Handed) = Before + Len(AccessUnit)
  BY SenderIs
<1>3. IsSlice(Nalu[1]) <=> j = Len(AccessUnit)
  BY <1>1, <1>2 DEF OneSlice
<1>4. nth = Before + j - 1
  BY <1>1 DEF EncoderAt
<1>5. (nth + 1 = Len(Handed) <=> j = Len(AccessUnit)) /\ nth # Len(Handed)
  BY <1>2, <1>4
<1>6. j # Len(AccessUnit) => Pend # Len(buf)
  <2> SUFFICES ASSUME j # Len(AccessUnit) PROVE Pend # Len(buf)
    OBVIOUS
  <2>1. Len(buf) \in Nat
    BY <1>2, UnitsAre, BytesMore, LenProperties
  <2>2. j < Len(AccessUnit)
    BY <1>2
  <2>3. Pend < Len(buf)
    BY <1>1, <1>2, <2>2, NaluIs
  <2>4. QED
    BY <2>1, <2>3
<1>7. Len(units) \in Nat \ {0}
  BY EmptySeq DEF H264Inv, EncoderOK, HandedOK
<1>8. QED
  BY <1>3, <1>5, <1>6, <1>7

LEMMA StampsStep ==
  ASSUME OneSlice, H264Inv, H264Inv', StampsOK, [H264Next]_h264Vars
  PROVE  StampsOK'
<1> USE DEF H264Inv
<1>1. Len(units) \in Nat /\ Len(Handed) \in Nat
  BY LenProperties DEF HandedOK
<1>2. CASE \E unit \in AccessUnits : EncodeH264(unit)
  <2>1. PICK unit \in AccessUnits : EncodeH264(unit)
    BY <1>2
  <2>2. /\ buf = << >> /\ units' = Append(units, unit) /\ buf' = BytesOf(unit)
        /\ rest' = rest /\ nth' = nth /\ timestamp' = timestamp /\ sentStamps' = sentStamps
    BY <2>1 DEF EncodeH264
  <2>3. rest = << >> /\ nth = Len(Handed) /\ units \in Seq(AccessUnits) /\ timestamp = Len(units)
    BY <2>2 DEF EncoderOK, HandedOK, StampsOK
  <2>4. Len(units') = Len(units) + 1
    BY <2>2, <2>3, AppendProperties
  <2>5. Len(unit) \in Nat \ {0}
    BY UnitsAre, EmptySeq DEF OneSlice
  <2>6. Len(Handed') = Len(Handed) + Len(unit)
    <3>1. Handed' = Handed \o NalusOf(unit)
      <4>1. Handed = HandedOf(units) /\ Handed' = HandedOf(units')
        BY DEF Handed, HandedOf
      <4>2. QED
        BY <2>2, <2>3, <4>1, HandedMore
    <3>2. NalusOf(unit) \in Seq(Seq(Nat)) /\ Len(NalusOf(unit)) = Len(unit)
      BY NalusAre
    <3> DEFINE h == Handed  t == NalusOf(unit)
    <3>3. h \in Seq(Seq(Nat)) /\ t \in Seq(Seq(Nat)) /\ Len(t) = Len(unit) /\ Handed' = h \o t
      BY <3>1, <3>2 DEF HandedOK
    <3> HIDE DEF h, t
    <3>4. Len(h \o t) = Len(h) + Len(t)
      BY <3>3, ConcatProperties
    <3>5. QED
      BY <3>3, <3>4 DEF h
  <2>7. nth' # Len(Handed')
    BY <1>1, <2>2, <2>3, <2>5, <2>6
  <2>8. buf' # << >>
    BY <2>7 DEF EncoderOK
  <2>9. timestamp' = Len(units') - 1
    BY <1>1, <2>2, <2>3, <2>4
  <2>10. \A a \in sentStamps' :
           a.unit \in 1 .. Len(units') /\ a.timestamp = a.unit - 1 /\ (a.last => a.marker)
    BY <1>1, <2>2, <2>4 DEF StampsOK
  <2>11. QED
    BY <2>2, <2>3, <2>7, <2>8, <2>9, <2>10 DEF StampsOK
<1>3. CASE EncodeSingle
  <2>1. /\ buf # << >> /\ pstart < Len(buf) /\ rest = << >> /\ buf' = buf /\ rest' = rest
        /\ units' = units /\ nth' = nth + 1
        /\ timestamp' = timestamp + (IF IsSlice(Nalu[1]) THEN 1 ELSE 0)
        /\ sentStamps' = sentStamps \cup
             {[unit |-> Len(units), timestamp |-> timestamp, marker |-> IsSlice(Nalu[1]),
               last |-> Pend = Len(buf)]}
    BY <1>3 DEF EncodeSingle, NextNalu, OnPacket
  <2>2. /\ IsSlice(Nalu[1]) <=> nth + 1 = Len(Handed)
        /\ nth # Len(Handed) /\ Len(units) \in Nat \ {0}
        /\ Pend = Len(buf) => IsSlice(Nalu[1])
    BY <2>1, StampOfNext
  <2>3. timestamp = Len(units) - 1 /\ Handed' = Handed
    BY <2>1, <2>2, HandedStays DEF StampsOK
  <2>4. timestamp' = IF nth' = Len(Handed') THEN Len(units') ELSE Len(units') - 1
    <3>1. CASE IsSlice(Nalu[1])
      BY <2>1, <2>2, <2>3, <3>1
    <3>2. CASE ~IsSlice(Nalu[1])
      BY <2>1, <2>2, <2>3, <3>2
    <3>3. QED
      BY <3>1, <3>2
  <2> DEFINE new == [unit |-> Len(units), timestamp |-> timestamp, marker |-> IsSlice(Nalu[1]),
                     last |-> Pend = Len(buf)]
  <2>5. new.unit \in 1 .. Len(units) /\ new.timestamp = new.unit - 1 /\ (new.last => new.marker)
    <3>1. /\ new.unit = Len(units) /\ new.timestamp = timestamp
          /\ new.marker <=> IsSlice(Nalu[1])
          /\ new.last <=> Pend = Len(buf)
      OBVIOUS
    <3> HIDE DEF new
    <3>2. QED
      BY <2>2, <2>3, <3>1
  <2>6. sentStamps' = sentStamps \cup {new}
    BY <2>1
  <2> HIDE DEF new
  <2>7. \A a \in sentStamps' :
          a.unit \in 1 .. Len(units') /\ a.timestamp = a.unit - 1 /\ (a.last => a.marker)
    BY <2>1, <2>5, <2>6 DEF StampsOK
  <2>8. QED
    BY <2>1, <2>4, <2>7 DEF StampsOK
<1>4. CASE BeginFu
  <2>1. /\ buf # << >> /\ pstart < Len(buf) /\ rest = << >> /\ buf' = buf /\ nth' = nth + 1
        /\ units' = units /\ sentStamps' = sentStamps
        /\ timestamp' = timestamp + (IF IsSlice(Nalu[1]) THEN 1 ELSE 0)
        /\ fu' = [header |-> Nalu[1], s |-> TRUE, timestamp |-> timestamp]
    BY <1>4 DEF BeginFu, NextNalu
  <2>2. /\ IsSlice(Nalu[1]) <=> nth + 1 = Len(Handed)
        /\ nth # Len(Handed) /\ Len(units) \in Nat \ {0}
    BY <2>1, StampOfNext
  <2>3. timestamp = Len(units) - 1 /\ Handed' = Handed
    BY <2>1, <2>2, HandedStays DEF StampsOK
  <2>4. timestamp' = IF nth' = Len(Handed') THEN Len(units') ELSE Len(units') - 1
    <3>1. CASE IsSlice(Nalu[1])
      BY <2>1, <2>2, <2>3, <3>1
    <3>2. CASE ~IsSlice(Nalu[1])
      BY <2>1, <2>2, <2>3, <3>2
    <3>3. QED
      BY <3>1, <3>2
  <2>5. fu'.timestamp = timestamp
    BY <2>1
  <2>6. QED
    BY <2>1, <2>3, <2>4, <2>5 DEF StampsOK
<1>5. CASE EncodeFu
  <2> DEFINE end == Len(rest) <= FuPayloadSize
  <2>1. /\ rest # << >> /\ buf' = buf /\ units' = units /\ timestamp' = timestamp /\ nth' = nth
        /\ sentStamps' = sentStamps \cup
             {[unit |-> Len(units), timestamp |-> fu.timestamp, marker |-> end,
               last |-> end /\ Pend = Len(buf)]}
        /\ IF end THEN rest' = SubSeq(rest, Len(rest) + 1, Len(rest))
           ELSE fu' = [fu EXCEPT !.s = FALSE]
    BY <1>5 DEF EncodeFu, OnPacket
  <2>2. buf # << >>
    BY <2>1 DEF EncoderOK
  <2>3. fu.timestamp = Len(units) - 1 /\ Handed' = Handed
    BY <2>1, HandedStays DEF StampsOK
  <2>4. Len(units) \in Nat \ {0}
    BY <2>2, EmptySeq DEF EncoderOK, HandedOK
  <2> DEFINE new == [unit |-> Len(units), timestamp |-> fu.timestamp, marker |-> end,
                     last |-> end /\ Pend = Len(buf)]
  <2>5. new.unit \in 1 .. Len(units) /\ new.timestamp = new.unit - 1 /\ (new.last => new.marker)
    <3>1. /\ new.unit = Len(units) /\ new.timestamp = fu.timestamp
          /\ new.marker <=> end
          /\ new.last <=> end /\ Pend = Len(buf)
      OBVIOUS
    <3> HIDE DEF new, end
    <3>2. QED
      BY <2>3, <2>4, <3>1
  <2>6. sentStamps' = sentStamps \cup {new}
    BY <2>1
  <2> HIDE DEF new
  <2>7. \A a \in sentStamps' :
          a.unit \in 1 .. Len(units') /\ a.timestamp = a.unit - 1 /\ (a.last => a.marker)
    BY <2>1, <2>5, <2>6 DEF StampsOK
  <2>8. rest' # << >> => fu'.timestamp = Len(units) - 1
    <3>1. rest \in Seq(Nat) /\ "timestamp" \in DOMAIN fu
      <4>1. PICK j \in 1 .. Len(AccessUnit) + 1 : EncoderAt(j)
        BY <2>2, SenderIs
      <4>2. j <= Len(AccessUnit) /\ Cutting(AccessUnit[j].nalu)
        BY <2>1, <4>1 DEF EncoderAt
      <4>3. AccessUnit[j].nalu \in Seq(Nat) /\ AccessUnit[j].nalu # << >>
        <5>1. j \in 1 .. Len(AccessUnit)
          BY <2>2, <4>2, SenderIs
        <5>2. QED
          BY <2>2, <5>1, SenderIs
      <4>4. CutOff(AccessUnit[j].nalu, part, rest)
        BY <4>2, <4>3, Cuts DEF Cutting
      <4>5. rest \in Seq(Nat)
        BY <4>4, Zenon DEF CutOff
      <4>6. QED
        BY <4>2, <4>5 DEF Cutting
    <3>2. CASE end
      <4>1. Len(rest) \in Int /\ Len(rest) + 1 \in Int /\ Len(rest) < Len(rest) + 1
        BY <3>1, LenProperties
      <4>2. rest' = << >>
        BY <2>1, <3>2, <4>1, SubSeqEmpty
      <4>3. QED
        BY <4>2
    <3>3. CASE ~end
      BY <2>1, <2>3, <3>1, <3>3
    <3>4. QED
      BY <3>2, <3>3
  <2> HIDE DEF end
  <2>9. timestamp' = IF nth' = Len(Handed') THEN Len(units') ELSE Len(units') - 1
    BY <2>1, <2>2, <2>3 DEF StampsOK
  <2>10. QED
    BY <2>1, <2>2, <2>7, <2>8, <2>9 DEF StampsOK
<1>6. CASE EncodeH264Returns
  <2>1. /\ buf # << >> /\ buf' = << >> /\ rest' = rest /\ nth' = nth /\ units' = units
        /\ timestamp' = timestamp /\ sentStamps' = sentStamps
    BY <1>6 DEF EncodeH264Returns
  <2>2. Handed' = Handed /\ rest' = << >> /\ nth' = Len(Handed')
    BY <2>1, HandedStays DEF EncoderOK
  <2>3. timestamp' = Len(units')
    BY <2>1, <2>2 DEF StampsOK
  <2>4. QED
    BY <2>1, <2>2, <2>3 DEF StampsOK
<1>7. CASE UNCHANGED senderVars
  <2>1. Handed' = Handed
    BY <1>7, HandedStays DEF senderVars
  <2>2. QED
    BY <1>7, <2>1 DEF senderVars, StampsOK
<1>8. DecodeH264 \/ LosePacket \/ UNCHANGED h264Vars => UNCHANGED senderVars
  BY DEF DecodeH264, LosePacket, h264Vars
<1>9. QED
  BY <1>2, <1>3, <1>4, <1>5, <1>6, <1>7, <1>8 DEF H264Next

\* When every access unit ends in its only slice, its packets carry one
\* timestamp that no other access unit's carry, and the last of them is marked
\* (rtp.c:59-63, 82-92, 106-108).
THEOREM H264FramesKeepTimestamp ==
  OneSlice => (H264Spec => []FramesKeepTimestamp)
<1> SUFFICES ASSUME OneSlice PROVE H264Spec => []FramesKeepTimestamp
  OBVIOUS
<1>1. H264Init => StampsOK
  <2> SUFFICES ASSUME H264Init PROVE StampsOK
    OBVIOUS
  <2>1. units = << >> /\ buf = << >> /\ rest = << >> /\ timestamp = 0 /\ sentStamps = {}
    BY DEF H264Init
  <2>2. Len(<< >>) = 0
    OBVIOUS
  <2>3. QED
    BY <2>1, <2>2 DEF StampsOK
<1>2. StampsOK /\ H264Inv /\ H264Inv' /\ [H264Next]_h264Vars => StampsOK'
  BY StampsStep
<1>3. StampsOK => FramesKeepTimestamp
  BY DEF StampsOK, FramesKeepTimestamp
<1>4. QED
  BY <1>1, <1>2, <1>3, H264InvHolds, PTL DEF H264Spec
================================================================================

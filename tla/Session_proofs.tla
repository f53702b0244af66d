---------------------------- MODULE Session_proofs ----------------------------
(***************************************************************************)
(* The parts of a session: with loop and signaling in one thread, for any  *)
(* number of sessions, the states of a connection mean what the send       *)
(* guards take them to mean; every request of a controller is replied to   *)
(* once, whatever connections, losses and offers come between; the data    *)
(* channel opens once, acknowledges what it delivered, but for chunks that  *)
(* were overtaken in the window of the INIT, and cuts messages of every size *)
(* so that they can be put together again; a gathering writes messages that *)
(* are read whole, finds the addresses its servers gave it, and replies to  *)
(* the checks of the current description only.                             *)
(***************************************************************************)
EXTENDS PeerConnection, Signaling, Sctp, Gathering, SequenceTheorems, FiniteSetTheorems,
        ModularLemmas, TLAPS

(* The life cycle of a connection (PeerConnection)                         *)

LEMMA LifecycleInit == Init => IInv
<1>1. 0 \in 0 .. MaxSessions
  BY PeerConnectionAssumption
<1>2. ASSUME Init PROVE sctp \in BOOLEAN
  BY <1>2 DEF Init
<1> QED BY <1>1, <1>2
   DEF Init, IInv, TypeOK, PCStates, Turns, LoopStages, Negotiated,
       SctpRidesOnDtls, KeysWereExported, AppKnowsState, FingerprintMatches

\* The loop's steps find the handler outside, and leave its facts alone.
LEMMA LoopStepPreserves ==
  ASSUME OneThread, IInv, LoopStep
  PROVE  IInv'
<1> USE PeerConnectionAssumption
    DEF IInv, TypeOK, PCStates, Turns, LoopStages, Negotiated, SctpRidesOnDtls,
        KeysWereExported, AppKnowsState, LoopMayRun, FingerprintMatches, dtlsVars
<1>1. CASE LoopEnter
  BY <1>1 DEF LoopEnter
<1>2. CASE LoopAssign
  BY <1>2 DEF LoopAssign
<1>3. CASE CheckingFails
  BY <1>3 DEF CheckingFails, LoopChangesTo
<1>4. CASE CheckingSucceeds
  BY <1>4 DEF CheckingSucceeds, LoopChangesTo
<1>5. CASE CheckingGoesOn
  BY <1>5 DEF CheckingGoesOn
<1>6. CASE DeriveKeys
  BY <1>6 DEF DeriveKeys
<1>7. CASE HandshakeFails
  BY <1>7 DEF HandshakeFails
<1>13. CASE DeriveNoKeys
  BY <1>13 DEF DeriveNoKeys
<1>8. CASE HandshakeDone
  BY <1>8 DEF HandshakeDone, LoopChangesTo
<1>9. CASE Associate
  BY <1>9 DEF Associate, LoopChangesTo
<1>10. CASE Serve
  BY <1>10 DEF Serve
<1>11. CASE KeepaliveHolds
  BY <1>11 DEF KeepaliveHolds
<1>12. CASE KeepaliveExpires
  BY <1>12 DEF KeepaliveExpires, LoopChangesTo
<1> QED BY <1>1, <1>2, <1>3, <1>4, <1>5, <1>6, <1>7, <1>8, <1>9, <1>10, <1>11,
          <1>12, <1>13 DEF LoopStep

\* The handler's steps find the loop outside.
LEMMA SigStepPreserves ==
  ASSUME OneThread, IInv, SigStep
  PROVE  IInv'
<1> USE PeerConnectionAssumption
    DEF IInv, TypeOK, PCStates, Turns, LoopStages, Negotiated, SctpRidesOnDtls,
        KeysWereExported, AppKnowsState, SigMayRun, FingerprintMatches, dtlsVars
<1>1. CASE OfferRequested
  BY <1>1 DEF OfferRequested, OfferStates
<1>2. CASE CreateOffer
  <2>1. session + 1 \in 0 .. MaxSessions /\ 0 \in 0 .. MaxSessions
    BY <1>2 DEF CreateOffer
  <2> QED BY <2>1, <1>2 DEF CreateOffer, CreateSdp, OfferStates
<1>3. ASSUME NEW a \in 1 .. session, SetRemoteAnswer(a) PROVE IInv'
  <2>1. a \in 0 .. MaxSessions
    OBVIOUS
  <2>2. CASE IsUpdate(a)
    BY <2>1, <2>2, <1>3 DEF SetRemoteAnswer
  <2>3. CASE ~IsUpdate(a)
    <3>1. behind' \in BOOLEAN
      BY <2>3, <1>3 DEF SetRemoteAnswer, QueueBehind
    <3> QED BY <2>1, <2>3, <3>1, <1>3 DEF SetRemoteAnswer, UpdatedPairs, SigChangesToChecking
  <2> QED BY <2>2, <2>3
<1>4. CASE AnswerOffer
  <2>1. session + 1 \in 0 .. MaxSessions /\ 0 \in 0 .. MaxSessions
    BY <1>4 DEF AnswerOffer
  <2> QED BY <2>1, <1>4 DEF AnswerOffer, CreateSdp, QueueBehind, UpdatedPairs, SigChangesToChecking
<1>5. CASE Close
  BY <1>5 DEF Close
<1>6. CASE SigAssign
  BY <1>6 DEF SigAssign
<1> QED BY <1>1, <1>2, <1>3, <1>4, <1>5, <1>6 DEF SigStep, SigFinishes

LEMMA LifecycleStep == ASSUME OneThread, IInv, [Next]_vars PROVE IInv'
<1>1. CASE UNCHANGED vars
  BY <1>1 DEF vars, IInv, TypeOK, PCStates, Turns, LoopStages, Negotiated,
              SctpRidesOnDtls, KeysWereExported, AppKnowsState, FingerprintMatches, dtlsVars
<1> QED BY <1>1, LoopStepPreserves, SigStepPreserves DEF Next

-----------------------------------------------------------------------------
\* The stages of loop and handler (peer_connection.c:297-458) rely on each
\* other only in ways that one thread guarantees.
THEOREM LifecycleInvariant == OneThread => (Spec => []IInv)
<1> SUFFICES ASSUME OneThread PROVE Spec => []IInv
  OBVIOUS
<1>1. Init => IInv BY LifecycleInit
<1>2. IInv /\ [Next]_vars => IInv' BY LifecycleStep
<1> QED BY <1>1, <1>2, PTL DEF Spec

\* Media is sent only over a connected DTLS-SRTP session, except where the
\* SRTP keys could not be derived, which nobody looks at
\* (peer_connection.c:202-224, 316-325, dtls_srtp.c:344-367).
THEOREM SendersAreConnected == OneThread => (Spec => []CompletedMeansDtlsConnected)
<1> SUFFICES ASSUME OneThread PROVE Spec => []CompletedMeansDtlsConnected
  OBVIOUS
<1>1. Spec => []IInv BY LifecycleInvariant
<1>2. IInv => CompletedMeansDtlsConnected
  BY DEF IInv, Negotiated, KeysWereExported, FingerprintMatches,
         CompletedMeansDtlsConnected
<1> QED BY <1>1, <1>2, PTL

\* ... and only to the peer whose fingerprint the current description names
\* (dtls_srtp.c:446-459).
THEOREM SendersAreAuthenticated == OneThread => (Spec => []CompletedMeansAuthenticated)
<1> SUFFICES ASSUME OneThread PROVE Spec => []CompletedMeansAuthenticated
  OBVIOUS
<1>1. Spec => []IInv BY LifecycleInvariant
<1>2. IInv => CompletedMeansAuthenticated
  BY DEF IInv, Negotiated, FingerprintMatches, CompletedMeansAuthenticated
<1> QED BY <1>1, <1>2, PTL

\* The connection goes through its states in order; only closing and a new
\* negotiation leave it (peer_connection.c:302-388).
THEOREM StatesInOrder == OneThread => (Spec => LegalChanges)
<1> SUFFICES ASSUME OneThread PROVE Spec => LegalChanges
  OBVIOUS
<1>1. Spec => []IInv BY LifecycleInvariant
<1>2. IInv /\ [Next]_vars => [LegalChange]_vars
  <2> SUFFICES ASSUME IInv, Next PROVE LegalChange
    BY DEF vars
  <2>1. CASE LoopStep
    BY <2>1 DEF LoopStep, LoopEnter, LoopAssign, CheckingFails, CheckingSucceeds,
         CheckingGoesOn, DeriveKeys, DeriveNoKeys, HandshakeFails, HandshakeDone, Associate,
         Serve, KeepaliveHolds, KeepaliveExpires, LoopChangesTo, LegalChange,
         IInv, LoopStages
  <2>2. CASE SigStep
    BY <2>2 DEF SigStep, SigFinishes, OfferRequested, CreateOffer, SetRemoteAnswer,
         AnswerOffer, Close, SigAssign, LegalChange
  <2> QED BY <2>1, <2>2 DEF Next
<1> QED BY <1>1, <1>2, PTL DEF Spec, LegalChanges

-----------------------------------------------------------------------------
(* Signaling                                                               *)

\* A request on its way or being handled, and what was published for one.
RequestRecords == [id : Int, method : Methods, seen : StatesMet \cup {"none"}]
ReplyRecords == [id : Int, what : {"error", "", "none", "description"} \cup StatesMet]

\* A number no handled request has had and no reply has been given for.
Unanswered(id) == RepliesTo(id) = {} /\ \A r \in taken : r.id # id

RequestTypeOK ==
  /\ fromBroker \in Seq(RequestRecords)
  /\ request \in RequestRecords \cup {NoRequest}
  /\ replies \in Seq(ReplyRecords)
  /\ taken \subseteq RequestRecords
  /\ askedId \in Int /\ asked \in Nat

\* The requests under way have different numbers, none of them used before.
UnderWay ==
  /\ \A n \in DOMAIN fromBroker :
       /\ fromBroker[n].id <= asked
       /\ fromBroker[n].method = "offer" => fromBroker[n].id >= 0
  /\ \A n \in DOMAIN fromBroker : fromBroker[n].id > 0 =>
       /\ Unanswered(fromBroker[n].id)
       /\ request.id # fromBroker[n].id
       /\ \A m \in DOMAIN fromBroker : fromBroker[m].id = fromBroker[n].id => m = n

\* The request being handled, and where its number is kept for the reply.
Handling ==
  /\ request.id <= asked /\ (request.id > 0 => Unanswered(request.id))
  /\ request # NoRequest => request.seen \in StatesMet
  /\ request.method = "offer" => request.id >= 0
  /\ at \notin {"handling", "offering"} => request = NoRequest
  /\ at = "offering" /\ request # NoRequest =>
       request.method = "offer" /\ request.seen \in Offerable /\ askedId = request.id
  /\ at = "handling" => request # NoRequest
  /\ askedId > 0 => at = "offering" /\ request # NoRequest

\* No number is used before the controller has reached it.
HistoryBounded ==
  /\ \A n \in DOMAIN replies : replies[n].id <= asked
  /\ \A r \in taken : r.id <= asked

\* A number is on its way, being handled, handled, or unused, and never two of these;
\* g_ps.id holds the number of an offer only while that offer is made.
SignalingInv ==
  RequestTypeOK /\ UnderWay /\ Handling /\ HistoryBounded /\ RepliedOnce

-----------------------------------------------------------------------------
\* Before the first connection there are no requests.
LEMMA SignalingInitInvariant == SignalingInit => SignalingInv
<1> SUFFICES ASSUME SignalingInit PROVE SignalingInv
  OBVIOUS
<1>1. RequestTypeOK
  BY EmptySeq DEF SignalingInit, RequestTypeOK, NoRequest
<1>2. UnderWay /\ Handling /\ HistoryBounded
  BY SignalingAssumption DEF SignalingInit, UnderWay, Handling, HistoryBounded, NoRequest
<1>3. RepliedOnce
  BY DEF SignalingInit, RepliedOnce
<1>4. QED
  BY <1>1, <1>2, <1>3 DEF SignalingInv

\* One more reply answers its own number and no other.
LEMMA OneMoreReply ==
  ASSUME replies \in Seq(ReplyRecords), NEW reply \in ReplyRecords,
         replies' = Append(replies, reply)
  PROVE  /\ replies' \in Seq(ReplyRecords)
         /\ DOMAIN replies' = DOMAIN replies \cup {Len(replies) + 1}
         /\ Len(replies) + 1 \notin DOMAIN replies
         /\ \A n \in DOMAIN replies : replies'[n] = replies[n]
         /\ replies'[Len(replies) + 1] = reply
         /\ \A id : RepliesTo(id)' =
              RepliesTo(id) \cup IF reply.id = id THEN {Len(replies) + 1} ELSE {}
<1>1. /\ Append(replies, reply) \in Seq(ReplyRecords)
      /\ Len(Append(replies, reply)) = Len(replies) + 1
      /\ \A n \in 1 .. Len(replies) : Append(replies, reply)[n] = replies[n]
      /\ Append(replies, reply)[Len(replies) + 1] = reply
  BY AppendProperties
<1>2. Len(replies) \in Nat /\ DOMAIN replies = 1 .. Len(replies)
  BY LenProperties
<1>3. DOMAIN replies' = 1 .. Len(replies) + 1
  BY <1>1, LenProperties
<1>4. /\ DOMAIN replies' = DOMAIN replies \cup {Len(replies) + 1}
      /\ Len(replies) + 1 \notin DOMAIN replies
  BY <1>2, <1>3
<1>5. ASSUME NEW id
      PROVE  RepliesTo(id)' =
               RepliesTo(id) \cup IF reply.id = id THEN {Len(replies) + 1} ELSE {}
  <2>1. RepliesTo(id)' = {n \in DOMAIN replies' : replies'[n].id = id}
    BY DEF RepliesTo
  <2>2. QED
    BY <1>1, <1>2, <1>4, <2>1 DEF RepliesTo
<1>6. QED
  BY <1>1, <1>2, <1>4, <1>5

\* What counts the replies does not change with anything else.
\* Without a publication every number keeps its replies.
LEMMA RepliesKept ==
  ASSUME replies' = replies
  PROVE  \A id : RepliesTo(id)' = RepliesTo(id)
BY DEF RepliesTo

\* A request that is handled with the reply that is due to it keeps the promise.
LEMMA HandledWithReply ==
  ASSUME SignalingInv, request # NoRequest, request \in RequestRecords,
         NEW what, Due(request) = what, what # "none",
         Published(request.id, what), Handled,
         askedId' \in Int, UNCHANGED <<fromBroker, asked, posted>>
  PROVE  RequestTypeOK' /\ UnderWay' /\ HistoryBounded' /\ RepliedOnce'
<1> DEFINE reply == [id |-> request.id, what |-> what]
<1>1. replies \in Seq(ReplyRecords) /\ request.id \in Int /\ request.seen \in StatesMet
  BY DEF SignalingInv, RequestTypeOK, RequestRecords, Handling
<1>2. reply \in ReplyRecords
  BY <1>1 DEF Due, ReplyRecords
<1>3. /\ replies' = Append(replies, reply) /\ taken' = taken \cup {request}
      /\ request' = NoRequest
  BY DEF Published, Handled
<1>a. reply.id = request.id /\ reply.what = what
  OBVIOUS
<1> HIDE DEF reply
<1>4. /\ replies' \in Seq(ReplyRecords)
      /\ DOMAIN replies' = DOMAIN replies \cup {Len(replies) + 1}
      /\ Len(replies) + 1 \notin DOMAIN replies
      /\ \A n \in DOMAIN replies : replies'[n] = replies[n]
      /\ replies'[Len(replies) + 1] = reply
      /\ \A id : RepliesTo(id)' =
           RepliesTo(id) \cup IF reply.id = id THEN {Len(replies) + 1} ELSE {}
  BY <1>1, <1>2, <1>3, OneMoreReply
<1>5. RequestTypeOK'
  BY <1>3, <1>4 DEF SignalingInv, RequestTypeOK
<1>6. UnderWay'
  <2>1. ASSUME NEW n \in DOMAIN fromBroker, fromBroker[n].id > 0
        PROVE  /\ Unanswered(fromBroker[n].id)'
               /\ NoRequest.id # fromBroker[n].id
    <3>1. Unanswered(fromBroker[n].id) /\ request.id # fromBroker[n].id
      BY <2>1 DEF SignalingInv, UnderWay
    <3>2. RepliesTo(fromBroker[n].id)' = {}
      BY <1>a, <1>4, <3>1 DEF Unanswered
    <3>3. QED
      BY <1>3, <2>1, <3>1, <3>2 DEF Unanswered, RepliesTo, NoRequest
  <2>2. QED
    BY <1>3, <2>1 DEF SignalingInv, UnderWay
<1>7. HistoryBounded'
  BY <1>a, <1>3, <1>4 DEF SignalingInv, HistoryBounded, Handling
<1>8. RepliedOnce'
  <2>1. ASSUME NEW r \in taken', r.id > 0
        PROVE  IF Due(r) = "none" THEN RepliesTo(r.id)' = {}
               ELSE \E n \in RepliesTo(r.id)' :
                      RepliesTo(r.id)' = {n} /\ replies'[n].what = Due(r)
    <3>1. CASE r = request
      <4>1. RepliesTo(r.id) = {}
        BY <2>1, <3>1 DEF SignalingInv, Handling, Unanswered
      <4>2. RepliesTo(r.id)' = {Len(replies) + 1}
        BY <1>a, <1>4, <3>1, <4>1
      <4>3. QED
        BY <1>a, <1>4, <3>1, <4>2
    <3>2. CASE r \in taken /\ r # request
      <4>1. r.id # request.id
        BY <2>1, <3>2 DEF SignalingInv, Handling, Unanswered
      <4>2. RepliesTo(r.id)' = RepliesTo(r.id)
        BY <1>a, <1>4, <4>1
      <4>3. IF Due(r) = "none" THEN RepliesTo(r.id) = {}
            ELSE \E n \in RepliesTo(r.id) :
                   RepliesTo(r.id) = {n} /\ replies[n].what = Due(r)
        BY <2>1, <3>2 DEF SignalingInv, RepliedOnce
      <4>4. \A n \in RepliesTo(r.id) : n \in DOMAIN replies
        BY DEF RepliesTo
      <4>5. QED
        BY <1>4, <4>2, <4>3, <4>4
    <3>3. QED
      BY <1>3, <3>1, <3>2
  <2>2. ASSUME NEW n \in DOMAIN replies', replies'[n].id > 0
        PROVE  \E r \in taken' : r.id = replies'[n].id
    BY <1>a, <1>3, <1>4, <2>2 DEF SignalingInv, RepliedOnce
  <2>3. posted' \subseteq {0}
    BY DEF SignalingInv, RepliedOnce
  <2>4. QED
    BY <2>1, <2>2, <2>3 DEF RepliedOnce, Due
<1>9. QED
  BY <1>5, <1>6, <1>7, <1>8

\* A request that is handled without a reply, because none is due or because it
\* has no number, keeps the promise.
\* A request that gets no reply keeps the promise: an answer, and an offer whose
\* number is 0, which is posted (peer_signaling.c:506).
LEMMA HandledSilently ==
  ASSUME SignalingInv, request # NoRequest,
         request.id > 0 => Due(request) = "none",
         Handled, replies' = replies,
         askedId' \in Int, UNCHANGED <<fromBroker, asked>>,
         posted' \subseteq {0}
  PROVE  RequestTypeOK' /\ UnderWay' /\ HistoryBounded' /\ RepliedOnce'
<1>1. taken' = taken \cup {request} /\ request' = NoRequest
  BY DEF Handled
<1>2. \A id : RepliesTo(id)' = RepliesTo(id)
  BY RepliesKept
<1>3. RequestTypeOK'
  BY <1>1 DEF SignalingInv, RequestTypeOK
<1>4. UnderWay'
  <2>1. ASSUME NEW n \in DOMAIN fromBroker, fromBroker[n].id > 0
        PROVE  /\ Unanswered(fromBroker[n].id)'
               /\ NoRequest.id # fromBroker[n].id
    <3>1. Unanswered(fromBroker[n].id) /\ request.id # fromBroker[n].id
      BY <2>1 DEF SignalingInv, UnderWay
    <3>2. QED
      BY <1>1, <1>2, <2>1, <3>1 DEF Unanswered, RepliesTo, NoRequest
  <2>2. QED
    BY <1>1, <2>1 DEF SignalingInv, UnderWay
<1>5. HistoryBounded'
  BY <1>1 DEF SignalingInv, HistoryBounded, Handling
<1>6. RepliedOnce'
  <2>1. ASSUME NEW r \in taken', r.id > 0
        PROVE  IF Due(r) = "none" THEN RepliesTo(r.id) = {}
               ELSE \E n \in RepliesTo(r.id) :
                      RepliesTo(r.id) = {n} /\ replies[n].what = Due(r)
    <3>1. CASE r = request
      BY <2>1, <3>1 DEF SignalingInv, Handling, Unanswered
    <3>2. CASE r \in taken
      BY <2>1, <3>2 DEF SignalingInv, RepliedOnce
    <3>3. QED
      BY <1>1, <3>1, <3>2
  <2>2. ASSUME NEW n \in DOMAIN replies, replies[n].id > 0
        PROVE  \E r \in taken' : r.id = replies[n].id
    BY <1>1, <2>2 DEF SignalingInv, RepliedOnce
  <2>3. QED
    BY <1>2, <2>1, <2>2 DEF RepliedOnce, Due
<1>7. QED
  BY <1>3, <1>4, <1>5, <1>6

\* The history is the same where nothing is handled.
\* A step that handles and publishes nothing keeps the promise.
LEMMA HistoryKept ==
  ASSUME SignalingInv, UNCHANGED <<taken, replies, posted, asked>>
  PROVE  /\ HistoryBounded' /\ RepliedOnce'
         /\ \A id : Unanswered(id)' = Unanswered(id)
<1>1. \A id : RepliesTo(id)' = RepliesTo(id)
  BY RepliesKept
<1>2. HistoryBounded' /\ \A id : Unanswered(id)' = Unanswered(id)
  BY <1>1 DEF SignalingInv, HistoryBounded, Unanswered, RepliesTo
<1>3. RepliedOnce'
  BY <1>1 DEF SignalingInv, RepliedOnce, Due
<1>4. QED
  BY <1>2, <1>3

\* Back from the handler no request is being handled.
\* Back in MQTT_ProcessLoop nothing is being handled.
LEMMA NothingHandled ==
  ASSUME Handled, RequestTypeOK, asked' = asked, ~(askedId' > 0)
  PROVE  Handling'
BY DEF Handled, RequestTypeOK, Handling, NoRequest

\* Connecting, disconnecting and losing the session touch no request but those
\* on their way, and happen where none is being handled.
LEMMA NoRequestTouched ==
  ASSUME SignalingInv, fromBroker' \in {fromBroker, << >>},
         UNCHANGED <<requestVars, posted, asked>>,
         \/ at' = at
         \/ (at # "handling" /\ at' # "handling") /\ (at = "offering" => request = NoRequest)
  PROVE  SignalingInv'
<1>1. UNCHANGED <<askedId, request, taken, replies>>
  BY DEF requestVars
<1>2. RequestTypeOK'
  BY <1>1, EmptySeq DEF SignalingInv, RequestTypeOK
<1>3. HistoryBounded' /\ RepliedOnce' /\ \A id : Unanswered(id)' = Unanswered(id)
  BY <1>1, HistoryKept
<1>4. UnderWay'
  <2>1. CASE fromBroker' = fromBroker
    BY <1>1, <1>3, <2>1 DEF SignalingInv, UnderWay
  <2>2. CASE fromBroker' = << >>
    BY <2>2 DEF UnderWay
  <2>3. QED
    BY <2>1, <2>2
<1>5. Handling'
  BY <1>1, <1>3 DEF SignalingInv, Handling
<1>6. QED
  BY <1>2, <1>3, <1>4, <1>5 DEF SignalingInv

-----------------------------------------------------------------------------
\* Every step of the thread, of the controllers and of the broker keeps it.
LEMMA SignalingStepInvariant ==
  ASSUME SignalingInv, [SignalingNext]_sigVars
  PROVE  SignalingInv'
<1>0. /\ RequestTypeOK /\ UnderWay /\ Handling /\ HistoryBounded /\ RepliedOnce
      /\ Len(fromBroker) \in Nat /\ DOMAIN fromBroker = 1 .. Len(fromBroker)
      /\ \A n \in DOMAIN fromBroker : fromBroker[n] \in RequestRecords /\ fromBroker[n].id \in Int
  <2>1. fromBroker \in Seq(RequestRecords)
    BY DEF SignalingInv, RequestTypeOK
  <2>2. Len(fromBroker) \in Nat /\ DOMAIN fromBroker = 1 .. Len(fromBroker)
    BY <2>1, LenProperties
  <2>3. \A n \in DOMAIN fromBroker : fromBroker[n] \in RequestRecords
    BY <2>1, <2>2, ElementOfSeq
  <2>4. QED
    BY <2>2, <2>3 DEF SignalingInv, RequestRecords
<1>1. CASE ControllerSends
  <2>1. PICK m \in Methods, id \in {asked + 1} \cup {n \in {0} : asked = 0} :
          fromBroker' = Append(fromBroker,
            [id |-> IF m = "bad" THEN -1 ELSE id, method |-> m, seen |-> "none"])
    BY <1>1 DEF ControllerSends
  <2> DEFINE new == [id |-> IF m = "bad" THEN -1 ELSE id, method |-> m, seen |-> "none"]
  <2>2. /\ new \in RequestRecords /\ new.id <= asked + 1
        /\ new.id > 0 => new.id = asked + 1
        /\ new.method = "offer" => new.id >= 0
    BY <1>0 DEF RequestRecords, RequestTypeOK
  <2> HIDE DEF new
  <2>3. /\ asked' = asked + 1 /\ asked \in Nat
        /\ UNCHANGED <<request, askedId, at, taken, replies, posted>>
    BY <1>0, <1>1 DEF ControllerSends, requestVars, RequestTypeOK
  <2>4. /\ fromBroker' \in Seq(RequestRecords)
        /\ DOMAIN fromBroker' = 1 .. Len(fromBroker) + 1
        /\ \A n \in DOMAIN fromBroker : fromBroker'[n] = fromBroker[n]
        /\ fromBroker'[Len(fromBroker) + 1] = new
    <3>1. fromBroker' = Append(fromBroker, new) /\ fromBroker \in Seq(RequestRecords)
      BY <1>0, <2>1 DEF RequestTypeOK, new
    <3>2. /\ Append(fromBroker, new) \in Seq(RequestRecords)
          /\ Len(Append(fromBroker, new)) = Len(fromBroker) + 1
          /\ \A n \in 1 .. Len(fromBroker) : Append(fromBroker, new)[n] = fromBroker[n]
          /\ Append(fromBroker, new)[Len(fromBroker) + 1] = new
      BY <2>2, <3>1, AppendProperties
    <3>3. DOMAIN Append(fromBroker, new) = 1 .. Len(fromBroker) + 1
      BY <3>2, LenProperties
    <3>4. QED
      BY <1>0, <3>1, <3>2, <3>3
  <2>5. RequestTypeOK'
    BY <1>0, <2>3, <2>4 DEF RequestTypeOK
  <2>6. /\ \A id_1 : RepliesTo(id_1)' = RepliesTo(id_1)
        /\ \A id_1 : Unanswered(id_1)' = Unanswered(id_1)
    BY <2>3 DEF RepliesTo, Unanswered
  <2>6a. /\ \A n \in DOMAIN replies : replies[n].id \in Int
         /\ \A r \in taken : r.id \in Int
    <3>1. \A n \in DOMAIN replies : replies[n].id \in Int
      <4>1. replies \in Seq(ReplyRecords) /\ DOMAIN replies = 1 .. Len(replies)
        BY <1>0 DEF RequestTypeOK
      <4>2. \A n \in DOMAIN replies : replies[n] \in ReplyRecords
        BY <4>1, ElementOfSeq
      <4>3. QED
        BY <4>2 DEF ReplyRecords
    <3>2. \A r \in taken : r.id \in Int
      BY <1>0 DEF RequestTypeOK, RequestRecords
    <3>3. QED
      BY <3>1, <3>2
  <2>7. HistoryBounded'
    BY <1>0, <2>3, <2>6a DEF HistoryBounded
  <2>8. UnderWay'
    <3>1. ASSUME NEW n \in DOMAIN fromBroker'
          PROVE  /\ fromBroker'[n].id <= asked'
                 /\ fromBroker'[n].method = "offer" => fromBroker'[n].id >= 0
      <4>1. CASE n \in DOMAIN fromBroker
        <5>1. fromBroker[n].id \in Int
          BY <1>0, <4>1
        <5>2. QED
          BY <1>0, <2>3, <2>4, <4>1, <5>1 DEF UnderWay
      <4>2. CASE n = Len(fromBroker) + 1
        BY <2>2, <2>3, <2>4, <4>2
      <4>3. QED
        BY <1>0, <2>4, <3>1, <4>1, <4>2
    <3>2. ASSUME NEW n \in DOMAIN fromBroker', fromBroker'[n].id > 0
          PROVE  /\ Unanswered(fromBroker'[n].id)
                 /\ request.id # fromBroker'[n].id
                 /\ \A k \in DOMAIN fromBroker' :
                      fromBroker'[k].id = fromBroker'[n].id => k = n
      <4>1. asked + 1 # request.id /\ Unanswered(asked + 1)
        <5>1. request.id \in Int
          BY <1>0 DEF RequestTypeOK, RequestRecords, NoRequest
        <5>2. RepliesTo(asked + 1) = {}
          BY <1>0, <2>3, <2>6a DEF HistoryBounded, RepliesTo
        <5>3. \A r \in taken : r.id # asked + 1
          BY <1>0, <2>3, <2>6a DEF HistoryBounded
        <5>4. QED
          BY <1>0, <2>3, <5>1, <5>2, <5>3 DEF Handling, Unanswered
      <4>2. \A k \in DOMAIN fromBroker : fromBroker[k].id # asked + 1
        BY <1>0, <2>3 DEF UnderWay
      <4>3. CASE n \in DOMAIN fromBroker
        <5>1. /\ fromBroker'[n] = fromBroker[n]
              /\ fromBroker[n].id > 0
          BY <2>4, <3>2, <4>3
        <5>2. /\ Unanswered(fromBroker[n].id) /\ request.id # fromBroker[n].id
              /\ \A k \in DOMAIN fromBroker : fromBroker[k].id = fromBroker[n].id => k = n
          BY <1>0, <4>3, <5>1 DEF UnderWay
        <5>3. ASSUME NEW k \in DOMAIN fromBroker', fromBroker'[k].id = fromBroker[n].id
              PROVE  k = n
          <6>1. CASE k \in DOMAIN fromBroker
            BY <2>4, <5>2, <5>3, <6>1
          <6>2. CASE k = Len(fromBroker) + 1
            <7>1. new.id = asked + 1
              BY <2>2, <2>4, <5>1, <5>3, <6>2
            <7>2. QED
              BY <2>4, <4>2, <4>3, <5>3, <6>2, <7>1
          <6>3. QED
            BY <1>0, <2>4, <6>1, <6>2
        <5>4. QED
          BY <5>1, <5>2, <5>3
      <4>4. CASE n = Len(fromBroker) + 1
        <5>1. fromBroker'[n] = new /\ new.id = asked + 1
          BY <2>2, <2>4, <3>2, <4>4
        <5>2. ASSUME NEW k \in DOMAIN fromBroker', fromBroker'[k].id = fromBroker'[n].id
              PROVE  k = n
          BY <1>0, <2>4, <4>2, <4>4, <5>1, <5>2
        <5>3. QED
          BY <4>1, <5>1, <5>2
      <4>5. QED
        BY <1>0, <2>4, <3>2, <4>3, <4>4
    <3>3. QED
      BY <2>3, <2>6, <3>1, <3>2 DEF UnderWay
  <2>9. Handling'
    <3>1. request.id \in Int
      BY <1>0 DEF RequestTypeOK, RequestRecords, NoRequest
    <3>2. QED
      BY <1>0, <2>3, <2>6, <3>1 DEF Handling
  <2>10. RepliedOnce'
    BY <1>0, <2>3, HistoryKept, <2>6 DEF RepliedOnce, Due
  <2>11. QED
    BY <2>5, <2>7, <2>8, <2>9, <2>10 DEF SignalingInv
<1>2. CASE SessionLost
  BY <1>2, NoRequestTouched DEF SessionLost
<1>3. CASE ConnectSignaling
  <2>1. fromBroker' \in {fromBroker, << >>} /\ at = "idle" /\ at' # "handling"
    BY <1>3 DEF ConnectSignaling, Protocols
  <2>2. QED
    BY <1>3, <2>1, NoRequestTouched DEF ConnectSignaling
<1>4. CASE MqttConnect \/ Loop
  BY <1>4, NoRequestTouched DEF MqttConnect, Loop
<1>5. CASE ProcessNothing \/ Disconnect \/ Disconnected \/ Reoffer
  BY <1>5, NoRequestTouched DEF ProcessNothing, Disconnect, Disconnected, Reoffer
<1>6. CASE TakeRequest
  <2>1. PICK s \in StatesMet : request' = [Head(fromBroker) EXCEPT !.seen = s]
    BY <1>6 DEF TakeRequest
  <2>2. /\ fromBroker # << >> /\ fromBroker' = Tail(fromBroker)
        /\ at = "processing" /\ at' = "handling"
        /\ UNCHANGED <<askedId, taken, replies, posted, asked>>
    BY <1>6 DEF TakeRequest
  <2>3. /\ Head(fromBroker) = fromBroker[1] /\ 1 \in DOMAIN fromBroker
        /\ fromBroker' \in Seq(RequestRecords)
        /\ DOMAIN fromBroker' = 1 .. Len(fromBroker) - 1
        /\ \A n \in DOMAIN fromBroker' :
             /\ n + 1 \in DOMAIN fromBroker /\ fromBroker'[n] = fromBroker[n + 1]
    <3>1. fromBroker \in Seq(RequestRecords)
      BY <1>0 DEF RequestTypeOK
    <3>2. /\ Tail(fromBroker) \in Seq(RequestRecords)
          /\ Len(Tail(fromBroker)) = Len(fromBroker) - 1
          /\ \A n \in 1 .. Len(Tail(fromBroker)) : Tail(fromBroker)[n] = fromBroker[n + 1]
      BY <2>2, <3>1, HeadTailProperties
    <3>3. Len(fromBroker) # 0
      BY <2>2, <3>1, EmptySeq
    <3>4. DOMAIN Tail(fromBroker) = 1 .. Len(Tail(fromBroker))
      BY <3>2, LenProperties
    <3>5. Head(fromBroker) = fromBroker[1]
      BY <2>2, <3>1
    <3>6. QED
      BY <1>0, <2>2, <3>2, <3>3, <3>4, <3>5
  <2>4. /\ request' \in RequestRecords /\ request'.id = fromBroker[1].id
        /\ request'.method = fromBroker[1].method /\ request'.seen = s
        /\ request' # NoRequest
    <3>1. fromBroker[1] \in RequestRecords
      BY <1>0, <2>3
    <3>2. QED
      BY <2>1, <2>3, <3>1, SignalingAssumption DEF RequestRecords, NoRequest
  <2>5. RequestTypeOK'
    BY <1>0, <2>2, <2>3, <2>4 DEF RequestTypeOK
  <2>6. HistoryBounded' /\ RepliedOnce' /\ \A id : Unanswered(id)' = Unanswered(id)
    BY <2>2, HistoryKept
  <2>7. Handling'
    <3>1. /\ fromBroker[1].id <= asked
          /\ fromBroker[1].id > 0 => Unanswered(fromBroker[1].id)
          /\ fromBroker[1].method = "offer" => fromBroker[1].id >= 0
      BY <1>0, <2>3 DEF UnderWay
    <3>2. ~(askedId > 0)
      BY <1>0, <2>2 DEF Handling
    <3>3. QED
      BY <2>2, <2>4, <2>6, <3>1, <3>2 DEF Handling
  <2>8. UnderWay'
    <3>1. ASSUME NEW n \in DOMAIN fromBroker'
          PROVE  /\ fromBroker'[n].id <= asked
                 /\ fromBroker'[n].method = "offer" => fromBroker'[n].id >= 0
      BY <1>0, <2>3 DEF UnderWay
    <3>2. ASSUME NEW n \in DOMAIN fromBroker', fromBroker'[n].id > 0
          PROVE  /\ Unanswered(fromBroker'[n].id)
                 /\ request'.id # fromBroker'[n].id
                 /\ \A k \in DOMAIN fromBroker' :
                      fromBroker'[k].id = fromBroker'[n].id => k = n
      <4>1. /\ n + 1 \in DOMAIN fromBroker /\ fromBroker'[n] = fromBroker[n + 1]
            /\ n \in Nat /\ n >= 1
        BY <2>3
      <4>2. /\ Unanswered(fromBroker[n + 1].id)
            /\ \A k \in DOMAIN fromBroker :
                 fromBroker[k].id = fromBroker[n + 1].id => k = n + 1
        BY <1>0, <3>2, <4>1 DEF UnderWay
      <4>3. fromBroker[1].id # fromBroker[n + 1].id
        BY <2>3, <4>1, <4>2
      <4>4. ASSUME NEW k \in DOMAIN fromBroker', fromBroker'[k].id = fromBroker'[n].id
            PROVE  k = n
        <5>1. k + 1 = n + 1
          BY <2>3, <4>1, <4>2, <4>4
        <5>2. QED
          BY <1>0, <2>3, <4>1, <5>1
      <4>5. QED
        BY <2>4, <4>1, <4>2, <4>3, <4>4
    <3>3. QED
      BY <2>2, <2>6, <3>1, <3>2 DEF UnderWay
  <2>9. QED
    BY <2>5, <2>6, <2>7, <2>8 DEF SignalingInv
<1>7. CASE HandleOffer
  <2>1. /\ at = "handling" /\ request.method = "offer" /\ request # NoRequest
        /\ request \in RequestRecords /\ request.seen \in StatesMet /\ request.id \in Int
        /\ UNCHANGED <<fromBroker, asked, posted>>
    BY <1>0, <1>7 DEF HandleOffer, Handling, RequestTypeOK, RequestRecords
  <2>2. CASE request.seen \in Offerable
    <3>1. /\ askedId' = request.id /\ at' = "offering"
          /\ UNCHANGED <<request, taken, replies>>
      BY <1>7, <2>2 DEF HandleOffer
    <3>2. HistoryBounded' /\ RepliedOnce' /\ \A id : Unanswered(id)' = Unanswered(id)
      BY <2>1, <3>1, HistoryKept
    <3>3. RequestTypeOK'
      BY <1>0, <2>1, <3>1 DEF RequestTypeOK
    <3>4. UnderWay'
      BY <1>0, <2>1, <3>1, <3>2 DEF UnderWay
    <3>5. Handling'
      BY <1>0, <2>1, <2>2, <3>1, <3>2 DEF Handling
    <3>6. QED
      BY <3>2, <3>3, <3>4, <3>5 DEF SignalingInv
  <2>3. CASE request.seen \notin Offerable
    <3>1. Published(request.id, "error") /\ Handled /\ askedId' = askedId
      BY <1>7, <2>3 DEF HandleOffer
    <3>2. Due(request) = "error"
      BY <2>1, <2>3 DEF Due
    <3>3. askedId' \in Int /\ ~(askedId' > 0)
      BY <1>0, <2>1, <3>1 DEF RequestTypeOK, Handling
    <3>4. RequestTypeOK' /\ UnderWay' /\ HistoryBounded' /\ RepliedOnce'
      BY <2>1, <3>1, <3>2, <3>3, HandledWithReply
    <3>5. Handling'
      BY <1>0, <2>1, <3>1, <3>3, NothingHandled
    <3>6. QED
      BY <3>4, <3>5 DEF SignalingInv
  <2>4. QED
    BY <2>2, <2>3
<1>8. CASE HandleAnswer
  <2>1. /\ at = "handling" /\ request.method = "answer" /\ request # NoRequest
        /\ UNCHANGED <<fromBroker, asked, posted, replies, askedId>> /\ Handled
    BY <1>0, <1>8 DEF HandleAnswer, Handling
  <2>2. Due(request) = "none"
    BY <2>1 DEF Due
  <2>3. askedId' \in Int /\ ~(askedId' > 0)
    BY <1>0, <2>1 DEF RequestTypeOK, Handling
  <2>4. posted' \subseteq {0}
    BY <1>0, <2>1 DEF RepliedOnce
  <2>5. RequestTypeOK' /\ UnderWay' /\ HistoryBounded' /\ RepliedOnce'
    BY <2>1, <2>2, <2>3, <2>4, HandledSilently
  <2>6. Handling'
    BY <1>0, <2>1, <2>3, NothingHandled
  <2>7. QED
    BY <2>5, <2>6 DEF SignalingInv
<1>9. CASE HandleOther
  <2> DEFINE what == CASE request.method = "state" -> request.seen
                       [] request.method = "close" -> ""
                       [] OTHER -> "error"
  <2>1. /\ at = "handling" /\ request.method \notin {"offer", "answer"}
        /\ request # NoRequest /\ request \in RequestRecords /\ request.seen \in StatesMet
        /\ UNCHANGED <<fromBroker, asked, posted, askedId>>
        /\ Handled /\ Published(request.id, what)
    BY <1>0, <1>9 DEF HandleOther, Handling, RequestTypeOK
  <2>2. Due(request) = what /\ what # "none"
    BY <2>1, SignalingAssumption DEF Due
  <2> HIDE DEF what
  <2>3. askedId' \in Int /\ ~(askedId' > 0)
    BY <1>0, <2>1 DEF RequestTypeOK, Handling
  <2>4. RequestTypeOK' /\ UnderWay' /\ HistoryBounded' /\ RepliedOnce'
    BY <2>1, <2>2, <2>3, HandledWithReply
  <2>5. Handling'
    BY <1>0, <2>1, <2>3, NothingHandled
  <2>6. QED
    BY <2>4, <2>5 DEF SignalingInv
<1>10. CASE Onicecandidate
  <2>1. /\ at = "offering" /\ askedId > 0 /\ request # NoRequest
        /\ request.method = "offer" /\ request.seen \in Offerable
        /\ askedId = request.id /\ request \in RequestRecords
    BY <1>0, <1>10 DEF Onicecandidate, Handling, RequestTypeOK
  <2>2. /\ Published(request.id, "description") /\ askedId' = 0 /\ Handled
        /\ UNCHANGED <<fromBroker, asked, posted>>
    BY <1>10, <2>1 DEF Onicecandidate, OfferReturns
  <2>3. Due(request) = "description"
    BY <2>1 DEF Due
  <2>4. RequestTypeOK' /\ UnderWay' /\ HistoryBounded' /\ RepliedOnce'
    BY <2>1, <2>2, <2>3, HandledWithReply
  <2>5. Handling'
    BY <1>0, <2>2, NothingHandled
  <2>6. QED
    BY <2>4, <2>5 DEF SignalingInv
<1>11. CASE HttpPost
  <2>1. /\ at = "offering" /\ askedId <= 0 /\ OfferReturns
        /\ posted' = posted \cup (IF request = NoRequest THEN {} ELSE {request.id})
        /\ UNCHANGED <<fromBroker, askedId, replies, asked>>
    BY <1>11 DEF HttpPost
  <2>2. CASE request = NoRequest
    <3>1. at' = "idle" /\ UNCHANGED <<request, taken>> /\ posted' = posted
      BY <2>1, <2>2 DEF OfferReturns
    <3>2. QED
      BY <2>1, <2>2, <3>1, NoRequestTouched DEF requestVars
  <2>3. CASE request # NoRequest
    <3>1. Handled
      BY <2>1, <2>3 DEF OfferReturns
    <3>2. request.id = 0
      <4>1. askedId = request.id /\ request.id >= 0 /\ request.id \in Int
        BY <1>0, <2>1, <2>3 DEF Handling, RequestTypeOK, RequestRecords
      <4>2. QED
        BY <2>1, <4>1
    <3>3. posted' \subseteq {0}
      BY <1>0, <2>1, <2>3, <3>2 DEF RepliedOnce
    <3>4. askedId' \in Int /\ ~(askedId' > 0)
      BY <1>0, <2>1 DEF RequestTypeOK
    <3>5. RequestTypeOK' /\ UnderWay' /\ HistoryBounded' /\ RepliedOnce'
      BY <2>1, <2>3, <3>1, <3>2, <3>3, <3>4, HandledSilently
    <3>6. Handling'
      BY <1>0, <2>1, <3>1, <3>4, NothingHandled
    <3>7. QED
      BY <3>5, <3>6 DEF SignalingInv
  <2>4. QED
    BY <2>2, <2>3
<1>12. CASE UNCHANGED sigVars
  BY <1>12, NoRequestTouched DEF sigVars
<1>13. QED
  BY <1>1, <1>2, <1>3, <1>4, <1>5, <1>6, <1>7, <1>8, <1>9, <1>10, <1>11, <1>12
     DEF SignalingNext

\* Every request the signaling takes is replied to once, with what is due to
\* it, for any methods, states met, numbers of requests, reconnections and offers of
\* the application's own (peer_signaling.c:171-263, 503-531).
THEOREM SignalingRepliedOnce == SignalingSpec => []RepliedOnce
<1>1. SignalingInv /\ [SignalingNext]_sigVars => SignalingInv'
  BY SignalingStepInvariant
<1>2. SignalingInv => RepliedOnce
  BY DEF SignalingInv
<1>3. QED
  BY SignalingInitInvariant, <1>1, <1>2, PTL DEF SignalingSpec

-----------------------------------------------------------------------------
(* The data channel: opening and acknowledging (Sctp)                      *)

\* The constants of the association, as numbers.
LEMMA SctpConstants ==
  /\ PayloadMax \in Nat /\ PayloadMax > 0 /\ TsnModulus \in Nat /\ TsnModulus > 0
  /\ PeerChunks \in Nat /\ InitialWindow \in Nat /\ InitialTsn \in 0 .. TsnModulus - 1
  /\ \A len \in Sizes : len \in Nat
<1>1. PayloadMax * 8 \in Nat
  BY SctpAssumption
<1>2. QED
  BY <1>1, SctpAssumption DEF SctpAssumption

\* The next TSN is one of the modulus (sctp.c:141, 32 bits in the code).
LEMMA NextTsn ==
  ASSUME tsn \in 0 .. TsnModulus - 1
  PROVE  (tsn + 1) % TsnModulus \in 0 .. TsnModulus - 1
BY SctpConstants, DivMod

-----------------------------------------------------------------------------
\* Nothing is open before sctp_create_sctp.
LEMMA OpenedInit == SctpInit => size \in Nat /\ OpenedOnce
<1> SUFFICES ASSUME SctpInit PROVE size \in Nat /\ OpenedOnce
  OBVIOUS
<1>1. SctpTypeOK /\ size \in Nat
  <2>1. /\ size \in Nat /\ left \in 0 .. size /\ from \in 0 .. PeerChunks
        /\ {peerAck, peerSent, wide} \subseteq Nat
    BY SctpConstants DEF SctpInit
  <2>2. tsn \in 0 .. TsnModulus - 1 /\ handled \subseteq 1 .. PeerChunks
    BY SctpConstants DEF SctpInit
  <2>3. connected \in BOOLEAN /\ buf = "none" /\ place = "idle" /\ iube = 0
    BY DEF SctpInit
  <2>4. QED
    BY <2>1, <2>2, <2>3 DEF SctpTypeOK
<1>2. onopens = 0 /\ ~connected
  BY DEF SctpInit
<1>3. QED
  BY <1>1, <1>2 DEF OpenedOnce

\* Every step of the association calls onopen only when it sets connected.
LEMMA OpenedStep ==
  ASSUME size \in Nat, OpenedOnce, [SctpNext]_sctpVars
  PROVE  size' \in Nat /\ OpenedOnce'
<1> USE DEF OpenedOnce, SctpTypeOK
<1>1. CASE ReceiveInit \/ ReceiveInitAck
  <2>1. UNCHANGED <<connected, buf, place, from, onopens, handled, sendVars, peerVars>>
    BY <1>1 DEF ReceiveInit, ReceiveInitAck
  <2>2. QED
    BY <2>1 DEF sendVars, peerVars
<1>2. CASE ReceiveCookieEcho
  BY <1>2 DEF ReceiveCookieEcho, Connect, sendVars, peerVars
<1>3. CASE ReceiveCookieAck
  BY <1>3 DEF ReceiveCookieAck, Connect, sendVars, peerVars
<1>4. CASE ReceiveAbort
  BY <1>4 DEF ReceiveAbort, sendVars, peerVars
<1>5. ASSUME NEW n \in 1 .. PeerChunks, ReceiveOpen(n)
      PROVE  size' \in Nat /\ OpenedOnce'
  BY <1>5, SctpConstants, NextTsn DEF ReceiveOpen, PutChunk, peerVars
<1>6. ASSUME NEW n \in 1 .. PeerChunks, ReceiveMessage(n)
      PROVE  size' \in Nat /\ OpenedOnce'
  BY <1>6, SctpConstants DEF ReceiveMessage, sendVars, peerVars
<1>7. CASE CallbackReturns \/ Reply
  <2>1. /\ place' \in {"reply", "idle"} /\ buf' \in {buf, "none"} /\ from' \in {from, 0}
        /\ UNCHANGED <<connected, onopens, handled, sendVars, peerVars>>
    BY <1>7 DEF CallbackReturns, Reply
  <2>2. 0 \in 0 .. PeerChunks
    BY SctpConstants
  <2>3. QED
    BY <2>1, <2>2 DEF sendVars, peerVars
<1>8. CASE SendFullChunk
  BY <1>8, SctpConstants, NextTsn DEF SendFullChunk, StillLonger, Put, PutChunk, peerVars
<1>9. CASE SendLastChunk
  BY <1>9, SctpConstants, NextTsn DEF SendLastChunk, StillLonger, Put, PutChunk, peerVars
<1>10. ASSUME NEW len \in Sizes, Send(len)
       PROVE  size' \in Nat /\ OpenedOnce'
  BY <1>10, SctpConstants DEF Send, peerVars
<1>11. CASE Network
  <2>1. {peerAck', peerSent', wide'} \subseteq Nat
    BY <1>11, SctpConstants
       DEF Network, PeerRetransmits, PeerReceives, PeerInit, PeerRepeatsCookie, PeerData,
           PeerRepeatsData, PeerNewData, PeerAborts, PeerGetsInit, PeerGetsInitAck,
           PeerGetsCookieEcho, PeerGetsCookieAck, PeerGetsSack, Lose, peerVars
  <2>2. QED
    BY <1>11, <2>1 DEF Network, WeStay, sendVars
<1>12. CASE UNCHANGED sctpVars
  BY <1>12 DEF sctpVars, sendVars, peerVars
<1>13. QED
  BY <1>1, <1>2, <1>3, <1>4, <1>5, <1>6, <1>7, <1>8, <1>9, <1>10, <1>11, <1>12
     DEF SctpNext, Receive, Continue

\* The application is told once that the channel is open, and never before it is,
\* however often INIT, COOKIE_ECHO and their acknowledgements are repeated, lost or
\* reordered (sctp.c:364-386).
THEOREM SctpOpenedOnce == SctpSpec => []OpenedOnce
<1> DEFINE Inv == size \in Nat /\ OpenedOnce
<1>1. SctpInit => Inv
  BY OpenedInit
<1>2. Inv /\ [SctpNext]_sctpVars => Inv'
  BY OpenedStep
<1>3. QED
  BY <1>1, <1>2, PTL DEF SctpSpec

-----------------------------------------------------------------------------
\* A SACK is prepared for a chunk that was handled.
Backed == place = "idle" \/ buf \in {"cookie_ack", "data"} \/ from \in handled

\* The numbers of the peer: once a SACK reached it one chunk at most is out that
\* was not out before.
PeerWindow ==
  /\ peerAck \in Nat /\ peerSent \in Nat /\ wide \in Nat
  /\ peerAck <= peerSent /\ wide <= peerSent
  /\ peerAck = 0 => wide = peerSent
  /\ peerSent <= wide \/ peerSent <= peerAck + 1

\* What is under way was handled, or sent.
AckInv ==
  /\ PeerWindow /\ Backed
  /\ handled \subseteq 1 .. peerSent
  /\ \A n \in Nat : Packet("SACK", n) \in toPeer => n \in handled
  /\ \A n \in Nat : Packet("DATA", n) \in toUs => n <= peerSent
  /\ AckedIsDelivered

\* What is put on its way is added to what was, if at all.
LEMMA Carried ==
  ASSUME NEW packets, NEW p
  PROVE  Carry(packets, p) \subseteq packets \cup {p}
BY DEF Carry

\* Packets differ by their type and by their number.
LEMMA PacketsDiffer ==
  /\ \A m, n : Packet("SACK", m) = Packet("SACK", n) <=> m = n
  /\ \A m, n : Packet("DATA", m) = Packet("DATA", n) <=> m = n
  /\ \A m, n : Packet("SACK", m) # Packet("DATA", n)
  /\ \A n, type : type \in {"INIT", "INIT_ACK", "COOKIE_ECHO", "COOKIE_ACK", "ABORT"} =>
       Control(type) # Packet("SACK", n) /\ Control(type) # Packet("DATA", n)
BY DEF Packet, Control

\* Packets under way only get lost.
LEMMA AckKept ==
  ASSUME AckInv, Backed', UNCHANGED <<handled, peerAck, peerSent, wide>>,
         \A n \in Nat : Packet("SACK", n) \in toPeer' => Packet("SACK", n) \in toPeer,
         \A n \in Nat : Packet("DATA", n) \in toUs' => Packet("DATA", n) \in toUs
  PROVE  AckInv'
BY DEF AckInv, PeerWindow, AckedIsDelivered, Overtaken

\* At the start nothing is under way.
LEMMA AckInit == SctpInit => AckInv
<1> SUFFICES ASSUME SctpInit PROVE AckInv
  OBVIOUS
<1>1. 1 .. 0 = {}
  OBVIOUS
<1>2. \A n \in Nat : Packet("SACK", n) \notin toPeer /\ Packet("DATA", n) \notin toUs
  BY PacketsDiffer DEF SctpInit
<1>3. QED
  BY <1>1, <1>2 DEF SctpInit, AckInv, PeerWindow, Backed, AckedIsDelivered

\* Every step keeps that: the peer opens its window no further.
LEMMA AckStep ==
  ASSUME AckInv, [SctpNext]_sctpVars
  PROVE  AckInv'
<1>1. CASE \/ ReceiveInit \/ ReceiveInitAck \/ ReceiveCookieEcho \/ ReceiveCookieAck
           \/ ReceiveAbort
  <2>1. /\ UNCHANGED <<handled, peerAck, peerSent, wide>> /\ toUs' \subseteq toUs
        /\ \A n \in Nat : Packet("SACK", n) \in toPeer' => Packet("SACK", n) \in toPeer
    BY <1>1, Carried, PacketsDiffer
       DEF ReceiveInit, ReceiveInitAck, ReceiveCookieEcho, ReceiveCookieAck, ReceiveAbort,
           Take, Replies, peerVars
  <2>2. Backed'
    BY <1>1 DEF ReceiveInit, ReceiveInitAck, ReceiveCookieEcho, ReceiveCookieAck,
                ReceiveAbort, Idle, Backed
  <2>3. QED
    BY <2>1, <2>2, AckKept
<1>2. ASSUME NEW n \in 1 .. PeerChunks, ReceiveOpen(n) \/ ReceiveMessage(n)
      PROVE  AckInv'
  <2>1. /\ Packet("DATA", n) \in toUs /\ toUs' \subseteq toUs /\ toPeer' = toPeer
        /\ from' = n /\ handled' = handled \cup {n} /\ n \in Nat
        /\ UNCHANGED <<peerAck, peerSent, wide>>
    BY <1>2, SctpConstants DEF ReceiveOpen, ReceiveMessage, Take, peerVars
  <2>2. n \in 1 .. peerSent
    BY <2>1 DEF AckInv, PeerWindow
  <2>3. PeerWindow' /\ Backed' /\ handled' \subseteq 1 .. peerSent'
    BY <2>1, <2>2 DEF AckInv, PeerWindow, Backed
  <2>4. AckedIsDelivered'
    BY <2>1 DEF AckInv, AckedIsDelivered, Overtaken
  <2>5. QED
    BY <2>1, <2>3, <2>4 DEF AckInv
<1>3. CASE Reply
  <2>1. /\ toUs' = toUs /\ UNCHANGED <<handled, peerAck, peerSent, wide>> /\ Backed'
    BY <1>3 DEF Reply, peerVars, Backed
  <2>2. ASSUME NEW n \in Nat, Packet("SACK", n) \in toPeer'
        PROVE  n \in handled
    <3>1. CASE Packet("SACK", n) \in toPeer
      BY <3>1 DEF AckInv
    <3>2. CASE Packet("SACK", n) \notin toPeer
      <4>1. buf # "data" /\ Packet("SACK", n) = Prepared
        BY <1>3, <2>2, <3>2, Carried DEF Reply
      <4>2. buf # "cookie_ack" /\ n = from
        BY <4>1, PacketsDiffer DEF Prepared, CumulativeAck
      <4>3. QED
        BY <1>3, <4>1, <4>2 DEF Reply, AckInv, Backed
    <3>3. QED
      BY <3>1, <3>2
  <2>3. QED
    BY <2>1, <2>2 DEF AckInv, PeerWindow, AckedIsDelivered, Overtaken
<1>4. CASE CallbackReturns \/ SendFullChunk \/ SendLastChunk
  <2>1. UNCHANGED <<buf, from, handled, toUs, toPeer, peerAck, peerSent, wide>>
    BY <1>4 DEF CallbackReturns, SendFullChunk, SendLastChunk, Put, peerVars
  <2>2. Backed'
    BY <1>4, <2>1 DEF CallbackReturns, SendFullChunk, SendLastChunk, Put, AckInv, Backed
  <2>3. QED
    BY <2>1, <2>2, AckKept
<1>5. ASSUME NEW len \in Sizes, Send(len) PROVE AckInv'
  <2>1. Backed'
    BY <1>5 DEF Send, AckInv, Backed
  <2>2. QED
    BY <1>5, <2>1, AckKept DEF Send, peerVars
<1>6. CASE Network
  <2>1. UNCHANGED <<buf, place, from, handled>> /\ Backed'
    BY <1>6 DEF Network, WeStay, AckInv, Backed
  <2>2. CASE PeerInit \/ PeerRepeatsCookie \/ PeerAborts
    BY <2>1, <2>2, AckKept, Carried, PacketsDiffer
       DEF PeerInit, PeerRepeatsCookie, PeerAborts, PeerSends, peerVars
  <2>3. CASE PeerData
    <3>1. PICK n \in Nat :
            /\ toUs' = Carry(toUs, Packet("DATA", n)) /\ n <= peerSent' /\ peerSent <= peerSent'
            /\ PeerWindow' /\ wide <= wide' /\ peerAck' = peerAck /\ toPeer' = toPeer
      <4>1. CASE PeerRepeatsData
        BY <2>3, <4>1 DEF PeerData, PeerRepeatsData, PeerSends, AckInv, PeerWindow
      <4>2. CASE PeerNewData
        BY <2>3, <4>2 DEF PeerData, PeerNewData, Window, PeerSends, AckInv, PeerWindow
      <4>3. QED
        BY <2>3, <4>1, <4>2 DEF PeerData
    <3>2. ASSUME NEW k \in Nat, Packet("DATA", k) \in toUs'
          PROVE  k <= peerSent'
      <4>1. CASE Packet("DATA", k) \in toUs
        BY <3>1, <4>1 DEF AckInv, PeerWindow
      <4>2. CASE k = n
        BY <3>1, <4>2
      <4>3. QED
        BY <3>1, <3>2, <4>1, <4>2, Carried, PacketsDiffer
    <3>3. handled' \subseteq 1 .. peerSent'
      BY <2>1, <3>1 DEF AckInv, PeerWindow
    <3>4. AckedIsDelivered'
      BY <2>1, <3>1 DEF AckInv, AckedIsDelivered, Overtaken, PeerWindow
    <3>5. QED
      BY <2>1, <3>1, <3>2, <3>3, <3>4 DEF AckInv
  <2>4. CASE PeerGetsInit \/ PeerGetsInitAck \/ PeerGetsCookieEcho \/ PeerGetsCookieAck
    BY <2>1, <2>4, AckKept, Carried, PacketsDiffer
       DEF PeerGetsInit, PeerGetsInitAck, PeerGetsCookieEcho, PeerGetsCookieAck,
           PeerTake, PeerSends, peerVars
  <2>5. CASE PeerGetsSack
    <3>1. PICK n \in 0 .. PeerChunks + 1 :
            /\ Packet("SACK", n) \in toPeer /\ toPeer' \subseteq toPeer /\ toUs' = toUs
            /\ peerAck' = IF n > peerAck THEN n ELSE peerAck
            /\ UNCHANGED <<peerSent, wide>>
      BY <2>5 DEF PeerGetsSack, PeerTake
    <3>2. n \in Nat /\ n \in handled /\ n <= peerSent
      BY <3>1, SctpConstants DEF AckInv, PeerWindow
    <3>3. PeerWindow'
      BY <3>1, <3>2 DEF AckInv, PeerWindow
    <3>4. ASSUME NEW k \in 1 .. peerAck'
          PROVE  k \in handled \/ Overtaken(k)
      <4>1. CASE k <= peerAck
        BY <3>3, <4>1 DEF AckInv, AckedIsDelivered, PeerWindow
      <4>2. CASE k = n
        BY <3>2, <4>2
      <4>3. CASE peerAck < k /\ k < n
        BY <3>1, <3>2, <4>3 DEF AckInv, PeerWindow, Overtaken
      <4>4. QED
        BY <3>1, <3>2, <3>3, <4>1, <4>2, <4>3 DEF AckInv, PeerWindow
    <3>5. AckedIsDelivered'
      BY <2>1, <3>1, <3>4 DEF AckedIsDelivered, Overtaken
    <3>6. QED
      BY <2>1, <3>1, <3>3, <3>5 DEF AckInv
  <2>6. CASE Lose
    BY <2>1, <2>6, AckKept DEF Lose, peerVars
  <2>7. QED
    BY <1>6, <2>2, <2>3, <2>4, <2>5, <2>6 DEF Network, PeerRetransmits, PeerReceives
<1>7. CASE UNCHANGED sctpVars
  BY <1>7, AckKept DEF sctpVars, peerVars, AckInv, Backed
<1>8. QED
  BY <1>1, <1>2, <1>3, <1>4, <1>5, <1>6, <1>7 DEF SctpNext, Receive, Continue

\* What the SACKs report has been handed to the application, whatever is lost,
\* repeated or reordered; but for a chunk of the window of the INIT that a later
\* one of that window overtook (sctp.c:251-260, 294, 399-413, 676).
THEOREM SctpAckedIsDelivered == SctpSpec => []AckedIsDelivered
<1>1. AckInv /\ [SctpNext]_sctpVars => AckInv'
  BY AckStep
<1>2. AckInv => AckedIsDelivered
  BY DEF AckInv
<1>3. QED
  BY AckInit, <1>1, <1>2, PTL DEF SctpSpec

-----------------------------------------------------------------------------
(* The data channel: fragments (Sctp)                                      *)

\* A DATA chunk as sctp_outgoing_data puts it on the wire.
Chunk == [first : Nat, len : Nat, iube : {3, 4, 5, 6, 7}, tsn : 0 .. TsnModulus - 1]

\* Chunks that follow each other, the first and no other with the B bit, and
\* none but perhaps the last with the E bit.
Chained ==
  /\ \A i \in DOMAIN out : Begins(out[i]) <=> i = 1
  /\ \A i \in DOMAIN out : i < Len(out) => ~Ends(out[i])
  /\ \A i \in DOMAIN out : i > 1 => out[i].tsn = (out[i - 1].tsn + 1) % TsnModulus

\* They are pieces of the message from its start on.
Pieces ==
  /\ \A i \in DOMAIN out : out[i].len \in 1 .. PayloadMax
  /\ out[1].first = 0
  /\ \A i \in (DOMAIN out) \ {1} : out[i].first = out[i - 1].first + out[i - 1].len

\* Between two messages the last one put on the wire is complete.
Complete ==
  (left = 0 \/ iube = 6) /\ out # << >> => Chained /\ Ends(out[Len(out)])

\* In the middle of a message what is on the wire is its beginning, and the next
\* chunk goes on with it.
Begun ==
  left > 0 /\ iube = 4 =>
    /\ out # << >> /\ Chained /\ ~Ends(out[Len(out)]) /\ Pieces
    /\ out[Len(out)].first + out[Len(out)].len = size - left
    /\ tsn = (out[Len(out)].tsn + 1) % TsnModulus

\* The chunks of the message under way are its beginning, or the last message is
\* complete.
FragInv ==
  /\ out \in Seq(Chunk)
  /\ left > 0 => iube \in {4, 6}
  /\ left > 0 /\ iube = 6 => left = size
  /\ Complete /\ Begun
  /\ left = 0 /\ size > 0 /\ out # << >> => WholeMessage \/ DcepAck

\* The bits of the flags sctp.c uses: DATA_CHANNEL_OPEN's answer 3, 6 and 4 in
\* the loop, 7 and 5 at the end.
LEMMA Flags ==
  /\ \A c : c.iube \in {3, 5, 7} => Ends(c)
  /\ \A c : c.iube \in {4, 6} => ~Ends(c)
  /\ \A c : c.iube \in {3, 6, 7} => Begins(c)
  /\ \A c : c.iube \in {4, 5} => ~Begins(c)
BY DEF Ends, Begins

\* After a complete message a chunk begins the next one.
LEMMA FirstChunk ==
  ASSUME NEW first \in Nat, NEW len \in Nat, NEW flags \in {3, 6, 7},
         tsn \in 0 .. TsnModulus - 1, out \in Seq(Chunk),
         out # << >> => Ends(out[Len(out)]),
         PutChunk(first, len, flags)
  PROVE  /\ out' \in Seq(Chunk) /\ Len(out') = 1 /\ out' # << >> /\ DOMAIN out' = {1}
         /\ out'[1] = [first |-> first, len |-> len, iube |-> flags, tsn |-> tsn]
         /\ Chained' /\ Begins(out'[1])
         /\ Ends(out'[1]) <=> flags # 6
         /\ tsn' = (out'[1].tsn + 1) % TsnModulus
<1> DEFINE c == [first |-> first, len |-> len, iube |-> flags, tsn |-> tsn]
<1>1. c \in Chunk
  BY DEF Chunk
<1>2. out' = <<c>> /\ tsn' = (tsn + 1) % TsnModulus
  <2>1. CASE out = << >>
    <3>1. Append(out, c) = <<c>>
      BY <2>1
    <3>2. QED
      BY <2>1, <3>1 DEF PutChunk
  <2>2. CASE out # << >>
    BY <2>2 DEF PutChunk
  <2>3. QED
    BY <2>1, <2>2
<1>3. c.iube = flags /\ c.tsn = tsn
  OBVIOUS
<1>4. Begins(c) /\ (Ends(c) <=> flags # 6)
  BY <1>3, Flags
<1> HIDE DEF c
<1>5. /\ <<c>> \in Seq(Chunk) /\ Len(<<c>>) = 1 /\ <<c>> # << >>
      /\ DOMAIN <<c>> = {1} /\ <<c>>[1] = c
  BY <1>1
<1>6. Chained'
  BY <1>2, <1>4, <1>5 DEF Chained, Begins, Ends
<1>7. QED
  BY <1>2, <1>3, <1>4, <1>5, <1>6 DEF c

\* In the middle of a message a chunk continues it.
LEMMA NextChunk ==
  ASSUME NEW first \in Nat, NEW len \in Nat, NEW flags \in {4, 5},
         tsn \in 0 .. TsnModulus - 1, out \in Seq(Chunk),
         out # << >>, Chained, ~Ends(out[Len(out)]), Pieces,
         first = out[Len(out)].first + out[Len(out)].len, len \in 1 .. PayloadMax,
         tsn = (out[Len(out)].tsn + 1) % TsnModulus,
         PutChunk(first, len, flags)
  PROVE  /\ out' \in Seq(Chunk) /\ out' # << >>
         /\ Chained' /\ Pieces'
         /\ out'[Len(out')] = [first |-> first, len |-> len, iube |-> flags, tsn |-> tsn]
         /\ Ends(out'[Len(out')]) <=> flags = 5
         /\ tsn' = (out'[Len(out')].tsn + 1) % TsnModulus
<1> DEFINE c == [first |-> first, len |-> len, iube |-> flags, tsn |-> tsn]
           n == Len(out)
<1>1. c \in Chunk
  BY DEF Chunk
<1>2. out' = Append(out, c) /\ tsn' = (tsn + 1) % TsnModulus
  BY DEF PutChunk
<1>3. c.iube = flags /\ c.tsn = tsn /\ c.first = first /\ c.len = len
  OBVIOUS
<1>4. ~Begins(c) /\ (Ends(c) <=> flags = 5)
  BY <1>3, Flags
<1>5. n \in Nat /\ n >= 1 /\ DOMAIN out = 1 .. n
  BY EmptySeq, LenProperties
<1> HIDE DEF c, n
<1>6. /\ out' \in Seq(Chunk) /\ Len(out') = n + 1 /\ out' # << >>
      /\ DOMAIN out' = 1 .. n + 1
      /\ \A i \in 1 .. n : out'[i] = out[i]
      /\ out'[n + 1] = c
  <2>1. /\ Append(out, c) \in Seq(Chunk) /\ Append(out, c) # << >>
        /\ Len(Append(out, c)) = n + 1
        /\ \A i \in 1 .. n : Append(out, c)[i] = out[i]
        /\ Append(out, c)[n + 1] = c
    BY <1>1, AppendProperties DEF n
  <2>2. DOMAIN Append(out, c) = 1 .. n + 1
    BY <2>1, LenProperties
  <2>3. QED
    BY <1>2, <2>1, <2>2
<1>7. Chained'
  <2>1. ASSUME NEW i \in 1 .. n + 1 PROVE Begins(out'[i]) <=> i = 1
    <3>1. CASE i \in 1 .. n
      BY <1>5, <1>6, <3>1 DEF Chained
    <3>2. CASE i = n + 1
      BY <1>4, <1>5, <1>6, <3>2
    <3>3. QED
      BY <1>5, <3>1, <3>2
  <2>2. ASSUME NEW i \in 1 .. n + 1, i < n + 1 PROVE ~Ends(out'[i])
    <3>1. i \in 1 .. n /\ out'[i] = out[i]
      BY <1>5, <1>6, <2>2
    <3>2. CASE i < n
      BY <1>5, <3>1, <3>2 DEF Chained, n
    <3>3. CASE i = n
      BY <3>1, <3>3 DEF n
    <3>4. QED
      BY <1>5, <3>1, <3>2, <3>3
  <2>3. ASSUME NEW i \in 1 .. n + 1, i > 1
        PROVE  out'[i].tsn = (out'[i - 1].tsn + 1) % TsnModulus
    <3>1. i - 1 \in 1 .. n /\ out'[i - 1] = out[i - 1]
      BY <1>5, <1>6, <2>3
    <3>2. CASE i \in 1 .. n
      BY <1>5, <1>6, <2>3, <3>1, <3>2 DEF Chained
    <3>3. CASE i = n + 1
      BY <1>3, <1>5, <1>6, <3>1, <3>3 DEF n
    <3>4. QED
      BY <1>5, <3>2, <3>3
  <2>4. QED
    BY <1>6, <2>1, <2>2, <2>3 DEF Chained, Begins, Ends
<1>8. Pieces'
  <2>1. ASSUME NEW i \in 1 .. n + 1 PROVE out'[i].len \in 1 .. PayloadMax
    <3>1. CASE i \in 1 .. n
      BY <1>5, <1>6, <3>1 DEF Pieces
    <3>2. CASE i = n + 1
      BY <1>3, <1>6, <3>2
    <3>3. QED
      BY <1>5, <3>1, <3>2
  <2>2. out'[1].first = 0
    BY <1>5, <1>6 DEF Pieces
  <2>3. ASSUME NEW i \in (1 .. n + 1) \ {1}
        PROVE  out'[i].first = out'[i - 1].first + out'[i - 1].len
    <3>1. i - 1 \in 1 .. n /\ out'[i - 1] = out[i - 1]
      BY <1>5, <1>6
    <3>2. CASE i \in 1 .. n
      BY <1>5, <1>6, <3>1, <3>2 DEF Pieces
    <3>3. CASE i = n + 1
      BY <1>3, <1>5, <1>6, <3>1, <3>3 DEF n
    <3>4. QED
      BY <1>5, <3>2, <3>3
  <2>4. QED
    BY <1>6, <2>1, <2>2, <2>3 DEF Pieces
<1>9. QED
  BY <1>2, <1>3, <1>4, <1>6, <1>7, <1>8 DEF c

\* A step that neither sends nor puts a chunk on the wire changes nothing of this.
LEMMA FragKept ==
  ASSUME FragInv, UNCHANGED sendVars
  PROVE  FragInv'
BY DEF FragInv, sendVars, Complete, Begun, Chained, Pieces, WholeMessage, DcepAck, Ends, Begins

\* Every step keeps that: sctp_outgoing_data and its loop, whatever of the
\* association happens between two chunks (sctp.c:96-161).
LEMMA FragStep ==
  ASSUME size \in Nat, SctpTypeOK, FragInv, [SctpNext]_sctpVars
  PROVE  FragInv'
<1>0. /\ left \in 0 .. size /\ iube \in {0, 4, 6} /\ tsn \in 0 .. TsnModulus - 1
      /\ out \in Seq(Chunk)
  BY DEF SctpTypeOK, FragInv
<1>1. CASE \/ ReceiveInit \/ ReceiveInitAck \/ ReceiveCookieEcho \/ ReceiveCookieAck
           \/ ReceiveAbort \/ CallbackReturns \/ Reply \/ Network \/ UNCHANGED sctpVars
           \/ \E n \in 1 .. PeerChunks : ReceiveMessage(n)
  BY <1>1, FragKept
     DEF ReceiveInit, ReceiveInitAck, ReceiveCookieEcho, ReceiveCookieAck, ReceiveAbort,
         CallbackReturns, Reply, Network, WeStay, ReceiveMessage, sctpVars
<1>2. ASSUME NEW n \in 1 .. PeerChunks, ReceiveOpen(n) PROVE FragInv'
  <2>1. PutChunk(0, 1, 3) /\ left = 0 /\ UNCHANGED <<left, iube, size>>
    BY <1>2 DEF ReceiveOpen, Idle
  <2>2. out # << >> => Ends(out[Len(out)])
    BY <2>1 DEF FragInv, Complete
  <2>3. /\ out' \in Seq(Chunk) /\ Len(out') = 1
        /\ out'[1] = [first |-> 0, len |-> 1, iube |-> 3, tsn |-> tsn]
        /\ Chained' /\ Ends(out'[1])
    <3>1. 0 \in Nat /\ 1 \in Nat /\ 3 \in {3, 6, 7} /\ 3 # 6
      OBVIOUS
    <3>2. PutChunk(0, 1, 3)
      BY <2>1
    <3>3. QED
      BY <1>0, <2>2, <3>1, <3>2, FirstChunk
  <2>4. DcepAck' /\ Complete'
    BY <2>3 DEF DcepAck, Complete, Ends
  <2>5. QED
    BY <1>0, <2>1, <2>3, <2>4 DEF FragInv, Begun
<1>3. ASSUME NEW len \in Sizes, Send(len) PROVE FragInv'
  <2>1. left = 0 /\ size' = len /\ left' = len /\ iube' = 6 /\ UNCHANGED <<tsn, out>>
    BY <1>3 DEF Send
  <2>2. Complete'
    BY <2>1 DEF FragInv, Complete, Chained, Ends, Begins
  <2>3. QED
    BY <1>0, <2>1, <2>2, SctpConstants DEF FragInv, Begun
<1>4. CASE SendFullChunk
  <2>1. /\ left > PayloadMax /\ PutChunk(size - left, PayloadMax, iube)
        /\ left' = left - PayloadMax /\ left' > 0 /\ iube' = 4 /\ size' = size
    BY <1>0, <1>4, SctpConstants DEF SendFullChunk, StillLonger, Put
  <2>2. /\ out' \in Seq(Chunk) /\ out' # << >> /\ Chained' /\ Pieces'
        /\ ~Ends(out'[Len(out')])
        /\ out'[Len(out')].first + out'[Len(out')].len = size - left + PayloadMax
        /\ tsn' = (out'[Len(out')].tsn + 1) % TsnModulus
    <3>1. CASE iube = 6
      <4>1. size - left = 0 /\ (out # << >> => Ends(out[Len(out)]))
        BY <1>0, <2>1, <3>1, SctpConstants DEF FragInv, Complete
      <4>2. /\ out' \in Seq(Chunk) /\ Len(out') = 1 /\ out' # << >> /\ DOMAIN out' = {1}
            /\ out'[1] = [first |-> 0, len |-> PayloadMax, iube |-> 6, tsn |-> tsn]
            /\ Chained' /\ ~Ends(out'[1])
            /\ tsn' = (out'[1].tsn + 1) % TsnModulus
        <5>1. PutChunk(0, PayloadMax, 6) /\ 0 \in Nat /\ PayloadMax \in Nat /\ 6 \in {3, 6, 7}
          BY <2>1, <3>1, <4>1, SctpConstants
        <5>2. QED
          BY <1>0, <4>1, <5>1, FirstChunk
      <4>3. Pieces'
        BY <4>2, SctpConstants DEF Pieces
      <4>4. QED
        BY <4>1, <4>2, <4>3, SctpConstants
    <3>2. CASE iube = 4
      <4>1. /\ out # << >> /\ Chained /\ ~Ends(out[Len(out)]) /\ Pieces
            /\ out[Len(out)].first + out[Len(out)].len = size - left
            /\ tsn = (out[Len(out)].tsn + 1) % TsnModulus
        BY <1>0, <2>1, <3>2, SctpConstants DEF FragInv, Begun
      <4>2. size - left \in Nat /\ PayloadMax \in 1 .. PayloadMax /\ PayloadMax \in Nat
        BY <1>0, SctpConstants
      <4>3. /\ out' \in Seq(Chunk) /\ out' # << >> /\ Chained' /\ Pieces'
            /\ out'[Len(out')]
                 = [first |-> size - left, len |-> PayloadMax, iube |-> 4, tsn |-> tsn]
            /\ ~Ends(out'[Len(out')])
            /\ tsn' = (out'[Len(out')].tsn + 1) % TsnModulus
        <5>1. PutChunk(size - left, PayloadMax, 4) /\ 4 \in {4, 5} /\ 4 # 5
          BY <2>1, <3>2
        <5>2. QED
          BY <1>0, <4>1, <4>2, <5>1, NextChunk
      <4>4. QED
        BY <4>3
    <3>3. QED
      BY <1>0, <2>1, <3>1, <3>2, SctpConstants DEF FragInv
  <2>3. Begun'
    BY <1>0, <2>1, <2>2, SctpConstants DEF Begun, Ends
  <2>4. QED
    BY <1>0, <2>1, <2>2, <2>3, SctpConstants DEF FragInv, Complete
<1>5. CASE SendLastChunk
  <2>1. /\ left > 0 /\ left <= PayloadMax /\ PutChunk(size - left, left, iube + 1)
        /\ left' = 0 /\ iube' = 0 /\ size' = size
    BY <1>0, <1>5, SctpConstants DEF SendLastChunk, StillLonger, Put
  <2>2. /\ out' \in Seq(Chunk) /\ out' # << >> /\ Chained' /\ Pieces'
        /\ Ends(out'[Len(out')])
        /\ out'[Len(out')].first + out'[Len(out')].len = size
    <3>1. CASE iube = 6
      <4>1. size - left = 0 /\ (out # << >> => Ends(out[Len(out)])) /\ left \in Nat
        BY <1>0, <2>1, <3>1, SctpConstants DEF FragInv, Complete
      <4>2. /\ out' \in Seq(Chunk) /\ Len(out') = 1 /\ out' # << >> /\ DOMAIN out' = {1}
            /\ out'[1] = [first |-> 0, len |-> left, iube |-> 7, tsn |-> tsn]
            /\ Chained' /\ Ends(out'[1])
        <5>1. PutChunk(0, left, 7) /\ 0 \in Nat /\ 7 \in {3, 6, 7} /\ 7 # 6
          BY <2>1, <3>1, <4>1
        <5>2. QED
          BY <1>0, <4>1, <5>1, FirstChunk
      <4>3. Pieces'
        BY <2>1, <4>1, <4>2, SctpConstants DEF Pieces
      <4>4. QED
        BY <1>0, <4>1, <4>2, <4>3
    <3>2. CASE iube = 4
      <4>1. /\ out # << >> /\ Chained /\ ~Ends(out[Len(out)]) /\ Pieces
            /\ out[Len(out)].first + out[Len(out)].len = size - left
            /\ tsn = (out[Len(out)].tsn + 1) % TsnModulus
        BY <2>1, <3>2 DEF FragInv, Begun
      <4>2. size - left \in Nat /\ left \in 1 .. PayloadMax /\ left \in Nat
        BY <1>0, <2>1, SctpConstants
      <4>3. /\ out' \in Seq(Chunk) /\ out' # << >> /\ Chained' /\ Pieces'
            /\ out'[Len(out')]
                 = [first |-> size - left, len |-> left, iube |-> 5, tsn |-> tsn]
            /\ Ends(out'[Len(out')])
        <5>1. PutChunk(size - left, left, 5) /\ 5 \in {4, 5}
          BY <2>1, <3>2
        <5>2. QED
          BY <1>0, <4>1, <4>2, <5>1, NextChunk
      <4>4. QED
        BY <1>0, <4>3
    <3>3. QED
      BY <1>0, <2>1, <3>1, <3>2 DEF FragInv
  <2>3. WholeMessage'
    BY <2>1, <2>2 DEF WholeMessage, Pieces
  <2>4. Complete'
    BY <2>2 DEF Complete, Ends
  <2>5. QED
    BY <2>1, <2>2, <2>3, <2>4 DEF FragInv, Begun
<1>6. QED
  BY <1>1, <1>2, <1>3, <1>4, <1>5 DEF SctpNext, Receive, Continue

\* When nothing is left to send the chunks make up one message.
LEMMA FragSuffices ==
  ASSUME size \in Nat, SctpTypeOK, FragInv
  PROVE  FragmentsReassemble
<1> SUFFICES ASSUME left = 0, size > 0, out # << >>
             PROVE  OneRun /\ (WholeMessage \/ DcepAck)
  BY DEF FragmentsReassemble
<1>1. Chained /\ Ends(out[Len(out)])
  BY DEF FragInv, Complete
<1>2. DOMAIN out = 1 .. Len(out) /\ Len(out) \in Nat
  BY LenProperties DEF FragInv
<1>3. ASSUME NEW i \in DOMAIN out PROVE Ends(out[i]) <=> i = Len(out)
  BY <1>1, <1>2 DEF Chained
<1>4. OneRun
  BY <1>1, <1>2, <1>3 DEF OneRun, Chained
<1>5. QED
  BY <1>4 DEF FragInv

\* The chunks of every message, whatever its size, carry consecutive TSNs, B on the
\* first only, E on the last only, and cover the message from end to end without a
\* gap (sctp.c:96-161).
THEOREM SctpFragmentsReassemble == SctpSpec => []FragmentsReassemble
<1> DEFINE Inv == size \in Nat /\ OpenedOnce /\ FragInv
<1>1. SctpInit => Inv
  BY OpenedInit, EmptySeq DEF SctpInit, FragInv, Complete, Begun
<1>2. Inv /\ [SctpNext]_sctpVars => Inv'
  BY OpenedStep, FragStep DEF OpenedOnce
<1>3. Inv => FragmentsReassemble
  BY FragSuffices DEF OpenedOnce
<1>4. QED
  BY <1>1, <1>2, <1>3, PTL DEF SctpSpec

-----------------------------------------------------------------------------
(* Candidate gathering                                                     *)

\* The attributes of a message in its buffer, each with a length.
Attributes(s) ==
  /\ s \in Seq({s[i] : i \in DOMAIN s})
  /\ \A i \in DOMAIN s : s[i].len \in Nat

\* f[n] is what the first n attributes take.
SizesOf(f, s) ==
  f = [n \in 0 .. Len(s) |-> IF n = 0 THEN 0 ELSE f[n - 1] + AttrSize(s[n])]

LEMMA AttrSizeIs ==
  ASSUME NEW a, a.len \in Nat
  PROVE  AttrSize(a) \in Nat /\ AttrSize(a) >= 4 /\ AttrSize(a) % 4 = 0
<1>1. (a.len + 3) \div 4 \in Nat
  <2> DEFINE x == a.len + 3  q == x \div 4  r == x % 4
  <2>1. x \in Nat
    OBVIOUS
  <2> HIDE DEF x
  <2>2. q \in Int /\ r \in 0 .. 4 - 1 /\ x = 4 * q + r
    BY <2>1, DivMod
  <2> HIDE DEF q, r
  <2>3. q \in Nat
    BY <2>1, <2>2
  <2>4. QED
    BY <2>3 DEF q, x
<1>2. AttrSize(a) = 4 * (1 + ((a.len + 3) \div 4))
  BY <1>1 DEF AttrSize, AttrHeaderSize, Padded
<1>3. QED
  BY <1>1, <1>2, ModIs

\* The walk over the attributes is well defined.
LEMMA SizesExist ==
  ASSUME NEW s, Attributes(s)
  PROVE  \E f : SizesOf(f, s) /\ f \in [0 .. Len(s) -> Nat]
<1> DEFINE L == Len(s)
           Good(f, n) == /\ f \in [0 .. n -> Nat] /\ f[0] = 0
                         /\ \A i \in 1 .. n : f[i] = f[i - 1] + AttrSize(s[i])
           Exists(n) == \E f : Good(f, n)
           S == {n \in Nat : n <= L => Exists(n)}
<1>1. L \in Nat /\ DOMAIN s = 1 .. L
  BY LenProperties DEF Attributes
<1>2. \A i \in 1 .. L : AttrSize(s[i]) \in Nat
  BY <1>1, AttrSizeIs DEF Attributes
<1>3. 0 \in S
  <2>1. Good([i \in 0 .. 0 |-> 0], 0)
    OBVIOUS
  <2>2. QED
    BY <2>1
<1>4. ASSUME NEW n \in Nat, n \in S PROVE n + 1 \in S
  <2>1. ASSUME n + 1 <= L PROVE \E f : Good(f, n + 1)
    <3>1. n <= L
      BY <1>1, <2>1
    <3>2. PICK f : Good(f, n)
      BY <1>4, <3>1
    <3> DEFINE g == [i \in 0 .. n + 1 |-> IF i = n + 1 THEN f[n] + AttrSize(s[n + 1]) ELSE f[i]]
    <3>3. AttrSize(s[n + 1]) \in Nat /\ f[n] \in Nat
      BY <1>2, <2>1, <3>2
    <3>4. g \in [0 .. n + 1 -> Nat] /\ g[0] = 0
      BY <3>2, <3>3
    <3>5. ASSUME NEW i \in 1 .. n + 1 PROVE g[i] = g[i - 1] + AttrSize(s[i])
      <4>1. i - 1 \in 0 .. n /\ g[i - 1] = f[i - 1]
        OBVIOUS
      <4>2. CASE i = n + 1
        BY <4>1, <4>2
      <4>3. CASE i # n + 1
        BY <4>1, <4>3, <3>2
      <4>4. QED
        BY <4>2, <4>3
    <3> HIDE DEF g
    <3>6. Good(g, n + 1)
      BY <3>4, <3>5
    <3>7. QED
      BY <3>6
  <2> HIDE DEF Good
  <2>2. QED
    BY <2>1
<1>5. L \in S
  <2> HIDE DEF S, L
  <2>1. QED
    BY <1>1, <1>3, <1>4, EveryNumber
<1>6. PICK f : Good(f, L)
  BY <1>1, <1>5
<1>7. SizesOf(f, s)
  <2> DEFINE g == [n \in 0 .. L |-> IF n = 0 THEN 0 ELSE f[n - 1] + AttrSize(s[n])]
  <2>1. \A n \in 0 .. L : f[n] = g[n]
    <3> TAKE n \in 0 .. L
    <3>1. CASE n = 0
      BY <3>1, <1>6
    <3>2. CASE n # 0
      <4>1. n \in 1 .. L
        BY <3>2, <1>1
      <4>2. QED
        BY <4>1, <3>2, <1>6
    <3>3. QED
      BY <3>1, <3>2
  <2>2. DOMAIN f = 0 .. L /\ f = [n \in 0 .. L |-> f[n]]
    BY <1>6
  <2>3. f = g
    BY <2>1, <2>2
  <2>4. QED
    BY <2>3 DEF SizesOf
<1>8. QED
  BY <1>6, <1>7

\* Two walks over attributes that begin alike agree as long as they do.
LEMMA SizesAgree ==
  ASSUME NEW s, NEW t, Attributes(s), Attributes(t), Len(s) <= Len(t),
         \A i \in 1 .. Len(s) : t[i] = s[i],
         NEW f, NEW g, SizesOf(f, s), SizesOf(g, t)
  PROVE  \A n \in 0 .. Len(s) : f[n] = g[n]
<1> DEFINE S == {n \in Nat : n <= Len(s) => f[n] = g[n]}
<1>1. Len(s) \in Nat /\ Len(t) \in Nat
  BY LenProperties DEF Attributes
<1>2. 0 \in S
  <2>1. f[0] = 0 /\ g[0] = 0
    BY <1>1 DEF SizesOf
  <2>2. QED
    BY <2>1
<1>3. ASSUME NEW n \in Nat, n \in S PROVE n + 1 \in S
  <2> SUFFICES ASSUME n + 1 <= Len(s) PROVE f[n + 1] = g[n + 1]
    OBVIOUS
  <2>1. n + 1 \in 0 .. Len(s) /\ n + 1 \in 0 .. Len(t) /\ n + 1 # 0 /\ (n + 1) - 1 = n
    BY <1>1
  <2>2. f[n + 1] = f[n] + AttrSize(s[n + 1])
    BY <2>1 DEF SizesOf
  <2>3. g[n + 1] = g[n] + AttrSize(t[n + 1])
    BY <2>1 DEF SizesOf
  <2>4. QED
    BY <1>1, <1>3, <2>1, <2>2, <2>3
<1>4. \A n \in Nat : n \in S
  <2> HIDE DEF S
  <2>1. QED
    BY <1>2, <1>3, EveryNumber
<1>5. QED
  BY <1>1, <1>4

\* AttrsSize is where the walk ends.
LEMMA AttrsSizeIs ==
  ASSUME NEW s, Attributes(s), NEW f, SizesOf(f, s)
  PROVE  AttrsSize(s) = f[Len(s)]
<1> DEFINE g == CHOOSE g : SizesOf(g, s)
<1>1. SizesOf(g, s)
  OBVIOUS
<1>2. AttrsSize(s) = g[Len(s)]
  BY DEF AttrsSize, SizesOf
<1> HIDE DEF g
<1>3. Len(s) \in Nat
  BY LenProperties DEF Attributes
<1>4. QED
  BY <1>1, <1>2, <1>3, SizesAgree

\* A sequence of records with a length is a sequence of attributes.
LEMMA AttributesIf ==
  ASSUME NEW S, NEW s \in Seq(S), \A i \in DOMAIN s : s[i].len \in Nat
  PROVE  Attributes(s)
<1> DEFINE T == {s[i] : i \in DOMAIN s}
<1>1. Len(s) \in Nat /\ DOMAIN s = 1 .. Len(s)
  BY LenProperties
<1>2. \A i \in 1 .. Len(s) : s[i] \in T
  BY <1>1
<1>3. SubSeq(s, 1, Len(s)) \in Seq(T)
  <2> HIDE DEF T
  <2>1. QED
    BY <1>1, <1>2, SubSeqProperties
<1>4. SubSeq(s, 1, Len(s)) = s
  BY SubSeqFull
<1>5. QED
  BY <1>3, <1>4 DEF Attributes

\* The first attributes of a message.
LEMMA PrefixIs ==
  ASSUME NEW s, Attributes(s), NEW n \in 0 .. Len(s)
  PROVE  /\ Attributes(SubSeq(s, 1, n)) /\ Len(SubSeq(s, 1, n)) = n
         /\ \A i \in 1 .. n : SubSeq(s, 1, n)[i] = s[i]
         /\ Len(s) \in Nat /\ DOMAIN s = 1 .. Len(s)
<1> DEFINE T == {s[i] : i \in DOMAIN s}  p == SubSeq(s, 1, n)
<1>1. s \in Seq(T) /\ Len(s) \in Nat /\ DOMAIN s = 1 .. Len(s)
  BY LenProperties DEF Attributes
<1>2. \A i \in 1 .. n : s[i] \in T
  BY <1>1
<1>3. p \in Seq(T) /\ Len(p) = n /\ \A i \in 1 .. n : p[i] = s[i]
  <2>1. n \in Int /\ n - 1 + 1 = n /\ (IF 1 <= n THEN n - 1 + 1 ELSE 0) = n
    BY <1>1
  <2> HIDE DEF T, p
  <2>2. /\ p \in Seq(T) /\ Len(p) = (IF 1 <= n THEN n - 1 + 1 ELSE 0)
        /\ \A i \in 1 .. n - 1 + 1 : p[i] = s[1 + i - 1]
    BY <1>2, <2>1, SubSeqProperties DEF p
  <2>3. QED
    BY <2>1, <2>2
<1>4. DOMAIN p = 1 .. n
  <2> HIDE DEF T, p
  <2>1. QED
    BY <1>3, LenProperties
<1>5. \A i \in DOMAIN p : p[i].len \in Nat
  BY <1>1, <1>3, <1>4 DEF Attributes
<1>6. Attributes(p)
  <2> HIDE DEF T, p
  <2>1. QED
    BY <1>3, <1>5, AttributesIf
<1>7. QED
  BY <1>1, <1>3, <1>6

\* The walk: every attribute begins behind the one before, at a multiple of four.
Walk(f, s) ==
  /\ f \in [0 .. Len(s) -> Nat] /\ f[0] = 0 /\ f[Len(s)] = AttrsSize(s)
  /\ \A n \in 0 .. Len(s) : AttrsSize(SubSeq(s, 1, n)) = f[n] /\ f[n] % 4 = 0
  /\ \A n \in 1 .. Len(s) : f[n] = f[n - 1] + AttrSize(s[n])
  /\ \A m, n \in 0 .. Len(s) : m < n => f[m] < f[n]

LEMMA WalkExists ==
  ASSUME NEW s, Attributes(s)
  PROVE  \E f : Walk(f, s)
<1>1. Len(s) \in Nat /\ DOMAIN s = 1 .. Len(s)
  BY LenProperties DEF Attributes
<1>2. PICK f : SizesOf(f, s) /\ f \in [0 .. Len(s) -> Nat]
  BY SizesExist
<1>3. f[0] = 0 /\ \A n \in 1 .. Len(s) : f[n] = f[n - 1] + AttrSize(s[n])
  BY <1>1, <1>2 DEF SizesOf
<1>4. \A n \in 1 .. Len(s) : /\ AttrSize(s[n]) \in Nat /\ AttrSize(s[n]) >= 4
                             /\ AttrSize(s[n]) % 4 = 0
  BY <1>1, AttrSizeIs DEF Attributes
<1>5. f[Len(s)] = AttrsSize(s)
  BY <1>2, AttrsSizeIs
<1>6. ASSUME NEW n \in 0 .. Len(s) PROVE AttrsSize(SubSeq(s, 1, n)) = f[n]
  <2> DEFINE p == SubSeq(s, 1, n)
  <2>1. Attributes(p) /\ Len(p) = n /\ \A i \in 1 .. n : p[i] = s[i]
    BY PrefixIs
  <2> HIDE DEF p
  <2>2. PICK g : SizesOf(g, p)
    BY <2>1, SizesExist
  <2>3. AttrsSize(p) = g[n]
    BY <2>1, <2>2, AttrsSizeIs
  <2>4. g[n] = f[n]
    BY <1>1, <1>2, <2>1, <2>2, SizesAgree
  <2>5. QED
    BY <2>3, <2>4 DEF p
<1>7. \A n \in 0 .. Len(s) : f[n] % 4 = 0 /\ \A m \in 0 .. Len(s) : m < n => f[m] < f[n]
  <2> DEFINE S == {n \in Nat : n <= Len(s) =>
                     f[n] % 4 = 0 /\ \A m \in 0 .. Len(s) : m < n => f[m] < f[n]}
  <2>1. 0 \in S
    BY <1>1, <1>3
  <2>2. ASSUME NEW n \in Nat, n \in S PROVE n + 1 \in S
    <3>1. ASSUME n + 1 <= Len(s)
          PROVE  f[n + 1] % 4 = 0 /\ \A m \in 0 .. Len(s) : m < n + 1 => f[m] < f[n + 1]
      <4> DEFINE a == AttrSize(s[n + 1])
      <4>1. n + 1 \in 1 .. Len(s) /\ n \in 0 .. Len(s) /\ (n + 1) - 1 = n
        BY <1>1, <3>1
      <4>2. a \in Nat /\ a >= 4 /\ a % 4 = 0 /\ f[n + 1] = f[n] + a /\ f[n] \in Nat
        BY <1>2, <1>3, <1>4, <4>1
      <4>3. f[n] % 4 = 0 /\ \A m \in 0 .. Len(s) : m < n => f[m] < f[n]
        BY <2>2, <4>1
      <4> HIDE DEF a
      <4>4. f[n + 1] % 4 = 0
        BY <4>2, <4>3
      <4>5. ASSUME NEW m \in 0 .. Len(s), m < n + 1 PROVE f[m] < f[n + 1]
        <5>1. f[m] \in Nat /\ (m = n \/ m < n)
          BY <1>2, <4>5
        <5>2. QED
          BY <4>2, <4>3, <5>1
      <4>6. QED
        BY <4>4, <4>5
    <3>2. QED
      BY <3>1
  <2>3. \A n \in Nat : n \in S
    <3> HIDE DEF S
    <3>1. QED
      BY <2>1, <2>2, EveryNumber
  <2>4. QED
    BY <1>1, <2>3
<1>8. QED
  BY <1>2, <1>3, <1>5, <1>6, <1>7 DEF Walk

\* One more attribute makes a message longer by its size.
LEMMA OneMore ==
  ASSUME NEW s, Attributes(s), NEW a, a.len \in Nat
  PROVE  LET t == Append(s, a)
         IN  /\ Attributes(t) /\ Len(t) = Len(s) + 1 /\ Len(s) \in Nat
             /\ \A i \in 1 .. Len(s) : t[i] = s[i]
             /\ t[Len(s) + 1] = a
             /\ SubSeq(t, 1, Len(s)) = s
             /\ AttrsSize(t) = AttrsSize(s) + AttrSize(a)
<1> DEFINE T == {s[i] : i \in DOMAIN s} \cup {a}  t == Append(s, a)  p == SubSeq(t, 1, Len(s))
<1>1. s \in Seq(T) /\ Len(s) \in Nat /\ DOMAIN s = 1 .. Len(s)
  <2> DEFINE R == {s[i] : i \in DOMAIN s}
  <2>1. s \in Seq(R) /\ R \subseteq T
    BY DEF Attributes
  <2> HIDE DEF R, T
  <2>2. QED
    BY <2>1, SeqMonotonic, LenProperties
<1>2. a \in T
  OBVIOUS
<1> HIDE DEF T
<1>3. /\ t \in Seq(T) /\ Len(t) = Len(s) + 1
      /\ \A i \in 1 .. Len(s) : t[i] = s[i]
      /\ t[Len(s) + 1] = a
  BY <1>1, <1>2, AppendProperties
<1> HIDE DEF t
<1>4. DOMAIN t = 1 .. Len(s) + 1
  BY <1>3, LenProperties
<1>5. \A i \in DOMAIN t : t[i].len \in Nat
  BY <1>1, <1>3, <1>4 DEF Attributes
<1>6. Attributes(t)
  BY <1>3, <1>5, AttributesIf
<1>7. p = s
  <2>1. /\ Attributes(p) /\ Len(p) = Len(s) /\ \A i \in 1 .. Len(s) : p[i] = t[i]
    BY <1>1, <1>3, <1>6, PrefixIs
  <2>2. \A i \in 1 .. Len(s) : p[i] = s[i]
    BY <1>3, <2>1
  <2>3. p \in Seq(T)
    <3>1. \A i \in 1 .. Len(s) : t[i] \in T
      BY <1>1, <1>3, ElementOfSeq
    <3>2. QED
      BY <1>1, <3>1, SubSeqProperties
  <2> HIDE DEF p
  <2>4. QED
    BY <1>1, <2>1, <2>2, <2>3, SeqEqual
<1>8. AttrsSize(t) = AttrsSize(s) + AttrSize(a)
  <2>1. PICK f : Walk(f, t)
    BY <1>6, WalkExists
  <2>2. AttrsSize(t) = f[Len(s) + 1] /\ AttrsSize(p) = f[Len(s)]
    BY <1>1, <1>3, <2>1 DEF Walk
  <2>3. f[Len(s) + 1] = f[Len(s)] + AttrSize(t[Len(s) + 1])
    BY <1>1, <1>3, <2>1 DEF Walk
  <2>4. QED
    BY <1>3, <1>7, <2>2, <2>3
<1>9. QED
  BY <1>1, <1>3, <1>6, <1>7, <1>8 DEF t

\* The bytes of the first attributes hold just those.
LEMMA WithinIs ==
  ASSUME NEW s, Attributes(s), NEW k \in 0 .. Len(s)
  PROVE  AttrsWithin(s, AttrsSize(SubSeq(s, 1, k))) = SubSeq(s, 1, k)
<1>1. PICK f : Walk(f, s)
  BY WalkExists
<1>2. Len(s) \in Nat
  BY LenProperties DEF Attributes
<1> DEFINE bytes == AttrsSize(SubSeq(s, 1, k))
           whole == {n \in 0 .. Len(s) : AttrsSize(SubSeq(s, 1, n)) <= bytes}
<1>3. bytes = f[k] /\ \A n \in 0 .. Len(s) : AttrsSize(SubSeq(s, 1, n)) = f[n] /\ f[n] \in Nat
  BY <1>1 DEF Walk
<1>4. \A n \in 0 .. Len(s) : n \in whole <=> n <= k
  <2> TAKE n \in 0 .. Len(s)
  <2>1. n \in whole <=> f[n] <= f[k]
    BY <1>3
  <2>2. (n < k => f[n] < f[k]) /\ (k < n => f[k] < f[n]) /\ n \in Nat /\ k \in Nat
    BY <1>1, <1>2 DEF Walk
  <2>3. QED
    BY <1>3, <2>1, <2>2
<1>5. k \in whole /\ \A n \in whole : n <= k /\ n \in Nat
  BY <1>2, <1>4
<1> HIDE DEF whole
<1> DEFINE last == CHOOSE n \in whole : \A m \in whole : m <= n
<1>6. last = k
  <2>1. \E n \in whole : \A m \in whole : m <= n
    BY <1>5
  <2>2. last \in whole /\ \A m \in whole : m <= last
    BY <2>1
  <2> HIDE DEF last
  <2>3. last <= k /\ k <= last /\ last \in Nat /\ k \in Nat
    BY <1>2, <1>5, <2>2
  <2>4. QED
    BY <2>3
<1>7. QED
  BY <1>6 DEF AttrsWithin, whole, last

LEMMA CountTo ==
  ASSUME NEW n \in Nat
  PROVE  Cardinality(1 .. n) = n
<1>1. 1 \in Int /\ n \in Int
  OBVIOUS
<1>2. Cardinality(1 .. n) = IF 1 > n THEN 0 ELSE n - 1 + 1
  BY <1>1, FS_Interval
<1>3. QED
  BY <1>2

\* The parser walks over all of a message whose header has its length.
LEMMA WalkedIs ==
  ASSUME NEW packet, Attributes(packet.attrs), packet.length = AttrsSize(packet.attrs)
  PROVE  Walked(packet) = 1 .. Len(packet.attrs) /\ WalkEndsAt(packet) = HeaderSize + packet.length
<1> DEFINE s == packet.attrs
<1>1. PICK f : Walk(f, s)
  BY WalkExists
<1>2. Len(s) \in Nat /\ DOMAIN s = 1 .. Len(s)
  BY LenProperties DEF Attributes
<1>3. \A i \in 1 .. Len(s) : AttrsSize(SubSeq(s, 1, i - 1)) < packet.length
  <2> TAKE i \in 1 .. Len(s)
  <2>1. i - 1 \in 0 .. Len(s) /\ Len(s) \in 0 .. Len(s) /\ i - 1 < Len(s)
    BY <1>2
  <2>2. QED
    BY <1>1, <2>1 DEF Walk
<1>4. Walked(packet) = 1 .. Len(s)
  BY <1>2, <1>3 DEF Walked
<1>5. Cardinality(1 .. Len(s)) = Len(s)
  BY <1>2, CountTo
<1>6. SubSeq(s, 1, Len(s)) = s
  BY SubSeqFull DEF Attributes
<1>7. QED
  BY <1>4, <1>5, <1>6 DEF WalkEndsAt

\* A buffer whose header tells the size of its attributes.
Sound(packet) ==
  /\ Attributes(packet.attrs)
  /\ packet.length = AttrsSize(packet.attrs) /\ packet.size = HeaderSize + packet.length

\* A message being written.
Sized(m) ==
  /\ DOMAIN m = {"type", "length", "attrs", "size", "username", "realm"}
  /\ Sound(m)

LEMMA SizeIs ==
  ASSUME NEW packet, Sound(packet)
  PROVE  /\ packet.length \in Nat /\ packet.size \in Nat /\ packet.size % 4 = 0
         /\ Len(packet.attrs) \in Nat /\ DOMAIN packet.attrs = 1 .. Len(packet.attrs)
<1>1. Attributes(packet.attrs) /\ packet.length = AttrsSize(packet.attrs) /\ packet.size = 20 + packet.length
  BY DEF Sound, HeaderSize
<1>2. Len(packet.attrs) \in Nat /\ DOMAIN packet.attrs = 1 .. Len(packet.attrs)
  BY <1>1, LenProperties DEF Attributes
<1>3. PICK f : Walk(f, packet.attrs)
  BY <1>1, WalkExists
<1>4. packet.length = f[Len(packet.attrs)] /\ packet.length \in Nat /\ packet.length % 4 = 0
  BY <1>1, <1>2, <1>3 DEF Walk
<1>5. QED
  BY <1>1, <1>2, <1>4

\* The six bytes of type and length come before any attribute.
LEMMA CreateIs ==
  ASSUME NEW type
  PROVE  /\ Sized(Create(type)) /\ Create(type).type = type
         /\ Create(type).length = 0 /\ Len(Create(type).attrs) = 0
         /\ Create(type).username = "" /\ Create(type).realm = ""
<1>1. Len(<< >>) = 0 /\ DOMAIN << >> = {} /\ << >> \in Seq({})
  OBVIOUS
<1>2. Attributes(<< >>)
  BY <1>1, AttributesIf
<1>3. PICK f : Walk(f, << >>)
  BY <1>2, WalkExists
<1>4. AttrsSize(<< >>) = 0
  BY <1>1, <1>3 DEF Walk
<1>5. QED
  BY <1>1, <1>2, <1>4 DEF Create, Sized, Sound, HeaderSize

\* w is m with one more attribute.
Written(w, m, type, len, text) ==
  /\ Sized(w) /\ w.type = m.type /\ w.length = m.length + 4 + Padded(len)
  /\ Padded(len) \in Nat /\ Len(w.attrs) = Len(m.attrs) + 1
  /\ \A i \in 1 .. Len(m.attrs) : w.attrs[i] = m.attrs[i]
  /\ w.attrs[Len(m.attrs) + 1] = [type |-> type, len |-> len, value |-> Text(text)]
  /\ w.username = (IF type = "USERNAME" THEN text ELSE m.username)
  /\ w.realm = (IF type = "REALM" THEN text ELSE m.realm)

LEMMA WriteIs ==
  ASSUME NEW m, Sized(m), NEW type, NEW len \in Nat, NEW text
  PROVE  Written(WriteAttr(m, type, len, text), m, type, len, text)
<1> DEFINE attr == [type |-> type, len |-> len, value |-> Text(text)]
           w == WriteAttr(m, type, len, text)
<1>1. attr.len = len /\ attr.len \in Nat
  OBVIOUS
<1>2. AttrSize(attr) \in Nat /\ AttrSize(attr) = 4 + Padded(len)
  BY <1>1, AttrSizeIs DEF AttrSize, AttrHeaderSize
<1>3. /\ w.attrs = Append(m.attrs, attr) /\ w.length = m.length + AttrSize(attr)
      /\ w.size = m.size + AttrSize(attr) /\ w.type = m.type
      /\ w.username = (IF type = "USERNAME" THEN text ELSE m.username)
      /\ w.realm = (IF type = "REALM" THEN text ELSE m.realm)
      /\ DOMAIN w = DOMAIN m
  <2>1. DOMAIN m = {"type", "length", "attrs", "size", "username", "realm"}
    BY DEF Sized
  <2> HIDE DEF attr
  <2>2. QED
    BY <2>1 DEF WriteAttr, attr
<1>4. Sound(m)
  BY DEF Sized
<1>5. m.length \in Nat /\ m.size = HeaderSize + m.length /\ m.length = AttrsSize(m.attrs) /\ Attributes(m.attrs)
  BY <1>4, SizeIs DEF Sound
<1> HIDE DEF attr, w
<1>6. /\ Attributes(w.attrs) /\ Len(w.attrs) = Len(m.attrs) + 1
      /\ \A i \in 1 .. Len(m.attrs) : w.attrs[i] = m.attrs[i]
      /\ w.attrs[Len(m.attrs) + 1] = attr
      /\ AttrsSize(w.attrs) = AttrsSize(m.attrs) + AttrSize(attr)
  BY <1>1, <1>3, <1>5, OneMore
<1>7. Sized(w)
  BY <1>2, <1>3, <1>5, <1>6 DEF Sized, Sound, HeaderSize
<1>8. Padded(len) \in Nat
  BY DivMod DEF Padded
<1>9. QED
  BY <1>2, <1>3, <1>5, <1>6, <1>7, <1>8 DEF w, attr, Written

\* What goes out is what was written.
LEMMA WireIs ==
  ASSUME NEW m, Sound(m)
  PROVE  /\ Sound(Wire(m)) /\ Wire(m).attrs = m.attrs
         /\ Wire(m).type = m.type /\ Wire(m).length = m.length /\ Wire(m).size = m.size
<1>1. Attributes(m.attrs) /\ m.length = AttrsSize(m.attrs) /\ m.size - HeaderSize = m.length
  BY SizeIs DEF Sound, HeaderSize
<1>2. Len(m.attrs) \in 0 .. Len(m.attrs) /\ SubSeq(m.attrs, 1, Len(m.attrs)) = m.attrs
  BY SizeIs, SubSeqFull, <1>1 DEF Attributes
<1>3. AttrsWithin(m.attrs, m.size - HeaderSize) = m.attrs
  BY <1>1, <1>2, WithinIs
<1>4. QED
  BY <1>3 DEF Wire, Sound

LEMMA SoundIsWellFormed ==
  ASSUME NEW packet, Sound(packet), packet.size <= BufSize
  PROVE  WellFormed(packet)
<1>1. Walked(packet) = 1 .. Len(packet.attrs) /\ WalkEndsAt(packet) = HeaderSize + packet.length
  BY WalkedIs DEF Sound
<1>2. QED
  BY <1>1, SizeIs DEF WellFormed, Sound, HeaderSize

\* The last attribute of a type is the one that is read.
LEMMA ReadIs ==
  ASSUME NEW packet, Sound(packet), NEW types, NEW i \in 1 .. Len(packet.attrs),
         packet.attrs[i].type \in types,
         \A k \in 1 .. Len(packet.attrs) : packet.attrs[k].type \in types => k <= i
  PROVE  Read(packet, types) = packet.attrs[i].value
<1> DEFINE found == {k \in Walked(packet) : packet.attrs[k].type \in types}
           last == CHOOSE k \in found : \A j \in found : j <= k
<1>1. Walked(packet) = 1 .. Len(packet.attrs) /\ Len(packet.attrs) \in Nat
  BY WalkedIs, SizeIs DEF Sound
<1>2. i \in found /\ \A k \in found : k <= i /\ k \in Nat
  BY <1>1
<1> HIDE DEF found
<1>3. last \in found /\ \A k \in found : k <= last
  BY <1>2
<1> HIDE DEF last
<1>4. last = i
  BY <1>2, <1>3
<1>5. QED
  BY <1>2, <1>4 DEF Read, found, last

\* A finished message is valid for exactly the key it was finished with.
Finished(f, m, key) ==
  /\ Sized(f) /\ f.type = m.type /\ f.length = m.length + 32
  /\ Len(f.attrs) = Len(m.attrs) + 2
  /\ \A i \in 1 .. Len(m.attrs) : f.attrs[i] = m.attrs[i]
  /\ f.attrs[Len(m.attrs) + 1] = Integrity(key, Bytes(m.type, m.length + 24, m.attrs))
  /\ f.attrs[Len(m.attrs) + 2].type = "FINGERPRINT"
  /\ SubSeq(f.attrs, 1, Len(m.attrs)) = m.attrs
  /\ AttrsSize(SubSeq(f.attrs, 1, Len(m.attrs) + 1)) = m.length + 24
  /\ \A p : IsValid(Wire(f), p) <=> key = <<p>>

LEMMA FinishIs ==
  ASSUME NEW m, Sized(m), NEW key
  PROVE  Finished(Finish(m, key), m, key)
<1> DEFINE n == Len(m.attrs)  f == Finish(m, key)
           I == Integrity(key, Bytes(m.type, m.length + 24, m.attrs))
           signed == Append(m.attrs, I)
           F == Fingerprint(Bytes(m.type, m.length + 32, signed))
<1>1. /\ Sound(m) /\ m.length \in Nat /\ m.size = 20 + m.length /\ n \in Nat
      /\ Attributes(m.attrs) /\ m.length = AttrsSize(m.attrs)
  BY SizeIs DEF Sized, Sound, HeaderSize
<1>2. (m.length + 24) + 8 = m.length + 32 /\ m.size + 24 + 8 = m.size + 32
  BY <1>1
<1>3. /\ f.attrs = Append(signed, F) /\ f.length = m.length + 32
      /\ f.size = m.size + 32 /\ f.type = m.type
      /\ DOMAIN f = DOMAIN m
  <2>1. DOMAIN m = {"type", "length", "attrs", "size", "username", "realm"}
    BY DEF Sized
  <2> DEFINE long == (m.length + 24) + 8
  <2>2. long = m.length + 32
    BY <1>2
  <2>3. f = [m EXCEPT !.length = long, !.attrs = Append(signed, Fingerprint(Bytes(m.type, long, signed))),
                      !.size = @ + 24 + 8]
    BY DEF Finish, IntegritySize, FingerprintSize, AttrHeaderSize
  <2> HIDE DEF long, signed, f
  <2>4. QED
    BY <1>2, <2>1, <2>2, <2>3 DEF F
<1>4. /\ I.len = 20 /\ AttrSize(I) = 24 /\ F.len = 4 /\ AttrSize(F) = 8
      /\ I.type = "MESSAGE_INTEGRITY" /\ F.type = "FINGERPRINT"
      /\ I.value = [key |-> key, over |-> Bytes(m.type, m.length + 24, m.attrs)]
      /\ F.value = [over |-> Bytes(m.type, m.length + 32, signed)]
  BY DEF Integrity, Fingerprint, AttrSize, AttrHeaderSize, Padded
<1> HIDE DEF I, F, f
<1>5. /\ Attributes(signed) /\ Len(signed) = n + 1
      /\ \A i \in 1 .. n : signed[i] = m.attrs[i]
      /\ signed[n + 1] = I /\ SubSeq(signed, 1, n) = m.attrs
      /\ AttrsSize(signed) = m.length + 24
  <2>1. I.len \in Nat
    BY <1>4
  <2>2. /\ Attributes(signed) /\ Len(signed) = Len(m.attrs) + 1
        /\ \A i \in 1 .. Len(m.attrs) : signed[i] = m.attrs[i]
        /\ signed[Len(m.attrs) + 1] = I /\ SubSeq(signed, 1, Len(m.attrs)) = m.attrs
        /\ AttrsSize(signed) = AttrsSize(m.attrs) + AttrSize(I)
    BY <1>1, <2>1, OneMore
  <2> HIDE DEF signed
  <2>3. QED
    BY <1>1, <1>4, <2>2
<1> HIDE DEF signed
<1>6. /\ Attributes(f.attrs) /\ Len(f.attrs) = n + 2
      /\ \A i \in 1 .. n + 1 : f.attrs[i] = signed[i]
      /\ f.attrs[n + 2] = F /\ SubSeq(f.attrs, 1, n + 1) = signed
      /\ AttrsSize(f.attrs) = m.length + 32
  <2>1. /\ Attributes(f.attrs) /\ Len(f.attrs) = (n + 1) + 1
        /\ \A i \in 1 .. n + 1 : f.attrs[i] = signed[i]
        /\ f.attrs[(n + 1) + 1] = F /\ SubSeq(f.attrs, 1, n + 1) = signed
        /\ AttrsSize(f.attrs) = (m.length + 24) + 8
    BY <1>3, <1>4, <1>5, OneMore
  <2>2. QED
    BY <1>1, <2>1
<1>7. Sized(f)
  BY <1>1, <1>3, <1>6 DEF Sized, Sound, HeaderSize
<1>8. \A i \in 1 .. n : f.attrs[i] = m.attrs[i]
  BY <1>1, <1>5, <1>6
<1>9. f.attrs[n + 1] = I
  <2>1. n + 1 \in 1 .. n + 1
    BY <1>1
  <2> HIDE DEF n
  <2>2. QED
    BY <1>5, <1>6, <2>1
<1>10. SubSeq(f.attrs, 1, n) = m.attrs
  <2> DEFINE p == SubSeq(f.attrs, 1, n)  T == {signed[i] : i \in 1 .. n + 1}
  <2>1. /\ Len(p) = n /\ \A i \in 1 .. n : p[i] = f.attrs[i]
    BY <1>1, <1>6, PrefixIs
  <2>2. \A i \in 1 .. n : p[i] = m.attrs[i] /\ f.attrs[i] \in T /\ m.attrs[i] \in T
    BY <1>1, <1>5, <1>6, <1>8, <2>1
  <2>3. p \in Seq(T) /\ SubSeq(m.attrs, 1, n) \in Seq(T) /\ SubSeq(m.attrs, 1, n) = m.attrs
    <3> HIDE DEF T
    <3>1. n \in Int /\ \A i \in 1 .. n : f.attrs[i] \in T /\ m.attrs[i] \in T
      BY <1>1, <2>2
    <3>2. p \in Seq(T) /\ SubSeq(m.attrs, 1, n) \in Seq(T)
      BY <3>1, SubSeqProperties
    <3>3. SubSeq(m.attrs, 1, n) = m.attrs
      BY <1>1, SubSeqFull DEF Attributes
    <3>4. QED
      BY <3>2, <3>3
  <2> HIDE DEF p, T
  <2>4. p = m.attrs
    BY <1>1, <2>1, <2>2, <2>3, SeqEqual
  <2>5. QED
    BY <2>4 DEF p
<1>11. ASSUME NEW p PROVE IsValid(Wire(f), p) <=> key = <<p>>
  <2> DEFINE w == Wire(f)
  <2>1. /\ Sound(w) /\ w.attrs = f.attrs /\ w.type = m.type
        /\ w.length = m.length + 32 /\ w.size = 52 + m.length
    BY <1>1, <1>3, <1>7, WireIs DEF Sized
  <2> HIDE DEF w
  <2>2. w.size - 20 - 8 = m.length + 24 /\ m.length + 24 - 24 = m.length /\ w.length - 8 = m.length + 24
    BY <1>1, <2>1
  <2>3. AttrsWithin(w.attrs, m.length + 24) = signed
    <3>1. n + 1 \in 0 .. Len(f.attrs)
      BY <1>1, <1>6
    <3>2. QED
      BY <1>5, <1>6, <2>1, <3>1, WithinIs
  <2>4. AttrsWithin(w.attrs, m.length) = m.attrs
    <3>1. n \in 0 .. Len(f.attrs)
      BY <1>1, <1>6
    <3>2. AttrsWithin(f.attrs, AttrsSize(SubSeq(f.attrs, 1, n))) = SubSeq(f.attrs, 1, n)
      BY <1>6, <3>1, WithinIs
    <3> HIDE DEF n
    <3>3. QED
      BY <1>1, <1>10, <2>1, <3>2
  <2>5. Read(w, {"FINGERPRINT"}) = F.value
    <3>1. n + 2 \in 1 .. Len(w.attrs) /\ w.attrs[n + 2] = F
      BY <1>1, <1>6, <2>1
    <3>2. \A k \in 1 .. Len(w.attrs) : k <= n + 2
      BY <1>1, <1>6, <2>1
    <3>3. QED
      BY <1>4, <2>1, <3>1, <3>2, ReadIs
  <2>6. Read(w, {"MESSAGE_INTEGRITY"}) = I.value
    <3>1. n + 1 \in 1 .. Len(w.attrs) /\ w.attrs[n + 1] = I
      BY <1>1, <1>6, <1>9, <2>1
    <3>2. \A k \in 1 .. Len(w.attrs) : w.attrs[k].type \in {"MESSAGE_INTEGRITY"} => k <= n + 1
      <4>1. w.attrs[n + 2].type = "FINGERPRINT" /\ Len(w.attrs) = n + 2
        BY <1>4, <1>6, <2>1
      <4>2. \A k \in 1 .. n + 2 : k = n + 2 \/ k <= n + 1
        BY <1>1
      <4> HIDE DEF n
      <4>3. QED
        BY <4>1, <4>2
    <3>3. QED
      BY <1>4, <2>1, <3>1, <3>2, ReadIs
  <2>7. IsValid(w, p) <=>
          /\ m.length >= 0
          /\ F.value = [over |-> Bytes(m.type, m.length + 32, signed)]
          /\ I.value = [key |-> <<p>>, over |-> Bytes(m.type, m.length + 24, m.attrs)]
    <3> DEFINE unprinted == w.size - HeaderSize - FingerprintSize
               unsigned == unprinted - IntegritySize
    <3>1. unprinted = m.length + 24 /\ unsigned = m.length /\ w.length - FingerprintSize = m.length + 24
      BY <1>1, <2>1 DEF HeaderSize, FingerprintSize, IntegritySize, AttrHeaderSize
    <3>2. IsValid(w, p) <=>
            /\ unsigned >= 0
            /\ Read(w, {"FINGERPRINT"}) =
                 [over |-> Bytes(w.type, w.length, AttrsWithin(w.attrs, unprinted))]
            /\ Read(w, {"MESSAGE_INTEGRITY"}) =
                 [key |-> <<p>>, over |-> Bytes(w.type, w.length - FingerprintSize,
                                               AttrsWithin(w.attrs, unsigned))]
      BY DEF IsValid
    <3> HIDE DEF unprinted, unsigned
    <3>3. QED
      BY <2>1, <2>3, <2>4, <2>5, <2>6, <3>1, <3>2
  <2>8. I.value = [key |-> <<p>>, over |-> Bytes(m.type, m.length + 24, m.attrs)] <=> key = <<p>>
    BY <1>4
  <2>9. QED
    BY <1>1, <1>4, <2>7, <2>8 DEF w
<1>12. QED
  BY <1>1, <1>3, <1>4, <1>5, <1>6, <1>7, <1>8, <1>9, <1>10, <1>11 DEF f, I, Finished

LEMMA Lengths ==
  /\ Padded(0) = 0 /\ Padded(4) = 4 /\ Padded(5) = 8 /\ Padded(6) = 8
  /\ Padded(8) = 8 /\ Padded(9) = 12
BY DEF Padded

LEMMA Types ==
  /\ MethodOf(1) = "BINDING" /\ MethodOf(3) = "ALLOCATE" /\ MethodOf(275) = "ALLOCATE"
  /\ ClassOf(1) = "REQUEST" /\ ClassOf(3) = "REQUEST" /\ ClassOf(257) = "RESPONSE"
  /\ ClassOf(259) = "RESPONSE" /\ ClassOf(275) = "ERROR"
<1>1. /\ 1 \div 1 = 1 /\ 1 \div 2 = 0 /\ 1 \div 16 = 0 /\ 1 \div 256 = 0
      /\ 3 \div 1 = 3 /\ 3 \div 2 = 1 /\ 3 \div 16 = 0 /\ 3 \div 256 = 0
      /\ 257 \div 16 = 16 /\ 257 \div 256 = 1 /\ 259 \div 16 = 16 /\ 259 \div 256 = 1
      /\ 275 \div 1 = 275 /\ 275 \div 2 = 137 /\ 275 \div 16 = 17 /\ 275 \div 256 = 1
  OBVIOUS
<1>2. /\ 0 % 2 = 0 /\ 1 % 2 = 1 /\ 3 % 2 = 1 /\ 16 % 2 = 0 /\ 17 % 2 = 1 /\ 137 % 2 = 1
      /\ 275 % 2 = 1
  OBVIOUS
<1>3. QED
  BY <1>1, <1>2 DEF MethodOf, ClassOf, Bit

\* What the servers answer.
LEMMA BindingAnswerIs ==
  LET packet == Wire(BindingAnswer)
  IN  Sound(packet) /\ packet.type = 257 /\ packet.size <= 92 /\ MappedAddr(packet) = "public"
<1> DEFINE m == BindingAnswer  packet == Wire(m)
<1>2. /\ Sized(m) /\ m.type = 257 /\ m.length = 0 + 4 + Padded(8) /\ Len(m.attrs) = 0 + 1
      /\ m.attrs[0 + 1] = [type |-> "XOR_MAPPED_ADDRESS", len |-> 8, value |-> Text("public")]
  <2>1. Sized(Create(257)) /\ Create(257).length = 0 /\ Len(Create(257).attrs) = 0 /\ Create(257).type = 257
    BY CreateIs
  <2>2. m = WriteAttr(Create(257), "XOR_MAPPED_ADDRESS", 8, "public")
    BY DEF BindingAnswer, BINDING, RESPONSE, AddressAttr
  <2> HIDE DEF m
  <2>3. Written(m, Create(257), "XOR_MAPPED_ADDRESS", 8, "public")
    BY <2>1, <2>2, WriteIs
  <2>4. QED
    BY <2>1, <2>3 DEF Written
<1> HIDE DEF m
<1>3. Sound(packet) /\ packet.attrs = m.attrs /\ packet.type = 257 /\ packet.length = 12
  BY <1>2, Lengths, WireIs DEF Sized
<1> HIDE DEF packet
<1>4. Read(packet, {"MAPPED_ADDRESS", "XOR_MAPPED_ADDRESS"}) = packet.attrs[1].value
  <2> DEFINE types == {"MAPPED_ADDRESS", "XOR_MAPPED_ADDRESS"}
  <2>1. 1 \in 1 .. Len(packet.attrs) /\ packet.attrs[1].type \in types
    BY <1>2, <1>3
  <2>2. \A k \in 1 .. Len(packet.attrs) : packet.attrs[k].type \in types => k <= 1
    BY <1>2, <1>3
  <2> HIDE DEF types
  <2>3. Read(packet, types) = packet.attrs[1].value
    BY <1>2, <1>3, <2>1, <2>2, ReadIs
  <2>4. QED
    BY <2>3 DEF types
<1>5. QED
  BY <1>2, <1>3, <1>4 DEF MappedAddr, Text, Sound, HeaderSize, packet, m

LEMMA RefusalAnswerIs ==
  LET packet == Wire(RefusalAnswer)
  IN  /\ Sound(packet) /\ packet.type = 275 /\ packet.size <= 92
      /\ Read(packet, {"REALM"}).text = "realm"
<1> DEFINE a == Create(275)  b == WriteAttr(a, "REALM", 6, "realm")
           m == WriteAttr(b, "NONCE", 5, "nonce")  packet == Wire(m)
<1>1. RefusalAnswer = m
  BY DEF RefusalAnswer, ALLOCATE, ERROR, RealmLen, NonceLen
<1>2. Sized(a) /\ a.length = 0 /\ Len(a.attrs) = 0 /\ a.type = 275
  BY CreateIs
<1> HIDE DEF a
<1>3. /\ Sized(b) /\ b.type = 275 /\ b.length = 0 + 4 + Padded(6) /\ Len(b.attrs) = 0 + 1
      /\ b.attrs[0 + 1] = [type |-> "REALM", len |-> 6, value |-> Text("realm")]
  <2>1. Written(b, a, "REALM", 6, "realm")
    BY <1>2, WriteIs
  <2> HIDE DEF b
  <2>2. QED
    BY <1>2, <2>1 DEF Written
<1> HIDE DEF b
<1>4. /\ Sized(m) /\ m.type = 275 /\ m.length = 12 + 4 + Padded(5) /\ Len(m.attrs) = 1 + 1
      /\ m.attrs[1] = [type |-> "REALM", len |-> 6, value |-> Text("realm")]
      /\ m.attrs[1 + 1] = [type |-> "NONCE", len |-> 5, value |-> Text("nonce")]
  <2>1. Written(m, b, "NONCE", 5, "nonce")
    BY <1>3, WriteIs
  <2> HIDE DEF m
  <2>2. QED
    BY <1>3, Lengths, <2>1 DEF Written
<1> HIDE DEF m
<1>5. Sound(packet) /\ packet.attrs = m.attrs /\ packet.type = 275 /\ packet.length = 24
  BY <1>4, Lengths, WireIs DEF Sized
<1> HIDE DEF packet
<1>6. Read(packet, {"REALM"}) = packet.attrs[1].value
  <2> DEFINE types == {"REALM"}
  <2>1. 1 \in 1 .. Len(packet.attrs) /\ packet.attrs[1].type \in types
    BY <1>4, <1>5
  <2>2. \A k \in 1 .. Len(packet.attrs) : packet.attrs[k].type \in types => k <= 1
    BY <1>4, <1>5
  <2> HIDE DEF types
  <2>3. Read(packet, types) = packet.attrs[1].value
    BY <1>4, <1>5, <2>1, <2>2, ReadIs
  <2>4. QED
    BY <2>3 DEF types
<1>7. QED
  BY <1>1, <1>4, <1>5, <1>6 DEF Text, Sound, HeaderSize, packet

LEMMA AllocateAnswerIs ==
  LET packet == Wire(AllocateAnswer)
  IN  Sound(packet) /\ packet.type = 259 /\ packet.size <= 92 /\ RelayedAddr(packet) = "relay"
<1> DEFINE a == Create(259)  b == WriteAttr(a, "XOR_RELAYED_ADDRESS", 8, "relay")
           c == WriteAttr(b, "XOR_MAPPED_ADDRESS", 8, "public")
           m == WriteAttr(c, "LIFETIME", 4, "600")  packet == Wire(m)
<1>1. AllocateAnswer = m
  BY DEF AllocateAnswer, ALLOCATE, RESPONSE, AddressAttr
<1>2. Sized(a) /\ a.length = 0 /\ Len(a.attrs) = 0 /\ a.type = 259
  BY CreateIs
<1> HIDE DEF a
<1>3. /\ Sized(b) /\ b.type = 259 /\ b.length = 0 + 4 + Padded(8) /\ Len(b.attrs) = 0 + 1
      /\ b.attrs[0 + 1] = [type |-> "XOR_RELAYED_ADDRESS", len |-> 8, value |-> Text("relay")]
  <2>1. Written(b, a, "XOR_RELAYED_ADDRESS", 8, "relay")
    BY <1>2, WriteIs
  <2> HIDE DEF b
  <2>2. QED
    BY <1>2, <2>1 DEF Written
<1> HIDE DEF b
<1>4. /\ Sized(c) /\ c.type = 259 /\ c.length = 12 + 4 + Padded(8) /\ Len(c.attrs) = 1 + 1
      /\ c.attrs[1] = [type |-> "XOR_RELAYED_ADDRESS", len |-> 8, value |-> Text("relay")]
      /\ c.attrs[1 + 1].type = "XOR_MAPPED_ADDRESS"
  <2>1. Written(c, b, "XOR_MAPPED_ADDRESS", 8, "public")
    BY <1>3, WriteIs
  <2> HIDE DEF c
  <2>2. QED
    BY <1>3, Lengths, <2>1 DEF Written
<1> HIDE DEF c
<1>5. /\ Sized(m) /\ m.type = 259 /\ m.length = 24 + 4 + Padded(4) /\ Len(m.attrs) = 2 + 1
      /\ m.attrs[1] = [type |-> "XOR_RELAYED_ADDRESS", len |-> 8, value |-> Text("relay")]
      /\ m.attrs[2].type = "XOR_MAPPED_ADDRESS" /\ m.attrs[2 + 1].type = "LIFETIME"
  <2>1. Written(m, c, "LIFETIME", 4, "600")
    BY <1>4, WriteIs
  <2> HIDE DEF m
  <2>2. QED
    BY <1>4, Lengths, <2>1 DEF Written
<1> HIDE DEF m
<1>6. Sound(packet) /\ packet.attrs = m.attrs /\ packet.type = 259 /\ packet.length = 32
  BY <1>5, Lengths, WireIs DEF Sized
<1> HIDE DEF packet
<1>7. Read(packet, {"XOR_RELAYED_ADDRESS"}) = packet.attrs[1].value
  <2> DEFINE types == {"XOR_RELAYED_ADDRESS"}
  <2>1. 1 \in 1 .. Len(packet.attrs) /\ packet.attrs[1].type \in types
    BY <1>5, <1>6
  <2>2. \A k \in 1 .. Len(packet.attrs) : packet.attrs[k].type \in types => k <= 1
    BY <1>5, <1>6
  <2> HIDE DEF types
  <2>3. Read(packet, types) = packet.attrs[1].value
    BY <1>5, <1>6, <2>1, <2>2, ReadIs
  <2>4. QED
    BY <2>3 DEF types
<1>8. QED
  BY <1>1, <1>5, <1>6, <1>7 DEF RelayedAddr, Text, Sound, HeaderSize, packet

\* A peer's check is valid for exactly the session it was made for.
LEMMA PeerRequestIs ==
  ASSUME NEW s
  PROVE  LET packet == Wire(PeerRequest(s))
         IN  /\ Sound(packet) /\ packet.type = 1 /\ packet.size <= 92
             /\ \A p : IsValid(packet, p) <=> s = p
<1> DEFINE a == Create(1)  b == WriteAttr(a, "USERNAME", 9, "names")
           c == WriteAttr(b, "PRIORITY", 4, "priority")
           d == WriteAttr(c, "USE_CANDIDATE", 0, "none")
           m == WriteAttr(d, "ICE_CONTROLLING", 8, "tie")
           f == Finish(m, <<s>>)  packet == Wire(f)
<1>1. PeerRequest(s) = f
  BY DEF PeerRequest, ShortTerm, BINDING, REQUEST
<1>2. Sized(a) /\ a.length = 0 /\ a.type = 1
  BY CreateIs
<1> HIDE DEF a
<1>3. Sized(b) /\ b.type = 1 /\ b.length = 0 + 4 + Padded(9)
  <2>1. Written(b, a, "USERNAME", 9, "names")
    BY <1>2, WriteIs
  <2> HIDE DEF b
  <2>2. QED
    BY <1>2, <2>1 DEF Written
<1> HIDE DEF b
<1>4. Sized(c) /\ c.type = 1 /\ c.length = 16 + 4 + Padded(4)
  <2>1. Written(c, b, "PRIORITY", 4, "priority")
    BY <1>3, WriteIs
  <2> HIDE DEF c
  <2>2. QED
    BY <1>3, Lengths, <2>1 DEF Written
<1> HIDE DEF c
<1>5. Sized(d) /\ d.type = 1 /\ d.length = 24 + 4 + Padded(0)
  <2>1. Written(d, c, "USE_CANDIDATE", 0, "none")
    BY <1>4, WriteIs
  <2> HIDE DEF d
  <2>2. QED
    BY <1>4, Lengths, <2>1 DEF Written
<1> HIDE DEF d
<1>6. Sized(m) /\ m.type = 1 /\ m.length = 28 + 4 + Padded(8)
  <2>1. Written(m, d, "ICE_CONTROLLING", 8, "tie")
    BY <1>5, WriteIs
  <2> HIDE DEF m
  <2>2. QED
    BY <1>5, Lengths, <2>1 DEF Written
<1> HIDE DEF m
<1>7. Sized(f) /\ f.type = 1 /\ f.length = 72 /\ \A p : IsValid(packet, p) <=> <<s>> = <<p>>
  <2>1. Finished(f, m, <<s>>)
    BY <1>6, FinishIs
  <2> HIDE DEF f
  <2>2. QED
    BY <1>6, Lengths, <2>1 DEF Finished
<1> HIDE DEF f
<1>8. Sound(packet) /\ packet.type = 1 /\ packet.length = 72
  BY <1>7, WireIs DEF Sized
<1> HIDE DEF packet
<1>9. \A p : <<s>> = <<p>> <=> s = p
  OBVIOUS
<1>10. QED
  BY <1>1, <1>7, <1>8, <1>9 DEF Sound, HeaderSize, packet

\* The request for a relay, as it is sent first.
LEMMA AllocateIs ==
  ASSUME user.len \in Nat
  PROVE  /\ Sized(Allocate) /\ Allocate.type = 3 /\ Allocate.username = "user"
         /\ Allocate.length = 12 + Padded(user.len) /\ Padded(user.len) \in Nat
         /\ Len(Allocate.attrs) = 2
         /\ Allocate.attrs[1].type = "REQUESTED_TRANSPORT"
         /\ Allocate.attrs[2] = [type |-> "USERNAME", len |-> user.len, value |-> Text("user")]
<1> DEFINE a == Create(3)  b == WriteAttr(a, "REQUESTED_TRANSPORT", 4, "UDP")
           m == WriteAttr(b, "USERNAME", user.len, "user")
<1>1. Allocate = m
  BY DEF Allocate, ALLOCATE, REQUEST
<1>2. Sized(a) /\ a.length = 0 /\ a.type = 3 /\ Len(a.attrs) = 0
  BY CreateIs
<1> HIDE DEF a
<1>3. /\ Sized(b) /\ b.type = 3 /\ b.length = 0 + 4 + Padded(4) /\ Len(b.attrs) = 0 + 1
      /\ b.attrs[0 + 1] = [type |-> "REQUESTED_TRANSPORT", len |-> 4, value |-> Text("UDP")]
  <2>1. Written(b, a, "REQUESTED_TRANSPORT", 4, "UDP")
    BY <1>2, WriteIs
  <2> HIDE DEF b
  <2>2. QED
    BY <1>2, <2>1 DEF Written
<1> HIDE DEF b
<1>4. /\ Sized(m) /\ m.type = 3 /\ m.length = 8 + 4 + Padded(user.len) /\ Len(m.attrs) = 1 + 1
      /\ m.attrs[1] = b.attrs[1]
      /\ m.attrs[1 + 1] = [type |-> "USERNAME", len |-> user.len, value |-> Text("user")]
      /\ m.username = "user" /\ Padded(user.len) \in Nat
  <2>1. Written(m, b, "USERNAME", user.len, "user")
    BY <1>3, WriteIs
  <2> HIDE DEF m
  <2>2. QED
    BY <1>3, Lengths, <2>1 DEF Written
<1> HIDE DEF m
<1>5. QED
  BY <1>1, <1>3, <1>4

\* ... and with the realm of a refusal.
LEMMA AuthenticatedIs ==
  ASSUME user.len \in Nat, NEW packet, Read(packet, {"REALM"}).text = "realm"
  PROVE  LET w == Wire(AllocateAuthenticated(packet))
         IN  /\ Sound(w) /\ w.type = 3 /\ w.size = 88 + Padded(user.len)
             /\ Padded(user.len) \in Nat
             /\ user.password = RightPassword => Authentic(w)
<1> DEFINE b == WriteAttr(Allocate, "NONCE", 5, Read(packet, {"NONCE"}).text)
           m == WriteAttr(b, "REALM", 6, Read(packet, {"REALM"}).text)
           key == <<"user", "realm", user.password>>
           f == Finish(m, key)
           w == Wire(f)
<1>1. /\ Sized(Allocate) /\ Allocate.type = 3 /\ Allocate.username = "user"
      /\ Allocate.length = 12 + Padded(user.len) /\ Padded(user.len) \in Nat
      /\ Len(Allocate.attrs) = 2
      /\ Allocate.attrs[1].type = "REQUESTED_TRANSPORT"
      /\ Allocate.attrs[2] = [type |-> "USERNAME", len |-> user.len, value |-> Text("user")]
  BY AllocateIs
<1>2. /\ Sized(b) /\ b.type = 3 /\ b.length = (12 + Padded(user.len)) + 4 + Padded(5)
      /\ Len(b.attrs) = 2 + 1
      /\ \A i \in 1 .. 2 : b.attrs[i] = Allocate.attrs[i]
      /\ b.attrs[2 + 1].type = "NONCE" /\ b.username = "user"
  <2>1. Written(b, Allocate, "NONCE", 5, Read(packet, {"NONCE"}).text)
    BY <1>1, WriteIs
  <2> HIDE DEF b
  <2>2. QED
    BY <1>1, <2>1 DEF Written
<1> HIDE DEF b
<1>3. /\ Sized(m) /\ m.type = 3 /\ m.length = (24 + Padded(user.len)) + 4 + Padded(6)
      /\ Len(m.attrs) = 3 + 1
      /\ \A i \in 1 .. 3 : m.attrs[i] = b.attrs[i]
      /\ m.attrs[3 + 1].type = "REALM" /\ m.username = "user" /\ m.realm = "realm"
  <2>1. Written(m, b, "REALM", 6, Read(packet, {"REALM"}).text)
    BY <1>1, <1>2, WriteIs
  <2> HIDE DEF m
  <2>2. QED
    BY <1>1, <1>2, Lengths, <2>1 DEF Written
<1> HIDE DEF m
<1>4. AllocateAuthenticated(packet) = f
  <2>1. LongTerm(m, user.password) = key
    BY <1>3 DEF LongTerm
  <2>2. AllocateAuthenticated(packet) = Finish(m, LongTerm(m, user.password))
    BY DEF AllocateAuthenticated, NonceLen, RealmLen, m, b
  <2>3. QED
    BY <2>1, <2>2
<1>5. /\ Sized(f) /\ f.type = 3 /\ f.length = m.length + 32 /\ Len(f.attrs) = 4 + 2
      /\ \A i \in 1 .. 4 : f.attrs[i] = m.attrs[i]
      /\ f.attrs[4 + 1] = Integrity(key, Bytes(3, m.length + 24, m.attrs))
      /\ f.attrs[4 + 2].type = "FINGERPRINT"
      /\ SubSeq(f.attrs, 1, 4) = m.attrs
      /\ AttrsSize(SubSeq(f.attrs, 1, 4 + 1)) = m.length + 24
  <2>1. Finished(f, m, key)
    BY <1>3, FinishIs
  <2> HIDE DEF f
  <2>2. QED
    BY <1>3, <2>1 DEF Finished
<1> HIDE DEF f
<1>6. /\ Sound(w) /\ w.type = 3 /\ w.attrs = f.attrs /\ w.length = 68 + Padded(user.len)
  BY <1>1, <1>3, <1>5, Lengths, WireIs DEF Sized
<1> HIDE DEF w
<1>7. Read(w, {"USERNAME"}).text = "user"
  <2>1. /\ Len(w.attrs) = 6 /\ w.attrs[1].type = "REQUESTED_TRANSPORT"
        /\ w.attrs[2].type = "USERNAME" /\ w.attrs[2].value = Text("user")
        /\ w.attrs[3].type = "NONCE" /\ w.attrs[4].type = "REALM"
        /\ w.attrs[5].type = "MESSAGE_INTEGRITY" /\ w.attrs[6].type = "FINGERPRINT"
    BY <1>1, <1>2, <1>3, <1>5, <1>6 DEF Integrity
  <2>2. \A k \in 1 .. Len(w.attrs) : w.attrs[k].type \in {"USERNAME"} => k <= 2
    BY <2>1
  <2>3. Read(w, {"USERNAME"}) = w.attrs[2].value
    <3> DEFINE types == {"USERNAME"}
    <3>1. 2 \in 1 .. Len(w.attrs) /\ w.attrs[2].type \in types
      BY <1>6, <2>1, <2>2
    <3>2. \A k \in 1 .. Len(w.attrs) : w.attrs[k].type \in types => k <= 2
      BY <1>6, <2>1, <2>2
    <3> HIDE DEF types
    <3>3. Read(w, types) = w.attrs[2].value
      BY <1>6, <2>1, <2>2, <3>1, <3>2, ReadIs
    <3>4. QED
      BY <3>3 DEF types
  <2>4. QED
    BY <2>1, <2>3 DEF Text
<1>8. ASSUME user.password = RightPassword PROVE Authentic(w)
  <2>1. 5 \in DOMAIN w.attrs
    BY <1>5, <1>6, SizeIs
  <2>2. /\ w.attrs[5].type = "MESSAGE_INTEGRITY"
        /\ w.attrs[5].value = [key |-> key, over |-> Bytes(3, m.length + 24, m.attrs)]
    BY <1>5, <1>6 DEF Integrity
  <2>3. SubSeq(w.attrs, 1, 5 - 1) = m.attrs /\ AttrsSize(SubSeq(w.attrs, 1, 5)) = m.length + 24
    BY <1>5, <1>6
  <2>4. QED
    BY <1>6, <1>7, <1>8, <2>1, <2>2, <2>3 DEF Authentic
<1>9. QED
  BY <1>1, <1>4, <1>6, <1>8 DEF Sound, HeaderSize, w

-----------------------------------------------------------------------------
\* What a datagram under way is, by what it was sent for.
OnTheWay ==
  \A d \in inbox :
    /\ d.ask[3] \in {"peer", "stun", "turn", "turn2"}
    /\ d.ask[3] = "peer" => d.ask[1] \in 1 .. round /\ d.data = Wire(PeerRequest(d.ask[1]))
    /\ d.ask[3] = "stun" => d.data = Wire(BindingAnswer)
    /\ d.ask[3] = "turn" => d.data = Wire(RefusalAnswer)
    /\ d.ask[3] = "turn2" =>
         d.data = Wire(AllocateAnswer) \/ (refused /\ d.data = Wire(RefusalAnswer))

\* The turns of a gathering, and the candidates it has found.
GatherTurns ==
  /\ servers \in ServerLists
  /\ user \in [len : UsernameLens, password : {RightPassword, WrongPassword}]
  /\ round \in 0 .. MaxRounds /\ polls \in 0 .. MaxTimes /\ refused \in BOOLEAN
  /\ step \in {"idle", "next", "stun", "turn", "turn2"}
  /\ IF step = "idle" THEN pos = 0 ELSE pos \in 1 .. Len(servers) + 1
  /\ step \in {"stun", "turn", "turn2"} => pos <= Len(servers)
  /\ local \in Seq({local[i] : i \in DOMAIN local})
  /\ replied \subseteq {round}

GatherInv == GatherTurns /\ OnTheWay /\ CredentialsWork /\ AddressesReal

LEMMA GatherConstants ==
  /\ MaxHosts \in Nat /\ MaxTimes \in Nat /\ MaxRounds \in Nat /\ MaxCandidates \in Nat
  /\ BufSize \in Nat /\ UsernameLens \subseteq Nat
  /\ \A s \in ServerLists : s \in Seq({"stun", "turn"}) /\ Len(s) \in Nat
BY GatheringAssumption, LenProperties

LEMMA GatherInitInvariant == GatherInit => GatherInv
<1> SUFFICES ASSUME GatherInit PROVE GatherInv
  OBVIOUS
<1>1. local = << >> /\ DOMAIN local = {} /\ local \in Seq({local[i] : i \in DOMAIN local})
  BY DEF GatherInit
<1>2. GatherTurns
  <2>1. /\ step = "idle" /\ pos = 0 /\ round = 0 /\ polls = 0 /\ refused = FALSE /\ replied = {}
        /\ servers \in ServerLists
        /\ user \in [len : UsernameLens, password : {RightPassword, WrongPassword}]
    BY DEF GatherInit
  <2>2. 0 \in 0 .. MaxRounds /\ 0 \in 0 .. MaxTimes
    BY GatherConstants
  <2>3. QED
    BY <1>1, <2>1, <2>2 DEF GatherTurns
<1>3. OnTheWay /\ CredentialsWork
  BY DEF GatherInit, OnTheWay, CredentialsWork
<1>4. AddressesReal
  BY <1>1 DEF AddressesReal
<1>5. QED
  BY <1>2, <1>3, <1>4 DEF GatherInv

\* What is under way stays what it is.
LEMMA WayKept ==
  ASSUME GatherTurns, OnTheWay, inbox' \subseteq inbox, round' \in Int, round <= round', refused => refused'
  PROVE  OnTheWay'
<1>1. ASSUME NEW r \in 1 .. round PROVE r \in 1 .. round'
  BY DEF GatherTurns
<1>2. QED
  BY <1>1 DEF OnTheWay

\* ... and what is added is an answer or a check.
LEMMA WayAdded ==
  ASSUME GatherTurns, OnTheWay, UNCHANGED round, refused => refused',
         NEW ask, NEW data, inbox' \subseteq inbox \cup {[ask |-> ask, data |-> data]},
         \/ ask[3] = "peer" /\ ask[1] \in 1 .. round /\ data = Wire(PeerRequest(ask[1]))
         \/ ask[3] = "stun" /\ data = Wire(BindingAnswer)
         \/ ask[3] = "turn" /\ data = Wire(RefusalAnswer)
         \/ ask[3] = "turn2" /\ (data = Wire(AllocateAnswer) \/ (refused' /\ data = Wire(RefusalAnswer)))
  PROVE  OnTheWay'
BY DEF OnTheWay

\* A candidate more.
LEMMA CandidateAdded ==
  ASSUME local \in Seq({local[i] : i \in DOMAIN local}), NEW c, local' = Append(local, c)
  PROVE  /\ local' \in Seq({local'[i] : i \in DOMAIN local'})
         /\ Len(local) \in Nat /\ Len(local') = Len(local) + 1
         /\ DOMAIN local = 1 .. Len(local) /\ DOMAIN local' = 1 .. Len(local) + 1
         /\ \A i \in 1 .. Len(local) : local'[i] = local[i]
         /\ local'[Len(local) + 1] = c
<1> DEFINE R == {local[i] : i \in DOMAIN local}  T == R \cup {c}
<1>1. local \in Seq(T) /\ Len(local) \in Nat /\ DOMAIN local = 1 .. Len(local) /\ c \in T
  <2>1. local \in Seq(R) /\ R \subseteq T /\ c \in T
    OBVIOUS
  <2> HIDE DEF R, T
  <2>2. QED
    BY <2>1, SeqMonotonic, LenProperties
<1> HIDE DEF T
<1>2. /\ local' \in Seq(T) /\ Len(local') = Len(local) + 1
      /\ \A i \in 1 .. Len(local) : local'[i] = local[i]
      /\ local'[Len(local) + 1] = c
  BY <1>1, AppendProperties
<1>3. DOMAIN local' = 1 .. Len(local')
  BY <1>2, LenProperties
<1>4. local' \in Seq({local'[i] : i \in DOMAIN local'})
  <2> DEFINE Q == {local'[i] : i \in DOMAIN local'}
  <2>1. \A i \in 1 .. Len(local') : local'[i] \in Q
    BY <1>3
  <2>2. SubSeq(local', 1, Len(local')) \in Seq(Q)
    <3> HIDE DEF Q
    <3>1. QED
      BY <1>1, <1>2, <2>1, SubSeqProperties
  <2>3. SubSeq(local', 1, Len(local')) = local'
    BY <1>2, SubSeqFull
  <2>4. QED
    BY <2>2, <2>3
<1>5. QED
  BY <1>1, <1>2, <1>3, <1>4

\* A request to a server, and its answer.
LEMMA RequestKeeps ==
  ASSUME GatherInv, NextServer
  PROVE  OnTheWay' /\ CredentialsWork'
<1>1. GatherTurns /\ OnTheWay /\ CredentialsWork
  BY DEF GatherInv
<1>2. UNCHANGED <<round, user>> /\ refused \in BOOLEAN
  BY <1>1 DEF NextServer, GatherTurns
<1>3. CASE UNCHANGED <<inbox, refused>>
  <2>1. OnTheWay'
    BY <1>1, <1>2, <1>3, WayKept DEF GatherTurns
  <2>2. QED
    BY <1>1, <1>2, <1>3, <2>1 DEF CredentialsWork
<1>4. ASSUME NEW k \in {"stun", "turn"}, NEW packet, OnItsWay(<<round, pos, k>>, Answer(packet)),
             refused' = (refused \/ (k = "turn2" /\ ~Authentic(packet))),
             k = "stun" => Answer(packet) = BindingAnswer,
             k = "turn" => Answer(packet) = RefusalAnswer
      PROVE  OnTheWay' /\ CredentialsWork'
  <2> DEFINE ask == <<round, pos, k>>  data == Wire(Answer(packet))
  <2>1. refused' = refused
    BY <1>2, <1>4
  <2>2. ask[3] = k /\ inbox' = inbox \cup {[ask |-> ask, data |-> data]}
    BY <1>4 DEF OnItsWay
  <2>3. \/ k = "stun" /\ data = Wire(BindingAnswer)
        \/ k = "turn" /\ data = Wire(RefusalAnswer)
    BY <1>4
  <2> HIDE DEF ask, data
  <2>4. OnTheWay'
    BY <1>1, <1>2, <2>1, <2>2, <2>3, WayAdded
  <2>5. QED
    BY <1>1, <1>2, <2>1, <2>4 DEF CredentialsWork
<1>5. CASE servers[pos] = "stun" /\ Request("stun", Create(BINDING + REQUEST))
  <2> DEFINE packet == Wire(Create(BINDING + REQUEST))
  <2>1. packet.type = 1
    <3>1. BINDING + REQUEST = 1
      BY DEF BINDING, REQUEST
    <3>2. Sound(Create(1)) /\ Create(1).type = 1
      BY CreateIs DEF Sized
    <3>3. QED
      BY <3>1, <3>2, WireIs
  <2> HIDE DEF packet
  <2>2. Answer(packet) = BindingAnswer
    BY <2>1, Types DEF Answer
  <2>3. ServerAnswers(<<round, pos, "stun">>, packet)
    BY <1>5 DEF Request, packet
  <2>4. QED
    BY <1>3, <1>4, <2>2, <2>3 DEF ServerAnswers
<1>6. CASE servers[pos] = "turn" /\ Request("turn", Allocate)
  <2> DEFINE packet == Wire(Allocate)
  <2>1. /\ Sized(Allocate) /\ Allocate.type = 3 /\ Len(Allocate.attrs) = 2
        /\ Allocate.attrs[1].type = "REQUESTED_TRANSPORT" /\ Allocate.attrs[2].type = "USERNAME"
    <3>1. user.len \in Nat
      BY <1>1, GatherConstants DEF GatherTurns
    <3>2. QED
      BY <3>1, AllocateIs
  <2>2. packet.type = 3 /\ packet.attrs = Allocate.attrs /\ Sound(packet)
    BY <2>1, WireIs DEF Sized
  <2> HIDE DEF packet
  <2>3. DOMAIN packet.attrs = 1 .. 2
    BY <2>1, <2>2, SizeIs
  <2>4. ~Authentic(packet)
    BY <2>1, <2>2, <2>3 DEF Authentic
  <2>5. Answer(packet) = RefusalAnswer
    BY <2>2, <2>4, Types DEF Answer
  <2>6. ServerAnswers(<<round, pos, "turn">>, packet)
    BY <1>6 DEF Request, packet
  <2>7. QED
    BY <1>3, <1>4, <2>5, <2>6 DEF ServerAnswers
<1>7. QED
  BY <1>3, <1>5, <1>6 DEF NextServer

\* The second request to a TURN server is made from a refusal, and refused only
\* with the wrong credential.
LEMMA RefusalKeeps ==
  ASSUME GatherInv, NEW d \in inbox, ReceiveRefusal(d)
  PROVE  OnTheWay' /\ CredentialsWork' /\ d.data = Wire(RefusalAnswer)
<1>1. GatherTurns /\ OnTheWay /\ CredentialsWork /\ refused \in BOOLEAN /\ user.len \in Nat
  BY GatherConstants DEF GatherInv, GatherTurns
<1>2. d.data = Wire(RefusalAnswer)
  <2>1. ClassOf(d.data.type) = "ERROR"
    BY DEF ReceiveRefusal, Refusal
  <2>2. /\ Wire(BindingAnswer).type = 257 /\ Wire(AllocateAnswer).type = 259
        /\ \A s : Wire(PeerRequest(s)).type = 1
    BY BindingAnswerIs, AllocateAnswerIs, PeerRequestIs
  <2>3. QED
    BY <1>1, <2>1, <2>2, Types DEF OnTheWay
<1> DEFINE msg == AllocateAuthenticated(d.data)  packet == Wire(msg)
           ask == <<round, pos, "turn2">>  data == Wire(Answer(packet))
<1>3. packet.type = 3 /\ (user.password = RightPassword => Authentic(packet))
  <2>1. Read(d.data, {"REALM"}).text = "realm"
    BY <1>2, RefusalAnswerIs
  <2>2. QED
    BY <1>1, <2>1, AuthenticatedIs
<1>4. UNCHANGED <<round, user>>
  BY DEF ReceiveRefusal
<1>5. \/ inbox' = inbox \ {d} /\ refused' = refused
      \/ /\ inbox' = (inbox \ {d}) \cup {[ask |-> ask, data |-> data]}
         /\ refused' = (refused \/ ~Authentic(packet))
  BY DEF ReceiveRefusal
<1> HIDE DEF msg
<1>6. Answer(packet) = IF Authentic(packet) THEN AllocateAnswer ELSE RefusalAnswer
  BY <1>3, Types DEF Answer
<1> HIDE DEF packet
<1>7. OnTheWay'
  <2>1. CASE inbox' = inbox \ {d} /\ refused' = refused
    <3>1. inbox' \subseteq inbox /\ round' \in Int /\ round <= round' /\ (refused => refused')
      BY <1>1, <1>4, <2>1 DEF GatherTurns
    <3>2. QED
      BY <1>1, <3>1, WayKept
  <2>2. CASE /\ inbox' = (inbox \ {d}) \cup {[ask |-> ask, data |-> data]}
             /\ refused' = (refused \/ ~Authentic(packet))
    <3>1. ask[3] = "turn2"
      OBVIOUS
    <3>2. data = Wire(AllocateAnswer) \/ (refused' /\ data = Wire(RefusalAnswer))
      BY <1>6, <2>2
    <3>3. inbox' \subseteq inbox \cup {[ask |-> ask, data |-> data]} /\ (refused => refused')
      BY <2>2
    <3> HIDE DEF ask, data
    <3>4. QED
      BY <1>1, <1>4, <3>1, <3>2, <3>3, WayAdded
  <2>3. QED
    BY <1>5, <2>1, <2>2
<1>8. CredentialsWork'
  BY <1>1, <1>3, <1>4, <1>5 DEF CredentialsWork
<1>9. QED
  BY <1>2, <1>7, <1>8

\* Of what is under way only peers' checks are requests, each valid in its session.
LEMMA CheckIs ==
  ASSUME GatherTurns, OnTheWay, NEW d \in inbox
  PROVE  /\ d.ask[3] = "peer" => (IsValid(d.data, round) <=> d.ask[1] = round)
         /\ ClassOf(d.data.type) = "REQUEST" => d.ask[3] = "peer"
<1>1. /\ Wire(BindingAnswer).type = 257 /\ Wire(AllocateAnswer).type = 259
      /\ Wire(RefusalAnswer).type = 275
      /\ \A s : \A p : IsValid(Wire(PeerRequest(s)), p) <=> s = p
  BY BindingAnswerIs, AllocateAnswerIs, RefusalAnswerIs, PeerRequestIs
<1>2. QED
  BY <1>1, Types DEF OnTheWay

\* A candidate added with its address, or one of those that may come without.
LEMMA AddedKeeps ==
  ASSUME GatherTurns, AddressesReal, NEW type \in {"SRFLX", "RELAY"}, NEW addr, NEW answered,
         AddCandidate(type, addr, answered), UNCHANGED refused,
         answered /\ ~(type = "RELAY" /\ refused) =>
           addr = IF type = "SRFLX" THEN "public" ELSE "relay"
  PROVE  AddressesReal' /\ local' \in Seq({local'[i] : i \in DOMAIN local'}) /\ Len(local') = Len(local) + 1
<1> DEFINE c == [type |-> type, addr |-> addr, answered |-> answered]
<1>1. local' = Append(local, c) /\ local \in Seq({local[i] : i \in DOMAIN local})
  BY DEF AddCandidate, GatherTurns
<1>2. c.type = type /\ c.addr = addr /\ c.answered = answered
  OBVIOUS
<1> HIDE DEF c
<1>3. /\ DOMAIN local = 1 .. Len(local) /\ DOMAIN local' = 1 .. Len(local) + 1
      /\ \A i \in 1 .. Len(local) : local'[i] = local[i]
      /\ local'[Len(local) + 1] = c /\ Len(local) \in Nat
      /\ local' \in Seq({local'[i] : i \in DOMAIN local'}) /\ Len(local') = Len(local) + 1
  BY <1>1, CandidateAdded
<1>4. \A i \in 1 .. Len(local) + 1 : i \in 1 .. Len(local) \/ i = Len(local) + 1
  BY <1>3
<1>5. QED
  BY <1>2, <1>3, <1>4 DEF AddressesReal

\* A candidate found has the address its server gave it.
LEMMA FoundKeeps ==
  ASSUME GatherInv, NEW d \in inbox, UNCHANGED refused,
         \/ step = "stun" /\ AddCandidate("SRFLX", MappedAddr(d.data), d.ask = Asked)
         \/ step = "turn2" /\ AddCandidate("RELAY", RelayedAddr(d.data), d.ask = Asked)
  PROVE  AddressesReal' /\ local' \in Seq({local'[i] : i \in DOMAIN local'}) /\ Len(local') = Len(local) + 1
<1>1. GatherTurns /\ OnTheWay /\ AddressesReal
  BY DEF GatherInv
<1>2. /\ MappedAddr(Wire(BindingAnswer)) = "public" /\ RelayedAddr(Wire(AllocateAnswer)) = "relay"
  BY BindingAnswerIs, AllocateAnswerIs
<1>3. d.ask = Asked => d.ask[3] = step
  BY DEF Asked
<1>4. CASE step = "stun" /\ AddCandidate("SRFLX", MappedAddr(d.data), d.ask = Asked)
  <2>1. d.ask = Asked => MappedAddr(d.data) = "public"
    BY <1>1, <1>2, <1>3, <1>4 DEF OnTheWay
  <2>2. QED
    BY <1>1, <1>4, <2>1, AddedKeeps
<1>5. CASE step = "turn2" /\ AddCandidate("RELAY", RelayedAddr(d.data), d.ask = Asked)
  <2>1. d.ask = Asked /\ ~refused => RelayedAddr(d.data) = "relay"
    BY <1>1, <1>2, <1>3, <1>5 DEF OnTheWay
  <2>2. QED
    BY <1>1, <1>5, <2>1, AddedKeeps
<1>6. QED
  BY <1>4, <1>5

\* The candidates of before, or none, and the host's.
LEMMA HostsAdded ==
  ASSUME GatherTurns, AddressesReal, NEW offer \in BOOLEAN, NEW n \in 0 .. MaxHosts,
         local' = (IF offer THEN << >> ELSE local) \o HostCandidates(n), UNCHANGED refused
  PROVE  /\ AddressesReal' /\ local' \in Seq({local'[i] : i \in DOMAIN local'})
         /\ Len(local) \in Nat /\ Len(local') \in Nat /\ Len(local') <= Len(local) + n
<1> DEFINE R == {local[i] : i \in DOMAIN local}  T == R \cup {Host}
           old == IF offer THEN << >> ELSE local  k == Len(old)
<1>1. n \in Nat
  BY GatherConstants
<1>2. local \in Seq(T) /\ Len(local) \in Nat /\ Host \in T
  <2>1. local \in Seq(R) /\ R \subseteq T /\ Host \in T
    BY DEF GatherTurns
  <2> HIDE DEF R, T
  <2>2. QED
    BY <2>1, SeqMonotonic, LenProperties
<1> HIDE DEF T
<1>3. HostCandidates(n) \in Seq(T) /\ Len(HostCandidates(n)) = n
      /\ \A i \in 1 .. n : HostCandidates(n)[i] = Host
  BY <1>1, <1>2 DEF HostCandidates
<1>4. old \in Seq(T) /\ k \in Nat /\ k <= Len(local) /\ \A i \in 1 .. k : old[i] = local[i] /\ i \in DOMAIN local
  <2>1. CASE offer
    <3>1. old = << >> /\ k = 0
      BY <2>1
    <3>2. << >> \in Seq(T)
      OBVIOUS
    <3> HIDE DEF old
    <3>3. QED
      BY <1>2, <3>1, <3>2
  <2>2. CASE ~offer
    BY <1>2, <2>2, LenProperties
  <2>3. QED
    BY <2>1, <2>2
<1> HIDE DEF old
<1>5. /\ local' \in Seq(T) /\ Len(local') = k + n
      /\ \A i \in 1 .. k + n : local'[i] = IF i <= k THEN old[i] ELSE HostCandidates(n)[i - k]
  <2>1. local' = old \o HostCandidates(n)
    BY DEF old
  <2> DEFINE hosts == HostCandidates(n)
  <2>0. hosts \in Seq(T) /\ old \in Seq(T) /\ local' = old \o hosts
    BY <1>3, <1>4, <2>1
  <2> HIDE DEF hosts
  <2>4. /\ old \o hosts \in Seq(T) /\ Len(old \o hosts) = Len(old) + Len(hosts)
        /\ \A i \in 1 .. Len(old) + Len(hosts) :
             (old \o hosts)[i] = IF i <= Len(old) THEN old[i] ELSE hosts[i - Len(old)]
    BY <2>0, ConcatProperties
  <2>2. /\ local' \in Seq(T) /\ Len(local') = Len(old) + Len(HostCandidates(n))
        /\ \A i \in 1 .. Len(old) + Len(HostCandidates(n)) :
             local'[i] = IF i <= Len(old) THEN old[i] ELSE HostCandidates(n)[i - Len(old)]
    BY <2>0, <2>4 DEF hosts
  <2>3. QED
    BY <1>3, <2>2
<1>6. DOMAIN local' = 1 .. k + n
  BY <1>5, LenProperties
<1>7. local' \in Seq({local'[i] : i \in DOMAIN local'})
  <2> DEFINE Q == {local'[i] : i \in DOMAIN local'}
  <2>1. \A i \in 1 .. Len(local') : local'[i] \in Q
    BY <1>5, <1>6
  <2>2. SubSeq(local', 1, Len(local')) \in Seq(Q)
    <3> HIDE DEF Q
    <3>1. Len(local') \in Int
      BY <1>1, <1>4, <1>5
    <3>2. QED
      BY <2>1, <3>1, SubSeqProperties
  <2>3. SubSeq(local', 1, Len(local')) = local'
    BY <1>5, SubSeqFull
  <2>4. QED
    BY <2>2, <2>3
<1>8. AddressesReal'
  <2>1. ASSUME NEW i \in 1 .. k + n
        PROVE  local'[i].type = "HOST" \/ (i \in DOMAIN local /\ local'[i] = local[i])
    <3>1. CASE i <= k
      BY <1>4, <1>5, <3>1
    <3>2. CASE ~(i <= k)
      <4>1. i - k \in 1 .. n
        BY <1>1, <1>4, <3>2
      <4>2. QED
        BY <1>3, <1>5, <3>2, <4>1 DEF Host
    <3>3. QED
      BY <3>1, <3>2
  <2>2. QED
    BY <1>6, <2>1 DEF AddressesReal
<1>9. Len(local) \in Nat /\ Len(local') \in Nat /\ Len(local') <= Len(local) + n
  <2> HIDE DEF k
  <2>1. QED
    BY <1>1, <1>2, <1>4, <1>5
<1>10. QED
  BY <1>7, <1>8, <1>9

LEMMA GatherStepInvariant == GatherInv /\ [GatherNext]_gatherVars => GatherInv'
<1> SUFFICES ASSUME GatherInv, [GatherNext]_gatherVars PROVE GatherInv'
  OBVIOUS
<1> USE DEF GatherInv
<1>1. Len(servers) \in Nat /\ round \in Nat /\ polls \in Nat /\ MaxRounds \in Nat /\ MaxTimes \in Nat
  BY GatherConstants DEF GatherTurns
<1>3. CASE UNCHANGED gatherVars
  BY <1>3 DEF gatherVars, agentVars, GatherTurns, OnTheWay, CredentialsWork, AddressesReal
<1>4. ASSUME NEW offer \in BOOLEAN, CreateLocalSdp(offer) PROVE GatherInv'
  <2>1. PICK n \in 0 .. MaxHosts : local' = (IF offer THEN << >> ELSE local) \o HostCandidates(n)
    BY <1>4 DEF CreateLocalSdp
  <2>2. AddressesReal' /\ local' \in Seq({local'[i] : i \in DOMAIN local'})
    <3>1. UNCHANGED refused
      BY <1>4 DEF CreateLocalSdp
    <3>2. QED
      BY <2>1, <3>1, HostsAdded
  <2>3. OnTheWay'
    BY <1>1, <1>4, WayKept DEF CreateLocalSdp
  <2>6. /\ step' = "next" /\ pos' = 1 /\ round' = round + 1 /\ replied' = {} /\ round < MaxRounds
        /\ UNCHANGED <<servers, user, polls, refused>>
    BY <1>4 DEF CreateLocalSdp
  <2>7. round' \in 0 .. MaxRounds /\ pos' \in 1 .. Len(servers) + 1
    BY <1>1, <2>6
  <2>4. GatherTurns'
    BY <2>2, <2>6, <2>7 DEF GatherTurns
  <2>5. QED
    BY <1>4, <2>2, <2>3, <2>4 DEF CreateLocalSdp, CredentialsWork
<1>5. CASE NextServer
  <2>1. OnTheWay' /\ CredentialsWork'
    BY <1>5, RequestKeeps
  <2>2. UNCHANGED <<servers, user, round, local, replied>> /\ refused' \in BOOLEAN
    BY <1>5 DEF NextServer, Request, ServerAnswers, GatherTurns
  <2>3. /\ \/ step' = "next" /\ pos' = pos + 1
           \/ step' \in {"stun", "turn"} /\ pos' = pos
        /\ polls' = 0 /\ step = "next" /\ pos <= Len(servers)
    BY <1>5 DEF NextServer, Request, OnToNext
  <2>4. GatherTurns'
    BY <1>1, <2>2, <2>3 DEF GatherTurns
  <2>5. AddressesReal'
    <3>1. refused => refused'
      BY <1>5 DEF NextServer, Request, ServerAnswers
    <3>2. QED
      BY <2>2, <3>1 DEF AddressesReal
  <2>6. QED
    BY <2>1, <2>4, <2>5
<1>6. CASE GatheringDone
  <2>1. OnTheWay'
    BY <1>1, <1>6, WayKept DEF GatheringDone
  <2>2. QED
    BY <1>6, <2>1 DEF GatheringDone, GatherTurns, CredentialsWork, AddressesReal
<1>7. CASE PollTimeout
  <2>1. OnTheWay'
    BY <1>1, <1>7, WayKept DEF PollTimeout
  <2>2. GatherTurns'
    BY <1>1, <1>7 DEF PollTimeout, Polling, GatherTurns
  <2>3. QED
    BY <1>7, <2>1, <2>2 DEF PollTimeout, CredentialsWork, AddressesReal
<1>8. CASE GiveUp
  <2>1. UNCHANGED <<servers, user, round, replied, inbox, refused>>
    BY <1>8 DEF GiveUp
  <2>2. OnTheWay'
    BY <1>1, <2>1, WayKept
  <2>3. AddressesReal' /\ local' \in Seq({local'[i] : i \in DOMAIN local'})
    <3>1. CASE step = "turn2"
      <4>1. AddCandidate("RELAY", RelayedAddr(recv), FALSE)
        BY <1>8, <3>1 DEF GiveUp
      <4>2. QED
        BY <2>1, <4>1, AddedKeeps
    <3>2. CASE step # "turn2"
      BY <1>8, <3>2 DEF GiveUp, AddressesReal, GatherTurns
    <3>3. QED
      BY <3>1, <3>2
  <2>6. /\ step' = "next" /\ pos' = pos + 1 /\ polls' = 0 /\ step \in {"stun", "turn", "turn2"}
    BY <1>8 DEF GiveUp, OnToNext
  <2>7. pos' \in 1 .. Len(servers) + 1 /\ polls' \in 0 .. MaxTimes
    BY <1>1, <2>6 DEF GatherTurns
  <2>4. GatherTurns'
    BY <2>1, <2>3, <2>6, <2>7 DEF GatherTurns
  <2>5. QED
    BY <2>1, <2>2, <2>3, <2>4 DEF CredentialsWork
<1>9. ASSUME NEW d \in inbox, AgentReceives(d) PROVE GatherInv'
  <2>1. CASE ReceiveStun(d) \/ ReceiveTurn2(d)
    <3>1. /\ UNCHANGED <<servers, user, round, replied, refused>> /\ inbox' \subseteq inbox
          /\ step' = "next" /\ pos' = pos + 1 /\ polls' = 0 /\ step \in {"stun", "turn2"}
      BY <2>1 DEF ReceiveStun, ReceiveTurn2, TakeDatagram, OnToNext
    <3>2. AddressesReal' /\ local' \in Seq({local'[i] : i \in DOMAIN local'})
      BY <2>1, <3>1, FoundKeeps DEF ReceiveStun, ReceiveTurn2
    <3>3. OnTheWay'
      BY <1>1, <3>1, WayKept
    <3>4. GatherTurns'
      BY <1>1, <3>1, <3>2 DEF GatherTurns
    <3>5. QED
      BY <3>1, <3>2, <3>3, <3>4 DEF CredentialsWork
  <2>2. CASE ReceiveRefusal(d)
    <3>1. OnTheWay' /\ CredentialsWork'
      BY <2>2, RefusalKeeps
    <3>5. /\ UNCHANGED <<servers, user, round, pos, local, replied>>
          /\ step' = "turn2" /\ polls' = 0 /\ step = "turn"
      BY <2>2 DEF ReceiveRefusal
    <3>6. refused' \in BOOLEAN /\ (refused => refused')
      <4> DEFINE ok == Authentic(Wire(AllocateAuthenticated(d.data)))
      <4>1. UNCHANGED refused \/ refused' = (refused \/ ~ok)
        BY <2>2 DEF ReceiveRefusal
      <4> HIDE DEF ok
      <4>2. refused \in BOOLEAN
        BY DEF GatherTurns
      <4>3. CASE UNCHANGED refused
        BY <4>2, <4>3
      <4>4. CASE refused' = (refused \/ ~ok)
        <5>1. (refused \/ ~ok) \in BOOLEAN
          OBVIOUS
        <5>2. refused => refused' = TRUE
          BY <4>4
        <5>3. QED
          BY <4>4, <5>1, <5>2
      <4>5. QED
        BY <4>1, <4>3, <4>4
    <3>2. /\ UNCHANGED <<servers, user, round, pos, local, replied>>
          /\ step' = "turn2" /\ polls' = 0 /\ step = "turn" /\ refused' \in BOOLEAN
          /\ (refused => refused')
      BY <3>5, <3>6
    <3>3. GatherTurns'
      BY <1>1, <3>2 DEF GatherTurns
    <3>4. QED
      BY <3>1, <3>2, <3>3 DEF AddressesReal
  <2>3. CASE ReceiveOther(d)
    <3>1. /\ UNCHANGED <<servers, user, round, local, replied, refused>> /\ inbox' \subseteq inbox
          /\ step' = "next" /\ pos' = pos + 1 /\ polls' = 0 /\ step = "turn"
      BY <2>3 DEF ReceiveOther, TakeDatagram, OnToNext
    <3>2. OnTheWay'
      BY <1>1, <3>1, WayKept
    <3>3. GatherTurns'
      BY <1>1, <3>1 DEF GatherTurns
    <3>4. QED
      BY <3>1, <3>2, <3>3 DEF CredentialsWork, AddressesReal
  <2>4. CASE AgentRecv(d)
    <3>1. /\ UNCHANGED <<servers, user, round, pos, step, polls, local, refused>>
          /\ inbox' \subseteq inbox
      BY <2>4 DEF AgentRecv, TakeDatagram
    <3>2. replied' \subseteq {round}
      <4>1. /\ d.ask[3] = "peer" => (IsValid(d.data, round) <=> d.ask[1] = round)
            /\ ClassOf(d.data.type) = "REQUEST" => d.ask[3] = "peer"
        BY CheckIs
      <4>2. replied \subseteq {round}
        BY DEF GatherTurns
      <4>3. QED
        BY <2>4, <4>1, <4>2 DEF AgentRecv
    <3>3. OnTheWay'
      BY <1>1, <3>1, WayKept
    <3>4. GatherTurns'
      BY <1>1, <3>1, <3>2 DEF GatherTurns
    <3>5. QED
      BY <3>1, <3>3, <3>4 DEF CredentialsWork, AddressesReal
  <2>5. QED
    BY <1>9, <2>1, <2>2, <2>3, <2>4 DEF AgentReceives
<1>10. CASE PeerChecks
  <2>1. UNCHANGED <<servers, user, refused, round, pos, step, polls, local, replied>>
    BY <1>10 DEF PeerChecks, agentVars
  <2>2. OnTheWay'
    <3>1. PICK s \in 1 .. round : OnItsWay(<<s, 0, "peer">>, PeerRequest(s))
      BY <1>10 DEF PeerChecks
    <3> DEFINE ask == <<s, 0, "peer">>  data == Wire(PeerRequest(s))
    <3>2. inbox' = inbox \cup {[ask |-> ask, data |-> data]}
      BY <3>1 DEF OnItsWay
    <3>3. ask[3] = "peer" /\ ask[1] \in 1 .. round /\ data = Wire(PeerRequest(ask[1]))
      BY <3>1
    <3> HIDE DEF ask, data
    <3>4. QED
      BY <2>1, <3>2, <3>3, WayAdded
  <2>3. QED
    BY <2>1, <2>2 DEF GatherTurns, CredentialsWork, AddressesReal
<1>11. CASE LoseDatagram
  <2>1. UNCHANGED <<servers, user, refused, round, pos, step, polls, local, replied>>
        /\ inbox' \subseteq inbox
    BY <1>11 DEF LoseDatagram, agentVars
  <2>2. OnTheWay'
    BY <1>1, <2>1, WayKept
  <2>3. QED
    BY <2>1, <2>2 DEF GatherTurns, CredentialsWork, AddressesReal
<1>12. QED
  BY <1>3, <1>4, <1>5, <1>6, <1>7, <1>8, <1>9, <1>10, <1>11 DEF GatherNext

-----------------------------------------------------------------------------
\* Everything a gathering writes fits the buffer: answers and checks of fixed
\* length, and a request with the user's name.
BufferHolds == BufSize >= 92 /\ \A n \in UsernameLens : BufSize >= 88 + Padded(n)

\* What a description may add to the candidates: one for each address and server.
Share == MaxHosts + Len(servers)

\* There is room for the candidates of MaxRounds descriptions.
RoomForAll == \A s \in ServerLists : MaxRounds * (MaxHosts + Len(s)) <= MaxCandidates

\* The candidates so far and those the servers left to ask may add.
Level ==
  Len(local) + (IF step = "idle" THEN 0 ELSE Len(servers) + 1 - pos) <= round * Share

SentFits == sent # Nothing => Sound(sent) /\ sent.size <= BufSize

FullInv == GatherInv /\ Level /\ SentFits

LEMMA LevelStep ==
  ASSUME GatherInv, Level, [GatherNext]_gatherVars
  PROVE  Level'
<1>1. GatherTurns /\ AddressesReal /\ MaxHosts \in Nat
  BY GatherConstants DEF GatherInv
<1>2. Len(servers) \in Nat /\ round \in Nat /\ pos \in Nat /\ Share \in Nat
      /\ round * Share \in Nat /\ (round + 1) * Share = round * Share + Share
  <2>1. Len(servers) \in Nat /\ round \in Nat /\ pos \in Nat /\ Share \in Nat
    BY <1>1, GatherConstants DEF GatherTurns, Share
  <2> HIDE DEF Share
  <2>2. QED
    BY <2>1
<1>3. Len(local) \in Nat
  <2> DEFINE R == {local[i] : i \in DOMAIN local}
  <2>1. local \in Seq(R)
    BY <1>1 DEF GatherTurns
  <2> HIDE DEF R
  <2>2. QED
    BY <2>1, LenProperties
<1>4. ASSUME NEW offer \in BOOLEAN, CreateLocalSdp(offer) PROVE Level'
  <2>1. PICK n \in 0 .. MaxHosts : local' = (IF offer THEN << >> ELSE local) \o HostCandidates(n)
    BY <1>4 DEF CreateLocalSdp
  <2>2. /\ step = "idle" /\ step' = "next" /\ pos' = 1 /\ round' = round + 1
        /\ UNCHANGED <<servers, refused>>
    BY <1>4 DEF CreateLocalSdp
  <2>3. Len(local') \in Nat /\ Len(local') <= Len(local) + n
    BY <1>1, <2>1, <2>2, HostsAdded
  <2>4. Share' = Share /\ Share = MaxHosts + Len(servers)
    BY <2>2 DEF Share
  <2>5. Len(local) <= round * Share
    BY <1>3, <2>2 DEF Level
  <2>6. Len(local') + Len(servers) <= (round + 1) * Share
    BY <1>1, <1>2, <1>3, <2>3, <2>4, <2>5
  <2>7. QED
    BY <1>2, <2>2, <2>3, <2>4, <2>6 DEF Level
<1>5. ASSUME UNCHANGED <<servers, round>>, step \in {"next", "stun", "turn", "turn2"},
             step' = "next", pos' = pos + 1,
             UNCHANGED local \/ \E c : local' = Append(local, c)
      PROVE  Level'
  <2>1. Len(local') \in Nat /\ Len(local') <= Len(local) + 1
    <3>1. CASE UNCHANGED local
      BY <1>3, <3>1
    <3>2. ASSUME NEW c, local' = Append(local, c) PROVE Len(local') = Len(local) + 1
      BY <1>1, <3>2, CandidateAdded DEF GatherTurns
    <3>3. QED
      BY <1>3, <1>5, <3>1, <3>2
  <2>2. Share' = Share
    BY <1>5 DEF Share
  <2> HIDE DEF Share
  <2>3. Len(local) + (Len(servers) + 1 - pos) <= round * Share
    BY <1>5 DEF Level
  <2>4. QED
    BY <1>2, <1>3, <1>5, <2>1, <2>2, <2>3 DEF Level
<1>6. ASSUME UNCHANGED <<servers, round, local, pos>>, step # "idle", step' # "idle" PROVE Level'
  BY <1>6 DEF Level, Share
<1>7. CASE NextServer
  <2>1. UNCHANGED <<servers, round, local>> /\ step = "next"
    BY <1>7 DEF NextServer
  <2>2. \/ step' = "next" /\ pos' = pos + 1
        \/ step' \in {"stun", "turn"} /\ pos' = pos
    BY <1>7 DEF NextServer, Request, OnToNext
  <2>3. QED
    BY <1>5, <1>6, <2>1, <2>2
<1>8. CASE GatheringDone
  <2>1. UNCHANGED <<servers, round, local>> /\ step = "next" /\ step' = "idle" /\ pos > Len(servers)
    BY <1>8 DEF GatheringDone
  <2>2. pos = Len(servers) + 1
    BY <1>1, <1>2, <2>1 DEF GatherTurns
  <2>3. QED
    BY <1>2, <1>3, <2>1, <2>2 DEF Level, Share
<1>9. CASE PollTimeout \/ PeerChecks \/ LoseDatagram \/ UNCHANGED gatherVars
  BY <1>9 DEF PollTimeout, PeerChecks, LoseDatagram, gatherVars, agentVars, Level, Share
<1>10. CASE GiveUp
  BY <1>5, <1>10 DEF GiveUp, OnToNext, AddCandidate
<1>11. ASSUME NEW d \in inbox, AgentReceives(d) PROVE Level'
  <2>1. CASE ReceiveStun(d) \/ ReceiveOther(d) \/ ReceiveTurn2(d)
    BY <1>5, <2>1 DEF ReceiveStun, ReceiveOther, ReceiveTurn2, OnToNext, AddCandidate
  <2>2. CASE ReceiveRefusal(d)
    <3>1. UNCHANGED <<servers, round, local, pos>> /\ step = "turn" /\ step' = "turn2"
      BY <2>2 DEF ReceiveRefusal
    <3>2. QED
      BY <1>6, <3>1
  <2>3. CASE AgentRecv(d)
    BY <2>3 DEF AgentRecv, Level, Share
  <2>4. QED
    BY <1>11, <2>1, <2>2, <2>3 DEF AgentReceives
<1>12. QED
  BY <1>4, <1>7, <1>8, <1>9, <1>10, <1>11 DEF GatherNext

LEMMA SentStep ==
  ASSUME GatherInv, BufferHolds, SentFits, [GatherNext]_gatherVars
  PROVE  SentFits'
<1>1. GatherTurns /\ BufSize \in Nat /\ user.len \in UsernameLens /\ user.len \in Nat
  BY GatherConstants DEF GatherInv, GatherTurns
<1>2. BufSize >= 92 /\ BufSize >= 88 + Padded(user.len)
  BY <1>1 DEF BufferHolds
<1>3. ASSUME NEW m, Sound(m), m.size <= BufSize, sent' = Wire(m) PROVE SentFits'
  BY <1>3, WireIs DEF SentFits
<1>4. ASSUME sent' = Nothing \/ UNCHANGED sent PROVE SentFits'
  BY <1>4 DEF SentFits
<1>5. CASE NextServer
  <2>1. CASE OnToNext
    BY <1>4, <2>1 DEF OnToNext
  <2>2. CASE Request("stun", Create(BINDING + REQUEST))
    <3> DEFINE m == Create(BINDING + REQUEST)
    <3>1. Sound(m) /\ m.size = 20
      BY CreateIs DEF Sized, Create, HeaderSize
    <3>2. sent' = Wire(m)
      BY <2>2 DEF Request
    <3> HIDE DEF m
    <3>3. QED
      BY <1>1, <1>2, <1>3, <3>1, <3>2
  <2>3. CASE Request("turn", Allocate)
    <3>1. /\ Sound(Allocate) /\ Allocate.length = 12 + Padded(user.len)
          /\ Padded(user.len) \in Nat
      BY <1>1, AllocateIs DEF Sized
    <3>2. Allocate.size <= BufSize
      BY <1>1, <1>2, <3>1 DEF Sound, HeaderSize
    <3>3. sent' = Wire(Allocate)
      BY <2>3 DEF Request
    <3>4. QED
      BY <1>3, <3>1, <3>2, <3>3
  <2>4. QED
    BY <1>5, <2>1, <2>2, <2>3 DEF NextServer
<1>6. ASSUME NEW d \in inbox, ReceiveRefusal(d) PROVE SentFits'
  <2>1. d.data = Wire(RefusalAnswer)
    BY <1>6, RefusalKeeps
  <2>2. Read(d.data, {"REALM"}).text = "realm"
    BY <2>1, RefusalAnswerIs
  <2> DEFINE w == Wire(AllocateAuthenticated(d.data))
  <2>3. Sound(w) /\ w.size = 88 + Padded(user.len)
    BY <1>1, <2>2, AuthenticatedIs
  <2>4. sent' = w
    BY <1>6 DEF ReceiveRefusal
  <2> HIDE DEF w
  <2>5. QED
    BY <1>2, <2>3, <2>4 DEF SentFits
<1>7. CASE \/ GatheringDone \/ PollTimeout \/ GiveUp \/ PeerChecks \/ LoseDatagram
           \/ UNCHANGED gatherVars \/ \E offer \in BOOLEAN : CreateLocalSdp(offer)
  BY <1>4, <1>7 DEF GatheringDone, PollTimeout, GiveUp, OnToNext, PeerChecks, LoseDatagram, gatherVars,
                    agentVars, CreateLocalSdp
<1>8. ASSUME NEW d \in inbox, AgentReceives(d), ~ReceiveRefusal(d) PROVE SentFits'
  BY <1>4, <1>8 DEF AgentReceives, ReceiveStun, ReceiveOther, ReceiveTurn2, AgentRecv, OnToNext
<1>9. QED
  BY <1>5, <1>6, <1>7, <1>8 DEF GatherNext

\* What the invariant says of the messages and of the number of candidates.
LEMMA FullImplies ==
  ASSUME BufferHolds, RoomForAll, FullInv
  PROVE  RequestsAccepted
<1>1. GatherTurns /\ OnTheWay /\ CredentialsWork /\ Level /\ SentFits
  BY DEF FullInv, GatherInv
<1>2. BufSize \in Nat /\ BufSize >= 92
  BY GatherConstants DEF BufferHolds
<1>3. Len(local) <= MaxCandidates
  <2>1. Len(servers) \in Nat /\ round \in Nat /\ MaxRounds \in Nat /\ round <= MaxRounds
        /\ Share \in Nat /\ pos \in Nat /\ MaxCandidates \in Nat
    BY <1>1, GatherConstants DEF GatherTurns, Share
  <2>2. MaxRounds * Share <= MaxCandidates
    BY <1>1 DEF RoomForAll, Share, GatherTurns
  <2>3. Len(local) \in Nat
    <3> DEFINE R == {local[i] : i \in DOMAIN local}
    <3>1. local \in Seq(R)
      BY <1>1 DEF GatherTurns
    <3> HIDE DEF R
    <3>2. QED
      BY <3>1, LenProperties
  <2>4. step # "idle" => pos <= Len(servers) + 1
    BY <1>1 DEF GatherTurns
  <2> HIDE DEF Share
  <2>5. Len(local) <= round * Share
    <3> DEFINE q == round * Share
    <3>1. q \in Nat
      BY <2>1
    <3>2. Len(local) + (IF step = "idle" THEN 0 ELSE Len(servers) + 1 - pos) <= q
      BY <1>1 DEF Level
    <3> HIDE DEF q
    <3>3. Len(local) <= q
      BY <2>1, <2>3, <2>4, <3>1, <3>2
    <3>4. QED
      BY <3>3 DEF q
  <2>6. round * Share <= MaxRounds * Share
    <3>1. MaxRounds - round \in Nat
      BY <2>1
    <3>2. (MaxRounds - round) * Share \in Nat
      BY <2>1, <3>1
    <3>3. (MaxRounds - round) * Share = MaxRounds * Share - round * Share
      BY <2>1
    <3>4. QED
      BY <2>1, <3>2, <3>3
  <2>7. round * Share \in Nat /\ MaxRounds * Share \in Nat
    BY <2>1
  <2>8. QED
    BY <2>1, <2>2, <2>3, <2>5, <2>6, <2>7
<1>4. GatherTypeOK
  <2>1. Len(servers) \in Nat /\ MaxRounds \in Nat
    BY <1>1, GatherConstants DEF GatherTurns
  <2>2. QED
    BY <1>1, <1>3, <2>1 DEF GatherTypeOK, GatherTurns
<1>5. sent # Nothing => WellFormed(sent)
  BY <1>1, SoundIsWellFormed DEF SentFits
<1>6. ASSUME NEW d \in inbox PROVE WellFormed(d.data)
  <2>1. Sound(d.data) /\ d.data.size <= 92
    <3>1. /\ Sound(Wire(BindingAnswer)) /\ Wire(BindingAnswer).size <= 92
          /\ Sound(Wire(RefusalAnswer)) /\ Wire(RefusalAnswer).size <= 92
          /\ Sound(Wire(AllocateAnswer)) /\ Wire(AllocateAnswer).size <= 92
      BY BindingAnswerIs, RefusalAnswerIs, AllocateAnswerIs
    <3>2. \A s : Sound(Wire(PeerRequest(s))) /\ Wire(PeerRequest(s)).size <= 92
      BY PeerRequestIs
    <3>3. QED
      BY <1>1, <3>1, <3>2 DEF OnTheWay
  <2>2. d.data.size \in Nat
    BY <2>1, SizeIs
  <2>3. QED
    BY <1>2, <2>1, <2>2, SoundIsWellFormed
<1>7. QED
  BY <1>1, <1>4, <1>5, <1>6 DEF RequestsAccepted, MessagesWellFormed

LEMMA GatherInvariant == GatherSpec => []GatherInv
<1>1. GatherInit => GatherInv
  BY GatherInitInvariant
<1>2. GatherInv /\ [GatherNext]_gatherVars => GatherInv'
  BY GatherStepInvariant
<1>3. QED
  BY <1>1, <1>2, PTL DEF GatherSpec

\* Over renegotiations the binding requests found valid are those made with the
\* current credentials, all of them, and only those are replied to
\* (agent_process_stun_request, stun_msg_is_valid).
THEOREM CurrentChecks == GatherSpec => []CurrentChecksOnly
<1>1. GatherInv => CurrentChecksOnly
  <2> SUFFICES ASSUME GatherInv PROVE CurrentChecksOnly
    OBVIOUS
  <2>1. GatherTurns /\ OnTheWay /\ replied \subseteq {round}
    BY DEF GatherInv, GatherTurns
  <2>2. QED
    BY <2>1, CheckIs DEF CurrentChecksOnly
<1>2. QED
  BY <1>1, GatherInvariant, PTL

\* A candidate found with the answer to its own request has the address that the
\* server gave: the public one from a STUN server, the relayed one from a TURN
\* server that did not refuse the credential (agent_create_stun_addr,
\* agent_create_turn_addr).
THEOREM AddressesAreReal == GatherSpec => []AddressesReal
<1>1. GatherInv => AddressesReal
  BY DEF GatherInv
<1>2. QED
  BY <1>1, GatherInvariant, PTL

\* Where the buffer holds a request with the user's name and the candidates of
\* every description fit, each message that goes out or arrives is whole, ends
\* where its header says and is walked to its end, and a server refuses no request
\* with the right credential (stun_msg_write_attr, stun_msg_finish).
THEOREM RequestsAreAccepted ==
  ASSUME BufferHolds, RoomForAll
  PROVE  GatherSpec => []RequestsAccepted
<1>1. GatherInit => FullInv
  <2> SUFFICES ASSUME GatherInit PROVE FullInv
    OBVIOUS
  <2>1. GatherInv
    BY GatherInitInvariant
  <2>2. Level
    <3>1. Len(servers) \in Nat /\ MaxHosts \in Nat
      BY <2>1, GatherConstants DEF GatherInv, GatherTurns
    <3>2. QED
      BY <3>1 DEF GatherInit, Level, Share
  <2>3. SentFits
    BY DEF GatherInit, SentFits
  <2>4. QED
    BY <2>1, <2>2, <2>3 DEF FullInv
<1>2. FullInv /\ [GatherNext]_gatherVars => FullInv'
  BY GatherStepInvariant, LevelStep, SentStep DEF FullInv
<1>3. FullInv => RequestsAccepted
  BY FullImplies
<1>4. QED
  BY <1>1, <1>2, <1>3, PTL DEF GatherSpec
================================================================================

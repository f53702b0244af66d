----------------------------- MODULE PeerConnection -----------------------------
(***************************************************************************)
(* The life cycle of a PeerConnection (src/src/peer_connection.c) with the *)
(* two flows of control that drive it in examples/generic/main.c: the loop *)
(* (peer_connection_loop over and over) and the signaling handler          *)
(* (peer_signaling.c peer_signaling_on_pub_event and the calls it makes).  *)
(* No lock is taken, so with a thread for each they interleave between the *)
(* steps below; OneThread makes the two take turns.                        *)
(*                                                                         *)
(* The ICE agent is reduced to what its pair list can conclude (IceAgent   *)
(* has the detail), the keepalive to an expiry that may come at any time   *)
(* (Keepalive has the clock).  Remote descriptions are numbered by the     *)
(* session they belong to; the number stands for ufrag and fingerprint.    *)
(***************************************************************************)
EXTENDS Integers

CONSTANTS
  OneThread,    \* whether loop and signaling run in one thread
  DataChannel,  \* config.datachannel # DATA_CHANNEL_NONE
  Answered,     \* the sessions this side may answer; any may be offered
  MaxSessions   \* bound: local descriptions created

ASSUME PeerConnectionAssumption ==
  /\ OneThread \in BOOLEAN /\ DataChannel \in BOOLEAN
  /\ MaxSessions \in Nat /\ Answered \subseteq 1 .. MaxSessions

VARIABLES
  state,    \* PeerConnection.state
  loop,     \* where peer_connection_loop is
  target,   \* the state its STATE_CHANGED is about to assign
  sig,      \* where the signaling handler is
  ice,      \* what the candidate pairs can conclude
  dtls,     \* DtlsSrtp.state: not initialised, INIT, CONNECTED
  keyless,  \* history: SRTP keys could not be derived since DTLS was initialised
  cert,     \* the session of the peer certificate the handshake met, 0: none
  remote,   \* the session of remote_ufrag and remote_fingerprint
  sctp,     \* Sctp.connected
  session,  \* history: local descriptions created
  behind,   \* history: new pairs queue behind an earlier description's success
  app       \* the state the application was last told

vars == <<state, loop, target, sig, ice, dtls, keyless, cert, remote, sctp, session, behind, app>>
dtlsVars == <<dtls, keyless, cert, sctp>>

PCStates == {"CLOSED", "NEW", "CHECKING", "CONNECTED", "COMPLETED", "FAILED",
             "DISCONNECTED"}

\* peer_connection_create: calloc, and CLOSED is 0.
Init ==
  /\ state = "CLOSED"
  /\ loop = "out" /\ target = "CLOSED" /\ sig = "out"
  /\ ice = "none"
  /\ dtls = "none" /\ keyless = FALSE /\ cert = 0 /\ remote = 0
  /\ sctp = FALSE
  /\ session = 0 /\ behind = FALSE
  /\ app = "CLOSED"

LoopMayRun == OneThread => sig = "out"
SigMayRun == OneThread => loop = "out"

-----------------------------------------------------------------------------
(* STATE_CHANGED: test, callback, then the assignment. *)
LoopChangesTo(t) ==
  IF state # t
  THEN app' = t /\ target' = t /\ loop' = "assign" /\ UNCHANGED state
  ELSE loop' = "out" /\ UNCHANGED <<app, target, state>>

LoopAssign ==
  /\ loop = "assign" /\ LoopMayRun
  /\ state' = target
  /\ loop' = "out"
  /\ UNCHANGED <<target, sig, ice, remote, session, behind, app, dtlsVars>>

-----------------------------------------------------------------------------
(* peer_connection_loop *)
LoopEnter ==
  /\ loop = "out" /\ LoopMayRun
  /\ loop' = CASE state = "CHECKING"  -> "checking"
               [] state = "CONNECTED" -> "handshake"
               [] state = "COMPLETED" -> "serve"
               [] OTHER               -> "out"
  /\ UNCHANGED <<state, target, sig, ice, remote, session, behind, app, dtlsVars>>

\* CHECKING: the pairs are exhausted, one was answered, or neither.  A pair
\* that succeeded earlier is found first and never checked again.
IceFails == ice \in {"none", "untried", "failed"}

CheckingFails ==
  /\ loop = "checking" /\ LoopMayRun /\ IceFails
  /\ LoopChangesTo("FAILED")
  /\ ice' = IF ice = "none" THEN ice ELSE "failed"
  /\ UNCHANGED <<sig, remote, session, behind, dtlsVars>>

CheckingSucceeds ==
  /\ loop = "checking" /\ LoopMayRun /\ ice = "untried"
  /\ LoopChangesTo("CONNECTED")
  /\ ice' = "succeeded"
  /\ UNCHANGED <<sig, remote, session, behind, dtlsVars>>

CheckingGoesOn ==
  /\ loop = "checking" /\ LoopMayRun /\ ice \in {"untried", "succeeded"}
  /\ loop' = "out"
  /\ UNCHANGED <<state, target, sig, ice, remote, session, behind, app, dtlsVars>>

\* CONNECTED: the handshake exports the SRTP keys before it returns; a server
\* starts over in every pass.  The certificate may be one of an earlier
\* session's peer that still talks.
DeriveKeys ==
  /\ loop = "handshake" /\ LoopMayRun /\ dtls # "none"
  /\ dtls' = "CONNECTED"
  /\ cert' \in 1 .. session
  /\ UNCHANGED <<state, loop, target, sig, ice, keyless, remote, sctp, session, behind, app>>

\* Deriving them fails, or libSRTP refuses them: the export callback drops the
\* error, the handshake goes on and ends as if it had keys.
DeriveNoKeys ==
  /\ loop = "handshake" /\ LoopMayRun /\ dtls # "none"
  /\ keyless' = TRUE
  /\ cert' \in 1 .. session
  /\ UNCHANGED <<state, loop, target, sig, ice, dtls, remote, sctp, session, behind, app>>

\* The handshake failed, timed out, was cut short because the state is no
\* longer CONNECTED, or met a certificate of another fingerprint.
HandshakeFailsSilently ==            \* mutant: the error code not looked at
  /\ loop = "handshake" /\ LoopMayRun
  /\ LoopChangesTo("COMPLETED")
  /\ UNCHANGED <<sig, ice, remote, session, behind, dtlsVars>>
HandshakeFails ==
  /\ loop = "handshake" /\ LoopMayRun
  /\ loop' = "out"
  /\ UNCHANGED <<state, target, sig, ice, remote, session, behind, app, dtlsVars>>

AnyFingerprint == cert # 0          \* mutant: the fingerprints not compared
FingerprintMatches == cert # 0 /\ cert = remote

HandshakeDone ==
  /\ loop = "handshake" /\ LoopMayRun /\ FingerprintMatches
  /\ IF DataChannel
     THEN loop' = "associate" /\ UNCHANGED <<state, target, app>>
     ELSE LoopChangesTo("COMPLETED")
  /\ UNCHANGED <<sig, ice, remote, session, behind, dtlsVars>>

\* sctp_create_association, then the state.
Associate ==
  /\ loop = "associate" /\ LoopMayRun
  /\ LoopChangesTo("COMPLETED")
  /\ UNCHANGED <<sig, ice, remote, session, behind, dtlsVars>>

\* COMPLETED: what a datagram may do, then the keepalive.
Serve ==
  /\ loop = "serve" /\ LoopMayRun
  /\ sctp' \in IF DataChannel THEN BOOLEAN ELSE {sctp}
  /\ loop' = "keepalive"
  /\ UNCHANGED <<state, target, sig, ice, dtls, keyless, cert, remote, session, behind, app>>

KeepaliveHolds ==
  /\ loop = "keepalive" /\ LoopMayRun
  /\ loop' = "out"
  /\ UNCHANGED <<state, target, sig, ice, remote, session, behind, app, dtlsVars>>

KeepaliveExpires ==
  /\ loop = "keepalive" /\ LoopMayRun
  /\ LoopChangesTo("CLOSED")
  /\ UNCHANGED <<sig, ice, remote, session, behind, dtlsVars>>

-----------------------------------------------------------------------------
(* The signaling handler. *)

\* peer_connection_create_sdp: the association, the candidates (of an offer
\* only) and the DTLS session are reset.
CreateSdp ==
  /\ sctp' = FALSE
  /\ dtls' = "INIT" /\ keyless' = FALSE /\ cert' = 0
  /\ session' = session + 1

\* agent_update_candidate_pairs appends: an old success stays in front.
UpdatedPairs(old) == IF old = "succeeded" THEN old ELSE "untried"

\* RPC "offer": served in the states on_pub_event lists, read beforehand.
OfferStates == {"NEW", "DISCONNECTED", "FAILED", "CLOSED"}

OfferRequested ==
  /\ sig = "out" /\ SigMayRun
  /\ session < MaxSessions
  /\ state \in OfferStates
  /\ sig' = "offer"
  /\ UNCHANGED <<state, loop, target, ice, remote, session, behind, app, dtlsVars>>

CreateOffer ==
  /\ sig = "offer" /\ SigMayRun
  /\ CreateSdp
  /\ ice' = "none" /\ behind' = FALSE
  /\ sig' = "out"
  /\ UNCHANGED <<state, loop, target, remote, app>>

\* STATE_CHANGED(pc, CHECKING) in the handler.
SigChangesToChecking ==
  IF state # "CHECKING"
  THEN app' = "CHECKING" /\ sig' = "assign"
  ELSE sig' = "out" /\ UNCHANGED app

SigAssign ==
  /\ sig = "assign" /\ SigMayRun
  /\ state' = "CHECKING"
  /\ sig' = "out"
  /\ UNCHANGED <<loop, target, ice, remote, session, behind, app, dtlsVars>>

\* RPC "answer", possibly repeated: the ufrag known last is an update and
\* ignored; nothing else ties an answer to the offer it answers.
QueueBehind(a) == behind' = (behind \/ (ice = "succeeded" /\ a # remote))

NeverUpdate(a) == FALSE              \* mutant: is_update not looked at
IsUpdate(a) == remote = a

SetRemoteAnswer(a) ==
  /\ sig = "out" /\ SigMayRun
  /\ IF IsUpdate(a)
     THEN UNCHANGED <<ice, behind, remote, app, sig>>
     ELSE /\ remote' = a
          /\ ice' = UpdatedPairs(ice)
          /\ QueueBehind(a)
          /\ SigChangesToChecking
  /\ UNCHANGED <<state, loop, target, session, dtlsVars>>

\* The other side offers: its description is set and answered.
AnswerOffer ==
  /\ sig = "out" /\ SigMayRun /\ session + 1 \in Answered
  /\ remote' = session + 1
  /\ CreateSdp
  /\ ice' = UpdatedPairs(ice) /\ QueueBehind(session + 1)
  /\ SigChangesToChecking
  /\ UNCHANGED <<state, loop, target>>

\* RPC "close", or the application: peer_connection_close.
Close ==
  /\ sig = "out" /\ SigMayRun /\ state # "CLOSED"
  /\ state' = "CLOSED"
  /\ UNCHANGED <<loop, target, sig, ice, remote, session, behind, app, dtlsVars>>

-----------------------------------------------------------------------------
LoopStep ==
  \/ LoopEnter \/ LoopAssign
  \/ CheckingFails \/ CheckingSucceeds \/ CheckingGoesOn
  \/ DeriveKeys \/ DeriveNoKeys \/ HandshakeFails \/ HandshakeDone \/ Associate
  \/ Serve \/ KeepaliveHolds \/ KeepaliveExpires

SigFinishes == CreateOffer \/ SigAssign

SigStep ==
  \/ OfferRequested \/ AnswerOffer \/ Close \/ SigFinishes
  \/ \E a \in 1 .. session : SetRemoteAnswer(a)

Next == LoopStep \/ SigStep

Spec == Init /\ [][Next]_vars

\* The loop is called forever and a handler that started returns; a pair's
\* budget is finite (IceAgent Settles), so CHECKING does not go on forever
\* over untried pairs.
FairSpec ==
  /\ Spec
  /\ WF_vars(LoopStep) /\ WF_vars(SigFinishes)
  /\ SF_vars(CheckingFails \/ CheckingSucceeds)

-----------------------------------------------------------------------------
TypeOK ==
  /\ state \in PCStates /\ target \in PCStates /\ app \in PCStates
  /\ loop \in {"out", "checking", "handshake", "associate", "serve",
               "keepalive", "assign"}
  /\ sig \in {"out", "offer", "assign"}
  /\ ice \in {"none", "untried", "succeeded", "failed"}
  /\ dtls \in {"none", "INIT", "CONNECTED"} /\ keyless \in BOOLEAN
  /\ cert \in 0 .. MaxSessions /\ remote \in 0 .. MaxSessions
  /\ sctp \in BOOLEAN
  /\ session \in 0 .. MaxSessions /\ behind \in BOOLEAN

\* COMPLETED is the guard of every media send (peer_connection.c:203-204,
\* 211-212, 219): outside the signaling handler it stands for a connected
\* DTLS-SRTP session.  The exception is what the code does: nobody looks at
\* keys that could not be derived (dtls_srtp.c:344-367), and the connection is
\* COMPLETED without them.
CompletedMeansDtlsConnected ==
  state = "COMPLETED" /\ sig = "out" => dtls = "CONNECTED" \/ keyless

\* ... and for one whose peer proved the fingerprint of the current
\* description, with keys or without (dtls_srtp.c:446-459).
CompletedMeansAuthenticated == state = "COMPLETED" /\ sig = "out" => cert = remote

\* The data channel is open only over a DTLS session whose handshake met a
\* certificate: what peer_connection_datachannel_send checks is enough (231,
\* 466).
SctpRidesOnDtls == sctp => cert # 0

\* A handshake that met a certificate has connected the session, or could not
\* derive its keys.
KeysWereExported == cert # 0 => dtls = "CONNECTED" \/ keyless

\* Except while a STATE_CHANGED is under way the application knows the state,
\* unless peer_connection_close set it, which tells nobody (16-20, 198-200).
AppKnowsState ==
  loop # "assign" /\ sig # "assign" /\ state # "CLOSED" => app = state

\* The order of the states; closing and a new negotiation come any time.
LegalChange ==
  \/ state' \in {"CLOSED", "CHECKING", state}
  \/ state = "CHECKING" /\ state' \in {"CONNECTED", "FAILED"}
  \/ state = "CONNECTED" /\ state' = "COMPLETED"
LegalChanges == [][LegalChange]_vars

\* With one thread: what each stage of the loop and of the handler may rely
\* on, and that COMPLETED is reached with the fingerprints still compared.
Turns == loop = "out" \/ sig = "out"

LoopStages ==
  /\ loop = "checking" => state = "CHECKING"
  /\ loop = "handshake" => state = "CONNECTED"
  /\ loop = "associate" => state = "CONNECTED" /\ FingerprintMatches
  /\ loop \in {"serve", "keepalive"} => state = "COMPLETED"
  /\ loop = "assign" =>
       /\ app = target
       /\ \/ target = "CLOSED"
          \/ target \in {"CONNECTED", "FAILED"} /\ state = "CHECKING"
          \/ target = "COMPLETED" /\ state = "CONNECTED" /\ FingerprintMatches

Negotiated ==
  /\ sig = "offer" => state \in OfferStates /\ session < MaxSessions
  /\ sig = "assign" => app = "CHECKING"
  /\ sig = "out" /\ state = "COMPLETED" => FingerprintMatches

\* The inductive invariant of the one-threaded program.
IInv ==
  TypeOK /\ Turns /\ LoopStages /\ Negotiated /\ SctpRidesOnDtls /\ KeysWereExported
  /\ AppKnowsState

\* A negotiation that reached CHECKING leaves it, however often its answer
\* is repeated (393-458, 306-312).  The exception is what the code does: new
\* pairs that queue behind the success of an earlier description are never
\* checked, the old one is found first (agent.c:483, 523).
CheckingSettles == state = "CHECKING" ~> state # "CHECKING" \/ behind
================================================================================

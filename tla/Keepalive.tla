------------------------------- MODULE Keepalive -------------------------------
(***************************************************************************)
(* Consent checks and the keepalive of a connection (src/src               *)
(* peer_connection.c, agent.c and ports.c), in discrete time.              *)
(*                                                                         *)
(* Time 0 is the moment ICE succeeds, which is also the last time the      *)
(* keepalive was refreshed.  The DTLS handshake follows; once COMPLETED    *)
(* the loop runs at least every LoopPeriod.  A consent check is lost, or   *)
(* is answered within Rtt; while the peer is alive no two checks in a row  *)
(* are lost.  The clock the code reads is 32 bits wide and the differences *)
(* it takes are 64 bits wide.                                              *)
(***************************************************************************)
EXTENDS Integers

CONSTANTS
  Interval,      \* CONFIG_CONSENT_INTERVAL
  Timeout,       \* CONFIG_KEEPALIVE_TIMEOUT; 0 would switch either off
  Rtt,           \* a check that is answered at all is answered within Rtt
  LoopPeriod,    \* peer_connection_loop runs at least this often
  MaxHandshake,  \* how long the DTLS handshake may take
  StartClock,    \* what the clock reads at time 0
  ClockModulus,  \* 2^32: ports_get_epoch_time returns uint32_t
  WideModulus,   \* 2^64: binding_request_time is uint64_t
  Horizon        \* bound: time stops here

ASSUME KeepaliveAssumption ==
  /\ Interval \in Nat \ {0} /\ Timeout \in Nat \ {0} /\ Rtt \in Nat
  /\ LoopPeriod \in Nat /\ MaxHandshake \in Nat /\ Horizon \in Nat
  /\ ClockModulus \in Nat \ {0}
  /\ StartClock \in 0 .. ClockModulus - 1
  /\ WideModulus \in Nat \ {0}
  /\ ClockModulus <= WideModulus
  /\ Rtt <= Interval

VARIABLES
  now,        \* time since ICE succeeded
  phase,      \* CONNECTED (handshaking), COMPLETED, CLOSED
  lastLoop,   \* when the loop last ran
  consentAt,  \* PeerConnection.consent_request_time
  bindingAt,  \* Agent.binding_request_time
  check,      \* what became of the latest consent check
  alive       \* whether the peer still answers

keepaliveVars == <<now, phase, lastLoop, consentAt, bindingAt, check, alive>>

Phases == {"CONNECTED", "COMPLETED", "CLOSED"}
Fates == {"none", "lost", "inflight", "arrived", "answered"}

-----------------------------------------------------------------------------
\* ports_get_epoch_time: milliseconds since the epoch, cut to 32 bits.
Clock(t) == (StartClock + t) % ClockModulus

\* uint32_t minus uint64_t is an unsigned 64-bit difference.
Elapsed(since) == (Clock(now) - since) % WideModulus

\* A connection made with this PeerConnection before leaves its last
\* consent_request_time behind; a first one finds it zero.
KeepaliveInit ==
  /\ now = 0
  /\ phase = "CONNECTED"
  /\ lastLoop = 0
  /\ consentAt \in {0, StartClock}
  /\ bindingAt = StartClock
  /\ check = "none"
  /\ alive = TRUE

-----------------------------------------------------------------------------
\* The handshake reads datagrams through agent_recv: a binding request of
\* the peer refreshes the keepalive, the handshake's own records do not.
HandshakeRequest ==
  /\ phase = "CONNECTED" /\ alive
  /\ bindingAt' = Clock(now)
  /\ UNCHANGED <<now, phase, lastLoop, consentAt, check, alive>>

HandshakeDone ==
  /\ phase = "CONNECTED" /\ alive
  /\ phase' = "COMPLETED"
  /\ lastLoop' = now
  /\ UNCHANGED <<now, consentAt, bindingAt, check, alive>>

-----------------------------------------------------------------------------
\* One pass of the loop in COMPLETED.
CheckDue == Elapsed(consentAt) > Interval

\* What may be read: a consent answer, another datagram of the peer (media
\* or a binding request, each of which refreshes the keepalive), or nothing.
Reads ==
  (IF check = "arrived" THEN {"answer"} ELSE {"nothing"})
    \cup (IF alive THEN {"other"} ELSE {})

BindingAfterMediaOnly(read) ==      \* mutant: agent.c:388 forgotten
  IF read = "other" THEN Clock(now) ELSE bindingAt
BindingAfter(read) == IF read = "nothing" THEN bindingAt ELSE Clock(now)

\* The fate of a check sent now: no two in a row are lost by a live peer.
FatesOfNewCheck ==
  IF alive THEN {"inflight"} \cup (IF check = "lost" THEN {} ELSE {"lost"})
           ELSE {"lost"}

ConsentStep(read) ==
  IF CheckDue
  THEN consentAt' = Clock(now) /\ check' \in FatesOfNewCheck
  ELSE consentAt' = consentAt
       /\ check' = IF read = "answer" THEN "answered" ELSE check

KeepaliveExpiredLate(binding) ==     \* mutant: one more consent interval granted
  (Clock(now) - binding) % WideModulus > Timeout + Interval
KeepaliveExpired(binding) == (Clock(now) - binding) % WideModulus > Timeout

Serve ==
  /\ phase = "COMPLETED"
  /\ \E read \in Reads :
       /\ ConsentStep(read)
       /\ bindingAt' = BindingAfter(read)
       /\ phase' = IF KeepaliveExpired(bindingAt') THEN "CLOSED" ELSE phase
  /\ lastLoop' = now
  /\ UNCHANGED <<now, alive>>

-----------------------------------------------------------------------------
(* The environment: answers, the end of the peer, and the passing of time. *)
AnswerArrives ==
  /\ check = "inflight" /\ alive
  /\ check' = "arrived"
  /\ UNCHANGED <<now, phase, lastLoop, consentAt, bindingAt, alive>>

PeerFallsSilent ==
  /\ alive /\ phase # "CLOSED"
  /\ alive' = FALSE
  /\ check' = IF check = "inflight" THEN "lost" ELSE check
  /\ UNCHANGED <<now, phase, lastLoop, consentAt, bindingAt>>

Tick ==
  /\ now < Horizon
  /\ phase = "CONNECTED" => now < MaxHandshake
  /\ phase = "COMPLETED" => now < lastLoop + LoopPeriod
  /\ check = "inflight" => Elapsed(consentAt) < Rtt
  /\ now' = now + 1
  /\ UNCHANGED <<phase, lastLoop, consentAt, bindingAt, check, alive>>

KeepaliveNext ==
  \/ HandshakeRequest \/ HandshakeDone \/ Serve
  \/ AnswerArrives \/ PeerFallsSilent \/ Tick

KeepaliveSpec == KeepaliveInit /\ [][KeepaliveNext]_keepaliveVars

-----------------------------------------------------------------------------
(***************************************************************************)
(* What the tuning of the intervals has to respect.  config.h only says    *)
(* "well under"; this is how far under: the first check leaves at the      *)
(* latest FirstCheckBy after ICE succeeded, a lost one is repeated within  *)
(* Interval + LoopPeriod, and its answer takes Rtt.                        *)
(***************************************************************************)
Longer(a, b) == IF a > b THEN a ELSE b
FirstCheckBy == Longer(Interval, MaxHandshake) + LoopPeriod

Tuned == Timeout >= FirstCheckBy + (Interval + LoopPeriod) + Rtt

\* The clock does not reach 2^32 ms while the connection lasts.
NoClockWrap == StartClock + Horizon < ClockModulus

\* The keepalive ends a connection only when the peer really fell silent:
\* one lost consent check is survived (config.h:70-72, agent.c:385-388).
ClosedOnlyWhenSilent == phase = "CLOSED" => ~alive

\* A peer that falls silent is noticed: no COMPLETED connection goes
\* without any sign of life for longer than the timeout and one loop period
\* (peer_connection.c:374-377).
SilenceNoticed ==
  phase = "COMPLETED" => Elapsed(bindingAt) <= Timeout + LoopPeriod

-----------------------------------------------------------------------------
(* The inductive invariant, in true time. *)
KeepaliveTypeOK ==
  /\ now \in 0 .. Horizon
  /\ phase \in Phases
  /\ lastLoop \in 0 .. now
  /\ consentAt \in 0 .. StartClock + now
  /\ bindingAt \in StartClock .. StartClock + now
  /\ check \in Fates
  /\ alive \in BOOLEAN

\* When the loop last ran and when the last check left.
Paced ==
  /\ phase = "CONNECTED" => now <= MaxHandshake /\ check = "none"
  /\ phase = "COMPLETED" =>
       /\ now <= lastLoop + LoopPeriod
       /\ StartClock + lastLoop - bindingAt <= Timeout
       /\ IF check = "none"
          THEN consentAt <= StartClock /\ lastLoop <= Longer(Interval, MaxHandshake)
          ELSE StartClock + lastLoop - consentAt <= Interval
  /\ check = "none" => consentAt <= StartClock

\* How old the keepalive may be, by the fate of the latest check.
Fresh ==
  alive =>
    /\ phase # "CLOSED"
    /\ check = "answered" => bindingAt >= consentAt
    /\ check = "lost" => bindingAt >= consentAt - FirstCheckBy
    /\ check \in {"inflight", "arrived"} =>
         bindingAt >= consentAt - FirstCheckBy - (Interval + LoopPeriod)
    /\ check = "inflight" => StartClock + now <= consentAt + Rtt

\* The keepalive bookkeeping stays within the bounds Tuned is made of.
KeepaliveInv == KeepaliveTypeOK /\ Paced /\ Fresh
================================================================================

---------------------------------- MODULE Sctp ----------------------------------
(***************************************************************************)
(* The built-in SCTP of the data channel (src/src/sctp.c, the code of      *)
(* CONFIG_USE_USRSCTP=0): handshake, DATA in both directions, the SACK     *)
(* and the DCEP acknowledgement.  Everything runs in the loop thread.      *)
(*                                                                         *)
(* The peer is an SCTP implementation that retransmits INIT, COOKIE_ECHO   *)
(* and DATA until answered; sctp.c retransmits nothing.  DTLS drops        *)
(* duplicates, the network loses and reorders packets.                     *)
(*                                                                         *)
(* sctp->buf is one buffer for the reply that sctp_incoming_data prepares  *)
(* and for the chunks of sctp_outgoing_data; Reentrant lets the callbacks  *)
(* send, as examples/pico/main.c:34-38 does.  Sizes are in units of which  *)
(* PayloadMax fill a chunk.                                                *)
(***************************************************************************)
EXTENDS Integers, Sequences, FiniteSets

CONSTANTS
  PayloadMax,   \* payload_max: SCTP_MTU less the headers
  TsnModulus,   \* 2^32
  InitialTsn,   \* 1234
  Sizes,        \* lengths of messages the application sends
  PeerChunks,   \* bound: DATA chunks the peer sends, TSN 1 .. PeerChunks
  OpenTsns,     \* those that carry DATA_CHANNEL_OPEN
  InitialWindow, \* bound: chunks under way in the 0x100000 bytes of the INIT
  MaxUnderWay,  \* bound: packets under way in a direction; more are lost
  Reentrant     \* onmessage and onopen send

ASSUME SctpAssumption ==
  /\ PayloadMax \in Nat \ {0} /\ TsnModulus \in Nat \ {0}
  /\ InitialTsn \in 0 .. TsnModulus - 1
  /\ Sizes \subseteq 0 .. PayloadMax * 8 /\ {PeerChunks, InitialWindow, MaxUnderWay} \subseteq Nat
  /\ OpenTsns \subseteq 1 .. PeerChunks
  /\ Reentrant \in BOOLEAN

VARIABLES
  connected,  \* Sctp.connected
  tsn,        \* Sctp.tsn
  buf,        \* what became of the reply in Sctp.buf, which is cleared before each
  place,      \* where sctp_incoming_data is
  from,       \* TSN of the DATA chunk it handles, 0: of none
  left, iube, \* len and chunk->iube of sctp_outgoing_data; left = 0: not in it
  onopens,    \* history: calls of onopen since the last onclose
  size,       \* length of the message sent last
  out,        \* history: DATA chunks put on the wire since the last E bit
  handled,    \* history: TSNs handled
  peer,       \* state of the peer's association
  peerAck,    \* its cumulative TSN acknowledged
  peerSent,   \* the highest TSN it has sent
  wide,       \* history: the highest it sent before a SACK told it of 2 bytes
  toUs, toPeer \* packets under way

sendVars == <<tsn, left, iube, size, out>>
peerVars == <<peer, peerAck, peerSent, wide>>
sctpVars == <<connected, buf, place, from, onopens, handled, toUs, toPeer, sendVars, peerVars>>

Packet(type, n) == [type |-> type, tsn |-> n]
Control(type) == Packet(type, 0)

\* sctp_create_association: INIT goes out, once
SctpInit ==
  /\ connected = FALSE /\ onopens = 0
  /\ tsn = InitialTsn
  /\ buf = "none" /\ place = "idle" /\ from = 0
  /\ left = 0 /\ iube = 0
  /\ size = 0 /\ out = << >> /\ handled = {}
  /\ peer = "closed" /\ peerAck = 0 /\ peerSent = 0 /\ wide = 0
  /\ toUs = {} /\ toPeer = {Control("INIT")}

-----------------------------------------------------------------------------
(* sctp_incoming_data: one chunk, and the reply left in buf. *)
Idle == place = "idle" /\ left = 0

Take(p) == p \in toUs /\ toUs' = toUs \ {p}

Carry(packets, p) ==
  IF Cardinality(packets) < MaxUnderWay THEN packets \cup {p} ELSE packets

Replies(type) == toPeer' = Carry(toPeer, Control(type))

ReceiveInit ==
  /\ Idle /\ Take(Control("INIT"))
  /\ Replies("INIT_ACK")
  /\ UNCHANGED <<connected, buf, place, from, onopens, handled, sendVars, peerVars>>

ReceiveInitAck ==
  /\ Idle /\ Take(Control("INIT_ACK"))
  /\ Replies("COOKIE_ECHO")
  /\ UNCHANGED <<connected, buf, place, from, onopens, handled, sendVars, peerVars>>

ConnectAlways ==                \* mutant: connected not looked at
  connected' = TRUE /\ onopens' = onopens + 1
Connect ==
  /\ connected' = TRUE
  /\ onopens' = IF connected THEN onopens ELSE onopens + 1

\* COOKIE_ACK is prepared, then onopen called
ReceiveCookieEcho ==
  /\ Idle /\ Take(Control("COOKIE_ECHO"))
  /\ Connect
  /\ buf' = "cookie_ack" /\ place' = IF connected THEN "reply" ELSE "onopen"
  /\ UNCHANGED <<from, handled, toPeer, sendVars, peerVars>>

ReceiveCookieAck ==
  /\ Idle /\ Take(Control("COOKIE_ACK"))
  /\ Connect
  /\ UNCHANGED <<buf, place, from, handled, toPeer, sendVars, peerVars>>

\* onclose is called whether or not the association was up
ReceiveAbort ==
  /\ Idle /\ Take(Control("ABORT"))
  /\ connected' = FALSE /\ onopens' = 0
  /\ UNCHANGED <<buf, place, from, handled, toPeer, sendVars, peerVars>>

\* DATA: the SACK is prepared, then the chunk is looked at.
Ends(c) == c.iube % 2 = 1
Begins(c) == (c.iube \div 2) % 2 = 1

PutChunk(first, len, flags) ==
  /\ out' = LET c == [first |-> first, len |-> len, iube |-> flags, tsn |-> tsn]
            IN  IF out # << >> /\ Ends(out[Len(out)]) THEN <<c>> ELSE Append(out, c)
  /\ tsn' = (tsn + 1) % TsnModulus

ReceiveOpen(n) ==
  /\ Idle /\ n \in OpenTsns /\ Take(Packet("DATA", n))
  /\ buf' = "sack+ack" /\ place' = "reply" /\ from' = n
  /\ handled' = handled \cup {n}
  /\ PutChunk(0, 1, 3)
  /\ UNCHANGED <<connected, onopens, left, iube, size, toPeer, peerVars>>

ReceiveMessage(n) ==
  /\ Idle /\ n \notin OpenTsns /\ Take(Packet("DATA", n))
  /\ buf' = "sack" /\ place' = "onmessage" /\ from' = n
  /\ handled' = handled \cup {n}
  /\ UNCHANGED <<connected, onopens, toPeer, sendVars, peerVars>>

CallbackReturns ==
  /\ place \in {"onmessage", "onopen"} /\ left = 0
  /\ place' = "reply"
  /\ UNCHANGED <<connected, buf, from, onopens, handled, toUs, toPeer, sendVars, peerVars>>

CumulativeAckNext(n) == n + 1   \* mutant: the TSN expected next
CumulativeAckLast(n) == n - 1   \* mutant: the TSN before
CumulativeAck(n) == n

Prepared ==
  IF buf = "cookie_ack" THEN Control("COOKIE_ACK")
  ELSE Packet("SACK", CumulativeAck(from))

\* What goes out is what buf holds by now, cut to the length of the reply.
Reply ==
  /\ place = "reply"
  /\ toPeer' = IF buf = "data" THEN toPeer ELSE Carry(toPeer, Prepared)
  /\ place' = "idle" /\ from' = 0 /\ buf' = "none"
  /\ UNCHANGED <<connected, onopens, handled, toUs, sendVars, peerVars>>

-----------------------------------------------------------------------------
(* sctp_outgoing_data, one chunk per step. *)
MayCall ==
  place = "idle" \/ (Reentrant /\ place \in {"onmessage", "onopen"} /\ buf # "data")

\* peer_connection_datachannel_send; nothing is sent of an empty message
Send(len) ==
  /\ left = 0 /\ MayCall /\ connected
  /\ size' = len /\ left' = len /\ iube' = 6
  /\ buf' = IF place = "idle" THEN buf ELSE "data"
  /\ UNCHANGED <<connected, place, from, onopens, handled, tsn, out, toUs, toPeer, peerVars>>

Put(len, flags) ==
  /\ PutChunk(size - left, len, flags)
  /\ left' = left - len
  /\ UNCHANGED <<connected, buf, place, from, onopens, handled, size, toUs, toPeer, peerVars>>

LongerAtLeast == left >= PayloadMax   \* mutant: the last full chunk in the loop
StillLonger == left > PayloadMax

SendFullChunk ==
  /\ left > 0 /\ StillLonger
  /\ Put(PayloadMax, iube)
  /\ iube' = 4

SendLastChunk ==
  /\ left > 0 /\ ~StillLonger
  /\ Put(left, iube + 1)
  /\ iube' = 0

-----------------------------------------------------------------------------
(* The peer and the network.                                               *)

\* INIT and INIT_ACK offer 0x100000 bytes, a SACK 2: one chunk may be out.
Window == IF peerAck = 0 THEN InitialWindow ELSE 1

PeerSends(p) == toUs' = Carry(toUs, p)

PeerInit ==
  /\ peer \in {"closed", "wait"}
  /\ peer' = "wait" /\ PeerSends(Control("INIT"))
  /\ UNCHANGED <<peerAck, peerSent, wide, toPeer>>

PeerRepeatsCookie ==
  /\ peer = "echoed" /\ PeerSends(Control("COOKIE_ECHO"))
  /\ UNCHANGED <<peerVars, toPeer>>

PeerRepeatsData ==
  /\ \E n \in peerAck + 1 .. peerSent : PeerSends(Packet("DATA", n))
  /\ UNCHANGED <<peerSent, wide>>

PeerNewData ==
  /\ peerSent < PeerChunks /\ peerSent - peerAck < Window
  /\ peerSent' = peerSent + 1
  /\ wide' = IF peerAck = 0 THEN peerSent' ELSE wide
  /\ PeerSends(Packet("DATA", peerSent'))

PeerData ==
  /\ peer = "up" /\ (PeerRepeatsData \/ PeerNewData)
  /\ UNCHANGED <<peer, peerAck, toPeer>>

PeerAborts ==
  /\ peer = "up" /\ peer' = "gone"
  /\ PeerSends(Control("ABORT"))
  /\ toPeer' = {}
  /\ UNCHANGED <<peerAck, peerSent, wide>>

PeerTake(p) == p \in toPeer /\ toPeer' = toPeer \ {p} /\ peer # "gone"

PeerGetsInit ==
  /\ PeerTake(Control("INIT")) /\ PeerSends(Control("INIT_ACK"))
  /\ UNCHANGED peerVars

PeerGetsInitAck ==
  /\ PeerTake(Control("INIT_ACK"))
  /\ IF peer = "wait" THEN peer' = "echoed" /\ PeerSends(Control("COOKIE_ECHO"))
     ELSE UNCHANGED <<peer, toUs>>
  /\ UNCHANGED <<peerAck, peerSent, wide>>

PeerGetsCookieEcho ==
  /\ PeerTake(Control("COOKIE_ECHO"))
  /\ peer' = "up" /\ PeerSends(Control("COOKIE_ACK"))
  /\ UNCHANGED <<peerAck, peerSent, wide>>

PeerGetsCookieAck ==
  /\ PeerTake(Control("COOKIE_ACK"))
  /\ peer' = IF peer = "echoed" THEN "up" ELSE peer
  /\ UNCHANGED <<peerAck, peerSent, wide, toUs>>

PeerGetsSack ==
  /\ \E n \in 0 .. PeerChunks + 1 :
       /\ PeerTake(Packet("SACK", n))
       /\ peerAck' = IF n > peerAck THEN n ELSE peerAck
  /\ UNCHANGED <<peer, peerSent, wide, toUs>>

\* a packet that never arrives is lost at the moment it would be read
Lose ==
  /\ \/ \E p \in toUs : Idle /\ toUs' = toUs \ {p} /\ UNCHANGED toPeer
     \/ \E p \in toPeer : toPeer' = toPeer \ {p} /\ UNCHANGED toUs
  /\ UNCHANGED peerVars

PeerReceives ==
  \/ PeerGetsInit \/ PeerGetsInitAck \/ PeerGetsCookieEcho \/ PeerGetsCookieAck
  \/ PeerGetsSack

PeerRetransmits == PeerInit \/ PeerRepeatsCookie \/ PeerData

WeStay == UNCHANGED <<connected, buf, place, from, onopens, handled, sendVars>>

Network ==
  /\ PeerRetransmits \/ PeerAborts \/ PeerReceives \/ Lose
  /\ WeStay

-----------------------------------------------------------------------------
Receive ==
  \/ ReceiveInit \/ ReceiveInitAck \/ ReceiveCookieEcho \/ ReceiveCookieAck
  \/ ReceiveAbort
  \/ \E n \in 1 .. PeerChunks : ReceiveOpen(n) \/ ReceiveMessage(n)

Continue == CallbackReturns \/ Reply \/ SendFullChunk \/ SendLastChunk

SctpNext ==
  \/ Receive \/ Continue
  \/ \E len \in Sizes : Send(len)
  \/ Network

SctpSpec == SctpInit /\ [][SctpNext]_sctpVars

(* The loop thread keeps running, the peer repeats what is not acknowledged, *)
(* and of the packets sent again and again some get through.                 *)
Fairness ==
  /\ WF_sctpVars(Continue) /\ SF_sctpVars(Receive)
  /\ WF_sctpVars(PeerData /\ WeStay)
  /\ SF_sctpVars(PeerReceives /\ WeStay)

SctpFairSpec == SctpSpec /\ Fairness

-----------------------------------------------------------------------------
(* Properties *)

SctpTypeOK ==
  /\ connected \in BOOLEAN /\ buf \in {"none", "cookie_ack", "sack", "sack+ack", "data"}
  /\ place \in {"idle", "onmessage", "onopen", "reply"} /\ from \in 0 .. PeerChunks
  /\ left \in 0 .. size /\ iube \in {0, 4, 6}
  /\ tsn \in 0 .. TsnModulus - 1
  /\ handled \subseteq 1 .. PeerChunks /\ {peerAck, peerSent, wide} \subseteq Nat

\* However often INIT, COOKIE_ECHO and COOKIE_ACK arrive, and from whichever
\* of the two handshakes that run at once, onopen is called exactly once per
\* association: the application never opens its channel twice.
OpenedOnce == SctpTypeOK /\ onopens = IF connected THEN 1 ELSE 0

\* What a receiver of RFC 4960 (6.9) puts together: consecutive TSNs, the
\* first and only the first with the B bit, the last and only the last with E.
OneRun ==
  \A i \in DOMAIN out :
    /\ Begins(out[i]) <=> i = 1
    /\ Ends(out[i]) <=> i = Len(out)
    /\ i > 1 => out[i].tsn = (out[i - 1].tsn + 1) % TsnModulus

WholeMessage ==
  /\ \A i \in DOMAIN out : out[i].len \in 1 .. PayloadMax
  /\ out[1].first = 0
  /\ \A i \in (DOMAIN out) \ {1} : out[i].first = out[i - 1].first + out[i - 1].len
  /\ out[Len(out)].first + out[Len(out)].len = size

DcepAck == Len(out) = 1 /\ out[1].iube = 3

\* Whatever DCEP acknowledgements and messages of other lengths go out around
\* it, the peer reassembles every message sent, whole, and nothing that is
\* not a message (sctp_outgoing_data's B and E bits, lengths and TSNs).
FragmentsReassemble ==
  left = 0 /\ size > 0 /\ out # << >> => OneRun /\ (WholeMessage \/ DcepAck)

\* The peer discards what is acknowledged.  SACKs carry the TSN just seen as
\* cumulative; across loss, late retransmissions and late SACKs nothing is
\* acknowledged that the application did not get.  The exception is what the
\* code does: of the chunks that went out in the window of the INIT, before a
\* SACK closed it to one, a later one that arrived acknowledges a lost one.
Overtaken(n) == \E m \in handled : n < m /\ m <= wide

AckedIsDelivered == \A n \in 1 .. peerAck : n \in handled \/ Overtaken(n)

\* A peer whose association is up gets all of its chunks acknowledged,
\* although any one packet may be lost, or aborts.  The exception is what the
\* code does: a message sent from a callback overwrites the reply prepared in
\* the same buffer ("prepare outgoing packet", sctp.c:245), and the peer
\* repeats the chunk for as long as the application answers it.
SackOverwritten == place = "reply" /\ buf = "data"

AllAcknowledged ==
  <>[](~SackOverwritten) =>
    (peer = "up" ~> (peerAck = PeerChunks \/ peer = "gone"))

=============================================================================

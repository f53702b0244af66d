------------------------------- MODULE Signaling -------------------------------
(***************************************************************************)
(* Signaling (src/src/peer_signaling.c) over its transports                *)
(* (ssl_transport.c, tcp_transport.c): an MQTT session on which            *)
(* controllers send JSON-RPC requests, or one HTTP POST per description    *)
(* (WHIP).  Everything here runs in the thread that calls                  *)
(* peer_signaling_connect and peer_signaling_loop.  What a request does to *)
(* the connection, whose own loop moves its state at any time, is in       *)
(* PeerConnection; here only the state a request meets matters.  The MQTT  *)
(* and HTTP clients are libraries.                                         *)
(***************************************************************************)
EXTENDS Integers, Sequences, FiniteSets

CONSTANTS
  Methods,       \* RPC methods a controller sends; "bad" is one that is not parsed
  StatesMet,     \* states of the connection a request may meet
  MaxRequests,   \* bound: requests
  MaxConnects,   \* bound: calls of peer_signaling_connect
  MaxReoffers    \* bound: offers the application makes on its own

ASSUME SignalingAssumption ==
  /\ {MaxRequests, MaxConnects, MaxReoffers} \subseteq Nat
  /\ "none" \notin Methods /\ "none" \notin StatesMet

VARIABLES
  proto,     \* g_ps.proto
  mqtt,      \* the MQTT session: "off", "up", "lost"
  subscribed,\* the broker forwards requests to this client
  fromBroker,\* requests on their way from the broker
  askedId,   \* g_ps.id
  at,        \* where the thread is
  request,   \* the request of peer_signaling_on_pub_event
  leaving,   \* inside the ProcessLoop of the unsubscription
  taken,     \* history: requests handled, with the state they were handled in
  replies,   \* history: what was given to MQTT_Publish, with its id
  posted,    \* history: ids of requests whose description was posted
  asked, connects, reoffers

requestVars == <<askedId, request, taken, replies>>
sigVars == <<proto, mqtt, subscribed, fromBroker, requestVars, at, leaving, posted,
             asked, connects, reoffers>>

\* A controller numbers its requests; the first one may use 0.
NoRequest == [id |-> 0, method |-> "none", seen |-> "none"]

SignalingInit ==
  /\ proto = "MQTT" /\ mqtt = "off" /\ subscribed = FALSE /\ fromBroker = << >>
  /\ askedId = 0 /\ at = "idle" /\ request = NoRequest /\ leaving = FALSE
  /\ taken = {} /\ replies = << >> /\ posted = {}
  /\ asked = 0 /\ connects = 0 /\ reoffers = 0

-----------------------------------------------------------------------------
(* Controllers and broker                                                  *)

\* The subscription is of QoS 0, so that a request is delivered once or not at all; a
\* controller numbers its requests, and may use 0.
ControllerSends ==
  /\ subscribed /\ asked < MaxRequests
  /\ \E m \in Methods, id \in {asked + 1} \cup {n \in {0} : asked = 0} :
       LET number == IF m = "bad" THEN -1 ELSE id
       IN  fromBroker' = Append(fromBroker, [id |-> number, method |-> m, seen |-> "none"])
  /\ asked' = asked + 1
  /\ UNCHANGED <<proto, mqtt, subscribed, requestVars, at, leaving, posted,
                 connects, reoffers>>

\* Requests of QoS 0 are gone with the session.
SessionLost ==
  /\ mqtt = "up"
  /\ mqtt' = "lost" /\ subscribed' = FALSE /\ fromBroker' = << >>
  /\ UNCHANGED <<proto, requestVars, at, leaving, posted, asked, connects, reoffers>>

-----------------------------------------------------------------------------
(* Connecting and disconnecting                                            *)

\* What peer_signaling_resolve_url may say: any other URL is refused.
Protocols == {"MQTT", "HTTP", "none"}

\* A session that is still up is forgotten, not closed.
ConnectSignaling ==
  /\ at = "idle" /\ connects < MaxConnects
  /\ \E p \in Protocols :
       /\ proto' = p
       /\ at' = CASE p = "MQTT" -> "connecting" [] p = "HTTP" -> "offering" [] OTHER -> "idle"
       /\ IF p = "MQTT" THEN mqtt' = "off" /\ subscribed' = FALSE /\ fromBroker' = << >>
          ELSE UNCHANGED <<mqtt, subscribed, fromBroker>>
  /\ connects' = connects + 1
  /\ UNCHANGED <<requestVars, leaving, posted, asked, reoffers>>

\* ssl_transport_connect fails before the TLS handshake or repeats it until it
\* succeeds, which may be never.
Connecting == {"off", "up"}

\* MQTT_Connect, then the subscription, which the broker may still know from an
\* earlier session; the first ProcessLoop may already bring a request.
MqttConnect ==
  /\ at = "connecting"
  /\ \/ at' = "idle" /\ mqtt' \in Connecting
        /\ subscribed' \in IF mqtt' = "up" THEN BOOLEAN ELSE {FALSE}
     \/ at' = "processing" /\ mqtt' = "up" /\ subscribed' = TRUE
  /\ UNCHANGED <<proto, fromBroker, requestVars, leaving, posted, asked, connects, reoffers>>

\* peer_signaling_loop: a session that was lost is not made again.
Loop ==
  /\ at = "idle" /\ mqtt = "up" /\ fromBroker # << >>
  /\ at' = "processing"
  /\ UNCHANGED <<proto, mqtt, subscribed, fromBroker, requestVars, leaving, posted,
                 asked, connects, reoffers>>

\* MQTT_ProcessLoop brings a request or nothing.
ProcessNothing ==
  /\ at = "processing"
  /\ at' = IF leaving THEN "leaving" ELSE "idle"
  /\ UNCHANGED <<proto, mqtt, subscribed, fromBroker, requestVars, leaving, posted,
                 asked, connects, reoffers>>

\* peer_signaling_disconnect: nothing to do for HTTP; without the unsubscription
\* the session stays.
Disconnect ==
  /\ at = "idle" /\ proto = "MQTT" /\ mqtt = "up"
  /\ subscribed' = FALSE /\ leaving' = TRUE /\ at' = "processing"
  /\ UNCHANGED <<proto, mqtt, fromBroker, requestVars, posted, asked, connects, reoffers>>

Disconnected ==
  /\ at = "leaving"
  /\ at' = "idle" /\ leaving' = FALSE
  /\ IF mqtt = "up" THEN mqtt' = "off" /\ fromBroker' = << >> ELSE UNCHANGED <<mqtt, fromBroker>>
  /\ UNCHANGED <<proto, subscribed, requestVars, posted, asked, connects, reoffers>>

-----------------------------------------------------------------------------
(* peer_signaling_on_pub_event                                             *)

Offerable == {"NEW", "DISCONNECTED", "FAILED", "CLOSED"}

\* The state is read before the request is parsed.
TakeRequest ==
  /\ at = "processing" /\ fromBroker # << >>
  /\ fromBroker' = Tail(fromBroker)
  /\ \E s \in StatesMet : request' = [Head(fromBroker) EXCEPT !.seen = s]
  /\ at' = "handling"
  /\ UNCHANGED <<proto, mqtt, subscribed, askedId, taken, replies, leaving, posted,
                 asked, connects, reoffers>>

\* What is published may be lost, with the session or after the retries of
\* ssl_transport_send; nobody looks.
Published(id, what) == replies' = Append(replies, [id |-> id, what |-> what])

\* The end of the handler, back in ProcessLoop.
Handled == taken' = taken \cup {request} /\ request' = NoRequest /\ at' = "processing"

HandleOffer ==
  /\ at = "handling" /\ request.method = "offer"
  /\ IF request.seen \in Offerable
     THEN askedId' = request.id /\ at' = "offering" /\ UNCHANGED <<request, taken, replies>>
     ELSE Published(request.id, "error") /\ Handled /\ UNCHANGED askedId
  /\ UNCHANGED <<proto, mqtt, subscribed, fromBroker, leaving, posted,
                 asked, connects, reoffers>>

\* The answer is set, or ignored as an update; nothing is published.
HandleAnswer ==
  /\ at = "handling" /\ request.method = "answer"
  /\ Handled
  /\ UNCHANGED <<proto, mqtt, subscribed, fromBroker, askedId, replies, leaving, posted,
                 asked, connects, reoffers>>

HandleOther ==
  /\ at = "handling" /\ request.method \notin {"offer", "answer"}
  /\ Published(request.id, CASE request.method = "state" -> request.seen
                             [] request.method = "close" -> ""
                             [] OTHER -> "error")
  /\ Handled
  /\ UNCHANGED <<proto, mqtt, subscribed, fromBroker, askedId, leaving, posted,
                 asked, connects, reoffers>>

-----------------------------------------------------------------------------
(* peer_connection_create_offer and peer_signaling_onicecandidate          *)

\* The application offers on its own, as the message of peer_connection.c:444-449
\* asks for; its callback is registered by peer_signaling_connect.
Reoffer ==
  /\ at = "idle" /\ connects > 0 /\ reoffers < MaxReoffers
  /\ at' = "offering" /\ reoffers' = reoffers + 1
  /\ UNCHANGED <<proto, mqtt, subscribed, fromBroker, requestVars, leaving, posted,
                 asked, connects>>

\* Back where the offer was made from.
OfferReturns ==
  IF request = NoRequest THEN at' = "idle" /\ UNCHANGED <<request, taken>> ELSE Handled

\* With an id asked for, the description is the result of that request.
OnicecandidateKeepingId ==          \* mutant: the id is not reset
  /\ at = "offering" /\ askedId > 0
  /\ Published(askedId, "description")
  /\ OfferReturns
  /\ UNCHANGED <<askedId, proto, mqtt, subscribed, fromBroker, leaving, posted, asked, connects, reoffers>>
Onicecandidate ==
  /\ at = "offering" /\ askedId > 0
  /\ Published(askedId, "description") /\ askedId' = 0
  /\ OfferReturns
  /\ UNCHANGED <<proto, mqtt, subscribed, fromBroker, leaving, posted, asked, connects, reoffers>>

\* Without one it is posted, whatever the protocol.  The connection or the
\* request fails, the server refuses, or 201 brings an answer to set.
HttpPost ==
  /\ at = "offering" /\ askedId <= 0
  /\ posted' = posted \cup (IF request = NoRequest THEN {} ELSE {request.id})
  /\ OfferReturns
  /\ UNCHANGED <<proto, mqtt, subscribed, fromBroker, askedId, replies, leaving, asked, connects, reoffers>>

-----------------------------------------------------------------------------
SignalingNext ==
  \/ ControllerSends \/ SessionLost
  \/ ConnectSignaling \/ MqttConnect \/ Loop \/ ProcessNothing \/ Disconnect \/ Disconnected
  \/ TakeRequest \/ HandleOffer \/ HandleAnswer \/ HandleOther
  \/ Reoffer \/ Onicecandidate \/ HttpPost

SignalingSpec == SignalingInit /\ [][SignalingNext]_sigVars

-----------------------------------------------------------------------------
RepliesTo(id) == {n \in DOMAIN replies : replies[n].id = id}

\* What a handled request gets as its reply, "none" for no reply.
Due(r) ==
  CASE r.method = "answer" -> "none"
    [] r.method = "offer"  -> IF r.seen \in Offerable THEN "description" ELSE "error"
    [] r.method = "state"  -> r.seen
    [] r.method = "close"  -> ""
    [] OTHER               -> "error"

\* Every request is replied to once, with what is due to it, and nothing else is
\* published, through reconnections, requests that come while unsubscribing and
\* offers the application makes on its own (peer_signaling.c:171-263, 503-531).
\* An offer with the id 0 gets no reply: its description is posted instead
\* (line 506), to the host of the broker.
RepliedOnce ==
  /\ \A r \in taken : r.id > 0 =>
       IF Due(r) = "none" THEN RepliesTo(r.id) = {}
       ELSE \E n \in RepliesTo(r.id) : RepliesTo(r.id) = {n} /\ replies[n].what = Due(r)
  /\ \A n \in DOMAIN replies : replies[n].id > 0 => \E r \in taken : r.id = replies[n].id
  /\ posted \subseteq {0}
================================================================================

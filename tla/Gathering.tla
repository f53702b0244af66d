------------------------------- MODULE Gathering -------------------------------
(***************************************************************************)
(* Candidate gathering (src/src/agent.c agent_gather_candidate, called for *)
(* the host and for each ICE server by peer_connection_create_sdp) and the *)
(* binding requests of peers that arrive on the same socket, in terms of   *)
(* the messages of StunMessage.                                            *)
(*                                                                         *)
(* Waiting for a server is agent_socket_recv_attempts: a number of polls,  *)
(* and the first datagram that arrives is the answer, whoever sent it.     *)
(* The network delays, loses and reorders: a datagram under way may be     *)
(* received at any poll, or never.                                         *)
(***************************************************************************)
EXTENDS StunMessage

CONSTANTS
  ServerLists,   \* values of config.ice_servers, sequences of "stun", "turn"
  MaxHosts,      \* interfaces and families that may have an address
  MaxCandidates, \* AGENT_MAX_CANDIDATES
  MaxTimes,      \* AGENT_STUN_RECV_MAXTIMES
  BufSize,       \* STUN_ATTR_BUF_SIZE
  UsernameLens,  \* lengths of the TURN user's name
  MaxRounds,     \* bound: local descriptions created
  MaxDatagrams   \* bound: datagrams on their way to this side

ASSUME GatheringAssumption ==
  /\ {MaxHosts, MaxCandidates, MaxTimes, BufSize, MaxRounds, MaxDatagrams} \subseteq Nat
  /\ UsernameLens \subseteq Nat /\ ServerLists \subseteq Seq({"stun", "turn"})

VARIABLES
  servers,   \* config.ice_servers
  user,      \* its username's length and whether its credential is right
  round,     \* local descriptions created; stands for local_upwd
  pos,       \* i of create_sdp's loop over the servers
  step,      \* where gathering is; "idle" outside it
  polls,     \* i of agent_socket_recv_attempts
  sent,      \* send_msg as it went out
  recv,      \* recv_msg
  local,     \* local_candidates
  inbox,     \* datagrams under way
  refused,   \* history: a server refused a request with integrity
  replied    \* history: sessions whose binding requests the current one replied to

agentVars == <<round, pos, step, polls, sent, recv, local, replied>>
gatherVars == <<servers, user, inbox, refused, agentVars>>

Nothing == [type |-> REQUEST, length |-> 0, size |-> 0, attrs |-> << >>]

RightPassword == 0       \* what the TURN server knows; local_upwd is 1, 2, ...
WrongPassword == -1

GatherInit ==
  /\ servers \in ServerLists
  /\ user \in [len : UsernameLens, password : {RightPassword, WrongPassword}]
  /\ round = 0 /\ pos = 0 /\ step = "idle" /\ polls = 0
  /\ sent = Nothing /\ recv = Nothing /\ local = << >>
  /\ inbox = {} /\ refused = FALSE /\ replied = {}

-----------------------------------------------------------------------------
(* Servers: each answers at once, and the answer or the request may be lost. *)
AddressAttr == 8
NonceLen == 5
RealmLen == 6

BindingAnswer ==
  WriteAttr(Create(BINDING + RESPONSE), "XOR_MAPPED_ADDRESS", AddressAttr, "public")

RefusalAnswer ==
  WriteAttr(WriteAttr(Create(ALLOCATE + ERROR), "REALM", RealmLen, "realm"),
            "NONCE", NonceLen, "nonce")

AllocateAnswer ==
  WriteAttr(WriteAttr(WriteAttr(Create(ALLOCATE + RESPONSE),
    "XOR_RELAYED_ADDRESS", AddressAttr, "relay"),
    "XOR_MAPPED_ADDRESS", AddressAttr, "public"), "LIFETIME", 4, "600")

\* RFC 5389 15.4: the HMAC is over the message up to MESSAGE_INTEGRITY, with
\* a length that ends with it, keyed with the long-term credential.
Authentic(buf) ==
  \E i \in DOMAIN buf.attrs :
    /\ buf.attrs[i].type = "MESSAGE_INTEGRITY"
    /\ buf.attrs[i].value =
         [key |-> <<Read(buf, {"USERNAME"}).text, "realm", RightPassword>>,
          over |-> Bytes(buf.type, AttrsSize(SubSeq(buf.attrs, 1, i)),
                         SubSeq(buf.attrs, 1, i - 1))]

Answer(buf) ==
  CASE MethodOf(buf.type) = "BINDING" -> BindingAnswer
    [] MethodOf(buf.type) = "ALLOCATE" /\ Authentic(buf) -> AllocateAnswer
    [] OTHER -> RefusalAnswer

OnItsWay(ask, msg) == inbox' = inbox \cup {[ask |-> ask, data |-> Wire(msg)]}

Room == Cardinality(inbox) < MaxDatagrams

ServerAnswers(ask, buf) ==
  \/ UNCHANGED <<inbox, refused>>
  \/ /\ Room
     /\ OnItsWay(ask, Answer(buf))
     /\ refused' = (refused \/ (ask[3] = "turn2" /\ ~Authentic(buf)))

-----------------------------------------------------------------------------
(* peer_connection_create_sdp: new credentials, the host's addresses; an    *)
(* offer clears the candidates of before, an answer does not.               *)
Host == [type |-> "HOST", addr |-> "host", answered |-> TRUE]

HostCandidates(n) == [i \in 1 .. n |-> Host]

CreateLocalSdp(offer) ==
  /\ step = "idle" /\ round < MaxRounds
  /\ round' = round + 1
  /\ \E n \in 0 .. MaxHosts :
       local' = (IF offer THEN << >> ELSE local) \o HostCandidates(n)
  /\ pos' = 1 /\ step' = "next" /\ replied' = {}
  /\ UNCHANGED <<servers, user, polls, sent, recv, inbox, refused>>

\* The request an answer that arrives now is taken to answer.
Asked == <<round, pos, step>>

Request(next, msg) ==
  /\ sent' = Wire(msg) /\ step' = next /\ polls' = 0
  /\ ServerAnswers(<<round, pos, next>>, Wire(msg))

Allocate ==
  WriteAttr(WriteAttr(Create(ALLOCATE + REQUEST), "REQUESTED_TRANSPORT", 4, "UDP"),
            "USERNAME", user.len, "user")

\* The second request, with the realm and the nonce of the refusal.
AllocateAuthenticated(buf) ==
  LET nonce == WriteAttr(Allocate, "NONCE", NonceLen, Read(buf, {"NONCE"}).text)
      realm == WriteAttr(nonce, "REALM", RealmLen, Read(buf, {"REALM"}).text)
  IN  Finish(realm, LongTerm(realm, user.password))

\* The messages and the loop of attempts are locals of a server's turn.
OnToNext ==
  /\ step' = "next" /\ pos' = pos + 1
  /\ polls' = 0 /\ sent' = Nothing /\ recv' = Nothing

\* agent_gather_candidate: a name that does not resolve is passed over.
NextServer ==
  /\ step = "next" /\ pos <= Len(servers)
  /\ \/ OnToNext /\ UNCHANGED <<inbox, refused>>
     \/ servers[pos] = "stun" /\ Request("stun", Create(BINDING + REQUEST))
        /\ UNCHANGED <<pos, recv>>
     \/ servers[pos] = "turn" /\ Request("turn", Allocate) /\ UNCHANGED <<pos, recv>>
  /\ UNCHANGED <<servers, user, round, local, replied>>

GatheringDone ==
  /\ step = "next" /\ pos > Len(servers)
  /\ step' = "idle" /\ pos' = 0
  /\ UNCHANGED <<servers, user, round, polls, sent, recv, local, replied, inbox, refused>>

-----------------------------------------------------------------------------
(* agent_socket_recv_attempts: MaxTimes polls, each ended by its timeout or  *)
(* by a datagram.                                                            *)
Polling == step \in {"stun", "turn", "turn2"} /\ polls < MaxTimes

PollTimeout ==
  /\ Polling
  /\ polls' = polls + 1
  /\ UNCHANGED <<servers, user, round, pos, step, sent, recv, local, replied, inbox,
                 refused>>

\* answered: the message was made for this request (not known to the code)
AddCandidate(type, addr, answered) ==
  local' = Append(local, [type |-> type, addr |-> addr, answered |-> answered])

\* The wait for the second answer of a TURN server has its return value
\* dropped: ret is still what the send returned, recv_msg the refusal.
GiveUp ==
  /\ step \in {"stun", "turn", "turn2"} /\ polls = MaxTimes
  /\ IF step = "turn2"
     THEN AddCandidate("RELAY", RelayedAddr(recv), FALSE)
     ELSE UNCHANGED local
  /\ OnToNext
  /\ UNCHANGED <<servers, user, round, replied, inbox, refused>>

TakeDatagram(d) == d \in inbox /\ inbox' = inbox \ {d}

ReceiveStun(d) ==
  /\ step = "stun" /\ Polling /\ TakeDatagram(d)
  /\ AddCandidate("SRFLX", MappedAddr(d.data), d.ask = Asked)
  /\ OnToNext
  /\ UNCHANGED <<servers, user, round, replied, refused>>

Refusal(buf) == ClassOf(buf.type) = "ERROR" /\ MethodOf(buf.type) = "ALLOCATE"

ReceiveRefusal(d) ==
  /\ step = "turn" /\ Polling /\ d \in inbox /\ Refusal(d.data)
  /\ recv' = d.data
  /\ LET msg == AllocateAuthenticated(d.data)
         ask == <<round, pos, "turn2">>
     IN  /\ sent' = Wire(msg) /\ step' = "turn2" /\ polls' = 0
         /\ \/ inbox' = inbox \ {d} /\ UNCHANGED refused
            \/ /\ inbox' = (inbox \ {d}) \cup {[ask |-> ask, data |-> Wire(Answer(Wire(msg)))]}
               /\ refused' = (refused \/ ~Authentic(Wire(msg)))
  /\ UNCHANGED <<servers, user, round, pos, local, replied>>

ReceiveOther(d) ==
  /\ step = "turn" /\ Polling /\ TakeDatagram(d) /\ ~Refusal(d.data)
  /\ OnToNext
  /\ UNCHANGED <<servers, user, round, local, replied, refused>>

ReceiveTurn2(d) ==
  /\ step = "turn2" /\ Polling /\ TakeDatagram(d)
  /\ AddCandidate("RELAY", RelayedAddr(d.data), d.ask = Asked)
  /\ OnToNext
  /\ UNCHANGED <<servers, user, round, replied, refused>>

\* agent_recv outside gathering: agent_process_stun_request; answers and
\* errors of servers change nothing here (IceAgent has the checks).
AgentRecv(d) ==
  /\ step = "idle" /\ TakeDatagram(d)
  /\ replied' =
       IF ClassOf(d.data.type) = "REQUEST" /\ MethodOf(d.data.type) = "BINDING"
          /\ IsValid(d.data, round)
       THEN replied \cup {d.ask[1]} ELSE replied
  /\ UNCHANGED <<servers, user, round, pos, step, polls, sent, recv, local, refused>>

-----------------------------------------------------------------------------
(* Peers and the network. *)

\* A peer's agent_create_binding_request, keyed with the password of the
\* description it has, perhaps one of an earlier round.
PeerRequest(s) ==
  LET username   == WriteAttr(Create(BINDING + REQUEST), "USERNAME", 9, "names")
      priority   == WriteAttr(username, "PRIORITY", 4, "priority")
      candidate  == WriteAttr(priority, "USE_CANDIDATE", 0, "none")
      controlled == WriteAttr(candidate, "ICE_CONTROLLING", 8, "tie")
  IN  Finish(controlled, ShortTerm(controlled, s))

PeerChecks ==
  /\ Room
  /\ \E s \in 1 .. round : OnItsWay(<<s, 0, "peer">>, PeerRequest(s))
  /\ UNCHANGED <<servers, user, refused, agentVars>>

LoseDatagram ==
  /\ \E d \in inbox : inbox' = inbox \ {d}
  /\ UNCHANGED <<servers, user, refused, agentVars>>

-----------------------------------------------------------------------------
AgentReceives(d) ==
  ReceiveStun(d) \/ ReceiveRefusal(d) \/ ReceiveOther(d) \/ ReceiveTurn2(d) \/ AgentRecv(d)

GatherNext ==
  \/ CreateLocalSdp(TRUE) \/ CreateLocalSdp(FALSE)
  \/ NextServer \/ GatheringDone \/ PollTimeout \/ GiveUp
  \/ \E d \in inbox : AgentReceives(d)
  \/ PeerChecks \/ LoseDatagram

GatherSpec == GatherInit /\ [][GatherNext]_gatherVars

-----------------------------------------------------------------------------
(* Properties *)

GatherTypeOK ==
  /\ step \in {"idle", "next", "stun", "turn", "turn2"}
  /\ round \in 0 .. MaxRounds /\ polls \in 0 .. MaxTimes
  /\ pos \in 0 .. Len(servers) + 1
  /\ Len(local) <= MaxCandidates
  /\ refused \in BOOLEAN /\ replied \subseteq 0 .. MaxRounds

\* Whatever attributes of whatever lengths were written and whether or not
\* the message was finished, what goes out is a whole number of words, as
\* long as its header says, within the buffer, and the parser's walk over it
\* ends exactly at its end (stun_msg_write_attr, stun_msg_finish,
\* stun_parse_msg_buf).
WellFormed(buf) ==
  /\ buf.length + HeaderSize = buf.size
  /\ buf.size % 4 = 0 /\ buf.size <= BufSize
  /\ WalkEndsAt(buf) = buf.size

MessagesWellFormed ==
  /\ GatherTypeOK
  /\ sent # Nothing => WellFormed(sent)
  /\ \A d \in inbox : WellFormed(d.data)

\* A TURN server never refuses the authenticated request of a user with the
\* right credential: key, padding and the length the HMAC covers are those a
\* server computes, whichever message the realm and nonce were taken from.
CredentialsWork == refused => user.password # RightPassword

\* A request is one its server can read and, with the right credential, one
\* it accepts (stun_msg_write_attr, stun_msg_finish, agent_create_turn_addr).
RequestsAccepted == MessagesWellFormed /\ CredentialsWork

\* Over renegotiations, a binding request is found valid exactly when it was
\* made with the credentials of the current description: late checks of an
\* earlier round are refused, none of the current one is.
CurrentChecksOnly ==
  /\ \A d \in inbox :
       d.ask[3] = "peer" => (IsValid(d.data, round) <=> d.ask[1] = round)
  /\ replied \subseteq {round}

\* A candidate without an address comes from nothing but a datagram that was
\* not an answer to the request (any is taken for it), a second TURN answer
\* that never came, or a refused credential; every other reflexive candidate
\* is the public address and every other relay candidate the relayed one.
AddressesReal ==
  \A i \in DOMAIN local :
    LET c == local[i]
    IN  c.type # "HOST" /\ c.answered /\ ~(c.type = "RELAY" /\ refused) =>
          c.addr = IF c.type = "SRFLX" THEN "public" ELSE "relay"
=============================================================================

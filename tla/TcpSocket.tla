------------------------------- MODULE TcpSocket -------------------------------
(***************************************************************************)
(* Connections over the one static Rp2040TcpSocket of the RP2040 port      *)
(* (src/src/socket.c), made and closed one after the other by              *)
(* tcp_transport_connect or ssl_transport_connect.  lwIP's callbacks come  *)
(* from an interrupt, for every pcb whose argument still is that socket.   *)
(*                                                                         *)
(* A pcb is the number of the connection it was made for.  Where the code  *)
(* stores 1 in connected or error, and bytes in the buffer, the model      *)
(* stores the pcb whose callback did it, 0 for none; how the buffer is     *)
(* read is in TcpRx.                                                       *)
(***************************************************************************)
EXTENDS Integers, Sequences, SequencesExt

CONSTANTS
  MaxPcbs,   \* bound: connections attempted
  RxRoom     \* segments the receive buffer has room for

ASSUME TcpSocketAssumption == {MaxPcbs, RxRoom} \subseteq Nat \ {0}

VARIABLES
  sock,    \* rp_sock: pcb, connected, error, rx_buf
  pcbs,    \* lwIP's pcbs so far: state, and whether callbacks lead to rp_sock
  caller,  \* where the caller is in open, connect and use
  left,    \* history: attached pcbs the code has forgotten
  heard    \* history: whose bytes the caller of the present connection got

socketVars == <<sock, pcbs, caller, left, heard>>

Current == Len(pcbs)
Cleared == [pcb |-> 0, connected |-> 0, error |-> 0, rx |-> << >>]

SocketInit ==
  /\ sock = Cleared /\ pcbs = << >>
  /\ caller = "idle" /\ left = {} /\ heard = {}

-----------------------------------------------------------------------------
(* tcp_socket_open: the socket is cleared before lwIP is locked. *)
Open ==
  /\ caller = "idle" /\ Len(pcbs) < MaxPcbs
  /\ sock' = Cleared /\ heard' = {}
  /\ caller' = "cleared"
  /\ UNCHANGED <<pcbs, left>>

NewPcb ==
  /\ caller = "cleared"
  /\ pcbs' = Append(pcbs, [st |-> "new", attached |-> TRUE])
  /\ sock' = [sock EXCEPT !.pcb = Len(pcbs')]
  /\ caller' = "opened"
  /\ UNCHANGED <<left, heard>>

\* The callers do not look at open's result; connect then finds no pcb.
OpenFails ==
  /\ caller = "cleared"
  /\ caller' = "idle"
  /\ UNCHANGED <<sock, pcbs, left, heard>>

-----------------------------------------------------------------------------
(* tcp_socket_connect *)
Alive == IF pcbs[Current].st = "freed" THEN {} ELSE {Current}

Connect ==
  /\ caller = "opened" /\ sock.pcb # 0
  /\ pcbs' = [pcbs EXCEPT ![sock.pcb].st = "opening"]
  /\ caller' = "waiting"
  /\ UNCHANGED <<sock, left, heard>>

\* -1: the name is unknown, there is no pcb any more, tcp_connect refuses,
\* an error was seen, or the time is up.  The callers return without a close.
ConnectFails ==
  /\ \/ caller = "opened"
     \/ caller = "waiting" /\ (sock.error # 0 \/ sock.connected = 0)
  /\ left' = left \cup Alive
  /\ caller' = "idle"
  /\ UNCHANGED <<sock, pcbs, heard>>

ConnectSucceeds ==
  /\ caller = "waiting" /\ sock.connected # 0 /\ sock.error = 0
  /\ caller' = "using"
  /\ UNCHANGED <<sock, pcbs, left, heard>>

-----------------------------------------------------------------------------
(* Use and tcp_socket_close *)
TakeBytes ==
  /\ caller = "using" /\ sock.pcb # 0 /\ sock.error = 0 /\ sock.rx # << >>
  /\ heard' = heard \cup ToSet(sock.rx)
  /\ sock' = [sock EXCEPT !.rx = << >>]
  /\ UNCHANGED <<pcbs, caller, left>>

\* tcp_arg, tcp_recv and tcp_err before tcp_close, which drops a pcb that is
\* not open yet and lets an open one end in the background; nothing of this
\* when the error of a forgotten pcb has cleared sock->pcb
Ended(st) == CASE st = "opening" -> "freed" [] st = "open" -> "closing" [] OTHER -> st

ClosedAttached(pcb) ==                \* mutant: tcp_close alone
  [pcb EXCEPT !.st = Ended(@)]
Closed(pcb) == [st |-> Ended(pcb.st), attached |-> FALSE]

Close ==
  /\ caller = "using"
  /\ pcbs' = [c \in DOMAIN pcbs |-> IF c = sock.pcb THEN Closed(pcbs[c]) ELSE pcbs[c]]
  /\ sock' = [sock EXCEPT !.pcb = 0]
  /\ left' = IF sock.pcb = 0 THEN left \cup Alive ELSE left
  /\ caller' = "idle"
  /\ UNCHANGED heard

-----------------------------------------------------------------------------
(* lwIP: what happens to pcb c, and the callback it makes *)
CallBack(c, flags) == sock' = IF pcbs[c].attached THEN flags ELSE sock

Established(c) ==
  /\ pcbs[c].st = "opening"
  /\ pcbs' = [pcbs EXCEPT ![c].st = "open"]
  /\ CallBack(c, [sock EXCEPT !.connected = c])

Segment(c) ==
  /\ pcbs[c].st \in {"open", "closing"} /\ Len(sock.rx) < RxRoom
  /\ CallBack(c, [sock EXCEPT !.rx = Append(@, c)])
  /\ UNCHANGED pcbs

Fin(c) ==
  /\ pcbs[c].st \in {"open", "closing"}
  /\ pcbs' = [pcbs EXCEPT ![c].st = "ended"]
  /\ CallBack(c, [sock EXCEPT !.error = c])

\* a reset, or too many retransmissions, of the SYN perhaps
Dies(c) ==
  /\ pcbs[c].st \in {"opening", "open", "closing", "ended"}
  /\ pcbs' = [pcbs EXCEPT ![c].st = "freed"]
  /\ CallBack(c, [sock EXCEPT !.error = c, !.pcb = 0])

Lwip(c) ==
  /\ Established(c) \/ Segment(c) \/ Fin(c) \/ Dies(c)
  /\ UNCHANGED <<caller, left, heard>>

SocketNext ==
  \/ Open \/ NewPcb \/ OpenFails
  \/ Connect \/ ConnectFails \/ ConnectSucceeds
  \/ TakeBytes \/ Close
  \/ \E c \in DOMAIN pcbs : Lwip(c)

SocketSpec == SocketInit /\ [][SocketNext]_socketVars

-----------------------------------------------------------------------------
\* What the caller learns of a connection, that it is up, that it has an error
\* (socket.c:624, 763) and its bytes (775), comes from that connection's own
\* pcb, or from one the code has forgotten with its callbacks attached, after
\* a connect that failed (616-627) or an error of such a pcb: a connection
\* that was closed never reaches into the next one.
LearnedIsOwn ==
  caller \in {"waiting", "using"} =>
    {sock.connected, sock.error} \cup ToSet(sock.rx) \cup heard
      \subseteq {0, Current} \cup left
================================================================================

------------------------------ MODULE MCTransport ------------------------------
(***************************************************************************)
(* The parts below a session, one of them in each run: connectivity checks *)
(* and consent, and the sockets of the RP2040 port.                        *)
(***************************************************************************)
EXTENDS IceAgent, Keepalive, UdpFifo, TcpRx, TcpSocket

\* Paths that carry nothing lie before and between those that do, so a late
\* answer can meet the pair behind the one it belongs to.
MCWorking == {2, 4}

\* One tick is a second: the shipped 3 s / 10 s pair at the very limit of what
\* Tuned allows.
ASSUME MCTuned == Tuned /\ NoClockWrap

\* More datagrams than slots, so that the ring wraps and fills up.
CONSTANTS d1, d2, d3, d4, d5
MCDatagrams == {d1, d2, d3, d4, d5}

VARIABLE part

Init ==
  /\ part \in {"ice", "keepalive", "udp", "connect", "tcp"}
  /\ IceInit /\ KeepaliveInit /\ FifoInit /\ SocketInit /\ TcpInit

Next ==
  \/ /\ part = "ice" /\ IceNext
     /\ UNCHANGED <<part, keepaliveVars, fifoVars, socketVars, tcpVars>>
  \/ /\ part = "keepalive" /\ KeepaliveNext
     /\ UNCHANGED <<part, iceVars, fifoVars, socketVars, tcpVars>>
  \/ /\ part = "udp" /\ FifoNext
     /\ UNCHANGED <<part, iceVars, keepaliveVars, socketVars, tcpVars>>
  \/ /\ part = "connect" /\ SocketNext
     /\ UNCHANGED <<part, iceVars, keepaliveVars, fifoVars, tcpVars>>
  \/ /\ part = "tcp" /\ TcpNext
     /\ UNCHANGED <<part, iceVars, keepaliveVars, fifoVars, socketVars>>

\* The fairness of the parts, for the one that runs.
Spec ==
  /\ Init /\ [][Next]_<<part, iceVars, keepaliveVars, fifoVars, socketVars, tcpVars>>
  /\ WF_iceVars(part = "ice" /\ CheckStep)
  /\ WF_fifoVars(part = "udp" /\ Callback) /\ WF_fifoVars(part = "udp" /\ Consumer)
================================================================================

------------------------------- MODULE MCSession -------------------------------
(***************************************************************************)
(* A session, one part of it in each run: gathering of the candidates of   *)
(* its description, the signaling that carries it, the state machine of    *)
(* the connection, and the data channel, which may stop once it is closed. *)
(***************************************************************************)
EXTENDS MCGathering, MCPeerConnection, Sctp, Signaling

VARIABLE phase

SessionInit ==
  /\ phase \in {"gathering", "signaling", "connection", "channel"}
  /\ GatherInit /\ SignalingInit /\ Init /\ SctpInit
  /\ phase # "gathering" =>
       servers = <<"stun", "turn">> /\ user = [len |-> 3, password |-> RightPassword]

SessionNext ==
  \/ phase = "gathering" /\ GatherNext /\ UNCHANGED <<phase, sigVars, vars, sctpVars>>
  \/ phase = "signaling" /\ SignalingNext /\ UNCHANGED <<phase, gatherVars, vars, sctpVars>>
  \/ phase = "connection" /\ Next /\ UNCHANGED <<phase, gatherVars, sigVars, sctpVars>>
  \/ phase = "channel" /\ SctpNext /\ UNCHANGED <<phase, gatherVars, sigVars, vars>>

\* The fairness of the parts, for the one that runs.
SessionSpec ==
  /\ SessionInit /\ [][SessionNext]_<<phase, gatherVars, sigVars, vars, sctpVars>>
  /\ WF_vars(phase = "connection" /\ LoopStep)
  /\ WF_vars(phase = "connection" /\ SigFinishes)
  /\ SF_vars(phase = "connection" /\ (CheckingFails \/ CheckingSucceeds))
  /\ WF_sctpVars(phase = "channel" /\ Continue)
  /\ SF_sctpVars(phase = "channel" /\ Receive)
  /\ WF_sctpVars(phase = "channel" /\ PeerData /\ WeStay)
  /\ SF_sctpVars(phase = "channel" /\ PeerReceives /\ WeStay)
================================================================================

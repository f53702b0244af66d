--------------------------------- MODULE MCRtp ---------------------------------
(***************************************************************************)
(* The encoders of either video codec, as rtp_encoder_init chooses them,   *)
(* and the AV1 reorder window of a decoder: a run is one of the three.     *)
(* H.264 access units: parameter sets behind start codes of both lengths   *)
(* and a slice that fits one packet, fills it, or takes two or three       *)
(* fragments, the last of them full or not; and a NAL unit of a type the   *)
(* decoder takes for the end of a fragmented one.                          *)
(***************************************************************************)
EXTENDS MCAv1Packetizer, H264Rtp, MCAv1Reorder

Sps(zeros) == [zeros |-> zeros, nalu |-> <<103, 0, 9>>]
Unspecified == [zeros |-> 3, nalu |-> <<24, 70, 9>>]
Slice(zeros, type, len) ==
  [zeros |-> zeros, nalu |-> <<96 + type>> \o [k \in 1 .. len |-> k + 1]]

MCAccessUnits ==
  {<<Sps(3), Slice(2, 5, len)>> : len \in {3, 4, 6}}
  \cup {<<Slice(3, 1, len)>> : len \in {2, 5}}
  \cup {<<Sps(2), Sps(3), Slice(3, 5, 1)>>, <<Unspecified, Slice(2, 1, 4)>>}

\* The tame network's stream has no hole.
ASSUME MCStream == NothingMissing

VARIABLE flow

Init ==
  /\ flow \in {"AV1", "H264", "window"}
  /\ EncoderInit /\ H264Init /\ JitterInit
  /\ flow # "window" => tame

Next ==
  \/ flow = "AV1" /\ EncoderNext /\ UNCHANGED <<h264Vars, jitterVars, flow>>
  \/ flow = "H264" /\ H264Next /\ UNCHANGED <<encoderVars, jitterVars, flow>>
  \/ flow = "window" /\ JitterNext /\ UNCHANGED <<encoderVars, h264Vars, flow>>

Spec ==
  /\ Init /\ [][Next]_<<encoderVars, h264Vars, jitterVars, flow>>
  /\ WF_jitterVars(flow = "window" /\ JitterNext)
===============================================================================

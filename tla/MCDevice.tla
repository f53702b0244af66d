------------------------------- MODULE MCDevice --------------------------------
(***************************************************************************)
(* Devices, one part in each run: below the walkie-talkie's application    *)
(* the inter-core ring, the loudspeaker ring, the microphone, the body of  *)
(* an audio reply, and provisioning; and the USB mouse.                    *)
(***************************************************************************)
EXTENDS IcRing, AudioRing, Mic, MCHttpBody, Provisioning, HidMouse

VARIABLE part

DeviceInit ==
  /\ part \in {"ring", "speaker", "microphone", "body", "provisioning", "mouse"}
  /\ IcInit /\ AudioInit /\ MicInit /\ BodyInit /\ ProvInit /\ HidInit
  /\ part # "body" => reply.ends = << >>

DeviceNext ==
  \/ /\ part = "ring" /\ IcNext
     /\ UNCHANGED <<part, audioVars, micVars, bodyVars, provVars, hidVars>>
  \/ /\ part = "speaker" /\ AudioNext
     /\ UNCHANGED <<part, ringVars, micVars, bodyVars, provVars, hidVars>>
  \/ /\ part = "microphone" /\ MicNext
     /\ UNCHANGED <<part, ringVars, audioVars, bodyVars, provVars, hidVars>>
  \/ /\ part = "body" /\ BodyNext
     /\ UNCHANGED <<part, ringVars, audioVars, micVars, provVars, hidVars>>
  \/ /\ part = "provisioning" /\ ProvNext
     /\ UNCHANGED <<part, ringVars, audioVars, micVars, bodyVars, hidVars>>
  \/ /\ part = "mouse" /\ HidNext
     /\ UNCHANGED <<part, ringVars, audioVars, micVars, bodyVars, provVars>>

\* ProvFairness, for the runs of provisioning.
DeviceSpec ==
  /\ DeviceInit /\ [][DeviceNext]_<<part, ringVars, audioVars, micVars, bodyVars, provVars, hidVars>>
  /\ WF_provVars(part = "provisioning" /\ TimeOut)
  /\ WF_provVars(part = "provisioning" /\ HearStatus)
  /\ WF_provVars(part = "provisioning" /\ SeeCommit)
  /\ WF_provVars(part = "provisioning" /\ PowerOffRadio)
  /\ WF_provVars(part = "provisioning" /\ EraseFlash)
  /\ WF_provVars(part = "provisioning" /\ ProgramFlash)
================================================================================

------------------------- MODULE Av1ReorderJitter -------------------------
(***************************************************************************)
(* The reorder window with the networks it meets (src/src/rtp.c:730-740).  *)
(* A tame one is what the window is made for: it loses nothing and repeats *)
(* nothing, but may hand a packet over before others that were sent less   *)
(* than Depth packets earlier.  It delivers the very first packet first:   *)
(* the window starts at whatever comes first (785-788), and an earlier     *)
(* packet is then dropped as late.  The other one does whatever it likes.  *)
(***************************************************************************)
EXTENDS Av1Reorder

VARIABLES
  tame,      \* which network it is
  arrived    \* packets the tame network has handed over

jitterVars == <<vars, tame, arrived>>

First == CHOOSE n \in Packets : \A m \in Packets : n <= m

\* A tame network's stream: every packet from the first to the last is sent.
NothingMissing == \A l, n \in Packets : l .. n \subseteq Packets

JitterInit == WindowInit /\ tame \in BOOLEAN /\ arrived = {}

Deliverable(n) ==
  /\ n \in Packets \ arrived
  /\ \A m \in Packets : m + Depth <= n => m \in arrived
  /\ n # First => First \in arrived

Hand(n) ==
  /\ tame /\ Deliverable(n)
  /\ Decode(n)
  /\ arrived' = arrived \cup {n}
  /\ UNCHANGED tame

HandAny(n) == ~tame /\ Decode(n) /\ UNCHANGED <<tame, arrived>>

Loop ==
  /\ FlushSlot \/ FlushDone \/ DrainSlot \/ DrainDone
  /\ UNCHANGED <<tame, arrived>>

JitterNext == (\E n \in Packets : Hand(n) \/ HandAny(n)) \/ Loop

\* the receive loop keeps running and the network keeps delivering
JitterSpec == JitterInit /\ [][JitterNext]_jitterVars /\ WF_jitterVars(JitterNext)

-----------------------------------------------------------------------------
Passed == {out[k] : k \in 1 .. Len(out)}

(***************************************************************************)
(* A packet displaced by less than Depth is neither dropped as late nor    *)
(* given up: every packet that arrived has been passed on or is kept back. *)
(***************************************************************************)
JitterAbsorbed ==
  tame /\ pc = "idle" => arrived = Passed \cup {held[s] : s \in Holding}

(***************************************************************************)
(* Nothing stays in the window: each packet handed over is eventually      *)
(* depacketized, without a timer, because the packet that fills the gap    *)
(* arrives.                                                                *)
(***************************************************************************)
EveryPacketPasses == \A n \in Packets : n \in arrived ~> n \in Passed

=============================================================================

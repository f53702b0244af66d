------------------------------ MODULE MCHttpBody -------------------------------
(***************************************************************************)
(* Replies: one piece that the connection ends; chunks that split a        *)
(* packet's data behind an empty packet; chunks that split a packet and    *)
(* its length.  And one packet to a chunk, which leaves framing behind     *)
(* every packet the pump ships.                                            *)
(***************************************************************************)
EXTENDS HttpBody

MCReplies ==
  {[lens |-> <<2, 1>>, ends |-> << >>],
   [lens |-> <<1, 0, 2>>, ends |-> <<3, 9>>],
   [lens |-> <<1, 1>>, ends |-> <<1, 5, 6>>]}

MCPacketPerChunk == {[lens |-> <<1, 1, 1>>, ends |-> <<3, 6, 9>>]}
================================================================================

------------------------------- MODULE HttpBody -------------------------------
(***************************************************************************)
(* The body of an audio reply in the walkie-talkie (ito-denwa/src/http.c,  *)
(* tts.c): segments of the TCP stream are appended to one response buffer, *)
(* the chunked decoder moves the payload to the front of it, core 1's      *)
(* forward pump ships whole Opus packets from there, and compaction drops  *)
(* what was shipped.  Header fields have been read; the buffer starts at   *)
(* the body.  A byte is a record: chunk framing, or the two bytes of a     *)
(* packet's length prefix and its data.                                    *)
(***************************************************************************)
EXTENDS Integers, Sequences, SequencesExt

CONSTANTS
  BufSize,      \* RESP_BUF_SIZE less the header
  Threshold,    \* TTS_COMPACT_THRESHOLD
  Prebuffer,    \* TTS_PREBUFFER_BYTES
  PerPass,      \* TTS_FWD_MAX_FRAMES_PER_PASS
  SegMax,       \* bytes a segment has at most
  Replies       \* the replies a server may give, see Framed

ASSUME HttpBodyAssumption ==
  /\ {BufSize, Threshold, Prebuffer, PerPass, SegMax} \subseteq Nat \ {0}

VARIABLES
  reply,        \* what the server sends, and how much of it was delivered
  st,           \* g_https_state
  resp,         \* g_https_resp from the body on
  dec,          \* the chunked decoder: state, remaining, read and write position
  play,         \* g_tts_play_pos
  playing,      \* g_tts_play_active
  endSent,      \* g_core1_tts_end_sent
  pc,           \* where core 1 is
  inPass,       \* packets shipped in this pass
  shipped,      \* history: the packets shipped
  refused       \* the last segment was left with lwIP (ERR_MEM)

bodyVars == <<reply, st, resp, dec, play, playing, endSent, pc, inPass, shipped, refused>>

-----------------------------------------------------------------------------
(* The server.  A reply is the lengths of its packets, and where in their  *)
(* bytes its chunks end, << >> for one that is not chunked and ends with   *)
(* the connection.                                                         *)

Digit(n) == [kind |-> "size", val |-> n]
Cr == [kind |-> "cr", val |-> 0]
Lf == [kind |-> "lf", val |-> 0]
\* Data counts through the packet: byte k of packet p.
Data(p, len) == [k \in 1 .. len |-> [kind |-> "data", val |-> 10 * p + k]]
Packet(p, len) ==
  <<[kind |-> "high", val |-> 0], [kind |-> "low", val |-> len]>> \o Data(p, len)
Payload(lens) == FlattenSeq([p \in 1 .. Len(lens) |-> Packet(p, lens[p])])

Before(ends, c) == IF c = 1 THEN 0 ELSE ends[c - 1]
Chunk(body, ends, c) ==
  <<Digit(ends[c] - Before(ends, c)), Cr, Lf>>
    \o SubSeq(body, Before(ends, c) + 1, ends[c]) \o <<Cr, Lf>>
Framed(lens, ends) ==
  IF ends = << >> THEN Payload(lens)
  ELSE FlattenSeq([c \in 1 .. Len(ends) |-> Chunk(Payload(lens), ends, c)])
         \o <<Digit(0), Cr, Lf>>

\* No chunk but the last is empty, and they hold the packets and no more.
ReplyOK(lens, ends) ==
  /\ lens \in Seq(Nat) /\ ends \in Seq(Nat \ {0})
  /\ \A c, d \in 1 .. Len(ends) : c < d => ends[c] < ends[d]
  /\ ends # << >> => ends[Len(ends)] = Len(Payload(lens))

ASSUME RepliesAssumption == \A r \in Replies : ReplyOK(r.lens, r.ends)

Chunked == reply.ends # << >>
Stream == Framed(reply.lens, reply.ends)

BodyInit ==
  /\ reply \in {[lens |-> r.lens, ends |-> r.ends, at |-> 0] : r \in Replies}
  /\ st = "REQUESTING" /\ resp = << >>
  /\ dec = [st |-> "SIZE", acc |-> 0, left |-> 0, r |-> 0, w |-> 0]
  /\ play = 0 /\ playing = FALSE /\ endSent = FALSE
  /\ pc = "poll" /\ inPass = 0 /\ shipped = << >> /\ refused = FALSE

-----------------------------------------------------------------------------
(* Receiving                                                               *)

\* http_resp_compact_locked: the bytes the decoder has still to move keep
\* their distance from those it has moved.
Compacted == SubSeq(resp, play + 1, Len(resp))
CompactWriteOnly ==         \* mutant: the decoder's read position stays
  /\ resp' = Compacted /\ play' = 0
  /\ dec' = IF Chunked THEN [dec EXCEPT !.w = @ - play] ELSE dec
Compact ==
  /\ resp' = Compacted /\ play' = 0
  /\ dec' = IF Chunked THEN [dec EXCEPT !.r = @ - play, !.w = @ - play] ELSE dec

\* https_recv_cb: compaction if the segment does not fit, ERR_MEM if it still
\* does not.
Receive ==
  /\ pc = "poll" /\ st # "IDLE" /\ reply.at < Len(Stream)
  /\ \E n \in 1 .. SegMax :
       LET seg   == SubSeq(Stream, reply.at + 1, reply.at + n)
           tight == Len(resp) + n >= BufSize
           fits  == Len(IF tight THEN Compacted ELSE resp) + n < BufSize
       IN /\ reply.at + n <= Len(Stream)
          /\ IF tight THEN Compact /\ UNCHANGED reply
             ELSE /\ resp' = resp \o seg
                  /\ reply' = [reply EXCEPT !.at = @ + n]
                  /\ UNCHANGED <<play, dec>>
          /\ refused' = ~fits
          /\ pc' = IF tight THEN "poll" ELSE IF Chunked /\ ~playing THEN "decode" ELSE "arm"
          /\ fits \/ n = 1    \* bound: only the smallest segment is refused
  /\ UNCHANGED <<st, playing, endSent, inPass, shipped>>

\* The server closes: at the end of what it has to say, or early.
Fin ==
  /\ pc = "poll" /\ st = "REQUESTING"
  /\ st' = "DONE_OK"
  /\ pc' = "pass"
  /\ UNCHANGED <<reply, resp, dec, play, playing, endSent, inPass, shipped, refused>>

PollReturns ==
  /\ pc = "poll"
  /\ pc' = "pass"
  /\ UNCHANGED <<reply, st, resp, dec, play, playing, endSent, inPass, shipped, refused>>

\* http_chunked_decode_in_place, one byte or one run of data a step.
More == dec.r < Len(resp) /\ dec.st # "DONE"
Byte == resp[dec.r + 1]

Decode ==
  /\ pc \in {"decode", "pump decode"} /\ More
  /\ UNCHANGED <<reply, play, playing, endSent, pc, inPass, shipped, refused>>
  /\ \/ /\ dec.st = "SIZE"
        /\ dec' = IF Byte.kind = "cr" THEN [dec EXCEPT !.st = "SIZE_CR", !.r = @ + 1]
                  ELSE [dec EXCEPT !.acc = IF Byte.kind = "size" THEN 16 * @ + Byte.val ELSE @,
                                   !.r = @ + 1]
        /\ UNCHANGED <<resp, st>>
     \/ /\ dec.st = "SIZE_CR" /\ Byte.kind = "lf" /\ UNCHANGED resp
        /\ dec' = [dec EXCEPT !.st = IF dec.acc = 0 THEN "DONE" ELSE "DATA",
                              !.left = dec.acc, !.acc = 0, !.r = @ + 1]
        /\ st' = IF dec.acc = 0 /\ st = "REQUESTING" THEN "DONE_OK" ELSE st
     \/ /\ dec.st = "DATA" /\ UNCHANGED st
        /\ LET have == Len(resp) - dec.r
               take == IF have < dec.left THEN have ELSE dec.left
           IN /\ resp' = [i \in DOMAIN resp |->
                            IF i \in dec.w + 1 .. dec.w + take
                            THEN resp[i - dec.w + dec.r] ELSE resp[i]]
              /\ dec' = [dec EXCEPT !.r = @ + take, !.w = @ + take, !.left = @ - take,
                           !.st = IF take = dec.left THEN "DATA_CR" ELSE "DATA"]
     \/ /\ dec.st = "DATA_CR" /\ UNCHANGED <<resp, st>>
        /\ LET lf == dec.r + 1 < Len(resp) /\ resp[dec.r + 2].kind = "lf"
           IN dec' = [dec EXCEPT !.st = IF Byte.kind = "cr" THEN "SIZE" ELSE @,
                                 !.r = @ + (IF lf THEN 2 ELSE 1)]

Decoded ==
  /\ pc \in {"decode", "pump decode"} /\ ~More
  /\ pc' = IF pc = "decode" THEN "arm" ELSE "forward"
  /\ UNCHANGED <<reply, st, resp, dec, play, playing, endSent, inPass, shipped, refused>>

Have == IF Chunked THEN dec.w ELSE Len(resp)

\* http_check_complete: playback is armed once enough is there.  What counts
\* for Opus is the decoder's position, which stays 0 for a reply in one piece.
Started == playing' = TRUE /\ endSent' = FALSE /\ play' = 0
Arm ==
  /\ pc = "arm"
  /\ pc' = "poll"
  /\ IF ~playing /\ dec.w >= Prebuffer THEN Started ELSE UNCHANGED <<playing, endSent, play>>
  /\ UNCHANGED <<reply, st, resp, dec, inPass, shipped, refused>>

-----------------------------------------------------------------------------
(* A pass of core 1 after the poll                                         *)

\* https_handle_done arms a reply too short to be armed before, and closes.
HandleDone ==
  /\ pc = "pass" /\ st = "DONE_OK"
  /\ st' = "IDLE"
  /\ IF ~playing THEN Started ELSE UNCHANGED <<playing, endSent, play>>
  /\ UNCHANGED <<reply, resp, dec, pc, inPass, shipped, refused>>

ForwardPump ==
  /\ pc = "pass" /\ st # "DONE_OK"
  /\ inPass' = 0
  /\ pc' = IF ~playing \/ endSent THEN "poll" ELSE IF Chunked THEN "pump decode" ELSE "forward"
  /\ UNCHANGED <<reply, st, resp, dec, play, playing, endSent, shipped, refused>>

Final == st = "IDLE" \/ (Chunked /\ dec.st = "DONE")
PacketLen == resp[play + 2].val
Complete == play + 2 + PacketLen <= Have

\* tts_forward_pump, one packet a step; the way to core 0 may be full.  A zero
\* length is skipped, a packet the final body lacks the end of is dropped.
Forwardable == pc = "forward" /\ inPass < PerPass /\ play + 2 <= Have

Ship ==
  /\ Forwardable /\ PacketLen > 0 /\ Complete
  /\ shipped' = Append(shipped, SubSeq(resp, play + 3, play + 2 + PacketLen))
  /\ play' = play + 2 + PacketLen
  /\ inPass' = inPass + 1
  /\ UNCHANGED <<reply, st, resp, dec, playing, endSent, pc, refused>>

Skip ==
  /\ Forwardable
  /\ play' = IF PacketLen = 0 THEN play + 2 ELSE Have
  /\ PacketLen = 0 \/ (~Complete /\ Final)
  /\ UNCHANGED <<reply, st, resp, dec, playing, endSent, pc, inPass, shipped, refused>>

PumpReturns ==
  /\ pc = "forward"
  /\ Forwardable => ~(PacketLen = 0 \/ (~Complete /\ Final))
  /\ pc' = "poll"
  /\ IF inPass > 0 /\ play >= Threshold THEN Compact ELSE UNCHANGED <<resp, dec, play>>
  /\ endSent' = (Final /\ Have - play < 2)
  /\ UNCHANGED <<reply, st, playing, inPass, shipped, refused>>

BodyNext ==
  \/ Receive \/ Fin \/ PollReturns \/ Decode \/ Decoded \/ Arm
  \/ HandleDone \/ ForwardPump \/ Ship \/ Skip \/ PumpReturns

BodySpec == BodyInit /\ [][BodyNext]_bodyVars

-----------------------------------------------------------------------------
\* The packets of the reply, as the server meant them.
Meant ==
  FlattenSeq([p \in 1 .. Len(reply.lens) |->
                IF reply.lens[p] = 0 THEN << >> ELSE <<Data(p, reply.lens[p])>>])

\* Whatever the chunks, the segments and the moments of compaction, the packets
\* shipped are those of the reply, whole and in order, and the end is announced
\* behind the last of them (tts.c tts_forward_pump, http.c http_resp_compact_locked).
ShippedAsSent ==
  /\ IsPrefix(shipped, Meant)
  /\ endSent /\ reply.at = Len(Stream) => shipped = Meant

\* A segment is refused only until the pump has drained the buffer (http.c
\* https_recv_cb: real backpressure).
RefusedUntilDrained ==
  refused /\ pc = "poll" => Have > play \/ dec.r < Len(resp) \/ play > 0
================================================================================

--------------------------------- MODULE Mic ---------------------------------
(***************************************************************************)
(* Push-to-talk capture (ito-denwa/src/mic.c) up to the POST that carries  *)
(* a take (linephone.c, main.c): an endless DMA writes the microphone's    *)
(* words into a ring, core 0's pump drains it, sample by sample while the  *)
(* DMA writes on, into frames of FrameSize samples and ships each frame,   *)
(* or drops it when the encoder fails or the inter-core ring has no room,  *)
(* and core 1 appends frames to an accumulator of fixed size.  The ring    *)
(* holds as many samples as the DMA writes in RingTime ticks of the clock, *)
(* one a tick.  Encoding and levels are left out.                          *)
(***************************************************************************)
EXTENDS Integers, Sequences

CONSTANTS
  RingTime,    \* MIC_RING_WORDS / 32
  PumpTime,    \* bound: a call of mic_pump ends within fewer ticks
  FrameSize,   \* MIC_FRAME_SAMPLES, in samples of a tick
  Slots,       \* messages the way to core 1 has room for
  AccumCap,    \* LP_OPUS_CAP, in frames
  MaxSamples,  \* bound: samples captured in all
  MaxTakes     \* bound: how often B is pressed

ASSUME MicAssumption ==
  /\ {RingTime, PumpTime, FrameSize, Slots, AccumCap, MaxSamples, MaxTakes} \subseteq Nat \ {0}

VARIABLES
  linephone,     \* core 0: g_linephone_active
  out,           \* core 0: the message inside ic_send, or "none"
  now,           \* samples captured so far, over all takes
  takes,         \* takes so far; the last one is running while micActive
  micActive,     \* g_mic_active
  ring, pos,     \* the DMA ring and its write position
  last, read,    \* g_mic_last_ring_pos, g_mic_read_abs = g_mic_produced_abs
  pumped,        \* g_mic_pump_last_ms
  longest,       \* g_mic_pump_max_gap
  pump,          \* where mic_pump is: not called, clock read, draining
  unread,        \* produced - g_mic_read_abs while it drains
  seen,          \* history: when the DMA's position was read last
  acc,           \* g_mic_pcm_acc
  way,           \* messages between the cores
  session,       \* the linephone session, as core 1 knows it
  accum,         \* core 1: g_lp_buf
  postPending,   \* core 1: g_core1_lp_post_pending
  posted         \* history: what every POST carried

pumpVars == <<longest, pump, unread, seen>>
micVars == <<linephone, out, now, takes, micActive, ring, pos, last, read, pumped, pumpVars,
             acc, way, session, accum, postPending, posted>>
captureVars == <<now, takes, micActive, ring, pos, last, read, pumped, pumpVars, acc>>
core1Vars == <<session, accum, postPending, posted>>

\* A sample is the take and the tick it was captured at.
NoSample == [take |-> 0, at |-> 0]

MicInit ==
  /\ linephone = FALSE /\ out = "none"
  /\ now = 0 /\ takes = 0 /\ micActive = FALSE
  /\ ring = [w \in 0 .. RingTime - 1 |-> NoSample] /\ pos = 0
  /\ last = 0 /\ read = 0 /\ pumped = 0 /\ acc = << >>
  /\ longest = 0 /\ pump = "out" /\ unread = 0 /\ seen = 0
  /\ way = << >> /\ session = FALSE /\ accum = << >> /\ postPending = FALSE
  /\ posted = << >>

-----------------------------------------------------------------------------
(* Core 0                                                                  *)

\* ic_send waits for room, and core 0 with it.
Send ==
  /\ out # "none" /\ Len(way) < Slots
  /\ way' = Append(way, [msg |-> out])
  /\ out' = "none"
  /\ UNCHANGED <<linephone, captureVars, core1Vars>>

\* Ctrl; while B is held the capture is thrown away.
Toggle ==
  /\ out = "none" /\ pump = "out"
  /\ linephone' = ~linephone
  /\ out' = IF linephone THEN "STOP" ELSE "START"
  /\ micActive' = FALSE /\ acc' = IF micActive THEN << >> ELSE acc
  /\ UNCHANGED <<way, now, takes, ring, pos, last, read, pumped, pumpVars, core1Vars>>

\* mic_start.
Press ==
  /\ out = "none" /\ pump = "out" /\ linephone /\ ~micActive /\ takes < MaxTakes
  /\ takes' = takes + 1 /\ micActive' = TRUE
  /\ ring' = [w \in DOMAIN ring |-> NoSample]
  /\ pos' = 0 /\ last' = 0 /\ read' = 0 /\ pumped' = now /\ acc' = << >>
  /\ longest' = 0 /\ seen' = now
  /\ UNCHANGED <<linephone, out, now, pump, unread, way, core1Vars>>

\* mic_stop, then LINEPHONE_POST_END: what does not fill a frame is lost.
Release ==
  /\ out = "none" /\ pump = "out" /\ micActive
  /\ out' = "END"
  /\ micActive' = FALSE /\ acc' = << >>
  /\ UNCHANGED <<linephone, way, now, takes, ring, pos, last, read, pumped, pumpVars, core1Vars>>

\* The DMA, which waits for nobody: the bound on mic_pump holds it up here.
Capture ==
  /\ micActive /\ now < MaxSamples
  /\ pump # "out" => now + 1 - pumped < PumpTime
  /\ now' = now + 1
  /\ ring' = [ring EXCEPT ![pos] = [take |-> takes, at |-> now + 1]]
  /\ pos' = (pos + 1) % RingTime
  /\ UNCHANGED <<linephone, out, takes, micActive, last, read, pumped, pumpVars, acc, way, core1Vars>>

\* mic_pump: the clock and the stall watch.  g_mic_overruns counts the gaps of a
\* ring period and more, so the longest gap tells whether it counted any.
Longer(m, n) == IF m < n THEN n ELSE m

PumpClock ==
  /\ micActive /\ pump = "out"
  /\ pumped' = now
  /\ longest' = Longer(longest, now - pumped)
  /\ pump' = "clock"
  /\ UNCHANGED <<linephone, out, now, takes, micActive, ring, pos, last, read, unread, seen, acc,
                 way, core1Vars>>

\* mic_dma_produced_abs: how far the position moved, short of whole rings.
Produced == (pos + RingTime - last) % RingTime

PumpPosition ==
  /\ pump = "clock"
  /\ last' = pos /\ unread' = Produced /\ seen' = now
  /\ pump' = IF Produced = 0 THEN "out" ELSE "drain"
  /\ UNCHANGED <<linephone, out, now, takes, micActive, ring, pos, read, pumped, longest, acc, way,
                 core1Vars>>

\* A ring period does not cover the longest gap and the call that followed it.
Late == longest + PumpTime > RingTime

\* One sample; mic_ship_frame when it fills a frame, which is dropped when it
\* does not encode or find room.
Frame(samples) == [msg |-> "PKT", late |-> Late, samples |-> samples]

ShipFrame(samples) ==
  \/ way' = way
  \/ Len(way) < Slots /\ way' = Append(way, Frame(samples))

PumpSample ==
  /\ pump = "drain"
  /\ read' = read + 1 /\ unread' = unread - 1
  /\ pump' = IF unread = 1 THEN "out" ELSE "drain"
  /\ LET filled == Append(acc, ring[read % RingTime])
     IN IF Len(filled) = FrameSize
        THEN acc' = << >> /\ ShipFrame(filled)
        ELSE acc' = filled /\ UNCHANGED way
  /\ UNCHANGED <<linephone, out, now, takes, micActive, ring, pos, last, pumped, longest, seen,
                 core1Vars>>

-----------------------------------------------------------------------------
(* Core 1                                                                  *)

\* lp_accum_append drops what does not fit.
Handle ==
  /\ way # << >>
  /\ way' = Tail(way)
  /\ LET m == Head(way)
     IN /\ session' = (m.msg = "START" \/ (session /\ m.msg # "STOP"))
        /\ accum' = CASE m.msg \in {"START", "STOP"} -> << >>
                      [] m.msg = "PKT" /\ session /\ Len(accum) < AccumCap -> Append(accum, m)
                      [] OTHER -> accum
        /\ postPending' = CASE m.msg = "END"  -> postPending \/ session
                            [] m.msg = "STOP" -> FALSE
                            [] OTHER -> postPending
  /\ UNCHANGED <<linephone, out, captureVars, posted>>

\* The kick waits while the microphone is on.  lp_kick_post empties the
\* accumulator once the body is built, and leaves it when that fails.
PostKeepingAccum ==                     \* mutant: the accumulator is not emptied
  /\ postPending /\ ~micActive
  /\ postPending' = FALSE
  /\ posted' = Append(posted, accum)
  /\ UNCHANGED <<accum, linephone, out, captureVars, way, session>>
Post ==
  /\ postPending /\ ~micActive
  /\ postPending' = FALSE
  /\ \/ posted' = Append(posted, accum) /\ accum' = << >>
     \/ UNCHANGED <<posted, accum>>
  /\ UNCHANGED <<linephone, out, captureVars, way, session>>

MicNext ==
  \/ Send \/ Toggle \/ Press \/ Release \/ Capture
  \/ PumpClock \/ PumpPosition \/ PumpSample
  \/ Handle \/ Post

MicSpec == MicInit /\ [][MicNext]_micVars

-----------------------------------------------------------------------------
Frames == {accum[i] : i \in DOMAIN accum}
            \cup UNION {{posted[p][i] : i \in DOMAIN posted[p]} : p \in DOMAIN posted}

\* A frame is FrameSize samples of one take, captured one after the other unless
\* the pump was late: the longest gap of the summary that mic_stop prints shows
\* every loss within a frame (mic.c 340-419).
InOnePiece ==
  \A f \in Frames : \A i \in 1 .. FrameSize :
    /\ f.samples[i].take > 0 /\ f.samples[i].take = f.samples[1].take
    /\ f.late \/ f.samples[i].at = f.samples[1].at + i - 1

\* Speech is sent at most once and in the order it was spoken, over all POSTs
\* (linephone.c lp_accum_append, lp_kick_post; main.c handle_core1_notify), but
\* for a late pump's, whose samples the DMA may have overwritten with later ones.
\* Between two frames whole frames may be missing: the ones that were dropped
\* (mic.c 326-338, linephone.c 27-35), which nothing counts.
SpeechInOrder ==
  /\ InOnePiece
  /\ \A p, q \in DOMAIN posted : \A i \in DOMAIN posted[p], j \in DOMAIN posted[q] :
       (p < q \/ (p = q /\ i < j)) =>
          \/ posted[q][j].late
          \/ posted[p][i].samples[FrameSize].at < posted[q][j].samples[1].at
================================================================================

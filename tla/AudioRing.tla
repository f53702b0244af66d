------------------------------ MODULE AudioRing ------------------------------
(***************************************************************************)
(* The loudspeaker ring of the walkie-talkie (ito-denwa/src/audio.c): an   *)
(* endless DMA reads it word by word, two words a frame, and the producer  *)
(* writes ahead of it.  The DMA does not stop: what lies in the ring is    *)
(* played again at the next lap unless it was replaced.  The producer's    *)
(* pumps (tts.c tts_play_pump, the test tone) are here as far as they use  *)
(* the ring.  A call on the ring is one step; the DMA moves between calls. *)
(***************************************************************************)
EXTENDS Integers, Sequences

CONSTANTS
  BufWords,      \* BUF_WORDS, even
  Width,         \* 2^32, a multiple of BUF_WORDS
  SilenceWords,  \* UNDERRUN_SILENCE_WORDS
  Block,         \* frames a pump writes at most
  PadExtra,      \* frames of the final pad beyond one ring
  MaxGap,        \* bound: words played between two calls of core 0
  Core1Resets    \* tts_start_playback may run while core 0 is in the tracker

ASSUME AudioAssumption ==
  /\ {BufWords, Width, SilenceWords, Block} \subseteq Nat \ {0}
  /\ {PadExtra, MaxGap} \subseteq Nat
  /\ BufWords % 2 = 0 /\ Width % BufWords = 0 /\ MaxGap < BufWords
  /\ Core1Resets \in BOOLEAN

VARIABLES
  buf,           \* what each word holds: a frame number, 0 for silence
  dacPos,        \* the DMA's read position
  dacLast, abs,  \* g_last_ring_pos and g_consumed_abs
  write,         \* g_write_abs
  paused,        \* g_audio_paused
  phase, left,   \* who writes, and how many frames of silence are left
  next,          \* the next frame to write
  gap,           \* words played since core 0 last called another function
  half,          \* core 0 inside the tracker: the position is read, nothing is assigned
  due            \* history: the words written and still to be heard

audioVars == <<buf, dacPos, dacLast, abs, write, paused, phase, left, next, gap, half, due>>

Silence == [w \in 0 .. BufWords - 1 |-> 0]
NoHalf == [delta |-> -1, now |-> 0]

AudioInit ==
  /\ buf = Silence /\ dacPos = 0 /\ dacLast = 0 /\ abs = 0 /\ write = 0
  /\ paused = FALSE /\ phase = "idle" /\ left = 0 /\ next = 1
  /\ gap = 0 /\ half = NoHalf /\ due = << >>

-----------------------------------------------------------------------------
(* The tracker and the writer                                              *)

\* dma_consumed_abs: the position has moved by less than a ring since.
MovedUnwrapped == dacPos - dacLast       \* mutant: no wrap of the position
Moved == (dacPos + BufWords - dacLast) % BufWords
Consumed == (abs + Moved) % Width
Tracked == dacLast' = dacPos /\ abs' = Consumed /\ gap' = 0

\* The difference of two counters as int32_t.
Signed(d) == LET m == (d + Width) % Width IN IF 2 * m >= Width THEN m - Width ELSE m
Ahead == Signed(write - Consumed)
Even(n) == n - (n % 2)

\* audio_check_underrun: where the next word goes, and what the ring holds.
Underrun == Ahead < 0
Snapped == IF Underrun THEN Even(Consumed) ELSE write
Hushed ==
  IF ~Underrun THEN buf
  ELSE [w \in DOMAIN buf |->
          IF (w + BufWords - (Consumed % BufWords)) % BufWords < SilenceWords THEN 0 ELSE buf[w]]

\* audio_stream_write_mono16 of the frames fs: as many as fit are written, and
\* Put is how many.  A word that falls behind the DMA is not heard.
FreeFrames == (BufWords - 1 - Signed(Snapped - Consumed)) \div 2
Put(fs) == IF Len(fs) < FreeFrames THEN Len(fs) ELSE FreeFrames
WriteMono(fs) ==
  LET n     == Put(fs)
      late  == IF Signed(Snapped - Consumed) < 0 THEN 1 ELSE 0
      words == [k \in 1 .. 2 * n |-> fs[(k + 1) \div 2]]
  IN /\ buf' = [w \in DOMAIN buf |->
                  LET k == (w + BufWords - (Snapped % BufWords)) % BufWords
                  IN IF k < 2 * n THEN words[k + 1] ELSE Hushed[w]]
     /\ write' = (Snapped + 2 * n) % Width
     /\ due' = due \o SubSeq(words, 1 + late, 2 * n)
     /\ Tracked

\* audio_stop, audio_stream_reset and the flush of audio_resume.
Wiped ==
  /\ buf' = Silence /\ write' = Even(Consumed) /\ due' = << >> /\ Tracked

Buffered == IF Ahead > 0 THEN Ahead \div 2 ELSE 0

Core0(phases) == half = NoHalf /\ phase \in phases

-----------------------------------------------------------------------------
(* The DMA and the user                                                    *)

Tick ==
  /\ ~paused /\ gap < MaxGap
  /\ dacPos' = (dacPos + 1) % BufWords
  /\ gap' = gap + 1
  /\ due' = IF due = << >> THEN due ELSE Tail(due)
  /\ UNCHANGED <<buf, dacLast, abs, write, paused, phase, left, next, half>>

Pause ==
  /\ Core0({"idle", "stream", "pad"}) /\ ~paused
  /\ paused' = TRUE
  /\ Tracked
  /\ UNCHANGED <<buf, dacPos, write, phase, left, next, half, due>>

Resume ==
  /\ Core0({"idle", "stream", "pad"}) /\ paused
  /\ paused' = FALSE
  /\ Wiped
  /\ UNCHANGED <<dacPos, phase, left, next, half>>

Stop ==
  /\ Core0({"idle", "stream", "pad"})
  /\ Wiped
  /\ UNCHANGED <<dacPos, paused, phase, left, next, half>>

-----------------------------------------------------------------------------
(* The test tone                                                           *)

\* audio_test_stream_sine_begin: one block of tone, then silence of a ring and
\* a block; a tick writes what is left of its block.
BeginTest ==
  /\ Core0({"idle"}) /\ ~paused
  /\ Wiped
  /\ phase' = "sine" /\ left' = Block
  /\ UNCHANGED <<dacPos, paused, next, half>>

WipeFrames == Block * ((BufWords \div 2) \div Block + 1)

TestTick ==
  /\ Core0({"sine", "silence"})
  /\ LET rest   == ((left - 1) % Block) + 1
         frames == [i \in 1 .. rest |-> IF phase = "sine" THEN next ELSE 0]
         after  == left - Put(frames)
     IN /\ WriteMono(frames)
        /\ phase' = IF after > 0 THEN phase ELSE IF phase = "sine" THEN "silence" ELSE "idle"
        /\ left' = IF after = 0 /\ phase = "sine" THEN WipeFrames ELSE after
  /\ UNCHANGED <<dacPos, paused, next, half>>

-----------------------------------------------------------------------------
(* A stream                                                                *)

\* tts_start_playback, called by core 1 while core 0 goes on.
StartPlayback ==
  /\ phase = "idle" /\ (Core1Resets \/ half = NoHalf)
  /\ Wiped
  /\ phase' = "stream"
  /\ UNCHANGED <<dacPos, paused, left, next, half>>

\* A decoded packet; the dispatcher leaves it alone above 3/4.
WritePacket ==
  /\ Core0({"stream"}) /\ 8 * Buffered <= 3 * BufWords
  /\ WriteMono(<<next>>)
  /\ next' = 1 + (next % 3)
  /\ UNCHANGED <<dacPos, paused, phase, left, half>>

\* tts_play_pump without TTS_END, with it, and while padding.
PlayPump ==
  /\ Core0({"idle", "stream"})
  /\ IF phase = "stream" THEN buf' = Hushed /\ write' = Snapped ELSE UNCHANGED <<buf, write>>
  /\ Tracked
  /\ UNCHANGED <<dacPos, paused, phase, left, next, half, due>>

PadFramesShort == BufWords \div 2 - 1    \* mutant: less than one ring
PadFrames == BufWords \div 2 + PadExtra

PumpEnd ==
  /\ Core0({"stream", "pad"})
  /\ LET todo == IF phase = "stream" THEN PadFrames ELSE left
         zero == [i \in 1 .. (IF todo < Block THEN todo ELSE Block) |-> 0]
     IN /\ WriteMono(zero)
        /\ left' = todo - Put(zero)
        /\ phase' = IF left' = 0 THEN "idle" ELSE "pad"
  /\ UNCHANGED <<dacPos, paused, next, half>>

\* Core 0 inside dma_consumed_abs, from audio_stream_buffered_frames in its
\* dispatcher: the DMA's position is read and what it means worked out, and core 1
\* may come in before the two assignments.
BeginTrack ==
  /\ half = NoHalf
  /\ half' = [delta |-> Moved, now |-> dacPos]
  /\ UNCHANGED <<buf, dacPos, dacLast, abs, write, paused, phase, left, next, gap, due>>

EndTrack ==
  /\ half # NoHalf
  /\ abs' = (abs + half.delta) % Width
  /\ dacLast' = half.now
  /\ half' = NoHalf
  /\ UNCHANGED <<buf, dacPos, write, paused, phase, left, next, gap, due>>

AudioNext ==
  \/ Tick \/ Pause \/ Resume \/ Stop \/ BeginTest \/ TestTick
  \/ StartPlayback \/ WritePacket \/ PlayPump \/ PumpEnd \/ BeginTrack \/ EndTrack

AudioSpec == AudioInit /\ [][AudioNext]_audioVars

-----------------------------------------------------------------------------
\* What was written is heard, in order and once: the ring holds, from the DMA's
\* position on, every word still due (audio.c audio_stream_write_mono16).
HeardIsDue ==
  \A i \in 1 .. Len(due) : buf[(dacPos + i - 1) % BufWords] = due[i]

\* A playback, or the test tone, leaves nothing in the ring for the DMA to
\* repeat at every lap: the silence behind it is a ring long (tts.c
\* tts_play_pump, audio.c TEST_SILENCE_BLOCKS).
SilentWhenIdle == phase = "idle" => buf = Silence

\* The software counter stays in step with the DMA's position.
TrackerAligned == half = NoHalf => abs % BufWords = dacLast
================================================================================

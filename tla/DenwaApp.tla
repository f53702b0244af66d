------------------------------- MODULE DenwaApp -------------------------------
(***************************************************************************)
(* The walkie-talkie and radio example (src/examples/ito-denwa): core 0    *)
(* runs buttons, microphone and loudspeaker, core 1 runs lwIP and HTTPS.   *)
(* They share a few flags and one message FIFO per direction (ic_ring.c,   *)
(* module IcRing), in which ic_send waits for a free slot.                 *)
(*                                                                         *)
(* One step is one message handled, one handler of a loop, or one callback *)
(* of the network; a core inside ic_send has its message in out0 or out1,  *)
(* and handlers that follow each other without a wait are one step.        *)
(* Audio is counted in packets.  Operator ids, the screen and the log are  *)
(* left out; so are the 10 s and 2 s poll periods: a poll may be due in    *)
(* any pass.                                                               *)
(***************************************************************************)
EXTENDS DenwaParams, Integers, Sequences, FiniteSets

VARIABLES
  s0, at0, out0,   \* core 0: g_core0_state, place in its loop, message in ic_send
  s1, at1, out1,   \* core 1: the same
  to1, to0,        \* the FIFOs to core 1 and to core 0
  peek,            \* g_peek_cache of core 0, a sequence of at most one message
  ui,              \* what the buttons changed on core 0
  audio,           \* the loudspeaker: paused, level of the ring, pad, streamDone
  playActive,      \* g_tts_play_active, written by both cores
  wants,           \* core 1: pending kicks and active modes
  queued,          \* core 1: tts_queue_count()
  endSent,         \* core 1: g_core1_tts_end_sent
  http             \* core 1: the transport, see HttpIdle

core0Vars == <<s0, at0, out0, peek, ui>>
core1Vars == <<s1, at1, out1, wants, queued, endSent, http>>
vars == <<core0Vars, core1Vars, to0, to1, audio, playActive>>

Nothing == [msg |-> "none", then |-> "none"]
Sending(m, k) == [msg |-> m, then |-> k]

\* Connections are pcbs of lwIP; one that http_cleanup no longer reaches
\* keeps its callbacks and goes on writing into the one response buffer.
Free == [st |-> "free", kind |-> "none"]

\* st and mode: g_https_state, g_https_mode; pcb: g_https_pcb, 0 for NULL;
\* body: what the response buffer holds; frames: packets not yet forwarded;
\* final: the chunked terminator was seen.
HttpIdle ==
  [st |-> "IDLE", mode |-> "INFO", pcb |-> 0, conns |-> [c \in Pcbs |-> Free],
   body |-> "none", frames |-> 0, final |-> FALSE]

Init ==
  /\ s0 = "INIT" /\ at0 = "dispatch" /\ out0 = Nothing
  /\ s1 = "INIT" /\ at1 = "drain" /\ out1 = Nothing
  /\ to0 = << >> /\ to1 = << >> /\ peek = << >>
  /\ ui = [labs |-> "IDLE", selected |-> "qa", timeline |-> FALSE,
           linephone |-> FALSE, held |-> FALSE, mic |-> FALSE, presses |-> 0]
  /\ audio = [paused |-> FALSE, level |-> 0, pad |-> 0, done |-> FALSE]
  /\ playActive = FALSE
  /\ wants = {} /\ queued = 0 /\ endSent = FALSE /\ http = HttpIdle

Modes == {"INFO", "TIMELINE", "TTS", "POST", "GET"}
AudioModes == {"TTS", "GET"}
Live(h) == {c \in Pcbs : h.conns[c].st # "free"}

-----------------------------------------------------------------------------
(* Both cores: ic_send                                                     *)

Room1 == Len(to1) < FifoSize
Room0 == Len(to0) < FifoSize

\* What core 0 does once its message is in the FIFO.
Resumed(a) == [a EXCEPT !.paused = FALSE, !.level = IF a.paused THEN 0 ELSE @]

Core0Sent ==
  /\ out0 # Nothing /\ Room1
  /\ to1' = Append(to1, out0.msg)
  /\ out0' = Nothing
  /\ audio' = IF out0.then = "resume" THEN Resumed(audio) ELSE audio
  /\ ui' = CASE out0.then = "linephone on"  -> [ui EXCEPT !.linephone = TRUE]
             [] out0.then = "linephone off" -> [ui EXCEPT !.linephone = FALSE]
             [] out0.then = "timeline on"   -> [ui EXCEPT !.timeline = TRUE]
             [] out0.then = "timeline off"  -> [ui EXCEPT !.timeline = FALSE]
             [] OTHER -> ui
  /\ s0' = IF out0.then = "run" THEN "RUNNING" ELSE s0
  /\ UNCHANGED <<at0, peek, core1Vars, to0, playActive>>

\* http_cleanup: the connection http_pcb names is closed, another one is not.
Cleaned(h) ==
  IF h.pcb = 0 THEN h
  ELSE [h EXCEPT !.conns = [@ EXCEPT ![h.pcb] = Free], !.pcb = 0]

Core1Sent ==
  /\ out1 # Nothing /\ Room0
  /\ to0' = Append(to0, out1.msg)
  /\ out1' = Nothing
  /\ s1' = IF out1.then = "wait audio" THEN "WAIT_AUDIO" ELSE s1
  /\ endSent' = (endSent \/ out1.msg = "TTS_END")
  /\ http' = IF out1.then = "cleanup" THEN [Cleaned(http) EXCEPT !.st = "IDLE"]
             ELSE http
  /\ UNCHANGED <<at1, wants, queued, core0Vars, to1, audio, playActive>>

-----------------------------------------------------------------------------
(* Core 0: dispatcher and boot                                             *)

Core0At(place) == out0 = Nothing /\ at0 = place

\* Packets stay in the FIFO while the audio ring is more than 3/4 full; the
\* word of the packet peeked at has left the FIFO and waits in the cache.
Waiting == peek \o to0
Throttled ==
  /\ Waiting # << >> /\ Head(Waiting) = "OPUS"
  /\ 4 * audio.level > 3 * AudioSize

Written(a, n) == [a EXCEPT !.level = IF @ + n > AudioSize THEN AudioSize ELSE @ + n]

\* handle_core0_notify.
Handle0 ==
  /\ Core0At("dispatch") /\ Waiting # << >> /\ ~Throttled
  /\ LET m == Head(Waiting)
     IN /\ s0' = IF m = "NET_READY" /\ s0 = "WAIT_NET" THEN "BEEP_PLAY" ELSE s0
        /\ audio' = CASE m = "OPUS"    -> Written(audio, 1)
                      [] m = "TTS_END" -> [audio EXCEPT !.done = TRUE]
                      [] OTHER -> audio
  /\ to0' = Tail(Waiting) /\ peek' = << >>
  /\ UNCHANGED <<at0, out0, ui, core1Vars, to1, playActive>>

Hold ==
  /\ Core0At("dispatch") /\ Throttled /\ peek = << >>
  /\ peek' = <<Head(to0)>> /\ to0' = Tail(to0)
  /\ UNCHANGED <<s0, at0, out0, ui, core1Vars, to1, audio, playActive>>

\* The loop leaves the dispatcher.
Dispatched == Core0At("dispatch") /\ (Waiting = << >> \/ (Throttled /\ peek # << >>))

BootOrder == <<"INIT", "WAIT_NET", "BEEP_PLAY", "BEEP_WAIT", "TEST_START",
               "TEST_TICK", "AUDIO_READY", "RUNNING">>

\* The beep and the test tone take their time: the loop may come back to them.
Boot ==
  /\ Dispatched /\ s0 \notin {"WAIT_NET", "RUNNING"}
  /\ LET next == BootOrder[(CHOOSE i \in 1 .. 7 : BootOrder[i] = s0) + 1]
     IN IF s0 = "AUDIO_READY"
        THEN out0' = Sending("AUDIO_READY", "run") /\ UNCHANGED s0
        ELSE s0' = next /\ UNCHANGED out0
  /\ UNCHANGED <<at0, peek, ui, core1Vars, to0, to1, audio, playActive>>

-----------------------------------------------------------------------------
(* Core 0: buttons.  At most one changes between two polls.                *)

Pressing(key) ==
  /\ Dispatched /\ s0 = "RUNNING" /\ key \in Keys /\ ui.presses < MaxPresses
  /\ at0' = "pumps"
  /\ UNCHANGED <<s0, peek, core1Vars, to0, to1, playActive>>

Pressed == [ui EXCEPT !.presses = @ + 1]

NoButton ==
  /\ Dispatched /\ s0 = "RUNNING"
  /\ at0' = "pumps"
  /\ UNCHANGED <<s0, out0, peek, ui, core1Vars, to0, to1, audio, playActive>>

\* trigger_fetch, from Button-X.
PressFetch ==
  /\ Pressing("X") /\ ui.labs # "LOADING"
  /\ ui' = [Pressed EXCEPT !.labs = "LOADING"]
  /\ out0' = Sending("BTN_X", "none")
  /\ UNCHANGED audio

Choosable == ui.labs = "OK"

PressMove ==
  /\ Pressing("UpDown")
  /\ Choosable /\ ~ui.timeline /\ ~ui.linephone /\ ~playActive
  /\ \E role \in Roles : ui' = [Pressed EXCEPT !.selected = role]
  /\ UNCHANGED <<out0, audio>>

PressStartRadio ==
  /\ Pressing("Ctrl") /\ Choosable /\ ui.selected = "radio"
  /\ ui' = Pressed
  /\ out0' = Sending(IF playActive THEN "RADIO_STOP" ELSE "RADIO_START", "none")
  /\ UNCHANGED audio

PressStartLinephone ==
  /\ Pressing("Ctrl") /\ Choosable /\ ui.selected = "linephone" /\ ~ui.linephone
  /\ ui' = Pressed
  /\ out0' = Sending("LP_START", "linephone on")
  /\ UNCHANGED audio

PressStopLinephoneMuted ==        \* mutant: the loudspeaker stays paused
  /\ Pressing("Ctrl") /\ Choosable /\ ui.selected = "linephone" /\ ui.linephone
  /\ ui' = [Pressed EXCEPT !.mic = FALSE]
  /\ out0' = Sending("LP_STOP", "linephone off")
  /\ UNCHANGED audio
PressStopLinephone ==
  /\ Pressing("Ctrl") /\ Choosable /\ ui.selected = "linephone" /\ ui.linephone
  /\ ui' = [Pressed EXCEPT !.mic = FALSE]
  /\ audio' = IF ui.mic THEN Resumed(audio) ELSE audio
  /\ out0' = Sending("LP_STOP", "linephone off")

PressTimeline ==
  /\ Pressing("Ctrl") /\ Choosable /\ ui.selected = "qa"
  /\ ui' = Pressed
  /\ out0' = IF ui.timeline THEN Sending("TL_STOP", "timeline off")
             ELSE Sending("TL_START", "timeline on")
  /\ UNCHANGED audio

\* mic_start does nothing when mic_init failed; the pause stays.
PressTalk ==
  /\ Pressing("B") /\ ~ui.held /\ ui.linephone
  /\ ui' = [Pressed EXCEPT !.held = TRUE, !.mic = MicWorks]
  /\ audio' = [audio EXCEPT !.paused = TRUE]
  /\ UNCHANGED out0

\* Outside a session B silences the loudspeaker (audio_stop).
PressSilence ==
  /\ Pressing("B") /\ ~ui.held /\ ~ui.linephone
  /\ ui' = [Pressed EXCEPT !.held = TRUE]
  /\ audio' = [audio EXCEPT !.level = 0]
  /\ UNCHANGED out0

ReleaseTalk ==
  /\ Dispatched /\ s0 = "RUNNING" /\ ui.held
  /\ at0' = "pumps"
  /\ ui' = [ui EXCEPT !.held = FALSE, !.mic = IF ui.linephone THEN FALSE ELSE @]
  /\ out0' = IF ui.linephone THEN Sending("LP_END", "resume") ELSE out0
  /\ UNCHANGED <<s0, peek, core1Vars, to0, to1, audio, playActive>>

Buttons ==
  \/ NoButton \/ PressFetch \/ PressMove \/ PressStartRadio \/ PressStartLinephone
  \/ PressStopLinephone \/ PressTimeline \/ PressTalk \/ PressSilence \/ ReleaseTalk

-----------------------------------------------------------------------------
(* Core 0: microphone and loudspeaker                                      *)

\* mic_pump: a captured packet is sent if a slot is free and dropped if not.
MicPump ==
  \/ ui.mic /\ Room1 /\ to1' = Append(to1, "LP_PKT")
  \/ UNCHANGED to1

\* tts_play_pump: after TTS_END silence is written behind what is left, one
\* ring and a little more, and only then is the playback over.  The fetch of
\* the first pass (auto_fetched) is the only one that no button asks for.
Pumps ==
  /\ Core0At("pumps")
  /\ at0' = "dispatch"
  /\ MicPump
  /\ LET armed  == IF audio.done /\ audio.pad = 0 /\ playActive
                   THEN [audio EXCEPT !.pad = AudioSize + 1] ELSE audio
         fits   == AudioSize - armed.level
         n      == IF armed.pad < fits THEN armed.pad ELSE fits
         padded == [Written(armed, n) EXCEPT !.pad = @ - n]
         over   == padded.done /\ padded.pad = 0 /\ playActive
     IN /\ audio' = IF over THEN [padded EXCEPT !.done = FALSE] ELSE padded
        /\ playActive' = (playActive /\ ~over)
        /\ IF ui.labs = "IDLE"
           THEN out0' = Sending("BTN_X", "none") /\ ui' = [ui EXCEPT !.labs = "LOADING"]
           ELSE out0' = (IF over THEN Sending("TTS_PLAYED", "none") ELSE out0) /\ UNCHANGED ui
  /\ UNCHANGED <<s0, peek, core1Vars, to0>>

\* The DMA plays a packet; paused, it asks for none.
Play ==
  /\ audio.level > 0 /\ ~audio.paused
  /\ audio' = [audio EXCEPT !.level = @ - 1]
  /\ UNCHANGED <<core0Vars, core1Vars, to0, to1, playActive>>

-----------------------------------------------------------------------------
(* Core 1: messages                                                        *)

Core1At(place) == out1 = Nothing /\ at1 = place

NetworkUp ==
  /\ Core1At("drain") /\ to1 = << >> /\ s1 \in {"INIT", "NETWORK"}
  /\ IF s1 = "INIT" THEN s1' = "NETWORK" /\ UNCHANGED out1
     ELSE out1' = Sending("NET_READY", "wait audio") /\ UNCHANGED s1
  /\ UNCHANGED <<at1, wants, queued, endSent, http, core0Vars, to0, to1, audio, playActive>>

WantsAfter(m) ==
  CASE m = "BTN_X"       -> wants \cup {"fetch"}
    [] m = "TL_START"    -> wants \cup {"timeline"}
    [] m = "TL_STOP"     -> wants \ {"timeline"}
    [] m = "RADIO_START" -> wants \cup {"radio"}
    [] m = "RADIO_STOP"  -> wants \ {"radio"}
    [] m = "LP_START"    -> wants \cup {"session"}
    [] m = "LP_STOP"     -> wants \ {"session", "post"}
    [] m = "LP_END"      -> IF "session" \in wants THEN wants \cup {"post"} ELSE wants
    [] OTHER -> wants

\* handle_core1_notify.  Packets of speech are appended to the accumulator,
\* which is not modelled here.
Handle1 ==
  /\ Core1At("drain") /\ to1 # << >>
  /\ to1' = Tail(to1)
  /\ LET m == Head(to1)
     IN /\ wants' = WantsAfter(m)
        /\ s1' = IF m = "AUDIO_READY" /\ s1 = "WAIT_AUDIO" THEN "RUNNING" ELSE s1
        /\ http' = IF m = "RADIO_STOP" THEN [Cleaned(http) EXCEPT !.st = "IDLE"] ELSE http
        /\ playActive' = (playActive /\ m # "TTS_PLAYED")
        /\ queued' = IF m = "TTS_PLAYED" /\ queued > 0 THEN queued - 1 ELSE queued
  /\ UNCHANGED <<at1, out1, endSent, core0Vars, to0, audio>>

\* The loop leaves the dispatcher and polls the network.
Polling ==
  /\ out1 = Nothing /\ s1 = "RUNNING"
  /\ at1 = "poll" \/ (at1 = "drain" /\ to1 = << >>)

-----------------------------------------------------------------------------
(* Core 1: callbacks of the network, inside cyw43_arch_poll                *)

\* tts_start_playback: core 1 resets what core 0 plays from, here between two calls of
\* tts_play_pump and not inside one.
ArmedEnded ==                     \* mutant: the end of the last stream is not forgotten
  /\ audio' = [audio EXCEPT !.level = 0, !.pad = 0, !.done = FALSE]
  /\ playActive' = TRUE
  /\ UNCHANGED endSent
Armed ==
  /\ audio' = [audio EXCEPT !.level = 0, !.pad = 0, !.done = FALSE]
  /\ endSent' = FALSE
  /\ playActive' = TRUE

Callback(c, states) ==
  /\ Polling /\ http.conns[c].st \in states
  /\ at1' = "poll"
  /\ UNCHANGED <<s1, out1, wants, queued, core0Vars, to0, to1>>

Quiet == UNCHANGED <<audio, endSent, playActive>>

\* https_connected_cb writes the one request buffer, whoever filled it last.
Connected(c) ==
  /\ Callback(c, {"connecting"}) /\ Quiet
  /\ http' = [http EXCEPT !.conns[c] = [st |-> "requesting", kind |-> http.mode],
                          !.st = "REQUESTING"]

\* A short reply, complete by its Content-Length.  A GET may be answered
\* with 404.
ReceiveReply(c) ==
  /\ Callback(c, {"requesting"}) /\ Quiet
  /\ http' = [http EXCEPT !.conns[c].st = "replied", !.st = "DONE_OK",
                          !.body = IF @ = "none" THEN http.conns[c].kind ELSE @]

\* Audio; ERR_MEM keeps the packet out while the buffer is full.  Playback
\* starts once enough of it is there.
ReceiveAudio(c) ==
  /\ Callback(c, {"requesting", "streaming"})
  /\ http.conns[c].kind \in AudioModes /\ http.frames < BodySize
  /\ http' = [http EXCEPT !.conns[c].st = "streaming", !.frames = @ + 1,
                          !.body = IF @ = "none" THEN "audio" ELSE @]
  /\ IF http.mode \in AudioModes /\ ~playActive /\ http.frames + 1 >= Prebuffer
     THEN Armed ELSE Quiet

ReceiveTerminator(c) ==
  /\ Callback(c, {"streaming"}) /\ Quiet
  /\ http' = [http EXCEPT !.conns[c].st = "replied", !.final = TRUE,
                !.st = IF @ \in {"CONNECTING", "REQUESTING"} THEN "DONE_OK" ELSE @]

ReceiveFin(c) ==
  /\ Callback(c, {"requesting", "streaming", "replied"}) /\ Quiet
  /\ http' = [http EXCEPT !.conns[c].st = "closed", !.st = "DONE_OK"]

\* https_err_cb forgets g_https_pcb, whichever connection failed.
Fail(c) ==
  /\ Callback(c, {"connecting", "requesting", "streaming", "replied", "closed"}) /\ Quiet
  /\ http' = [http EXCEPT !.conns[c] = Free, !.pcb = 0, !.st = "DONE_ERR"]

\* https_poll_cb, 20 s after the last state change or data.
TimeOut(c) ==
  /\ Callback(c, {"connecting", "requesting", "streaming", "replied", "closed"}) /\ Quiet
  /\ http' = [http EXCEPT !.st = "DONE_ERR"]

Network(c) ==
  \/ Connected(c) \/ ReceiveReply(c) \/ ReceiveAudio(c) \/ ReceiveTerminator(c)
  \/ ReceiveFin(c) \/ Fail(c) \/ TimeOut(c)

PollReturns ==
  /\ Polling
  /\ at1' = IF http.st \in {"DONE_OK", "DONE_ERR"} THEN "done" ELSE "kick"
  /\ UNCHANGED <<s1, out1, wants, queued, endSent, http, core0Vars, to0, to1, audio, playActive>>

-----------------------------------------------------------------------------
(* Core 1: https_handle_done                                               *)

Done == Core1At("done") /\ at1' = "kick"
Answered == http.st = "DONE_OK" /\ http.body # "none"

CleanUp == out1' = Nothing /\ http' = [Cleaned(http) EXCEPT !.st = "IDLE"]
EndThenCleanUp ==
  IF endSent THEN CleanUp
  ELSE out1' = Sending("TTS_END", "cleanup") /\ UNCHANGED http

\* The lab list counts as read only if the buffer holds a lab list; its first
\* entry is selected.
DoneInfoOnceRead ==               \* mutant: a failure is not told
  /\ Done /\ http.mode = "INFO"
  /\ LET read == Answered /\ http.body = "INFO"
     IN \E first \in IF read THEN Roles ELSE {ui.selected} :
          ui' = [ui EXCEPT !.labs = IF read THEN "OK" ELSE @, !.selected = first]
  /\ out1' = Sending("LABS_READY", "cleanup")
  /\ UNCHANGED <<http, s1, wants, queued, s0, at0, out0, peek, to0, to1>> /\ Quiet
DoneInfo ==
  /\ Done /\ http.mode = "INFO"
  /\ LET read == Answered /\ http.body = "INFO"
     IN \E first \in IF read THEN Roles ELSE {ui.selected} :
          ui' = [ui EXCEPT !.labs = IF read THEN "OK" ELSE "ERR", !.selected = first]
  /\ out1' = Sending("LABS_READY", "cleanup")
  /\ UNCHANGED <<http, s1, wants, queued, s0, at0, out0, peek, to0, to1>> /\ Quiet

\* parse_timeline_response queues what is new; a full queue drops it.
DoneTimeline ==
  /\ Done /\ http.mode = "TIMELINE"
  /\ \E new \in 0 .. (IF Answered /\ http.body = "TIMELINE" THEN 1 ELSE 0) :
        queued' = IF queued + new > QueueSize THEN QueueSize ELSE queued + new
  /\ CleanUp
  /\ UNCHANGED <<s1, wants, core0Vars, to0, to1>> /\ Quiet

DonePost ==
  /\ Done /\ http.mode = "POST" /\ CleanUp
  /\ UNCHANGED <<s1, wants, queued, core0Vars, to0, to1>> /\ Quiet

\* A short stream that never filled the prebuffer starts here.
DoneStart ==
  /\ Done /\ Answered /\ ~playActive
  /\ http.mode = "TTS" \/ (http.mode = "GET" /\ http.body = "audio")
  /\ Armed /\ CleanUp
  /\ UNCHANGED <<s1, wants, queued, core0Vars, to0, to1>>

DoneFailed ==
  /\ Done /\ ~Answered /\ http.mode \in AudioModes
  /\ IF playActive THEN EndThenCleanUp ELSE CleanUp
  /\ queued' = IF http.mode = "TTS" /\ ~playActive /\ queued > 0 THEN queued - 1 ELSE queued
  /\ UNCHANGED <<s1, wants, core0Vars, to0, to1>> /\ Quiet

DoneOtherwise ==
  /\ Done /\ Answered /\ http.mode \in AudioModes
  /\ playActive \/ (http.mode = "GET" /\ http.body # "audio")
  /\ CleanUp
  /\ UNCHANGED <<s1, wants, queued, core0Vars, to0, to1>> /\ Quiet

HandleDone ==
  \/ DoneInfo \/ DoneTimeline \/ DonePost \/ DoneStart \/ DoneFailed
  \/ DoneOtherwise

-----------------------------------------------------------------------------
(* Core 1: tts_forward_pump and the kicks                                  *)

\* Packets go only into free slots (ic_send_avail), four at most in one pass;
\* the end of the stream is sent whether or not there is a slot.
Forwarding == playActive /\ ~endSent /\ http.body # "none"
Fit == CHOOSE k \in 0 .. 4 :
         /\ k <= http.frames /\ k <= FifoSize - Len(to0)
         /\ k = 4 \/ k = http.frames \/ k = FifoSize - Len(to0)
Forwarded == IF Forwarding THEN Fit ELSE 0
Ends == Forwarding /\ Forwarded = http.frames /\ (http.st = "IDLE" \/ http.final)

Forward ==
  /\ Core1At("kick") /\ Ends
  /\ to0' = to0 \o [i \in 1 .. Forwarded |-> "OPUS"]
  /\ http' = [http EXCEPT !.frames = 0]
  /\ out1' = Sending("TTS_END", "none")
  /\ UNCHANGED <<s1, at1, wants, queued, endSent, core0Vars, to1, audio, playActive>>

\* http_request_start: the response is forgotten and g_https_pcb overwritten.
Started(h, mode) ==
  LET clear == [h EXCEPT !.mode = mode, !.body = "none", !.frames = 0, !.final = FALSE]
      room  == Pcbs \ Live(h)
  IN IF room = {} THEN [clear EXCEPT !.pcb = 0, !.st = "DONE_ERR"]
     ELSE LET c == CHOOSE p \in room : \A q \in room : p <= q
          IN [clear EXCEPT !.st = "CONNECTING", !.pcb = c,
                           !.conns[c] = [st |-> "connecting", kind |-> mode]]

BusyPlaying == playActive \/ ui.mic      \* mutant: the transport not looked at
Busy == http.st # "IDLE" \/ playActive \/ ui.mic

\* The second kick of a pass, if any: the post, the poll for speech, the
\* radio, the head of the queue, the timeline.  Polls may or may not be due.
SecondKick(due) ==
  IF "post" \in wants THEN "POST"
  ELSE IF /\ "session" \in wants /\ due /\ queued = 0
          /\ {"radio", "timeline"} \cap wants = {} THEN "GET"
  ELSE IF "radio" \in wants \/ queued > 0 THEN "TTS"
  ELSE IF "timeline" \in wants /\ due THEN "TIMELINE"
  ELSE "none"

\* The fetch does not mark the transport busy for the kicks that follow it.
Kick ==
  /\ Core1At("kick") /\ ~Ends
  /\ at1' = "drain"
  /\ to0' = to0 \o [i \in 1 .. Forwarded |-> "OPUS"]
  /\ LET fed == [http EXCEPT !.frames = @ - Forwarded]
     IN IF Busy THEN http' = fed /\ UNCHANGED wants
        ELSE \E due \in BOOLEAN :
               LET first  == IF "fetch" \in wants THEN Started(fed, "INFO") ELSE fed
                   second == SecondKick(due)
                   radio  == second = "TTS" /\ "radio" \in wants
               IN /\ http' = IF second = "none" THEN first ELSE Started(first, second)
                  /\ wants' = wants \ ({"fetch"} \cup (IF second = "POST" THEN {"post"} ELSE {})
                                                 \cup (IF radio THEN {"radio"} ELSE {}))
  /\ UNCHANGED <<s1, out1, queued, endSent, core0Vars, to1, audio, playActive>>

-----------------------------------------------------------------------------
Core0 == Core0Sent \/ Handle0 \/ Hold \/ Boot \/ Buttons \/ Pumps
Core1 ==
  Core1Sent \/ NetworkUp \/ Handle1 \/ PollReturns \/ HandleDone \/ Forward \/ Kick

Next == Core0 \/ Core1 \/ Play \/ \E c \in Pcbs : Network(c)

Spec == Init /\ [][Next]_vars
-----------------------------------------------------------------------------
(* Properties                                                              *)

Has(q, m) == \E i \in 1 .. Len(q) : q[i] = m

\* Core 1 opens a connection while another request's connection is still open
\* only in a pass that takes the lab fetch, whose kick does not mark the
\* transport busy (main.c on_core1_running).
OverlapOnlyWithFetch ==
  [][Cardinality(Live(http)) <= 1 /\ Cardinality(Live(http')) > 1
       => "fetch" \in wants]_vars

\* The DAC is paused only while the user talks in a linephone session, or when
\* the resume follows the message being sent (gui.c on_button_event).
PausedOnlyWhileTalking ==
  audio.paused => out0.then = "resume" \/ (ui.held /\ ui.linephone)

\* A playback whose end was announced does end: TTS_END has arrived or is on
\* its way to core 0 (tts.c tts_start_playback, run by core 1, takes nothing
\* away from the playback it starts).
PlaybackEnds ==
  playActive /\ endSent => audio.done \/ Has(Waiting, "TTS_END")

\* As long as the screen says LOADING, and trigger_fetch therefore ignores
\* Button-X, the fetch is on its way, unless another request overtook it.
LoadingEnds ==
  ui.labs = "LOADING" =>
    \/ out0.msg = "BTN_X" \/ Has(to1, "BTN_X") \/ "fetch" \in wants
    \/ http.mode = "INFO" /\ http.st # "IDLE"
    \/ Cardinality(Live(http)) > 1

\* The two cores never wait for each other's FIFO (ic_ring.c ic_send, main.c
\* core0_loop).
NoMutualWait == ~(out0 # Nothing /\ ~Room1 /\ out1 # Nothing /\ ~Room0)
================================================================================

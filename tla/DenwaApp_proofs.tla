---------------------------- MODULE DenwaApp_proofs ----------------------------
(***************************************************************************)
(* The two cores of ito-denwa, for every size of their FIFOs and buffers:  *)
(* playbacks, pauses and listings end (PlaybackEnds, PausedOnlyWhileTalking,*)
(* LoadingEnds), and connections overlap only behind a lab fetch           *)
(* (OverlapOnlyWithFetch). The last two speak of the behaviours up to the  *)
(* first state with two live connections, and of two or more pcbs.         *)
(***************************************************************************)
EXTENDS DenwaApp, FiniteSetTheorems, SequenceTheorems, ModularLemmas,
        WellFoundedInduction, TLAPS

\* What is sent in either direction, and what a sender goes on with.
ToCore1 == {"AUDIO_READY", "BTN_X", "RADIO_START", "RADIO_STOP", "LP_START", "LP_STOP",
            "LP_END", "LP_PKT", "TL_START", "TL_STOP", "TTS_PLAYED"}
ToCore0 == {"NET_READY", "LABS_READY", "OPUS", "TTS_END"}
Out0Records ==
  [msg : ToCore1 \cup {"none"},
   then : {"none", "run", "resume", "linephone on", "linephone off",
           "timeline on", "timeline off"}]
Out1Records == [msg : ToCore0 \cup {"none"}, then : {"none", "wait audio", "cleanup"}]

UiRecords ==
  [labs : {"IDLE", "LOADING", "OK", "ERR"}, selected : Roles \cup {"qa"},
   timeline : BOOLEAN, linephone : BOOLEAN, held : BOOLEAN, mic : BOOLEAN,
   presses : 0 .. MaxPresses]
AudioRecords ==
  [paused : BOOLEAN, level : 0 .. AudioSize, pad : 0 .. AudioSize + 1, done : BOOLEAN]

ConnRecords ==
  [st : {"free", "connecting", "requesting", "streaming", "replied", "closed"},
   kind : Modes \cup {"none"}]
HttpRecords ==
  [st : {"IDLE", "CONNECTING", "REQUESTING", "DONE_OK", "DONE_ERR"}, mode : Modes,
   pcb : Pcbs \cup {0}, conns : [Pcbs -> ConnRecords],
   body : Modes \cup {"none", "audio"}, frames : 0 .. BodySize, final : BOOLEAN]

\* The FIFOs never hold more than they have slots for, whoever appends.
FifosOK ==
  /\ to1 \in Seq(ToCore1) /\ Len(to1) <= FifoSize
  /\ to0 \in Seq(ToCore0) /\ Len(to0) <= FifoSize
  /\ peek \in Seq(ToCore0) /\ Len(peek) <= 1

Core0OK ==
  /\ s0 \in {"INIT", "WAIT_NET", "BEEP_PLAY", "BEEP_WAIT", "TEST_START", "TEST_TICK",
             "AUDIO_READY", "RUNNING"}
  /\ at0 \in {"dispatch", "pumps"} /\ out0 \in Out0Records /\ ui \in UiRecords
  /\ out0.msg = "none" => out0 = Nothing

Core1OK ==
  /\ s1 \in {"INIT", "NETWORK", "WAIT_AUDIO", "RUNNING"}
  /\ at1 \in {"drain", "poll", "done", "kick"} /\ out1 \in Out1Records
  /\ wants \in SUBSET {"fetch", "timeline", "radio", "session", "post"}
  /\ queued \in 0 .. QueueSize /\ endSent \in BOOLEAN
  /\ out1.msg = "none" => out1 = Nothing

HttpOK == http \in HttpRecords

DenwaTypeOK ==
  /\ FifosOK /\ Core0OK /\ Core1OK /\ http \in HttpRecords
  /\ audio \in AudioRecords /\ playActive \in BOOLEAN

-----------------------------------------------------------------------------
\* What the proofs use of the constants.
LEMMA DenwaConstants ==
  /\ FifoSize \in Nat \ {0} /\ AudioSize \in Nat \ {0} /\ BodySize \in Nat \ {0}
  /\ QueueSize \in Nat \ {0} /\ Pcbs \subseteq Nat \ {0} /\ MicWorks \in BOOLEAN
  /\ MaxPresses \in Nat /\ Roles \subseteq {"qa", "radio", "linephone"}
BY DenwaAssumption

\* A message appended to a FIFO.
LEMMA Sent ==
  ASSUME NEW S, NEW q \in Seq(S), NEW m \in S, Len(q) < FifoSize
  PROVE  /\ Append(q, m) \in Seq(S) /\ Len(Append(q, m)) <= FifoSize
         /\ Len(Append(q, m)) = Len(q) + 1 /\ Append(q, m)[Len(q) + 1] = m
         /\ \A i \in 1 .. Len(q) : Append(q, m)[i] = q[i]
BY DenwaConstants, AppendProperties, LenProperties

\* A message taken from a FIFO.
LEMMA Fetched ==
  ASSUME NEW S, NEW q \in Seq(S), q # << >>
  PROVE  /\ Head(q) \in S /\ Head(q) = q[1] /\ Tail(q) \in Seq(S)
         /\ Len(Tail(q)) = Len(q) - 1 /\ Len(q) \in Nat \ {0}
         /\ \A i \in 1 .. Len(q) - 1 : Tail(q)[i] = q[i + 1]
BY HeadTailProperties, EmptySeq, LenProperties

\* What waits for core 0, in its cache and in the FIFO.
LEMMA WaitingIs ==
  ASSUME FifosOK
  PROVE  /\ Waiting \in Seq(ToCore0) /\ Len(Waiting) = Len(peek) + Len(to0)
         /\ Len(peek) \in Nat /\ Len(to0) \in Nat
         /\ \A i \in 1 .. Len(peek) : Waiting[i] = peek[i]
         /\ \A i \in 1 .. Len(to0) : Waiting[Len(peek) + i] = to0[i]
<1>1. /\ peek \in Seq(ToCore0) /\ to0 \in Seq(ToCore0)
      /\ Len(peek) \in Nat /\ Len(to0) \in Nat
  BY LenProperties DEF FifosOK
<1>2. /\ peek \o to0 \in Seq(ToCore0) /\ Len(peek \o to0) = Len(peek) + Len(to0)
      /\ \A i \in 1 .. Len(peek) + Len(to0) :
           (peek \o to0)[i] = IF i <= Len(peek) THEN peek[i] ELSE to0[i - Len(peek)]
  BY <1>1, ConcatProperties
<1> DEFINE l == Len(peek)  n == Len(to0)
<1>3. \A i \in 1 .. l : i \in 1 .. l + n /\ i <= l
  BY <1>1
<1>4. \A i \in 1 .. n : l + i \in 1 .. l + n /\ ~(l + i <= l) /\ (l + i) - l = i
  BY <1>1
<1>5. QED
  BY <1>1, <1>2, <1>3, <1>4 DEF Waiting

\* tts_forward_pump forwards no more than it has and than there are free slots.
LEMMA FitIs ==
  ASSUME FifosOK, http \in HttpRecords
  PROVE  /\ Forwarded \in 0 .. 4 /\ Forwarded <= http.frames
         /\ Len(to0) + Forwarded <= FifoSize
<1> DEFINE f == http.frames  g == FifoSize - Len(to0)
           r == IF 4 <= f /\ 4 <= g THEN 4 ELSE IF f <= g THEN f ELSE g
<1>1. f \in Nat /\ g \in Nat /\ Len(to0) \in Nat /\ FifoSize \in Nat
  BY DenwaConstants, LenProperties DEF FifosOK, HttpRecords
<1>2. r \in 0 .. 4 /\ r <= f /\ r <= g /\ (r = 4 \/ r = f \/ r = g)
  BY <1>1
<1>3. Fit \in 0 .. 4 /\ Fit <= f /\ Fit <= g
  BY <1>2 DEF Fit
<1>4. QED
  BY <1>1, <1>3 DEF Forwarded

\* The FIFO after a pass of tts_forward_pump.
LEMMA FedFifo ==
  ASSUME FifosOK, http \in HttpRecords
  PROVE  LET q == to0 \o [i \in 1 .. Forwarded |-> "OPUS"]
         IN /\ q \in Seq(ToCore0) /\ Len(q) <= FifoSize /\ Len(to0) <= Len(q)
            /\ Len(q) \in Nat /\ Len(to0) \in Nat
            /\ \A i \in 1 .. Len(to0) : q[i] = to0[i]
<1> DEFINE p == [i \in 1 .. Forwarded |-> "OPUS"]  n == Forwarded  l == Len(to0)
<1>1. /\ n \in Nat /\ l + n <= FifoSize /\ to0 \in Seq(ToCore0) /\ l \in Nat
  BY FitIs, LenProperties DEF FifosOK
<1>2. p \in Seq(ToCore0) /\ Len(p) = n
  <2>1. \A i \in 1 .. n : "OPUS" \in ToCore0
    BY DEF ToCore0
  <2> HIDE DEF n
  <2>2. QED
    BY <1>1, <2>1, IsASeq DEF n
<1> HIDE DEF p
<1>3. /\ to0 \o p \in Seq(ToCore0) /\ Len(to0 \o p) = l + n
      /\ \A i \in 1 .. l + n : (to0 \o p)[i] = IF i <= l THEN to0[i] ELSE p[i - l]
  BY <1>1, <1>2, ConcatProperties
<1>4. \A i \in 1 .. l : i \in 1 .. l + n /\ i <= l
  BY <1>1
<1>5. QED
  BY <1>1, <1>3, <1>4 DEF p

-----------------------------------------------------------------------------
(* Type correctness                                                        *)

\* The types hold when both cores start.
LEMMA DenwaTypeInit == Init => DenwaTypeOK
<1> SUFFICES ASSUME Init PROVE DenwaTypeOK
  OBVIOUS
<1>1. << >> \in Seq(ToCore1) /\ << >> \in Seq(ToCore0) /\ Len(<< >>) = 0
  OBVIOUS
<1>2. FifosOK
  BY <1>1, DenwaConstants DEF Init, FifosOK
<1>3. Core0OK
  BY DenwaConstants DEF Init, Core0OK, Out0Records, UiRecords, Nothing
<1>4. Core1OK
  <2>1. /\ s1 = "INIT" /\ at1 = "drain" /\ out1 = Nothing /\ wants = {} /\ queued = 0
        /\ endSent = FALSE
    BY DEF Init
  <2>2. 0 \in 0 .. QueueSize /\ Nothing \in Out1Records
    BY DenwaConstants DEF Nothing, Out1Records
  <2>3. QED
    BY <2>1, <2>2 DEF Core1OK
<1>5. http \in HttpRecords
  <2>1. [c \in Pcbs |-> Free] \in [Pcbs -> ConnRecords]
    BY DEF Free, ConnRecords
  <2>2. "INFO" \in Modes /\ 0 \in 0 .. BodySize /\ 0 \in Pcbs \cup {0}
    BY DenwaConstants DEF Modes
  <2> HIDE DEF Modes
  <2>3. QED
    BY <2>1, <2>2 DEF Init, HttpIdle, HttpRecords
<1>6. audio \in AudioRecords /\ playActive \in BOOLEAN
  <2>1. 0 \in 0 .. AudioSize /\ 0 \in 0 .. AudioSize + 1
    BY DenwaConstants
  <2>2. /\ audio = [paused |-> FALSE, level |-> 0, pad |-> 0, done |-> FALSE]
        /\ playActive = FALSE
    BY DEF Init
  <2>3. QED
    BY <2>1, <2>2 DEF AudioRecords
<1>7. QED
  BY <1>2, <1>3, <1>4, <1>5, <1>6 DEF DenwaTypeOK

\* Core 0 and the loudspeaker keep it.
LEMMA Core0Type ==
  ASSUME DenwaTypeOK, Core0 \/ Play
  PROVE  DenwaTypeOK'
<1>0. /\ to1 \in Seq(ToCore1) /\ to0 \in Seq(ToCore0) /\ peek \in Seq(ToCore0)
      /\ audio \in AudioRecords /\ ui \in UiRecords /\ out0 \in Out0Records
      /\ Len(to1) \in Nat /\ FifosOK /\ Core0OK /\ Core1OK
      /\ http \in HttpRecords /\ playActive \in BOOLEAN
  BY LenProperties DEF DenwaTypeOK, FifosOK, Core0OK
<1>1. ASSUME NEW a \in AudioRecords
      PROVE  Resumed(a) \in AudioRecords
  <2>1. 0 \in 0 .. AudioSize
    BY DenwaConstants
  <2>2. /\ Resumed(a) = [[a EXCEPT !.paused = FALSE] EXCEPT !.level = IF a.paused THEN 0 ELSE @]
        /\ [a EXCEPT !.paused = FALSE] \in AudioRecords
    BY DEF Resumed, AudioRecords
  <2>3. CASE a.paused
    BY <2>1, <2>2, <2>3 DEF AudioRecords
  <2>4. CASE ~a.paused
    BY <2>1, <2>2, <2>4 DEF AudioRecords
  <2>5. QED
    BY <2>3, <2>4
<1>2. ASSUME NEW a \in AudioRecords, NEW n \in Nat
      PROVE  Written(a, n) \in AudioRecords /\ Written(a, n) = [a EXCEPT !.level = Written(a, n).level]
  BY DenwaConstants DEF Written, AudioRecords
<1>3. CASE Core0Sent
  <2>1. out0.msg \in ToCore1
    BY <1>0, <1>3 DEF Core0Sent, Core0OK, Out0Records
  <2>2. to1' \in Seq(ToCore1) /\ Len(to1') <= FifoSize
    BY <1>0, <1>3, <2>1, Sent DEF Core0Sent, Room1
  <2>3. audio' \in AudioRecords
    BY <1>0, <1>1, <1>3 DEF Core0Sent
  <2>4. ui' \in UiRecords
    BY <1>0, <1>3 DEF Core0Sent, UiRecords
  <2>5. Core0OK'
    BY <1>0, <1>3, <2>4 DEF Core0Sent, Core0OK, Out0Records, Nothing
  <2>6. QED
    BY <1>0, <1>3, <2>2, <2>3, <2>5 DEF Core0Sent, DenwaTypeOK, FifosOK, Core1OK, core1Vars
<1>4. CASE Handle0
  <2>1. /\ to0' = Tail(Waiting) /\ peek' = << >> /\ Waiting # << >>
        /\ UNCHANGED <<at0, out0, ui, core1Vars, to1, playActive>>
    BY <1>4 DEF Handle0
  <2>2. to0' \in Seq(ToCore0) /\ Len(to0') <= FifoSize
    BY <1>0, <2>1, WaitingIs, Fetched, DenwaConstants DEF FifosOK
  <2>3. peek' \in Seq(ToCore0) /\ Len(peek') <= 1
    BY <2>1, LenProperties
  <2>4. audio' \in AudioRecords
    <3>1. \/ audio' = Written(audio, 1)
          \/ audio' = [audio EXCEPT !.done = TRUE]
          \/ audio' = audio
      BY <1>4 DEF Handle0
    <3>2. [audio EXCEPT !.done = TRUE] \in AudioRecords
      BY <1>0 DEF AudioRecords
    <3>3. Written(audio, 1) \in AudioRecords
      BY <1>0, <1>2
    <3>4. QED
      BY <1>0, <3>1, <3>2, <3>3
  <2>5. Core0OK'
    BY <1>0, <1>4, <2>1 DEF Handle0, Core0OK
  <2>6. QED
    BY <1>0, <2>1, <2>2, <2>3, <2>4, <2>5 DEF DenwaTypeOK, FifosOK, Core1OK, core1Vars
<1>5. CASE Hold
  <2>1. /\ to0' = Tail(to0) /\ peek = << >> /\ peek' = <<Head(to0)>> /\ to0 # << >>
        /\ UNCHANGED <<s0, at0, out0, ui, core1Vars, to1, audio, playActive>>
    <3>1. << >> \o to0 = to0
      BY <1>0, ConcatEmptySeq
    <3>2. QED
      BY <1>5, <3>1 DEF Hold, Throttled, Waiting
  <2>2. to0' \in Seq(ToCore0) /\ Len(to0') <= FifoSize
    BY <1>0, <2>1, Fetched, DenwaConstants DEF FifosOK
  <2>3. peek' \in Seq(ToCore0) /\ Len(peek') <= 1
    BY <1>0, <2>1, Fetched
  <2>4. QED
    BY <1>0, <2>1, <2>2, <2>3 DEF DenwaTypeOK, FifosOK, Core0OK, Core1OK, core1Vars
<1>6. CASE Boot
  <2>1. /\ s0 \notin {"WAIT_NET", "RUNNING"} /\ UNCHANGED <<at0, ui, core1Vars, to0, to1, peek, audio, playActive>>
        /\ \/ out0' = Sending("AUDIO_READY", "run") /\ s0' = s0
           \/ /\ out0' = out0 /\ s0 # "AUDIO_READY"
              /\ s0' = BootOrder[(CHOOSE i \in 1 .. 7 : BootOrder[i] = s0) + 1]
    BY <1>6 DEF Boot
  <2>2. s0 # "AUDIO_READY" => BootOrder[(CHOOSE i \in 1 .. 7 : BootOrder[i] = s0) + 1] \in
          {"INIT", "WAIT_NET", "BEEP_PLAY", "BEEP_WAIT", "TEST_START", "TEST_TICK",
           "AUDIO_READY", "RUNNING"}
    <3> DEFINE i == CHOOSE i \in 1 .. 7 : BootOrder[i] = s0
    <3>1. \E j \in 1 .. 7 : BootOrder[j] = s0
      BY <1>0, <2>1 DEF Core0OK, BootOrder
    <3>2. i \in 1 .. 7
      BY <3>1
    <3> HIDE DEF i
    <3>3. BootOrder[i + 1] \in
          {"INIT", "WAIT_NET", "BEEP_PLAY", "BEEP_WAIT", "TEST_START", "TEST_TICK",
           "AUDIO_READY", "RUNNING"}
      BY <3>2 DEF BootOrder
    <3>4. QED
      BY <3>3 DEF i
  <2>3. Core0OK'
    <3>1. /\ Sending("AUDIO_READY", "run") \in Out0Records
          /\ Sending("AUDIO_READY", "run").msg # "none"
      BY DEF Out0Records, Sending, ToCore1
    <3>2. CASE out0' = Sending("AUDIO_READY", "run") /\ s0' = s0
      BY <1>0, <2>1, <3>1, <3>2 DEF Core0OK
    <3>3. CASE out0' = out0 /\ s0 # "AUDIO_READY"
      BY <1>0, <2>1, <2>2, <3>3 DEF Core0OK
    <3>4. QED
      BY <2>1, <3>2, <3>3
  <2>4. QED
    BY <1>0, <2>1, <2>3 DEF DenwaTypeOK, FifosOK, Core1OK, core1Vars
<1>7. CASE Buttons
  <2>1. /\ UNCHANGED <<s0, peek, core1Vars, to0, to1, playActive>> /\ at0' = "pumps"
    BY <1>7
       DEF Buttons, Pressing, NoButton, PressFetch, PressMove, PressStartRadio,
           PressStartLinephone, PressStopLinephone, PressTimeline, PressTalk, PressSilence,
           ReleaseTalk
  <2>2. audio' \in AudioRecords
    <3>1. \/ audio' = audio \/ audio' = Resumed(audio)
          \/ audio' = [audio EXCEPT !.paused = TRUE] \/ audio' = [audio EXCEPT !.level = 0]
      BY <1>7
         DEF Buttons, Pressing, NoButton, PressFetch, PressMove, PressStartRadio,
             PressStartLinephone, PressStopLinephone, PressTimeline, PressTalk, PressSilence,
             ReleaseTalk
    <3>2. /\ [audio EXCEPT !.paused = TRUE] \in AudioRecords
          /\ [audio EXCEPT !.level = 0] \in AudioRecords
      <4>1. 0 \in 0 .. AudioSize
        BY DenwaConstants
      <4>2. QED
        BY <1>0, <4>1 DEF AudioRecords
    <3>3. QED
      BY <1>0, <1>1, <3>1, <3>2
  <2>3. out0' \in Out0Records /\ (out0'.msg = "none" => out0' = Nothing)
    <3>1. \/ out0' = out0
          \/ \E m \in ToCore1, t \in {"none", "resume", "linephone on", "linephone off",
                                      "timeline on", "timeline off"} : out0' = Sending(m, t)
      BY <1>7
         DEF Buttons, Pressing, NoButton, PressFetch, PressMove, PressStartRadio,
             PressStartLinephone, PressStopLinephone, PressTimeline, PressTalk, PressSilence,
             ReleaseTalk, ToCore1
    <3>2. ASSUME NEW m \in ToCore1,
                 NEW t \in {"none", "resume", "linephone on", "linephone off",
                            "timeline on", "timeline off"}
          PROVE  Sending(m, t) \in Out0Records /\ Sending(m, t).msg # "none"
      BY DEF Out0Records, Sending, ToCore1
    <3>3. QED
      BY <1>0, <3>1, <3>2 DEF Core0OK
  <2>4. ui' \in UiRecords
    <3>1. ui.presses < MaxPresses => Pressed \in UiRecords
      <4>1. ui.presses \in 0 .. MaxPresses
        BY <1>0 DEF UiRecords
      <4>2. ui.presses < MaxPresses => ui.presses + 1 \in 0 .. MaxPresses
        BY <4>1, DenwaConstants
      <4>3. QED
        BY <1>0, <4>2 DEF Pressed, UiRecords
    <3>2. CASE NoButton \/ ReleaseTalk
      <4>1. CASE NoButton
        BY <1>0, <4>1 DEF NoButton
      <4>2. CASE ReleaseTalk
        <5> DEFINE free == [ui EXCEPT !.held = FALSE]
        <5>1. free \in UiRecords
          BY <1>0 DEF UiRecords
        <5>2. ui' = free \/ ui' = [free EXCEPT !.mic = FALSE]
          BY <1>0, <4>2 DEF ReleaseTalk, UiRecords
        <5> HIDE DEF free
        <5>3. [free EXCEPT !.mic = FALSE] \in UiRecords
          BY <5>1 DEF UiRecords
        <5>4. QED
          BY <5>1, <5>2, <5>3
      <4>3. QED
        BY <3>2, <4>1, <4>2
    <3>3. CASE PressFetch \/ PressStartRadio \/ PressTimeline \/ PressStartLinephone
      BY <3>1, <3>3
         DEF PressFetch, PressStartRadio, PressTimeline, PressStartLinephone, Pressing, UiRecords
    <3>4. CASE PressMove
      BY <3>1, <3>4 DEF PressMove, Pressing, UiRecords
    <3>5. CASE PressStopLinephone \/ PressTalk \/ PressSilence
      BY <3>1, <3>5, DenwaConstants
         DEF PressStopLinephone, PressTalk, PressSilence, Pressing, UiRecords
    <3>6. QED
      BY <1>7, <3>2, <3>3, <3>4, <3>5 DEF Buttons
  <2>5. QED
    BY <1>0, <2>1, <2>2, <2>3, <2>4 DEF DenwaTypeOK, FifosOK, Core0OK, Core1OK, core1Vars
<1>8. CASE Pumps
  <2> DEFINE armed  == IF audio.done /\ audio.pad = 0 /\ playActive
                       THEN [audio EXCEPT !.pad = AudioSize + 1] ELSE audio
             fits   == AudioSize - armed.level
             n      == IF armed.pad < fits THEN armed.pad ELSE fits
             padded == [Written(armed, n) EXCEPT !.pad = @ - n]
             over   == padded.done /\ padded.pad = 0 /\ playActive
  <2>1. /\ at0' = "dispatch" /\ MicPump /\ UNCHANGED <<s0, peek, core1Vars, to0>>
        /\ audio' = IF over THEN [padded EXCEPT !.done = FALSE] ELSE padded
        /\ playActive' = (playActive /\ ~over)
        /\ \/ out0' = Sending("BTN_X", "none") /\ ui' = [ui EXCEPT !.labs = "LOADING"]
           \/ out0' = Sending("TTS_PLAYED", "none") /\ ui' = ui
           \/ out0' = out0 /\ ui' = ui
    BY <1>8 DEF Pumps
  <2>2. audio' \in AudioRecords
    <3>1. armed \in AudioRecords
      BY <1>0, DenwaConstants DEF AudioRecords
    <3> HIDE DEF armed
    <3>2. n \in Nat /\ n <= armed.pad
      BY <3>1, DenwaConstants DEF AudioRecords
    <3> HIDE DEF n
    <3>3. Written(armed, n) \in AudioRecords /\ Written(armed, n).pad = armed.pad
      BY <1>2, <3>1, <3>2 DEF AudioRecords
    <3>4. padded \in AudioRecords
      BY <3>1, <3>2, <3>3, DenwaConstants DEF AudioRecords
    <3> HIDE DEF padded
    <3>5. [padded EXCEPT !.done = FALSE] \in AudioRecords
      BY <3>4 DEF AudioRecords
    <3> HIDE DEF over
    <3>6. QED
      BY <2>1, <3>4, <3>5
  <2>3. to1' \in Seq(ToCore1) /\ Len(to1') <= FifoSize
    <3>1. \/ to1' = to1
          \/ Len(to1) < FifoSize /\ to1' = Append(to1, "LP_PKT")
      BY <2>1 DEF MicPump, Room1
    <3>2. "LP_PKT" \in ToCore1
      BY DEF ToCore1
    <3> HIDE DEF armed, fits, n, padded, over
    <3>3. Len(to1) < FifoSize =>
            Append(to1, "LP_PKT") \in Seq(ToCore1) /\ Len(Append(to1, "LP_PKT")) <= FifoSize
      BY <1>0, <3>2, Sent DEF FifosOK
    <3>4. QED
      BY <1>0, <3>1, <3>3 DEF FifosOK
  <2>4. out0' \in Out0Records /\ (out0'.msg = "none" => out0' = Nothing) /\ ui' \in UiRecords
    <3>1. ASSUME NEW m \in {"BTN_X", "TTS_PLAYED"}
          PROVE  Sending(m, "none") \in Out0Records /\ Sending(m, "none").msg # "none"
      BY DEF Out0Records, Sending, ToCore1
    <3>2. [ui EXCEPT !.labs = "LOADING"] \in UiRecords
      BY <1>0 DEF UiRecords
    <3>3. QED
      BY <1>0, <2>1, <3>1, <3>2 DEF Core0OK
  <2>5. playActive' \in BOOLEAN
    BY <2>1
  <2> HIDE DEF armed, fits, n, padded, over
  <2>6. QED
    BY <1>0, <2>1, <2>2, <2>3, <2>4, <2>5 DEF DenwaTypeOK, FifosOK, Core0OK, Core1OK, core1Vars
<1>9. CASE Play
  <2>1. audio' \in AudioRecords
    <3>1. audio.level > 0 /\ audio' = [audio EXCEPT !.level = audio.level - 1]
      BY <1>9 DEF Play
    <3>2. audio.level \in 0 .. AudioSize
      BY <1>0 DEF AudioRecords
    <3>3. audio.level - 1 \in 0 .. AudioSize
      BY <3>1, <3>2, DenwaConstants
    <3>4. QED
      BY <1>0, <3>1, <3>3 DEF AudioRecords
  <2>2. QED
    BY <1>0, <1>9, <2>1
       DEF Play, DenwaTypeOK, FifosOK, Core0OK, Core1OK, core1Vars, core0Vars
<1>10. QED
  BY <1>3, <1>4, <1>5, <1>6, <1>7, <1>8, <1>9 DEF Core0

\* http_cleanup and the state after it: the connection http_pcb names is closed.
LEMMA CleanedIs ==
  ASSUME NEW h \in HttpRecords
  PROVE  LET c == [Cleaned(h) EXCEPT !.st = "IDLE"]
         IN /\ c \in HttpRecords /\ c.st = "IDLE" /\ c.mode = h.mode /\ c.pcb = 0
            /\ Live(c) = Live(h) \ {h.pcb}
<1>1. h.pcb \in Pcbs \cup {0} /\ h.conns \in [Pcbs -> ConnRecords] /\ 0 \notin Pcbs
  BY DenwaConstants DEF HttpRecords
<1>2. CASE h.pcb = 0
  <2>1. Cleaned(h) = h
    BY <1>2 DEF Cleaned
  <2>2. QED
    BY <1>1, <1>2, <2>1 DEF HttpRecords, Live
<1>3. CASE h.pcb # 0
  <2> DEFINE conns == [h.conns EXCEPT ![h.pcb] = Free]
             c == [Cleaned(h) EXCEPT !.st = "IDLE"]
  <2>1. conns \in [Pcbs -> ConnRecords] /\ conns[h.pcb].st = "free"
        /\ \A p \in Pcbs : p # h.pcb => conns[p] = h.conns[p]
    BY <1>1, <1>3 DEF Free, ConnRecords
  <2>2. Cleaned(h) = [[h EXCEPT !.conns = conns] EXCEPT !.pcb = 0]
    BY <1>3 DEF Cleaned, HttpRecords
  <2> HIDE DEF conns
  <2>3. c \in HttpRecords /\ c.st = "IDLE" /\ c.mode = h.mode /\ c.pcb = 0 /\ c.conns = conns
    BY <2>1, <2>2 DEF HttpRecords
  <2> HIDE DEF c
  <2>4. Live(c) = Live(h) \ {h.pcb}
    BY <2>1, <2>3 DEF Live
  <2>5. QED
    BY <2>3, <2>4 DEF c
<1>4. QED
  BY <1>2, <1>3

\* A set of connections that is not empty has a first one.
LEMMA FirstPcb ==
  ASSUME NEW room \in SUBSET Pcbs, room # {}
  PROVE  (CHOOSE p \in room : \A q \in room : p <= q) \in room
<1> DEFINE Less == OpToRel(<, Nat)
<1>1. room \subseteq Nat
  BY DenwaConstants
<1>2. PICK x \in room : \A y \in room : ~(<<y, x>> \in Less)
  BY <1>1, NatLessThanWellFounded, WFMin
<1>3. \A y \in room : x <= y
  <2> SUFFICES ASSUME NEW y \in room PROVE x <= y
    OBVIOUS
  <2>1. x \in Nat /\ y \in Nat
    BY <1>1
  <2>2. ~(y < x)
    BY <1>2, <2>1 DEF OpToRel
  <2>3. QED
    BY <2>1, <2>2
<1>4. \E p \in room : \A q \in room : p <= q
  BY <1>3
<1>5. QED
  BY <1>4

\* http_request_start: a new connection, if the heap has room for one.
LEMMA StartedIs ==
  ASSUME NEW h \in HttpRecords, NEW mode \in Modes
  PROVE  LET s == Started(h, mode)
         IN /\ s \in HttpRecords /\ s.mode = mode /\ s.st # "IDLE"
            /\ \/ Live(h) = Pcbs /\ Live(s) = Live(h)
               \/ \E c \in Pcbs \ Live(h) : Live(s) = Live(h) \cup {c} /\ s.pcb = c
<1> DEFINE clear == [h EXCEPT !.mode = mode, !.body = "none", !.frames = 0, !.final = FALSE]
           room == Pcbs \ Live(h)
           s == Started(h, mode)
<1>1. clear = [[[[h EXCEPT !.mode = mode] EXCEPT !.body = "none"] EXCEPT !.frames = 0]
                 EXCEPT !.final = FALSE]
  BY DEF HttpRecords
<1>2. clear \in HttpRecords /\ clear.mode = mode /\ clear.conns = h.conns
  <2>1. 0 \in 0 .. BodySize
    BY DenwaConstants
  <2> DEFINE h1 == [h EXCEPT !.mode = mode]  h2 == [h1 EXCEPT !.body = "none"]
             h3 == [h2 EXCEPT !.frames = 0]
  <2>2. h1 \in HttpRecords /\ h1.mode = mode /\ h1.conns = h.conns
    BY DEF HttpRecords
  <2> HIDE DEF h1
  <2>3. h2 \in HttpRecords /\ h2.mode = mode /\ h2.conns = h.conns
    BY <2>2 DEF HttpRecords
  <2> HIDE DEF h2
  <2>4. h3 \in HttpRecords /\ h3.mode = mode /\ h3.conns = h.conns
    BY <2>1, <2>3 DEF HttpRecords
  <2>5. clear = [h3 EXCEPT !.final = FALSE]
    BY <1>1 DEF h1, h2
  <2> HIDE DEF h3, clear
  <2>6. QED
    BY <2>4, <2>5 DEF HttpRecords
<1>3. Live(h) \subseteq Pcbs
  BY DEF Live
<1>4. CASE room = {}
  <2>1. s = [clear EXCEPT !.pcb = 0, !.st = "DONE_ERR"]
    BY <1>4 DEF Started
  <2> HIDE DEF clear, s
  <2>2. s \in HttpRecords /\ s.mode = mode /\ s.st # "IDLE" /\ s.conns = h.conns
    BY <1>2, <2>1 DEF HttpRecords
  <2>3. Live(s) = Live(h)
    BY <2>2 DEF Live
  <2>4. QED
    BY <1>3, <1>4, <2>2, <2>3 DEF s
<1>5. CASE room # {}
  <2> DEFINE c == CHOOSE p \in room : \A q \in room : p <= q
             conn == [st |-> "connecting", kind |-> mode]
  <2>1. c \in Pcbs /\ c \notin Live(h)
    <3>1. c \in room
      BY <1>5, FirstPcb
    <3>2. QED
      BY <3>1
  <2>2. s = [clear EXCEPT !.st = "CONNECTING", !.pcb = c, !.conns[c] = conn]
    BY <1>5 DEF Started
  <2>3. conn \in ConnRecords /\ conn.st # "free"
    BY DEF ConnRecords
  <2> HIDE DEF clear, s, conn, c
  <2>4. /\ s \in HttpRecords /\ s.mode = mode /\ s.st # "IDLE" /\ s.pcb = c
        /\ s.conns = [h.conns EXCEPT ![c] = conn]
    BY <1>2, <2>1, <2>2, <2>3 DEF HttpRecords
  <2>5. Live(s) = Live(h) \cup {c}
    BY <2>1, <2>3, <2>4 DEF Live, HttpRecords
  <2>6. QED
    BY <2>1, <2>4, <2>5 DEF s
<1>6. QED
  BY <1>4, <1>5

\* The callbacks of the network keep it.  None of them makes the transport idle,
\* and none opens a connection.
LEMMA NetworkType ==
  ASSUME DenwaTypeOK, NEW c \in Pcbs, Network(c)
  PROVE  /\ DenwaTypeOK' /\ (http'.st = "IDLE" => http.st = "IDLE") /\ http'.mode = http.mode
         /\ Live(http') \subseteq Live(http)
         /\ http'.pcb = http.pcb \/ (http'.pcb = 0 /\ Live(http') = Live(http) \ {c})
         /\ out1 = Nothing
<1> DEFINE h == http
<1>1. /\ h \in HttpRecords /\ h.conns \in [Pcbs -> ConnRecords] /\ h.conns[c] \in ConnRecords
      /\ h.conns[c].kind \in Modes \cup {"none"} /\ h.mode \in Modes /\ h.pcb \in Pcbs \cup {0}
  BY DEF DenwaTypeOK, HttpRecords, ConnRecords
<1>2. /\ UNCHANGED <<s1, out1, wants, queued, core0Vars, to0, to1>> /\ at1' = "poll"
      /\ out1 = Nothing /\ c \in Live(h)
  <2>1. \E states \in SUBSET {"connecting", "requesting", "streaming", "replied", "closed"} :
          Callback(c, states)
    BY DEF Network, Connected, ReceiveReply, ReceiveAudio, ReceiveTerminator, ReceiveFin,
           Fail, TimeOut
  <2>2. QED
    BY <2>1 DEF Callback, Polling, Live
<1>3. Quiet \/ Armed
  BY DEF Network, Connected, ReceiveReply, ReceiveAudio, ReceiveTerminator, ReceiveFin,
         Fail, TimeOut
<1>4. audio' \in AudioRecords /\ playActive' \in BOOLEAN /\ endSent' \in BOOLEAN
  <2>1. CASE Quiet
    BY <2>1 DEF Quiet, DenwaTypeOK, Core1OK
  <2>2. CASE Armed
    <3>1. 0 \in 0 .. AudioSize /\ 0 \in 0 .. AudioSize + 1
      BY DenwaConstants
    <3>2. [[[audio EXCEPT !.level = 0] EXCEPT !.pad = 0] EXCEPT !.done = FALSE] \in AudioRecords
      BY <3>1 DEF DenwaTypeOK, AudioRecords
    <3>3. audio' = [[[audio EXCEPT !.level = 0] EXCEPT !.pad = 0] EXCEPT !.done = FALSE]
      BY <2>2 DEF Armed, DenwaTypeOK, AudioRecords
    <3>4. QED
      BY <2>2, <3>2, <3>3 DEF Armed
  <2>3. QED
    BY <1>3, <2>1, <2>2
<1>5. ASSUME NEW conn \in ConnRecords, NEW st \in {"REQUESTING", "DONE_OK", "DONE_ERR", h.st},
             NEW body \in Modes \cup {"none", "audio"}, NEW frames \in 0 .. BodySize,
             NEW final \in BOOLEAN, NEW pcb \in Pcbs \cup {0},
             pcb = h.pcb \/ (pcb = 0 /\ conn.st = "free"),
             http' = [st |-> st, mode |-> h.mode, pcb |-> pcb,
                      conns |-> [h.conns EXCEPT ![c] = conn], body |-> body,
                      frames |-> frames, final |-> final]
      PROVE  /\ http' \in HttpRecords /\ (http'.st = "IDLE" => h.st = "IDLE")
             /\ http'.mode = h.mode /\ Live(http') \subseteq Live(h)
             /\ http'.pcb = h.pcb \/ (http'.pcb = 0 /\ Live(http') = Live(h) \ {c})
  <2>1. [h.conns EXCEPT ![c] = conn] \in [Pcbs -> ConnRecords]
    BY <1>1
  <2>2. http' \in HttpRecords
    BY <1>1, <1>5, <2>1 DEF HttpRecords
  <2>3. http'.conns = [h.conns EXCEPT ![c] = conn]
    BY <1>5
  <2>4. Live(http') \subseteq Live(h) /\ (conn.st = "free" => Live(http') = Live(h) \ {c})
    BY <1>1, <1>2, <2>3 DEF Live
  <2>5. QED
    BY <1>5, <2>2, <2>4
<1>6. /\ http' \in HttpRecords /\ (http'.st = "IDLE" => h.st = "IDLE")
      /\ http'.mode = h.mode /\ Live(http') \subseteq Live(h)
      /\ http'.pcb = h.pcb \/ (http'.pcb = 0 /\ Live(http') = Live(h) \ {c})
  <2> DEFINE Rec(conn, st, body, frames, final, pcb) ==
               [st |-> st, mode |-> h.mode, pcb |-> pcb,
                conns |-> [h.conns EXCEPT ![c] = conn], body |-> body,
                frames |-> frames, final |-> final]
             With(st) == [h.conns[c] EXCEPT !.st = st]
  <2>1. /\ h = Rec(h.conns[c], h.st, h.body, h.frames, h.final, h.pcb)
        /\ h.body \in Modes \cup {"none", "audio"} /\ h.frames \in 0 .. BodySize
        /\ h.final \in BOOLEAN
    BY <1>1 DEF HttpRecords
  <2>2. \A st \in {"streaming", "replied", "closed"} : With(st) \in ConnRecords
    BY <1>1 DEF ConnRecords
  <2>3. CASE Connected(c)
    <3> DEFINE conn == [st |-> "requesting", kind |-> http.mode]
    <3>1. conn \in ConnRecords
      BY <1>1 DEF ConnRecords
    <3>2. http' = Rec(conn, "REQUESTING", h.body, h.frames, h.final, h.pcb)
      BY <1>1, <2>3 DEF Connected, HttpRecords
    <3> HIDE DEF conn
    <3>3. QED
      BY <1>1, <1>5, <2>1, <3>1, <3>2
  <2>4. CASE ReceiveReply(c)
    <3> DEFINE body == IF h.body = "none" THEN h.conns[c].kind ELSE h.body
    <3>1. body \in Modes \cup {"none", "audio"}
      BY <1>1, <2>1
    <3>2. http' = Rec(With("replied"), "DONE_OK", body, h.frames, h.final, h.pcb)
      BY <1>1, <2>4 DEF ReceiveReply, HttpRecords
    <3> HIDE DEF body
    <3>3. QED
      BY <1>1, <1>5, <2>1, <2>2, <3>1, <3>2
  <2>5. CASE ReceiveAudio(c)
    <3> DEFINE body == IF h.body = "none" THEN "audio" ELSE h.body
    <3>1. body \in Modes \cup {"none", "audio"} /\ h.frames + 1 \in 0 .. BodySize
      BY <2>1, <2>5, DenwaConstants DEF ReceiveAudio
    <3>2. http' = Rec(With("streaming"), h.st, body, h.frames + 1, h.final, h.pcb)
      BY <1>1, <2>5 DEF ReceiveAudio, HttpRecords
    <3> HIDE DEF body
    <3>3. QED
      BY <1>1, <1>5, <2>1, <2>2, <3>1, <3>2
  <2>6. CASE ReceiveTerminator(c)
    <3> DEFINE st == IF h.st \in {"CONNECTING", "REQUESTING"} THEN "DONE_OK" ELSE h.st
    <3>1. http' = Rec(With("replied"), st, h.body, h.frames, TRUE, h.pcb)
      BY <1>1, <2>6 DEF ReceiveTerminator, HttpRecords
    <3>2. st \in {"REQUESTING", "DONE_OK", "DONE_ERR", h.st}
      OBVIOUS
    <3> HIDE DEF st
    <3>3. QED
      BY <1>1, <1>5, <2>1, <2>2, <3>1, <3>2
  <2>7. CASE ReceiveFin(c)
    <3>1. http' = Rec(With("closed"), "DONE_OK", h.body, h.frames, h.final, h.pcb)
      BY <1>1, <2>7 DEF ReceiveFin, HttpRecords
    <3>2. QED
      BY <1>1, <1>5, <2>1, <2>2, <3>1
  <2>8. CASE Fail(c)
    <3>1. Free \in ConnRecords /\ Free.st = "free"
      BY DEF Free, ConnRecords
    <3>2. http' = Rec(Free, "DONE_ERR", h.body, h.frames, h.final, 0)
      BY <1>1, <2>8 DEF Fail, HttpRecords
    <3>3. QED
      BY <1>1, <1>5, <2>1, <3>1, <3>2
  <2>9. CASE TimeOut(c)
    <3>1. http' = Rec(h.conns[c], "DONE_ERR", h.body, h.frames, h.final, h.pcb)
      BY <1>1, <2>9 DEF TimeOut, HttpRecords
    <3>2. QED
      BY <1>1, <1>5, <2>1, <3>1
  <2>10. QED
    BY <2>3, <2>4, <2>5, <2>6, <2>7, <2>8, <2>9 DEF Network
<1>7. QED
  BY <1>1, <1>2, <1>4, <1>6
     DEF DenwaTypeOK, FifosOK, Core0OK, Core1OK, core0Vars

\* A pass of the kicks: nothing is started while the transport is busy, one
\* request if no fetch is wanted, and else the fetch and perhaps one more.
LEMMA KickIs ==
  ASSUME DenwaTypeOK, Kick
  PROVE  \E fed \in HttpRecords :
           /\ fed.st = http.st /\ fed.mode = http.mode /\ fed.pcb = http.pcb
           /\ Live(fed) = Live(http) /\ wants' \subseteq wants
           /\ \/ http' = fed /\ wants' = wants
              \/ /\ http.st = "IDLE" /\ "fetch" \notin wants
                 /\ http' = fed \/ \E mode \in Modes : http' = Started(fed, mode)
              \/ /\ http.st = "IDLE" /\ "fetch" \in wants
                 /\ \/ http' = Started(fed, "INFO")
                    \/ \E mode \in Modes : http' = Started(Started(fed, "INFO"), mode)
<1> DEFINE fed == [http EXCEPT !.frames = @ - Forwarded]
<1>1. Forwarded \in 0 .. 4 /\ Forwarded <= http.frames
  BY FitIs DEF DenwaTypeOK
<1>2. /\ fed \in HttpRecords /\ fed.st = http.st /\ fed.mode = http.mode /\ fed.pcb = http.pcb
      /\ fed.conns = http.conns
  <2>1. http.frames - Forwarded \in 0 .. BodySize
    BY <1>1, DenwaConstants DEF DenwaTypeOK, HttpRecords
  <2>2. QED
    BY <2>1 DEF DenwaTypeOK, HttpRecords
<1>3. Live(fed) = Live(http)
  BY <1>2 DEF Live
<1>4. \A due \in BOOLEAN : SecondKick(due) \in Modes \cup {"none"}
  BY DEF SecondKick, Modes
<1>5. CASE Busy
  <2>1. http' = fed /\ wants' = wants
    BY <1>5 DEF Kick
  <2>2. QED
    BY <1>2, <1>3, <2>1
<1>6. CASE ~Busy
  <2> DEFINE first == IF "fetch" \in wants THEN Started(fed, "INFO") ELSE fed
  <2>1. PICK due \in BOOLEAN :
          /\ http' = IF SecondKick(due) = "none" THEN first ELSE Started(first, SecondKick(due))
          /\ wants' \subseteq wants
    BY <1>6 DEF Kick
  <2>2. http.st = "IDLE"
    BY <1>6 DEF Busy
  <2> DEFINE mode == SecondKick(due)
  <2>3. mode = "none" \/ mode \in Modes
    BY <1>4
  <2> HIDE DEF mode, fed
  <2>4. CASE "fetch" \in wants
    <3>1. http' = Started(fed, "INFO") \/ (mode \in Modes /\ http' = Started(Started(fed, "INFO"), mode))
      BY <2>1, <2>3, <2>4 DEF mode
    <3>2. QED
      BY <1>2, <1>3, <2>1, <2>2, <2>4, <3>1
  <2>5. CASE "fetch" \notin wants
    <3>1. http' = fed \/ (mode \in Modes /\ http' = Started(fed, mode))
      BY <2>1, <2>3, <2>5 DEF mode
    <3>2. QED
      BY <1>2, <1>3, <2>1, <2>2, <2>5, <3>1
  <2>6. QED
    BY <2>4, <2>5
<1>7. QED
  BY <1>5, <1>6

\* What core 1 does with the end of a request: the transport is made idle at
\* once, or after a message that was not of the lab fetch or was its answer.
LEMMA DoneIs ==
  ASSUME DenwaTypeOK, HandleDone
  PROVE  /\ \/ /\ out1' = Nothing /\ http' = [Cleaned(http) EXCEPT !.st = "IDLE"]
               /\ http.mode # "INFO" /\ ui' = ui
            \/ /\ out1' = Sending("TTS_END", "cleanup") /\ http' = http
               /\ http.mode # "INFO" /\ ui' = ui
            \/ /\ out1' = Sending("LABS_READY", "cleanup") /\ http' = http
               /\ \E labs \in {"OK", "ERR"}, first \in Roles \cup {ui.selected} :
                    ui' = [ui EXCEPT !.labs = labs, !.selected = first]
         /\ Quiet \/ Armed
         /\ out1 = Nothing /\ at1' = "kick"
         /\ UNCHANGED <<s0, at0, out0, peek, s1, wants, to0, to1>>
         /\ queued' \in 0 .. QueueSize
<1>0. queued \in 0 .. QueueSize /\ QueueSize \in Nat \ {0}
  BY DenwaConstants DEF DenwaTypeOK, Core1OK
<1>1. out1 = Nothing /\ at1' = "kick"
  BY DEF HandleDone, DoneInfo, DoneTimeline, DonePost, DoneStart, DoneFailed, DoneOtherwise,
         Done, Core1At
<1>2. CASE DoneInfo
  <2>1. \E labs \in {"OK", "ERR"}, first \in Roles \cup {ui.selected} :
          ui' = [ui EXCEPT !.labs = labs, !.selected = first]
    BY <1>2 DEF DoneInfo
  <2>2. QED
    BY <1>0, <1>1, <1>2, <2>1 DEF DoneInfo
<1>3. CASE DoneTimeline
  <2>1. queued' \in 0 .. QueueSize
    BY <1>0, <1>3 DEF DoneTimeline
  <2>2. QED
    BY <1>1, <1>3, <2>1 DEF DoneTimeline, CleanUp, core0Vars
<1>4. CASE DonePost \/ DoneStart \/ DoneOtherwise
  BY <1>0, <1>1, <1>4
     DEF DonePost, DoneStart, DoneOtherwise, CleanUp, AudioModes, core0Vars
<1>5. CASE DoneFailed
  <2>1. queued' \in 0 .. QueueSize
    BY <1>0, <1>5 DEF DoneFailed
  <2>2. QED
    BY <1>1, <1>5, <2>1 DEF DoneFailed, CleanUp, EndThenCleanUp, AudioModes, core0Vars
<1>6. QED
  BY <1>2, <1>3, <1>4, <1>5 DEF HandleDone

\* Core 1 keeps it.
LEMMA Core1Type ==
  ASSUME DenwaTypeOK, Core1
  PROVE  DenwaTypeOK'
<1>0. /\ to1 \in Seq(ToCore1) /\ to0 \in Seq(ToCore0) /\ peek \in Seq(ToCore0)
      /\ audio \in AudioRecords /\ ui \in UiRecords /\ out1 \in Out1Records
      /\ Len(to1) \in Nat /\ Len(to0) \in Nat /\ FifosOK /\ Core0OK /\ Core1OK
      /\ http \in HttpRecords /\ playActive \in BOOLEAN
  BY LenProperties DEF DenwaTypeOK, FifosOK, Core0OK, Core1OK
<1>1. [Cleaned(http) EXCEPT !.st = "IDLE"] \in HttpRecords
  BY <1>0, CleanedIs
<1>2. CASE Core1Sent
  <2>1. out1.msg \in ToCore0
    BY <1>0, <1>2 DEF Core1Sent, Core1OK, Out1Records
  <2>2. to0' \in Seq(ToCore0) /\ Len(to0') <= FifoSize
    BY <1>0, <1>2, <2>1, Sent DEF Core1Sent, Room0
  <2>3. http' \in HttpRecords
    BY <1>0, <1>1, <1>2 DEF Core1Sent
  <2>4. Core1OK'
    BY <1>0, <1>2 DEF Core1Sent, Core1OK, Out1Records, Nothing
  <2>5. QED
    BY <1>0, <1>2, <2>2, <2>3, <2>4
       DEF Core1Sent, DenwaTypeOK, FifosOK, Core0OK, core0Vars
<1>3. CASE NetworkUp
  <2>1. /\ Sending("NET_READY", "wait audio") \in Out1Records
        /\ Sending("NET_READY", "wait audio").msg # "none"
    BY DEF Sending, Out1Records, ToCore0
  <2>2. \/ s1' = "NETWORK" /\ out1' = out1
        \/ s1' = s1 /\ out1' = Sending("NET_READY", "wait audio")
    BY <1>3 DEF NetworkUp
  <2>3. UNCHANGED <<at1, wants, queued, endSent, http, core0Vars, to0, to1, audio, playActive>>
    BY <1>3 DEF NetworkUp
  <2>4. Core1OK'
    BY <1>0, <2>1, <2>2, <2>3 DEF Core1OK
  <2>5. QED
    BY <1>0, <2>3, <2>4 DEF DenwaTypeOK, FifosOK, Core0OK, core0Vars
<1>4. CASE Handle1
  <2>1. to1' \in Seq(ToCore1) /\ Len(to1') <= FifoSize
    BY <1>0, <1>4, Fetched, DenwaConstants DEF Handle1, FifosOK
  <2>2. http' \in HttpRecords
    BY <1>0, <1>1, <1>4 DEF Handle1
  <2>3. wants' \in SUBSET {"fetch", "timeline", "radio", "session", "post"}
    BY <1>0, <1>4 DEF Handle1, WantsAfter, Core1OK
  <2>4. queued' \in 0 .. QueueSize
    BY <1>0, <1>4, DenwaConstants DEF Handle1, Core1OK
  <2>5. playActive' \in BOOLEAN
    BY <1>4 DEF Handle1
  <2>6. Core1OK'
    BY <1>0, <1>4, <2>3, <2>4 DEF Handle1, Core1OK
  <2>7. QED
    BY <1>0, <1>4, <2>1, <2>2, <2>5, <2>6
       DEF Handle1, DenwaTypeOK, FifosOK, Core0OK, core0Vars
<1>5. CASE PollReturns
  BY <1>0, <1>5 DEF PollReturns, DenwaTypeOK, FifosOK, Core0OK, Core1OK, core0Vars
<1>6. CASE HandleDone
  <2>1. /\ Quiet \/ Armed
        /\ out1 = Nothing /\ at1' = "kick"
        /\ UNCHANGED <<s0, at0, out0, peek, s1, wants, to0, to1>>
        /\ queued' \in 0 .. QueueSize
    BY <1>6, DoneIs
  <2>2. out1' \in Out1Records /\ (out1'.msg = "none" => out1' = Nothing)
    <3>1. /\ Nothing \in Out1Records
          /\ Sending("TTS_END", "cleanup") \in Out1Records
          /\ Sending("LABS_READY", "cleanup") \in Out1Records
          /\ Sending("TTS_END", "cleanup").msg # "none"
          /\ Sending("LABS_READY", "cleanup").msg # "none"
      BY DEF Nothing, Sending, Out1Records, ToCore0
    <3>2. out1' \in {Nothing, Sending("TTS_END", "cleanup"), Sending("LABS_READY", "cleanup")}
      BY <1>6, DoneIs
    <3>3. QED
      BY <3>1, <3>2
  <2>3. http' \in HttpRecords
    BY <1>0, <1>1, <1>6, DoneIs
  <2>4. ui' \in UiRecords
    <3>1. ASSUME NEW labs \in {"OK", "ERR"}, NEW first \in Roles \cup {ui.selected}
          PROVE  [ui EXCEPT !.labs = labs, !.selected = first] \in UiRecords
      BY <1>0 DEF UiRecords
    <3>2. \/ ui' = ui
          \/ \E labs \in {"OK", "ERR"}, first \in Roles \cup {ui.selected} :
               ui' = [ui EXCEPT !.labs = labs, !.selected = first]
      BY <1>6, DoneIs
    <3>3. QED
      BY <1>0, <3>1, <3>2
  <2>5. audio' \in AudioRecords /\ playActive' \in BOOLEAN /\ endSent' \in BOOLEAN
    <3>1. 0 \in 0 .. AudioSize /\ 0 \in 0 .. AudioSize + 1
      BY DenwaConstants
    <3>2. [[[audio EXCEPT !.level = 0] EXCEPT !.pad = 0] EXCEPT !.done = FALSE] \in AudioRecords
      BY <1>0, <3>1 DEF AudioRecords
    <3>3. Armed => audio' = [[[audio EXCEPT !.level = 0] EXCEPT !.pad = 0] EXCEPT !.done = FALSE]
      BY <1>0 DEF Armed, AudioRecords
    <3>4. QED
      BY <1>0, <2>1, <3>2, <3>3 DEF Armed, Quiet, Core1OK
  <2>6. QED
    BY <1>0, <2>1, <2>2, <2>3, <2>4, <2>5 DEF DenwaTypeOK, FifosOK, Core0OK, Core1OK
<1>7. CASE Forward
  <2>1. to0' \in Seq(ToCore0) /\ Len(to0') <= FifoSize
    BY <1>0, <1>7, FedFifo DEF Forward
  <2>2. http' \in HttpRecords
    <3>1. 0 \in 0 .. BodySize
      BY DenwaConstants
    <3>2. QED
      BY <1>0, <1>7, <3>1 DEF Forward, HttpRecords
  <2>3. out1' \in Out1Records /\ out1'.msg # "none"
    BY <1>7 DEF Forward, Sending, Out1Records, ToCore0
  <2>4. QED
    BY <1>0, <1>7, <2>1, <2>2, <2>3
       DEF Forward, DenwaTypeOK, FifosOK, Core0OK, Core1OK, core0Vars
<1>8. CASE Kick
  <2>1. to0' \in Seq(ToCore0) /\ Len(to0') <= FifoSize
    BY <1>0, <1>8, FedFifo DEF Kick
  <2>2. http' \in HttpRecords /\ wants' \subseteq wants
    <3>1. "INFO" \in Modes
      BY DEF Modes
    <3>2. QED
      BY <1>8, <3>1, KickIs, StartedIs
  <2>3. QED
    BY <1>0, <1>8, <2>1, <2>2 DEF Kick, DenwaTypeOK, FifosOK, Core0OK, Core1OK, core0Vars
<1>9. QED
  BY <1>2, <1>3, <1>4, <1>5, <1>6, <1>7, <1>8 DEF Core1

\* No step of the program leaves them.
LEMMA DenwaTypeStep == ASSUME DenwaTypeOK, [Next]_vars PROVE DenwaTypeOK'
<1>1. CASE UNCHANGED vars
  BY <1>1
     DEF vars, core0Vars, core1Vars, DenwaTypeOK, FifosOK, Core0OK, Core1OK
<1>2. CASE Next
  BY <1>2, Core0Type, Core1Type, NetworkType DEF Next
<1>3. QED
  BY <1>1, <1>2

\* The state of both cores is of the right shape, and neither FIFO holds more
\* than it has slots for, whether ic_send waited or tts_forward_pump counted.
THEOREM DenwaTypeCorrect == Spec => []DenwaTypeOK
<1>1. Init => DenwaTypeOK
  BY DenwaTypeInit
<1>2. DenwaTypeOK /\ [Next]_vars => DenwaTypeOK'
  BY DenwaTypeStep
<1>3. QED
  BY <1>1, <1>2, PTL DEF Spec

-----------------------------------------------------------------------------
(* What a FIFO holds                                                       *)

\* A message waits behind others, or is the last one sent.
LEMMA HasPrefix ==
  ASSUME NEW S, NEW p \in Seq(S), NEW q \in Seq(S), Len(p) <= Len(q),
         \A i \in 1 .. Len(p) : q[i] = p[i], NEW m, Has(p, m)
  PROVE  Has(q, m)
<1>1. Len(p) \in Nat /\ Len(q) \in Nat
  BY LenProperties
<1>2. PICK i \in 1 .. Len(p) : p[i] = m
  BY DEF Has
<1>3. i \in 1 .. Len(q) /\ q[i] = m
  BY <1>1, <1>2
<1>4. QED
  BY <1>3 DEF Has

\* What waits behind the first message still waits without it.
LEMMA HasTail ==
  ASSUME NEW S, NEW q \in Seq(S), q # << >>, NEW m, Has(q, m)
  PROVE  Head(q) = m \/ Has(Tail(q), m)
<1>1. /\ Head(q) = q[1] /\ Tail(q) \in Seq(S)
      /\ Len(Tail(q)) = Len(q) - 1 /\ Len(q) \in Nat \ {0}
      /\ \A i \in 1 .. Len(q) - 1 : Tail(q)[i] = q[i + 1]
  BY Fetched
<1>2. PICK i \in 1 .. Len(q) : q[i] = m
  BY DEF Has
<1>3. CASE i = 1
  BY <1>1, <1>2, <1>3
<1>4. CASE i # 1
  <2>1. i - 1 \in 1 .. Len(q) - 1 /\ (i - 1) + 1 = i
    BY <1>1, <1>2, <1>4
  <2>2. Tail(q)[i - 1] = m /\ i - 1 \in 1 .. Len(Tail(q))
    BY <1>1, <1>2, <2>1
  <2>3. QED
    BY <2>2 DEF Has
<1>5. QED
  BY <1>3, <1>4

\* A message waits in the cache or in the FIFO.
LEMMA HasConcat ==
  ASSUME NEW S, NEW p \in Seq(S), NEW q \in Seq(S), NEW m
  PROVE  Has(p \o q, m) <=> Has(p, m) \/ Has(q, m)
<1> DEFINE k == Len(p)  n == Len(q)
<1>1. /\ k \in Nat /\ n \in Nat /\ Len(p \o q) = k + n
      /\ \A i \in 1 .. k + n : (p \o q)[i] = IF i <= k THEN p[i] ELSE q[i - k]
  BY ConcatProperties, LenProperties
<1>2. ASSUME Has(p \o q, m) PROVE Has(p, m) \/ Has(q, m)
  <2>1. PICK i \in 1 .. k + n : (p \o q)[i] = m
    BY <1>1, <1>2 DEF Has
  <2>2. CASE i <= k
    <3>1. i \in 1 .. k /\ p[i] = m
      BY <1>1, <2>1, <2>2
    <3>2. QED
      BY <3>1 DEF Has
  <2>3. CASE ~(i <= k)
    <3>1. i - k \in 1 .. n /\ q[i - k] = m
      BY <1>1, <2>1, <2>3
    <3>2. QED
      BY <3>1 DEF Has
  <2>4. QED
    BY <2>2, <2>3
<1>3. ASSUME Has(p, m) PROVE Has(p \o q, m)
  <2>1. PICK i \in 1 .. k : p[i] = m
    BY <1>3 DEF Has
  <2>2. i \in 1 .. k + n /\ (p \o q)[i] = m
    BY <1>1, <2>1
  <2>3. QED
    BY <1>1, <2>2 DEF Has
<1>4. ASSUME Has(q, m) PROVE Has(p \o q, m)
  <2>1. PICK i \in 1 .. n : q[i] = m
    BY <1>4 DEF Has
  <2>2. k + i \in 1 .. k + n /\ ~(k + i <= k) /\ (k + i) - k = i
    BY <1>1, <2>1
  <2>3. (p \o q)[k + i] = m
    BY <1>1, <2>1, <2>2
  <2>4. QED
    BY <1>1, <2>2, <2>3 DEF Has
<1>5. QED
  BY <1>2, <1>3, <1>4

-----------------------------------------------------------------------------
(* Playback                                                                *)

EndComes == audio.done \/ Has(peek, "TTS_END") \/ Has(to0, "TTS_END")
EndInv == playActive /\ endSent => EndComes

\* Core 0 takes the end of the stream from the FIFO only to note it.
LEMMA EndStep0 ==
  ASSUME DenwaTypeOK, EndInv, Core0 \/ Play
  PROVE  EndInv'
<1>0. /\ to0 \in Seq(ToCore0) /\ peek \in Seq(ToCore0) /\ audio \in AudioRecords
  BY DEF DenwaTypeOK, FifosOK
<1>1. endSent' = endSent
  BY DEF Core0, Core0Sent, Handle0, Hold, Boot, Pumps, Play, Buttons, Pressing, NoButton,
         PressFetch, PressMove, PressStartRadio, PressStartLinephone, PressStopLinephone,
         PressTimeline, PressTalk, PressSilence, ReleaseTalk, core1Vars
<1>2. CASE Core0Sent \/ Boot \/ Buttons \/ Play
  <2>1. UNCHANGED <<peek, to0, playActive>>
    BY <1>2
       DEF Core0Sent, Boot, Play, Buttons, Pressing, NoButton, core0Vars,
           PressFetch, PressMove, PressStartRadio, PressStartLinephone, PressStopLinephone,
           PressTimeline, PressTalk, PressSilence, ReleaseTalk
  <2>2. audio'.done = audio.done
    <3>1. \/ audio' = audio \/ audio' = Resumed(audio)
          \/ audio' = [audio EXCEPT !.paused = TRUE] \/ audio' = [audio EXCEPT !.level = 0]
          \/ audio' = [audio EXCEPT !.level = @ - 1]
      BY <1>2
         DEF Core0Sent, Boot, Play, Buttons, Pressing, NoButton, core0Vars,
             PressFetch, PressMove, PressStartRadio, PressStartLinephone, PressStopLinephone,
             PressTimeline, PressTalk, PressSilence, ReleaseTalk
    <3>2. Resumed(audio).done = audio.done
      BY <1>0 DEF Resumed, AudioRecords
    <3>3. QED
      BY <1>0, <3>1, <3>2 DEF AudioRecords
  <2>3. QED
    BY <1>1, <2>1, <2>2 DEF EndInv, EndComes
<1>3. CASE Handle0
  <2>1. /\ to0' = Tail(Waiting) /\ peek' = << >> /\ Waiting # << >> /\ playActive' = playActive
        /\ audio' = CASE Head(Waiting) = "OPUS"    -> Written(audio, 1)
                      [] Head(Waiting) = "TTS_END" -> [audio EXCEPT !.done = TRUE]
                      [] OTHER -> audio
    BY <1>3 DEF Handle0
  <2>2. Waiting \in Seq(ToCore0)
    BY WaitingIs DEF DenwaTypeOK
  <2>3. Written(audio, 1).done = audio.done
    BY <1>0 DEF Written, AudioRecords
  <2>4. audio.done => audio'.done
    BY <1>0, <2>1, <2>3 DEF AudioRecords
  <2>5. Head(Waiting) = "TTS_END" => audio'.done
    BY <1>0, <2>1 DEF AudioRecords
  <2>6. Has(Waiting, "TTS_END") => audio'.done \/ Has(to0', "TTS_END")
    BY <2>1, <2>2, <2>5, HasTail
  <2>7. Has(peek, "TTS_END") \/ Has(to0, "TTS_END") => Has(Waiting, "TTS_END")
    BY <1>0, HasConcat DEF Waiting
  <2>8. QED
    BY <1>1, <2>1, <2>4, <2>6, <2>7 DEF EndInv, EndComes
<1>4. CASE Hold
  <2>1. /\ to0' = Tail(to0) /\ peek = << >> /\ peek' = <<Head(to0)>> /\ to0 # << >>
        /\ UNCHANGED <<audio, playActive>>
    <3>1. << >> \o to0 = to0
      BY <1>0, ConcatEmptySeq
    <3>2. QED
      BY <1>4, <3>1 DEF Hold, Throttled, Waiting
  <2>2. ~Has(peek, "TTS_END")
    BY <2>1, LenProperties DEF Has
  <2>3. Head(to0) = "TTS_END" => Has(peek', "TTS_END")
    <3>1. <<Head(to0)>>[1] = Head(to0) /\ Len(<<Head(to0)>>) = 1 /\ 1 \in 1 .. 1
      OBVIOUS
    <3>2. QED
      BY <2>1, <3>1 DEF Has
  <2>4. Has(to0, "TTS_END") => Head(to0) = "TTS_END" \/ Has(to0', "TTS_END")
    BY <1>0, <2>1, HasTail
  <2>5. QED
    BY <1>1, <2>1, <2>2, <2>3, <2>4 DEF EndInv, EndComes
<1>5. CASE Pumps
  <2> DEFINE armed  == IF audio.done /\ audio.pad = 0 /\ playActive
                       THEN [audio EXCEPT !.pad = AudioSize + 1] ELSE audio
             fits   == AudioSize - armed.level
             n      == IF armed.pad < fits THEN armed.pad ELSE fits
             padded == [Written(armed, n) EXCEPT !.pad = @ - n]
             over   == padded.done /\ padded.pad = 0 /\ playActive
  <2>1. /\ UNCHANGED <<peek, to0>>
        /\ audio' = IF over THEN [padded EXCEPT !.done = FALSE] ELSE padded
        /\ playActive' = (playActive /\ ~over)
    BY <1>5 DEF Pumps
  <2>2. padded.done = audio.done
    <3>1. armed.done = audio.done /\ DOMAIN armed = DOMAIN audio
      BY <1>0 DEF AudioRecords
    <3> HIDE DEF armed
    <3>2. Written(armed, n).done = armed.done
      BY <1>0, <3>1 DEF Written, AudioRecords
    <3>3. QED
      BY <1>0, <3>1, <3>2 DEF Written, AudioRecords
  <2> HIDE DEF padded, over
  <2>3. playActive' => audio'.done = audio.done
    BY <2>1, <2>2
  <2>4. QED
    BY <1>1, <2>1, <2>3 DEF EndInv, EndComes
<1>6. QED
  BY <1>2, <1>3, <1>4, <1>5 DEF Core0

\* Core 1 announces an end by sending it, and starts a playback only with the
\* announcement of the last one forgotten.
LEMMA EndStep1 ==
  ASSUME DenwaTypeOK, EndInv, Core1 \/ \E c \in Pcbs : Network(c)
  PROVE  EndInv'
<1>0. /\ to0 \in Seq(ToCore0) /\ Len(to0) \in Nat
      /\ DenwaTypeOK' /\ to0' \in Seq(ToCore0)
  <2>1. [Next]_vars
    BY DEF Next
  <2>2. QED
    BY <2>1, DenwaTypeStep, LenProperties DEF DenwaTypeOK, FifosOK
<1>1. peek' = peek
  BY DEF Core1, Core1Sent, NetworkUp, Handle1, PollReturns, HandleDone, DoneInfo, DoneTimeline,
         DonePost, DoneStart, DoneFailed, DoneOtherwise, Forward, Kick, Network, Callback,
         Connected, ReceiveReply, ReceiveAudio, ReceiveTerminator, ReceiveFin, Fail, TimeOut,
         core0Vars
<1>2. CASE Core1Sent
  <2>1. /\ to0' = Append(to0, out1.msg) /\ endSent' = (endSent \/ out1.msg = "TTS_END")
        /\ Len(to0) < FifoSize /\ out1 # Nothing /\ UNCHANGED <<audio, playActive>>
    BY <1>2 DEF Core1Sent, Room0
  <2>2. out1.msg \in ToCore0
    BY <2>1 DEF DenwaTypeOK, Core1OK, Out1Records
  <2>3. /\ Len(to0') = Len(to0) + 1 /\ to0'[Len(to0) + 1] = out1.msg
        /\ \A i \in 1 .. Len(to0) : to0'[i] = to0[i]
    BY <1>0, <2>1, <2>2, Sent
  <2>4. Has(to0, "TTS_END") => Has(to0', "TTS_END")
    <3>1. Len(to0) <= Len(to0')
      BY <1>0, <2>3
    <3>2. QED
      BY <1>0, <2>3, <3>1, HasPrefix
  <2>5. out1.msg = "TTS_END" => Has(to0', "TTS_END")
    <3>1. Len(to0) + 1 \in 1 .. Len(to0')
      BY <1>0, <2>3
    <3>2. QED
      BY <2>3, <3>1 DEF Has
  <2>6. QED
    BY <1>1, <2>1, <2>4, <2>5 DEF EndInv, EndComes
<1>3. CASE Handle1
  <2>1. /\ UNCHANGED <<to0, audio, endSent>>
        /\ playActive' = (playActive /\ Head(to1) # "TTS_PLAYED")
    BY <1>3 DEF Handle1
  <2>2. QED
    BY <1>1, <2>1 DEF EndInv, EndComes
<1>4. CASE NetworkUp \/ PollReturns
  <2>1. UNCHANGED <<to0, audio, endSent, playActive>>
    BY <1>4 DEF NetworkUp, PollReturns
  <2>2. QED
    BY <1>1, <2>1 DEF EndInv, EndComes
<1>5. CASE Forward \/ Kick
  <2>1. /\ UNCHANGED <<audio, endSent, playActive>>
        /\ to0' = to0 \o [i \in 1 .. Forwarded |-> "OPUS"]
    BY <1>5 DEF Forward, Kick
  <2>2. Len(to0) <= Len(to0') /\ \A i \in 1 .. Len(to0) : to0'[i] = to0[i]
    BY <2>1, FedFifo DEF DenwaTypeOK
  <2>3. Has(to0, "TTS_END") => Has(to0', "TTS_END")
    BY <1>0, <2>2, HasPrefix
  <2>4. QED
    BY <1>1, <2>1, <2>3 DEF EndInv, EndComes
<1>6. CASE HandleDone \/ \E c \in Pcbs : Network(c)
  <2>1. Quiet \/ Armed
    BY <1>6, DoneIs
       DEF Network, Connected, ReceiveReply, ReceiveAudio, ReceiveTerminator, ReceiveFin,
           Fail, TimeOut
  <2>2. to0' = to0
    BY <1>6, DoneIs
       DEF Network, Callback, Connected, ReceiveReply, ReceiveAudio, ReceiveTerminator,
           ReceiveFin, Fail, TimeOut
  <2>3. QED
    BY <1>1, <2>1, <2>2 DEF Armed, Quiet, EndInv, EndComes
<1>7. QED
  BY <1>2, <1>3, <1>4, <1>5, <1>6 DEF Core1

\* A playback whose end core 1 has announced does end: the announcement is in the
\* FIFO or has arrived, for all sizes of the FIFOs and buffers, although the next
\* playback may be started by either of two callbacks (tts.c tts_start_playback).
THEOREM PlaybackDoesEnd == Spec => []PlaybackEnds
<1>1. Init => EndInv
  BY DEF Init, EndInv
<1>2. DenwaTypeOK /\ EndInv /\ [Next]_vars => EndInv'
  <2> SUFFICES ASSUME DenwaTypeOK, EndInv, [Next]_vars PROVE EndInv'
    OBVIOUS
  <2>1. CASE UNCHANGED vars
    BY <2>1 DEF vars, core0Vars, core1Vars, EndInv, EndComes
  <2>2. CASE Next
    BY <2>2, EndStep0, EndStep1 DEF Next
  <2>3. QED
    BY <2>1, <2>2
<1>3. DenwaTypeOK /\ EndInv => PlaybackEnds
  BY HasConcat DEF DenwaTypeOK, FifosOK, EndInv, EndComes, PlaybackEnds, Waiting
<1>4. QED
  BY <1>1, <1>2, <1>3, DenwaTypeCorrect, PTL DEF Spec

-----------------------------------------------------------------------------
(* The paused loudspeaker                                                  *)

\* Whoever talks has the microphone running, and the message that ends a session
\* finds the loudspeaker resumed.
TalkInv ==
  /\ audio.paused => out0.then = "resume" \/ (ui.held /\ ui.linephone /\ ui.mic)
  /\ out0.then = "linephone off" => ~audio.paused

\* Core 0 pauses the loudspeaker only with a key held, or waits to resume it.
LEMMA TalkStep0 ==
  ASSUME DenwaTypeOK, TalkInv, MicWorks, Core0 \/ Play
  PROVE  TalkInv'
<1>0. /\ audio \in AudioRecords /\ ui \in UiRecords /\ out0 \in Out0Records
  BY DEF DenwaTypeOK, Core0OK
<1>1. ~Resumed(audio).paused
  BY <1>0 DEF Resumed, AudioRecords
<1>2. out0 = Nothing => (audio.paused => ui.held /\ ui.linephone /\ ui.mic)
  BY DEF TalkInv, Nothing
<1>3. CASE Core0Sent
  <2>1. /\ out0'.then = "none"
        /\ audio' = IF out0.then = "resume" THEN Resumed(audio) ELSE audio
    BY <1>3 DEF Core0Sent, Nothing
  <2>2. CASE out0.then = "resume"
    BY <1>1, <2>1, <2>2 DEF TalkInv
  <2>3. CASE out0.then = "linephone off"
    BY <2>1, <2>3 DEF TalkInv
  <2>4. CASE out0.then \notin {"resume", "linephone off"}
    <3>1. /\ ui'.held = ui.held /\ ui'.mic = ui.mic /\ (ui.linephone => ui'.linephone)
      BY <1>0, <1>3, <2>4 DEF Core0Sent, UiRecords
    <3>2. QED
      BY <2>1, <2>4, <3>1 DEF TalkInv
  <2>5. QED
    BY <2>2, <2>3, <2>4
<1>4. CASE Handle0 \/ Hold \/ Play
  <2>1. audio'.paused = audio.paused /\ UNCHANGED <<out0, ui>>
    BY <1>0, <1>4 DEF Handle0, Hold, Play, Written, AudioRecords, core0Vars
  <2>2. QED
    BY <2>1 DEF TalkInv
<1>5. CASE Boot
  <2>1. /\ UNCHANGED <<audio, ui>> /\ out0 = Nothing
        /\ out0' = out0 \/ out0' = Sending("AUDIO_READY", "run")
    BY <1>5 DEF Boot, Dispatched, Core0At
  <2>2. out0'.then # "linephone off"
    <3>1. /\ Nothing.then = "none"
          /\ Sending("AUDIO_READY", "run").then = "run"
      BY DEF Sending, Nothing
    <3>2. out0'.then = "none" \/ out0'.then = "run"
      BY <2>1, <3>1
    <3>3. QED
      BY <3>2
  <2>3. audio'.paused => ui'.held /\ ui'.linephone /\ ui'.mic
    BY <1>2, <2>1
  <2>4. QED
    BY <1>2, <2>1, <2>2, <2>3 DEF TalkInv
<1>6. CASE Buttons
  <2>1. out0 = Nothing
    BY <1>6
       DEF Buttons, Pressing, NoButton, PressFetch, PressMove, PressStartRadio,
           PressStartLinephone, PressStopLinephone, PressTimeline, PressTalk, PressSilence,
           ReleaseTalk, Dispatched, Core0At
  <2>2. audio.paused => ui.held /\ ui.linephone /\ ui.mic
    BY <1>2, <2>1
  <2>3. CASE NoButton
    BY <2>3 DEF NoButton, TalkInv
  <2>4. CASE PressFetch \/ PressMove \/ PressStartRadio \/ PressStartLinephone \/ PressTimeline
    <3>1. /\ audio' = audio /\ ui'.held = ui.held /\ ui'.linephone = ui.linephone
          /\ ui'.mic = ui.mic
      BY <1>0, <2>4
         DEF PressFetch, PressMove, PressStartRadio, PressStartLinephone, PressTimeline,
             Pressed, UiRecords
    <3>2. out0'.then # "linephone off"
      <4>1. \/ out0' = Nothing
            \/ \E m \in ToCore1, t \in {"none", "linephone on", "timeline on", "timeline off"} :
                 out0' = Sending(m, t)
        BY <2>1, <2>4
           DEF PressFetch, PressMove, PressStartRadio, PressStartLinephone, PressTimeline,
               ToCore1
      <4>2. ASSUME NEW m, NEW t PROVE Sending(m, t).then = t
        BY DEF Sending
      <4>3. out0'.then \in {"none", "linephone on", "timeline on", "timeline off"}
        <5>1. CASE out0' = Nothing
          BY <5>1 DEF Nothing
        <5>2. ASSUME NEW m \in ToCore1,
                     NEW t \in {"none", "linephone on", "timeline on", "timeline off"},
                     out0' = Sending(m, t)
              PROVE  out0'.then = t
          BY <4>2, <5>2
        <5>3. QED
          BY <4>1, <5>1, <5>2
      <4>4. QED
        BY <4>3
    <3>3. QED
      BY <2>2, <3>1, <3>2 DEF TalkInv
  <2>5. CASE PressStopLinephone
    <3>1. audio' = IF ui.mic THEN Resumed(audio) ELSE audio
      BY <2>5 DEF PressStopLinephone
    <3>2. ~audio'.paused
      BY <1>1, <2>2, <3>1
    <3>3. QED
      BY <3>2 DEF TalkInv
  <2>6. CASE PressTalk
    <3>1. ui'.held /\ ui'.linephone /\ ui'.mic
      BY <1>0, <2>6 DEF PressTalk, Pressed, UiRecords
    <3>2. out0' = Nothing
      BY <2>1, <2>6 DEF PressTalk
    <3>3. QED
      BY <3>1, <3>2 DEF TalkInv, Nothing
  <2>7. CASE PressSilence
    <3>1. audio'.paused = audio.paused /\ ~ui.linephone
      BY <1>0, <2>7 DEF PressSilence, AudioRecords
    <3>2. ~audio'.paused
      BY <2>2, <3>1
    <3>3. QED
      BY <3>2 DEF TalkInv
  <2>8. CASE ReleaseTalk
    <3>1. /\ audio' = audio
          /\ out0' = IF ui.linephone THEN Sending("LP_END", "resume") ELSE out0
      BY <2>8 DEF ReleaseTalk
    <3>2. CASE ui.linephone
      BY <3>1, <3>2 DEF TalkInv, Sending
    <3>3. CASE ~ui.linephone
      <4>1. ~audio'.paused
        BY <2>2, <3>1, <3>3
      <4>2. QED
        BY <4>1 DEF TalkInv
    <3>4. QED
      BY <3>2, <3>3
  <2>9. QED
    BY <1>6, <2>3, <2>4, <2>5, <2>6, <2>7, <2>8 DEF Buttons
<1>7. CASE Pumps
  <2> DEFINE armed  == IF audio.done /\ audio.pad = 0 /\ playActive
                       THEN [audio EXCEPT !.pad = AudioSize + 1] ELSE audio
             fits   == AudioSize - armed.level
             n      == IF armed.pad < fits THEN armed.pad ELSE fits
             padded == [Written(armed, n) EXCEPT !.pad = @ - n]
             over   == padded.done /\ padded.pad = 0 /\ playActive
  <2>1. /\ out0 = Nothing
        /\ audio' = IF over THEN [padded EXCEPT !.done = FALSE] ELSE padded
        /\ \/ out0' = Sending("BTN_X", "none") /\ ui' = [ui EXCEPT !.labs = "LOADING"]
           \/ out0' = Sending("TTS_PLAYED", "none") /\ ui' = ui
           \/ out0' = out0 /\ ui' = ui
    BY <1>7 DEF Pumps, Core0At
  <2>2. audio'.paused = audio.paused
    <3>1. armed.paused = audio.paused /\ DOMAIN armed = DOMAIN audio
      BY <1>0 DEF AudioRecords
    <3> HIDE DEF armed
    <3>2. padded.paused = audio.paused /\ DOMAIN padded = DOMAIN audio
      BY <1>0, <3>1 DEF Written, AudioRecords
    <3> HIDE DEF padded
    <3>3. QED
      BY <1>0, <2>1, <3>2 DEF AudioRecords
  <2> HIDE DEF padded, over
  <2>3. out0'.then = "none"
    BY <2>1 DEF Sending, Nothing
  <2>4. ui'.held = ui.held /\ ui'.linephone = ui.linephone /\ ui'.mic = ui.mic
    BY <1>0, <2>1 DEF UiRecords
  <2>5. QED
    BY <1>2, <2>1, <2>2, <2>3, <2>4 DEF TalkInv
<1>8. QED
  BY <1>3, <1>4, <1>5, <1>6, <1>7 DEF Core0

\* Core 1 never pauses the loudspeaker or ends the talk.
LEMMA TalkStep1 ==
  ASSUME DenwaTypeOK, TalkInv, Core1 \/ \E c \in Pcbs : Network(c)
  PROVE  TalkInv'
<1>0. audio \in AudioRecords /\ ui \in UiRecords
  BY DEF DenwaTypeOK, Core0OK
<1>1. CASE HandleDone \/ \E c \in Pcbs : Network(c)
  <2>1. Quiet \/ Armed
    BY <1>1, DoneIs
       DEF Network, Connected, ReceiveReply, ReceiveAudio, ReceiveTerminator, ReceiveFin,
           Fail, TimeOut
  <2>2. audio'.paused = audio.paused
    BY <1>0, <2>1 DEF Quiet, Armed, AudioRecords
  <2>3. out0' = out0
    BY <1>1, DoneIs
       DEF Network, Callback, Connected, ReceiveReply, ReceiveAudio, ReceiveTerminator,
           ReceiveFin, Fail, TimeOut, core0Vars
  <2>4. ui'.held = ui.held /\ ui'.linephone = ui.linephone /\ ui'.mic = ui.mic
    <3>1. \/ ui' = ui
          \/ \E labs \in {"OK", "ERR"}, first \in Roles \cup {ui.selected} :
               ui' = [ui EXCEPT !.labs = labs, !.selected = first]
      BY <1>1, DoneIs
         DEF Network, Callback, Connected, ReceiveReply, ReceiveAudio, ReceiveTerminator,
             ReceiveFin, Fail, TimeOut, core0Vars
    <3>2. QED
      BY <1>0, <3>1 DEF UiRecords
  <2>5. QED
    BY <2>2, <2>3, <2>4 DEF TalkInv
<1>2. CASE Core1Sent \/ NetworkUp \/ Handle1 \/ PollReturns \/ Forward \/ Kick
  <2>1. UNCHANGED <<audio, out0, ui>>
    BY <1>2 DEF Core1Sent, NetworkUp, Handle1, PollReturns, Forward, Kick, core0Vars
  <2>2. QED
    BY <2>1 DEF TalkInv
<1>3. QED
  BY <1>1, <1>2 DEF Core1

\* Where mic_init succeeded, the loudspeaker is paused only while the user talks in
\* a linephone session, or when the resume follows the message being sent (gui.c
\* on_button_event), however the messages of the cores wait for each other.
THEOREM PausedOnlyForTalk == MicWorks => (Spec => []PausedOnlyWhileTalking)
<1> SUFFICES ASSUME MicWorks PROVE Spec => []PausedOnlyWhileTalking
  OBVIOUS
<1>1. Init => TalkInv
  BY DEF Init, TalkInv, Nothing
<1>2. DenwaTypeOK /\ TalkInv /\ [Next]_vars => TalkInv'
  <2> SUFFICES ASSUME DenwaTypeOK, TalkInv, [Next]_vars PROVE TalkInv'
    OBVIOUS
  <2>1. CASE UNCHANGED vars
    BY <2>1 DEF vars, core0Vars, TalkInv
  <2>2. CASE Next
    BY <2>2, TalkStep0, TalkStep1 DEF Next
  <2>3. QED
    BY <2>1, <2>2
<1>3. TalkInv => PausedOnlyWhileTalking
  BY DEF TalkInv, PausedOnlyWhileTalking
<1>4. QED
  BY <1>1, <1>2, <1>3, DenwaTypeCorrect, PTL DEF Spec

-----------------------------------------------------------------------------
(* Requests up to the first overlap                                        *)

\* The heap has room for two TLS connections.  With room for one, the request that
\* follows the fetch in its pass finds none and is forgotten together with it.
RoomForTwo == IsFiniteSet(Pcbs) /\ Cardinality(Pcbs) > 1

OneAtATime == Cardinality(Live(http)) <= 1

\* The step that opens a second connection is the last one.
UntilOverlap == Init /\ [][OneAtATime /\ Next]_vars

\* With at most one live connection and room for two there is a free pcb.
LEMMA Few ==
  ASSUME IsFiniteSet(Pcbs), NEW L \in SUBSET Pcbs
  PROVE  Cardinality(L) \in Nat /\ (Cardinality(L) <= 1 <=> \A p, q \in L : p = q)
<1>1. IsFiniteSet(L)
  BY FS_Subset
<1>2. Cardinality(L) \in Nat
  BY <1>1, FS_CardinalityType
<1>3. ASSUME Cardinality(L) <= 1, NEW p \in L, NEW q \in L PROVE p = q
  <2> SUFFICES ASSUME p # q PROVE FALSE
    OBVIOUS
  <2>1. IsFiniteSet({p}) /\ Cardinality({p}) = 1
    BY FS_Singleton
  <2>2. IsFiniteSet({p} \cup {q}) /\ Cardinality({p} \cup {q}) = 2
    <3>1. q \notin {p}
      OBVIOUS
    <3>2. /\ IsFiniteSet({p} \cup {q})
          /\ Cardinality({p} \cup {q}) = Cardinality({p}) + 1
      BY <2>1, <3>1, FS_AddElement, Zenon
    <3>3. QED
      BY <2>1, <3>2
  <2>3. {p} \cup {q} \subseteq L
    OBVIOUS
  <2>4. Cardinality({p} \cup {q}) <= Cardinality(L)
    BY <1>1, <2>3, FS_Subset
  <2>5. QED
    BY <1>2, <1>3, <2>2, <2>4
<1>4. ASSUME \A p, q \in L : p = q PROVE Cardinality(L) <= 1
  <2>1. CASE L = {}
    BY <2>1, FS_EmptySet
  <2>2. CASE L # {}
    <3>1. PICK p \in L : TRUE
      BY <2>2
    <3>2. L = {p}
      BY <1>4
    <3>3. QED
      BY <3>2, FS_Singleton
  <2>3. QED
    BY <2>1, <2>2
<1>5. QED
  BY <1>2, <1>3, <1>4

\* Two requests started in one pass overlap.
LEMMA TwoStarted ==
  ASSUME RoomForTwo, NEW h \in HttpRecords, Cardinality(Live(h)) <= 1,
         NEW m \in Modes, NEW n \in Modes
  PROVE  ~(Cardinality(Live(Started(Started(h, m), n))) <= 1)
<1> DEFINE s == Started(h, m)  t == Started(s, n)
<1> SUFFICES ASSUME Cardinality(Live(t)) <= 1 PROVE FALSE
  OBVIOUS
<1>1. \A r \in HttpRecords : Live(r) \in SUBSET Pcbs
  BY DEF Live
<1>2. /\ s \in HttpRecords
      /\ \/ Live(h) = Pcbs /\ Live(s) = Live(h)
         \/ \E c \in Pcbs \ Live(h) : Live(s) = Live(h) \cup {c}
  BY StartedIs
<1> HIDE DEF s
<1>3. /\ t \in HttpRecords
      /\ \/ Live(s) = Pcbs /\ Live(t) = Live(s)
         \/ \E c \in Pcbs \ Live(s) : Live(t) = Live(s) \cup {c}
  BY <1>2, StartedIs
<1> HIDE DEF t
<1>4. Live(h) # Pcbs
  <2>1. Cardinality(Pcbs) \in Nat
    BY FS_CardinalityType DEF RoomForTwo
  <2>2. ~(Cardinality(Pcbs) <= 1)
    BY <2>1 DEF RoomForTwo
  <2>3. QED
    BY <2>2
<1>5. PICK c \in Pcbs \ Live(h) : Live(s) = Live(h) \cup {c}
  BY <1>2, <1>4
<1>6. \A p, q \in Live(t) : p = q
  BY <1>1, <1>3, Few DEF RoomForTwo
<1>7. CASE Live(s) = Pcbs /\ Live(t) = Live(s)
  <2>1. Cardinality(Pcbs) <= 1
    BY <1>6, <1>7
  <2>2. Cardinality(Pcbs) \in Nat
    BY FS_CardinalityType DEF RoomForTwo
  <2>3. QED
    BY <2>1, <2>2 DEF RoomForTwo
<1>8. CASE \E d \in Pcbs \ Live(s) : Live(t) = Live(s) \cup {d}
  BY <1>5, <1>6, <1>8
<1>9. QED
  BY <1>3, <1>7, <1>8

\* The one connection is the one that http_pcb names, and an idle transport has none.
OwnedInv ==
  OneAtATime => /\ \A c \in Live(http) : c = http.pcb
                /\ http.st = "IDLE" => Live(http) = {}

\* What a step of either core does to the connections, as long as they do not overlap.
LEMMA ConnectionStep ==
  ASSUME RoomForTwo, DenwaTypeOK, OwnedInv, OneAtATime, [Next]_vars
  PROVE  OwnedInv' /\ (~OneAtATime' => "fetch" \in wants)
<1> DEFINE idle == [Cleaned(http) EXCEPT !.st = "IDLE"]
<1>0. /\ http \in HttpRecords /\ Live(http) \in SUBSET Pcbs
      /\ \A c \in Live(http) : c = http.pcb
      /\ http.st = "IDLE" => Live(http) = {}
      /\ IsFiniteSet(Pcbs)
  BY DEF DenwaTypeOK, OwnedInv, Live, RoomForTwo
<1>1. CASE Live(http') \subseteq Live(http)
           /\ (http'.pcb = http.pcb \/ Live(http') = {})
           /\ (http'.st = "IDLE" => http.st = "IDLE" \/ Live(http') = {})
  <2>1. OwnedInv'
    BY <1>0, <1>1 DEF OwnedInv
  <2>2. Cardinality(Live(http')) <= 1
    <3>1. \A p, q \in Live(http') : p = q
      BY <1>0, <1>1
    <3>2. Live(http') \in SUBSET Pcbs
      BY <1>0, <1>1
    <3>3. QED
      BY <1>0, <3>1, <3>2, Few
  <2>3. QED
    BY <2>1, <2>2 DEF OneAtATime
<1>2. CASE http' = http
  BY <1>1, <1>2
<1>3. CASE http' = idle
  <2>1. Live(http') = Live(http) \ {http.pcb}
    BY <1>0, <1>3, CleanedIs
  <2>2. Live(http') = {}
    BY <1>0, <2>1
  <2>3. QED
    BY <1>1, <2>2
<1>4. CASE Core0 \/ Play \/ UNCHANGED vars
  <2>1. http' = http
    BY <1>4
       DEF Core0, Core0Sent, Handle0, Hold, Boot, Pumps, Play, Buttons, Pressing, NoButton,
           PressFetch, PressMove, PressStartRadio, PressStartLinephone, PressStopLinephone,
           PressTimeline, PressTalk, PressSilence, ReleaseTalk, core1Vars, vars
  <2>2. QED
    BY <1>2, <2>1
<1>5. CASE Core1Sent \/ Handle1 \/ NetworkUp \/ PollReturns
  <2>1. http' = http \/ http' = idle
    BY <1>5 DEF Core1Sent, Handle1, NetworkUp, PollReturns
  <2>2. QED
    BY <1>2, <1>3, <2>1
<1>6. CASE HandleDone
  <2>1. http' = http \/ http' = idle
    BY <1>6, DoneIs
  <2>2. QED
    BY <1>2, <1>3, <2>1
<1>7. CASE Forward
  <2>1. http'.conns = http.conns /\ http'.pcb = http.pcb /\ http'.st = http.st
    BY <1>0, <1>7 DEF Forward, HttpRecords
  <2>2. Live(http') = Live(http)
    BY <2>1 DEF Live
  <2>3. QED
    BY <1>1, <2>1, <2>2
<1>8. CASE \E c \in Pcbs : Network(c)
  <2>1. PICK c \in Pcbs : Network(c)
    BY <1>8
  <2>2. /\ http'.st = "IDLE" => http.st = "IDLE"
        /\ Live(http') \subseteq Live(http)
        /\ http'.pcb = http.pcb \/ (http'.pcb = 0 /\ Live(http') = Live(http) \ {c})
        /\ c \in Live(http)
    <3>1. c \in Live(http)
      <4>1. \E states \in SUBSET {"connecting", "requesting", "streaming", "replied", "closed"} :
              Callback(c, states)
        BY <2>1
           DEF Network, Connected, ReceiveReply, ReceiveAudio, ReceiveTerminator, ReceiveFin,
               Fail, TimeOut
      <4>2. QED
        BY <4>1 DEF Callback, Live
    <3>2. QED
      BY <2>1, <3>1, NetworkType
  <2>3. http'.pcb = http.pcb \/ Live(http') = {}
    BY <1>0, <2>2
  <2>4. QED
    BY <1>1, <2>2, <2>3
<1>9. CASE Kick
  <2>1. PICK fed \in HttpRecords :
           /\ fed.st = http.st /\ fed.mode = http.mode /\ fed.pcb = http.pcb
           /\ Live(fed) = Live(http)
           /\ \/ http' = fed /\ wants' = wants
              \/ /\ http.st = "IDLE" /\ "fetch" \notin wants
                 /\ http' = fed \/ \E mode \in Modes : http' = Started(fed, mode)
              \/ /\ http.st = "IDLE" /\ "fetch" \in wants
                 /\ \/ http' = Started(fed, "INFO")
                    \/ \E mode \in Modes : http' = Started(Started(fed, "INFO"), mode)
    BY <1>9, KickIs
  <2>2. CASE http' = fed
    BY <1>1, <2>1, <2>2
  <2>3. ASSUME NEW mode \in Modes, http' = Started(fed, mode), http.st = "IDLE"
        PROVE  OwnedInv' /\ OneAtATime'
    <3>1. Live(fed) = {}
      BY <1>0, <2>1, <2>3
    <3>2. /\ http'.st # "IDLE"
          /\ \/ Live(fed) = Pcbs /\ Live(http') = Live(fed)
             \/ \E c \in Pcbs \ Live(fed) : Live(http') = Live(fed) \cup {c} /\ http'.pcb = c
      BY <2>1, <2>3, StartedIs
    <3>3. \A c \in Live(http') : c \in Pcbs /\ c = http'.pcb
      BY <3>1, <3>2
    <3>4. OneAtATime'
      BY <1>0, <3>3, Few DEF OneAtATime
    <3>5. QED
      BY <3>2, <3>3, <3>4 DEF OwnedInv
  <2>4. ASSUME NEW mode \in Modes, http' = Started(Started(fed, "INFO"), mode)
        PROVE  ~OneAtATime'
    <3>1. Cardinality(Live(fed)) <= 1 /\ "INFO" \in Modes
      BY <2>1 DEF OneAtATime, Modes
    <3>2. QED
      BY <2>4, <3>1, TwoStarted DEF OneAtATime
  <2>5. "INFO" \in Modes
    BY DEF Modes
  <2>6. QED
    BY <2>1, <2>2, <2>3, <2>4, <2>5 DEF OwnedInv
<1>10. QED
  BY <1>4, <1>5, <1>6, <1>7, <1>8, <1>9 DEF Next, Core1

\* Connections overlap first in a pass that takes the lab fetch, whose kick does not
\* mark the transport busy, and in no other way (main.c on_core1_running).
THEOREM FirstOverlapNeedsFetch == RoomForTwo => (UntilOverlap => OverlapOnlyWithFetch)
<1> SUFFICES ASSUME RoomForTwo PROVE UntilOverlap => OverlapOnlyWithFetch
  OBVIOUS
<1> DEFINE Step == Cardinality(Live(http)) <= 1 /\ Cardinality(Live(http')) > 1
                     => "fetch" \in wants
<1>1. Init => DenwaTypeOK /\ OwnedInv
  <2>1. Init => http.pcb = 0 /\ Live(http) = {}
    BY DEF Init, HttpIdle, Live, Free
  <2>2. QED
    BY <2>1, DenwaTypeInit DEF OwnedInv
<1>2. DenwaTypeOK /\ OwnedInv /\ [OneAtATime /\ Next]_vars
        => DenwaTypeOK' /\ OwnedInv' /\ [Step]_vars
  <2> SUFFICES ASSUME DenwaTypeOK, OwnedInv, [OneAtATime /\ Next]_vars
               PROVE  DenwaTypeOK' /\ OwnedInv' /\ [Step]_vars
    OBVIOUS
  <2>1. CASE UNCHANGED vars
    <3>1. DenwaTypeOK'
      BY <2>1, DenwaTypeStep
    <3>2. OwnedInv'
      BY <2>1 DEF vars, core1Vars, OwnedInv, OneAtATime
    <3>3. QED
      BY <2>1, <3>1, <3>2
  <2>2. CASE OneAtATime /\ Next
    <3>1. DenwaTypeOK' /\ Live(http') \in SUBSET Pcbs
      <4>1. DenwaTypeOK'
        BY <2>2, DenwaTypeStep
      <4>2. QED
        BY <4>1 DEF Live
    <3>2. OwnedInv' /\ (~OneAtATime' => "fetch" \in wants)
      BY <2>2, ConnectionStep
    <3>3. Cardinality(Live(http')) > 1 => ~OneAtATime'
      <4>1. Cardinality(Live(http')) \in Nat
        BY <3>1, Few DEF RoomForTwo
      <4>2. QED
        BY <4>1 DEF OneAtATime
    <3>4. QED
      BY <3>1, <3>2, <3>3
  <2>3. QED
    BY <2>1, <2>2
<1>3. QED
  BY <1>1, <1>2, PTL DEF UntilOverlap, OverlapOnlyWithFetch

\* The fetch of the lab list is on its way to the transport.
Fetching == out0.msg = "BTN_X" \/ Has(to1, "BTN_X") \/ "fetch" \in wants

\* A message that makes the transport idle has the fetch behind it.
FetchBehindStop ==
  \A i \in 1 .. Len(to1) :
    to1[i] = "RADIO_STOP" =>
      out0.msg = "BTN_X" \/ \E j \in 1 .. Len(to1) : i < j /\ to1[j] = "BTN_X"

LoadInv ==
  OneAtATime /\ ui.labs = "LOADING" =>
    /\ Fetching \/ (http.mode = "INFO" /\ http.st # "IDLE")
    /\ out1.then = "cleanup" => Fetching
    /\ out0.msg # "RADIO_STOP" /\ FetchBehindStop

\* Core 0: LOADING comes with the message that asks for the fetch, and stays.
LEMMA LoadStep0 ==
  ASSUME DenwaTypeOK, LoadInv, OneAtATime, Core0 \/ Play
  PROVE  LoadInv'
<1> DEFINE n == Len(to1)
<1>0. /\ to1 \in Seq(ToCore1) /\ n \in Nat /\ ui \in UiRecords /\ out0 \in Out0Records
  BY LenProperties DEF DenwaTypeOK, FifosOK, Core0OK
<1>1. UNCHANGED <<out1, http, wants>>
  BY DEF Core0, Core0Sent, Handle0, Hold, Boot, Pumps, Play, Buttons, Pressing, NoButton,
         PressFetch, PressMove, PressStartRadio, PressStartLinephone, PressStopLinephone,
         PressTimeline, PressTalk, PressSilence, ReleaseTalk, core1Vars
<1> SUFFICES ASSUME ui'.labs = "LOADING"
             PROVE  /\ Fetching' \/ (http.mode = "INFO" /\ http.st # "IDLE")
                    /\ out1.then = "cleanup" => Fetching'
                    /\ out0'.msg # "RADIO_STOP" /\ FetchBehindStop'
  BY <1>1 DEF LoadInv
<1>2. ASSUME ui.labs = "LOADING", out0.msg # "BTN_X", out0'.msg # "RADIO_STOP",
             to1' \in Seq(ToCore1), Len(to1) <= Len(to1'),
             \A i \in 1 .. n : to1'[i] = to1[i],
             \A i \in 1 .. Len(to1') : i \in 1 .. n \/ to1'[i] # "RADIO_STOP"
      PROVE  /\ Fetching' \/ (http.mode = "INFO" /\ http.st # "IDLE")
             /\ out1.then = "cleanup" => Fetching'
             /\ out0'.msg # "RADIO_STOP" /\ FetchBehindStop'
  <2>1. Fetching => Fetching'
    BY <1>0, <1>1, <1>2, HasPrefix DEF Fetching
  <2>2. FetchBehindStop'
    <3> SUFFICES ASSUME NEW i \in 1 .. Len(to1'), to1'[i] = "RADIO_STOP"
                 PROVE  \E j \in 1 .. Len(to1') : i < j /\ to1'[j] = "BTN_X"
      BY DEF FetchBehindStop
    <3>1. i \in 1 .. n /\ to1[i] = "RADIO_STOP"
      BY <1>2
    <3>2. PICK j \in 1 .. n : i < j /\ to1[j] = "BTN_X"
      BY <1>2, <3>1 DEF LoadInv, FetchBehindStop
    <3>3. j \in 1 .. Len(to1') /\ to1'[j] = "BTN_X"
      <4>1. Len(to1') \in Nat
        BY <1>2, LenProperties
      <4>2. QED
        BY <1>0, <1>2, <3>2, <4>1
    <3>4. QED
      BY <3>2, <3>3
  <2>3. QED
    BY <1>2, <2>1, <2>2 DEF LoadInv
<1>3. ASSUME out0'.msg = "BTN_X"
      PROVE  /\ Fetching' \/ (http.mode = "INFO" /\ http.st # "IDLE")
             /\ out1.then = "cleanup" => Fetching'
             /\ out0'.msg # "RADIO_STOP" /\ FetchBehindStop'
  BY <1>3 DEF Fetching, FetchBehindStop
<1>4. CASE Core0Sent
  <2>1. /\ out0'.msg = "none" /\ to1' = Append(to1, out0.msg) /\ n < FifoSize /\ out0 # Nothing
    BY <1>4 DEF Core0Sent, Room1, Nothing
  <2>2. out0.msg \in ToCore1 /\ ui.labs = "LOADING"
    <3>1. out0.msg \in ToCore1
      BY <2>1 DEF DenwaTypeOK, Core0OK, Out0Records
    <3>2. ui'.labs = ui.labs
      BY <1>0, <1>4 DEF Core0Sent, UiRecords
    <3>3. QED
      BY <3>1, <3>2
  <2>3. /\ to1' \in Seq(ToCore1) /\ Len(to1') = n + 1 /\ to1'[n + 1] = out0.msg
        /\ \A i \in 1 .. n : to1'[i] = to1[i]
    BY <1>0, <2>1, <2>2, Sent
  <2>4. out0.msg # "RADIO_STOP"
    BY <2>2 DEF LoadInv
  <2>5. \A i \in 1 .. Len(to1') : i \in 1 .. n \/ i = n + 1
    BY <1>0, <2>3
  <2>6. CASE out0.msg = "BTN_X"
    <3>1. n + 1 \in 1 .. Len(to1') /\ to1'[n + 1] = "BTN_X"
      BY <1>0, <2>3, <2>6
    <3>2. Has(to1', "BTN_X")
      BY <3>1 DEF Has
    <3>3. FetchBehindStop'
      <4> SUFFICES ASSUME NEW i \in 1 .. Len(to1'), to1'[i] = "RADIO_STOP"
                   PROVE  i < n + 1
        BY <3>1 DEF FetchBehindStop
      <4>1. i \in 1 .. n
        BY <2>3, <2>4, <2>5
      <4>2. QED
        BY <1>0, <4>1
    <3>4. QED
      BY <2>1, <3>2, <3>3 DEF Fetching
  <2>7. CASE out0.msg # "BTN_X"
    <3>1. Len(to1) <= Len(to1')
      BY <1>0, <2>3
    <3>2. out0'.msg # "RADIO_STOP"
      BY <2>1
    <3>3. \A i \in 1 .. Len(to1') : i \in 1 .. n \/ to1'[i] # "RADIO_STOP"
      BY <2>3, <2>4, <2>5
    <3>4. QED
      BY <1>2, <2>2, <2>3, <2>7, <3>1, <3>2, <3>3
  <2>8. QED
    BY <2>6, <2>7
<1>5. CASE UNCHANGED to1 /\ out0' = out0 /\ ui'.labs = ui.labs
  BY <1>1, <1>5 DEF LoadInv, Fetching, FetchBehindStop
<1>6. CASE /\ UNCHANGED to1 /\ ui'.labs = ui.labs /\ out0 = Nothing
           /\ out0'.msg # "RADIO_STOP"
  <2>1. out0.msg # "BTN_X"
    BY <1>6 DEF Nothing
  <2>2. QED
    BY <1>0, <1>2, <1>6, <2>1
<1>7. CASE Handle0 \/ Hold \/ Play
  BY <1>5, <1>7 DEF Handle0, Hold, Play, core0Vars
<1>8. CASE Boot
  <2>1. /\ UNCHANGED <<to1, ui>> /\ out0 = Nothing
        /\ out0' = out0 \/ out0' = Sending("AUDIO_READY", "run")
    BY <1>8 DEF Boot, Dispatched, Core0At
  <2>2. out0'.msg # "RADIO_STOP"
    BY <2>1 DEF Sending, Nothing
  <2>3. QED
    BY <1>6, <2>1, <2>2
<1>9. CASE Buttons
  <2>1. UNCHANGED to1 /\ out0 = Nothing
    BY <1>9
       DEF Buttons, Pressing, NoButton, PressFetch, PressMove, PressStartRadio,
           PressStartLinephone, PressStopLinephone, PressTimeline, PressTalk, PressSilence,
           ReleaseTalk, Dispatched, Core0At
  <2>2. CASE PressFetch
    BY <1>3, <2>2 DEF PressFetch, Sending
  <2>3. CASE PressMove \/ PressStartRadio \/ PressStartLinephone \/ PressStopLinephone
             \/ PressTimeline
    <3>1. ui.labs = "OK" /\ ui'.labs = ui.labs
      BY <1>0, <2>3
         DEF PressMove, PressStartRadio, PressStartLinephone, PressStopLinephone,
             PressTimeline, Choosable, Pressed, UiRecords
    <3>2. QED
      BY <3>1
  <2>4. CASE NoButton \/ PressTalk \/ PressSilence
    <3>1. out0' = out0 /\ ui'.labs = ui.labs
      BY <1>0, <2>4 DEF NoButton, PressTalk, PressSilence, Pressed, UiRecords
    <3>2. QED
      BY <1>5, <2>1, <3>1
  <2>5. CASE ReleaseTalk
    <3>1. /\ ui'.labs = ui.labs
          /\ out0' = out0 \/ out0' = Sending("LP_END", "resume")
      BY <1>0, <2>5 DEF ReleaseTalk, UiRecords
    <3>2. out0'.msg # "RADIO_STOP"
      BY <2>1, <3>1 DEF Sending, Nothing
    <3>3. QED
      BY <1>6, <2>1, <3>1, <3>2
  <2>6. QED
    BY <1>9, <2>2, <2>3, <2>4, <2>5 DEF Buttons
<1>10. CASE Pumps
  <2>1. /\ out0 = Nothing /\ MicPump
        /\ \/ out0' = Sending("BTN_X", "none")
           \/ out0' = Sending("TTS_PLAYED", "none") /\ ui' = ui
           \/ out0' = out0 /\ ui' = ui
    BY <1>10 DEF Pumps, Core0At
  <2>2. CASE out0' = Sending("BTN_X", "none")
    BY <1>3, <2>2 DEF Sending
  <2>3. CASE ui' = ui /\ (out0' = out0 \/ out0' = Sending("TTS_PLAYED", "none"))
    <3>1. out0'.msg # "RADIO_STOP" /\ out0.msg # "BTN_X"
      BY <2>1, <2>3 DEF Sending, Nothing
    <3>2. CASE UNCHANGED to1
      BY <1>6, <2>1, <2>3, <3>1, <3>2
    <3>3. CASE n < FifoSize /\ to1' = Append(to1, "LP_PKT")
      <4>1. /\ to1' \in Seq(ToCore1) /\ Len(to1') = n + 1 /\ to1'[n + 1] = "LP_PKT"
            /\ \A i \in 1 .. n : to1'[i] = to1[i]
        <5>1. "LP_PKT" \in ToCore1
          BY DEF ToCore1
        <5>2. QED
          BY <1>0, <3>3, <5>1, Sent
      <4>2. Len(to1) <= Len(to1') /\ \A i \in 1 .. Len(to1') : i \in 1 .. n \/ i = n + 1
        BY <1>0, <4>1
      <4>3. \A i \in 1 .. Len(to1') : i \in 1 .. n \/ to1'[i] # "RADIO_STOP"
        BY <4>1, <4>2
      <4>4. QED
        BY <1>2, <2>3, <3>1, <4>1, <4>2, <4>3
    <3>4. QED
      BY <2>1, <3>2, <3>3 DEF MicPump, Room1
  <2>4. QED
    BY <2>1, <2>2, <2>3
<1>11. QED
  BY <1>4, <1>7, <1>8, <1>9, <1>10 DEF Core0

\* Core 1: the fetch is taken from the FIFO to be wanted, and from what is wanted to
\* be started; nothing else makes the transport idle under it.
LEMMA LoadStep1 ==
  ASSUME RoomForTwo, DenwaTypeOK, LoadInv, OneAtATime,
         Core1 \/ \E c \in Pcbs : Network(c)
  PROVE  LoadInv'
<1>0. /\ to1 \in Seq(ToCore1) /\ Len(to1) \in Nat /\ ui \in UiRecords
      /\ http \in HttpRecords
  BY LenProperties DEF DenwaTypeOK, FifosOK, Core0OK
<1>1. out0' = out0
  BY DoneIs
     DEF Core1, Core1Sent, NetworkUp, Handle1, PollReturns, Forward, Kick, Network, Callback,
         Connected, ReceiveReply, ReceiveAudio, ReceiveTerminator, ReceiveFin, Fail, TimeOut,
         core0Vars
<1> SUFFICES ASSUME ui'.labs = "LOADING", OneAtATime'
             PROVE  /\ Fetching' \/ (http'.mode = "INFO" /\ http'.st # "IDLE")
                    /\ out1'.then = "cleanup" => Fetching'
                    /\ out0'.msg # "RADIO_STOP" /\ FetchBehindStop'
  BY DEF LoadInv
<1>2. CASE ui' = ui
  <2>1. /\ Fetching \/ (http.mode = "INFO" /\ http.st # "IDLE")
        /\ out1.then = "cleanup" => Fetching
        /\ out0'.msg # "RADIO_STOP" /\ FetchBehindStop
    BY <1>1, <1>2 DEF LoadInv
  <2>2. CASE UNCHANGED <<to1, wants>> /\ (out1'.then = "cleanup" => Fetching)
             /\ (~Fetching => http'.mode = "INFO" /\ http'.st # "IDLE")
    BY <1>1, <2>1, <2>2 DEF Fetching, FetchBehindStop
  <2>3. CASE Core1Sent
    <3>1. /\ UNCHANGED <<to1, wants>> /\ out1' = Nothing
          /\ http' = IF out1.then = "cleanup" THEN [Cleaned(http) EXCEPT !.st = "IDLE"]
                     ELSE http
      BY <2>3 DEF Core1Sent, core0Vars
    <3>2. out1'.then # "cleanup"
      BY <3>1 DEF Nothing
    <3>3. QED
      BY <2>1, <2>2, <3>1, <3>2
  <2>4. CASE NetworkUp \/ PollReturns \/ Forward
    <3>1. /\ UNCHANGED <<to1, wants>> /\ http'.mode = http.mode /\ http'.st = http.st
      BY <1>0, <2>4 DEF NetworkUp, PollReturns, Forward, HttpRecords
    <3>2. out1' = out1 \/ out1' = Sending("NET_READY", "wait audio") \/ out1' = Sending("TTS_END", "none")
      BY <2>4 DEF NetworkUp, PollReturns, Forward
    <3>3. out1'.then = "cleanup" => out1.then = "cleanup"
      <4>1. Sending("NET_READY", "wait audio").then = "wait audio"
        BY DEF Sending
      <4>2. Sending("TTS_END", "none").then = "none"
        BY DEF Sending
      <4>3. \/ out1' = out1 \/ out1'.then = "wait audio" \/ out1'.then = "none"
        BY <3>2, <4>1, <4>2
      <4>4. QED
        BY <4>3
    <3>4. QED
      BY <2>1, <2>2, <3>1, <3>3
  <2>5. CASE HandleDone
    <3>1. UNCHANGED <<to1, wants>>
      BY <2>5, DoneIs
    <3>2. http.mode # "INFO" \/ \E labs \in {"OK", "ERR"}, first \in Roles \cup {ui.selected} :
                                  ui' = [ui EXCEPT !.labs = labs, !.selected = first]
      BY <2>5, DoneIs
    <3>3. http.mode # "INFO"
      BY <1>0, <3>2 DEF UiRecords
    <3>4. QED
      BY <2>1, <2>2, <3>1, <3>3
  <2>6. CASE \E c \in Pcbs : Network(c)
    <3>1. PICK c \in Pcbs : Network(c)
      BY <2>6
    <3>2. UNCHANGED <<to1, wants, out1>>
      BY <3>1
         DEF Network, Callback, Connected, ReceiveReply, ReceiveAudio, ReceiveTerminator,
             ReceiveFin, Fail, TimeOut
    <3>3. http'.mode = http.mode /\ (http'.st = "IDLE" => http.st = "IDLE")
      BY <3>1, NetworkType
    <3>4. QED
      BY <2>1, <2>2, <3>2, <3>3
  <2>7. CASE Kick
    <3>1. PICK fed \in HttpRecords :
            /\ fed.st = http.st /\ fed.mode = http.mode
            /\ Live(fed) = Live(http) /\ wants' \subseteq wants
            /\ \/ http' = fed /\ wants' = wants
               \/ /\ http.st = "IDLE" /\ "fetch" \notin wants
                  /\ http' = fed \/ \E mode \in Modes : http' = Started(fed, mode)
               \/ /\ http.st = "IDLE" /\ "fetch" \in wants
                  /\ \/ http' = Started(fed, "INFO")
                     \/ \E mode \in Modes : http' = Started(Started(fed, "INFO"), mode)
      BY <2>7, KickIs
    <3>2. /\ out1 = Nothing /\ UNCHANGED <<to1, out1>>
      BY <2>7 DEF Kick, Core1At
    <3>3. out1'.then # "cleanup"
      BY <3>2 DEF Nothing
    <3>4. FetchBehindStop'
      BY <1>1, <2>1, <3>2 DEF FetchBehindStop
    <3>5. CASE http' = fed /\ wants' = wants
      BY <2>1, <2>2, <3>1, <3>2, <3>3, <3>5
    <3>6. CASE http.st = "IDLE" /\ "fetch" \notin wants
      <4>1. out0.msg = "BTN_X" \/ Has(to1, "BTN_X")
        BY <2>1, <3>6 DEF Fetching
      <4>2. Fetching'
        BY <1>1, <3>2, <4>1 DEF Fetching
      <4>3. QED
        BY <2>1, <3>3, <3>4, <4>2
    <3>7. "INFO" \in Modes
      BY DEF Modes
    <3>8. CASE http' = Started(fed, "INFO")
      <4>1. http'.mode = "INFO" /\ http'.st # "IDLE"
        BY <3>7, <3>8, StartedIs
      <4>2. QED
        BY <2>1, <3>3, <3>4, <4>1
    <3>9. ASSUME NEW mode \in Modes, http' = Started(Started(fed, "INFO"), mode)
          PROVE  FALSE
      <4>1. Cardinality(Live(fed)) <= 1
        BY <3>1 DEF OneAtATime
      <4>2. QED
        BY <3>7, <3>9, <4>1, TwoStarted DEF OneAtATime
    <3>10. QED
      BY <3>1, <3>5, <3>6, <3>8, <3>9
  <2>8. CASE Handle1
    <3> DEFINE m == Head(to1)
    <3>1. /\ to1 # << >> /\ to1' = Tail(to1) /\ wants' = WantsAfter(m) /\ out1' = out1
          /\ out1 = Nothing
          /\ http' = IF m = "RADIO_STOP" THEN [Cleaned(http) EXCEPT !.st = "IDLE"] ELSE http
      BY <2>8 DEF Handle1, Core1At
    <3>2. /\ m = to1[1] /\ to1' \in Seq(ToCore1) /\ Len(to1') = Len(to1) - 1
          /\ Len(to1) \in Nat \ {0}
          /\ \A i \in 1 .. Len(to1) - 1 : to1'[i] = to1[i + 1]
      BY <1>0, <3>1, Fetched
    <3> HIDE DEF m
    <3>3. out1'.then # "cleanup"
      BY <3>1 DEF Nothing
    <3>4. m = "BTN_X" \/ "fetch" \in wants => "fetch" \in wants'
      BY <3>1 DEF WantsAfter
    <3>5. Has(to1, "BTN_X") => m = "BTN_X" \/ Has(to1', "BTN_X")
      BY <1>0, <3>1, HasTail DEF m
    <3>6. Fetching => Fetching'
      BY <1>1, <3>4, <3>5 DEF Fetching
    <3>7. ASSUME NEW j \in 1 .. Len(to1), 1 < j
          PROVE  j - 1 \in 1 .. Len(to1') /\ to1'[j - 1] = to1[j]
      <4>1. j - 1 \in 1 .. Len(to1) - 1 /\ (j - 1) + 1 = j
        BY <1>0, <3>7
      <4>2. QED
        BY <3>2, <4>1
    <3>8. FetchBehindStop'
      <4> SUFFICES ASSUME NEW i \in 1 .. Len(to1'), to1'[i] = "RADIO_STOP", out0'.msg # "BTN_X"
                   PROVE  \E j \in 1 .. Len(to1') : i < j /\ to1'[j] = "BTN_X"
        BY DEF FetchBehindStop
      <4>1. i + 1 \in 1 .. Len(to1) /\ to1[i + 1] = "RADIO_STOP"
        BY <3>2
      <4>2. PICK j \in 1 .. Len(to1) : i + 1 < j /\ to1[j] = "BTN_X"
        BY <1>1, <2>1, <4>1 DEF FetchBehindStop
      <4>3. 1 < j /\ i < j - 1
        BY <3>2, <4>2
      <4>4. QED
        BY <3>7, <4>2, <4>3
    <3>9. CASE m = "RADIO_STOP"
      <4>1. 1 \in 1 .. Len(to1) /\ to1[1] = "RADIO_STOP"
        BY <3>2, <3>9
      <4>2. out0.msg = "BTN_X" \/ \E j \in 1 .. Len(to1) : 1 < j /\ to1[j] = "BTN_X"
        BY <2>1, <4>1 DEF FetchBehindStop
      <4>3. Fetching'
        BY <1>1, <3>7, <4>2 DEF Fetching, Has
      <4>4. QED
        BY <2>1, <3>3, <3>8, <4>3
    <3>10. CASE m # "RADIO_STOP"
      BY <2>1, <3>1, <3>3, <3>6, <3>8, <3>10
    <3>11. QED
      BY <3>9, <3>10
  <2>9. QED
    BY <2>3, <2>4, <2>5, <2>6, <2>7, <2>8 DEF Core1
<1>3. CASE ui' # ui
  <2>1. HandleDone
    BY <1>3
       DEF Core1, Core1Sent, NetworkUp, Handle1, PollReturns, Forward, Kick, Network, Callback,
           Connected, ReceiveReply, ReceiveAudio, ReceiveTerminator, ReceiveFin, Fail, TimeOut,
           core0Vars
  <2>2. \E labs \in {"OK", "ERR"}, first \in Roles \cup {ui.selected} :
          ui' = [ui EXCEPT !.labs = labs, !.selected = first]
    BY <1>3, <2>1, DoneIs
  <2>3. ui'.labs # "LOADING"
    BY <1>0, <2>2 DEF UiRecords
  <2>4. QED
    BY <2>3
<1>4. QED
  BY <1>2, <1>3

\* As long as the screen says LOADING the fetch is on its way: it is in ic_send, in
\* the FIFO, wanted, or the request the transport is busy with.  The stop of the
\* radio, which makes the transport idle under any request, never meets it.
THEOREM LoadingDoesEnd == RoomForTwo => (UntilOverlap => []LoadingEnds)
<1> SUFFICES ASSUME RoomForTwo PROVE UntilOverlap => []LoadingEnds
  OBVIOUS
<1>1. Init => DenwaTypeOK /\ LoadInv
  BY DenwaTypeInit DEF Init, LoadInv
<1>2. DenwaTypeOK /\ LoadInv /\ [OneAtATime /\ Next]_vars => DenwaTypeOK' /\ LoadInv'
  <2> SUFFICES ASSUME DenwaTypeOK, LoadInv, [OneAtATime /\ Next]_vars
               PROVE  DenwaTypeOK' /\ LoadInv'
    OBVIOUS
  <2>1. DenwaTypeOK'
    BY DenwaTypeStep
  <2>2. CASE UNCHANGED vars
    <3>1. LoadInv'
      BY <2>2
         DEF vars, core0Vars, core1Vars, LoadInv, OneAtATime, Fetching, FetchBehindStop
    <3>2. QED
      BY <2>1, <3>1
  <2>3. CASE OneAtATime /\ Next
    BY <2>1, <2>3, LoadStep0, LoadStep1 DEF Next
  <2>4. QED
    BY <2>2, <2>3
<1>3. DenwaTypeOK /\ LoadInv => LoadingEnds
  <2> SUFFICES ASSUME DenwaTypeOK, LoadInv PROVE LoadingEnds
    OBVIOUS
  <2>1. Cardinality(Live(http)) \in Nat
    <3>1. Live(http) \in SUBSET Pcbs
      BY DEF Live
    <3>2. QED
      BY <3>1, Few DEF RoomForTwo
  <2>2. OneAtATime \/ Cardinality(Live(http)) > 1
    BY <2>1 DEF OneAtATime
  <2>3. QED
    BY <2>2 DEF LoadInv, LoadingEnds, Fetching
<1>4. QED
  BY <1>1, <1>2, <1>3, PTL DEF UntilOverlap

================================================================================

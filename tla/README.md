# A TLA+ model of libpeer

libpeer is a small WebRTC stack in C (`src/src`, about 7500 lines): ICE, DTLS-SRTP,
SCTP data channels, RTP for H.264, AV1 and audio, and signaling over MQTT or HTTP, for
POSIX hosts, ESP32 and the RP2040/RP2350 with lwIP. Its largest example, ito-denwa
(`src/examples/ito-denwa`), is a program of its own: a walkie-talkie and radio on the two
cores of an RP2350, set up by an iPhone app. This directory holds TLA+ modules translated
from that code, TLC configurations that check them on small instances, and proofs, checked
by TLAPS, of the results that hold for every instance.

Source positions are written `file.c:lines`; files are in `src/src`, those of ito-denwa in
`src/examples/ito-denwa` and its `src`.

## 1. The system

### Components, state and operations

| Component | State | Operations | Modelled in |
| --- | --- | --- | --- |
| PeerConnection (`peer_connection.c`) | `state`, DTLS and SCTP sub-objects, remote fingerprint, timestamps | `peer_connection_loop`, create offer/answer, set remote description, close, send | `PeerConnection`, `Keepalive` |
| Signaling (`peer_signaling.c`) | MQTT session, pending request id, protocol | connect, loop, disconnect, handle an RPC, publish or post a description | `Signaling`; what it does to the connection: `PeerConnection` |
| ICE agent (`agent.c`) | candidates, pairs with state and check counter, nominated and selected pair, credentials | gather, form pairs, select pair, connectivity check, process STUN | `IceAgent`, `Gathering` |
| STUN messages (`stun.c`) | a message under construction | create, write attribute, finish, parse, validate | `StunMessage` |
| Consent and keepalive (`peer_connection.c:328-379`, `agent.c:362-394`) | `consent_request_time`, `binding_request_time`, 32-bit clock | send check, refresh, expire | `Keepalive` |
| DTLS-SRTP (`dtls_srtp.c`) | session state, SRTP contexts, certificate | init, reset, handshake, derive keys | inside `PeerConnection` |
| SCTP data channel (`sctp.c`) | `connected`, `tsn`, one packet buffer, stream table | incoming packet, outgoing message, associate | `Sctp` (built-in SCTP) |
| AV1 packetizer (`rtp.c:198-394`) | elements, offset, sequence number | parse temporal unit, encode | `Av1Packetizer` |
| AV1 reorder window (`rtp.c:730-808`) | next sequence number, slots | decode, release, drain, flush | `Av1Reorder`, `Av1ReorderJitter` |
| AV1 depacketizer (`rtp.c:515-728`) | temporal unit so far, open OBU, next sequence number, dropping | depay a packet, close an OBU | `Av1Depay`, composed in `Av1Stream` |
| H.264 (`rtp.c:46-162, 469-513`) | sequence number, timestamp; one static buffer | find NAL units, single or FU-A packets, decode | `H264Rtp` |
| UDP receive ring, RP2040 (`socket.c:36-100, 439-476`) | items, read and write position | push in lwIP's callback, pop in `recvfrom` | `UdpFifo`, `BoundedQueue` |
| TCP receive buffer, RP2040 (`socket.c:104-133, 755-788`) | buffer, length, read position, error | receive and error callback, `tcp_socket_recv` | `TcpRx` |
| TCP connections, RP2040 (`socket.c:104-152, 529-559, 581-631, 670-684`) | one static socket, a pcb, flags | open, connect, close, callbacks | `TcpSocket` |
| ito-denwa: application (`main.c`, `gui.c`, `http.c`, `tts.c`, `queue.c`) | both cores' loops, modes and kicks, the HTTPS transport, the TTS queue, flags both cores write | buttons, messages, network callbacks, reply handlers, forwarding, polls | `DenwaApp` |
| ito-denwa: inter-core ring (`ic_ring.c`) | byte ring, head, tail, hardware FIFO, peek cache | send, ask for room, peek, receive | `IcRing`, `BoundedQueue` |
| ito-denwa: loudspeaker ring (`audio.c`) | DMA ring, write counter, wrap tracker, pause | write, underrun, pause, stop, reset, test tone, TTS pump | `AudioRing` |
| ito-denwa: microphone (`mic.c`, `linephone.c`) | DMA ring, counters, frame accumulator; core 1's accumulator | start, stop, pump, append, post | `Mic` |
| ito-denwa: reply body (`http.c`, `tts.c`) | response buffer, chunk decoder, positions of decoder and pump | receive, decode, compact, arm, forward | `HttpBody` |
| ito-denwa: provisioning (`ble_provision.c`, `credentials.c`, `wifi.c`, the app's Swift files) | collected fields, status, flash record; the app's write queue and timer | write field, commit, notify, save, boot, retry | `Provisioning` |
| hid-usb: mouse on two cores (`examples/hid-usb/main.c`) | Wi-Fi status, session state, command queue, USB started or not | set-up with time-outs, `onmessage`, wait for the first command, `hid_task` | `HidMouse` |
| Other sockets and transports, mDNS, SDP, RTCP, utilities, drivers | little or none | blocking calls, text | not modelled |

### How they interact

- The application calls `peer_connection_loop` over and over, in the generic example in a
  thread of its own, and `peer_signaling_loop` in another. No library lock is shared
  between them. Both end in the same PeerConnection.
- `peer_connection_loop` calls `agent_select_candidate_pair` and
  `agent_connectivity_check` in CHECKING, `dtls_srtp_handshake` in CONNECTED, and
  `agent_recv` in COMPLETED, from where datagrams go to the RTP decoders, RTCP, or through
  DTLS to SCTP. `STATE_CHANGED` calls the application back between test and assignment.
- A request of a controller arrives through MQTT inside `peer_signaling_loop`; an offer
  gathers candidates in the same call and ends in a callback that publishes the answer
  under the id kept in `g_ps.id`. With HTTP the description is posted and the reply is the
  remote description.
- STUN arrives on the media socket; `agent_recv` consumes it. While gathering, the same
  socket is read by a blocking loop that takes the first datagram for its answer.
- On the RP2040, lwIP's callbacks fill the UDP ring and the TCP buffer from an interrupt
  (`pico_cyw43_arch_lwip_threadsafe_background`), the library reads them in its loop. All
  TCP connections use one static `Rp2040TcpSocket`, to which every pcb's callbacks lead
  until `tcp_socket_close` detaches them.
- The AV1 window calls the depacketizer for every packet it releases, in the same call.
- In ito-denwa core 0 owns buttons, microphone and loudspeaker, core 1 the network. They
  exchange messages through `ic_ring.c` and share flags (`g_tts_play_active`). An audio
  reply flows from lwIP's callback into the response buffer, is decoded in place, shipped
  packet by packet to core 0 and written to the DMA ring; when core 0 does not keep up,
  the pressure runs the same way back to the TCP window. Speech flows the other way.
- In hid-usb core 1 runs network and library, core 0 only USB. Mouse commands pass from
  `onmessage` to `hid_task` through the SDK's queue; the first one starts USB.

### What is hard here

Sequence numbers, a TSN, counters of DMA words and a clock wrap; packets are lost,
repeated and reordered; the receive callback interrupts the pop; loop and signaling
threads, two cores, and a DMA interleave; an answer arrives after its pair was given up,
or after renegotiation; one buffer is used for a reply and by a callback that may send;
one response buffer is decoded, forwarded and compacted at once; queues of two cores are
full in both directions; a DMA that never stops repeats what nobody has overwritten;
power fails between erasing and programming. `PROJECT.json` lists each hazard at its
line with the properties that cover it, or the reason none does.

### What makes each component correct

- *Reorder window*: in order, once, no cost to a network with little jitter, nothing held
  back for ever.
- *Packetizers*: every byte once and whole units, in packets a receiver can take apart.
- *Depacketizer*: whole units or none, decodable ones, and as many of them as possible;
  H.264: a unit that arrives whole comes out whole.
- *ICE*: full budget for every pair, always a verdict.
- *STUN and gathering*: what is written can be parsed and is accepted by a server; only
  checks with the current credentials are answered; candidates carry real addresses.
- *Keepalive*: a live peer is never closed, a silent one always.
- *PeerConnection*: COMPLETED means an authenticated DTLS session, connected unless its keys
  could not be derived; CHECKING ends.
- *Signaling*: every request gets exactly the reply due to it, whatever happens to the
  session and whatever the application offers on its own.
- *SCTP*: one open per association; messages reassemble; acknowledged means delivered;
  what the peer sends is eventually acknowledged.
- *Receive buffers*: a bounded FIFO; every acknowledged byte is read, once and in order; a
  connection that is closed does not reach into the next.
- *ito-denwa*: cores that do not wait for each other; playbacks, listings and pauses that
  end; sound that is heard once and in order, silence otherwise; speech posted once, in order
  and in whole frames; bodies forwarded as they were sent; credentials whole or none.
- *hid-usb*: queued commands reach the host once and in order; USB only behind an open
  channel.

## 2. Modules

`X_proofs` holds the theorems about `X` or, as `Transport_proofs`, `Session_proofs`,
`Device_proofs` and `Audio_proofs`, about a group of components (`Av1Reorder_proofs` also
about `Av1Packetizer`, `Av1Stream_proofs` also about `Av1Depay`). An `MC` module defines constant values; four of
them also put components next to each other, see section 3. Definitions marked `mutant` are
wrong variants of the definition below them; no specification uses them. They record which
mistake each property is able to notice.

### Media

**`Av1Reorder`** translates `rtp_decode_av1` and its helpers. A packet is its position
`n` in the stream, the code sees `n % SeqModulus`. `Store`, `Jump` and `DropLate` are the
three branches after the `int16_t` difference (`Ahead`); `FlushSlot` and `DrainSlot` are
iterations of the two loops, during which nothing else runs. `Packets` arrive in any
order, any number of times. `Distinguishable` is the one assumption on the network: less
than half the sequence space away. `Av1ReorderJitter` adds two networks: a tame one that
displaces packets by less than the depth, and an arbitrary one.

**`Av1Packetizer`** translates `av1_parse_temporal_unit` and `rtp_encoder_encode_av1`, one
loop iteration per step. OBUs are type and length; the leb128 base is a constant, so that
the length field grows at small lengths. **`Av1Depay`** translates `av1_depay_packet` and
`av1_depay_close_obu` as operators on what the packet carries. **`Av1Stream`** composes
sender, lossy network, an SFU that inserts probes and unreadable packets, window and
depacketizer by `INSTANCE`.

**`H264Rtp`** works on bytes, because `h264_find_nalu` does: start codes of three and four
bytes, trailing zeros, single packets and FU-A fragments, then a network that loses and
reorders, and `rtp_decode_h264` with its single buffer. The decoder chooses by the NAL type in
the payload's first byte, as the code does: what is not of a type from 1 to 23 is a fragment to
it. A fragment that begins inside the buffer and ends behind it is written past it
(`DecodeFuPast`); what comes of that is left open. The video encoder is external; `AnnexB` is
what any byte stream of it satisfies: no NAL unit is empty, ends in a zero or has a start code
inside. `NalHeaders` adds that they are bytes and that the first is a header.

### Session

**`IceAgent`** models the pair list, one iteration of `agent_select_candidate_pair` per
step, `agent_connectivity_check`, and answers that may be lost, late or repeated.
`Restart` is a new session, `Reanswer` a second description to the same offer: everything is
paired again behind the pairs there are, up to the size of the list.

**`StunMessage`** represents a message by header length, attributes with their lengths,
and size. A digest is the pair of key and bytes covered, so a wrong length, order or key
gives a different digest. **`Gathering`** uses it for `agent_gather_candidate` in
`peer_connection_create_sdp`: one step per poll of the blocking wait, a STUN and a TURN
server, peers' binding requests on the same socket, and the validation in
`agent_process_stun_request`. The TURN server's check of the HMAC is written from
RFC 5389, independently of `stun_msg_is_valid`.

**`Keepalive`** is a discrete-time model from the moment ICE succeeds. The clock is cut to
`ClockModulus`, differences are taken modulo `WideModulus`, as in the code. Interval and timeout
are not 0, which would switch either off (`peer_connection.c:331, 374`).

**`PeerConnection`** has the loop and the signaling handler as two processes with their
intermediate points; `OneThread` makes them take turns. ICE is reduced to what the pair
list can conclude, a description to the number of its session. A handshake derives the SRTP
keys (`DeriveKeys`) or fails to and goes on (`DeriveNoKeys`): the export callback drops the
error, and the loop never looks at the DTLS state.

**`Signaling`** is the thread that calls `peer_signaling_connect` and
`peer_signaling_loop`. `at` is the place in its handlers: a request is taken inside
`MQTT_ProcessLoop`, an offer leads through the gathering to
`peer_signaling_onicecandidate`, which publishes under `g_ps.id` or posts. Unsubscribing
runs a ProcessLoop of its own, in which a request may still arrive (`leaving`). The
session may be lost at any time, the TLS handshake may never end, what is published may be
lost. Requests come with QoS 0, so the broker delivers each once or not at all. The connection
only appears as the state a request meets.

**`Sctp`** models the built-in SCTP (`CONFIG_USE_USRSCTP=0`) against a retransmitting peer
over a channel that loses and reorders. `sctp->buf` is one variable, so that a message
sent from `onmessage` or `onopen` overwrites the prepared SACK or COOKIE_ACK as it does in the
code. The peer's window (`Window`) is what the code tells it: `InitialWindow` chunks stand for
the 0x100000 bytes of INIT and INIT_ACK, until a SACK with its two bytes leaves one.

### Sockets of the RP2040

**`UdpFifo`** splits push and pop at every access to shared memory; a slot being copied
reads as `Torn`. **`BoundedQueue`** is the abstract queue it implements. **`TcpRx`** has
the read split at the test and the reset of the buffer; `Polling` distinguishes builds.
**`TcpSocket`** has `tcp_socket_open`, `connect` and `close` one call after the other on the
one static socket, as the two transports make them, and lwIP, whose callbacks come at any
step for every pcb that is still attached. A flag holds the pcb whose callback set it.

### ito-denwa

**`DenwaApp`** (parameters in **`DenwaParams`**) has one step per message handled, per handler
of a core's loop, or per callback of the network. `at0` and `at1` are the places in the two
loops, `out0` and `out1` the message a core is waiting with in `ic_send` and what it does
afterwards. Buttons, modes and kicks are sets of flags; audio is counted in packets, so that
the ring, the response buffer and the prebuffer have levels. A connection that
`http_cleanup` no longer reaches keeps its callbacks and goes on writing into the one
buffer.

**`IcRing`** is one direction of the message ring, in the words to which the code aligns:
room, two writes across the end, head, FIFO, peek cache, read, tail. It implements
`BoundedQueue` too, with the FIFO's slots and the peek cache as capacity.

**`AudioRing`** has the DMA as a step of its own between any two calls. Counters wrap at
`Width`. `due` is the history of what was written and not yet heard. With `Core1Resets` the
tracker is split after the position is read and before its two assignments, and
`tts_start_playback` of core 1 runs in between.

**`Mic`** follows samples, each known by take and instant, from the DMA's ring into frames,
through the inter-core ring into core 1's accumulator and into a POST. The clock is counted
in samples, so that a stall of a whole ring period aliases as it does in `mic_pump`. The pump
reads the clock, then the DMA's position, then one sample a step, and the DMA writes on between
any two of these, also over what the pump has still to read. A call of the pump takes less than
`PumpTime`.

**`HttpBody`** has the response buffer byte by byte: `Decode` is one iteration of the chunked
decoder, which writes behind itself in the same buffer, `Ship` one packet of the forward
pump, `Compact` what `http_resp_compact_locked` moves. A server delivers segments of any
length; one that does not fit is refused and offered again.

**`Provisioning`** has the app's write queue with its retry timer, the link with writes and
notifications on the air, the callbacks of BTstack, and `main`, with erasing and
programming of the flash as separate steps between which power may fail. A credential is
the number of the attempt it was typed in.

### hid-usb

**`HidMouse`** has core 1's set-up with one step per poll, then its loop: `PeerPass` is
`peer_connection_loop` as the state callback sees it, `Message` and `AddCommand` are
`onmessage`, one step per `queue_try_add`, because core 0 takes commands out in between.
Core 0 is `WaitFirst`, `TudTask` (the host, which mounts, polls, suspends and leaves at any
time) and `HidTask`.

### Proofs

**`ModularLemmas`** proves the facts about `%` and `\div` that the other proofs cite, and
induction over numbers and over sequences (`EveryNumber`, `EverySequence`): the library's
induction theorems take an operator as a parameter, which the provers cannot instantiate;
these take a set, and rest on the least number the set does not hold. It also says what
`FlattenSeq` of the community modules puts where (`JoinedAt`), by the same induction.

| Module | Proves about |
| --- | --- |
| `Av1Reorder_proofs` | `Av1Reorder`, `Av1ReorderJitter` |
| `Av1Stream_proofs` | `Av1Stream`: sender, network, window (by instance of the proofs above) and `Av1Depay` together |
| `Transport_proofs` | `Keepalive`, `IceAgent`, `UdpFifo` (and `BoundedQueue`), `TcpRx`, `TcpSocket`, `H264Rtp` |
| `Session_proofs` | `PeerConnection`, `Signaling`, `Sctp`, `Gathering` (and `StunMessage`) |
| `Device_proofs` | `Provisioning`, `IcRing` (and `BoundedQueue`), `HidMouse`, `HttpBody` |
| `DenwaApp_proofs` | `DenwaApp` |
| `Audio_proofs` | `AudioRing`, `Mic` |

## 3. What the runs check

A run of TLC may ask several questions of components that do not share state. `MCRtp`,
`MCTransport`, `MCSession` and `MCDevice` choose one of their components in the initial
state and run that one, the others standing still; each invariant is about one component, and
fairness is stated for the one that runs. Real compositions are inside the modules: sender,
network, window and depacketizer in `Av1Stream`; servers, peers and gathering in
`Gathering`; loop and handlers in `PeerConnection`; two cores, buttons and network in
`DenwaApp`; phone, link, device and flash in `Provisioning`.

All `pass` runs finish without error; the six `violation` runs find the behaviour described.

| Run | Component | Shows | Bounds, and why they are enough |
| --- | --- | --- | --- |
| `rtp` | AV1 window | `InOrder` for any network; `JitterAbsorbed`, `EveryPacketPasses` for the tame one | depth 4, 16 sequence numbers, packets 11 to 20: more than two windows long and across the wrap; losses and jumps of more than one window |
| | AV1 packetizer | `EncodedWhole` | packets of 9 bytes, lengths 1 to 12, length field growing at 4: elements end before, at and after the packet's end; two units |
| | H.264 | `ComesOutWhole` | payload of 4 bytes, units of one, two and three fragments with full and partial last one, two access units, two packets under way, a decoder buffer the longest unit exactly fills and a fragment too many overruns; a NAL unit of type 24, taken for the end of a fragmented one |
| `stream` | AV1 end to end | `DeliveredDecodable`, `NothingWasted` | depth 2, 8 sequence numbers, 3 temporal units of up to two packets, one SFU packet: a loss in, between and before units, wrap included |
| `transport` | ICE pairs | `FullBudget`, `Settles` | two pairs per description, two descriptions, two sessions; 7 passes with a request every 3: period does not divide the maximum |
| | keepalive | `ClosedOnlyWhenSilent`, `SilenceNoticed` | `Tuned` holds with equality; a lost check at every position; horizon of three timeouts |
| | UDP ring | `FifoIsQueue` (refinement), `NoneStaysBehind` | ring of 3, five datagrams: full, empty and around the end more than once |
| | TCP buffer | `StoredIsRead` in a polling build | buffer of 3, window of 4, segments and reads of up to 2, 8 bytes |
| | TCP connections | `LearnedIsOwn` | three pcbs: one forgotten or closed, one whose connect it disturbs, one more after that |
| `session` | gathering | `RequestsAccepted`, `CurrentChecksOnly`, `AddressesReal` | a STUN and a TURN server in both orders, two sessions, offers and answers, user names with and without padding, right and wrong credential, two datagrams under way |
| | signaling | `RepliedOnce` | two requests of every method, one with id 0, a state that allows an offer and one that does not, two connects, one offer of the application |
| | life cycle | `CompletedMeansDtlsConnected`, `CompletedMeansAuthenticated`, `CheckingSettles` | one thread, three sessions with repeated, late and wrong answers, data channel on |
| | data channel | `OpenedOnce`, `FragmentsReassemble`, `AckedIsDelivered`, `AllAcknowledged` | messages of nothing, exactly two chunks, and two and a part; three TSNs, so that they wrap within a message; two peer chunks, one an OPEN, both in the first window; two packets under way each way |
| `denwa` | application | `PausedOnlyWhileTalking`, `PlaybackEnds`, `LoadingEnds`, `OverlapOnlyWithFetch` | every queue and buffer one deep, so that each is soon full; three key presses, three roles; two pcbs. Behaviours are followed up to the first state with two live connections, which is still checked (`OneConnection`) |
| `device` | inter-core ring | `RingIsQueue` (refinement), `CheckedNeverWaits` | 4 words, two FIFO slots, payloads up to 2, six messages: either limit is met first, and messages cross the end |
| | loudspeaker | `HeardIsDue`, `SilentWhenIdle` | 3 frames, counters wrapping at two rings, DMA up to 3 words between two calls, underruns at odd words |
| | microphone | `SpeechInOrder` | ring of 4, a pump of up to 3 ticks, frames of 2 samples, six samples in two takes, two messages under way, accumulator of two frames: pumps that are in time and pumps that are overrun before or while they drain |
| | reply body | `ShippedAsSent` | an unchunked reply and two chunked ones that split a packet and its length; segments of 1 to 3 bytes; a small buffer |
| | provisioning | `ToldSavedIsCommitted`, `LoadedWasAccepted`, `AttemptEnds` | two attempts, three retries of a write, one power failure, four packets on the air |
| | USB mouse | `UsbRelays` | queue of 2, four commands in messages of up to three: the queue overflows in the middle of a message; time-outs of 2 polls |
| `peer_connection_threads` | life cycle | `CompletedMeansDtlsConnected` is violated with two threads | two sessions suffice |
| `tcp_rx_background` | TCP buffer | `StoredIsRead` is violated when the callback is an interrupt | as above |
| `denwa_wait` | application | `NoMutualWait` is violated | as `denwa`, two key presses |
| `body_gap` | reply body | `RefusedUntilDrained` is violated with one packet to a chunk | three packets, buffer of 12 |
| `audio_cores` | loudspeaker | `TrackerAligned` is violated when core 1 resets the tracker | as above, `Core1Resets` |
| `provisioning_saved` | provisioning | `ToldSavedIsSaved` is violated | as above |

`CHECK_DEADLOCK FALSE` is set where the system really comes to rest: everything sent has
been handled, the ICE verdict is out, the connection closed, a bound on the input is used
up, or, in `denwa_wait`, both cores wait.

### Fairness

- window (`MCRtp`): the receive loop keeps running and packets sent keep arriving.
- `IceAgent`: `peer_connection_loop` is called for ever; no answer is assumed.
- `PeerConnection`: weak fairness of the loop and of a handler that has begun; strong
  fairness of CHECKING's verdict, which `Settles` of `IceAgent` justifies.
- `UdpFifo`: a callback that began returns; `agent_recv` keeps calling `recvfrom`.
- `Sctp`: the loop runs; the peer repeats what is not acknowledged, and of packets sent
  again and again some arrive (strong fairness of reception, both ways).
- `Provisioning`: the phone's timer expires, a notification that arrived is handled, and the
  device's program goes on. Nothing is assumed of the link or of the power.


The other specifications check safety only. `Keepalive` needs no fairness: time cannot pass
beyond what the loop period allows.

### Exceptions written into properties

They describe what the code does, not what a user would want:

- `AllAcknowledged` excepts runs in which messages sent from `onmessage` overwrite the SACK
  for ever (`sctp.c:245-281`; `examples/pico/main.c:34-38` sends from `onmessage`).
- `Settles` and `CheckingSettles` except a second, different answer to one offer whose
  pairs queue behind a pair that already succeeded (`agent.c:483, 523`): CHECKING then
  never ends.
- `AddressesReal` excepts a datagram that was no answer to the request, the TURN wait whose
  return value is dropped (`agent.c:226`), and a refused credential. Each adds a candidate
  without an address.
- `NothingWasted` excepts units that do not fit the temporal unit buffer.
- `RepliedOnce` excepts requests with the id 0, which `peer_signaling.c:506` takes for no
  request: their description is posted to the broker's host.
- `LearnedIsOwn` excepts pcbs the code has forgotten while their callbacks are attached.
- `OverlapOnlyWithFetch` allows two connections at once behind a lab fetch, whose kick does
  not set `https_busy`; `LoadingEnds` gives up its claim when they do overlap.
- `UsbRelays` speaks of commands that entered the queue, but for the first. A report handed to
  the endpoint counts as arrived, also when the host leaves with it under way.
- `EveryPacketPasses` is asked of the tame network only, `StoredIsRead` of the polling build; what
  they leave out is in `NoPacketOverwritten` and in the run `tcp_rx_background`.
- `SpeechInOrder` excepts frames of a late pump: when the longest gap (the one the summary of
  `mic_stop` shows) and one call of the pump exceed a ring, words are overwritten that were still
  to be read. It allows whole frames to be missing: those that find no room are dropped on
  purpose (`mic.c:326-338`, `linephone.c:27-35`), and nothing counts them.
- `CompletedMeansDtlsConnected` excepts a handshake whose SRTP keys could not be derived
  (`dtls_srtp.c:344-367`): the connection is COMPLETED without them.
- `AckedIsDelivered` excepts chunks sent in the first window that a later one overtook: the SACK
  of the later one covers them, lost or not (`sctp.c:258`).
- `ComesOutWhole` speaks of NAL units the decoder can put together (`Decodable`): they fit its
  buffer, and are fragmented or of a type from 1 to 23.

Two properties hold for parameters that the device's normal use has: `SilentWhenIdle` for a
`MaxGap` below two blocks (core 0 returns to its pump in time; a longer stall leaves a rest
of speech in the ring), `PausedOnlyWhileTalking` for a microphone that started (`MicWorks`).

## 4. What is proved

51 theorems, for every value of the constants, under the named assumptions. Every one is a
statement about all behaviours of the specification the runs explore, with the exceptions
named in the last column. Constant assumptions of a module (`...Assumption`) always apply.

| Theorem | Statement | Assumes |
| --- | --- | --- |
| `Av1Reorder_proofs!WindowInvariant` | `IInv`, the inductive invariant of the window | `DepthDividesModulus` |
| `ReleasedInOrder`, `WindowCorrect`, `NoPacketOverwritten` | `InOrder`, `WindowOK`, `NothingOverwritten` | `DepthDividesModulus` |
| `GapsAreShort` | `ShortGaps`: two packets released one after the other are at most half the sequence space apart | `DepthDividesModulus` |
| `JitterIsAbsorbed` | `JitterAbsorbed` | `DepthDividesModulus`, `NothingMissing` |
| `UnitsAreEncodedWhole` | `EncodedWhole` | |
| `Av1Stream_proofs!DecoderGetsDecodable` | `DeliveredDecodable` | `DepthDividesModulus`, `[]Tracked` |
| `NothingIsWasted` | `NothingWasted` | `DepthDividesModulus`, `[]Tracked` |
| `SparseKeepsDecodable`, `SparseWastesNothing` | the same two | `DepthDividesModulus`, `[]Sparse` in place of `[]Tracked` |
| `Session_proofs!LifecycleInvariant` | `IInv` | `OneThread` |
| `SendersAreConnected`, `SendersAreAuthenticated`, `StatesInOrder` | `CompletedMeansDtlsConnected`, `CompletedMeansAuthenticated`, `LegalChanges` | `OneThread` |
| `Transport_proofs!KeepaliveInvariant` | `KeepaliveInv` | `Tuned`, `NoClockWrap` |
| `LivePeerKept`, `SilentPeerNoticed` | `ClosedOnlyWhenSilent`, `SilenceNoticed` | `Tuned`, `NoClockWrap` |
| `IceInvariant` | `IceInv` | |
| `PairsTriedInOrder`, `PairsGetFullBudget`, `FailureIsExhaustive` | `TriedInOrder`, `FullBudget`, `FailedAfterAll` | |
| `FifoInvariant` | `FifoInv` | |
| `RingImplementsQueue` | `FifoIsQueue`, that is `Queue!Spec`, by step simulation | |
| `TcpStoredIsRead` | `StoredIsRead` | `Polling` |
| `SocketLearnedIsOwn` | `LearnedIsOwn` | |
| `H264ComesOutWhole` | `ComesOutWhole` | `AnnexB`, `NalHeaders` |
| `H264FramesKeepTimestamp` | `FramesKeepTimestamp` | `AnnexB`, `NalHeaders`, `OneSlice` |
| `SignalingRepliedOnce` | `RepliedOnce` | |
| `SctpOpenedOnce`, `SctpFragmentsReassemble` | `OpenedOnce`, `FragmentsReassemble` | |
| `SctpAckedIsDelivered` | `AckedIsDelivered` | |
| `RequestsAreAccepted` | `RequestsAccepted` | `BufferHolds`, `RoomForAll` |
| `CurrentChecks`, `AddressesAreReal` | `CurrentChecksOnly`, `AddressesReal` | |
| `Device_proofs!ProvInvariant` | `ProvInv` | |
| `SavedMeansCommitted`, `OnlyAcceptedLoaded` | `ToldSavedIsCommitted`, `LoadedWasAccepted` | |
| `IcInvariant` | `IcInv` | |
| `CheckedSendNeverWaits` | `CheckedNeverWaits` | |
| `MouseRelays` | `UsbRelays` | |
| `IcRingIsQueue` | `RingIsQueue`, that is `Queue!Spec`, by step simulation | |
| `BodyInvHolds`, `BodyShippedAsSent` | `BodyInv`, `ShippedAsSent` | |
| `DenwaApp_proofs!DenwaTypeCorrect` | `DenwaTypeOK`, bounds of both FIFOs included | |
| `PlaybackDoesEnd` | `PlaybackEnds` | |
| `PausedOnlyForTalk` | `PausedOnlyWhileTalking` | `MicWorks` |
| `FirstOverlapNeedsFetch`, `LoadingDoesEnd` | `OverlapOnlyWithFetch`, `LoadingEnds` | `RoomForTwo`, `UntilOverlap` in place of `Spec` |
| `Audio_proofs!WrittenIsHeard` | `HeardIsDue` | `~Core1Resets`, `WideCounters` |
| `IdleIsSilent` | `SilentWhenIdle` | `~Core1Resets`, `WideCounters`, `PromptPump` |
| `SpeechStaysInOrder` | `SpeechInOrder` | |

### The arguments

**Media and session**

- **Reorder window.** `WindowOK` alone is not inductive: in the middle of a flush a slot may
  hold a packet below the base to come. `IInv` adds where the held packets lie in each
  loop (`Low`), that `expect` is the sequence number of `base`, and that what was released
  lies below (`Passed`). `DepthDividesModulus` is needed: with depth 3 and 2^16 sequence
  numbers two packets of one window share a slot at the wrap, and one is lost. The code's
  depth is 4 and nothing in it says that it has to be a power of two.
- **Jitter.** On a tame network `TameInv` adds that the window never jumps, that what
  arrived is exactly what was passed on or is kept, and that nothing before the window is
  still to come. `NothingMissing` says that every packet is sent: `JitterAbsorbed` is about
  displacement, loss is the business of `InOrder`.
- **Packetizer.** `Place` says where the encoder is: the chunks sent and those in the packet
  under way tile the elements up to `index` and `offset` (`Tiled`), a fragment that was cut
  is the last of its packet, and no packet of the unit has the marker yet. A chunk more keeps
  the tiling (`TileMore`), a packet more touches no other unit (`WireMore`), and behind the
  last element the tiling is all of it (`AllTiled`). That a chunk fits (`ChunkFits`) needs
  `PayloadSize <= LebBase * LebBase`, what the comment at `rtp.c:357` relies on.
- **AV1 stream, whole units.** `StreamInv` has four parts. `WireOK` orders the wire: behind a
  media packet the next one goes on with the very next byte of the stream (`Follows`),
  whatever an SFU put between them. `SenderOK` ties this to the encoder in the middle of a
  unit, `WindowOK` says that the window holds and releases only what was on the wire.
  `DepayOK` is about the depacketizer: while it is not dropping (`Carry`), the last packet it
  parsed (`LastParsed`) and the last one with media have nothing but probes between them, and
  what it has gathered is exactly the unit up to the end of that media packet (`Behind`). A
  packet is then either the successor, and goes on there, or a loss, and everything is
  dropped until a sequence starts. That the 16-bit comparison tells the two apart is
  `GapsAreShort` of the window, used through `Proofs == INSTANCE Av1Reorder_proofs`.
- **AV1 stream, nothing wasted.** Not inductive as stated: in the middle of a unit nothing is
  due yet. `DebtsPaid` says it packet by packet. A packet is an `Anchor` if it starts a
  sequence, or comes right behind the end of a delivered unit; if from an anchor on all
  packets are released and readable, the depacketizer is not dropping at the last one, and
  every unit that ended in between is delivered (`Owed`). `FirstsOK` adds what the sender
  promises of first packets: that they carry N if their unit starts a sequence, and that no
  unit comes twice. `Fits` bounds the rebuilt unit, so that the branches on a full buffer
  (`av1_depay_close_obu`, `rtp.c:571` among them) are ruled out for units that fit (`RoomLeft`, `ElementFits`).
- **`Tracked` and `Sparse`.** A packet the depacketizer cannot read does not move its
  `nextSeq`, so a run of such packets as long as 2^16 would hide that they were lost.
  `Tracked` says that between two readable packets released there are at most `SeqModulus`
  numbers. `Sparse` is a condition on the network alone that implies it (`SparseIsTracked`,
  by `GapsAreShort`): of two packets released in a row at least one is readable.
- **H.264.** `H264Inv` has four parts. `HandedOK` says that the access unit under way is the
  last one handed over, and every NAL unit of it fits the search: in what `BytesOf` put together,
  `FindNalu` from the start of one unit finds the start of the next, and `NaluSize` takes away
  the start code and nothing else. This is where `AnnexB` enters; `NalHeaders` enters where the
  decoder takes a payload apart that the encoder put together (`ReadAs`): the fragment's header
  says which NAL unit it is of. `EncoderOK` says that the
  encoder stands at a NAL unit or between two fragments of the one before it. A packet under
  way is the fragment its number says (`PacketOK`). `DecoderOK` says that the buffer holds as
  much of a NAL unit as has just arrived in order: a first fragment starts it anew, whatever a
  loss or an overrun left there, and what fits the buffer is not stopped at its end.
  `FramesKeepTimestamp` adds `StampsOK`, which counts access units by the encoder's timestamp, and
  needs `OneSlice`: an access unit of two slices gets two timestamps, and one
  without a slice shares its own with the next.
- **PeerConnection.** `LoopStages` and `Negotiated` say what each point of the loop and of
  the handler may rely on; with `OneThread`, `Turns` makes these stable. Without it the run
  `peer_connection_threads` has the counterexample. COMPLETED is reached with the fingerprints
  compared, and `KeysWereExported` says what a certificate that was met tells of the session: it
  is CONNECTED, or its keys could not be derived.
- **Signaling.** `RepliedOnce` follows the number of a request: on its way, being handled,
  handled, or unused (`UnderWay`, `Handling`, `HistoryBounded`), and never two of these.
  What makes this work is that `g_ps.id` holds the number of an offer only while that offer
  is made (the last conjunct of `Handling`).
- **SCTP.** `OpenedOnce` is inductive with the type of `size`. For `FragmentsReassemble`,
  `Begun` says that in the middle of a message the chunks on the wire are its beginning and
  the next one goes on with it, `Complete` that between messages the last one is whole. For
  `AckedIsDelivered`, `AckInv` bounds what is under way by what was handed to the application:
  every SACK names a chunk that was handled. The code acknowledges the TSN of the last DATA chunk
  it saw, so that a SACK may cover lost ones before it. `PeerWindow` says which: the chunks sent
  before the first SACK arrived (`wide`), and behind them at most one more than is acknowledged.
  What a SACK covers beyond `peerAck` is then the chunk itself or `Overtaken`.
- **STUN messages.** `AttrsSize` is a recursive sum over the attributes. `Walk` says what it
  is for every prefix of a message (a multiple of four that grows with each attribute), and
  is shown for all of them by `EveryNumber`. From it follow what writing one attribute does
  (`WriteIs`), what finishing a message does (`FinishIs`: both digests cover what a reader
  will recompute, so `IsValid` holds for the key it was made with and no other), and that the
  parser walks over exactly what was written (`WalkedIs`).
- **Gathering.** `OnTheWay` says what each datagram under way is: a check of some session, a
  binding answer, a refusal, or an allocation, the last refused only after a wrong
  credential. `GatherTurns` says where the loop over the servers is. `RequestsAccepted` needs two
  things more. `BufferHolds` is that a request with the user's name fits
  `STUN_ATTR_BUF_SIZE`: 88 bytes and the padded name, so names of up to 168 bytes. The code does
  not check it. `RoomForAll` is that the candidates of all descriptions fit
  `AGENT_MAX_CANDIDATES`: an answer does not clear those of before, so `Level` counts what
  each description may add.

**Transport**

- **Keepalive.** `KeepaliveInv` dates the last refresh by the fate of the latest check
  (`Fresh`) and the latest check by the last loop (`Paced`). `Tuned` is the condition the
  proof yields:
  `Timeout >= max(Interval, MaxHandshake) + LoopPeriod + Interval + LoopPeriod + Rtt`. With
  the shipped 3 s and 10 s it holds for handshakes up to about 3 s and prompt loops.
- **ICE.** `Budget` ties the number of requests sent to the check counter, so that
  `FullBudget` follows; `Position` says what the loop has already passed.
- **UDP ring.** `Pushing` and `Popping` say that the slot written is not visible and the slot
  read is not given back; the refinement maps the queue to the slots between the positions
  and linearises at the assignments of `write_pos` and `read_pos`.
- **TCP buffer.** `TcpInv` says that between the copy and the test of `rx_len` nothing is
  stored, so that the buffer that is reset has been read to its end. This is where `Polling`
  enters, and where `tcp_rx_background` shows the bytes that get lost without it.
- **TCP connections.** `OwnCallbacks` lists whose callbacks are still attached to the one
  static socket (the current pcb, and those forgotten at `tcp_close`), `OwnWrites` says that
  nothing in the socket, nor heard by its caller, stems from anyone else.

**ito-denwa**

- **Provisioning.** One link carries one attempt (`Fresh`, `OneAttempt`): everything written,
  on the air, pending in the device, or notified belongs to the app's latest. COMMIT is the
  last thing on the air and finds all fields of the attempt (`CommitLast`), what was
  accepted is not changed any more (`Committed`), and flash holds either nothing whole or
  something accepted (`InFlash`), whenever the power fails. Attempts, retries, power
  failures and packets on the air are unbounded in the theorem.
- **Inter-core ring.** `Layout` names two sequences that exist in no variable: the messages
  in the ring and the places where they begin. Between `tail + reading` and `head` they lie
  one behind the other, each whole, modulo the ring. `CheckedNeverWaits` needs `Layout`,
  since only the producer takes room away, and the refinement reads the abstract queue off
  it. The theorem includes messages that cross the end of the ring.
- **Reply body.** One number in no variable ties everything together: `base`, how much of the
  payload compaction has thrown away. In front of the decoder's write position the buffer
  holds the payload from there on (`Ready`), behind its read position it holds the stream
  (`Decoding`), and how far each has come is the same chunk (`InChunk`); in between lie bytes
  that are read and may be written over. The write position never passes the read position,
  which is what decoding in place needs; the mutant that leaves the read position where it
  was at compaction breaks `InChunk`. The pump stands where a packet begins (`Forwarding`), or
  the server closed in the middle of one and the rest was dropped (`Dropped`). `AllThere`:
  when the whole stream is decoded the buffer holds the payload to its end, so that the end
  is announced behind the last packet. `RepliesAssumption` says what a reply is: chunks that are
  not empty and hold the packets and no more.
- **Two cores.** `DenwaTypeOK` bounds both FIFOs whoever appends. `EndInv`: an end that was
  sent is in the FIFO, in the peek cache, or noted. `TalkInv`: who holds the loudspeaker
  paused either talks or is waiting in `ic_send` with the resume next. `OwnedInv` and
  `LoadInv` are about requests: while the screen shows LOADING the fetch is asked for,
  flagged, or running, and a message that makes the transport idle has the fetch behind it
  (`FetchBehindStop`). `RoomForTwo` is needed: with one pcb TLC finds LOADING shown for ever,
  because the request that follows the fetch in its pass finds no heap and is forgotten
  together with it. `UntilOverlap` lets no step follow a state with two live connections,
  exactly what the run explores under `OneConnection`.
- **Loudspeaker.** `Tracker` says that `abs` is where the DMA was at the last call and that it
  has not gone round since; `Level` that what is due is what the writer is ahead, or nothing
  in an underrun; `Hush` (for silence) that once padding has begun it is written without a
  gap, so that after a ring of it nothing else is left. `WideCounters` asks for a counter
  twice the ring: with `Width = BufWords` TLC finds `HeardIsDue` violated, since the sign of
  the distance is lost. `PromptPump` bounds how long core 0 may stay away. It is sufficient;
  with a ring of 8, blocks of 1 and gaps of 3 TLC finds the rest of speech that stays in the
  ring, with gaps of 2 it does not.
- **Microphone.** `Pumping` says where a call of the pump is and how long it has been there,
  `Captured` relates the DMA's ring to the clock and the pump's place in it, `Filling` the frame
  being filled to the take and, while the pump is not `Late`, to the samples just before that
  place, `InOrder` every frame POSTed to those waiting for a POST and to those between the cores.
  A pump that is not late reads each sample before the DMA comes round to it: since the clock
  was read at the pump before, the longest gap and a pump's own time have passed at most, less
  than a ring. A late one has shown it in the longest gap. No hypothesis.

**hid-usb**

- **Mouse.** `Relayed` holds that what was reported, followed by what can be read of the queue,
  is what can be read of everything queued behind the first command. Taking one out needs
  that the readable part of a sequence begins with that of its head (`UsableHead`), putting
  one in that it ends with that of its last (`UsableAppend`); both by `EverySequence`.
  `BehindChannel` gives that USB starts behind an open data channel only.

### Properties of runs that theorems state

`InOrder`, `JitterAbsorbed`, `EncodedWhole`, `ComesOutWhole`, `DeliveredDecodable`, `NothingWasted`,
`CompletedMeansDtlsConnected`, `CompletedMeansAuthenticated`,
`ClosedOnlyWhenSilent`, `SilenceNoticed`, `FullBudget`, `FifoIsQueue`, `StoredIsRead`,
`LearnedIsOwn`, `RepliedOnce`, `OpenedOnce`, `FragmentsReassemble`, `AckedIsDelivered`,
`ToldSavedIsCommitted`, `LoadedWasAccepted`, `RingIsQueue`, `CheckedNeverWaits`, `ShippedAsSent`,
`PausedOnlyWhileTalking`, `PlaybackEnds`, `LoadingEnds`, `OverlapOnlyWithFetch`, `HeardIsDue`,
`SilentWhenIdle`, `SpeechInOrder`, `RequestsAccepted`, `CurrentChecksOnly`, `AddressesReal`,
`UsbRelays`. The inductive invariants themselves rest on their proofs.

### Only model-checked

- Liveness: `EveryPacketPasses`, `Settles`, `NoneStaysBehind`, `CheckingSettles`,
  `AllAcknowledged`, `AttemptEnds`. Fairness and ENABLED are out of the prover's reach.

## 5. Limits of the code the models made visible

- Loop and signaling in two threads can leave COMPLETED over a DTLS session that was just
  initialised (run `peer_connection_threads`); the TCP buffer loses acknowledged bytes in
  the interrupt build (run `tcp_rx_background`).
- 32-bit clock: at the wrap (49.7 days) or when it is set back, a live connection is closed
  (`NoClockWrap`). A DTLS handshake longer than `Tuned` allows closes it as well.
- Window: it starts at the first packet to arrive, so if the first two are swapped the
  first is dropped; window and depacketizer are static, shared by all connections and not
  reset by a new one.
- Depacketizer: a packet whose header it cannot read leaves `nextSeq` alone (`rtp.c:608-632`),
  so a run of such packets that is a multiple of 2^16 long would pass for no loss (`Tracked`).
- ICE: a binding response that arrives late makes the pair nominated by then succeed,
  neither transaction id nor source is compared.
- Gathering: the transaction id is constant and not compared either; answering a further
  offer keeps the old local candidates, of which there is room for ten; a STUN
  message is written to a buffer of 256 bytes whatever its attributes add up to.
- Signaling: a lost MQTT session is not made again; the TLS handshake loop repeats on fatal
  errors; an offer with id 0 gets no reply; a request that a controller repeats under its number
  is answered again; a second `peer_signaling_connect` copies host
  and path without their terminators and keeps the old token.
- H.264: after a loss, fragments of two NAL units may be handed over as one. NAL units of type 0
  and 24 to 31 in a single packet are taken for fragments. A fragment that begins before the end
  of the buffer is written whole, past it if need be (`rtp.c:500-502`), a first fragment and a
  single NAL unit whatever their size.
- DTLS: when the SRTP keys cannot be derived, the handshake goes on and the connection becomes
  COMPLETED without them (`dtls_srtp.c:344-367`, `peer_connection.c:316-325`).
- TCP: what does not fit the buffer is freed without `tcp_recved`, so the bytes are lost
  and the window shrinks for good; the examples' `TCP_WND` exceeds the buffer. After a FIN,
  unread bytes cannot be read any more. A connect that fails leaves its pcb attached to the
  static socket: it may answer the next connect, or clear the next connection's pcb.
- SCTP: COOKIE_ECHO is not repeated; a retransmitted chunk is delivered twice; only the
  first DATA chunk of a packet is handled; a SACK acknowledges cumulatively the chunk just
  seen, which covers lost ones before it while the peer still has several under way in the
  0x100000 bytes it was offered first (`sctp.c:294, 676`); HEARTBEAT gets no
  answer; an empty message sends nothing. In the usrsctp build a failing second association
  destroys the first one's socket.
- A handshake that fails never leads to FAILED; it is started over for ever, and each
  handshake makes new SRTP contexts over the old ones.
- ito-denwa: both cores can wait for each other in `ic_send` (run `denwa_wait`); framing
  between decoder and writer is not compacted and stops a reply for good (run `body_gap`);
  the wrap tracker is used by one core while the other resets it, and words are counted twice
  (run `audio_cores`); the stall watch of the microphone looks at the gap between two pumps only,
  so that what is overwritten during the drain is not counted as an overrun, nor are frames
  dropped for want of room; the
  app says Saved before the flash is written (run `provisioning_saved`); the lab fetch may
  start over a running request, whose `err_cb` then clears the other's pcb; a late
  `TTS_PLAYED` ends the next playback early; a power failure between erasing and
  programming loses the old credentials.
- hid-usb: the first command of a boot moves nothing; a failed or closed session is
  never made again, although `README.md:144` of the example describes a reboot (it is
  commented out, `main.c:357`), nor one whose signaling failed; commands
  that find the queue full are lost, a button release among them; the comment at
  `main.c:391` shows commands with commas, which `sscanf` does not read.

## 6. Not modelled

- `sdp.c`, `base64.c`, `utils.c`, `ice.c`: text and encoding without state; `rtcp.c`: builds
  and recognises single packets; `address.c` and the POSIX side of `socket.c`: wrappers.
- `mdns.c`: a blocking lookup, see the plan. The inside of `ssl_transport.c`; mbedTLS,
  libsrtp, usrsctp, coreMQTT, coreHTTP, cJSON, Opus, BTstack and lwIP are libraries: where a
  model needs one it is an environment action.
- The usrsctp build of `sctp.c`, which is the default of `config.h`: when the library calls
  back, and what it keeps, cannot be read from this code.
- XOR coding of addresses, RTP header extensions and padding on sending, pass-through audio.
- AV1 packets with W other than 0 or with OBUs that kept their size field, which only
  foreign senders make.
- ito-denwa: drawing (`st7789.c`), LED, the Opus wrapper, log and screen texts, sample
  rates, volume, levels and filters; header fields and JSON of replies; the poll periods (a
  poll may be due in any pass); arming a playback inside the pump's update of the pad counter
  (`tts.c:224`), where `Armed` of `DenwaApp` comes between two calls of the pump; the
  check of `IcRing`'s receiver that FIFO entry and header name one type (`ic_ring.c:157`; one
  sender writes both) and the cut to a shorter buffer (the dispatchers' hold the longest
  payload, `main.c:157-165`); errors of a connection in `HttpBody` (they are in
  `DenwaApp`); Bluetooth switched off on the phone, long writes, and the failing lookup of
  `wifi.c` in `Provisioning`.
- hid-usb: the keepalive and the LED blinker, timing counters, USB descriptors; the
  position and buttons in a command (its sender keeps to -127 to 127).
- The other examples but for how they drive the library: cameras, user interfaces.

## 7. Plan

Done in this order: reorder window; packetizer and depacketizer and their composition;
ICE pairs; keepalive; life cycle; receive buffers; SCTP; STUN, gathering, H.264; signaling;
ito-denwa from the application down to rings, body and provisioning; TCP connections;
the USB mouse. Then the theorems of section 4.

To be added, most important first:

1. An abstract connection (closed, negotiating, open) that `PeerConnection` with `OneThread`
   implements.
2. A second connection in `Av1Stream` through the same static window and depacketizer.
3. `DtlsSession`: ownership of SRTP contexts over repeated handshakes and resets, and
   `PeerConnection` shown to use it by refinement.
4. The retry loop of `mdns_resolve_addr`.

## 8. Running

    tlc -workers 2 -config MCSession.cfg MCSession
    tlapm Transport_proofs.tla

The runs with their modules and configurations are listed in `PROJECT.json`, with the map
from every definition to the source lines it stands for.

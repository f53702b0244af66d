-------------------------------- MODULE IcRing --------------------------------
(***************************************************************************)
(* One direction of the inter-core message ring of the walkie-talkie       *)
(* (src/examples/ito-denwa/src/ic_ring.c): the producer core writes a      *)
(* header and a payload into the byte ring, publishes head and pushes      *)
(* (type, offset) into the hardware FIFO; the consumer core pops, reads    *)
(* and frees.  The ring is counted in words, to which the code aligns      *)
(* every message: the header is one, the payload at most MaxPayload.       *)
(***************************************************************************)
EXTENDS Integers, Sequences

CONSTANTS
  RingWords,     \* IC_RING_SIZE / 4
  FifoSlots,     \* depth of the FIFO
  MaxPayload,    \* the longest payload sent, in words
  MaxSends       \* bound: how many messages are sent

ASSUME IcRingAssumption ==
  /\ {RingWords, FifoSlots} \subseteq Nat \ {0}
  /\ {MaxPayload, MaxSends} \subseteq Nat

VARIABLES
  cells,         \* what each word of the ring holds
  head, tail,    \* words written and consumed, never reduced to the ring
  fifo,          \* offsets pushed and not popped
  cache,         \* g_peek_cache: at most one offset
  sending,       \* the message inside ic_send, and how far it is
  reading,       \* words the consumer has still to free, 0 for none
  sends,         \* how many were started
  got            \* history: the messages taken

ringVars == <<cells, head, tail, fifo, cache, sending, reading, sends, got>>

\* A message is its number and the length of its payload.
Messages == [id : 1 .. MaxSends, len : 0 .. MaxPayload]
NoMessage == [id |-> 0, len |-> 0]
NoSend == [st |-> "idle", checked |-> FALSE, off |-> 0, msg |-> NoMessage]
Need(m) == 1 + m.len
RoomOneMore == RingWords - (head - tail) + 1      \* mutant: an off-by-one
Room == RingWords - (head - tail)

\* Word 0 of a message is its header (type and length), the others payload.
Word(m, k) == [of |-> m, at |-> k]

IcInit ==
  /\ cells = [w \in 0 .. RingWords - 1 |-> Word(NoMessage, 0)]
  /\ head = 0 /\ tail = 0 /\ fifo = << >> /\ cache = << >>
  /\ sending = NoSend /\ reading = 0 /\ sends = 0 /\ got = << >>

-----------------------------------------------------------------------------
\* ic_send_avail: nothing is available while the FIFO is full.
AvailIgnoringFifo == Room               \* mutant: the FIFO not looked at
Avail == IF Len(fifo) < FifoSlots THEN Room ELSE 0

\* ic_send is entered either directly, and then it may wait, or behind
\* ic_send_avail, and then the caller drops the message when it would wait.
Enter(len, checked) ==
  /\ sending.st = "idle" /\ sends < MaxSends
  /\ sends' = sends + 1
  /\ LET m == [id |-> sends + 1, len |-> len]
     IN sending' = IF Need(m) > RingWords \/ (checked /\ Avail < Need(m)) THEN NoSend
                   ELSE [st |-> "space", checked |-> checked, off |-> 0, msg |-> m]
  /\ UNCHANGED <<cells, head, tail, fifo, cache, reading, got>>

WriteMessage ==
  /\ sending.st = "space" /\ Room >= Need(sending.msg)
  /\ LET off == head % RingWords
         m   == sending.msg
     IN /\ cells' = [w \in DOMAIN cells |->
                     LET k == (w + RingWords - off) % RingWords
                     IN IF k < Need(m) THEN Word(m, k) ELSE cells[w]]
        /\ sending' = [sending EXCEPT !.st = "push", !.off = off]
        /\ head' = head + Need(m)
  /\ UNCHANGED <<tail, fifo, cache, reading, sends, got>>

Push ==
  /\ sending.st = "push" /\ Len(fifo) < FifoSlots
  /\ fifo' = Append(fifo, sending.off)
  /\ sending' = NoSend
  /\ UNCHANGED <<cells, head, tail, cache, reading, sends, got>>

-----------------------------------------------------------------------------
\* ic_peek_type.
PeekType ==
  /\ reading = 0 /\ cache = << >> /\ fifo # << >>
  /\ cache' = <<Head(fifo)>> /\ fifo' = Tail(fifo)
  /\ UNCHANGED <<cells, head, tail, sending, reading, sends, got>>

\* What a reader finds at an offset: the header's message if every word of
\* its payload is there, and nothing that was sent otherwise.
At(off) ==
  LET m == cells[off].of
  IN IF \A k \in 0 .. m.len : cells[(off + k) % RingWords] = Word(m, k)
     THEN m ELSE NoMessage

Arrived == cache \o fifo

\* ic_try_recv takes the cached entry before the FIFO; the bytes are copied
\* first and the ring is freed afterwards.  Its check of the type against the
\* header fails only where At finds another message, which RingIsQueue excludes;
\* both callers' buffers hold the longest payload.
Read ==
  /\ reading = 0 /\ Arrived # << >>
  /\ got' = Append(got, At(Head(Arrived)))
  /\ reading' = Need(At(Head(Arrived)))
  /\ IF cache # << >> THEN cache' = << >> /\ UNCHANGED fifo
     ELSE fifo' = Tail(fifo) /\ UNCHANGED cache
  /\ UNCHANGED <<cells, head, tail, sending, sends>>

FreeWords ==
  /\ reading > 0
  /\ tail' = tail + reading
  /\ reading' = 0
  /\ UNCHANGED <<cells, head, fifo, cache, sending, sends, got>>

IcNext ==
  \/ \E len \in 0 .. MaxPayload, checked \in BOOLEAN : Enter(len, checked)
  \/ WriteMessage \/ Push \/ PeekType \/ Read \/ FreeWords

IcSpec == IcInit /\ [][IcNext]_ringVars

-----------------------------------------------------------------------------
\* The messages waiting, as a reader will find them.
Queued == [i \in 1 .. Len(Arrived) |-> At(Arrived[i])]

\* Messages come out whole and in the order they were pushed, at most
\* FifoSlots + 1 wait, and none is turned away once ic_send has begun: the
\* ring and the FIFO together implement module BoundedQueue.
Promise == INSTANCE BoundedQueue WITH
  Datagrams <- Messages,
  Capacity  <- FifoSlots + 1,
  queue     <- Queued,
  refused   <- {}

RingIsQueue == Promise!Spec

\* A caller that asked ic_send_avail first never waits inside ic_send: core 1
\* must get back to cyw43_arch_poll, core 0 must not drop out of its loop.
CheckedNeverWaits ==
  sending.checked =>
    /\ sending.st = "space" => Room >= Need(sending.msg)
    /\ Len(fifo) < FifoSlots
================================================================================

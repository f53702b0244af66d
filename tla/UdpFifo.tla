-------------------------------- MODULE UdpFifo --------------------------------
(***************************************************************************)
(* The UDP receive ring of the RP2040 port (src/src/socket.c, UdpFifo):    *)
(* lwIP's receive callback pushes, udp_socket_recvfrom pops.  The examples *)
(* build with pico_cyw43_arch_lwip_threadsafe_background, where the        *)
(* callback runs in an interrupt that may come between any two steps of    *)
(* the pop; no lock is taken.  Here either side may be delayed anywhere,   *)
(* which includes that, and the polling build.                             *)
(*                                                                         *)
(* Steps are taken in program order.  A slot whose memcpy is under way     *)
(* reads as Torn.  Datagrams fit the buffers they are copied to.           *)
(***************************************************************************)
EXTENDS Integers, Sequences

CONSTANTS
  FifoSize,     \* UDP_FIFO_SIZE
  Datagrams,    \* the datagrams that may arrive, each once
  Torn          \* a slot or a copy of a slot that is being written

ASSUME FifoAssumption ==
  /\ FifoSize \in Nat \ {0}
  /\ Torn \notin Datagrams

VARIABLES
  items,      \* UdpFifo.items
  fifoReadPos,    \* UdpFifo.read_pos
  writePos,   \* UdpFifo.write_pos
  producer,   \* where udp_recv_callback is
  hand,       \* the datagram it pushes
  consumer,   \* where udp_fifo_pop is
  item,       \* the item popped (*out)
  seen,       \* history: datagrams that arrived
  got,        \* history: datagrams given to the caller of recvfrom
  refused     \* history: datagrams dropped by a full ring

fifoVars ==
  <<items, fifoReadPos, writePos, producer, hand, consumer, item, seen, got, refused>>
producerVars == <<producer, hand, seen, refused>>
consumerVars == <<consumer, item, got>>

Positions == 0 .. FifoSize - 1
NextPos(p) == (p + 1) % FifoSize

\* udp_fifo_init; the items are calloc'ed, which is no datagram either.
FifoInit ==
  /\ items = [p \in Positions |-> Torn]
  /\ fifoReadPos = 0 /\ writePos = 0
  /\ producer = "idle" /\ hand = Torn
  /\ consumer = "idle" /\ item = Torn
  /\ seen = {} /\ got = << >> /\ refused = {}

IsEmptyKeepingOne == NextPos(fifoReadPos) = writePos   \* mutant: an off-by-one
IsEmpty == fifoReadPos = writePos

IsFull == NextPos(writePos) = fifoReadPos

-----------------------------------------------------------------------------
(* udp_recv_callback and udp_fifo_push *)
RecvCallback(d) ==
  /\ producer = "idle" /\ d \notin seen
  /\ producer' = "push"
  /\ hand' = d
  /\ seen' = seen \cup {d}
  /\ UNCHANGED <<items, fifoReadPos, writePos, refused, consumerVars>>

PushRefused ==
  /\ producer = "push" /\ IsFull
  /\ producer' = "idle"
  /\ refused' = refused \cup {hand}
  /\ UNCHANGED <<items, fifoReadPos, writePos, hand, seen, consumerVars>>

PushCopy ==
  /\ producer = "push" /\ ~IsFull
  /\ producer' = "copying"
  /\ items' = [items EXCEPT ![writePos] = Torn]
  /\ UNCHANGED <<fifoReadPos, writePos, hand, seen, refused, consumerVars>>

PushCopied ==
  /\ producer = "copying"
  /\ producer' = "publish"
  /\ items' = [items EXCEPT ![writePos] = hand]
  /\ UNCHANGED <<fifoReadPos, writePos, hand, seen, refused, consumerVars>>

PushPublish ==
  /\ producer = "publish"
  /\ producer' = "idle"
  /\ writePos' = NextPos(writePos)
  /\ UNCHANGED <<items, fifoReadPos, hand, seen, refused, consumerVars>>

-----------------------------------------------------------------------------
(* udp_socket_recvfrom and udp_fifo_pop; an empty ring returns at once. *)
PopCopy ==
  /\ consumer = "idle" /\ ~IsEmpty
  /\ consumer' = "advance"
  /\ item' = items[fifoReadPos]
  /\ UNCHANGED <<items, fifoReadPos, writePos, got, producerVars>>

PopAdvanceLate ==            \* mutant: read after the position has moved
  /\ consumer = "advance"
  /\ consumer' = "idle"
  /\ fifoReadPos' = NextPos(fifoReadPos)
  /\ got' = Append(got, items[fifoReadPos'])
  /\ UNCHANGED <<items, writePos, item, producerVars>>
PopAdvance ==
  /\ consumer = "advance"
  /\ consumer' = "idle"
  /\ fifoReadPos' = NextPos(fifoReadPos)
  /\ got' = Append(got, item)
  /\ UNCHANGED <<items, writePos, item, producerVars>>

Callback == PushRefused \/ PushCopy \/ PushCopied \/ PushPublish

Producer ==
  \/ \E d \in Datagrams : RecvCallback(d)
  \/ Callback

Consumer == PopCopy \/ PopAdvance

FifoNext == Producer \/ Consumer

FifoSpec == FifoInit /\ [][FifoNext]_fifoVars

\* A callback that started returns, and the receive loop keeps calling
\* recvfrom (agent.c:88-102); arrivals are up to the network.
FifoFairSpec == FifoSpec /\ WF_fifoVars(Callback) /\ WF_fifoVars(Consumer)

-----------------------------------------------------------------------------
(* Refinement: the slots between the positions are the waiting datagrams;  *)
(* one goes in with the assignment of write_pos and out with that of       *)
(* read_pos.  One slot always stays free.                                  *)
Count == (writePos - fifoReadPos) % FifoSize
Slot(k) == (fifoReadPos + k - 1) % FifoSize
Waiting == [k \in 1 .. Count |-> items[Slot(k)]]

Queue == INSTANCE BoundedQueue WITH queue <- Waiting, Capacity <- FifoSize - 1

\* The ring implements the bounded queue: nothing is lost, torn, repeated
\* or reordered between callback and recvfrom, and a datagram is refused only
\* while FifoSize - 1 others wait (socket.c:44-79).
FifoIsQueue == Queue!Spec

\* A datagram that arrived is eventually handed out or was refused: none
\* stays behind in the ring.
NoneStaysBehind ==
  \A d \in Datagrams :
    d \in seen ~> d \in refused \cup {got[k] : k \in 1 .. Len(got)}

-----------------------------------------------------------------------------
FifoTypeOK ==
  /\ items \in [Positions -> Datagrams \cup {Torn}]
  /\ fifoReadPos \in Positions /\ writePos \in Positions
  /\ producer \in {"idle", "push", "copying", "publish"}
  /\ consumer \in {"idle", "advance"}
  /\ hand \in Datagrams \cup {Torn} /\ item \in Datagrams \cup {Torn}
  /\ seen \subseteq Datagrams /\ refused \subseteq Datagrams
  /\ got \in Seq(Datagrams)

\* The slot being written is the free one, so it is not yet visible.
Pushing ==
  /\ producer # "idle" => hand \in Datagrams
  /\ producer \in {"copying", "publish"} => ~IsFull
  /\ producer = "publish" => items[writePos] = hand

\* The slot being read keeps its datagram until it is given back.
Popping == consumer = "advance" => ~IsEmpty /\ item = items[fifoReadPos]

\* A waiting slot holds a whole datagram.
Whole == \A k \in 1 .. Count : items[Slot(k)] \in Datagrams

\* What callback and recvfrom rely on when they interrupt one another.
FifoInv == FifoTypeOK /\ Pushing /\ Popping /\ Whole
================================================================================

--------------------------------- MODULE TcpRx ---------------------------------
(***************************************************************************)
(* The TCP receive buffer of the RP2040 port (src/src/socket.c,            *)
(* Rp2040TcpSocket): lwIP's callback appends to it, tcp_socket_recv reads  *)
(* from the front and empties it once everything is read.                  *)
(*                                                                         *)
(* In a polling build the callback runs inside cyw43_arch_poll, which      *)
(* tcp_socket_recv calls before it looks; with                             *)
(* pico_cyw43_arch_lwip_threadsafe_background (the build of the examples)  *)
(* it runs in an interrupt that comes between any two steps.               *)
(*                                                                         *)
(* A byte is its position in the stream.  The two assignments that empty   *)
(* the buffer are one step: a segment stored between them is kept.         *)
(***************************************************************************)
EXTENDS Integers, Sequences

CONSTANTS
  Polling,     \* the callback runs inside cyw43_arch_poll only
  RxBufSize,   \* TCP_RX_BUF_SIZE
  Window,      \* TCP_WND of lwipopts.h
  MaxSegment,  \* bytes of a segment
  MaxRead,     \* bytes the caller asks for
  MaxBytes     \* bound: bytes the peer sends

ASSUME TcpRxAssumption ==
  /\ Polling \in BOOLEAN
  /\ {RxBufSize, Window, MaxSegment, MaxRead} \subseteq Nat \ {0}
  /\ MaxBytes \in Nat

VARIABLES
  rx,        \* rx_buf up to rx_len
  readPos,   \* rx_read_pos
  error,     \* error
  reader,    \* where tcp_socket_recv is
  seenLen,   \* rx_len as it was read for the copy
  wnd,       \* lwIP's receive window
  sentBytes, \* history: bytes the peer sent
  stored,    \* history: bytes taken into the buffer and acknowledged
  given      \* history: bytes handed to the caller

tcpVars == <<rx, readPos, error, reader, seenLen, wnd, sentBytes, stored, given>>

Smaller(a, b) == IF a < b THEN a ELSE b

TcpInit ==
  /\ rx = << >> /\ readPos = 0 /\ error = FALSE
  /\ reader = "idle" /\ seenLen = 0
  /\ wnd = Window /\ sentBytes = 0
  /\ stored = << >> /\ given = << >>

-----------------------------------------------------------------------------
(* lwIP's callbacks. *)
MayCallBack == Polling => reader = "poll"

\* how much of n bytes is taken
Fitting(n) == Smaller(n, RxBufSize - Len(rx))

\* What does not fit is freed with the pbuf: neither stored nor given back
\* to the window.
TcpRecvCallback(n) ==
  /\ MayCallBack /\ ~error
  /\ n <= wnd /\ sentBytes + n <= MaxBytes
  /\ LET len   == Fitting(n)
         bytes == [b \in 1 .. len |-> sentBytes + b]
     IN  /\ rx' = rx \o bytes
         /\ stored' = stored \o bytes
         /\ wnd' = wnd - n + len
  /\ sentBytes' = sentBytes + n
  /\ UNCHANGED <<readPos, error, reader, seenLen, given>>

\* The peer closed or reset the connection.
TcpError ==
  /\ MayCallBack /\ ~error
  /\ error' = TRUE
  /\ UNCHANGED <<rx, readPos, reader, seenLen, wnd, sentBytes, stored, given>>

-----------------------------------------------------------------------------
(* tcp_socket_recv; after an error it returns -1 without looking. *)
Recv ==
  /\ reader = "idle" /\ ~error
  /\ reader' = "poll"
  /\ UNCHANGED <<rx, readPos, error, seenLen, wnd, sentBytes, stored, given>>

RecvNothing ==
  /\ reader = "poll" /\ rx = << >>
  /\ reader' = "idle"
  /\ UNCHANGED <<rx, readPos, error, seenLen, wnd, sentBytes, stored, given>>

CopyFromStart(n) == SubSeq(rx, 1, n)       \* mutant: rx_read_pos not added
Copy(n) == SubSeq(rx, readPos + 1, readPos + n)

RecvCopy(len) ==
  /\ reader = "poll" /\ rx # << >>
  /\ LET copyLen == Smaller(Len(rx) - readPos, len)
     IN  given' = given \o Copy(copyLen) /\ readPos' = readPos + copyLen
  /\ seenLen' = Len(rx)
  /\ reader' = "test"
  /\ UNCHANGED <<rx, error, wnd, sentBytes, stored>>

\* rx_len is not volatile: the build may test the value it copied with.
Consumed(len) == readPos >= len

RecvTest ==
  /\ reader = "test"
  /\ \E len \in {Len(rx), seenLen} :
       reader' = IF Consumed(len) THEN "reset" ELSE "idle"
  /\ UNCHANGED <<rx, readPos, error, seenLen, wnd, sentBytes, stored, given>>

RecvReset ==
  /\ reader = "reset"
  /\ rx' = << >> /\ readPos' = 0
  /\ reader' = "idle"
  /\ UNCHANGED <<error, seenLen, wnd, sentBytes, stored, given>>

Reader ==
  \/ Recv \/ RecvNothing
  \/ \E len \in 1 .. MaxRead : RecvCopy(len)
  \/ RecvTest \/ RecvReset

TcpNext == (\E n \in 1 .. MaxSegment : TcpRecvCallback(n)) \/ TcpError \/ Reader

TcpSpec == TcpInit /\ [][TcpNext]_tcpVars

-----------------------------------------------------------------------------
TcpTypeOK ==
  /\ rx \in Seq(1 .. MaxBytes) /\ Len(rx) <= RxBufSize
  /\ readPos \in 0 .. RxBufSize
  /\ error \in BOOLEAN
  /\ reader \in {"idle", "poll", "test", "reset"}
  /\ wnd \in 0 .. Window

\* Every byte taken in and acknowledged to the peer is read exactly once and
\* in order, or still in the buffer: the buffer is emptied only "if all data
\* consumed" (socket.c:781).
StoredIsRead == given \o SubSeq(rx, readPos + 1, Len(rx)) = stored
================================================================================

------------------------------ MODULE DenwaParams ------------------------------
(* Parameters of module DenwaApp.                                          *)
EXTENDS Integers

CONSTANTS
  FifoSize,     \* slots of the inter-core FIFO, per direction
  AudioSize,    \* BUF_FRAMES, in packets
  BodySize,     \* RESP_BUF_SIZE, in packets
  Prebuffer,    \* TTS_PREBUFFER_BYTES, in packets
  QueueSize,    \* TTS_QUEUE_SIZE - 1
  Pcbs,         \* TLS connections the heap has room for
  MicWorks,     \* mic_init succeeded
  Roles,        \* roles of the labs in the list
  Keys,         \* the keys the user presses
  MaxPresses    \* bound: how often

ASSUME DenwaAssumption ==
  /\ {FifoSize, AudioSize, BodySize, Prebuffer, QueueSize} \subseteq Nat \ {0}
  /\ Prebuffer <= BodySize
  /\ Pcbs \subseteq Nat \ {0}
  /\ MicWorks \in BOOLEAN
  /\ Roles \subseteq {"qa", "radio", "linephone"}
  /\ Keys \subseteq {"X", "UpDown", "Ctrl", "B"}
  /\ MaxPresses \in Nat
================================================================================

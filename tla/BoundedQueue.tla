------------------------------ MODULE BoundedQueue ------------------------------
(***************************************************************************)
(* What a receive FIFO promises, without positions or slots: datagrams     *)
(* come out whole and in the order they went in, and one is refused only   *)
(* while Capacity others wait.                                             *)
(***************************************************************************)
EXTENDS Integers, Sequences

CONSTANTS
  Datagrams,   \* what may be put in
  Capacity     \* how many may wait

VARIABLES
  queue,     \* the datagrams waiting
  got,       \* history: taken out, in order
  refused    \* history: turned away

Init ==
  /\ queue = << >>
  /\ got = << >>
  /\ refused = {}

Put(d) ==
  /\ Len(queue) < Capacity
  /\ queue' = Append(queue, d)
  /\ UNCHANGED <<got, refused>>

Refuse(d) ==
  /\ Len(queue) = Capacity
  /\ refused' = refused \cup {d}
  /\ UNCHANGED <<queue, got>>

Get ==
  /\ queue # << >>
  /\ got' = Append(got, Head(queue))
  /\ queue' = Tail(queue)
  /\ UNCHANGED refused

Next == (\E d \in Datagrams : Put(d) \/ Refuse(d)) \/ Get

Spec == Init /\ [][Next]_<<queue, got, refused>>
================================================================================

-------------------------------- MODULE IceAgent --------------------------------
(***************************************************************************)
(* Candidate pairs and connectivity checks of the ICE agent (src/src/      *)
(* agent.c) as peer_connection_loop drives them in CHECKING                *)
(* (peer_connection.c:306-312).                                            *)
(*                                                                         *)
(* A pair is its index in candidate_pairs; pointers to pairs are indices,  *)
(* 0 is NULL.  The loop of agent_select_candidate_pair is modelled one     *)
(* iteration per step.  A binding request sent over a pair that works may  *)
(* be answered; the answer may be lost, arrive at any later time, and      *)
(* arrive more than once.                                                  *)
(***************************************************************************)
EXTENDS Integers, Sequences

CONSTANTS
  NewPairs,         \* pairs of equal address family a description yields
  MaxPairs,         \* bound: the pairs of several descriptions
  ConncheckMax,     \* AGENT_CONNCHECK_MAX
  ConncheckPeriod,  \* AGENT_CONNCHECK_PERIOD
  Working,          \* the pairs whose path carries packets both ways
  MaxSessions       \* bound: sessions of one agent

ASSUME IceAssumption ==
  /\ NewPairs \in Nat /\ MaxPairs \in Nat /\ NewPairs <= MaxPairs
  /\ ConncheckMax \in Nat \ {0}
  /\ ConncheckPeriod \in Nat \ {0}
  /\ Working \subseteq 1 .. MaxPairs
  /\ MaxSessions \in Nat

VARIABLES
  pairs,      \* candidate_pairs up to candidate_pairs_num
  nominated,  \* nominated_pair
  selected,   \* selected_pair
  at,         \* where the loop thread is inside CHECKING
  k,          \* i of agent_select_candidate_pair
  verdict,    \* what CHECKING concluded: the next state of the connection
  answers,    \* pairs over which an answer of this session may arrive
  sent,       \* history: binding requests sent per pair
  session     \* history: how many times the pairs were formed

iceVars == <<pairs, nominated, selected, at, k, verdict, answers, sent, session>>

PairStates == {"FROZEN", "INPROGRESS", "SUCCEEDED", "FAILED"}
Indices == 1 .. Len(pairs)
FrozenPair == [state |-> "FROZEN", conncheck |-> 0]

IceInit ==
  /\ pairs = << >>
  /\ nominated = 0 /\ selected = 0
  /\ at = "out" /\ k = 0
  /\ verdict = "idle"
  /\ answers = {}
  /\ sent = [p \in 1 .. MaxPairs |-> 0]
  /\ session = 0

-----------------------------------------------------------------------------
\* agent_clear_candidates by the new offer, then agent_update_candidate_pairs
\* by its answer.  The new credentials make older answers invalid.
UpdatePairs(n) == [p \in 1 .. n |-> FrozenPair]

Restart ==
  /\ at = "out" /\ session < MaxSessions
  /\ pairs' = UpdatePairs(NewPairs)
  /\ verdict' = "none"
  /\ answers' = {}
  /\ sent' = [p \in 1 .. MaxPairs |-> 0]
  /\ session' = session + 1
  /\ UNCHANGED <<nominated, selected, at, k>>

\* Another answer to the same offer, with a ufrag of its own: nothing is cleared,
\* and behind the pairs that are there everything is paired again, the candidates
\* it brings along with those already known.
Reanswer ==
  /\ at = "out" /\ verdict # "idle"
  /\ \E n \in NewPairs .. MaxPairs - Len(pairs) : pairs' = pairs \o UpdatePairs(n)
  /\ verdict' = "none"
  /\ answers' = {}
  /\ UNCHANGED <<nominated, selected, at, k, sent, session>>

-----------------------------------------------------------------------------
(* agent_select_candidate_pair *)
Select ==
  /\ at = "out" /\ verdict = "none"
  /\ at' = "select" /\ k' = 1
  /\ UNCHANGED <<pairs, nominated, selected, verdict, answers, sent, session>>

Looking(state) == at = "select" /\ k \in Indices /\ pairs[k].state = state

SkipFailed ==
  /\ Looking("FAILED")
  /\ k' = k + 1
  /\ UNCHANGED <<pairs, nominated, selected, at, verdict, answers, sent, session>>

Nominate ==
  /\ Looking("FROZEN")
  /\ nominated' = k
  /\ pairs' = [pairs EXCEPT ![k] = [state |-> "INPROGRESS", conncheck |-> 0]]
  /\ at' = "check"
  /\ UNCHANGED <<selected, k, verdict, answers, sent, session>>

KeepChecking ==
  /\ Looking("INPROGRESS")
  /\ pairs[k].conncheck + 1 < ConncheckMax
  /\ pairs' = [pairs EXCEPT ![k].conncheck = @ + 1]
  /\ at' = "check"
  /\ UNCHANGED <<nominated, selected, k, verdict, answers, sent, session>>

GiveUp ==
  /\ Looking("INPROGRESS")
  /\ pairs[k].conncheck + 1 >= ConncheckMax
  /\ pairs' = [pairs EXCEPT ![k] = [state |-> "FAILED", conncheck |-> @.conncheck + 1]]
  /\ k' = k + 1
  /\ UNCHANGED <<nominated, selected, at, verdict, answers, sent, session>>

PickSucceeded ==
  /\ Looking("SUCCEEDED")
  /\ selected' = k
  /\ at' = "check"
  /\ UNCHANGED <<pairs, nominated, k, verdict, answers, sent, session>>

AllFailedForever ==         \* mutant: -1 is not reported, CHECKING goes on
  /\ at = "select" /\ k \notin Indices
  /\ at' = "out"
  /\ UNCHANGED <<pairs, nominated, selected, k, verdict, answers, sent, session>>
AllFailed ==
  /\ at = "select" /\ k \notin Indices
  /\ at' = "out" /\ verdict' = "FAILED"
  /\ UNCHANGED <<pairs, nominated, selected, k, answers, sent, session>>

-----------------------------------------------------------------------------
(* agent_connectivity_check *)
NotInProgress ==
  /\ at = "check" /\ pairs[nominated].state # "INPROGRESS"
  /\ at' = "out"
  /\ UNCHANGED <<pairs, nominated, selected, k, verdict, answers, sent, session>>

SendDue == pairs[nominated].conncheck % ConncheckPeriod = 0

\* The binding request; over a working pair it may be answered from now on.
SendCheckAlways ==          \* mutant: the period ignored
  /\ at = "check" /\ pairs[nominated].state = "INPROGRESS"
  /\ sent' = [sent EXCEPT ![nominated] = @ + 1]
  /\ answers' = answers \cup ({nominated} \cap Working)
  /\ at' = "recv"
  /\ UNCHANGED <<pairs, nominated, selected, k, verdict, session>>
SendCheck ==
  /\ at = "check" /\ pairs[nominated].state = "INPROGRESS"
  /\ IF SendDue
     THEN /\ sent' = [sent EXCEPT ![nominated] = @ + 1]
          /\ answers' = answers \cup ({nominated} \cap Working)
     ELSE UNCHANGED <<sent, answers>>
  /\ at' = "recv"
  /\ UNCHANGED <<pairs, nominated, selected, k, verdict, session>>

\* agent_recv: nothing, or something that is not a valid binding response.
ReceiveNothing ==
  /\ at = "recv"
  /\ at' = "out"
  /\ UNCHANGED <<pairs, nominated, selected, k, verdict, answers, sent, session>>

\* agent_process_stun_response credits whichever pair is nominated now.
Credited == nominated

ReceiveAnswer ==
  /\ at = "recv" /\ answers # {}
  /\ pairs' = [pairs EXCEPT ![Credited].state = "SUCCEEDED"]
  /\ IF pairs'[nominated].state = "SUCCEEDED"
     THEN selected' = nominated /\ verdict' = "CONNECTED"
     ELSE UNCHANGED <<selected, verdict>>
  /\ at' = "out"
  /\ UNCHANGED <<nominated, k, answers, sent, session>>

CheckStep ==
  \/ Select \/ SkipFailed \/ Nominate \/ KeepChecking \/ GiveUp
  \/ PickSucceeded \/ AllFailed
  \/ NotInProgress \/ SendCheck \/ ReceiveNothing \/ ReceiveAnswer

IceNext == Restart \/ Reanswer \/ CheckStep

IceSpec == IceInit /\ [][IceNext]_iceVars

\* peer_connection_loop is called over and over; nothing forces an answer.
IceFairSpec == IceSpec /\ WF_iceVars(CheckStep)

-----------------------------------------------------------------------------
IceTypeOK ==
  /\ pairs \in Seq([state : PairStates, conncheck : 0 .. ConncheckMax])
  /\ Len(pairs) <= MaxPairs
  /\ nominated \in 0 .. MaxPairs /\ selected \in 0 .. MaxPairs
  /\ at \in {"out", "select", "check", "recv"}
  /\ k \in 0 .. MaxPairs + 1
  /\ verdict \in {"idle", "none", "CONNECTED", "FAILED"}
  /\ answers \subseteq 1 .. MaxPairs
  /\ sent \in [1 .. MaxPairs -> Nat]
  /\ session \in 0 .. MaxSessions

\* The pairs are tried strictly in order: a pair is touched only when all
\* before it have failed, and the one being tried or used is the nominated
\* one, which is the pair agent_send and the consent checks use
\* (agent.c:507-530, 302-304).
TriedInOrder ==
  \A i \in Indices :
    /\ pairs[i].state # "FROZEN" => \A j \in 1 .. i - 1 : pairs[j].state = "FAILED"
    /\ pairs[i].state \in {"INPROGRESS", "SUCCEEDED"} => nominated = i

\* Binding requests sent in the passes with conncheck below m.
SentBelow(m) == (m + ConncheckPeriod - 1) \div ConncheckPeriod

\* No pair is given up before its full budget of binding requests went out
\* (ten with the shipped constants), and none gets more (agent.c:490, 516-521).
FullBudget ==
  \A i \in Indices :
    /\ pairs[i].state = "FAILED" => sent[i] = SentBelow(ConncheckMax)
    /\ sent[i] <= SentBelow(ConncheckMax)

\* ICE fails only when every pair had its budget.
FailedAfterAll ==
  verdict = "FAILED" => \A i \in Indices : sent[i] = SentBelow(ConncheckMax)

\* Where the loop thread stands: every pair before the one it looks at has
\* failed, and the pair it checks is the nominated one.
Position ==
  /\ at \in {"select", "check", "recv"} =>
       /\ verdict = "none"
       /\ k \in 1 .. Len(pairs) + 1
       /\ \A j \in Indices : j < k => pairs[j].state = "FAILED"
  /\ at = "check" => k \in Indices /\ pairs[k].state \in {"INPROGRESS", "SUCCEEDED"}
  /\ at = "recv" => k \in Indices /\ pairs[k].state = "INPROGRESS"
  /\ verdict = "FAILED" => \A i \in Indices : pairs[i].state = "FAILED"

\* How many requests a pair was sent, by its state and its counter.
NoneSentBeyond == \A i \in Len(pairs) + 1 .. MaxPairs : sent[i] = 0

Budget ==
  \A i \in Indices :
    /\ pairs[i].state = "FROZEN" => sent[i] = 0
    /\ pairs[i].state = "FAILED" => sent[i] = SentBelow(ConncheckMax)
    /\ pairs[i].state = "INPROGRESS" =>
         /\ pairs[i].conncheck < ConncheckMax
         /\ sent[i] = SentBelow(IF at = "check" THEN pairs[i].conncheck
                                                ELSE pairs[i].conncheck + 1)
    /\ pairs[i].state = "SUCCEEDED" => sent[i] <= SentBelow(ConncheckMax)

\* The agent's bookkeeping: order, position of the loop, and budget.
IceInv == IceTypeOK /\ TriedInOrder /\ Position /\ Budget /\ NoneSentBeyond

\* Every CHECKING phase comes to an end, whatever the network does; the one
\* exception is a pair that succeeded before, which is found again and never
\* checked (agent.c:483-486, 523-526).
NoneSucceeded == \A i \in Indices : pairs[i].state # "SUCCEEDED"
Settles == verdict = "none" /\ NoneSucceeded ~> verdict # "none"
================================================================================

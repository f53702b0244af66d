-------------------------------- MODULE HidMouse --------------------------------
(***************************************************************************)
(* The USB mouse (src/examples/hid-usb/main.c): core 1 joins the Wi-Fi,    *)
(* sets up WebRTC and turns data channel messages into queued commands;    *)
(* core 0 waits for the first one, starts USB and reports the others to    *)
(* the host.  A command is its number of arrival and whether sscanf can    *)
(* read it: which button it sets or how far it moves decides nothing here, *)
(* and neither do the keepalive and the LED.                               *)
(***************************************************************************)
EXTENDS Integers, Sequences

CONSTANTS
  QueueSize,       \* QUEUE_SIZE
  MaxCommands,     \* bound: how many commands arrive
  MaxBatch,        \* the most commands in one message
  WifiTimeout,     \* polls before wifi_init gives up
  DnsTimeout       \* polls before webrtc_init goes on without an answer

ASSUME HidAssumption ==
  {QueueSize, MaxCommands, MaxBatch, WifiTimeout, DnsTimeout} \subseteq Nat \ {0}

VARIABLES
  \* core 1
  at1,             \* where it is: boot, wifi, create, dns, signal, pass, adding, halted
  link, waited,    \* last_status; polls made in a wait of the set-up
  dnsDone,         \* g_dns_done
  gState,          \* g_state
  channel,         \* the data channel is open
  todo,            \* commands of a message onmessage has still to queue
  arrived,         \* how many commands came
  \* shared
  queue,           \* g_queue
  queued,          \* history: the commands that entered it
  \* core 0 and the host
  at0,             \* "wait" for the first command, or "usb"
  host,            \* "absent" (not mounted), "busy" (not ready) or "idle"
  reports          \* history: the commands reported to the host

setupVars == <<link, waited, dnsDone>>
usbVars == <<at0, host, reports>>
hidVars == <<at1, setupVars, gState, channel, todo, arrived, queue, queued, usbVars>>

Commands == [id : 1 .. MaxCommands, ok : BOOLEAN]
Statuses == {"down", "join", "noip", "up", "fail"}

\* The commands of s that sscanf can read, in order.
Usable(s) ==
  LET upTo[n \in 0 .. Len(s)] ==
        IF n = 0 THEN << >>
        ELSE IF s[n].ok THEN Append(upTo[n - 1], s[n]) ELSE upTo[n - 1]
  IN  upTo[Len(s)]

HidInit ==
  /\ at1 = "boot" /\ link = "down" /\ waited = 0 /\ dnsDone = FALSE
  /\ gState = "new" /\ channel = FALSE /\ todo = << >> /\ arrived = 0
  /\ queue = << >> /\ queued = << >>
  /\ at0 = "wait" /\ host = "absent" /\ reports = << >>

-----------------------------------------------------------------------------
\* cyw43_arch_init and cyw43_arch_wifi_connect_async: core 1 halts for ever
\* when one fails.
Start(ok) ==
  /\ at1 = "boot"
  /\ at1' = IF ok THEN "wifi" ELSE "halted"
  /\ UNCHANGED <<setupVars, gState, channel, todo, arrived, queue, queued, usbVars>>

\* One poll of wifi_init: the time is looked at before the link, and only a
\* link state that changed counts.  "fail" stands for FAIL, NONET, BADAUTH.
WifiPoll(status) ==
  /\ at1 = "wifi"
  /\ at1' = IF waited > WifiTimeout THEN "halted"
            ELSE IF status = link THEN "wifi"
            ELSE CASE status = "up" -> "create" [] status = "fail" -> "halted" [] OTHER -> "wifi"
  /\ waited' = IF at1' = "wifi" THEN waited + 1 ELSE 0
  /\ link' = status
  /\ UNCHANGED <<dnsDone, gState, channel, todo, arrived, queue, queued, usbVars>>

\* webrtc_init up to dns_gethostbyname, which answers at once, fails or has
\* its callback called later; only a connection that is not made halts.
Create(made, answer) ==
  /\ at1 = "create"
  /\ at1' = IF ~made THEN "halted" ELSE IF answer = "later" THEN "dns" ELSE "signal"
  /\ UNCHANGED <<setupVars, gState, channel, todo, arrived, queue, queued, usbVars>>

DnsCallback ==
  /\ at1 = "dns" /\ ~dnsDone
  /\ dnsDone' = TRUE
  /\ UNCHANGED <<at1, link, waited, gState, channel, todo, arrived, queue, queued, usbVars>>

DnsPoll ==
  /\ at1 = "dns"
  /\ IF dnsDone \/ waited >= DnsTimeout THEN at1' = "signal" /\ waited' = 0
     ELSE waited' = waited + 1 /\ UNCHANGED at1
  /\ UNCHANGED <<link, dnsDone, gState, channel, todo, arrived, queue, queued, usbVars>>

\* peer_signaling_connect brings the session to CHECKING or fails, which the
\* code does not look at.
Signal ==
  /\ at1 = "signal"
  /\ gState' \in {"new", "checking"}
  /\ at1' = "pass"
  /\ UNCHANGED <<setupVars, channel, todo, arrived, queue, queued, usbVars>>

-----------------------------------------------------------------------------
\* peer_connection_loop, seen through onconnectionstatechange and onopen.
\* FAILED is only reported: the reboot is commented out.
Follows(s) ==
  CASE s = "checking"  -> {"checking", "connected", "failed"}
    [] s = "connected" -> {"connected", "completed"}
    [] s = "completed" -> {"completed", "closed"}
    [] OTHER           -> {s}

PeerPass ==
  /\ at1 = "pass"
  /\ gState' \in Follows(gState)
  /\ channel' \in IF gState = "completed" THEN {channel, TRUE} ELSE {channel}
  /\ at1' = "pass"
  /\ UNCHANGED <<setupVars, todo, arrived, queue, queued, usbVars>>

\* A mouse message: "command" and "commands" are queued one after another,
\* while the other core takes them out.
Message(n, bad) ==
  /\ at1 = "pass" /\ gState = "completed" /\ channel
  /\ arrived + n <= MaxCommands
  /\ todo' = [i \in 1 .. n |-> [id |-> arrived + i, ok |-> i # bad]]
  /\ arrived' = arrived + n
  /\ at1' = "adding"
  /\ UNCHANGED <<setupVars, gState, channel, queue, queued, usbVars>>

\* queue_try_add: a command that finds the queue full is lost.
AddCommand ==
  /\ at1 = "adding" /\ todo # << >>
  /\ IF Len(queue) < QueueSize
     THEN queue' = Append(queue, Head(todo)) /\ queued' = Append(queued, Head(todo))
     ELSE UNCHANGED <<queue, queued>>
  /\ todo' = Tail(todo)
  /\ at1' = IF todo' = << >> THEN "pass" ELSE "adding"
  /\ UNCHANGED <<setupVars, gState, channel, arrived, usbVars>>

-----------------------------------------------------------------------------
\* main: the first command only says that the session is up.
WaitFirst ==
  /\ at0 = "wait" /\ queue # << >>
  /\ queue' = Tail(queue)
  /\ at0' = "usb"
  /\ UNCHANGED <<at1, setupVars, gState, channel, todo, arrived, queued, host, reports>>

\* tud_task: the host mounts the device, polls its endpoint, suspends or goes.
TudTask ==
  /\ at0 = "usb"
  /\ host' \in CASE host = "absent" -> {"idle"} [] host = "busy" -> {"idle", "absent"} [] OTHER -> {"absent", "busy"}
  /\ UNCHANGED <<at1, setupVars, gState, channel, todo, arrived, queue, queued, at0, reports>>

\* hid_task: a command leaves the queue only when a report can be sent.
HidTaskEager ==                             \* mutant: the command taken before the endpoint is asked
  /\ at0 = "usb" /\ host # "absent" /\ queue # << >>
  /\ queue' = Tail(queue)
  /\ IF Head(queue).ok /\ host = "idle" THEN reports' = Append(reports, Head(queue)) /\ host' = "busy"
     ELSE UNCHANGED <<reports, host>>
  /\ UNCHANGED <<at1, setupVars, gState, channel, todo, arrived, queued, at0>>

HidTask ==
  /\ at0 = "usb" /\ host = "idle" /\ queue # << >>
  /\ queue' = Tail(queue)
  /\ IF Head(queue).ok THEN reports' = Append(reports, Head(queue)) /\ host' = "busy"
     ELSE UNCHANGED <<reports, host>>
  /\ UNCHANGED <<at1, setupVars, gState, channel, todo, arrived, queued, at0>>

-----------------------------------------------------------------------------
SetUp ==
  \/ \E ok \in BOOLEAN : Start(ok)
  \/ \E status \in Statuses : WifiPoll(status)
  \/ \E made \in BOOLEAN, answer \in {"cached", "later", "error"} : Create(made, answer)
  \/ DnsPoll \/ Signal

NetworkCore ==
  \/ SetUp \/ PeerPass \/ AddCommand
  \/ \E n \in 1 .. MaxBatch, bad \in 0 .. MaxBatch : Message(n, bad)

UsbCore == WaitFirst \/ HidTask \/ TudTask

HidNext == NetworkCore \/ DnsCallback \/ UsbCore

HidSpec == HidInit /\ [][HidNext]_hidVars

-----------------------------------------------------------------------------
\* Once USB runs, which it does only behind an open data channel and never
\* while ICE or DTLS draw their peak current (README.md:48-69), every command
\* that entered the queue, but for the one that woke core 0, reaches the host
\* once and in order if it can be read, whatever the host does meanwhile: a
\* button release is not lost between the queue and the endpoint (hid_task
\* asks tud_hid_ready before it takes a command out).
UsbRelays ==
  at0 = "usb" =>
    /\ channel /\ gState \in {"completed", "closed"}
    /\ reports \o Usable(queue) = Usable(Tail(queued))
================================================================================

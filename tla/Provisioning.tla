---------------------------- MODULE Provisioning ----------------------------
(***************************************************************************)
(* Setting up the walkie-talkie (src/examples/ito-denwa): the phone's app  *)
(* (BluetoothProvisionManager.swift, ContentView.swift) writes the         *)
(* credentials over Bluetooth LE, the device (ble_provision.c, main.c)     *)
(* collects them, answers with status notifications, saves them to flash   *)
(* (credentials.c) and reboots into the network set-up (wifi.c).  Power    *)
(* may fail at any moment, the link may drop, writes may be lost.          *)
(* A credential is the number of the attempt in which the user typed it,   *)
(* 0 for none.                                                             *)
(***************************************************************************)
EXTENDS Integers, Sequences

CONSTANTS
  MaxAttempts,   \* bound: times the user presses Provision
  MaxRetries,    \* maxRetries
  MaxFailures,   \* bound: power failures
  MaxPackets     \* bound: writes and notifications under way

ASSUME ProvisioningAssumption ==
  {MaxAttempts, MaxRetries, MaxPackets} \subseteq Nat \ {0} /\ MaxFailures \in Nat

VARIABLES
  mode,          \* where the device is, from boot to its network or to a halt
  pending,       \* g_pending
  prov,          \* g_prov_state, g_prov_status, g_con_handle, g_status_cccd,
                 \* g_notify_pending
  flash,         \* the record in flash, and whether its checksum is right
  creds,         \* g_wifi_creds, what this boot loaded
  phone,         \* the app, see PhoneIdle
  down, up,      \* writes and notifications on the air
  accepted,      \* history: the credentials COMMIT was accepted for
  failures       \* power failures so far

deviceVars == <<mode, pending, prov, flash, creds, accepted, failures>>
provVars == <<deviceVars, phone, down, up>>

Fields == {"SSID", "PASS", "DEVID", "OPUS"}
Unset == [f \in Fields |-> 0]
Steps == <<"SSID", "PASS", "DEVID", "OPUS", "COMMIT">>

ProvStart == [state |-> "RUNNING", status |-> "IDLE", linked |-> FALSE,
              cccd |-> FALSE, notify |-> FALSE]

\* step: position in the write queue, 0 for an empty one; long: a field the
\* user typed too long; closing: didDisconnect has still to be called.
PhoneIdle == [state |-> "idle", attempt |-> 0, step |-> 0, long |-> "none",
              retries |-> 0, scan |-> FALSE, closing |-> FALSE]

ProvInit ==
  /\ mode = "boot" /\ pending = Unset /\ prov = ProvStart
  /\ flash = [whole |-> FALSE, creds |-> Unset] /\ creds = Unset
  /\ phone = PhoneIdle /\ down = << >> /\ up = << >>
  /\ accepted = {} /\ failures = 0

-----------------------------------------------------------------------------
(* The link                                                                *)

\* The disconnection as both ends see it: the device at once (packet_handler),
\* the app when didDisconnect is called.
Unlinked(p) == [p EXCEPT !.linked = FALSE, !.cccd = FALSE, !.notify = FALSE]
LinkGone(app) ==
  /\ phone' = [app EXCEPT !.closing = (@ \/ prov.linked)]
  /\ down' = << >> /\ up' = << >>

Drop(app) ==
  /\ prov' = Unlinked(prov)
  /\ LinkGone(app)
  /\ UNCHANGED <<mode, pending, flash, creds, accepted, failures>>

LinkLoss == prov.linked /\ Drop(phone)

\* Advertising: from the start of provisioning, and again after a disconnection
\* unless the credentials were committed.
Advertising == mode = "prov" /\ prov.state = "RUNNING" /\ ~prov.linked

Connect ==
  /\ phone.state = "connecting" /\ Advertising /\ ~phone.closing
  /\ prov' = [prov EXCEPT !.linked = TRUE]
  /\ phone' = [phone EXCEPT !.state = "discovering"]
  /\ UNCHANGED <<mode, pending, flash, creds, accepted, failures, down, up>>

-----------------------------------------------------------------------------
(* The app                                                                 *)

App(state) == phone.state = state /\ UNCHANGED deviceVars
Air == UNCHANGED <<down, up>>

\* startScan begins with reset.
Scanning == [PhoneIdle EXCEPT !.state = "scanning", !.scan = TRUE,
                              !.attempt = phone.attempt, !.closing = phone.closing]

StartScan == App("idle") /\ phone' = Scanning /\ Air

Discover ==
  /\ phone.scan /\ Advertising /\ UNCHANGED deviceVars
  /\ phone' = [phone EXCEPT !.state = "connecting", !.scan = FALSE]
  /\ Air

ConnectFails == App("connecting") /\ phone' = [phone EXCEPT !.state = "failed"] /\ Air

\* didDiscoverCharacteristics subscribes to the status.
Discovered ==
  /\ App("discovering") /\ prov.linked /\ Len(down) < MaxPackets
  /\ phone' = [phone EXCEPT !.state = "ready"]
  /\ down' = Append(down, [char |-> "CCCD", attempt |-> 0, long |-> FALSE])
  /\ UNCHANGED up

\* A write without response may be lost before it is sent (canSend).
WriteOnce(app) ==
  LET char == Steps[app.step]
  IN \/ /\ prov.linked /\ Len(down) < MaxPackets
        /\ down' = Append(down, [char |-> char, attempt |-> app.attempt,
                                 long |-> app.long = char])
     \/ UNCHANGED down

Provision ==
  /\ App("ready") /\ phone.attempt < MaxAttempts
  /\ \E long \in {"none", "SSID", "PASS", "DEVID"} :
       phone' = [phone EXCEPT !.state = "provisioning", !.attempt = @ + 1,
                              !.step = 1, !.retries = 0, !.long = long]
  /\ WriteOnce(phone')
  /\ UNCHANGED up

RetriedUncounted(app) == app     \* mutant: retries are not counted
Retried(app) == [app EXCEPT !.retries = @ + 1]

\* handleTimeout: the timer runs as long as the queue is not empty, also after
\* the link is lost.
TimeOut ==
  /\ phone.step > 0 /\ UNCHANGED <<deviceVars, up>>
  /\ IF phone.retries + 1 >= MaxRetries
     THEN /\ phone' = [phone EXCEPT !.state = "failed", !.step = 0]
          /\ UNCHANGED down
     ELSE /\ phone' = Retried(phone)
          /\ WriteOnce(phone')

ExpectedAny ==                   \* mutant: SAVED and late statuses are taken at any step
  IF Steps[phone.step] = "COMMIT" THEN "SAVED" ELSE Head(up)
Expected == IF Steps[phone.step] = "COMMIT" THEN "SAVED" ELSE Steps[phone.step]

\* handleNotify.
HearStatus ==
  /\ up # << >> /\ UNCHANGED deviceVars
  /\ up' = Tail(up)
  /\ CASE phone.step = 0 -> UNCHANGED <<phone, down>>
       [] phone.step > 0 /\ Head(up) = "ERR" ->
            /\ phone' = [phone EXCEPT !.state = "failed", !.step = 0]
            /\ UNCHANGED down
       [] phone.step > 0 /\ Head(up) = Expected ->
            IF Head(up) = "SAVED"
            THEN phone' = [phone EXCEPT !.state = "saved", !.step = 0] /\ UNCHANGED down
            ELSE /\ phone' = [phone EXCEPT !.step = @ + 1, !.retries = 0]
                 /\ WriteOnce(phone')
       [] OTHER -> UNCHANGED <<phone, down>>

\* Retry is offered after a failure, Start Over after success.
Retry == phone.state = "failed" /\ Drop(Scanning)
StartOver ==
  phone.state = "saved" /\ Drop([Scanning EXCEPT !.state = "idle", !.scan = FALSE])

DidDisconnect ==
  /\ phone.closing /\ UNCHANGED deviceVars
  /\ phone' = [phone EXCEPT !.closing = FALSE,
                            !.state = IF @ = "saved" THEN @ ELSE "idle"]
  /\ Air

-----------------------------------------------------------------------------
(* The device: callbacks of BTstack, which run until it is powered off     *)

Radio == mode \in {"prov", "finishing"} /\ prov.linked

\* notify_status registers for "can send now" unless it has done so already.
Notified(p, status) ==
  [p EXCEPT !.status = status, !.notify = (@ \/ (p.linked /\ p.cccd))]
Notify(status) == prov' = Notified(prov, status)

Writing == Radio /\ down # << >> /\ down' = Tail(down)
DeviceKeeps == UNCHANGED <<mode, flash, creds, failures, phone, up>>

WriteField ==
  /\ Writing /\ DeviceKeeps /\ Head(down).char \in Fields
  /\ IF Head(down).long THEN UNCHANGED <<pending, prov>>
     ELSE /\ pending' = [pending EXCEPT ![Head(down).char] = Head(down).attempt]
          /\ Notify(Head(down).char)
  /\ UNCHANGED accepted

\* A commit needs an SSID and a device ID, whoever wrote them.
Committable == pending["SSID"] # 0 /\ pending["DEVID"] # 0

WriteCommit ==
  /\ Writing /\ DeviceKeeps /\ Head(down).char = "COMMIT"
  /\ IF Committable
     THEN /\ prov' = [Notified(prov, "SAVED") EXCEPT !.state = "COMMITTED"]
          /\ accepted' = accepted \cup {pending}
     ELSE Notify("ERR") /\ UNCHANGED accepted
  /\ UNCHANGED pending

WriteCccd ==
  /\ Writing /\ DeviceKeeps /\ Head(down).char = "CCCD"
  /\ prov' = [prov EXCEPT !.cccd = TRUE]
  /\ UNCHANGED <<pending, accepted>>

\* status_notify_can_send_now sends the latest status.
SendStatus ==
  /\ Radio /\ prov.notify /\ Len(up) < MaxPackets
  /\ prov' = [prov EXCEPT !.notify = FALSE]
  /\ up' = Append(up, prov.status)
  /\ UNCHANGED <<mode, pending, flash, creds, accepted, failures, phone, down>>

-----------------------------------------------------------------------------
(* The device: main                                                        *)

App0 == UNCHANGED <<phone, down, up>>

\* creds_load.
ValidBySsid == flash.creds["SSID"] # 0      \* mutant: the checksum not looked at
Valid == flash.whole

\* Provisioning if the button is held or no valid credentials are in flash.
Boot ==
  /\ mode = "boot" /\ App0
  /\ \E held \in BOOLEAN :
       IF held \/ ~Valid THEN mode' = "prov" /\ UNCHANGED creds
       ELSE mode' = "wifi" /\ creds' = flash.creds
  /\ pending' = Unset /\ prov' = ProvStart
  /\ UNCHANGED <<flash, accepted, failures>>

\* The loop sees the commit; 200 ms later Bluetooth is powered off.
SeeCommit ==
  /\ mode = "prov" /\ prov.state = "COMMITTED" /\ App0
  /\ mode' = "finishing"
  /\ UNCHANGED <<pending, prov, flash, creds, accepted, failures>>

PowerOffRadio ==
  /\ mode = "finishing"
  /\ mode' = "saving"
  /\ prov' = Unlinked(prov)
  /\ LinkGone(phone)
  /\ UNCHANGED <<pending, flash, creds, accepted, failures>>

\* creds_save: the sector is erased, then the page programmed.
EraseFlash ==
  /\ mode = "saving" /\ App0
  /\ \/ mode' = "programming" /\ flash' = [whole |-> FALSE, creds |-> Unset]
     \/ mode' = "halted" /\ UNCHANGED flash
  /\ UNCHANGED <<pending, prov, creds, accepted, failures>>

Program(record) == flash' = [whole |-> TRUE, creds |-> record]

ProgramFlash ==
  /\ mode = "programming" /\ App0
  /\ Program(pending)
  /\ mode' = "boot" /\ creds' = Unset
  /\ UNCHANGED <<pending, prov, accepted, failures>>

\* Half an erasure or half a record stays behind; its checksum is wrong.
Torn == [whole |-> FALSE, creds |-> [pending EXCEPT !["DEVID"] = 0]]

PowerFails ==
  /\ failures < MaxFailures /\ mode # "boot"
  /\ failures' = failures + 1
  /\ mode' = "boot" /\ creds' = Unset
  /\ flash' \in IF mode \in {"saving", "programming"} THEN {flash, Torn} ELSE {flash}
  /\ prov' = Unlinked(prov)
  /\ LinkGone(phone)
  /\ UNCHANGED <<pending, accepted>>

\* network_init on core 1: wifi_init and dns_resolve_blocking both give up
\* after a time, and core 1 halts.
Network ==
  /\ App0 /\ UNCHANGED <<pending, prov, flash, creds, accepted, failures>>
  /\ \/ mode = "wifi" /\ mode' \in {"dns", "halted"}
     \/ mode = "dns"  /\ mode' \in {"running", "halted"}

ProvNext ==
  \/ LinkLoss \/ Connect \/ StartScan \/ Discover \/ ConnectFails \/ Discovered
  \/ Provision \/ TimeOut \/ HearStatus \/ Retry \/ StartOver \/ DidDisconnect
  \/ WriteField \/ WriteCommit \/ WriteCccd \/ SendStatus
  \/ Boot \/ SeeCommit \/ PowerOffRadio \/ EraseFlash \/ ProgramFlash
  \/ PowerFails \/ Network

\* Timers of the phone expire, the device's program and its radio go on.
ProvFairness ==
  /\ WF_provVars(TimeOut) /\ WF_provVars(HearStatus)
  /\ WF_provVars(SeeCommit) /\ WF_provVars(PowerOffRadio)
  /\ WF_provVars(EraseFlash) /\ WF_provVars(ProgramFlash)

ProvSpec == ProvInit /\ [][ProvNext]_provVars /\ ProvFairness

-----------------------------------------------------------------------------
\* When the app says that the device is set up, COMMIT was accepted for what
\* this attempt typed, in every field, whatever an earlier attempt had left in
\* g_pending and however often a write was repeated.
ToldSavedIsCommitted ==
  phone.state = "saved" => [f \in Fields |-> phone.attempt] \in accepted

\* The device joins a network only with credentials that one COMMIT accepted as
\* they are: no mixture after a power failure, none changed after the COMMIT.
LoadedWasAccepted == mode \in {"wifi", "dns", "running"} => creds \in accepted

\* An attempt ends in success, in failure or with the link, however many writes
\* and notifications are lost.
AttemptEnds == (phone.state = "provisioning") ~> (phone.state # "provisioning")

\* The app's "Saved to Flash" (ContentView.swift:55) stands for a record that
\* is in flash.
ToldSavedIsSaved ==
  phone.state = "saved" => flash = [whole |-> TRUE, creds |-> [f \in Fields |-> phone.attempt]]
================================================================================

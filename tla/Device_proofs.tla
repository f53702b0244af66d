---------------------------- MODULE Device_proofs ----------------------------
(***************************************************************************)
(* The walkie-talkie (src/examples/ito-denwa), for every value of the      *)
(* constants: what the app reports and the device loads is what one commit *)
(* accepted, and the ring between the cores is a queue of whole messages   *)
(* on which a checked send never waits; the USB mouse (hid-usb) reports    *)
(* every command it queued; and what the forward pump ships of an audio    *)
(* reply are its packets, whole and in order.                              *)
(***************************************************************************)
EXTENDS Provisioning, IcRing, HidMouse, HttpBody, SequenceTheorems, ModularLemmas, TLAPS

(* Provisioning over Bluetooth LE (Provisioning)                             *)

\* What can be written, notified and remembered.
Writes == [char : {"CCCD", "COMMIT"} \cup Fields, attempt : Nat, long : BOOLEAN]
DeviceStatuses == {"IDLE", "ERR", "SAVED"} \cup Fields
Records == [Fields -> Nat]
Places == 0 .. 5
DeviceRecords ==
  [state : {"RUNNING", "COMMITTED"}, status : DeviceStatuses,
   linked : BOOLEAN, cccd : BOOLEAN, notify : BOOLEAN]
PhoneRecords ==
  [state : {"idle", "scanning", "connecting", "discovering", "ready", "provisioning",
            "saved", "failed"},
   attempt : Nat, step : Places, long : {"none", "SSID", "PASS", "DEVID"},
   retries : Int, scan : BOOLEAN, closing : BOOLEAN]
Wholly(attempt) == [f \in Fields |-> attempt]

\* The values the variables take.
ProvTypeOK ==
  /\ mode \in {"boot", "prov", "finishing", "saving", "programming", "wifi", "dns",
               "running", "halted"}
  /\ pending \in Records /\ creds \in Records /\ accepted \subseteq Records
  /\ flash \in [whole : BOOLEAN, creds : Records]
  /\ prov \in DeviceRecords
  /\ phone \in PhoneRecords
  /\ down \in Seq(Writes) /\ up \in Seq(DeviceStatuses)

\* Without a link nothing is on the air, and a link is there only while the
\* device provisions; the app has then heard of the end of the one before.
LinkOK ==
  /\ ~prov.linked => down = << >> /\ up = << >> /\ ~prov.notify
  /\ prov.linked =>
       /\ mode \in {"prov", "finishing"} /\ ~phone.closing
       /\ phone.state \in {"discovering", "ready", "provisioning", "saved", "failed"}
  /\ mode \in {"finishing", "saving", "programming"} => prov.state = "COMMITTED"

\* One link carries one attempt: before it, only the subscription.
NotYet == prov.linked /\ phone.state \in {"discovering", "ready"}
Fresh ==
  /\ NotYet =>
       /\ up = << >> /\ ~prov.notify
       /\ \A n \in DOMAIN down : down[n].char = "CCCD"
       /\ prov.state = "RUNNING"
  /\ phone.state \in {"connecting", "discovering", "ready"} => phone.step = 0 /\ ~phone.scan
  /\ phone.scan => phone.step = 0

\* The attempt a link carries is the app's latest, in what is written and in
\* what was.
OneAttempt ==
  /\ \A n \in DOMAIN down : down[n].char # "CCCD" => down[n].attempt = phone.attempt
  /\ \A n \in DOMAIN up : up[n] \in Fields => pending[up[n]] = phone.attempt
  /\ prov.notify /\ prov.status \in Fields => pending[prov.status] = phone.attempt
  /\ prov.linked => \A n \in 1 .. phone.step - 1 : pending[Steps[n]] = phone.attempt

\* COMMIT is written last, when the device has all of the attempt.
CommitLast ==
  \A n \in DOMAIN down : down[n].char = "COMMIT" =>
    /\ pending = Wholly(phone.attempt)
    /\ phone.step \in {0, 5}
    /\ \A m \in DOMAIN down : m > n => down[m].char = "COMMIT"

\* Once a commit is accepted nothing is written any more but COMMIT, its
\* credentials stay as they are, and SAVED is announced for the attempt that the
\* app then waits for.
Committed ==
  /\ prov.state = "COMMITTED" =>
       /\ pending \in accepted
       /\ phone.step \in {0, 5} \/ ~prov.linked
       /\ \A n \in DOMAIN down : down[n].char = "COMMIT"
  /\ prov.notify /\ prov.status = "SAVED" => Wholly(phone.attempt) \in accepted
  /\ \A n \in DOMAIN up : up[n] = "SAVED" => Wholly(phone.attempt) \in accepted

\* A whole record in flash is one that was accepted, and so is what was loaded.
InFlash ==
  /\ flash.whole => flash.creds \in accepted
  /\ LoadedWasAccepted

ProvInv ==
  ProvTypeOK /\ LinkOK /\ Fresh /\ OneAttempt /\ CommitLast /\ Committed
    /\ ToldSavedIsCommitted /\ InFlash

-----------------------------------------------------------------------------
\* An element put behind a sequence.
LEMMA Appended ==
  ASSUME NEW S, NEW s \in Seq(S), NEW e \in S
  PROVE  /\ Append(s, e) \in Seq(S) /\ Append(s, e) # << >>
         /\ \A n \in DOMAIN Append(s, e) :
              \/ n \in DOMAIN s /\ Append(s, e)[n] = s[n]
              \/ n \notin DOMAIN s /\ Append(s, e)[n] = e /\ \A m \in DOMAIN s : m < n
         /\ \A n \in DOMAIN Append(s, e) : n \in Nat
         /\ DOMAIN s \subseteq DOMAIN Append(s, e)
BY AppendProperties, LenProperties

\* The front taken off a sequence.
LEMMA Taken ==
  ASSUME NEW S, NEW s \in Seq(S), s # << >>
  PROVE  /\ Tail(s) \in Seq(S)
         /\ 1 \in DOMAIN s /\ Head(s) = s[1] /\ Head(s) \in S
         /\ \A n \in DOMAIN Tail(s) : n + 1 \in DOMAIN s /\ Tail(s)[n] = s[n + 1] /\ n \in Nat
BY HeadTailProperties, LenProperties

\* Places in the write queue are numbers.
LEMMA PlacesAre == Places = 0 .. 5 /\ 0 \in Places /\ 1 \in Places
BY DEF Places

\* The app takes the notifications in order.
LEMMA Heard ==
  ASSUME up \in Seq(DeviceStatuses), up' = up \/ (up # << >> /\ up' = Tail(up))
  PROVE  /\ \A n \in DOMAIN up' : \E m \in DOMAIN up : up'[n] = up[m]
         /\ up = << >> => up' = << >>
         /\ up' \in Seq(DeviceStatuses)
<1>1. CASE up' = up
  BY <1>1
<1>2. CASE up # << >> /\ up' = Tail(up)
  BY <1>2, Taken
<1>3. QED
  BY <1>1, <1>2

\* At the first power-up no link exists and nothing is stored.
LEMMA ProvInitInvariant == ProvInit => ProvInv
<1> SUFFICES ASSUME ProvInit PROVE ProvInv
  OBVIOUS
<1>1. ProvTypeOK
  <2>1. phone \in PhoneRecords /\ prov \in DeviceRecords
    BY PlacesAre DEF ProvInit, PhoneRecords, DeviceRecords, ProvStart, PhoneIdle, DeviceStatuses
  <2>2. pending \in Records /\ creds \in Records /\ flash \in [whole : BOOLEAN, creds : Records]
    BY DEF ProvInit, Records, Unset
  <2>3. QED
    BY <2>1, <2>2, EmptySeq DEF ProvInit, ProvTypeOK
<1>2. LinkOK /\ Fresh /\ OneAttempt /\ CommitLast /\ Committed
  BY DEF ProvInit, LinkOK, Fresh, OneAttempt, CommitLast, Committed, NotYet, ProvStart, PhoneIdle
<1>3. QED
  BY <1>1, <1>2 DEF ProvInv, ProvInit, ToldSavedIsCommitted, InFlash, LoadedWasAccepted, PhoneIdle

\* startScan forgets everything but the number of the attempt.
LEMMA ScanningIs ==
  ASSUME phone \in PhoneRecords
  PROVE  /\ Scanning \in PhoneRecords
         /\ Scanning.attempt = phone.attempt /\ Scanning.step = 0
         /\ Scanning.state = "scanning"
<1>1. PhoneIdle \in PhoneRecords
  BY PlacesAre DEF PhoneIdle, PhoneRecords
<1>2. phone.attempt \in Nat /\ phone.closing \in BOOLEAN
  BY DEF PhoneRecords
<1>3. [PhoneIdle EXCEPT !.state = "scanning", !.scan = TRUE, !.attempt = phone.attempt]
        \in PhoneRecords
  BY <1>1, <1>2 DEF PhoneRecords
<1>4. Scanning \in PhoneRecords
  BY <1>1, <1>2, <1>3 DEF PhoneRecords, Scanning
<1>5. QED
  BY <1>1, <1>4 DEF Scanning, PhoneIdle

\* The steps of the link, of the phone's user and of the device's main program.
LEMMA LinkGoneKeeps ==
  ASSUME ProvInv, NEW app, LinkGone(app),
         prov' = Unlinked(prov), UNCHANGED <<pending, accepted>>,
         app \in {phone, Scanning, [Scanning EXCEPT !.state = "idle", !.scan = FALSE]},
         mode' \in {"finishing", "saving", "programming"} => prov.state = "COMMITTED"
  PROVE  /\ prov' \in DeviceRecords
         /\ phone' \in PhoneRecords
         /\ down' \in Seq(Writes) /\ up' \in Seq(DeviceStatuses)
         /\ LinkOK' /\ Fresh' /\ OneAttempt' /\ CommitLast' /\ Committed'
         /\ ToldSavedIsCommitted'
<1> USE DEF ProvInv
<1>1. /\ ~prov'.linked /\ ~prov'.notify /\ ~prov'.cccd
      /\ prov'.state = prov.state /\ prov'.status = prov.status
      /\ down' = << >> /\ up' = << >>
  BY DEF ProvTypeOK, DeviceRecords, PhoneRecords, Unlinked, LinkGone
<1>2. /\ phone'.attempt = phone.attempt
      /\ phone'.state = "saved" => phone.state = "saved"
      /\ phone'.state \in {"connecting", "discovering", "ready"} => phone'.step = 0 /\ ~phone'.scan
      /\ phone'.scan => phone'.step = 0
  BY DEF ProvTypeOK, DeviceRecords, PhoneRecords, LinkGone, Scanning, PhoneIdle, Fresh
<1>3. /\ prov' \in DeviceRecords /\ phone' \in PhoneRecords
      /\ down' \in Seq(Writes) /\ up' \in Seq(DeviceStatuses)
  <2>1. prov \in DeviceRecords /\ phone \in PhoneRecords /\ prov.linked \in BOOLEAN
    BY DEF ProvTypeOK, DeviceRecords, PhoneRecords
  <2>2. prov' \in DeviceRecords
    BY <2>1 DEF Unlinked, DeviceRecords
  <2>3. app \in PhoneRecords
    <3>1. Scanning \in PhoneRecords
      BY <2>1, ScanningIs
    <3>2. [Scanning EXCEPT !.state = "idle", !.scan = FALSE] \in PhoneRecords
      BY <3>1 DEF PhoneRecords
    <3>3. QED
      BY <2>1, <3>1, <3>2
  <2>4. phone' \in PhoneRecords
    BY <2>1, <2>3 DEF LinkGone, PhoneRecords
  <2>5. QED
    BY <1>1, <2>2, <2>4, EmptySeq
<1>4. LinkOK' /\ Fresh' /\ OneAttempt' /\ CommitLast'
  BY <1>1, <1>2 DEF LinkOK, Fresh, OneAttempt, CommitLast, NotYet
<1>5. Committed' /\ ToldSavedIsCommitted'
  BY <1>1, <1>2 DEF Committed, ToldSavedIsCommitted
<1>6. QED
  BY <1>3, <1>4, <1>5

\* Steps of the app that write nothing: a status that stops the queue, the timer
\* giving up, scanning, the connection that fails, the end of the link being told.
LEMMA AppOnly ==
  ASSUME ProvInv, UNCHANGED <<deviceVars, down>>,
         up' = up \/ (up # << >> /\ up' = Tail(up)),
         phone' \in PhoneRecords, phone'.attempt = phone.attempt,
         phone'.step \in {0, phone.step},
         phone'.state = "saved" =>
           phone.state = "saved" \/ Wholly(phone.attempt) \in accepted,
         phone'.state \in {"connecting", "discovering", "ready"} => phone'.step = 0 /\ ~phone'.scan,
         phone'.scan => phone'.step = 0,
         prov.linked => /\ ~phone'.closing
                        /\ phone'.state \in {phone.state, "failed", "saved"}
  PROVE  ProvInv'
<1> USE DEF ProvInv
<1>1. /\ UNCHANGED <<mode, pending, prov, flash, creds, accepted, down>>
      /\ \A n \in DOMAIN up' : \E m \in DOMAIN up : up'[n] = up[m]
      /\ up = << >> => up' = << >>
      /\ up' \in Seq(DeviceStatuses)
  BY Heard DEF deviceVars, ProvTypeOK
<1>2. ProvTypeOK' /\ LinkOK' /\ InFlash'
  BY <1>1 DEF ProvTypeOK, LinkOK, InFlash, LoadedWasAccepted
<1>3. Fresh'
  BY <1>1 DEF Fresh, NotYet
<1>4. OneAttempt'
  <2>1. phone.step \in Nat /\ phone'.step \in Nat
    BY PlacesAre DEF ProvTypeOK, PhoneRecords
  <2>2. prov.linked => \A n \in 1 .. phone'.step - 1 : pending[Steps[n]] = phone.attempt
    BY <2>1 DEF OneAttempt
  <2>3. QED
    BY <1>1, <2>2 DEF OneAttempt
<1>5. CommitLast' /\ Committed' /\ ToldSavedIsCommitted'
  BY <1>1 DEF CommitLast, Committed, ToldSavedIsCommitted, Wholly
<1>6. QED
  BY <1>2, <1>3, <1>4, <1>5

\* Steps of the app that write the characteristic at their step of the queue, or
\* lose the write: the first of an attempt, a retry, the next after a status
\* (BluetoothProvisionManager.swift).
LEMMA AppWrites ==
  ASSUME ProvInv, UNCHANGED deviceVars,
         up' = up \/ (up # << >> /\ up' = Tail(up)),
         phone' \in PhoneRecords, phone'.step \in 1 .. 5, WriteOnce(phone'),
         phone'.state = "saved" => phone.state = "saved" /\ phone'.attempt = phone.attempt,
         phone'.state \notin {"connecting", "discovering", "ready"}, ~phone'.scan,
         prov.linked =>
           /\ ~phone'.closing /\ phone'.state \in {"provisioning", "saved", "failed"}
           /\ \/ NotYet /\ phone'.step = 1
              \/ /\ phone'.attempt = phone.attempt
                 /\ phone.step > 0 /\ phone.step <= phone'.step
                 /\ \A n \in 1 .. phone'.step - 1 : pending[Steps[n]] = phone.attempt
  PROVE  ProvInv'
<1> USE DEF ProvInv
<1> DEFINE w == [char |-> Steps[phone'.step], attempt |-> phone'.attempt,
                 long |-> phone'.long = Steps[phone'.step]]
<1>1. /\ UNCHANGED <<mode, pending, prov, flash, creds, accepted>>
      /\ \A n \in DOMAIN up' : \E m \in DOMAIN up : up'[n] = up[m]
      /\ up = << >> => up' = << >>
      /\ up' \in Seq(DeviceStatuses)
      /\ down \in Seq(Writes) /\ pending \in Records
      /\ phone.step \in 0 .. 5 /\ phone'.step \in 1 .. 5
  <2>1. phone.step \in 0 .. 5 /\ up \in Seq(DeviceStatuses)
    BY PlacesAre DEF ProvTypeOK, PhoneRecords
  <2>2. QED
    BY <2>1, Heard DEF deviceVars, ProvTypeOK
<1>2. /\ w \in Writes /\ w.char = Steps[phone'.step] /\ w.char # "CCCD"
      /\ w.char = "COMMIT" <=> phone'.step = 5
  <2>1. Steps[phone'.step] \in {"COMMIT"} \cup Fields /\ phone'.attempt \in Nat
    BY <1>1 DEF Steps, Fields, PhoneRecords
  <2>2. Steps[phone'.step] = "COMMIT" <=> phone'.step = 5
    BY <1>1 DEF Steps
  <2>3. QED
    BY <2>1, <2>2 DEF Writes, Fields
<1>3. down' = down \/ (prov.linked /\ down' = Append(down, w))
  BY <1>1 DEF WriteOnce
<1> HIDE DEF w
<1>4. /\ down' \in Seq(Writes)
      /\ \A n \in DOMAIN down' :
           \/ n \in DOMAIN down /\ down'[n] = down[n]
           \/ /\ prov.linked /\ n \notin DOMAIN down /\ down'[n] = w
              /\ \A m \in DOMAIN down : m < n
      /\ \A n \in DOMAIN down' : n \in Nat
  <2>1. CASE down' = down
    BY <1>1, <2>1, LenProperties
  <2>2. CASE prov.linked /\ down' = Append(down, w)
    BY <1>1, <1>2, <2>2, Appended
  <2>3. QED
    BY <1>3, <2>1, <2>2
<1>5. prov.linked =>
        /\ \A n \in 1 .. phone'.step - 1 : pending[Steps[n]] = phone'.attempt
        /\ w.char = "COMMIT" => pending = Wholly(phone'.attempt)
  <2>1. ASSUME prov.linked
        PROVE  \A n \in 1 .. phone'.step - 1 : pending[Steps[n]] = phone'.attempt
    BY <2>1
  <2>2. ASSUME prov.linked, w.char = "COMMIT"
        PROVE  pending = Wholly(phone'.attempt)
    <3>1. \A n \in 1 .. 4 : pending[Steps[n]] = phone'.attempt
      BY <1>2, <2>1, <2>2
    <3>2. Steps[1] = "SSID" /\ Steps[2] = "PASS" /\ Steps[3] = "DEVID" /\ Steps[4] = "OPUS"
      BY DEF Steps
    <3>3. \A f \in Fields : pending[f] = phone'.attempt
      BY <3>1, <3>2 DEF Fields
    <3>4. QED
      BY <1>1, <3>3 DEF Records, Wholly
  <2>3. QED
    BY <2>1, <2>2
<1>6. w.attempt = phone'.attempt
  BY DEF w
<1>7. ProvTypeOK' /\ LinkOK' /\ InFlash' /\ ToldSavedIsCommitted'
  BY <1>1, <1>3, <1>4
     DEF ProvTypeOK, LinkOK, InFlash, LoadedWasAccepted, ToldSavedIsCommitted
<1>8. Fresh'
  BY <1>1 DEF Fresh, NotYet
<1>9. CASE ~prov.linked
  <2>1. /\ down' = << >> /\ up' = << >> /\ ~prov'.notify /\ ~prov'.linked
    BY <1>1, <1>3, <1>9 DEF LinkOK
  <2>2. OneAttempt' /\ CommitLast'
    BY <2>1 DEF OneAttempt, CommitLast
  <2>3. Committed'
    BY <1>1, <2>1 DEF Committed
  <2>4. QED
    BY <1>7, <1>8, <2>2, <2>3
<1>10. CASE prov.linked /\ NotYet /\ phone'.step = 1
  <2>1. /\ up' = << >> /\ ~prov'.notify /\ prov'.state = "RUNNING"
        /\ \A n \in DOMAIN down : down[n].char = "CCCD"
    BY <1>1, <1>10 DEF Fresh
  <2>2. w.char # "COMMIT"
    BY <1>2, <1>10
  <2>3. OneAttempt'
    BY <1>1, <1>4, <1>5, <1>6, <2>1 DEF OneAttempt
  <2>4. CommitLast' /\ Committed'
    BY <1>4, <2>1, <2>2 DEF CommitLast, Committed
  <2>5. QED
    BY <1>7, <1>8, <2>3, <2>4
<1>11. CASE /\ prov.linked /\ phone'.attempt = phone.attempt
            /\ phone.step > 0 /\ phone.step <= phone'.step
  <2>1. OneAttempt'
    <3>1. \A n \in DOMAIN down' : down'[n].char # "CCCD" => down'[n].attempt = phone'.attempt
      <4> SUFFICES ASSUME NEW n \in DOMAIN down', down'[n].char # "CCCD"
                   PROVE  down'[n].attempt = phone'.attempt
        OBVIOUS
      <4>1. CASE n \in DOMAIN down /\ down'[n] = down[n]
        BY <1>11, <4>1 DEF OneAttempt
      <4>2. CASE down'[n] = w
        BY <1>6, <4>2
      <4>3. QED
        BY <1>4, <4>1, <4>2
    <3>2. /\ \A n \in DOMAIN up' : up'[n] \in Fields => pending'[up'[n]] = phone'.attempt
          /\ prov'.notify /\ prov'.status \in Fields => pending'[prov'.status] = phone'.attempt
      BY <1>1, <1>5, <1>6, <1>11 DEF OneAttempt
    <3>3. prov'.linked => \A n \in 1 .. phone'.step - 1 : pending'[Steps[n]] = phone'.attempt
      BY <1>1, <1>4, <1>5, <1>6, <1>11 DEF OneAttempt
    <3>4. QED
      BY <3>1, <3>2, <3>3 DEF OneAttempt
  <2>2. CommitLast'
    <3> SUFFICES ASSUME NEW n \in DOMAIN down', down'[n].char = "COMMIT"
                 PROVE  /\ pending = Wholly(phone'.attempt) /\ phone'.step = 5
                        /\ \A m \in DOMAIN down' : m > n => down'[m].char = "COMMIT"
      BY <1>1 DEF CommitLast, Wholly
    <3>1. pending = Wholly(phone'.attempt) /\ phone'.step = 5
      BY <1>1, <1>2, <1>4, <1>5, <1>11 DEF CommitLast
    <3>2. ASSUME NEW m \in DOMAIN down', m > n PROVE down'[m].char = "COMMIT"
      BY <1>2, <1>4, <3>1, <3>2 DEF CommitLast
    <3>3. QED
      BY <3>1, <3>2
  <2>3. Committed'
    <3>1. prov.state = "COMMITTED" => phone'.step = 5
      BY <1>1, <1>11 DEF Committed
    <3>2. prov.state = "COMMITTED" => \A n \in DOMAIN down' : down'[n].char = "COMMIT"
      BY <1>2, <1>4, <3>1 DEF Committed
    <3>3. QED
      BY <1>1, <1>11, <3>1, <3>2 DEF Committed, Wholly
  <2>4. QED
    BY <1>7, <1>8, <2>1, <2>2, <2>3
<1>12. QED
  BY <1>9, <1>10, <1>11

\* Every step of the app keeps the invariant.
LEMMA AppStep ==
  ASSUME ProvInv,
         \/ StartScan \/ Discover \/ ConnectFails \/ Discovered \/ Provision
         \/ TimeOut \/ HearStatus \/ DidDisconnect
  PROVE  ProvInv'
<1> USE DEF ProvInv
<1>0. /\ phone \in PhoneRecords /\ phone.step \in Places /\ phone.step \in 0 .. 5
      /\ 0 \in Places /\ 1 \in Places /\ Places = 0 .. 5 /\ phone.attempt \in Nat
      /\ phone.closing \in BOOLEAN /\ prov \in DeviceRecords
      /\ up \in Seq(DeviceStatuses) /\ down \in Seq(Writes)
  BY PlacesAre DEF ProvTypeOK, PhoneRecords
<1>1. CASE StartScan
  <2>1. phone' \in PhoneRecords /\ phone'.attempt = phone.attempt /\ phone'.step = 0
        /\ phone'.state = "scanning"
    BY <1>0, <1>1, ScanningIs DEF StartScan
  <2>2. ~prov.linked
    BY <1>1 DEF StartScan, App, LinkOK
  <2>3. QED
    BY <1>1, <2>1, <2>2, AppOnly DEF StartScan, App, Air
<1>2. CASE Discover
  <2>1. /\ phone' \in PhoneRecords /\ phone'.attempt = phone.attempt
        /\ phone'.step = phone.step /\ phone'.state = "connecting" /\ ~phone'.scan
    BY <1>0, <1>2 DEF Discover, PhoneRecords
  <2>2. ~prov.linked /\ phone.step = 0
    BY <1>2 DEF Discover, Advertising, Fresh
  <2>3. QED
    BY <1>2, <2>1, <2>2, AppOnly DEF Discover, Air
<1>3. CASE ConnectFails
  <2>1. /\ phone' \in PhoneRecords /\ phone'.attempt = phone.attempt
        /\ phone'.step = phone.step /\ phone'.state = "failed"
        /\ phone'.scan = phone.scan /\ phone'.closing = phone.closing
    BY <1>0, <1>3 DEF ConnectFails, PhoneRecords
  <2>2. (phone.scan => phone.step = 0) /\ (prov.linked => ~phone.closing)
    BY DEF Fresh, LinkOK
  <2>3. QED
    BY <1>3, <2>1, <2>2, AppOnly DEF ConnectFails, App, Air
<1>4. CASE DidDisconnect
  <2>1. /\ phone' \in PhoneRecords /\ phone'.attempt = phone.attempt
        /\ phone'.step = phone.step /\ phone'.state \in {"saved", "idle"}
        /\ phone'.state = "saved" => phone.state = "saved"
        /\ phone'.scan = phone.scan
    BY <1>0, <1>4 DEF DidDisconnect, PhoneRecords
  <2>2. ~prov.linked /\ (phone.scan => phone.step = 0)
    BY <1>4 DEF DidDisconnect, LinkOK, Fresh
  <2>3. QED
    BY <1>4, <2>1, <2>2, AppOnly DEF DidDisconnect, Air
<1>5. CASE Discovered
  <2> DEFINE w == [char |-> "CCCD", attempt |-> 0, long |-> FALSE]
  <2>1. /\ phone' \in PhoneRecords /\ phone'.attempt = phone.attempt
        /\ phone'.step = phone.step /\ phone'.state = "ready" /\ phone.state = "discovering"
        /\ phone'.scan = phone.scan /\ phone'.closing = phone.closing
        /\ phone.step = 0
    BY <1>0, <1>5 DEF Discovered, App, PhoneRecords, Fresh
  <2>2. /\ UNCHANGED <<mode, pending, prov, flash, creds, accepted, up>>
        /\ prov.linked /\ NotYet /\ down' = Append(down, w)
    BY <1>5 DEF Discovered, App, NotYet, deviceVars
  <2>3. w \in Writes /\ w.char = "CCCD"
    BY DEF Writes
  <2> HIDE DEF w
  <2>4. /\ down' \in Seq(Writes)
        /\ \A n \in DOMAIN down' :
             \/ n \in DOMAIN down /\ down'[n] = down[n]
             \/ n \notin DOMAIN down /\ down'[n] = w
    BY <1>0, <2>2, <2>3, Appended
  <2>5. \A n \in DOMAIN down' : down'[n].char = "CCCD"
    BY <2>2, <2>3, <2>4 DEF Fresh
  <2>6. up = << >> /\ ~prov.notify /\ prov.state = "RUNNING"
    BY <2>2 DEF Fresh
  <2>7. ProvTypeOK' /\ LinkOK' /\ InFlash' /\ ToldSavedIsCommitted'
    BY <2>1, <2>2, <2>4
       DEF ProvTypeOK, LinkOK, InFlash, LoadedWasAccepted, ToldSavedIsCommitted
  <2>8. Fresh' /\ OneAttempt' /\ CommitLast' /\ Committed'
    BY <2>1, <2>2, <2>5, <2>6 DEF Fresh, NotYet, OneAttempt, CommitLast, Committed
  <2>9. QED
    BY <2>7, <2>8
<1>6. CASE Provision
  <2>1. PICK long \in {"none", "SSID", "PASS", "DEVID"} :
          phone' = [phone EXCEPT !.state = "provisioning", !.attempt = @ + 1,
                                 !.step = 1, !.retries = 0, !.long = long]
    BY <1>6 DEF Provision
  <2>2. /\ phone'.step = 1 /\ phone'.state = "provisioning"
        /\ phone'.scan = phone.scan /\ phone'.closing = phone.closing
    BY <1>0, <2>1 DEF PhoneRecords
  <2>3. phone' \in PhoneRecords
    <3> DEFINE a == phone.attempt + 1
    <3>1. a \in Nat
      BY <1>0
    <3>2. phone' = [phone EXCEPT !.state = "provisioning", !.attempt = a,
                                 !.step = 1, !.retries = 0, !.long = long]
      BY <2>1
    <3> HIDE DEF a
    <3>3. [phone EXCEPT !.state = "provisioning", !.attempt = a] \in PhoneRecords
      BY <1>0, <3>1 DEF PhoneRecords
    <3>4. [phone EXCEPT !.state = "provisioning", !.attempt = a, !.step = 1,
                        !.retries = 0] \in PhoneRecords
      <4> DEFINE p == [phone EXCEPT !.state = "provisioning", !.attempt = a, !.step = 1]
      <4>1. p \in PhoneRecords
        BY <1>0, <3>1, <3>3 DEF PhoneRecords
      <4> HIDE DEF p
      <4>2. [p EXCEPT !.retries = 0] \in PhoneRecords
        BY <4>1 DEF PhoneRecords
      <4>3. QED
        BY <4>2 DEF p
    <3>5. QED
      BY <3>2, <3>4 DEF PhoneRecords
  <2>4. phone.state = "ready" /\ UNCHANGED deviceVars /\ WriteOnce(phone') /\ up' = up
    BY <1>6 DEF Provision, App
  <2>5. prov.linked => NotYet /\ ~phone.closing
    BY <2>4 DEF NotYet, LinkOK
  <2>6. ~phone.scan
    BY <2>4 DEF Fresh
  <2>7. QED
    BY <2>2, <2>3, <2>4, <2>5, <2>6, AppWrites
<1>7. CASE TimeOut
  <2>1. /\ phone.step > 0 /\ UNCHANGED <<deviceVars, up>> /\ ~phone.scan
        /\ phone.state \notin {"connecting", "discovering", "ready"}
    BY <1>0, <1>7 DEF TimeOut, Fresh
  <2>2. CASE phone' = [phone EXCEPT !.state = "failed", !.step = 0] /\ UNCHANGED down
    <3>1. /\ phone' \in PhoneRecords /\ phone'.attempt = phone.attempt
          /\ phone'.step = 0 /\ phone'.state = "failed"
          /\ phone'.scan = phone.scan /\ phone'.closing = phone.closing
      BY <1>0, <2>2 DEF PhoneRecords
    <3>2. QED
      BY <2>1, <2>2, <3>1, AppOnly DEF LinkOK
  <2>3. CASE phone' = Retried(phone) /\ WriteOnce(phone')
    <3>1. phone.retries + 1 \in Int
      BY <1>0 DEF PhoneRecords
    <3>2. /\ phone' \in PhoneRecords /\ phone'.attempt = phone.attempt
          /\ phone'.step = phone.step /\ phone'.state = phone.state
          /\ phone'.scan = phone.scan /\ phone'.closing = phone.closing
      BY <1>0, <2>3, <3>1 DEF PhoneRecords, Retried
    <3>3. prov.linked =>
            /\ ~phone.closing /\ phone.state \in {"provisioning", "saved", "failed"}
            /\ \A n \in 1 .. phone.step - 1 : pending[Steps[n]] = phone.attempt
      BY <2>1 DEF LinkOK, OneAttempt
    <3>4. QED
      BY <1>0, <2>1, <2>3, <3>2, <3>3, AppWrites
  <2>4. QED
    BY <1>7, <2>2, <2>3 DEF TimeOut
<1>8. CASE HearStatus
  <2>1. /\ up # << >> /\ UNCHANGED deviceVars /\ up' = Tail(up)
        /\ 1 \in DOMAIN up /\ Head(up) = up[1] /\ Head(up) \in DeviceStatuses
        /\ prov.linked
    BY <1>0, <1>8, Taken DEF HearStatus, LinkOK
  <2>2. /\ ~phone.closing
        /\ phone.state \in {"discovering", "ready", "provisioning", "saved", "failed"}
        /\ phone.scan => phone.step = 0
        /\ phone.state \in {"connecting", "discovering", "ready"} => phone.step = 0 /\ ~phone.scan
    BY <2>1 DEF LinkOK, Fresh
  <2>3. CASE UNCHANGED <<phone, down>>
    BY <1>0, <2>1, <2>2, <2>3, AppOnly
  <2>4. CASE phone.step > 0 /\ phone' = [phone EXCEPT !.state = "failed", !.step = 0] /\ UNCHANGED down
    <3>1. /\ phone' \in PhoneRecords /\ phone'.attempt = phone.attempt
          /\ phone'.step = 0 /\ phone'.state = "failed"
          /\ phone'.scan = phone.scan /\ phone'.closing = phone.closing
      BY <1>0, <2>4 DEF PhoneRecords
    <3>2. QED
      BY <2>1, <2>2, <2>4, <3>1, AppOnly
  <2>5. CASE /\ phone.step > 0 /\ Head(up) = Expected /\ Head(up) = "SAVED"
             /\ phone' = [phone EXCEPT !.state = "saved", !.step = 0] /\ UNCHANGED down
    <3>1. /\ phone' \in PhoneRecords /\ phone'.attempt = phone.attempt
          /\ phone'.step = 0 /\ phone'.state = "saved"
          /\ phone'.scan = phone.scan /\ phone'.closing = phone.closing
      BY <1>0, <2>5 DEF PhoneRecords
    <3>2. Wholly(phone.attempt) \in accepted
      BY <2>1, <2>5 DEF Committed
    <3>3. QED
      BY <2>1, <2>2, <2>5, <3>1, <3>2, AppOnly
  <2>6. CASE /\ phone.step > 0 /\ Head(up) = Expected /\ Head(up) # "SAVED"
             /\ phone' = [phone EXCEPT !.step = @ + 1, !.retries = 0] /\ WriteOnce(phone')
    <3>1. Head(up) = Steps[phone.step] /\ phone.step \in 1 .. 4 /\ Head(up) \in Fields
      <4>1. Steps[phone.step] # "COMMIT" /\ Head(up) = Steps[phone.step]
        BY <2>6 DEF Expected
      <4>2. phone.step \in 1 .. 4
        BY <1>0, <2>6, <4>1 DEF Steps
      <4>3. QED
        BY <4>1, <4>2 DEF Steps, Fields
    <3>2. pending[Steps[phone.step]] = phone.attempt
      BY <2>1, <3>1 DEF OneAttempt
    <3>3. phone.step + 1 \in 2 .. 5
      BY <3>1
    <3>4. /\ phone' \in PhoneRecords /\ phone'.attempt = phone.attempt
          /\ phone'.step = phone.step + 1 /\ phone'.state = phone.state
          /\ phone'.scan = phone.scan /\ phone'.closing = phone.closing
      <4> DEFINE b == phone.step + 1
      <4>1. b \in Places
        BY <1>0, <3>3
      <4>2. phone' = [phone EXCEPT !.step = b, !.retries = 0]
        BY <2>6
      <4> HIDE DEF b
      <4> DEFINE p == [phone EXCEPT !.step = b]
      <4>3. p \in PhoneRecords
        BY <1>0, <4>1 DEF PhoneRecords
      <4>4. phone' \in PhoneRecords
        <5> HIDE DEF p
        <5>1. [p EXCEPT !.retries = 0] \in PhoneRecords
          BY <4>3 DEF PhoneRecords
        <5>2. QED
          BY <4>2, <5>1 DEF p
      <4>5. QED
        BY <1>0, <4>2, <4>4 DEF PhoneRecords, b
    <3>5. \A n \in 1 .. phone'.step - 1 : pending[Steps[n]] = phone.attempt
      BY <2>1, <3>1, <3>2, <3>4 DEF OneAttempt
    <3>6. QED
      BY <2>1, <2>2, <2>6, <3>1, <3>3, <3>4, <3>5, AppWrites
  <2>7. QED
    BY <1>0, <1>8, <2>3, <2>4, <2>5, <2>6 DEF HearStatus
<1>9. QED
  BY <1>1, <1>2, <1>3, <1>4, <1>5, <1>6, <1>7, <1>8

\* Every callback of Bluetooth on the device keeps it (ble_provision.c): a field
\* that is written late or twice still belongs to the attempt, and COMMIT finds all
\* of them.
LEMMA RadioStep ==
  ASSUME ProvInv, WriteField \/ WriteCommit \/ WriteCccd \/ SendStatus
  PROVE  ProvInv'
<1> USE DEF ProvInv
<1>0. /\ prov \in DeviceRecords /\ up \in Seq(DeviceStatuses) /\ down \in Seq(Writes)
      /\ pending \in Records /\ phone \in PhoneRecords /\ phone.attempt \in Nat
      /\ prov.linked
  BY DEF ProvTypeOK, PhoneRecords, WriteField, WriteCommit, WriteCccd, SendStatus, Writing, Radio
<1>1. CASE SendStatus
  <2>1. /\ up' = Append(up, prov.status) /\ prov.status \in DeviceStatuses /\ prov.notify
        /\ UNCHANGED <<mode, pending, flash, creds, accepted, phone, down>>
        /\ prov' \in DeviceRecords /\ ~prov'.notify /\ prov'.linked
        /\ prov'.state = prov.state /\ prov'.status = prov.status
    BY <1>0, <1>1 DEF SendStatus, DeviceRecords
  <2>2. /\ up' \in Seq(DeviceStatuses)
        /\ \A n \in DOMAIN up' :
             (n \in DOMAIN up /\ up'[n] = up[n]) \/ up'[n] = prov.status
    BY <1>0, <2>1, Appended
  <2>3. ~NotYet
    BY <2>1 DEF Fresh
  <2>4. ProvTypeOK' /\ LinkOK' /\ InFlash' /\ ToldSavedIsCommitted' /\ Fresh'
    BY <1>0, <2>1, <2>2, <2>3
       DEF ProvTypeOK, LinkOK, InFlash, LoadedWasAccepted, ToldSavedIsCommitted, Fresh, NotYet
  <2>5. OneAttempt'
    BY <1>0, <2>1, <2>2 DEF OneAttempt
  <2>6. CommitLast' /\ Committed'
    BY <1>0, <2>1, <2>2 DEF CommitLast, Committed, Wholly
  <2>7. QED
    BY <2>4, <2>5, <2>6
<1>2. ASSUME WriteField \/ WriteCommit \/ WriteCccd
      PROVE  /\ down' \in Seq(Writes) /\ 1 \in DOMAIN down /\ Head(down) = down[1]
             /\ Head(down) \in Writes
             /\ \A n \in DOMAIN down' :
                  n + 1 \in DOMAIN down /\ down'[n] = down[n + 1] /\ n \in Nat
             /\ UNCHANGED <<mode, flash, creds, phone, up>>
  <2>1. Writing /\ DeviceKeeps
    BY <1>2 DEF WriteField, WriteCommit, WriteCccd
  <2>2. down # << >> /\ down' = Tail(down) /\ UNCHANGED <<mode, flash, creds, phone, up>>
    BY <2>1 DEF Writing, DeviceKeeps
  <2>3. QED
    BY <1>0, <2>2, Taken
<1>3. CASE WriteCccd
  <2>1. /\ prov' \in DeviceRecords /\ prov'.notify = prov.notify /\ prov'.linked
        /\ prov'.state = prov.state /\ prov'.status = prov.status
        /\ UNCHANGED <<pending, accepted>>
    BY <1>0, <1>3 DEF WriteCccd, DeviceRecords
  <2>2. ProvTypeOK' /\ LinkOK' /\ InFlash' /\ ToldSavedIsCommitted' /\ Fresh'
    BY <1>0, <1>2, <1>3, <2>1
       DEF ProvTypeOK, LinkOK, InFlash, LoadedWasAccepted, ToldSavedIsCommitted, Fresh, NotYet
  <2>3. OneAttempt'
    BY <1>0, <1>2, <1>3, <2>1 DEF OneAttempt
  <2>4. CommitLast' /\ Committed'
    BY <1>0, <1>2, <1>3, <2>1 DEF CommitLast, Committed, Wholly
  <2>5. QED
    BY <2>2, <2>3, <2>4
<1>4. ASSUME NEW status \in DeviceStatuses, Notify(status)
      PROVE  /\ prov' \in DeviceRecords /\ prov'.status = status
             /\ prov'.linked /\ prov'.state = prov.state
  BY <1>0, <1>4 DEF Notify, Notified, DeviceRecords
<1>5. CASE WriteField
  <2>1. Head(down).char \in Fields /\ Head(down).char # "COMMIT" /\ Head(down).char # "CCCD"
    BY <1>5 DEF WriteField, Fields
  <2>2. ~NotYet /\ prov.state = "RUNNING"
    BY <1>0, <1>2, <1>5, <2>1 DEF Fresh, Committed, ProvTypeOK, DeviceRecords
  <2>3. Head(down).attempt = phone.attempt
    BY <1>2, <1>5, <2>1 DEF OneAttempt
  <2>4. accepted' = accepted
    BY <1>5 DEF WriteField
  <2>5. CASE UNCHANGED <<pending, prov>>
    <3>1. ProvTypeOK' /\ LinkOK' /\ InFlash' /\ ToldSavedIsCommitted' /\ Fresh'
      BY <1>0, <1>2, <1>5, <2>2, <2>4, <2>5
         DEF ProvTypeOK, LinkOK, InFlash, LoadedWasAccepted, ToldSavedIsCommitted, Fresh, NotYet
    <3>2. OneAttempt'
      BY <1>0, <1>2, <1>5, <2>5 DEF OneAttempt
    <3>3. CommitLast'
      BY <1>0, <1>2, <1>5, <2>5 DEF CommitLast, Wholly
    <3>4. Committed'
      BY <1>0, <1>2, <1>5, <2>2, <2>4, <2>5 DEF Committed, Wholly
    <3>5. QED
      BY <3>1, <3>2, <3>3, <3>4
  <2>6. CASE /\ pending' = [pending EXCEPT ![Head(down).char] = Head(down).attempt]
             /\ Notify(Head(down).char)
    <3>1. /\ pending' \in Records /\ pending'[Head(down).char] = phone.attempt
          /\ \A f \in Fields : pending[f] = phone.attempt => pending'[f] = phone.attempt
          /\ pending = Wholly(phone.attempt) => pending' = pending
      BY <1>0, <2>1, <2>3, <2>6 DEF Records, Wholly
    <3>2. /\ prov' \in DeviceRecords /\ prov'.status = Head(down).char
          /\ prov'.linked /\ prov'.state = "RUNNING"
      BY <1>4, <2>1, <2>2, <2>6 DEF DeviceStatuses
    <3>3. ProvTypeOK' /\ LinkOK' /\ InFlash' /\ ToldSavedIsCommitted' /\ Fresh'
      BY <1>0, <1>2, <1>5, <2>2, <2>4, <3>1, <3>2
         DEF ProvTypeOK, LinkOK, InFlash, LoadedWasAccepted, ToldSavedIsCommitted, Fresh, NotYet
    <3>4. OneAttempt'
      <4>1. \A n \in 1 .. phone.step - 1 : Steps[n] \in Fields
        BY <1>0, PlacesAre DEF Steps, Fields, PhoneRecords
      <4>2. QED
        BY <1>0, <1>2, <1>5, <2>1, <3>1, <3>2, <4>1 DEF OneAttempt
    <3>5. CommitLast'
      BY <1>0, <1>2, <1>5, <2>1, <3>1 DEF CommitLast, Wholly
    <3>6. Committed'
      <4>1. prov'.status # "SAVED" /\ prov'.state # "COMMITTED"
        BY <2>1, <3>2 DEF Fields
      <4>2. UNCHANGED <<phone, up, accepted>>
        BY <1>2, <1>5, <2>4
      <4>3. QED
        BY <4>1, <4>2 DEF Committed, Wholly
    <3>7. QED
      BY <3>3, <3>4, <3>5, <3>6
  <2>7. QED
    BY <1>5, <2>5, <2>6 DEF WriteField
<1>6. CASE WriteCommit
  <2>1. /\ Head(down).char = "COMMIT" /\ pending' = pending
        /\ pending = Wholly(phone.attempt)
        /\ phone.step \in {0, 5}
        /\ \A n \in DOMAIN down : down[n].char = "COMMIT"
    <3>1. \A n \in DOMAIN down : n = 1 \/ n > 1
      BY <1>0, LenProperties
    <3>2. QED
      BY <1>2, <1>6, <3>1 DEF WriteCommit, CommitLast
  <2>2. ~NotYet
    BY <1>2, <1>6, <2>1 DEF Fresh
  <2>3. \A n \in DOMAIN down' : down'[n].char = "COMMIT"
    BY <1>2, <1>6, <2>1
  <2>4. CASE Committable
    <3>1. /\ prov' \in DeviceRecords /\ prov'.status = "SAVED"
          /\ prov'.linked /\ prov'.state = "COMMITTED"
          /\ accepted' = accepted \cup {pending}
      BY <1>0, <1>6, <2>4 DEF WriteCommit, Notified, DeviceRecords, DeviceStatuses
    <3>2. ProvTypeOK' /\ LinkOK' /\ InFlash' /\ ToldSavedIsCommitted' /\ Fresh'
      BY <1>0, <1>2, <1>6, <2>1, <2>2, <3>1
         DEF ProvTypeOK, LinkOK, InFlash, LoadedWasAccepted, ToldSavedIsCommitted, Fresh,
             NotYet, Wholly
    <3>3. OneAttempt' /\ CommitLast' /\ Committed'
      BY <1>0, <1>2, <1>6, <2>1, <2>3, <3>1
         DEF OneAttempt, CommitLast, Committed, Wholly, Fields
    <3>4. QED
      BY <3>2, <3>3
  <2>5. CASE Notify("ERR") /\ UNCHANGED accepted
    <3>1. /\ prov' \in DeviceRecords /\ prov'.status = "ERR"
          /\ prov'.linked /\ prov'.state = prov.state
      BY <1>4, <2>5 DEF DeviceStatuses
    <3>2. ProvTypeOK' /\ LinkOK' /\ InFlash' /\ ToldSavedIsCommitted' /\ Fresh'
      BY <1>0, <1>2, <1>6, <2>1, <2>2, <2>5, <3>1
         DEF ProvTypeOK, LinkOK, InFlash, LoadedWasAccepted, ToldSavedIsCommitted, Fresh,
             NotYet, Wholly
    <3>3. OneAttempt'
      BY <1>0, <1>2, <1>6, <2>1, <2>3, <2>5, <3>1 DEF OneAttempt, Fields
    <3>4. CommitLast'
      BY <1>0, <1>2, <1>6, <2>1, <2>3, <2>5 DEF CommitLast, Wholly
    <3>5. Committed'
      BY <1>0, <1>2, <1>6, <2>1, <2>3, <2>5, <3>1 DEF Committed, Wholly
    <3>6. QED
      BY <3>2, <3>3, <3>4, <3>5
  <2>6. QED
    BY <1>6, <2>4, <2>5 DEF WriteCommit
<1>7. QED
  BY <1>1, <1>3, <1>5, <1>6

\* Booting, saving and joining the network keep it (main.c, credentials.c, wifi.c):
\* what is programmed is what was committed.
LEMMA MainStep ==
  ASSUME ProvInv,
         \/ Boot \/ SeeCommit \/ EraseFlash \/ ProgramFlash \/ Network \/ Connect
  PROVE  ProvInv'
<1> USE DEF ProvInv
<1>0. /\ prov \in DeviceRecords /\ pending \in Records /\ creds \in Records
      /\ flash \in [whole : BOOLEAN, creds : Records] /\ phone \in PhoneRecords
  BY DEF ProvTypeOK
<1>1. CASE Boot
  <2>1. /\ UNCHANGED <<flash, accepted, phone, down, up>> /\ ~prov.linked
        /\ prov' = ProvStart /\ pending' = Unset /\ mode' \in {"prov", "wifi"}
        /\ creds' = creds \/ creds' = flash.creds
        /\ mode' = "wifi" => flash.whole /\ creds' = flash.creds
    BY <1>1 DEF Boot, App0, LinkOK, Valid
  <2>2. /\ prov' \in DeviceRecords /\ ~prov'.linked /\ ~prov'.notify
        /\ prov'.state = "RUNNING" /\ prov'.status = "IDLE"
        /\ pending' \in Records /\ creds' \in Records
    BY <1>0, <2>1 DEF ProvStart, Unset, DeviceRecords, Records, DeviceStatuses
  <2>3. ProvTypeOK' /\ LinkOK' /\ InFlash' /\ ToldSavedIsCommitted' /\ Fresh'
    BY <2>1, <2>2
       DEF ProvTypeOK, LinkOK, InFlash, LoadedWasAccepted, ToldSavedIsCommitted, Fresh, NotYet
  <2>4. OneAttempt' /\ CommitLast' /\ Committed'
    BY <2>1, <2>2 DEF LinkOK, OneAttempt, CommitLast, Committed, Wholly
  <2>5. QED
    BY <2>3, <2>4
<1>2. CASE Connect
  <2>1. /\ UNCHANGED <<mode, pending, flash, creds, accepted, down, up>>
        /\ ~prov.linked /\ prov.state = "RUNNING" /\ mode = "prov"
        /\ phone.state = "connecting" /\ ~phone.closing
    BY <1>2 DEF Connect, Advertising
  <2>2. /\ prov' \in DeviceRecords /\ prov'.linked /\ prov'.notify = prov.notify
        /\ prov'.state = prov.state /\ prov'.status = prov.status
    BY <1>0, <1>2 DEF Connect, DeviceRecords
  <2>3. /\ phone' \in PhoneRecords /\ phone'.state = "discovering"
        /\ phone'.step = phone.step /\ phone'.scan = phone.scan
        /\ phone'.attempt = phone.attempt /\ phone'.closing = phone.closing
    BY <1>0, <1>2 DEF Connect, PhoneRecords
  <2>4. down = << >> /\ up = << >> /\ ~prov.notify /\ phone.step = 0 /\ ~phone.scan
    BY <2>1 DEF LinkOK, Fresh
  <2>5. ProvTypeOK' /\ LinkOK' /\ InFlash' /\ ToldSavedIsCommitted' /\ Fresh'
    BY <2>1, <2>2, <2>3, <2>4
       DEF ProvTypeOK, LinkOK, InFlash, LoadedWasAccepted, ToldSavedIsCommitted, Fresh, NotYet
  <2>6. OneAttempt' /\ CommitLast' /\ Committed'
    BY <2>1, <2>2, <2>3, <2>4 DEF OneAttempt, CommitLast, Committed, Wholly
  <2>7. QED
    BY <2>5, <2>6
<1>3. CASE SeeCommit \/ EraseFlash \/ ProgramFlash \/ Network
  <2>1. /\ UNCHANGED <<pending, prov, accepted, phone, down, up>>
        /\ mode' \in {"finishing", "saving", "programming"} => prov.state = "COMMITTED"
        /\ prov.linked => mode' \in {"prov", "finishing"}
        /\ mode' \in {"boot", "finishing", "programming", "halted", "dns", "running"}
    BY <1>3 DEF SeeCommit, EraseFlash, ProgramFlash, Network, App0, LinkOK
  <2>2. /\ flash' \in [whole : BOOLEAN, creds : Records] /\ creds' \in Records
        /\ InFlash'
    <3>1. CASE SeeCommit \/ Network
      <4>1. /\ UNCHANGED <<flash, creds>>
            /\ mode' \in {"wifi", "dns", "running"} => mode \in {"wifi", "dns", "running"}
        BY <3>1 DEF SeeCommit, Network
      <4>2. QED
        BY <1>0, <2>1, <4>1 DEF InFlash, LoadedWasAccepted
    <3>2. CASE EraseFlash
      <4>1. Unset \in Records
        BY DEF Unset, Records
      <4>2. /\ creds' = creds /\ mode' \in {"programming", "halted"}
            /\ flash' = flash \/ flash' = [whole |-> FALSE, creds |-> Unset]
        BY <3>2 DEF EraseFlash
      <4>3. flash' \in [whole : BOOLEAN, creds : Records]
        <5>1. [whole |-> FALSE, creds |-> Unset] \in [whole : BOOLEAN, creds : Records]
          BY <4>1
        <5>2. QED
          BY <1>0, <4>2, <5>1
      <4>4. flash'.whole => flash' = flash
        BY <4>2
      <4>5. LoadedWasAccepted'
        BY <4>2 DEF LoadedWasAccepted
      <4>6. flash'.whole => flash'.creds \in accepted'
        BY <2>1, <4>4 DEF InFlash
      <4>7. QED
        BY <1>0, <4>2, <4>3, <4>5, <4>6 DEF InFlash
    <3>3. CASE ProgramFlash
      <4>1. pending \in accepted
        BY <3>3 DEF ProgramFlash, LinkOK, Committed
      <4>2. QED
        BY <1>0, <2>1, <3>3, <4>1
           DEF ProgramFlash, Program, InFlash, LoadedWasAccepted, Unset, Records
    <3>4. QED
      BY <1>3, <3>1, <3>2, <3>3
  <2>3. ProvTypeOK' /\ LinkOK' /\ ToldSavedIsCommitted' /\ Fresh'
    BY <2>1, <2>2 DEF ProvTypeOK, LinkOK, ToldSavedIsCommitted, Fresh, NotYet
  <2>4. OneAttempt' /\ CommitLast' /\ Committed'
    BY <2>1 DEF OneAttempt, CommitLast, Committed, Wholly
  <2>5. QED
    BY <2>2, <2>3, <2>4
<1>4. QED
  BY <1>1, <1>2, <1>3

\* And so does every step, power failures at any moment included.
LEMMA ProvStepInvariant ==
  ASSUME ProvInv, [ProvNext]_provVars
  PROVE  ProvInv'
<1> USE DEF ProvInv
<1>1. CASE LinkLoss \/ Retry \/ StartOver
  <2>1. PICK app \in {phone, Scanning, [Scanning EXCEPT !.state = "idle", !.scan = FALSE]} :
          Drop(app)
    BY <1>1 DEF LinkLoss, Retry, StartOver
  <2>2. /\ LinkGone(app) /\ prov' = Unlinked(prov)
        /\ UNCHANGED <<mode, pending, flash, creds, accepted>>
    BY <2>1 DEF Drop
  <2>3. mode \in {"finishing", "saving", "programming"} => prov.state = "COMMITTED"
    BY DEF LinkOK
  <2>4. InFlash'
    BY <2>2 DEF InFlash, LoadedWasAccepted
  <2>5. QED
    BY <2>2, <2>3, <2>4, LinkGoneKeeps DEF ProvTypeOK
<1>2. CASE PowerOffRadio
  <2>1. /\ LinkGone(phone) /\ prov' = Unlinked(prov) /\ prov.state = "COMMITTED"
        /\ mode' = "saving" /\ UNCHANGED <<pending, flash, creds, accepted>>
    BY <1>2 DEF PowerOffRadio, LinkOK
  <2>2. InFlash'
    BY <2>1 DEF InFlash, LoadedWasAccepted
  <2>3. QED
    BY <2>1, <2>2, LinkGoneKeeps DEF ProvTypeOK
<1>3. CASE PowerFails
  <2>1. /\ LinkGone(phone) /\ prov' = Unlinked(prov) /\ mode' = "boot" /\ creds' = Unset
        /\ UNCHANGED <<pending, accepted>> /\ flash' \in {flash, Torn}
    BY <1>3 DEF PowerFails
  <2>2. Unset \in Records /\ Torn \in [whole : BOOLEAN, creds : Records] /\ ~Torn.whole
    BY DEF Unset, Torn, Records, ProvTypeOK
  <2>3. InFlash'
    BY <2>1, <2>2 DEF InFlash, LoadedWasAccepted
  <2>4. QED
    BY <2>1, <2>2, <2>3, LinkGoneKeeps DEF ProvTypeOK
<1>4. CASE UNCHANGED provVars
  BY <1>4 DEF provVars, deviceVars, ProvTypeOK, LinkOK, Fresh, NotYet, OneAttempt, CommitLast,
              Committed, ToldSavedIsCommitted, InFlash, LoadedWasAccepted, Wholly
<1>5. QED
  BY <1>1, <1>2, <1>3, <1>4, AppStep, RadioStep, MainStep DEF ProvNext

\* The inductive invariant of provisioning.
THEOREM ProvInvariant == ProvSpec => []ProvInv
<1>1. ProvInv /\ [ProvNext]_provVars => ProvInv'
  BY ProvStepInvariant
<1>2. QED
  BY ProvInitInvariant, <1>1, PTL DEF ProvSpec

\* When the app shows success, the device accepted a commit of what this attempt
\* typed in every field, for any number of attempts, retries, lost writes, broken
\* links and power failures.
THEOREM SavedMeansCommitted == ProvSpec => []ToldSavedIsCommitted
<1>1. ProvInv => ToldSavedIsCommitted
  BY DEF ProvInv
<1>2. QED
  BY ProvInvariant, <1>1, PTL

\* The device joins a network only with credentials that one commit accepted as
\* they are, whenever power fails while the flash is erased or programmed
\* (credentials.c:92-157, ble_provision.c).
THEOREM OnlyAcceptedLoaded == ProvSpec => []LoadedWasAccepted
<1>1. ProvInv => LoadedWasAccepted
  BY DEF ProvInv, InFlash
<1>2. QED
  BY ProvInvariant, <1>1, PTL

-----------------------------------------------------------------------------
(* The inter-core ring (IcRing)                                              *)

\* Words of the ring, and what the variables of both cores hold.
Offsets == 0 .. RingWords - 1
SendRecords ==
  [st : {"idle", "space", "push"}, checked : BOOLEAN, off : Offsets,
   msg : Messages \cup {NoMessage}]

IcTypeOK ==
  /\ DOMAIN cells = Offsets
  /\ head \in Nat /\ tail \in Nat /\ reading \in Nat /\ sends \in Nat
  /\ tail <= head /\ head - tail <= RingWords
  /\ fifo \in Seq(Offsets) /\ Len(fifo) <= FifoSlots
  /\ cache \in Seq(Offsets) /\ Len(cache) <= 1
  /\ sending \in SendRecords
  /\ sending.st # "idle" => sending.msg \in Messages

\* The offsets of the messages in the ring, the one not pushed yet last.
Written == IF sending.st = "push" THEN Append(Arrived, sending.off) ELSE Arrived

\* From the first word not taken yet up to head the messages lie one behind the
\* other, each whole: message n from place[n] to place[n + 1].
Layout(place, msg) ==
  /\ place \in Seq(Nat) /\ msg \in Seq(Messages)
  /\ Len(msg) = Len(Written) /\ Len(place) = Len(msg) + 1
  /\ place[1] = tail + reading /\ place[Len(msg) + 1] = head
  /\ \A n \in 1 .. Len(msg) :
       /\ Written[n] = place[n] % RingWords
       /\ place[n + 1] = place[n] + Need(msg[n])
       /\ \A k \in 0 .. msg[n].len : cells[(place[n] + k) % RingWords] = Word(msg[n], k)
  /\ \A m, n \in 1 .. Len(place) : m <= n => place[m] <= place[n]
  /\ sending.st = "push" => msg[Len(msg)] = sending.msg

\* The inductive invariant: with the messages laid out like that, no reader finds
\* anything but a whole message at an offset, and Room is never overestimated.
IcInv ==
  /\ IcTypeOK
  /\ CheckedNeverWaits
  /\ \E place, msg : Layout(place, msg)

-----------------------------------------------------------------------------
\* A sequence is the function of its elements.
LEMMA SequenceAsFunction ==
  ASSUME NEW S, NEW s \in Seq(S)
  PROVE  s = [k \in 1 .. Len(s) |-> s[k]]
<1>1. s \in [1 .. Len(s) -> S]
  OBVIOUS
<1>2. QED
  BY <1>1

\* The constants of the ring, as numbers.
LEMMA IcConstants ==
  /\ RingWords \in Nat \ {0} /\ FifoSlots \in Nat \ {0}
  /\ MaxPayload \in Nat /\ MaxSends \in Nat
BY IcRingAssumption

\* A message takes its header and its payload.
LEMMA MessageIs ==
  ASSUME NEW m \in Messages
  PROVE  m.len \in Nat /\ Need(m) \in Nat /\ Need(m) >= 1 /\ Need(m) = m.len + 1
BY IcConstants DEF Messages, Need

\* Where a word lies relative to a message that begins at h.
LEMMA WordDistance ==
  ASSUME NEW h \in Nat, NEW p \in Nat, NEW d \in Offsets, NEW q \in Int,
         p - h = d + RingWords * q
  PROVE  ((p % RingWords) + RingWords - (h % RingWords)) % RingWords = d
<1> DEFINE R == RingWords  a == p \div R  s == p % R  b == h \div R  t == h % R
<1>1. R \in Nat \ {0}
  BY IcConstants
<1>2. a \in Int /\ s \in 0 .. R - 1 /\ p = R * a + s
  BY <1>1, DivMod
<1>3. b \in Int /\ t \in 0 .. R - 1 /\ h = R * b + t
  BY <1>1, DivMod
<1>4. d \in 0 .. R - 1 /\ p - h = d + R * q
  BY DEF Offsets
<1> HIDE DEF R, a, s, b, t
<1>5. R * (q - a + 1 + b) = R * q - R * a + R + R * b
  BY <1>1, <1>2, <1>3
<1>6. s + R - t = R * (q - a + 1 + b) + d
  BY <1>1, <1>2, <1>3, <1>4, <1>5
<1>7. s + R - t \in Int /\ q - a + 1 + b \in Int
  BY <1>1, <1>2, <1>3
<1>8. (s + R - t) % R = d
  BY <1>1, <1>4, <1>6, <1>7, ModIs
<1>9. QED
  BY <1>8 DEF R, s, t

\* Arrived is a sequence, and what becomes of it when an entry is pushed, cached
\* or taken.
LEMMA ArrivedIs ==
  ASSUME IcTypeOK
  PROVE  /\ Arrived \in Seq(Offsets) /\ Len(Arrived) = Len(cache) + Len(fifo)
         /\ Written \in Seq(Offsets)
         /\ Len(Written) = Len(Arrived) + IF sending.st = "push" THEN 1 ELSE 0
         /\ \A n \in 1 .. Len(Arrived) : Written[n] = Arrived[n]
         /\ sending.st = "push" => Written[Len(Arrived) + 1] = sending.off
<1>1. Arrived \in Seq(Offsets) /\ Len(Arrived) = Len(cache) + Len(fifo)
  BY ConcatProperties DEF IcTypeOK, Arrived
<1>2. sending.off \in Offsets
  BY DEF IcTypeOK, SendRecords
<1>3. CASE sending.st = "push"
  <2>1. /\ Append(Arrived, sending.off) \in Seq(Offsets)
        /\ Len(Append(Arrived, sending.off)) = Len(Arrived) + 1
        /\ \A n \in 1 .. Len(Arrived) : Append(Arrived, sending.off)[n] = Arrived[n]
        /\ Append(Arrived, sending.off)[Len(Arrived) + 1] = sending.off
    BY <1>1, <1>2, AppendProperties
  <2>2. QED
    BY <1>1, <1>3, <2>1 DEF Written
<1>4. CASE sending.st # "push"
  BY <1>1, <1>4 DEF Written
<1>5. QED
  BY <1>3, <1>4

\* Peeking moves the front of the FIFO into the cache (ic_ring.c:121-130).
LEMMA ArrivedCached ==
  ASSUME IcTypeOK, cache = << >>, fifo # << >>,
         cache' = <<Head(fifo)>>, fifo' = Tail(fifo)
  PROVE  Arrived' = Arrived
<1>1. fifo \in Seq(Offsets) /\ Len(fifo) \in Nat
  BY DEF IcTypeOK
<1>2. << >> \o fifo = fifo
  BY <1>1, ConcatEmptySeq
<1>3. <<Head(fifo)>> \o Tail(fifo) = fifo
  <2> DEFINE one == <<Head(fifo)>>
  <2>1. /\ Head(fifo) = fifo[1] /\ Head(fifo) \in Offsets /\ Tail(fifo) \in Seq(Offsets)
        /\ Len(Tail(fifo)) = Len(fifo) - 1 /\ Len(fifo) >= 1
        /\ \A n \in 1 .. Len(fifo) - 1 : Tail(fifo)[n] = fifo[n + 1]
    BY <1>1, HeadTailProperties
  <2>2. one \in Seq(Offsets) /\ Len(one) = 1 /\ one[1] = fifo[1]
    BY <2>1
  <2> HIDE DEF one
  <2>3. /\ one \o Tail(fifo) \in Seq(Offsets) /\ Len(one \o Tail(fifo)) = Len(fifo)
        /\ \A n \in 1 .. Len(fifo) :
             (one \o Tail(fifo))[n] = IF n <= 1 THEN one[n] ELSE Tail(fifo)[n - 1]
    <3> DEFINE rest == Tail(fifo)
    <3>1. rest \in Seq(Offsets) /\ Len(one) + Len(rest) = Len(fifo)
      BY <1>1, <2>1, <2>2
    <3> HIDE DEF rest
    <3>2. /\ one \o rest \in Seq(Offsets) /\ Len(one \o rest) = Len(one) + Len(rest)
          /\ \A n \in 1 .. Len(one) + Len(rest) :
               (one \o rest)[n] = IF n <= Len(one) THEN one[n] ELSE rest[n - Len(one)]
      BY <2>2, <3>1, ConcatProperties
    <3>3. QED
      BY <2>2, <3>1, <3>2 DEF rest
  <2>4. \A n \in 1 .. Len(fifo) : (one \o Tail(fifo))[n] = fifo[n]
    <3> SUFFICES ASSUME NEW n \in 1 .. Len(fifo) PROVE (one \o Tail(fifo))[n] = fifo[n]
      OBVIOUS
    <3>1. CASE n = 1
      BY <2>2, <2>3, <3>1
    <3>2. CASE n > 1
      <4>1. n - 1 \in 1 .. Len(fifo) - 1 /\ (n - 1) + 1 = n
        BY <1>1, <3>2
      <4>2. QED
        BY <2>1, <2>3, <3>2, <4>1
    <3>3. n = 1 \/ n > 1
      BY <1>1
    <3>4. QED
      BY <3>1, <3>2, <3>3
  <2>5. one \o Tail(fifo) = fifo
    BY <1>1, <2>3, <2>4, SeqEqual
  <2>6. QED
    BY <2>5 DEF one
<1>4. QED
  BY <1>2, <1>3 DEF Arrived

\* Receiving takes the cached entry, or else the front of the FIFO.
LEMMA ArrivedTaken ==
  ASSUME IcTypeOK, Arrived # << >>,
         IF cache # << >> THEN cache' = << >> /\ UNCHANGED fifo
         ELSE fifo' = Tail(fifo) /\ UNCHANGED cache
  PROVE  Arrived' = Tail(Arrived)
<1>1. /\ fifo \in Seq(Offsets) /\ cache \in Seq(Offsets) /\ Len(cache) <= 1
      /\ << >> \o fifo = fifo /\ << >> \o Tail(fifo) = Tail(fifo)
  BY ConcatEmptySeq DEF IcTypeOK
<1>2. CASE cache # << >>
  <2>1. Len(cache) = 1
    <3> DEFINE l == Len(cache)
    <3>1. l \in Nat \ {0}
      BY <1>1, <1>2, EmptySeq
    <3>2. l <= 1
      BY <1>1
    <3> HIDE DEF l
    <3>3. l = 1
      BY <3>1, <3>2
    <3>4. QED
      BY <3>3 DEF l
  <2>2. Arrived' = fifo
    BY <1>1, <1>2 DEF Arrived
  <2>3. /\ Arrived \in Seq(Offsets) /\ Len(Arrived) = 1 + Len(fifo)
        /\ \A n \in 1 .. 1 + Len(fifo) :
             Arrived[n] = IF n <= 1 THEN cache[n] ELSE fifo[n - 1]
    <3>1. /\ cache \o fifo \in Seq(Offsets) /\ Len(cache \o fifo) = Len(cache) + Len(fifo)
          /\ \A n \in 1 .. Len(cache) + Len(fifo) :
               (cache \o fifo)[n] = IF n <= Len(cache) THEN cache[n] ELSE fifo[n - Len(cache)]
      BY <1>1, ConcatProperties
    <3>2. QED
      BY <2>1, <3>1 DEF Arrived
  <2>4. /\ Tail(Arrived) \in Seq(Offsets) /\ Len(Tail(Arrived)) = Len(fifo)
        /\ \A n \in 1 .. Len(fifo) : Tail(Arrived)[n] = fifo[n]
    BY <1>1, <2>3, HeadTailProperties, LenProperties
  <2>5. Tail(Arrived) = fifo
    BY <1>1, <2>4, SeqEqual
  <2>6. QED
    BY <2>2, <2>5
<1>3. CASE cache = << >>
  BY <1>1, <1>3 DEF Arrived
<1>4. QED
  BY <1>2, <1>3

\* What a reader finds where a message lies whole, whatever the ring holds else.
LEMMA Found ==
  ASSUME NEW c, NEW m \in Messages, NEW p \in Nat, NEW off, off = p % RingWords,
         \A k \in 0 .. m.len : c[(p + k) % RingWords] = Word(m, k)
  PROVE  /\ c[off].of = m
         /\ \A k \in 0 .. m.len : c[(off + k) % RingWords] = Word(m, k)
<1>1. m.len \in Nat /\ RingWords \in Nat \ {0} /\ p \in Int
  BY MessageIs, IcConstants
<1>2. ASSUME NEW k \in 0 .. m.len
      PROVE  (off + k) % RingWords = (p + k) % RingWords
  <2>1. k \in Int
    BY <1>1
  <2>2. ((p % RingWords) + k) % RingWords = (p + k) % RingWords
    BY <1>1, <2>1, ModAdd
  <2>3. QED
    BY <2>2
<1>3. 0 \in 0 .. m.len /\ p + 0 = p
  BY <1>1
<1>4. c[off] = Word(m, 0)
  BY <1>3
<1>5. c[off].of = m
  BY <1>4 DEF Word
<1>6. QED
  BY <1>2, <1>5

\* What a reader finds is what was sent.
LEMMA FoundWhole ==
  ASSUME NEW place, NEW msg, Layout(place, msg), NEW n \in 1 .. Len(msg)
  PROVE  At(Written[n]) = msg[n]
<1>1. msg[n] \in Messages /\ place[n] \in Nat
  <2>1. n \in 1 .. Len(place)
    BY LenProperties DEF Layout
  <2>2. QED
    BY <2>1, ElementOfSeq DEF Layout
<1>2. /\ cells[Written[n]].of = msg[n]
      /\ \A k \in 0 .. msg[n].len : cells[(Written[n] + k) % RingWords] = Word(msg[n], k)
  <2> DEFINE w == Written[n]  m == msg[n]  p == place[n]
  <2>1. /\ w = p % RingWords
        /\ \A k \in 0 .. m.len : cells[(p + k) % RingWords] = Word(m, k)
    BY DEF Layout
  <2>2. m \in Messages /\ p \in Nat
    BY <1>1
  <2> HIDE DEF w, m, p
  <2>3. cells[w].of = m /\ \A k \in 0 .. m.len : cells[(w + k) % RingWords] = Word(m, k)
    BY <2>1, <2>2, Found
  <2>4. QED
    BY <2>3 DEF w, m, p
<1>3. QED
  BY <1>2 DEF At

-----------------------------------------------------------------------------
\* Every message lies between the words not freed yet and head.
LEMMA PlacesInRing ==
  ASSUME IcTypeOK, NEW place, NEW msg, Layout(place, msg)
  PROVE  /\ tail + reading <= head
         /\ \A n \in 1 .. Len(msg) :
              /\ place[n] \in Nat /\ place[n + 1] \in Nat /\ msg[n] \in Messages
              /\ msg[n].len \in Nat
              /\ \A k \in 0 .. msg[n].len : place[n] + k \in tail .. head - 1
<1>0. /\ place \in Seq(Nat) /\ msg \in Seq(Messages) /\ Len(msg) \in Nat
      /\ Len(place) = Len(msg) + 1 /\ Len(place) \in Nat
      /\ tail \in Nat /\ head \in Nat /\ reading \in Nat
  BY LenProperties DEF Layout, IcTypeOK
<1>1. ASSUME NEW n \in 1 .. Len(msg)
      PROVE  /\ place[n] \in Nat /\ place[n + 1] \in Nat /\ msg[n] \in Messages
             /\ msg[n].len \in Nat
             /\ \A k \in 0 .. msg[n].len : place[n] + k \in tail .. head - 1
  <2>1. n \in 1 .. Len(place) /\ n + 1 \in 1 .. Len(place)
    BY <1>0
  <2>2. place[n] \in Nat /\ place[n + 1] \in Nat /\ msg[n] \in Messages
    BY <1>0, <2>1, ElementOfSeq
  <2>3. msg[n].len \in Nat /\ Need(msg[n]) = msg[n].len + 1
    BY <2>2, MessageIs
  <2>4. /\ place[n + 1] = place[n] + Need(msg[n])
        /\ tail + reading <= place[n] /\ place[n + 1] <= head
    <3>1. 1 \in 1 .. Len(place) /\ Len(place) \in 1 .. Len(place) /\ 1 <= n /\ n + 1 <= Len(place)
      BY <1>0, <2>1
    <3>2. place[1] <= place[n] /\ place[n + 1] <= place[Len(place)]
      BY <2>1, <3>1 DEF Layout
    <3>3. QED
      BY <1>0, <3>2 DEF Layout
  <2> DEFINE a == place[n]  b == place[n + 1]  l == msg[n].len
  <2>5. /\ a \in Nat /\ b \in Nat /\ l \in Nat /\ b = a + (l + 1)
        /\ tail + reading <= a /\ b <= head
    BY <2>2, <2>3, <2>4
  <2> HIDE DEF a, b, l
  <2>6. \A k \in 0 .. l : a + k \in tail .. head - 1
    BY <1>0, <2>5
  <2>7. QED
    BY <2>2, <2>3, <2>6 DEF a, l
<1>2. tail + reading <= head
  <2>1. 1 \in 1 .. Len(place) /\ Len(place) \in 1 .. Len(place) /\ 1 <= Len(place)
    BY <1>0
  <2>2. place[1] <= place[Len(place)]
    BY <2>1 DEF Layout
  <2>3. QED
    BY <1>0, <2>2 DEF Layout
<1>3. QED
  BY <1>1, <1>2

\* Writing a message where there is room overwrites none that waits.
LEMMA WrittenBehind ==
  ASSUME IcTypeOK, WriteMessage
  PROVE  /\ \A k \in 0 .. sending.msg.len : cells'[(head + k) % RingWords] = Word(sending.msg, k)
         /\ \A p \in tail .. head - 1 : cells'[p % RingWords] = cells[p % RingWords]
         /\ DOMAIN cells' = Offsets
<1> DEFINE m == sending.msg  off == head % RingWords
           K(w) == (w + RingWords - off) % RingWords
<1>1. /\ head \in Nat /\ tail \in Nat /\ tail <= head /\ head - tail <= RingWords
      /\ RingWords \in Nat \ {0} /\ DOMAIN cells = Offsets
      /\ m \in Messages /\ m.len \in Nat /\ Need(m) = m.len + 1
      /\ RingWords - (head - tail) >= Need(m)
  <2>1. m \in Messages /\ Room >= Need(m)
    BY DEF WriteMessage, IcTypeOK
  <2>2. QED
    BY <2>1, IcConstants, MessageIs DEF IcTypeOK, Room
<1>2. cells' = [w \in Offsets |-> IF K(w) < Need(m) THEN Word(m, K(w)) ELSE cells[w]]
  BY <1>1 DEF WriteMessage
<1> HIDE DEF m, off
<1>3. ASSUME NEW p \in Nat
      PROVE  p % RingWords \in Offsets
  <2>1. p \in Int /\ RingWords \in Nat \ {0}
    BY <1>1
  <2>2. p % RingWords \in 0 .. RingWords - 1
    BY <2>1, DivMod
  <2>3. QED
    BY <2>2 DEF Offsets
<1>4. ASSUME NEW k \in 0 .. m.len
      PROVE  cells'[(head + k) % RingWords] = Word(m, k)
  <2>1. k \in Offsets /\ head + k \in Nat
    <3> DEFINE l == m.len
    <3>1. l \in Nat /\ k \in 0 .. l /\ l + 1 <= RingWords
      BY <1>1
    <3> HIDE DEF l
    <3>2. QED
      BY <1>1, <3>1 DEF Offsets
  <2>2. (head + k) - head = k + RingWords * 0
    BY <1>1, <2>1
  <2>3. K((head + k) % RingWords) = k
    <3>1. 0 \in Int
      OBVIOUS
    <3>2. QED
      BY <1>1, <2>1, <2>2, <3>1, WordDistance DEF off
  <2>4. (head + k) % RingWords \in Offsets /\ k < Need(m)
    BY <1>1, <1>3, <2>1
  <2>5. QED
    BY <1>2, <2>3, <2>4
<1>5. ASSUME NEW p \in tail .. head - 1
      PROVE  cells'[p % RingWords] = cells[p % RingWords]
  <2> DEFINE d == p - head + RingWords
  <2>1. p \in Nat /\ d \in Offsets /\ d >= Need(m)
    BY <1>1 DEF Offsets
  <2>2. p - head = d + RingWords * (-1)
    BY <1>1, <2>1
  <2> HIDE DEF d
  <2>3. K(p % RingWords) = d
    <3>1. -1 \in Int
      OBVIOUS
    <3>2. QED
      BY <1>1, <2>1, <2>2, <3>1, WordDistance DEF off
  <2>4. p % RingWords \in Offsets
    BY <1>3, <2>1
  <2>6. ~(d < Need(m))
    BY <1>1, <2>1 DEF Offsets
  <2>5. QED
    BY <1>2, <2>3, <2>4, <2>6
<1>6. QED
  BY <1>1, <1>2, <1>4, <1>5 DEF m

-----------------------------------------------------------------------------
\* The ring and the FIFO are empty at the start.
LEMMA IcInitInvariant == IcInit => IcInv
<1> SUFFICES ASSUME IcInit PROVE IcInv
  OBVIOUS
<1>1. IcTypeOK
  <2>1. sending \in SendRecords
    BY IcConstants DEF IcInit, NoSend, SendRecords, Offsets
  <2>2. sending.st = "idle"
    BY DEF IcInit, NoSend
  <2>3. DOMAIN cells = Offsets
    BY DEF IcInit, Offsets
  <2>4. fifo \in Seq(Offsets) /\ Len(fifo) = 0 /\ cache \in Seq(Offsets) /\ Len(cache) = 0
    BY EmptySeq DEF IcInit
  <2>5. QED
    BY <2>1, <2>2, <2>3, <2>4, IcConstants DEF IcInit, IcTypeOK
<1>2. CheckedNeverWaits
  BY DEF IcInit, NoSend, CheckedNeverWaits
<1>3. Layout(<<0>>, << >>)
  <2>1. sending.st = "idle" /\ Len(Arrived) = 0
    BY <1>1, ArrivedIs, EmptySeq DEF IcInit, NoSend
  <2>2. Len(Written) = 0
    BY <1>1, <2>1, ArrivedIs
  <2>3. <<0>> \in Seq(Nat) /\ Len(<<0>>) = 1 /\ <<0>>[1] = 0
    OBVIOUS
  <2>4. << >> \in Seq(Messages) /\ Len(<< >>) = 0
    BY EmptySeq
  <2>5. tail + reading = 0 /\ head = 0
    BY DEF IcInit
  <2>6. QED
    BY <2>1, <2>2, <2>3, <2>4, <2>5 DEF Layout
<1>4. QED
  BY <1>1, <1>2, <1>3 DEF IcInv

\* What ic_send_avail promised still holds when ic_send looks: only the sender
\* fills the ring and the FIFO, the receiver empties both (ic_ring.c:81-119).
LEMMA CheckedStep ==
  ASSUME IcTypeOK, CheckedNeverWaits, [IcNext]_ringVars
  PROVE  CheckedNeverWaits'
<1>0. /\ RingWords \in Nat /\ FifoSlots \in Nat /\ head \in Nat /\ tail \in Nat
      /\ Len(fifo) \in Nat /\ reading \in Nat /\ sending.checked \in BOOLEAN
  BY IcConstants, LenProperties DEF IcTypeOK, SendRecords
<1>1. ASSUME NEW len \in 0 .. MaxPayload, NEW checked \in BOOLEAN, Enter(len, checked)
      PROVE  CheckedNeverWaits'
  <2> DEFINE m == [id |-> sends + 1, len |-> len]
  <2>1. CASE sending' = NoSend
    BY <2>1 DEF CheckedNeverWaits, NoSend
  <2>2. CASE ~checked /\ sending' = [st |-> "space", checked |-> checked, off |-> 0, msg |-> m]
    BY <2>2 DEF CheckedNeverWaits
  <2>3. CASE /\ checked /\ Avail >= Need(m)
             /\ sending' = [st |-> "space", checked |-> checked, off |-> 0, msg |-> m]
    <3>1. Need(m) \in Nat /\ Need(m) >= 1
      BY IcConstants DEF Need
    <3>2. Len(fifo) < FifoSlots /\ Room >= Need(m)
      BY <1>0, <2>3, <3>1 DEF Avail
    <3>3. UNCHANGED <<head, tail, fifo>> /\ sending'.msg = m /\ sending'.st = "space"
      BY <1>1, <2>3 DEF Enter
    <3>4. QED
      BY <3>2, <3>3 DEF CheckedNeverWaits, Room
  <2>4. Avail \in Int /\ Need(m) \in Int
    BY <1>0, IcConstants DEF Avail, Room, Need
  <2>5. QED
    BY <1>1, <2>1, <2>2, <2>3, <2>4 DEF Enter
<1>2. CASE WriteMessage
  <2>1. sending'.checked = sending.checked /\ sending'.st = "push" /\ fifo' = fifo
    BY <1>2 DEF WriteMessage, IcTypeOK, SendRecords
  <2>2. QED
    BY <2>1 DEF CheckedNeverWaits
<1>3. CASE Push
  BY <1>3 DEF Push, NoSend, CheckedNeverWaits
<1>4. CASE PeekType \/ Read \/ FreeWords \/ UNCHANGED ringVars
  <2>1. /\ sending' = sending /\ head' = head
        /\ fifo' = fifo \/ (fifo # << >> /\ fifo' = Tail(fifo))
        /\ tail' = tail \/ tail' = tail + reading
    <3>1. CASE Read
      BY <3>1, EmptySeq, ConcatEmptySeq DEF Read, Arrived, IcTypeOK
    <3>2. CASE PeekType \/ FreeWords \/ UNCHANGED ringVars
      BY <3>2 DEF PeekType, FreeWords, ringVars
    <3>3. QED
      BY <1>4, <3>1, <3>2
  <2>2. Len(fifo') <= Len(fifo) /\ Len(fifo') \in Nat
    BY <1>0, <2>1, HeadTailProperties, LenProperties DEF IcTypeOK
  <2>3. Room' >= Room /\ Room \in Int /\ Room' \in Int
    BY <1>0, <2>1 DEF Room
  <2>4. sending.st = "space" => Need(sending.msg) \in Nat
    BY MessageIs DEF IcTypeOK
  <2>5. QED
    BY <1>0, <2>1, <2>2, <2>3, <2>4 DEF CheckedNeverWaits
<1>5. QED
  BY <1>1, <1>2, <1>3, <1>4 DEF IcNext

\* A step that moves none of the messages keeps where they lie.
LEMMA LayoutKept ==
  ASSUME IcTypeOK, NEW place, NEW msg, Layout(place, msg),
         Len(Written') = Len(Written), \A n \in 1 .. Len(Written) : Written'[n] = Written[n],
         cells' = cells, head' = head, tail' + reading' = tail + reading,
         sending'.st = "push" => sending.st = "push" /\ sending'.msg = sending.msg
  PROVE  Layout(place, msg)'
BY DEF Layout

\* A message that is written lies behind the others, from the old head to the new.
LEMMA LayoutWritten ==
  ASSUME IcTypeOK, WriteMessage, NEW place, NEW msg, Layout(place, msg),
         NEW p2, p2 = Append(place, head'), NEW m2, m2 = Append(msg, sending.msg)
  PROVE  Layout(p2, m2)'
<1> DEFINE m == sending.msg  n0 == Len(msg)
<1>0. /\ place \in Seq(Nat) /\ msg \in Seq(Messages) /\ n0 \in Nat
      /\ Len(place) = n0 + 1 /\ n0 = Len(Written)
      /\ place[n0 + 1] = head /\ place[1] = tail + reading
      /\ head \in Nat /\ tail \in Nat /\ reading \in Nat
  BY LenProperties DEF Layout, IcTypeOK
<1>1. /\ m \in Messages /\ m.len \in Nat /\ Need(m) \in Nat /\ Need(m) = m.len + 1
  BY MessageIs DEF WriteMessage, IcTypeOK
<1>2. /\ head' = head + Need(m) /\ head' \in Nat
      /\ UNCHANGED <<tail, reading, fifo, cache>>
      /\ sending.st = "space" /\ sending'.st = "push" /\ sending'.msg = m
      /\ sending'.off = head % RingWords
  <2>1. /\ head' = head + Need(m) /\ sending.st = "space"
        /\ UNCHANGED <<tail, reading, fifo, cache>>
        /\ sending' = [sending EXCEPT !.st = "push", !.off = head % RingWords]
    BY DEF WriteMessage
  <2>2. sending'.st = "push" /\ sending'.msg = m /\ sending'.off = head % RingWords
    BY <2>1 DEF IcTypeOK, SendRecords
  <2>3. head' \in Nat
    <3>1. head \in Nat /\ Need(m) \in Nat /\ head' = head + Need(m)
      BY <1>0, <1>1, <2>1
    <3> HIDE DEF m
    <3>2. QED
      BY <3>1
  <2>4. QED
    BY <2>1, <2>2, <2>3
<1>3. /\ Arrived' = Arrived /\ Len(Arrived) = n0 /\ Len(Arrived') = n0 /\ Len(Written') = n0 + 1
      /\ \A n \in 1 .. n0 : Written'[n] = Written[n]
      /\ Written'[n0 + 1] = head % RingWords
  <2>1. Arrived' = Arrived
    BY <1>2 DEF Arrived
  <2>2. Len(Arrived) = n0 /\ \A n \in 1 .. n0 : Written[n] = Arrived[n]
    <3>1. /\ Arrived \in Seq(Offsets) /\ Len(Arrived) \in Nat
          /\ Len(Written) = Len(Arrived) + IF sending.st = "push" THEN 1 ELSE 0
          /\ \A n \in 1 .. Len(Arrived) : Written[n] = Arrived[n]
      BY ArrivedIs, LenProperties
    <3>2. Len(Written) = Len(Arrived)
      BY <1>2, <3>1
    <3>3. QED
      BY <1>0, <3>1, <3>2
  <2>3. /\ Len(Written') = n0 + 1
        /\ \A n \in 1 .. n0 : Written'[n] = Arrived[n]
        /\ Written'[n0 + 1] = head % RingWords
    <3>1. Written' = Append(Arrived, head % RingWords)
      BY <1>2, <2>1 DEF Written
    <3>2. Arrived \in Seq(Offsets) /\ head % RingWords \in Offsets
      <4>1. head \in Int /\ RingWords \in Nat \ {0}
        BY <1>0, IcConstants
      <4>2. QED
        BY <4>1, ArrivedIs, DivMod DEF Offsets
    <3>3. QED
      BY <2>2, <3>1, <3>2, AppendProperties
  <2>4. QED
    BY <2>1, <2>2, <2>3
<1>4. /\ p2 \in Seq(Nat) /\ Len(p2) = n0 + 2
      /\ \A n \in 1 .. n0 + 1 : p2[n] = place[n]
      /\ p2[n0 + 2] = head'
  BY <1>0, <1>2, AppendProperties
<1>5. /\ m2 \in Seq(Messages) /\ Len(m2) = n0 + 1
      /\ \A n \in 1 .. n0 : m2[n] = msg[n]
      /\ m2[n0 + 1] = m
  BY <1>0, <1>1, AppendProperties
<1>6. ASSUME NEW n \in 1 .. n0
      PROVE  /\ Written'[n] = p2[n] % RingWords
             /\ p2[n + 1] = p2[n] + Need(m2[n])
             /\ \A k \in 0 .. m2[n].len : cells'[(p2[n] + k) % RingWords] = Word(m2[n], k)
  <2>1. /\ p2[n] = place[n] /\ p2[n + 1] = place[n + 1] /\ m2[n] = msg[n]
        /\ place[n] \in Nat /\ place[n + 1] \in Nat /\ msg[n] \in Messages
    <3>1. n \in 1 .. n0 + 1 /\ n + 1 \in 1 .. n0 + 1
      BY <1>0
    <3>2. place[n] \in Nat /\ place[n + 1] \in Nat /\ msg[n] \in Messages
      BY PlacesInRing
    <3>3. QED
      BY <1>4, <1>5, <3>1, <3>2
  <2>2. \A k \in 0 .. msg[n].len : cells'[(place[n] + k) % RingWords] = Word(msg[n], k)
    BY PlacesInRing, WrittenBehind DEF Layout
  <2>3. Written[n] = place[n] % RingWords /\ place[n + 1] = place[n] + Need(msg[n])
    BY DEF Layout
  <2>4. QED
    BY <1>3, <2>1, <2>2, <2>3
<1>7. /\ Written'[n0 + 1] = p2[n0 + 1] % RingWords
      /\ p2[(n0 + 1) + 1] = p2[n0 + 1] + Need(m2[n0 + 1])
      /\ \A k \in 0 .. m2[n0 + 1].len :
           cells'[(p2[n0 + 1] + k) % RingWords] = Word(m2[n0 + 1], k)
  <2>1. p2[n0 + 1] = head /\ p2[(n0 + 1) + 1] = head' /\ m2[n0 + 1] = m
    BY <1>0, <1>4, <1>5
  <2>3. \A k \in 0 .. m.len : cells'[(head + k) % RingWords] = Word(m, k)
    BY WrittenBehind
  <2>4. QED
    BY <1>2, <1>3, <2>1, <2>3
<1>8. p2[1] = tail' + reading'
  BY <1>0, <1>2, <1>4
<1> HIDE DEF n0, m
<1>9. \A n \in 1 .. Len(m2) : n \in 1 .. n0 \/ n = n0 + 1
  BY <1>0, <1>5
<1>10. /\ Len(m2) = Len(Written') /\ Len(p2) = Len(m2) + 1 /\ p2[Len(m2) + 1] = head'
       /\ m2[Len(m2)] = sending'.msg
  BY <1>0, <1>2, <1>3, <1>4, <1>5
<1>11. ASSUME NEW a \in 1 .. Len(p2), NEW b \in 1 .. Len(p2), a <= b
       PROVE  p2[a] <= p2[b]
  <2>1. \A n \in 1 .. Len(p2) : n \in 1 .. n0 + 1 \/ n = n0 + 2
    BY <1>0, <1>4
  <2>2. \A n \in 1 .. n0 + 1 : p2[n] = place[n] /\ place[n] \in Nat
    <3>1. \A n \in 1 .. n0 + 1 : place[n] \in Nat
      BY <1>0, ElementOfSeq
    <3>2. QED
      BY <1>4, <3>1
  <2>3. \A n \in 1 .. n0 + 1 : place[n] <= head
    <3>1. n0 + 1 \in 1 .. Len(place) /\ Len(place) = n0 + 1
      BY <1>0
    <3>2. QED
      BY <1>0, <3>1 DEF Layout
  <2>4. head <= head'
    <3>1. head \in Nat /\ head' \in Nat
      BY <1>0, <1>2
    <3>2. QED
      BY <1>1, <1>2, <3>1
  <2>5. CASE b \in 1 .. n0 + 1
    <3>1. a \in 1 .. n0 + 1
      BY <1>0, <1>4, <1>11, <2>5
    <3>2. place[a] <= place[b]
      BY <1>0, <1>11, <2>5, <3>1 DEF Layout
    <3>3. QED
      BY <2>2, <2>5, <3>1, <3>2
  <2>6. CASE b = n0 + 2 /\ a \in 1 .. n0 + 1
    BY <1>0, <1>2, <1>4, <2>2, <2>3, <2>4, <2>6
  <2>7. CASE b = n0 + 2 /\ a = n0 + 2
    BY <1>2, <1>4, <2>7
  <2>8. QED
    BY <2>1, <2>5, <2>6, <2>7
<1>12. QED
  BY <1>4, <1>5, <1>6, <1>7, <1>8, <1>9, <1>10, <1>11 DEF Layout

\* What is read is the first message, and the others lie behind the words that the
\* reader has then to free (ic_ring.c:132-181).
LEMMA LayoutRead ==
  ASSUME IcTypeOK, Read, NEW place, NEW msg, Layout(place, msg),
         NEW p2, p2 = Tail(place), NEW m2, m2 = Tail(msg)
  PROVE  /\ Layout(p2, m2)' /\ Arrived' = Tail(Arrived)
         /\ At(Head(Arrived)) = msg[1] /\ reading' \in Nat /\ 1 \in 1 .. Len(msg)
<1> DEFINE n0 == Len(msg)
<1>0. /\ place \in Seq(Nat) /\ msg \in Seq(Messages) /\ n0 \in Nat
      /\ Len(place) = n0 + 1 /\ n0 = Len(Written)
      /\ place[n0 + 1] = head /\ place[1] = tail + reading
      /\ head \in Nat /\ tail \in Nat /\ reading = 0
      /\ Arrived # << >> /\ UNCHANGED <<cells, head, tail, sending, sends>>
      /\ Arrived \in Seq(Offsets) /\ Written \in Seq(Offsets)
      /\ Len(Written) = Len(Arrived) + IF sending.st = "push" THEN 1 ELSE 0
      /\ \A n \in 1 .. Len(Arrived) : Written[n] = Arrived[n]
      /\ sending.st = "push" => Written[Len(Arrived) + 1] = sending.off
  BY LenProperties, ArrivedIs DEF Layout, IcTypeOK, Read
<1>1. Arrived' = Tail(Arrived)
  BY <1>0, ArrivedTaken DEF Read
<1>2. /\ Len(Arrived) \in Nat \ {0} /\ Head(Arrived) = Arrived[1]
      /\ Tail(Arrived) \in Seq(Offsets) /\ Len(Tail(Arrived)) = Len(Arrived) - 1
      /\ \A n \in 1 .. Len(Arrived) - 1 : Tail(Arrived)[n] = Arrived[n + 1]
  BY <1>0, EmptySeq, HeadTailProperties
<1> DEFINE l == Len(Arrived)
<1>3. l \in Nat \ {0} /\ (sending.st = "push" => n0 = l + 1) /\ (sending.st # "push" => n0 = l)
  <2>1. CASE sending.st = "push"
    BY <1>0, <1>2, <2>1
  <2>2. CASE sending.st # "push"
    BY <1>0, <1>2, <2>2
  <2>3. QED
    BY <1>2, <2>1, <2>2
<1>4. 1 \in 1 .. n0 /\ 1 \in 1 .. l /\ n0 - 1 \in Nat
  BY <1>0, <1>3
<1>5. At(Head(Arrived)) = msg[1]
  <2>1. At(Written[1]) = msg[1]
    BY <1>4, FoundWhole
  <2>2. QED
    BY <1>0, <1>2, <1>4, <2>1
<1>6. /\ reading' = Need(msg[1]) /\ reading' \in Nat /\ place[2] = place[1] + Need(msg[1])
      /\ msg[1] \in Messages /\ place[1] \in Nat
  <2>1. /\ msg[1] \in Messages /\ place[1] \in Nat /\ place[1 + 1] = place[1] + Need(msg[1])
    BY <1>4, PlacesInRing DEF Layout
  <2>2. QED
    BY <1>5, <2>1, MessageIs DEF Read
<1>7. /\ Len(Written') = n0 - 1
      /\ \A n \in 1 .. n0 - 1 : Written'[n] = Written[n + 1]
  <2>1. CASE sending.st # "push"
    <3>1. Written' = Tail(Arrived)
      BY <1>0, <1>1, <2>1 DEF Written
    <3>2. \A n \in 1 .. l - 1 : n + 1 \in 1 .. l
      BY <1>3
    <3>3. QED
      BY <1>0, <1>2, <1>3, <2>1, <3>1, <3>2
  <2>2. CASE sending.st = "push"
    <3>1. Written' = Append(Tail(Arrived), sending.off) /\ sending.off \in Offsets
      BY <1>0, <1>1, <2>2 DEF Written, IcTypeOK, SendRecords
    <3>2. /\ Len(Written') = l
          /\ \A n \in 1 .. l - 1 : Written'[n] = Arrived[n + 1]
          /\ Written'[l] = sending.off
      <4>1. Len(Tail(Arrived)) + 1 = l
        BY <1>2
      <4>2. QED
        BY <1>2, <3>1, <4>1, AppendProperties
    <3>3. /\ \A n \in 1 .. l - 1 : n + 1 \in 1 .. l /\ Written[n + 1] = Arrived[n + 1]
          /\ \A n \in 1 .. l : n \in 1 .. l - 1 \/ n = l
      BY <1>0, <1>3
    <3>4. n0 - 1 = l /\ Written[l + 1] = sending.off
      BY <1>0, <1>3, <2>2
    <3>5. QED
      BY <3>2, <3>3, <3>4
  <2>3. QED
    BY <2>1, <2>2
<1>8. /\ p2 \in Seq(Nat) /\ Len(p2) = n0 /\ \A n \in 1 .. n0 : p2[n] = place[n + 1]
  <2>1. place # << >>
    BY <1>0, EmptySeq
  <2>2. Len(place) - 1 = n0
    BY <1>0
  <2>3. QED
    BY <1>0, <2>1, <2>2, HeadTailProperties
<1>9. /\ m2 \in Seq(Messages) /\ Len(m2) = n0 - 1 /\ \A n \in 1 .. n0 - 1 : m2[n] = msg[n + 1]
  <2>1. msg # << >>
    BY <1>0, <1>4, EmptySeq
  <2>2. QED
    BY <1>0, <2>1, HeadTailProperties
<1>10. ASSUME NEW n \in 1 .. n0 - 1
       PROVE  /\ Written'[n] = p2[n] % RingWords
              /\ p2[n + 1] = p2[n] + Need(m2[n])
              /\ \A k \in 0 .. m2[n].len : cells'[(p2[n] + k) % RingWords] = Word(m2[n], k)
  <2> DEFINE i == n + 1
  <2>1. i \in 1 .. n0 /\ n \in 1 .. n0 /\ i \in 2 .. n0
    <3>1. n0 \in Nat /\ n \in 1 .. n0 - 1
      BY <1>0
    <3> HIDE DEF n0
    <3>2. QED
      BY <3>1
  <2>2. /\ Written'[n] = Written[i] /\ p2[n] = place[i] /\ p2[i] = place[i + 1]
        /\ m2[n] = msg[i]
    BY <1>7, <1>8, <1>9, <2>1
  <2> HIDE DEF i
  <2>3. /\ Written[i] = place[i] % RingWords
        /\ place[i + 1] = place[i] + Need(msg[i])
        /\ \A k \in 0 .. msg[i].len : cells[(place[i] + k) % RingWords] = Word(msg[i], k)
    BY <2>1 DEF Layout
  <2>4. QED
    BY <1>0, <2>2, <2>3 DEF i
<1>11. ASSUME NEW a \in 1 .. Len(p2), NEW b \in 1 .. Len(p2), a <= b
       PROVE  p2[a] <= p2[b]
  <2>1. /\ a + 1 \in 1 .. Len(place) /\ b + 1 \in 1 .. Len(place) /\ a + 1 <= b + 1
        /\ a \in 1 .. n0 /\ b \in 1 .. n0
    <3>1. a \in 1 .. n0 /\ b \in 1 .. n0 /\ a <= b
      BY <1>8, <1>11
    <3>2. n0 \in Nat /\ Len(place) = n0 + 1
      BY <1>0
    <3> HIDE DEF n0
    <3>3. QED
      BY <3>1, <3>2
  <2>2. place[a + 1] <= place[b + 1]
    BY <2>1 DEF Layout
  <2>3. QED
    BY <1>8, <2>1, <2>2
<1>12. /\ p2[1] = tail' + reading' /\ p2[Len(m2) + 1] = head'
       /\ Len(m2) = Len(Written') /\ Len(p2) = Len(m2) + 1
  <2>1. p2[1] = place[2] /\ p2[n0] = place[n0 + 1] /\ n0 \in 1 .. n0 /\ (n0 - 1) + 1 = n0
    <3>1. 1 + 1 = 2 /\ n0 \in 1 .. n0
      BY <1>0, <1>4
    <3>2. QED
      BY <1>0, <1>4, <1>8, <3>1
  <2>2. place[2] = tail' + reading'
    BY <1>0, <1>6
  <2>3. QED
    BY <1>0, <1>7, <1>8, <1>9, <2>1, <2>2
<1>13. sending'.st = "push" => m2[Len(m2)] = sending'.msg
  <2> SUFFICES ASSUME sending'.st = "push" PROVE m2[Len(m2)] = sending'.msg
    OBVIOUS
  <2>1. sending.st = "push" /\ sending' = sending
    BY <1>0
  <2>2. n0 - 1 = l /\ n0 - 1 \in 1 .. n0 - 1 /\ (n0 - 1) + 1 = n0
    BY <1>0, <1>3, <2>1
  <2>3. m2[n0 - 1] = msg[n0]
    BY <1>9, <2>2
  <2>4. msg[n0] = sending.msg
    BY <2>1 DEF Layout
  <2>5. QED
    BY <1>9, <2>1, <2>3, <2>4
<1>14. Layout(p2, m2)'
  BY <1>8, <1>9, <1>10, <1>11, <1>12, <1>13 DEF Layout
<1>15. QED
  BY <1>1, <1>4, <1>5, <1>6, <1>14

\* Of the messages that lie in the ring the queue has those that were pushed.
LEMMA QueuedAre ==
  ASSUME IcTypeOK, NEW place, NEW msg, Layout(place, msg)
  PROVE  /\ Len(Arrived) \in Nat /\ Len(Arrived) <= FifoSlots + 1
         /\ Len(msg) = Len(Arrived) + IF sending.st = "push" THEN 1 ELSE 0
         /\ msg \in Seq(Messages)
         /\ \A n \in 1 .. Len(Arrived) : At(Arrived[n]) = msg[n] /\ n \in 1 .. Len(msg)
         /\ Queued = [n \in 1 .. Len(Arrived) |-> msg[n]]
         /\ Queued \in Seq(Messages) /\ Len(Queued) = Len(Arrived)
<1>1. /\ Arrived \in Seq(Offsets) /\ Len(Arrived) = Len(cache) + Len(fifo)
      /\ Len(cache) \in Nat /\ Len(fifo) \in Nat /\ FifoSlots \in Nat
      /\ Len(cache) <= 1 /\ Len(fifo) <= FifoSlots
      /\ Len(msg) = Len(Arrived) + IF sending.st = "push" THEN 1 ELSE 0
      /\ \A n \in 1 .. Len(Arrived) : Written[n] = Arrived[n]
      /\ msg \in Seq(Messages)
  BY ArrivedIs, LenProperties, IcConstants DEF IcTypeOK, Layout
<1>2. Len(Arrived) \in Nat /\ Len(Arrived) <= FifoSlots + 1
  BY <1>1
<1>3. \A n \in 1 .. Len(Arrived) : n \in 1 .. Len(msg)
  BY <1>1, <1>2
<1>4. \A n \in 1 .. Len(Arrived) : At(Arrived[n]) = msg[n]
  BY <1>1, <1>3, FoundWhole
<1>5. Queued = [n \in 1 .. Len(Arrived) |-> msg[n]]
  BY <1>4 DEF Queued
<1>6. \A n \in 1 .. Len(Arrived) : msg[n] \in Messages
  BY <1>1, <1>3, ElementOfSeq
<1>7. Queued \in Seq(Messages) /\ Len(Queued) = Len(Arrived)
  BY <1>2, <1>5, <1>6
<1>8. QED
  BY <1>1, <1>2, <1>3, <1>4, <1>5, <1>7

\* Beginning to send moves nothing, or drops the message.
LEMMA EnterStep ==
  ASSUME IcTypeOK, NEW place, NEW msg, Layout(place, msg),
         NEW len \in 0 .. MaxPayload, NEW checked \in BOOLEAN, Enter(len, checked)
  PROVE  /\ IcTypeOK' /\ Layout(place, msg)' /\ UNCHANGED <<Queued, got>>
<1> DEFINE m == [id |-> sends + 1, len |-> len]
<1>1. /\ UNCHANGED <<cells, head, tail, fifo, cache, reading, got>>
      /\ sending.st = "idle" /\ sends' = sends + 1 /\ sends < MaxSends
      /\ sending' \in {NoSend, [st |-> "space", checked |-> checked, off |-> 0, msg |-> m]}
  BY DEF Enter
<1>2. m \in Messages
  BY <1>1, IcConstants DEF IcTypeOK, Messages
<1>3. sending' \in SendRecords /\ sending'.st # "push"
      /\ (sending'.st # "idle" => sending'.msg \in Messages)
  <2>1. 0 \in Offsets
    BY IcConstants DEF Offsets
  <2>2. NoSend \in SendRecords
    BY <2>1 DEF NoSend, SendRecords
  <2>3. CASE sending' = NoSend
    BY <2>2, <2>3 DEF NoSend
  <2>4. CASE sending' = [st |-> "space", checked |-> checked, off |-> 0, msg |-> m]
    <3> HIDE DEF m
    <3>1. sending' \in SendRecords
      BY <1>2, <2>1, <2>4 DEF SendRecords
    <3>2. QED
      BY <1>2, <2>4, <3>1
  <2>5. QED
    BY <1>1, <2>3, <2>4
<1>4. IcTypeOK'
  BY <1>1, <1>3 DEF IcTypeOK
<1>5. Arrived' = Arrived /\ Written' = Written
  BY <1>1, <1>3 DEF Arrived, Written
<1>6. Layout(place, msg)'
  BY <1>1, <1>3, <1>5, LayoutKept
<1>7. Queued' = Queued
  BY <1>1, <1>5 DEF Queued, At
<1>8. QED
  BY <1>1, <1>4, <1>6, <1>7

\* Pushing the offset puts the message into the queue, which has a place for it.
LEMMA PushStep ==
  ASSUME IcTypeOK, Push, NEW place, NEW msg, Layout(place, msg)
  PROVE  /\ IcTypeOK' /\ Layout(place, msg)'
         /\ Queued' = Append(Queued, sending.msg) /\ sending.msg \in Messages
         /\ Len(Queued) < FifoSlots + 1 /\ got' = got
<1>1. /\ sending.st = "push" /\ Len(fifo) < FifoSlots /\ fifo' = Append(fifo, sending.off)
      /\ sending' = NoSend /\ UNCHANGED <<cells, head, tail, cache, reading, sends, got>>
      /\ sending.off \in Offsets /\ sending.msg \in Messages
      /\ fifo \in Seq(Offsets) /\ cache \in Seq(Offsets)
      /\ Len(fifo) \in Nat /\ Len(cache) \in Nat /\ Len(cache) <= 1 /\ FifoSlots \in Nat
  BY IcConstants, LenProperties DEF Push, IcTypeOK, SendRecords
<1>2. /\ fifo' \in Seq(Offsets) /\ Len(fifo') = Len(fifo) + 1
      /\ Len(fifo') <= FifoSlots
  BY <1>1, AppendProperties
<1>3. NoSend \in SendRecords /\ NoSend.st = "idle"
  BY IcConstants DEF NoSend, SendRecords, Offsets
<1>4. IcTypeOK'
  BY <1>1, <1>2, <1>3 DEF IcTypeOK
<1>5. Arrived' = Append(Arrived, sending.off)
  <2>1. /\ fifo' = fifo \o <<sending.off>> /\ <<sending.off>> \in Seq(Offsets)
        /\ Arrived \in Seq(Offsets)
    BY <1>1, AppendIsConcat, ArrivedIs
  <2>2. cache \o (fifo \o <<sending.off>>) = (cache \o fifo) \o <<sending.off>>
    BY <1>1, <2>1, ConcatAssociative
  <2>3. Append(Arrived, sending.off) = Arrived \o <<sending.off>>
    BY <1>1, <2>1, AppendIsConcat
  <2>4. QED
    BY <1>1, <2>1, <2>2, <2>3 DEF Arrived
<1>6. Written' = Written
  BY <1>1, <1>3, <1>5 DEF Written
<1>7. Layout(place, msg)'
  BY <1>1, <1>3, <1>6, LayoutKept
<1> DEFINE l == Len(Arrived)
<1>8. /\ l \in Nat /\ Len(msg) = l + 1 /\ msg \in Seq(Messages)
      /\ Queued \in Seq(Messages) /\ Len(Queued) = l
      /\ \A n \in 1 .. l : Queued[n] = msg[n] /\ At(Arrived[n]) = msg[n]
      /\ Arrived \in Seq(Offsets)
  BY <1>1, QueuedAre, ArrivedIs DEF Queued
<1>9. Len(Queued) < FifoSlots + 1
  <2>1. l = Len(cache) + Len(fifo)
    BY ArrivedIs
  <2>2. QED
    BY <1>1, <1>8, <2>1
<1>10. At(sending.off) = sending.msg
  <2>1. Written[l + 1] = sending.off /\ l + 1 \in 1 .. Len(msg)
    BY <1>1, <1>8, ArrivedIs
  <2>2. msg[l + 1] = sending.msg
    BY <1>1, <1>8 DEF Layout
  <2>3. QED
    BY <2>1, <2>2, FoundWhole
<1>11. Queued' = Append(Queued, sending.msg)
  <2>0. \A n \in 1 .. l + 1 : (n \in 1 .. l /\ n <= l) \/ (n = l + 1 /\ ~(n <= l))
    <3> HIDE DEF l
    <3>1. l \in Nat
      BY <1>8
    <3>2. QED
      BY <3>1
  <2>1. /\ Len(Arrived') = l + 1 /\ \A n \in 1 .. l : Arrived'[n] = Arrived[n]
        /\ Arrived'[l + 1] = sending.off
    BY <1>1, <1>5, <1>8, AppendProperties
  <2>2. \A off : At(off)' = At(off)
    BY <1>1 DEF At
  <2>3. Queued' = [n \in 1 .. l + 1 |-> At(Arrived'[n])]
    BY <2>1, <2>2 DEF Queued
  <2>4. \A n \in 1 .. l + 1 : At(Arrived'[n]) = IF n <= l THEN Queued[n] ELSE sending.msg
    <3> SUFFICES ASSUME NEW n \in 1 .. l + 1
                 PROVE  At(Arrived'[n]) = IF n <= l THEN Queued[n] ELSE sending.msg
      OBVIOUS
    <3>1. CASE n \in 1 .. l /\ n <= l
      BY <1>8, <2>1, <3>1
    <3>2. CASE n = l + 1 /\ ~(n <= l)
      BY <1>10, <2>1, <3>2
    <3>3. QED
      BY <2>0, <3>1, <3>2
  <2>5. /\ Append(Queued, sending.msg) \in Seq(Messages)
        /\ Len(Append(Queued, sending.msg)) = l + 1
        /\ \A n \in 1 .. l + 1 :
             Append(Queued, sending.msg)[n] = IF n <= l THEN Queued[n] ELSE sending.msg
    <3> DEFINE q == Queued  e == sending.msg
    <3>1. q \in Seq(Messages) /\ e \in Messages /\ Len(q) = l
      BY <1>1, <1>8
    <3> HIDE DEF q, e
    <3>2. /\ Append(q, e) \in Seq(Messages) /\ Len(Append(q, e)) = l + 1
          /\ \A n \in 1 .. l : Append(q, e)[n] = q[n]
          /\ Append(q, e)[l + 1] = e
      BY <3>1, AppendProperties
    <3>3. QED
      BY <2>0, <3>2 DEF q, e
  <2>6. Append(Queued, sending.msg) = [n \in 1 .. l + 1 |-> Append(Queued, sending.msg)[n]]
    BY <2>5, SequenceAsFunction
  <2>7. QED
    BY <2>3, <2>4, <2>5, <2>6
<1>12. QED
  BY <1>1, <1>4, <1>7, <1>9, <1>11

\* Writing changes nothing that waits, across the end of the ring too.
LEMMA WriteStep ==
  ASSUME IcTypeOK, WriteMessage, NEW place, NEW msg, Layout(place, msg)
  PROVE  IcTypeOK' /\ (\E p2, m2 : Layout(p2, m2)') /\ UNCHANGED <<Queued, got>>
<1>1. /\ sending.st = "space" /\ sending.msg \in Messages /\ Room >= Need(sending.msg)
      /\ sending' = [sending EXCEPT !.st = "push", !.off = head % RingWords]
      /\ head' = head + Need(sending.msg)
      /\ UNCHANGED <<tail, fifo, cache, reading, sends, got>>
  BY DEF WriteMessage, IcTypeOK
<1>2. DOMAIN cells' = Offsets
  BY WrittenBehind
<1>3. /\ sending' \in SendRecords /\ sending'.msg \in Messages
  <2>1. head % RingWords \in Offsets
    <3>1. head \in Int /\ RingWords \in Nat \ {0}
      BY IcConstants DEF IcTypeOK
    <3>2. QED
      BY <3>1, DivMod DEF Offsets
  <2>2. QED
    BY <1>1, <2>1 DEF IcTypeOK, SendRecords
<1>4. head' \in Nat /\ tail <= head' /\ head' - tail <= RingWords
  <2> DEFINE d == Need(sending.msg)
  <2>1. d \in Nat /\ head \in Nat /\ tail \in Nat /\ tail <= head /\ RingWords \in Nat
    BY <1>1, MessageIs, IcConstants DEF IcTypeOK
  <2>2. head' = head + d /\ RingWords - (head - tail) >= d
    BY <1>1 DEF Room
  <2> HIDE DEF d
  <2>3. QED
    BY <2>1, <2>2
<1>5. IcTypeOK'
  BY <1>1, <1>2, <1>3, <1>4 DEF IcTypeOK
<1>6. \E p2, m2 : Layout(p2, m2)'
  BY LayoutWritten
<1>7. Arrived' = Arrived
  BY <1>1 DEF Arrived
<1>8. ASSUME NEW n \in 1 .. Len(Arrived)
      PROVE  At(Arrived[n])' = At(Arrived[n])
  <2> DEFINE w == Arrived[n]  m == msg[n]  p == place[n]
  <2>1. n \in 1 .. Len(msg) /\ At(w) = m /\ Written[n] = w
    BY QueuedAre, ArrivedIs
  <2>2. /\ m \in Messages /\ p \in Nat /\ w = p % RingWords
        /\ \A k \in 0 .. m.len : p + k \in tail .. head - 1
        /\ \A k \in 0 .. m.len : cells[(p + k) % RingWords] = Word(m, k)
    BY <2>1, PlacesInRing DEF Layout
  <2>3. \A k \in 0 .. m.len : cells'[(p + k) % RingWords] = Word(m, k)
    BY <2>2, WrittenBehind
  <2>4. w' = w
    BY <1>7
  <2> HIDE DEF w, m, p
  <2>5. /\ cells'[w].of = m
        /\ \A k \in 0 .. m.len : cells'[(w + k) % RingWords] = Word(m, k)
    BY <2>2, <2>3, Found
  <2>6. At(w)' = m
    BY <2>4, <2>5 DEF At
  <2>7. QED
    BY <2>1, <2>6 DEF w
<1>9. Queued' = Queued
  BY <1>7, <1>8 DEF Queued
<1>10. QED
  BY <1>1, <1>5, <1>6, <1>9

\* Peeking changes nothing in the queue.
LEMMA PeekStep ==
  ASSUME IcTypeOK, PeekType, NEW place, NEW msg, Layout(place, msg)
  PROVE  IcTypeOK' /\ Layout(place, msg)' /\ UNCHANGED <<Queued, got>>
<1>1. /\ cache = << >> /\ fifo # << >> /\ cache' = <<Head(fifo)>> /\ fifo' = Tail(fifo)
      /\ UNCHANGED <<cells, head, tail, sending, reading, sends, got>>
      /\ fifo \in Seq(Offsets) /\ Len(fifo) <= FifoSlots /\ FifoSlots \in Nat
  BY IcConstants DEF PeekType, IcTypeOK
<1>2. /\ cache' \in Seq(Offsets) /\ Len(cache') = 1
      /\ fifo' \in Seq(Offsets) /\ Len(fifo') <= FifoSlots
  BY <1>1, HeadTailProperties, LenProperties
<1>3. IcTypeOK'
  BY <1>1, <1>2 DEF IcTypeOK
<1>4. Arrived' = Arrived
  BY <1>1, ArrivedCached
<1>5. Written' = Written
  BY <1>1, <1>4 DEF Written
<1>6. Layout(place, msg)'
  BY <1>1, <1>5, LayoutKept
<1>7. QED
  BY <1>1, <1>3, <1>4, <1>6 DEF Queued, At

\* Freeing releases the words of the message read and no more.
LEMMA FreeStep ==
  ASSUME IcTypeOK, FreeWords, NEW place, NEW msg, Layout(place, msg)
  PROVE  IcTypeOK' /\ Layout(place, msg)' /\ UNCHANGED <<Queued, got>>
<1>1. /\ tail' = tail + reading /\ reading' = 0
      /\ UNCHANGED <<cells, head, fifo, cache, sending, sends, got>>
      /\ tail \in Nat /\ reading \in Nat /\ head \in Nat
      /\ head - tail <= RingWords /\ RingWords \in Nat
  BY IcConstants DEF FreeWords, IcTypeOK
<1>2. tail + reading <= head
  BY PlacesInRing
<1>3. tail' \in Nat /\ tail' <= head' /\ head' - tail' <= RingWords /\ reading' \in Nat
  BY <1>1, <1>2
<1>4. IcTypeOK'
  BY <1>1, <1>3 DEF IcTypeOK
<1>5. Arrived' = Arrived /\ Written' = Written
  BY <1>1 DEF Arrived, Written
<1>6. tail' + reading' = tail + reading
  BY <1>1
<1>7. Layout(place, msg)'
  BY <1>1, <1>5, <1>6, LayoutKept
<1>8. QED
  BY <1>1, <1>4, <1>5, <1>7 DEF Queued, At

\* Reading takes the message at the front of the queue, whole.
LEMMA ReadStep ==
  ASSUME IcTypeOK, Read, NEW place, NEW msg, Layout(place, msg)
  PROVE  /\ IcTypeOK' /\ (\E p2, m2 : Layout(p2, m2)')
         /\ Queued # << >> /\ got' = Append(got, Head(Queued)) /\ Queued' = Tail(Queued)
<1>1. /\ Arrived # << >> /\ UNCHANGED <<cells, head, tail, sending, sends>>
      /\ got' = Append(got, At(Head(Arrived)))
      /\ fifo \in Seq(Offsets) /\ Len(fifo) <= FifoSlots
      /\ cache \in Seq(Offsets) /\ Len(cache) <= 1
      /\ FifoSlots \in Nat /\ Len(fifo) \in Nat
  BY IcConstants, LenProperties DEF Read, IcTypeOK
<1>2. /\ \E p2, m2 : Layout(p2, m2)'
      /\ Arrived' = Tail(Arrived) /\ At(Head(Arrived)) = msg[1] /\ reading' \in Nat
  BY LayoutRead
<1>3. fifo' \in Seq(Offsets) /\ Len(fifo') <= FifoSlots /\ cache' \in Seq(Offsets) /\ Len(cache') <= 1
  <2>1. CASE cache # << >>
    BY <1>1, <2>1, EmptySeq DEF Read
  <2>2. CASE cache = << >>
    <3>1. fifo # << >> /\ fifo' = Tail(fifo) /\ cache' = cache
      BY <1>1, <2>2, ConcatEmptySeq DEF Read, Arrived
    <3>2. QED
      BY <1>1, <3>1, HeadTailProperties
  <2>3. QED
    BY <2>1, <2>2
<1>4. IcTypeOK'
  BY <1>1, <1>2, <1>3 DEF IcTypeOK
<1> DEFINE l == Len(Arrived)
<1>5. /\ l \in Nat \ {0} /\ Head(Arrived) = Arrived[1]
      /\ Tail(Arrived) \in Seq(Offsets) /\ Len(Tail(Arrived)) = l - 1
      /\ \A n \in 1 .. l - 1 : Tail(Arrived)[n] = Arrived[n + 1]
  BY <1>1, ArrivedIs, EmptySeq, HeadTailProperties
<1>6. /\ Queued \in Seq(Messages) /\ Len(Queued) = l
      /\ \A n \in 1 .. l : Queued[n] = At(Arrived[n])
  BY QueuedAre DEF Queued
<1>7. /\ Queued # << >> /\ Head(Queued) = Queued[1]
      /\ Tail(Queued) \in Seq(Messages) /\ Len(Tail(Queued)) = l - 1
      /\ \A n \in 1 .. l - 1 : Tail(Queued)[n] = Queued[n + 1]
  BY <1>5, <1>6, EmptySeq, HeadTailProperties
<1>8. 1 \in 1 .. l /\ \A n \in 1 .. l - 1 : n + 1 \in 1 .. l
  <2> HIDE DEF l
  <2>1. QED
    BY <1>5
<1>9. got' = Append(got, Head(Queued))
  BY <1>1, <1>5, <1>6, <1>7, <1>8
<1>10. Queued' = Tail(Queued)
  <2>1. \A off : At(off)' = At(off)
    BY <1>1 DEF At
  <2>2. Queued' = [n \in 1 .. l - 1 |-> At(Tail(Arrived)[n])]
    BY <1>2, <1>5, <2>1 DEF Queued
  <2>3. \A n \in 1 .. l - 1 : At(Tail(Arrived)[n]) = Tail(Queued)[n]
    BY <1>5, <1>6, <1>7, <1>8
  <2>4. Tail(Queued) = [n \in 1 .. l - 1 |-> Tail(Queued)[n]]
    BY <1>7, SequenceAsFunction
  <2>5. QED
    BY <2>2, <2>3, <2>4
<1>11. QED
  BY <1>2, <1>4, <1>7, <1>9, <1>10

-----------------------------------------------------------------------------
\* Together: every step keeps the layout and is one of the queue, or none.
LEMMA IcStep ==
  ASSUME IcTypeOK, NEW place, NEW msg, Layout(place, msg), [IcNext]_ringVars
  PROVE  /\ IcTypeOK' /\ (\E p2, m2 : Layout(p2, m2)')
         /\ [Promise!Next]_<<Queued, got, {}>>
<1>1. ASSUME NEW len \in 0 .. MaxPayload, NEW checked \in BOOLEAN, Enter(len, checked)
      PROVE  /\ IcTypeOK' /\ (\E p2, m2 : Layout(p2, m2)') /\ UNCHANGED <<Queued, got>>
  <2>1. IcTypeOK' /\ Layout(place, msg)' /\ UNCHANGED <<Queued, got>>
    BY <1>1, EnterStep
  <2>2. QED
    BY <2>1
<1>2. CASE WriteMessage
  BY <1>2, WriteStep
<1>3. CASE Push
  <2>1. /\ IcTypeOK' /\ Layout(place, msg)'
        /\ Queued' = Append(Queued, sending.msg) /\ sending.msg \in Messages
        /\ Len(Queued) < FifoSlots + 1 /\ got' = got
    BY <1>3, PushStep
  <2>2. Promise!Put(sending.msg)
    BY <2>1 DEF Promise!Put, Queued
  <2>3. QED
    BY <2>1, <2>2 DEF Promise!Next
<1>4. CASE PeekType
  <2>1. IcTypeOK' /\ Layout(place, msg)' /\ UNCHANGED <<Queued, got>>
    BY <1>4, PeekStep
  <2>2. QED
    BY <2>1
<1>5. CASE Read
  <2>1. /\ IcTypeOK' /\ (\E p2, m2 : Layout(p2, m2)')
        /\ Queued # << >> /\ got' = Append(got, Head(Queued)) /\ Queued' = Tail(Queued)
    BY <1>5, ReadStep
  <2>2. Promise!Get
    BY <2>1 DEF Promise!Get, Queued
  <2>3. QED
    BY <2>1, <2>2 DEF Promise!Next
<1>6. CASE FreeWords
  <2>1. IcTypeOK' /\ Layout(place, msg)' /\ UNCHANGED <<Queued, got>>
    BY <1>6, FreeStep
  <2>2. QED
    BY <2>1
<1>7. CASE UNCHANGED ringVars
  <2>1. UNCHANGED <<Queued, got>> /\ IcTypeOK'
    BY <1>7 DEF ringVars, Queued, At, Arrived, IcTypeOK
  <2>2. Layout(place, msg)'
    BY <1>7 DEF ringVars, Layout, Written, Arrived
  <2>3. QED
    BY <2>1, <2>2
<1>8. QED
  BY <1>1, <1>2, <1>3, <1>4, <1>5, <1>6, <1>7 DEF IcNext

\* The same of the invariant.
LEMMA IcStepInvariant ==
  ASSUME IcInv, [IcNext]_ringVars
  PROVE  IcInv' /\ [Promise!Next]_<<Queued, got, {}>>
<1>1. PICK place, msg : Layout(place, msg)
  BY DEF IcInv
<1>2. /\ IcTypeOK' /\ (\E p2, m2 : Layout(p2, m2)')
      /\ [Promise!Next]_<<Queued, got, {}>>
  BY <1>1, IcStep DEF IcInv
<1>3. CheckedNeverWaits'
  BY CheckedStep DEF IcInv
<1>4. QED
  BY <1>2, <1>3 DEF IcInv

\* The inductive invariant of the inter-core ring.
THEOREM IcInvariant == IcSpec => []IcInv
<1>1. IcInv /\ [IcNext]_ringVars => IcInv'
  BY IcStepInvariant
<1>2. QED
  BY <1>1, IcInitInvariant, PTL DEF IcSpec

\* A core that asked ic_send_avail first never spins inside ic_send, for every size
\* of the ring, the FIFO and the messages (ic_ring.c:56-119).
THEOREM CheckedSendNeverWaits == IcSpec => []CheckedNeverWaits
<1>1. IcInv => CheckedNeverWaits
  BY DEF IcInv
<1>2. QED
  BY <1>1, IcInvariant, PTL

\* The shared ring and the FIFO together implement the bounded queue: messages come
\* out whole, once and in the order they were pushed, however the two cores
\* interleave and wherever a message wraps around the end of the ring.
THEOREM IcRingIsQueue == IcSpec => RingIsQueue
<1>1. IcInit => Promise!Init
  <2> SUFFICES ASSUME IcInit PROVE Promise!Init
    OBVIOUS
  <2>1. Arrived = << >>
    BY ConcatEmptySeq, EmptySeq DEF IcInit, Arrived
  <2>2. Queued = << >>
    BY <2>1 DEF Queued
  <2>3. QED
    BY <2>2 DEF IcInit, Promise!Init, Queued
<1>2. IcInv /\ [IcNext]_ringVars => [Promise!Next]_<<Queued, got, {}>>
  BY IcStepInvariant
<1>3. QED
  BY <1>1, <1>2, IcInvariant, PTL DEF IcSpec, RingIsQueue, Promise!Spec, Queued

-----------------------------------------------------------------------------
(* The mouse (HidMouse): what can be read of a sequence of commands          *)

Cmds == [id : Nat, ok : BOOLEAN]

\* f[n] is what can be read of the first n commands.
UsableUpTo(f, s) ==
  f = [n \in 0 .. Len(s) |->
         IF n = 0 THEN << >> ELSE IF s[n].ok THEN Append(f[n - 1], s[n]) ELSE f[n - 1]]

\* One command more.
LEMMA UsableMore ==
  ASSUME NEW s \in Seq(Cmds), NEW c \in Cmds, NEW f, UsableUpTo(f, s)
  PROVE  LET g == [n \in 0 .. Len(s) + 1 |->
                     IF n = Len(s) + 1
                     THEN IF c.ok THEN Append(f[Len(s)], c) ELSE f[Len(s)]
                     ELSE f[n]]
         IN  UsableUpTo(g, Append(s, c))
<1> DEFINE t == Append(s, c)  L == Len(s)
           g == [n \in 0 .. L + 1 |->
                   IF n = L + 1 THEN IF c.ok THEN Append(f[L], c) ELSE f[L] ELSE f[n]]
           h == [n \in 0 .. L + 1 |->
                   IF n = 0 THEN << >> ELSE IF t[n].ok THEN Append(g[n - 1], t[n]) ELSE g[n - 1]]
<1>1. L \in Nat /\ Len(t) = L + 1 /\ t[L + 1] = c /\ \A i \in 1 .. L : t[i] = s[i]
  BY AppendProperties, LenProperties
<1> HIDE DEF t
<1>2. ASSUME NEW n \in 0 .. L + 1 PROVE g[n] = h[n]
  <2>1. CASE n = 0
    BY <1>1, <2>1 DEF UsableUpTo
  <2>2. CASE n = L + 1
    <3>1. n - 1 = L /\ n # 0 /\ g[L] = f[L] /\ t[n] = c
      BY <1>1, <2>2
    <3>2. QED
      BY <2>2, <3>1
  <2>3. CASE n \in 1 .. L
    <3>1. g[n] = f[n] /\ g[n - 1] = f[n - 1] /\ t[n] = s[n] /\ n # 0
      BY <1>1, <2>3
    <3>2. f[n] = IF s[n].ok THEN Append(f[n - 1], s[n]) ELSE f[n - 1]
      <4>1. n \in 0 .. Len(s) /\ n # 0
        BY <1>1, <2>3
      <4>2. QED
        BY <4>1 DEF UsableUpTo
    <3> HIDE DEF g
    <3>3. QED
      BY <3>1, <3>2
  <2>4. QED
    BY <1>1, <2>1, <2>2, <2>3
<1>3. g = h
  BY <1>2
<1>4. QED
  BY <1>1, <1>3 DEF UsableUpTo, t

\* Nothing of nothing, and one function only.
LEMMA UsableExists ==
  \A s \in Seq(Cmds) : \E f : UsableUpTo(f, s)
<1> DEFINE P == {s \in Seq(Cmds) : \E f : UsableUpTo(f, s)}
<1>1. << >> \in P
  <2>1. Len(<< >>) = 0 /\ << >> \in Seq(Cmds)
    BY EmptySeq
  <2>2. UsableUpTo([n \in 0 .. 0 |-> << >>], << >>)
    BY <2>1 DEF UsableUpTo
  <2>3. QED
    BY <2>1, <2>2
<1>2. \A s \in Seq(Cmds), c \in Cmds : s \in P => Append(s, c) \in P
  BY UsableMore, AppendProperties
<1>3. \A s \in Seq(Cmds) : s \in P
  <2> HIDE DEF P
  <2>1. QED
    BY <1>1, <1>2, EverySequence
<1>4. QED
  BY <1>3

LEMMA UsableUnique ==
  ASSUME NEW s \in Seq(Cmds), NEW f, NEW g, UsableUpTo(f, s), UsableUpTo(g, s)
  PROVE  f = g
<1> DEFINE N == {n \in Nat : n <= Len(s) => f[n] = g[n]}
<1>1. Len(s) \in Nat
  BY LenProperties
<1>2. 0 \in N
  BY <1>1 DEF UsableUpTo
<1>3. ASSUME NEW n \in Nat, n \in N PROVE n + 1 \in N
  <2> SUFFICES ASSUME n + 1 <= Len(s) PROVE f[n + 1] = g[n + 1]
    OBVIOUS
  <2>1. n + 1 \in 0 .. Len(s) /\ n + 1 # 0 /\ (n + 1) - 1 = n
    BY <1>1
  <2>2. f[n + 1] = IF s[n + 1].ok THEN Append(f[n], s[n + 1]) ELSE f[n]
    BY <2>1 DEF UsableUpTo
  <2>3. g[n + 1] = IF s[n + 1].ok THEN Append(g[n], s[n + 1]) ELSE g[n]
    BY <2>1 DEF UsableUpTo
  <2>4. QED
    BY <1>1, <1>3, <2>2, <2>3
<1>4. \A n \in Nat : n \in N
  <2> HIDE DEF N
  <2>1. QED
    BY <1>2, <1>3, EveryNumber
<1>5. \A n \in 0 .. Len(s) : f[n] = g[n]
  BY <1>1, <1>4
<1>6. QED
  BY <1>5 DEF UsableUpTo

LEMMA UsableIs ==
  ASSUME NEW s \in Seq(Cmds), NEW f, UsableUpTo(f, s)
  PROVE  Usable(s) = f[Len(s)]
<1> DEFINE g == CHOOSE g : UsableUpTo(g, s)
<1>1. UsableUpTo(g, s)
  OBVIOUS
<1>2. Usable(s) = g[Len(s)]
  BY DEF Usable, UsableUpTo
<1> HIDE DEF g
<1>3. QED
  BY <1>1, <1>2, UsableUnique

\* What can be read of a sequence with one command more.
LEMMA UsableAppend ==
  ASSUME NEW s \in Seq(Cmds), NEW c \in Cmds
  PROVE  Usable(Append(s, c)) = IF c.ok THEN Append(Usable(s), c) ELSE Usable(s)
<1>1. PICK f : UsableUpTo(f, s)
  BY UsableExists
<1> DEFINE g == [n \in 0 .. Len(s) + 1 |->
                   IF n = Len(s) + 1
                   THEN IF c.ok THEN Append(f[Len(s)], c) ELSE f[Len(s)]
                   ELSE f[n]]
<1>2. UsableUpTo(g, Append(s, c))
  BY <1>1, UsableMore
<1>3. Append(s, c) \in Seq(Cmds) /\ Len(Append(s, c)) = Len(s) + 1 /\ Len(s) \in Nat
  BY AppendProperties, LenProperties
<1>4. g[Len(s) + 1] = IF c.ok THEN Append(f[Len(s)], c) ELSE f[Len(s)]
  BY <1>3
<1> HIDE DEF g
<1>5. Usable(Append(s, c)) = g[Len(s) + 1] /\ Usable(s) = f[Len(s)]
  BY <1>1, <1>2, <1>3, UsableIs
<1>6. QED
  BY <1>4, <1>5

LEMMA UsableEmpty == Usable(<< >>) = << >>
<1>1. Len(<< >>) = 0 /\ << >> \in Seq(Cmds)
  BY EmptySeq
<1>2. UsableUpTo([n \in 0 .. 0 |-> << >>], << >>)
  BY <1>1 DEF UsableUpTo
<1>3. QED
  BY <1>1, <1>2, UsableIs

LEMMA UsableSeq == \A s \in Seq(Cmds) : Usable(s) \in Seq(Cmds)
<1> DEFINE P == {s \in Seq(Cmds) : Usable(s) \in Seq(Cmds)}
<1>1. << >> \in P
  BY EmptySeq, UsableEmpty
<1>2. ASSUME NEW s \in Seq(Cmds), NEW c \in Cmds, s \in P PROVE Append(s, c) \in P
  <2>1. Usable(s) \in Seq(Cmds)
    BY <1>2
  <2>2. Append(s, c) \in Seq(Cmds) /\ Append(Usable(s), c) \in Seq(Cmds)
    BY <2>1, AppendProperties
  <2>3. Usable(Append(s, c)) \in {Append(Usable(s), c), Usable(s)}
    BY UsableAppend
  <2>4. QED
    BY <2>1, <2>2, <2>3
<1>3. \A s \in Seq(Cmds) : s \in P
  <2> HIDE DEF P
  <2>1. QED
    BY <1>1, <1>2, EverySequence
<1>4. QED
  BY <1>3

\* The first command of a sequence, if it can be read, comes before the others.
LEMMA UsableHead ==
  ASSUME NEW s \in Seq(Cmds), s # << >>
  PROVE  Usable(s) = (IF Head(s).ok THEN <<Head(s)>> ELSE << >>) \o Usable(Tail(s))
<1> DEFINE First(t) == IF Head(t).ok THEN <<Head(t)>> ELSE << >>
           P == {t \in Seq(Cmds) : t # << >> => Usable(t) = First(t) \o Usable(Tail(t))}
<1>1. << >> \in P
  BY EmptySeq
<1>2. ASSUME NEW t \in Seq(Cmds), NEW c \in Cmds, t \in P PROVE Append(t, c) \in P
  <2> DEFINE u == Append(t, c)
  <2>1. /\ u \in Seq(Cmds) /\ u # << >>
        /\ Head(u) = (IF t = << >> THEN c ELSE Head(t))
        /\ Tail(u) = (IF t = << >> THEN << >> ELSE Append(Tail(t), c))
    BY AppendProperties, HeadTailAppend
  <2>2. Usable(u) = IF c.ok THEN Append(Usable(t), c) ELSE Usable(t)
    BY UsableAppend
  <2> HIDE DEF u
  <2>3. CASE t = << >>
    <3>1. Usable(u) = IF c.ok THEN <<c>> ELSE << >>
      <4>1. Append(<< >>, c) = <<c>>
        OBVIOUS
      <4>2. Usable(t) = << >>
        BY <2>3, UsableEmpty
      <4>3. QED
        BY <2>2, <4>1, <4>2
    <3>2. First(u) = (IF c.ok THEN <<c>> ELSE << >>) /\ Usable(Tail(u)) = << >>
      BY <2>1, <2>3, UsableEmpty
    <3>3. First(u) \in Seq(Cmds)
      BY <3>2
    <3>4. First(u) \o << >> = First(u)
      <4> HIDE DEF First
      <4>1. QED
        BY <3>3, ConcatEmptySeq
    <3>5. QED
      BY <2>1, <3>1, <3>2, <3>4 DEF u
  <2>4. CASE t # << >>
    <3> DEFINE x == First(t)  y == Usable(Tail(t))
    <3>1. Tail(t) \in Seq(Cmds) /\ Head(t) \in Cmds
      BY <2>4, HeadTailProperties
    <3>2. x \in Seq(Cmds) /\ y \in Seq(Cmds)
      <4>1. y \in Seq(Cmds)
        BY <3>1, UsableSeq
      <4>2. <<Head(t)>> \in Seq(Cmds) /\ << >> \in Seq(Cmds)
        BY <3>1
      <4>3. QED
        BY <4>1, <4>2
    <3>3. Usable(t) = x \o y
      BY <1>2, <2>4
    <3>4. First(u) = x /\ Usable(Tail(u)) = IF c.ok THEN Append(y, c) ELSE y
      BY <2>1, <2>4, <3>1, UsableAppend
    <3> HIDE DEF First, x, y
    <3>5. Append(x \o y, c) = x \o Append(y, c)
      <4>1. x \o y \in Seq(Cmds) /\ <<c>> \in Seq(Cmds)
        BY <3>2, ConcatProperties
      <4>2. Append(x \o y, c) = (x \o y) \o <<c>> /\ Append(y, c) = y \o <<c>>
        BY <3>2, <4>1, AppendIsConcat
      <4>3. QED
        BY <3>2, <4>1, <4>2, ConcatAssociative
    <3>6. Usable(u) = First(u) \o Usable(Tail(u))
      BY <2>2, <3>3, <3>4, <3>5
    <3>7. QED
      BY <2>1, <3>6 DEF u
  <2>5. QED
    BY <2>3, <2>4
<1>3. \A t \in Seq(Cmds) : t \in P
  <2> HIDE DEF P
  <2>1. QED
    BY <1>1, <1>2, EverySequence
<1>4. QED
  BY <1>3

-----------------------------------------------------------------------------
(* The mouse (HidMouse): from the queue to the host                          *)

BeforeWebrtc == {"boot", "wifi", "create", "dns", "signal", "halted"}

HidTypeOK ==
  /\ queue \in Seq(Cmds) /\ queued \in Seq(Cmds) /\ reports \in Seq(Cmds) /\ todo \in Seq(Cmds)
  /\ arrived \in Nat /\ channel \in BOOLEAN

\* Commands come through the data channel, which opens when the session is up.
BehindChannel ==
  /\ at1 \in BeforeWebrtc => ~channel
  /\ channel => gState \in {"completed", "closed"}
  /\ at1 = "adding" \/ queue # << >> \/ at0 = "usb" => channel

\* What core 0 took out of the queue, but for the first, it reported.
Relayed ==
  /\ at0 = "wait" => queue = queued /\ reports = << >>
  /\ at0 = "usb" => queued # << >> /\ reports \o Usable(queue) = Usable(Tail(queued))

HidInv == at0 \in {"wait", "usb"} /\ HidTypeOK /\ BehindChannel /\ Relayed

LEMMA HidInitInvariant == HidInit => HidInv
<1> SUFFICES ASSUME HidInit PROVE HidInv
  OBVIOUS
<1>1. /\ queue = << >> /\ queued = << >> /\ reports = << >> /\ todo = << >> /\ arrived = 0
      /\ channel = FALSE /\ at0 = "wait" /\ at1 = "boot"
  BY DEF HidInit
<1>2. << >> \in Seq(Cmds)
  BY EmptySeq
<1>3. HidTypeOK
  BY <1>1, <1>2 DEF HidTypeOK
<1>4. BehindChannel /\ Relayed
  BY <1>1 DEF BehindChannel, Relayed
<1>5. QED
  BY <1>1, <1>3, <1>4 DEF HidInv

\* A command taken out of the queue is reported, or cannot be read.
LEMMA TakenIsReported ==
  ASSUME HidTypeOK, queue # << >>, NEW sent \in Seq(Cmds),
         sent = IF Head(queue).ok THEN Append(reports, Head(queue)) ELSE reports
  PROVE  sent \o Usable(Tail(queue)) = reports \o Usable(queue)
<1> DEFINE h == Head(queue)  rest == Usable(Tail(queue))
<1>1. queue \in Seq(Cmds) /\ reports \in Seq(Cmds)
  BY DEF HidTypeOK
<1>2. h \in Cmds /\ Tail(queue) \in Seq(Cmds)
  BY <1>1, HeadTailProperties
<1>3. rest \in Seq(Cmds) /\ <<h>> \in Seq(Cmds) /\ << >> \in Seq(Cmds)
  <2>1. rest \in Seq(Cmds)
    BY <1>2, UsableSeq
  <2> HIDE DEF h, rest
  <2>2. QED
    BY <1>2, <2>1
<1>4. Usable(queue) = (IF h.ok THEN <<h>> ELSE << >>) \o rest
  BY <1>1, UsableHead
<1> HIDE DEF h, rest
<1>5. CASE h.ok
  <2>1. sent = reports \o <<h>>
    BY <1>1, <1>2, <1>5, AppendIsConcat DEF h
  <2>2. (reports \o <<h>>) \o rest = reports \o (<<h>> \o rest)
    BY <1>1, <1>3, ConcatAssociative
  <2>3. QED
    BY <1>4, <1>5, <2>1, <2>2 DEF rest
<1>6. CASE ~h.ok
  <2>1. << >> \o rest = rest /\ sent = reports
    BY <1>3, <1>6, ConcatEmptySeq DEF h
  <2>2. QED
    BY <1>4, <1>6, <2>1 DEF rest
<1>7. QED
  BY <1>5, <1>6

\* A command queued is one more to report.
LEMMA QueuedIsRelayed ==
  ASSUME HidTypeOK, Relayed, NEW c \in Cmds, UNCHANGED <<at0, reports>>,
         queue' = Append(queue, c), queued' = Append(queued, c)
  PROVE  Relayed'
<1>1. queue \in Seq(Cmds) /\ queued \in Seq(Cmds) /\ reports \in Seq(Cmds)
  BY DEF HidTypeOK
<1>2. CASE at0 = "usb"
  <2>1. queued # << >> /\ reports \o Usable(queue) = Usable(Tail(queued))
    BY <1>2 DEF Relayed
  <2>2. Tail(queued) \in Seq(Cmds) /\ Tail(queued') = Append(Tail(queued), c) /\ queued' # << >>
    BY <1>1, <2>1, HeadTailProperties, HeadTailAppend, AppendProperties
  <2> DEFINE x == Usable(queue)
  <2>3. x \in Seq(Cmds)
    BY <1>1, UsableSeq
  <2>4. Usable(queue') = (IF c.ok THEN Append(x, c) ELSE x)
        /\ Usable(Tail(queued')) = IF c.ok THEN Append(reports \o x, c) ELSE reports \o x
    BY <1>1, <2>1, <2>2, UsableAppend
  <2> HIDE DEF x
  <2>5. Append(reports \o x, c) = reports \o Append(x, c)
    <3>1. reports \o x \in Seq(Cmds) /\ <<c>> \in Seq(Cmds)
      BY <1>1, <2>3, ConcatProperties
    <3>2. Append(reports \o x, c) = (reports \o x) \o <<c>> /\ Append(x, c) = x \o <<c>>
      BY <2>3, <3>1, AppendIsConcat
    <3>3. QED
      BY <1>1, <2>3, <3>1, <3>2, ConcatAssociative
  <2>6. reports' \o Usable(queue') = Usable(Tail(queued'))
    BY <2>4, <2>5
  <2>7. QED
    BY <1>2, <2>2, <2>6 DEF Relayed
<1>3. CASE at0 # "usb"
  BY <1>3 DEF Relayed
<1>4. QED
  BY <1>2, <1>3

LEMMA HidStepInvariant == HidInv /\ [HidNext]_hidVars => HidInv'
<1> SUFFICES ASSUME HidInv, [HidNext]_hidVars PROVE HidInv'
  OBVIOUS
<1>0. at0 \in {"wait", "usb"} /\ HidTypeOK /\ BehindChannel /\ Relayed
  BY DEF HidInv
<1>1. ASSUME UNCHANGED <<channel, todo, arrived, queue, queued, usbVars>>,
             UNCHANGED gState \/ at1 \in BeforeWebrtc,
             at1' \in BeforeWebrtc => at1 \in BeforeWebrtc,
             at1' = "adding" => at1 = "adding"
      PROVE  HidInv'
  <2>1. HidTypeOK' /\ Relayed' /\ at0' \in {"wait", "usb"}
    BY <1>0, <1>1 DEF usbVars, HidTypeOK, Relayed
  <2>2. BehindChannel'
    BY <1>0, <1>1 DEF usbVars, BehindChannel
  <2>3. QED
    BY <2>1, <2>2 DEF HidInv
<1>2. CASE SetUp
  BY <1>1, <1>2 DEF SetUp, Start, WifiPoll, Create, DnsPoll, Signal, BeforeWebrtc
<1>3. CASE DnsCallback \/ UNCHANGED hidVars
  BY <1>1, <1>3 DEF DnsCallback, hidVars
<1>4. CASE PeerPass
  <2>1. /\ UNCHANGED <<todo, arrived, queue, queued, at0, reports>> /\ at1' = "pass"
        /\ gState' \in Follows(gState)
        /\ channel' \in IF gState = "completed" THEN {channel, TRUE} ELSE {channel}
    BY <1>4 DEF PeerPass, usbVars
  <2>2. gState \in {"completed", "closed"} => gState' \in {"completed", "closed"}
    BY <2>1 DEF Follows
  <2>3. channel' \in BOOLEAN /\ (channel => channel') /\ (channel' => gState' \in {"completed", "closed"})
    BY <1>0, <2>1, <2>2 DEF HidTypeOK, BehindChannel
  <2>4. BehindChannel'
    BY <1>0, <2>1, <2>3 DEF BehindChannel, BeforeWebrtc
  <2>5. QED
    BY <1>0, <2>1, <2>3, <2>4 DEF HidInv, HidTypeOK, Relayed
<1>5. ASSUME NEW n \in 1 .. MaxBatch, NEW bad \in 0 .. MaxBatch, Message(n, bad) PROVE HidInv'
  <2>1. /\ UNCHANGED <<gState, channel, queue, queued, at0, reports>> /\ channel /\ at1' = "adding"
        /\ arrived' = arrived + n
        /\ todo' = [i \in 1 .. n |-> [id |-> arrived + i, ok |-> i # bad]]
    BY <1>5 DEF Message, usbVars
  <2>2. n \in Nat /\ arrived \in Nat
    BY <1>0, HidAssumption DEF HidTypeOK
  <2>3. \A i \in 1 .. n : [id |-> arrived + i, ok |-> i # bad] \in Cmds
    BY <2>2 DEF Cmds
  <2>4. todo' \in Seq(Cmds)
    BY <2>1, <2>2, <2>3
  <2>5. QED
    <3>1. HidTypeOK'
      <4>1. arrived' \in Nat
        BY <2>1, <2>2
      <4>2. QED
        BY <1>0, <2>1, <2>4, <4>1 DEF HidTypeOK
    <3>2. BehindChannel'
      BY <1>0, <2>1 DEF BehindChannel, BeforeWebrtc
    <3>3. Relayed' /\ at0' \in {"wait", "usb"}
      BY <1>0, <2>1 DEF Relayed
    <3>4. QED
      BY <3>1, <3>2, <3>3 DEF HidInv
<1>6. CASE AddCommand
  <2>1. /\ todo # << >> /\ at1 = "adding" /\ todo' = Tail(todo) /\ at1' \in {"pass", "adding"}
        /\ UNCHANGED <<gState, channel, arrived, at0, reports>>
        /\ \/ queue' = Append(queue, Head(todo)) /\ queued' = Append(queued, Head(todo))
           \/ UNCHANGED <<queue, queued>>
    BY <1>6 DEF AddCommand, usbVars
  <2>2. todo \in Seq(Cmds) /\ queue \in Seq(Cmds) /\ queued \in Seq(Cmds)
    BY <1>0 DEF HidTypeOK
  <2>3. Head(todo) \in Cmds /\ Tail(todo) \in Seq(Cmds)
    BY <2>1, <2>2, HeadTailProperties
  <2>4. queue' \in Seq(Cmds) /\ queued' \in Seq(Cmds)
    <3>1. Append(queue, Head(todo)) \in Seq(Cmds) /\ Append(queued, Head(todo)) \in Seq(Cmds)
      BY <2>2, <2>3, AppendProperties
    <3>2. QED
      BY <2>1, <2>2, <3>1
  <2>5. HidTypeOK'
    BY <1>0, <2>1, <2>3, <2>4 DEF HidTypeOK
  <2>6. BehindChannel'
    BY <1>0, <2>1 DEF BehindChannel, BeforeWebrtc
  <2>7. Relayed'
    <3>1. CASE queue' = Append(queue, Head(todo)) /\ queued' = Append(queued, Head(todo))
      BY <1>0, <2>1, <2>3, <3>1, QueuedIsRelayed
    <3>2. CASE UNCHANGED <<queue, queued>>
      BY <1>0, <2>1, <3>2 DEF Relayed
    <3>3. QED
      BY <2>1, <3>1, <3>2
  <2>8. QED
    BY <1>0, <2>1, <2>5, <2>6, <2>7 DEF HidInv
<1>7. CASE WaitFirst
  <2>1. /\ at0 = "wait" /\ queue # << >> /\ queue' = Tail(queue) /\ at0' = "usb"
        /\ UNCHANGED <<at1, gState, channel, todo, arrived, queued, reports>>
    BY <1>7 DEF WaitFirst
  <2>2. queue \in Seq(Cmds) /\ queue = queued /\ reports = << >>
    BY <1>0, <2>1 DEF HidTypeOK, Relayed
  <2>3. Tail(queue) \in Seq(Cmds)
    BY <2>1, <2>2, HeadTailProperties
  <2>4. << >> \o Usable(Tail(queue)) = Usable(Tail(queue))
    BY <2>3, UsableSeq, ConcatEmptySeq
  <2>5. HidTypeOK'
    BY <1>0, <2>1, <2>3 DEF HidTypeOK
  <2>6. BehindChannel'
    BY <1>0, <2>1 DEF BehindChannel
  <2>7. QED
    BY <2>1, <2>2, <2>4, <2>5, <2>6 DEF HidInv, Relayed
<1>8. CASE HidTask
  <2>1. /\ at0 = "usb" /\ queue # << >> /\ queue' = Tail(queue)
        /\ reports' = (IF Head(queue).ok THEN Append(reports, Head(queue)) ELSE reports)
        /\ UNCHANGED <<at0, at1, gState, channel, todo, arrived, queued>>
    BY <1>8 DEF HidTask
  <2>2. queue \in Seq(Cmds) /\ reports \in Seq(Cmds)
    BY <1>0 DEF HidTypeOK
  <2>3. Tail(queue) \in Seq(Cmds) /\ Head(queue) \in Cmds
    BY <2>1, <2>2, HeadTailProperties
  <2>4. reports' \in Seq(Cmds)
    BY <2>1, <2>2, <2>3, AppendProperties
  <2>5. reports' \o Usable(Tail(queue)) = reports \o Usable(queue)
    BY <1>0, <2>1, <2>4, TakenIsReported
  <2>6. HidTypeOK'
    BY <1>0, <2>1, <2>3, <2>4 DEF HidTypeOK
  <2>7. BehindChannel'
    BY <1>0, <2>1 DEF BehindChannel
  <2>8. QED
    BY <1>0, <2>1, <2>5, <2>6, <2>7 DEF HidInv, Relayed
<1>9. CASE TudTask
  <2>1. UNCHANGED <<at1, gState, channel, todo, arrived, queue, queued, at0, reports>>
    BY <1>9 DEF TudTask
  <2>2. QED
    BY <1>0, <2>1 DEF HidInv, HidTypeOK, BehindChannel, Relayed
<1>10. QED
  BY <1>2, <1>3, <1>4, <1>5, <1>6, <1>7, <1>8, <1>9 DEF HidNext, NetworkCore, UsbCore

\* Every command that entered the queue and can be read reaches the host once and
\* in order, but for the one that woke core 0, whatever the host, the network and
\* the other core do meanwhile; and USB runs only once the data channel was open
\* (hid_task, queue_try_add, main).
THEOREM MouseRelays == HidSpec => []UsbRelays
<1>1. HidInv => UsbRelays
  BY DEF HidInv, BehindChannel, Relayed, UsbRelays
<1>2. QED
  BY <1>1, HidInitInvariant, HidStepInvariant, PTL DEF HidSpec

-----------------------------------------------------------------------------
(***************************************************************************)
(* The body of an audio reply.  Whatever its packets, its chunks and the   *)
(* segments that carry it, what the forward pump ships are its packets,    *)
(* whole and in order, and the end is announced behind the last of them.   *)
(* The invariant is BodyInv: in front of the decoder's write position the  *)
(* buffer holds consecutive bytes of the payload (Ready), behind its read  *)
(* position those of the stream (Decoding), and the pump stands at the     *)
(* beginning of a packet (Forwarding).                                     *)
(***************************************************************************)

BodyBytes == [kind : {"size", "cr", "lf", "high", "low", "data"}, val : Nat]
Decoders == [st : {"SIZE", "SIZE_CR", "DATA", "DATA_CR", "DONE"},
             acc : Nat, left : Nat, r : Nat, w : Nat]

\* What the server puts behind one another, and where a packet begins in the
\* payload, a chunk in the stream.
Packets(lens) == [p \in 1 .. Len(lens) |-> Packet(p, lens[p])]
Wanted(lens) ==
  [p \in 1 .. Len(lens) |-> IF lens[p] = 0 THEN << >> ELSE <<Data(p, lens[p])>>]
Chunks(lens, ends) == [c \in 1 .. Len(ends) |-> Chunk(Payload(lens), ends, c)]
PacketAt(lens, p) == Len(Joined(Packets(lens), p - 1))
ChunkAt(ends, c) == Before(ends, c) + 5 * (c - 1)
ChunkSize(ends, c) == IF c <= Len(ends) THEN ends[c] - Before(ends, c) ELSE 0

Body == Payload(reply.lens)
MeantTo(p) == Joined(Wanted(reply.lens), p)

\* The decoder is in chunk c, as far as its positions in the stream and in the
\* payload say, when the buffer starts with what comes behind byte base of the
\* payload; the line feed of the chunk before may have come late.
InChunk(c, base) ==
  LET read  == reply.at - Len(resp) + dec.r
      moved == base + dec.w
      size  == ChunkSize(reply.ends, c)
      at    == ChunkAt(reply.ends, c)
  IN /\ dec.st = "SIZE" =>
          /\ moved = Before(reply.ends, c)
          /\ \/ dec.acc = 0 /\ (read = at \/ (c > 1 /\ read = at - 1))
             \/ dec.acc = size /\ read = at + 1
     /\ dec.st = "SIZE_CR" =>
          moved = Before(reply.ends, c) /\ dec.acc = size /\ read = at + 2
     /\ dec.st = "DATA" =>
          /\ c <= Len(reply.ends) /\ dec.acc = 0 /\ dec.left \in 1 .. size
          /\ read = at + 3 + (size - dec.left) /\ moved = reply.ends[c] - dec.left
     /\ dec.st = "DATA_CR" =>
          /\ c <= Len(reply.ends) /\ dec.acc = 0
          /\ read = at + 3 + size /\ moved = reply.ends[c]
     /\ dec.st = "DONE" =>
          c = Len(reply.ends) + 1 /\ read = at + 3 /\ moved = Before(reply.ends, c)

BodyTypeOK ==
  /\ reply \in [lens : Seq(Nat), ends : Seq(Nat \ {0}), at : Nat]
  /\ ReplyOK(reply.lens, reply.ends) /\ reply.at <= Len(Stream)
  /\ resp \in Seq(BodyBytes) /\ Len(resp) <= reply.at
  /\ dec \in Decoders
  /\ play \in Nat /\ play <= Have
  /\ st \in {"REQUESTING", "DONE_OK", "IDLE"}
  /\ playing \in BOOLEAN /\ endSent \in BOOLEAN

\* Of the buffer, everything up to Have is payload from behind byte base on.
Ready(base) ==
  base + Have <= Len(Body) /\ \A i \in 1 .. Have : resp[i] = Body[base + i]

Decoding(base) ==
  IF Chunked
  THEN /\ dec.w <= dec.r /\ dec.r <= Len(resp)
       /\ \A i \in dec.r + 1 .. Len(resp) : resp[i] = Stream[reply.at - Len(resp) + i]
       /\ \E c \in 1 .. Len(reply.ends) + 1 : InChunk(c, base)
  ELSE base + Len(resp) = reply.at

\* The server closed within a packet, and its beginning was thrown away.
Dropped ==
  st = "IDLE" /\ reply.at < Len(Stream) /\ play = Have /\ (Chunked => ~More)

Forwarding(base) ==
  \/ \E p \in 1 .. Len(reply.lens) + 1 :
       base + play = PacketAt(reply.lens, p) /\ shipped = MeantTo(p - 1)
  \/ Dropped /\ \E p \in 0 .. Len(reply.lens) : shipped = MeantTo(p)

\* What the points of a pass may rely on.
PassOK ==
  /\ pc \in {"decode", "pump decode"} => Chunked
  /\ pc = "forward" /\ Chunked => ~More
  /\ pc \in {"pump decode", "forward"} => playing /\ ~endSent
  /\ ~playing => play = 0 /\ ~endSent
  /\ endSent => /\ st = "IDLE" \/ reply.at = Len(Stream)
                /\ reply.at = Len(Stream) => shipped = Meant

Held(base) == Ready(base) /\ Decoding(base) /\ Forwarding(base)

BodyInv == BodyTypeOK /\ PassOK /\ \E base \in Nat : Held(base)

-----------------------------------------------------------------------------
(* What the server sends.                                                    *)

LEMMA PacketIs ==
  ASSUME NEW p \in Nat, NEW len \in Nat
  PROVE  /\ Data(p, len) \in Seq(BodyBytes) /\ Len(Data(p, len)) = len
         /\ Packet(p, len) \in Seq(BodyBytes) /\ Len(Packet(p, len)) = len + 2
         /\ Packet(p, len)[2].val = len
         /\ \A i \in 1 .. len : Packet(p, len)[2 + i] = Data(p, len)[i]
<1> DEFINE d == Data(p, len)
           h == <<[kind |-> "high", val |-> 0], [kind |-> "low", val |-> len]>>
<1>1. d \in Seq(BodyBytes) /\ Len(d) = len
  <2>1. \A k \in 1 .. len : [kind |-> "data", val |-> 10 * p + k] \in BodyBytes
    BY DEF BodyBytes
  <2>2. d \in [1 .. len -> BodyBytes]
    BY <2>1, Zenon DEF Data
  <2> HIDE DEF d
  <2>3. QED
    BY <2>2
<1>2. h \in Seq(BodyBytes) /\ Len(h) = 2 /\ h[2].val = len
  BY DEF BodyBytes
<1>3. Packet(p, len) = h \o d
  BY DEF Packet
<1> HIDE DEF d, h
<1>4. /\ h \o d \in Seq(BodyBytes) /\ Len(h \o d) = len + 2
      /\ \A i \in 1 .. 2 + len : (h \o d)[i] = IF i <= 2 THEN h[i] ELSE d[i - 2]
  <2>1. /\ h \o d \in Seq(BodyBytes) /\ Len(h \o d) = Len(h) + Len(d)
        /\ \A i \in 1 .. Len(h) + Len(d) : (h \o d)[i] = IF i <= Len(h) THEN h[i] ELSE d[i - Len(h)]
    BY <1>1, <1>2, ConcatProperties
  <2>2. Len(h) = 2 /\ Len(d) = len
    BY <1>1, <1>2
  <2>3. QED
    BY <2>1, <2>2
<1>5. ASSUME NEW i \in 1 .. len PROVE (h \o d)[2 + i] = d[i]
  <2> DEFINE g == 2 + i
  <2>1. g \in 1 .. 2 + len /\ ~(g <= 2) /\ g - 2 = i
    OBVIOUS
  <2> HIDE DEF g
  <2>2. (h \o d)[g] = d[g - 2]
    BY <1>4, <2>1
  <2>3. QED
    BY <2>1, <2>2 DEF g
<1>6. (h \o d)[2] = h[2]
  BY <1>4
<1>7. QED
  BY <1>1, <1>2, <1>3, <1>4, <1>5, <1>6 DEF d

LEMMA PacketsAre ==
  ASSUME NEW lens \in Seq(Nat)
  PROVE  /\ Packets(lens) \in Seq(Seq(BodyBytes)) /\ Len(Packets(lens)) = Len(lens)
         /\ Len(lens) \in Nat
         /\ \A p \in 1 .. Len(lens) : lens[p] \in Nat /\ Packets(lens)[p] = Packet(p, lens[p])
         /\ Payload(lens) = FlattenSeq(Packets(lens)) /\ Payload(lens) \in Seq(BodyBytes)
<1>1. Len(lens) \in Nat /\ \A p \in 1 .. Len(lens) : lens[p] \in Nat
  BY LenProperties, ElementOfSeq
<1>2. ASSUME NEW p \in 1 .. Len(lens) PROVE Packet(p, lens[p]) \in Seq(BodyBytes)
  <2>1. p \in Nat /\ lens[p] \in Nat
    BY <1>1
  <2>2. QED
    BY <2>1, PacketIs
<1>3. Packets(lens) \in Seq(Seq(BodyBytes)) /\ Len(Packets(lens)) = Len(lens)
      /\ \A p \in 1 .. Len(lens) : Packets(lens)[p] = Packet(p, lens[p])
  BY <1>1, <1>2 DEF Packets
<1>4. Payload(lens) = FlattenSeq(Packets(lens))
  BY DEF Payload, Packets
<1>5. QED
  BY <1>1, <1>3, <1>4, FlattenType

\* Where each packet begins, and what stands there.
LEMMA PacketPlaces ==
  ASSUME NEW lens \in Seq(Nat)
  PROVE  /\ PacketAt(lens, 1) = 0 /\ PacketAt(lens, Len(lens) + 1) = Len(Payload(lens))
         /\ \A p \in 1 .. Len(lens) + 1 : PacketAt(lens, p) \in Nat
         /\ \A p \in 1 .. Len(lens) :
              /\ PacketAt(lens, p + 1) = PacketAt(lens, p) + 2 + lens[p]
              /\ PacketAt(lens, p + 1) <= Len(Payload(lens))
              /\ Payload(lens)[PacketAt(lens, p) + 2].val = lens[p]
              /\ \A i \in 1 .. lens[p] :
                   Payload(lens)[PacketAt(lens, p) + 2 + i] = Data(p, lens[p])[i]
<1> DEFINE q == Packets(lens)
<1>1. /\ q \in Seq(Seq(BodyBytes)) /\ Len(q) = Len(lens) /\ Len(lens) \in Nat
      /\ \A p \in 1 .. Len(lens) : lens[p] \in Nat /\ q[p] = Packet(p, lens[p])
      /\ Payload(lens) = FlattenSeq(q)
  BY PacketsAre
<1>2. \A p : PacketAt(lens, p) = Len(Joined(q, p - 1))
  BY DEF PacketAt
<1> HIDE DEF q
<1>3. Joined(q, 0) = << >> /\ Joined(q, Len(q)) = FlattenSeq(q)
      /\ \A j \in 0 .. Len(q) : Joined(q, j) \in Seq(BodyBytes)
  BY <1>1, JoinedIs
<1>4. PacketAt(lens, 1) = 0 /\ PacketAt(lens, Len(lens) + 1) = Len(Payload(lens))
  <2>1. 1 - 1 = 0 /\ (Len(lens) + 1) - 1 = Len(q)
    BY <1>1
  <2>2. PacketAt(lens, 1) = Len(Joined(q, 0)) /\ PacketAt(lens, Len(lens) + 1) = Len(Joined(q, Len(q)))
    BY <1>2, <2>1
  <2>3. QED
    BY <1>1, <1>3, <2>2, EmptySeq
<1>5. ASSUME NEW p \in 1 .. Len(lens) + 1 PROVE PacketAt(lens, p) \in Nat
  <2>1. p - 1 \in 0 .. Len(q)
    BY <1>1
  <2>2. Len(Joined(q, p - 1)) \in Nat
    BY <1>3, <2>1, LenProperties
  <2>3. QED
    BY <1>2, <2>2
<1>6. ASSUME NEW p \in 1 .. Len(lens)
      PROVE  /\ PacketAt(lens, p + 1) = PacketAt(lens, p) + 2 + lens[p]
             /\ PacketAt(lens, p + 1) <= Len(Payload(lens))
             /\ Payload(lens)[PacketAt(lens, p) + 2].val = lens[p]
             /\ \A i \in 1 .. lens[p] :
                  Payload(lens)[PacketAt(lens, p) + 2 + i] = Data(p, lens[p])[i]
  <2> DEFINE at == PacketAt(lens, p)  b == Payload(lens)  len == lens[p]  d == Packet(p, len)
             x == PacketAt(lens, p + 1)
  <2>1. p \in 1 .. Len(q) /\ (p + 1) - 1 = p /\ p \in Nat /\ len \in Nat /\ q[p] = d
    BY <1>1
  <2>2. x = Len(Joined(q, p)) /\ at = Len(Joined(q, p - 1))
    BY <1>2, <2>1
  <2>3. /\ at \in Nat /\ x = at + Len(d) /\ x <= Len(b)
        /\ \A i \in 1 .. Len(d) : b[at + i] = d[i]
    <3>1. /\ Len(Joined(q, p - 1)) \in Nat
          /\ Len(Joined(q, p)) = Len(Joined(q, p - 1)) + Len(q[p])
          /\ Len(Joined(q, p)) <= Len(FlattenSeq(q))
          /\ \A i \in 1 .. Len(q[p]) : FlattenSeq(q)[Len(Joined(q, p - 1)) + i] = q[p][i]
      BY <1>1, <2>1, JoinedAt
    <3>2. FlattenSeq(q) = b /\ q[p] = d
      BY <1>1, <2>1
    <3> HIDE DEF at, b, d, x
    <3>3. QED
      BY <2>2, <3>1, <3>2
  <2>4. /\ Len(d) = len + 2 /\ d[2].val = len
        /\ \A i \in 1 .. len : d[2 + i] = Data(p, len)[i]
    BY <2>1, PacketIs
  <2> HIDE DEF at, b, d, x, len
  <2>5. x = at + 2 + len /\ b[at + 2].val = len
    BY <2>1, <2>3, <2>4
  <2>6. ASSUME NEW i \in 1 .. len PROVE b[at + 2 + i] = Data(p, len)[i]
    <3> DEFINE g == 2 + i
    <3>1. g \in 1 .. Len(d) /\ at + 2 + i = at + g
      BY <2>1, <2>3, <2>4
    <3>2. b[at + g] = d[g] /\ d[2 + i] = Data(p, len)[i]
      BY <2>3, <2>4, <3>1
    <3>3. QED
      BY <3>1, <3>2
  <2>7. QED
    BY <2>3, <2>5, <2>6 DEF at, b, x, len
<1>7. QED
  BY <1>4, <1>5, <1>6

\* The packets wanted, one after the other; empty ones are none.
LEMMA WantedIs ==
  ASSUME NEW lens \in Seq(Nat)
  PROVE  /\ Joined(Wanted(lens), 0) = << >>
         /\ Joined(Wanted(lens), Len(lens)) = FlattenSeq(Wanted(lens))
         /\ \A p \in 0 .. Len(lens) :
              IsPrefix(Joined(Wanted(lens), p), FlattenSeq(Wanted(lens)))
         /\ \A p \in 1 .. Len(lens) :
              Joined(Wanted(lens), p) =
                IF lens[p] = 0 THEN Joined(Wanted(lens), p - 1)
                ELSE Append(Joined(Wanted(lens), p - 1), Data(p, lens[p]))
<1> DEFINE q == Wanted(lens)  D == Seq(BodyBytes)
<1>1. Len(lens) \in Nat /\ \A p \in 1 .. Len(lens) : lens[p] \in Nat /\ Data(p, lens[p]) \in D
  <2>1. Len(lens) \in Nat /\ \A p \in 1 .. Len(lens) : lens[p] \in Nat
    BY LenProperties, ElementOfSeq
  <2>2. ASSUME NEW p \in 1 .. Len(lens) PROVE Data(p, lens[p]) \in D
    <3>1. p \in Nat /\ lens[p] \in Nat
      BY <2>1
    <3>2. QED
      BY <3>1, PacketIs
  <2>3. QED
    BY <2>1, <2>2
<1> HIDE DEF D
<1>2. /\ q \in Seq(Seq(D)) /\ Len(q) = Len(lens)
      /\ \A p \in 1 .. Len(lens) : q[p] = IF lens[p] = 0 THEN << >> ELSE <<Data(p, lens[p])>>
  <2>1. \A p \in 1 .. Len(lens) :
          (IF lens[p] = 0 THEN << >> ELSE <<Data(p, lens[p])>>) \in Seq(D)
    BY <1>1
  <2>2. QED
    BY <1>1, <2>1 DEF Wanted
<1> HIDE DEF q
<1>3. /\ Joined(q, 0) = << >> /\ Joined(q, Len(q)) = FlattenSeq(q)
      /\ \A j \in 0 .. Len(q) : Joined(q, j) \in Seq(D)
      /\ \A j \in 1 .. Len(q) : q[j] \in Seq(D) /\ Joined(q, j) = Joined(q, j - 1) \o q[j]
  BY <1>2, JoinedIs
<1>4. ASSUME NEW p \in 0 .. Len(lens) PROVE IsPrefix(Joined(q, p), FlattenSeq(q))
  <2> DEFINE a == Joined(q, p)  b == FlattenSeq(q)
  <2>0. Len(q) \in 0 .. Len(q) /\ p \in 0 .. Len(q)
    BY <1>1, <1>2
  <2>1. /\ a \in Seq(D) /\ b \in Seq(D) /\ Len(a) \in Nat /\ Len(a) <= Len(b)
        /\ \A i \in 1 .. Len(a) : b[i] = a[i]
    BY <1>2, <1>3, <2>0, JoinedStays
  <2> HIDE DEF a, b
  <2>2. SubSeq(a, 1, Len(a)) = SubSeq(b, 1, Len(a))
    <3> DEFINE s == SubSeq(a, 1, Len(a))  t == SubSeq(b, 1, Len(a))
    <3>1. Len(b) \in Nat /\ \A i \in 1 .. Len(a) : a[i] \in D /\ b[i] \in D
      BY <2>1, LenProperties, ElementOfSeq
    <3>2. s \in Seq(D) /\ Len(s) = Len(a) /\ \A i \in 1 .. Len(a) : s[i] = a[i]
      BY <2>1, <3>1, SubSeqProperties
    <3>3. t \in Seq(D) /\ Len(t) = Len(a) /\ \A i \in 1 .. Len(a) : t[i] = b[i]
      BY <2>1, <3>1, SubSeqProperties
    <3> HIDE DEF s, t
    <3>4. s = t
      BY <2>1, <3>2, <3>3, SeqEqual
    <3>5. QED
      BY <3>4 DEF s, t
  <2>3. QED
    BY <2>1, <2>2 DEF IsPrefix, a, b
<1>5. ASSUME NEW p \in 1 .. Len(lens)
      PROVE  Joined(q, p) = IF lens[p] = 0 THEN Joined(q, p - 1)
                            ELSE Append(Joined(q, p - 1), Data(p, lens[p]))
  <2> DEFINE a == Joined(q, p - 1)  e == Data(p, lens[p])
  <2>1. p \in 1 .. Len(q) /\ p - 1 \in 0 .. Len(q)
    BY <1>1, <1>2
  <2>2. a \in Seq(D) /\ e \in D /\ Joined(q, p) = a \o q[p]
        /\ q[p] = IF lens[p] = 0 THEN << >> ELSE <<e>>
    BY <1>1, <1>2, <1>3, <2>1
  <2> HIDE DEF a, e
  <2>3. a \o << >> = a /\ a \o <<e>> = Append(a, e)
    BY <2>2, ConcatEmptySeq, AppendIsConcat
  <2>4. QED
    BY <2>2, <2>3 DEF a, e
<1>6. QED
  BY <1>2, <1>3, <1>4, <1>5 DEF q

\* Where each chunk begins in the payload and in the stream.
LEMMA ChunkEnds ==
  ASSUME NEW lens, NEW ends, ReplyOK(lens, ends), ends # << >>
  PROVE  /\ Len(ends) \in Nat \ {0} /\ Len(Payload(lens)) \in Nat
         /\ \A c \in 1 .. Len(ends) + 1 :
              /\ Before(ends, c) \in Nat /\ ChunkAt(ends, c) \in Nat /\ ChunkSize(ends, c) \in Nat
              /\ Before(ends, c) + ChunkSize(ends, c) <= Len(Payload(lens))
         /\ Before(ends, 1) = 0 /\ ChunkAt(ends, 1) = 0
         /\ Before(ends, Len(ends) + 1) = Len(Payload(lens)) /\ ChunkSize(ends, Len(ends) + 1) = 0
         /\ \A c \in 1 .. Len(ends) :
              /\ ChunkSize(ends, c) > 0 /\ Before(ends, c + 1) = ends[c]
              /\ ends[c] = Before(ends, c) + ChunkSize(ends, c)
              /\ ChunkAt(ends, c + 1) = ChunkAt(ends, c) + ChunkSize(ends, c) + 5
<1> DEFINE n == Len(ends)  total == Len(Payload(lens))
<1>1. /\ n \in Nat \ {0} /\ total \in Nat /\ ends[n] = total
      /\ \A c \in 1 .. n : ends[c] \in Nat \ {0}
      /\ \A c, d \in 1 .. n : c < d => ends[c] < ends[d]
  BY PacketsAre, LenProperties, ElementOfSeq, EmptySeq DEF ReplyOK
<1>2. \A c \in 1 .. n : ends[c] <= total
  <2> SUFFICES ASSUME NEW c \in 1 .. n PROVE ends[c] <= total
    OBVIOUS
  <2>1. n \in 1 .. n /\ (c < n => ends[c] < ends[n]) /\ ends[c] \in Nat
    BY <1>1
  <2> HIDE DEF total, n
  <2>2. QED
    BY <1>1, <2>1
<1> HIDE DEF n, total
<1>3. ASSUME NEW c \in 1 .. n
      PROVE  /\ Before(ends, c) \in Nat /\ Before(ends, c) < ends[c] /\ Before(ends, c + 1) = ends[c]
             /\ ChunkSize(ends, c) = ends[c] - Before(ends, c)
  <2>1. CASE c = 1
    BY <1>1, <2>1 DEF Before, ChunkSize, n
  <2>2. CASE c # 1
    <3>1. c - 1 \in 1 .. n /\ c - 1 < c /\ c + 1 # 1 /\ (c + 1) - 1 = c
      BY <1>1, <2>2
    <3>2. ends[c - 1] \in Nat /\ ends[c - 1] < ends[c]
      BY <1>1, <3>1
    <3>3. QED
      BY <1>1, <2>2, <3>1, <3>2 DEF Before, ChunkSize, n
  <2>3. QED
    BY <2>1, <2>2
<1>4. Before(ends, n + 1) = total /\ ChunkSize(ends, n + 1) = 0 /\ Before(ends, 1) = 0
  <2>1. n + 1 # 1 /\ (n + 1) - 1 = n /\ ~(n + 1 <= n)
    BY <1>1
  <2>2. QED
    BY <1>1, <2>1 DEF Before, ChunkSize, n
<1>5. ASSUME NEW c \in 1 .. n + 1
      PROVE  /\ Before(ends, c) \in Nat /\ ChunkAt(ends, c) \in Nat /\ ChunkSize(ends, c) \in Nat
             /\ Before(ends, c) + ChunkSize(ends, c) <= total
  <2>1. CASE c \in 1 .. n
    <3>1. ends[c] \in Nat /\ ends[c] <= total /\ c \in Nat \ {0}
      BY <1>1, <1>2, <2>1
    <3>2. /\ Before(ends, c) \in Nat /\ Before(ends, c) < ends[c]
          /\ ChunkSize(ends, c) = ends[c] - Before(ends, c)
      BY <1>3, <2>1
    <3>3. QED
      BY <1>1, <3>1, <3>2 DEF ChunkAt
  <2>2. CASE c = n + 1
    BY <1>1, <1>4, <2>2 DEF ChunkAt
  <2>3. QED
    BY <1>1, <2>1, <2>2
<1>6. ASSUME NEW c \in 1 .. n
      PROVE  /\ ChunkSize(ends, c) > 0 /\ Before(ends, c + 1) = ends[c]
             /\ ends[c] = Before(ends, c) + ChunkSize(ends, c)
             /\ ChunkAt(ends, c + 1) = ChunkAt(ends, c) + ChunkSize(ends, c) + 5
  <2> DEFINE to == ends[c]  from == Before(ends, c)  size == ChunkSize(ends, c)
  <2>1. to \in Nat /\ c \in Nat /\ from \in Nat /\ from < to /\ size = to - from
        /\ Before(ends, c + 1) = to
    BY <1>1, <1>3
  <2>2. ChunkAt(ends, c) = from + 5 * (c - 1) /\ ChunkAt(ends, c + 1) = to + 5 * ((c + 1) - 1)
    BY <2>1 DEF ChunkAt
  <2> HIDE DEF to, from, size
  <2>3. size > 0 /\ to = from + size /\ to + 5 * ((c + 1) - 1) = from + 5 * (c - 1) + size + 5
    BY <2>1
  <2>4. QED
    BY <2>1, <2>2, <2>3 DEF to, from, size
<1>7. ChunkAt(ends, 1) = 0
  BY <1>4 DEF ChunkAt
<1>8. QED
  BY <1>1, <1>4, <1>5, <1>6, <1>7 DEF n, total

LEMMA ChunkHolds ==
  ASSUME NEW lens, NEW ends, ReplyOK(lens, ends), ends # << >>, NEW c \in 1 .. Len(ends)
  PROVE  /\ ChunkSize(ends, c) > 0 /\ ends[c] = Before(ends, c) + ChunkSize(ends, c)
         /\ Before(ends, c + 1) = ends[c]
         /\ ChunkAt(ends, c + 1) = ChunkAt(ends, c) + ChunkSize(ends, c) + 5
BY ChunkEnds

\* A size, its line end, that much of the payload, a line end.
LEMMA ChunkIs ==
  ASSUME NEW lens, NEW ends, ReplyOK(lens, ends), ends # << >>, NEW c \in 1 .. Len(ends)
  PROVE  LET chunk == Chunk(Payload(lens), ends, c)
             size  == ChunkSize(ends, c)
         IN  /\ chunk \in Seq(BodyBytes) /\ Len(chunk) = size + 5
             /\ chunk[1] = Digit(size) /\ chunk[2] = Cr /\ chunk[3] = Lf
             /\ \A i \in 1 .. size : chunk[3 + i] = Payload(lens)[Before(ends, c) + i]
             /\ chunk[size + 4] = Cr /\ chunk[size + 5] = Lf
<1> DEFINE b == Payload(lens)  from == Before(ends, c)  to == ends[c]  size == ChunkSize(ends, c)
           h == <<Digit(to - from), Cr, Lf>>
           m == SubSeq(b, from + 1, to)
           t == <<Cr, Lf>>
           hm == h \o m
           chunk == Chunk(b, ends, c)
<1>1. b \in Seq(BodyBytes)
  BY PacketsAre DEF ReplyOK
<1>2. from \in Nat /\ to = from + size /\ to <= Len(b) /\ size \in Nat /\ Len(b) \in Nat
  <2>1. c \in 1 .. Len(ends) + 1
    BY ChunkEnds
  <2>2. QED
    BY <2>1, ChunkEnds
<1>3. chunk = hm \o t
  BY DEF Chunk
<1>4. h \in Seq(BodyBytes) /\ Len(h) = 3 /\ h[1] = Digit(size) /\ h[2] = Cr /\ h[3] = Lf
  <2>1. to - from = size
    BY <1>2
  <2>2. Digit(size) \in BodyBytes /\ Cr \in BodyBytes /\ Lf \in BodyBytes
    BY <1>2 DEF Digit, Cr, Lf, BodyBytes
  <2> HIDE DEF to, from, size
  <2>3. h = <<Digit(size), Cr, Lf>>
    BY <2>1
  <2>4. QED
    BY <2>2, <2>3
<1>5. t \in Seq(BodyBytes) /\ Len(t) = 2 /\ t[1] = Cr /\ t[2] = Lf
  <2>1. Cr \in BodyBytes /\ Lf \in BodyBytes
    BY DEF Cr, Lf, BodyBytes
  <2>2. QED
    BY <2>1
<1> HIDE DEF b, from, to, size, h, t, chunk
<1>6. m \in Seq(BodyBytes) /\ Len(m) = size /\ \A i \in 1 .. size : m[i] = b[from + i]
  <2>1. SubSeq(b, from + 1, from + size) \in Seq(BodyBytes)
        /\ Len(SubSeq(b, from + 1, from + size)) = size
        /\ \A i \in 1 .. size : SubSeq(b, from + 1, from + size)[i] = b[from + i]
    <3>1. from + size <= Len(b)
      BY <1>2
    <3>2. QED
      BY <1>1, <1>2, <3>1, SliceIs
  <2>2. QED
    BY <1>2, <2>1
<1> HIDE DEF m
<1>7. /\ hm \in Seq(BodyBytes) /\ Len(hm) = size + 3
      /\ \A i \in 1 .. 3 + size : hm[i] = IF i <= 3 THEN h[i] ELSE m[i - 3]
  <2>1. /\ hm \in Seq(BodyBytes) /\ Len(hm) = Len(h) + Len(m)
        /\ \A i \in 1 .. Len(h) + Len(m) : hm[i] = IF i <= Len(h) THEN h[i] ELSE m[i - Len(h)]
    BY <1>4, <1>6, ConcatProperties
  <2>2. Len(h) = 3 /\ Len(m) = size
    BY <1>4, <1>6
  <2> HIDE DEF hm
  <2>3. QED
    BY <1>2, <2>1, <2>2
<1> HIDE DEF hm
<1>8. /\ chunk \in Seq(BodyBytes) /\ Len(chunk) = size + 5
      /\ \A i \in 1 .. size + 3 + 2 : chunk[i] = IF i <= size + 3 THEN hm[i] ELSE t[i - (size + 3)]
  <2>1. /\ chunk \in Seq(BodyBytes) /\ Len(chunk) = Len(hm) + Len(t)
        /\ \A i \in 1 .. Len(hm) + Len(t) : chunk[i] = IF i <= Len(hm) THEN hm[i] ELSE t[i - Len(hm)]
    BY <1>3, <1>5, <1>7, ConcatProperties
  <2>2. Len(hm) = size + 3 /\ Len(t) = 2
    BY <1>5, <1>7
  <2>3. QED
    BY <1>2, <2>1, <2>2
<1>9. chunk[1] = Digit(size) /\ chunk[2] = Cr /\ chunk[3] = Lf
  <2>1. hm[1] = h[1] /\ hm[2] = h[2] /\ hm[3] = h[3]
    <3>1. 1 \in 1 .. 3 + size /\ 2 \in 1 .. 3 + size /\ 3 \in 1 .. 3 + size
      BY <1>2
    <3>2. QED
      BY <1>7, <3>1
  <2>2. chunk[1] = hm[1] /\ chunk[2] = hm[2] /\ chunk[3] = hm[3]
    BY <1>2, <1>8
  <2>3. QED
    BY <1>4, <2>1, <2>2
<1>10. ASSUME NEW i \in 1 .. size PROVE chunk[3 + i] = b[from + i]
  <2> DEFINE g == 3 + i
  <2>1. g \in 1 .. 3 + size /\ g \in 1 .. size + 3 + 2 /\ g <= size + 3 /\ ~(g <= 3) /\ g - 3 = i
    BY <1>2
  <2> HIDE DEF g
  <2>2. chunk[g] = hm[g] /\ hm[g] = m[g - 3] /\ m[i] = b[from + i]
    BY <1>6, <1>7, <1>8, <2>1
  <2>3. QED
    BY <2>1, <2>2 DEF g
<1>11. chunk[size + 4] = Cr /\ chunk[size + 5] = Lf
  <2> DEFINE g == size + 4  e == size + 5
  <2>1. /\ g \in 1 .. size + 3 + 2 /\ ~(g <= size + 3) /\ g - (size + 3) = 1
        /\ e \in 1 .. size + 3 + 2 /\ ~(e <= size + 3) /\ e - (size + 3) = 2
    BY <1>2
  <2> HIDE DEF g, e
  <2>2. chunk[g] = t[g - (size + 3)] /\ chunk[e] = t[e - (size + 3)]
    BY <1>8, <2>1
  <2>3. QED
    BY <1>5, <2>1, <2>2 DEF g, e
<1>12. QED
  BY <1>8, <1>9, <1>10, <1>11 DEF chunk, size, b, from

LEMMA ChunksAre ==
  ASSUME NEW lens, NEW ends, ReplyOK(lens, ends), ends # << >>
  PROVE  /\ Chunks(lens, ends) \in Seq(Seq(BodyBytes)) /\ Len(Chunks(lens, ends)) = Len(ends)
         /\ \A c \in 1 .. Len(ends) :
              /\ Chunks(lens, ends)[c] = Chunk(Payload(lens), ends, c)
              /\ Len(Chunks(lens, ends)[c]) = ChunkSize(ends, c) + 5
         /\ \A c \in 1 .. Len(ends) + 1 :
              Len(Joined(Chunks(lens, ends), c - 1)) = ChunkAt(ends, c)
<1> DEFINE q == Chunks(lens, ends)  n == Len(ends)
<1>1. n \in Nat \ {0}
  BY ChunkEnds
<1>2. \A c \in 1 .. n : Chunk(Payload(lens), ends, c) \in Seq(BodyBytes)
  BY ChunkIs
<1>3. q \in Seq(Seq(BodyBytes)) /\ Len(q) = n
      /\ \A c \in 1 .. n : q[c] = Chunk(Payload(lens), ends, c)
  BY <1>1, <1>2 DEF Chunks
<1>4. ASSUME NEW c \in 1 .. n PROVE Len(q[c]) = ChunkSize(ends, c) + 5
  <2>1. Len(Chunk(Payload(lens), ends, c)) = ChunkSize(ends, c) + 5
    BY ChunkIs
  <2>2. q[c] = Chunk(Payload(lens), ends, c)
    BY <1>3
  <2> HIDE DEF q
  <2>3. QED
    BY <2>1, <2>2
<1> HIDE DEF q
<1> DEFINE N == {k \in Nat : k <= n => Len(Joined(q, k)) = ChunkAt(ends, k + 1)}
<1>5. 0 \in N
  <2>1. Joined(q, 0) = << >>
    BY <1>3, JoinedIs
  <2>2. Len(Joined(q, 0)) = 0 /\ ChunkAt(ends, 0 + 1) = 0
    BY <2>1, ChunkEnds, EmptySeq
  <2>3. QED
    BY <2>2
<1>6. ASSUME NEW k \in Nat, k \in N PROVE k + 1 \in N
  <2> SUFFICES ASSUME k + 1 <= n PROVE Len(Joined(q, k + 1)) = ChunkAt(ends, (k + 1) + 1)
    OBVIOUS
  <2>1. k + 1 \in 1 .. Len(q) /\ (k + 1) - 1 = k /\ k + 1 \in 1 .. n /\ k <= n
    BY <1>1, <1>3
  <2>2. Len(Joined(q, k + 1)) = Len(Joined(q, (k + 1) - 1)) + Len(q[k + 1])
    BY <1>3, <2>1, JoinedAt
  <2>3. Len(Joined(q, k)) = ChunkAt(ends, k + 1)
    BY <1>6, <2>1
  <2>4. /\ Len(q[k + 1]) = ChunkSize(ends, k + 1) + 5
        /\ ChunkAt(ends, (k + 1) + 1) = ChunkAt(ends, k + 1) + ChunkSize(ends, k + 1) + 5
        /\ ChunkAt(ends, k + 1) \in Nat /\ ChunkSize(ends, k + 1) \in Nat
    <3>1. k + 1 \in 1 .. Len(ends) + 1
      BY <1>1, <2>1
    <3>2. QED
      BY <1>4, <2>1, <3>1, ChunkEnds
  <2> DEFINE x == Len(Joined(q, k + 1))  y == Len(Joined(q, k))  z == Len(q[k + 1])
             u == ChunkAt(ends, k + 1)  v == ChunkSize(ends, k + 1)  w == ChunkAt(ends, (k + 1) + 1)
  <2>5. x = y + z /\ y = u /\ z = v + 5 /\ w = u + v + 5 /\ u \in Nat /\ v \in Nat
    BY <2>1, <2>2, <2>3, <2>4
  <2> HIDE DEF x, y, z, u, v, w
  <2>6. x = w
    BY <2>5
  <2>7. QED
    BY <2>6 DEF x, w
<1>7. \A k \in Nat : k \in N
  <2> HIDE DEF N
  <2>1. QED
    BY <1>5, <1>6, EveryNumber
<1>8. ASSUME NEW c \in 1 .. n + 1 PROVE Len(Joined(q, c - 1)) = ChunkAt(ends, c)
  <2>1. c - 1 \in Nat /\ c - 1 <= n /\ (c - 1) + 1 = c
    BY <1>1
  <2>2. QED
    BY <1>7, <2>1
<1>9. QED
  BY <1>3, <1>4, <1>8 DEF q

\* What the decoder finds at the start of each chunk, in it and behind it.
LEMMA StreamIs ==
  ASSUME NEW lens, NEW ends, ReplyOK(lens, ends), ends # << >>
  PROVE  LET s == Framed(lens, ends)
         IN  /\ s \in Seq(BodyBytes) /\ Len(s) = ChunkAt(ends, Len(ends) + 1) + 3
             /\ \A c \in 1 .. Len(ends) + 1 :
                  /\ ChunkAt(ends, c) + 3 <= Len(s)
                  /\ s[ChunkAt(ends, c) + 1] = Digit(ChunkSize(ends, c))
                  /\ s[ChunkAt(ends, c) + 2] = Cr /\ s[ChunkAt(ends, c) + 3] = Lf
             /\ \A c \in 1 .. Len(ends) :
                  /\ ChunkAt(ends, c) + ChunkSize(ends, c) + 5 <= Len(s) - 3
                  /\ s[ChunkAt(ends, c) + ChunkSize(ends, c) + 4] = Cr
                  /\ s[ChunkAt(ends, c) + ChunkSize(ends, c) + 5] = Lf
                  /\ \A i \in 1 .. ChunkSize(ends, c) :
                       s[ChunkAt(ends, c) + 3 + i] = Payload(lens)[Before(ends, c) + i]
<1> DEFINE q == Chunks(lens, ends)  n == Len(ends)  f == FlattenSeq(q)  t == <<Digit(0), Cr, Lf>>
           s == Framed(lens, ends)  z == ChunkAt(ends, n + 1)
<1>1. n \in Nat \ {0} /\ z \in Nat /\ ChunkSize(ends, n + 1) = 0
  <2>1. n \in Nat \ {0}
    BY ChunkEnds
  <2>2. n + 1 \in 1 .. Len(ends) + 1
    BY <2>1
  <2>3. QED
    BY <2>1, <2>2, ChunkEnds
<1>2. /\ q \in Seq(Seq(BodyBytes)) /\ Len(q) = n
      /\ \A c \in 1 .. n : q[c] = Chunk(Payload(lens), ends, c) /\ Len(q[c]) = ChunkSize(ends, c) + 5
      /\ \A c \in 1 .. n + 1 : Len(Joined(q, c - 1)) = ChunkAt(ends, c)
  BY ChunksAre
<1>3. s = f \o t
  BY DEF Framed, Chunks
<1>4. t \in Seq(BodyBytes) /\ Len(t) = 3 /\ t[1] = Digit(0) /\ t[2] = Cr /\ t[3] = Lf
  <2>1. Digit(0) \in BodyBytes /\ Cr \in BodyBytes /\ Lf \in BodyBytes
    BY DEF Digit, Cr, Lf, BodyBytes
  <2>2. QED
    BY <2>1
<1> HIDE DEF q, t, s
<1>5. f \in Seq(BodyBytes) /\ Len(f) = z
  <2>1. Joined(q, Len(q)) = f
    BY <1>2, JoinedIs
  <2>2. n + 1 \in 1 .. n + 1 /\ (n + 1) - 1 = Len(q)
    BY <1>1, <1>2
  <2>3. QED
    BY <1>2, <2>1, <2>2, FlattenType
<1>6. ASSUME NEW c \in 1 .. n, NEW i \in 1 .. ChunkSize(ends, c) + 5
      PROVE  /\ ChunkAt(ends, c) \in Nat /\ ChunkSize(ends, c) \in Nat
             /\ ChunkAt(ends, c) + ChunkSize(ends, c) + 5 <= z
             /\ f[ChunkAt(ends, c) + i] = Chunk(Payload(lens), ends, c)[i]
  <2>1. c \in 1 .. Len(q) /\ c \in 1 .. n + 1
    BY <1>1, <1>2
  <2>2. /\ Len(Joined(q, c)) = Len(Joined(q, c - 1)) + Len(q[c])
        /\ Len(Joined(q, c)) <= Len(f)
        /\ \A j \in 1 .. Len(q[c]) : f[Len(Joined(q, c - 1)) + j] = q[c][j]
    <3>1. q \in Seq(Seq(BodyBytes)) /\ f = FlattenSeq(q)
      BY <1>2
    <3> HIDE DEF f
    <3>2. QED
      BY <2>1, <3>1, JoinedAt
  <2>3. ChunkAt(ends, c) \in Nat /\ ChunkSize(ends, c) \in Nat
    BY <2>1, ChunkEnds
  <2>4. /\ Len(Joined(q, c - 1)) = ChunkAt(ends, c) /\ Len(q[c]) = ChunkSize(ends, c) + 5
        /\ q[c] = Chunk(Payload(lens), ends, c) /\ Len(f) = z
    BY <1>2, <1>5, <2>1
  <2> HIDE DEF f, z
  <2>5. f[ChunkAt(ends, c) + i] = q[c][i]
    BY <2>2, <2>4
  <2>6. ChunkAt(ends, c) + ChunkSize(ends, c) + 5 <= z
    BY <2>2, <2>3, <2>4
  <2>7. QED
    BY <2>3, <2>4, <2>5, <2>6
<1> HIDE DEF f, z
<1>7. /\ s \in Seq(BodyBytes) /\ Len(s) = z + 3
      /\ \A i \in 1 .. z + 3 : s[i] = IF i <= z THEN f[i] ELSE t[i - z]
  <2>1. /\ s \in Seq(BodyBytes) /\ Len(s) = Len(f) + Len(t)
        /\ \A i \in 1 .. Len(f) + Len(t) : s[i] = IF i <= Len(f) THEN f[i] ELSE t[i - Len(f)]
    BY <1>3, <1>4, <1>5, ConcatProperties
  <2>2. Len(f) = z /\ Len(t) = 3
    BY <1>4, <1>5
  <2>3. QED
    BY <1>1, <2>1, <2>2
<1>8. s[z + 1] = Digit(0) /\ s[z + 2] = Cr /\ s[z + 3] = Lf
  <2>1. /\ z + 1 \in 1 .. z + 3 /\ ~(z + 1 <= z) /\ (z + 1) - z = 1
        /\ z + 2 \in 1 .. z + 3 /\ ~(z + 2 <= z) /\ (z + 2) - z = 2
        /\ z + 3 \in 1 .. z + 3 /\ ~(z + 3 <= z) /\ (z + 3) - z = 3
    BY <1>1
  <2>2. s[z + 1] = t[(z + 1) - z] /\ s[z + 2] = t[(z + 2) - z] /\ s[z + 3] = t[(z + 3) - z]
    BY <1>7, <2>1
  <2>3. QED
    BY <1>4, <2>1, <2>2
<1>9. ASSUME NEW c \in 1 .. n, NEW i \in 1 .. ChunkSize(ends, c) + 5
      PROVE  s[ChunkAt(ends, c) + i] = Chunk(Payload(lens), ends, c)[i]
  <2> DEFINE g == ChunkAt(ends, c) + i
  <2>1. g \in 1 .. z + 3 /\ g <= z /\ f[g] = Chunk(Payload(lens), ends, c)[i]
    BY <1>1, <1>6
  <2> HIDE DEF g
  <2>2. s[g] = f[g]
    BY <1>7, <2>1
  <2>3. QED
    BY <2>1, <2>2 DEF g
<1>10. ASSUME NEW c \in 1 .. n
       PROVE  /\ ChunkAt(ends, c) + ChunkSize(ends, c) + 5 <= z
              /\ s[ChunkAt(ends, c) + 1] = Digit(ChunkSize(ends, c))
              /\ s[ChunkAt(ends, c) + 2] = Cr /\ s[ChunkAt(ends, c) + 3] = Lf
              /\ s[ChunkAt(ends, c) + ChunkSize(ends, c) + 4] = Cr
              /\ s[ChunkAt(ends, c) + ChunkSize(ends, c) + 5] = Lf
              /\ \A i \in 1 .. ChunkSize(ends, c) :
                   s[ChunkAt(ends, c) + 3 + i] = Payload(lens)[Before(ends, c) + i]
              /\ ChunkAt(ends, c) + 3 <= z + 3
  <2> DEFINE at == ChunkAt(ends, c)  size == ChunkSize(ends, c)  b == Chunk(Payload(lens), ends, c)
  <2>1. /\ b[1] = Digit(size) /\ b[2] = Cr /\ b[3] = Lf
        /\ \A i \in 1 .. size : b[3 + i] = Payload(lens)[Before(ends, c) + i]
        /\ b[size + 4] = Cr /\ b[size + 5] = Lf
    BY ChunkIs
  <2>2. at \in Nat /\ size \in Nat
    <3>1. c \in 1 .. Len(ends) + 1
      BY <1>1
    <3>2. QED
      BY <3>1, ChunkEnds
  <2>3. 1 \in 1 .. size + 5
    BY <2>2
  <2>4. at + size + 5 <= z
    BY <1>6, <2>3
  <2>5. \A i \in 1 .. size + 5 : s[at + i] = b[i]
    BY <1>9
  <2> HIDE DEF at, size, b
  <2>6. /\ s[at + 1] = b[1] /\ s[at + 2] = b[2] /\ s[at + 3] = b[3]
    BY <2>2, <2>5
  <2>7. s[at + size + 4] = b[size + 4] /\ s[at + size + 5] = b[size + 5]
    <3>1. /\ size + 4 \in 1 .. size + 5 /\ size + 5 \in 1 .. size + 5
          /\ at + (size + 4) = at + size + 4 /\ at + (size + 5) = at + size + 5
      BY <2>2
    <3>2. s[at + (size + 4)] = b[size + 4] /\ s[at + (size + 5)] = b[size + 5]
      BY <2>5, <3>1
    <3>3. QED
      BY <3>1, <3>2
  <2>8. ASSUME NEW i \in 1 .. size PROVE s[at + 3 + i] = Payload(lens)[Before(ends, c) + i]
    <3>1. 3 + i \in 1 .. size + 5 /\ at + (3 + i) = at + 3 + i
      BY <2>2
    <3>2. s[at + (3 + i)] = b[3 + i]
      BY <2>5, <3>1
    <3>3. QED
      BY <2>1, <3>1, <3>2
  <2>9. at + 3 <= z + 3
    BY <1>1, <2>2, <2>4
  <2>10. QED
    BY <2>1, <2>4, <2>6, <2>7, <2>8, <2>9 DEF at, size
<1>11. z = (z + 3) - 3
  BY <1>1
<1>12. ASSUME NEW c \in 1 .. n + 1
       PROVE  /\ ChunkAt(ends, c) + 3 <= z + 3
              /\ s[ChunkAt(ends, c) + 1] = Digit(ChunkSize(ends, c))
              /\ s[ChunkAt(ends, c) + 2] = Cr /\ s[ChunkAt(ends, c) + 3] = Lf
  <2>1. CASE c \in 1 .. n
    BY <1>10, <2>1
  <2>2. CASE c = n + 1
    BY <1>1, <1>8, <2>2 DEF z
  <2>3. QED
    BY <1>1, <2>1, <2>2
<1>13. QED
  BY <1>7, <1>10, <1>11, <1>12 DEF s, z

\* What the decoder finds where a chunk begins, and behind it.
LEMMA ChunkBegins ==
  ASSUME NEW lens, NEW ends, ReplyOK(lens, ends), ends # << >>, NEW c \in 1 .. Len(ends) + 1
  PROVE  /\ Framed(lens, ends)[ChunkAt(ends, c) + 1] = Digit(ChunkSize(ends, c))
         /\ Framed(lens, ends)[ChunkAt(ends, c) + 2] = Cr
BY StreamIs

LEMMA ChunkCloses ==
  ASSUME NEW lens, NEW ends, ReplyOK(lens, ends), ends # << >>, NEW c \in 1 .. Len(ends)
  PROVE  /\ Framed(lens, ends)[ChunkAt(ends, c) + ChunkSize(ends, c) + 4] = Cr
         /\ Framed(lens, ends)[ChunkAt(ends, c) + ChunkSize(ends, c) + 5] = Lf
BY StreamIs

-----------------------------------------------------------------------------
(* The buffer.                                                               *)

LEMMA StreamType ==
  ASSUME ReplyOK(reply.lens, reply.ends)
  PROVE  /\ Stream \in Seq(BodyBytes) /\ Len(Stream) \in Nat
         /\ Body \in Seq(BodyBytes) /\ Len(Body) \in Nat
         /\ ~Chunked => Stream = Body
         /\ Len(reply.lens) \in Nat /\ Meant = FlattenSeq(Wanted(reply.lens))
<1>1. Body \in Seq(BodyBytes) /\ Len(reply.lens) \in Nat
  BY PacketsAre DEF ReplyOK, Body
<1>2. Stream \in Seq(BodyBytes) /\ (~Chunked => Stream = Body)
  <2>1. CASE Chunked
    BY <2>1, StreamIs DEF Chunked, Stream
  <2>2. CASE ~Chunked
    BY <1>1, <2>2 DEF Chunked, Stream, Framed, Body
  <2>3. QED
    BY <2>1, <2>2
<1>3. Meant = FlattenSeq(Wanted(reply.lens))
  BY DEF Meant, Wanted
<1>4. QED
  BY <1>1, <1>2, <1>3, LenProperties

\* The record types, taken apart.
LEMMA BodyTypes ==
  ASSUME BodyTypeOK
  PROVE  /\ resp \in Seq(BodyBytes) /\ Len(resp) \in Nat /\ Len(resp) <= reply.at
         /\ reply.at \in Nat /\ reply.at <= Len(Stream) /\ ReplyOK(reply.lens, reply.ends)
         /\ dec.st \in {"SIZE", "SIZE_CR", "DATA", "DATA_CR", "DONE"}
         /\ dec.acc \in Nat /\ dec.left \in Nat /\ dec.r \in Nat /\ dec.w \in Nat
         /\ play \in Nat /\ play <= Have /\ Have \in Nat
<1>1. Len(resp) \in Nat
  BY LenProperties DEF BodyTypeOK
<1>2. QED
  BY <1>1 DEF BodyTypeOK, Have, Decoders

LEMMA BodyStarts == BodyInit => BodyInv
<1> SUFFICES ASSUME BodyInit PROVE BodyInv
  OBVIOUS
<1>1. PICK r \in Replies : reply = [lens |-> r.lens, ends |-> r.ends, at |-> 0]
  BY DEF BodyInit
<1>2. /\ reply.lens = r.lens /\ reply.ends = r.ends /\ reply.at = 0
      /\ ReplyOK(reply.lens, reply.ends)
      /\ reply \in [lens : Seq(Nat), ends : Seq(Nat \ {0}), at : Nat]
  BY <1>1, RepliesAssumption DEF ReplyOK
<1>3. /\ resp = << >> /\ Len(resp) = 0 /\ play = 0 /\ shipped = << >> /\ st = "REQUESTING"
      /\ dec = [st |-> "SIZE", acc |-> 0, left |-> 0, r |-> 0, w |-> 0]
      /\ pc = "poll" /\ playing = FALSE /\ endSent = FALSE
  BY EmptySeq DEF BodyInit
<1>4. Have = 0
  BY <1>3 DEF Have
<1>5. BodyTypeOK
  <2>1. dec \in Decoders
    BY <1>3 DEF Decoders
  <2>2. reply.at <= Len(Stream) /\ resp \in Seq(BodyBytes) /\ Len(resp) <= reply.at
    BY <1>2, <1>3, StreamType, EmptySeq
  <2>3. QED
    BY <1>2, <1>3, <1>4, <2>1, <2>2 DEF BodyTypeOK
<1>6. Ready(0)
  BY <1>2, <1>4, StreamType DEF Ready
<1>7. Decoding(0)
  <2>1. CASE Chunked
    <3>1. Before(reply.ends, 1) = 0 /\ ChunkAt(reply.ends, 1) = 0 /\ 1 \in 1 .. Len(reply.ends) + 1
      BY <1>2, <2>1, ChunkEnds DEF Chunked
    <3>2. reply.at - Len(resp) + dec.r = 0 /\ 0 + dec.w = 0 /\ dec.st = "SIZE" /\ dec.acc = 0
      BY <1>2, <1>3
    <3>3. InChunk(1, 0)
      BY <3>1, <3>2 DEF InChunk
    <3>4. QED
      BY <1>3, <2>1, <3>1, <3>3 DEF Decoding
  <2>2. CASE ~Chunked
    BY <1>2, <1>3, <2>2 DEF Decoding
  <2>3. QED
    BY <2>1, <2>2
<1>8. Forwarding(0)
  <2>1. PacketAt(reply.lens, 1) = 0 /\ Joined(Wanted(reply.lens), 0) = << >>
        /\ 1 \in 1 .. Len(reply.lens) + 1 /\ 1 - 1 = 0
    BY <1>2, PacketPlaces, WantedIs, StreamType DEF ReplyOK
  <2>2. QED
    BY <1>3, <2>1 DEF Forwarding, MeantTo
<1>9. PassOK
  BY <1>3 DEF PassOK
<1>10. QED
  BY <1>5, <1>6, <1>7, <1>8, <1>9 DEF BodyInv, Held

\* Steps that touch neither buffer nor positions.
LEMMA BufferStays ==
  ASSUME BodyInv, UNCHANGED <<reply, resp, dec, play, shipped>>,
         st = "IDLE" => st' = "IDLE", st' \in {"REQUESTING", "DONE_OK", "IDLE"},
         playing' \in BOOLEAN, endSent' \in BOOLEAN
  PROVE  /\ BodyTypeOK' /\ \E base \in Nat : Held(base)'
         /\ Chunked' = Chunked /\ Stream' = Stream /\ More' = More /\ Meant' = Meant
<1>1. Chunked' = Chunked /\ Stream' = Stream /\ More' = More /\ Have' = Have /\ Body' = Body
      /\ Meant' = Meant
  BY DEF Chunked, Stream, More, Have, Body, Meant
<1>2. BodyTypeOK'
  BY <1>1 DEF BodyInv, BodyTypeOK
<1>3. PICK base \in Nat : Held(base)
  BY DEF BodyInv
<1>4. Ready(base)'
  BY <1>1, <1>3 DEF Held, Ready
<1>5. Decoding(base)'
  <2>1. ASSUME NEW c, InChunk(c, base) PROVE InChunk(c, base)'
    BY <2>1 DEF InChunk
  <2>2. CASE Chunked
    BY <1>1, <1>3, <2>1, <2>2 DEF Held, Decoding
  <2>3. CASE ~Chunked
    BY <1>1, <1>3, <2>3 DEF Held, Decoding
  <2>4. QED
    BY <2>2, <2>3
<1>6. Forwarding(base)'
  BY <1>1, <1>3 DEF Held, Forwarding, Dropped, MeantTo
<1>7. QED
  BY <1>1, <1>2, <1>4, <1>5, <1>6 DEF Held

LEMMA BodyQuiet ==
  ASSUME BodyInv, Fin \/ PollReturns \/ Decoded \/ Arm \/ HandleDone \/ ForwardPump
                  \/ UNCHANGED bodyVars
  PROVE  BodyInv'
<1>0. PassOK /\ BodyTypeOK /\ st \in {"REQUESTING", "DONE_OK", "IDLE"}
      /\ playing \in BOOLEAN /\ endSent \in BOOLEAN
  BY DEF BodyInv, BodyTypeOK
<1>1. CASE Fin
  <2>1. /\ UNCHANGED <<reply, resp, dec, play, shipped>> /\ st = "REQUESTING" /\ st' = "DONE_OK"
        /\ UNCHANGED <<playing, endSent>> /\ pc' = "pass"
    BY <1>1 DEF Fin
  <2>2. /\ BodyTypeOK' /\ \E base \in Nat : Held(base)'
        /\ Chunked' = Chunked /\ Stream' = Stream /\ More' = More /\ Meant' = Meant
    BY <1>0, <2>1, BufferStays
  <2>3. QED
    BY <1>0, <2>1, <2>2 DEF BodyInv, PassOK
<1>2. CASE PollReturns
  <2>1. /\ UNCHANGED <<reply, resp, dec, play, shipped, st>>
        /\ UNCHANGED <<playing, endSent>> /\ pc' = "pass"
    BY <1>2 DEF PollReturns
  <2>2. /\ BodyTypeOK' /\ \E base \in Nat : Held(base)'
        /\ Chunked' = Chunked /\ Stream' = Stream /\ More' = More /\ Meant' = Meant
    BY <1>0, <2>1, BufferStays
  <2>3. QED
    BY <1>0, <2>1, <2>2 DEF BodyInv, PassOK
<1>3. CASE Decoded
  <2>1. /\ UNCHANGED <<reply, resp, dec, play, shipped, st>>
        /\ UNCHANGED <<playing, endSent>> /\ ~More /\ pc \in {"decode", "pump decode"}
        /\ pc' = IF pc = "decode" THEN "arm" ELSE "forward"
    BY <1>3 DEF Decoded
  <2>2. /\ BodyTypeOK' /\ \E base \in Nat : Held(base)'
        /\ Chunked' = Chunked /\ Stream' = Stream /\ More' = More /\ Meant' = Meant
    BY <1>0, <2>1, BufferStays
  <2>3. QED
    BY <1>0, <2>1, <2>2 DEF BodyInv, PassOK
<1>4. CASE Arm
  <2>1. /\ UNCHANGED <<reply, resp, dec, shipped, st>> /\ pc' = "poll"
        /\ \/ ~playing /\ playing' = TRUE /\ endSent' = FALSE /\ play' = 0
           \/ UNCHANGED <<playing, endSent, play>>
    BY <1>4 DEF Arm, Started
  <2>2. play' = play
    BY <1>0, <2>1 DEF PassOK
  <2>3. /\ BodyTypeOK' /\ \E base \in Nat : Held(base)'
        /\ Chunked' = Chunked /\ Stream' = Stream /\ More' = More /\ Meant' = Meant
    BY <1>0, <2>1, <2>2, BufferStays
  <2>4. PassOK'
    <3>1. pc' = "poll" /\ st' = st /\ shipped' = shipped /\ reply' = reply
      BY <2>1
    <3>2. CASE playing' = TRUE /\ endSent' = FALSE
      BY <3>1, <3>2 DEF PassOK
    <3>3. CASE UNCHANGED <<playing, endSent>>
      BY <1>0, <2>2, <2>3, <3>1, <3>3 DEF PassOK
    <3>4. QED
      BY <2>1, <3>2, <3>3
  <2>5. QED
    BY <2>3, <2>4 DEF BodyInv
<1>5. CASE HandleDone
  <2>1. /\ UNCHANGED <<reply, resp, dec, shipped>> /\ pc' = pc /\ pc = "pass"
        /\ st = "DONE_OK" /\ st' = "IDLE"
        /\ \/ ~playing /\ playing' = TRUE /\ endSent' = FALSE /\ play' = 0
           \/ UNCHANGED <<playing, endSent, play>>
    BY <1>5 DEF HandleDone, Started
  <2>2. play' = play
    BY <1>0, <2>1 DEF PassOK
  <2>3. /\ BodyTypeOK' /\ \E base \in Nat : Held(base)'
        /\ Chunked' = Chunked /\ Stream' = Stream /\ More' = More /\ Meant' = Meant
    BY <1>0, <2>1, <2>2, BufferStays
  <2>4. PassOK'
    <3>1. pc' = "pass" /\ st' = "IDLE" /\ shipped' = shipped /\ reply' = reply
      BY <2>1
    <3>2. CASE playing' = TRUE /\ endSent' = FALSE
      BY <3>1, <3>2 DEF PassOK
    <3>3. CASE UNCHANGED <<playing, endSent>>
      BY <1>0, <2>2, <2>3, <3>1, <3>3 DEF PassOK
    <3>4. QED
      BY <2>1, <3>2, <3>3
  <2>5. QED
    BY <2>3, <2>4 DEF BodyInv
<1>6. CASE ForwardPump
  <2>1. /\ UNCHANGED <<reply, resp, dec, play, shipped, st>> /\ UNCHANGED <<playing, endSent>>
        /\ pc' = IF ~playing \/ endSent THEN "poll" ELSE IF Chunked THEN "pump decode" ELSE "forward"
    BY <1>6 DEF ForwardPump
  <2>2. /\ BodyTypeOK' /\ \E base \in Nat : Held(base)'
        /\ Chunked' = Chunked /\ Stream' = Stream /\ More' = More /\ Meant' = Meant
    BY <1>0, <2>1, BufferStays
  <2>3. QED
    BY <1>0, <2>1, <2>2 DEF BodyInv, PassOK
<1>7. CASE UNCHANGED bodyVars
  <2>1. /\ UNCHANGED <<reply, resp, dec, play, shipped, st>> /\ UNCHANGED <<playing, endSent, pc>>
    BY <1>7 DEF bodyVars
  <2>2. /\ BodyTypeOK' /\ \E base \in Nat : Held(base)'
        /\ Chunked' = Chunked /\ Stream' = Stream /\ More' = More /\ Meant' = Meant
    BY <1>0, <2>1, BufferStays
  <2>3. QED
    BY <1>0, <2>1, <2>2 DEF BodyInv, PassOK
<1>8. QED
  BY <1>1, <1>2, <1>3, <1>4, <1>5, <1>6, <1>7

\* http_resp_compact_locked: what is left of the buffer moves to its front, and
\* so do the positions in it.
LEMMA CompactKeeps ==
  ASSUME BodyTypeOK, NEW base \in Nat, Held(base), Compact, UNCHANGED <<reply, st, shipped>>
  PROVE  /\ resp' \in Seq(BodyBytes) /\ Len(resp') \in Nat /\ Len(resp') <= reply.at
         /\ dec' \in Decoders
         /\ play' = 0 /\ Have' \in Nat
         /\ \E first \in Nat : Held(first)'
         /\ Chunked /\ ~More => ~More'
<1>1. /\ resp \in Seq(BodyBytes) /\ Len(resp) \in Nat /\ Len(resp) <= reply.at /\ reply.at \in Nat
      /\ dec.acc \in Nat /\ dec.left \in Nat /\ dec.r \in Nat /\ dec.w \in Nat
      /\ play \in Nat /\ play <= Have /\ Have \in Nat /\ ReplyOK(reply.lens, reply.ends)
  BY BodyTypes
<1>2. Have <= Len(resp) /\ (Chunked => Have = dec.w /\ dec.w <= dec.r /\ dec.r <= Len(resp))
      /\ (~Chunked => Have = Len(resp))
  <2>1. CASE Chunked
    BY <1>1, <2>1 DEF Have, Held, Decoding
  <2>2. CASE ~Chunked
    BY <1>1, <2>2 DEF Have
  <2>3. QED
    BY <2>1, <2>2
<1>3. /\ resp' \in Seq(BodyBytes) /\ Len(resp') = Len(resp) - play
      /\ \A i \in 1 .. Len(resp) - play : resp'[i] = resp[play + i]
  <2>1. resp' = SubSeq(resp, play + 1, Len(resp))
    BY DEF Compact, Compacted
  <2> DEFINE n == Len(resp) - play
  <2>2. n \in Nat /\ play + n = Len(resp) /\ play + n <= Len(resp)
    BY <1>1, <1>2
  <2> HIDE DEF n
  <2>3. /\ SubSeq(resp, play + 1, play + n) \in Seq(BodyBytes)
        /\ Len(SubSeq(resp, play + 1, play + n)) = n
        /\ \A i \in 1 .. n : SubSeq(resp, play + 1, play + n)[i] = resp[play + i]
    BY <1>1, <2>2, SliceIs
  <2>4. QED
    BY <2>1, <2>2, <2>3 DEF n
<1>4. /\ Chunked' = Chunked /\ Stream' = Stream /\ Body' = Body /\ play' = 0
      /\ dec' = IF Chunked THEN [dec EXCEPT !.r = @ - play, !.w = @ - play] ELSE dec
  BY DEF Compact, Chunked, Stream, Body
<1>5. /\ dec'.st = dec.st /\ dec'.acc = dec.acc /\ dec'.left = dec.left
      /\ Chunked => dec'.r = dec.r - play /\ dec'.w = dec.w - play
      /\ dec' \in Decoders
  <2>0. dec \in Decoders
    BY DEF BodyTypeOK
  <2>1. CASE Chunked
    <3>1. dec.r - play \in Nat /\ dec.w - play \in Nat
      BY <1>1, <1>2, <2>1
    <3>2. dec' = [dec EXCEPT !.r = dec.r - play, !.w = dec.w - play]
      BY <1>4, <2>1
    <3>3. QED
      BY <2>0, <3>1, <3>2 DEF Decoders
  <2>2. CASE ~Chunked
    BY <1>4, <2>0, <2>2
  <2>3. QED
    BY <2>1, <2>2
<1>6. /\ dec'.st = dec.st /\ dec'.acc = dec.acc /\ dec'.left = dec.left
      /\ Chunked => dec'.r = dec.r - play /\ dec'.w = dec.w - play
  BY <1>5
<1>7. Have' = Have - play /\ Have' \in Nat
  <2>1. CASE Chunked
    <3>1. Have' = dec'.w /\ Have = dec.w
      BY <1>4, <2>1 DEF Have
    <3>2. QED
      BY <1>1, <1>2, <1>6, <2>1, <3>1
  <2>2. CASE ~Chunked
    <3>1. Have' = Len(resp') /\ Have = Len(resp)
      BY <1>4, <2>2 DEF Have
    <3>2. QED
      BY <1>1, <1>2, <1>3, <3>1
  <2>3. QED
    BY <2>1, <2>2
<1>8. PICK first \in Nat : first = base + play
  BY <1>1
<1>9. Ready(first)'
  <2>1. base + Have <= Len(Body) /\ \A i \in 1 .. Have : resp[i] = Body[base + i]
    BY DEF Held, Ready
  <2>2. first + Have' <= Len(Body)
    BY <1>1, <1>7, <1>8, <2>1, StreamType
  <2>3. ASSUME NEW i \in 1 .. Have' PROVE resp'[i] = Body[first + i]
    <3>1. i \in 1 .. Len(resp) - play /\ play + i \in 1 .. Have /\ base + (play + i) = first + i
      BY <1>1, <1>2, <1>7, <1>8
    <3>2. resp'[i] = resp[play + i] /\ resp[play + i] = Body[base + (play + i)]
      BY <1>3, <2>1, <3>1
    <3>3. QED
      BY <3>1, <3>2
  <2>4. QED
    BY <1>4, <2>2, <2>3 DEF Ready
<1>10. Decoding(first)'
  <2>1. CASE Chunked
    <3>1. /\ \A i \in dec.r + 1 .. Len(resp) : resp[i] = Stream[reply.at - Len(resp) + i]
          /\ \E c \in 1 .. Len(reply.ends) + 1 : InChunk(c, base)
      BY <2>1 DEF Held, Decoding
    <3>2. PICK c \in 1 .. Len(reply.ends) + 1 : InChunk(c, base)
      BY <3>1
    <3> DEFINE at == reply.at  had == Len(resp)  has == Len(resp')
               r == dec.r  nr == dec'.r  w == dec.w  nw == dec'.w
    <3>0. /\ at \in Nat /\ had \in Nat /\ r \in Nat /\ w \in Nat /\ play \in Nat
          /\ has = had - play /\ nr = r - play /\ nw = w - play
          /\ play <= w /\ w <= r /\ r <= had
      BY <1>1, <1>2, <1>3, <1>6, <2>1
    <3>3. /\ reply.at - Len(resp') + dec'.r = reply.at - Len(resp) + dec.r
          /\ first + dec'.w = base + dec.w
      <4> HIDE DEF at, had, has, r, nr, w, nw
      <4>1. at - has + nr = at - had + r /\ first + nw = base + w
        BY <1>8, <3>0
      <4>2. QED
        BY <4>1 DEF at, had, has, r, nr, w, nw
    <3>4. InChunk(c, first)'
      BY <1>6, <3>2, <3>3 DEF InChunk
    <3>5. ASSUME NEW i \in dec'.r + 1 .. Len(resp')
          PROVE  resp'[i] = Stream[reply.at - Len(resp') + i]
      <4>1. i \in 1 .. Len(resp) - play /\ play + i \in dec.r + 1 .. Len(resp)
            /\ reply.at - Len(resp) + (play + i) = reply.at - Len(resp') + i
        <5>1. i \in nr + 1 .. has
          OBVIOUS
        <5> HIDE DEF at, had, has, r, nr, w, nw
        <5>2. i \in 1 .. had - play /\ play + i \in r + 1 .. had
              /\ at - had + (play + i) = at - has + i
          BY <3>0, <5>1
        <5>3. QED
          BY <5>2 DEF at, had, has, r
      <4>2. resp'[i] = resp[play + i]
            /\ resp[play + i] = Stream[reply.at - Len(resp) + (play + i)]
        BY <1>3, <3>1, <4>1
      <4>3. QED
        BY <4>1, <4>2
    <3>6. dec'.w <= dec'.r /\ dec'.r <= Len(resp')
      BY <1>1, <1>2, <1>3, <1>6, <2>1
    <3>7. reply' = reply
      OBVIOUS
    <3>8. QED
      BY <1>4, <2>1, <3>4, <3>5, <3>6, <3>7 DEF Decoding
  <2>2. CASE ~Chunked
    <3>1. base + Len(resp) = reply.at
      BY <2>2 DEF Held, Decoding
    <3>2. first + Len(resp') = reply.at
      BY <1>1, <1>3, <1>8, <3>1
    <3>3. QED
      BY <1>4, <2>2, <3>2 DEF Decoding
  <2>3. QED
    BY <2>1, <2>2
<1>11. Chunked /\ ~More => ~More'
  BY <1>1, <1>2, <1>3, <1>6 DEF More
<1>12. Forwarding(first)'
  <2>1. CASE Dropped /\ \E p \in 0 .. Len(reply.lens) : shipped = MeantTo(p)
    <3>1. Dropped'
      BY <1>1, <1>4, <1>7, <1>11, <2>1 DEF Dropped
    <3>2. QED
      BY <2>1, <3>1 DEF Forwarding, MeantTo
  <2>2. CASE \E p \in 1 .. Len(reply.lens) + 1 :
               base + play = PacketAt(reply.lens, p) /\ shipped = MeantTo(p - 1)
    <3>1. first + play' = base + play
      BY <1>1, <1>4, <1>8
    <3>2. QED
      BY <2>2, <3>1 DEF Forwarding, MeantTo
  <2>3. QED
    BY <2>1, <2>2 DEF Held, Forwarding
<1>13. Held(first)'
  BY <1>9, <1>10, <1>12 DEF Held
<1>14. Len(resp') \in Nat /\ Len(resp') <= reply.at
  BY <1>1, <1>2, <1>3
<1>15. QED
  BY <1>3, <1>4, <1>5, <1>7, <1>11, <1>13, <1>14

\* A segment goes behind the bytes still to be decoded.
Delivered(n) ==
  /\ resp' = resp \o SubSeq(Stream, reply.at + 1, reply.at + n)
  /\ reply' = [reply EXCEPT !.at = @ + n]
  /\ UNCHANGED <<play, dec>>

LEMMA SegmentKeeps ==
  ASSUME BodyTypeOK, NEW base \in Nat, Held(base), st # "IDLE", NEW n \in Nat,
         reply.at + n <= Len(Stream), Delivered(n), UNCHANGED <<st, shipped>>
  PROVE  /\ reply' \in [lens : Seq(Nat), ends : Seq(Nat \ {0}), at : Nat]
         /\ reply'.lens = reply.lens /\ reply'.ends = reply.ends /\ reply'.at = reply.at + n
         /\ resp' \in Seq(BodyBytes) /\ Len(resp') \in Nat /\ Len(resp') <= reply'.at
         /\ play' <= Have' /\ Held(base)'
<1>1. /\ resp \in Seq(BodyBytes) /\ Len(resp) \in Nat /\ Len(resp) <= reply.at /\ reply.at \in Nat
      /\ dec.acc \in Nat /\ dec.left \in Nat /\ dec.r \in Nat /\ dec.w \in Nat
      /\ play \in Nat /\ play <= Have /\ Have \in Nat /\ ReplyOK(reply.lens, reply.ends)
  BY BodyTypes
<1>2. /\ reply' \in [lens : Seq(Nat), ends : Seq(Nat \ {0}), at : Nat]
      /\ reply'.lens = reply.lens /\ reply'.ends = reply.ends /\ reply'.at = reply.at + n
  <2>1. reply \in [lens : Seq(Nat), ends : Seq(Nat \ {0}), at : Nat] /\ reply.at + n \in Nat
    BY <1>1 DEF BodyTypeOK
  <2>2. QED
    BY <2>1 DEF Delivered
<1>3. /\ reply'.lens = reply.lens /\ reply'.ends = reply.ends /\ reply'.at = reply.at + n
      /\ play' = play /\ dec' = dec
  BY <1>2 DEF Delivered
<1>4. Chunked' = Chunked /\ Stream' = Stream /\ Body' = Body
  BY <1>3 DEF Chunked, Stream, Body
<1>5. /\ resp' \in Seq(BodyBytes) /\ Len(resp') = Len(resp) + n
      /\ \A i \in 1 .. Len(resp) : resp'[i] = resp[i]
      /\ \A i \in Len(resp) + 1 .. Len(resp) + n : resp'[i] = Stream[reply.at - Len(resp) + i]
  <2> DEFINE seg == SubSeq(Stream, reply.at + 1, reply.at + n)  at == reply.at
  <2>1. Stream \in Seq(BodyBytes) /\ Len(Stream) \in Nat /\ resp' = resp \o seg
    BY <1>1, StreamType DEF Delivered
  <2>2. seg \in Seq(BodyBytes) /\ Len(seg) = n /\ \A i \in 1 .. n : seg[i] = Stream[reply.at + i]
    <3>1. at \in Nat /\ at + n <= Len(Stream)
      BY <1>1
    <3> HIDE DEF at
    <3>2. /\ SubSeq(Stream, at + 1, at + n) \in Seq(BodyBytes)
          /\ Len(SubSeq(Stream, at + 1, at + n)) = n
          /\ \A i \in 1 .. n : SubSeq(Stream, at + 1, at + n)[i] = Stream[at + i]
      BY <2>1, <3>1, SliceIs
    <3>3. QED
      BY <3>2 DEF at
  <2> HIDE DEF seg
  <2>3. /\ resp' \in Seq(BodyBytes) /\ Len(resp') = Len(resp) + Len(seg)
        /\ \A i \in 1 .. Len(resp) + Len(seg) :
             resp'[i] = IF i <= Len(resp) THEN resp[i] ELSE seg[i - Len(resp)]
    BY <1>1, <2>1, <2>2, ConcatProperties
  <2>4. ASSUME NEW i \in Len(resp) + 1 .. Len(resp) + n
        PROVE  resp'[i] = Stream[at - Len(resp) + i]
    <3>1. at \in Nat
      BY <1>1
    <3> HIDE DEF at
    <3>2. i \in 1 .. Len(resp) + n /\ ~(i <= Len(resp)) /\ i - Len(resp) \in 1 .. n
          /\ at + (i - Len(resp)) = at - Len(resp) + i
      BY <1>1, <3>1
    <3>3. resp'[i] = seg[i - Len(resp)] /\ seg[i - Len(resp)] = Stream[at + (i - Len(resp))]
      BY <2>2, <2>3, <3>2 DEF at
    <3>4. QED
      BY <3>2, <3>3
  <2>5. Len(resp') = Len(resp) + n
    BY <2>2, <2>3
  <2>6. ASSUME NEW i \in 1 .. Len(resp) PROVE resp'[i] = resp[i]
    <3>1. i \in 1 .. Len(resp) + Len(seg) /\ i <= Len(resp)
      BY <1>1, <2>2
    <3>2. QED
      BY <2>3, <3>1
  <2>7. QED
    BY <2>3, <2>4, <2>5, <2>6
<1>6. reply'.at - Len(resp') = reply.at - Len(resp)
  BY <1>1, <1>3, <1>5
<1>7. Ready(base)' /\ play' <= Have'
  <2>1. base + Have <= Len(Body) /\ \A i \in 1 .. Have : resp[i] = Body[base + i]
    BY DEF Held, Ready
  <2>2. CASE Chunked
    <3>1. Have' = dec.w /\ Have = dec.w /\ dec.w <= Len(resp)
      BY <1>1, <1>3, <1>4, <2>2 DEF Have, Held, Decoding
    <3>2. QED
      BY <1>1, <1>3, <1>4, <1>5, <2>1, <3>1 DEF Ready
  <2>3. CASE ~Chunked
    <3>1. Have' = Len(resp) + n /\ Have = Len(resp) /\ base + Len(resp) = reply.at /\ Stream = Body
      BY <1>1, <1>4, <1>5, <2>3, StreamType DEF Have, Held, Decoding
    <3>2. ASSUME NEW i \in 1 .. Len(resp) + n PROVE resp'[i] = Body[base + i]
      <4>1. CASE i <= Len(resp)
        <5>1. i \in 1 .. Len(resp)
          BY <1>1, <4>1
        <5>2. QED
          BY <1>5, <2>1, <3>1, <5>1
      <4>2. CASE ~(i <= Len(resp))
        <5> DEFINE at == reply.at  had == Len(resp)
        <5>0. at \in Nat /\ had \in Nat /\ base + had = at
          BY <1>1, <3>1
        <5>1. i \in Len(resp) + 1 .. Len(resp) + n /\ reply.at - Len(resp) + i = base + i
          <6>1. i \in 1 .. had + n /\ ~(i <= had)
            BY <4>2
          <6> HIDE DEF at, had
          <6>2. i \in had + 1 .. had + n /\ at - had + i = base + i
            BY <5>0, <6>1
          <6>3. QED
            BY <6>2 DEF at, had
        <5>2. resp'[i] = Stream[reply.at - Len(resp) + i]
          BY <1>5, <5>1
        <5>3. QED
          BY <3>1, <5>1, <5>2
      <4>3. QED
        BY <4>1, <4>2
    <3>3. base + (Len(resp) + n) <= Len(Body)
      BY <1>1, <3>1
    <3>4. play' <= Have'
      BY <1>1, <1>3, <3>1
    <3>5. QED
      BY <1>4, <3>1, <3>2, <3>3, <3>4 DEF Ready
  <2>4. QED
    BY <2>2, <2>3
<1>8. Decoding(base)'
  <2>1. CASE Chunked
    <3>1. /\ dec.w <= dec.r /\ dec.r <= Len(resp)
          /\ \A i \in dec.r + 1 .. Len(resp) : resp[i] = Stream[reply.at - Len(resp) + i]
          /\ \E c \in 1 .. Len(reply.ends) + 1 : InChunk(c, base)
      BY <2>1 DEF Held, Decoding
    <3>2. PICK c \in 1 .. Len(reply.ends) + 1 : InChunk(c, base)
      BY <3>1
    <3>3. InChunk(c, base)'
      BY <1>3, <1>6, <3>2 DEF InChunk
    <3>4. ASSUME NEW i \in dec.r + 1 .. Len(resp')
          PROVE  resp'[i] = Stream[reply'.at - Len(resp') + i]
      <4>1. CASE i <= Len(resp)
        <5>1. i \in dec.r + 1 .. Len(resp) /\ i \in 1 .. Len(resp)
          BY <1>1, <4>1
        <5>2. QED
          BY <1>5, <1>6, <3>1, <5>1
      <4>2. CASE ~(i <= Len(resp))
        <5>1. i \in Len(resp) + 1 .. Len(resp) + n
          BY <1>1, <1>5, <4>2
        <5>2. QED
          BY <1>5, <1>6, <5>1
      <4>3. QED
        BY <4>1, <4>2
    <3>5. dec.r <= Len(resp')
      BY <1>1, <1>5, <3>1
    <3>6. QED
      BY <1>3, <1>4, <2>1, <3>1, <3>3, <3>4, <3>5 DEF Decoding
  <2>2. CASE ~Chunked
    <3>1. base + Len(resp) = reply.at
      BY <2>2 DEF Held, Decoding
    <3>2. base + Len(resp') = reply'.at
      BY <1>1, <1>3, <1>5, <3>1
    <3>3. QED
      BY <1>4, <2>2, <3>2 DEF Decoding
  <2>3. QED
    BY <2>1, <2>2
<1>9. Forwarding(base)'
  <2>1. ~Dropped
    BY DEF Dropped
  <2>2. QED
    BY <1>3, <2>1 DEF Held, Forwarding, MeantTo
<1>10. Len(resp') \in Nat /\ Len(resp') <= reply'.at
  BY <1>1, <1>3, <1>5
<1>11. QED
  BY <1>2, <1>5, <1>7, <1>8, <1>9, <1>10 DEF Held

LEMMA ReceiveStep == ASSUME BodyInv, Receive PROVE BodyInv'
<1>1. BodyTypeOK /\ PassOK
  BY DEF BodyInv
<1>2. PICK base \in Nat : Held(base)
  BY DEF BodyInv
<1>3. PICK n \in 1 .. SegMax :
        /\ reply.at + n <= Len(Stream)
        /\ \/ Compact /\ UNCHANGED reply /\ pc' = "poll"
           \/ Delivered(n) /\ pc' = IF Chunked /\ ~playing THEN "decode" ELSE "arm"
  BY DEF Receive, Delivered
<1>4. /\ pc = "poll" /\ st # "IDLE" /\ reply.at < Len(Stream)
      /\ UNCHANGED <<st, playing, endSent, shipped>>
  BY DEF Receive
<1>5. n \in Nat
  <2>1. SegMax \in Nat
    BY HttpBodyAssumption
  <2>2. QED
    BY <2>1
<1>6. ~endSent
  <2>1. reply.at \in Nat /\ Len(Stream) \in Nat
    BY <1>1, BodyTypes, StreamType
  <2>2. QED
    BY <1>1, <1>4, <2>1 DEF PassOK
<1>7. CASE Compact /\ UNCHANGED reply /\ pc' = "poll"
  <2>1. /\ resp' \in Seq(BodyBytes) /\ Len(resp') \in Nat /\ Len(resp') <= reply.at
        /\ dec' \in Decoders
        /\ play' = 0 /\ Have' \in Nat /\ \E first \in Nat : Held(first)'
    BY <1>1, <1>2, <1>4, <1>7, CompactKeeps
  <2>2. Stream' = Stream
    BY <1>7 DEF Stream
  <2>3. BodyTypeOK'
    BY <1>1, <1>4, <1>7, <2>1, <2>2 DEF BodyTypeOK
  <2>4. PassOK'
    BY <1>1, <1>4, <1>6, <1>7, <2>1 DEF PassOK
  <2>5. QED
    BY <2>1, <2>3, <2>4 DEF BodyInv
<1>8. CASE Delivered(n) /\ pc' = IF Chunked /\ ~playing THEN "decode" ELSE "arm"
  <2>1. /\ reply' \in [lens : Seq(Nat), ends : Seq(Nat \ {0}), at : Nat]
        /\ reply'.lens = reply.lens /\ reply'.ends = reply.ends /\ reply'.at = reply.at + n
        /\ resp' \in Seq(BodyBytes) /\ Len(resp') \in Nat /\ Len(resp') <= reply'.at
        /\ play' <= Have' /\ Held(base)'
    BY <1>1, <1>2, <1>3, <1>4, <1>5, <1>8, SegmentKeeps
  <2>2. Stream' = Stream /\ Chunked' = Chunked
    BY <2>1 DEF Stream, Chunked
  <2>3. reply'.at <= Len(Stream') /\ play' = play /\ dec' = dec
    BY <1>3, <1>8, <2>1, <2>2 DEF Delivered
  <2>4. BodyTypeOK'
    BY <1>1, <1>4, <2>1, <2>3 DEF BodyTypeOK
  <2>5. PassOK'
    BY <1>1, <1>4, <1>6, <1>8, <2>2, <2>3 DEF PassOK
  <2>6. QED
    BY <2>1, <2>4, <2>5 DEF BodyInv
<1>9. QED
  BY <1>3, <1>7, <1>8

\* The decoder reads the stream where it stands.
LEMMA NextByte ==
  ASSUME BodyTypeOK, NEW base \in Nat, Held(base), Chunked, More
  PROVE  \E read, moved \in Nat :
           /\ read = reply.at - Len(resp) + dec.r /\ moved = base + dec.w
           /\ Byte = Stream[read + 1]
           /\ dec.r + 1 < Len(resp) => resp[dec.r + 2] = Stream[read + 2]
           /\ \E c \in 1 .. Len(reply.ends) + 1 : InChunk(c, base)
           /\ dec.w <= dec.r /\ dec.r < Len(resp) /\ dec.st # "DONE"
<1> DEFINE at == reply.at  had == Len(resp)  r == dec.r  read == at - had + r  moved == base + dec.w
<1>1. /\ at \in Nat /\ had \in Nat /\ r \in Nat /\ had <= at /\ dec.w \in Nat /\ moved \in Nat
  BY BodyTypes
<1>2. /\ dec.w <= r /\ r < had /\ dec.st # "DONE"
      /\ \A i \in r + 1 .. had : resp[i] = Stream[at - had + i]
      /\ \E c \in 1 .. Len(reply.ends) + 1 : InChunk(c, base)
  BY DEF Held, Decoding, More
<1>3. Byte = resp[r + 1]
  BY DEF Byte
<1> HIDE DEF at, had, r
<1>4. read \in Nat
  BY <1>1
<1>5. resp[r + 1] = Stream[read + 1]
  <2>1. r + 1 \in r + 1 .. had /\ at - had + (r + 1) = read + 1
    BY <1>1, <1>2
  <2>2. QED
    BY <1>2, <2>1
<1>6. r + 1 < had => resp[r + 2] = Stream[read + 2]
  <2>1. r + 1 < had => r + 2 \in r + 1 .. had
    BY <1>1, <1>2
  <2>2. at - had + (r + 2) = read + 2
    BY <1>1
  <2>3. QED
    BY <1>2, <2>1, <2>2
<1>7. /\ read = reply.at - Len(resp) + dec.r /\ moved = base + dec.w
      /\ Byte = Stream[read + 1]
      /\ dec.r + 1 < Len(resp) => resp[dec.r + 2] = Stream[read + 2]
      /\ dec.w <= dec.r /\ dec.r < Len(resp)
  BY <1>2, <1>3, <1>5, <1>6 DEF at, had, r
<1> HIDE DEF read, moved
<1>8. QED
  BY <1>1, <1>2, <1>4, <1>7

\* The positions of the decoder after k more bytes.
LEMMA ReadOn ==
  ASSUME BodyTypeOK, NEW base \in Nat, Held(base), Chunked, UNCHANGED <<reply, resp>>,
         NEW k \in Nat, dec.r + k <= Len(resp), dec'.r = dec.r + k, dec'.w = dec.w,
         \E c \in 1 .. Len(reply.ends) + 1 : InChunk(c, base)'
  PROVE  Ready(base)' /\ Decoding(base)'
<1>1. /\ dec.r \in Nat /\ dec.w \in Nat /\ Len(resp) \in Nat
  BY BodyTypes
<1>2. Chunked' = Chunked /\ Stream' = Stream /\ Body' = Body /\ Have' = Have
  BY DEF Chunked, Stream, Body, Have
<1>3. Ready(base)'
  BY <1>2 DEF Held, Ready
<1>4. dec.w <= dec.r /\ \A i \in dec.r + 1 .. Len(resp) : resp[i] = Stream[reply.at - Len(resp) + i]
  BY DEF Held, Decoding
<1>5. ASSUME NEW i \in dec.r + k + 1 .. Len(resp)
      PROVE  resp[i] = Stream[reply.at - Len(resp) + i]
  <2>1. i \in dec.r + 1 .. Len(resp)
    <3> DEFINE r == dec.r  had == Len(resp)
    <3>1. i \in r + k + 1 .. had /\ r \in Nat /\ had \in Nat
      BY <1>1
    <3> HIDE DEF r, had
    <3>2. i \in r + 1 .. had
      BY <3>1
    <3>3. QED
      BY <3>2 DEF r, had
  <2>2. QED
    BY <1>4, <2>1
<1>6. dec.w <= dec.r + k
  BY <1>1, <1>4
<1>7. QED
  BY <1>2, <1>3, <1>5, <1>6 DEF Decoding

\* In front of a chunk's size and in it.
LEMMA SizeStep ==
  ASSUME BodyTypeOK, NEW base \in Nat, Held(base), Chunked, More, UNCHANGED <<reply, resp>>,
         dec.st = "SIZE",
         dec' = IF Byte.kind = "cr" THEN [dec EXCEPT !.st = "SIZE_CR", !.r = @ + 1]
                ELSE [dec EXCEPT !.acc = IF Byte.kind = "size" THEN 16 * @ + Byte.val ELSE @,
                                 !.r = @ + 1]
  PROVE  dec' \in Decoders /\ dec'.w = dec.w /\ Ready(base)' /\ Decoding(base)'
<1>1. PICK read, moved \in Nat :
        /\ read = reply.at - Len(resp) + dec.r /\ moved = base + dec.w
        /\ Byte = Stream[read + 1]
        /\ \E c \in 1 .. Len(reply.ends) + 1 : InChunk(c, base)
        /\ dec.r < Len(resp)
  BY NextByte
<1>2. PICK c \in 1 .. Len(reply.ends) + 1 : InChunk(c, base)
  BY <1>1
<1> DEFINE size == ChunkSize(reply.ends, c)  at == ChunkAt(reply.ends, c)
<1>3. /\ Len(resp) \in Nat /\ reply.at \in Nat /\ dec.acc \in Nat /\ dec.r \in Nat /\ dec.w \in Nat
      /\ ReplyOK(reply.lens, reply.ends) /\ reply.ends # << >> /\ Len(reply.ends) \in Nat \ {0}
      /\ dec \in Decoders
  BY BodyTypes, ChunkEnds DEF Chunked, BodyTypeOK
<1>4. at \in Nat /\ size \in Nat
  BY <1>3, ChunkEnds
<1>5. /\ Stream[at + 1] = Digit(size) /\ Stream[at + 2] = Cr
      /\ c > 1 => Stream[at] = Lf
  <2>1. Stream[at + 1] = Digit(size) /\ Stream[at + 2] = Cr
    BY <1>3, ChunkBegins DEF Stream
  <2>2. ASSUME c > 1 PROVE Stream[at] = Lf
    <3>1. PICK d \in 1 .. Len(reply.ends) : c = d + 1
      <4>1. c - 1 \in 1 .. Len(reply.ends) /\ c = (c - 1) + 1
        BY <1>3, <2>2
      <4>2. QED
        BY <4>1
    <3>2. at = ChunkAt(reply.ends, d) + ChunkSize(reply.ends, d) + 5
      <4>1. ChunkAt(reply.ends, d + 1) = ChunkAt(reply.ends, d) + ChunkSize(reply.ends, d) + 5
        BY <1>3, ChunkHolds
      <4>2. QED
        BY <3>1, <4>1
    <3>3. Stream[ChunkAt(reply.ends, d) + ChunkSize(reply.ends, d) + 5] = Lf
      BY <1>3, ChunkCloses DEF Stream
    <3>4. QED
      BY <3>2, <3>3
  <2>3. QED
    BY <2>1, <2>2
<1>6. /\ moved = Before(reply.ends, c)
      /\ \/ dec.acc = 0 /\ (read = at \/ (c > 1 /\ read = at - 1))
         \/ dec.acc = size /\ read = at + 1
  BY <1>1, <1>2 DEF InChunk
<1> HIDE DEF at, size
<1>7. ASSUME NEW new \in {"SIZE", "SIZE_CR"}, NEW acc \in Nat,
             dec' = [dec EXCEPT !.st = new, !.acc = acc, !.r = dec.r + 1],
             \/ new = "SIZE" /\ acc = 0 /\ read + 1 = at
             \/ new = "SIZE" /\ acc = size /\ read = at
             \/ new = "SIZE_CR" /\ acc = size /\ read + 1 = at + 2
      PROVE  dec' \in Decoders /\ dec'.w = dec.w /\ Ready(base)' /\ Decoding(base)'
  <2>1. /\ dec'.st = new /\ dec'.acc = acc /\ dec'.r = dec.r + 1 /\ dec'.w = dec.w
        /\ dec' \in Decoders
    <3>1. dec.r + 1 \in Nat
      BY <1>3
    <3>2. QED
      BY <1>3, <1>7, <3>1 DEF Decoders
  <2>2. dec'.st = new /\ dec'.acc = acc /\ dec'.r = dec.r + 1 /\ dec'.w = dec.w
    BY <2>1
  <2>3. reply'.at - Len(resp') + dec'.r = read + 1 /\ base + dec'.w = moved /\ reply' = reply
    <3> DEFINE x == reply.at  y == Len(resp)  z == dec.r
    <3>1. reply'.at - Len(resp') + dec'.r = x - y + (z + 1) /\ read = x - y + z
          /\ x \in Nat /\ y \in Nat /\ z \in Nat
      BY <1>1, <1>3, <2>2
    <3> HIDE DEF x, y, z
    <3>2. x - y + (z + 1) = read + 1
      BY <3>1
    <3>3. QED
      BY <1>1, <2>2, <3>1, <3>2
  <2>4. \/ new = "SIZE" /\ acc = 0 /\ read + 1 = at
        \/ new = "SIZE" /\ acc = size /\ read + 1 = at + 1
        \/ new = "SIZE_CR" /\ acc = size /\ read + 1 = at + 2
    BY <1>4, <1>7
  <2>5. InChunk(c, base)'
    BY <1>6, <2>2, <2>3, <2>4 DEF InChunk, at, size
  <2>6. dec.r + 1 <= Len(resp)
    BY <1>1, <1>3
  <2>7. Ready(base)' /\ Decoding(base)'
    BY <2>2, <2>5, <2>6, ReadOn
  <2>8. QED
    BY <2>1, <2>7
<1>8. CASE dec.acc = 0 /\ read = at
  <2>1. Byte.kind = "size" /\ Byte.val = size
    BY <1>1, <1>5, <1>8 DEF Digit
  <2>2. 16 * dec.acc + Byte.val = size
    BY <1>4, <1>8, <2>1
  <2>3. dec' = [dec EXCEPT !.acc = size, !.r = dec.r + 1]
    BY <2>1, <2>2
  <2>4. dec' = [dec EXCEPT !.st = "SIZE", !.acc = size, !.r = dec.r + 1]
    BY <1>3, <2>3 DEF Decoders
  <2>5. QED
    BY <1>4, <1>7, <1>8, <2>4
<1>9. CASE dec.acc = 0 /\ c > 1 /\ read = at - 1
  <2>0. read + 1 = at
    BY <1>4, <1>9
  <2>1. Byte.kind = "lf"
    BY <1>1, <1>5, <1>9, <2>0 DEF Lf
  <2>2. dec' = [dec EXCEPT !.acc = dec.acc, !.r = dec.r + 1]
    BY <2>1
  <2>3. dec' = [dec EXCEPT !.st = "SIZE", !.acc = 0, !.r = dec.r + 1]
    BY <1>3, <1>9, <2>2 DEF Decoders
  <2>4. QED
    BY <1>7, <2>0, <2>3
<1>10. CASE dec.acc = size /\ read = at + 1
  <2>0. read + 1 = at + 2
    BY <1>4, <1>10
  <2>1. Byte.kind = "cr"
    BY <1>1, <1>5, <2>0 DEF Cr
  <2>2. dec' = [dec EXCEPT !.st = "SIZE_CR", !.r = dec.r + 1]
    BY <2>1
  <2>3. dec' = [dec EXCEPT !.st = "SIZE_CR", !.acc = size, !.r = dec.r + 1]
    BY <1>3, <1>10, <2>2 DEF Decoders
  <2>4. QED
    BY <1>4, <1>7, <2>0, <2>3
<1>11. QED
  BY <1>6, <1>8, <1>9, <1>10

\* A size of 0 ends the body.
SizeEnds ==
  dec' = [dec EXCEPT !.st = IF dec.acc = 0 THEN "DONE" ELSE "DATA",
                     !.left = dec.acc, !.acc = 0, !.r = @ + 1]

LEMMA SizeEndStep ==
  ASSUME BodyTypeOK, NEW base \in Nat, Held(base), Chunked, More, UNCHANGED <<reply, resp>>,
         dec.st = "SIZE_CR", SizeEnds
  PROVE  dec' \in Decoders /\ dec'.w = dec.w /\ Ready(base)' /\ Decoding(base)'
<1>1. PICK read, moved \in Nat :
        /\ read = reply.at - Len(resp) + dec.r /\ moved = base + dec.w
        /\ \E c \in 1 .. Len(reply.ends) + 1 : InChunk(c, base)
        /\ dec.r < Len(resp)
  BY NextByte
<1>2. PICK c \in 1 .. Len(reply.ends) + 1 : InChunk(c, base)
  BY <1>1
<1> DEFINE size == ChunkSize(reply.ends, c)  at == ChunkAt(reply.ends, c)
           last == c = Len(reply.ends) + 1
<1>3. /\ Len(resp) \in Nat /\ reply.at \in Nat /\ dec.acc \in Nat /\ dec.r \in Nat /\ dec.w \in Nat
      /\ ReplyOK(reply.lens, reply.ends) /\ reply.ends # << >> /\ Len(reply.ends) \in Nat \ {0}
      /\ dec \in Decoders
  BY BodyTypes, ChunkEnds DEF Chunked, BodyTypeOK
<1>4. /\ at \in Nat /\ size \in Nat
      /\ last => size = 0
      /\ ~last => c <= Len(reply.ends) /\ size > 0 /\ reply.ends[c] = Before(reply.ends, c) + size
                  /\ Before(reply.ends, c) \in Nat
  <2>1. at \in Nat /\ size \in Nat /\ Before(reply.ends, c) \in Nat
    BY <1>3, ChunkEnds
  <2>2. last => size = 0
    BY <1>3, ChunkEnds
  <2>3. ~last => c \in 1 .. Len(reply.ends)
    BY <1>3
  <2>4. ASSUME ~last PROVE size > 0 /\ reply.ends[c] = Before(reply.ends, c) + size
    <3>1. c \in 1 .. Len(reply.ends)
      BY <2>3, <2>4
    <3>2. QED
      BY <1>3, <3>1, ChunkHolds
  <2>5. QED
    BY <2>1, <2>2, <2>3, <2>4
<1>5. moved = Before(reply.ends, c) /\ dec.acc = size /\ read = at + 2
  BY <1>1, <1>2 DEF InChunk
<1> HIDE DEF at, size
<1>6. /\ dec'.st = (IF last THEN "DONE" ELSE "DATA") /\ dec'.left = size /\ dec'.acc = 0
      /\ dec'.r = dec.r + 1 /\ dec'.w = dec.w /\ dec' \in Decoders
  <2>1. dec.r + 1 \in Nat /\ (dec.acc = 0 <=> last)
    BY <1>3, <1>4, <1>5
  <2>2. dec' = [dec EXCEPT !.st = IF last THEN "DONE" ELSE "DATA",
                           !.left = size, !.acc = 0, !.r = dec.r + 1]
    BY <1>5, <2>1 DEF SizeEnds
  <2> DEFINE new == IF last THEN "DONE" ELSE "DATA"
  <2>3. new \in {"DONE", "DATA"}
    OBVIOUS
  <2> HIDE DEF new
  <2>4. dec' = [dec EXCEPT !.st = new, !.left = size, !.acc = 0, !.r = dec.r + 1]
    BY <2>2 DEF new
  <2>5. /\ dec'.st = new /\ dec'.left = size /\ dec'.acc = 0
        /\ dec'.r = dec.r + 1 /\ dec'.w = dec.w /\ dec' \in Decoders
    <3>1. size \in Nat /\ dec.r + 1 \in Nat /\ dec \in Decoders
      BY <1>3, <1>4, <2>1
    <3> DEFINE r == dec.r + 1
    <3>2. dec' = [dec EXCEPT !.st = new, !.left = size, !.acc = 0, !.r = r] /\ r \in Nat
      BY <2>4, <3>1
    <3> HIDE DEF r
    <3>3. /\ dec'.st = new /\ dec'.left = size /\ dec'.acc = 0
          /\ dec'.r = r /\ dec'.w = dec.w /\ dec' \in Decoders
      BY <2>3, <3>1, <3>2 DEF Decoders
    <3>4. QED
      BY <3>3 DEF r
  <2>6. QED
    BY <2>5 DEF new
<1>7. /\ dec'.st = (IF last THEN "DONE" ELSE "DATA") /\ dec'.left = size /\ dec'.acc = 0
      /\ dec'.r = dec.r + 1 /\ dec'.w = dec.w
  BY <1>6
<1>8. reply'.at - Len(resp') + dec'.r = at + 3 /\ base + dec'.w = moved /\ reply' = reply
  <2> DEFINE x == reply.at  y == Len(resp)  z == dec.r
  <2>1. reply'.at - Len(resp') + dec'.r = x - y + (z + 1) /\ read = x - y + z
        /\ x \in Nat /\ y \in Nat /\ z \in Nat
    BY <1>1, <1>3, <1>7
  <2> HIDE DEF x, y, z
  <2>2. x - y + (z + 1) = at + 3
    BY <1>4, <1>5, <2>1
  <2>3. QED
    BY <1>1, <1>7, <2>1, <2>2
<1>9. InChunk(c, base)'
  <2>1. CASE last
    <3>1. dec'.st = "DONE"
      BY <1>7, <2>1
    <3>2. QED
      BY <1>5, <1>8, <2>1, <3>1 DEF InChunk, at
  <2>2. CASE ~last
    <3>1. dec'.st = "DATA"
      BY <1>7, <2>2
    <3>2. /\ dec'.left \in 1 .. size /\ at + 3 = at + 3 + (size - dec'.left)
          /\ moved = reply.ends[c] - dec'.left
      <4>1. size \in 1 .. size /\ at + 3 = at + 3 + (size - size)
            /\ reply.ends[c] - size = Before(reply.ends, c)
        BY <1>4, <2>2
      <4>2. QED
        BY <1>5, <1>7, <4>1
    <3>3. QED
      BY <1>4, <1>7, <1>8, <2>2, <3>1, <3>2 DEF InChunk, at, size
  <2>3. QED
    BY <2>1, <2>2
<1>10. dec.r + 1 <= Len(resp)
  BY <1>1, <1>3
<1>11. Ready(base)' /\ Decoding(base)'
  BY <1>7, <1>9, <1>10, ReadOn
<1>12. QED
  BY <1>6, <1>11

\* Behind a chunk's data; the line feed may come late.
LineFeed == dec.r + 1 < Len(resp) /\ resp[dec.r + 2].kind = "lf"
DataEnds ==
  dec' = [dec EXCEPT !.st = IF Byte.kind = "cr" THEN "SIZE" ELSE @,
                     !.r = @ + (IF LineFeed THEN 2 ELSE 1)]

LEMMA DataEndStep ==
  ASSUME BodyTypeOK, NEW base \in Nat, Held(base), Chunked, More, UNCHANGED <<reply, resp>>,
         dec.st = "DATA_CR", DataEnds
  PROVE  dec' \in Decoders /\ dec'.w = dec.w /\ Ready(base)' /\ Decoding(base)'
<1>1. PICK read, moved \in Nat :
        /\ read = reply.at - Len(resp) + dec.r /\ moved = base + dec.w
        /\ Byte = Stream[read + 1]
        /\ \E c \in 1 .. Len(reply.ends) + 1 : InChunk(c, base)
        /\ dec.r < Len(resp)
  BY NextByte
<1>2. PICK c \in 1 .. Len(reply.ends) + 1 : InChunk(c, base)
  BY <1>1
<1> DEFINE size == ChunkSize(reply.ends, c)  at == ChunkAt(reply.ends, c)
           k == IF LineFeed THEN 2 ELSE 1  next == ChunkAt(reply.ends, c + 1)
<1>3. /\ Len(resp) \in Nat /\ reply.at \in Nat /\ dec.acc \in Nat /\ dec.r \in Nat /\ dec.w \in Nat
      /\ ReplyOK(reply.lens, reply.ends) /\ reply.ends # << >> /\ Len(reply.ends) \in Nat \ {0}
      /\ dec \in Decoders
  BY BodyTypes, ChunkEnds DEF Chunked, BodyTypeOK
<1>4. /\ c <= Len(reply.ends) /\ dec.acc = 0 /\ read = at + 3 + size /\ moved = reply.ends[c]
  BY <1>1, <1>2 DEF InChunk
<1>5. c \in 1 .. Len(reply.ends)
  BY <1>3, <1>4
<1>6. /\ at \in Nat /\ size \in Nat /\ next = at + size + 5
      /\ reply.ends[c] = Before(reply.ends, c + 1) /\ Stream[at + size + 4] = Cr
  <2>1. at \in Nat /\ size \in Nat
    BY <1>3, ChunkEnds
  <2>2. next = at + size + 5 /\ reply.ends[c] = Before(reply.ends, c + 1)
    <3>1. ReplyOK(reply.lens, reply.ends) /\ reply.ends # << >>
      BY <1>3
    <3>2. /\ Before(reply.ends, c + 1) = reply.ends[c]
          /\ ChunkAt(reply.ends, c + 1) = ChunkAt(reply.ends, c) + ChunkSize(reply.ends, c) + 5
      BY <1>5, <3>1, ChunkHolds
    <3> HIDE DEF at, size
    <3>3. ChunkAt(reply.ends, c) = at /\ ChunkSize(reply.ends, c) = size
      BY DEF at, size
    <3>4. at + size + 5 = next
      BY <3>2, <3>3
    <3>5. QED
      BY <3>2, <3>4
  <2>3. Stream[at + size + 4] = Cr
    BY <1>3, <1>5, ChunkCloses DEF Stream
  <2>4. QED
    BY <2>1, <2>2, <2>3
<1> HIDE DEF at, size, next
<1>7. Byte.kind = "cr"
  <2>1. read + 1 = at + size + 4
    BY <1>4, <1>6
  <2>2. QED
    BY <1>1, <1>6, <2>1 DEF Cr
<1>8. k \in Nat /\ dec.r + k <= Len(resp) /\ k \in {1, 2}
  <2> DEFINE r == dec.r  had == Len(resp)
  <2>1. r \in Nat /\ had \in Nat /\ r < had /\ (LineFeed => r + 1 < had)
    BY <1>1, <1>3 DEF LineFeed
  <2> HIDE DEF r, had
  <2>2. k \in Nat /\ r + k <= had /\ k \in {1, 2}
    <3>1. CASE LineFeed
      BY <2>1, <3>1
    <3>2. CASE ~LineFeed
      BY <2>1, <3>2
    <3>3. QED
      BY <3>1, <3>2
  <2>3. QED
    BY <2>2 DEF r, had
<1>9. dec' = [dec EXCEPT !.st = "SIZE", !.r = dec.r + k]
  BY <1>7 DEF DataEnds
<1> HIDE DEF k
<1>10. /\ dec'.st = "SIZE" /\ dec'.acc = 0 /\ dec'.r = dec.r + k /\ dec'.w = dec.w
       /\ dec' \in Decoders
  <2>1. dec.r + k \in Nat
    BY <1>3, <1>8
  <2>2. QED
    BY <1>3, <1>4, <1>9, <2>1 DEF Decoders
<1>11. dec'.st = "SIZE" /\ dec'.acc = 0 /\ dec'.r = dec.r + k /\ dec'.w = dec.w
  BY <1>10
<1>12. /\ reply'.at - Len(resp') + dec'.r \in {next - 1, next}
       /\ base + dec'.w = moved /\ reply' = reply
  <2> DEFINE x == reply.at  y == Len(resp)  z == dec.r
  <2>1. reply'.at - Len(resp') + dec'.r = x - y + (z + k) /\ read = x - y + z
        /\ x \in Nat /\ y \in Nat /\ z \in Nat
    BY <1>1, <1>3, <1>11
  <2>2. read = at + 3 + size /\ at \in Nat /\ size \in Nat /\ next = at + size + 5
        /\ x - y + z = read /\ x \in Nat /\ y \in Nat /\ z \in Nat
    BY <1>4, <1>6, <2>1
  <2> HIDE DEF x, y, z
  <2>3. x - y + (z + k) \in {next - 1, next}
    <3>1. x - y + (z + k) = at + 3 + size + k
      BY <1>8, <2>2
    <3>2. CASE k = 1
      BY <2>2, <3>1, <3>2
    <3>3. CASE k = 2
      BY <2>2, <3>1, <3>3
    <3>4. QED
      BY <1>8, <3>2, <3>3
  <2>4. QED
    BY <1>1, <1>11, <2>1, <2>3
<1>13. c + 1 \in 1 .. Len(reply.ends) + 1 /\ c + 1 > 1
  BY <1>3, <1>5
<1>14. InChunk(c + 1, base)'
  <2>1. PICK d \in 1 .. Len(reply.ends) + 1 : d = c + 1
    BY <1>13
  <2>2. InChunk(d, base)'
    <3>1. d > 1 /\ next = ChunkAt(reply.ends, d) /\ moved = Before(reply.ends, d)
      BY <1>4, <1>6, <1>13, <2>1 DEF next
    <3>2. QED
      BY <1>11, <1>12, <3>1 DEF InChunk
  <2>3. QED
    BY <2>1, <2>2 DEF InChunk
<1>15. PICK d \in 1 .. Len(reply.ends) + 1 : InChunk(d, base)'
  BY <1>13, <1>14 DEF InChunk
<1>16. Ready(base)' /\ Decoding(base)'
  BY <1>8, <1>11, <1>15, ReadOn
<1>17. QED
  BY <1>10, <1>16

\* What has come of the chunk's data moves to the front, over bytes that have
\* been read.
Take == IF Len(resp) - dec.r < dec.left THEN Len(resp) - dec.r ELSE dec.left
DataMoves ==
  /\ resp' = [i \in DOMAIN resp |->
                IF i \in dec.w + 1 .. dec.w + Take THEN resp[i - dec.w + dec.r] ELSE resp[i]]
  /\ dec' = [dec EXCEPT !.r = @ + Take, !.w = @ + Take, !.left = @ - Take,
                        !.st = IF Take = dec.left THEN "DATA_CR" ELSE "DATA"]

LEMMA DataStep ==
  ASSUME BodyTypeOK, NEW base \in Nat, Held(base), Chunked, More, UNCHANGED reply,
         dec.st = "DATA", DataMoves
  PROVE  /\ dec' \in Decoders /\ dec.w <= dec'.w
         /\ resp' \in Seq(BodyBytes) /\ Len(resp') = Len(resp)
         /\ Ready(base)' /\ Decoding(base)'
<1>1. PICK read, moved \in Nat :
        /\ read = reply.at - Len(resp) + dec.r /\ moved = base + dec.w
        /\ \E c \in 1 .. Len(reply.ends) + 1 : InChunk(c, base)
        /\ dec.w <= dec.r /\ dec.r < Len(resp)
  BY NextByte
<1>2. PICK c \in 1 .. Len(reply.ends) + 1 : InChunk(c, base)
  BY <1>1
<1> DEFINE size == ChunkSize(reply.ends, c)  at == ChunkAt(reply.ends, c)
           end == reply.ends[c]  from == Before(reply.ends, c)
           come == reply.at  had == Len(resp)  r == dec.r  w == dec.w  left == dec.left
           take == Take
<1>3. /\ Len(resp) \in Nat /\ reply.at \in Nat /\ dec.acc \in Nat /\ dec.r \in Nat /\ dec.w \in Nat
      /\ dec.left \in Nat /\ resp \in Seq(BodyBytes)
      /\ ReplyOK(reply.lens, reply.ends) /\ reply.ends # << >> /\ Len(reply.ends) \in Nat \ {0}
      /\ dec \in Decoders
  BY BodyTypes, ChunkEnds DEF Chunked, BodyTypeOK
<1>4. /\ c <= Len(reply.ends) /\ dec.acc = 0 /\ left \in 1 .. size
      /\ read = at + 3 + (size - left) /\ moved = end - left
  BY <1>1, <1>2 DEF InChunk
<1>5. c \in 1 .. Len(reply.ends)
  BY <1>3, <1>4
<1>6. /\ at \in Nat /\ size \in Nat /\ from \in Nat /\ end = from + size /\ end <= Len(Body)
  <2>1. at \in Nat /\ size \in Nat /\ from \in Nat /\ from + size <= Len(Body)
    BY <1>3, ChunkEnds DEF Body
  <2>2. end = from + size
    <3>1. ReplyOK(reply.lens, reply.ends) /\ reply.ends # << >>
      BY <1>3
    <3>2. QED
      BY <1>5, <3>1, ChunkHolds
  <2>3. QED
    BY <2>1, <2>2
<1>6a. \A i \in 1 .. size : Stream[at + 3 + i] = Body[from + i]
  BY <1>3, <1>5, StreamIs DEF Stream, Body
<1>7. /\ come \in Nat /\ had \in Nat /\ r \in Nat /\ w \in Nat /\ left \in Nat
      /\ left >= 1 /\ left <= size
      /\ read = come - had + r /\ moved = base + w /\ w <= r /\ r < had
      /\ read = at + 3 + (size - left) /\ moved = end - left
      /\ take = IF had - r < left THEN had - r ELSE left
  BY <1>1, <1>3, <1>4 DEF Take
<1> HIDE DEF size, at, end, from, come, had, r, w, left, take
<1>8. take \in Nat /\ take >= 1 /\ take <= left /\ r + take <= had
  BY <1>7
<1>9. /\ dec'.r = r + take /\ dec'.w = w + take /\ dec'.left = left - take /\ dec'.acc = 0
      /\ dec'.st = (IF take = left THEN "DATA_CR" ELSE "DATA") /\ dec' \in Decoders
  <2> DEFINE new == IF take = left THEN "DATA_CR" ELSE "DATA"  nr == r + take  nw == w + take
             nleft == left - take
  <2>1. nr \in Nat /\ nw \in Nat /\ nleft \in Nat
    BY <1>7, <1>8
  <2>2. new \in {"DATA_CR", "DATA"}
    OBVIOUS
  <2>3. dec' = [dec EXCEPT !.r = nr, !.w = nw, !.left = nleft, !.st = new]
    BY DEF DataMoves, r, w, left, take
  <2> HIDE DEF new, nr, nw, nleft
  <2>4. /\ dec'.r = nr /\ dec'.w = nw /\ dec'.left = nleft /\ dec'.acc = 0
        /\ dec'.st = new /\ dec' \in Decoders
    BY <1>3, <1>4, <2>1, <2>2, <2>3 DEF Decoders
  <2>5. QED
    BY <2>4 DEF new, nr, nw, nleft
<1>10. /\ dec'.r = r + take /\ dec'.w = w + take /\ dec'.left = left - take /\ dec'.acc = 0
       /\ dec'.st = (IF take = left THEN "DATA_CR" ELSE "DATA")
  BY <1>9
<1>11. /\ resp' \in Seq(BodyBytes) /\ Len(resp') = had
       /\ \A i \in 1 .. had :
            resp'[i] = IF i \in w + 1 .. w + take THEN resp[i - w + r] ELSE resp[i]
  <2>1. resp' = [i \in 1 .. had |->
                   IF i \in w + 1 .. w + take THEN resp[i - w + r] ELSE resp[i]]
    <3>1. DOMAIN resp = 1 .. had
      BY <1>3, LenProperties DEF had
    <3>2. QED
      BY <3>1 DEF DataMoves, r, w, take
  <2>2. \A i \in 1 .. had : resp[i] \in BodyBytes
    BY <1>3, ElementOfSeq DEF had
  <2>3. \A i \in w + 1 .. w + take : i - w + r \in 1 .. had
    BY <1>7, <1>8
  <2>4. \A i \in 1 .. had :
          (IF i \in w + 1 .. w + take THEN resp[i - w + r] ELSE resp[i]) \in BodyBytes
    BY <2>2, <2>3
  <2>5. resp' \in [1 .. had -> BodyBytes]
    BY <2>1, <2>4
  <2>6. resp' \in Seq(BodyBytes) /\ Len(resp') = had
    BY <1>7, <2>5
  <2>7. QED
    BY <2>1, <2>6
<1>12. /\ base + w <= Len(Body) /\ \A i \in 1 .. w : resp[i] = Body[base + i]
       /\ \A i \in r + 1 .. had : resp[i] = Stream[come - had + i]
  <2>1. Have = w
    BY DEF Have, w
  <2>2. QED
    BY <2>1 DEF Held, Ready, Decoding, r, had, come
<1>13. Chunked' = Chunked /\ Stream' = Stream /\ Body' = Body /\ Have' = w + take
  <2>1. Chunked' = Chunked /\ Stream' = Stream /\ Body' = Body
    BY DEF Chunked, Stream, Body
  <2>2. QED
    BY <1>10, <2>1 DEF Have
<1>14. Ready(base)'
  <2>1. base + (w + take) <= Len(Body)
    <3>1. Len(Body) \in Nat
      BY <1>3, StreamType
    <3>2. QED
      BY <1>6, <1>7, <1>8, <3>1
  <2>2. ASSUME NEW i \in 1 .. w + take PROVE resp'[i] = Body[base + i]
    <3>1. CASE i <= w
      <4>1. i \in 1 .. had /\ i \in 1 .. w /\ ~(i \in w + 1 .. w + take)
        BY <1>7, <1>8, <3>1
      <4>2. QED
        BY <1>11, <1>12, <4>1
    <3>2. CASE ~(i <= w)
      <4> DEFINE j == i - w  k == (size - left) + (i - w)
      <4>1. i \in 1 .. had /\ i \in w + 1 .. w + take /\ i - w + r \in r + 1 .. had
        BY <1>7, <1>8, <3>2
      <4>2. k \in 1 .. size
        BY <1>6, <1>7, <1>8, <3>2
      <4>3. come - had + (i - w + r) = at + 3 + k
        <5> DEFINE x == size - left  y == i - w  z == come - had
        <5>1. /\ x \in Int /\ y \in Int /\ z \in Int /\ r \in Int /\ at \in Int
              /\ z + r = at + 3 + x /\ k = x + y
          <6>1. size \in Nat /\ left \in Nat /\ w \in Nat /\ r \in Nat /\ come \in Nat /\ had \in Nat
                /\ at \in Nat
            BY <1>6, <1>7
          <6>2. z + r = at + 3 + x /\ k = x + y
            BY <1>7
          <6>3. QED
            BY <6>1, <6>2
        <5>2. come - had + (i - w + r) = z + (y + r)
          OBVIOUS
        <5> HIDE DEF x, y, z, k
        <5>3. z + (y + r) = at + 3 + k
          BY <5>1
        <5>4. QED
          BY <5>2, <5>3
      <4>4. from + k = base + i
        BY <1>6, <1>7, <3>2
      <4> HIDE DEF k
      <4>5. resp'[i] = resp[i - w + r]
        BY <1>11, <4>1
      <4>6. resp[i - w + r] = Stream[come - had + (i - w + r)]
        BY <1>12, <4>1
      <4>7. Stream[at + 3 + k] = Body[from + k]
        BY <1>6a, <4>2
      <4>8. QED
        BY <4>3, <4>4, <4>5, <4>6, <4>7
    <3>3. QED
      BY <3>1, <3>2
  <2>3. QED
    BY <1>13, <2>1, <2>2 DEF Ready
<1>15. InChunk(c, base)'
  <2>1. reply'.at - Len(resp') + dec'.r = read + take /\ base + dec'.w = moved + take /\ reply' = reply
    <3>1. reply'.at = come
      BY DEF come
    <3>2. reply'.at - Len(resp') + dec'.r = come - had + (r + take) /\ base + dec'.w = base + (w + take)
      BY <1>10, <1>11, <3>1
    <3>3. come - had + (r + take) = read + take /\ base + (w + take) = moved + take
      BY <1>7, <1>8
    <3>4. QED
      BY <3>2, <3>3
  <2>2. CASE take = left
    <3>1. dec'.st = "DATA_CR"
      BY <1>10, <2>2
    <3>2. read + take = at + 3 + size /\ moved + take = end
      BY <1>6, <1>7, <2>2
    <3>3. QED
      BY <1>4, <1>10, <2>1, <3>1, <3>2 DEF InChunk, at, size, end
  <2>3. CASE take # left
    <3>1. dec'.st = "DATA"
      BY <1>10, <2>3
    <3>2. /\ left - take \in 1 .. size /\ read + take = at + 3 + (size - (left - take))
          /\ moved + take = end - (left - take)
      <4>1. /\ at \in Nat /\ size \in Nat /\ end \in Int /\ left \in Nat /\ left <= size
            /\ take \in Nat /\ take <= left
            /\ read = at + 3 + (size - left) /\ moved = end - left
        <5>1. end \in Int
          BY <1>6
        <5>2. QED
          BY <1>6, <1>7, <1>8, <5>1
      <4>2. left - take \in 1 .. size
        BY <2>3, <4>1
      <4>3. read + take = at + 3 + (size - (left - take))
        BY <4>1
      <4>4. moved + take = end - (left - take)
        BY <4>1
      <4>5. QED
        BY <4>2, <4>3, <4>4
    <3>3. QED
      BY <1>4, <1>10, <2>1, <3>1, <3>2 DEF InChunk, at, size, end
  <2>4. QED
    BY <2>2, <2>3
<1>16. Decoding(base)'
  <2>1. dec'.w <= dec'.r /\ dec'.r <= Len(resp')
    <3>1. w + take <= r + take /\ r + take <= had
      BY <1>7, <1>8
    <3>2. QED
      BY <1>10, <1>11, <3>1
  <2>2. ASSUME NEW i \in r + take + 1 .. had PROVE resp'[i] = Stream[come - had + i]
    <3>1. i \in 1 .. had /\ i \in r + 1 .. had /\ ~(i \in w + 1 .. w + take)
      BY <1>7, <1>8
    <3>2. QED
      BY <1>11, <1>12, <3>1
  <2>3. \A i \in dec'.r + 1 .. Len(resp') : resp'[i] = Stream[reply'.at - Len(resp') + i]
    BY <1>10, <1>11, <2>2 DEF come
  <2>4. reply'.ends = reply.ends
    OBVIOUS
  <2>5. QED
    BY <1>13, <1>15, <2>1, <2>3, <2>4 DEF Decoding
<1>17. dec.w <= dec'.w
  <2>1. w <= w + take
    BY <1>7, <1>8
  <2>2. QED
    BY <1>10, <2>1 DEF w
<1>18. QED
  BY <1>9, <1>11, <1>14, <1>16, <1>17 DEF had

LEMMA DecodeStep == ASSUME BodyInv, Decode PROVE BodyInv'
<1>1. BodyTypeOK /\ PassOK
  BY DEF BodyInv
<1>2. PICK base \in Nat : Held(base)
  BY DEF BodyInv
<1>3. /\ pc \in {"decode", "pump decode"} /\ More
      /\ UNCHANGED <<reply, play, playing, endSent, pc, shipped>>
  BY DEF Decode
<1>4. Chunked
  BY <1>1, <1>3 DEF PassOK
<1>5. st' = st \/ (st = "REQUESTING" /\ st' = "DONE_OK")
  BY DEF Decode
<1>6. /\ dec' \in Decoders /\ dec.w <= dec'.w
      /\ resp' \in Seq(BodyBytes) /\ Len(resp') = Len(resp)
      /\ Ready(base)' /\ Decoding(base)'
  <2>1. resp \in Seq(BodyBytes) /\ dec.w \in Nat
    BY <1>1, BodyTypes
  <2>2. CASE dec.st = "SIZE"
    <3>1. /\ UNCHANGED <<reply, resp>>
          /\ dec' = IF Byte.kind = "cr" THEN [dec EXCEPT !.st = "SIZE_CR", !.r = @ + 1]
                    ELSE [dec EXCEPT !.acc = IF Byte.kind = "size" THEN 16 * @ + Byte.val ELSE @,
                                     !.r = @ + 1]
      BY <2>2 DEF Decode
    <3>2. dec' \in Decoders /\ dec'.w = dec.w /\ Ready(base)' /\ Decoding(base)'
      BY <1>1, <1>2, <1>3, <1>4, <2>2, <3>1, SizeStep
    <3>3. QED
      BY <2>1, <3>1, <3>2
  <2>3. CASE dec.st = "SIZE_CR"
    <3>1. UNCHANGED <<reply, resp>> /\ SizeEnds
      BY <2>3 DEF Decode, SizeEnds
    <3>2. dec' \in Decoders /\ dec'.w = dec.w /\ Ready(base)' /\ Decoding(base)'
      BY <1>1, <1>2, <1>3, <1>4, <2>3, <3>1, SizeEndStep
    <3>3. QED
      BY <2>1, <3>1, <3>2
  <2>4. CASE dec.st = "DATA"
    <3>1. DataMoves
      BY <2>4 DEF Decode, DataMoves, Take
    <3>2. QED
      BY <1>1, <1>2, <1>3, <1>4, <2>4, <3>1, DataStep
  <2>5. CASE dec.st = "DATA_CR"
    <3>1. UNCHANGED <<reply, resp>> /\ DataEnds
      BY <2>5 DEF Decode, DataEnds, LineFeed
    <3>2. dec' \in Decoders /\ dec'.w = dec.w /\ Ready(base)' /\ Decoding(base)'
      BY <1>1, <1>2, <1>3, <1>4, <2>5, <3>1, DataEndStep
    <3>3. QED
      BY <2>1, <3>1, <3>2
  <2>6. QED
    BY <1>1, <1>3, <2>2, <2>3, <2>4, <2>5, BodyTypes DEF More
<1>7. Chunked' = Chunked /\ Stream' = Stream /\ Meant' = Meant
  BY <1>3 DEF Chunked, Stream, Meant
<1>8. BodyTypeOK'
  <2>1. play' = play /\ play \in Nat /\ play <= dec.w /\ dec.w \in Nat /\ dec'.w \in Nat
    <3>1. Have = dec.w
      BY <1>4 DEF Have
    <3>2. dec'.w \in Nat
      BY <1>6 DEF Decoders
    <3>3. QED
      BY <1>1, <1>3, <3>1, <3>2, BodyTypes
  <2>2. play' <= dec'.w
    BY <1>6, <2>1
  <2>3. Have' = dec'.w
    BY <1>4, <1>7 DEF Have
  <2>4. st' \in {"REQUESTING", "DONE_OK", "IDLE"}
    BY <1>1, <1>5 DEF BodyTypeOK
  <2>5. QED
    BY <1>1, <1>3, <1>6, <1>7, <2>1, <2>2, <2>3, <2>4 DEF BodyTypeOK
<1>9. Forwarding(base)'
  <2>1. ~Dropped
    BY <1>3, <1>4 DEF Dropped
  <2>2. QED
    BY <1>2, <1>3, <2>1 DEF Held, Forwarding, MeantTo
<1>10. PassOK'
  BY <1>1, <1>3, <1>4, <1>5, <1>7 DEF PassOK
<1>11. Held(base)'
  BY <1>6, <1>9 DEF Held
<1>12. QED
  BY <1>8, <1>10, <1>11 DEF BodyInv

-----------------------------------------------------------------------------
(* The pump.                                                                 *)

\* When all that was sent has been decoded, the buffer holds the body's end.
LEMMA AllThere ==
  ASSUME BodyTypeOK, NEW base \in Nat, Held(base), Chunked => ~More,
         (Chunked /\ dec.st = "DONE") \/ reply.at = Len(Stream)
  PROVE  reply.at = Len(Stream) /\ base + Have = Len(Body)
<1>1. /\ Len(resp) \in Nat /\ reply.at \in Nat /\ dec.r \in Nat /\ dec.w \in Nat
      /\ Len(resp) <= reply.at /\ reply.at <= Len(Stream) /\ ReplyOK(reply.lens, reply.ends)
      /\ dec.st \in {"SIZE", "SIZE_CR", "DATA", "DATA_CR", "DONE"} /\ Len(Stream) \in Nat
  BY BodyTypes, StreamType
<1>2. CASE ~Chunked
  <2>1. Have = Len(resp) /\ base + Len(resp) = reply.at /\ Stream = Body
    BY <1>1, <1>2, StreamType DEF Have, Held, Decoding
  <2>2. QED
    BY <1>2, <2>1
<1>3. CASE Chunked
  <2>1. /\ dec.r <= Len(resp) /\ Have = dec.w
        /\ \E c \in 1 .. Len(reply.ends) + 1 : InChunk(c, base)
    BY <1>3 DEF Held, Decoding, Have
  <2>2. PICK c \in 1 .. Len(reply.ends) + 1 : InChunk(c, base)
    BY <2>1
  <2> DEFINE come == reply.at  had == Len(resp)  r == dec.r  read == come - had + r
             total == Len(Stream)  size == ChunkSize(reply.ends, c)  at == ChunkAt(reply.ends, c)
  <2>3. reply.ends # << >> /\ Len(reply.ends) \in Nat \ {0}
    BY <1>1, <1>3, ChunkEnds DEF Chunked
  <2>4. at \in Nat /\ size \in Nat /\ at + 3 <= total
        /\ (c <= Len(reply.ends) => at + size + 5 <= total - 3)
    <3>1. at \in Nat /\ size \in Nat
      BY <1>1, <2>3, ChunkEnds
    <3>2. at + 3 <= total
      BY <1>1, <2>3, StreamIs DEF Stream
    <3>3. ASSUME c <= Len(reply.ends) PROVE at + size + 5 <= total - 3
      <4>1. c \in 1 .. Len(reply.ends)
        BY <2>3, <3>3
      <4>2. QED
        BY <1>1, <2>3, <4>1, StreamIs DEF Stream
    <3>4. QED
      BY <3>1, <3>2, <3>3
  <2>5. /\ come \in Nat /\ had \in Nat /\ r \in Nat /\ had <= come /\ come <= total /\ r <= had
        /\ total \in Nat
    BY <1>1, <2>1
  <2>6. dec.st # "DONE" => come = total /\ r = had
    <3>1. dec.st # "DONE" => come = total /\ ~(r < had)
      BY <1>3 DEF More
    <3> HIDE DEF come, total, r, had
    <3>2. QED
      BY <2>5, <3>1
  <2>7. dec.st = "DONE"
    <3>1. CASE dec.st = "SIZE"
      <4>1. read = at \/ read = at - 1 \/ read = at + 1
        BY <2>2, <3>1 DEF InChunk
      <4>2. come = total /\ r = had
        BY <2>6, <3>1
      <4> HIDE DEF come, total, r, had, at, size
      <4>3. QED
        BY <2>4, <2>5, <4>1, <4>2
    <3>2. CASE dec.st = "SIZE_CR"
      <4>1. read = at + 2
        BY <2>2, <3>2 DEF InChunk
      <4>2. come = total /\ r = had
        BY <2>6, <3>2
      <4> HIDE DEF come, total, r, had, at, size
      <4>3. QED
        BY <2>4, <2>5, <4>1, <4>2
    <3>3. CASE dec.st = "DATA"
      <4> DEFINE left == dec.left
      <4>1. read = at + 3 + (size - left) /\ left \in 1 .. size /\ c <= Len(reply.ends)
        BY <2>2, <3>3 DEF InChunk
      <4>2. come = total /\ r = had /\ at + size + 5 <= total - 3
        BY <2>4, <2>6, <3>3, <4>1
      <4> HIDE DEF come, total, r, had, at, size, left
      <4>3. QED
        BY <2>4, <2>5, <4>1, <4>2
    <3>4. CASE dec.st = "DATA_CR"
      <4>1. read = at + 3 + size /\ c <= Len(reply.ends)
        BY <2>2, <3>4 DEF InChunk
      <4>2. come = total /\ r = had /\ at + size + 5 <= total - 3
        BY <2>4, <2>6, <3>4, <4>1
      <4> HIDE DEF come, total, r, had, at, size
      <4>3. QED
        BY <2>4, <2>5, <4>1, <4>2
    <3>5. QED
      BY <1>1, <3>1, <3>2, <3>3, <3>4
  <2>8. c = Len(reply.ends) + 1 /\ read = at + 3 /\ base + dec.w = Before(reply.ends, c)
    BY <2>2, <2>7 DEF InChunk
  <2>9. total = at + 3
    BY <1>1, <2>3, <2>8, StreamIs DEF Stream
  <2>10. come = total
    <3>1. read = at + 3
      BY <2>8
    <3> HIDE DEF come, total, r, had, at, size
    <3>2. QED
      BY <2>4, <2>5, <2>9, <3>1
  <2>11. base + Have = Len(Body)
    BY <1>1, <2>1, <2>3, <2>8, ChunkEnds DEF Body
  <2>12. QED
    BY <2>10, <2>11
<1>4. QED
  BY <1>2, <1>3

\* The pump stands in front of a packet when it finds a length.
LEMMA AtPacket ==
  ASSUME BodyTypeOK, NEW base \in Nat, Held(base), play + 2 <= Have
  PROVE  \E p \in 1 .. Len(reply.lens), len \in Nat :
           /\ len = reply.lens[p] /\ shipped = MeantTo(p - 1) /\ PacketLen = len
           /\ base + play + 2 + len = PacketAt(reply.lens, p + 1)
           /\ base + play + 2 + len <= Len(Body)
           /\ \A i \in 1 .. len :
                play + 2 + i <= Have => resp[play + 2 + i] = Data(p, len)[i]
<1>1. /\ play \in Nat /\ Have \in Nat /\ reply.lens \in Seq(Nat) /\ Len(reply.lens) \in Nat
      /\ Len(Body) \in Nat
  BY BodyTypes, StreamType DEF ReplyOK
<1>2. base + Have <= Len(Body) /\ \A i \in 1 .. Have : resp[i] = Body[base + i]
  BY DEF Held, Ready
<1>3. PICK p \in 1 .. Len(reply.lens) + 1 :
        base + play = PacketAt(reply.lens, p) /\ shipped = MeantTo(p - 1)
  <2>1. ~Dropped
    BY <1>1 DEF Dropped
  <2>2. QED
    BY <2>1 DEF Held, Forwarding
<1>4. p # Len(reply.lens) + 1
  <2>1. PacketAt(reply.lens, Len(reply.lens) + 1) = Len(Body)
    BY <1>1, PacketPlaces DEF Body
  <2>2. base + play # Len(Body)
    BY <1>1, <1>2
  <2>3. QED
    BY <1>3, <2>1, <2>2
<1>5. p \in 1 .. Len(reply.lens)
  BY <1>1, <1>4
<1>6. PICK len \in Nat : len = reply.lens[p]
  BY <1>1, <1>5, ElementOfSeq
<1>7. /\ PacketAt(reply.lens, p + 1) = base + play + 2 + len
      /\ PacketAt(reply.lens, p + 1) <= Len(Body)
      /\ Body[base + play + 2].val = len
      /\ \A i \in 1 .. len : Body[base + play + 2 + i] = Data(p, len)[i]
  <2>1. \A q \in 1 .. Len(reply.lens) :
          /\ PacketAt(reply.lens, q + 1) = PacketAt(reply.lens, q) + 2 + reply.lens[q]
          /\ PacketAt(reply.lens, q + 1) <= Len(Body)
          /\ Body[PacketAt(reply.lens, q) + 2].val = reply.lens[q]
          /\ \A i \in 1 .. reply.lens[q] :
               Body[PacketAt(reply.lens, q) + 2 + i] = Data(q, reply.lens[q])[i]
    BY <1>1, PacketPlaces DEF Body
  <2>2. QED
    BY <1>3, <1>5, <1>6, <2>1
<1>8. PacketLen = len
  <2>1. play + 2 \in 1 .. Have /\ base + (play + 2) = base + play + 2
    BY <1>1
  <2>2. resp[play + 2] = Body[base + (play + 2)]
    BY <1>2, <2>1
  <2>3. QED
    BY <1>7, <2>1, <2>2 DEF PacketLen
<1>9. ASSUME NEW i \in 1 .. len, play + 2 + i <= Have
      PROVE  resp[play + 2 + i] = Data(p, len)[i]
  <2>1. play + 2 + i \in 1 .. Have /\ base + (play + 2 + i) = base + play + 2 + i
    BY <1>1, <1>9
  <2>2. resp[play + 2 + i] = Body[base + (play + 2 + i)]
    BY <1>2, <2>1
  <2>3. QED
    BY <1>7, <2>1, <2>2
<1>10. QED
  BY <1>3, <1>5, <1>6, <1>7, <1>8, <1>9

\* A packet behind the pump's position: only that and the history change.
LEMMA PlayedOn ==
  ASSUME BodyTypeOK, NEW base \in Nat, Held(base),
         UNCHANGED <<reply, st, resp, dec, playing, endSent>>,
         play' \in Nat, play' <= Have, Forwarding(base)'
  PROVE  BodyTypeOK' /\ Held(base)'
<1>1. /\ Chunked' = Chunked /\ Stream' = Stream /\ Body' = Body /\ Have' = Have
  BY DEF Chunked, Stream, Body, Have
<1>2. BodyTypeOK'
  BY <1>1 DEF BodyTypeOK
<1>3. Ready(base)'
  BY <1>1 DEF Held, Ready
<1>4. Decoding(base)'
  <2>1. ASSUME NEW c, InChunk(c, base) PROVE InChunk(c, base)'
    BY <2>1 DEF InChunk
  <2>2. CASE Chunked
    BY <1>1, <2>1, <2>2 DEF Held, Decoding
  <2>3. CASE ~Chunked
    BY <1>1, <2>3 DEF Held, Decoding
  <2>4. QED
    BY <2>2, <2>3
<1>5. QED
  BY <1>2, <1>3, <1>4 DEF Held

LEMMA PassedOn ==
  ASSUME PassOK, pc = "forward", UNCHANGED <<reply, st, resp, dec, playing, endSent, pc>>
  PROVE  PassOK'
<1>1. Chunked' = Chunked /\ More' = More
  BY DEF Chunked, More
<1>2. QED
  BY <1>1 DEF PassOK

LEMMA ShipStep == ASSUME BodyInv, Ship PROVE BodyInv'
<1>1. BodyTypeOK /\ PassOK
  BY DEF BodyInv
<1>2. PICK base \in Nat : Held(base)
  BY DEF BodyInv
<1>3. /\ pc = "forward" /\ play + 2 <= Have /\ PacketLen > 0 /\ play + 2 + PacketLen <= Have
      /\ shipped' = Append(shipped, SubSeq(resp, play + 3, play + 2 + PacketLen))
      /\ play' = play + 2 + PacketLen
      /\ UNCHANGED <<reply, st, resp, dec, playing, endSent, pc>>
  BY DEF Ship, Forwardable, Complete
<1>4. PICK p \in 1 .. Len(reply.lens), len \in Nat :
        /\ len = reply.lens[p] /\ shipped = MeantTo(p - 1) /\ PacketLen = len
        /\ base + play + 2 + len = PacketAt(reply.lens, p + 1)
        /\ \A i \in 1 .. len :
             play + 2 + i <= Have => resp[play + 2 + i] = Data(p, len)[i]
  BY <1>1, <1>2, <1>3, AtPacket
<1>5. /\ play \in Nat /\ Have \in Nat /\ Len(resp) \in Nat /\ resp \in Seq(BodyBytes)
      /\ Len(reply.lens) \in Nat /\ reply.lens \in Seq(Nat)
  BY <1>1, BodyTypes, StreamType DEF ReplyOK
<1>6. Have <= Len(resp)
  <2>1. CASE Chunked
    <3>1. dec.w \in Nat /\ dec.r \in Nat
      BY <1>1, BodyTypes
    <3>2. QED
      BY <1>2, <1>5, <2>1, <3>1 DEF Have, Held, Decoding
  <2>2. CASE ~Chunked
    BY <1>5, <2>2 DEF Have
  <2>3. QED
    BY <2>1, <2>2
<1>7. len > 0 /\ play + 2 + len <= Have /\ play' = play + 2 + len
      /\ shipped' = Append(shipped, SubSeq(resp, play + 3, play + 2 + len))
  BY <1>3, <1>4
<1>8. SubSeq(resp, play + 3, play + 2 + len) = Data(p, len)
  <2> DEFINE a == play + 2  s == SubSeq(resp, a + 1, a + len)  d == Data(p, len)
  <2>1. a \in Nat /\ a + 1 = play + 3 /\ a + len <= Len(resp)
    BY <1>5, <1>6, <1>7
  <2>2. s \in Seq(BodyBytes) /\ Len(s) = len /\ \A i \in 1 .. len : s[i] = resp[a + i]
    <3>1. resp \in Seq(BodyBytes) /\ a \in Nat /\ a + len <= Len(resp)
      BY <1>5, <2>1
    <3> HIDE DEF a
    <3>2. /\ SubSeq(resp, a + 1, a + len) \in Seq(BodyBytes)
          /\ Len(SubSeq(resp, a + 1, a + len)) = len
          /\ \A i \in 1 .. len : SubSeq(resp, a + 1, a + len)[i] = resp[a + i]
      BY <3>1, SliceIs
    <3> HIDE DEF s
    <3>3. s = SubSeq(resp, a + 1, a + len)
      BY DEF s, a
    <3>4. QED
      BY <3>2, <3>3
  <2>3. d \in Seq(BodyBytes) /\ Len(d) = len
    <3>1. p \in Nat
      BY <1>5
    <3>2. QED
      BY <3>1, PacketIs
  <2>4. \A i \in 1 .. len : resp[a + i] = d[i]
    <3>1. \A i \in 1 .. len : play + 2 + i <= Have
      BY <1>5, <1>7
    <3>2. QED
      BY <1>4, <3>1
  <2>5. SubSeq(resp, play + 3, play + 2 + len) = s
    BY <2>1
  <2> HIDE DEF a, s, d
  <2>6. s = d
    BY <2>2, <2>3, <2>4, SeqEqual
  <2>7. QED
    BY <2>5, <2>6 DEF d
<1>9. shipped' = MeantTo(p)
  <2>1. MeantTo(p) = Append(MeantTo(p - 1), Data(p, len))
    <3>1. reply.lens[p] # 0 /\ reply.lens[p] = len
      BY <1>4, <1>7
    <3>2. Joined(Wanted(reply.lens), p) =
            IF reply.lens[p] = 0 THEN Joined(Wanted(reply.lens), p - 1)
            ELSE Append(Joined(Wanted(reply.lens), p - 1), Data(p, reply.lens[p]))
      BY <1>5, WantedIs
    <3>3. QED
      BY <3>1, <3>2 DEF MeantTo
  <2>2. QED
    BY <1>4, <1>7, <1>8, <2>1
<1>10. Forwarding(base)'
  <2>1. p + 1 \in 1 .. Len(reply.lens) + 1 /\ (p + 1) - 1 = p
    BY <1>5
  <2>2. base + play' = base + play + 2 + len
    BY <1>5, <1>7
  <2>3. MeantTo(p)' = MeantTo(p)
    BY <1>3 DEF MeantTo
  <2>4. base + play' = PacketAt(reply.lens, p + 1) /\ shipped' = Joined(Wanted(reply.lens), (p + 1) - 1)
    BY <1>4, <1>9, <2>1, <2>2 DEF MeantTo
  <2>5. QED
    BY <1>3, <2>1, <2>4 DEF Forwarding, MeantTo
<1>11. play' \in Nat /\ play' <= Have
  BY <1>5, <1>7
<1>12. BodyTypeOK' /\ Held(base)'
  BY <1>1, <1>2, <1>3, <1>10, <1>11, PlayedOn
<1>13. PassOK'
  BY <1>1, <1>3, PassedOn
<1>14. QED
  BY <1>12, <1>13 DEF BodyInv

LEMMA SkipStep == ASSUME BodyInv, Skip PROVE BodyInv'
<1>1. BodyTypeOK /\ PassOK
  BY DEF BodyInv
<1>2. PICK base \in Nat : Held(base)
  BY DEF BodyInv
<1>3. /\ pc = "forward" /\ play + 2 <= Have
      /\ play' = IF PacketLen = 0 THEN play + 2 ELSE Have
      /\ PacketLen = 0 \/ (~(play + 2 + PacketLen <= Have) /\ Final)
      /\ UNCHANGED <<reply, st, resp, dec, playing, endSent, pc, shipped>>
  BY DEF Skip, Forwardable, Complete
<1>4. PICK p \in 1 .. Len(reply.lens), len \in Nat :
        /\ len = reply.lens[p] /\ shipped = MeantTo(p - 1) /\ PacketLen = len
        /\ base + play + 2 + len = PacketAt(reply.lens, p + 1)
        /\ base + play + 2 + len <= Len(Body)
  BY <1>1, <1>2, <1>3, AtPacket
<1>5. /\ play \in Nat /\ Have \in Nat /\ Len(reply.lens) \in Nat /\ reply.lens \in Seq(Nat)
      /\ Len(Body) \in Nat /\ reply.at \in Nat /\ Len(Stream) \in Nat /\ reply.at <= Len(Stream)
  BY <1>1, BodyTypes, StreamType DEF ReplyOK
<1>6. Chunked' = Chunked /\ Stream' = Stream /\ More' = More /\ Have' = Have
  BY <1>3 DEF Chunked, Stream, More, Have
<1>7. Forwarding(base)' /\ play' \in Nat /\ play' <= Have
  <2>1. CASE len = 0
    <3>1. play' = play + 2 /\ base + play' = PacketAt(reply.lens, p + 1)
      BY <1>3, <1>4, <1>5, <2>1
    <3>2. p + 1 \in 1 .. Len(reply.lens) + 1 /\ (p + 1) - 1 = p
      BY <1>5
    <3>3. shipped' = Joined(Wanted(reply.lens), (p + 1) - 1)
      <4>1. Joined(Wanted(reply.lens), p) = Joined(Wanted(reply.lens), p - 1)
        BY <1>4, <1>5, <2>1, WantedIs
      <4>2. QED
        BY <1>3, <1>4, <3>2, <4>1 DEF MeantTo
    <3>4. Forwarding(base)'
      BY <1>3, <3>1, <3>2, <3>3 DEF Forwarding, MeantTo
    <3>5. QED
      BY <1>3, <1>5, <3>1, <3>4
  <2>2. CASE len # 0
    <3>1. play' = Have /\ Final /\ ~(play + 2 + len <= Have)
      BY <1>3, <1>4, <2>2
    <3>2. base + Have # Len(Body)
      <4> DEFINE total == Len(Body)  had == Have
      <4>1. /\ base + play + 2 + len <= total /\ ~(play + 2 + len <= had)
            /\ play \in Nat /\ had \in Nat /\ total \in Nat
        BY <1>4, <1>5, <3>1
      <4> HIDE DEF total, had
      <4>2. base + had # total
        BY <4>1
      <4>3. QED
        BY <4>2 DEF total, had
    <3>3. Chunked => ~More
      BY <1>1, <1>3 DEF PassOK
    <3>4. ~(Chunked /\ dec.st = "DONE") /\ reply.at # Len(Stream)
      BY <1>1, <1>2, <3>2, <3>3, AllThere
    <3>5. st = "IDLE" /\ reply.at < Len(Stream)
      BY <1>5, <3>1, <3>4 DEF Final
    <3>6. Dropped'
      BY <1>3, <1>6, <3>1, <3>3, <3>5 DEF Dropped
    <3>7. p - 1 \in 0 .. Len(reply.lens) /\ shipped' = MeantTo(p - 1)
      BY <1>3, <1>4, <1>5
    <3>8. Forwarding(base)'
      BY <1>3, <3>6, <3>7 DEF Forwarding, MeantTo
    <3>9. QED
      BY <1>5, <3>1, <3>8
  <2>3. QED
    BY <2>1, <2>2
<1>8. BodyTypeOK' /\ Held(base)'
  BY <1>1, <1>2, <1>3, <1>7, PlayedOn
<1>9. PassOK'
  BY <1>1, <1>3, PassedOn
<1>10. QED
  BY <1>8, <1>9 DEF BodyInv

LEMMA PumpReturnsStep == ASSUME BodyInv, PumpReturns PROVE BodyInv'
<1>1. BodyTypeOK /\ PassOK
  BY DEF BodyInv
<1>2. PICK base \in Nat : Held(base)
  BY DEF BodyInv
<1>3. /\ pc = "forward" /\ pc' = "poll" /\ UNCHANGED <<reply, st, playing, shipped>>
      /\ Compact \/ UNCHANGED <<resp, dec, play>>
      /\ endSent' = (Final /\ Have - play < 2)
  BY DEF PumpReturns
<1>4. playing /\ ~endSent /\ (Chunked => ~More)
  BY <1>1, <1>3 DEF PassOK
<1>5. /\ play \in Nat /\ Have \in Nat /\ Len(reply.lens) \in Nat /\ reply.lens \in Seq(Nat)
      /\ Len(Body) \in Nat /\ reply.at \in Nat /\ Len(Stream) \in Nat
      /\ Meant = FlattenSeq(Wanted(reply.lens))
  BY <1>1, BodyTypes, StreamType DEF ReplyOK
<1>6. ASSUME Final PROVE st = "IDLE" \/ reply.at = Len(Stream)
  BY <1>1, <1>2, <1>4, <1>6, AllThere DEF Final
<1>7. ASSUME Have - play < 2, reply.at = Len(Stream) PROVE shipped = Meant
  <2>1. base + Have = Len(Body)
    BY <1>1, <1>2, <1>4, <1>7, AllThere
  <2>2. PICK p \in 1 .. Len(reply.lens) + 1 :
          base + play = PacketAt(reply.lens, p) /\ shipped = MeantTo(p - 1)
    <3>1. ~Dropped
      BY <1>5, <1>7 DEF Dropped
    <3>2. QED
      BY <1>2, <3>1 DEF Held, Forwarding
  <2>3. CASE p \in 1 .. Len(reply.lens)
    <3>1. PICK len \in Nat : len = reply.lens[p]
      BY <1>5, <2>3, ElementOfSeq
    <3>2. base + play + 2 + len <= Len(Body)
      <4>1. \A q \in 1 .. Len(reply.lens) :
              /\ PacketAt(reply.lens, q + 1) = PacketAt(reply.lens, q) + 2 + reply.lens[q]
              /\ PacketAt(reply.lens, q + 1) <= Len(Body)
        BY <1>5, PacketPlaces DEF Body
      <4>2. QED
        BY <2>2, <2>3, <3>1, <4>1
    <3>3. FALSE
      <4> DEFINE total == Len(Body)  had == Have
      <4>1. /\ base + play + 2 + len <= total /\ base + had = total /\ had - play < 2
            /\ play \in Nat /\ had \in Nat /\ total \in Nat
        BY <1>5, <1>7, <2>1, <3>2
      <4> HIDE DEF total, had
      <4>2. QED
        BY <4>1
    <3>4. QED
      BY <3>3
  <2>4. CASE p = Len(reply.lens) + 1
    <3>1. p - 1 = Len(reply.lens)
      BY <1>5, <2>4
    <3>2. MeantTo(p - 1) = Meant
      BY <1>5, <3>1, WantedIs DEF MeantTo
    <3>3. QED
      BY <2>2, <3>2
  <2>5. QED
    BY <1>5, <2>3, <2>4
<1>8. endSent' \in BOOLEAN
  BY <1>3
<1>9. /\ BodyTypeOK' /\ \E first \in Nat : Held(first)'
      /\ Stream' = Stream /\ Meant' = Meant
  <2>1. Stream' = Stream /\ Meant' = Meant
    BY <1>3 DEF Stream, Meant
  <2>2. CASE Compact
    <3>1. /\ resp' \in Seq(BodyBytes) /\ Len(resp') \in Nat /\ Len(resp') <= reply.at
          /\ dec' \in Decoders /\ play' = 0 /\ Have' \in Nat
          /\ \E first \in Nat : Held(first)'
      BY <1>1, <1>2, <1>3, <2>2, CompactKeeps
    <3>2. BodyTypeOK'
      BY <1>1, <1>3, <1>8, <2>1, <3>1 DEF BodyTypeOK
    <3>3. QED
      BY <2>1, <3>1, <3>2
  <2>3. CASE UNCHANGED <<resp, dec, play>>
    <3>1. st' = st /\ st \in {"REQUESTING", "DONE_OK", "IDLE"} /\ playing \in BOOLEAN
      BY <1>1, <1>3 DEF BodyTypeOK
    <3>2. QED
      BY <1>3, <1>8, <2>3, <3>1, BufferStays, BodyInv
  <2>4. QED
    BY <1>3, <2>2, <2>3
<1>10. PassOK'
  <2>1. CASE endSent'
    <3>1. Final /\ Have - play < 2
      BY <1>3, <2>1
    <3>2. (st = "IDLE" \/ reply.at = Len(Stream)) /\ (reply.at = Len(Stream) => shipped = Meant)
      BY <1>6, <1>7, <3>1
    <3>3. QED
      BY <1>3, <1>4, <1>9, <3>2 DEF PassOK
  <2>2. CASE ~endSent'
    BY <1>3, <1>4, <2>2 DEF PassOK
  <2>3. QED
    BY <2>1, <2>2
<1>11. QED
  BY <1>9, <1>10 DEF BodyInv

\* BodyInv holds throughout.
THEOREM BodyInvHolds == BodySpec => []BodyInv
<1>1. BodyInit => BodyInv
  BY BodyStarts
<1>2. BodyInv /\ [BodyNext]_bodyVars => BodyInv'
  <2> SUFFICES ASSUME BodyInv, [BodyNext]_bodyVars PROVE BodyInv'
    OBVIOUS
  <2>1. CASE Receive
    BY <2>1, ReceiveStep
  <2>2. CASE Decode
    BY <2>2, DecodeStep
  <2>3. CASE Ship
    BY <2>3, ShipStep
  <2>4. CASE Skip
    BY <2>4, SkipStep
  <2>5. CASE PumpReturns
    BY <2>5, PumpReturnsStep
  <2>6. CASE Fin \/ PollReturns \/ Decoded \/ Arm \/ HandleDone \/ ForwardPump
              \/ UNCHANGED bodyVars
    BY <2>6, BodyQuiet
  <2>7. QED
    BY <2>1, <2>2, <2>3, <2>4, <2>5, <2>6 DEF BodyNext
<1>3. QED
  BY <1>1, <1>2, PTL DEF BodySpec

\* Whatever its packets and its chunks, the segments and the moments of
\* compaction, the packets shipped are those of the reply, whole and in order,
\* and the end is announced behind the last of them (tts.c tts_forward_pump,
\* http.c http_chunked_decode_in_place, http_resp_compact_locked).
THEOREM BodyShippedAsSent == BodySpec => []ShippedAsSent
<1>1. BodyInv => ShippedAsSent
  <2> SUFFICES ASSUME BodyInv PROVE ShippedAsSent
    OBVIOUS
  <2>1. BodyTypeOK /\ PassOK
    BY DEF BodyInv
  <2>2. PICK base \in Nat : Held(base)
    BY DEF BodyInv
  <2>3. reply.lens \in Seq(Nat) /\ Len(reply.lens) \in Nat /\ Meant = FlattenSeq(Wanted(reply.lens))
    BY <2>1, BodyTypes, StreamType DEF ReplyOK
  <2>4. \E p \in 0 .. Len(reply.lens) : shipped = MeantTo(p)
    <3>1. CASE \E p \in 1 .. Len(reply.lens) + 1 : shipped = MeantTo(p - 1)
      <4>1. PICK p \in 1 .. Len(reply.lens) + 1 : shipped = MeantTo(p - 1)
        BY <3>1
      <4>2. p - 1 \in 0 .. Len(reply.lens)
        BY <2>3
      <4>3. QED
        BY <4>1, <4>2
    <3>2. QED
      BY <2>2, <3>1 DEF Held, Forwarding
  <2>5. IsPrefix(shipped, Meant)
    BY <2>3, <2>4, WantedIs DEF MeantTo
  <2>6. endSent /\ reply.at = Len(Stream) => shipped = Meant
    BY <2>1 DEF PassOK
  <2>7. QED
    BY <2>5, <2>6 DEF ShippedAsSent
<1>2. QED
  BY <1>1, BodyInvHolds, PTL
=============================================================================

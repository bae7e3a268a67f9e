----------------------------- MODULE UsbConsole -----------------------------
(***************************************************************************)
(* The USB console from end to end: a program on core 0 that writes and     *)
(* reads bytes, the firmware on core 1 (UsbTask), the USB controller and    *)
(* the host.  Controller and host are not in the source; what they do is    *)
(* what the firmware relies on:                                            *)
(*                                                                         *)
(*  - a transaction finds an armed buffer or is refused and tried again;    *)
(*    when it is done the buffer is disarmed and its BUFF_STATUS bit set;   *)
(*  - a receiver drops a packet with the wrong data toggle, and the sender  *)
(*    takes it for delivered; the bus itself loses nothing;                 *)
(*  - a SETUP is always accepted; the host sends one when the transfer      *)
(*    before it has ended, and gives up none;                              *)
(*  - a bus reset, and a SET_ADDRESS, are followed by a pause in which the  *)
(*    firmware makes a pass; a reset does not follow a SETUP so closely     *)
(*    that the firmware has not seen it;                                    *)
(*  - a request with wLength 0 has no data, and its status packet is IN;    *)
(*  - the host keeps an endpoint quiet while it reconfigures it.            *)
(*                                                                         *)
(* Bytes are numbered in the order they are sent, from 1, each direction.   *)
(***************************************************************************)
EXTENDS UsbTask, FiniteSets

CONSTANTS
  Enumeration,  \* the requests [kind, v, limit] the host makes before it has
                \* set a configuration
  InUse,        \* and those it makes after
  MaxSetups,    \* bound: control transfers of a behaviour
  MaxResets,    \* bound: bus resets
  MaxIn,        \* bound: bytes the program writes
  MaxOut,       \* bound: bytes the host sends
  MaxWork       \* bound: transfers and bytes of both directions together

HasReply(r) == r.kind \in {"Descriptor", "ClassGet"}

\* The requests: setup() has taken an endpoint and a configuration it does not
\* know, and a length that does not fit the request, for "Unknown".
Kinds == {"Descriptor", "ClassGet", "SetAddress", "SetConfig", "SetInterface", "ClearHalt",
          "SetHalt", "LineCoding", "ControlLine", "Unknown"}
Requests ==
  {r \in [kind : Kinds, v : Nat, limit : Nat] :
     /\ r.kind = "LineCoding" => r.limit \in 1 .. PKT
     /\ r.kind \in {"SetConfig", "SetInterface"} => r.v \in {0, 1}
     /\ r.kind \in {"ClearHalt", "SetHalt"} => r.v \in Bulk}

ASSUME UsbConsoleAssumption ==
  /\ Enumeration \cup InUse \subseteq Requests
  /\ MaxSetups \in Nat /\ MaxResets \in Nat /\ MaxIn \in Nat /\ MaxOut \in Nat
  /\ MaxWork \in Nat

VARIABLES
  phase,      \* where the host is in a control transfer
  tog0,       \* the toggle it expects or sends next on endpoint 0
  got,        \* the bytes of the reply it has
  hAddr,      \* the address it talks to
  hConf,      \* the configuration it has set
  tog,        \* its toggles of the other endpoints
  setups, resets,
  written,    \* bytes the program has written
  partial,    \* bulk IN bytes of the read the host has not completed
  hostGot,    \* bytes of completed reads
  sent,       \* bytes the host has sent
  readUpTo    \* the last byte the program read, 0 if none

hostVars == <<phase, tog0, got, hAddr, hConf, tog, setups, resets, partial, hostGot, sent>>
progVars == <<written, readUpTo>>
vars == <<taskVars, hostVars, progVars>>

busVars == <<request, pc, ns, s, rxq, txq>>

Init ==
  /\ dev = Device0
  /\ request = [kind |-> "Unknown", v |-> 0, limit |-> 0]
  /\ out5 = [i \in 1 .. PKT |-> 0] /\ in4 = <<>>
  /\ pc = "status" /\ ns = FALSE /\ s = {}
  /\ rxq = <<>> /\ txq = <<>>
  /\ phase = "idle" /\ tog0 = 0 /\ got = 0 /\ hAddr = 0 /\ hConf = 0
  /\ tog = [k \in Bulk |-> 0]
  /\ setups = 0 /\ resets = 0
  /\ written = 0 /\ readUpTo = 0
  /\ partial = <<>> /\ hostGot = <<>> /\ sent = 0

-----------------------------------------------------------------------------
\* Transactions.

Armed(k) == dev.b[k].st = "armed" /\ dev.devAddr = hAddr

\* The transaction on buffer k ends with n bytes in it.
Done(k, n) == [dev EXCEPT !.b[k].st = "off", !.b[k].len = n, !.done = @ \cup {k}]

\* The endpoints a request reconfigures.
Touches(r) ==
  CASE r.kind = "SetConfig" -> Bulk
    [] r.kind = "SetInterface" -> IF r.v = 1 THEN {4, 5} ELSE {2}
    [] r.kind \in {"ClearHalt", "SetHalt"} -> {r.v}
    [] OTHER -> {}

Usable(k) ==
  /\ hConf = 1
  /\ phase \notin {"idle", "reset"} => k \notin Touches(request)
  /\ phase # "reset"

\* What is left of the bound on the whole behaviour.
Left == MaxWork - (setups + written + sent)

SendSetup(r) ==
  /\ phase = "idle" /\ setups < MaxSetups /\ Left > 0
  /\ dev.devAddr = hAddr
  /\ setups' = setups + 1
  /\ request' = r
  /\ dev' = [dev EXCEPT !.setupRec = TRUE, !.stallArm = FALSE]
  /\ tog0' = 1 /\ got' = 0
  /\ phase' = IF HasReply(r) /\ r.limit > 0 THEN "in"
              ELSE IF r.kind = "LineCoding" THEN "out" ELSE "statusIn"
  /\ UNCHANGED <<out5, in4, pc, ns, s, rxq, txq, hAddr, hConf, tog, resets, partial,
                 hostGot, sent, progVars>>

\* An endpoint the host has reconfigured starts with toggle 0.
Completed ==
  /\ tog' = [k \in Bulk |-> IF k \in Touches(request) THEN 0 ELSE tog[k]]
  /\ hConf' = IF request.kind = "SetConfig" THEN request.v ELSE hConf
  /\ phase' = IF request.kind = "SetAddress" THEN "newAddress" ELSE "idle"

ControlInToken ==
  /\ phase \in {"in", "statusIn"}
  /\ Armed(0)
  /\ dev' = Done(0, dev.b[0].len)
  /\ LET good == dev.b[0].pid = tog0
         n == dev.b[0].len
     IN  IF ~ good \/ (phase = "statusIn" /\ n # 0) \/ got + n > request.limit
         THEN /\ phase' = "broken"
              /\ UNCHANGED <<tog0, got, tog, hConf>>
         ELSE IF phase = "statusIn"
         THEN Completed /\ UNCHANGED <<tog0, got>>
         ELSE /\ got' = got + n
              /\ IF n < PKT \/ got' = request.limit
                 THEN phase' = "statusOut" /\ tog0' = 1
                 ELSE phase' = phase /\ tog0' = 1 - tog0
              /\ UNCHANGED <<tog, hConf>>
  /\ UNCHANGED <<busVars, out5, in4, hAddr, setups, resets, partial, hostGot, sent, progVars>>

ControlOutToken ==
  /\ phase \in {"out", "statusOut"}
  /\ Armed(1)
  /\ dev' = Done(1, IF phase = "out" THEN request.limit ELSE 0)
  /\ IF dev.b[1].pid # tog0
     THEN phase' = "broken" /\ UNCHANGED <<tog, hConf>>
     ELSE IF phase = "out"
     THEN phase' = "statusIn" /\ UNCHANGED <<tog, hConf>>
     ELSE Completed
  /\ UNCHANGED <<busVars, out5, in4, tog0, got, hAddr, setups, resets, partial, hostGot,
                 sent, progVars>>

ControlRefused ==
  /\ phase \in {"in", "out", "statusIn", "statusOut"}
  /\ dev.stallArm /\ dev.devAddr = hAddr
  /\ dev.b[IF phase \in {"in", "statusIn"} THEN 0 ELSE 1].st = "stall"
  /\ phase' = "idle"
  /\ UNCHANGED <<taskVars, tog0, got, hAddr, hConf, tog, setups, resets, partial, hostGot,
                 sent, progVars>>

\* The pause after SET_ADDRESS.
UseAddress ==
  /\ phase = "newAddress" /\ ~ dev.setaddr
  /\ hAddr' = request.v /\ phase' = "idle"
  /\ UNCHANGED <<taskVars, tog0, got, hConf, tog, setups, resets, partial, hostGot, sent,
                 progVars>>

BusReset ==
  /\ resets < MaxResets /\ ~ dev.setupRec
  /\ resets' = resets + 1
  /\ dev' = [dev EXCEPT !.busReset = TRUE]
  /\ phase' = "reset" /\ hAddr' = 0 /\ hConf' = 0 /\ partial' = <<>>
  /\ UNCHANGED <<busVars, out5, in4, tog0, got, tog, setups, hostGot, sent, progVars>>

\* The pause after a bus reset.
Recovered ==
  /\ phase = "reset" /\ ~ dev.busReset /\ dev.done = {}
  /\ phase' = "idle"
  /\ UNCHANGED <<taskVars, tog0, got, hAddr, hConf, tog, setups, resets, partial, hostGot,
                 sent, progVars>>

\* Poll the notification endpoint.
PollNotification ==
  /\ Usable(2) /\ Armed(2)
  /\ dev' = Done(2, dev.b[2].len)
  /\ tog' = [tog EXCEPT ![2] = IF dev.b[2].pid = @ THEN 1 - @ ELSE @]
  /\ UNCHANGED <<busVars, out5, in4, phase, tog0, got, hAddr, hConf, setups, resets,
                 partial, hostGot, sent, progVars>>

\* Read a bulk packet; one shorter than PKT completes the read.
BulkIn ==
  /\ Usable(4) /\ Armed(4)
  /\ dev' = Done(4, dev.b[4].len)
  /\ IF dev.b[4].pid # tog[4]
     THEN UNCHANGED <<tog, partial, hostGot>>
     ELSE /\ tog' = [tog EXCEPT ![4] = 1 - @]
          /\ IF dev.b[4].len = PKT
             THEN partial' = partial \o in4 /\ UNCHANGED hostGot
             ELSE partial' = <<>> /\ hostGot' = hostGot \o partial \o in4
  /\ UNCHANGED <<busVars, out5, in4, phase, tog0, got, hAddr, hConf, setups, resets, sent,
                 progVars>>

\* Send n bytes, or an empty packet.
BulkOut(n) ==
  /\ Usable(5) /\ Armed(5) /\ MaxOut > 0 /\ n <= MaxOut - sent /\ n <= Left
  /\ sent' = sent + n
  /\ tog' = [tog EXCEPT ![5] = 1 - @]
  /\ IF dev.b[5].pid # tog[5]
     THEN UNCHANGED <<dev, out5>>
     ELSE /\ dev' = Done(5, n)
          /\ out5' = [i \in 1 .. PKT |-> IF i <= n THEN sent + i ELSE out5[i]]
  /\ UNCHANGED <<busVars, in4, phase, tog0, got, hAddr, hConf, setups, resets, partial,
                 hostGot, progVars>>

\* Core 0: console_write adds the next bytes, getchar takes one.
Write ==
  /\ \E n \in 1 .. Lesser(MaxIn - written, Left) :
       /\ Len(txq) + n <= Cap
       /\ written' = written + n
       /\ txq' = txq \o [i \in 1 .. n |-> written + i]
  /\ UNCHANGED <<dev, request, out5, in4, pc, ns, s, rxq, hostVars, readUpTo>>

Read ==
  /\ rxq # <<>>
  /\ readUpTo' = Head(rxq) /\ rxq' = Tail(rxq)
  /\ UNCHANGED <<dev, request, out5, in4, pc, ns, s, txq, hostVars, written>>

Core1 == Task /\ UNCHANGED <<hostVars, progVars>>

HostControl == ControlInToken \/ ControlOutToken \/ ControlRefused \/ UseAddress \/ Recovered

Next ==
  \/ Core1
  \/ \E r \in IF hConf = 0 THEN Enumeration ELSE InUse : SendSetup(r)
  \/ HostControl \/ BusReset
  \/ PollNotification \/ BulkIn \/ (\E n \in 0 .. PKT : BulkOut(n))
  \/ Write \/ Read

\* Core 1 never stops, the host finishes the transfers it starts and reads the
\* bulk and notification endpoints, and the program reads its input.
Fairness ==
  /\ WF_vars(Core1) /\ WF_vars(HostControl)
  /\ WF_vars(PollNotification) /\ WF_vars(BulkIn) /\ WF_vars(Read)

Spec == Init /\ [][Next]_vars /\ Fairness

-----------------------------------------------------------------------------

TypeOK ==
  /\ dev \in Device
  /\ pc \in {"status", "control", "receive", "transmit", "zlp"}
  /\ s \subseteq EP /\ ns \in BOOLEAN
  /\ Len(rxq) <= Cap /\ Len(txq) <= Cap /\ Len(in4) <= PKT

(***************************************************************************)
(* Endpoint 0 never breaks the protocol: every packet of a control transfer *)
(* carries the toggle the host expects, a status packet is empty, and a     *)
(* reply is not longer than asked for.  Completions of the transfer before  *)
(* may still be unread when a SETUP arrives.                                *)
(***************************************************************************)
ControlConforms == phase # "broken"

(***************************************************************************)
(* The host reaches the status stage of a read only with the whole reply,   *)
(* or as much of it as it asked for: setup() and next() cut it in packets.  *)
(***************************************************************************)
ReplyWhole ==
  phase = "statusOut" => got = Lesser(request.v, request.limit)

(***************************************************************************)
(* Between transfers both sides agree on the address and the configuration, *)
(* whatever resets and transfers there were before.                         *)
(***************************************************************************)
SidesAgree ==
  phase = "idle" => dev.devAddr = hAddr /\ dev.conf = hConf

(***************************************************************************)
(* A new address is taken only after the host has seen the status stage of  *)
(* SET_ADDRESS, which still goes to the old one (or has reset the bus since).  *)
(***************************************************************************)
AddressAfterStatus ==
  [][dev'.devAddr # dev.devAddr /\ dev'.devAddr # 0 => phase \in {"newAddress", "reset"}]_vars

(***************************************************************************)
(* A buffer armed for an endpoint the host may use has the toggle the host  *)
(* expects: no packet is dropped as a repeat.                               *)
(***************************************************************************)
ToggleAgreed ==
  \A k \in Bulk : Usable(k) /\ dev.b[k].st = "armed" => dev.b[k].pid = tog[k]

(***************************************************************************)
(* The two sides of the bus agree, whatever sequence of requests and resets *)
(* led here: on the address, the configuration and the next data toggles.   *)
(***************************************************************************)
BusInv == TypeOK /\ SidesAgree /\ ToggleAgreed

Consecutive(q, first) == \A i \in 1 .. Len(q) : q[i] = first + i - 1
Increasing(q) == \A i \in 1 .. Len(q) - 1 : q[i] < q[i + 1]

(***************************************************************************)
(* The program reads what the host sent, in order, nothing lost or repeated *)
(* on the way through the packet buffer, rxlen and rxpos and the ring.  A    *)
(* bus reset may drop what the firmware has not taken out of the buffer.    *)
(***************************************************************************)
RxInOrder ==
  /\ resets = 0 => Consecutive(rxq, readUpTo + 1)
  /\ Increasing(<<readUpTo>> \o rxq)

(***************************************************************************)
(* What is read is something the host sent, in order, each byte once, also  *)
(* when a request that reconfigures the endpoint may drop bytes.            *)
(***************************************************************************)
RxNothingInvented ==
  /\ Increasing(<<readUpTo>> \o rxq)
  /\ \A i \in DOMAIN rxq : rxq[i] \in 1 .. sent

(***************************************************************************)
(* The host reads what the program wrote, in order, nothing lost or         *)
(* repeated.                                                               *)
(***************************************************************************)
TxInOrder == Consecutive(hostGot \o partial, 1)

\* A request the device knows, made when it is allowed.
Allowed(r) ==
  CASE r.kind \in {"Descriptor", "SetAddress", "SetConfig"} -> TRUE
    [] r.kind = "Unknown" -> FALSE
    [] OTHER -> hConf = 1

\* The host asked for none of the bytes of a reply, and awaits the status.
ReadsNothing ==
  phase = "statusIn" /\ HasReply(request) /\ request.limit = 0 /\ Allowed(request)

(***************************************************************************)
(* Every control transfer ends: with its status stage, refused, or by a     *)
(* bus reset, after which the host goes on.  The exception is a read of no  *)
(* bytes: setup() does not look at wLength, and next() takes the reply that *)
(* was cut to nothing for one that was sent.  It awaits the status packet   *)
(* of a read, the host that of a request without data.                      *)
(***************************************************************************)
ControlEnds == phase # "idle" ~> phase = "idle" \/ ReadsNothing

(***************************************************************************)
(* Every byte the program writes reaches the host in a read that completes: *)
(* the host catches up whenever the program pauses, because a full packet    *)
(* that ends the output is followed by a short or an empty one.             *)
(***************************************************************************)
TxDelivered == []<>(hConf = 1 => Len(hostGot) = written)

(***************************************************************************)
(* The same as long as the host makes no request after the one that         *)
(* configures the device.                                                  *)
(***************************************************************************)
TxDeliveredAlone == []<>(hConf = 1 /\ setups = 1 => Len(hostGot) = written)

(***************************************************************************)
(* Every byte the host sends is read by the program, a bus reset aside, and *)
(* a configured device can always take another packet.                      *)
(***************************************************************************)
RxDelivered ==
  []<>((readUpTo = sent \/ resets > 0) /\ (hConf = 1 => Armed(5)))

(***************************************************************************)
(* A request the device knows, made when it is allowed, is never refused:   *)
(* what is left of the transfer before does not leak into it.               *)
(***************************************************************************)
KnownServed == [][ControlRefused => ~ Allowed(request)]_vars
=============================================================================

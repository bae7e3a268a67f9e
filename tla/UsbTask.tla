------------------------------ MODULE UsbTask ------------------------------
(***************************************************************************)
(* The USB CDC firmware of the RP2350 console (os/io_pico2.c), which core 1 *)
(* runs as an endless loop of task().  The module has the controller's      *)
(* registers, the firmware's variables and one action per stretch of        *)
(* task() between two points where the controller may act:                  *)
(*                                                                         *)
(*   Status    reads SIE_STATUS; a bus reset is handled and ends the pass   *)
(*   Control   reads and clears BUFF_STATUS, runs setup(), then the         *)
(*             completions of endpoint 0                                    *)
(*   Receive   takes a bulk OUT packet, copies it to the rx ring, rearms    *)
(*   Transmit  arms the notification and the next bulk IN packet            *)
(*   LastFull  the test, after the packet was fired, for a closing ZLP      *)
(*                                                                         *)
(* Endpoints are numbered by their bit in BUFF_STATUS: 0 and 1 are control  *)
(* IN and OUT, 2 the notification, 4 bulk IN, 5 bulk OUT.  The rings are     *)
(* queues: Ring.tla shows that they are.  A request is a record; its kind   *)
(* "Unknown" stands for every one that fails a check of setup().            *)
(***************************************************************************)
EXTENDS Integers, Sequences

CONSTANTS PKT,   \* bytes in a full packet (64); the notification is one packet
          Cap    \* bytes in a ring (N, 64)

ASSUME UsbTaskAssumption == PKT \in Nat \ {0} /\ Cap \in Nat \ {0}

VARIABLES
  dev,      \* registers and firmware variables, a record (see Device0)
  request,  \* the SETUP packet in the controller's memory
  out5,     \* the bytes in the bulk OUT buffer, PKT of them, stale or not
  in4,      \* the bytes in the bulk IN buffer
  pc,       \* where task() is
  ns,       \* its copy of the SETUP_REC bit
  s,        \* its copy of BUFF_STATUS
  rxq,      \* the rx ring
  txq       \* the tx ring

taskVars == <<dev, request, out5, in4, pc, ns, s, rxq, txq>>

EP == {0, 1, 2, 4, 5}
Bulk == {2, 4, 5}

Lesser(a, b) == IF a < b THEN a ELSE b

Cleared == [st |-> "off", len |-> 0, pid |-> 0]
Stalled == [st |-> "stall", len |-> 0, pid |-> 0]

Buffer == [st : {"off", "armed", "stall"}, len : 0 .. PKT, pid : {0, 1}]

\* The reset state: hw() clears the controller's memory, statics start at zero.
Device0 ==
  [b |-> [k \in EP |-> Cleared], done |-> {}, setupRec |-> FALSE, busReset |-> FALSE,
   stallArm |-> FALSE, devAddr |-> 0,
   pid |-> [k \in EP |-> 0], busy |-> {}, stage |-> "IDLE", left |-> 0, limit |-> 0,
   zlp |-> FALSE, addr |-> 0, setaddr |-> FALSE, conf |-> 0, notify |-> FALSE,
   txzlp |-> FALSE, rxlen |-> 0, rxpos |-> 0]

Device ==
  [b : [EP -> Buffer], done : SUBSET EP, setupRec : BOOLEAN, busReset : BOOLEAN,
   stallArm : BOOLEAN, devAddr : Nat,
   pid : [EP -> {0, 1}], busy : SUBSET EP,
   stage : {"IDLE", "READ", "LINE", "SIN", "SOUT"}, left : Nat, limit : Nat,
   zlp : BOOLEAN, addr : Nat, setaddr : BOOLEAN, conf : {0, 1}, notify : BOOLEAN,
   txzlp : BOOLEAN, rxlen : 0 .. PKT, rxpos : 0 .. PKT]

-----------------------------------------------------------------------------
\* The functions task() calls, from a device state to the next.

\* Mutant: the toggle is not flipped.
ArmSameToggle(d, k, n) ==
  [d EXCEPT !.b[k] = [st |-> "armed", len |-> n, pid |-> d.pid[k]],
            !.busy = @ \cup {k}]

\* Mutant: the endpoint is not marked busy.
ArmNotBusy(d, k, n) ==
  [d EXCEPT !.b[k] = [st |-> "armed", len |-> n, pid |-> d.pid[k]],
            !.pid[k] = 1 - @]

Arm(d, k, n) ==
  [d EXCEPT !.b[k] = [st |-> "armed", len |-> n, pid |-> d.pid[k]],
            !.pid[k] = 1 - @,
            !.busy = @ \cup {k}]

Cancel(d, ks) ==
  [d EXCEPT !.b = [k \in EP |-> IF k \in ks THEN Cleared ELSE @[k]],
            !.done = @ \ ks,
            !.busy = @ \ ks]

StallControl(d) ==
  [d EXCEPT !.stage = "IDLE", !.stallArm = TRUE, !.b[0] = Stalled, !.b[1] = Stalled]

Ack(d) == Arm([d EXCEPT !.stage = "SIN"], 0, 0)

NextPacket(d) ==
  LET n == Lesser(d.left, PKT)
  IN  IF d.left > 0 \/ d.zlp
      THEN Arm([d EXCEPT !.zlp = @ /\ n > 0, !.left = @ - n], 0, n)
      ELSE Arm([d EXCEPT !.stage = "SOUT"], 1, 0)

\* Mutant: a truncated reply is one byte short.
SendShort(d, n) ==
  NextPacket([d EXCEPT !.left = IF n < d.limit THEN n ELSE d.limit - 1,
                       !.zlp = FALSE, !.stage = "READ"])

Send(d, n) ==
  NextPacket([d EXCEPT !.left = Lesser(n, d.limit),
                       !.zlp = n < d.limit /\ n % PKT = 0,
                       !.stage = "READ"])

ForgetRx(d) == [d EXCEPT !.rxlen = 0, !.rxpos = 0]

\* Mutant: the toggles of the bulk endpoints survive.
EpsKeepsToggles(d, on) ==
  LET off == [ForgetRx(d) EXCEPT
                !.b = [k \in EP |-> IF k \in Bulk THEN Cleared ELSE @[k]],
                !.busy = @ \ Bulk, !.txzlp = FALSE, !.notify = on]
  IN  IF on THEN Arm(off, 5, PKT) ELSE off

Eps(d, on) ==
  LET off == [ForgetRx(d) EXCEPT
                !.b = [k \in EP |-> IF k \in Bulk THEN Cleared ELSE @[k]],
                !.pid = [k \in EP |-> IF k \in Bulk THEN 0 ELSE @[k]],
                !.busy = @ \ Bulk, !.txzlp = FALSE, !.notify = on]
  IN  IF on THEN Arm(off, 5, PKT) ELSE off

IReset(d, x) ==
  IF x = 1
  THEN Arm([ForgetRx(Cancel(d, {4, 5})) EXCEPT
              !.pid[4] = 0, !.pid[5] = 0, !.txzlp = FALSE], 5, PKT)
  ELSE [Cancel(d, {2}) EXCEPT !.pid[2] = 0, !.notify = TRUE]

\* CLEAR_FEATURE and SET_FEATURE of ENDPOINT_HALT.
Halt(d, k, set) ==
  LET c == [Cancel(d, {k}) EXCEPT !.pid[k] = 0, !.txzlp = @ /\ k # 4]
      e == IF k = 5 THEN ForgetRx(c) ELSE c
  IN  IF set THEN [e EXCEPT !.b[k] = Stalled]
      ELSE IF k = 5 THEN Arm(e, 5, PKT)
      ELSE [e EXCEPT !.notify = @ \/ k = 2]

Setup(d0, r) ==
  LET d == [d0 EXCEPT !.setupRec = FALSE, !.pid[0] = 1, !.pid[1] = 1,
                      !.busy = @ \ {0, 1}, !.stage = "IDLE", !.stallArm = FALSE,
                      !.limit = r.limit]
      configured == d.conf # 0
  IN  CASE r.kind = "Descriptor"                 -> Send(d, r.v)
        [] r.kind = "SetAddress"                 -> Ack([d EXCEPT !.addr = r.v, !.setaddr = TRUE])
        [] r.kind = "SetConfig"                  -> Ack(Eps([d EXCEPT !.conf = r.v], r.v # 0))
        [] r.kind = "ClassGet" /\ configured     -> Send(d, r.v)
        [] r.kind = "SetInterface" /\ configured -> Ack(IReset(d, r.v))
        [] r.kind = "ClearHalt" /\ configured    -> Ack(Halt(d, r.v, FALSE))
        [] r.kind = "SetHalt" /\ configured      -> Ack(Halt(d, r.v, TRUE))
        [] r.kind = "LineCoding" /\ configured   -> Arm([d EXCEPT !.stage = "LINE"], 1, r.limit)
        [] r.kind = "ControlLine" /\ configured  -> Ack([d EXCEPT !.notify = TRUE])
        [] OTHER                                 -> StallControl(d)

-----------------------------------------------------------------------------
\* task()

BusResetDone(d) ==
  [ForgetRx(Eps(d, FALSE)) EXCEPT
     !.busReset = FALSE, !.b[0] = Cleared, !.b[1] = Cleared, !.done = @ \ {0, 1},
     !.devAddr = 0, !.stallArm = FALSE, !.pid[0] = 0, !.pid[1] = 0, !.busy = {},
     !.conf = 0, !.stage = "IDLE", !.setaddr = FALSE, !.addr = 0]

Status ==
  /\ pc = "status"
  /\ \/ /\ dev.busReset
        /\ dev' = BusResetDone(dev)
        /\ UNCHANGED <<pc, ns>>
     \/ /\ ~ dev.busReset
        /\ ns' = dev.setupRec
        /\ pc' = "control"
        /\ UNCHANGED dev
  /\ UNCHANGED <<request, out5, in4, s, rxq, txq>>

ControlIn(d) ==
  IF d.setaddr THEN [d EXCEPT !.devAddr = d.addr, !.setaddr = FALSE, !.stage = "IDLE"]
  ELSE IF d.stage = "READ" THEN NextPacket(d)
  ELSE [d EXCEPT !.stage = "IDLE"]

\* Mutant: the line coding is taken but not acknowledged.
ControlOutNoAck(d) ==
  IF d.stage \in {"LINE", "SOUT"} THEN [d EXCEPT !.stage = "IDLE"] ELSE StallControl(d)

ControlOut(d) ==
  IF d.stage = "LINE" /\ d.b[1].len = d.limit THEN Ack(d)
  ELSE IF d.stage = "SOUT" THEN [d EXCEPT !.stage = "IDLE"]
  ELSE StallControl(d)

\* Mutant: BUFF_STATUS is not cleared in a pass that runs setup().
TakeStatusTwice(d) ==
  IF ns THEN Setup([d EXCEPT !.busy = @ \ {0, 1}], request)
        ELSE [d EXCEPT !.done = {}, !.busy = @ \ d.done]

\* Mutant: setup() moves to the new address at once.
TakeStatusNewAddress(d) ==
  LET e == IF ns THEN Setup([d EXCEPT !.done = {}, !.busy = @ \ {0, 1}], request)
                 ELSE [d EXCEPT !.done = {}, !.busy = @ \ d.done]
  IN  IF e.setaddr THEN [e EXCEPT !.devAddr = e.addr] ELSE e

TakeStatus(d) ==
  IF ns THEN Setup([d EXCEPT !.done = {}, !.busy = @ \ {0, 1}], request)
        ELSE [d EXCEPT !.done = {}, !.busy = @ \ d.done]

\* Mutant: completions of the transfer before the SETUP are acted on.
ControlStaleDone ==
  /\ pc = "control"
  /\ s' = dev.done
  /\ LET d == TakeStatus(dev)
         e == IF 0 \in s' THEN ControlIn(d) ELSE d
     IN  dev' = IF 1 \in s' THEN ControlOut(e) ELSE e
  /\ pc' = "receive"
  /\ UNCHANGED <<request, out5, in4, ns, rxq, txq>>

\* Mutant: a SETUP discards every completion polled with it.
ControlDropsDone ==
  /\ pc = "control"
  /\ s' = IF ns THEN {} ELSE dev.done
  /\ LET d == TakeStatus(dev)
         e == IF 0 \in s' THEN ControlIn(d) ELSE d
     IN  dev' = IF 1 \in s' THEN ControlOut(e) ELSE e
  /\ pc' = "receive"
  /\ UNCHANGED <<request, out5, in4, ns, rxq, txq>>

Control ==
  /\ pc = "control"
  /\ s' = IF ns THEN dev.done \ {0, 1} ELSE dev.done
  /\ LET d == TakeStatus(dev)
         e == IF 0 \in s' THEN ControlIn(d) ELSE d
     IN  dev' = IF 1 \in s' THEN ControlOut(e) ELSE e
  /\ pc' = "receive"
  /\ UNCHANGED <<request, out5, in4, ns, rxq, txq>>

Received(d) ==
  LET t == [d EXCEPT !.rxlen = d.b[5].len, !.rxpos = 0]
  IN  IF t.rxlen = 0 THEN Arm(t, 5, PKT) ELSE t

Receive ==
  /\ pc = "receive"
  /\ LET d == IF 5 \in s THEN Received(dev) ELSE dev
         n == Lesser(d.rxlen - d.rxpos, Cap - Len(rxq))
         e == [d EXCEPT !.rxpos = @ + n]
         f == ForgetRx(e)
     IN  /\ rxq' = rxq \o SubSeq(out5, d.rxpos + 1, d.rxpos + n)
         /\ dev' = IF e.rxpos # e.rxlen \/ e.rxlen = 0 THEN e
                   ELSE IF e.b[5].st = "stall" THEN f
                   ELSE Arm(f, 5, PKT)
  /\ pc' = "transmit"
  /\ UNCHANGED <<request, out5, in4, ns, s, txq>>

Notified(d) ==
  IF d.notify /\ 2 \notin d.busy /\ d.b[2].st # "stall"
  THEN [Arm(d, 2, PKT) EXCEPT !.notify = FALSE]
  ELSE d

SendZlp(d) == [Arm(d, 4, 0) EXCEPT !.txzlp = FALSE]

Transmit ==
  /\ pc = "transmit"
  /\ LET d == Notified(dev)
         n == Lesser(Len(txq), PKT)
     IN  \/ /\ dev.conf = 0
            /\ pc' = "status" /\ UNCHANGED <<dev, in4, txq>>
         \/ /\ dev.conf # 0
            /\ \/ 4 \in d.busy \/ d.b[4].st = "stall"
               \/ ~ d.txzlp /\ n = 0
            /\ dev' = d
            /\ pc' = "status" /\ UNCHANGED <<in4, txq>>
         \/ /\ dev.conf # 0 /\ 4 \notin d.busy /\ d.b[4].st # "stall"
            /\ d.txzlp
            /\ dev' = SendZlp(d)
            /\ in4' = <<>>
            /\ pc' = "status" /\ UNCHANGED txq
         \/ /\ dev.conf # 0 /\ 4 \notin d.busy /\ d.b[4].st # "stall"
            /\ ~ d.txzlp /\ n > 0
            /\ dev' = Arm(d, 4, n)
            /\ in4' = SubSeq(txq, 1, n)
            /\ txq' = SubSeq(txq, n + 1, Len(txq))
            /\ pc' = IF n = PKT THEN "zlp" ELSE "status"
  /\ UNCHANGED <<request, out5, ns, s, rxq>>

\* Mutant: no closing ZLP.
LastFullForgotten ==
  /\ pc = "zlp"
  /\ pc' = "status"
  /\ UNCHANGED <<dev, request, out5, in4, ns, s, rxq, txq>>

\* n == 64 && tr == tw, with core 0 free to add bytes since tr was moved.
LastFull ==
  /\ pc = "zlp"
  /\ dev' = [dev EXCEPT !.txzlp = (txq = <<>>)]
  /\ pc' = "status"
  /\ UNCHANGED <<request, out5, in4, ns, s, rxq, txq>>

Task == Status \/ Control \/ Receive \/ Transmit \/ LastFull
=============================================================================

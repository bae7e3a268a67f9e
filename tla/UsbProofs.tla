----------------------------- MODULE UsbProofs -----------------------------
(***************************************************************************)
(* Proofs about UsbTask and UsbConsole, for every packet and ring size, all  *)
(* sets of requests and all bounds.                                         *)
(*                                                                         *)
(* Control transfers. CtlInv has one predicate for each place the host can   *)
(* be in (HostNow): which buffer of endpoint 0 is armed, with what toggle    *)
(* and how much, what the firmware has left to send, and which completions   *)
(* it may still not have read. From it follow that endpoint 0 never breaks   *)
(* the protocol, that replies are whole, that both sides agree on address    *)
(* and configuration, and when the address changes.                          *)
(*                                                                         *)
(* Toggles. Expect(k) is the toggle the host will use next on endpoint k,    *)
(* once the transfer in progress has ended. BulkInv: what is armed to be     *)
(* sent has it. RxInv: the buffer of endpoint 5 has it, and a packet is in   *)
(* one place only: under way, reported but unread, or unpacked (rxlen).      *)
(*                                                                         *)
(* Bytes. RxSeq and TxSeq follow the numbers of the bytes through every      *)
(* place they wait in.                                                      *)
(*                                                                         *)
(* A request that resets endpoint 5 with data under way breaks RxInv, as the *)
(* run usb_stale shows, and one that resets endpoint 4 discards a packet.    *)
(* Where a theorem excludes such requests its hypothesis says so.            *)
(***************************************************************************)
EXTENDS UsbConsole, ModuloFacts, SequenceTheorems, TLAPS

-----------------------------------------------------------------------------
\* What the functions task() calls do to the variables, one by one.

\* Nothing of endpoint 0, or nothing of the others, differs in d and e.
Ep0Same(d, e) ==
  \A k \in {0, 1} : e.b[k] = d.b[k] /\ e.pid[k] = d.pid[k] /\ (k \in e.done <=> k \in d.done)
BulkSame(d, e) ==
  \A k \in Bulk : /\ e.b[k] = d.b[k] /\ e.pid[k] = d.pid[k]
                  /\ k \in e.done <=> k \in d.done
                  /\ k \in e.busy <=> k \in d.busy

\* What only setup() and a reset change, the other variables of a control
\* transfer, and those of the bulk endpoints.
FixedSame(d, e) ==
  /\ e.setupRec = d.setupRec /\ e.busReset = d.busReset /\ e.limit = d.limit
  /\ e.addr = d.addr /\ e.conf = d.conf
StageSame(d, e) ==
  /\ e.stage = d.stage /\ e.left = d.left /\ e.zlp = d.zlp
  /\ e.setaddr = d.setaddr /\ e.devAddr = d.devAddr /\ e.stallArm = d.stallArm
StreamSame(d, e) ==
  e.notify = d.notify /\ e.txzlp = d.txzlp /\ e.rxlen = d.rxlen /\ e.rxpos = d.rxpos

CtlSame(d, e) == Ep0Same(d, e) /\ FixedSame(d, e) /\ StageSame(d, e)
BulkKept(d, e) == BulkSame(d, e) /\ StreamSame(d, e)

LEMMA LesserIs ==
  ASSUME NEW x \in Nat, NEW y \in Nat
  PROVE  Lesser(x, y) \in Nat /\ Lesser(x, y) <= x /\ Lesser(x, y) <= y
BY DEF Lesser

LEMMA DeviceFields ==
  ASSUME NEW d \in Device
  PROVE  /\ d.b \in [EP -> Buffer] /\ d.pid \in [EP -> {0, 1}] /\ d.done \in SUBSET EP
         /\ d.busy \in SUBSET EP /\ d.left \in Nat /\ d.limit \in Nat
         /\ d.rxlen \in 0 .. PKT /\ d.rxpos \in 0 .. PKT /\ d.addr \in Nat
         /\ d.devAddr \in Nat /\ d.conf \in {0, 1}
         /\ d.stage \in {"IDLE", "READ", "LINE", "SIN", "SOUT"}
         /\ d.setupRec \in BOOLEAN /\ d.busReset \in BOOLEAN /\ d.stallArm \in BOOLEAN
         /\ d.zlp \in BOOLEAN /\ d.setaddr \in BOOLEAN /\ d.notify \in BOOLEAN
         /\ d.txzlp \in BOOLEAN
BY DEF Device

LEMMA ArmIs ==
  ASSUME NEW d \in Device, NEW k \in EP, NEW n \in 0 .. PKT, NEW e, e = Arm(d, k, n)
  PROVE  /\ e \in Device
         /\ e.b[k] = [st |-> "armed", len |-> n, pid |-> d.pid[k]] /\ e.pid[k] = 1 - d.pid[k]
         /\ \A j \in EP \ {k} : e.b[j] = d.b[j] /\ e.pid[j] = d.pid[j]
         /\ e.busy = d.busy \cup {k} /\ e.done = d.done
         /\ FixedSame(d, e) /\ StageSame(d, e) /\ StreamSame(d, e)
         /\ k \in Bulk => CtlSame(d, e)
         /\ k \notin Bulk => BulkKept(d, e)
<1>1. d.b \in [EP -> Buffer] /\ d.pid \in [EP -> {0, 1}] /\ d.busy \in SUBSET EP
  BY DEF Device
<1>2. e.b = [d.b EXCEPT ![k] = [st |-> "armed", len |-> n, pid |-> d.pid[k]]]
  BY DEF Device, Arm
<1>3. e.pid = [d.pid EXCEPT ![k] = 1 - @]
  BY DEF Device, Arm
<1>4. e.busy = d.busy \cup {k} /\ e.done = d.done
  BY DEF Device, Arm
<1>5. FixedSame(d, e)
  BY DEF Device, Arm, FixedSame
<1>6. StageSame(d, e)
  BY DEF Device, Arm, StageSame
<1>7. StreamSame(d, e)
  BY DEF Device, Arm, StreamSame
<1>8. e.b \in [EP -> Buffer] /\ e.pid \in [EP -> {0, 1}] /\ e.busy \in SUBSET EP
  BY <1>1, <1>2, <1>3, <1>4, UsbTaskAssumption DEF Buffer
<1>9. e \in Device
  BY <1>8 DEF Device, Arm
<1>10. /\ e.b[k] = [st |-> "armed", len |-> n, pid |-> d.pid[k]] /\ e.pid[k] = 1 - d.pid[k]
       /\ \A j \in EP \ {k} : e.b[j] = d.b[j] /\ e.pid[j] = d.pid[j]
  BY <1>1, <1>2, <1>3
<1>11. k \in Bulk => Ep0Same(d, e)
  BY <1>4, <1>10 DEF Ep0Same, EP, Bulk
<1>12. k \notin Bulk => BulkSame(d, e)
  BY <1>4, <1>10 DEF BulkSame, EP, Bulk
<1> QED
  BY <1>4, <1>5, <1>6, <1>7, <1>9, <1>10, <1>11, <1>12 DEF CtlSame, BulkKept

LEMMA StallIs ==
  ASSUME NEW d \in Device, NEW e, e = StallControl(d)
  PROVE  /\ e \in Device /\ BulkKept(d, e) /\ FixedSame(d, e)
         /\ e.b[0] = Stalled /\ e.b[1] = Stalled /\ e.stage = "IDLE" /\ e.stallArm
         /\ e.done = d.done /\ e.pid = d.pid /\ e.setaddr = d.setaddr /\ e.devAddr = d.devAddr
<1>1. d.b \in [EP -> Buffer] /\ Stalled \in Buffer
  BY UsbTaskAssumption DEF Device, Stalled, Buffer
<1>2. e.b = [d.b EXCEPT ![0] = Stalled, ![1] = Stalled]
  BY DEF Device, StallControl
<1>3. e.stage = "IDLE" /\ e.stallArm /\ e.done = d.done /\ e.pid = d.pid /\ e.busy = d.busy
  BY DEF Device, StallControl
<1>4. FixedSame(d, e) /\ e.setaddr = d.setaddr /\ e.devAddr = d.devAddr
  BY DEF Device, StallControl, FixedSame
<1>5. StreamSame(d, e)
  BY DEF Device, StallControl, StreamSame
<1>6. e.b \in [EP -> Buffer] /\ e.b[0] = Stalled /\ e.b[1] = Stalled
      /\ \A j \in Bulk : e.b[j] = d.b[j]
  BY <1>1, <1>2 DEF EP, Bulk
<1>7. e \in Device
  BY <1>6 DEF Device, StallControl
<1> QED
  BY <1>3, <1>4, <1>5, <1>6, <1>7 DEF BulkKept, BulkSame

LEMMA AckIs ==
  ASSUME NEW d \in Device, NEW e, e = Ack(d)
  PROVE  /\ e \in Device /\ BulkKept(d, e) /\ FixedSame(d, e)
         /\ e.b[0] = [st |-> "armed", len |-> 0, pid |-> d.pid[0]] /\ e.pid[0] = 1 - d.pid[0]
         /\ e.b[1] = d.b[1] /\ e.pid[1] = d.pid[1] /\ e.stage = "SIN" /\ e.done = d.done
         /\ e.setaddr = d.setaddr /\ e.devAddr = d.devAddr /\ e.stallArm = d.stallArm
<1> DEFINE c == [d EXCEPT !.stage = "SIN"]
<1>1. c \in Device /\ c.b = d.b /\ c.pid = d.pid /\ c.busy = d.busy /\ c.done = d.done
  BY DEF Device
<1>2. FixedSame(d, c) /\ StreamSame(d, c)
  BY DEF Device, FixedSame, StreamSame
<1>3. c.setaddr = d.setaddr /\ c.devAddr = d.devAddr /\ c.stallArm = d.stallArm /\ c.stage = "SIN"
  BY DEF Device
<1>4. e = Arm(c, 0, 0)
  BY DEF Ack
<1>5. 0 \in EP /\ 0 \in 0 .. PKT /\ 1 \in EP \ {0} /\ 0 \notin Bulk
  BY UsbTaskAssumption DEF EP, Bulk
<1>. HIDE DEF c
<1>6. /\ e \in Device /\ e.b[0] = [st |-> "armed", len |-> 0, pid |-> c.pid[0]]
      /\ e.pid[0] = 1 - c.pid[0] /\ \A j \in EP \ {0} : e.b[j] = c.b[j] /\ e.pid[j] = c.pid[j]
      /\ e.done = c.done /\ FixedSame(c, e) /\ StageSame(c, e) /\ BulkKept(c, e)
  BY <1>1, <1>4, <1>5, ArmIs
<1>7. BulkKept(d, e)
  BY <1>1, <1>2, <1>6 DEF BulkKept, BulkSame, StreamSame
<1> QED
  BY <1>1, <1>2, <1>3, <1>5, <1>6, <1>7 DEF FixedSame, StageSame

\* next(): another packet of the reply, or the buffer for the status stage.
LEMMA NextIs ==
  ASSUME NEW d \in Device, NEW e, e = NextPacket(d)
  PROVE  /\ e \in Device /\ BulkKept(d, e) /\ FixedSame(d, e) /\ e.done = d.done
         /\ e.setaddr = d.setaddr /\ e.devAddr = d.devAddr /\ e.stallArm = d.stallArm
         /\ d.left > 0 \/ d.zlp =>
              LET n == Lesser(d.left, PKT)
              IN  /\ e.b[0] = [st |-> "armed", len |-> n, pid |-> d.pid[0]]
                  /\ e.pid[0] = 1 - d.pid[0] /\ e.b[1] = d.b[1] /\ e.pid[1] = d.pid[1]
                  /\ e.left = d.left - n /\ (e.zlp <=> d.zlp /\ n > 0) /\ e.stage = d.stage
         /\ ~ (d.left > 0 \/ d.zlp) =>
              /\ e.b[1] = [st |-> "armed", len |-> 0, pid |-> d.pid[1]]
              /\ e.pid[1] = 1 - d.pid[1] /\ e.b[0] = d.b[0] /\ e.pid[0] = d.pid[0]
              /\ e.stage = "SOUT"
<1>1. {0, 1} \subseteq EP \ Bulk /\ 0 \in 0 .. PKT /\ PKT \in Nat
  BY UsbTaskAssumption DEF EP, Bulk
<1>2. CASE d.left > 0 \/ d.zlp
  <2> DEFINE n == Lesser(d.left, PKT)
             c == [d EXCEPT !.zlp = @ /\ n > 0, !.left = @ - n]
  <2>1. d.left \in Nat /\ n \in 0 .. PKT /\ d.left - n \in Nat
    BY <1>1, DeviceFields DEF Lesser
  <2>2. e = Arm(c, 0, n)
    BY <1>2 DEF NextPacket
  <2>. HIDE DEF n
  <2>3. c \in Device
    BY <2>1 DEF Device
  <2>4. c.b = d.b /\ c.pid = d.pid /\ c.busy = d.busy /\ c.done = d.done
    BY DEF Device
  <2>5. c.setaddr = d.setaddr /\ c.devAddr = d.devAddr /\ c.stallArm = d.stallArm
        /\ c.left = d.left - n /\ c.stage = d.stage
    BY DEF Device
  <2>6. c.zlp <=> d.zlp /\ n > 0
    BY DEF Device
  <2>7. FixedSame(d, c) /\ StreamSame(d, c)
    BY DEF Device, FixedSame, StreamSame
  <2>. HIDE DEF c
  <2>8. /\ e \in Device /\ e.b[0] = [st |-> "armed", len |-> n, pid |-> c.pid[0]]
        /\ e.pid[0] = 1 - c.pid[0] /\ \A j \in EP \ {0} : e.b[j] = c.b[j] /\ e.pid[j] = c.pid[j]
        /\ e.done = c.done /\ FixedSame(c, e) /\ StageSame(c, e) /\ BulkKept(c, e)
    BY <1>1, <2>1, <2>2, <2>3, ArmIs
  <2>9. BulkKept(d, e) /\ FixedSame(d, e)
    BY <2>4, <2>7, <2>8 DEF BulkKept, BulkSame, StreamSame, FixedSame
  <2>10. e.b[1] = d.b[1] /\ e.pid[1] = d.pid[1]
    BY <1>1, <2>4, <2>8
  <2>11. e.zlp <=> d.zlp /\ n > 0
    BY <2>6, <2>8, Zenon DEF StageSame
  <2>12. e.left = d.left - n /\ e.stage = d.stage /\ e.setaddr = d.setaddr
         /\ e.devAddr = d.devAddr /\ e.stallArm = d.stallArm
    BY <2>5, <2>8 DEF StageSame
  <2> QED
    BY <1>2, <2>4, <2>8, <2>9, <2>10, <2>11, <2>12 DEF n
<1>3. CASE ~ (d.left > 0 \/ d.zlp)
  <2> DEFINE c == [d EXCEPT !.stage = "SOUT"]
  <2>1. c \in Device /\ c.b = d.b /\ c.pid = d.pid /\ c.busy = d.busy /\ c.done = d.done
    BY DEF Device
  <2>2. FixedSame(d, c) /\ StreamSame(d, c)
    BY DEF Device, FixedSame, StreamSame
  <2>3. c.setaddr = d.setaddr /\ c.devAddr = d.devAddr /\ c.stallArm = d.stallArm
        /\ c.stage = "SOUT"
    BY DEF Device
  <2>4. e = Arm(c, 1, 0)
    BY <1>3 DEF NextPacket
  <2>. HIDE DEF c
  <2>5. /\ e \in Device /\ e.b[1] = [st |-> "armed", len |-> 0, pid |-> c.pid[1]]
        /\ e.pid[1] = 1 - c.pid[1] /\ \A j \in EP \ {1} : e.b[j] = c.b[j] /\ e.pid[j] = c.pid[j]
        /\ e.done = c.done /\ FixedSame(c, e) /\ StageSame(c, e) /\ BulkKept(c, e)
    BY <1>1, <2>1, <2>4, ArmIs
  <2>6. BulkKept(d, e) /\ FixedSame(d, e)
    BY <2>1, <2>2, <2>5 DEF BulkKept, BulkSame, StreamSame, FixedSame
  <2>7. e.b[0] = d.b[0] /\ e.pid[0] = d.pid[0]
    BY <1>1, <2>1, <2>5
  <2> QED
    BY <1>3, <2>1, <2>3, <2>5, <2>6, <2>7 DEF StageSame
<1> QED
  BY <1>2, <1>3

\* send(): the first packet of a reply of n bytes.
SendDone(d, n, e) ==
  /\ e \in Device /\ BulkKept(d, e) /\ FixedSame(d, e) /\ e.done = d.done
  /\ e.setaddr = d.setaddr /\ e.devAddr = d.devAddr /\ e.stallArm = d.stallArm
  /\ \E c \in Device :
       /\ e = NextPacket(c) /\ c.b = d.b /\ c.pid = d.pid /\ c.stage = "READ"
       /\ c.left = Lesser(n, d.limit) /\ (c.zlp <=> n < d.limit /\ n % PKT = 0)

LEMMA SendIs ==
  ASSUME NEW d \in Device, NEW n \in Nat
  PROVE  SendDone(d, n, Send(d, n))
<1> DEFINE e == Send(d, n)
<1> DEFINE c == [d EXCEPT !.left = Lesser(n, d.limit), !.zlp = n < d.limit /\ n % PKT = 0,
                          !.stage = "READ"]
<1>1. d.limit \in Nat /\ Lesser(n, d.limit) \in Nat
  BY DeviceFields, LesserIs
<1>2. c \in Device
  BY <1>1 DEF Device
<1>3. c.b = d.b /\ c.pid = d.pid /\ c.done = d.done /\ c.busy = d.busy /\ c.stage = "READ"
      /\ c.left = Lesser(n, d.limit)
  BY DEF Device
<1>4. c.zlp <=> n < d.limit /\ n % PKT = 0
  BY DEF Device
<1>5. c.setaddr = d.setaddr /\ c.devAddr = d.devAddr /\ c.stallArm = d.stallArm
  BY DEF Device
<1>6. FixedSame(d, c) /\ StreamSame(d, c)
  BY DEF Device, FixedSame, StreamSame
<1>7. e = NextPacket(c)
  BY DEF Send
<1>. HIDE DEF c, e
<1>8. /\ e \in Device /\ BulkKept(c, e) /\ FixedSame(c, e) /\ e.done = c.done
      /\ e.setaddr = c.setaddr /\ e.devAddr = c.devAddr /\ e.stallArm = c.stallArm
  BY <1>2, <1>7, NextIs
<1>9. BulkKept(d, e) /\ FixedSame(d, e)
  BY <1>3, <1>6, <1>8 DEF BulkKept, BulkSame, StreamSame, FixedSame
<1>10. e = NextPacket(c) /\ c.b = d.b /\ c.pid = d.pid /\ c.stage = "READ"
       /\ c.left = Lesser(n, d.limit) /\ (c.zlp <=> n < d.limit /\ n % PKT = 0)
  BY <1>3, <1>4, <1>7
<1> QED
  BY <1>2, <1>3, <1>5, <1>8, <1>9, <1>10 DEF SendDone, e

LEMMA IdleIs ==
  ASSUME NEW d \in Device, NEW e, e = [d EXCEPT !.stage = "IDLE"]
  PROVE  /\ e \in Device /\ BulkKept(d, e) /\ FixedSame(d, e)
         /\ e.b = d.b /\ e.pid = d.pid /\ e.done = d.done /\ e.stage = "IDLE"
         /\ e.setaddr = d.setaddr /\ e.devAddr = d.devAddr /\ e.stallArm = d.stallArm
<1>1. e \in Device /\ e.b = d.b /\ e.pid = d.pid /\ e.done = d.done /\ e.busy = d.busy
  BY DEF Device
<1>2. FixedSame(d, e) /\ StreamSame(d, e)
  BY DEF Device, FixedSame, StreamSame
<1>3. /\ e.setaddr = d.setaddr /\ e.devAddr = d.devAddr /\ e.stallArm = d.stallArm
      /\ e.stage = "IDLE"
  BY DEF Device
<1> QED
  BY <1>1, <1>2, <1>3 DEF BulkKept, BulkSame

LEMMA AddressedIs ==
  ASSUME NEW d \in Device,
         NEW e, e = [d EXCEPT !.devAddr = d.addr, !.setaddr = FALSE, !.stage = "IDLE"]
  PROVE  /\ e \in Device /\ BulkKept(d, e) /\ FixedSame(d, e)
         /\ e.b = d.b /\ e.pid = d.pid /\ e.done = d.done /\ e.stage = "IDLE"
         /\ ~ e.setaddr /\ e.devAddr = d.addr /\ e.stallArm = d.stallArm
<1>1. e \in Device /\ e.b = d.b /\ e.pid = d.pid /\ e.done = d.done /\ e.busy = d.busy
  BY DEF Device
<1>2. FixedSame(d, e) /\ StreamSame(d, e)
  BY DEF Device, FixedSame, StreamSame
<1>3. /\ ~ e.setaddr /\ e.devAddr = d.addr /\ e.stallArm = d.stallArm /\ e.stage = "IDLE"
  BY DEF Device
<1> QED
  BY <1>1, <1>2, <1>3 DEF BulkKept, BulkSame

\* The completions of endpoint 0 leave the other endpoints alone.
LEMMA ControlInKeeps ==
  ASSUME NEW d \in Device
  PROVE  ControlIn(d) \in Device /\ BulkKept(d, ControlIn(d)) /\ FixedSame(d, ControlIn(d))
         /\ ControlIn(d).done = d.done
<1>1. CASE d.setaddr
  <2>1. ControlIn(d) = [d EXCEPT !.devAddr = d.addr, !.setaddr = FALSE, !.stage = "IDLE"]
    BY <1>1 DEF ControlIn
  <2> QED
    BY <2>1, AddressedIs
<1>2. CASE ~ d.setaddr /\ d.stage = "READ"
  <2>1. ControlIn(d) = NextPacket(d)
    BY <1>2 DEF ControlIn
  <2> QED
    BY <2>1, NextIs
<1>3. CASE ~ d.setaddr /\ d.stage # "READ"
  <2>1. ControlIn(d) = [d EXCEPT !.stage = "IDLE"]
    BY <1>3 DEF ControlIn
  <2> QED
    BY <2>1, IdleIs
<1> QED
  BY <1>1, <1>2, <1>3

LEMMA ControlOutKeeps ==
  ASSUME NEW d \in Device
  PROVE  ControlOut(d) \in Device /\ BulkKept(d, ControlOut(d)) /\ FixedSame(d, ControlOut(d))
         /\ ControlOut(d).done = d.done
<1>1. CASE d.stage = "LINE" /\ d.b[1].len = d.limit
  <2>1. ControlOut(d) = Ack(d)
    BY <1>1 DEF ControlOut
  <2> QED
    BY <2>1, AckIs
<1>2. CASE ~ (d.stage = "LINE" /\ d.b[1].len = d.limit) /\ d.stage = "SOUT"
  <2>1. ControlOut(d) = [d EXCEPT !.stage = "IDLE"]
    BY <1>2 DEF ControlOut
  <2> QED
    BY <2>1, IdleIs
<1>3. CASE ~ (d.stage = "LINE" /\ d.b[1].len = d.limit) /\ d.stage # "SOUT"
  <2>1. ControlOut(d) = StallControl(d)
    BY <1>3 DEF ControlOut
  <2> QED
    BY <2>1, StallIs
<1> QED
  BY <1>1, <1>2, <1>3

-----------------------------------------------------------------------------
\* The same for the other endpoints.

LEMMA ForgetIs ==
  ASSUME NEW d \in Device, NEW e, e = ForgetRx(d)
  PROVE  /\ e \in Device /\ CtlSame(d, e) /\ BulkSame(d, e)
         /\ e.b = d.b /\ e.pid = d.pid /\ e.done = d.done /\ e.busy = d.busy
         /\ e.rxlen = 0 /\ e.rxpos = 0 /\ e.notify = d.notify /\ e.txzlp = d.txzlp
<1>1. e \in Device
  <2>1. 0 \in 0 .. PKT
    BY UsbTaskAssumption
  <2> QED
    BY <2>1, ZenonT(40) DEF Device, ForgetRx
<1>2. e.b = d.b /\ e.pid = d.pid /\ e.done = d.done /\ e.busy = d.busy
  BY DEF Device, ForgetRx
<1>3. FixedSame(d, e)
  BY DEF Device, ForgetRx, FixedSame
<1>4. StageSame(d, e)
  BY DEF Device, ForgetRx, StageSame
<1>5. e.rxlen = 0 /\ e.rxpos = 0 /\ e.notify = d.notify /\ e.txzlp = d.txzlp
  BY DEF Device, ForgetRx
<1> QED
  BY <1>1, <1>2, <1>3, <1>4, <1>5 DEF CtlSame, Ep0Same, BulkSame

\* cancel() of ks.
LEMMA CancelIs ==
  ASSUME NEW d \in Device, NEW ks \in SUBSET Bulk, NEW e, e = Cancel(d, ks)
  PROVE  /\ e \in Device /\ CtlSame(d, e) /\ StreamSame(d, e) /\ e.pid = d.pid
         /\ e.done = d.done \ ks /\ e.busy = d.busy \ ks
         /\ e.b = [k \in EP |-> IF k \in ks THEN Cleared ELSE d.b[k]]
<1>1. d.b \in [EP -> Buffer] /\ Cleared \in Buffer
  BY UsbTaskAssumption DEF Device, Buffer, Cleared
<1>2. e.b = [k \in EP |-> IF k \in ks THEN Cleared ELSE d.b[k]]
  BY DEF Device, Cancel
<1>3. e.done = d.done \ ks /\ e.busy = d.busy \ ks /\ e.pid = d.pid
  BY DEF Device, Cancel
<1>4. FixedSame(d, e)
  BY DEF Device, Cancel, FixedSame
<1>5. StageSame(d, e)
  BY DEF Device, Cancel, StageSame
<1>6. StreamSame(d, e)
  BY DEF Device, Cancel, StreamSame
<1>7. e.b \in [EP -> Buffer] /\ e.done \in SUBSET EP /\ e.busy \in SUBSET EP
  BY <1>1, <1>2, <1>3, DeviceFields
<1>8. e \in Device
  BY <1>7 DEF Device, Cancel
<1>9. Ep0Same(d, e)
  BY <1>1, <1>2, <1>3 DEF Ep0Same, EP, Bulk
<1> QED
  BY <1>2, <1>3, <1>4, <1>5, <1>6, <1>8, <1>9 DEF CtlSame

\* All endpoints but 0 are switched off.
LEMMA EpsOffIs ==
  ASSUME NEW d \in Device, NEW on \in BOOLEAN,
         NEW e, e = [ForgetRx(d) EXCEPT
                !.b = [k \in EP |-> IF k \in Bulk THEN Cleared ELSE @[k]],
                !.pid = [k \in EP |-> IF k \in Bulk THEN 0 ELSE @[k]],
                !.busy = @ \ Bulk, !.txzlp = FALSE, !.notify = on]
  PROVE  /\ e \in Device /\ CtlSame(d, e) /\ e.done = d.done /\ e.busy = d.busy \ Bulk
         /\ \A k \in Bulk : e.b[k] = Cleared /\ e.pid[k] = 0
         /\ e.rxlen = 0 /\ e.rxpos = 0 /\ ~ e.txzlp
<1> DEFINE c == ForgetRx(d)
<1>1. /\ c \in Device /\ CtlSame(d, c)
      /\ c.b = d.b /\ c.pid = d.pid /\ c.done = d.done /\ c.busy = d.busy
      /\ c.rxlen = 0 /\ c.rxpos = 0
  BY ForgetIs
<1>2. e = [c EXCEPT !.b = [k \in EP |-> IF k \in Bulk THEN Cleared ELSE @[k]],
                    !.pid = [k \in EP |-> IF k \in Bulk THEN 0 ELSE @[k]],
                    !.busy = @ \ Bulk, !.txzlp = FALSE, !.notify = on]
  OBVIOUS
<1>. HIDE DEF c
<1>3. /\ c.b \in [EP -> Buffer] /\ Cleared \in Buffer /\ c.pid \in [EP -> {0, 1}]
      /\ c.busy \in SUBSET EP
  BY <1>1, UsbTaskAssumption DEF Device, Buffer, Cleared
<1>4. e.b = [k \in EP |-> IF k \in Bulk THEN Cleared ELSE c.b[k]]
  BY <1>1, <1>2, ZenonT(40) DEF Device
<1>5. e.pid = [k \in EP |-> IF k \in Bulk THEN 0 ELSE c.pid[k]]
  BY <1>1, <1>2 DEF Device
<1>6. /\ e.busy = c.busy \ Bulk /\ e.done = c.done /\ ~ e.txzlp /\ e.rxlen = c.rxlen
      /\ e.rxpos = c.rxpos
  BY <1>1, <1>2 DEF Device
<1>7. FixedSame(c, e)
  BY <1>1, <1>2 DEF Device, FixedSame
<1>8. StageSame(c, e)
  BY <1>1, <1>2, ZenonT(40) DEF Device, StageSame
<1>9. /\ e.b \in [EP -> Buffer] /\ e.pid \in [EP -> {0, 1}] /\ e.busy \in SUBSET EP
      /\ e.done \in SUBSET EP
  BY <1>1, <1>3, <1>4, <1>5, <1>6, DeviceFields
<1>10. e \in Device
  BY <1>1, <1>2, <1>9, ZenonT(40) DEF Device
<1>11. Ep0Same(c, e) /\ \A k \in Bulk : e.b[k] = Cleared /\ e.pid[k] = 0
  BY <1>3, <1>4, <1>5, <1>6 DEF Ep0Same, EP, Bulk
<1>12. CtlSame(d, e)
  BY <1>1, <1>7, <1>8, <1>11 DEF CtlSame, Ep0Same, FixedSame, StageSame
<1> QED
  BY <1>1, <1>6, <1>10, <1>11, <1>12

\* The buffer of endpoint k, when it is armed, and the next one otherwise,
\* have toggle t.
Agrees(d, k, t) ==
  IF d.b[k].st = "armed" THEN d.b[k].pid = t /\ d.pid[k] = 1 - t ELSE d.pid[k] = t

\* From d to e the endpoints of ks start again, and the others stay as they are.
Restarted(d, e, ks) ==
  /\ \A k \in ks : /\ Agrees(e, k, 0) /\ (k # 5 => e.b[k].st # "armed")
                   /\ k \in e.done => k \in d.done
  /\ \A k \in Bulk \ ks : /\ e.b[k] = d.b[k] /\ e.pid[k] = d.pid[k]
                          /\ k \in e.done <=> k \in d.done
                          /\ k \in e.busy <=> k \in d.busy
  /\ IF 5 \in ks THEN e.rxlen = 0 /\ e.rxpos = 0
     ELSE e.rxlen = d.rxlen /\ e.rxpos = d.rxpos
  /\ 4 \notin ks => e.txzlp = d.txzlp

\* From d, where endpoint 5 has been stopped, the next packet is let in.
LEMMA OpenIs ==
  ASSUME NEW d \in Device, NEW c \in Device, NEW ks \in SUBSET Bulk, 5 \in ks,
         CtlSame(d, c), Restarted(d, c, ks), c.b[5].st # "armed"
  PROVE  /\ Arm(c, 5, PKT) \in Device /\ CtlSame(d, Arm(c, 5, PKT))
         /\ Restarted(d, Arm(c, 5, PKT), ks)
<1> DEFINE e == Arm(c, 5, PKT)
<1>1. 5 \in EP /\ 5 \in Bulk /\ PKT \in 0 .. PKT /\ Bulk \subseteq EP
  BY UsbTaskAssumption DEF EP, Bulk
<1>2. /\ e \in Device /\ CtlSame(c, e) /\ StreamSame(c, e)
      /\ e.b[5] = [st |-> "armed", len |-> PKT, pid |-> c.pid[5]] /\ e.pid[5] = 1 - c.pid[5]
      /\ \A j \in EP \ {5} : e.b[j] = c.b[j] /\ e.pid[j] = c.pid[j]
      /\ e.busy = c.busy \cup {5} /\ e.done = c.done
  BY <1>1, ArmIs
<1>. HIDE DEF e
<1>3. CtlSame(d, e)
  BY <1>2 DEF CtlSame, Ep0Same, FixedSame, StageSame
<1>4. c.pid[5] = 0
  BY DEF Restarted, Agrees
<1>5. Agrees(e, 5, 0)
  BY <1>2, <1>4 DEF Agrees
<1>6. \A k \in ks \ {5} : Agrees(e, k, 0) /\ e.b[k].st # "armed"
  BY <1>1, <1>2 DEF Restarted, Agrees
<1>7. Restarted(d, e, ks)
  BY <1>1, <1>2, <1>5, <1>6 DEF Restarted, StreamSame
<1> QED
  BY <1>2, <1>3, <1>7 DEF e

LEMMA EpsIs ==
  ASSUME NEW d \in Device, NEW on \in BOOLEAN, NEW e, e = Eps(d, on)
  PROVE  /\ e \in Device /\ CtlSame(d, e) /\ Restarted(d, e, Bulk)
         /\ on \/ e.b[5].st # "armed"
<1> DEFINE c == [ForgetRx(d) EXCEPT
                !.b = [k \in EP |-> IF k \in Bulk THEN Cleared ELSE @[k]],
                !.pid = [k \in EP |-> IF k \in Bulk THEN 0 ELSE @[k]],
                !.busy = @ \ Bulk, !.txzlp = FALSE, !.notify = on]
<1>1. /\ c \in Device /\ CtlSame(d, c) /\ c.done = d.done /\ c.busy = d.busy \ Bulk
      /\ \A k \in Bulk : c.b[k] = Cleared /\ c.pid[k] = 0
      /\ c.rxlen = 0 /\ c.rxpos = 0 /\ ~ c.txzlp
  BY EpsOffIs, ZenonT(40)
<1>2. e = IF on THEN Arm(c, 5, PKT) ELSE c
  BY DEF Eps
<1>. HIDE DEF c
<1>3. 5 \in Bulk /\ 4 \in Bulk /\ Cleared.st # "armed"
  BY DEF Bulk, Cleared
<1>4. \A k \in Bulk : Agrees(c, k, 0) /\ c.b[k].st # "armed"
  BY <1>1, <1>3 DEF Agrees
<1>5. Restarted(d, c, Bulk)
  BY <1>1, <1>3, <1>4 DEF Restarted
<1> QED
  BY <1>1, <1>2, <1>3, <1>4, <1>5, OpenIs

LEMMA IResetIs ==
  ASSUME NEW d \in Device, NEW x, NEW e, e = IReset(d, x)
  PROVE  /\ e \in Device /\ CtlSame(d, e)
         /\ Restarted(d, e, IF x = 1 THEN {4, 5} ELSE {2})
<1>0. {4, 5} \in SUBSET Bulk /\ {2} \in SUBSET Bulk /\ Bulk \subseteq EP /\ Cleared.st # "armed"
  BY DEF Bulk, EP, Cleared
<1>1. CASE x = 1
  <2> DEFINE a == Cancel(d, {4, 5})
             f == ForgetRx(a)
             c == [f EXCEPT !.pid[4] = 0, !.pid[5] = 0, !.txzlp = FALSE]
  <2>1. /\ a \in Device /\ CtlSame(d, a) /\ a.pid = d.pid
        /\ a.done = d.done \ {4, 5} /\ a.busy = d.busy \ {4, 5}
        /\ a.b = [k \in EP |-> IF k \in {4, 5} THEN Cleared ELSE d.b[k]]
    BY <1>0, CancelIs
  <2>2. /\ f \in Device /\ CtlSame(a, f) /\ f.b = a.b /\ f.pid = a.pid /\ f.done = a.done
        /\ f.busy = a.busy /\ f.rxlen = 0 /\ f.rxpos = 0
    BY <2>1, ForgetIs
  <2>3. e = Arm(c, 5, PKT)
    BY <1>1 DEF IReset
  <2>. HIDE DEF f
  <2>4. c.pid = [[f.pid EXCEPT ![4] = 0] EXCEPT ![5] = 0] /\ f.pid \in [EP -> {0, 1}]
    BY <2>2 DEF Device
  <2>5. c.pid \in [EP -> {0, 1}] /\ c.pid[4] = 0 /\ c.pid[5] = 0
        /\ \A k \in EP \ {4, 5} : c.pid[k] = f.pid[k]
    BY <2>4 DEF EP
  <2>6. c \in Device
    BY <2>2, <2>5 DEF Device
  <2>7. /\ c.b = f.b /\ c.done = f.done /\ c.busy = f.busy /\ c.rxlen = f.rxlen
        /\ c.rxpos = f.rxpos
    BY <2>2 DEF Device
  <2>8. FixedSame(f, c)
    BY <2>2 DEF Device, FixedSame
  <2>9. StageSame(f, c)
    BY <2>2 DEF Device, StageSame
  <2>. HIDE DEF c, a
  <2>10. CtlSame(f, c)
    BY <2>5, <2>7, <2>8, <2>9 DEF CtlSame, Ep0Same, EP
  <2>11. CtlSame(d, c)
    BY <2>1, <2>2, <2>10 DEF CtlSame, Ep0Same, FixedSame, StageSame
  <2>12. c.b[4] = Cleared /\ c.b[5] = Cleared /\ c.b[2] = d.b[2] /\ c.pid[2] = d.pid[2]
    BY <2>1, <2>2, <2>5, <2>7 DEF EP
  <2>13. /\ 4 \notin c.done /\ 5 \notin c.done /\ (2 \in c.done <=> 2 \in d.done)
         /\ 2 \in c.busy <=> 2 \in d.busy
    BY <2>1, <2>2, <2>7
  <2>14. Restarted(d, c, {4, 5}) /\ c.b[5].st # "armed"
    BY <1>0, <2>2, <2>5, <2>7, <2>12, <2>13 DEF Restarted, Agrees, Bulk
  <2> QED
    BY <1>0, <1>1, <2>3, <2>6, <2>11, <2>14, OpenIs
<1>2. CASE x # 1
  <2> DEFINE a == Cancel(d, {2})
  <2>1. /\ a \in Device /\ CtlSame(d, a) /\ StreamSame(d, a) /\ a.pid = d.pid
        /\ a.done = d.done \ {2} /\ a.busy = d.busy \ {2}
        /\ a.b = [k \in EP |-> IF k \in {2} THEN Cleared ELSE d.b[k]]
    BY <1>0, CancelIs
  <2>2. e = [a EXCEPT !.pid[2] = 0, !.notify = TRUE]
    BY <1>2 DEF IReset
  <2>. HIDE DEF a
  <2>3. e.pid = [a.pid EXCEPT ![2] = 0] /\ a.pid \in [EP -> {0, 1}]
    BY <2>1, <2>2 DEF Device
  <2>4. e.pid \in [EP -> {0, 1}] /\ e.pid[2] = 0 /\ \A k \in EP \ {2} : e.pid[k] = a.pid[k]
    BY <2>3 DEF EP
  <2>5. e \in Device
    BY <2>1, <2>2, <2>4, ZenonT(40) DEF Device
  <2>6. /\ e.b = a.b /\ e.done = a.done /\ e.busy = a.busy /\ e.rxlen = a.rxlen
        /\ e.rxpos = a.rxpos /\ e.txzlp = a.txzlp
    BY <2>1, <2>2 DEF Device
  <2>7. FixedSame(a, e)
    BY <2>1, <2>2 DEF Device, FixedSame
  <2>8. StageSame(a, e)
    BY <2>1, <2>2 DEF Device, StageSame
  <2>9. CtlSame(d, e)
    BY <2>1, <2>4, <2>6, <2>7, <2>8 DEF CtlSame, Ep0Same, FixedSame, StageSame, EP
  <2>10. e.b[2] = Cleared /\ \A k \in {4, 5} : e.b[k] = d.b[k] /\ e.pid[k] = d.pid[k]
    BY <2>1, <2>4, <2>6 DEF EP
  <2>11. Restarted(d, e, {2})
    BY <1>0, <2>1, <2>4, <2>6, <2>10 DEF Restarted, Agrees, Bulk, StreamSame
  <2> QED
    BY <1>2, <2>5, <2>9, <2>11
<1> QED
  BY <1>1, <1>2

LEMMA HaltIs ==
  ASSUME NEW d \in Device, NEW k \in Bulk, NEW set \in BOOLEAN, NEW e, e = Halt(d, k, set)
  PROVE  e \in Device /\ CtlSame(d, e) /\ Restarted(d, e, {k})
<1> DEFINE a == Cancel(d, {k})
           c == [a EXCEPT !.pid[k] = 0, !.txzlp = @ /\ k # 4]
           f == IF k = 5 THEN ForgetRx(c) ELSE c
<1>0. /\ {k} \in SUBSET Bulk /\ k \in EP /\ Bulk \subseteq EP /\ {0, 1} \subseteq EP
      /\ 0 \notin Bulk /\ 1 \notin Bulk
      /\ Cleared.st # "armed" /\ Stalled.st # "armed" /\ Stalled \in Buffer
  BY UsbTaskAssumption DEF Bulk, EP, Cleared, Stalled, Buffer
<1>1. /\ a \in Device /\ CtlSame(d, a) /\ StreamSame(d, a) /\ a.pid = d.pid
      /\ a.done = d.done \ {k} /\ a.busy = d.busy \ {k}
      /\ a.b = [j \in EP |-> IF j \in {k} THEN Cleared ELSE d.b[j]]
  BY <1>0, CancelIs
<1>2. e = IF set THEN [f EXCEPT !.b[k] = Stalled]
          ELSE IF k = 5 THEN Arm(f, 5, PKT)
          ELSE [f EXCEPT !.notify = @ \/ k = 2]
  BY DEF Halt
<1>3. c = [a EXCEPT !.pid[k] = 0, !.txzlp = @ /\ k # 4]
  OBVIOUS
<1>4. f = IF k = 5 THEN ForgetRx(c) ELSE c
  OBVIOUS
<1>. HIDE DEF a, c, f
<1>5. /\ c \in Device /\ CtlSame(d, c) /\ c.b[k] = Cleared /\ c.pid[k] = 0
      /\ \A j \in EP \ {k} : c.b[j] = d.b[j] /\ c.pid[j] = d.pid[j]
      /\ c.done = d.done \ {k} /\ c.busy = d.busy \ {k}
      /\ c.rxlen = d.rxlen /\ c.rxpos = d.rxpos /\ (k # 4 => c.txzlp = d.txzlp)
  <2>1. c.pid = [a.pid EXCEPT ![k] = 0] /\ a.pid \in [EP -> {0, 1}] /\ a.txzlp \in BOOLEAN
    BY <1>1, <1>3 DEF Device
  <2>2. c.pid \in [EP -> {0, 1}] /\ c.pid[k] = 0 /\ \A j \in EP \ {k} : c.pid[j] = a.pid[j]
    BY <1>0, <2>1
  <2>3. c \in Device
    BY <1>1, <1>3, <2>1, <2>2, ZenonT(40) DEF Device
  <2>4. /\ c.b = a.b /\ c.done = a.done /\ c.busy = a.busy /\ c.rxlen = a.rxlen
        /\ c.rxpos = a.rxpos
    BY <1>1, <1>3 DEF Device
  <2>5. k # 4 => c.txzlp = a.txzlp
    <3>1. c.txzlp = (a.txzlp /\ k # 4)
      BY <1>1, <1>3 DEF Device
    <3> QED
      BY <2>1, <3>1, Zenon
  <2>6. FixedSame(a, c)
    BY <1>1, <1>3 DEF Device, FixedSame
  <2>7. StageSame(a, c)
    BY <1>1, <1>3 DEF Device, StageSame
  <2>8. CtlSame(d, c)
    BY <1>0, <1>1, <2>2, <2>4, <2>6, <2>7 DEF CtlSame, Ep0Same, FixedSame, StageSame
  <2> QED
    BY <1>0, <1>1, <2>2, <2>3, <2>4, <2>5, <2>8 DEF StreamSame
<1>6. /\ f \in Device /\ CtlSame(d, f) /\ f.b[k] = Cleared /\ f.pid[k] = 0
      /\ \A j \in EP \ {k} : f.b[j] = d.b[j] /\ f.pid[j] = d.pid[j]
      /\ f.done = d.done \ {k} /\ f.busy = d.busy \ {k} /\ (k # 4 => f.txzlp = d.txzlp)
      /\ IF k = 5 THEN f.rxlen = 0 /\ f.rxpos = 0
         ELSE f.rxlen = d.rxlen /\ f.rxpos = d.rxpos
  <2>1. CASE k = 5
    <3>1. /\ f \in Device /\ CtlSame(c, f) /\ f.b = c.b /\ f.pid = c.pid /\ f.done = c.done
          /\ f.busy = c.busy /\ f.rxlen = 0 /\ f.rxpos = 0 /\ f.txzlp = c.txzlp
      BY <1>4, <1>5, <2>1, ForgetIs
    <3>2. CtlSame(d, f)
      BY <1>5, <3>1 DEF CtlSame, Ep0Same, FixedSame, StageSame
    <3> QED
      BY <1>5, <2>1, <3>1, <3>2
  <2>2. CASE k # 5
    BY <1>4, <1>5, <2>2
  <2> QED
    BY <2>1, <2>2
<1>7. Restarted(d, f, {k}) /\ f.b[k].st # "armed"
  <2>1. \A j \in Bulk \ {k} : /\ f.b[j] = d.b[j] /\ f.pid[j] = d.pid[j]
                              /\ j \in f.done <=> j \in d.done
                              /\ j \in f.busy <=> j \in d.busy
    BY <1>0, <1>6
  <2>2. f.b[k].st # "armed" /\ Agrees(f, k, 0)
    BY <1>0, <1>6 DEF Agrees
  <2>3. 4 \notin {k} => f.txzlp = d.txzlp
    BY <1>6
  <2> QED
    BY <1>6, <2>1, <2>2, <2>3 DEF Restarted
<1>8. CASE set
  <2>1. e = [f EXCEPT !.b[k] = Stalled]
    BY <1>2, <1>8
  <2>2. e.b = [f.b EXCEPT ![k] = Stalled] /\ f.b \in [EP -> Buffer]
    BY <1>6, <2>1 DEF Device
  <2>3. e.b \in [EP -> Buffer] /\ e.b[k] = Stalled /\ \A j \in EP \ {k} : e.b[j] = f.b[j]
    BY <1>0, <2>2
  <2>4. e \in Device
    BY <1>6, <2>1, <2>3 DEF Device
  <2>5. /\ e.pid = f.pid /\ e.done = f.done /\ e.busy = f.busy /\ e.rxlen = f.rxlen
        /\ e.rxpos = f.rxpos /\ e.txzlp = f.txzlp
    BY <1>6, <2>1 DEF Device
  <2>6. FixedSame(f, e)
    BY <1>6, <2>1 DEF Device, FixedSame
  <2>7. StageSame(f, e)
    BY <1>6, <2>1 DEF Device, StageSame
  <2>8. CtlSame(d, e)
    BY <1>0, <1>6, <2>3, <2>5, <2>6, <2>7 DEF CtlSame, Ep0Same, FixedSame, StageSame
  <2>9. \A j \in Bulk \ {k} : /\ e.b[j] = d.b[j] /\ e.pid[j] = d.pid[j]
                              /\ j \in e.done <=> j \in d.done
                              /\ j \in e.busy <=> j \in d.busy
    BY <1>0, <1>6, <2>3, <2>5
  <2>10. e.b[k].st # "armed" /\ Agrees(e, k, 0) /\ k \notin e.done
    BY <1>0, <1>6, <2>3, <2>5 DEF Agrees
  <2>11. 4 \notin {k} => e.txzlp = d.txzlp
    BY <1>6, <2>5
  <2>12. Restarted(d, e, {k})
    BY <1>6, <2>5, <2>9, <2>10, <2>11 DEF Restarted
  <2> QED
    BY <2>4, <2>8, <2>12
<1>9. CASE ~ set /\ k = 5
  BY <1>0, <1>2, <1>6, <1>7, <1>9, OpenIs
<1>10. CASE ~ set /\ k # 5
  <2>1. e = [f EXCEPT !.notify = @ \/ k = 2]
    BY <1>2, <1>10
  <2>2. e \in Device
    BY <1>6, <2>1, ZenonT(40) DEF Device
  <2>3. /\ e.b = f.b /\ e.pid = f.pid /\ e.done = f.done /\ e.busy = f.busy
        /\ e.rxlen = f.rxlen /\ e.rxpos = f.rxpos /\ e.txzlp = f.txzlp
    BY <1>6, <2>1 DEF Device
  <2>4. FixedSame(f, e)
    BY <1>6, <2>1 DEF Device, FixedSame
  <2>5. StageSame(f, e)
    BY <1>6, <2>1 DEF Device, StageSame
  <2>6. CtlSame(d, e)
    BY <1>6, <2>3, <2>4, <2>5 DEF CtlSame, Ep0Same, FixedSame, StageSame
  <2>7. Restarted(d, e, {k})
    BY <1>7, <2>3 DEF Restarted, Agrees
  <2> QED
    BY <2>2, <2>6, <2>7
<1> QED
  BY <1>8, <1>9, <1>10

\* Only endpoint 5 and what has been taken of its packet differ.
OnlyRx(d, e) ==
  /\ CtlSame(d, e) /\ e.done = d.done /\ e.notify = d.notify /\ e.txzlp = d.txzlp
  /\ \A k \in {2, 4} : e.b[k] = d.b[k] /\ e.pid[k] = d.pid[k] /\ (k \in e.busy <=> k \in d.busy)

\* Endpoint 5 is as it was, or has been armed again.
Kept5(d, e) == e.b[5] = d.b[5] /\ e.pid[5] = d.pid[5]
Armed5(d, e) ==
  e.b[5] = [st |-> "armed", len |-> PKT, pid |-> d.pid[5]] /\ e.pid[5] = 1 - d.pid[5]

LEMMA Arm5Is ==
  ASSUME NEW d \in Device, NEW e, e = Arm(d, 5, PKT)
  PROVE  /\ e \in Device /\ OnlyRx(d, e) /\ Armed5(d, e)
         /\ e.rxlen = d.rxlen /\ e.rxpos = d.rxpos
<1>1. 5 \in EP /\ 5 \in Bulk /\ PKT \in 0 .. PKT /\ {2, 4} \subseteq EP \ {5}
  BY UsbTaskAssumption DEF EP, Bulk
<1>2. /\ e \in Device /\ CtlSame(d, e) /\ StreamSame(d, e)
      /\ e.b[5] = [st |-> "armed", len |-> PKT, pid |-> d.pid[5]] /\ e.pid[5] = 1 - d.pid[5]
      /\ \A j \in EP \ {5} : e.b[j] = d.b[j] /\ e.pid[j] = d.pid[j]
      /\ e.busy = d.busy \cup {5} /\ e.done = d.done
  BY <1>1, ArmIs
<1> QED
  BY <1>1, <1>2 DEF OnlyRx, Armed5, StreamSame

LEMMA ReceivedIs ==
  ASSUME NEW d \in Device, NEW e, e = Received(d)
  PROVE  /\ e \in Device /\ OnlyRx(d, e) /\ e.rxpos = 0 /\ e.rxlen = d.b[5].len
         /\ IF d.b[5].len = 0 THEN Armed5(d, e) ELSE Kept5(d, e)
<1> DEFINE t == [d EXCEPT !.rxlen = d.b[5].len, !.rxpos = 0]
<1>1. d.b[5].len \in 0 .. PKT /\ 0 \in 0 .. PKT
  BY UsbTaskAssumption DEF Device, Buffer, EP
<1>2. t \in Device
  BY <1>1 DEF Device
<1>3. /\ t.b = d.b /\ t.pid = d.pid /\ t.done = d.done /\ t.busy = d.busy
      /\ t.rxlen = d.b[5].len /\ t.rxpos = 0 /\ t.notify = d.notify /\ t.txzlp = d.txzlp
  BY DEF Device
<1>4. FixedSame(d, t)
  BY DEF Device, FixedSame
<1>5. StageSame(d, t)
  BY DEF Device, StageSame
<1>6. e = IF t.rxlen = 0 THEN Arm(t, 5, PKT) ELSE t
  BY DEF Received
<1>. HIDE DEF t
<1>7. OnlyRx(d, t) /\ Kept5(d, t)
  BY <1>3, <1>4, <1>5 DEF OnlyRx, CtlSame, Ep0Same, Kept5
<1>8. CASE t.rxlen = 0
  <2>1. /\ e \in Device /\ OnlyRx(t, e) /\ Armed5(t, e) /\ e.rxlen = t.rxlen
        /\ e.rxpos = t.rxpos
    BY <1>2, <1>6, <1>8, Arm5Is
  <2>2. OnlyRx(d, e) /\ Armed5(d, e)
    BY <1>7, <2>1 DEF OnlyRx, CtlSame, Ep0Same, FixedSame, StageSame, Kept5, Armed5
  <2> QED
    BY <1>3, <1>8, <2>1, <2>2
<1>9. CASE t.rxlen # 0
  BY <1>2, <1>3, <1>6, <1>7, <1>9
<1> QED
  BY <1>8, <1>9

\* n more bytes of the packet of d are copied to the ring.
Advanced(d, n) ==
  LET e == [d EXCEPT !.rxpos = @ + n]
      f == ForgetRx(e)
  IN  IF e.rxpos # e.rxlen \/ e.rxlen = 0 THEN e
      ELSE IF e.b[5].st = "stall" THEN f
      ELSE Arm(f, 5, PKT)

LEMMA AdvancedIs ==
  ASSUME NEW d \in Device, NEW n \in Nat, d.rxpos + n <= d.rxlen, NEW e, e = Advanced(d, n)
  PROVE  /\ e \in Device /\ OnlyRx(d, e)
         /\ d.rxpos + n # d.rxlen \/ d.rxlen = 0 =>
              Kept5(d, e) /\ e.rxlen = d.rxlen /\ e.rxpos = d.rxpos + n
         /\ ~ (d.rxpos + n # d.rxlen \/ d.rxlen = 0) =>
              /\ IF d.b[5].st = "stall" THEN Kept5(d, e) ELSE Armed5(d, e)
              /\ e.rxlen = 0 /\ e.rxpos = 0
<1> DEFINE c == [d EXCEPT !.rxpos = @ + n]
           f == ForgetRx(c)
<1>1. d.rxpos + n \in 0 .. PKT
  BY UsbTaskAssumption, DeviceFields
<1>2. c \in Device
  BY <1>1 DEF Device
<1>3. /\ c.b = d.b /\ c.pid = d.pid /\ c.done = d.done /\ c.busy = d.busy
      /\ c.rxlen = d.rxlen /\ c.rxpos = d.rxpos + n /\ c.notify = d.notify
      /\ c.txzlp = d.txzlp
  BY DEF Device
<1>4. FixedSame(d, c)
  BY DEF Device, FixedSame
<1>5. StageSame(d, c)
  BY DEF Device, StageSame
<1>6. e = IF c.rxpos # c.rxlen \/ c.rxlen = 0 THEN c
          ELSE IF c.b[5].st = "stall" THEN f
          ELSE Arm(f, 5, PKT)
  BY DEF Advanced
<1>. HIDE DEF c
<1>7. OnlyRx(d, c) /\ Kept5(d, c)
  BY <1>3, <1>4, <1>5 DEF OnlyRx, CtlSame, Ep0Same, Kept5
<1>8. /\ f \in Device /\ CtlSame(c, f) /\ f.b = c.b /\ f.pid = c.pid /\ f.done = c.done
      /\ f.busy = c.busy /\ f.rxlen = 0 /\ f.rxpos = 0 /\ f.notify = c.notify
      /\ f.txzlp = c.txzlp
  BY <1>2, ForgetIs
<1>. HIDE DEF f
<1>9. OnlyRx(d, f) /\ Kept5(d, f)
  BY <1>7, <1>8 DEF OnlyRx, CtlSame, Ep0Same, FixedSame, StageSame, Kept5
<1>10. CASE c.rxpos # c.rxlen \/ c.rxlen = 0
  BY <1>2, <1>3, <1>6, <1>7, <1>10
<1>11. CASE ~ (c.rxpos # c.rxlen \/ c.rxlen = 0) /\ c.b[5].st = "stall"
  <2>1. e = f
    BY <1>6, <1>11
  <2> QED
    BY <1>3, <1>8, <1>9, <1>11, <2>1
<1>12. CASE ~ (c.rxpos # c.rxlen \/ c.rxlen = 0) /\ c.b[5].st # "stall"
  <2>1. e = Arm(f, 5, PKT)
    BY <1>6, <1>12
  <2>2. /\ e \in Device /\ OnlyRx(f, e) /\ Armed5(f, e) /\ e.rxlen = f.rxlen
        /\ e.rxpos = f.rxpos
    BY <1>8, <2>1, Arm5Is
  <2>3. OnlyRx(d, e) /\ Armed5(d, e)
    BY <1>9, <2>2 DEF OnlyRx, CtlSame, Ep0Same, FixedSame, StageSame, Kept5, Armed5
  <2> QED
    BY <1>3, <1>8, <1>12, <2>2, <2>3
<1> QED
  BY <1>10, <1>11, <1>12

\* Endpoint k is as it was, or a packet of n bytes has been fired.
KeptAt(d, e, k) ==
  e.b[k] = d.b[k] /\ e.pid[k] = d.pid[k] /\ (k \in e.busy <=> k \in d.busy)
Fired(d, e, k, n) ==
  /\ k \notin d.busy /\ k \in e.busy
  /\ e.b[k] = [st |-> "armed", len |-> n, pid |-> d.pid[k]] /\ e.pid[k] = 1 - d.pid[k]

\* Only what is sent differs.
OnlyTx(d, e) ==
  /\ CtlSame(d, e) /\ e.done = d.done /\ e.rxlen = d.rxlen /\ e.rxpos = d.rxpos
  /\ KeptAt(d, e, 5)

LEMMA NotifiedIs ==
  ASSUME NEW d \in Device, NEW e, e = Notified(d)
  PROVE  /\ e \in Device /\ OnlyTx(d, e) /\ KeptAt(d, e, 4) /\ e.txzlp = d.txzlp
         /\ KeptAt(d, e, 2) \/ Fired(d, e, 2, PKT)
<1>1. CASE d.notify /\ 2 \notin d.busy /\ d.b[2].st # "stall"
  <2> DEFINE a == Arm(d, 2, PKT)
  <2>1. 2 \in EP /\ 2 \in Bulk /\ PKT \in 0 .. PKT /\ {4, 5} \subseteq EP \ {2}
    BY UsbTaskAssumption DEF EP, Bulk
  <2>2. /\ a \in Device /\ CtlSame(d, a) /\ StreamSame(d, a)
        /\ a.b[2] = [st |-> "armed", len |-> PKT, pid |-> d.pid[2]] /\ a.pid[2] = 1 - d.pid[2]
        /\ \A j \in EP \ {2} : a.b[j] = d.b[j] /\ a.pid[j] = d.pid[j]
        /\ a.busy = d.busy \cup {2} /\ a.done = d.done
    BY <2>1, ArmIs
  <2>3. e = [a EXCEPT !.notify = FALSE]
    BY <1>1 DEF Notified
  <2>. HIDE DEF a
  <2>4. e \in Device /\ e.b = a.b /\ e.pid = a.pid /\ e.done = a.done /\ e.busy = a.busy
    BY <2>2, <2>3, ZenonT(40) DEF Device
  <2>5. e.rxlen = a.rxlen /\ e.rxpos = a.rxpos /\ e.txzlp = a.txzlp
    BY <2>2, <2>3 DEF Device
  <2>6. FixedSame(a, e)
    BY <2>2, <2>3 DEF Device, FixedSame
  <2>7. StageSame(a, e)
    BY <2>2, <2>3 DEF Device, StageSame
  <2>8. CtlSame(d, e)
    BY <2>2, <2>4, <2>6, <2>7 DEF CtlSame, Ep0Same, FixedSame, StageSame
  <2>9. KeptAt(d, e, 4) /\ KeptAt(d, e, 5)
    BY <2>1, <2>2, <2>4 DEF KeptAt
  <2>10. Fired(d, e, 2, PKT)
    BY <1>1, <2>2, <2>4 DEF Fired
  <2> QED
    BY <2>2, <2>4, <2>5, <2>8, <2>9, <2>10 DEF OnlyTx, StreamSame
<1>2. CASE ~ (d.notify /\ 2 \notin d.busy /\ d.b[2].st # "stall")
  <2>1. e = d
    BY <1>2 DEF Notified
  <2> QED
    BY <2>1 DEF OnlyTx, KeptAt, CtlSame, Ep0Same, FixedSame, StageSame
<1> QED
  BY <1>1, <1>2

LEMMA Arm4Is ==
  ASSUME NEW d \in Device, 4 \notin d.busy, NEW n \in 0 .. PKT, NEW e, e = Arm(d, 4, n)
  PROVE  /\ e \in Device /\ OnlyTx(d, e) /\ KeptAt(d, e, 2) /\ Fired(d, e, 4, n)
         /\ e.txzlp = d.txzlp
<1>1. 4 \in EP /\ 4 \in Bulk /\ {2, 5} \subseteq EP \ {4}
  BY DEF EP, Bulk
<1>2. /\ e \in Device /\ CtlSame(d, e) /\ StreamSame(d, e)
      /\ e.b[4] = [st |-> "armed", len |-> n, pid |-> d.pid[4]] /\ e.pid[4] = 1 - d.pid[4]
      /\ \A j \in EP \ {4} : e.b[j] = d.b[j] /\ e.pid[j] = d.pid[j]
      /\ e.busy = d.busy \cup {4} /\ e.done = d.done
  BY <1>1, ArmIs
<1> QED
  BY <1>1, <1>2 DEF OnlyTx, KeptAt, Fired, StreamSame

\* txzlp is set or cleared.
LEMMA ZlpIs ==
  ASSUME NEW d \in Device, NEW z \in BOOLEAN, NEW e, e = [d EXCEPT !.txzlp = z]
  PROVE  /\ e \in Device /\ OnlyTx(d, e) /\ KeptAt(d, e, 2) /\ KeptAt(d, e, 4)
         /\ e.b = d.b /\ e.pid = d.pid /\ e.busy = d.busy /\ e.txzlp = z
<1>1. e \in Device /\ e.b = d.b /\ e.pid = d.pid /\ e.done = d.done /\ e.busy = d.busy
  BY DEF Device
<1>2. e.rxlen = d.rxlen /\ e.rxpos = d.rxpos
  BY DEF Device
<1>3. FixedSame(d, e)
  BY DEF Device, FixedSame
<1>4. StageSame(d, e)
  BY DEF Device, StageSame
<1>5. e.txzlp = z
  BY Zenon DEF Device
<1> QED
  BY <1>1, <1>2, <1>3, <1>4, <1>5 DEF OnlyTx, KeptAt, CtlSame, Ep0Same

LEMMA SendZlpIs ==
  ASSUME NEW d \in Device, 4 \notin d.busy, NEW e, e = SendZlp(d)
  PROVE  /\ e \in Device /\ OnlyTx(d, e) /\ KeptAt(d, e, 2) /\ Fired(d, e, 4, 0) /\ ~ e.txzlp
<1> DEFINE a == Arm(d, 4, 0)
<1>1. 0 \in 0 .. PKT
  BY UsbTaskAssumption
<1>2. a \in Device /\ OnlyTx(d, a) /\ KeptAt(d, a, 2) /\ Fired(d, a, 4, 0)
  BY <1>1, Arm4Is
<1>3. e = [a EXCEPT !.txzlp = FALSE]
  BY DEF SendZlp
<1>. HIDE DEF a
<1>4. /\ e \in Device /\ OnlyTx(a, e) /\ KeptAt(a, e, 2) /\ e.b = a.b /\ e.pid = a.pid
      /\ e.busy = a.busy /\ e.txzlp = FALSE
  BY <1>2, <1>3, ZlpIs, ZenonT(40)
<1>5. OnlyTx(d, e) /\ KeptAt(d, e, 2)
  BY <1>2, <1>4 DEF OnlyTx, KeptAt, CtlSame, Ep0Same, FixedSame, StageSame
<1>6. Fired(d, e, 4, 0)
  BY <1>2, <1>4 DEF Fired
<1> QED
  BY <1>4, <1>5, <1>6

-----------------------------------------------------------------------------
\* setup()

NoDone(d) == 0 \notin d.done /\ 1 \notin d.done
Total(r) == Lesser(r.v, r.limit)
Ends(r) == r.v < r.limit /\ r.v % PKT = 0
Known(r, conf) ==
  /\ r.kind # "Unknown"
  /\ r.kind \in {"Descriptor", "SetAddress", "SetConfig"} \/ conf # 0

\* What setup() leaves of request r in e: it is refused, or answered with a
\* reply, the buffer for its data, or an acknowledgement.
Stalls(e) ==
  e.stallArm /\ e.b[0] = Stalled /\ e.b[1] = Stalled /\ e.stage = "IDLE" /\ ~ e.setaddr
Replies(d, e, r) ==
  /\ ~ e.stallArm /\ HasReply(r) /\ ~ e.setaddr
  /\ \E c \in Device :
       /\ e = NextPacket(c) /\ c.b = d.b /\ c.pid[0] = 1 /\ c.pid[1] = 1 /\ c.stage = "READ"
       /\ c.left = Total(r) /\ (c.zlp <=> Ends(r))
Takes(d, e, r) ==
  /\ ~ e.stallArm /\ r.kind = "LineCoding" /\ ~ e.setaddr
  /\ e.stage = "LINE" /\ e.b[1] = [st |-> "armed", len |-> r.limit, pid |-> 1]
  /\ e.b[0] = d.b[0] /\ e.pid[0] = 1
Acks(d, e, r) ==
  /\ ~ e.stallArm /\ ~ HasReply(r) /\ r.kind # "LineCoding"
  /\ e.stage = "SIN" /\ e.b[0] = [st |-> "armed", len |-> 0, pid |-> 1] /\ e.b[1] = d.b[1]
  /\ IF r.kind = "SetAddress" THEN e.setaddr /\ e.addr = r.v ELSE ~ e.setaddr

SetupDone(d, e, r) ==
  /\ e \in Device /\ ~ e.setupRec /\ e.busReset = d.busReset /\ e.devAddr = d.devAddr
  /\ NoDone(e) /\ e.limit = r.limit
  /\ e.conf = IF r.kind = "SetConfig" THEN r.v ELSE d.conf
  /\ \/ Stalls(e) /\ ~ Known(r, d.conf) /\ Restarted(d, e, {})
     \/ /\ Replies(d, e, r) \/ Takes(d, e, r) \/ Acks(d, e, r)
        /\ Known(r, d.conf) /\ Restarted(d, e, Touches(r))

Start(d, r) ==
  [d EXCEPT !.setupRec = FALSE, !.pid[0] = 1, !.pid[1] = 1,
            !.busy = @ \ {0, 1}, !.stage = "IDLE", !.stallArm = FALSE, !.limit = r.limit]

Started(d, c, r) ==
  /\ c \in Device /\ BulkKept(d, c)
  /\ c.b = d.b /\ c.done = d.done /\ c.pid[0] = 1 /\ c.pid[1] = 1
  /\ ~ c.setupRec /\ c.busReset = d.busReset /\ c.addr = d.addr /\ c.conf = d.conf
  /\ c.setaddr = d.setaddr /\ c.devAddr = d.devAddr /\ ~ c.stallArm /\ c.limit = r.limit

LEMMA StartIs ==
  ASSUME NEW d \in Device, NEW r \in Requests, NEW c, c = Start(d, r)
  PROVE  Started(d, c, r)
<1>1. r.limit \in Nat /\ d.pid \in [EP -> {0, 1}]
  BY DEF Requests, Device
<1>2. c.pid = [[d.pid EXCEPT ![0] = 1] EXCEPT ![1] = 1]
  BY DEF Device, Start
<1>3. c.pid \in [EP -> {0, 1}] /\ c.pid[0] = 1 /\ c.pid[1] = 1
      /\ \A k \in Bulk : c.pid[k] = d.pid[k]
  BY <1>1, <1>2 DEF EP, Bulk
<1>4. c \in Device
  BY <1>1, <1>3, ZenonT(40) DEF Device, Start
<1>5. c.b = d.b /\ c.done = d.done /\ c.busy = d.busy \ {0, 1} /\ c.limit = r.limit
  BY DEF Device, Start
<1>6. /\ c.busReset = d.busReset /\ c.addr = d.addr /\ c.conf = d.conf
      /\ c.setaddr = d.setaddr /\ c.devAddr = d.devAddr
  BY DEF Device, Start
<1>7. ~ c.setupRec /\ ~ c.stallArm
  BY DEF Device, Start
<1>8. StreamSame(d, c)
  BY DEF Device, Start, StreamSame
<1>9. BulkSame(d, c)
  BY <1>3, <1>5 DEF BulkSame, Bulk
<1> QED
  BY <1>3, <1>4, <1>5, <1>6, <1>7, <1>8, <1>9 DEF Started, BulkKept

LEMMA KeptRestarts ==
  ASSUME NEW d \in Device, NEW e \in Device, BulkKept(d, e)
  PROVE  Restarted(d, e, {})
BY DEF BulkKept, BulkSame, StreamSame, Restarted

LEMMA TouchesIs ==
  ASSUME NEW r \in Requests
  PROVE  Touches(r) \in SUBSET Bulk
BY DEF Touches, Requests, Bulk

\* From c, where setup() has begun, to f the endpoints of ks have been
\* restarted; nothing has happened to them before, or happens after.
LEMMA RestartAll ==
  ASSUME NEW d \in Device, NEW c \in Device, NEW f \in Device, NEW e \in Device,
         NEW ks \in SUBSET Bulk, BulkKept(d, c), Restarted(c, f, ks), BulkKept(f, e)
  PROVE  Restarted(d, e, ks)
<1>1. \A k \in ks : /\ Agrees(e, k, 0) /\ (k # 5 => e.b[k].st # "armed")
                    /\ k \in e.done => k \in d.done
  BY DEF BulkKept, BulkSame, Restarted, Agrees
<1>2. \A k \in Bulk \ ks : /\ e.b[k] = d.b[k] /\ e.pid[k] = d.pid[k]
                           /\ k \in e.done <=> k \in d.done
                           /\ k \in e.busy <=> k \in d.busy
  BY DEF BulkKept, BulkSame, Restarted
<1>3. IF 5 \in ks THEN e.rxlen = 0 /\ e.rxpos = 0
      ELSE e.rxlen = d.rxlen /\ e.rxpos = d.rxpos
  BY DEF BulkKept, StreamSame, Restarted
<1>4. 4 \notin ks => e.txzlp = d.txzlp
  BY DEF BulkKept, StreamSame, Restarted
<1> QED
  BY <1>1, <1>2, <1>3, <1>4 DEF Restarted

\* An acknowledgement, after the endpoints of the request have been restarted.
LEMMA AckDone ==
  ASSUME NEW d \in Device, NEW r \in Requests, NEW c, Started(d, c, r),
         NEW f \in Device, Ep0Same(c, f),
         f.limit = r.limit, f.devAddr = d.devAddr, f.busReset = d.busReset, ~ f.setupRec,
         ~ f.stallArm, f.conf = IF r.kind = "SetConfig" THEN r.v ELSE d.conf,
         IF r.kind = "SetAddress" THEN f.setaddr /\ f.addr = r.v ELSE ~ f.setaddr,
         Restarted(c, f, Touches(r)), NoDone(d), Known(r, d.conf), ~ HasReply(r),
         r.kind # "LineCoding"
  PROVE  SetupDone(d, Ack(f), r)
<1> DEFINE e == Ack(f)
<1>1. /\ e \in Device /\ BulkKept(f, e) /\ FixedSame(f, e)
      /\ e.b[0] = [st |-> "armed", len |-> 0, pid |-> f.pid[0]]
      /\ e.b[1] = f.b[1] /\ e.stage = "SIN" /\ e.done = f.done
      /\ e.setaddr = f.setaddr /\ e.devAddr = f.devAddr /\ e.stallArm = f.stallArm
  BY AckIs
<1>. HIDE DEF e
<1>2. f.pid[0] = 1 /\ f.b[1] = d.b[1] /\ NoDone(f)
  BY DEF Ep0Same, Started, NoDone
<1>3. e.limit = r.limit /\ e.addr = f.addr /\ e.conf = f.conf /\ e.busReset = d.busReset
      /\ ~ e.setupRec /\ NoDone(e)
  BY <1>1, <1>2 DEF FixedSame, NoDone
<1>4. Acks(d, e, r)
  BY <1>1, <1>2, <1>3 DEF Acks
<1>5. Restarted(d, e, Touches(r))
  BY <1>1, TouchesIs, RestartAll DEF Started
<1> QED
  BY <1>1, <1>3, <1>4, <1>5 DEF SetupDone, e

\* Nothing but endpoint 0 is restarted by a request that does not say so.
LEMMA NoTouch ==
  ASSUME NEW r \in Requests, r.kind \notin {"SetConfig", "SetInterface", "ClearHalt", "SetHalt"}
  PROVE  Touches(r) = {}
BY DEF Touches

LEMMA SetupIs ==
  ASSUME NEW d \in Device, NoDone(d), ~ d.setaddr, NEW r \in Requests
  PROVE  SetupDone(d, Setup(d, r), r)
<1> DEFINE c == Start(d, r)
           e == Setup(d, r)
<1>1. Started(d, c, r) /\ c \in Device /\ BulkKept(d, c)
  BY StartIs DEF Started
<1>2. e = CASE r.kind = "Descriptor" -> Send(c, r.v)
            [] r.kind = "SetAddress" -> Ack([c EXCEPT !.addr = r.v, !.setaddr = TRUE])
            [] r.kind = "SetConfig" -> Ack(Eps([c EXCEPT !.conf = r.v], r.v # 0))
            [] r.kind = "ClassGet" /\ c.conf # 0 -> Send(c, r.v)
            [] r.kind = "SetInterface" /\ c.conf # 0 -> Ack(IReset(c, r.v))
            [] r.kind = "ClearHalt" /\ c.conf # 0 -> Ack(Halt(c, r.v, FALSE))
            [] r.kind = "SetHalt" /\ c.conf # 0 -> Ack(Halt(c, r.v, TRUE))
            [] r.kind = "LineCoding" /\ c.conf # 0 -> Arm([c EXCEPT !.stage = "LINE"], 1, r.limit)
            [] r.kind = "ControlLine" /\ c.conf # 0 -> Ack([c EXCEPT !.notify = TRUE])
            [] OTHER -> StallControl(c)
  BY DEF Setup, Start
<1>3. c.conf = d.conf /\ r.v \in Nat /\ r.limit \in Nat
  BY <1>1 DEF Started, Requests
<1>. HIDE DEF c, e
<1>4. /\ c.b = d.b /\ c.done = d.done /\ c.pid[0] = 1 /\ c.pid[1] = 1
      /\ ~ c.setupRec /\ c.busReset = d.busReset /\ c.addr = d.addr /\ ~ c.setaddr
      /\ c.devAddr = d.devAddr /\ ~ c.stallArm /\ c.limit = r.limit
  BY <1>1 DEF Started
<1>5. CASE r.kind = "Descriptor" \/ (r.kind = "ClassGet" /\ c.conf # 0)
  <2>1. e = Send(c, r.v)
    BY <1>2, <1>5
  <2>0. SendDone(c, r.v, Send(c, r.v))
    BY <1>1, <1>3, SendIs
  <2>2. /\ e \in Device /\ BulkKept(c, e) /\ FixedSame(c, e) /\ e.done = c.done
        /\ e.setaddr = c.setaddr /\ e.devAddr = c.devAddr /\ e.stallArm = c.stallArm
    BY <2>0, <2>1 DEF SendDone
  <2>3. \E x \in Device :
              /\ e = NextPacket(x) /\ x.b = c.b /\ x.pid = c.pid /\ x.stage = "READ"
              /\ x.left = Lesser(r.v, c.limit) /\ (x.zlp <=> r.v < c.limit /\ r.v % PKT = 0)
    BY <2>0, <2>1 DEF SendDone
  <2>4. PICK x \in Device : 
              /\ e = NextPacket(x) /\ x.b = c.b /\ x.pid = c.pid /\ x.stage = "READ"
              /\ x.left = Lesser(r.v, c.limit) /\ (x.zlp <=> r.v < c.limit /\ r.v % PKT = 0)
    BY <2>3
  <2>5. e = NextPacket(x) /\ x.b = d.b /\ x.pid[0] = 1 /\ x.pid[1] = 1 /\ x.stage = "READ"
        /\ x.left = Total(r) /\ (x.zlp <=> Ends(r))
    BY <1>4, <2>4 DEF Total, Ends
  <2>6. Replies(d, e, r)
    BY <1>4, <1>5, <2>2, <2>5 DEF Replies, HasReply
  <2>7. BulkKept(c, c) /\ Restarted(c, e, {}) /\ BulkKept(e, e) /\ Touches(r) = {}
    BY <1>1, <1>5, <2>2, KeptRestarts, NoTouch DEF BulkKept, BulkSame, StreamSame
  <2>8. Restarted(d, e, Touches(r))
    BY <1>1, <2>2, <2>7, TouchesIs, RestartAll
  <2>9. /\ ~ e.setupRec /\ e.busReset = d.busReset /\ e.limit = r.limit /\ e.conf = d.conf
        /\ NoDone(e)
    BY <1>3, <1>4, <2>2 DEF FixedSame, NoDone
  <2>10. Known(r, d.conf)
    BY <1>3, <1>5 DEF Known
  <2> QED
    BY <1>4, <1>5, <2>2, <2>6, <2>8, <2>9, <2>10 DEF SetupDone, e
<1>6. CASE r.kind = "SetAddress"
  <2> DEFINE f == [c EXCEPT !.addr = r.v, !.setaddr = TRUE]
  <2>1. e = Ack(f)
    BY <1>2, <1>6
  <2>2. f \in Device
    BY <1>1, <1>3 DEF Device
  <2>3. f.b = c.b /\ f.pid = c.pid /\ f.done = c.done /\ f.busy = c.busy /\ f.conf = c.conf
    BY <1>1 DEF Device
  <2>4. f.setaddr /\ f.addr = r.v /\ f.limit = c.limit /\ f.devAddr = c.devAddr
        /\ f.busReset = c.busReset /\ f.setupRec = c.setupRec /\ f.stallArm = c.stallArm
    BY <1>1 DEF Device
  <2>5. StreamSame(c, f)
    BY <1>1 DEF Device, StreamSame
  <2>. HIDE DEF f
  <2>6. Ep0Same(c, f) /\ Restarted(c, f, {}) /\ Touches(r) = {}
    BY <1>1, <1>6, <2>2, <2>3, <2>5, KeptRestarts, NoTouch DEF Ep0Same, BulkKept, BulkSame
  <2>7. Known(r, d.conf) /\ ~ HasReply(r)
    BY <1>6 DEF Known, HasReply
  <2>20. /\ f.conf = IF r.kind = "SetConfig" THEN r.v ELSE d.conf
         /\ IF r.kind = "SetAddress" THEN f.setaddr /\ f.addr = r.v ELSE ~ f.setaddr
         /\ f.limit = r.limit /\ f.devAddr = d.devAddr /\ f.busReset = d.busReset
         /\ ~ f.setupRec /\ ~ f.stallArm /\ r.kind # "LineCoding"
    BY <1>3, <1>4, <1>6, <2>3, <2>4
  <2>21. SetupDone(d, Ack(f), r)
    BY <1>1, <2>2, <2>6, <2>7, <2>20, AckDone
  <2> QED
    BY <2>1, <2>21 DEF e
<1>7. CASE r.kind = "SetConfig"
  <2> DEFINE g == [c EXCEPT !.conf = r.v]
             f == Eps(g, r.v # 0)
  <2>1. e = Ack(f) /\ r.v \in {0, 1} /\ Touches(r) = Bulk
    BY <1>2, <1>7 DEF Touches, Requests
  <2>2. g \in Device
    BY <1>1, <2>1 DEF Device
  <2>3. g.b = c.b /\ g.pid = c.pid /\ g.done = c.done /\ g.busy = c.busy /\ g.conf = r.v
    BY <1>1 DEF Device
  <2>4. g.setaddr = c.setaddr /\ g.limit = c.limit /\ g.devAddr = c.devAddr
        /\ g.busReset = c.busReset /\ g.setupRec = c.setupRec /\ g.stallArm = c.stallArm
    BY <1>1 DEF Device
  <2>5. StreamSame(c, g)
    BY <1>1 DEF Device, StreamSame
  <2>. HIDE DEF g
  <2>6. f \in Device /\ CtlSame(g, f) /\ Restarted(g, f, Bulk)
    BY <2>2, EpsIs
  <2>. HIDE DEF f
  <2>7. BulkKept(c, g) /\ BulkKept(f, f) /\ Bulk \in SUBSET Bulk
    BY <2>3, <2>5 DEF BulkKept, BulkSame, StreamSame
  <2>8. Restarted(c, f, Touches(r))
    BY <1>1, <2>1, <2>2, <2>6, <2>7, RestartAll
  <2>9. Ep0Same(c, f)
    BY <2>3, <2>6 DEF CtlSame, Ep0Same
  <2>10. /\ f.limit = r.limit /\ f.devAddr = d.devAddr /\ f.busReset = d.busReset
         /\ ~ f.setupRec /\ ~ f.stallArm /\ f.conf = r.v /\ ~ f.setaddr
    BY <1>4, <2>3, <2>4, <2>6 DEF CtlSame, FixedSame, StageSame
  <2>11. Known(r, d.conf) /\ ~ HasReply(r)
    BY <1>7 DEF Known, HasReply
  <2>20. /\ f.conf = IF r.kind = "SetConfig" THEN r.v ELSE d.conf
         /\ IF r.kind = "SetAddress" THEN f.setaddr /\ f.addr = r.v ELSE ~ f.setaddr
         /\ f.limit = r.limit /\ f.devAddr = d.devAddr /\ f.busReset = d.busReset
         /\ ~ f.setupRec /\ ~ f.stallArm /\ r.kind # "LineCoding"
    BY <1>7, <2>10
  <2>21. SetupDone(d, Ack(f), r)
    BY <1>1, <2>6, <2>8, <2>9, <2>11, <2>20, AckDone
  <2> QED
    BY <2>1, <2>21 DEF e
<1>8. ASSUME r.kind \in {"SetInterface", "ClearHalt", "SetHalt"}, c.conf # 0
      PROVE  SetupDone(d, e, r)
  <2> DEFINE f == IF r.kind = "SetInterface" THEN IReset(c, r.v)
                  ELSE Halt(c, r.v, r.kind = "SetHalt")
  <2>1. e = Ack(f)
    BY <1>2, <1>8
  <2>2. f \in Device /\ CtlSame(c, f) /\ Restarted(c, f, Touches(r))
    <3>1. CASE r.kind = "SetInterface"
      BY <1>1, <3>1, IResetIs DEF Touches
    <3>2. CASE r.kind \in {"ClearHalt", "SetHalt"}
      <4>1. r.v \in Bulk /\ Touches(r) = {r.v}
        BY <3>2 DEF Requests, Touches
      <4> QED
        BY <1>1, <3>2, <4>1, HaltIs
    <3> QED
      BY <1>8, <3>1, <3>2
  <2>. HIDE DEF f
  <2>3. Ep0Same(c, f) /\ f.limit = r.limit /\ f.devAddr = d.devAddr
        /\ f.busReset = d.busReset /\ ~ f.setupRec /\ ~ f.stallArm /\ f.conf = d.conf
        /\ ~ f.setaddr
    BY <1>3, <1>4, <2>2 DEF CtlSame, FixedSame, StageSame
  <2>4. Known(r, d.conf) /\ ~ HasReply(r)
    BY <1>3, <1>8 DEF Known, HasReply
  <2> QED
    BY <1>1, <1>8, <2>1, <2>2, <2>3, <2>4, AckDone
<1>9. CASE r.kind = "ControlLine" /\ c.conf # 0
  <2> DEFINE f == [c EXCEPT !.notify = TRUE]
  <2>1. e = Ack(f)
    BY <1>2, <1>9
  <2>2. f \in Device
    BY <1>1 DEF Device
  <2>3. f.b = c.b /\ f.pid = c.pid /\ f.done = c.done /\ f.busy = c.busy /\ f.conf = c.conf
    BY <1>1 DEF Device
  <2>4. f.setaddr = c.setaddr /\ f.limit = c.limit /\ f.devAddr = c.devAddr
        /\ f.busReset = c.busReset /\ f.setupRec = c.setupRec /\ f.stallArm = c.stallArm
    BY <1>1 DEF Device
  <2>5. f.txzlp = c.txzlp /\ f.rxlen = c.rxlen /\ f.rxpos = c.rxpos
    BY <1>1 DEF Device
  <2>. HIDE DEF f
  <2>6. Touches(r) = {}
    BY <1>9, NoTouch
  <2>7. Ep0Same(c, f) /\ Restarted(c, f, Touches(r))
    BY <2>3, <2>5, <2>6 DEF Ep0Same, Restarted
  <2>8. Known(r, d.conf) /\ ~ HasReply(r)
    BY <1>3, <1>9 DEF Known, HasReply
  <2>20. /\ f.conf = IF r.kind = "SetConfig" THEN r.v ELSE d.conf
         /\ IF r.kind = "SetAddress" THEN f.setaddr /\ f.addr = r.v ELSE ~ f.setaddr
         /\ f.limit = r.limit /\ f.devAddr = d.devAddr /\ f.busReset = d.busReset
         /\ ~ f.setupRec /\ ~ f.stallArm /\ r.kind # "LineCoding"
    BY <1>3, <1>4, <1>9, <2>3, <2>4
  <2>21. SetupDone(d, Ack(f), r)
    BY <1>1, <2>2, <2>7, <2>8, <2>20, AckDone
  <2> QED
    BY <2>1, <2>21 DEF e
<1>10. CASE r.kind = "LineCoding" /\ c.conf # 0
  <2> DEFINE g == [c EXCEPT !.stage = "LINE"]
  <2>1. e = Arm(g, 1, r.limit)
    BY <1>2, <1>10
  <2>2. g \in Device
    BY <1>1 DEF Device
  <2>3. g.b = c.b /\ g.pid = c.pid /\ g.done = c.done /\ g.busy = c.busy /\ g.conf = c.conf
    BY <1>1 DEF Device
  <2>4. g.setaddr = c.setaddr /\ g.limit = c.limit /\ g.devAddr = c.devAddr
        /\ g.busReset = c.busReset /\ g.setupRec = c.setupRec /\ g.stallArm = c.stallArm
        /\ g.stage = "LINE"
    BY <1>1 DEF Device
  <2>5. StreamSame(c, g)
    BY <1>1 DEF Device, StreamSame
  <2>. HIDE DEF g
  <2>6. r.limit \in 0 .. PKT /\ 1 \in EP /\ 0 \in EP \ {1} /\ 1 \notin Bulk
    BY <1>10, UsbTaskAssumption DEF Requests, EP, Bulk
  <2>7. /\ e \in Device /\ e.b[1] = [st |-> "armed", len |-> r.limit, pid |-> g.pid[1]]
        /\ \A j \in EP \ {1} : e.b[j] = g.b[j] /\ e.pid[j] = g.pid[j]
        /\ e.done = g.done /\ FixedSame(g, e) /\ StageSame(g, e) /\ BulkKept(g, e)
    BY <2>1, <2>2, <2>6, ArmIs
  <2>8. /\ ~ e.stallArm /\ ~ e.setaddr /\ e.stage = "LINE" /\ e.b[0] = d.b[0] /\ e.pid[0] = 1
        /\ e.b[1] = [st |-> "armed", len |-> r.limit, pid |-> 1]
    BY <1>4, <2>3, <2>4, <2>6, <2>7 DEF StageSame
  <2>9. /\ ~ e.setupRec /\ e.busReset = d.busReset /\ e.limit = r.limit /\ e.conf = d.conf
        /\ NoDone(e) /\ e.devAddr = d.devAddr
    BY <1>3, <1>4, <2>3, <2>4, <2>7 DEF FixedSame, StageSame, NoDone
  <2>10. BulkKept(c, g) /\ Restarted(g, e, {}) /\ BulkKept(e, e) /\ Touches(r) = {}
    BY <1>10, <2>2, <2>3, <2>5, <2>7, KeptRestarts, NoTouch DEF BulkKept, BulkSame, StreamSame
  <2>11. Restarted(c, e, {})
    BY <1>1, <2>2, <2>7, <2>10, RestartAll
  <2>12. Restarted(d, e, Touches(r))
    BY <1>1, <2>7, <2>10, <2>11, RestartAll
  <2>13. Takes(d, e, r) /\ Known(r, d.conf)
    BY <1>3, <1>10, <2>8 DEF Takes, Known
  <2> QED
    BY <1>10, <2>7, <2>9, <2>12, <2>13 DEF SetupDone, e
<1>11. CASE ~ Known(r, d.conf)
  <2>1. e = StallControl(c)
    BY <1>2, <1>3, <1>11 DEF Known
  <2>2. /\ e \in Device /\ BulkKept(c, e) /\ FixedSame(c, e)
        /\ e.b[0] = Stalled /\ e.b[1] = Stalled /\ e.stage = "IDLE" /\ e.stallArm
        /\ e.done = c.done /\ e.pid = c.pid /\ e.setaddr = c.setaddr /\ e.devAddr = c.devAddr
    BY <1>1, <2>1, StallIs
  <2>3. Stalls(e)
    BY <1>4, <2>2 DEF Stalls
  <2>4. /\ ~ e.setupRec /\ e.busReset = d.busReset /\ e.limit = r.limit /\ e.conf = d.conf
        /\ NoDone(e) /\ r.kind # "SetConfig"
    BY <1>3, <1>4, <1>11, <2>2 DEF FixedSame, NoDone, Known
  <2>5. Restarted(c, e, {}) /\ BulkKept(e, e)
    BY <1>1, <2>2, KeptRestarts DEF BulkKept, BulkSame, StreamSame
  <2>6. Restarted(d, e, {})
    BY <1>1, <2>2, <2>5, RestartAll
  <2> QED
    BY <1>4, <1>11, <2>2, <2>3, <2>4, <2>6 DEF SetupDone, e
<1>12. Known(r, d.conf) =>
         \/ r.kind = "Descriptor" \/ (r.kind = "ClassGet" /\ c.conf # 0)
         \/ r.kind = "SetAddress" \/ r.kind = "SetConfig"
         \/ r.kind \in {"SetInterface", "ClearHalt", "SetHalt"} /\ c.conf # 0
         \/ r.kind = "ControlLine" /\ c.conf # 0
         \/ r.kind = "LineCoding" /\ c.conf # 0
  BY <1>3 DEF Known, Requests, Kinds
<1> QED
  BY <1>5, <1>6, <1>7, <1>8, <1>9, <1>10, <1>11, <1>12 DEF e

-----------------------------------------------------------------------------
\* The invariant of endpoint 0: for each phase of the host, what the firmware
\* may be doing.  The host's side is a record.

Hosts ==
  [phase : {"idle", "in", "out", "statusIn", "statusOut", "newAddress", "reset"},
   r : Requests, t : {0, 1}, g : Nat, a : Nat, c : {0, 1}]

First(r) ==
  IF HasReply(r) /\ r.limit > 0 THEN "in"
  ELSE IF r.kind = "LineCoding" THEN "out" ELSE "statusIn"

Unarmed(d) == d.b[0].st # "armed" /\ d.b[1].st # "armed"

\* Nothing is left of the transfer before but, perhaps, its last completion.
Rest(d) ==
  /\ Unarmed(d) /\ ~ d.setaddr
  /\ \/ d.stage = "IDLE" /\ NoDone(d)
     \/ d.stage = "SIN" /\ 0 \in d.done /\ 1 \notin d.done
     \/ d.stage = "SOUT" /\ 1 \in d.done /\ 0 \notin d.done

Idle(d, h) == Rest(d) /\ ~ d.setupRec /\ d.devAddr = h.a /\ d.conf = h.c

\* The request has not been seen yet.
Unread(d, h) ==
  /\ Rest(d) /\ d.setupRec /\ d.devAddr = h.a /\ d.conf = h.c /\ ~ d.stallArm
  /\ h.phase = First(h.r) /\ h.t = 1 /\ h.g = 0

Refused(d, h) ==
  /\ d.stallArm /\ d.b[0].st = "stall" /\ d.b[1].st = "stall" /\ d.stage = "IDLE"
  /\ NoDone(d) /\ ~ d.setaddr /\ h.phase = First(h.r) /\ ~ Known(h.r, h.c) /\ d.conf = h.c

\* A packet of the reply is on offer, and what the host will have with it; or
\* the host has it and the firmware is about to see that.
Offered(d, h) ==
  /\ 0 \notin d.done /\ d.b[0].st = "armed" /\ d.b[0].pid = h.t /\ d.pid[0] = 1 - h.t
  /\ h.g + d.b[0].len + d.left = Total(h.r)
  /\ d.left > 0 => d.b[0].len = PKT
  /\ d.zlp <=> Ends(h.r) /\ d.b[0].len > 0
Fetched(d, h) ==
  /\ 0 \in d.done /\ d.b[0].st # "armed" /\ d.pid[0] = h.t
  /\ h.g + d.left = Total(h.r) /\ (d.zlp <=> Ends(h.r))
  /\ d.left > 0 \/ d.zlp
Reading(d, h) ==
  /\ h.phase = "in" /\ HasReply(h.r) /\ d.stage = "READ" /\ 1 \notin d.done
  /\ d.b[1].st # "armed" /\ d.pid[1] = 1 /\ h.g % PKT = 0 /\ ~ d.setaddr
  /\ Offered(d, h) \/ Fetched(d, h)

\* The host has the whole reply.
ReadAll(d, h) ==
  /\ h.phase = "statusOut" /\ HasReply(h.r) /\ h.g = Total(h.r) /\ h.t = 1 /\ 1 \notin d.done
  /\ d.b[0].st # "armed" /\ ~ d.setaddr
  /\ \/ /\ d.stage = "READ" /\ 0 \in d.done /\ d.b[1].st # "armed" /\ d.left = 0 /\ ~ d.zlp
        /\ d.pid[1] = 1
     \/ d.stage = "SOUT" /\ 0 \notin d.done /\ d.b[1].st = "armed" /\ d.b[1].pid = 1

Line(d, h) ==
  /\ h.r.kind = "LineCoding" /\ d.stage = "LINE" /\ h.t = 1 /\ h.g = 0 /\ 0 \notin d.done
  /\ d.b[0].st # "armed" /\ d.limit = h.r.limit /\ d.pid[0] = 1 /\ ~ d.setaddr
  /\ \/ h.phase = "out" /\ 1 \notin d.done /\ d.b[1].st = "armed" /\ d.b[1].pid = 1
     \/ /\ h.phase = "statusIn" /\ 1 \in d.done /\ d.b[1].st # "armed"
        /\ d.b[1].len = h.r.limit

Acked(d, h) ==
  /\ h.phase = "statusIn" /\ ~ HasReply(h.r) /\ h.t = 1 /\ h.g = 0
  /\ d.stage = "SIN" /\ NoDone(d) /\ d.b[0].st = "armed" /\ d.b[0].pid = 1 /\ d.b[0].len = 0
  /\ d.b[1].st # "armed"
  /\ IF h.r.kind = "SetAddress" THEN d.setaddr /\ d.addr = h.r.v ELSE ~ d.setaddr

\* A read of no bytes: the firmware offers the status packet of a read.
Stuck(d, h) ==
  /\ h.phase = "statusIn" /\ HasReply(h.r) /\ d.stage = "SOUT" /\ NoDone(d)
  /\ d.b[0].st # "armed" /\ ~ d.setaddr

Served(d, h) ==
  /\ ~ d.setupRec /\ d.devAddr = h.a
  /\ \/ Refused(d, h)
     \/ /\ ~ d.stallArm
        /\ Reading(d, h) \/ ReadAll(d, h) \/ Line(d, h) \/ Acked(d, h) \/ Stuck(d, h)
        /\ d.conf = IF h.r.kind = "SetConfig" THEN h.r.v ELSE h.c

\* The host has seen the status stage of SET_ADDRESS.
NewAddress(d, h) ==
  /\ h.r.kind = "SetAddress" /\ ~ d.setupRec /\ Unarmed(d) /\ d.conf = h.c /\ 1 \notin d.done
  /\ \/ d.setaddr /\ d.addr = h.r.v /\ d.devAddr = h.a /\ d.stage = "SIN" /\ 0 \in d.done
     \/ ~ d.setaddr /\ d.devAddr = h.r.v /\ d.stage = "IDLE" /\ 0 \notin d.done

AfterReset(d) ==
  Unarmed(d) /\ NoDone(d) /\ d.stage = "IDLE" /\ ~ d.setaddr /\ d.devAddr = 0 /\ d.conf = 0

Ctl(d, h) ==
  /\ d.busReset => h.phase = "reset"
  /\ h.phase = "idle" => Idle(d, h)
  /\ h.phase = "newAddress" => NewAddress(d, h)
  /\ h.phase = "reset" => /\ ~ d.setupRec /\ h.a = 0 /\ h.c = 0
                          /\ d.busReset \/ AfterReset(d)
  /\ h.phase \in {"in", "out", "statusIn", "statusOut"} => Unread(d, h) \/ Served(d, h)

\* What endpoint 0 does not depend on does not disturb it.
LEMMA CtlKept ==
  ASSUME NEW d \in Device, NEW e \in Device, NEW h \in Hosts, CtlSame(d, e), Ctl(d, h)
  PROVE  Ctl(e, h)
<1>1. /\ \A k \in {0, 1} : e.b[k] = d.b[k] /\ e.pid[k] = d.pid[k] /\ (k \in e.done <=> k \in d.done)
      /\ e.setupRec = d.setupRec /\ e.busReset = d.busReset /\ e.limit = d.limit
      /\ e.addr = d.addr /\ e.conf = d.conf
      /\ e.stage = d.stage /\ e.left = d.left /\ e.zlp = d.zlp
      /\ e.setaddr = d.setaddr /\ e.devAddr = d.devAddr /\ e.stallArm = d.stallArm
  BY DEF CtlSame, Ep0Same, FixedSame, StageSame
<1>2. (Rest(d) => Rest(e)) /\ (Unarmed(d) => Unarmed(e)) /\ (NoDone(d) => NoDone(e))
  BY <1>1 DEF Rest, Unarmed, NoDone
<1>3. (Idle(d, h) => Idle(e, h)) /\ (Unread(d, h) => Unread(e, h))
  BY <1>1, <1>2 DEF Idle, Unread
<1>4. (NewAddress(d, h) => NewAddress(e, h)) /\ (AfterReset(d) => AfterReset(e))
  BY <1>1, <1>2 DEF NewAddress, AfterReset
<1>5. Refused(d, h) => Refused(e, h)
  BY <1>1, <1>2 DEF Refused
<1>6. Reading(d, h) => Reading(e, h)
  <2>1. Offered(d, h) => Offered(e, h)
    BY <1>1, Zenon DEF Offered
  <2>2. Fetched(d, h) => Fetched(e, h)
    BY <1>1, Zenon DEF Fetched
  <2> QED
    BY <1>1, <2>1, <2>2 DEF Reading
<1>7. /\ (ReadAll(d, h) => ReadAll(e, h)) /\ (Line(d, h) => Line(e, h))
      /\ (Acked(d, h) => Acked(e, h)) /\ (Stuck(d, h) => Stuck(e, h))
  BY <1>1, <1>2 DEF ReadAll, Line, Acked, Stuck
<1>8. Served(d, h) => Served(e, h)
  BY <1>1, <1>5, <1>6, <1>7 DEF Served
<1> QED
  BY <1>1, <1>3, <1>4, <1>8 DEF Ctl

\* BUFF_STATUS is read and cleared.
Polled(d, ks) == [d EXCEPT !.done = {}, !.busy = @ \ ks]

LEMMA PolledIs ==
  ASSUME NEW d \in Device, NEW ks \in SUBSET EP, NEW e, e = Polled(d, ks)
  PROVE  /\ e \in Device /\ e.b = d.b /\ e.pid = d.pid /\ e.done = {} /\ e.busy = d.busy \ ks
         /\ FixedSame(d, e) /\ StageSame(d, e) /\ StreamSame(d, e)
<1>1. e \in Device
  BY DEF Device, Polled
<1>2. e.b = d.b /\ e.pid = d.pid /\ e.done = {} /\ e.busy = d.busy \ ks
  BY DEF Device, Polled
<1>3. FixedSame(d, e)
  BY DEF Device, Polled, FixedSame
<1>4. StageSame(d, e)
  BY DEF Device, Polled, StageSame
<1>5. StreamSame(d, e)
  BY DEF Device, Polled, StreamSame
<1> QED
  BY <1>1, <1>2, <1>3, <1>4, <1>5

\* A SETUP is answered.
LEMMA SetupServes ==
  ASSUME NEW d \in Device, NEW h \in Hosts, Ctl(d, h), d.setupRec,
         NEW p, p = Polled(d, {0, 1})
  PROVE  SetupDone(p, Setup(p, h.r), h.r) /\ Ctl(Setup(p, h.r), h)
<1> DEFINE r == h.r
           e == Setup(p, r)
<1>1. r \in Requests /\ h.t \in {0, 1} /\ h.g \in Nat
      /\ h.phase \in {"idle", "in", "out", "statusIn", "statusOut", "newAddress", "reset"}
  BY DEF Hosts
<1>2. Unread(d, h) /\ h.phase = First(r) /\ h.phase \in {"in", "out", "statusIn"}
      /\ ~ d.busReset
  BY <1>1 DEF Ctl, Idle, NewAddress, Served, Unread, First
<1>3. {0, 1} \in SUBSET EP
  BY DEF EP
<1>4. /\ p \in Device /\ p.b = d.b /\ p.pid = d.pid /\ p.done = {}
      /\ FixedSame(d, p) /\ StageSame(d, p)
  BY <1>3, PolledIs
<1>5. /\ p.b[0].st # "armed" /\ p.b[1].st # "armed" /\ ~ p.setaddr /\ p.conf = h.c
      /\ p.devAddr = h.a /\ ~ p.busReset /\ h.t = 1 /\ h.g = 0 /\ NoDone(p)
  BY <1>2, <1>4 DEF Unread, Rest, Unarmed, FixedSame, StageSame, NoDone
<1>6. SetupDone(p, e, r)
  BY <1>1, <1>4, <1>5, SetupIs
<1>. HIDE DEF e
<1>7. /\ e \in Device /\ ~ e.setupRec /\ ~ e.busReset /\ e.devAddr = h.a /\ NoDone(e)
      /\ e.limit = r.limit /\ e.conf = IF r.kind = "SetConfig" THEN r.v ELSE h.c
  BY <1>5, <1>6 DEF SetupDone
<1>8. (Stalls(e) /\ ~ Known(r, h.c)) \/ Replies(p, e, r) \/ Takes(p, e, r) \/ Acks(p, e, r)
  BY <1>5, <1>6 DEF SetupDone
<1>9. Served(e, h)
  <2>1. CASE Stalls(e) /\ ~ Known(r, h.c)
    <3>1. Refused(e, h)
      BY <1>2, <1>7, <2>1 DEF Refused, Stalls, Stalled, Known
    <3> QED
      BY <1>7, <3>1 DEF Served
  <2>2. CASE Replies(p, e, r)
    <3>1. PICK c \in Device : /\ e = NextPacket(c) /\ c.b = p.b /\ c.pid[0] = 1 /\ c.pid[1] = 1
                              /\ c.stage = "READ" /\ c.left = Total(r) /\ (c.zlp <=> Ends(r))
      BY <2>2 DEF Replies
    <3>12. HasReply(r) /\ ~ e.stallArm /\ ~ e.setaddr /\ r.kind # "SetConfig"
      BY <2>2 DEF Replies, HasReply
    <3>13. CASE r.limit = 0
      <4>1. r.v \in Nat /\ Total(r) = 0 /\ ~ Ends(r)
        BY <1>1, <3>13 DEF Requests, Total, Lesser, Ends
      <4>2. ~ (c.left > 0 \/ c.zlp)
        BY <3>1, <4>1
      <4>3. e.b[0] = c.b[0] /\ e.stage = "SOUT"
        BY <3>1, <4>2, NextIs, ZenonT(40)
      <4>4. e.b[0].st # "armed"
        BY <1>5, <3>1, <4>3
      <4>5. h.phase = "statusIn"
        BY <1>2, <3>12, <3>13 DEF First, HasReply
      <4>6. Stuck(e, h)
        BY <1>7, <3>12, <4>3, <4>4, <4>5 DEF Stuck
      <4> QED
        BY <1>7, <3>12, <4>6 DEF Served
    <3> SUFFICES ASSUME r.limit # 0 PROVE Served(e, h)
      BY <3>13
    <3>2. h.phase = "in"
      <4>1. r.limit \in Nat
        BY <1>1 DEF Requests
      <4>2. r.limit > 0
        BY <4>1
      <4> QED
        BY <1>2, <3>12, <4>2 DEF First
    <3>3. r.v \in Nat /\ r.limit \in Nat \ {0} /\ PKT \in Nat \ {0} /\ Total(r) \in Nat
      <4>1. r.v \in Nat /\ r.limit \in Nat \ {0}
        BY <1>1 DEF Requests
      <4> QED
        BY <4>1, UsbTaskAssumption, LesserIs DEF Total
    <3>4. c.left > 0 \/ c.zlp
      <4>1. CASE r.v = 0
        <5>1. r.v % PKT = 0 /\ r.v < r.limit
          BY <3>3, <4>1
        <5> QED
          BY <3>1, <5>1 DEF Ends
      <4>2. CASE r.v > 0
        BY <3>1, <3>3, <4>2 DEF Total, Lesser
      <4> QED
        BY <3>3, <4>1, <4>2
    <3>5. LET n == Lesser(c.left, PKT)
          IN  /\ e.b[0] = [st |-> "armed", len |-> n, pid |-> c.pid[0]]
              /\ e.pid[0] = 1 - c.pid[0] /\ e.b[1] = c.b[1] /\ e.pid[1] = c.pid[1]
              /\ e.left = c.left - n /\ (e.zlp <=> c.zlp /\ n > 0) /\ e.stage = c.stage
      BY <3>1, <3>4, NextIs, ZenonT(40)
    <3> DEFINE n == Lesser(Total(r), PKT)
    <3>6. /\ e.b[0].st = "armed" /\ e.b[0].len = n /\ e.b[0].pid = 1 /\ e.pid[0] = 0
          /\ e.b[1] = p.b[1] /\ e.pid[1] = 1 /\ e.left = Total(r) - n /\ e.stage = "READ"
      BY <3>1, <3>5
    <3>7. e.zlp <=> Ends(r) /\ n > 0
      BY <3>1, <3>5, Zenon
    <3>8. n \in Nat /\ (Total(r) - n > 0 => n = PKT)
      BY <3>3 DEF Lesser
    <3>. HIDE DEF n
    <3>9. Offered(e, h)
      <4>1. e.zlp <=> Ends(h.r) /\ e.b[0].len > 0
        BY <3>6, <3>7, Zenon
      <4>2. /\ h.g + e.b[0].len + e.left = Total(h.r) /\ (e.left > 0 => e.b[0].len = PKT)
            /\ e.pid[0] = 1 - h.t
        BY <1>5, <3>3, <3>6, <3>8
      <4> QED
        BY <1>5, <1>7, <3>6, <4>1, <4>2 DEF Offered, NoDone
    <3>10. h.g % PKT = 0
      BY <1>5, <3>3
    <3>11. Reading(e, h)
      BY <1>5, <1>7, <3>2, <3>6, <3>9, <3>10, <3>12 DEF Reading, NoDone
    <3> QED
      BY <1>7, <3>11, <3>12 DEF Served
  <2>3. CASE Takes(p, e, r)
    <3>1. /\ ~ e.stallArm /\ r.kind = "LineCoding" /\ ~ e.setaddr /\ e.stage = "LINE"
          /\ e.b[1].st = "armed" /\ e.b[1].pid = 1 /\ e.b[0] = p.b[0] /\ e.pid[0] = 1
      BY <2>3 DEF Takes
    <3>2. h.phase = "out"
      BY <1>2, <3>1 DEF First, HasReply
    <3>3. Line(e, h)
      BY <1>5, <1>7, <3>1, <3>2 DEF Line, NoDone
    <3> QED
      BY <1>7, <3>1, <3>3 DEF Served
  <2>4. CASE Acks(p, e, r)
    <3>1. /\ ~ e.stallArm /\ ~ HasReply(r) /\ r.kind # "LineCoding" /\ e.stage = "SIN"
          /\ e.b[0].st = "armed" /\ e.b[0].len = 0 /\ e.b[0].pid = 1 /\ e.b[1] = p.b[1]
          /\ IF r.kind = "SetAddress" THEN e.setaddr /\ e.addr = r.v ELSE ~ e.setaddr
      BY <2>4 DEF Acks
    <3>2. h.phase = "statusIn"
      BY <1>2, <3>1 DEF First
    <3>3. Acked(e, h)
      BY <1>5, <1>7, <3>1, <3>2 DEF Acked
    <3> QED
      BY <1>7, <3>1, <3>3 DEF Served
  <2> QED
    BY <1>8, <2>1, <2>2, <2>3, <2>4
<1>10. Ctl(e, h)
  BY <1>2, <1>7, <1>9 DEF Ctl
<1> QED
  BY <1>6, <1>10 DEF e

\* The completions of a pass that found no SETUP.
Completions(d) ==
  LET p == Polled(d, d.done)
      q == IF 0 \in d.done THEN ControlIn(p) ELSE p
  IN  IF 1 \in d.done THEN ControlOut(q) ELSE q

LEMMA CompletionsKeep ==
  ASSUME NEW d \in Device, NEW e, e = Completions(d)
  PROVE  e \in Device /\ BulkKept(Polled(d, d.done), e) /\ FixedSame(d, e) /\ e.done = {}
<1> DEFINE p == Polled(d, d.done)
           q == IF 0 \in d.done THEN ControlIn(p) ELSE p
<1>1. d.done \in SUBSET EP
  BY DEF Device
<1>2. p \in Device /\ p.done = {} /\ FixedSame(d, p)
  BY <1>1, PolledIs
<1>3. e = IF 1 \in d.done THEN ControlOut(q) ELSE q
  BY DEF Completions
<1>4. q = IF 0 \in d.done THEN ControlIn(p) ELSE p
  OBVIOUS
<1>. HIDE DEF p, q
<1>5. q \in Device /\ BulkKept(p, q) /\ FixedSame(d, q) /\ q.done = {}
  <2>1. ControlIn(p) \in Device /\ BulkKept(p, ControlIn(p)) /\ FixedSame(p, ControlIn(p))
        /\ ControlIn(p).done = p.done
    BY <1>2, ControlInKeeps
  <2> QED
    BY <1>2, <1>4, <2>1 DEF BulkKept, BulkSame, StreamSame, FixedSame
<1>6. ControlOut(q) \in Device /\ BulkKept(q, ControlOut(q)) /\ FixedSame(q, ControlOut(q))
      /\ ControlOut(q).done = q.done
  BY <1>5, ControlOutKeeps
<1>7. e \in Device /\ BulkKept(p, e) /\ FixedSame(d, e) /\ e.done = {}
  BY <1>3, <1>5, <1>6 DEF BulkKept, BulkSame, StreamSame, FixedSame
<1> QED
  BY <1>7 DEF p

\* They take the transfer on as the host does.
LEMMA CompletionsServe ==
  ASSUME NEW d \in Device, NEW h \in Hosts, Ctl(d, h), NEW e, e = Completions(d)
  PROVE  Ctl(e, h)
<1> DEFINE p == Polled(d, d.done)
<1>1. d.done \in SUBSET EP
  BY DEF Device
<1>2. /\ p \in Device /\ p.b = d.b /\ p.pid = d.pid /\ p.done = {}
      /\ FixedSame(d, p) /\ StageSame(d, p)
  BY <1>1, PolledIs
<1>3. /\ 0 \in d.done /\ 1 \notin d.done => e = ControlIn(p)
      /\ 1 \in d.done /\ 0 \notin d.done => e = ControlOut(p)
      /\ 0 \notin d.done /\ 1 \notin d.done => e = p
  BY DEF Completions
<1>4. e \in Device /\ e.done = {} /\ FixedSame(d, e)
  BY CompletionsKeep
<1>. HIDE DEF p
<1>5. /\ p.setupRec = d.setupRec /\ p.busReset = d.busReset /\ p.limit = d.limit
      /\ p.addr = d.addr /\ p.conf = d.conf
      /\ p.stage = d.stage /\ p.left = d.left /\ p.zlp = d.zlp
      /\ p.setaddr = d.setaddr /\ p.devAddr = d.devAddr /\ p.stallArm = d.stallArm
  BY <1>2 DEF FixedSame, StageSame
<1>6. /\ e.setupRec = d.setupRec /\ e.busReset = d.busReset /\ e.limit = d.limit
      /\ e.addr = d.addr /\ e.conf = d.conf /\ NoDone(e)
  BY <1>4 DEF FixedSame, NoDone
<1>7. h \in Hosts /\ h.t \in {0, 1} /\ h.r \in Requests
      /\ h.phase \in {"idle", "in", "out", "statusIn", "statusOut", "newAddress", "reset"}
  BY DEF Hosts
<1>8. NoDone(d) => Ctl(e, h)
  <2> SUFFICES ASSUME NoDone(d) PROVE Ctl(e, h)
    OBVIOUS
  <2>1. e = p
    BY <1>3 DEF NoDone
  <2>2. CtlSame(d, p)
    BY <1>2 DEF CtlSame, Ep0Same, NoDone
  <2> QED
    BY <1>2, <2>1, <2>2, CtlKept
<1>9. ASSUME Rest(d), ~ NoDone(d)
      PROVE  Rest(e) /\ e.stallArm = d.stallArm /\ e.devAddr = d.devAddr
  <2>1. /\ p.b[0].st # "armed" /\ p.b[1].st # "armed" /\ ~ p.setaddr
    BY <1>2, <1>5, <1>9 DEF Rest, Unarmed
  <2>2. e = [p EXCEPT !.stage = "IDLE"]
    <3>1. CASE d.stage = "SIN" /\ 0 \in d.done /\ 1 \notin d.done
      BY <1>3, <1>5, <2>1, <3>1 DEF ControlIn
    <3>2. CASE d.stage = "SOUT" /\ 1 \in d.done /\ 0 \notin d.done
      BY <1>3, <1>5, <2>1, <3>2 DEF ControlOut
    <3> QED
      BY <1>9, <3>1, <3>2 DEF Rest
  <2>3. /\ e.b = p.b /\ e.setaddr = p.setaddr /\ e.devAddr = p.devAddr
        /\ e.stallArm = p.stallArm /\ e.stage = "IDLE"
    BY <1>2, <2>2, IdleIs
  <2> QED
    BY <1>5, <1>6, <2>1, <2>3 DEF Rest, Unarmed
<1>10. Idle(d, h) => Idle(e, h)
  <2> SUFFICES ASSUME Idle(d, h), ~ NoDone(d) PROVE Idle(e, h)
    <3>1. CASE NoDone(d)
      <4>1. CtlSame(d, p) /\ e = p
        BY <1>2, <1>3, <3>1 DEF CtlSame, Ep0Same, NoDone
      <4>2. Rest(d) => Rest(p)
        BY <1>2, <1>5, <3>1 DEF Rest, Unarmed, NoDone
      <4> QED
        BY <1>5, <4>1, <4>2 DEF Idle
    <3> QED
      BY <3>1
  <2> QED
    BY <1>6, <1>9 DEF Idle
<1>11. Unread(d, h) /\ ~ NoDone(d) => Unread(e, h)
  BY <1>6, <1>9 DEF Unread
<1>12. ASSUME NewAddress(d, h), ~ NoDone(d)
       PROVE  NewAddress(e, h)
  <2>1. /\ p.b[0].st # "armed" /\ p.b[1].st # "armed" /\ p.setaddr /\ p.addr = h.r.v
        /\ 0 \in d.done /\ 1 \notin d.done
    BY <1>2, <1>5, <1>12 DEF NewAddress, Unarmed, NoDone
  <2>2. e = [p EXCEPT !.devAddr = p.addr, !.setaddr = FALSE, !.stage = "IDLE"]
    BY <1>3, <2>1 DEF ControlIn
  <2>3. e.b = p.b /\ e.stage = "IDLE" /\ ~ e.setaddr /\ e.devAddr = p.addr
    BY <1>2, <2>2, AddressedIs, ZenonT(40)
  <2> QED
    BY <1>6, <1>12, <2>1, <2>3 DEF NewAddress, Unarmed, NoDone
<1>13. ASSUME Served(d, h), ~ NoDone(d)
       PROVE  Served(e, h)
  <2>1. ~ Refused(d, h) /\ ~ Acked(d, h) /\ ~ Stuck(d, h)
    BY <1>13 DEF Refused, Acked, Stuck
  <2>2. /\ ~ d.setupRec /\ d.devAddr = h.a /\ ~ d.stallArm
        /\ Reading(d, h) \/ ReadAll(d, h) \/ Line(d, h)
        /\ d.conf = IF h.r.kind = "SetConfig" THEN h.r.v ELSE h.c
    BY <1>13, <2>1 DEF Served
  <2>3. CASE Reading(d, h)
    <3>1. /\ Fetched(d, h) /\ h.phase = "in" /\ HasReply(h.r) /\ d.stage = "READ"
          /\ 1 \notin d.done /\ d.b[1].st # "armed" /\ d.pid[1] = 1 /\ h.g % PKT = 0
          /\ ~ d.setaddr
      BY <1>13, <2>3 DEF Reading, Offered, NoDone
    <3>2. /\ 0 \in d.done /\ d.pid[0] = h.t /\ h.g + d.left = Total(h.r)
          /\ d.left > 0 \/ d.zlp
      BY <3>1 DEF Fetched
    <3>3. d.zlp <=> Ends(h.r)
      BY <3>1 DEF Fetched
    <3>4. e = NextPacket(p) /\ (p.left > 0 \/ p.zlp)
      BY <1>3, <1>5, <3>1, <3>2 DEF ControlIn
    <3>12. e.setaddr = p.setaddr /\ e.devAddr = p.devAddr /\ e.stallArm = p.stallArm
      BY <1>2, <3>4, NextIs
    <3>5. LET n == Lesser(p.left, PKT)
          IN  /\ e.b[0] = [st |-> "armed", len |-> n, pid |-> p.pid[0]]
              /\ e.pid[0] = 1 - p.pid[0] /\ e.b[1] = p.b[1] /\ e.pid[1] = p.pid[1]
              /\ e.left = p.left - n /\ (e.zlp <=> p.zlp /\ n > 0) /\ e.stage = p.stage
      BY <1>2, <3>4, NextIs
    <3> DEFINE n == Lesser(d.left, PKT)
    <3>6. /\ e.b[0].st = "armed" /\ e.b[0].len = n /\ e.b[0].pid = h.t /\ e.pid[0] = 1 - h.t
          /\ e.b[1] = d.b[1] /\ e.pid[1] = 1 /\ e.left = d.left - n /\ e.stage = "READ"
          /\ ~ e.setaddr /\ e.devAddr = h.a /\ ~ e.stallArm
      BY <1>2, <1>5, <2>2, <3>1, <3>2, <3>5, <3>12
    <3>7. e.zlp <=> Ends(h.r) /\ e.b[0].len > 0
      <4>1. e.zlp <=> d.zlp /\ n > 0
        BY <1>5, <3>5, Zenon
      <4> QED
        BY <3>3, <3>6, <4>1, Zenon
    <3>8. d.left \in Nat /\ PKT \in Nat /\ h.g \in Nat /\ n \in Nat /\ n <= d.left
          /\ (d.left - n > 0 => n = PKT)
      BY UsbTaskAssumption, DeviceFields DEF Lesser, Hosts
    <3>. HIDE DEF n
    <3>9. h.g + e.b[0].len + e.left = Total(h.r) /\ (e.left > 0 => e.b[0].len = PKT)
      BY <3>2, <3>6, <3>8
    <3>10. Offered(e, h)
      BY <1>6, <3>6, <3>7, <3>9 DEF Offered, NoDone
    <3>11. Reading(e, h)
      BY <1>6, <3>1, <3>6, <3>10 DEF Reading, NoDone
    <3> QED
      BY <1>6, <2>2, <3>6, <3>11 DEF Served
  <2>4. CASE ReadAll(d, h)
    <3>1. /\ h.phase = "statusOut" /\ HasReply(h.r) /\ h.g = Total(h.r) /\ h.t = 1
          /\ d.b[0].st # "armed" /\ ~ d.setaddr /\ d.stage = "READ" /\ 0 \in d.done
          /\ 1 \notin d.done /\ d.left = 0 /\ ~ d.zlp /\ d.pid[1] = 1
      BY <1>13, <2>4 DEF ReadAll, NoDone
    <3>2. e = NextPacket(p) /\ ~ (p.left > 0 \/ p.zlp)
      BY <1>3, <1>5, <3>1 DEF ControlIn
    <3>3. /\ e.setaddr = p.setaddr /\ e.devAddr = p.devAddr /\ e.stallArm = p.stallArm
          /\ e.b[1] = [st |-> "armed", len |-> 0, pid |-> p.pid[1]]
          /\ e.b[0] = p.b[0] /\ e.stage = "SOUT"
      BY <1>2, <3>2, NextIs, ZenonT(40)
    <3>4. e.b[1].st = "armed" /\ e.b[1].pid = 1 /\ e.b[0].st # "armed"
      BY <1>2, <3>1, <3>3
    <3>5. ReadAll(e, h)
      BY <1>5, <1>6, <3>1, <3>3, <3>4 DEF ReadAll, NoDone
    <3> QED
      BY <1>5, <1>6, <2>2, <3>3, <3>5 DEF Served
  <2>5. CASE Line(d, h)
    <3>1. /\ h.r.kind = "LineCoding" /\ d.stage = "LINE" /\ h.t = 1 /\ h.g = 0 /\ 0 \notin d.done
          /\ d.b[0].st # "armed" /\ d.limit = h.r.limit /\ d.pid[0] = 1 /\ ~ d.setaddr
          /\ h.phase = "statusIn" /\ 1 \in d.done /\ d.b[1].st # "armed"
          /\ d.b[1].len = h.r.limit
      BY <1>13, <2>5 DEF Line, NoDone
    <3>2. e = Ack(p)
      BY <1>2, <1>3, <1>5, <3>1 DEF ControlOut
    <3>3. /\ e.b[0] = [st |-> "armed", len |-> 0, pid |-> p.pid[0]]
          /\ e.b[1] = p.b[1] /\ e.stage = "SIN"
          /\ e.setaddr = p.setaddr /\ e.devAddr = p.devAddr /\ e.stallArm = p.stallArm
      BY <1>2, <3>2, AckIs
    <3>4. /\ e.b[0].st = "armed" /\ e.b[0].pid = 1 /\ e.b[0].len = 0 /\ e.b[1].st # "armed"
          /\ ~ e.setaddr
      BY <1>2, <1>5, <3>1, <3>3
    <3>5. Acked(e, h)
      BY <1>6, <3>1, <3>3, <3>4 DEF Acked, HasReply
    <3> QED
      BY <1>5, <1>6, <2>2, <3>3, <3>5 DEF Served
  <2> QED
    BY <2>2, <2>3, <2>4, <2>5
<1>14. ~ NoDone(d) => Ctl(e, h)
  <2>1. AfterReset(d) => NoDone(d)
    BY DEF AfterReset
  <2> QED
    BY <1>6, <1>10, <1>11, <1>12, <1>13, <2>1 DEF Ctl
<1> QED
  BY <1>8, <1>14

-----------------------------------------------------------------------------
\* The steps of the host and of the bus.

Host(ph, r, t, g, a, c) == [phase |-> ph, r |-> r, t |-> t, g |-> g, a |-> a, c |-> c]

\* Where a transfer that ends leaves the host.
Ended(r) == IF r.kind = "SetAddress" THEN "newAddress" ELSE "idle"
ConfAfter(r, c) == IF r.kind = "SetConfig" THEN r.v ELSE c

Arrived(d) == [d EXCEPT !.setupRec = TRUE, !.stallArm = FALSE]
Transacted(d, k, n) == [d EXCEPT !.b[k].st = "off", !.b[k].len = n, !.done = @ \cup {k}]

Moved(d, k, n, e) ==
  /\ e \in Device /\ e.b[k].st = "off" /\ e.b[k].len = n /\ e.b[k].pid = d.b[k].pid
  /\ \A j \in EP \ {k} : e.b[j] = d.b[j]
  /\ e.done = d.done \cup {k} /\ e.pid = d.pid /\ e.busy = d.busy
  /\ FixedSame(d, e) /\ StageSame(d, e) /\ StreamSame(d, e)

LEMMA TransactedIs ==
  ASSUME NEW d \in Device, NEW k \in EP, NEW n \in 0 .. PKT
  PROVE  Moved(d, k, n, Transacted(d, k, n))
<1> DEFINE e == Transacted(d, k, n)
<1>1. d.b \in [EP -> Buffer] /\ d.b[k] \in Buffer /\ d.done \in SUBSET EP
  BY DEF Device
<1> DEFINE x == d.b[k]
           y == [x EXCEPT !.st = "off"]
           z == [y EXCEPT !.len = n]
<1>2. e.b = [[d.b EXCEPT ![k] = y] EXCEPT ![k] = [@ EXCEPT !.len = n]]
  BY DEF Device, Transacted
<1>11. z \in Buffer /\ z.st = "off" /\ z.len = n /\ z.pid = x.pid
  BY <1>1 DEF Buffer
<1>12. e.b = [d.b EXCEPT ![k] = z]
  BY <1>1, <1>2
<1>. HIDE DEF z
<1>3. e.b \in [EP -> Buffer] /\ e.b[k] = z /\ \A j \in EP \ {k} : e.b[j] = d.b[j]
  BY <1>1, <1>11, <1>12
<1>4. e.b[k].st = "off" /\ e.b[k].len = n /\ e.b[k].pid = d.b[k].pid
  BY <1>3, <1>11
<1>5. e.done = d.done \cup {k} /\ e.pid = d.pid /\ e.busy = d.busy
  BY DEF Device, Transacted
<1>6. e.done \in SUBSET EP
  BY <1>1, <1>5
<1>7. e \in Device
  BY <1>3, <1>6 DEF Device, Transacted
<1>8. FixedSame(d, e)
  BY DEF Device, Transacted, FixedSame
<1>9. StageSame(d, e)
  BY DEF Device, Transacted, StageSame
<1>10. StreamSame(d, e)
  BY DEF Device, Transacted, StreamSame
<1> QED
  BY <1>3, <1>4, <1>5, <1>7, <1>8, <1>9, <1>10 DEF Moved

\* A SETUP may arrive whenever the last transfer has ended.
LEMMA ArrivedIs ==
  ASSUME NEW d \in Device, NEW e, e = Arrived(d)
  PROVE  /\ e \in Device /\ BulkKept(d, e) /\ e.b = d.b /\ e.pid = d.pid /\ e.done = d.done
         /\ e.setupRec /\ ~ e.stallArm /\ e.busReset = d.busReset /\ e.stage = d.stage
         /\ e.setaddr = d.setaddr /\ e.devAddr = d.devAddr /\ e.conf = d.conf
         /\ e.busy = d.busy
<1>1. e \in Device /\ e.b = d.b /\ e.pid = d.pid /\ e.done = d.done /\ e.busy = d.busy
  BY DEF Device, Arrived
<1>2. e.setupRec /\ ~ e.stallArm
  BY DEF Device, Arrived
<1>3. /\ e.busReset = d.busReset /\ e.stage = d.stage /\ e.setaddr = d.setaddr
      /\ e.devAddr = d.devAddr /\ e.conf = d.conf
  BY DEF Device, Arrived
<1>4. StreamSame(d, e)
  BY DEF Device, Arrived, StreamSame
<1> QED
  BY <1>1, <1>2, <1>3, <1>4 DEF BulkKept, BulkSame

LEMMA ArrivedKeeps ==
  ASSUME NEW d \in Device, NEW r, NEW t, NEW g, NEW a, NEW c, NEW q \in Requests,
         Ctl(d, Host("idle", r, t, g, a, c))
  PROVE  Ctl(Arrived(d), Host(First(q), q, 1, 0, a, c))
<1> DEFINE h == Host("idle", r, t, g, a, c)
           i == Host(First(q), q, 1, 0, a, c)
           e == Arrived(d)
<1>1. h.phase = "idle" /\ h.a = a /\ h.c = c
  BY DEF Host
<1>2. i.phase = First(q) /\ i.r = q /\ i.t = 1 /\ i.g = 0 /\ i.a = a /\ i.c = c
  BY DEF Host
<1>3. /\ e.b = d.b /\ e.done = d.done
      /\ e.setupRec /\ ~ e.stallArm /\ e.busReset = d.busReset /\ e.stage = d.stage
      /\ e.setaddr = d.setaddr /\ e.devAddr = d.devAddr /\ e.conf = d.conf
  BY ArrivedIs
<1>. HIDE DEF h, i, e
<1>4. Ctl(d, h)
  BY DEF h
<1>5. Idle(d, h) /\ ~ d.busReset
  BY <1>1, <1>4 DEF Ctl
<1>6. Unread(e, i)
  BY <1>1, <1>2, <1>3, <1>5 DEF Unread, Idle, Rest, Unarmed, NoDone
<1>7. First(q) \in {"in", "out", "statusIn"}
  BY DEF First
<1>8. Ctl(e, i)
  BY <1>2, <1>3, <1>5, <1>6, <1>7 DEF Ctl
<1> QED
  BY <1>8 DEF e, i

\* A reply ends with the packet that is short, or reaches what was asked for.
LEMMA PacketsAdd ==
  ASSUME NEW g \in Nat, g % PKT = 0, NEW n \in 0 .. PKT
  PROVE  IF n = PKT THEN (g + n) % PKT = 0 ELSE (g + n) % PKT = n
<1>1. PKT \in Nat \ {0} /\ g \in Int /\ g + n \in Int
  BY UsbTaskAssumption
<1>6. PICK q \in Int : g = q * PKT + (g % PKT)
  BY <1>1, Division
<1>2. g = q * PKT
  BY <1>1, <1>6
<1>5. PICK x \in Int : x = g + n
  BY <1>1
<1>3. CASE n = PKT
  <2>1. x = (q + 1) * PKT + 0 /\ 0 \in 0 .. PKT - 1 /\ q + 1 \in Int
    BY <1>1, <1>2, <1>3, <1>5
  <2>3. x % PKT = 0
    BY ONLY <1>1, <2>1, x \in Int, Remainder
  <2>2. (g + n) % PKT = 0
    BY <1>5, <2>3
  <2> QED
    BY <1>3, <2>2
<1>4. CASE n # PKT
  <2>1. x = q * PKT + n /\ n \in 0 .. PKT - 1
    BY <1>1, <1>2, <1>4, <1>5
  <2>3. x % PKT = n
    BY ONLY <1>1, <2>1, x \in Int, q \in Int, Remainder
  <2>2. (g + n) % PKT = n
    BY <1>5, <2>3
  <2> QED
    BY <1>4, <2>2
<1> QED
  BY <1>3, <1>4

\* The host takes a packet of the reply, or the status packet.
InTaken(d, ph, r, t, g, a, c) ==
  LET n == d.b[0].len
      e == Transacted(d, 0, n)
  IN  /\ d.b[0].pid = t /\ g + n <= r.limit /\ (ph = "statusIn" => n = 0)
      /\ ph = "statusIn" => Ctl(e, Host(Ended(r), r, t, g, a, ConfAfter(r, c)))
      /\ ph = "in" => IF n < PKT \/ g + n = r.limit
                      THEN Ctl(e, Host("statusOut", r, 1, g + n, a, c))
                      ELSE Ctl(e, Host("in", r, 1 - t, g + n, a, c))

LEMMA InTakenKeeps ==
  ASSUME NEW d \in Device, NEW ph \in {"in", "statusIn"}, NEW r \in Requests, NEW t \in {0, 1},
         NEW g \in Nat, NEW a \in Nat, NEW c \in {0, 1},
         Ctl(d, Host(ph, r, t, g, a, c)), d.b[0].st = "armed"
  PROVE  InTaken(d, ph, r, t, g, a, c)
<1> DEFINE h == Host(ph, r, t, g, a, c)
           n == d.b[0].len
           e == Transacted(d, 0, n)
<1>1. h.phase = ph /\ h.r = r /\ h.t = t /\ h.g = g /\ h.a = a /\ h.c = c
  BY DEF Host
<1>2. 0 \in EP /\ 1 \in EP \ {0} /\ n \in 0 .. PKT /\ PKT \in Nat \ {0}
  BY UsbTaskAssumption DEF EP, Device, Buffer
<1>12. e = Transacted(d, 0, n)
  OBVIOUS
<1>. HIDE DEF h, n, e
<1>14. /\ e \in Device /\ e.b[0].st = "off" /\ \A j \in EP \ {0} : e.b[j] = d.b[j]
       /\ e.done = d.done \cup {0} /\ e.pid = d.pid /\ FixedSame(d, e) /\ StageSame(d, e)
  <2>1. Moved(d, 0, n, Transacted(d, 0, n))
    BY <1>2, TransactedIs
  <2> QED
    BY <1>12, <2>1 DEF Moved
<1>3. /\ e \in Device /\ e.b[0].st = "off" /\ e.b[1] = d.b[1]
      /\ e.done = d.done \cup {0} /\ e.pid = d.pid /\ FixedSame(d, e) /\ StageSame(d, e)
  BY <1>2, <1>14
<1>. HIDE DEF h, n, e
<1>4. /\ e.setupRec = d.setupRec /\ e.busReset = d.busReset /\ e.limit = d.limit
      /\ e.addr = d.addr /\ e.conf = d.conf
      /\ e.stage = d.stage /\ e.left = d.left /\ e.zlp = d.zlp
      /\ e.setaddr = d.setaddr /\ e.devAddr = d.devAddr /\ e.stallArm = d.stallArm
  BY <1>3 DEF FixedSame, StageSame
<1>5. Ctl(d, h)
  BY DEF h
<1>6. Unread(d, h) \/ Served(d, h)
  BY <1>1, <1>5 DEF Ctl
<1>7. ~ Unread(d, h) /\ ~ Refused(d, h) /\ ~ Line(d, h) /\ ~ ReadAll(d, h) /\ ~ Stuck(d, h)
  BY <1>1 DEF Unread, Rest, Unarmed, Refused, Line, ReadAll, Stuck
<1>8. /\ ~ d.setupRec /\ d.devAddr = a /\ ~ d.stallArm
      /\ Reading(d, h) \/ Acked(d, h)
      /\ d.conf = IF r.kind = "SetConfig" THEN r.v ELSE c
  BY <1>1, <1>6, <1>7 DEF Served
<1>13. e.conf = ConfAfter(r, c) /\ ~ e.setupRec /\ e.devAddr = a /\ ~ e.stallArm
  BY <1>4, <1>8 DEF ConfAfter
<1>9. r.v \in Nat /\ r.limit \in Nat /\ ~ d.busReset
  BY <1>1, <1>5 DEF Requests, Ctl
<1>10. CASE Acked(d, h)
  <2>1. /\ ph = "statusIn" /\ ~ HasReply(r) /\ t = 1 /\ g = 0 /\ d.stage = "SIN" /\ NoDone(d)
        /\ d.b[0].pid = 1 /\ n = 0 /\ d.b[1].st # "armed"
        /\ IF r.kind = "SetAddress" THEN d.setaddr /\ d.addr = r.v ELSE ~ d.setaddr
    BY <1>1, <1>10 DEF Acked, n
  <2> DEFINE i == Host(Ended(r), r, t, g, a, ConfAfter(r, c))
  <2>2. i.phase = Ended(r) /\ i.r = r /\ i.a = a /\ i.c = ConfAfter(r, c)
    BY DEF Host
  <2>. HIDE DEF i
  <2>3. Unarmed(e) /\ 0 \in e.done /\ 1 \notin e.done /\ e.stage = "SIN"
    BY <1>3, <1>4, <2>1 DEF Unarmed, NoDone
  <2>4. Ctl(e, i)
    <3>1. CASE r.kind = "SetAddress"
      <4>2. e.setaddr /\ e.addr = r.v /\ e.conf = c /\ ~ e.setupRec /\ e.devAddr = a
        BY <1>4, <1>8, <2>1, <3>1
      <4>1. NewAddress(e, i)
        BY <2>2, <2>3, <3>1, <4>2 DEF NewAddress, ConfAfter
      <4> QED
        BY <1>4, <1>9, <2>2, <3>1, <4>1 DEF Ctl, Ended
    <3>2. CASE r.kind # "SetAddress"
      <4>2. ~ e.setaddr /\ e.conf = ConfAfter(r, c) /\ ~ e.setupRec /\ e.devAddr = a
        BY <1>4, <1>8, <2>1, <3>2 DEF ConfAfter
      <4>1. Idle(e, i)
        BY <2>2, <2>3, <4>2 DEF Idle, Rest
      <4> QED
        BY <1>4, <1>9, <2>2, <3>2, <4>1 DEF Ctl, Ended
    <3> QED
      BY <3>1, <3>2
  <2> QED
    BY <1>9, <2>1, <2>4 DEF InTaken, e, i, n
<1>11. CASE Reading(d, h)
  <2>1. /\ ph = "in" /\ HasReply(r) /\ d.stage = "READ" /\ 1 \notin d.done
        /\ d.b[1].st # "armed" /\ d.pid[1] = 1 /\ g % PKT = 0 /\ ~ d.setaddr /\ Offered(d, h)
    BY <1>1, <1>11 DEF Reading, Fetched
  <2>2. /\ d.b[0].pid = t /\ d.pid[0] = 1 - t /\ g + n + d.left = Total(r)
        /\ d.left > 0 => n = PKT
    BY <1>1, <2>1 DEF Offered, n
  <2>3. d.zlp <=> Ends(r) /\ n > 0
    BY <1>1, <2>1 DEF Offered, n
  <2>4. d.left \in Nat /\ d.conf = c
    BY <1>8, <2>1, DeviceFields DEF HasReply
  <2>5. Total(r) \in Nat /\ Total(r) <= r.limit /\ Total(r) <= r.v
        /\ (r.v < r.limit => Total(r) = r.v) /\ (~ r.v < r.limit => Total(r) = r.limit)
    BY <1>9 DEF Total, Lesser
  <2>6. g + n <= r.limit
    BY <1>2, <1>9, <2>2, <2>4, <2>5
  <2>7. IF n = PKT THEN (g + n) % PKT = 0 ELSE (g + n) % PKT = n
    BY <1>2, <2>1, PacketsAdd
  <2>8. CASE n < PKT \/ g + n = r.limit
    <3> DEFINE i == Host("statusOut", r, 1, g + n, a, c)
    <3>1. i.phase = "statusOut" /\ i.r = r /\ i.t = 1 /\ i.g = g + n /\ i.a = a /\ i.c = c
      BY DEF Host
    <3>. HIDE DEF i
    <3>2. d.left = 0 /\ g + n = Total(r)
      BY <1>2, <1>9, <2>2, <2>4, <2>5, <2>8
    <3>3. ~ (Ends(r) /\ n > 0)
      <4> SUFFICES ASSUME r.v < r.limit, r.v % PKT = 0, n > 0 PROVE FALSE
        BY DEF Ends
      <4>1. g + n = r.v /\ n < PKT
        BY <1>2, <1>9, <2>5, <2>8, <3>2
      <4> QED
        BY <1>2, <2>7, <4>1
    <3>4. ~ d.zlp
      BY <2>3, <3>3
    <3>5. ReadAll(e, i)
      BY <1>3, <1>4, <2>1, <3>1, <3>2, <3>4 DEF ReadAll
    <3>6. Served(e, i)
      BY <1>13, <3>1, <3>5 DEF Served, ConfAfter
    <3>7. Ctl(e, i)
      BY <1>4, <1>9, <3>1, <3>6 DEF Ctl
    <3> QED
      BY <2>1, <2>2, <2>6, <2>8, <3>7 DEF InTaken, e, i, n
  <2>9. CASE ~ (n < PKT \/ g + n = r.limit)
    <3> DEFINE i == Host("in", r, 1 - t, g + n, a, c)
    <3>1. i.phase = "in" /\ i.r = r /\ i.t = 1 - t /\ i.g = g + n /\ i.a = a /\ i.c = c
      BY DEF Host
    <3>. HIDE DEF i
    <3>2. n = PKT /\ (g + n) % PKT = 0 /\ g + n + d.left = Total(r)
      BY <1>2, <2>2, <2>7, <2>9
    <3>3. (d.zlp <=> Ends(r)) /\ (d.left > 0 \/ d.zlp)
      <4>1. d.zlp <=> Ends(r)
        BY <1>2, <2>3, <3>2
      <4>2. d.left = 0 => Ends(r)
        <5> SUFFICES ASSUME d.left = 0 PROVE r.v < r.limit /\ r.v % PKT = 0
          BY DEF Ends
        <5>1. g + n = Total(r) /\ g + n # r.limit
          BY <1>2, <1>9, <2>9, <3>2, <2>4
        <5>2. Total(r) = r.v /\ r.v < r.limit
          BY <1>9, <2>5, <5>1
        <5> QED
          BY <3>2, <5>1, <5>2
      <4> QED
        BY <2>4, <4>1, <4>2
    <3>4. e.zlp <=> Ends(r)
      BY <1>4, <3>3
    <3>5. e.left > 0 \/ e.zlp
      BY <1>4, <3>3
    <3>6. Fetched(e, i)
      BY <1>3, <1>4, <2>2, <3>1, <3>2, <3>4, <3>5 DEF Fetched
    <3>7. Reading(e, i)
      BY <1>3, <1>4, <2>1, <3>1, <3>2, <3>6 DEF Reading
    <3>8. Served(e, i)
      BY <1>13, <3>1, <3>7 DEF Served, ConfAfter
    <3>9. Ctl(e, i)
      BY <1>4, <1>9, <3>1, <3>8 DEF Ctl
    <3> QED
      BY <2>1, <2>2, <2>6, <2>9, <3>9 DEF InTaken, e, i, n
  <2> QED
    BY <2>8, <2>9
<1> QED
  BY <1>8, <1>10, <1>11

\* The host sends the data of a request, or ends a read.
OutTaken(d, ph, r, t, g, a, c) ==
  /\ d.b[1].pid = t
  /\ ph = "out" => /\ r.limit \in 0 .. PKT
                   /\ Ctl(Transacted(d, 1, r.limit), Host("statusIn", r, t, g, a, c))
  /\ ph = "statusOut" =>
       Ctl(Transacted(d, 1, 0), Host(Ended(r), r, t, g, a, ConfAfter(r, c)))

LEMMA OutTakenKeeps ==
  ASSUME NEW d \in Device, NEW ph \in {"out", "statusOut"}, NEW r \in Requests, NEW t \in {0, 1},
         NEW g \in Nat, NEW a \in Nat, NEW c \in {0, 1},
         Ctl(d, Host(ph, r, t, g, a, c)), d.b[1].st = "armed"
  PROVE  OutTaken(d, ph, r, t, g, a, c)
<1> DEFINE h == Host(ph, r, t, g, a, c)
<1>1. h.phase = ph /\ h.r = r /\ h.t = t /\ h.g = g /\ h.a = a /\ h.c = c
  BY DEF Host
<1>2. 1 \in EP /\ 0 \in EP \ {1} /\ 0 \in 0 .. PKT
  BY UsbTaskAssumption DEF EP
<1>. HIDE DEF h
<1>3. Ctl(d, h)
  BY DEF h
<1>4. Unread(d, h) \/ Served(d, h)
  BY <1>1, <1>3 DEF Ctl
<1>5. /\ ~ Unread(d, h) /\ ~ Refused(d, h) /\ ~ Reading(d, h) /\ ~ Acked(d, h)
      /\ ~ Stuck(d, h)
  BY <1>1 DEF Unread, Rest, Unarmed, Refused, Reading, Acked, Stuck
<1>6. /\ ~ d.setupRec /\ d.devAddr = a /\ ~ d.stallArm
      /\ Line(d, h) \/ ReadAll(d, h)
      /\ d.conf = ConfAfter(r, c)
  BY <1>1, <1>4, <1>5 DEF Served, ConfAfter
<1>7. ~ d.busReset
  BY <1>1, <1>3 DEF Ctl
<1>8. CASE Line(d, h)
  <2>1. /\ ph = "out" /\ r.kind = "LineCoding" /\ d.stage = "LINE" /\ t = 1 /\ g = 0
        /\ 0 \notin d.done /\ d.b[0].st # "armed" /\ d.limit = r.limit /\ d.pid[0] = 1
        /\ ~ d.setaddr /\ d.b[1].pid = 1
    BY <1>1, <1>8 DEF Line
  <2>2. r.limit \in 0 .. PKT
    BY <2>1, UsbTaskAssumption DEF Requests
  <2> DEFINE e == Transacted(d, 1, r.limit)
             i == Host("statusIn", r, t, g, a, c)
  <2>3. Moved(d, 1, r.limit, e)
    BY <1>2, <2>2, TransactedIs
  <2>4. i.phase = "statusIn" /\ i.r = r /\ i.t = 1 /\ i.g = 0 /\ i.a = a /\ i.c = c
    BY <2>1 DEF Host
  <2>. HIDE DEF e, i
  <2>5. /\ e.b[1].st = "off" /\ e.b[1].len = r.limit /\ e.b[0] = d.b[0] /\ 1 \in e.done
        /\ 0 \notin e.done /\ e.pid = d.pid
    BY <1>2, <2>1, <2>3 DEF Moved
  <2>6. /\ e.setupRec = d.setupRec /\ e.busReset = d.busReset /\ e.limit = d.limit
        /\ e.conf = d.conf /\ e.stage = d.stage /\ e.setaddr = d.setaddr
        /\ e.devAddr = d.devAddr /\ e.stallArm = d.stallArm
    BY <2>3 DEF Moved, FixedSame, StageSame
  <2>7. Line(e, i)
    BY <2>1, <2>4, <2>5, <2>6 DEF Line
  <2>8. Served(e, i)
    BY <1>6, <2>4, <2>6, <2>7 DEF Served, ConfAfter
  <2>9. Ctl(e, i)
    BY <1>7, <2>4, <2>6, <2>8 DEF Ctl
  <2> QED
    BY <2>1, <2>2, <2>9 DEF OutTaken, e, i
<1>9. CASE ReadAll(d, h)
  <2>1. /\ ph = "statusOut" /\ HasReply(r) /\ t = 1 /\ d.b[0].st # "armed" /\ ~ d.setaddr
        /\ d.stage = "SOUT" /\ 0 \notin d.done /\ d.b[1].pid = 1
    BY <1>1, <1>9 DEF ReadAll
  <2> DEFINE e == Transacted(d, 1, 0)
             i == Host(Ended(r), r, t, g, a, ConfAfter(r, c))
  <2>2. r.kind \notin {"SetAddress", "SetConfig"}
    BY <2>1 DEF HasReply
  <2>3. Moved(d, 1, 0, e)
    BY <1>2, TransactedIs
  <2>4. i.phase = "idle" /\ i.a = a /\ i.c = c
    BY <2>2 DEF Host, Ended, ConfAfter
  <2>. HIDE DEF e, i
  <2>5. /\ e.b[1].st = "off" /\ e.b[0] = d.b[0] /\ 1 \in e.done /\ 0 \notin e.done
    BY <1>2, <2>1, <2>3 DEF Moved
  <2>6. /\ e.setupRec = d.setupRec /\ e.busReset = d.busReset
        /\ e.conf = d.conf /\ e.stage = d.stage /\ e.setaddr = d.setaddr
        /\ e.devAddr = d.devAddr /\ e.stallArm = d.stallArm
    BY <2>3 DEF Moved, FixedSame, StageSame
  <2>7. e.conf = c
    BY <1>6, <2>2, <2>6 DEF ConfAfter
  <2>8. Idle(e, i)
    BY <1>6, <2>1, <2>4, <2>5, <2>6, <2>7 DEF Idle, Rest, Unarmed
  <2>9. Ctl(e, i)
    BY <1>7, <2>4, <2>6, <2>8 DEF Ctl
  <2> QED
    BY <2>1, <2>9 DEF OutTaken, e, i
<1> QED
  BY <1>6, <1>8, <1>9

\* A request is refused only when it is not known, or not allowed yet.
LEMMA RefusedKeeps ==
  ASSUME NEW d \in Device, NEW ph \in {"in", "out", "statusIn", "statusOut"}, NEW r, NEW t,
         NEW g, NEW a, NEW c, Ctl(d, Host(ph, r, t, g, a, c)), d.stallArm
  PROVE  ~ Known(r, c) /\ Ctl(d, Host("idle", r, t, g, a, c))
<1> DEFINE h == Host(ph, r, t, g, a, c)
           i == Host("idle", r, t, g, a, c)
<1>1. h.phase = ph /\ h.r = r /\ h.a = a /\ h.c = c
  BY DEF Host
<1>2. i.phase = "idle" /\ i.a = a /\ i.c = c
  BY DEF Host
<1>. HIDE DEF h, i
<1>3. Ctl(d, h)
  BY DEF h
<1>4. Unread(d, h) \/ Served(d, h)
  BY <1>1, <1>3 DEF Ctl
<1>5. ~ d.setupRec /\ d.devAddr = a /\ Refused(d, h)
  BY <1>1, <1>4 DEF Unread, Served
<1>6. ~ Known(r, c) /\ Idle(d, i)
  BY <1>1, <1>2, <1>5 DEF Refused, Idle, Rest, Unarmed
<1>7. Ctl(d, i)
  BY <1>1, <1>2, <1>3, <1>6 DEF Ctl
<1> QED
  BY <1>6, <1>7 DEF i

\* The pause after SET_ADDRESS is over when the firmware has the new address.
LEMMA AddressUsed ==
  ASSUME NEW d \in Device, NEW r, NEW t, NEW g, NEW a, NEW c,
         Ctl(d, Host("newAddress", r, t, g, a, c)), ~ d.setaddr
  PROVE  Ctl(d, Host("idle", r, t, g, r.v, c))
<1> DEFINE h == Host("newAddress", r, t, g, a, c)
           i == Host("idle", r, t, g, r.v, c)
<1>1. h.phase = "newAddress" /\ h.r = r /\ h.c = c
  BY DEF Host
<1>2. i.phase = "idle" /\ i.a = r.v /\ i.c = c
  BY DEF Host
<1>. HIDE DEF h, i
<1>3. Ctl(d, h)
  BY DEF h
<1>4. NewAddress(d, h) /\ ~ d.busReset
  BY <1>1, <1>3 DEF Ctl
<1>5. Idle(d, i)
  BY <1>1, <1>2, <1>4 DEF NewAddress, Idle, Rest, NoDone
<1>6. Ctl(d, i)
  BY <1>2, <1>4, <1>5 DEF Ctl
<1> QED
  BY <1>6 DEF i

\* A bus reset, from the host's side, from the firmware's, and its end.
ResetSeen(d) == [d EXCEPT !.busReset = TRUE]

LEMMA ResetSeenIs ==
  ASSUME NEW d \in Device, NEW e, e = ResetSeen(d)
  PROVE  e \in Device /\ e.busReset /\ e.setupRec = d.setupRec /\ BulkKept(d, e)
         /\ e.b = d.b /\ e.done = d.done /\ e.pid = d.pid /\ e.busy = d.busy
         /\ e.rxlen = d.rxlen /\ e.rxpos = d.rxpos /\ e.devAddr = d.devAddr
<1>1. e \in Device /\ e.b = d.b /\ e.pid = d.pid /\ e.done = d.done /\ e.busy = d.busy
  BY DEF Device, ResetSeen
<1>2. e.busReset /\ e.setupRec = d.setupRec /\ e.devAddr = d.devAddr
  BY DEF Device, ResetSeen
<1>3. StreamSame(d, e)
  BY DEF Device, ResetSeen, StreamSame
<1> QED
  BY <1>1, <1>2, <1>3 DEF BulkKept, BulkSame, StreamSame

LEMMA ResetKeeps ==
  ASSUME NEW d \in Device, ~ d.setupRec, NEW r, NEW t, NEW g
  PROVE  Ctl(ResetSeen(d), Host("reset", r, t, g, 0, 0))
<1> DEFINE e == ResetSeen(d)
           i == Host("reset", r, t, g, 0, 0)
<1>1. e.busReset /\ ~ e.setupRec
  BY ResetSeenIs
<1>2. i.phase = "reset" /\ i.a = 0 /\ i.c = 0
  BY DEF Host
<1>. HIDE DEF e, i
<1>3. Ctl(e, i)
  BY <1>1, <1>2 DEF Ctl
<1> QED
  BY <1>3 DEF e, i

LEMMA RecoveredKeeps ==
  ASSUME NEW d \in Device, NEW r, NEW t, NEW g, NEW a, NEW c,
         Ctl(d, Host("reset", r, t, g, a, c)), ~ d.busReset
  PROVE  Ctl(d, Host("idle", r, t, g, a, c))
<1> DEFINE h == Host("reset", r, t, g, a, c)
           i == Host("idle", r, t, g, a, c)
<1>1. h.phase = "reset" /\ h.a = a /\ h.c = c
  BY DEF Host
<1>2. i.phase = "idle" /\ i.a = a /\ i.c = c
  BY DEF Host
<1>. HIDE DEF h, i
<1>3. Ctl(d, h)
  BY DEF h
<1>4. ~ d.setupRec /\ a = 0 /\ c = 0 /\ AfterReset(d)
  BY <1>1, <1>3 DEF Ctl
<1>5. Idle(d, i)
  BY <1>2, <1>4 DEF AfterReset, Idle, Rest
<1>6. Ctl(d, i)
  BY <1>2, <1>5 DEF Ctl
<1> QED
  BY <1>6 DEF i

LEMMA BusResetDoneIs ==
  ASSUME NEW d \in Device, NEW e, e = BusResetDone(d)
  PROVE  /\ e \in Device /\ ~ e.busReset /\ e.setupRec = d.setupRec /\ AfterReset(e)
         /\ Restarted(d, e, Bulk) /\ e.b[5].st # "armed"
<1> DEFINE f == Eps(d, FALSE)
           c == ForgetRx(f)
<1>1. f \in Device /\ CtlSame(d, f) /\ Restarted(d, f, Bulk) /\ f.b[5].st # "armed"
  BY EpsIs
<1>2. e = [c EXCEPT
     !.busReset = FALSE, !.b[0] = Cleared, !.b[1] = Cleared, !.done = @ \ {0, 1},
     !.devAddr = 0, !.stallArm = FALSE, !.pid[0] = 0, !.pid[1] = 0, !.busy = {},
     !.conf = 0, !.stage = "IDLE", !.setaddr = FALSE, !.addr = 0]
  BY DEF BusResetDone
<1>. HIDE DEF f
<1>3. /\ c \in Device /\ CtlSame(f, c) /\ c.b = f.b /\ c.pid = f.pid /\ c.done = f.done
      /\ c.rxlen = 0 /\ c.rxpos = 0 /\ c.txzlp = f.txzlp
  BY <1>1, ForgetIs
<1>. HIDE DEF c
<1>4. c.b \in [EP -> Buffer] /\ c.pid \in [EP -> {0, 1}] /\ Cleared \in Buffer
      /\ c.done \in SUBSET EP /\ Cleared.st = "off"
  BY <1>3, DeviceFields, UsbTaskAssumption DEF Cleared, Buffer
<1>5. e.b = [[c.b EXCEPT ![0] = Cleared] EXCEPT ![1] = Cleared]
  BY <1>2, <1>3 DEF Device
<1>6. e.pid = [[c.pid EXCEPT ![0] = 0] EXCEPT ![1] = 0]
  BY <1>2, <1>3 DEF Device
<1>7. e.done = c.done \ {0, 1} /\ e.busy = {}
  BY <1>2, <1>3 DEF Device
<1>8. ~ e.busReset /\ e.devAddr = 0 /\ e.conf = 0 /\ e.stage = "IDLE" /\ ~ e.setaddr
  BY <1>2, <1>3 DEF Device
<1>9. /\ e.setupRec = c.setupRec /\ e.rxlen = c.rxlen /\ e.rxpos = c.rxpos
      /\ e.txzlp = c.txzlp
  BY <1>2, <1>3 DEF Device
<1>10. /\ e.b \in [EP -> Buffer] /\ e.b[0] = Cleared /\ e.b[1] = Cleared
       /\ \A k \in Bulk : e.b[k] = c.b[k]
  BY <1>4, <1>5 DEF EP, Bulk
<1>11. e.pid \in [EP -> {0, 1}] /\ \A k \in Bulk : e.pid[k] = c.pid[k]
  BY <1>4, <1>6 DEF EP, Bulk
<1>12. e.done \in SUBSET EP /\ NoDone(e) /\ \A k \in Bulk : k \in e.done <=> k \in c.done
  BY <1>4, <1>7 DEF NoDone, Bulk
<1>13. e \in Device
  <2>1. /\ e.addr = 0 /\ ~ e.stallArm /\ e.left = c.left /\ e.limit = c.limit /\ e.zlp = c.zlp
        /\ e.notify = c.notify
    BY <1>2, <1>3 DEF Device
  <2>2. /\ e.setupRec \in BOOLEAN /\ e.busReset \in BOOLEAN /\ e.stallArm \in BOOLEAN
        /\ e.zlp \in BOOLEAN /\ e.setaddr \in BOOLEAN /\ e.notify \in BOOLEAN
        /\ e.txzlp \in BOOLEAN
    BY <1>2, <1>3 DEF Device
  <2>3. /\ e.devAddr \in Nat /\ e.addr \in Nat /\ e.left \in Nat /\ e.limit \in Nat
        /\ e.conf \in {0, 1} /\ e.stage \in {"IDLE", "READ", "LINE", "SIN", "SOUT"}
        /\ e.rxlen \in 0 .. PKT /\ e.rxpos \in 0 .. PKT /\ e.busy \in SUBSET EP
    BY <1>3, <1>7, <1>8, <1>9, <2>1, DeviceFields
  <2>4. e = [b |-> e.b, done |-> e.done, setupRec |-> e.setupRec, busReset |-> e.busReset,
             stallArm |-> e.stallArm, devAddr |-> e.devAddr, pid |-> e.pid, busy |-> e.busy,
             stage |-> e.stage, left |-> e.left, limit |-> e.limit, zlp |-> e.zlp,
             addr |-> e.addr, setaddr |-> e.setaddr, conf |-> e.conf, notify |-> e.notify,
             txzlp |-> e.txzlp, rxlen |-> e.rxlen, rxpos |-> e.rxpos]
    BY <1>2, <1>3 DEF Device
  <2> QED
    BY <1>10, <1>11, <1>12, <2>2, <2>3, <2>4 DEF Device
<1>14. AfterReset(e)
  BY <1>4, <1>8, <1>10, <1>12 DEF AfterReset, Unarmed
<1>15. e.setupRec = d.setupRec
  BY <1>1, <1>3, <1>9 DEF CtlSame, FixedSame
<1>16. 5 \in Bulk /\ 4 \in Bulk
  BY DEF Bulk
<1>17. \A k \in Bulk : e.b[k] = f.b[k] /\ e.pid[k] = f.pid[k] /\ (k \in e.done <=> k \in f.done)
  BY <1>3, <1>10, <1>11, <1>12
<1>18. \A k \in Bulk : /\ Agrees(f, k, 0) /\ (k # 5 => f.b[k].st # "armed")
                       /\ k \in f.done => k \in d.done
  BY <1>1 DEF Restarted
<1>19. \A k \in Bulk : /\ Agrees(e, k, 0) /\ (k # 5 => e.b[k].st # "armed")
                       /\ k \in e.done => k \in d.done
  BY <1>17, <1>18 DEF Agrees
<1>20. Restarted(d, e, Bulk)
  BY <1>3, <1>9, <1>16, <1>19 DEF Restarted
<1> QED
  BY <1>1, <1>8, <1>13, <1>14, <1>15, <1>16, <1>17, <1>20

-----------------------------------------------------------------------------
\* The invariant in terms of the variables, and the steps of core 1.

HostNow == Host(phase, request, tog0, got, hAddr, hConf)

Types ==
  /\ dev \in Device /\ dev.rxpos <= dev.rxlen /\ request \in Requests
  /\ pc \in {"status", "control", "receive", "transmit", "zlp"}
  /\ s \in SUBSET EP /\ ns \in BOOLEAN
  /\ phase \in {"idle", "in", "out", "statusIn", "statusOut", "newAddress", "reset"}
  /\ tog0 \in {0, 1} /\ got \in Nat /\ hAddr \in Nat /\ hConf \in {0, 1}
  /\ tog \in [Bulk -> {0, 1}]
  /\ rxq \in Seq(Nat) /\ Len(rxq) <= Cap /\ txq \in Seq(Nat) /\ Len(txq) <= Cap
  /\ in4 \in Seq(Nat) /\ Len(in4) <= PKT /\ out5 \in [1 .. PKT -> Nat]
  /\ sent \in Nat /\ written \in Nat

CtlInv ==
  /\ Types /\ Ctl(dev, HostNow)
  /\ pc = "control" /\ ns => dev.setupRec

LEMMA HostTyped ==
  ASSUME Types
  PROVE  HostNow \in Hosts /\ HostNow.r = request /\ HostNow.phase = phase
BY DEF Types, HostNow, Host, Hosts

LEMMA StatusIs ==
  ASSUME CtlInv, Status
  PROVE  /\ dev' \in Device /\ dev'.rxpos <= dev'.rxlen /\ Ctl(dev', HostNow)
         /\ pc' \in {"status", "control"} /\ ns' \in BOOLEAN
         /\ pc' = "control" /\ ns' => dev'.setupRec
         /\ \/ dev' = dev
            \/ phase = "reset" /\ dev.busReset /\ Restarted(dev, dev', Bulk)
               /\ dev'.b[5].st # "armed" /\ pc' # "control" /\ dev' = BusResetDone(dev)
<1>1. dev \in Device /\ HostNow \in Hosts /\ Ctl(dev, HostNow) /\ HostNow.phase = phase
  BY HostTyped DEF CtlInv, Types
<1>2. CASE dev.busReset /\ dev' = BusResetDone(dev) /\ UNCHANGED <<pc, ns>>
  <2>1. /\ dev' \in Device /\ ~ dev'.busReset /\ dev'.setupRec = dev.setupRec
        /\ AfterReset(dev') /\ Restarted(dev, dev', Bulk) /\ dev'.b[5].st # "armed"
    BY <1>1, <1>2, BusResetDoneIs
  <2>2. phase = "reset" /\ ~ dev.setupRec /\ HostNow.a = 0 /\ HostNow.c = 0
    BY <1>1, <1>2 DEF Ctl
  <2>3. Ctl(dev', HostNow)
    BY <1>1, <2>1, <2>2 DEF Ctl
  <2>4. 5 \in Bulk
    BY DEF Bulk
  <2>5. dev'.rxpos = 0 /\ dev'.rxlen = 0
    BY <2>1, <2>4 DEF Restarted
  <2> QED
    BY <1>2, <2>1, <2>2, <2>3, <2>5 DEF CtlInv, Types, Status
<1>3. CASE ~ dev.busReset /\ ns' = dev.setupRec /\ pc' = "control" /\ dev' = dev
  BY <1>1, <1>3, DeviceFields DEF CtlInv, Types
<1> QED
  BY <1>2, <1>3 DEF Status

\* The two sorts of pass through control().
LEMMA ControlIs ==
  ASSUME CtlInv, Control
  PROVE  /\ dev' \in Device /\ dev'.rxpos <= dev'.rxlen /\ Ctl(dev', HostNow)
         /\ s' \in SUBSET EP
         /\ \/ ns /\ dev.setupRec /\ SetupDone(Polled(dev, {0, 1}), dev', request)
               /\ s' = dev.done \ {0, 1}
            \/ ~ ns /\ BulkKept(Polled(dev, dev.done), dev') /\ FixedSame(dev, dev')
               /\ s' = dev.done /\ dev'.done = {}
<1>1. dev \in Device /\ HostNow \in Hosts /\ Ctl(dev, HostNow) /\ HostNow.r = request
      /\ request \in Requests /\ dev.rxpos <= dev.rxlen /\ ns \in BOOLEAN
      /\ dev.done \in SUBSET EP /\ pc = "control"
  BY HostTyped, DeviceFields DEF CtlInv, Types, Control
<1>2. CASE ns
  <2> DEFINE p == Polled(dev, {0, 1})
  <2>1. s' = dev.done \ {0, 1} /\ dev.setupRec
    BY <1>1, <1>2 DEF Control, CtlInv
  <2>2. dev' = Setup(p, request)
    BY <1>2, <2>1 DEF Control, TakeStatus, Polled
  <2>3. SetupDone(p, dev', request) /\ Ctl(dev', HostNow)
    <3>1. SetupDone(p, Setup(p, HostNow.r), HostNow.r) /\ Ctl(Setup(p, HostNow.r), HostNow)
      BY <1>1, <2>1, SetupServes
    <3> QED
      BY <1>1, <2>2, <3>1
  <2>4. {0, 1} \in SUBSET EP
    BY DEF EP
  <2>5. p.rxlen = dev.rxlen /\ p.rxpos = dev.rxpos /\ p \in Device
    BY <1>1, <2>4, PolledIs DEF StreamSame
  <2>. HIDE DEF p
  <2>6. dev' \in Device /\ \E ks : Restarted(p, dev', ks)
    BY <2>3 DEF SetupDone
  <2>7. \/ dev'.rxpos = 0 /\ dev'.rxlen = 0
        \/ dev'.rxpos = p.rxpos /\ dev'.rxlen = p.rxlen
    BY <2>6 DEF Restarted
  <2>8. dev'.rxpos <= dev'.rxlen
    BY <1>1, <2>5, <2>7
  <2> QED
    BY <1>1, <1>2, <2>1, <2>3, <2>6, <2>8 DEF p
<1>3. CASE ~ ns
  <2>1. s' = dev.done
    BY <1>3 DEF Control
  <2>2. dev' = Completions(dev)
    BY <1>3, <2>1 DEF Control, TakeStatus, Completions, Polled
  <2>3. /\ dev' \in Device /\ BulkKept(Polled(dev, dev.done), dev') /\ FixedSame(dev, dev')
        /\ dev'.done = {}
    BY <1>1, <2>2, CompletionsKeep
  <2>4. Ctl(dev', HostNow)
    BY <1>1, <2>2, CompletionsServe
  <2>5. StreamSame(dev, Polled(dev, dev.done))
    BY <1>1, PolledIs
  <2>6. dev'.rxpos <= dev'.rxlen
    BY <1>1, <2>3, <2>5 DEF BulkKept, StreamSame
  <2> QED
    BY <1>1, <1>3, <2>1, <2>3, <2>4, <2>6
<1> QED
  BY <1>1, <1>2, <1>3

\* A stretch of a typed sequence.
LEMMA StretchIs ==
  ASSUME NEW q \in Seq(Nat), NEW i \in Nat, NEW n \in Nat, i + n <= Len(q)
  PROVE  /\ SubSeq(q, i + 1, i + n) \in Seq(Nat) /\ Len(SubSeq(q, i + 1, i + n)) = n
         /\ \A j \in 1 .. n : SubSeq(q, i + 1, i + n)[j] = q[i + j]
<1> DEFINE t == SubSeq(q, i + 1, i + n)
<1>1. i + 1 \in Int /\ i + n \in Int /\ Len(q) \in Nat
  OBVIOUS
<1>2. \A k \in i + 1 .. i + n : q[k] \in Nat
  BY <1>1, ElementOfSeq
<1>3. /\ t \in Seq(Nat) /\ Len(t) = IF i + 1 <= i + n THEN (i + n) - (i + 1) + 1 ELSE 0
      /\ \A k \in 1 .. (i + n) - (i + 1) + 1 : t[k] = q[(i + 1) + k - 1]
  BY <1>1, <1>2, SubSeqProperties
<1>. HIDE DEF t
<1>4. Len(t) = n
  BY <1>3
<1>5. \A j \in 1 .. n : t[j] = q[i + j]
  <2> TAKE j \in 1 .. n
  <2>1. j \in 1 .. (i + n) - (i + 1) + 1 /\ (i + 1) + j - 1 = i + j
    OBVIOUS
  <2> QED
    BY <1>3, <2>1
<1> QED
  BY <1>3, <1>4, <1>5 DEF t

\* receive(): a packet just arrived, or the rest of one, goes to the ring.
Unpacked(d) == IF 5 \in s THEN Received(d) ELSE d
Room(d) == Lesser(d.rxlen - d.rxpos, Cap - Len(rxq))

LEMMA ReceiveIs ==
  ASSUME Types, Receive, NEW d, d = Unpacked(dev), NEW n, n = Room(d)
  PROVE  /\ d \in Device /\ OnlyRx(dev, d) /\ d.rxpos <= d.rxlen
         /\ n \in Nat /\ d.rxpos + n <= d.rxlen /\ n <= Cap - Len(rxq)
         /\ (n < d.rxlen - d.rxpos => n = Cap - Len(rxq))
         /\ dev' = Advanced(d, n) /\ rxq' = rxq \o SubSeq(out5, d.rxpos + 1, d.rxpos + n)
         /\ dev' \in Device /\ OnlyRx(dev, dev') /\ dev'.rxpos <= dev'.rxlen
         /\ rxq' \in Seq(Nat) /\ Len(rxq') = Len(rxq) + n /\ Len(rxq') <= Cap
<1>1. dev \in Device /\ rxq \in Seq(Nat) /\ Len(rxq) <= Cap /\ dev.rxpos <= dev.rxlen
      /\ out5 \in [1 .. PKT -> Nat] /\ Cap \in Nat /\ PKT \in Nat /\ Len(rxq) \in Nat
  BY UsbTaskAssumption DEF Types
<1>2. d \in Device /\ OnlyRx(dev, d) /\ d.rxpos <= d.rxlen
  <2>1. CASE 5 \in s
    <3>1. d = Received(dev)
      BY <2>1 DEF Unpacked
    <3>2. d \in Device /\ OnlyRx(dev, d) /\ d.rxpos = 0
      BY <1>1, <3>1, ReceivedIs
    <3> QED
      BY <3>2, DeviceFields
  <2>2. CASE 5 \notin s
    BY <1>1, <2>2 DEF Unpacked, OnlyRx, CtlSame, Ep0Same, FixedSame, StageSame
  <2> QED
    BY <2>1, <2>2
<1>3. d.rxpos \in Nat /\ d.rxlen \in Nat /\ d.rxlen <= PKT
  BY <1>1, <1>2, DeviceFields
<1>4. /\ n \in Nat /\ d.rxpos + n <= d.rxlen /\ n <= Cap - Len(rxq)
      /\ (n < d.rxlen - d.rxpos => n = Cap - Len(rxq))
  BY <1>1, <1>2, <1>3 DEF Room, Lesser
<1>5. dev' = Advanced(d, n) /\ rxq' = rxq \o SubSeq(out5, d.rxpos + 1, d.rxpos + n)
  BY DEF Receive, Unpacked, Room, Advanced
<1>6. dev' \in Device /\ OnlyRx(d, dev') /\ dev'.rxpos <= dev'.rxlen
  <2>1. /\ dev' \in Device /\ OnlyRx(d, dev')
        /\ d.rxpos + n # d.rxlen \/ d.rxlen = 0 =>
             dev'.rxlen = d.rxlen /\ dev'.rxpos = d.rxpos + n
        /\ ~ (d.rxpos + n # d.rxlen \/ d.rxlen = 0) => dev'.rxlen = 0 /\ dev'.rxpos = 0
    BY <1>2, <1>4, <1>5, AdvancedIs
  <2> QED
    BY <1>4, <2>1
<1>7. OnlyRx(dev, dev')
  BY <1>2, <1>6 DEF OnlyRx, CtlSame, Ep0Same, FixedSame, StageSame
<1>8. rxq' \in Seq(Nat) /\ Len(rxq') = Len(rxq) + n
  <2>1. out5 \in Seq(Nat) /\ Len(out5) = PKT
    BY <1>1, SeqDef, LenProperties
  <2> DEFINE t == SubSeq(out5, d.rxpos + 1, d.rxpos + n)
  <2>4. d.rxpos \in Nat /\ n \in Nat /\ d.rxpos + n <= Len(out5)
    BY <1>1, <1>3, <1>4, <2>1
  <2>2. t \in Seq(Nat) /\ Len(t) = n
    <3>1. /\ SubSeq(out5, d.rxpos + 1, d.rxpos + n) \in Seq(Nat)
          /\ Len(SubSeq(out5, d.rxpos + 1, d.rxpos + n)) = n
      BY ONLY <2>1, <2>4, StretchIs
    <3> QED
      BY ONLY <3>1
  <2>. HIDE DEF t
  <2>3. rxq \o t \in Seq(Nat) /\ Len(rxq \o t) = Len(rxq) + Len(t)
    BY <1>1, <2>2, ConcatProperties
  <2> QED
    BY <1>5, <2>2, <2>3 DEF t
<1> QED
  BY <1>1, <1>2, <1>4, <1>5, <1>6, <1>7, <1>8, SMTT(30)

\* transmit(): the notification, and a packet of n bytes or none.
Sends(d, e, n) ==
  \/ KeptAt(d, e, 4) /\ e.txzlp = d.txzlp /\ n = 0 /\ UNCHANGED <<in4, txq>>
     /\ pc' = "status"
  \/ Fired(d, e, 4, 0) /\ d.txzlp /\ ~ e.txzlp /\ n = 0 /\ in4' = <<>> /\ txq' = txq
     /\ pc' = "status"
  \/ /\ Fired(d, e, 4, n) /\ ~ d.txzlp /\ ~ e.txzlp /\ n > 0 /\ n <= PKT /\ n <= Len(txq)
     /\ n < PKT => n = Len(txq)
     /\ in4' = SubSeq(txq, 1, n) /\ txq' = SubSeq(txq, n + 1, Len(txq))
     /\ pc' = IF n = PKT THEN "zlp" ELSE "status"

LEMMA TransmitIs ==
  ASSUME Types, Transmit
  PROVE  /\ dev' \in Device /\ OnlyTx(dev, dev')
         /\ KeptAt(dev, dev', 2) \/ Fired(dev, dev', 2, PKT)
         /\ \E n \in Nat : Sends(dev, dev', n)
<1> DEFINE d == Notified(dev)
           n == Lesser(Len(txq), PKT)
<1>1. dev \in Device /\ txq \in Seq(Nat) /\ Len(txq) \in Nat /\ PKT \in Nat /\ 0 \in Nat
      /\ dev.txzlp \in BOOLEAN
  BY UsbTaskAssumption, DeviceFields DEF Types
<1>2. /\ d \in Device /\ OnlyTx(dev, d) /\ KeptAt(dev, d, 4) /\ d.txzlp = dev.txzlp
      /\ KeptAt(dev, d, 2) \/ Fired(dev, d, 2, PKT)
  BY <1>1, NotifiedIs
<1>3. n \in 0 .. PKT /\ n <= Len(txq) /\ (n < PKT => n = Len(txq))
  BY <1>1 DEF Lesser
<1>4. \/ dev' = dev /\ pc' = "status" /\ UNCHANGED <<in4, txq>>
      \/ dev' = d /\ pc' = "status" /\ UNCHANGED <<in4, txq>>
      \/ /\ 4 \notin d.busy /\ d.txzlp /\ dev' = SendZlp(d) /\ in4' = <<>> /\ txq' = txq
         /\ pc' = "status"
      \/ /\ 4 \notin d.busy /\ ~ d.txzlp /\ n > 0 /\ dev' = Arm(d, 4, n)
         /\ in4' = SubSeq(txq, 1, n) /\ txq' = SubSeq(txq, n + 1, Len(txq))
         /\ pc' = IF n = PKT THEN "zlp" ELSE "status"
  BY DEF Transmit
<1>. HIDE DEF d, n
<1>5. CASE dev' = dev /\ pc' = "status" /\ UNCHANGED <<in4, txq>>
  <2>1. Sends(dev, dev', 0)
    BY <1>5 DEF Sends, KeptAt
  <2> QED
    BY <1>1, <1>5, <2>1 DEF OnlyTx, KeptAt, CtlSame, Ep0Same, FixedSame, StageSame
<1>6. CASE dev' = d /\ pc' = "status" /\ UNCHANGED <<in4, txq>>
  <2>1. Sends(dev, dev', 0)
    BY <1>2, <1>6 DEF Sends
  <2> QED
    BY <1>1, <1>2, <1>6, <2>1
<1>7. CASE /\ 4 \notin d.busy /\ d.txzlp /\ dev' = SendZlp(d) /\ in4' = <<>> /\ txq' = txq
           /\ pc' = "status"
  <2>1. /\ dev' \in Device /\ OnlyTx(d, dev') /\ KeptAt(d, dev', 2) /\ Fired(d, dev', 4, 0)
        /\ ~ dev'.txzlp
    BY <1>2, <1>7, SendZlpIs
  <2>2. OnlyTx(dev, dev') /\ (KeptAt(dev, dev', 2) \/ Fired(dev, dev', 2, PKT))
        /\ Fired(dev, dev', 4, 0)
    BY <1>2, <2>1 DEF OnlyTx, KeptAt, Fired, CtlSame, Ep0Same, FixedSame, StageSame
  <2>3. Sends(dev, dev', 0)
    BY <1>2, <1>7, <2>1, <2>2 DEF Sends
  <2> QED
    BY <1>1, <2>1, <2>2, <2>3
<1>8. CASE /\ 4 \notin d.busy /\ ~ d.txzlp /\ n > 0 /\ dev' = Arm(d, 4, n)
           /\ in4' = SubSeq(txq, 1, n) /\ txq' = SubSeq(txq, n + 1, Len(txq))
           /\ pc' = IF n = PKT THEN "zlp" ELSE "status"
  <2>1. /\ dev' \in Device /\ OnlyTx(d, dev') /\ KeptAt(d, dev', 2) /\ Fired(d, dev', 4, n)
        /\ dev'.txzlp = d.txzlp
    BY <1>2, <1>3, <1>8, Arm4Is
  <2>2. OnlyTx(dev, dev') /\ (KeptAt(dev, dev', 2) \/ Fired(dev, dev', 2, PKT))
        /\ Fired(dev, dev', 4, n)
    BY <1>2, <2>1 DEF OnlyTx, KeptAt, Fired, CtlSame, Ep0Same, FixedSame, StageSame
  <2>3. Sends(dev, dev', n)
    BY <1>2, <1>3, <1>8, <2>1, <2>2 DEF Sends
  <2> QED
    BY <1>3, <2>1, <2>2, <2>3
<1> QED
  BY <1>4, <1>5, <1>6, <1>7, <1>8

LEMMA SendsTyped ==
  ASSUME Types, NEW d, NEW e, NEW n \in Nat, Sends(d, e, n)
  PROVE  /\ in4' \in Seq(Nat) /\ Len(in4') <= PKT /\ txq' \in Seq(Nat) /\ Len(txq') <= Cap
         /\ pc' \in {"status", "zlp"}
<1>1. /\ txq \in Seq(Nat) /\ Len(txq) <= Cap /\ in4 \in Seq(Nat) /\ Len(in4) <= PKT
      /\ Len(txq) \in Nat /\ PKT \in Nat /\ Cap \in Nat
  BY UsbTaskAssumption DEF Types
<1>2. CASE UNCHANGED <<in4, txq>> /\ pc' = "status"
  BY <1>1, <1>2
<1>3. CASE in4' = <<>> /\ txq' = txq /\ pc' = "status"
  BY <1>1, <1>3
<1>4. CASE /\ n > 0 /\ n <= PKT /\ n <= Len(txq)
           /\ in4' = SubSeq(txq, 1, n) /\ txq' = SubSeq(txq, n + 1, Len(txq))
           /\ pc' = IF n = PKT THEN "zlp" ELSE "status"
  <2>1. Len(txq) - n \in Nat /\ 0 + n <= Len(txq) /\ n + (Len(txq) - n) <= Len(txq)
    BY <1>1, <1>4
  <2>2. /\ SubSeq(txq, 0 + 1, 0 + n) \in Seq(Nat) /\ Len(SubSeq(txq, 0 + 1, 0 + n)) = n
    BY <1>1, <2>1, StretchIs
  <2>3. /\ SubSeq(txq, n + 1, n + (Len(txq) - n)) \in Seq(Nat)
        /\ Len(SubSeq(txq, n + 1, n + (Len(txq) - n))) = Len(txq) - n
    BY <1>1, <2>1, StretchIs
  <2>4. 0 + 1 = 1 /\ 0 + n = n /\ n + (Len(txq) - n) = Len(txq)
    BY <1>1, SMTT(30)
  <2>5. in4' \in Seq(Nat) /\ Len(in4') = n /\ txq' \in Seq(Nat) /\ Len(txq') = Len(txq) - n
    BY <1>4, <2>2, <2>3, <2>4, ZenonT(40)
  <2> QED
    BY <1>1, <1>4, <2>5, SMTT(30)
<1> QED
  BY <1>2, <1>3, <1>4 DEF Sends

-----------------------------------------------------------------------------
\* CtlInv is inductive.

LEMMA CtlInit == Init => CtlInv
<1> SUFFICES ASSUME Init PROVE CtlInv
  OBVIOUS
<1>1. dev = Device0 /\ 0 \in 0 .. PKT /\ PKT \in Nat /\ Cap \in Nat
  BY UsbTaskAssumption DEF Init
<1>2. Cleared \in Buffer /\ Cleared.st = "off"
  BY <1>1 DEF Cleared, Buffer
<1>3. dev \in Device
  BY <1>1, <1>2 DEF Device, Device0
<1>4. /\ dev.b[0] = Cleared /\ dev.b[1] = Cleared /\ dev.done = {} /\ dev.stage = "IDLE"
      /\ dev.devAddr = 0 /\ dev.conf = 0 /\ dev.rxlen = 0 /\ dev.rxpos = 0
  BY <1>1 DEF Device0, EP
<1>5. ~ dev.setupRec /\ ~ dev.busReset /\ ~ dev.setaddr
  BY <1>1 DEF Device0
<1>6. request \in Requests
  BY DEF Init, Requests, Kinds, HasReply
<1>7. Types
  <2>1. out5 \in [1 .. PKT -> Nat] /\ tog \in [Bulk -> {0, 1}]
    BY DEF Init
  <2>2. /\ rxq \in Seq(Nat) /\ Len(rxq) = 0 /\ txq \in Seq(Nat) /\ Len(txq) = 0
        /\ in4 \in Seq(Nat) /\ Len(in4) = 0
    BY DEF Init
  <2>3. 0 <= Cap /\ 0 <= PKT /\ dev.rxpos <= dev.rxlen
    BY <1>1, <1>4
  <2>4. /\ pc = "status" /\ ns \in BOOLEAN /\ s \in SUBSET EP /\ phase = "idle" /\ tog0 = 0
        /\ got = 0 /\ hAddr = 0 /\ hConf = 0 /\ sent = 0 /\ written = 0
    BY DEF Init
  <2> QED
    BY <1>3, <1>6, <2>1, <2>2, <2>3, <2>4 DEF Types
<1>8. HostNow.phase = "idle" /\ HostNow.a = 0 /\ HostNow.c = 0
  BY DEF Init, HostNow, Host
<1>9. Idle(dev, HostNow)
  BY <1>2, <1>4, <1>5, <1>8 DEF Idle, Rest, Unarmed, NoDone
<1>10. Ctl(dev, HostNow)
  BY <1>5, <1>8, <1>9 DEF Ctl
<1> QED
  BY <1>7, <1>10 DEF CtlInv, Init

LEMMA CtlStatus ==
  ASSUME CtlInv, Status, UNCHANGED hostVars, UNCHANGED progVars
  PROVE  CtlInv'
<1>1. /\ dev' \in Device /\ dev'.rxpos <= dev'.rxlen /\ Ctl(dev', HostNow)
      /\ pc' \in {"status", "control"} /\ ns' \in BOOLEAN
      /\ pc' = "control" /\ ns' => dev'.setupRec
  BY StatusIs
<1>2. HostNow' = HostNow
  BY DEF HostNow, hostVars, Status
<1>3. Types'
  BY <1>1 DEF CtlInv, Types, Status, hostVars, progVars
<1> QED
  BY <1>1, <1>2, <1>3 DEF CtlInv

LEMMA CtlControl ==
  ASSUME CtlInv, Control, UNCHANGED hostVars, UNCHANGED progVars
  PROVE  CtlInv'
<1>1. /\ dev' \in Device /\ dev'.rxpos <= dev'.rxlen /\ Ctl(dev', HostNow) /\ s' \in SUBSET EP
  BY ControlIs
<1>2. HostNow' = HostNow
  BY DEF HostNow, hostVars, Control
<1>3. Types' /\ pc' # "control"
  BY <1>1 DEF CtlInv, Types, Control, hostVars, progVars
<1> QED
  BY <1>1, <1>2, <1>3 DEF CtlInv

LEMMA CtlReceive ==
  ASSUME CtlInv, Receive, UNCHANGED hostVars, UNCHANGED progVars
  PROVE  CtlInv'
<1>1. /\ dev' \in Device /\ OnlyRx(dev, dev') /\ dev'.rxpos <= dev'.rxlen
      /\ rxq' \in Seq(Nat) /\ Len(rxq') <= Cap
  BY ReceiveIs DEF CtlInv
<1>2. HostNow' = HostNow
  BY SMTT(30) DEF HostNow, hostVars, Receive
<1>3. Ctl(dev', HostNow)
  BY <1>1, HostTyped, CtlKept, SMTT(30) DEF CtlInv, Types, OnlyRx
<1>4. Types' /\ pc' # "control"
  BY <1>1 DEF CtlInv, Types, Receive, hostVars, progVars
<1> QED
  BY <1>2, <1>3, <1>4 DEF CtlInv

LEMMA CtlTransmit ==
  ASSUME CtlInv, Transmit, UNCHANGED hostVars, UNCHANGED progVars
  PROVE  CtlInv'
<1>1. dev' \in Device /\ OnlyTx(dev, dev') /\ \E n \in Nat : Sends(dev, dev', n)
  BY TransmitIs DEF CtlInv
<1>2. /\ in4' \in Seq(Nat) /\ Len(in4') <= PKT /\ txq' \in Seq(Nat) /\ Len(txq') <= Cap
      /\ pc' \in {"status", "zlp"}
  BY <1>1, SendsTyped DEF CtlInv
<1>3. HostNow' = HostNow
  BY DEF HostNow, hostVars, Transmit
<1>4. Ctl(dev', HostNow)
  BY <1>1, HostTyped, CtlKept DEF CtlInv, Types, OnlyTx
<1>5. dev'.rxpos <= dev'.rxlen
  BY <1>1 DEF CtlInv, Types, OnlyTx
<1>6. Types' /\ pc' # "control"
  BY <1>1, <1>2, <1>5 DEF CtlInv, Types, Transmit, hostVars, progVars
<1> QED
  BY <1>3, <1>4, <1>6 DEF CtlInv

LEMMA CtlLastFull ==
  ASSUME CtlInv, LastFull, UNCHANGED hostVars, UNCHANGED progVars
  PROVE  CtlInv'
<1> DEFINE z == (txq = <<>>)
<1>1. dev' = [dev EXCEPT !.txzlp = z] /\ z \in BOOLEAN
  BY DEF LastFull
<1>. HIDE DEF z
<1>2. dev' \in Device /\ OnlyTx(dev, dev')
  BY <1>1, ZlpIs DEF CtlInv, Types
<1>3. HostNow' = HostNow
  BY DEF HostNow, hostVars, LastFull
<1>4. Ctl(dev', HostNow)
  BY <1>2, HostTyped, CtlKept DEF CtlInv, Types, OnlyTx
<1>5. dev'.rxpos <= dev'.rxlen
  BY <1>2 DEF CtlInv, Types, OnlyTx
<1>6. Types' /\ pc' # "control"
  BY <1>2, <1>5 DEF CtlInv, Types, LastFull, hostVars, progVars
<1> QED
  BY <1>3, <1>4, <1>6 DEF CtlInv

LEMMA CtlSendSetup ==
  ASSUME CtlInv, NEW r \in Requests, SendSetup(r)
  PROVE  CtlInv'
<1>1. dev' = Arrived(dev) /\ dev \in Device /\ dev.rxpos <= dev.rxlen
  BY DEF SendSetup, Arrived, CtlInv, Types
<1>2. dev' \in Device /\ dev'.setupRec /\ StreamSame(dev, dev')
  BY <1>1, ArrivedIs DEF BulkKept
<1>3. Ctl(dev, Host("idle", request, tog0, got, hAddr, hConf))
  BY DEF CtlInv, HostNow, SendSetup
<1>4. Ctl(dev', Host(First(r), r, 1, 0, hAddr, hConf))
  BY <1>1, <1>3, ArrivedKeeps
<1>5. HostNow' = Host(First(r), r, 1, 0, hAddr, hConf)
  BY DEF HostNow, SendSetup, First
<1>6. phase' \in {"in", "out", "statusIn"}
  BY DEF SendSetup
<1>7. dev'.rxpos <= dev'.rxlen
  BY <1>1, <1>2 DEF StreamSame
<1>8. Types'
  BY <1>2, <1>6, <1>7 DEF CtlInv, Types, SendSetup, progVars
<1> QED
  BY <1>2, <1>4, <1>5, <1>8 DEF CtlInv

\* A transaction leaves most of the types alone.
LEMMA MovedTypes ==
  ASSUME Types, NEW k \in EP, NEW n \in 0 .. PKT, dev' = Transacted(dev, k, n)
  PROVE  Moved(dev, k, n, dev') /\ dev' \in Device /\ dev'.rxpos <= dev'.rxlen
         /\ dev'.setupRec = dev.setupRec
<1>1. dev \in Device /\ dev.rxpos <= dev.rxlen
  BY DEF Types
<1>2. Moved(dev, k, n, dev')
  BY <1>1, TransactedIs
<1> QED
  BY <1>1, <1>2 DEF Moved, StreamSame, FixedSame

LEMMA CtlInToken ==
  ASSUME CtlInv, ControlInToken
  PROVE  CtlInv' /\ InTaken(dev, phase, request, tog0, got, hAddr, hConf)
<1> DEFINE n == dev.b[0].len
<1>1. /\ Types /\ dev \in Device /\ request \in Requests /\ tog0 \in {0, 1} /\ got \in Nat
      /\ hAddr \in Nat /\ hConf \in {0, 1} /\ phase \in {"in", "statusIn"}
      /\ Ctl(dev, Host(phase, request, tog0, got, hAddr, hConf)) /\ dev.b[0].st = "armed"
  BY DEF CtlInv, Types, HostNow, ControlInToken, Armed
<1>2. InTaken(dev, phase, request, tog0, got, hAddr, hConf)
  BY <1>1, InTakenKeeps
<1>3. 0 \in EP /\ n \in 0 .. PKT
  BY <1>1 DEF EP, Device, Buffer
<1>4. dev' = Transacted(dev, 0, n)
  BY DEF ControlInToken, Done, Transacted
<1>5. /\ Moved(dev, 0, n, dev') /\ dev' \in Device /\ dev'.rxpos <= dev'.rxlen
      /\ dev'.setupRec = dev.setupRec
  BY <1>1, <1>3, <1>4, MovedTypes
<1>6. /\ request' = request /\ hAddr' = hAddr
      /\ UNCHANGED <<pc, ns, s, rxq, txq, out5, in4, sent, written>>
  BY DEF ControlInToken, busVars, progVars
<1>7. CASE phase = "statusIn"
  <2>1. dev.b[0].pid = tog0 /\ n = 0 /\ got + n <= request.limit
        /\ Ctl(dev', Host(Ended(request), request, tog0, got, hAddr, ConfAfter(request, hConf)))
    BY <1>2, <1>4, <1>7 DEF InTaken
  <2>7. ~ (~ (dev.b[0].pid = tog0) \/ (phase = "statusIn" /\ n # 0) \/ got + n > request.limit)
    BY <1>1, <1>3, <2>1 DEF Requests
  <2>2. Completed /\ UNCHANGED <<tog0, got>>
    BY <1>7, <2>7, Zenon DEF ControlInToken
  <2>3. phase' = Ended(request) /\ hConf' = ConfAfter(request, hConf)
        /\ tog' = [k \in Bulk |-> IF k \in Touches(request) THEN 0 ELSE tog[k]]
    BY <2>2 DEF Completed, Ended, ConfAfter
  <2>4. HostNow' = Host(Ended(request), request, tog0, got, hAddr, ConfAfter(request, hConf))
    BY <1>6, <2>2, <2>3 DEF HostNow
  <2>5. tog' \in [Bulk -> {0, 1}] /\ hConf' \in {0, 1} /\ phase' \in {"idle", "newAddress"}
    BY <1>1, <2>3 DEF Types, Ended, ConfAfter, Requests
  <2>6. Types'
    BY <1>1, <1>5, <1>6, <2>2, <2>5 DEF Types
  <2> QED
    BY <1>2, <1>5, <1>6, <2>1, <2>4, <2>6 DEF CtlInv
<1>8. CASE phase = "in"
  <2>1. dev.b[0].pid = tog0 /\ got + n <= request.limit
    BY <1>2 DEF InTaken
  <2>2. /\ got' = got + n /\ UNCHANGED <<tog, hConf>>
        /\ IF n < PKT \/ got' = request.limit
           THEN phase' = "statusOut" /\ tog0' = 1
           ELSE phase' = phase /\ tog0' = 1 - tog0
    <3>1. ~ (~ (dev.b[0].pid = tog0) \/ (phase = "statusIn" /\ n # 0) \/ got + n > request.limit)
          /\ phase # "statusIn"
      BY <1>1, <1>3, <1>8, <2>1 DEF Requests
    <3> QED
      BY <3>1, Zenon DEF ControlInToken
  <2>3. Ctl(dev', HostNow')
    <3>1. CASE n < PKT \/ got + n = request.limit
      <4>1. Ctl(dev', Host("statusOut", request, 1, got + n, hAddr, hConf))
        BY <1>2, <1>4, <1>8, <3>1 DEF InTaken
      <4>2. HostNow' = Host("statusOut", request, 1, got + n, hAddr, hConf)
        BY <1>6, <2>2, <3>1 DEF HostNow
      <4> QED
        BY <4>1, <4>2
    <3>2. CASE ~ (n < PKT \/ got + n = request.limit)
      <4>1. Ctl(dev', Host("in", request, 1 - tog0, got + n, hAddr, hConf))
        BY <1>2, <1>4, <1>8, <3>2 DEF InTaken
      <4>2. HostNow' = Host("in", request, 1 - tog0, got + n, hAddr, hConf)
        BY <1>6, <1>8, <2>2, <3>2 DEF HostNow
      <4> QED
        BY <4>1, <4>2
    <3> QED
      BY <3>1, <3>2
  <2>4. got' \in Nat /\ tog0' \in {0, 1} /\ phase' \in {"in", "statusOut"}
    BY <1>1, <1>3, <1>8, <2>2
  <2>5. Types'
    BY <1>1, <1>5, <1>6, <2>2, <2>4 DEF Types
  <2> QED
    BY <1>2, <1>5, <1>6, <2>3, <2>5 DEF CtlInv
<1> QED
  BY <1>1, <1>7, <1>8

LEMMA CtlOutToken ==
  ASSUME CtlInv, ControlOutToken
  PROVE  CtlInv'
<1>1. /\ Types /\ dev \in Device /\ request \in Requests /\ tog0 \in {0, 1} /\ got \in Nat
      /\ hAddr \in Nat /\ hConf \in {0, 1} /\ phase \in {"out", "statusOut"}
      /\ Ctl(dev, Host(phase, request, tog0, got, hAddr, hConf)) /\ dev.b[1].st = "armed"
  BY DEF CtlInv, Types, HostNow, ControlOutToken, Armed
<1>2. OutTaken(dev, phase, request, tog0, got, hAddr, hConf)
  BY <1>1, OutTakenKeeps
<1>3. 1 \in EP /\ 0 \in 0 .. PKT /\ dev.b[1].pid = tog0
  BY <1>2, UsbTaskAssumption DEF EP, OutTaken
<1>6. /\ request' = request /\ hAddr' = hAddr /\ tog0' = tog0 /\ got' = got
      /\ UNCHANGED <<pc, ns, s, rxq, txq, out5, in4, sent, written>>
  BY DEF ControlOutToken, busVars, progVars
<1>7. CASE phase = "out"
  <2>1. /\ request.limit \in 0 .. PKT
        /\ Ctl(Transacted(dev, 1, request.limit), Host("statusIn", request, tog0, got, hAddr, hConf))
    BY <1>2, <1>7 DEF OutTaken
  <2>2. dev' = Transacted(dev, 1, request.limit)
    BY <1>7 DEF ControlOutToken, Done, Transacted
  <2>3. phase' = "statusIn" /\ UNCHANGED <<tog, hConf>>
    BY <1>3, <1>7 DEF ControlOutToken
  <2>4. HostNow' = Host("statusIn", request, tog0, got, hAddr, hConf)
    BY <1>6, <2>3 DEF HostNow
  <2>5. dev' \in Device /\ dev'.rxpos <= dev'.rxlen /\ dev'.setupRec = dev.setupRec
    BY <1>1, <1>3, <2>1, <2>2, MovedTypes
  <2>6. Types'
    BY <1>1, <1>6, <2>3, <2>5 DEF Types
  <2> QED
    BY <1>6, <2>1, <2>2, <2>4, <2>5, <2>6 DEF CtlInv
<1>8. CASE phase = "statusOut"
  <2>1. Ctl(Transacted(dev, 1, 0),
            Host(Ended(request), request, tog0, got, hAddr, ConfAfter(request, hConf)))
    BY <1>2, <1>8 DEF OutTaken
  <2>2. dev' = Transacted(dev, 1, 0)
    BY <1>8 DEF ControlOutToken, Done, Transacted
  <2>3. Completed
    BY <1>3, <1>8 DEF ControlOutToken
  <2>4. phase' = Ended(request) /\ hConf' = ConfAfter(request, hConf)
        /\ tog' = [k \in Bulk |-> IF k \in Touches(request) THEN 0 ELSE tog[k]]
    BY <2>3 DEF Completed, Ended, ConfAfter
  <2>5. HostNow' = Host(Ended(request), request, tog0, got, hAddr, ConfAfter(request, hConf))
    BY <1>6, <2>4 DEF HostNow
  <2>6. tog' \in [Bulk -> {0, 1}] /\ hConf' \in {0, 1} /\ phase' \in {"idle", "newAddress"}
    BY <1>1, <2>4 DEF Types, Ended, ConfAfter, Requests
  <2>7. dev' \in Device /\ dev'.rxpos <= dev'.rxlen /\ dev'.setupRec = dev.setupRec
    BY <1>1, <1>3, <2>2, MovedTypes
  <2>8. Types'
    BY <1>1, <1>6, <2>6, <2>7 DEF Types
  <2> QED
    BY <1>6, <2>1, <2>2, <2>5, <2>7, <2>8 DEF CtlInv
<1> QED
  BY <1>1, <1>7, <1>8

LEMMA CtlRefused ==
  ASSUME CtlInv, ControlRefused
  PROVE  CtlInv' /\ ~ Known(request, hConf)
<1>1. /\ dev \in Device /\ phase \in {"in", "out", "statusIn", "statusOut"} /\ dev.stallArm
      /\ Ctl(dev, Host(phase, request, tog0, got, hAddr, hConf))
  BY DEF CtlInv, Types, HostNow, ControlRefused
<1>2. ~ Known(request, hConf) /\ Ctl(dev, Host("idle", request, tog0, got, hAddr, hConf))
  BY <1>1, RefusedKeeps
<1>3. HostNow' = Host("idle", request, tog0, got, hAddr, hConf) /\ dev' = dev
  BY DEF HostNow, ControlRefused, taskVars
<1>4. Types'
  BY DEF CtlInv, Types, ControlRefused, taskVars, progVars
<1> QED
  BY <1>2, <1>3, <1>4 DEF CtlInv, ControlRefused, taskVars

LEMMA CtlUseAddress ==
  ASSUME CtlInv, UseAddress
  PROVE  CtlInv'
<1>1. /\ dev \in Device /\ ~ dev.setaddr
      /\ Ctl(dev, Host("newAddress", request, tog0, got, hAddr, hConf))
  BY DEF CtlInv, Types, HostNow, UseAddress
<1>2. Ctl(dev, Host("idle", request, tog0, got, request.v, hConf))
  BY <1>1, AddressUsed
<1>3. HostNow' = Host("idle", request, tog0, got, request.v, hConf) /\ dev' = dev
  BY DEF HostNow, UseAddress, taskVars
<1>4. request.v \in Nat
  BY DEF CtlInv, Types, Requests
<1>5. Types'
  BY <1>4 DEF CtlInv, Types, UseAddress, taskVars, progVars
<1> QED
  BY <1>2, <1>3, <1>5 DEF CtlInv, UseAddress, taskVars

LEMMA CtlBusReset ==
  ASSUME CtlInv, BusReset
  PROVE  CtlInv'
<1>1. dev \in Device /\ ~ dev.setupRec /\ dev' = ResetSeen(dev) /\ dev.rxpos <= dev.rxlen
  BY DEF CtlInv, Types, BusReset, ResetSeen
<1>2. /\ dev' \in Device /\ dev'.rxlen = dev.rxlen /\ dev'.rxpos = dev.rxpos
      /\ dev'.setupRec = dev.setupRec
  BY <1>1, ResetSeenIs
<1>3. Ctl(dev', Host("reset", request, tog0, got, 0, 0))
  BY <1>1, ResetKeeps
<1>4. HostNow' = Host("reset", request, tog0, got, 0, 0)
  BY DEF HostNow, BusReset, busVars
<1>5. Types'
  BY <1>1, <1>2 DEF CtlInv, Types, BusReset, busVars, progVars
<1> QED
  BY <1>1, <1>2, <1>3, <1>4, <1>5 DEF CtlInv, BusReset, busVars

LEMMA CtlRecovered ==
  ASSUME CtlInv, Recovered
  PROVE  CtlInv'
<1>1. /\ dev \in Device /\ ~ dev.busReset
      /\ Ctl(dev, Host("reset", request, tog0, got, hAddr, hConf))
  BY DEF CtlInv, Types, HostNow, Recovered
<1>2. Ctl(dev, Host("idle", request, tog0, got, hAddr, hConf))
  BY <1>1, RecoveredKeeps
<1>3. HostNow' = Host("idle", request, tog0, got, hAddr, hConf) /\ dev' = dev
  BY DEF HostNow, Recovered, taskVars
<1>4. Types'
  BY DEF CtlInv, Types, Recovered, taskVars, progVars
<1> QED
  BY <1>2, <1>3, <1>4 DEF CtlInv, Recovered, taskVars

\* A transaction on another endpoint does not disturb endpoint 0.
LEMMA MovedBulk ==
  ASSUME NEW d, NEW e, NEW k \in Bulk, NEW n, Moved(d, k, n, e)
  PROVE  CtlSame(d, e)
<1>1. 0 \in EP \ {k} /\ 1 \in EP \ {k}
  BY DEF EP, Bulk
<1> QED
  BY <1>1 DEF Moved, CtlSame, Ep0Same

LEMMA CtlBulk ==
  ASSUME CtlInv, NEW k \in Bulk, NEW n \in 0 .. PKT, dev' = Transacted(dev, k, n),
         UNCHANGED <<phase, request, tog0, got, hAddr, hConf>>
  PROVE  dev' \in Device /\ dev'.rxpos <= dev'.rxlen /\ dev'.setupRec = dev.setupRec
         /\ Ctl(dev', HostNow')
<1>1. k \in EP /\ Types /\ dev \in Device
  BY DEF EP, Bulk, CtlInv, Types
<1>2. Moved(dev, k, n, dev') /\ dev' \in Device /\ dev'.rxpos <= dev'.rxlen
      /\ dev'.setupRec = dev.setupRec
  BY <1>1, MovedTypes
<1>3. CtlSame(dev, dev')
  BY <1>2, MovedBulk
<1>4. HostNow' = HostNow
  BY DEF HostNow
<1>5. Ctl(dev', HostNow)
  BY <1>1, <1>2, <1>3, HostTyped, CtlKept DEF CtlInv
<1> QED
  BY <1>2, <1>4, <1>5

LEMMA CtlPoll ==
  ASSUME CtlInv, PollNotification
  PROVE  CtlInv'
<1>1. 2 \in Bulk /\ dev.b[2].len \in 0 .. PKT
  BY DEF CtlInv, Types, Device, Buffer, EP, Bulk
<1>2. dev' = Transacted(dev, 2, dev.b[2].len)
      /\ UNCHANGED <<phase, request, tog0, got, hAddr, hConf>>
  BY DEF PollNotification, Done, Transacted, busVars
<1>3. /\ dev' \in Device /\ dev'.rxpos <= dev'.rxlen /\ dev'.setupRec = dev.setupRec
      /\ Ctl(dev', HostNow')
  BY <1>1, <1>2, CtlBulk
<1>4. tog' \in [Bulk -> {0, 1}]
  BY <1>1 DEF PollNotification, CtlInv, Types
<1>5. Types'
  BY <1>3, <1>4 DEF PollNotification, CtlInv, Types, busVars, progVars
<1> QED
  BY <1>3, <1>5 DEF CtlInv, PollNotification, busVars

LEMMA CtlBulkIn ==
  ASSUME CtlInv, BulkIn
  PROVE  CtlInv'
<1>1. 4 \in Bulk /\ dev.b[4].len \in 0 .. PKT
  BY DEF CtlInv, Types, Device, Buffer, EP, Bulk
<1>2. dev' = Transacted(dev, 4, dev.b[4].len)
      /\ UNCHANGED <<phase, request, tog0, got, hAddr, hConf>>
  BY DEF BulkIn, Done, Transacted, busVars
<1>3. /\ dev' \in Device /\ dev'.rxpos <= dev'.rxlen /\ dev'.setupRec = dev.setupRec
      /\ Ctl(dev', HostNow')
  BY <1>1, <1>2, CtlBulk
<1>4. tog' \in [Bulk -> {0, 1}]
  <2>1. tog' = tog \/ tog' = [tog EXCEPT ![4] = 1 - @]
    BY DEF BulkIn
  <2>2. tog \in [Bulk -> {0, 1}]
    BY DEF CtlInv, Types
  <2> QED
    BY <2>1, <2>2, <1>1
<1>5. Types'
  BY <1>3, <1>4 DEF BulkIn, CtlInv, Types, busVars, progVars
<1> QED
  BY <1>3, <1>5 DEF CtlInv, BulkIn, busVars

LEMMA CtlBulkOut ==
  ASSUME CtlInv, NEW n \in 0 .. PKT, BulkOut(n)
  PROVE  CtlInv'
<1>1. 5 \in Bulk /\ n \in Nat
  BY DEF Bulk
<1>2. UNCHANGED <<phase, request, tog0, got, hAddr, hConf>>
  BY DEF BulkOut, busVars
<1>3. tog' \in [Bulk -> {0, 1}] /\ sent' \in Nat
  <2>1. tog' = [tog EXCEPT ![5] = 1 - @] /\ sent' = sent + n
    BY DEF BulkOut
  <2>2. tog \in [Bulk -> {0, 1}] /\ sent \in Nat
    BY DEF CtlInv, Types
  <2>3. tog' \in [Bulk -> {0, 1}]
    BY <2>1, <2>2, <1>1
  <2> QED
    BY <2>1, <2>2, <2>3, <1>1
<1>4. CASE dev.b[5].pid # tog[5]
  <2>1. UNCHANGED <<dev, out5>>
    BY <1>4 DEF BulkOut
  <2>2. Types'
    BY <1>2, <1>3, <2>1 DEF BulkOut, CtlInv, Types, busVars, progVars
  <2>3. HostNow' = HostNow
    BY <1>2 DEF HostNow
  <2> QED
    BY <2>1, <2>2, <2>3 DEF CtlInv, BulkOut, busVars
<1>5. CASE dev.b[5].pid = tog[5]
  <2>1. dev' = Transacted(dev, 5, n)
        /\ out5' = [i \in 1 .. PKT |-> IF i <= n THEN sent + i ELSE out5[i]]
    BY <1>5 DEF BulkOut, Done, Transacted
  <2>2. /\ dev' \in Device /\ dev'.rxpos <= dev'.rxlen /\ dev'.setupRec = dev.setupRec
        /\ Ctl(dev', HostNow')
    BY <1>1, <1>2, <2>1, CtlBulk
  <2>3. out5' \in [1 .. PKT -> Nat]
    BY <2>1, UsbTaskAssumption DEF CtlInv, Types
  <2>4. Types'
    BY <1>2, <1>3, <2>2, <2>3 DEF BulkOut, CtlInv, Types, busVars, progVars
  <2> QED
    BY <2>2, <2>4 DEF CtlInv, BulkOut, busVars
<1> QED
  BY <1>4, <1>5

LEMMA CtlWrite ==
  ASSUME CtlInv, Write
  PROVE  CtlInv'
<1>1. PICK n \in 1 .. Lesser(MaxIn - written, Left) :
         /\ Len(txq) + n <= Cap /\ written' = written + n
         /\ txq' = txq \o [i \in 1 .. n |-> written + i]
  BY DEF Write
<1>2. n \in Nat /\ written \in Nat /\ txq \in Seq(Nat) /\ Len(txq) \in Nat
  BY DEF CtlInv, Types
<1> DEFINE t == [i \in 1 .. n |-> written + i]
<1>3. t \in Seq(Nat) /\ Len(t) = n
  BY <1>2, IsASeq
<1>. HIDE DEF t
<1>4. txq \o t \in Seq(Nat) /\ Len(txq \o t) = Len(txq) + n
  BY <1>2, <1>3, ConcatProperties
<1>5. txq' \in Seq(Nat) /\ Len(txq') <= Cap /\ written' \in Nat
  BY <1>1, <1>2, <1>4 DEF t
<1>6. HostNow' = HostNow
  BY DEF HostNow, Write, hostVars
<1>7. Types'
  BY <1>5 DEF CtlInv, Types, Write, hostVars
<1> QED
  BY <1>6, <1>7 DEF CtlInv, Write

LEMMA CtlRead ==
  ASSUME CtlInv, Read
  PROVE  CtlInv'
<1>1. rxq \in Seq(Nat) /\ rxq # <<>> /\ rxq' = Tail(rxq) /\ Len(rxq) <= Cap /\ Cap \in Nat
  BY UsbTaskAssumption DEF CtlInv, Types, Read
<1>2. rxq' \in Seq(Nat) /\ Len(rxq') = Len(rxq) - 1 /\ Len(rxq) \in Nat
  BY <1>1, HeadTailProperties
<1>3. HostNow' = HostNow
  BY DEF HostNow, Read, hostVars
<1>4. Types'
  BY <1>1, <1>2 DEF CtlInv, Types, Read, hostVars
<1> QED
  BY <1>3, <1>4 DEF CtlInv, Read

LEMMA CtlStill ==
  ASSUME CtlInv, UNCHANGED vars
  PROVE  CtlInv'
<1>1. HostNow' = HostNow
  BY DEF HostNow, vars, taskVars, hostVars
<1>2. Types'
  BY DEF CtlInv, Types, vars, taskVars, hostVars, progVars
<1> QED
  BY <1>1, <1>2 DEF CtlInv, vars, taskVars

LEMMA CtlNext == CtlInv /\ [Next]_vars => CtlInv'
<1> SUFFICES ASSUME CtlInv, [Next]_vars PROVE CtlInv'
  OBVIOUS
<1>1. CASE Core1
  <2>1. UNCHANGED hostVars /\ UNCHANGED progVars
    BY <1>1 DEF Core1
  <2> QED
    BY <1>1, <2>1, CtlStatus, CtlControl, CtlReceive, CtlTransmit, CtlLastFull DEF Core1, Task
<1>2. ASSUME NEW r \in IF hConf = 0 THEN Enumeration ELSE InUse, SendSetup(r)
      PROVE  CtlInv'
  <2>1. r \in Requests
    BY UsbConsoleAssumption
  <2> QED
    BY <1>2, <2>1, CtlSendSetup
<1>3. CASE HostControl
  BY <1>3, CtlInToken, CtlOutToken, CtlRefused, CtlUseAddress, CtlRecovered DEF HostControl
<1>4. CASE BusReset
  BY <1>4, CtlBusReset
<1>5. CASE PollNotification \/ BulkIn \/ \E n \in 0 .. PKT : BulkOut(n)
  BY <1>5, CtlPoll, CtlBulkIn, CtlBulkOut
<1>6. CASE Write \/ Read
  BY <1>6, CtlWrite, CtlRead
<1>7. CASE UNCHANGED vars
  BY <1>7, CtlStill
<1> QED
  BY <1>1, <1>2, <1>3, <1>4, <1>5, <1>6, <1>7 DEF Next

LEMMA CtlAlways == Spec => []CtlInv
BY CtlInit, CtlNext, PTL DEF Spec

(***************************************************************************)
(* Every variable has its type.                                            *)
(***************************************************************************)
THEOREM UsbTypeCorrect == Spec => []TypeOK
<1>1. CtlInv => TypeOK
  BY DEF CtlInv, Types, TypeOK
<1> QED
  BY <1>1, CtlAlways, PTL

(***************************************************************************)
(* task() answers every control transfer within the protocol, whatever      *)
(* requests and bus resets come, in whatever order with its own steps:       *)
(* toggles, empty status packets, replies no longer than asked for.          *)
(***************************************************************************)
THEOREM UsbControlConforms == Spec => []ControlConforms
<1>1. CtlInv => ControlConforms
  BY DEF CtlInv, Types, ControlConforms
<1> QED
  BY <1>1, CtlAlways, PTL

(***************************************************************************)
(* The host enters the status stage of a read with the whole reply, for     *)
(* every packet size and every length setup() sends.                        *)
(***************************************************************************)
THEOREM UsbReplyWhole == Spec => []ReplyWhole
<1>1. CtlInv => ReplyWhole
  <2> SUFFICES ASSUME CtlInv, phase = "statusOut"
               PROVE  got = Lesser(request.v, request.limit)
    BY DEF ReplyWhole
  <2> DEFINE h == HostNow
  <2>1. h.phase = "statusOut" /\ h.r = request /\ h.g = got
    BY DEF HostNow, Host
  <2>2. Ctl(dev, h)
    BY DEF CtlInv
  <2>. HIDE DEF h
  <2>3. Served(dev, h) /\ h.phase # First(h.r)
    BY <2>1, <2>2 DEF Ctl, Unread, First
  <2>4. ReadAll(dev, h)
    BY <2>1, <2>3 DEF Served, Refused, Reading, Line, Acked, Stuck
  <2> QED
    BY <2>1, <2>4 DEF ReadAll, Total
<1> QED
  BY <1>1, CtlAlways, PTL

\* Outside the pauses the firmware has the address and the configuration the
\* host believes in.
LEMMA AddressKnown ==
  ASSUME NEW d, NEW h \in Hosts, Ctl(d, h), h.phase \notin {"newAddress", "reset"}
  PROVE  d.devAddr = h.a /\ (h.phase = "idle" => d.conf = h.c)
<1>1. h.phase \in {"idle", "in", "out", "statusIn", "statusOut", "newAddress", "reset"}
  BY DEF Hosts
<1> QED
  BY <1>1 DEF Ctl, Idle, Unread, Served

(***************************************************************************)
(* Between transfers host and firmware agree on address and configuration.  *)
(***************************************************************************)
THEOREM UsbSidesAgree == Spec => []SidesAgree
<1>1. CtlInv => SidesAgree
  BY HostTyped, AddressKnown DEF CtlInv, SidesAgree, HostNow, Host
<1> QED
  BY <1>1, CtlAlways, PTL

(***************************************************************************)
(* The controller answers to a new address only when the host has seen the  *)
(* status stage of SET_ADDRESS.                                            *)
(***************************************************************************)
THEOREM UsbAddressAfterStatus == Spec => AddressAfterStatus
<1> DEFINE A == dev'.devAddr # dev.devAddr /\ dev'.devAddr # 0 => phase \in {"newAddress", "reset"}
<1>1. ASSUME CtlInv, [Next]_vars
      PROVE  A
  <2>1. dev \in Device /\ HostNow \in Hosts /\ Ctl(dev, HostNow) /\ HostNow.phase = phase
        /\ Types
    BY <1>1, HostTyped DEF CtlInv, Types
  <2>2. ASSUME Ctl(dev', HostNow) PROVE A
    BY <2>1, <2>2, AddressKnown
  <2>3. ASSUME dev'.devAddr = dev.devAddr PROVE A
    BY <2>3
  <2>. HIDE DEF A
  <2>4. CASE Core1
    <3>1. ASSUME Status PROVE A
      BY <1>1, <2>2, <3>1, StatusIs
    <3>2. ASSUME Control PROVE A
      BY <1>1, <2>2, <3>2, ControlIs
    <3>3. ASSUME Receive PROVE A
      BY <2>1, <2>3, <3>3, ReceiveIs DEF OnlyRx, CtlSame, StageSame
    <3>4. ASSUME Transmit PROVE A
      BY <2>1, <2>3, <3>4, TransmitIs DEF OnlyTx, CtlSame, StageSame
    <3>5. ASSUME LastFull PROVE A
      <4>1. dev'.devAddr = dev.devAddr
        BY <2>1, <3>5 DEF LastFull, Device
      <4> QED
        BY <2>3, <4>1
    <3> QED
      BY <2>4, <3>1, <3>2, <3>3, <3>4, <3>5 DEF Core1, Task
  <2>5. ASSUME NEW r \in IF hConf = 0 THEN Enumeration ELSE InUse, SendSetup(r)
        PROVE  A
    <3>1. dev'.devAddr = dev.devAddr
      BY <2>1, <2>5 DEF SendSetup, Device
    <3> QED
      BY <2>3, <3>1
  <2>6. ASSUME NEW k \in EP, NEW n, dev' = Done(k, n)
        PROVE  A
    <3>1. dev'.devAddr = dev.devAddr
      BY <2>1, <2>6 DEF Done, Device
    <3> QED
      BY <2>3, <3>1
  <2>7. CASE HostControl
    <3>1. ASSUME ControlInToken PROVE A
      BY <2>6, <3>1 DEF ControlInToken, EP
    <3>2. ASSUME ControlOutToken PROVE A
      BY <2>6, <3>2 DEF ControlOutToken, EP
    <3>3. ASSUME ControlRefused \/ UseAddress \/ Recovered PROVE A
      BY <2>3, <3>3 DEF ControlRefused, UseAddress, Recovered, taskVars
    <3> QED
      BY <2>7, <3>1, <3>2, <3>3 DEF HostControl
  <2>8. CASE BusReset
    <3>1. dev'.devAddr = dev.devAddr
      BY <2>1, <2>8 DEF BusReset, Device
    <3> QED
      BY <2>3, <3>1
  <2>9. CASE PollNotification \/ BulkIn \/ \E n \in 0 .. PKT : BulkOut(n)
    <3>1. dev' = dev \/ \E k \in EP : \E n : dev' = Done(k, n)
      BY <2>9 DEF PollNotification, BulkIn, BulkOut, EP
    <3> QED
      BY <2>3, <2>6, <3>1
  <2>10. CASE Write \/ Read \/ UNCHANGED vars
    BY <2>3, <2>10 DEF Write, Read, vars, taskVars
  <2> QED
    BY <1>1, <2>4, <2>5, <2>7, <2>8, <2>9, <2>10 DEF Next
<1>2. CtlInv /\ [Next]_vars => [A]_vars
  BY <1>1
<1> QED
  BY <1>2, CtlAlways, PTL DEF Spec, AddressAfterStatus

(***************************************************************************)
(* setup() refuses no request it knows when the device is configured.       *)
(***************************************************************************)
THEOREM UsbKnownServed == Spec => KnownServed
<1>1. CtlInv /\ [Next]_vars => [ControlRefused => ~ Allowed(request)]_vars
  <2> SUFFICES ASSUME CtlInv, ControlRefused PROVE ~ Allowed(request)
    OBVIOUS
  <2>1. ~ Known(request, hConf) /\ request \in Requests /\ hConf \in {0, 1}
    BY CtlRefused DEF CtlInv, Types
  <2> QED
    BY <2>1 DEF Known, Allowed, Requests
<1> QED
  BY <1>1, CtlAlways, PTL DEF Spec, KnownServed

-----------------------------------------------------------------------------
\* The other endpoints.  The toggle the next packet of endpoint k has: 0 when
\* setup() has restarted it and the host has not seen the status stage yet.
Expect(k) ==
  IF phase \notin {"idle", "reset"} /\ ~ dev.setupRec /\ k \in Touches(request)
  THEN 0 ELSE tog[k]

\* The host uses an endpoint only when the firmware has the configuration set.
LEMMA UsableIs ==
  ASSUME CtlInv, NEW k \in Bulk, Usable(k)
  PROVE  dev.conf = 1 /\ phase # "reset" /\ Expect(k) = tog[k]
<1>1. /\ Types /\ Ctl(dev, HostNow) /\ HostNow.phase = phase /\ HostNow.r = request
      /\ HostNow.c = hConf /\ hConf = 1 /\ phase # "reset"
      /\ phase = "idle" \/ k \notin Touches(request)
  BY DEF CtlInv, HostNow, Host, Usable
<1>2. Expect(k) = tog[k]
  BY <1>1 DEF Expect
<1>3. phase # "idle" => request.kind # "SetConfig"
  BY <1>1 DEF Touches
<1>4. phase \in {"idle", "newAddress", "in", "out", "statusIn", "statusOut"}
  BY <1>1 DEF Types
<1>5. CASE phase = "idle" \/ phase = "newAddress"
  BY <1>1, <1>2, <1>5 DEF Ctl, Idle, NewAddress
<1>6. CASE phase \in {"in", "out", "statusIn", "statusOut"}
  <2>1. Unread(dev, HostNow) \/ Served(dev, HostNow)
    BY <1>1, <1>6 DEF Ctl
  <2>2. dev.conf = hConf
    BY <1>1, <1>3, <1>6, <2>1 DEF Unread, Served, Refused
  <2> QED
    BY <1>1, <1>2, <2>2
<1> QED
  BY <1>4, <1>5, <1>6

\* A transaction on endpoint 0 leaves the others as they are.
LEMMA MovedControl ==
  ASSUME NEW d, NEW e, NEW k \in {0, 1}, NEW n, Moved(d, k, n, e)
  PROVE  BulkKept(d, e) /\ FixedSame(d, e)
<1>1. \A j \in Bulk : j \in EP \ {k}
  BY DEF EP, Bulk
<1> QED
  BY <1>1 DEF Moved, BulkKept, BulkSame

\* The steps of the host on endpoint 0 change none of them, nor the toggles
\* they have next.
HostMoved ==
  /\ BulkKept(dev, dev') /\ FixedSame(dev, dev') /\ phase' # "reset"
  /\ UNCHANGED <<pc, s, out5, in4, rxq, txq, sent, written, readUpTo, hostGot, partial,
                 request, resets>>
  /\ phase # "reset" => \A k \in Bulk : dev.conf = 1 => Expect(k)' = Expect(k)
  /\ phase = "reset" => dev.conf = 0 /\ dev.done = {} /\ dev' = dev
  /\ dev.setupRec => hConf' = hConf

\* The end of a transfer.
LEMMA CompletedIs ==
  ASSUME CtlInv, Completed, request' = request, phase \in {"statusIn", "statusOut"},
         ~ dev.setupRec, dev'.setupRec = dev.setupRec
  PROVE  phase' # "reset" /\ \A k \in Bulk : Expect(k)' = Expect(k)
<1>1. phase' = (IF request.kind = "SetAddress" THEN "newAddress" ELSE "idle")
      /\ tog' = [k \in Bulk |-> IF k \in Touches(request) THEN 0 ELSE tog[k]]
  BY DEF Completed
<1>2. request.kind = "SetAddress" => Touches(request) = {}
  BY DEF Touches
<1>3. ASSUME NEW k \in Bulk PROVE Expect(k)' = Expect(k)
  <2>1. Expect(k) = IF k \in Touches(request) THEN 0 ELSE tog[k]
    BY DEF Expect
  <2>2. Expect(k)' = tog'[k]
    BY <1>1, <1>2 DEF Expect
  <2> QED
    BY <1>1, <2>1, <2>2
<1> QED
  BY <1>1, <1>3

\* A buffer of endpoint 0 is armed only for a request that has been seen.
LEMMA ArmedSeen ==
  ASSUME CtlInv, phase \in {"in", "out", "statusIn", "statusOut"},
         dev.b[0].st = "armed" \/ dev.b[1].st = "armed"
  PROVE  ~ dev.setupRec
<1>1. Ctl(dev, HostNow) /\ HostNow.phase = phase
  BY DEF CtlInv, HostNow, Host
<1>2. Unread(dev, HostNow) \/ Served(dev, HostNow)
  BY <1>1 DEF Ctl
<1> QED
  BY <1>2 DEF Unread, Rest, Unarmed, Served

\* A step that neither ends a transfer nor begins one.
LEMMA ExpectKept ==
  ASSUME phase \notin {"idle", "reset"}, phase' \notin {"idle", "reset"},
         request' = request, tog' = tog, dev'.setupRec = dev.setupRec
  PROVE  \A k \in Bulk : Expect(k)' = Expect(k)
BY DEF Expect

LEMMA InTokenMoves ==
  ASSUME CtlInv, ControlInToken
  PROVE  HostMoved
<1> DEFINE n == dev.b[0].len
<1>1. /\ Types /\ dev \in Device /\ request \in Requests /\ got \in Nat
      /\ phase \in {"in", "statusIn"} /\ dev.b[0].st = "armed"
  BY DEF CtlInv, Types, ControlInToken, Armed
<1>2. InTaken(dev, phase, request, tog0, got, hAddr, hConf)
  BY CtlInToken
<1>3. 0 \in EP /\ n \in 0 .. PKT
  BY <1>1 DEF EP, Device, Buffer
<1>4. dev' = Transacted(dev, 0, n)
  BY DEF ControlInToken, Done, Transacted
<1>5. Moved(dev, 0, n, dev')
  BY <1>1, <1>3, <1>4, MovedTypes
<1>6. BulkKept(dev, dev') /\ FixedSame(dev, dev') /\ dev'.setupRec = dev.setupRec
  BY <1>5, MovedControl DEF FixedSame
<1>7. UNCHANGED <<pc, s, out5, in4, rxq, txq, sent, written, readUpTo, hostGot, partial,
                  request, resets>>
  BY DEF ControlInToken, busVars, progVars
<1>8. ~ dev.setupRec
  BY <1>1, ArmedSeen
<1>9. phase' # "reset" /\ \A k \in Bulk : Expect(k)' = Expect(k)
  <2>1. ~ (~ (dev.b[0].pid = tog0) \/ (phase = "statusIn" /\ n # 0) \/ got + n > request.limit)
    BY <1>1, <1>2, <1>3 DEF InTaken, Requests
  <2>2. CASE phase = "statusIn"
    <3>1. Completed
      BY <2>1, <2>2, Zenon DEF ControlInToken
    <3> QED
      BY <1>6, <1>7, <1>8, <2>2, <3>1, CompletedIs
  <2>3. CASE phase = "in"
    <3>1. phase # "statusIn"
      BY <2>3
    <3>2. UNCHANGED tog /\ (phase' = "statusOut" \/ phase' = phase)
      <4>1. /\ UNCHANGED <<tog, hConf>>
            /\ IF n < PKT \/ got' = request.limit
               THEN phase' = "statusOut" /\ tog0' = 1
               ELSE phase' = phase /\ tog0' = 1 - tog0
        BY <2>1, <3>1, Zenon DEF ControlInToken
      <4> QED
        BY <4>1
    <3> QED
      BY <1>6, <1>7, <2>3, <3>2, ExpectKept
  <2> QED
    BY <1>1, <2>2, <2>3
<1> QED
  BY <1>1, <1>6, <1>7, <1>8, <1>9 DEF HostMoved

LEMMA OutTokenMoves ==
  ASSUME CtlInv, ControlOutToken
  PROVE  HostMoved
<1>1. /\ Types /\ dev \in Device /\ request \in Requests /\ tog0 \in {0, 1} /\ got \in Nat
      /\ hAddr \in Nat /\ hConf \in {0, 1} /\ phase \in {"out", "statusOut"}
      /\ Ctl(dev, Host(phase, request, tog0, got, hAddr, hConf)) /\ dev.b[1].st = "armed"
  BY DEF CtlInv, Types, HostNow, ControlOutToken, Armed
<1>2. OutTaken(dev, phase, request, tog0, got, hAddr, hConf)
  BY <1>1, OutTakenKeeps
<1>3. 1 \in EP /\ 0 \in 0 .. PKT /\ dev.b[1].pid = tog0 /\ (phase = "out" => request.limit \in 0 .. PKT)
  BY <1>2, UsbTaskAssumption DEF EP, OutTaken
<1>4. PICK n \in 0 .. PKT : dev' = Transacted(dev, 1, n)
  BY <1>1, <1>3 DEF ControlOutToken, Done, Transacted
<1>5. Moved(dev, 1, n, dev')
  BY <1>1, <1>3, <1>4, MovedTypes
<1>6. BulkKept(dev, dev') /\ FixedSame(dev, dev') /\ dev'.setupRec = dev.setupRec
  BY <1>5, MovedControl DEF FixedSame
<1>7. UNCHANGED <<pc, s, out5, in4, rxq, txq, sent, written, readUpTo, hostGot, partial,
                  request, resets>>
  BY DEF ControlOutToken, busVars, progVars
<1>8. ~ dev.setupRec
  BY <1>1, ArmedSeen
<1>9. phase' # "reset" /\ \A k \in Bulk : Expect(k)' = Expect(k)
  <2>2. CASE phase = "statusOut"
    <3>1. Completed
      BY <1>3, <2>2 DEF ControlOutToken
    <3> QED
      BY <1>6, <1>7, <1>8, <2>2, <3>1, CompletedIs
  <2>3. CASE phase = "out"
    <3>1. UNCHANGED tog /\ phase' = "statusIn"
      BY <1>3, <2>3 DEF ControlOutToken
    <3> QED
      BY <1>6, <1>7, <2>3, <3>1, ExpectKept
  <2> QED
    BY <1>1, <2>2, <2>3
<1> QED
  BY <1>1, <1>6, <1>7, <1>8, <1>9 DEF HostMoved

LEMMA SameKept ==
  ASSUME NEW d
  PROVE  BulkKept(d, d) /\ FixedSame(d, d)
BY DEF BulkKept, BulkSame, StreamSame, FixedSame

LEMMA HostControlIs ==
  ASSUME CtlInv, HostControl
  PROVE  HostMoved
<1>1. CASE ControlRefused
  <2>1. /\ phase \in {"in", "out", "statusIn", "statusOut"} /\ phase' = "idle"
        /\ UNCHANGED <<dev, request, tog, hConf>>
        /\ UNCHANGED <<pc, s, out5, in4, rxq, txq, sent, written, readUpTo, hostGot, partial,
                       request, resets>>
    BY <1>1 DEF ControlRefused, taskVars, progVars
  <2>2. ~ Known(request, hConf) /\ Ctl(dev', HostNow') /\ HostNow'.phase = "idle"
        /\ HostNow'.c = hConf
    BY <1>1, <2>1, CtlRefused DEF CtlInv, HostNow, Host
  <2>3. dev.conf = hConf
    BY <2>1, <2>2 DEF Ctl, Idle
  <2>4. dev.conf = 1 => Touches(request) = {}
    BY <2>2, <2>3 DEF Known, Touches
  <2>5. ASSUME NEW k \in Bulk, dev.conf = 1 PROVE Expect(k)' = Expect(k)
    BY <2>1, <2>4, <2>5 DEF Expect
  <2> QED
    BY <2>1, <2>5, SameKept DEF HostMoved
<1>2. CASE UseAddress
  <2>1. /\ phase = "newAddress" /\ phase' = "idle" /\ UNCHANGED <<dev, request, tog, hConf>>
        /\ UNCHANGED <<pc, s, out5, in4, rxq, txq, sent, written, readUpTo, hostGot, partial,
                       request, resets>>
    BY <1>2 DEF UseAddress, taskVars, progVars
  <2>2. request.kind = "SetAddress"
    BY <2>1 DEF CtlInv, Ctl, NewAddress, HostNow, Host
  <2>3. ASSUME NEW k \in Bulk PROVE Expect(k)' = Expect(k)
    BY <2>1, <2>2 DEF Expect, Touches
  <2> QED
    BY <2>1, <2>3, SameKept DEF HostMoved
<1>3. CASE Recovered
  <2>1. /\ phase = "reset" /\ phase' = "idle" /\ UNCHANGED <<dev, request, tog, hConf>>
        /\ ~ dev.busReset /\ dev.done = {}
        /\ UNCHANGED <<pc, s, out5, in4, rxq, txq, sent, written, readUpTo, hostGot, partial,
                       request, resets>>
    BY <1>3 DEF Recovered, taskVars, progVars
  <2>2. dev.conf = 0
    BY <2>1 DEF CtlInv, Ctl, AfterReset, HostNow, Host
  <2> QED
    BY <2>1, <2>2, SameKept DEF HostMoved
<1> QED
  BY <1>1, <1>2, <1>3, InTokenMoves, OutTokenMoves DEF HostControl

\* control() clears the completions and restarts the endpoints of ks, those of
\* a request it serves.
Polls(ks) ==
  /\ \A k \in Bulk : k \notin dev'.done /\ (k \in s' <=> k \in dev.done)
  /\ \A k \in ks : Agrees(dev', k, 0) /\ (k # 5 => dev'.b[k].st # "armed")
  /\ \A k \in Bulk \ ks : /\ dev'.b[k] = dev.b[k] /\ dev'.pid[k] = dev.pid[k]
                          /\ k \in dev.busy /\ k \notin dev.done => k \in dev'.busy
  /\ IF 5 \in ks THEN dev'.rxlen = 0 /\ dev'.rxpos = 0
     ELSE dev'.rxlen = dev.rxlen /\ dev'.rxpos = dev.rxpos
  /\ dev'.conf = dev.conf \/ ks = Bulk
  /\ ks # {} => dev.setupRec /\ phase \notin {"idle", "reset"} /\ ks = Touches(request)
  /\ dev'.setupRec => dev.setupRec
  /\ dev'.conf = 1 => \A k \in Bulk : Expect(k)' = IF k \in ks THEN 0 ELSE Expect(k)

\* When a SETUP has been received the host is waiting for its answer.
LEMMA SetupWaits ==
  ASSUME CtlInv, dev.setupRec
  PROVE  phase \notin {"idle", "reset"} /\ Unread(dev, HostNow) /\ dev.conf = hConf
<1>1. /\ Ctl(dev, HostNow) /\ HostNow.phase = phase /\ HostNow.c = hConf
      /\ phase \in {"idle", "in", "out", "statusIn", "statusOut", "newAddress", "reset"}
  BY DEF CtlInv, Types, HostNow, Host
<1>2. phase \notin {"idle", "reset", "newAddress"}
  BY <1>1 DEF Ctl, Idle, NewAddress
<1>3. Unread(dev, HostNow)
  BY <1>1, <1>2 DEF Ctl, Served
<1> QED
  BY <1>1, <1>2, <1>3 DEF Unread

LEMMA ControlBulk ==
  ASSUME CtlInv, Control, UNCHANGED hostVars
  PROVE  \E ks \in SUBSET Bulk : Polls(ks)
<1>1. /\ dev \in Device /\ request \in Requests /\ UNCHANGED <<phase, request, tog>>
      /\ {0, 1} \in SUBSET EP /\ dev.done \in SUBSET EP
      /\ \A k \in Bulk : k \notin {0, 1}
  BY DeviceFields DEF CtlInv, Types, Control, hostVars, EP, Bulk
<1>2. CASE /\ ns /\ dev.setupRec /\ SetupDone(Polled(dev, {0, 1}), dev', request)
           /\ s' = dev.done \ {0, 1}
  <2> DEFINE p == Polled(dev, {0, 1})
  <2>1. /\ p \in Device /\ p.b = dev.b /\ p.pid = dev.pid /\ p.done = {}
        /\ p.busy = dev.busy \ {0, 1} /\ p.conf = dev.conf
        /\ p.rxlen = dev.rxlen /\ p.rxpos = dev.rxpos
    BY <1>1, PolledIs DEF FixedSame, StreamSame
  <2>2. SetupDone(p, dev', request)
    BY <1>2
  <2>. HIDE DEF p
  <2>3. phase \notin {"idle", "reset"} /\ ~ dev'.setupRec
    BY <1>2, <2>2, SetupWaits DEF SetupDone
  <2>4. dev'.conf = IF request.kind = "SetConfig" THEN request.v ELSE dev.conf
    BY <2>1, <2>2 DEF SetupDone
  <2>5. ASSUME NEW k \in Bulk
        PROVE  /\ Expect(k) = tog[k]
               /\ Expect(k)' = IF k \in Touches(request) THEN 0 ELSE tog[k]
    BY <1>1, <1>2, <2>3 DEF Expect
  <2>6. CASE Stalls(dev') /\ ~ Known(request, dev.conf) /\ Restarted(p, dev', {})
    <3>1. dev'.conf = dev.conf /\ (dev.conf = 1 => Touches(request) = {})
      BY <2>4, <2>6 DEF Known, Touches
    <3>2. Polls({})
      BY <1>1, <1>2, <2>1, <2>3, <2>5, <2>6, <3>1 DEF Polls, Restarted
    <3> QED
      BY <3>2
  <2>7. CASE Restarted(p, dev', Touches(request))
    <3>1. dev'.conf = dev.conf \/ Touches(request) = Bulk
      BY <2>4 DEF Touches
    <3>2. Touches(request) \in SUBSET Bulk
      BY <1>1, TouchesIs
    <3>3. Polls(Touches(request))
      BY <1>1, <1>2, <2>1, <2>3, <2>5, <2>7, <3>1, <3>2 DEF Polls, Restarted
    <3> QED
      BY <3>2, <3>3
  <2> QED
    BY <2>1, <2>2, <2>6, <2>7 DEF SetupDone
<1>3. CASE /\ ~ ns /\ BulkKept(Polled(dev, dev.done), dev') /\ FixedSame(dev, dev')
           /\ s' = dev.done /\ dev'.done = {}
  <2> DEFINE p == Polled(dev, dev.done)
  <2>1. /\ p \in Device /\ p.b = dev.b /\ p.pid = dev.pid
        /\ p.busy = dev.busy \ dev.done
        /\ p.rxlen = dev.rxlen /\ p.rxpos = dev.rxpos
    BY <1>1, PolledIs DEF FixedSame, StreamSame
  <2>2. BulkKept(p, dev')
    BY <1>3
  <2>. HIDE DEF p
  <2>3. dev'.setupRec = dev.setupRec /\ dev'.conf = dev.conf
    BY <1>3 DEF FixedSame
  <2>4. ASSUME NEW k \in Bulk PROVE Expect(k)' = Expect(k)
    BY <1>1, <2>3 DEF Expect
  <2>5. Polls({})
    BY <1>3, <2>1, <2>2, <2>3, <2>4 DEF Polls, BulkKept, BulkSame, StreamSame
  <2> QED
    BY <2>5
<1> QED
  BY <1>2, <1>3, ControlIs

-----------------------------------------------------------------------------
\* The endpoints the device sends on: a packet that waits is marked busy and
\* has the toggle the host expects.
Offers(d, k, ph, t) ==
  /\ d.b[k].st = "armed" => k \in d.busy /\ k \notin d.done
  /\ d.conf = 1 /\ k \in d.done => k \in d.busy
  /\ ph # "reset" /\ d.conf = 1 => Agrees(d, k, t)

BulkInv == \A k \in {2, 4} : Offers(dev, k, phase, Expect(k))

\* The toggle a buffer has moves on with the host's.
LEMMA TakenAgrees ==
  ASSUME NEW d \in Device, NEW k \in Bulk, NEW n, NEW e, Moved(d, k, n, e),
         Agrees(d, k, d.b[k].pid), d.b[k].st = "armed"
  PROVE  Agrees(e, k, 1 - d.b[k].pid)
BY DEF Moved, Agrees

\* The firing of a packet.
LEMMA FiredAgrees ==
  ASSUME NEW d \in Device, NEW k \in Bulk, NEW n, NEW e, NEW t,
         e.b[k] = [st |-> "armed", len |-> n, pid |-> d.pid[k]], e.pid[k] = 1 - d.pid[k],
         Agrees(d, k, t), d.b[k].st # "armed"
  PROVE  Agrees(e, k, t)
BY DEF Agrees

LEMMA BulkHost ==
  ASSUME CtlInv, BulkInv, HostMoved
  PROVE  BulkInv'
<1>1. \A k \in {2, 4} : k \in Bulk
  BY DEF Bulk
<1>2. ASSUME NEW k \in {2, 4} PROVE Offers(dev', k, phase', Expect(k)')
  <2>1. Offers(dev, k, phase, Expect(k)) /\ k \in Bulk
    BY <1>1 DEF BulkInv
  <2>2. /\ dev'.b[k] = dev.b[k] /\ dev'.pid[k] = dev.pid[k] /\ dev'.conf = dev.conf
        /\ k \in dev'.done <=> k \in dev.done
        /\ k \in dev'.busy <=> k \in dev.busy
    BY <2>1 DEF HostMoved, BulkKept, BulkSame, FixedSame
  <2>3. dev.conf = 1 => phase # "reset" /\ Expect(k)' = Expect(k)
    BY <2>1 DEF HostMoved
  <2> QED
    BY <2>1, <2>2, <2>3 DEF Offers, Agrees
<1> QED
  BY <1>2 DEF BulkInv

LEMMA BulkCore ==
  ASSUME CtlInv, BulkInv, Core1
  PROVE  BulkInv'
<1>1. \A k \in {2, 4} : k \in Bulk /\ k # 5
  BY DEF Bulk
<1>2. /\ UNCHANGED hostVars /\ UNCHANGED <<phase, tog>> /\ dev \in Device /\ Types
  BY DEF Core1, hostVars, CtlInv, Types
<1>3. ASSUME NEW k \in {2, 4}, Status PROVE Offers(dev', k, phase', Expect(k)')
  <2>1. \/ dev' = dev
        \/ phase = "reset" /\ Restarted(dev, dev', Bulk) /\ dev'.conf = 0
    BY <1>2, <1>3, StatusIs, BusResetDoneIs DEF AfterReset
  <2>2. CASE dev' = dev
    BY <1>2, <1>3, <2>2 DEF BulkInv, Expect, Status
  <2>3. CASE phase = "reset" /\ Restarted(dev, dev', Bulk) /\ dev'.conf = 0
    BY <1>1, <1>2, <2>3 DEF Restarted, Offers
  <2> QED
    BY <2>1, <2>2, <2>3
<1>4. ASSUME NEW k \in {2, 4}, Control PROVE Offers(dev', k, phase', Expect(k)')
  <2>1. PICK ks \in SUBSET Bulk : Polls(ks)
    BY <1>2, <1>4, ControlBulk
  <2>2. Offers(dev, k, phase, Expect(k)) /\ k \in Bulk /\ k # 5
    BY <1>1 DEF BulkInv
  <2>3. dev'.conf = 1 => Expect(k)' = IF k \in ks THEN 0 ELSE Expect(k)
    BY <2>1, <2>2 DEF Polls
  <2>4. CASE k \in ks
    BY <2>1, <2>2, <2>3, <2>4 DEF Polls, Offers
  <2>5. CASE k \notin ks
    <3>1. /\ dev'.b[k] = dev.b[k] /\ dev'.pid[k] = dev.pid[k] /\ dev'.conf = dev.conf
          /\ k \notin dev'.done
          /\ k \in dev.busy /\ k \notin dev.done => k \in dev'.busy
      BY <2>1, <2>2, <2>5 DEF Polls
    <3> QED
      BY <1>2, <2>2, <2>3, <2>5, <3>1 DEF Offers, Agrees
  <2> QED
    BY <2>4, <2>5
<1>5. ASSUME NEW k \in {2, 4}, CtlSame(dev, dev'), dev'.done = dev.done, request' = request,
             KeptAt(dev, dev', k) \/ (dev.conf = 1 /\ \E n : Fired(dev, dev', k, n))
      PROVE  Offers(dev', k, phase', Expect(k)')
  <2>1. Offers(dev, k, phase, Expect(k)) /\ k \in Bulk
    BY <1>1 DEF BulkInv
  <2>2. dev'.setupRec = dev.setupRec /\ dev'.conf = dev.conf
    BY <1>5 DEF CtlSame, FixedSame
  <2>3. Expect(k)' = Expect(k)
    BY <1>2, <1>5, <2>2 DEF Expect
  <2>4. CASE KeptAt(dev, dev', k)
    BY <1>2, <1>5, <2>1, <2>2, <2>3, <2>4 DEF KeptAt, Offers, Agrees
  <2>5. ASSUME NEW n, dev.conf = 1, Fired(dev, dev', k, n)
        PROVE  Offers(dev', k, phase', Expect(k)')
    <3>1. /\ k \notin dev.busy /\ k \in dev'.busy /\ dev'.pid[k] = 1 - dev.pid[k]
          /\ dev'.b[k] = [st |-> "armed", len |-> n, pid |-> dev.pid[k]]
      BY <2>5 DEF Fired
    <3>2. dev.b[k].st # "armed" /\ k \notin dev.done
      BY <1>5, <2>1, <2>5, <3>1 DEF Offers
    <3>3. ASSUME phase # "reset", dev.conf = 1 PROVE Agrees(dev', k, Expect(k))
      BY <1>2, <2>1, <3>1, <3>2, <3>3, FiredAgrees DEF Offers
    <3> QED
      BY <1>2, <1>5, <2>1, <2>2, <2>3, <3>1, <3>2, <3>3 DEF Offers
  <2> QED
    BY <1>5, <2>4, <2>5
<1>6. ASSUME NEW k \in {2, 4}, Receive PROVE Offers(dev', k, phase', Expect(k)')
  <2>1. OnlyRx(dev, dev') /\ request' = request
    BY <1>2, <1>6, ReceiveIs DEF Receive
  <2> QED
    BY <1>5, <2>1, SMTT(30) DEF OnlyRx, KeptAt
<1>7. ASSUME NEW k \in {2, 4}, Transmit PROVE Offers(dev', k, phase', Expect(k)')
  <2>1. /\ OnlyTx(dev, dev') /\ request' = request
        /\ KeptAt(dev, dev', 2) \/ Fired(dev, dev', 2, PKT)
    BY <1>2, <1>7, TransmitIs DEF Transmit
  <2>2. PICK n \in Nat : Sends(dev, dev', n)
    BY <1>2, <1>7, TransmitIs
  <2>3. KeptAt(dev, dev', 4) \/ \E m : Fired(dev, dev', 4, m)
    BY <2>2 DEF Sends
  <2>4. dev.conf = 1 \/ KeptAt(dev, dev', k)
    <3>1. dev.conf # 0 \/ dev' = dev
      BY <1>7 DEF Transmit
    <3> QED
      BY <1>2, <3>1, DeviceFields DEF KeptAt
  <2>5. KeptAt(dev, dev', k) \/ (dev.conf = 1 /\ \E m : Fired(dev, dev', k, m))
    BY <2>1, <2>3, <2>4
  <2> QED
    BY <1>5, <2>1, <2>5 DEF OnlyTx
<1>8. ASSUME NEW k \in {2, 4}, LastFull PROVE Offers(dev', k, phase', Expect(k)')
  <2> DEFINE z == (txq = <<>>)
  <2>1. dev' = [dev EXCEPT !.txzlp = z] /\ z \in BOOLEAN /\ request' = request
    BY <1>8 DEF LastFull
  <2>. HIDE DEF z
  <2>2. OnlyTx(dev, dev') /\ KeptAt(dev, dev', 2) /\ KeptAt(dev, dev', 4)
    BY <1>2, <2>1, ZlpIs
  <2> QED
    BY <1>5, <2>1, <2>2 DEF OnlyTx
<1>9. ASSUME NEW k \in {2, 4} PROVE Offers(dev', k, phase', Expect(k)')
  BY <1>3, <1>4, <1>6, <1>7, <1>8 DEF Core1, Task
<1> QED
  BY <1>9 DEF BulkInv

\* The steps of the host on the other endpoints.
LEMMA BulkTransfers ==
  ASSUME CtlInv, BulkInv, PollNotification \/ BulkIn \/ \E n \in 0 .. PKT : BulkOut(n)
  PROVE  BulkInv'
<1>1. /\ \A k \in {2, 4} : k \in Bulk /\ k # 5
      /\ dev \in Device /\ Types /\ {2, 4, 5} \subseteq EP
  BY DEF Bulk, EP, CtlInv, Types
<1>2. ASSUME NEW k \in {2, 4}, NEW j \in {2, 4, 5}, NEW n \in 0 .. PKT,
             dev' = Transacted(dev, j, n), UNCHANGED <<phase, request>>,
             k # j => tog'[k] = tog[k],
             k = j => Usable(k) /\ Armed(k) /\ (dev.b[k].pid = tog[k] => tog'[k] = 1 - tog[k])
      PROVE  Offers(dev', k, phase', Expect(k)')
  <2>1. Offers(dev, k, phase, Expect(k)) /\ k \in Bulk /\ k \in EP
    BY <1>1 DEF BulkInv
  <2>2. j \in EP /\ Moved(dev, j, n, dev')
    BY <1>1, <1>2, TransactedIs
  <2>3. dev'.setupRec = dev.setupRec /\ dev'.conf = dev.conf /\ dev'.busy = dev.busy
        /\ dev'.done = dev.done \cup {j} /\ dev'.pid = dev.pid
    BY <2>2 DEF Moved, FixedSame
  <2>4. CASE k # j
    <3>1. Expect(k)' = Expect(k)
      BY <1>2, <2>3, <2>4 DEF Expect
    <3>2. dev'.b[k] = dev.b[k]
      BY <2>1, <2>2, <2>4 DEF Moved
    <3> QED
      BY <1>2, <2>1, <2>3, <2>4, <3>1, <3>2 DEF Offers, Agrees
  <2>5. CASE k = j
    <3>1. dev.conf = 1 /\ phase # "reset" /\ Expect(k) = tog[k]
      BY <1>2, <2>1, <2>5, UsableIs
    <3>2. dev.b[k].st = "armed" /\ Agrees(dev, k, tog[k])
      BY <1>2, <2>1, <2>5, <3>1 DEF Armed, Offers
    <3>3. dev.b[k].pid = tog[k] /\ tog'[k] = 1 - tog[k]
      BY <1>2, <2>5, <3>2 DEF Agrees
    <3>4. Agrees(dev', k, tog'[k])
      BY <1>1, <2>1, <2>2, <2>5, <3>2, <3>3, TakenAgrees
    <3>5. Expect(k)' = tog'[k]
      <4>1. ~ (phase' \notin {"idle", "reset"} /\ k \in Touches(request'))
        BY <1>2, <2>5 DEF Usable
      <4> QED
        BY <4>1 DEF Expect
    <3>6. dev'.b[k].st = "off" /\ k \in dev'.busy
      BY <2>1, <2>2, <2>3, <2>5, <3>2 DEF Moved, Offers
    <3> QED
      BY <1>2, <2>3, <3>4, <3>5, <3>6 DEF Offers
  <2> QED
    BY <2>4, <2>5
<1>3. ASSUME NEW k \in {2, 4}, PollNotification PROVE Offers(dev', k, phase', Expect(k)')
  <2>1. Usable(2) /\ Armed(2) /\ dev' = Transacted(dev, 2, dev.b[2].len)
        /\ UNCHANGED <<phase, request>>
        /\ tog' = [tog EXCEPT ![2] = IF dev.b[2].pid = @ THEN 1 - @ ELSE @]
    BY <1>3 DEF PollNotification, Done, Transacted, busVars
  <2>2. dev.b[2].len \in 0 .. PKT /\ 2 \in Bulk /\ 4 \in Bulk /\ tog \in [Bulk -> {0, 1}]
    BY <1>1 DEF Device, Buffer, EP, Bulk, Types
  <2>3. tog'[4] = tog[4] /\ (dev.b[2].pid = tog[2] => tog'[2] = 1 - tog[2])
    BY <2>1, <2>2
  <2> QED
    BY <1>2, <2>1, <2>2, <2>3
<1>4. ASSUME NEW k \in {2, 4}, BulkIn PROVE Offers(dev', k, phase', Expect(k)')
  <2>1. Usable(4) /\ Armed(4) /\ dev' = Transacted(dev, 4, dev.b[4].len)
        /\ UNCHANGED <<phase, request>>
    BY <1>4 DEF BulkIn, Done, Transacted, busVars
  <2>2. dev.b[4].len \in 0 .. PKT /\ 2 \in Bulk /\ 4 \in Bulk /\ tog \in [Bulk -> {0, 1}]
    BY <1>1 DEF Device, Buffer, EP, Bulk, Types
  <2>3. (tog' = tog /\ dev.b[4].pid # tog[4]) \/ tog' = [tog EXCEPT ![4] = 1 - @]
    BY <1>4, Zenon DEF BulkIn
  <2>4. tog'[2] = tog[2] /\ (dev.b[4].pid = tog[4] => tog'[4] = 1 - tog[4])
    BY <2>2, <2>3
  <2> QED
    BY <1>2, <2>1, <2>2, <2>4
<1>5. ASSUME NEW k \in {2, 4}, NEW n \in 0 .. PKT, BulkOut(n)
      PROVE  Offers(dev', k, phase', Expect(k)')
  <2>1. /\ UNCHANGED <<phase, request>> /\ tog' = [tog EXCEPT ![5] = 1 - @]
        /\ dev' = dev \/ dev' = Transacted(dev, 5, n)
    BY <1>5 DEF BulkOut, Done, Transacted, busVars
  <2>2. tog'[k] = tog[k]
    BY <1>1, <2>1 DEF Types
  <2>3. CASE dev' = dev
    BY <2>1, <2>2, <2>3 DEF BulkInv, Expect
  <2>4. CASE dev' = Transacted(dev, 5, n)
    BY <1>1, <1>2, <2>1, <2>2, <2>4
  <2> QED
    BY <2>1, <2>3, <2>4
<1> QED
  BY <1>3, <1>4, <1>5 DEF BulkInv

\* A new request, a bus reset, the program's steps.
LEMMA BulkOthers ==
  ASSUME CtlInv, BulkInv,
         (\E r \in Requests : SendSetup(r)) \/ BusReset \/ Write \/ Read \/ UNCHANGED vars
  PROVE  BulkInv'
<1>1. dev \in Device /\ \A k \in {2, 4} : k \in Bulk
  BY DEF CtlInv, Types, Bulk
<1>2. ASSUME NEW k \in {2, 4}, NEW r \in Requests, SendSetup(r)
      PROVE  Offers(dev', k, phase', Expect(k)')
  <2>1. dev' = Arrived(dev) /\ phase = "idle" /\ UNCHANGED tog
    BY <1>2 DEF SendSetup, Arrived
  <2>2. /\ dev'.b = dev.b /\ dev'.pid = dev.pid /\ dev'.done = dev.done /\ dev'.setupRec
        /\ dev'.conf = dev.conf /\ dev'.busy = dev.busy
    BY <1>1, <2>1, ArrivedIs
  <2>3. Expect(k)' = tog[k] /\ Expect(k) = tog[k]
    BY <2>1, <2>2 DEF Expect
  <2> QED
    BY <2>1, <2>2, <2>3 DEF BulkInv, Offers, Agrees
<1>3. ASSUME NEW k \in {2, 4}, BusReset PROVE Offers(dev', k, phase', Expect(k)')
  <2>1. dev' = ResetSeen(dev) /\ phase' = "reset"
    BY <1>3 DEF BusReset, ResetSeen
  <2>2. dev'.b = dev.b /\ dev'.done = dev.done /\ dev'.busy = dev.busy /\ dev'.conf = dev.conf
    BY <1>1, <2>1 DEF ResetSeen, Device
  <2> QED
    BY <2>1, <2>2 DEF BulkInv, Offers
<1>4. ASSUME NEW k \in {2, 4}, UNCHANGED <<dev, phase, request, tog>>
      PROVE  Offers(dev', k, phase', Expect(k)')
  BY <1>4 DEF BulkInv, Expect
<1>5. Write \/ Read \/ UNCHANGED vars => UNCHANGED <<dev, phase, request, tog>>
  BY DEF Write, Read, vars, hostVars, taskVars
<1> QED
  BY <1>2, <1>3, <1>4, <1>5 DEF BulkInv

LEMMA BulkAlways == Spec => []BulkInv
<1>1. Init => BulkInv
  BY DEF Init, Device0, Cleared, EP, BulkInv, Offers
<1>2. CtlInv /\ BulkInv /\ [Next]_vars => BulkInv'
  <2> SUFFICES ASSUME CtlInv, BulkInv, [Next]_vars PROVE BulkInv'
    OBVIOUS
  <2>1. ASSUME NEW r \in IF hConf = 0 THEN Enumeration ELSE InUse, SendSetup(r)
        PROVE  BulkInv'
    <3>1. r \in Requests
      BY UsbConsoleAssumption
    <3> QED
      BY <2>1, <3>1, BulkOthers
  <2> QED
    BY <2>1, BulkCore, BulkHost, HostControlIs, BulkTransfers, BulkOthers DEF Next
<1> QED
  BY <1>1, <1>2, CtlAlways, PTL DEF Spec

-----------------------------------------------------------------------------
\* The endpoint the device receives on.  Its packet is in one place: on offer
\* to the host, complete, taken from BUFF_STATUS, or being copied to the ring.
\* A request that restarts the endpoint while a packet is complete breaks this.
RxUndisturbed == MaxOut = 0 \/ \A r \in InUse : 5 \notin Touches(r)

Pending == pc = "receive" /\ 5 \in s

RxInv ==
  /\ MaxOut = 0 => 5 \notin dev.done
  /\ dev.b[5].st = "armed" => 5 \notin dev.done /\ ~ Pending /\ dev.rxlen = 0
  /\ 5 \in dev.done => ~ Pending /\ dev.rxlen = 0
  /\ Pending => dev.rxlen = 0
  /\ phase # "reset" /\ dev.conf = 0 => 5 \notin dev.done
  /\ phase # "reset" /\ dev.conf = 1 => Agrees(dev, 5, Expect(5))
  /\ dev.setupRec /\ hConf = 1 => request \in InUse

LEMMA RxHost ==
  ASSUME CtlInv, RxInv, HostMoved
  PROVE  RxInv'
<1>1. 5 \in Bulk
  BY DEF Bulk
<1>2. /\ dev'.b[5] = dev.b[5] /\ dev'.pid[5] = dev.pid[5] /\ dev'.conf = dev.conf
      /\ dev'.setupRec = dev.setupRec /\ dev'.rxlen = dev.rxlen
      /\ 5 \in dev'.done <=> 5 \in dev.done
  BY <1>1 DEF HostMoved, BulkKept, BulkSame, StreamSame, FixedSame
<1>3. /\ Pending' <=> Pending
      /\ request' = request /\ phase' # "reset"
      /\ dev.conf = 1 => phase # "reset" /\ Expect(5)' = Expect(5)
      /\ phase = "reset" => 5 \notin dev.done
      /\ dev.setupRec => hConf' = hConf
  BY <1>1 DEF HostMoved, Pending
<1>4. dev'.conf = 1 => Agrees(dev', 5, Expect(5)')
  BY <1>2, <1>3 DEF RxInv, Agrees
<1> QED
  BY <1>2, <1>3, <1>4 DEF RxInv

LEMMA RxStatus ==
  ASSUME CtlInv, RxInv, Status, UNCHANGED hostVars
  PROVE  RxInv'
<1>1. UNCHANGED <<phase, tog, request, hConf>> /\ 5 \in Bulk /\ ~ Pending /\ ~ Pending'
      /\ dev \in Device
  BY StatusIs DEF hostVars, Status, Bulk, Pending, CtlInv, Types
<1>2. CASE dev' = dev
  BY <1>1, <1>2 DEF RxInv, Expect
<1>3. CASE phase = "reset" /\ Restarted(dev, dev', Bulk) /\ dev' = BusResetDone(dev)
           /\ dev'.b[5].st # "armed"
  <2>1. dev'.setupRec = dev.setupRec /\ ~ dev.setupRec
    BY <1>1, <1>3, BusResetDoneIs DEF CtlInv, Ctl, HostNow, Host
  <2>2. dev'.rxlen = 0 /\ (5 \in dev'.done => 5 \in dev.done)
    BY <1>1, <1>3 DEF Restarted
  <2> QED
    BY <1>1, <1>3, <2>1, <2>2 DEF RxInv
<1> QED
  BY <1>2, <1>3, StatusIs

\* Endpoint 5 is restarted only when no packet of it is complete.
LEMMA RestartedClean ==
  ASSUME CtlInv, RxInv, RxUndisturbed, dev.setupRec, 5 \in Touches(request)
  PROVE  5 \notin dev.done
<1>1. phase # "reset" /\ dev.conf = hConf /\ hConf \in {0, 1}
  BY SetupWaits DEF CtlInv, Types
<1>2. CASE MaxOut = 0
  BY <1>2 DEF RxInv
<1>3. CASE \A r \in InUse : 5 \notin Touches(r)
  BY <1>1, <1>3 DEF RxInv
<1> QED
  BY <1>2, <1>3 DEF RxUndisturbed

LEMMA RxControl ==
  ASSUME CtlInv, RxInv, RxUndisturbed, Control, UNCHANGED hostVars
  PROVE  RxInv'
<1>1. PICK ks \in SUBSET Bulk : Polls(ks)
  BY ControlBulk
<1>2. UNCHANGED <<phase, tog, request, hConf>> /\ 5 \in Bulk
  BY DEF hostVars, Control, Bulk
<1>3. /\ 5 \notin dev'.done
      /\ Pending' <=> 5 \in dev.done
      /\ dev'.conf = 1 => Expect(5)' = IF 5 \in ks THEN 0 ELSE Expect(5)
      /\ dev'.setupRec => dev.setupRec
  BY <1>1, <1>2 DEF Polls, Pending, Control
<1>4. CASE 5 \in ks
  <2>1. Agrees(dev', 5, 0) /\ dev'.rxlen = 0 /\ dev.setupRec /\ 5 \in Touches(request)
    BY <1>1, <1>4 DEF Polls
  <2>2. ~ Pending'
    BY <1>3, <2>1, RestartedClean
  <2> QED
    BY <1>2, <1>3, <1>4, <2>1, <2>2 DEF RxInv
<1>5. CASE 5 \notin ks
  <2>1. dev'.b[5] = dev.b[5] /\ dev'.pid[5] = dev.pid[5] /\ dev'.rxlen = dev.rxlen
        /\ dev'.conf = dev.conf
    BY <1>1, <1>2, <1>5 DEF Polls
  <2>2. phase # "reset" /\ dev.conf = 1 => Agrees(dev', 5, Expect(5)')
    BY <1>3, <1>5, <2>1 DEF RxInv, Agrees
  <2> QED
    BY <1>2, <1>3, <2>1, <2>2 DEF RxInv
<1> QED
  BY <1>4, <1>5

\* receive(), seen from endpoint 5.
LEMMA ReceiveFive ==
  ASSUME CtlInv, RxInv, Receive
  PROVE  /\ OnlyRx(dev, dev') /\ ~ Pending'
         /\ dev.b[5].st = "armed" \/ 5 \in dev.done => Kept5(dev, dev') /\ dev'.rxlen = 0
         /\ Kept5(dev, dev') \/ (Armed5(dev, dev') /\ dev'.rxlen = 0)
<1> DEFINE d == Unpacked(dev)
           n == Room(d)
<1>1. Types /\ dev \in Device /\ pc = "receive" /\ ~ Pending'
  BY DEF CtlInv, Types, Receive, Pending
<1>2. /\ d \in Device /\ n \in Nat /\ d.rxpos + n <= d.rxlen /\ OnlyRx(dev, dev')
      /\ dev' = Advanced(d, n) /\ d.rxlen \in Nat /\ d.rxpos \in Nat /\ PKT \in Nat
  <2>1. /\ d \in Device /\ OnlyRx(dev, dev') /\ n \in Nat /\ d.rxpos + n <= d.rxlen
        /\ dev' = Advanced(d, n)
    BY <1>1, ReceiveIs
  <2>. HIDE DEF d, n
  <2>2. d.rxlen \in 0 .. PKT /\ d.rxpos \in 0 .. PKT /\ PKT \in Nat
    BY <2>1, DeviceFields, UsbTaskAssumption
  <2> QED
    BY <2>1, <2>2
<1>3. 5 \in s => IF dev.b[5].len = 0 THEN Armed5(dev, d) /\ d.rxlen = 0
                 ELSE Kept5(dev, d)
  BY <1>1, ReceivedIs DEF Unpacked
<1>4. 5 \notin s => d = dev
  BY DEF Unpacked
<1>. HIDE DEF d, n
<1>5. d.rxlen = 0 => Kept5(d, dev') /\ dev'.rxlen = 0
  BY <1>2, AdvancedIs
<1>6. d.rxlen # 0 => \/ Kept5(d, dev')
                     \/ Armed5(d, dev') /\ dev'.rxlen = 0
  BY <1>2, AdvancedIs
<1>7. CASE 5 \in s
  <2>1. dev.b[5].st # "armed" /\ 5 \notin dev.done
    BY <1>1, <1>7 DEF RxInv, Pending
  <2>2. CASE dev.b[5].len = 0
    BY <1>1, <1>2, <1>3, <1>5, <1>7, <2>1, <2>2 DEF Armed5, Kept5
  <2>3. CASE dev.b[5].len # 0
    BY <1>1, <1>2, <1>3, <1>5, <1>6, <1>7, <2>1, <2>3 DEF Armed5, Kept5
  <2> QED
    BY <2>2, <2>3
<1>8. CASE 5 \notin s
  <2>1. dev.b[5].st = "armed" \/ 5 \in dev.done => d.rxlen = 0
    BY <1>4, <1>8 DEF RxInv
  <2> QED
    BY <1>1, <1>2, <1>4, <1>5, <1>6, <1>8, <2>1
<1> QED
  BY <1>7, <1>8

LEMMA RxReceive ==
  ASSUME CtlInv, RxInv, Receive, UNCHANGED hostVars
  PROVE  RxInv'
<1>1. /\ OnlyRx(dev, dev') /\ ~ Pending'
      /\ dev.b[5].st = "armed" \/ 5 \in dev.done => Kept5(dev, dev') /\ dev'.rxlen = 0
      /\ Kept5(dev, dev') \/ (Armed5(dev, dev') /\ dev'.rxlen = 0)
  BY ReceiveFive, SMTT(30)
<1>2. /\ UNCHANGED <<phase, tog, request, hConf>> /\ 5 \in Bulk /\ dev \in Device
      /\ dev'.done = dev.done /\ dev'.conf = dev.conf /\ dev'.setupRec = dev.setupRec
  BY <1>1, ZenonT(40) DEF hostVars, Receive, Bulk, CtlInv, Types, OnlyRx, CtlSame, FixedSame
<1>3. Expect(5)' = Expect(5)
  BY <1>2 DEF Expect
<1>4. phase # "reset" /\ dev.conf = 1 => Agrees(dev', 5, Expect(5))
  <2>1. CASE Kept5(dev, dev')
    BY <2>1 DEF Kept5, RxInv, Agrees
  <2>2. CASE Armed5(dev, dev') /\ dev.b[5].st # "armed"
    BY <1>2, <2>2, FiredAgrees DEF Armed5, RxInv
  <2> QED
    BY <1>1, <2>1, <2>2
<1>5. dev'.b[5].st = "armed" => 5 \notin dev.done /\ dev'.rxlen = 0
  BY <1>1 DEF RxInv, Kept5
<1> QED
  BY <1>1, <1>2, <1>3, <1>4, <1>5, SMTT(30) DEF RxInv

\* The other steps leave endpoint 5 alone, all but BulkOut.
LEMMA RxStill ==
  ASSUME RxInv, dev'.b[5] = dev.b[5], dev'.pid[5] = dev.pid[5],
         5 \in dev'.done <=> 5 \in dev.done, dev'.rxlen = dev.rxlen, dev'.conf = dev.conf,
         dev'.setupRec = dev.setupRec, Pending' => Pending,
         UNCHANGED <<phase, request, hConf>>, tog'[5] = tog[5]
  PROVE  RxInv'
<1>1. Expect(5)' = Expect(5)
  BY DEF Expect
<1> QED
  BY <1>1 DEF RxInv, Agrees

LEMMA RxTransmit ==
  ASSUME CtlInv, RxInv, Transmit \/ LastFull, UNCHANGED hostVars
  PROVE  RxInv'
<1>1. Types /\ dev \in Device
  BY DEF CtlInv, Types
<1>2. OnlyTx(dev, dev')
  <2>1. CASE Transmit
    BY <1>1, <2>1, TransmitIs
  <2>2. CASE LastFull
    <3> DEFINE z == (txq = <<>>)
    <3>1. dev' = [dev EXCEPT !.txzlp = z] /\ z \in BOOLEAN
      BY <2>2 DEF LastFull
    <3>. HIDE DEF z
    <3> QED
      BY <1>1, <3>1, ZlpIs
  <2> QED
    BY <2>1, <2>2
<1>3. /\ dev'.b[5] = dev.b[5] /\ dev'.pid[5] = dev.pid[5] /\ dev'.done = dev.done
      /\ dev'.rxlen = dev.rxlen /\ dev'.conf = dev.conf /\ dev'.setupRec = dev.setupRec
  BY <1>2 DEF OnlyTx, KeptAt, CtlSame, FixedSame
<1>4. ~ Pending' /\ request' = request
  <2>1. pc' \in {"status", "zlp"} /\ request' = request
    <3>1. CASE Transmit
      BY <3>1 DEF Transmit
    <3>2. CASE LastFull
      BY <3>2 DEF LastFull
    <3> QED
      BY <3>1, <3>2
  <2> QED
    BY <2>1 DEF Pending
<1> QED
  BY <1>3, <1>4, RxStill DEF hostVars

LEMMA RxSetup ==
  ASSUME CtlInv, RxInv, NEW r \in IF hConf = 0 THEN Enumeration ELSE InUse, SendSetup(r)
  PROVE  RxInv'
<1>1. /\ dev \in Device /\ dev' = Arrived(dev) /\ phase = "idle" /\ phase' # "reset"
      /\ request' = r /\ UNCHANGED <<tog, hConf, pc, s>>
  BY DEF CtlInv, Types, SendSetup, Arrived
<1>2. /\ dev'.b = dev.b /\ dev'.pid = dev.pid /\ dev'.done = dev.done /\ dev'.setupRec
      /\ dev'.conf = dev.conf /\ dev'.rxlen = dev.rxlen
  BY <1>1, ArrivedIs DEF BulkKept, StreamSame
<1>3. Expect(5)' = tog[5] /\ Expect(5) = tog[5]
  BY <1>1, <1>2 DEF Expect
<1>4. (Pending' <=> Pending) /\ (hConf = 1 => r \in InUse)
  BY <1>1 DEF Pending
<1>5. dev.conf = 1 => Agrees(dev', 5, Expect(5)')
  BY <1>1, <1>2, <1>3 DEF RxInv, Agrees
<1> QED
  BY <1>1, <1>2, <1>4, <1>5 DEF RxInv

LEMMA RxReset ==
  ASSUME CtlInv, RxInv, BusReset
  PROVE  RxInv'
<1>1. dev \in Device /\ dev' = ResetSeen(dev) /\ phase' = "reset" /\ ~ dev.setupRec
      /\ UNCHANGED <<pc, s>>
  BY DEF CtlInv, Types, BusReset, ResetSeen, busVars
<1>2. /\ dev'.b = dev.b /\ dev'.done = dev.done /\ dev'.setupRec = dev.setupRec
      /\ dev'.rxlen = dev.rxlen
  BY <1>1, ResetSeenIs
<1>3. Pending' <=> Pending
  BY <1>1 DEF Pending
<1> QED
  BY <1>1, <1>2, <1>3 DEF RxInv

\* The host sends a packet: it is not a repeat.
LEMMA BulkOutTaken ==
  ASSUME CtlInv, RxInv, NEW n \in 0 .. PKT, BulkOut(n)
  PROVE  /\ dev \in Device /\ Moved(dev, 5, n, dev') /\ dev.conf = 1 /\ phase # "reset"
         /\ dev.b[5].st = "armed" /\ Agrees(dev, 5, tog[5]) /\ dev.b[5].pid = tog[5]
         /\ out5' = [i \in 1 .. PKT |-> IF i <= n THEN sent + i ELSE out5[i]]
         /\ sent' = sent + n /\ MaxOut > 0 /\ tog'[5] = 1 - tog[5]
<1>1. /\ Usable(5) /\ Armed(5) /\ MaxOut > 0 /\ sent' = sent + n /\ 5 \in Bulk /\ 5 \in EP
      /\ tog' = [tog EXCEPT ![5] = 1 - @] /\ dev \in Device /\ tog \in [Bulk -> {0, 1}]
  BY DEF BulkOut, Bulk, EP, CtlInv, Types
<1>2. dev.conf = 1 /\ phase # "reset" /\ Expect(5) = tog[5]
  BY <1>1, UsableIs
<1>3. Agrees(dev, 5, tog[5]) /\ dev.b[5].st = "armed"
  BY <1>1, <1>2 DEF RxInv, Armed
<1>4. dev.b[5].pid = tog[5]
  BY <1>3 DEF Agrees
<1>5. dev' = Transacted(dev, 5, n)
      /\ out5' = [i \in 1 .. PKT |-> IF i <= n THEN sent + i ELSE out5[i]]
  BY <1>4 DEF BulkOut, Done, Transacted
<1>6. Moved(dev, 5, n, dev')
  BY <1>1, <1>5, TransactedIs
<1> QED
  BY <1>1, <1>2, <1>3, <1>4, <1>5, <1>6

LEMMA RxBulkOut ==
  ASSUME CtlInv, RxInv, NEW n \in 0 .. PKT, BulkOut(n)
  PROVE  RxInv'
<1>1. /\ dev \in Device /\ Moved(dev, 5, n, dev') /\ dev.conf = 1 /\ phase # "reset"
      /\ dev.b[5].st = "armed" /\ Agrees(dev, 5, tog[5]) /\ dev.b[5].pid = tog[5]
      /\ MaxOut > 0 /\ tog'[5] = 1 - tog[5]
  BY BulkOutTaken
<1>2. /\ UNCHANGED <<phase, request, hConf, pc, s>> /\ Usable(5) /\ 5 \in Bulk
      /\ (Pending' <=> Pending)
  BY DEF BulkOut, busVars, Bulk, Pending
<1>3. /\ dev'.b[5].st = "off" /\ dev'.rxlen = dev.rxlen /\ dev'.conf = dev.conf
      /\ dev'.setupRec = dev.setupRec
  BY <1>1 DEF Moved, StreamSame, FixedSame
<1>4. Agrees(dev', 5, 1 - tog[5])
  BY <1>1, <1>2, TakenAgrees
<1>5. Expect(5)' = tog'[5]
  BY <1>2 DEF Usable, Expect
<1> QED
  BY <1>1, <1>2, <1>3, <1>4, <1>5, UsbConsoleAssumption DEF RxInv

LEMMA RxBulkIn ==
  ASSUME CtlInv, RxInv, PollNotification \/ BulkIn
  PROVE  RxInv'
<1>1. Types /\ dev \in Device /\ 2 \in Bulk /\ 4 \in Bulk /\ 2 \in EP /\ 4 \in EP /\ 5 \in EP
      /\ tog \in [Bulk -> {0, 1}] /\ 5 \in Bulk
  BY DEF CtlInv, Types, Bulk, EP
<1>2. PICK k \in {2, 4} : dev' = Transacted(dev, k, dev.b[k].len)
  BY DEF PollNotification, BulkIn, Done, Transacted
<1>3. dev.b[k].len \in 0 .. PKT
  BY <1>1, <1>2 DEF Device, Buffer
<1>4. Moved(dev, k, dev.b[k].len, dev')
  BY <1>1, <1>2, <1>3, TransactedIs
<1>5. /\ dev'.b[5] = dev.b[5] /\ dev'.pid[5] = dev.pid[5] /\ dev'.rxlen = dev.rxlen
      /\ dev'.conf = dev.conf /\ dev'.setupRec = dev.setupRec
      /\ 5 \in dev'.done <=> 5 \in dev.done
  BY <1>1, <1>4 DEF Moved, StreamSame, FixedSame
<1>6. UNCHANGED <<phase, request, hConf, pc, s>>
  BY DEF PollNotification, BulkIn, busVars
<1>7. tog'[5] = tog[5]
  <2>1. CASE PollNotification
    BY <1>1, <2>1 DEF PollNotification
  <2>2. CASE BulkIn
    <3>1. tog' = tog \/ tog' = [tog EXCEPT ![4] = 1 - @]
      BY <2>2 DEF BulkIn
    <3> QED
      BY <1>1, <3>1
  <2> QED
    BY <2>1, <2>2
<1> QED
  BY <1>5, <1>6, <1>7, RxStill DEF Pending

LEMMA RxAlways == RxUndisturbed => (Spec => []RxInv)
<1> SUFFICES ASSUME RxUndisturbed PROVE Spec => []RxInv
  OBVIOUS
<1>1. Init => RxInv
  BY DEF Init, Device0, Cleared, EP, RxInv, Pending, Agrees
<1>2. CtlInv /\ RxInv /\ [Next]_vars => RxInv'
  <2> SUFFICES ASSUME CtlInv, RxInv, [Next]_vars PROVE RxInv'
    OBVIOUS
  <2>1. CASE Core1
    <3>1. UNCHANGED hostVars
      BY <2>1 DEF Core1
    <3> QED
      BY <2>1, <3>1, RxStatus, RxControl, RxReceive, RxTransmit DEF Core1, Task
  <2>2. CASE Write \/ Read \/ UNCHANGED vars
    <3>1. UNCHANGED <<dev, phase, request, hConf, tog, pc, s>>
      BY <2>2 DEF Write, Read, vars, hostVars, taskVars
    <3> QED
      BY <3>1, RxStill DEF Pending
  <2> QED
    BY <2>1, <2>2, RxSetup, RxHost, HostControlIs, RxReset, RxBulkIn, RxBulkOut DEF Next
<1> QED
  BY <1>1, <1>2, CtlAlways, PTL DEF Spec

(***************************************************************************)
(* A packet the device sends has the toggle the host expects, whatever      *)
(* requests and resets come: transmit() arms an endpoint only when the last  *)
(* packet has been taken, and setup() restarts endpoint and toggle together. *)
(***************************************************************************)
THEOREM UsbSendsInTurn ==
  Spec => [](\A k \in {2, 4} :
               Usable(k) /\ dev.b[k].st = "armed" => dev.b[k].pid = tog[k])
<1>1. CtlInv /\ BulkInv => \A k \in {2, 4} :
        Usable(k) /\ dev.b[k].st = "armed" => dev.b[k].pid = tog[k]
  <2> SUFFICES ASSUME CtlInv, BulkInv, NEW k \in {2, 4}, Usable(k), dev.b[k].st = "armed"
               PROVE  dev.b[k].pid = tog[k]
    OBVIOUS
  <2>1. k \in Bulk
    BY DEF Bulk
  <2> QED
    BY <2>1, UsableIs DEF BulkInv, Offers, Agrees
<1> QED
  BY <1>1, CtlAlways, BulkAlways, PTL

(***************************************************************************)
(* The two sides agree on the address, the configuration and every toggle,  *)
(* when no request restarts the receiving endpoint while data comes in.      *)
(* With such a request it is false: the completion that was polled with the  *)
(* SETUP is taken for one of the restarted endpoint.                        *)
(***************************************************************************)
THEOREM UsbBusAgrees == RxUndisturbed => (Spec => []BusInv)
<1> SUFFICES ASSUME RxUndisturbed PROVE Spec => []BusInv
  OBVIOUS
<1>1. CtlInv /\ BulkInv /\ RxInv => ToggleAgreed
  <2> SUFFICES ASSUME CtlInv, BulkInv, RxInv, NEW k \in Bulk, Usable(k), dev.b[k].st = "armed"
               PROVE  dev.b[k].pid = tog[k]
    BY DEF ToggleAgreed
  <2>1. dev.conf = 1 /\ phase # "reset" /\ Expect(k) = tog[k]
    BY UsableIs
  <2>2. k \in {2, 4} \/ k = 5
    BY DEF Bulk
  <2> QED
    BY <2>1, <2>2 DEF BulkInv, Offers, RxInv, Agrees
<1> QED
  BY <1>1, CtlAlways, BulkAlways, RxAlways, UsbTypeCorrect, UsbSidesAgree, PTL DEF BusInv

-----------------------------------------------------------------------------
\* The bytes received: those read, those in the ring and those in the packet.
ByteAt(b, q, i) == IF i = 0 THEN b ELSE q[i]
Newest(b, q) == ByteAt(b, q, Len(q))
Rising(b, q) == \A i \in 1 .. Len(q) : ByteAt(b, q, i - 1) < ByteAt(b, q, i)
Even(b, q) == \A i \in 1 .. Len(q) : q[i] = b + i

\* A stretch of bytes that follow each other, added to the ring.
LEMMA RunOn ==
  ASSUME NEW b \in Nat, NEW q \in Seq(Nat), NEW t \in Seq(Nat), NEW x \in Nat,
         \A j \in 1 .. Len(t) : t[j] = x + j, Newest(b, q) <= x, Rising(b, q)
  PROVE  /\ Rising(b, q \o t) /\ Newest(b, q \o t) <= x + Len(t)
         /\ Newest(b, q) = x /\ Even(b, q) =>
              Newest(b, q \o t) = x + Len(t) /\ Even(b, q \o t)
<1> DEFINE r == q \o t
<1>1. /\ Len(q) \in Nat /\ Len(t) \in Nat /\ r \in Seq(Nat) /\ Len(r) = Len(q) + Len(t)
      /\ \A i \in 1 .. Len(q) : r[i] = q[i] /\ q[i] \in Nat
      /\ \A i \in 1 .. Len(t) : r[Len(q) + i] = t[i] /\ t[i] \in Nat
  OBVIOUS
<1>2. \A i \in 0 .. Len(q) : ByteAt(b, r, i) = ByteAt(b, q, i) /\ ByteAt(b, q, i) \in Nat
  BY <1>1 DEF ByteAt
<1>3. \A i \in 1 .. Len(t) : ByteAt(b, r, Len(q) + i) = x + i
  BY <1>1 DEF ByteAt
<1>. HIDE DEF r
<1>4. ASSUME NEW i \in 1 .. Len(r) PROVE ByteAt(b, r, i - 1) < ByteAt(b, r, i)
  <2>1. CASE i <= Len(q)
    <3>1. i \in 0 .. Len(q) /\ i - 1 \in 0 .. Len(q) /\ i \in 1 .. Len(q)
      BY <1>1, <2>1
    <3> QED
      BY <1>2, <3>1 DEF Rising
  <2>2. CASE i = Len(q) + 1
    <3>1. ByteAt(b, r, i - 1) = Newest(b, q) /\ Newest(b, q) \in Nat
      BY <1>1, <1>2, <2>2, SMTT(30) DEF Newest
    <3>2. 1 \in 1 .. Len(t)
      BY <1>1, <2>2
    <3>3. ByteAt(b, r, i) = x + 1
      BY <1>3, <2>2, <3>2
    <3> QED
      BY <3>1, <3>3
  <2>3. CASE i > Len(q) + 1
    <3>1. PICK j \in 1 .. Len(t) : i = Len(q) + j
      <4>1. i - Len(q) \in 1 .. Len(t) /\ i = Len(q) + (i - Len(q))
        BY <1>1, <2>3
      <4> QED
        BY <4>1
    <3>2. j - 1 \in 1 .. Len(t) /\ i - 1 = Len(q) + (j - 1)
      BY <1>1, <2>3, <3>1
    <3>3. ByteAt(b, r, i) = x + j /\ ByteAt(b, r, i - 1) = x + (j - 1)
      BY <1>3, <3>1, <3>2
    <3> QED
      BY <3>1, <3>3
  <2> QED
    BY <1>1, <2>1, <2>2, <2>3, SMTT(30)
<1>5. CASE Len(t) = 0
  <2>1. Newest(b, r) = Newest(b, q) /\ Len(r) = Len(q)
    BY <1>1, <1>2, <1>5 DEF Newest
  <2>2. Even(b, q) => Even(b, r)
    BY <1>1, <2>1 DEF Even
  <2> QED
    BY <1>4, <1>5, <2>1, <2>2 DEF Rising, r
<1>6. CASE Len(t) > 0
  <2>1. Newest(b, r) = x + Len(t)
    <3>1. Len(t) \in 1 .. Len(t)
      BY <1>1, <1>6
    <3> QED
      BY <1>1, <1>3, <3>1 DEF Newest
  <2>2. ASSUME Newest(b, q) = x, Even(b, q), NEW i \in 1 .. Len(r) PROVE r[i] = b + i
    <3>1. x = b + Len(q)
      <4>1. CASE Len(q) = 0
        BY <2>2, <4>1 DEF Newest, ByteAt
      <4>2. CASE Len(q) > 0
        <5>1. Len(q) \in 1 .. Len(q)
          BY <1>1, <4>2
        <5>2. Newest(b, q) = q[Len(q)]
          BY <1>1, <4>2 DEF Newest, ByteAt
        <5>3. q[Len(q)] = b + Len(q)
          BY ONLY <2>2, <5>1 DEF Even
        <5> QED
          BY ONLY <2>2, <5>2, <5>3
      <4> QED
        BY <1>1, <4>1, <4>2
    <3>2. CASE i <= Len(q)
      BY <1>1, <2>2, <3>2 DEF Even
    <3>3. CASE i > Len(q)
      <4>1. i - Len(q) \in 1 .. Len(t) /\ i = Len(q) + (i - Len(q))
        BY <1>1, <3>3
      <4>2. r[i] = x + (i - Len(q))
        BY <1>1, <4>1
      <4> QED
        BY <1>1, <3>1, <4>2
    <3> QED
      BY <1>1, <3>2, <3>3
  <2> QED
    BY <1>4, <2>1, <2>2 DEF Rising, Even, r
<1> QED
  BY <1>1, <1>5, <1>6

\* What is left to copy of the packet that has arrived, and where it begins.
Arrives == 5 \in dev.done \/ Pending
Waiting == IF Arrives THEN dev.b[5].len ELSE dev.rxlen - dev.rxpos
Taken == IF Arrives THEN 0 ELSE dev.rxpos

Emptied == dev.rxlen = 0 /\ (Arrives => dev.b[5].len = 0)

\* They are the last bytes the host has sent, and follow those in the ring.
RxSeq ==
  /\ readUpTo \in Nat /\ resets \in Nat
  /\ \A i \in 1 .. Waiting : out5[Taken + i] = (sent - Waiting) + i
  /\ Rising(readUpTo, rxq) /\ Newest(readUpTo, rxq) <= sent - Waiting
  /\ resets = 0 => Newest(readUpTo, rxq) = sent - Waiting /\ Even(readUpTo, rxq)
  /\ dev.conf = 0 => Emptied
  /\ phase = "reset" => resets > 0

LEMMA WaitingTyped ==
  ASSUME Types
  PROVE  /\ Waiting \in Nat /\ Taken \in Nat /\ Taken + Waiting <= PKT /\ PKT \in Nat
         /\ sent \in Nat /\ rxq \in Seq(Nat) /\ out5 \in [1 .. PKT -> Nat]
<1>1. /\ dev.b[5].len \in 0 .. PKT /\ dev.rxlen \in 0 .. PKT /\ dev.rxpos \in 0 .. PKT
      /\ dev.rxpos <= dev.rxlen /\ PKT \in Nat
  BY UsbTaskAssumption DEF Types, Device, Buffer, EP
<1>2. sent \in Nat /\ rxq \in Seq(Nat) /\ out5 \in [1 .. PKT -> Nat]
  BY DEF Types
<1> QED
  BY <1>1, <1>2, SMTT(30) DEF Waiting, Taken

\* A step that moves no byte.
LEMMA SeqStill ==
  ASSUME RxSeq, UNCHANGED <<out5, rxq, readUpTo, sent, resets>>,
         Waiting' = Waiting, Taken' = Taken, dev'.conf = 0 => Emptied',
         phase' = "reset" => phase = "reset"
  PROVE  RxSeq'
BY DEF RxSeq

LEMMA SeqSame ==
  ASSUME RxSeq, UNCHANGED <<out5, rxq, readUpTo, sent, resets>>, dev'.conf = dev.conf,
         dev'.b[5] = dev.b[5], dev'.rxlen = dev.rxlen, dev'.rxpos = dev.rxpos,
         5 \in dev'.done <=> 5 \in dev.done, Pending' <=> Pending,
         phase' = "reset" => phase = "reset"
  PROVE  RxSeq'
<1>1. Arrives' <=> Arrives
  BY DEF Arrives
<1>2. Waiting' = Waiting /\ Taken' = Taken /\ (Emptied' <=> Emptied)
  BY <1>1 DEF Waiting, Taken, Emptied
<1>3. dev'.conf = 0 => Emptied'
  BY <1>2 DEF RxSeq
<1> QED
  BY <1>2, <1>3, SeqStill

\* Nothing is left of the packet: no byte of it can be read later.
LEMMA SeqDropped ==
  ASSUME Types, RxSeq, UNCHANGED <<out5, rxq, readUpTo, sent, resets>>,
         Waiting' = 0, Waiting = 0 \/ resets # 0, Emptied', phase' = "reset" => phase = "reset"
  PROVE  RxSeq'
<1>1. Waiting \in Nat /\ sent \in Nat /\ rxq \in Seq(Nat)
  BY WaitingTyped
<1>2. Newest(readUpTo, rxq) \in Nat
  <2>1. Len(rxq) \in Nat /\ \A i \in 1 .. Len(rxq) : rxq[i] \in Nat
    BY <1>1
  <2> QED
    BY <2>1 DEF Newest, ByteAt, RxSeq
<1>3. Newest(readUpTo, rxq) <= sent - Waiting'
  BY <1>1, <1>2 DEF RxSeq
<1>4. resets = 0 => Newest(readUpTo, rxq) = sent - Waiting'
  BY <1>1 DEF RxSeq
<1>5. \A i \in 1 .. Waiting' : FALSE
  OBVIOUS
<1> QED
  BY <1>3, <1>4, <1>5 DEF RxSeq

NoRestart == \A r \in InUse : 5 \notin Touches(r)

LEMMA SeqStatus ==
  ASSUME CtlInv, RxInv, RxSeq, Status, UNCHANGED hostVars, UNCHANGED progVars
  PROVE  RxSeq'
<1>1. /\ UNCHANGED <<out5, rxq, readUpTo, sent, resets, phase>> /\ ~ Pending /\ ~ Pending'
      /\ dev \in Device /\ Types /\ 5 \in Bulk /\ 5 \in EP
  BY StatusIs DEF hostVars, progVars, Status, Pending, CtlInv, Types, Bulk, EP
<1>2. CASE dev' = dev
  BY <1>1, <1>2, SeqSame
<1>3. CASE phase = "reset" /\ Restarted(dev, dev', Bulk) /\ dev' = BusResetDone(dev)
  <2>1. dev'.b[5].len = 0
    <3>1. dev'.b = [[k \in EP |-> IF k \in Bulk THEN Cleared ELSE dev.b[k]]
                    EXCEPT ![0] = Cleared, ![1] = Cleared]
      BY <1>1, <1>3 DEF BusResetDone, Eps, ForgetRx, Device
    <3>2. dev'.b[5] = Cleared
      BY <1>1, <3>1
    <3> QED
      BY <3>2 DEF Cleared
  <2>2. dev'.rxlen = 0 /\ dev'.rxpos = 0
    BY <1>1, <1>3 DEF Restarted
  <2>3. Waiting' = 0 /\ Emptied'
    BY <2>1, <2>2 DEF Waiting, Emptied
  <2>4. resets # 0
    BY <1>3 DEF RxSeq
  <2> QED
    BY <1>1, <2>3, <2>4, SeqDropped
<1> QED
  BY <1>2, <1>3, StatusIs

LEMMA SeqControl ==
  ASSUME CtlInv, RxInv, RxSeq, NoRestart, Control, UNCHANGED hostVars, UNCHANGED progVars
  PROVE  RxSeq'
<1>1. PICK ks \in SUBSET Bulk : Polls(ks)
  BY ControlBulk
<1>2. /\ UNCHANGED <<out5, rxq, readUpTo, sent, resets, phase>> /\ 5 \in Bulk /\ ~ Pending
      /\ dev \in Device /\ Types
  BY DEF hostVars, progVars, Control, Pending, Bulk, CtlInv, Types
<1>3. /\ 5 \notin dev'.done
      /\ Pending' <=> 5 \in dev.done
  BY <1>1, <1>2 DEF Polls, Pending, Control
<1>4. CASE 5 \in ks
  <2>1. dev'.rxlen = 0 /\ dev'.rxpos = 0 /\ dev.setupRec /\ 5 \in Touches(request)
    BY <1>1, <1>4 DEF Polls
  <2>2. dev.conf = 0
    <3>1. dev.conf = hConf /\ hConf \in {0, 1} /\ request \notin InUse
      BY <2>1, SetupWaits DEF NoRestart, CtlInv, Types
    <3> QED
      BY <2>1, <3>1 DEF RxInv
  <2>3. dev.rxlen = 0 /\ dev.rxpos = 0
    <3>1. dev.rxlen = 0 /\ dev.rxpos <= dev.rxlen /\ dev.rxpos \in 0 .. PKT
      BY <1>2, <2>2, DeviceFields DEF RxSeq, Emptied, Types
    <3> QED
      BY <3>1, UsbTaskAssumption
  <2>4. 5 \notin dev.done
    BY <2>1, RestartedClean DEF RxUndisturbed, NoRestart
  <2>5. Waiting = 0
    BY <1>2, <2>3, <2>4 DEF Waiting, Arrives
  <2>6. Waiting' = 0 /\ Emptied'
    BY <1>3, <2>1, <2>4 DEF Waiting, Arrives, Emptied
  <2> QED
    BY <1>2, <2>5, <2>6, SeqDropped
<1>5. CASE 5 \notin ks
  <2>1. /\ dev'.b[5] = dev.b[5] /\ dev'.rxlen = dev.rxlen /\ dev'.rxpos = dev.rxpos
        /\ dev'.conf = dev.conf
    BY <1>1, <1>2, <1>5 DEF Polls
  <2>2. Arrives' <=> Arrives
    BY <1>2, <1>3 DEF Arrives
  <2>3. Waiting' = Waiting /\ Taken' = Taken /\ (Emptied' <=> Emptied)
    BY <2>1, <2>2 DEF Waiting, Taken, Emptied
  <2>4. dev'.conf = 0 => Emptied'
    BY <2>1, <2>3 DEF RxSeq
  <2> QED
    BY <1>2, <2>3, <2>4, SeqStill
<1> QED
  BY <1>4, <1>5

\* receive(): from the packet to the ring.
LEMMA SeqReceive ==
  ASSUME CtlInv, RxInv, RxSeq, Receive, UNCHANGED hostVars, UNCHANGED progVars
  PROVE  RxSeq'
<1> DEFINE d == Unpacked(dev)
           n == Room(d)
           t == SubSeq(out5, d.rxpos + 1, d.rxpos + n)
           w == Waiting
<1>1. /\ Types /\ dev \in Device /\ pc = "receive" /\ ~ Pending' /\ (Pending <=> 5 \in s)
      /\ UNCHANGED <<out5, readUpTo, sent, resets, phase>>
  BY DEF CtlInv, Types, Receive, Pending, hostVars, progVars
<1>2. /\ d \in Device /\ n \in Nat /\ d.rxpos + n <= d.rxlen /\ OnlyRx(dev, dev')
      /\ dev' = Advanced(d, n) /\ rxq' = rxq \o t /\ d.rxlen \in Nat /\ d.rxpos \in Nat
      /\ d.rxpos + n <= PKT /\ PKT \in Nat
  <2>1. /\ d \in Device /\ n \in Nat /\ d.rxpos + n <= d.rxlen /\ OnlyRx(dev, dev')
        /\ dev' = Advanced(d, n) /\ rxq' = rxq \o t
    BY <1>1, ReceiveIs
  <2>. HIDE DEF d, n, t
  <2>2. d.rxlen \in 0 .. PKT /\ d.rxpos \in 0 .. PKT /\ PKT \in Nat
    BY <2>1, DeviceFields, UsbTaskAssumption
  <2> QED
    BY <2>1, <2>2
<1>3. /\ 5 \in s => d.rxpos = 0 /\ d.rxlen = dev.b[5].len
      /\ 5 \notin s => d = dev
  BY <1>1, ReceivedIs DEF Unpacked
<1>4. dev'.done = dev.done /\ dev'.conf = dev.conf
  BY <1>2 DEF OnlyRx, CtlSame, FixedSame
<1>5. /\ w \in Nat /\ Taken \in Nat /\ sent \in Nat /\ rxq \in Seq(Nat)
      /\ out5 \in [1 .. PKT -> Nat] /\ readUpTo \in Nat
  BY <1>1, WaitingTyped DEF RxSeq
<1>6. /\ \A i \in 1 .. w : out5[Taken + i] = (sent - w) + i
      /\ Rising(readUpTo, rxq) /\ Newest(readUpTo, rxq) <= sent - w
      /\ resets = 0 => Newest(readUpTo, rxq) = sent - w /\ Even(readUpTo, rxq)
      /\ dev.conf = 0 => Emptied
      /\ phase = "reset" => resets > 0
  BY DEF RxSeq
<1>7. Newest(readUpTo, rxq) \in Nat
  <2>1. Len(rxq) \in Nat /\ \A i \in 1 .. Len(rxq) : rxq[i] \in Nat
    BY <1>5
  <2> QED
    BY <1>5, <2>1 DEF Newest, ByteAt
<1>8. t \in Seq(Nat) /\ Len(t) = n /\ \A j \in 1 .. n : t[j] = out5[d.rxpos + j]
  <2>1. out5 \in Seq(Nat) /\ Len(out5) = PKT
    BY <1>2, <1>5
  <2>2. d.rxpos + n <= Len(out5) /\ n \in Nat /\ d.rxpos \in Nat
    BY ONLY <1>2, <2>1
  <2>. HIDE DEF d, n
  <2> QED
    BY <2>1, <2>2, StretchIs
<1>9. n = 0 => t = <<>>
  BY <1>8
<1>10. CASE 5 \in dev.done
  <2>1. Kept5(dev, dev') /\ dev'.rxlen = 0 /\ dev.rxlen = 0 /\ ~ Pending
    BY <1>10, ReceiveFive DEF RxInv
  <2>2. n = 0
    BY <1>1, <1>2, <1>3, <2>1
  <2>3. rxq' = rxq
    BY <1>2, <1>5, <1>9, <2>2
  <2>4. Arrives /\ Arrives'
    BY <1>4, <1>10 DEF Arrives
  <2>5. Waiting' = Waiting /\ Taken' = Taken /\ (Emptied' <=> Emptied)
    BY <2>1, <2>4 DEF Waiting, Taken, Emptied, Kept5
  <2>6. dev'.conf = 0 => Emptied'
    BY <1>4, <1>6, <2>5
  <2> QED
    BY <1>1, <2>3, <2>5, <2>6, SeqStill
<1>11. CASE 5 \notin dev.done
  <2>1. w = d.rxlen - d.rxpos /\ Taken = d.rxpos
    BY <1>1, <1>2, <1>3, <1>11 DEF Waiting, Taken, Arrives
  <2>2. ~ Arrives'
    BY <1>1, <1>4, <1>11 DEF Arrives
  <2>. HIDE DEF d, n, t, w
  <2>3. /\ dev'.rxlen - dev'.rxpos = w - n /\ dev'.rxlen \in Nat /\ dev'.rxpos \in Nat
        /\ w - n > 0 => dev'.rxpos = d.rxpos + n
        /\ d.rxlen = 0 => dev'.rxlen = 0
    <3>1. CASE d.rxpos + n # d.rxlen \/ d.rxlen = 0
      <4>1. dev'.rxlen = d.rxlen /\ dev'.rxpos = d.rxpos + n
        BY <1>2, <3>1, AdvancedIs
      <4> QED
        BY <1>2, <2>1, <4>1, SMTT(30)
    <3>2. CASE ~ (d.rxpos + n # d.rxlen \/ d.rxlen = 0)
      <4>1. dev'.rxlen = 0 /\ dev'.rxpos = 0
        BY <1>2, <3>2, AdvancedIs
      <4> QED
        BY <1>2, <2>1, <3>2, <4>1
    <3> QED
      BY <3>1, <3>2
  <2>4. Waiting' = w - n /\ n <= w /\ (w - n > 0 => Taken' = Taken + n)
    BY <1>2, <2>1, <2>2, <2>3, SMTT(30) DEF Waiting, Taken
  <2> DEFINE x == sent - w
  <2>5. x \in Nat /\ sent - Waiting' = x + n
    BY <1>2, <1>5, <1>6, <1>7, <2>4
  <2>6. ASSUME NEW j \in 1 .. n PROVE t[j] = x + j
    <3>1. t[j] = out5[Taken + j]
      BY <1>8, <2>1
    <3>2. j \in 1 .. w
      BY <1>2, <1>5, <2>4
    <3> QED
      BY <1>6, <3>1, <3>2
  <2>. HIDE DEF x
  <2>7. Newest(readUpTo, rxq) <= x /\ (resets = 0 => Newest(readUpTo, rxq) = x)
    BY <1>6 DEF x
  <2>8. /\ Rising(readUpTo, rxq') /\ Newest(readUpTo, rxq') <= x + n
        /\ resets = 0 => Newest(readUpTo, rxq') = x + n /\ Even(readUpTo, rxq')
    <3>1. \A j \in 1 .. Len(t) : t[j] = x + j
      BY <1>8, <2>6
    <3>2. /\ Rising(readUpTo, rxq \o t) /\ Newest(readUpTo, rxq \o t) <= x + Len(t)
          /\ Newest(readUpTo, rxq) = x /\ Even(readUpTo, rxq) =>
               Newest(readUpTo, rxq \o t) = x + Len(t) /\ Even(readUpTo, rxq \o t)
      BY <1>5, <1>6, <1>8, <2>5, <2>7, <3>1, RunOn
    <3> QED
      BY <1>2, <1>6, <1>8, <2>7, <3>2
  <2>9. ASSUME NEW i \in 1 .. Waiting' PROVE out5[Taken' + i] = (sent - Waiting') + i
    <3>1. w - n > 0 /\ n + i \in 1 .. w /\ i \in Nat
      BY <1>2, <1>5, <2>4
    <3>2. Taken' + i = Taken + (n + i)
      BY <1>2, <1>5, <2>4, <3>1
    <3>3. out5[Taken + (n + i)] = x + (n + i)
      BY <1>6, <3>1 DEF x
    <3>4. x + (n + i) = (x + n) + i
      BY <1>2, <2>5, <3>1
    <3> QED
      BY <2>5, <3>2, <3>3, <3>4
  <2>10. dev'.conf = 0 => Emptied'
    <3>1. Emptied => d.rxlen = 0
      BY <1>1, <1>3 DEF Emptied, Arrives
    <3> QED
      BY <1>4, <1>6, <2>2, <2>3, <3>1 DEF Emptied
  <2> QED
    BY <1>1, <1>5, <1>6, <2>5, <2>8, <2>9, <2>10 DEF RxSeq
<1> QED
  BY <1>10, <1>11

\* transmit() and the steps of the other endpoints.
LEMMA SeqOthers ==
  ASSUME CtlInv, RxSeq,
         \/ (Transmit \/ LastFull) /\ UNCHANGED hostVars /\ UNCHANGED progVars
         \/ HostMoved
         \/ \E r \in Requests : SendSetup(r)
         \/ BusReset \/ PollNotification \/ BulkIn
         \/ Write \/ UNCHANGED vars
  PROVE  RxSeq'
<1>1. Types /\ dev \in Device /\ 2 \in EP /\ 4 \in EP /\ 5 \in EP /\ 5 \in Bulk
  BY DEF CtlInv, Types, EP, Bulk
<1>2. ASSUME (Transmit \/ LastFull) /\ UNCHANGED hostVars /\ UNCHANGED progVars
      PROVE  RxSeq'
  <2>1. OnlyTx(dev, dev') /\ pc \notin {"receive"} /\ pc' \notin {"receive"}
        /\ UNCHANGED <<out5, rxq>>
    <3>1. CASE Transmit
      BY <1>1, <3>1, TransmitIs DEF Transmit
    <3>2. CASE LastFull
      <4> DEFINE z == (txq = <<>>)
      <4>1. dev' = [dev EXCEPT !.txzlp = z] /\ z \in BOOLEAN
        BY <3>2 DEF LastFull
      <4>. HIDE DEF z
      <4>2. OnlyTx(dev, dev')
        BY <1>1, <4>1, ZlpIs
      <4> QED
        BY <3>2, <4>2 DEF LastFull
    <3> QED
      BY <1>2, <3>1, <3>2
  <2>2. /\ dev'.b[5] = dev.b[5] /\ dev'.rxlen = dev.rxlen /\ dev'.rxpos = dev.rxpos
        /\ dev'.done = dev.done /\ dev'.conf = dev.conf
    BY <2>1 DEF OnlyTx, KeptAt, CtlSame, FixedSame
  <2> QED
    BY <1>2, <2>1, <2>2, SeqSame DEF hostVars, progVars, Pending
<1>3. ASSUME HostMoved PROVE RxSeq'
  <2>1. /\ dev'.b[5] = dev.b[5] /\ dev'.rxlen = dev.rxlen /\ dev'.rxpos = dev.rxpos
        /\ 5 \in dev'.done <=> 5 \in dev.done
        /\ dev'.conf = dev.conf
    BY <1>1, <1>3 DEF HostMoved, BulkKept, BulkSame, StreamSame, FixedSame
  <2> QED
    BY <1>3, <2>1, SeqSame DEF HostMoved, Pending
<1>4. ASSUME NEW r \in Requests, SendSetup(r) PROVE RxSeq'
  <2>1. dev' = Arrived(dev) /\ phase' # "reset"
        /\ UNCHANGED <<out5, rxq, readUpTo, sent, resets, pc, s>>
    BY <1>4 DEF SendSetup, Arrived, progVars
  <2>2. /\ dev'.b = dev.b /\ dev'.done = dev.done /\ dev'.conf = dev.conf
        /\ dev'.rxlen = dev.rxlen /\ dev'.rxpos = dev.rxpos
    BY <1>1, <2>1, ArrivedIs DEF BulkKept, StreamSame
  <2> QED
    BY <2>1, <2>2, SeqSame DEF Pending
<1>5. ASSUME BusReset PROVE RxSeq'
  <2>1. dev' = ResetSeen(dev) /\ resets' = resets + 1
        /\ UNCHANGED <<out5, rxq, readUpTo, sent, pc, s>>
    BY <1>5 DEF BusReset, ResetSeen, busVars, progVars
  <2>2. /\ dev'.b = dev.b /\ dev'.done = dev.done
        /\ dev'.rxlen = dev.rxlen /\ dev'.rxpos = dev.rxpos /\ dev'.conf = dev.conf
    BY <1>1, <2>1, ResetSeenIs DEF ResetSeen, Device
  <2>3. Arrives' <=> Arrives
    BY <2>1, <2>2 DEF Arrives, Pending
  <2>4. Waiting' = Waiting /\ Taken' = Taken /\ (Emptied' <=> Emptied)
    BY <2>2, <2>3 DEF Waiting, Taken, Emptied
  <2>5. resets' \in Nat /\ resets' > 0
    BY <2>1 DEF RxSeq
  <2> QED
    BY <2>1, <2>2, <2>4, <2>5 DEF RxSeq
<1>6. ASSUME PollNotification \/ BulkIn PROVE RxSeq'
  <2>1. PICK k \in {2, 4} : dev' = Transacted(dev, k, dev.b[k].len)
    BY <1>6 DEF PollNotification, BulkIn, Done, Transacted
  <2>2. dev.b[k].len \in 0 .. PKT
    BY <1>1, <2>1 DEF Device, Buffer
  <2>3. Moved(dev, k, dev.b[k].len, dev')
    BY <1>1, <2>1, <2>2, TransactedIs
  <2>4. /\ dev'.b[5] = dev.b[5] /\ dev'.rxlen = dev.rxlen /\ dev'.rxpos = dev.rxpos
        /\ 5 \in dev'.done <=> 5 \in dev.done
        /\ dev'.conf = dev.conf
    BY <1>1, <2>3 DEF Moved, StreamSame, FixedSame
  <2>5. UNCHANGED <<out5, rxq, readUpTo, sent, resets, phase, pc, s>>
    BY <1>6 DEF PollNotification, BulkIn, busVars, progVars
  <2> QED
    BY <2>4, <2>5, SeqSame DEF Pending
<1>7. ASSUME Write \/ UNCHANGED vars PROVE RxSeq'
  <2>1. UNCHANGED <<dev, out5, rxq, readUpTo, sent, resets, phase, pc, s>>
    BY <1>7 DEF Write, vars, hostVars, taskVars, progVars
  <2> QED
    BY <2>1, SeqSame DEF Pending
<1> QED
  BY <1>2, <1>3, <1>4, <1>5, <1>6, <1>7

LEMMA SeqBulkOut ==
  ASSUME CtlInv, RxInv, RxSeq, NEW n \in 0 .. PKT, BulkOut(n)
  PROVE  RxSeq'
<1>1. /\ dev \in Device /\ Moved(dev, 5, n, dev') /\ dev.conf = 1 /\ phase # "reset"
      /\ dev.b[5].st = "armed"
      /\ out5' = [i \in 1 .. PKT |-> IF i <= n THEN sent + i ELSE out5[i]]
      /\ sent' = sent + n
  BY BulkOutTaken
<1>2. /\ UNCHANGED <<phase, rxq, readUpTo, resets, pc, s>> /\ Types
      /\ dev.rxlen = 0 /\ 5 \notin dev.done /\ ~ Pending
  BY <1>1 DEF BulkOut, busVars, progVars, CtlInv, RxInv
<1>3. dev.rxpos = 0 /\ n \in Nat /\ n <= PKT /\ PKT \in Nat /\ sent \in Nat /\ rxq \in Seq(Nat)
  <2>1. dev.rxpos \in 0 .. PKT /\ dev.rxpos <= dev.rxlen
    BY <1>1, <1>2, DeviceFields DEF Types
  <2> QED
    BY <1>2, <2>1, WaitingTyped
<1>4. Waiting = 0
  BY <1>2, <1>3 DEF Waiting, Arrives
<1>5. Arrives' /\ dev'.b[5].len = n /\ dev'.conf = 1
  BY <1>1 DEF Moved, Arrives, FixedSame
<1>6. Waiting' = n /\ Taken' = 0
  BY <1>5 DEF Waiting, Taken
<1>7. sent' - Waiting' = sent /\ sent - Waiting = sent
  BY <1>1, <1>3, <1>4, <1>6
<1>8. ASSUME NEW i \in 1 .. Waiting' PROVE out5'[Taken' + i] = (sent' - Waiting') + i
  <2>1. i \in 1 .. PKT /\ i <= n /\ 0 + i = i
    BY <1>3, <1>6
  <2> QED
    BY <1>1, <1>6, <1>7, <2>1
<1> QED
  BY <1>2, <1>5, <1>7, <1>8, <1>1 DEF RxSeq

\* getchar() takes the oldest byte.
LEMMA SeqRead ==
  ASSUME CtlInv, RxSeq, Read
  PROVE  RxSeq'
<1>1. /\ UNCHANGED <<dev, out5, sent, resets, phase, pc, s>> /\ Types
      /\ rxq \in Seq(Nat) /\ rxq # <<>> /\ readUpTo' = Head(rxq) /\ rxq' = Tail(rxq)
  BY DEF Read, hostVars, CtlInv, Types
<1>2. /\ Waiting' = Waiting /\ Taken' = Taken /\ (Emptied' <=> Emptied)
  BY <1>1 DEF Waiting, Taken, Emptied, Arrives, Pending
<1>3. /\ rxq' \in Seq(Nat) /\ Len(rxq') = Len(rxq) - 1 /\ Len(rxq) \in Nat /\ Len(rxq) > 0
      /\ \A i \in 1 .. Len(rxq') : rxq'[i] = rxq[i + 1]
      /\ readUpTo' = rxq[1] /\ readUpTo' \in Nat
      /\ \A i \in 1 .. Len(rxq) : rxq[i] \in Nat
  BY <1>1
<1>4. \A i \in 0 .. Len(rxq') : ByteAt(readUpTo', rxq', i) = ByteAt(readUpTo, rxq, i + 1)
  BY <1>3 DEF ByteAt
<1>5. Newest(readUpTo', rxq') = Newest(readUpTo, rxq)
  <2>1. Len(rxq') \in 0 .. Len(rxq') /\ Len(rxq') + 1 = Len(rxq)
    BY <1>3
  <2> QED
    BY <1>4, <2>1 DEF Newest
<1>6. ASSUME NEW i \in 1 .. Len(rxq')
      PROVE  ByteAt(readUpTo', rxq', i - 1) < ByteAt(readUpTo', rxq', i)
  <2>1. i \in 0 .. Len(rxq') /\ i - 1 \in 0 .. Len(rxq') /\ i + 1 \in 1 .. Len(rxq)
        /\ (i - 1) + 1 = i /\ (i + 1) - 1 = i
    BY <1>3
  <2>2. ByteAt(readUpTo, rxq, (i + 1) - 1) < ByteAt(readUpTo, rxq, i + 1)
    BY <2>1 DEF RxSeq, Rising
  <2>3. ByteAt(readUpTo', rxq', i - 1) = ByteAt(readUpTo, rxq, (i - 1) + 1)
        /\ ByteAt(readUpTo', rxq', i) = ByteAt(readUpTo, rxq, i + 1)
    BY <1>4, <2>1
  <2> QED
    BY <2>1, <2>2, <2>3
<1>7. ASSUME Even(readUpTo, rxq) PROVE Even(readUpTo', rxq')
  <2>1. 1 \in 1 .. Len(rxq) /\ readUpTo \in Nat
    BY <1>3 DEF RxSeq
  <2>2. readUpTo' = readUpTo + 1
    BY <1>3, <1>7, <2>1 DEF Even
  <2>3. ASSUME NEW i \in 1 .. Len(rxq') PROVE rxq'[i] = readUpTo' + i
    <3>1. i + 1 \in 1 .. Len(rxq) /\ rxq'[i] = rxq[i + 1]
      BY <1>3
    <3>2. rxq[i + 1] = readUpTo + (i + 1)
      BY <1>7, <3>1 DEF Even
    <3> QED
      BY <2>1, <2>2, <3>1, <3>2
  <2> QED
    BY <2>3 DEF Even
<1> QED
  BY <1>1, <1>2, <1>3, <1>5, <1>6, <1>7 DEF RxSeq, Rising

LEMMA SeqAlways == NoRestart => (Spec => []RxSeq)
<1> SUFFICES ASSUME NoRestart PROVE Spec => []RxSeq
  OBVIOUS
<1>1. Init => RxSeq
  <2> SUFFICES ASSUME Init PROVE RxSeq
    OBVIOUS
  <2>1. /\ rxq = <<>> /\ readUpTo = 0 /\ resets = 0 /\ sent = 0 /\ phase = "idle" /\ pc = "status"
        /\ dev.done = {} /\ dev.rxlen = 0 /\ dev.rxpos = 0
    BY DEF Init, Device0
  <2>2. ~ Arrives /\ Waiting = 0 /\ Emptied
    BY <2>1 DEF Arrives, Waiting, Emptied, Pending
  <2>3. Len(rxq) = 0
    BY <2>1
  <2> QED
    BY <2>1, <2>2, <2>3 DEF RxSeq, Rising, Even, Newest, ByteAt
<1>2. CtlInv /\ RxInv /\ RxSeq /\ [Next]_vars => RxSeq'
  <2> SUFFICES ASSUME CtlInv, RxInv, RxSeq, [Next]_vars PROVE RxSeq'
    OBVIOUS
  <2>1. CASE Core1
    <3>1. UNCHANGED hostVars /\ UNCHANGED progVars
      BY <2>1 DEF Core1
    <3> QED
      BY <2>1, <3>1, SeqStatus, SeqControl, SeqReceive, SeqOthers DEF Core1, Task
  <2>2. ASSUME NEW r \in IF hConf = 0 THEN Enumeration ELSE InUse, SendSetup(r)
        PROVE  RxSeq'
    <3>1. r \in Requests
      BY UsbConsoleAssumption
    <3> QED
      BY <2>2, <3>1, SeqOthers
  <2> QED
    BY <2>1, <2>2, HostControlIs, SeqOthers, SeqBulkOut, SeqRead DEF Next
<1>3. RxUndisturbed
  BY DEF RxUndisturbed, NoRestart
<1> QED
  BY <1>1, <1>2, <1>3, CtlAlways, RxAlways, PTL DEF Spec

(***************************************************************************)
(* The program reads what the host sent, in order: nothing is lost or       *)
(* repeated between the packet buffer, rxlen and rxpos and the ring, for     *)
(* every packet and ring size; a bus reset may drop bytes but never turns    *)
(* the order.  No request may restart the endpoint while data comes in.      *)
(***************************************************************************)
THEOREM UsbReceivesInOrder == NoRestart => (Spec => []RxInOrder)
<1> SUFFICES ASSUME NoRestart PROVE Spec => []RxInOrder
  OBVIOUS
<1>1. CtlInv /\ RxSeq => RxInOrder
  <2> SUFFICES ASSUME CtlInv, RxSeq PROVE RxInOrder
    OBVIOUS
  <2>1. /\ rxq \in Seq(Nat) /\ readUpTo \in Nat /\ Len(rxq) \in Nat
        /\ \A i \in 1 .. Len(rxq) : rxq[i] \in Nat
    BY DEF CtlInv, Types, RxSeq
  <2>2. resets = 0 => Consecutive(rxq, readUpTo + 1)
    BY <2>1 DEF RxSeq, Even, Consecutive
  <2> DEFINE q == <<readUpTo>> \o rxq
  <2>3. /\ Len(q) = Len(rxq) + 1
        /\ \A i \in 1 .. Len(q) : q[i] = ByteAt(readUpTo, rxq, i - 1)
    BY <2>1 DEF ByteAt
  <2>. HIDE DEF q
  <2>4. ASSUME NEW i \in 1 .. Len(q) - 1 PROVE q[i] < q[i + 1]
    <3>1. i \in 1 .. Len(rxq) /\ i \in 1 .. Len(q) /\ i + 1 \in 1 .. Len(q) /\ (i + 1) - 1 = i
      BY <2>1, <2>3
    <3>2. ByteAt(readUpTo, rxq, i - 1) < ByteAt(readUpTo, rxq, i)
      BY <3>1 DEF RxSeq, Rising
    <3>3. q[i] = ByteAt(readUpTo, rxq, i - 1) /\ q[i + 1] = ByteAt(readUpTo, rxq, (i + 1) - 1)
      BY <2>3, <3>1
    <3> QED
      BY <3>1, <3>2, <3>3
  <2> QED
    BY <2>2, <2>4 DEF RxInOrder, Increasing, q
<1> QED
  BY <1>1, CtlAlways, SeqAlways, PTL

-----------------------------------------------------------------------------
\* The bytes sent: those the host has, those in the packet it may fetch and
\* those in the ring.

LEMMA EvenJoins ==
  ASSUME NEW b \in Nat, NEW q \in Seq(Nat), NEW t \in Seq(Nat), Even(b, q), Even(b + Len(q), t)
  PROVE  Even(b, q \o t) /\ Len(q \o t) = Len(q) + Len(t)
<1> DEFINE r == q \o t
<1>1. /\ Len(q) \in Nat /\ Len(t) \in Nat /\ r \in Seq(Nat) /\ Len(r) = Len(q) + Len(t)
      /\ \A i \in 1 .. Len(q) : r[i] = q[i]
      /\ \A i \in 1 .. Len(t) : r[Len(q) + i] = t[i]
  OBVIOUS
<1>. HIDE DEF r
<1>2. ASSUME NEW i \in 1 .. Len(r) PROVE r[i] = b + i
  <2>1. CASE i <= Len(q)
    BY <1>1, <2>1 DEF Even
  <2>2. CASE i > Len(q)
    <3>1. i - Len(q) \in 1 .. Len(t) /\ i = Len(q) + (i - Len(q))
      BY <1>1, <2>2
    <3>2. r[i] = (b + Len(q)) + (i - Len(q))
      BY <1>1, <3>1 DEF Even
    <3> QED
      BY <1>1, <3>2
  <2> QED
    BY <1>1, <2>1, <2>2
<1> QED
  BY <1>1, <1>2 DEF Even, r

LEMMA EvenSplits ==
  ASSUME NEW b \in Nat, NEW q \in Seq(Nat), NEW n \in Nat, n <= Len(q), Even(b, q)
  PROVE  /\ Even(b, SubSeq(q, 1, n)) /\ Len(SubSeq(q, 1, n)) = n
         /\ Even(b + n, SubSeq(q, n + 1, Len(q))) /\ Len(SubSeq(q, n + 1, Len(q))) = Len(q) - n
<1> DEFINE x == SubSeq(q, 1, n)
           y == SubSeq(q, n + 1, Len(q))
<1>1. Len(q) \in Nat /\ Len(x) = n /\ \A i \in 1 .. n : x[i] = q[i]
  OBVIOUS
<1>2. Len(y) = Len(q) - n /\ \A i \in 1 .. Len(q) - n : y[i] = q[n + i]
  <2> DEFINE m == Len(q) - n
  <2>1. n + m = Len(q) /\ m \in Nat
    BY <1>1
  <2>. HIDE DEF m
  <2>2. y = SubSeq(q, n + 1, n + m)
    BY <2>1
  <2>3. /\ Len(SubSeq(q, n + 1, n + m)) = m
        /\ \A j \in 1 .. m : SubSeq(q, n + 1, n + m)[j] = q[n + j]
    BY <2>1, StretchIs
  <2>4. Len(y) = m /\ \A j \in 1 .. m : y[j] = q[n + j]
    BY <2>2, <2>3
  <2> QED
    BY <2>4 DEF m
<1>. HIDE DEF x, y
<1>3. ASSUME NEW i \in 1 .. Len(x) PROVE x[i] = b + i
  <2>1. i \in 1 .. Len(q) /\ x[i] = q[i]
    BY <1>1
  <2> QED
    BY <2>1 DEF Even
<1>4. ASSUME NEW i \in 1 .. Len(y) PROVE y[i] = (b + n) + i
  <2>1. n + i \in 1 .. Len(q) /\ y[i] = q[n + i]
    BY <1>1, <1>2
  <2>2. q[n + i] = b + (n + i)
    BY <2>1 DEF Even
  <2> QED
    BY <2>1, <2>2
<1> QED
  BY <1>1, <1>2, <1>3, <1>4 DEF Even, x, y

\* No reset comes and no request restarts the endpoint: either may drop bytes
\* the host has not fetched.
NoTxRestart == MaxResets = 0 /\ \A r \in InUse : 4 \notin Touches(r)

Delivered == Len(hostGot) + Len(partial)
Offered4 == IF dev.b[4].st = "armed" THEN dev.b[4].len ELSE 0

TxSeq ==
  /\ hostGot \in Seq(Nat) /\ partial \in Seq(Nat) /\ Even(0, hostGot \o partial)
  /\ dev.b[4].st = "armed" => Len(in4) = dev.b[4].len /\ Even(Delivered, in4)
  /\ Even(Delivered + Offered4, txq)
  /\ written = (Delivered + Offered4) + Len(txq)
  /\ dev.conf = 0 => dev.b[4].st # "armed"
  /\ dev.setupRec /\ hConf = 1 => request \in InUse
  /\ resets = 0 /\ phase # "reset"

LEMMA TxTyped ==
  ASSUME Types, TxSeq
  PROVE  /\ Delivered \in Nat /\ Offered4 \in 0 .. PKT /\ Len(hostGot) \in Nat
         /\ Len(partial) \in Nat /\ Len(txq) \in Nat /\ txq \in Seq(Nat) /\ in4 \in Seq(Nat)
         /\ Len(in4) \in Nat /\ PKT \in Nat
<1>1. dev.b[4].len \in 0 .. PKT /\ 0 \in 0 .. PKT /\ PKT \in Nat
  BY UsbTaskAssumption DEF Types, Device, Buffer, EP
<1>2. txq \in Seq(Nat) /\ in4 \in Seq(Nat)
  BY DEF Types
<1>3. Len(hostGot) \in Nat /\ Len(partial) \in Nat /\ Len(txq) \in Nat /\ Len(in4) \in Nat
  BY <1>2 DEF TxSeq
<1> QED
  BY <1>1, <1>2, <1>3 DEF Delivered, Offered4

\* A step that moves no byte, or that takes the endpoint out of a use it was
\* not in.
LEMMA TxStill ==
  ASSUME TxSeq, UNCHANGED <<in4, txq, hostGot, partial, written, resets>>,
         dev'.b[4] = dev.b[4] \/ (dev.b[4].st # "armed" /\ dev'.b[4].st # "armed"),
         dev'.conf = 0 => dev'.b[4].st # "armed",
         dev'.setupRec /\ hConf' = 1 => request' \in InUse, phase' # "reset"
  PROVE  TxSeq'
<1>1. Delivered' = Delivered
  BY DEF Delivered
<1>2. Offered4' = Offered4 /\ (dev'.b[4].st = "armed" => dev'.b[4] = dev.b[4])
  BY DEF Offered4
<1> QED
  BY <1>1, <1>2 DEF TxSeq

\* The step leaves endpoint 4 as it is.
LEMMA TxSame ==
  ASSUME TxSeq, UNCHANGED <<in4, txq, hostGot, partial, written, resets>>,
         dev'.b[4] = dev.b[4], dev'.conf = dev.conf, dev'.setupRec = dev.setupRec,
         request' = request, dev.setupRec => hConf' = hConf, phase' # "reset"
  PROVE  TxSeq'
<1>1. dev'.conf = 0 => dev'.b[4].st # "armed"
  BY DEF TxSeq
<1>2. dev'.setupRec /\ hConf' = 1 => request' \in InUse
  BY DEF TxSeq
<1> QED
  BY <1>1, <1>2, TxStill

\* transmit() cuts the next packet off the ring.
LEMMA TxTransmit ==
  ASSUME CtlInv, BulkInv, TxSeq, Transmit, UNCHANGED hostVars, UNCHANGED progVars
  PROVE  TxSeq'
<1>1. /\ Types /\ dev \in Device /\ OnlyTx(dev, dev') /\ \E n \in Nat : Sends(dev, dev', n)
      /\ UNCHANGED <<phase, hConf, hostGot, partial, resets, request, written>>
  BY TransmitIs DEF CtlInv, Types, Transmit, hostVars, progVars
<1>2. PICK n \in Nat : Sends(dev, dev', n)
  BY <1>1
<1>3. dev'.conf = dev.conf /\ dev'.setupRec = dev.setupRec
  BY <1>1 DEF OnlyTx, CtlSame, FixedSame
<1>4. CASE UNCHANGED <<in4, txq>> /\ dev'.b[4] = dev.b[4]
  BY <1>1, <1>3, <1>4, TxSame DEF TxSeq
<1>5. dev.conf = 0 => UNCHANGED <<in4, txq>> /\ dev'.b[4] = dev.b[4]
  <2> SUFFICES ASSUME dev.conf = 0 PROVE UNCHANGED <<in4, txq>> /\ dev'.b[4] = dev.b[4]
    OBVIOUS
  <2> QED
    BY DEF Transmit
<1>6. ASSUME dev.conf # 0, Fired(dev, dev', 4, n)
      PROVE  /\ dev'.b[4] = [st |-> "armed", len |-> n, pid |-> dev.pid[4]]
             /\ Offered4 = 0 /\ Offered4' = n /\ Delivered' = Delivered
  <2>1. dev.b[4].st # "armed"
    BY <1>6 DEF BulkInv, Offers, Fired
  <2> QED
    BY <1>1, <1>6, <2>1 DEF Fired, Offered4, Delivered
<1>7. /\ Delivered \in Nat /\ txq \in Seq(Nat) /\ Len(txq) \in Nat
      /\ Even(Delivered + Offered4, txq) /\ written = (Delivered + Offered4) + Len(txq)
  BY <1>1, TxTyped DEF TxSeq
<1>8. CASE dev.conf # 0 /\ Fired(dev, dev', 4, 0) /\ n = 0 /\ in4' = <<>> /\ txq' = txq
  <2>1. /\ dev'.b[4] = [st |-> "armed", len |-> 0, pid |-> dev.pid[4]]
        /\ Offered4 = 0 /\ Offered4' = 0 /\ Delivered' = Delivered
    BY <1>6, <1>8
  <2>2. Len(in4') = 0 /\ Even(Delivered, in4')
    BY <1>8 DEF Even
  <2> QED
    BY <1>1, <1>3, <1>7, <1>8, <2>1, <2>2 DEF TxSeq
<1>9. CASE /\ dev.conf # 0 /\ Fired(dev, dev', 4, n) /\ n <= Len(txq)
           /\ in4' = SubSeq(txq, 1, n) /\ txq' = SubSeq(txq, n + 1, Len(txq))
  <2>1. /\ dev'.b[4] = [st |-> "armed", len |-> n, pid |-> dev.pid[4]]
        /\ Offered4 = 0 /\ Offered4' = n /\ Delivered' = Delivered
    BY <1>6, <1>9
  <2>2. Even(Delivered, txq) /\ written = Delivered + Len(txq)
    BY <1>7, <2>1
  <2>3. /\ Even(Delivered, in4') /\ Len(in4') = n
        /\ Even(Delivered + n, txq') /\ Len(txq') = Len(txq) - n
    BY <1>7, <1>9, <2>2, EvenSplits
  <2>4. written = (Delivered + n) + Len(txq')
    BY <1>7, <2>2, <2>3
  <2> QED
    BY <1>1, <1>3, <1>9, <2>1, <2>3, <2>4 DEF TxSeq
<1> QED
  BY <1>2, <1>4, <1>5, <1>8, <1>9 DEF Sends, KeptAt

LEMMA TxControl ==
  ASSUME CtlInv, TxSeq, NoTxRestart, Control, UNCHANGED hostVars, UNCHANGED progVars
  PROVE  TxSeq'
<1>1. PICK ks \in SUBSET Bulk : Polls(ks)
  BY ControlBulk
<1>2. /\ UNCHANGED <<in4, txq, hostGot, partial, written, resets, phase, request, hConf>>
      /\ 4 \in Bulk /\ phase # "reset"
  BY DEF hostVars, progVars, Control, Bulk, TxSeq
<1>3. dev'.setupRec /\ hConf' = 1 => request' \in InUse
  BY <1>1, <1>2 DEF Polls, TxSeq
<1>4. CASE 4 \in ks
  <2>1. dev'.b[4].st # "armed" /\ dev.setupRec /\ 4 \in Touches(request)
    BY <1>1, <1>4 DEF Polls
  <2>2. dev.conf = hConf /\ hConf \in {0, 1} /\ request \notin InUse
    BY <2>1, SetupWaits DEF NoTxRestart, CtlInv, Types
  <2>3. dev.b[4].st # "armed"
    BY <2>1, <2>2 DEF TxSeq
  <2> QED
    BY <1>2, <1>3, <2>1, <2>3, TxStill
<1>5. CASE 4 \notin ks
  <2>1. dev'.b[4] = dev.b[4] /\ dev'.conf = dev.conf
    BY <1>1, <1>2, <1>5 DEF Polls
  <2>2. dev'.conf = 0 => dev'.b[4].st # "armed"
    BY <2>1 DEF TxSeq
  <2> QED
    BY <1>2, <1>3, <2>1, <2>2, TxStill
<1> QED
  BY <1>4, <1>5

\* The host fetches a packet: it is not a repeat.
LEMMA TxBulkIn ==
  ASSUME CtlInv, BulkInv, TxSeq, BulkIn
  PROVE  TxSeq'
<1>1. /\ Usable(4) /\ Armed(4) /\ 4 \in Bulk /\ 4 \in EP /\ Types /\ dev \in Device
      /\ dev' = Transacted(dev, 4, dev.b[4].len)
      /\ UNCHANGED <<in4, txq, written, resets, phase, request, hConf>>
  BY DEF BulkIn, Bulk, EP, CtlInv, Types, Done, Transacted, busVars, progVars
<1>2. dev.conf = 1 /\ phase # "reset" /\ Expect(4) = tog[4]
  BY <1>1, UsableIs
<1>3. dev.b[4].st = "armed" /\ dev.b[4].pid = tog[4]
  BY <1>1, <1>2 DEF BulkInv, Offers, Agrees, Armed
<1>4. Moved(dev, 4, dev.b[4].len, dev')
  <2>1. dev.b[4].len \in 0 .. PKT
    BY <1>1 DEF Device, Buffer
  <2> QED
    BY <1>1, <2>1, TransactedIs
<1>5. \/ partial' = partial \o in4 /\ hostGot' = hostGot
      \/ partial' = <<>> /\ hostGot' = hostGot \o partial \o in4
  <2>1. ~ (dev.b[4].pid # tog[4])
    BY <1>3
  <2>2. IF dev.b[4].len = PKT
        THEN partial' = partial \o in4 /\ UNCHANGED hostGot
        ELSE partial' = <<>> /\ hostGot' = hostGot \o partial \o in4
    BY <2>1, Zenon DEF BulkIn
  <2> QED
    BY <2>2
<1>6. /\ hostGot \in Seq(Nat) /\ partial \in Seq(Nat) /\ in4 \in Seq(Nat)
      /\ Delivered \in Nat /\ Len(in4) \in Nat /\ Len(txq) \in Nat
      /\ Len(in4) = dev.b[4].len /\ Offered4 = dev.b[4].len
      /\ Even(0, hostGot \o partial) /\ Even(Delivered, in4)
      /\ Even(Delivered + Offered4, txq) /\ written = (Delivered + Offered4) + Len(txq)
  BY <1>1, <1>3, TxTyped DEF TxSeq, Offered4
<1> DEFINE r == hostGot \o partial
<1>7. r \in Seq(Nat) /\ Len(r) = Delivered
  BY <1>6, ConcatProperties DEF Delivered
<1>8. /\ hostGot' \in Seq(Nat) /\ partial' \in Seq(Nat)
      /\ hostGot' \o partial' = r \o in4 /\ Len(hostGot') + Len(partial') = Len(r) + Len(in4)
  <2>1. CASE partial' = partial \o in4 /\ hostGot' = hostGot
    <3>1. partial' \in Seq(Nat) /\ Len(partial') = Len(partial) + Len(in4)
      BY <1>6, <2>1, ConcatProperties
    <3>2. (hostGot \o partial) \o in4 = hostGot \o (partial \o in4)
      <4>1. hostGot \in Seq(Nat) /\ partial \in Seq(Nat) /\ in4 \in Seq(Nat)
        BY <1>6
      <4> QED
        BY ONLY <4>1, ConcatAssociative, SMTT(30)
    <3>3. Len(hostGot) + (Len(partial) + Len(in4)) = Delivered + Len(in4)
      BY <1>6 DEF Delivered
    <3> QED
      BY <1>6, <1>7, <2>1, <3>1, <3>2, <3>3
  <2>2. CASE partial' = <<>> /\ hostGot' = hostGot \o partial \o in4
    <3>1. hostGot' = r \o in4
      BY <2>2
    <3>. HIDE DEF r
    <3>2. r \o in4 \in Seq(Nat) /\ Len(r \o in4) = Len(r) + Len(in4)
      BY <1>6, <1>7, ConcatProperties
    <3>3. (r \o in4) \o <<>> = r \o in4
      BY <3>2, ConcatEmptySeq
    <3>4. partial' \in Seq(Nat) /\ Len(partial') = 0
      BY <2>2
    <3>5. Len(r) + Len(in4) + 0 = Len(r) + Len(in4)
      BY <1>6, <1>7
    <3> QED
      BY <2>2, <3>1, <3>2, <3>3, <3>4, <3>5
  <2> QED
    BY <1>5, <2>1, <2>2
<1>9. Even(0, hostGot' \o partial') /\ Delivered' = Delivered + Len(in4)
  <2>1. Even(0 + Len(r), in4) /\ Even(0, r)
    BY <1>6, <1>7
  <2>. HIDE DEF r
  <2>2. Even(0, r \o in4)
    BY <1>6, <1>7, <2>1, EvenJoins
  <2> QED
    BY <1>7, <1>8, <2>2 DEF Delivered
<1>10. dev'.b[4].st = "off" /\ dev'.conf = dev.conf /\ dev'.setupRec = dev.setupRec
  BY <1>4 DEF Moved, FixedSame
<1>11. Offered4' = 0 /\ Delivered' + Offered4' = Delivered + Offered4
  BY <1>6, <1>9, <1>10, SMTT(30) DEF Offered4
<1> QED
  BY <1>1, <1>2, <1>6, <1>8, <1>9, <1>10, <1>11 DEF TxSeq

\* The steps that do not touch what is sent.
LEMMA TxOthers ==
  ASSUME CtlInv, TxSeq, NoTxRestart,
         \/ /\ Status \/ Receive \/ LastFull
            /\ UNCHANGED hostVars /\ UNCHANGED progVars
         \/ HostMoved
         \/ \E r \in IF hConf = 0 THEN Enumeration ELSE InUse : SendSetup(r)
         \/ BusReset \/ PollNotification \/ (\E n \in 0 .. PKT : BulkOut(n))
         \/ Read \/ UNCHANGED vars
  PROVE  TxSeq'
<1>1. /\ Types /\ dev \in Device /\ 2 \in EP /\ 4 \in EP /\ 5 \in EP /\ 4 \in Bulk
      /\ phase # "reset" /\ hConf \in {0, 1}
  BY SMTT(30) DEF CtlInv, Types, EP, Bulk, TxSeq
<1>2. ASSUME Status \/ Receive \/ LastFull, UNCHANGED hostVars, UNCHANGED progVars
      PROVE  TxSeq'
  <2>1. UNCHANGED <<in4, txq, hostGot, partial, written, resets, phase, request, hConf>>
    BY <1>2 DEF Status, Receive, LastFull, hostVars, progVars
  <2>2. dev'.b[4] = dev.b[4] /\ dev'.conf = dev.conf /\ dev'.setupRec = dev.setupRec
    <3>1. CASE Status
      <4>1. dev' = dev
        BY <1>1, <3>1, StatusIs
      <4> QED
        BY <4>1
    <3>2. CASE Receive
      <4>1. OnlyRx(dev, dev')
        BY <1>1, <3>2, ReceiveIs
      <4> QED
        BY <4>1 DEF OnlyRx, KeptAt, CtlSame, FixedSame
    <3>3. CASE LastFull
      <4> DEFINE z == (txq = <<>>)
      <4>1. dev' = [dev EXCEPT !.txzlp = z] /\ z \in BOOLEAN
        BY <3>3 DEF LastFull
      <4>. HIDE DEF z
      <4> QED
        BY <1>1, <4>1 DEF Device
    <3> QED
      BY <1>2, <3>1, <3>2, <3>3
  <2> QED
    BY <1>1, <2>1, <2>2, TxSame
<1>3. ASSUME HostMoved PROVE TxSeq'
  <2>1. dev'.b[4] = dev.b[4] /\ dev'.conf = dev.conf /\ dev'.setupRec = dev.setupRec
    BY <1>1, <1>3 DEF HostMoved, BulkKept, BulkSame, FixedSame
  <2> QED
    BY <1>3, <2>1, TxSame DEF HostMoved
<1>4. ASSUME NEW r \in IF hConf = 0 THEN Enumeration ELSE InUse, SendSetup(r)
      PROVE  TxSeq'
  <2>1. /\ dev' = Arrived(dev) /\ phase' # "reset" /\ request' = r
        /\ UNCHANGED <<in4, txq, hostGot, partial, written, resets, hConf>>
    BY <1>4 DEF SendSetup, Arrived, progVars
  <2>2. dev'.b = dev.b /\ dev'.conf = dev.conf
    BY <1>1, <2>1, ArrivedIs
  <2>3. hConf' = 1 => request' \in InUse
    BY <1>4, <2>1
  <2>4. dev'.conf = 0 => dev'.b[4].st # "armed"
    BY <2>2 DEF TxSeq
  <2> QED
    BY <2>1, <2>2, <2>3, <2>4, TxStill
<1>5. ~ BusReset
  BY DEF BusReset, TxSeq, NoTxRestart
<1>6. ASSUME PollNotification \/ \E n \in 0 .. PKT : BulkOut(n) PROVE TxSeq'
  <2>1. UNCHANGED <<in4, txq, hostGot, partial, written, resets, phase, request, hConf>>
    BY <1>6 DEF PollNotification, BulkOut, busVars, progVars
  <2>2. CASE PollNotification
    <3>1. dev.b[2].len \in 0 .. PKT
      BY <1>1 DEF Device, Buffer
    <3>2. Moved(dev, 2, dev.b[2].len, dev')
      BY <1>1, <2>2, <3>1, TransactedIs DEF PollNotification, Done, Transacted
    <3>3. dev'.b[4] = dev.b[4] /\ dev'.conf = dev.conf /\ dev'.setupRec = dev.setupRec
      BY <1>1, <3>2 DEF Moved, FixedSame
    <3> QED
      BY <1>1, <2>1, <3>3, TxSame
  <2>3. CASE \E n \in 0 .. PKT : BulkOut(n)
    <3>1. PICK n \in 0 .. PKT : BulkOut(n)
      BY <2>3
    <3>2. Moved(dev, 5, n, dev') \/ dev' = dev
      <4>1. dev' = dev \/ dev' = Transacted(dev, 5, n)
        BY <3>1 DEF BulkOut, Done, Transacted
      <4> QED
        BY <1>1, <4>1, TransactedIs
    <3>3. dev'.b[4] = dev.b[4] /\ dev'.conf = dev.conf /\ dev'.setupRec = dev.setupRec
      BY <1>1, <3>2 DEF Moved, FixedSame
    <3> QED
      BY <1>1, <2>1, <3>3, TxSame
  <2> QED
    BY <1>6, <2>2, <2>3
<1>7. ASSUME Read \/ UNCHANGED vars PROVE TxSeq'
  <2>1. UNCHANGED <<dev, in4, txq, hostGot, partial, written, resets, phase, request, hConf>>
    BY <1>7 DEF Read, vars, hostVars, taskVars, progVars
  <2> QED
    BY <1>1, <2>1, TxSame
<1> QED
  BY <1>2, <1>3, <1>4, <1>5, <1>6, <1>7

\* console_write() adds the next bytes to the ring.
LEMMA TxWrite ==
  ASSUME CtlInv, TxSeq, Write
  PROVE  TxSeq'
<1>1. PICK n \in 1 .. Lesser(MaxIn - written, Left) :
         written' = written + n /\ txq' = txq \o [i \in 1 .. n |-> written + i]
  BY DEF Write
<1>2. /\ UNCHANGED <<dev, in4, hostGot, partial, resets, phase, request, hConf>>
      /\ n \in Nat /\ Types /\ written \in Nat
  BY DEF Write, hostVars, CtlInv, Types
<1> DEFINE t == [i \in 1 .. n |-> written + i]
           b == Delivered + Offered4
<1>3. t \in Seq(Nat) /\ Len(t) = n
  BY <1>2, IsASeq
<1>4. \A i \in 1 .. n : t[i] = written + i
  BY <1>2
<1>5. /\ b \in Nat /\ txq \in Seq(Nat) /\ Len(txq) \in Nat
      /\ Even(b, txq) /\ written = b + Len(txq)
  BY <1>2, TxTyped DEF TxSeq
<1>6. b' = b
  BY <1>2 DEF Delivered, Offered4
<1>7. txq' = txq \o t
  BY <1>1
<1>. HIDE DEF t, b
<1>8. Even(b + Len(txq), t)
  BY <1>3, <1>4, <1>5 DEF Even
<1>9. Even(b, txq \o t) /\ Len(txq \o t) = Len(txq) + Len(t)
  BY <1>3, <1>5, <1>8, EvenJoins
<1>10. Even(b', txq') /\ written' = b' + Len(txq')
  <2>1. Even(b, txq')
    BY <1>7, <1>9
  <2>2. written' = written + n /\ Len(txq') = Len(txq) + n
    BY <1>1, <1>3, <1>7, <1>9
  <2>3. written' = b + Len(txq')
    BY <1>2, <1>5, <2>2
  <2> QED
    BY <1>6, <2>1, <2>3
<1>11. Even(Delivered' + Offered4', txq') /\ written' = (Delivered' + Offered4') + Len(txq')
  BY <1>10 DEF b
<1>12. Delivered' = Delivered
  BY <1>2 DEF Delivered
<1> QED
  BY <1>2, <1>11, <1>12 DEF TxSeq

LEMMA TxAlways == NoTxRestart => (Spec => []TxSeq)
<1> SUFFICES ASSUME NoTxRestart PROVE Spec => []TxSeq
  OBVIOUS
<1>1. Init => TxSeq
  <2> SUFFICES ASSUME Init PROVE TxSeq
    OBVIOUS
  <2>1. /\ hostGot = <<>> /\ partial = <<>> /\ txq = <<>> /\ written = 0 /\ resets = 0
        /\ phase = "idle" /\ dev = Device0 /\ hConf = 0
    BY DEF Init
  <2>2. dev.b[4].st # "armed" /\ ~ dev.setupRec
    BY <2>1 DEF Device0, Cleared, EP
  <2>3. Len(<<>>) = 0 /\ Len(hostGot \o partial) = 0 /\ hostGot \in Seq(Nat) /\ partial \in Seq(Nat)
    BY <2>1
  <2>4. Delivered = 0 /\ Offered4 = 0
    BY <2>1, <2>2, <2>3 DEF Delivered, Offered4
  <2>5. Even(0, hostGot \o partial) /\ Even(0, txq)
    BY <2>1, <2>3 DEF Even
  <2> QED
    BY <2>1, <2>2, <2>3, <2>4, <2>5 DEF TxSeq
<1>2. CtlInv /\ BulkInv /\ TxSeq /\ [Next]_vars => TxSeq'
  <2> SUFFICES ASSUME CtlInv, BulkInv, TxSeq, [Next]_vars PROVE TxSeq'
    OBVIOUS
  <2>1. CASE Core1
    <3>1. UNCHANGED hostVars /\ UNCHANGED progVars
      BY <2>1 DEF Core1
    <3> QED
      BY <2>1, <3>1, TxControl, TxTransmit, TxOthers DEF Core1, Task
  <2> QED
    BY <2>1, HostControlIs, TxOthers, TxBulkIn, TxWrite DEF Next
<1> QED
  BY <1>1, <1>2, CtlAlways, BulkAlways, PTL DEF Spec

(***************************************************************************)
(* The host reads what the program wrote, in order, nothing lost or         *)
(* repeated on the way through the ring, next() and the packet buffer, for  *)
(* every packet and ring size.  Neither a bus reset nor a request may       *)
(* restart the endpoint: what transmit() has armed is lost then.            *)
(***************************************************************************)
THEOREM UsbSendsInOrder == NoTxRestart => (Spec => []TxInOrder)
<1> SUFFICES ASSUME NoTxRestart PROVE Spec => []TxInOrder
  OBVIOUS
<1>1. TxSeq => TxInOrder
  <2> SUFFICES ASSUME TxSeq, NEW i \in 1 .. Len(hostGot \o partial)
               PROVE  (hostGot \o partial)[i] = 1 + i - 1
    BY DEF TxInOrder, Consecutive
  <2>1. (hostGot \o partial)[i] = 0 + i
    BY DEF TxSeq, Even
  <2> QED
    BY <2>1
<1> QED
  BY <1>1, TxAlways, PTL
=============================================================================

---------------------------- MODULE MCUsbStream ----------------------------
(***************************************************************************)
(* Bytes in both directions once the host has configured the device, and    *)
(* the requests the runs add.                                              *)
(***************************************************************************)
EXTENDS UsbConsole

Req(kind, v, limit) == [kind |-> kind, v |-> v, limit |-> limit]

\* The host configures the device.
Configure == {Req("SetConfig", 1, 0)}

\* What a terminal program asks while data flows:
\* SET_LINE_CODING and SET_CONTROL_LINE_STATE.
ControlLine == {Req("ControlLine", 0, 0)}
LineRequests == ControlLine \cup {Req("LineCoding", 0, 2)}

\* A host that clears the halt of the bulk OUT pipe when it opens the port.
ClearRx == {Req("ClearHalt", 5, 0)}
=============================================================================

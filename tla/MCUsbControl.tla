---------------------------- MODULE MCUsbControl ----------------------------
(***************************************************************************)
(* Control transfers: every kind of request, bus resets, no bulk traffic.   *)
(* A full packet is two bytes, so a reply of three takes two packets (the   *)
(* configuration descriptor, 67 bytes) and one of one byte takes one; a     *)
(* host may ask for no bytes of a reply.                                    *)
(***************************************************************************)
EXTENDS UsbConsole

Req(kind, v, limit) == [kind |-> kind, v |-> v, limit |-> limit]

AllRequests ==
  {Req("Descriptor", n, l) : n \in {1, 3}, l \in 0 .. 4} \cup
  {Req("ClassGet", 1, 0), Req("ClassGet", 1, 1), Req("SetAddress", 1, 0), Req("SetConfig", 0, 0),
   Req("SetConfig", 1, 0), Req("SetInterface", 0, 0), Req("SetInterface", 1, 0),
   Req("ClearHalt", 2, 0), Req("ClearHalt", 4, 0), Req("ClearHalt", 5, 0),
   Req("SetHalt", 2, 0), Req("SetHalt", 4, 0), Req("SetHalt", 5, 0),
   Req("LineCoding", 0, 2), Req("ControlLine", 0, 0), Req("Unknown", 0, 1)}
=============================================================================

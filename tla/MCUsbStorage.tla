---------------------------- MODULE MCUsbStorage ----------------------------
(* A drive of two units in one of three ports; a transfer's length wraps   *)
(* at three packets.                                                       *)
EXTENDS UsbStorage

MCRanges == {[at |-> 1, n |-> 1], [at |-> 1, n |-> 2], [at |-> 0, n |-> 3]}
=============================================================================

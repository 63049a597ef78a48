-------------------------------- MODULE CecFrame --------------------------------
(***************************************************************************)
(* What receiving and sending a frame share in src/src/cec-frame.c: the    *)
(* bytes of a message, the address that the last bits of a header name,    *)
(* and the messages that cec_message_valid refuses.                        *)
(***************************************************************************)
EXTENDS Integers, Sequences

CONSTANTS
  Bits,      \* bits of a byte: 8
  Rejected   \* messages cec_message_valid refuses

ASSUME FrameAssumption == Bits \in Nat \ {0} /\ Bits % 2 = 0

Bytes == [1 .. Bits -> {0, 1}]

(* The address that means all devices, and the one a header is for.          *)
Ones == [i \in 1 .. Bits \div 2 |-> 1]
Destination(header) == SubSeq(header, Bits \div 2 + 1, Bits)
================================================================================

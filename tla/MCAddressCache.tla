----------------------------- MODULE MCAddressCache -----------------------------
(***************************************************************************)
(* Instance of AddressCache: two connectors, a television on either of its *)
(* two inputs, which differ in the address, and a monitor without one.     *)
(* 0x67 and 0x65 head vendor blocks of seven and five bytes, 0x64 one of   *)
(* four; <<3, 12, 0>> is the HDMI licensing code.  An extension has 28 bytes *)
(* of data instead of 124.                                                 *)
(***************************************************************************)
EXTENDS AddressCache

CONSTANTS tv1, tv2, monitor

MCBase == tv1 :> "tv" @@ tv2 :> "tv" @@ monitor :> "monitor"

Block(end, bytes) ==
  [tag |-> Cta, end |-> end,
   byte |-> [o \in DataStart .. LastByte |-> IF o - 3 \in DOMAIN bytes THEN bytes[o - 3] ELSE 0]]
Other(e) == [e EXCEPT !.tag = 112]
Licensed(length, high, low) == <<96 + length, 3, 12, 0, high, low>>

(* A block of other data, an HDMI block with an invalid address, and one with *)
(* a valid address that ends with the data; a further one is outside.        *)
First == Block(21, <<66, 103, 0>> \o Licensed(5, 1, 1) \o Licensed(7, 16, 0) \o <<0, 0>>
                   \o Licensed(5, 80, 0))

(* The data goes to the end of the extension, an empty block comes first.    *)
Second == Block(0, <<0>> \o Licensed(5, 32, 0) \o Licensed(5, 16, 0))

(* A vendor block too short for an address, one in the payload of another    *)
(* block, and one that reaches over the end of the data.                     *)
Without == Block(25, <<100, 3, 12, 0, 16>> \o <<70>> \o Licensed(5, 16, 0)
                     \o <<64, 64>> \o Licensed(12, 16, 0))

MCExtension ==
     tv1 :> <<Other(Second), First>> @@ tv2 :> <<Second, First>>
  @@ monitor :> <<Without, Block(3, Licensed(5, 16, 0))>>
================================================================================

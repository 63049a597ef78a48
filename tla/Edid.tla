---------------------------------- MODULE Edid ----------------------------------
(***************************************************************************)
(* The physical address in an EDID, as cecctl_edid_physical_address finds  *)
(* it (src/host/src/edid.c), and what it is meant to find.  An EDID is the *)
(* sequence of its extensions, each with its tag, the byte block[2] that   *)
(* says where the data ends, and the bytes from 4 on; the base block and   *)
(* the checksums are taken as good.                                        *)
(***************************************************************************)
EXTENDS Integers, SequencesExt

CONSTANT LastByte   \* last byte of an extension's data: 127

ASSUME EdidAssumption == LastByte \in 4 .. 127

NoAddress == 0
DataStart == 4      \* CTA_DATA_START
Cta == 2            \* CTA_EXTENSION_TAG
Vendor == 3         \* CTA_VENDOR_BLOCK

Extensions == [tag : 0 .. 255, end : 0 .. 255, byte : [DataStart .. LastByte -> 0 .. 255]]

--------------------------------------------------------------------------------
(* cecctl_valid_physical_address.                                            *)

Nibble(a, k) == (a \div 16 ^ (3 - k)) % 16

Valid(a) == /\ a \notin {0, 65535}
            /\ \A k \in 0 .. 2 : Nibble(a, k) = 0 => Nibble(a, k + 1) = 0

--------------------------------------------------------------------------------
(* The scan of one extension.                                                *)

DataEnd(e) == IF e.end = 0 THEN LastByte ELSE e.end
Usable(e) == e.tag = Cta /\ DataEnd(e) \in DataStart .. LastByte

Length(e, o) == e.byte[o] % 32
NextBlock(e, o) == o + 1 + Length(e, o)

(* Fault: a block may reach over the end of the data. *)
CompleteAlways(e, o) == TRUE
Complete(e, o) == NextBlock(e, o) <= DataEnd(e)

AddressAt(e, o) == e.byte[o + 4] * 256 + e.byte[o + 5]

IsHdmi(e, o) ==
  /\ e.byte[o] \div 32 = Vendor /\ Length(e, o) >= 5
  /\ <<e.byte[o + 1], e.byte[o + 2], e.byte[o + 3]>> = <<3, 12, 0>>

(* The loop over the data blocks, from the one at an offset. *)
Scan(e) ==
  LET from[o \in DataStart .. DataEnd(e)] ==
        IF o >= DataEnd(e) \/ ~Complete(e, o) THEN NoAddress
        ELSE IF IsHdmi(e, o) /\ Valid(AddressAt(e, o)) THEN AddressAt(e, o)
        ELSE from[NextBlock(e, o)]
  IN  IF Usable(e) THEN from[DataStart] ELSE NoAddress

(* The loop over the extensions. *)
PhysicalAddress(edid) ==
  LET found == {x \in DOMAIN edid : Scan(edid[x]) # NoAddress}
  IN  IF found = {} THEN NoAddress ELSE Scan(edid[Min(found)])

--------------------------------------------------------------------------------
(* The reference: blocks follow one another from the start without a gap,  *)
(* and each ends inside the data; the address is in the first block of the *)
(* first extension that is an HDMI block with a valid address.             *)

Carries(e, o) ==
  /\ o + (e.byte[o] % 32) < DataEnd(e)
  /\ e.byte[o] \in 101 .. 127 /\ [k \in 1 .. 3 |-> e.byte[o + k]] = <<3, 12, 0>>
  /\ LET d == <<e.byte[o + 4] \div 16, e.byte[o + 4] % 16,
                e.byte[o + 5] \div 16, e.byte[o + 5] % 16>>
     IN  /\ \E n \in 1 .. 4 : \A k \in 1 .. 4 : d[k] = 0 <=> k > n
         /\ d # <<15, 15, 15, 15>>

Begins(e) ==
  FoldLeft(LAMBDA reached, o : IF o \in reached THEN reached \cup {o + 1 + (e.byte[o] % 32)}
                               ELSE reached,
           {DataStart}, [x \in 1 .. DataEnd(e) - DataStart |-> DataStart - 1 + x])
Carriers(e) == {o \in Begins(e) \cap DataStart .. (DataEnd(e) - 1) : Carries(e, o)}

Carried(edid) == {x \in DOMAIN edid : Usable(edid[x]) /\ Carriers(edid[x]) # {}}

IsAddressOf(edid, a) ==
  IF Carried(edid) = {} THEN a = NoAddress
  ELSE LET e == edid[Min(Carried(edid))] IN a = AddressAt(e, Min(Carriers(e)))
================================================================================

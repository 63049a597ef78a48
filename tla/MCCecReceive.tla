------------------------------ MODULE MCCecReceive ------------------------------
(***************************************************************************)
(* Instances of CecReceive: a byte has two bits, one for each address, and *)
(* a message two bytes.  Frames of one, two and three bytes, to this       *)
(* device, to all, and to another.                                         *)
(***************************************************************************)
EXTENDS CecReceive

MCFrames == {<<<<1, 0>>>>, <<<<1, 0>>, <<0, 1>>>>, <<<<0, 1>>, <<1, 1>>>>,
             <<<<1, 0>>, <<1, 0>>, <<0, 0>>>>}
MCRejected == {<<<<1, 0>>>>}
MCAddresses == {<<0>>, <<1>>}
================================================================================

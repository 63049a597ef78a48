----------------------------- MODULE MCCecTransmit -----------------------------
(***************************************************************************)
(* Instances of CecTransmit: a byte has two bits, one for each address.    *)
(* Polls, directed and broadcast messages, and one that is refused.        *)
(***************************************************************************)
EXTENDS CecTransmit

MCMessages == {<<<<1, 0>>>>, <<<<1, 0>>, <<1, 1>>>>, <<<<1, 1>>, <<0, 1>>>>, <<<<0, 0>>, <<0, 0>>>>}
MCRejected == {<<<<0, 0>>, <<0, 0>>>>}
================================================================================

--------------------------- MODULE MCOperationGate ---------------------------
(***************************************************************************)
(* A small instance of OperationGate: a ring of two results, so that three *)
(* operations evict one; an output queue of two lines, so that logs and    *)
(* terminal events can fill it; two ids and one valid address, so that an  *)
(* id can be repeated with the same and with different parameters.         *)
(***************************************************************************)
EXTENDS OperationGate

MCIds == {1, 2}
MCCommands == {"on", "status"}
MCAddresses == {0, 4096}
MCValidAddresses == {4096}
==============================================================================

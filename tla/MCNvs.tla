--------------------------------- MODULE MCNvs ---------------------------------
(***************************************************************************)
(* Instances of Nvs: of each kind a good value, a bad one and the default. *)
(***************************************************************************)
EXTENDS Nvs
================================================================================

------------------------------ MODULE MCCecTask ------------------------------
(***************************************************************************)
(* Instances of CecTask.  Two input paths, so that a route can leave and   *)
(* come back; the first address of the playback row is taken.              *)
(***************************************************************************)
EXTENDS CecTask

MCPhysicals == {1, 2}
MCManual == {8}
MCTaken == {4}
================================================================================

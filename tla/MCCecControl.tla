------------------------------ MODULE MCCecControl ------------------------------
(***************************************************************************)
(* Instances of CecControl.  The unit is 500 ms, so the source's constants *)
(* are whole numbers; an overrun is rounded up from 10 ms to one unit and  *)
(* the client's margin from 50 ms to one unit.                             *)
(***************************************************************************)
EXTENDS CecControl
================================================================================

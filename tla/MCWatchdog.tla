------------------------------- MODULE MCWatchdog -------------------------------
(***************************************************************************)
(* Instances of Watchdog.  The unit is the health period, 500 ms: three    *)
(* seconds are 6, the watchdog's eight are 16.  A round of the CEC task    *)
(* has at most six frames of 1500 ms: two replies to Set Stream Path and   *)
(* four polls.                                                             *)
(***************************************************************************)
EXTENDS Watchdog
================================================================================

-------------------------------- MODULE MCTxGate --------------------------------
(***************************************************************************)
(* Small instances of TxGate.  A millisecond is two units of the clock, so *)
(* that timeouts fall between milliseconds and the division of             *)
(* service_tx_request loses something.                                     *)
(***************************************************************************)
EXTENDS TxGate

MCReports == {0}
MCOneAddress == {4}
MCTwoAddresses == {4, 8}
================================================================================

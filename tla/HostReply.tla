-------------------------------- MODULE HostReply --------------------------------
(***************************************************************************)
(* The rules by which the client on the host takes or rejects a terminal   *)
(* line of a power command: cecctl_parse_reply in src/host/src/protocol.c, *)
(* applied to the fields the firmware prints.  The power name and the      *)
(* power value travel as separate fields and must agree.                   *)
(***************************************************************************)
EXTENDS Integers

CONSTANTS
  ElapsedLimit,    \* greatest elapsed time the client accepts
  AttemptsLimit    \* greatest number of attempts the client accepts

PowerNames == <<"on", "standby", "transitioning_on", "transitioning_standby">>

PowerName(value) == IF value = 255 THEN "unknown" ELSE PowerNames[value + 1]

(* What the client prints as success must be confirmed in every respect.     *)
SuccessAcceptable(r) ==
  /\ r.code = "ok" /\ r.value <= 3 /\ r.verified
  /\ r.command = "on" => r.value = 0 /\ r.source = "announced" /\ r.routing = "confirmed"
  /\ r.command = "standby" => r.value = 1

ReplyAcceptable(r) ==
  /\ IF r.ok THEN SuccessAcceptable(r) ELSE r.code # "ok"
  /\ r.value \in (0 .. 3) \cup {255} /\ r.power = PowerName(r.value)
  /\ r.code = "input_unconfirmed" => r.verified /\ r.power = "on"
  /\ r.source \in {"none", "announced"} /\ r.routing \in {"confirmed", "unconfirmed"}
  /\ r.attempts <= AttemptsLimit /\ r.elapsed <= ElapsedLimit
================================================================================

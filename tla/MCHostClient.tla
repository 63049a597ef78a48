------------------------------ MODULE MCHostClient ------------------------------
(***************************************************************************)
(* Instances of HostClient.  The unit of time is a second: 500 ms count as *)
(* one.                                                                    *)
(***************************************************************************)
EXTENDS HostClient, TLC

CONSTANTS a, b, c

MCInvocation == "on" :> 40 @@ "standby" :> 20 @@ "status" :> 12 @@ "protocol" :> 12
MCOperation == "on" :> 30 @@ "standby" :> 10 @@ "status" :> 3

OnAndStandby == a :> "on" @@ b :> "standby"
Mixed == a :> "on" @@ b :> "status" @@ c :> "protocol"

MCRequests == UNION {{Req(x), Lookup(x)} : x \in Clients}
================================================================================

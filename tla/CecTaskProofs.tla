------------------------------ MODULE CecTaskProofs ------------------------------
(***************************************************************************)
(* Theorems about CecTask, for every set of device types, paths, manual    *)
(* addresses and other devices.                                            *)
(***************************************************************************)
EXTENDS CecTask, TLAPS

(* The frame being sent bears the address of this device. *)
Own == frame.from = laddr /\ laddr # Unallocated

(* FrameUnderOwnAddress is inductive. *)
IInv == pc = "send" => changed \/ Own

LEMMA Initially == Init => IInv
BY Zenon DEF Init, IInv

(* A handler that keeps the address and sends a frame under it, or is quiet. *)
LEMMA Handling ==
  ASSUME Ready, UNCHANGED laddr,
         Quiet \/ \E op, to, value, then : Send(Frame(op, to, value), then)
  PROVE  IInv'
<1>1. CASE Quiet
  BY <1>1, Zenon DEF Quiet, IInv
<1>2. ASSUME NEW op, NEW to, NEW value, NEW then, Send(Frame(op, to, value), then)
      PROVE  IInv'
  <2>1. frame'.from = laddr
    BY <1>2 DEF Send, Frame
  <2> QED BY <2>1, Zenon DEF Ready, IInv, Own
<1> QED BY <1>1, <1>2

LEMMA Replying ==
  ASSUME NEW op, NEW from
  PROVE  \E o, to, value : Reply(op, from) = Frame(o, to, value)
BY DEF Reply

(* Every message finds the address allocated and leaves it so. *)
LEMMA Dispatching ==
  ASSUME Dispatch, ~Conflict PROVE IInv'
<1>1. PICK from \in Others \cup {TV} :
       \/ RequestActiveSource(from)
       \/ \E p \in Paths : RoutingChange(from, p) \/ RoutingInformation(from, p)
                           \/ ActiveSource(from, p) \/ SetStreamPath(from, p)
       \/ \E to \in {laddr, Broadcast} :
            \/ Standby(from, to) \/ ReportPhysicalAddress(from, to) \/ DeviceVendorId(from, to)
            \/ \E on \in 0 .. 1 : SetSystemAudioMode(from, to, on)
            \/ \E s \in {"activate", "deactivate", "query"} : MenuRequest(from, to, s)
            \/ \E op \in Asks : Ask(from, to, op)
  BY Zenon DEF Dispatch
<1>2. CASE RequestActiveSource(from)
  <2>1. Ready /\ UNCHANGED laddr
    BY <1>2, Zenon DEF RequestActiveSource, Receives, DispatchFrame
  <2> QED BY <1>2, <2>1, Handling, Zenon DEF RequestActiveSource
<1>3. ASSUME NEW p \in Paths, RoutingChange(from, p) PROVE IInv'
  <2>1. Ready /\ UNCHANGED laddr
    BY <1>3, Zenon DEF RoutingChange, Receives, DispatchFrame
  <2> QED BY <1>3, <2>1, Handling, Zenon DEF RoutingChange
<1>4. ASSUME NEW p \in Paths, RoutingInformation(from, p) \/ ActiveSource(from, p) PROVE IInv'
  BY <1>4, Zenon DEF RoutingInformation, ActiveSource, Quiet, IInv
<1>5. ASSUME NEW p \in Paths, SetStreamPath(from, p) PROVE IInv'
  <2>1. Ready /\ UNCHANGED laddr
    BY <1>5, Zenon DEF SetStreamPath, Receives, DispatchFrame
  <2> QED BY <1>5, <2>1, Handling, Zenon DEF SetStreamPath
<1>6. ASSUME NEW to, Standby(from, to) PROVE IInv'
  BY <1>6, Zenon DEF Standby, Quiet, IInv
<1>7. ASSUME NEW to, ReportPhysicalAddress(from, to) PROVE IInv'
  <2>1. Ready /\ UNCHANGED laddr
    BY <1>7, Zenon DEF ReportPhysicalAddress, Receives, DispatchFrame
  <2> QED BY <1>7, <2>1, Handling, Zenon DEF ReportPhysicalAddress
<1>8. ASSUME NEW to, DeviceVendorId(from, to) PROVE IInv'
  <2>1. Ready /\ UNCHANGED laddr
    BY <1>8, Zenon DEF DeviceVendorId, Receives, DispatchFrame
  <2> QED BY <1>8, <2>1, Handling, Zenon DEF DeviceVendorId
<1>9. ASSUME NEW to, NEW on, SetSystemAudioMode(from, to, on) PROVE IInv'
  BY <1>9, Zenon DEF SetSystemAudioMode, Quiet, IInv
<1>10. ASSUME NEW to, NEW s, MenuRequest(from, to, s) PROVE IInv'
  <2>1. Ready /\ UNCHANGED laddr
    BY <1>10, Zenon DEF MenuRequest, Receives, DispatchFrame
  <2> QED BY <1>10, <2>1, Handling, Zenon DEF MenuRequest
<1>11. ASSUME NEW to, NEW op, Ask(from, to, op) PROVE IInv'
  <2>1. Ready /\ UNCHANGED laddr
    BY <1>11, Zenon DEF Ask, Receives, DispatchFrame
  <2>2. Quiet \/ Send(Reply(op, from), FALSE)
    BY <1>11, Zenon DEF Ask
  <2>3. PICK o, t, v : Reply(op, from) = Frame(o, t, v)
    BY Replying
  <2>4. Quiet \/ Send(Frame(o, t, v), FALSE)
    BY <2>2, <2>3, Zenon
  <2> QED BY <2>1, <2>4, Handling, Zenon
<1> QED BY <1>1, <1>2, <1>3, <1>4, <1>5, <1>6, <1>7, <1>8, <1>9, <1>10, <1>11

LEMMA Step == IInv /\ [Next]_vars => IInv'
<1> SUFFICES ASSUME IInv, [Next]_vars PROVE IInv'
  OBVIOUS
<1>1. ASSUME UNCHANGED <<pc, frame, laddr, changed>> PROVE IInv'
  BY <1>1, Zenon DEF IInv, Own
<1>2. ASSUME pc' # "send" PROVE IInv'
  BY <1>2, Zenon DEF IInv
<1>3. CASE Poll \/ Conflict \/ ServiceAllocate \/ ReceiveNothing \/ ServiceNothing
  BY <1>2, <1>3 DEF Poll, PingEnds, Conflict, ServiceAllocate, ReceiveNothing, ServiceNothing
<1>4. CASE FrameEnds
  <2>1. pc = "send" /\ UNCHANGED laddr
    BY <1>4, Zenon DEF FrameEnds
  <2>2. CASE more
    <3>1. Send(Frame("menu_status", TV, 1), FALSE)
      BY <1>4, <2>2, Zenon DEF FrameEnds
    <3>2. CASE Ready
      BY <2>1, <3>1, <3>2, Handling, Zenon
    <3>3. CASE ~Ready
      <4>1. changed
        BY <2>1, <3>3, Zenon DEF IInv, Own, Ready
      <4>2. changed' = (changed /\ pc' # "recv") /\ pc' = "send"
        BY <1>4, <3>1, Zenon DEF FrameEnds, Send
      <4> QED BY <4>1, <4>2 DEF IInv
    <3> QED BY <3>2, <3>3
  <2>3. CASE ~more
    <3>1. pc' \in {"recv", "service"}
      BY <1>4, <2>3 DEF FrameEnds
    <3> QED BY <1>2, <3>1
  <2> QED BY <2>2, <2>3
<1>5. CASE ServiceRequest
  <2>1. CASE Serve
    <3>1. frame' = request /\ UNCHANGED laddr
      BY <1>5, <2>1, Zenon DEF ServiceRequest, Send
    <3> QED BY <2>1, <3>1, Zenon DEF Serve, Ready, IInv, Own
  <2>2. CASE ~Serve
    <3>1. pc' = "recv"
      BY <1>5, <2>2, Zenon DEF ServiceRequest
    <3> QED BY <1>2, <3>1
  <2> QED BY <2>1, <2>2
<1>6. CASE Dispatch
  BY <1>3, <1>6, Dispatching
<1>7. ASSUME NEW c \in Configs, Set(c) PROVE IInv'
  BY <1>7, Zenon DEF Set, IInv
<1>8. CASE AllocationDue \/ BeginStandby \/ TakeSource \/ PostCommand \/ EndOperation
  BY <1>1, <1>8, Zenon DEF AllocationDue, BeginStandby, TakeSource, PostCommand, EndOperation,
     taskVars
<1>9. ASSUME NEW p, BeginOn(p) PROVE IInv'
  BY <1>1, <1>9, Zenon DEF BeginOn, taskVars
<1>10. CASE TvOn \/ OnAddressOmitted
  BY <1>1, <1>9, <1>10, Zenon DEF TvOn, OnAddressOmitted, taskVars
<1>11. CASE UNCHANGED vars
  BY <1>1, <1>11, Zenon DEF vars, taskVars
<1> QED BY <1>3, <1>4, <1>5, <1>6, <1>7, <1>8, <1>10, <1>11 DEF Next, Loop, Clients

(* However losses, conflicts, allocations and the worker's requests fall,    *)
(* the task sends under the address it holds at that moment, except where    *)
(* `set config` took it away while the task was at it.                       *)
THEOREM SendsAsItself == Spec => []FrameUnderOwnAddress
<1>1. IInv => FrameUnderOwnAddress
  BY Zenon DEF IInv, Own, FrameUnderOwnAddress
<1> QED BY <1>1, Initially, Step, PTL DEF Spec

--------------------------------------------------------------------------------
(* Answers as the active source.                                             *)

(* The task has the source only while it is not lost, and the worker posts   *)
(* nothing that could be taken for the task's own answer.                    *)
SInv ==
  /\ source => ~lost
  /\ request.op # "active_source"

Answers == frame'.op = "active_source" /\ frame # frame'

LEMMA SourceInitially == Init => SInv
<1> SUFFICES ASSUME Init PROVE SInv
  OBVIOUS
<1>1. ~source
  BY Zenon DEF Init
<1>2. request.op # "active_source"
  BY DEF Init, None
<1> QED BY <1>1, <1>2, Zenon DEF SInv

(* Who leaves source and history alone, or loses the source. *)
LEMMA Losing ==
  ASSUME SInv, request' = request,
         (UNCHANGED <<source, lost>>) \/ (\E gone : LoseSource(gone)) \/ (~source')
  PROVE  SInv'
<1>1. ASSUME NEW gone, LoseSource(gone) PROVE source' => ~lost'
  <2>1. source' <=> source /\ ~gone
    BY <1>1 DEF LoseSource
  <2>2. lost' <=> lost \/ gone
    BY <1>1 DEF LoseSource
  <2> QED BY <2>1, <2>2, Zenon DEF SInv
<1>2. UNCHANGED <<source, lost>> => (source' => ~lost')
  BY Zenon DEF SInv
<1> QED BY <1>1, <1>2, Zenon DEF SInv

(* Every answer is given with the source at hand. *)
LEMMA Answering ==
  ASSUME SInv, Dispatch PROVE SInv' /\ (Answers => ~lost')
<1>1. PICK from :
       \/ Conflict
       \/ RequestActiveSource(from)
       \/ \E p : RoutingChange(from, p) \/ RoutingInformation(from, p)
                 \/ ActiveSource(from, p) \/ SetStreamPath(from, p)
       \/ \E to : \/ Standby(from, to) \/ ReportPhysicalAddress(from, to)
                  \/ DeviceVendorId(from, to)
                  \/ \E on : SetSystemAudioMode(from, to, on)
                  \/ \E s : MenuRequest(from, to, s)
                  \/ \E op \in Asks : Ask(from, to, op)
  BY Zenon DEF Dispatch
<1>2. ASSUME UNCHANGED frame PROVE Answers => ~lost'
  BY <1>2, Zenon DEF Answers
<1>3. ASSUME NEW op, NEW to, NEW value, NEW then, Send(Frame(op, to, value), then),
             op # "active_source"
      PROVE  Answers => ~lost'
  BY <1>3 DEF Answers, Send, Frame
<1>4. CASE Conflict
  BY <1>2, <1>4, Losing, Zenon DEF Conflict
<1>5. CASE RequestActiveSource(from)
  <2>1. SInv' /\ UNCHANGED <<source, lost>>
    BY <1>5, Losing, Zenon DEF RequestActiveSource, DispatchFrame, busVars
  <2>2. source \/ UNCHANGED frame
    BY <1>5, Zenon DEF RequestActiveSource, Quiet
  <2> QED BY <1>2, <2>1, <2>2, Zenon DEF SInv
<1>6. ASSUME NEW p, RoutingChange(from, p) PROVE SInv' /\ (Answers => ~lost')
  <2>1. SInv'
    BY <1>6, Losing, Zenon DEF RoutingChange, DispatchFrame
  <2>2. source' \/ UNCHANGED frame
    BY <1>6, Zenon DEF RoutingChange, Announces, Quiet
  <2> QED BY <1>2, <2>1, <2>2, Zenon DEF SInv
<1>7. ASSUME NEW p, RoutingInformation(from, p) \/ ActiveSource(from, p)
      PROVE  SInv' /\ (Answers => ~lost')
  BY <1>2, <1>7, Losing, Zenon DEF RoutingInformation, ActiveSource, Quiet, DispatchFrame
<1>8. ASSUME NEW p, SetStreamPath(from, p) PROVE SInv' /\ (Answers => ~lost')
  <2>1. SInv' /\ UNCHANGED <<source, lost>>
    BY <1>8, Losing, Zenon DEF SetStreamPath, DispatchFrame
  <2>2. source \/ UNCHANGED frame
    BY <1>8, Zenon DEF SetStreamPath, Quiet
  <2> QED BY <1>2, <2>1, <2>2, Zenon DEF SInv
<1>9. ASSUME NEW to, Standby(from, to) PROVE SInv' /\ (Answers => ~lost')
  BY <1>2, <1>9, Losing, Zenon DEF Standby, Quiet, DispatchFrame
<1>10. ASSUME NEW to, NEW on, SetSystemAudioMode(from, to, on)
       PROVE  SInv' /\ (Answers => ~lost')
  BY <1>2, <1>10, Losing, Zenon DEF SetSystemAudioMode, Quiet, DispatchFrame
<1>11. ASSUME NEW to, ReportPhysicalAddress(from, to) PROVE SInv' /\ (Answers => ~lost')
  <2>1. SInv'
    BY <1>11, Losing, Zenon DEF ReportPhysicalAddress, DispatchFrame, busVars
  <2>2. UNCHANGED frame \/ \E t, v : Send(Frame("report_physical_address", t, v), FALSE)
    BY <1>11, Zenon DEF ReportPhysicalAddress, Quiet
  <2> QED BY <1>2, <1>3, <2>1, <2>2
<1>12. ASSUME NEW to, DeviceVendorId(from, to) PROVE SInv' /\ (Answers => ~lost')
  <2>1. SInv'
    BY <1>12, Losing, Zenon DEF DeviceVendorId, DispatchFrame, busVars
  <2>2. UNCHANGED frame \/ \E t, v : Send(Frame("device_vendor_id", t, v), FALSE)
    BY <1>12, Zenon DEF DeviceVendorId, Quiet
  <2> QED BY <1>2, <1>3, <2>1, <2>2
<1>13. ASSUME NEW to, NEW s, MenuRequest(from, to, s) PROVE SInv' /\ (Answers => ~lost')
  <2>1. SInv'
    BY <1>13, Losing, Zenon DEF MenuRequest, DispatchFrame
  <2>2. UNCHANGED frame \/ \E t, v : Send(Frame("menu_status", t, v), FALSE)
    BY <1>13, Zenon DEF MenuRequest, Quiet
  <2> QED BY <1>2, <1>3, <2>1, <2>2
<1>14. ASSUME NEW to, NEW op \in Asks, Ask(from, to, op) PROVE SInv' /\ (Answers => ~lost')
  <2>1. SInv'
    BY <1>14, Losing, Zenon DEF Ask, DispatchFrame, busVars
  <2>2. UNCHANGED frame \/ Send(Reply(op, from), FALSE)
    BY <1>14, Zenon DEF Ask, Quiet
  <2>3. Reply(op, from).op # "active_source"
    BY <1>14 DEF Reply, Frame, Asks
  <2>4. Send(Reply(op, from), FALSE) => frame' = Reply(op, from)
    BY Zenon DEF Send
  <2> QED BY <1>2, <2>1, <2>2, <2>3, <2>4, Zenon DEF Answers
<1> QED BY <1>1, <1>4, <1>5, <1>6, <1>7, <1>8, <1>9, <1>10, <1>11, <1>12, <1>13, <1>14, Zenon

LEMMA SourceStep == SInv /\ [Next]_vars => SInv' /\ (Answers => ~lost')
<1> SUFFICES ASSUME SInv, [Next]_vars PROVE SInv' /\ (Answers => ~lost')
  OBVIOUS
<1>1. ASSUME UNCHANGED frame PROVE Answers => ~lost'
  BY <1>1, Zenon DEF Answers
<1>2. ASSUME request'.op # "active_source", UNCHANGED <<source, lost>> PROVE SInv'
  BY <1>2, Zenon DEF SInv
<1>3. CASE Poll \/ ServiceAllocate \/ ReceiveNothing \/ ServiceNothing \/ AllocationDue
  <2>1. UNCHANGED <<frame, source, lost, request>>
    BY <1>3, Zenon DEF Poll, PingEnds, ServiceAllocate, ReceiveNothing, ServiceNothing,
       AllocationDue, busVars, taskVars
  <2> QED BY <1>1, <2>1, Losing, Zenon
<1>4. CASE FrameEnds
  <2>1. SInv'
    BY <1>4, Losing, Zenon DEF FrameEnds
  <2>2. CASE more
    <3>1. frame' = Frame("menu_status", TV, 1)
      BY <1>4, <2>2, Zenon DEF FrameEnds, Send
    <3>2. frame'.op # "active_source"
      BY <3>1 DEF Frame
    <3> QED BY <2>1, <3>2, Zenon DEF Answers
  <2>3. CASE ~more
    <3>1. frame' = None
      BY <1>4, <2>3, Zenon DEF FrameEnds
    <3>2. frame'.op # "active_source"
      BY <3>1 DEF None
    <3> QED BY <2>1, <3>2, Zenon DEF Answers
  <2> QED BY <2>1, <2>2, <2>3
<1>5. CASE ServiceRequest
  <2>1. request' = None /\ UNCHANGED <<source, lost>>
    BY <1>5, Zenon DEF ServiceRequest, busVars
  <2>2. SInv'
    BY <1>2, <2>1 DEF None
  <2>3. frame' = request \/ UNCHANGED frame
    BY <1>5, Zenon DEF ServiceRequest, Send
  <2>4. request.op # "active_source"
    BY Zenon DEF SInv
  <2> QED BY <2>2, <2>3, <2>4, Zenon DEF Answers
<1>6. CASE Dispatch
  BY <1>6, Answering
<1>7. ASSUME NEW c, Set(c) PROVE SInv' /\ UNCHANGED frame
  BY <1>7, Losing, Zenon DEF Set, busVars, taskVars
<1>8. ASSUME NEW p, BeginOn(p) PROVE SInv' /\ UNCHANGED frame
  BY <1>8, Losing, Zenon DEF BeginOn, busVars, taskVars
<1>9. CASE TvOn \/ OnAddressOmitted
  BY <1>1, <1>8, <1>9, Losing, Zenon DEF TvOn, OnAddressOmitted, busVars, taskVars
<1>10. CASE BeginStandby
  BY <1>1, <1>10, Losing, Zenon DEF BeginStandby, taskVars
<1>11. CASE TakeSource
  <2>1. request'.op = "announce"
    BY <1>11 DEF TakeSource
  <2>2. ~lost' /\ UNCHANGED frame
    BY <1>11, Zenon DEF TakeSource, taskVars
  <2> QED BY <1>1, <2>1, <2>2 DEF SInv
<1>12. CASE PostCommand \/ EndOperation
  <2>1. request'.op # "active_source"
    BY <1>12 DEF PostCommand, EndOperation, None
  <2>2. UNCHANGED <<source, lost, frame>>
    BY <1>12, Zenon DEF PostCommand, EndOperation, busVars, taskVars
  <2> QED BY <1>1, <1>2, <2>1, <2>2
<1>13. CASE UNCHANGED vars
  BY <1>1, <1>13, Losing, Zenon DEF vars, busVars, taskVars
<1> QED BY <1>1, <1>3, <1>4, <1>5, <1>6, <1>7, <1>9, <1>10, <1>11, <1>12, <1>13, Zenon
        DEF Next, Loop, Clients

(* Whatever route and path requests follow the loss of the source, the task  *)
(* answers none of them as the active source until `tv on` takes it again.   *)
THEOREM SourceStaysLost == Spec => NeverRetakes
<1>1. SInv /\ [Next]_vars
        => [frame'.op = "active_source" /\ frame # frame' => ~lost']_vars
  BY SourceStep, Zenon DEF Answers
<1>2. SInv /\ [Next]_vars => SInv'
  BY SourceStep, Zenon
<1> QED BY <1>1, <1>2, SourceInitially, PTL DEF Spec, NeverRetakes
--------------------------------------------------------------------------------
(* Claimed addresses.                                                        *)

(* As long as no `set` interferes, the poll is that of the configuration. A  *)
(* row that ends with 15 is left before its end.                             *)
PInv ==
  /\ config \in Configs
  /\ pc = "ping" =>
       \/ changed
       \/ IF ping.index = 0 THEN ping.at = config.logical ELSE ping.index \in 1 .. 3

Claims == laddr' \notin {laddr, Unallocated}

LEMMA PollInitially == Init => PInv
<1> SUFFICES ASSUME Init PROVE PInv
  OBVIOUS
<1>1. config \in Configs
  BY Zenon DEF Init
<1>2. ping = FirstPing
  BY Zenon DEF Init
<1>3. IF ping.index = 0 THEN ping.at = config.logical ELSE ping.index \in 1 .. 3
  BY <1>2 DEF FirstPing
<1> QED BY <1>1, <1>3, Zenon DEF PInv

(* The row of a type other than an audio system ends with 15. *)
LEMMA RowEnds ==
  ASSUME "audio" \notin Types, config \in Configs
  PROVE  Table[config.type][4] = Unallocated
<1>1. config.type \in {"recording", "tuner", "playback"}
  <2>1. config.type \in Types
    BY DEF Configs
  <2>2. Types \subseteq {"recording", "tuner", "playback", "audio"}
    BY CecTaskAssumption
  <2> QED BY <2>1, <2>2, Zenon
<1> QED BY <1>1 DEF Table, Unallocated

LEMMA Polling ==
  ASSUME "audio" \notin Types, PInv, NEW result, PingEnds(result)
  PROVE  PInv' /\ (Claims => laddr' \in free' \/ changed)
<1>1. pc = "ping" /\ config' = config
  BY Zenon DEF PingEnds
<1>2. config \in Configs
  BY Zenon DEF PInv
<1>3. (result = "no_ack" => ping.at \in free') /\ PingOutcome(result)
  BY Zenon DEF PingEnds
<1>4. pc' # "ping" \/ (ping' # NoPing /\ UNCHANGED changed)
  BY DEF PingEnds
<1>5. CASE changed
  BY <1>1, <1>2, <1>4, <1>5, Zenon DEF PInv
<1>6. CASE ~changed /\ ping.index = 0
  <2>1. ping.at = config.logical
    BY <1>1, <1>6, Zenon DEF PInv
  <2>2. ping' = NoPing /\ laddr' = IF result = "no_ack" THEN config.logical ELSE Unallocated
    BY <1>3, <1>6, Zenon DEF PingOutcome
  <2>3. Claims => laddr' \in free'
    BY <1>3, <2>1, <2>2, Zenon DEF Claims
  <2> QED BY <1>1, <1>2, <1>4, <2>2, <2>3, Zenon DEF PInv
<1>7. CASE ~changed /\ ping.index # 0
  <2>1. ping.index \in 1 .. 3
    BY <1>1, <1>7, Zenon DEF PInv
  <2> DEFINE next == Table[config.type][ping.index + 1]
  <2>2. \/ laddr' \in {laddr, Unallocated}
        \/ result = "no_ack" /\ laddr' = ping.at
    BY <1>3, <1>7, <2>1 DEF PingOutcome, Unallocated
  <2>3. Claims => laddr' \in free'
    BY <1>3, <2>2, Zenon DEF Claims
  <2>4. ping' = NoPing \/ (next # Unallocated /\ ping' = [at |-> next, index |-> ping.index + 1])
    BY <1>3, <1>7, <2>1 DEF PingOutcome
  <2>5. CASE ping' = NoPing
    BY <1>1, <1>2, <1>4, <2>3, <2>5, Zenon DEF PInv
  <2>6. CASE next # Unallocated /\ ping' = [at |-> next, index |-> ping.index + 1]
    <3>1. ping.index # 3
      BY <1>2, <2>6, RowEnds
    <3>2. ping'.index \in 1 .. 3 /\ ping'.index # 0
      BY <2>1, <2>6, <3>1
    <3> QED BY <1>1, <1>2, <2>3, <3>2, Zenon DEF PInv
  <2> QED BY <2>4, <2>5, <2>6
<1> QED BY <1>5, <1>6, <1>7

LEMMA PollStep ==
  ASSUME "audio" \notin Types, PInv, [Next]_vars
  PROVE  PInv' /\ (Claims => laddr' \in free' \/ changed)
<1>1. ASSUME UNCHANGED config, pc' # "ping", laddr' \in {laddr, Unallocated}
      PROVE  PInv' /\ ~Claims
  BY <1>1, Zenon DEF PInv, Claims
<1>2. ASSUME UNCHANGED config, UNCHANGED <<pc, ping, changed, laddr>> PROVE PInv' /\ ~Claims
  BY <1>2, Zenon DEF PInv, Claims
<1>3. CASE Poll
  BY <1>3, Polling, Zenon DEF Poll
<1>4. CASE FrameEnds \/ ServiceRequest \/ ReceiveNothing \/ ServiceNothing
  <2>1. pc' # "ping" /\ UNCHANGED <<config, laddr>>
    BY <1>4 DEF FrameEnds, ServiceRequest, ReceiveNothing, ServiceNothing, Send
  <2> QED BY <1>1, <2>1
<1>5. CASE ServiceAllocate
  <2>1. UNCHANGED <<config, laddr>> /\ ping' = FirstPing
    BY <1>5, Zenon DEF ServiceAllocate
  <2>2. IF ping'.index = 0 THEN ping'.at = config'.logical ELSE ping'.index \in 1 .. 3
    BY <2>1 DEF FirstPing
  <2> QED BY <2>1, <2>2, Zenon DEF PInv, Claims
<1>6. CASE Dispatch
  <2>1. UNCHANGED config /\ laddr' \in {laddr, Unallocated}
    BY <1>6, Zenon DEF Dispatch, Conflict, DispatchFrame, RequestActiveSource, RoutingChange,
       RoutingInformation, ActiveSource, SetStreamPath, Standby, ReportPhysicalAddress,
       DeviceVendorId, SetSystemAudioMode, MenuRequest, Ask
  <2>2. pc' \in {"send", "service"}
    BY <1>6 DEF Dispatch, Conflict, RequestActiveSource, RoutingChange, RoutingInformation,
       ActiveSource, SetStreamPath, Standby, ReportPhysicalAddress, DeviceVendorId,
       SetSystemAudioMode, MenuRequest, Ask, Quiet, Send
  <2> QED BY <1>1, <2>1, <2>2
<1>7. ASSUME NEW c \in Configs, Set(c) PROVE PInv' /\ ~Claims
  BY <1>7, Zenon DEF Set, PInv, Claims
<1>8. ASSUME PInv, NEW p \in Physicals, BeginOn(p) PROVE PInv' /\ ~Claims
  <2>1. config' = [config EXCEPT !.physical = p] /\ UNCHANGED <<pc, ping, changed, laddr>>
    BY <1>8, Zenon DEF BeginOn, taskVars
  <2>2. config' \in Configs /\ config'.logical = config.logical
    BY <2>1 DEF PInv, Configs
  <2> QED BY <2>1, <2>2, Zenon DEF PInv, Claims
<1>9. CASE TvOn \/ OnAddressOmitted
  BY <1>2, <1>8, <1>9, Zenon DEF TvOn, OnAddressOmitted, taskVars
<1>10. CASE AllocationDue \/ BeginStandby \/ TakeSource \/ PostCommand \/ EndOperation
  BY <1>2, <1>10, Zenon DEF AllocationDue, BeginStandby, TakeSource, PostCommand, EndOperation,
     taskVars
<1>11. CASE UNCHANGED vars
  BY <1>2, <1>11, Zenon DEF vars, taskVars
<1> QED BY <1>3, <1>4, <1>5, <1>6, <1>7, <1>9, <1>10, <1>11, Zenon DEF Next, Loop, Clients

(* Unless the device is an audio system, whose row is one address four times,*)
(* an address is claimed only after its own poll found it free, or `set`     *)
(* changed the configuration during the polls.                               *)
THEOREM ClaimsAreFree ==
  ASSUME "audio" \notin Types
  PROVE  Spec => ClaimedWasFree
<1>1. PInv /\ [Next]_vars
        => [laddr' \notin {laddr, Unallocated} => laddr' \in free' \/ changed]_vars
  BY PollStep, Zenon DEF Claims
<1>2. PInv /\ [Next]_vars => PInv'
  BY PollStep, Zenon
<1> QED BY <1>1, <1>2, PollInitially, PTL DEF Spec, ClaimedWasFree
================================================================================

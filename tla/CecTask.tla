--------------------------------- MODULE CecTask --------------------------------
(***************************************************************************)
(* The CEC task of src/src/cec-task.c: the allocation of a logical         *)
(* address, the dispatch of received messages with the replies they call   *)
(* for, and the main loop.  The task blocks while one of its frames is     *)
(* sent; in that time, and while it waits for a message, the parser        *)
(* (`set config`, `tv on`) and the control worker change the configuration *)
(* and the source it works on.  TxGate has the timing of a client's        *)
(* request and the power feedback; here a request is only a frame waiting. *)
(***************************************************************************)
EXTENDS Naturals, Sequences

CONSTANTS
  Types,     \* device types a configuration may have
  Physicals, \* valid physical addresses
  Manual,    \* logical addresses `set config logical_address` is given
  Taken,     \* logical addresses other devices acknowledge
  Others     \* initiators of bus messages other than the TV

TV == 0
Broadcast == 15
Unallocated == 15
Unset == 0                 \* physical address 0.0.0.0
NoRoute == 65535           \* 0xffff

ASSUME CecTaskAssumption ==
  /\ Types \subseteq {"recording", "tuner", "playback", "audio"} /\ Types # {}
  /\ Manual \subseteq 1 .. 14 /\ Taken \subseteq 1 .. 14 /\ Others \subseteq 1 .. 14
  /\ Physicals \subseteq Nat \ {Unset, NoRoute}

(* laddress: the row of a device type; 15 ends it.                           *)
Table ==
  [recording |-> <<1, 2, 9, 15>>, tuner |-> <<3, 6, 7, 15>>,
   playback |-> <<4, 8, 11, 15>>, audio |-> <<5, 5, 5, 5>>]

Configs == [type : Types, logical : Manual \cup {Unallocated},
            physical : Physicals \cup {Unset}]

VARIABLES
  config,  \* the running configuration
  laddr,   \* the logical address
  paddr,   \* the physical address
  active,  \* active_addr
  source,  \* source_active
  audio, menu, \* audio_status and menu_state, 0 or 1
  routing, \* routing_address
  pc,      \* control point of cec_task
  frame,   \* the frame being sent
  more,    \* the handler has a Menu Status to send after this frame
  ping,    \* allocate_logical_address: address polled and index in its row
  due,     \* next_allocate has passed
  request, \* cec_tx_queue: the worker's frame, or none
  worker,  \* the active operation and the address it began under
  lost,    \* history: the source was lost since the worker last took it
  free,    \* history: addresses polled in this allocation that nobody acknowledged
  changed  \* history: `set` ran since the task began this message or allocation

busVars == <<active, source, audio, menu, routing>>
taskVars == <<pc, frame, more, ping, due>>
vars == <<config, laddr, paddr, busVars, taskVars, request, worker, lost, free, changed>>

None == [from |-> Unallocated, to |-> Unallocated, op |-> "none", value |-> 0]
Requests == {"announce", "command"}
NoPing == [at |-> Unallocated, index |-> 0]
NoOperation == [kind |-> "none", from |-> Unallocated]

Ready == laddr # Unallocated

(* get_physical_address in a build without DDC.                              *)
PhysicalAddress == config.physical

--------------------------------------------------------------------------------
(* allocate_logical_address, one poll at a time.                             *)

(* A configured address is polled alone; else the row of the device type.    *)
FirstPing ==
  IF config.logical # Unallocated
    THEN [at |-> config.logical, index |-> 0]
    ELSE [at |-> Table[config.type][1], index |-> 1]

(* Fault: lost arbitration is taken for an unanswered poll. *)
PingOutcomeEager(result) ==
  /\ laddr' = IF result \in {"no_ack", "arbitration_lost"} THEN ping.at ELSE Unallocated
  /\ ping' = NoPing

(* Fault: an address in use ends the allocation. *)
PingOutcomeFirstOnly(result) ==
  laddr' = (IF result = "no_ack" THEN ping.at ELSE Unallocated) /\ ping' = NoPing

(* What the next step is once a poll is over.  The configuration is read     *)
(* again after each poll, and a manual address again before it is claimed.   *)
PingOutcome(result) ==
  LET next == Table[config.type][ping.index + 1]
      claim(a) == laddr' = a /\ ping' = NoPing
  IN  IF ping.index = 0
        THEN claim(IF result = "no_ack" THEN config.logical ELSE Unallocated)
        ELSE CASE result = "no_ack" -> claim(ping.at)
               [] result = "timeout" -> claim(Unallocated)
               [] OTHER ->
                    IF ping.index = 4 THEN claim(ping.at)
                    ELSE IF next = Unallocated THEN claim(next)
                    ELSE /\ ping' = [at |-> next, index |-> ping.index + 1]
                         /\ UNCHANGED laddr

(* A poll ends: an address in use is acknowledged, and any frame can fail.   *)
PingEnds(result) ==
  /\ pc = "ping"
  /\ result \in {"timeout", "arbitration_lost", "bus_error",
                 IF ping.at \in Taken THEN "ack" ELSE "no_ack"}
  /\ free' = IF result = "no_ack" THEN free \cup {ping.at} ELSE free \ {ping.at}
  /\ PingOutcome(result)
  /\ IF ping' = NoPing THEN pc' = "recv" /\ due' = FALSE /\ changed' = FALSE
                       ELSE UNCHANGED <<pc, due, changed>>
  /\ UNCHANGED <<config, paddr, busVars, frame, more, request, worker, lost>>

(* The time of the next attempt comes.                                       *)
AllocationDue ==
  /\ ~due /\ due' = TRUE
  /\ UNCHANGED <<config, laddr, paddr, busVars, pc, frame, more, ping, request, worker, lost,
                 free, changed>>

--------------------------------------------------------------------------------
(* Frames and the main loop.                                                 *)

Frame(op, to, value) == [from |-> laddr, to |-> to, op |-> op, value |-> value]

(* The handler sends f and the task blocks until the frame is over.          *)
Send(f, then) == pc' = "send" /\ frame' = f /\ more' = then
Quiet == pc' = "service" /\ UNCHANGED <<frame, more>>

(* After Active Source in SET_STREAM_PATH comes Menu Status; laddr is read   *)
(* again.                                                                    *)
FrameEnds ==
  /\ pc = "send"
  /\ IF more
       THEN menu' = 1 /\ Send(Frame("menu_status", TV, 1), FALSE)
       ELSE /\ pc' = IF frame.op \in Requests THEN "recv" ELSE "service"
            /\ frame' = None /\ UNCHANGED <<more, menu>>
  /\ changed' = (changed /\ pc' # "recv")
  /\ UNCHANGED <<config, laddr, paddr, active, source, audio, routing, ping, due, request,
                 worker, lost, free>>

(* Fault: a request of any address is sent. *)
ServeAny == Ready

Serve == request.from = laddr /\ Ready

(* service_tx_request: only under the address the frame was made for.        *)
ServiceRequest ==
  /\ pc = "service" /\ request # None
  /\ request' = None
  /\ IF Serve THEN Send(request, FALSE) /\ UNCHANGED changed
              ELSE pc' = "recv" /\ changed' = FALSE /\ UNCHANGED <<frame, more>>
  /\ UNCHANGED <<config, laddr, paddr, busVars, ping, due, worker, lost, free>>

(* Without a request: allocate if that is due and the bus idle, or go on.    *)
ServiceAllocate ==
  /\ pc = "service" /\ request = None /\ ~Ready /\ due
  /\ pc' = "ping" /\ ping' = FirstPing /\ changed' = FALSE /\ free' = {}
  /\ UNCHANGED <<config, laddr, paddr, busVars, frame, more, due, request, worker, lost>>

ServiceNothing ==
  /\ pc = "service" /\ request = None
  /\ pc' = "recv" /\ changed' = FALSE
  /\ UNCHANGED <<config, laddr, paddr, busVars, frame, more, ping, due, request, worker,
                 lost, free>>

(* cec_frame_recv returned nothing, or a message that is ignored.            *)
ReceiveNothing ==
  /\ pc = "recv" /\ pc' = "service" /\ changed' = FALSE
  /\ UNCHANGED <<config, laddr, paddr, busVars, frame, more, ping, due, request, worker,
                 lost, free>>

--------------------------------------------------------------------------------
(* dispatch_message.                                                         *)

(* A valid message is looked at only while an address is allocated.          *)
Receives(from) == pc = "recv" /\ Ready /\ from # laddr

DispatchFrame == UNCHANGED <<config, laddr, ping, due, request, worker, free>>

(* The source is no longer ours, whatever it was.                            *)
LoseSource(gone) == source' = (source /\ ~gone) /\ lost' = (lost \/ gone)

(* Another initiator uses our address: give it up and try again later.       *)
Conflict ==
  /\ pc = "recv" /\ Ready
  /\ laddr' = Unallocated /\ due' = FALSE /\ LoseSource(TRUE)
  /\ pc' = "service" /\ changed' = FALSE
  /\ UNCHANGED <<config, paddr, active, audio, menu, routing, frame, more, ping, request,
                 worker, free>>

Standby(from, to) ==
  /\ Receives(from) /\ Quiet /\ DispatchFrame
  /\ IF to \in {laddr, Broadcast} THEN active' = Unset /\ LoseSource(TRUE)
                                  ELSE UNCHANGED <<active, source, lost>>
  /\ UNCHANGED <<paddr, audio, menu, routing, changed>>

SetSystemAudioMode(from, to, on) ==
  /\ Receives(from) /\ Quiet /\ DispatchFrame
  /\ audio' = IF to \in {laddr, Broadcast} THEN on ELSE audio
  /\ UNCHANGED <<paddr, active, source, menu, routing, lost, changed>>

(* active_source is quiet unless this device is the source.                  *)
Announces(to) == source' /\ to = PhysicalAddress /\ to \in Physicals

(* Routing Change also brings paddr up to date with the configuration.       *)
RoutingChange(from, to) ==
  /\ Receives(from) /\ DispatchFrame
  /\ active' = to
  /\ routing' = IF from = TV THEN to ELSE routing
  /\ LoseSource(to # paddr)
  /\ paddr' = PhysicalAddress
  /\ IF Announces(to) THEN Send(Frame("active_source", Broadcast, to), FALSE) ELSE Quiet
  /\ UNCHANGED <<audio, menu, changed>>

(* Fault: Routing Information does not end the source. *)
RoutingInformationKeeps(from, to) ==
  /\ Receives(from) /\ Quiet /\ DispatchFrame
  /\ IF from = TV THEN routing' = to /\ lost' = (lost \/ to # paddr) /\ UNCHANGED source
                  ELSE UNCHANGED <<routing, source, lost>>
  /\ UNCHANGED <<paddr, active, audio, menu, changed>>

RoutingInformation(from, to) ==
  /\ Receives(from) /\ Quiet /\ DispatchFrame
  /\ IF from = TV THEN routing' = to /\ LoseSource(to # paddr)
                  ELSE UNCHANGED <<routing, source, lost>>
  /\ UNCHANGED <<paddr, active, audio, menu, changed>>

ActiveSource(from, at) ==
  /\ Receives(from) /\ Quiet /\ DispatchFrame
  /\ LoseSource(TRUE) /\ routing' = NoRoute /\ active' = at
  /\ UNCHANGED <<paddr, audio, menu, changed>>

RequestActiveSource(from) ==
  /\ Receives(from) /\ DispatchFrame
  /\ IF source /\ paddr = active /\ paddr \in Physicals
       THEN Send(Frame("active_source", Broadcast, paddr), FALSE) ELSE Quiet
  /\ UNCHANGED <<paddr, busVars, lost, changed>>

(* Active Source and then Menu Status; without a valid address the first is  *)
(* not sent.                                                                 *)
SetStreamPath(from, to) ==
  /\ Receives(from) /\ DispatchFrame
  /\ IF source /\ paddr = to
       THEN /\ active' = paddr
            /\ IF paddr \in Physicals
                 THEN Send(Frame("active_source", Broadcast, paddr), TRUE) /\ UNCHANGED menu
                 ELSE Send(Frame("menu_status", TV, 1), FALSE) /\ menu' = 1
       ELSE Quiet /\ UNCHANGED <<active, menu>>
  /\ UNCHANGED <<paddr, source, audio, routing, lost, changed>>

(* The TV's broadcasts that are answered in kind.                            *)
ReportPhysicalAddress(from, to) ==
  /\ Receives(from) /\ DispatchFrame
  /\ IF from = TV /\ to = Broadcast
       THEN /\ paddr' = PhysicalAddress
            /\ IF paddr' # Unset
                 THEN Send(Frame("report_physical_address", Broadcast, paddr'), FALSE)
                 ELSE Quiet
       ELSE Quiet /\ UNCHANGED paddr
  /\ UNCHANGED <<busVars, lost, changed>>

DeviceVendorId(from, to) ==
  /\ Receives(from) /\ DispatchFrame
  /\ IF from = TV /\ to = Broadcast
       THEN Send(Frame("device_vendor_id", Broadcast, 0), FALSE) ELSE Quiet
  /\ UNCHANGED <<paddr, busVars, lost, changed>>

MenuRequest(from, to, state) ==
  /\ Receives(from) /\ DispatchFrame
  /\ IF to = laddr
       THEN /\ menu' = IF state = "query" THEN menu ELSE IF state = "activate" THEN 1 ELSE 0
            /\ Send(Frame("menu_status", from, menu'), FALSE)
       ELSE Quiet /\ UNCHANGED menu
  /\ UNCHANGED <<paddr, active, source, audio, routing, lost, changed>>

(* Requests that only call for a reply.                                      *)
Asks == {"give_audio_status", "system_audio_mode_request", "give_system_audio_mode_status",
         "give_device_vendor_id", "give_device_power_status", "get_cec_version",
         "give_osd_name", "give_physical_address", "abort", "unrecognized"}

Reply(op, from) ==
  CASE op = "give_audio_status" -> Frame("report_audio_status", from, 50)
    [] op = "system_audio_mode_request" -> Frame("set_system_audio_mode", from, audio)
    [] op = "give_system_audio_mode_status" -> Frame("system_audio_mode_status", from, audio)
    [] op = "give_device_vendor_id" -> Frame("device_vendor_id", Broadcast, 0)
    [] op = "give_device_power_status" ->
         Frame("report_power_status", from, IF active # paddr THEN 1 ELSE 0)
    [] op = "get_cec_version" -> Frame("cec_version", from, 4)
    [] op = "give_osd_name" -> Frame("set_osd_name", from, 0)
    [] op = "give_physical_address" -> Frame("report_physical_address", Broadcast, paddr)
    [] OTHER -> Frame("feature_abort", from, IF op = "abort" THEN 4 ELSE 0)

Ask(from, to, op) ==
  /\ Receives(from) /\ DispatchFrame
  /\ IF to = laddr /\ (op = "give_physical_address" => paddr # Unset)
       THEN Send(Reply(op, from), FALSE) ELSE Quiet
  /\ UNCHANGED <<paddr, busVars, lost, changed>>

--------------------------------------------------------------------------------
(* The parser and the control worker.                                        *)

Idle == worker = NoOperation

(* The task runs before the parser and the worker whenever it can.           *)
TaskBlocked == pc \in {"recv", "send", "ping"}

(* The worker waits for each of its frames.                                  *)
Posting == TaskBlocked /\ request = None /\ frame.op \notin Requests

(* exec_set: no operation is active.  cec_apply_config drops the address but *)
(* leaves paddr as it is.                                                    *)
Set(c) ==
  /\ Idle /\ TaskBlocked
  /\ \/ \E t \in Types : c = [config EXCEPT !.type = t, !.logical = Unallocated]
     \/ \E a \in Manual : c = [config EXCEPT !.logical = a]
     \/ \E p \in Physicals : c = [config EXCEPT !.physical = p]
  /\ config' = c /\ laddr' = Unallocated /\ changed' = TRUE
  /\ UNCHANGED <<paddr, busVars, taskVars, request, worker, lost, free>>

(* exec_tv and operation_worker: `tv on` with an address, or with what       *)
(* cec_get_physical_address says when it is omitted.                         *)
BeginOn(p) ==
  /\ Idle /\ TaskBlocked /\ Ready /\ p \in Physicals
  /\ worker' = [kind |-> "on", from |-> laddr]
  /\ config' = [config EXCEPT !.physical = p] /\ paddr' = p
  /\ UNCHANGED <<laddr, busVars, taskVars, request, lost, free, changed>>

TvOn == \E p \in Physicals : BeginOn(p)

OnAddressOmitted ==
  IF paddr \in Physicals THEN BeginOn(paddr)
  ELSE /\ Idle /\ TaskBlocked /\ worker' = [NoOperation EXCEPT !.kind = "invalid_physical_address"]
       /\ UNCHANGED <<config, laddr, paddr, busVars, taskVars, request, lost, free, changed>>

BeginStandby ==
  /\ Idle /\ TaskBlocked /\ Ready
  /\ worker' = [kind |-> "standby", from |-> laddr] /\ source' = FALSE /\ lost' = TRUE
  /\ UNCHANGED <<config, laddr, paddr, active, audio, menu, routing, taskVars, request, free,
                 changed>>

(* control_send: the first Active Source takes the source.                   *)
TakeSource ==
  /\ worker.kind = "on" /\ Posting
  /\ source' = TRUE /\ active' = paddr /\ lost' = FALSE
  /\ request' = [from |-> worker.from, to |-> Broadcast, op |-> "announce", value |-> paddr]
  /\ UNCHANGED <<config, laddr, paddr, audio, menu, routing, taskVars, worker, free, changed>>

PostCommand ==
  /\ worker.kind \in {"on", "standby"} /\ Posting
  /\ request' = [from |-> worker.from, to |-> TV, op |-> "command", value |-> 0]
  /\ UNCHANGED <<config, laddr, paddr, busVars, taskVars, worker, lost, free, changed>>

(* The operation ends; a request it gave up is never served (TxGate).        *)
EndOperation ==
  /\ ~Idle /\ TaskBlocked /\ frame.op \notin Requests
  /\ worker' = NoOperation /\ request' = None
  /\ UNCHANGED <<config, laddr, paddr, busVars, taskVars, lost, free, changed>>

--------------------------------------------------------------------------------

(* main: the configuration is loaded, then an address is sought.             *)
Init ==
  /\ config \in Configs /\ laddr = Unallocated /\ paddr = PhysicalAddress
  /\ active = Unset /\ source = FALSE /\ audio = 0 /\ menu = 0 /\ routing = Unset
  /\ pc = "ping" /\ frame = None /\ more = FALSE /\ ping = FirstPing /\ due = FALSE
  /\ request = None /\ worker = NoOperation
  /\ lost = TRUE /\ free = {} /\ changed = FALSE

Poll == \E result \in {"ack", "no_ack", "timeout", "arbitration_lost", "bus_error"} :
          PingEnds(result)

Loop == FrameEnds \/ ServiceRequest \/ ServiceAllocate \/ ReceiveNothing

Paths == Physicals \cup {Unset}

Dispatch ==
  \/ Conflict
  \/ \E from \in Others \cup {TV} :
       \/ RequestActiveSource(from)
       \/ \E p \in Paths : RoutingChange(from, p) \/ RoutingInformation(from, p)
                           \/ ActiveSource(from, p) \/ SetStreamPath(from, p)
       \/ \E to \in {laddr, Broadcast} :
            \/ Standby(from, to) \/ ReportPhysicalAddress(from, to) \/ DeviceVendorId(from, to)
            \/ \E on \in 0 .. 1 : SetSystemAudioMode(from, to, on)
            \/ \E s \in {"activate", "deactivate", "query"} : MenuRequest(from, to, s)
            \/ \E op \in Asks : Ask(from, to, op)

Clients ==
  \/ \E c \in Configs : Set(c)
  \/ TvOn \/ OnAddressOmitted \/ BeginStandby \/ TakeSource \/ PostCommand \/ EndOperation

Next == Poll \/ Loop \/ ServiceNothing \/ AllocationDue \/ Dispatch \/ Clients

Spec == Init /\ [][Next]_vars

(* The frame layer ends every frame, polls again and again do not all fail   *)
(* on the wire, and an operation ends by its deadline.                       *)
FairSpec ==
  /\ Spec /\ WF_vars(Loop) /\ WF_vars(Poll) /\ WF_vars(AllocationDue)
  /\ SF_vars(ServiceAllocate) /\ SF_vars(PingEnds("no_ack"))
  /\ SF_vars(PingEnds("ack")) /\ SF_vars(EndOperation)

--------------------------------------------------------------------------------
(* Properties.                                                               *)

TypeOK ==
  /\ config \in Configs /\ laddr \in 1 .. 15 /\ paddr \in Paths /\ active \in Paths
  /\ {source, more, due, lost, changed} \subseteq BOOLEAN /\ {audio, menu} \subseteq 0 .. 1
  /\ routing \in Paths \cup {NoRoute}
  /\ pc \in {"recv", "service", "send", "ping"}
  /\ ping.index \in 0 .. 4 /\ (pc = "ping" <=> ping # NoPing)
  /\ request = None \/ request.op \in Requests
  /\ free \subseteq 1 .. 14

(* Every frame goes out under the address this device holds: a command begun *)
(* under an address that was lost in the meantime, even to one allocated     *)
(* again, is not sent.  Only `set config`, which drops the address while the *)
(* task is blocked in a frame, makes an exception.                           *)
FrameUnderOwnAddress ==
  pc = "send" => changed \/ (frame.from = laddr /\ frame.from # Unallocated)

(* Once Standby, another Active Source, a route that leads elsewhere or a    *)
(* device on our address took the source, the task does not answer as the    *)
(* active source, whatever path requests follow, until `tv on` takes it.     *)
NeverRetakes ==
  [][frame'.op = "active_source" /\ frame # frame' => ~lost']_vars

(* An address is claimed only when the poll of that very address in this     *)
(* allocation was not acknowledged, unless `set` changed the configuration   *)
(* during the polls.                                                         *)
ClaimedWasFree ==
  [][laddr' \notin {laddr, Unallocated} => laddr' \in free' \/ changed]_vars

(* A device that takes its address from a row with a free one gets it again  *)
(* after each loss, whatever `set` does during the polls.                    *)
Recovers == ~Ready ~> Ready \/ config.logical # Unallocated

(* docs/TROUBLESHOOTING.md:39 "One startup `tx noack` is normal - it         *)
(* confirms that the selected logical address was free."                     *)
PollConfirmsFree ==
  [][laddr' \notin {laddr, Unallocated} => laddr' \in free']_vars

(* docs/PROTOCOL.md:32 "`tv on` can also omit the physical address if a      *)
(* valid address has already been set."                                      *)
OmittedAddressIsSet ==
  worker.kind = "invalid_physical_address" => config.physical = Unset
================================================================================

# Verification of the CEC controller

This directory holds TLA+ models of the controller in this repository, the TLC
configurations that check them and the proofs TLAPS checks. Paths below are
relative to the repository root.

The system lets a PC switch a TV on and off over HDMI-CEC. A short-lived client
on the host (`host/src`) finds the physical address of the PC's video input,
opens a USB serial port and sends one line such as `tv on 3000 <id>`. Firmware on
a Pico (`src`) runs the operation on the CEC wire and answers with one terminal
line. What has to be right is what the host may conclude from that line, and what
happens to the TV when a line, a frame, a report or an answer is late, lost,
repeated or crossed by another task.

## Inventory

### Components, their state and their operations

| Component | Source | State | Operations |
| --- | --- | --- | --- |
| Operation gate | `src/usb-cdc.c` | `operation_busy`, `current_operation`, the queue of one operation, the ring of eight retained results, the output queue of eight lines | `exec_tv`, the gate shared by `send`/`set`/`save`/`reboot`, `operation_worker`, `print`, `cdc_log`, line state |
| Power operations | `src/cec-control.c` | locals of one operation: deadline, attempts, reports, announcements | `cec_control_on`, `_standby`, `_status`, `confirm_power` |
| CEC rendezvous | `src/cec-task.c` | TX generation, TX queue of one, `cancelled_tx`, two notification slots, power waiter and its window | `cec_send_msg_sync`, `cec_query_power_status`, `service_tx_request` |
| CEC dispatch, allocation | `src/cec-task.c` | logical and physical address, source and routing evidence, menu and audio state | `dispatch_message`, `allocate_logical_address`, `cec_apply_config` |
| Frame layer | `src/cec-frame.c` | RX and TX bit machines, RX queue of four, last edge, statistics | edge interrupt, TX alarm, `cec_frame_recv`, `cec_frame_send_timeout` |
| Health | `src/main.c`, `include/cec-health.h` | two heartbeats, watchdog scratch registers | `health_task`, boot escalation |
| Configuration storage | `src/nvs.c` | one flash record with two checksums | load, save |
| Validators | `src/cec-validate.c`, `src/cec-config.c` | none | `cec_message_valid`, `cec_physical_address_valid`, `cec_config_valid` |
| Host transaction | `host/src/main.c` | device lock, request id, session, deadlines | open and lock, probe, request with busy retry, result lookup |
| Host reply parser | `host/src/protocol.c` | none | `cecctl_parse_reply` |
| Address discovery, cache | `host/src/main.c`, `host/src/edid.c` | cache file with connector and display identity | discover, load, store, resolve |
| Everything else | logs, LEDs, DDC, USB descriptors, tools | | see *Not modelled* |

### How they interact

Five FreeRTOS tasks run on one core. The CEC task has the highest priority; the
control worker and the health task run above the command parser, which has the
lowest. The parser and the worker share the gate's variables, mostly without
locks: the design relies on priorities and on the order of a few assignments. The
worker (or the parser, for a raw `send`) is the *client* of the CEC task: it posts
a request to a queue of length one and waits on a notification, with deadlines on
both sides. Received messages reach the CEC task from an interrupt through a
queue of four; power reports travel back to the client through a second
notification slot. The host sees only lines, which are dropped when the output
queue is full, and forgets a boot only when the session number changes.

### What is hard, and what correct means

- **Gate.** The worker preempts the parser between any two of its steps. One
  operation owns the controller; each accepted request runs once; a repeated id is
  answered from memory; nothing of an earlier boot is answered.
- **Rendezvous.** Four deadlines (query, send, frame, idle bus) with different
  rounding, notifications that outlive the call they were meant for, reports without
  a transaction id. A call's result must be its own; a power report must fall
  in its query's window; nothing may be transmitted for a call that has returned.
- **Power operations.** The TV may answer anything at any time, other devices
  may take the source. `verified` and `ok` must never be said without evidence; commands
  are bounded and spaced; the deadline is kept within the client's margin.
- **Dispatch and allocation.** The configuration changes while the CEC task pings
  addresses; handlers re-read the address between two frames.
- **Frame layer.** Interrupt, alarm and task race on the same two machines.
- **Health.** A live system should never be reset, a stuck one always; two
  heartbeats with 32-bit differences.
- **Storage.** Power is lost between erase and program; a frame begins at any moment.
- **Host.** A time-out leaves the outcome uncertain; the client must never repeat a
  power effect, and never report success for another request's line.

`PROJECT.json` lists the hazards at their lines, with the properties that
cover them or, for the few that no run covers, the reason.

## Modules

| Module | Models | Kind |
| --- | --- | --- |
| `OperationGate` | parser, worker, ring, output queue, restarts | state machine |
| `PowerService` | what the controller promises the host | abstract specification |
| `TxGate` | a client of the CEC task and the task on a clock | state machine |
| `CecControl` | one power operation against any bus | state machine |
| `HostReply` | the acceptance rules of the client's parser | operators |
| `CecTask` | dispatch of every opcode, allocation, the main loop, against `set` and the worker | state machine |
| `CecFrame` | what receiving and sending share: bytes, destinations, refused messages | operators |
| `CecReceive` | the receive interrupt, its queue and the task's poll, against a faulty sender | state machine |
| `CecTransmit` | the sending task and its alarm, on a line others use | state machine |
| `Watchdog` | heartbeats, health task, watchdog, boot escalation | state machine |
| `Nvs` | configuration, `set`, `save`, load, power failure | state machine |
| `HostClient` | concurrent invocations of `cecctl` over `PowerService` and a lossy line | composition |
| `Edid` | the client's EDID scan and a reference for it | operators |
| `AddressCache` | address discovery and the cache file, with `Edid` | state machine |
| `...Proofs` | theorems about the module of that name; `CecFrameProofs` about `CecReceive` and `CecTransmit`, `HostProofs` about `HostClient` and `AddressCache` | proofs |
| `MC...` | small instances of the module of that name | TLC |

`HostClient` extends `PowerService`, which `OperationGate` implements: what is
shown of the client rests on the gate through that refinement. `CecControl` uses
`HostReply`, `AddressCache` uses `Edid`. `TxGate`, `CecTask` and `CecTransmit` are
three views of sending: a client's request in time, the task's own state, and
the pulses of one frame.

Operators called a *Fault* in their comment are mutations of the definition below
them. They are not part of the specification; each shows that a property
notices a plausible mistake in that place.

### OperationGate

`parser` is the control point of `cdc_task` inside `exec_tv`: `idle`, `scanned`
(the ring was searched, nothing found), `claimed` (`operation_busy` set, request
not queued yet) and `raw` (inside a raw command). `worker` is the control point of
`operation_worker`: `waiting`, `running`, `print`, `release`. Each place where the
higher-priority worker can preempt the parser and touch a shared variable is a step
boundary. `WorkerBlocked` is the scheduling rule of the single core: a parser step happens
only while the worker is blocked. The critical section around the ring's scan is
one step; so is the one that stores a result. An operation's content is an
`Outcome`; `CecControl` refines it. `completed`, `accepted` and `boot` are history.

`PowerService` has an owner, a sequence of results and the last answer from
memory. `OperationGate` implements it with the owner as the request in flight and the
results as `completed`: a recall may only return one of the latest `RESULT_COUNT`
results, with the same id and the same parameters, of this boot.

### TxGate

`client` follows `cec_query_power_status` and `cec_send_msg_sync` (`begin`, `post`,
`wait`, `grace`, `report`, `clear`); `task` follows `cec_task` (`recv`, `reply`,
`service`, `bus`, `wire`, `allocate`). The CEC task has the highest priority, so
the clock does not advance while it can run; the client's straight code takes no time.
Waits end within one kernel tick of their limit, early or late as the code's rounding
allows. The clock runs in half milliseconds (`Ms = 2`) so that deadlines fall
between ticks and `remaining / 1000` loses something. A message is a power
report, a Feature Abort of the query, one that shows another device on our
address, or `chatter` that makes the task send a reply.

### CecControl

The program counter follows `confirm_power` and the rest of `cec_control_on`.
Every send and query ends with any result after any time up to its timeout; one that
timed out may overrun by the grace of `cec_send_msg_sync`. Time is counted from the
worker's receipt of the request, as `elapsed_ms` is. The bus may at any moment take the source away,
route to this device or route elsewhere. `routed` abstracts `routing_address` and
`routing_at` to what `cec_routing_confirmed` tells apart. `asked`, `askedAt`,
`spaced`, `commanded`, `shown` and `lost` are history. Results the code treats alike are one value
(`failed` for no_ack, arbitration_lost and bus_error of a send).
`HostReply` is the client's side: `HostUnderstands` composes the two.

### CecTask

`config` is the running configuration, `laddr` and `paddr` the addresses `cec_task`
works with, `active`, `source`, `routing`, `audio` and `menu` its other state. The
program counter is that of the main loop: `recv` (waiting for a message), `send`
(blocked in a frame), `ping` (blocked in a poll of the allocation) and `service`
(about to look at the TX queue). One action per opcode of `dispatch_message`; the
opcodes that only call for a reply share `Ask`, and `Reply` says with what. A step
of the parser or the worker (`Set`, `BeginOn`, `BeginStandby`, `TakeSource`,
`PostCommand`) happens only while the task is blocked (`TaskBlocked`), which is the
scheduling rule of the core. `PingOutcome` is one round of `allocate_logical_address`;
it reads `config` after the poll because the code does, so a `set` during a poll
changes what is claimed. `lost`, `free` and `changed` are history.

### CecReceive

`rxState`, `rxMessage`, `byte`, `first`, `eom` and `driving` are the receiver's machine.
`Edge` is one interrupt: a fall, a rise, or both at once when it came too late.
`Falling` and `Rising` hold the windows of the source in units of 100
microseconds. The other device makes the pulses of `frame`; `Stop`, `Skew` and `Merge`
are its faults. `Poll` is `cec_frame_recv`: it brings the own address up to date, gives
up a frame after 5 ms of silence and takes a message. `whole` and `taken` are history:
what was sent to its end, and what the interrupt took for a frame.

### CecTransmit

`Call`, `IdleRound`, `SetAlarm`, `Wake`, `Overwrite` and `End` are
`cec_frame_send_timeout`; `Alarm` is `frame_tx_callback` with one case of `Pulse` per
state of `tx`. At a sample the line may be low whatever this device does, since
others use it. `clock` is what matters of the time: well before the deadline, the
kernel tick before it, or past it. The end of the call is one step, since it runs with
interrupts disabled; everything before it interleaves with the alarm.

### Watchdog

Time is the 32-bit millisecond clock, in health periods of 500 ms. `CecBeat` and
`ParserBeat` are the two heartbeats, `HealthCheck` one round of `health_task`:
it reads the clock before the heartbeats, so one may be newer than its `now`
(`overtaking`) and seem 2^32 ms old. `CecLoop` bounds the rounds of a live CEC task.
`cdc_task` has no such bound: its loops over output lines and over the host's characters
set no heartbeat, so `ParserGoesOn` may keep a round going for ever, and `ParserLoop` is only
the longest that one thing of it takes. `late` remembers that a check missed its heartbeat
for that reason. `dog` counts down to the reset. `Boot` is what `main` makes of
`scratch[1]` and the cause of the reset. `Stall` makes a task hang.

### Nvs

`config` is the parser's copy of the configuration, `flash` the record. `Save`,
`Erase`, `Program` and `Written` are `exec_save` and `nvs_save_config`, with the line looked
at twice. `Bus` lets frames begin and end at any time: between the looks, and, as disabling
interrupts does not silence other devices, while the flash is written, when this one is deaf
and misses them. What the code does ensure is `EraseBeginsIdle`. `PowerFails` happens anywhere.
At first the flash holds anything.

### HostClient

`pc` follows `main` of `cecctl`: `resolving` (address), `opening` (lock), `probing`,
`sending`, `waiting`, `pausing` (after `busy`), `looking` (the lookup after a time-out).
`age` is the time since the invocation began and `left` the time to the current
deadline. The controller is `PowerService`: `Serve` answers a line with one of its
actions. `Lose`, `Restart`, `Killed` and `Dies` are the faults. `begun` and `ended` are
history: operations begun by request id, and results with their session.

### AddressCache and Edid

`Resolve`, `LookAt` and `Discovered` are `resolve_address` and `discover_address`; `Identify`
hashes the base block of an EDID that is read a second time; `Write`, `Sync`, `Rename`
are `cache_address`; `Load`, `Others`, `Compare` are `load_cached_address`. `Plug`
changes a display or makes its EDID unreadable at any step, also
between two reads. `Edid.Scan` is the loop over the data blocks of an extension with
its arithmetic of lengths; `IsAddressOf` says independently what it should find.
`DiscoveredIsUnique` compares the two.

## Runs

| Run | Checks | Distinct states |
| --- | --- | --- |
| `gate` | `TypeOK`, `OneOwner`, `RawExcludesOperation`, `RunsOnceInOrder`, `RingHoldsLatest`; `ImplementsService`, `BusyEnds` | 744 000 |
| `tx` | `NoLateEffect`, `ResultIsOwn`, `AnswerIsFresh`, `WaiterIsQuerying`; `CallsReturn`, `RequestsAreTaken` | 1.9 million |
| `control` | `HostUnderstands`, `VerifiedByTwoReports`; `CommandIsJustified`, `SuccessIsCurrent`, `OperationEnds` | 114 000 |
| `task` | `FrameUnderOwnAddress`; `NeverRetakes`, `ClaimedWasFree`, `Recovers` | 668 000 |
| `receive` | `HandedIsSent`, `AcknowledgedIsHeard`; `Recovers` | 219 000 |
| `transmit` | `DeliveredWasSent`, `QuietAfterReturn`; `Returns` | 12 000 |
| `watchdog` | `ResetIsExplained`, `StallIsNoticed`, `BootselIsRepeated` | 7.5 million |
| `nvs` | `NothingElseIsFound`; `EraseBeginsIdle` | 22 000 |
| `client` | `AtMostOneEffect`, `StatusIsOwn`, `InvocationIsBounded`, `UncertainOnlyByFault` | 9.5 million |
| `cache` | `FileIsWhole`, `DiscoveredIsUnique`, `CacheIsUnambiguous` | 1.4 million |
| `gate_repeat` | finds a violation of `RetainedIdNotRunAgain` | |
| `control_repeat` | finds a violation of `RepeatStops` | |

What the passing runs show, in words: the busy flag covers every operation and raw
command, and the gate is a `PowerService`; no request has an effect after its call
returned, and results and power answers belong to the call that gets them; what the
firmware calls verified and successful is, when it says so; frames go out
under the own address and a lost source is not taken back unasked; a frame is received
whole or not at all, and a frame reported as delivered was on the line; the watchdog
misses no hanging task, and resets a controller without one only when the command parser,
going on in one round, kept a health check waiting; a save is all or nothing and begins on an
idle line; an
invocation of the client has at most one effect, ends in time and tells only of
its own request; and the address it uses comes from the one output that offers it.

Eight more configurations are kept beside the runs. Every module has a type invariant
(`TypeOK`, `ReceiveTypeOK`, `CacheTypeOK`); `gate` checks its own, and an `INVARIANT` line
in any other configuration checks it there.

| Configuration | Module | Result |
| --- | --- | --- |
| `OperationGateLookup.cfg` | `MCOperationGate` | violates `UnknownIsNotRetained` |
| `CecTaskPoll.cfg` | `MCCecTask` | violates `PollConfirmsFree` |
| `CecTaskOmitted.cfg` | `MCCecTask` | violates `OmittedAddressIsSet` |
| `CecTaskAudio.cfg` | `MCCecTask` | violates `ClaimedWasFree` |
| `WatchdogStream.cfg` | `MCWatchdog` | violates `ResetMeansStall` |
| `CecTransmitRace.cfg` | `MCCecTransmit` | violates `TimeoutIsUnfinished` |
| `TxGateArrivals.cfg` | `MCTxGate` | passes: the properties of `tx` with two arrivals in a shorter time, 2.4 million states |
| `HostClientOn.cfg` | `MCHostClient` | passes: `on`, `status` and `protocol` at the same time are bounded, 4.2 million states |

### Bounds

- **Gate.** A ring of two and three accepted operations: the third evicts the
  first. An output queue of two: a log and a result fill it, and `cdc_log`'s rule
  of leaving a slot still bites. Two ids, one valid and one invalid address, two
  commands: an id is repeated with the same and with other parameters. One restart.
- **Rendezvous.** Two calls, because a stale notification needs the one before, and a time
  (`MaxNow`) that admits two queries in full. One message arrives, at any moment: a
  report late for the first query and early for the second, a conflict, or chatter
  that keeps the task busy. `TxGateArrivals.cfg` has two arrivals, the second of which can hit
  a full queue (of one) or an answered query, in a time that admits less of the second call.
  Send, query, grace and idle timeouts of 3, 4, 3 and 2 half milliseconds keep the
  order of the source (send < query, grace > 1 ms, idle wait < send) and let each expire
  alone. Deadlock checking is off because the bounded clock stops. That a request is
  never sent under another address than it was made for is the matter of `task`.
- **Operations.** The unit is 500 ms, the polling interval. The deadline of `on` is
  9 units and the retry delay 2, enough for two wake commands, two confirming
  reports and both announcements, and for the deadline to fall in any of them. The
  grace of 10 ms and the client's margin of 50 ms are both rounded up to one unit.
- **Task.** Two paths, so that a route leaves and comes back; one manual address; the
  first address of the row is taken by another device, so an automatic
  allocation polls at least twice. One initiator besides the TV: handlers tell
  no more than TV and not TV apart.
- **Receive.** A byte of two bits, messages of two bytes, a queue of one: header, data
  byte, a message too long and a full queue all occur, and bits and bytes are still counted.
  Three frames, of which two have a fault: the third shows what is left of them. The
  pulse windows are those of the source.
- **Transmit.** The same bytes; polls, directed and broadcast messages; two calls, the
  second of which would meet an alarm the first left.
- **Watchdog.** The unit is the health period, the settling time, the fresh
  time and the watchdog's are the source's. The clock wraps after 60 periods instead of
  2^32 ms: longer than the settling time, a healthy run and a reset together, which is what the
  comparisons of the code depend on (`WatchdogAssumption`); a healthy run takes 15 s instead of 30.
  A live CEC task takes at most six frames of 1.5 s a round. One thing the parser does, of
  which a frame of 1.5 s and its answer are the longest, takes at most 2.5 s; its round has no
  bound. One health check in a row may be overtaken by a heartbeat:
  that takes a heartbeat within the microseconds between two reads.
- **Storage.** Of each field a good value, a bad one and the default.
- **Client.** Two invocations, because the lock and the busy reply need two; one lost line
  and one restart. The unit is a second, so the 500 ms of the client are one unit.
- **Cache.** Two outputs, a TV on one of its two inputs, which have different addresses
  in otherwise alike EDIDs, and a monitor without an address. An extension has 28 bytes of data
  instead of 124: enough for other blocks, a short one, one with an
  invalid address, and one that reaches over the end of the data.

### Fairness

- `OperationGate`: weak fairness of the worker and of the parser's own progress
  (not of its input). Each wait of the worker has a timeout (the operation's
  deadline, 100 ms on the output queue), and the parser runs whenever the worker
  blocks. No fairness for the host, logs, the port or restarts.
- `TxGate`: weak fairness of client, CEC task and clock. The scheduler runs what can
  run and time passes. Nothing obliges the client to call, the TV to answer or the
  bus to become idle.
- `CecControl`: weak fairness of the operation's own steps; each callback returns within
  its timeout, which is what `CallsReturn` shows one level below. The environment owes nothing.
- `CecTask`: weak fairness of the loop, the polls and the retry timer: the frame layer
  ends every frame (`Returns`). Strong fairness of reaching the allocation, of an operation's
  end (`OperationEnds`) and of a poll that is answered or not: a bus on which every
  poll fails gives no address. `Recovers` excepts a configured address, which another
  device may hold for good.
- `CecReceive`: weak fairness of the sender's edges, of silence after it stops and of the
  task's polls. Without the polls a broken frame would stay: it is the task that gives it up.
- `CecTransmit`: weak fairness of the task, of alarms and of time.
- `Watchdog`, `Nvs`, `HostClient`, `AddressCache`: none. Their bounds on time are safety
  properties, with time that passes only when everybody who must act has done so.

## Disagreements

Two are runs of the project, and its findings:

1. **A repeated id can run twice** (`gate_repeat`, `src/usb-cdc.c:466`). `exec_tv` scans
   the ring in a critical section and reads `operation_busy` afterwards. If the worker
   stores the result of that id, prints it and clears the flag in between, the
   repetition is accepted. `docs/PROTOCOL.md:44` promises the retained result.
   Reading the flag inside the critical section would not be enough, since the
   order is what matters: the flag has to be read before the ring is scanned.
2. **The repeated announcement can go out after another source took over**
   (`control_repeat`, `src/usb-cdc.c:101`): the source is checked before the request
   is queued, not when it is sent (`docs/PROTOCOL.md:66`). `SuccessIsCurrent` shows that no
   false success follows.

The other configurations show these:

3. **A lookup can miss a retained result** (`OperationGateLookup.cfg`, `src/usb-cdc.c:467`):
   the window of the first finding answers `unknown_request` (`docs/PROTOCOL.md:118`).
4. **An address can be claimed that was not polled** (`CecTaskPoll.cfg`, `src/cec-task.c:269`):
   `set config` during the polls changes the row or the manual address the result
   is applied to. `docs/TROUBLESHOOTING.md:39` says the poll confirms that the selected
   address was free. With a type that `set` accepts, `ClaimedWasFree` holds otherwise.
5. **`tv on` without an address can be refused although one is set** (`CecTaskOmitted.cfg`,
   `src/usb-cdc.c:437`): it reads `paddr`, which `set` does not bring up to date
   (`docs/PROTOCOL.md:32`).
6. **A host that never stops sending has the controller reset** (`WatchdogStream.cfg`,
   `src/usb-cdc.c:562`): the parser's inner loops do not refresh its heartbeat, so a few
   `send` lines in a row on a busy bus, or a long reply nobody reads, are as good as a hang.
   `docs/BUILD.md:157` says that the watchdog monitors task stalls. The configuration has the
   constants of `watchdog`; `ResetIsExplained` shows that nothing else resets a live controller.
7. **A finished frame can be reported as timed out** (`CecTransmitRace.cfg`,
   `src/cec-frame.c:288`): when the task's wait ends just before the alarm finishes the
   frame, `CEC_TX_TIMEOUT` overwrites its result (`docs/PROTOCOL.md:111`). The reverse, a
   delivery reported that was none, does not happen (`DeliveredWasSent`).
8. **An audio system claims an address in use** (`CecTaskAudio.cfg`, `src/cec-task.c:39`,
   `276`): its row is 5 four times, so a poll of 5 that is acknowledged each time leaves the
   loop with 5 claimed. `set` does not offer the type, but a stored record with it is
   valid (`src/cec-config.c:30`), one of an earlier firmware for example. The same sentence of
   `docs/TROUBLESHOOTING.md:39` is contradicted.

Two more come from reading, without a model:

9. `src/ddc.c:96` takes the low byte of the address from the licensing code in front of it, so
   its last two digits are always zero; the client's scan (`Edid`) reads the right byte.
10. `host/src/main.c:337` reads the EDID a second time for the identity that is cached
   with the address. A display exchanged in between leaves one display's address
   under the other's identity, where `docs/HOST.md:95` binds the two. `AddressCache` has the
   two reads; its properties are about what is connected throughout.

## What is proved

TLAPS checks all theorems for every value of the constants, from the named assumptions
of each module alone.

**Gate** (`OperationGateProofs`; every set of ids, commands, addresses and outcomes,
every ring and queue size).

- `TypeCorrect`: `Spec => []TypeOK`. `TypeOK` is inductive: it also says that a
  parser past its scan and a running worker hold real requests, which the
  steps that queue and store them need.
- `GateSafe`: `Spec => []GateInv`, where `GateInv` is `OneOwner` together with
  `RawExcludesOperation`. Neither is inductive alone: a claim needs to know that no
  worker is left behind by a clear flag, a raw command that none starts during it.
  `Receive` needs `Len(opQueue) <= 1` from `TypeOK`.
- `OwnerAlone` and `RawAlone` are the two halves, as checked by run `gate`.
- `OperationsInOrder`: `Spec => []RunsOnceInOrder`, from `OrderAlways`. The
  strengthening `OrderInv` adds that a parser past its claim still holds the flag and
  the request it made current, which `Enqueue` needs. `GateInv` gives the empty queue that
  keeps `Retain` and `Enqueue` from reordering; `RanAppend` is the fact about sequences.
- `RingCorrect`: `Spec => []RingHoldsLatest`. Inductive with `TypeOK`: by `SlotsShift`
  every result moves one place further behind `retained_next` and the slot
  overwritten is the oldest, also at the wrap.
- `GateImplementsService`: `Spec => ImplementsService`. `ServiceStep` maps `Enqueue` to
  `Accept`, `Retain` to `Finish`, a hit in the ring to `Recall`, `Restart` to `Reboot`, the other
  answers to `OtherReply` and the rest to a stutter, under all the invariants above.
  `HeldIsLatest` is where the ring meets the service: a slot with an id of the
  host's holds one of the latest results.

**Rendezvous** (`TxGateProofs`; every timeout, grace and grain of the clock).

- `NothingIsLate`: `Spec => []NoLateEffect`. The property says who waits, so the strengthening
  is about times: `Serving` bounds a request in service by its limit and one
  millisecond, which the grace exceeds, and says that a notification that lies there is of an older
  send; `Queued` says that a request nobody waits for is the cancelled one; `Prepared`
  that what is queued or notified before a post is older.
- `SlotIsFreed`: `Spec => []WaiterIsQuerying`, by the control points of a query.
- `ResultsAreOwn`: `Spec => []ResultIsOwn`. `Judged` says that a request in the queue or in
  service has no verdict yet and is transmitted only on the wire, and that verdicts
  agree with transmissions; `Settled`, that a send whose call was told something is
  neither queued nor in service any more, so that what it was told stays true.
- `AnswersAreFresh`: `Spec => []AnswerIsFresh`. `Window` says that the window for answers
  lies within the running query, the later beginning stamped with its frame included, and
  that the notification slot, emptied at the start, holds only what came in it.

**Power operations** (`CecControlProofs`; every deadline, pause and number of attempts).

- `TwoReportsVerify`: `Spec => []VerifiedByTwoReports`. `Counted` is the strengthening: a count
  of one means that the latest answer was the target, that no command followed it, and that the
  pause after it is over unless the deadline came first.
- `SuccessIsNow`: `Spec => SuccessIsCurrent`. `Current` says that routing
  evidence counted since the beginning was shown since then, that the source at hand has not
  been lost, and that only a verified `on` is ever activated.
- `LinesAreUnderstood`: under `MarginsSuffice`, `Spec => []HostUnderstands`. The assumption
  is what the constants of the two programs have to satisfy for each other: `tv standby` and
  `tv status` have no more time or attempts than `tv on`, and the client's limits on the
  fields of a line (`host/src/protocol.c:112`) leave room for the deadline of `on` and one
  overrun. `Readable`, the strengthening, says that a command or query is only begun before
  the deadline, so that at most one of them overruns, and collects field by field what the
  parser asks of a success (`Proven`).
- `CommandsAreJustified`: `Spec => CommandIsJustified`. `Due` says that the next send is
  `RetryDelay` after the one before, and that the loop does not come back to a command
  with a report in hand that forbids it.

**CEC task** (`CecTaskProofs`; every set of types, paths, addresses and devices).

- `SendsAsItself`: `Spec => []FrameUnderOwnAddress`, by induction: every handler
  makes its frame from `laddr`, and each place where `laddr` changes is outside a frame
  or marks the change.
- `SourceStaysLost`: `Spec => NeverRetakes`. Needs that the source is held only
  while it has not been lost, over all handlers that end or use it.
- `ClaimsAreFree`: without audio systems among the types, `Spec => ClaimedWasFree`. As long as no
  `set` interferes the poll is that of the configuration (`PInv`), and a row that ends with
  15 is left before its end (`RowEnds`).

**Frame layer** (`CecFrameProofs`; every length of a byte, every set of frames and messages,
any number of calls and faults).

- `LineIsLeftQuiet`: `Spec => []QuietAfterReturn`. At most one alarm exists, and only while a
  task waits for it.
- `DeliveryIsHonest`: `Spec => []DeliveredWasSent`. `Position` ties the state of `tx` to the
  bits of the message seen on the line so far: before bit `b` of byte `k` they are the first
  `8 k + b`, and after a sample that was accepted one more. The quotient and remainder in
  `Flat` are the arithmetic of `DivMod`.
- `FramesAreWhole` and `AcknowledgedAreHeard`: `ReceiveSpec => []HandedIsSent` and
  `ReceiveSpec => []AcknowledgedIsHeard`, from the inductive `ReceiveInv`. Its core, `Follows`,
  says that a receiver inside a frame is at the very symbol the sender is at, with all the
  bytes and bits before it (`Heard`), and that its idea of the end of the message is right. A wrong
  pulse, two edges seen as one, or a sender that stops takes it to its start state or leaves
  it with nothing to follow; from there `WhileLow` says it can neither acknowledge nor hand
  over before the next start bit. A start bit after a broken frame comes too late for every
  window (`BeginKeeps`), which is why the pieces of two frames never join.

**Watchdog** (`WatchdogProofs`; all periods and wraps).

- `SecondFailureRecovers`: `Spec => []BootselIsRepeated`. The strengthening relates `scratch[1]`
  to the number of resets in a row, with the exception of a good run that has cleared the first only.
- `StallsAreNoticed`: `Spec => []StallIsNoticed`. `Aging` bounds the age of a heartbeat by the time
  since the last successful check; after a wrap of the clock the settling time comes on top.
  `Ages` is the arithmetic of 32-bit differences, a heartbeat newer than `now` included.
- `ResetsAreExplained`: under `RoundsAreShort`, `Spec => []ResetIsExplained`. The assumption says
  that one thing the parser does is shorter than the stale time, and the CEC task's longest round
  and the overtaken checks shorter than stale time and watchdog together. It says nothing of how
  long a round of the parser goes on, which the code does not bound (disagreement 6). `Alive` counts
  the updates the watchdog has missed; without `late` they are those of CEC rounds and overtaken checks.

**Storage** (`NvsProofs`; every set of values). `Typed`, `ConfigValid`, `SavesAreAtomic` and
`EraseAfterIdle`, all but the last from one invariant: the record is whole and equal to the last save
except while it is written or after a failure during that, and a valid configuration is not
changed by migration.

**Client** (`HostProofs`; any number of invocations, every budget, any number of lost lines and
restarts). `ClientAssumption` says of the budgets what `host/src/main.c:563-580` ensures: the time to
find and probe the controller lies within that of the invocation, and the margin on an
operation's deadline is not zero.

- `InvocationsAreBounded`: `Spec => []InvocationIsBounded`. `Timed` says for each control point how
  much of the budget is spent and may still be spent there; a deadline is only begun if
  it fits (`EnoughTime`).
- `EffectsAreSingle`: `Spec => []AtMostOneEffect`. `Effects` says that a client has at most one line
  under way that can begin its operation, that an operation begun leaves none, and that
  an answer `busy` means there was no effect, so that the retry after it is safe.
- `StatusesAreOwn`: `Spec => []StatusIsOwn`. `Tellings` follows a result from the ring to the line
  and the exit status; the session in the line and in `probed` keep results of an earlier
  boot apart.
- `UncertaintyIsEarned`: `Spec => []UncertainOnlyByFault`. `Certain` says that without a fault what a
  waiting client waits for is on its way there, running and in time, or on its way back, so its
  deadline does not come first.
- `ControllerIsService`: `Spec => SSpec`. Every step of the composition is one of `PowerService`
  or leaves it alone, for the requests the clients make; with `GateImplementsService` this
  is why the theorems above hold of the gate's answers.

**Address and cache** (`HostProofs`; every set of connectors, displays and EDIDs).

- `CacheSurvives`: `CacheSpec => []FileIsWhole`. The strengthening says that the temporary file is
  synchronized before the rename.
- `CacheIsNeverAGuess`: `CacheSpec => []CacheIsUnambiguous`. `CacheCompared` says what each look at
  the other outputs has excluded by the time the record is used.
- `DiscoveryIsUnique`: under `ScanIsRight`, `CacheSpec => []DiscoveredIsUnique`. `Matched` says that the
  matches are what the outputs looked at offer. `ScanIsRight` says that `Edid.Scan` finds the
  address `IsAddressOf` defines in the EDIDs at hand. That is a statement about a recursion
  over the bytes of an EDID, which the prover cannot do an induction on; run `cache` checks it
  on the EDIDs of its instance, by the same property.

Every invariant and every action property the runs check is a theorem for all values of the
constants. Model-checked only: liveness (`BusyEnds`, `CallsReturn`, `RequestsAreTaken`,
`OperationEnds`, `Recovers` of `CecTask` and `CecReceive`, `Returns`), since fairness and ENABLED
are outside the prover's reach; `ScanIsRight`; and the type invariants not listed here.

## Not modelled

- The shell's line editor, `show`, `debug` and manual ids: they change nothing the
  gate depends on. Byte-level formatting and parsing of lines; `HostReply` takes the fields,
  not the tokens. Statistics counters.
- The limit of 450 ms on a frame that is being received: the windows on every bit
  end a frame of 16 bytes before it.
- `cec_message_valid` opcode by opcode: `CecReceive` and `CecTransmit` take a set of refused
  messages. Checksums of the flash record and of EDID blocks are taken as sound; the base
  block of an EDID and the text form of addresses are left out.
- A rename of the cache file that has not reached the disk when power fails: the old file is in
  place then, which is one of the outcomes of `Rename`.
- The 24-bit wrap of the TX generation, after sixteen million sends in one boot.
- DDC (not in the default build), LEDs, log formatting, USB descriptors, RTOS hooks, build
  and maintenance scripts, the vendored CRC, the enclosure: tables, output, sequential
  scripts, or code of others.

## Plan

Built, in this order: `OperationGate` with `PowerService`; `TxGate`; `CecControl` with
`HostReply`; `CecTask`; `CecReceive` and `CecTransmit`; `Watchdog`; `Nvs`; `HostClient` over
`PowerService`; `AddressCache` with `Edid`; theorems about every state machine.

Left, should the code change there or the effort be worth it: the tokenizer of
`host/src/protocol.c`; the validators opcode by opcode.

----------------------------- MODULE OperationGate -----------------------------
(***************************************************************************)
(* The admission of power operations in src/src/usb-cdc.c.  Two FreeRTOS   *)
(* tasks share it.  The parser (cdc_task, priority 0) reads command lines  *)
(* from the host, looks requests up in a ring of retained results, takes   *)
(* the operation_busy flag and puts one request in a queue of length one.  *)
(* The worker (operation_worker, priority 1) receives it, runs it against  *)
(* the CEC bus, retains the terminal line, prints it and clears the flag.  *)
(* The worker preempts the parser, so the parser moves only while the      *)
(* worker is blocked: on the empty queue, inside a CEC wait, or on a full  *)
(* output queue.                                                           *)
(***************************************************************************)
EXTENDS Naturals, Sequences

CONSTANTS
  Ids,            \* request ids the host uses (nonzero 64-bit numbers)
  Commands,       \* power commands in use, of "on", "standby", "status"
  Addresses,      \* physical addresses an "on" may carry
  ValidAddresses, \* those cec_physical_address_valid accepts
  Outcomes,       \* abstract terminal results of an operation
  ResultCount,    \* RESULT_COUNT, slots of the retained ring
  OutputCount,    \* OUTPUT_COUNT, slots of the output queue
  MaxAccepted,    \* bound: operations accepted in one boot
  MaxBoots        \* bound: boots in one behaviour

ASSUME GateAssumption ==
  /\ Ids \subseteq Nat \ {0}
  /\ Commands \subseteq {"on", "standby", "status"}
  /\ 0 \in Addresses /\ ValidAddresses \subseteq Addresses \ {0}
  /\ ResultCount \in Nat \ {0}
  /\ OutputCount \in Nat \ {0}
  /\ MaxAccepted \in Nat /\ MaxBoots \in Nat

VARIABLES
  parser,       \* control point of cdc_task
  request,      \* exec_tv's local request
  busy,         \* operation_busy
  current,      \* current_operation, shown by `tv protocol`
  opQueue,      \* operation_queue
  worker,       \* control point of operation_worker
  working,      \* operation_worker's local request
  line,         \* operation_worker's local copy of the entry it stored
  retained,     \* the ring of terminal results
  retainedNext, \* retained_next
  outQueue,     \* output_queue
  connected,    \* tud_cdc_connected()
  reply,        \* last line the parser answered, and to which request
  boot,         \* session_id, as a count of restarts
  accepted,     \* history: requests accepted since boot
  completed     \* history: entries retained since boot

parserVars == <<parser, request, current, reply>>
workerVars == <<worker, working, line, retained, retainedNext, completed>>
vars == <<parserVars, workerVars, busy, opQueue, outQueue, connected, boot, accepted>>

--------------------------------------------------------------------------------
(* Data.  A zeroed request has id 0, which no request of the host has.  Only *)
(* "on" reads its physical address; 0 stands for "never set".                *)

Request == [command : Commands \cup {"result"}, id : Ids, physical : Addresses]
Line == {r \in Request : r.command # "on" => r.physical = 0}
NoRequest == [command |-> "", id |-> 0, physical |-> 0]

Entry == [request : Request, outcome : Outcomes]
NoEntry == [request |-> NoRequest, outcome |-> ""]

LogItem == [kind |-> "log", entry |-> NoEntry]
ResultItem(e) == [kind |-> "result", entry |-> e]
OutputItem == [kind : {"log", "result"}, entry : Entry \cup {NoEntry}]

ReplyKinds == {"none", "retained", "id_conflict", "busy", "unknown_request",
               "invalid_physical_address", "raw_busy", "raw_done"}
Answer(kind, r, e) == [kind |-> kind, request |-> r, entry |-> e]
NoReply == Answer("none", NoRequest, NoEntry)

Slots == 0 .. ResultCount - 1
Room == Len(outQueue) < OutputCount

Init ==
  /\ parser = "idle" /\ request = NoRequest /\ current = NoRequest
  /\ reply = NoReply
  /\ busy = FALSE /\ opQueue = <<>>
  /\ worker = "waiting" /\ working = NoRequest /\ line = NoEntry
  /\ retained = [i \in Slots |-> NoEntry] /\ retainedNext = 0
  /\ outQueue = <<>> /\ connected = FALSE
  /\ boot = 0 /\ accepted = <<>> /\ completed = <<>>

(* The parser has the lowest priority: it runs while the worker is blocked. *)
WorkerBlocked ==
  \/ worker = "waiting" /\ opQueue = <<>>
  \/ worker = "running"
  \/ worker = "print" /\ ~Room

ParserAt(point) == WorkerBlocked /\ parser = point

--------------------------------------------------------------------------------
(* The parser: exec_tv.                                                      *)

Reply(kind, r, e) == reply' = Answer(kind, r, e)

(* The scan of the ring returns the first slot with the id. *)
Holding(id) == {i \in Slots : retained[i].request.id = id}
First(i, id) == i \in Holding(id) /\ \A j \in Holding(id) : i <= j

(* Fault: a repeated id is compared by command only. *)
SameCommand(r, old) == r.command = "result" \/ r.command = old.command

SameRequest(r, old) ==
  \/ r.command = "result"
  \/ r.command = old.command /\ (r.command = "on" => r.physical = old.physical)

ReadLine(r) ==
  /\ ParserAt("idle") /\ connected
  /\ r.command # "result" => Len(accepted) < MaxAccepted

(* An explicit invalid address is refused before the ring is scanned, and    *)
(* before the id is parsed: the line carries an id of the controller's own.  *)
RefuseArgument(r) ==
  /\ ReadLine(r)
  /\ r.command = "on" /\ r.physical \notin ValidAddresses
  /\ Reply("invalid_physical_address", NoRequest, NoEntry)
  /\ UNCHANGED <<parser, request, current, workerVars, busy, opQueue, outQueue,
                 connected, boot, accepted>>

(* The scan runs in a critical section; its copy is answered after it. *)
ScanHit(r) ==
  /\ ReadLine(r)
  /\ \E i \in Slots :
       /\ First(i, r.id)
       /\ IF SameRequest(r, retained[i].request)
            THEN Reply("retained", r, retained[i])
            ELSE Reply("id_conflict", r, NoEntry)
  /\ UNCHANGED <<parser, request, current, workerVars, busy, opQueue, outQueue,
                 connected, boot, accepted>>

ScanMiss(r) ==
  /\ ReadLine(r)
  /\ Holding(r.id) = {}
  /\ parser' = "scanned" /\ request' = r /\ reply' = NoReply
  /\ UNCHANGED <<current, workerVars, busy, opQueue, outQueue, connected, boot,
                 accepted>>

(* Fault: the check of operation_busy is dropped. *)
RefusalUnlessBusy ==
  IF request.command = "result" THEN "unknown_request" ELSE "none"

Refusal ==
  IF busy THEN "busy"
  ELSE IF request.command = "result" THEN "unknown_request"
  ELSE IF request.command = "on" /\ request.physical \notin ValidAddresses
         THEN "invalid_physical_address"
  ELSE "none"

Refuse ==
  /\ ParserAt("scanned") /\ Refusal # "none"
  /\ Reply(Refusal, request, NoEntry)
  /\ parser' = "idle"
  /\ UNCHANGED <<request, current, workerVars, busy, opQueue, outQueue, connected,
                 boot, accepted>>

Claim ==
  /\ ParserAt("scanned") /\ Refusal = "none"
  /\ busy' = TRUE /\ current' = request
  /\ parser' = "claimed"
  /\ UNCHANGED <<request, reply, workerVars, opQueue, outQueue, connected, boot,
                 accepted>>

(* xQueueSend without waiting.  OneOwner shows that the queue is empty here. *)
Enqueue ==
  /\ ParserAt("claimed")
  /\ parser' = "idle"
  /\ IF opQueue = <<>>
       THEN /\ opQueue' = <<request>> /\ accepted' = Append(accepted, request)
            /\ UNCHANGED <<busy, reply>>
       ELSE /\ busy' = FALSE /\ Reply("busy", request, NoEntry)
            /\ UNCHANGED <<opQueue, accepted>>
  /\ UNCHANGED <<request, current, workerVars, outQueue, connected, boot>>

--------------------------------------------------------------------------------
(* The parser: raw send, set, save and reboot share one gate.                *)

(* Fault: a raw command does not look at operation_busy. *)
RawAlways == TRUE

RawAllowed == ~busy

RawRefused ==
  /\ ParserAt("idle") /\ connected /\ ~RawAllowed
  /\ Reply("raw_busy", NoRequest, NoEntry)
  /\ UNCHANGED <<parser, request, current, workerVars, busy, opQueue, outQueue,
                 connected, boot, accepted>>

RawBegin ==
  /\ ParserAt("idle") /\ connected /\ RawAllowed
  /\ parser' = "raw" /\ reply' = NoReply
  /\ UNCHANGED <<request, current, workerVars, busy, opQueue, outQueue, connected,
                 boot, accepted>>

RawEnd ==
  /\ ParserAt("raw")
  /\ parser' = "idle" /\ Reply("raw_done", NoRequest, NoEntry)
  /\ UNCHANGED <<request, current, workerVars, busy, opQueue, outQueue, connected,
                 boot, accepted>>

(* cdc_task moves queued lines to USB between characters; when the port is   *)
(* closed they are discarded.                                                *)
Drain ==
  /\ ParserAt("idle") /\ outQueue # <<>>
  /\ outQueue' = Tail(outQueue)
  /\ UNCHANGED <<parserVars, workerVars, busy, opQueue, connected, boot, accepted>>

--------------------------------------------------------------------------------
(* The worker.                                                               *)

(* Fault: the request is peeked at and left in the queue. *)
ReceivePeeking ==
  /\ worker = "waiting" /\ opQueue # <<>>
  /\ working' = Head(opQueue) /\ worker' = "running"
  /\ UNCHANGED <<parserVars, line, retained, retainedNext, completed, busy, opQueue,
                 outQueue, connected, boot, accepted>>

Receive ==
  /\ worker = "waiting" /\ opQueue # <<>>
  /\ working' = Head(opQueue) /\ opQueue' = Tail(opQueue)
  /\ worker' = "running"
  /\ UNCHANGED <<parserVars, line, retained, retainedNext, completed, busy, outQueue,
                 connected, boot, accepted>>

(* Faults: retained_next runs off the ring; it stays where it is. *)
NextSlotUnwrapped(i) == i + 1
NextSlotStuck(i) == i

NextSlot(i) == (i + 1) % ResultCount

(* The operation ends by itself or at its deadline; the worker then stores   *)
(* the terminal line in a critical section.                                  *)
Retain(outcome) ==
  /\ worker = "running"
  /\ LET e == [request |-> working, outcome |-> outcome]
     IN  /\ retained' = [retained EXCEPT ![retainedNext] = e]
         /\ completed' = Append(completed, e) /\ line' = e
  /\ retainedNext' = NextSlot(retainedNext)
  /\ worker' = "print"
  /\ UNCHANGED <<parserVars, working, busy, opQueue, outQueue, connected, boot,
                 accepted>>

PrintLine ==
  /\ worker = "print" /\ Room
  /\ outQueue' = Append(outQueue, ResultItem(line))
  /\ worker' = "release"
  /\ UNCHANGED <<parserVars, working, line, retained, retainedNext, completed, busy,
                 opQueue, connected, boot, accepted>>

(* Fault: giving up on the line skips the release. *)
PrintTimeoutForgets ==
  /\ worker = "print" /\ ~Room
  /\ worker' = "waiting"
  /\ UNCHANGED <<parserVars, working, line, retained, retainedNext, completed, busy,
                 opQueue, outQueue, connected, boot, accepted>>

(* After 100 ms on a full output queue the line is dropped. *)
PrintTimeout ==
  /\ worker = "print" /\ ~Room
  /\ worker' = "release"
  /\ UNCHANGED <<parserVars, working, line, retained, retainedNext, completed, busy,
                 opQueue, outQueue, connected, boot, accepted>>

Release ==
  /\ worker = "release"
  /\ busy' = FALSE
  /\ worker' = "waiting"
  /\ UNCHANGED <<parserVars, working, line, retained, retainedNext, completed,
                 opQueue, outQueue, connected, boot, accepted>>

--------------------------------------------------------------------------------
(* Other tasks, the host's terminal state and restarts.                      *)

(* cdc_log leaves one slot free for a result line. *)
Log ==
  /\ Len(outQueue) + 2 <= OutputCount
  /\ outQueue' = Append(outQueue, LogItem)
  /\ UNCHANGED <<parserVars, workerVars, busy, opQueue, connected, boot, accepted>>

(* tud_cdc_line_state_cb prints from the USB task; on a full queue the line  *)
(* is dropped.                                                               *)
LineState ==
  /\ connected' = ~connected
  /\ outQueue' = IF Room THEN Append(outQueue, LogItem) ELSE outQueue
  /\ UNCHANGED <<parserVars, workerVars, busy, opQueue, boot, accepted>>

(* A watchdog reset, a power cycle or `reboot`: all of this is in RAM. *)
Restart ==
  /\ boot < MaxBoots
  /\ boot' = boot + 1
  /\ parser' = "idle" /\ request' = NoRequest /\ current' = NoRequest
  /\ reply' = NoReply
  /\ busy' = FALSE /\ opQueue' = <<>>
  /\ worker' = "waiting" /\ working' = NoRequest /\ line' = NoEntry
  /\ retained' = [i \in Slots |-> NoEntry] /\ retainedNext' = 0
  /\ outQueue' = <<>> /\ connected' = FALSE
  /\ accepted' = <<>> /\ completed' = <<>>

Worker ==
  Receive \/ (\E o \in Outcomes : Retain(o)) \/ PrintLine \/ PrintTimeout \/ Release

ParserLine ==
  \E r \in Line : RefuseArgument(r) \/ ScanHit(r) \/ ScanMiss(r)

ParserProgress == Refuse \/ Claim \/ Enqueue \/ RawEnd \/ Drain

Next ==
  \/ ParserLine \/ ParserProgress \/ RawRefused \/ RawBegin
  \/ Worker \/ Log \/ LineState \/ Restart

Spec == Init /\ [][Next]_vars

(* Every CEC operation is bounded by its deadline and every wait of both     *)
(* tasks by a timeout; host input, logs and restarts owe nothing.            *)
FairSpec == Spec /\ WF_vars(Worker) /\ WF_vars(ParserProgress)
--------------------------------------------------------------------------------
(* Properties.                                                               *)

TypeOK ==
  /\ parser \in {"idle", "scanned", "claimed", "raw"}
  /\ request \in Request \cup {NoRequest}
  /\ current \in Request \cup {NoRequest}
  /\ reply \in [kind : ReplyKinds, request : Request \cup {NoRequest},
                entry : Entry \cup {NoEntry}]
  /\ busy \in BOOLEAN /\ connected \in BOOLEAN
  /\ opQueue \in Seq(Request) /\ Len(opQueue) <= 1
  /\ worker \in {"waiting", "running", "print", "release"}
  /\ working \in Request \cup {NoRequest}
  /\ line \in Entry \cup {NoEntry}
  /\ retained \in [Slots -> Entry \cup {NoEntry}] /\ retainedNext \in Slots
  /\ outQueue \in Seq(OutputItem) /\ Len(outQueue) <= OutputCount
  /\ parser \in {"scanned", "claimed"} => request \in Request
  /\ worker = "running" => working \in Request
  /\ boot \in Nat
  /\ accepted \in Seq(Request) /\ completed \in Seq(Entry)

(* The requests accepted and not yet retained: queued, or being run. *)
InFlight ==
  IF worker = "running" THEN <<working>> \o opQueue ELSE opQueue

(* operation_busy covers an operation from before it is queued until after   *)
(* its result is stored and printed, so the queue the parser claims is empty *)
(* and xQueueSend at usb-cdc.c:472 never fails.                              *)
OneOwner ==
  /\ ~busy => worker = "waiting" /\ opQueue = <<>> /\ parser # "claimed"
  /\ parser = "claimed" => worker = "waiting" /\ opQueue = <<>>
  /\ worker # "waiting" => opQueue = <<>>

(* A raw send, set, save or reboot never overlaps an operation: both would   *)
(* use cec_send_msg_sync's single generation and the shared configuration.   *)
RawExcludesOperation ==
  parser = "raw" => ~busy /\ worker = "waiting" /\ opQueue = <<>>

(* Accepted operations run once each and in the order of acceptance; what is *)
(* in flight is the newest of them, and `tv protocol` names it as active.    *)
RunsOnceInOrder ==
  /\ accepted = [i \in DOMAIN completed |-> completed[i].request] \o InFlight
  /\ InFlight # <<>> => busy /\ InFlight = <<current>>

(* The k-th latest result is k slots behind retained_next. *)
SlotBehind(k) ==
  IF k <= retainedNext THEN retainedNext - k ELSE retainedNext + ResultCount - k

(* The ring holds exactly the latest ResultCount results of this boot, so a  *)
(* lookup can miss only what was never accepted, is in flight or is older.   *)
RingHoldsLatest ==
  \A k \in 1 .. ResultCount :
    retained[SlotBehind(k)] =
      IF k <= Len(completed) THEN completed[Len(completed) + 1 - k] ELSE NoEntry

(* The gate opens again: no path of the worker leaves operation_busy set. *)
BusyEnds == busy ~> ~busy

(* The gate implements the service the host is promised: one owner, every    *)
(* accepted operation run once, and answers only from the latest results.    *)
Service == INSTANCE PowerService WITH
  Requests <- Request, Remembered <- ResultCount, None <- NoRequest,
  owner <- IF InFlight = <<>> THEN NoRequest ELSE Head(InFlight),
  results <- completed,
  answer <- IF reply.kind = "retained" THEN <<reply.request, reply.entry>> ELSE <<>>

ImplementsService == Service!SSpec

(* docs/PROTOCOL.md:44 "Repeating a retained ID with the same command/       *)
(* parameters returns that result".  An id that is retained when a request   *)
(* is accepted is run a second time.                                         *)
RetainedIdNotRunAgain ==
  [][accepted' # accepted /\ accepted' # <<>> => Holding(request.id) = {}]_vars

(* docs/PROTOCOL.md:118 "unknown_request: The requested result is not        *)
(* retained for this boot".                                                  *)
UnknownIsNotRetained ==
  [][reply'.kind = "unknown_request" /\ reply' # reply
       => Holding(request.id) = {}]_vars
================================================================================

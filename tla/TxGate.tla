--------------------------------- MODULE TxGate ---------------------------------
(***************************************************************************)
(* The rendezvous of a client task with the CEC task: cec_send_msg_sync,   *)
(* cec_query_power_status, service_tx_request and the dispatch of power    *)
(* reports in src/src/cec-task.c, over cec_frame_send_timeout.  Both sides *)
(* run on deadlines, so the module has a clock.  OperationGate shows that  *)
(* one client calls at a time.                                             *)
(*                                                                         *)
(* The CEC task has the highest priority: the clock stands still while it  *)
(* can run.  The client's straight-line code takes no time either, so a    *)
(* notification wakes it at once; a wait that times out may end up to a    *)
(* millisecond late, at the next tick of the kernel.                       *)
(***************************************************************************)
EXTENDS Naturals, Sequences

CONSTANTS
  Ms,           \* clock units in a millisecond, the grain of the timeouts
  TxTimeout,    \* timeout of a call of cec_send_msg_sync
  QueryTimeout, \* timeout of a call of cec_query_power_status
  Grace,        \* least length of the wait after a timed-out send
  Reports,      \* power states the TV reports
  Kinds,        \* other messages, of "abort", "conflict", "chatter"
  OwnAddresses, \* logical addresses the controller may hold
  RxLength,     \* RX_QUEUE_LEN, slots of the receive queue
  IdleWait,     \* wait of cec_frame_send_timeout for an idle bus
  MaxCalls,     \* bound: calls of the client
  MaxArrivals,  \* bound: messages received
  MaxNow        \* bound: the clock

ASSUME TxAssumption ==
  /\ Ms \in Nat \ {0} /\ TxTimeout \in Nat \ {0} /\ QueryTimeout \in Nat \ {0}
  /\ Grace \in Nat /\ Grace > Ms /\ IdleWait \in Nat
  /\ Reports \subseteq 0 .. 3
  /\ OwnAddresses \subseteq 1 .. 14 /\ OwnAddresses # {}
  /\ RxLength \in Nat \ {0}
  /\ MaxCalls \in Nat /\ MaxArrivals \in Nat /\ MaxNow \in Nat

VARIABLES
  now,        \* time_us_64()
  client,     \* control point of the client
  call,       \* the client's current call
  generation, \* tx_generation: the id of the latest send
  queue,      \* cec_tx_queue
  cancelled,  \* cancelled_tx
  txNote,     \* the client's CEC_CLIENT_NOTIFY_TX slot
  powerNote,  \* the client's CEC_CLIENT_NOTIFY_POWER slot
  waiter,     \* power_status_waiter is set
  since,      \* power_query_since
  until,      \* power_query_deadline
  task,       \* control point of cec_task
  tx,         \* the request cec_task serves, with its frame deadline
  rx,         \* rx_queue: messages and their times of arrival
  laddr,      \* the logical address
  arrivals,   \* history: number of messages received
  verdict,    \* history: what cec_task told the client of each send
  framed,     \* history: the sends whose frame was started
  returned    \* history: the latest result a call returned

taskVars == <<task, tx, rx, laddr, arrivals>>
noteVars == <<txNote, powerNote, waiter, since, until>>
clientVars == <<client, call, generation, cancelled, returned>>
vars == <<now, clientVars, queue, noteVars, taskVars, verdict, framed>>

Never == MaxNow + 1        \* UINT64_MAX: no message arrives so late
Unallocated == 15
TxResults == {"ack", "no_ack", "timeout", "arbitration_lost", "bus_error",
              "unavailable"}
FrameResults == TxResults \ {"unavailable"}

NoCall == [kind |-> "none", id |-> 0, from |-> Unallocated, start |-> 0,
           deadline |-> 0, limit |-> 0, tx |-> "unavailable", heard |-> FALSE,
           answer |-> <<>>]
NoTx == [id |-> 0, from |-> Unallocated, query |-> FALSE, limit |-> 0, idle |-> 0,
         sentAt |-> 0]
NoReturn == [id |-> 0, result |-> "unavailable", heard |-> FALSE,
             answer |-> <<>>, start |-> 0, limit |-> 0]

Init ==
  /\ now = 0 /\ client = "idle" /\ call = NoCall
  /\ generation = 0 /\ queue = <<>> /\ cancelled = 0
  /\ txNote = <<>> /\ powerNote = <<>>
  /\ waiter = FALSE /\ since = 0 /\ until = 0
  /\ task = "recv" /\ tx = NoTx /\ rx = <<>>
  /\ laddr \in OwnAddresses \cup {Unallocated}
  /\ arrivals = 0 /\ framed = {} /\ returned = NoReturn
  /\ verdict = [i \in 1 .. MaxCalls |-> "none"]

Ready == laddr # Unallocated
Earlier(a, b) == IF a < b THEN a ELSE b

--------------------------------------------------------------------------------
(* The client: cec_query_power_status.                                       *)

MayCall == client = "idle" /\ generation < MaxCalls

(* An address that is lost before the query starts makes it unavailable.     *)
QueryUnavailable ==
  /\ MayCall /\ ~Ready
  /\ returned' = [NoReturn EXCEPT !.start = now, !.limit = now]
  /\ UNCHANGED <<now, client, call, generation, cancelled, queue, noteVars, taskVars,
                 verdict, framed>>

Stamp(from) == since' = now /\ until' = now + QueryTimeout /\ waiter' = from

(* Fault: an answer left over from the previous query is kept. *)
QueryBeginUncleared ==
  /\ MayCall /\ Ready /\ ~waiter /\ now + QueryTimeout + Grace <= MaxNow
  /\ Stamp(TRUE)
  /\ call' = [NoCall EXCEPT !.kind = "query", !.from = laddr, !.start = now,
                            !.limit = now + QueryTimeout]
  /\ client' = "begin"
  /\ UNCHANGED <<now, generation, cancelled, returned, queue, txNote, powerNote,
                 taskVars, verdict, framed>>

QueryBegin ==
  /\ MayCall /\ Ready /\ ~waiter /\ now + QueryTimeout + Grace <= MaxNow
  /\ powerNote' = <<>> /\ Stamp(TRUE)
  /\ call' = [NoCall EXCEPT !.kind = "query", !.from = laddr, !.start = now,
                            !.limit = now + QueryTimeout]
  /\ client' = "begin"
  /\ UNCHANGED <<now, generation, cancelled, returned, queue, txNote, taskVars,
                 verdict, framed>>

(* A plain send: the caller put its logical address in the header.           *)
SendBegin ==
  /\ MayCall /\ now + TxTimeout + Grace <= MaxNow
  /\ call' = [NoCall EXCEPT !.kind = "send", !.from = laddr, !.start = now,
                            !.limit = now + TxTimeout]
  /\ client' = "begin"
  /\ UNCHANGED <<now, generation, cancelled, returned, queue, noteVars, taskVars,
                 verdict, framed>>

--------------------------------------------------------------------------------
(* The client: cec_send_msg_sync.                                            *)

(* A new generation, a deadline, and an empty notification slot.             *)
SendPrepare ==
  /\ client = "begin"
  /\ generation' = generation + 1
  /\ call' = [call EXCEPT !.id = generation + 1,
       !.deadline = now + IF call.kind = "send" THEN TxTimeout
                          ELSE Earlier(QueryTimeout, TxTimeout)]
  /\ txNote' = <<>>
  /\ client' = "post"
  /\ UNCHANGED <<now, cancelled, returned, queue, powerNote, waiter, since, until,
                 taskVars, verdict, framed>>

(* The send returns to its caller: to the idle client, or to the query,      *)
(* which waits for a report only after an ACK and before its own deadline.   *)
SendReturns(result, heard) ==
  IF call.kind = "send"
    THEN /\ client' = "idle" /\ call' = NoCall
         /\ returned' = [NoReturn EXCEPT !.id = call.id,
                           !.result = result, !.heard = heard]
    ELSE /\ client' = IF result = "ack" /\ now < call.limit THEN "report" ELSE "clear"
         /\ call' = [call EXCEPT !.tx = result, !.heard = heard]
         /\ UNCHANGED returned

Post ==
  /\ client = "post"
  /\ IF queue = <<>>
       THEN /\ queue' = <<[id |-> call.id, from |-> call.from,
                           query |-> call.kind = "query", deadline |-> call.deadline]>>
            /\ client' = "wait" /\ UNCHANGED <<call, returned>>
       ELSE /\ SendReturns("unavailable", FALSE) /\ UNCHANGED queue
  /\ UNCHANGED <<now, generation, cancelled, noteVars, taskVars, verdict, framed>>

(* Fault: any notification is taken for the answer. *)
IsAnyNote == TRUE

IsOwnNote == txNote[1].id = call.id

(* A notification ends the loop only when it carries this call's generation. *)
Heard ==
  /\ client = "wait" /\ txNote # <<>> /\ now < call.deadline
  /\ txNote' = <<>>
  /\ IF IsOwnNote
       THEN SendReturns(txNote[1].result, TRUE)
       ELSE UNCHANGED <<client, call, returned>>
  /\ UNCHANGED <<now, generation, cancelled, queue, powerNote, waiter, since, until,
                 taskVars, verdict, framed>>

Expired ==
  /\ client = "wait" /\ now >= call.deadline
  /\ cancelled' = call.id
  /\ call' = [call EXCEPT !.deadline = now + Grace]
  /\ client' = "grace"
  /\ UNCHANGED <<now, generation, returned, queue, noteVars, taskVars, verdict, framed>>

(* Fault: the call returns without waiting for the CEC task to clean up. *)
NoGrace == TRUE

(* The wait after the deadline ends early on a notification of any id.       *)
GraceOver == txNote # <<>> \/ now >= call.deadline

GiveUp ==
  /\ client = "grace" /\ GraceOver
  /\ txNote' = <<>>
  /\ SendReturns("timeout", FALSE)
  /\ UNCHANGED <<now, generation, cancelled, queue, powerNote, waiter, since, until,
                 taskVars, verdict, framed>>

--------------------------------------------------------------------------------
(* The client: the answer of a query.                                        *)

Answered ==
  /\ client = "report" /\ powerNote # <<>>
  /\ call' = [call EXCEPT !.answer = powerNote] /\ powerNote' = <<>>
  /\ client' = "clear"
  /\ UNCHANGED <<now, generation, cancelled, returned, queue, txNote, waiter, since,
                 until, taskVars, verdict, framed>>

(* Fault: the wait for a report has no timeout. *)
ReportAwaited == FALSE

(* A wait of whole milliseconds may end up to one millisecond early.         *)
ReportOver == now + Ms > call.limit

Unanswered ==
  /\ client = "report" /\ powerNote = <<>> /\ ReportOver
  /\ client' = "clear"
  /\ UNCHANGED <<now, call, generation, cancelled, returned, queue, noteVars, taskVars,
                 verdict, framed>>

(* Fault: the waiter is cleared only when an answer came. *)
ClearIfAnswered == waiter' = (waiter /\ call.answer = <<>>)

ClearWaiter == waiter' = FALSE

QueryReturns ==
  /\ client = "clear"
  /\ ClearWaiter
  /\ returned' = [id |-> call.id, result |-> call.tx,
                  heard |-> call.heard, answer |-> call.answer, start |-> call.start,
                  limit |-> call.limit]
  /\ client' = "idle" /\ call' = NoCall
  /\ UNCHANGED <<now, generation, cancelled, queue, txNote, powerNote, since, until,
                 taskVars, verdict, framed>>

--------------------------------------------------------------------------------
(* The CEC task: cec_frame_recv and dispatch_message.                        *)

(* Messages: a power report, a Feature Abort of the power query, a message   *)
(* that shows another device on our address, and one that needs a reply.     *)
Messages == [kind : {"report"}, value : Reports]
            \cup {[kind |-> k, value |-> 4] : k \in Kinds}

RxRoom == Len(rx) < RxLength

(* The receive interrupt is off while a frame is on the wire.                *)
Arrive(m) ==
  /\ task # "wire" /\ arrivals < MaxArrivals
  /\ arrivals' = arrivals + 1
  /\ rx' = IF RxRoom THEN Append(rx, [message |-> m, at |-> now]) ELSE rx
  /\ UNCHANGED <<now, clientVars, queue, noteVars, task, tx, laddr, verdict, framed>>

InWindow(at) == at >= since /\ at <= until

(* dispatch_message ignores everything while no address is allocated.        *)
Dispatch ==
  /\ task = "recv" /\ rx # <<>>
  /\ rx' = Tail(rx)
  /\ LET m == Head(rx).message
         answers == Ready /\ m.kind \in {"report", "abort"} /\ InWindow(Head(rx).at)
     IN  /\ IF answers /\ waiter
              THEN /\ powerNote' = <<[value |-> m.value, at |-> Head(rx).at]>>
                   /\ waiter' = FALSE
              ELSE UNCHANGED <<powerNote, waiter>>
         /\ laddr' = IF m.kind = "conflict" THEN Unallocated ELSE laddr
         /\ task' = IF m.kind = "chatter" /\ Ready THEN "reply" ELSE "service"
  /\ UNCHANGED <<now, clientVars, queue, txNote, since, until, tx, arrivals, verdict,
                 framed>>

(* The task's own reply occupies it for as long as the bus takes.            *)
ReplySent ==
  /\ task = "reply"
  /\ task' = "service"
  /\ UNCHANGED <<now, clientVars, queue, noteVars, tx, rx, laddr, arrivals, verdict,
                 framed>>

(* A posted request ends the wait of cec_frame_recv.                         *)
RecvWoken ==
  /\ task = "recv" /\ rx = <<>> /\ queue # <<>>
  /\ task' = "service"
  /\ UNCHANGED <<now, clientVars, queue, noteVars, tx, rx, laddr, arrivals,
                 verdict, framed>>

--------------------------------------------------------------------------------
(* The CEC task: service_tx_request over cec_frame_send_timeout.             *)

Notify(id, result) ==
  /\ txNote' = <<[id |-> id, result |-> result]>>
  /\ verdict' = [verdict EXCEPT ![id] = result]

Serve(r) ==
  /\ r.id # cancelled /\ now < r.deadline
  /\ r.from = laddr /\ Ready

(* Whole milliseconds left, rounded down.                                    *)
Left(deadline) == ((deadline - now) \div Ms) * Ms

(* Fault: a refused request stays in the queue. *)
RejectPeeking ==
  /\ task = "service" /\ queue # <<>> /\ ~Serve(Head(queue))
  /\ Notify(Head(queue).id, "timeout")
  /\ task' = "recv"
  /\ UNCHANGED <<now, clientVars, queue, powerNote, waiter, since, until, tx, rx, laddr,
                 arrivals, framed>>

Reject ==
  /\ task = "service" /\ queue # <<>> /\ ~Serve(Head(queue))
  /\ queue' = <<>>
  /\ Notify(Head(queue).id, "timeout")
  /\ task' = "recv"
  /\ UNCHANGED <<now, clientVars, powerNote, waiter, since, until, tx, rx, laddr,
                 arrivals, framed>>

(* With less than a millisecond left the frame layer is asked for a timeout  *)
(* of zero, which it refuses.                                                *)
TooLate ==
  /\ task = "service" /\ queue # <<>> /\ Serve(Head(queue))
  /\ Left(Head(queue).deadline) = 0
  /\ queue' = <<>>
  /\ since' = IF Head(queue).query THEN Never ELSE since
  /\ Notify(Head(queue).id, "unavailable")
  /\ task' = "recv"
  /\ UNCHANGED <<now, clientVars, powerNote, waiter, until, tx, rx, laddr, arrivals,
                 framed>>

Accept ==
  /\ task = "service" /\ queue # <<>> /\ Serve(Head(queue))
  /\ Left(Head(queue).deadline) > 0
  /\ queue' = <<>>
  /\ since' = IF Head(queue).query THEN Never ELSE since
  /\ tx' = [id |-> Head(queue).id, from |-> Head(queue).from,
            query |-> Head(queue).query,
            limit |-> now + Left(Head(queue).deadline),
            idle |-> now + Earlier(IdleWait, Left(Head(queue).deadline)),
            sentAt |-> 0]
  /\ task' = "bus"
  /\ UNCHANGED <<now, clientVars, txNote, powerNote, waiter, until, rx, laddr,
                 arrivals, verdict, framed>>

(* The bus becomes idle: the frame starts, unless its deadline is over.      *)
FrameStart ==
  /\ task = "bus" /\ now < tx.limit
  /\ tx' = [tx EXCEPT !.sentAt = now]
  /\ framed' = framed \cup {tx.id}
  /\ task' = "wire"
  /\ UNCHANGED <<now, clientVars, queue, noteVars, rx, laddr, arrivals, verdict>>

Complete(result) ==
  /\ Notify(tx.id, result)
  /\ since' = IF tx.query /\ result = "ack" THEN tx.sentAt ELSE since
  /\ task' = "recv" /\ tx' = NoTx
  /\ UNCHANGED <<now, clientVars, queue, powerNote, waiter, until, rx, laddr, arrivals,
                 framed>>

BusNeverIdle == task = "bus" /\ now >= tx.idle /\ Complete("timeout")

FrameEnd(result) ==
  /\ task = "wire"
  /\ result # "timeout" => now < tx.limit
  /\ Complete(result)

(* With no request to serve, an unallocated address is retried.  The pace of *)
(* the attempts (next_allocate, 2 s) is left open.                           *)
AllocateBegin ==
  /\ task \in {"recv", "service"} /\ queue = <<>> /\ (task = "recv" => rx = <<>>)
  /\ ~Ready
  /\ task' = "allocate"
  /\ UNCHANGED <<now, clientVars, queue, noteVars, tx, rx, laddr, arrivals,
                 verdict, framed>>

AllocateEnd ==
  /\ task = "allocate"
  /\ laddr' \in OwnAddresses \cup {Unallocated}
  /\ task' = "recv"
  /\ UNCHANGED <<now, clientVars, queue, noteVars, tx, rx, arrivals, verdict, framed>>

NothingToServe ==
  /\ task = "service" /\ queue = <<>>
  /\ task' = "recv"
  /\ UNCHANGED <<now, clientVars, queue, noteVars, tx, rx, laddr, arrivals,
                 verdict, framed>>

--------------------------------------------------------------------------------
(* Time and the next-state relation.                                         *)

TaskCanRun ==
  \/ task = "service"
  \/ task = "recv" /\ (rx # <<>> \/ queue # <<>>)

(* The frame layer is awake within a millisecond after each of its limits.   *)
FrameLimit == IF task = "bus" THEN tx.idle + Ms ELSE tx.limit + Ms

ClientLimit ==
  CASE client \in {"wait", "grace"} /\ txNote = <<>> -> call.deadline + Ms
    [] client = "report" /\ powerNote = <<>> -> call.limit + Ms
    [] OTHER -> now

Tick ==
  /\ now < MaxNow
  /\ ~TaskCanRun
  /\ task \in {"bus", "wire"} => now < FrameLimit
  /\ client # "idle" => now < ClientLimit
  /\ now' = now + 1
  /\ UNCHANGED <<clientVars, queue, noteVars, taskVars, verdict, framed>>

ClientCalls == QueryUnavailable \/ QueryBegin \/ SendBegin

Client ==
  \/ SendPrepare \/ Post \/ Heard \/ Expired \/ GiveUp
  \/ Answered \/ Unanswered \/ QueryReturns

Task ==
  \/ Dispatch \/ ReplySent \/ RecvWoken
  \/ Reject \/ TooLate \/ Accept \/ FrameStart \/ BusNeverIdle
  \/ \E result \in FrameResults : FrameEnd(result)
  \/ AllocateBegin \/ AllocateEnd \/ NothingToServe

Next == ClientCalls \/ Client \/ Task \/ Tick \/ (\E m \in Messages : Arrive(m))

Spec == Init /\ [][Next]_vars

(* Each task runs when it can, and time passes; nobody has to call or send.  *)
FairSpec == Spec /\ WF_vars(Client) /\ WF_vars(Task) /\ WF_vars(Tick)

--------------------------------------------------------------------------------
(* Properties.                                                               *)

Time == 0 .. MaxNow + QueryTimeout + TxTimeout + Grace
Note == [value : Reports \cup {4}, at : Time]

TypeOK ==
  /\ now \in 0 .. MaxNow
  /\ client \in {"idle", "begin", "post", "wait", "grace", "report", "clear"}
  /\ call.kind \in {"none", "send", "query"} /\ call.tx \in TxResults
  /\ {call.start, call.deadline, call.limit} \subseteq Time
  /\ generation \in 0 .. MaxCalls /\ cancelled \in 0 .. MaxCalls
  /\ Len(queue) <= 1 /\ Len(rx) <= RxLength
  /\ txNote # <<>> => txNote[1].id \in 1 .. MaxCalls /\ txNote[1].result \in TxResults
  /\ powerNote # <<>> => powerNote[1] \in Note
  /\ waiter \in BOOLEAN /\ {since, until} \subseteq Time
  /\ task \in {"recv", "reply", "service", "bus", "wire", "allocate"}
  /\ laddr \in OwnAddresses \cup {Unallocated}
  /\ verdict \in [1 .. MaxCalls -> TxResults \cup {"none"}]
  /\ framed \subseteq 1 .. MaxCalls

(* No effect after the return: while the CEC task waits for the bus with a   *)
(* request or has its frame on the wire, the call that posted it still       *)
(* waits.  A caller that was told "timeout" may send something else at once. *)
NoLateEffect ==
  task \in {"bus", "wire"} => client \in {"wait", "grace"} /\ call.id = tx.id

(* A result that was waited for is the one cec_task gave for this very send, *)
(* whatever notifications of earlier sends arrive; "unavailable" promises    *)
(* that nothing was transmitted, and "ack" that the frame was.               *)
ResultIsOwn ==
  /\ returned.heard => verdict[returned.id] = returned.result
  /\ returned.id # 0 /\ returned.result = "unavailable" => returned.id \notin framed
  /\ returned.result = "ack" => returned.id \in framed

(* A query is answered only by a message that arrived after it was asked and *)
(* before its deadline, and only if the query itself was acknowledged.       *)
AnswerIsFresh ==
  returned.answer # <<>> =>
    /\ returned.result = "ack"
    /\ returned.start <= returned.answer[1].at
    /\ returned.answer[1].at <= returned.limit

(* power_status_waiter never outlives its query, so a query never finds it   *)
(* taken (cec-task.c:320).                                                   *)
WaiterIsQuerying == waiter => call.kind = "query"

(* Every call returns.                                                       *)
CallsReturn == client # "idle" ~> client = "idle"

(* A posted request leaves the queue, so later sends find room.              *)
RequestsAreTaken == queue # <<>> ~> queue = <<>>
================================================================================

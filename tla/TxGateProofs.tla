------------------------------ MODULE TxGateProofs ------------------------------
(***************************************************************************)
(* Theorems about TxGate, for every timeout, grain of the clock, set of    *)
(* addresses and number of calls and messages.                             *)
(***************************************************************************)
EXTENDS TxGate, TLAPS

Fields == {"kind", "id", "from", "start", "deadline", "limit", "tx", "heard", "answer"}

Typed ==
  /\ now \in Nat /\ generation \in Nat
  /\ DOMAIN call = Fields /\ call.id \in Nat /\ call.deadline \in Nat
  /\ queue # <<>> => Head(queue).id \in 0 .. generation /\ Head(queue).deadline \in Nat

(* What lies in the queue is the request of the call that waits for it, or   *)
(* one that its call has cancelled.                                          *)
Queued ==
  queue # <<>> =>
    /\ client = "wait" => Head(queue).id = call.id /\ Head(queue).deadline = call.deadline
    /\ client # "wait" => Head(queue).id = cancelled
    /\ txNote # <<>> => txNote[1].id # Head(queue).id

(* Before a request is posted, only older ones are queued or notified.       *)
Prepared ==
  client = "post" =>
    /\ call.id = generation
    /\ queue # <<>> => Head(queue).id < generation
    /\ txNote # <<>> => txNote[1].id < generation

(* A request in service belongs to the call that waits; it is over by its    *)
(* limit and a millisecond, and that is before the call gives it up.         *)
Serving ==
  task \in {"bus", "wire"} =>
    /\ queue = <<>> /\ client \in {"wait", "grace"} /\ call.id = tx.id
    /\ {"id", "limit", "idle"} \subseteq DOMAIN tx
    /\ tx.id \in Nat /\ tx.limit \in Nat /\ tx.idle \in Nat
    /\ tx.idle <= tx.limit
    /\ client = "wait" => tx.limit <= call.deadline
    /\ client = "grace" => tx.limit + Grace <= call.deadline
    /\ now <= FrameLimit
    /\ txNote # <<>> => client = "wait" /\ now < call.deadline /\ txNote[1].id # call.id

IInv == Typed /\ Queued /\ Prepared /\ Serving

(* Rounding the time left down to milliseconds makes no request longer. *)
LEMMA RoundedDown ==
  ASSUME NEW n \in Nat PROVE (n \div Ms) * Ms \in 0 .. n
BY TxAssumption

LEMMA Initially == Init => IInv
<1> SUFFICES ASSUME Init PROVE IInv
  OBVIOUS
<1>1. Typed
  BY DEF Init, Typed, NoCall, Fields
<1>2. Queued /\ Prepared /\ Serving
  BY DEF Init, Queued, Prepared, Serving
<1> QED BY <1>1, <1>2 DEF IInv

(* Steps that leave alone what the invariant speaks of. *)
invVars == <<now, client, call, generation, queue, cancelled, txNote, tx>>

LEMMA Unconcerned ==
  ASSUME IInv, UNCHANGED invVars, task' = task \/ task' \notin {"bus", "wire"} PROVE IInv'
BY DEF IInv, invVars, Typed, Queued, Prepared, Serving, FrameLimit

--------------------------------------------------------------------------------
(* The client's steps.                                                       *)

(* A call begins with nothing of it queued or in service. *)
LEMMA Beginning ==
  ASSUME IInv, QueryBegin \/ SendBegin PROVE IInv'
<1>1. /\ client = "idle" /\ client' = "begin" /\ UNCHANGED <<now, generation, queue, cancelled>>
      /\ UNCHANGED <<txNote, task, tx>>
  BY Zenon DEF QueryBegin, SendBegin, MayCall, noteVars, taskVars
<1>2. DOMAIN call' = Fields /\ call'.id = 0 /\ call'.deadline = 0
  BY DEF QueryBegin, SendBegin, NoCall, Fields
<1> QED BY <1>1, <1>2 DEF IInv, Typed, Queued, Prepared, Serving

LEMMA Preparing ==
  ASSUME IInv, SendPrepare PROVE IInv'
<1>1. /\ client = "begin" /\ client' = "post" /\ UNCHANGED <<now, queue, cancelled, task, tx>>
      /\ generation' = generation + 1 /\ txNote' = <<>>
  BY Zenon DEF SendPrepare, taskVars
<1> DEFINE t == now + IF call.kind = "send" THEN TxTimeout ELSE Earlier(QueryTimeout, TxTimeout)
<1>2. t \in Nat
  BY TxAssumption DEF IInv, Typed, Earlier
<1>3. call' = [call EXCEPT !.id = generation + 1, !.deadline = t]
  BY Zenon DEF SendPrepare
<1> HIDE DEF t
<1>4. DOMAIN call' = Fields /\ call'.id = generation + 1 /\ call'.deadline = t
  BY <1>3 DEF IInv, Typed, Fields
<1> QED BY <1>1, <1>2, <1>4 DEF IInv, Typed, Queued, Prepared, Serving

(* A send that returns leaves its own request behind only if it cancelled it.*)
LEMMA Returning ==
  ASSUME IInv, NEW result, NEW heard, SendReturns(result, heard),
         UNCHANGED <<now, generation, queue, cancelled, task, tx>>,
         txNote' \in {txNote, <<>>},
         task \notin {"bus", "wire"}, queue # <<>> => Head(queue).id = cancelled
  PROVE  IInv'
<1>1. client' \in {"idle", "report", "clear"}
  BY Zenon DEF SendReturns
<1>2. call' = NoCall \/ call' = [call EXCEPT !.tx = result, !.heard = heard]
  BY Zenon DEF SendReturns
<1>3. CASE call' = NoCall
  <2>1. DOMAIN call' = Fields /\ call'.id = 0 /\ call'.deadline = 0
    BY <1>3 DEF Fields, NoCall
  <2> QED BY <1>1, <2>1 DEF IInv, Typed, Queued, Prepared, Serving
<1>4. CASE call' = [call EXCEPT !.tx = result, !.heard = heard]
  <2>1. DOMAIN call' = Fields /\ call'.id = call.id /\ call'.deadline = call.deadline
    BY <1>4, Zenon DEF IInv, Typed, Fields
  <2> QED BY <1>1, <2>1 DEF IInv, Typed, Queued, Prepared, Serving
<1> QED BY <1>2, <1>3, <1>4

LEMMA Posting ==
  ASSUME IInv, Post PROVE IInv'
<1>1. client = "post" /\ UNCHANGED <<now, generation, cancelled, txNote, task, tx>>
  BY Zenon DEF Post, noteVars, taskVars
<1>2. task \notin {"bus", "wire"}
  BY <1>1 DEF IInv, Serving
<1>3. CASE queue = <<>>
  <2>1. UNCHANGED call /\ client' = "wait"
    BY <1>3, Zenon DEF Post
  <2>2. /\ queue' # <<>> /\ Head(queue').id = call.id
        /\ Head(queue').deadline = call.deadline
    BY <1>3 DEF Post
  <2> QED BY <1>1, <1>2, <2>1, <2>2 DEF IInv, Typed, Queued, Prepared, Serving
<1>4. CASE queue # <<>>
  <2>1. SendReturns("unavailable", FALSE) /\ UNCHANGED queue
    BY <1>4, Zenon DEF Post
  <2>2. Head(queue).id = cancelled
    BY <1>1, <1>4 DEF IInv, Queued
  <2> QED BY <1>1, <1>2, <2>1, <2>2, Returning
<1> QED BY <1>3, <1>4

(* Nothing of a call is left where it hears its own notification. *)
LEMMA Hearing ==
  ASSUME IInv, Heard PROVE IInv'
<1>1. /\ client = "wait" /\ txNote # <<>> /\ txNote' = <<>>
      /\ UNCHANGED <<now, generation, cancelled, queue, task, tx>>
  BY Zenon DEF Heard, taskVars
<1>2. CASE IsOwnNote
  <2>1. queue = <<>> /\ task \notin {"bus", "wire"}
    BY <1>1, <1>2 DEF IInv, Queued, Serving, IsOwnNote
  <2>2. SendReturns(txNote[1].result, TRUE)
    BY <1>2, Zenon DEF Heard
  <2> QED BY <1>1, <2>1, <2>2, Returning
<1>3. CASE ~IsOwnNote
  <2>1. UNCHANGED <<client, call>>
    BY <1>3, Zenon DEF Heard
  <2> QED BY <1>1, <2>1 DEF IInv, Typed, Queued, Prepared, Serving, FrameLimit
<1> QED BY <1>2, <1>3

(* The grace is longer than a request can outlast its limit. *)
LEMMA Expiring ==
  ASSUME IInv, Expired PROVE IInv'
<1>1. /\ client = "wait" /\ now >= call.deadline /\ cancelled' = call.id /\ client' = "grace"
      /\ UNCHANGED <<now, generation, queue, txNote, task, tx>>
  BY Zenon DEF Expired, noteVars, taskVars
<1>2. call' = [call EXCEPT !.deadline = now + Grace]
  BY Zenon DEF Expired
<1>3. DOMAIN call' = Fields /\ call'.id = call.id /\ call'.deadline = now + Grace
  BY <1>2 DEF IInv, Typed, Fields
<1>4. Typed' /\ Queued' /\ Prepared'
  BY <1>1, <1>3, TxAssumption DEF IInv, Typed, Queued, Prepared
<1>5. Serving'
  BY <1>1, <1>3, TxAssumption DEF IInv, Typed, Serving, FrameLimit
<1> QED BY <1>4, <1>5 DEF IInv

LEMMA GivingUp ==
  ASSUME IInv, GiveUp PROVE IInv'
<1>1. /\ client = "grace" /\ GraceOver /\ txNote' = <<>>
      /\ UNCHANGED <<now, generation, cancelled, queue, task, tx>>
  BY Zenon DEF GiveUp, taskVars
<1>2. task \notin {"bus", "wire"}
  BY <1>1, TxAssumption DEF IInv, Typed, Serving, FrameLimit, GraceOver
<1>3. queue # <<>> => Head(queue).id = cancelled
  BY <1>1 DEF IInv, Queued
<1> QED BY <1>1, <1>2, <1>3, Returning DEF GiveUp

(* The end of a query. *)
LEMMA Querying ==
  ASSUME IInv, Answered \/ Unanswered \/ QueryReturns PROVE IInv'
<1>1. /\ client \in {"report", "clear"} /\ client' \in {"clear", "idle"}
      /\ UNCHANGED <<now, generation, cancelled, queue, txNote, task, tx>>
  BY Zenon DEF Answered, Unanswered, QueryReturns, noteVars, taskVars
<1>2. call' = call \/ call' = NoCall \/ call' = [call EXCEPT !.answer = powerNote]
  BY Zenon DEF Answered, Unanswered, QueryReturns
<1>3. DOMAIN call' = Fields /\ call'.id \in Nat /\ call'.deadline \in Nat
  BY <1>2 DEF IInv, Typed, Fields, NoCall
<1> QED BY <1>1, <1>3 DEF IInv, Typed, Queued, Prepared, Serving

--------------------------------------------------------------------------------
(* The steps of the CEC task.                                                *)

(* A notification of the request that leaves the queue, or of the one that   *)
(* was in service: the queue is empty either way.                            *)
LEMMA Notifying ==
  ASSUME IInv, NEW id, NEW result, Notify(id, result), queue' = <<>>, task' = "recv",
         UNCHANGED <<now, client, call, generation, cancelled>>,
         client = "post" => id < generation
  PROVE  IInv'
<1>1. txNote' = <<[id |-> id, result |-> result]>>
  BY Zenon DEF Notify
<1>2. txNote'[1].id = id
  BY <1>1
<1> QED BY <1>2 DEF IInv, Typed, Queued, Prepared, Serving

LEMMA Refusing ==
  ASSUME IInv, Reject \/ TooLate PROVE IInv'
<1>1. PICK result : Notify(Head(queue).id, result)
  BY Zenon DEF Reject, TooLate
<1>2. queue # <<>> /\ queue' = <<>> /\ task' = "recv"
  BY Zenon DEF Reject, TooLate
<1>3. UNCHANGED <<now, client, call, generation, cancelled>>
  BY Zenon DEF Reject, TooLate, clientVars
<1>4. client = "post" => Head(queue).id < generation
  BY <1>2 DEF IInv, Prepared
<1> QED BY <1>1, <1>2, <1>3, <1>4, Notifying

(* Only the request of a call that still waits is accepted. *)
LEMMA Accepting ==
  ASSUME IInv, Accept PROVE IInv'
<1> DEFINE r == Head(queue)
           left == Left(r.deadline)
<1>1. /\ queue # <<>> /\ queue' = <<>> /\ task' = "bus" /\ Serve(r) /\ left > 0
      /\ UNCHANGED <<now, client, call, generation, cancelled, txNote>>
  BY Zenon DEF Accept, clientVars
<1>2. tx' = [id |-> r.id, from |-> r.from, query |-> r.query, limit |-> now + left,
             idle |-> now + Earlier(IdleWait, left), sentAt |-> 0]
  BY Zenon DEF Accept
<1>3. client = "wait" /\ r.id = call.id /\ r.deadline = call.deadline
  BY <1>1 DEF IInv, Queued, Serve
<1>4. r.id \in Nat /\ r.deadline \in Nat /\ now \in Nat /\ now < r.deadline
  BY <1>1 DEF IInv, Typed, Serve
<1>5. left \in 0 .. r.deadline - now
  <2>1. r.deadline - now \in Nat
    BY <1>4
  <2>2. ((r.deadline - now) \div Ms) * Ms \in 0 .. r.deadline - now
    BY <2>1, RoundedDown
  <2> QED BY <2>2, Zenon DEF Left
<1>6. txNote # <<>> => txNote[1].id # r.id
  BY <1>1 DEF IInv, Queued
<1> HIDE DEF r, left
<1>7. Earlier(IdleWait, left) \in 0 .. left
  BY <1>4, <1>5, TxAssumption DEF Earlier
<1>8. /\ {"id", "limit", "idle"} \subseteq DOMAIN tx' /\ tx'.id = r.id
      /\ tx'.limit = now + left /\ tx'.idle = now + Earlier(IdleWait, left)
  BY <1>2
<1>9. /\ tx'.limit \in Nat /\ tx'.idle \in Nat /\ tx'.idle <= tx'.limit
      /\ tx'.limit <= r.deadline /\ now <= tx'.idle
  BY <1>4, <1>5, <1>7, <1>8
<1>10. now <= FrameLimit'
  BY <1>1, <1>4, <1>9, TxAssumption DEF FrameLimit
<1>11. Serving'
  BY <1>1, <1>3, <1>4, <1>6, <1>8, <1>9, <1>10 DEF Serving
<1>12. Typed' /\ Queued' /\ Prepared'
  BY <1>1, <1>3 DEF IInv, Typed, Queued, Prepared
<1> QED BY <1>11, <1>12 DEF IInv

LEMMA Starting ==
  ASSUME IInv, FrameStart PROVE IInv'
<1>1. /\ task = "bus" /\ task' = "wire" /\ now < tx.limit /\ tx' = [tx EXCEPT !.sentAt = now]
      /\ UNCHANGED <<now, client, call, generation, queue, cancelled, txNote>>
  BY Zenon DEF FrameStart, clientVars, noteVars
<1>2. /\ {"id", "limit", "idle"} \subseteq DOMAIN tx'
      /\ tx'.id = tx.id /\ tx'.limit = tx.limit /\ tx'.idle = tx.idle
  BY <1>1 DEF IInv, Serving
<1> QED BY <1>1, <1>2, TxAssumption DEF IInv, Typed, Queued, Prepared, Serving, FrameLimit

LEMMA Completing ==
  ASSUME IInv, NEW result, task \in {"bus", "wire"}, Complete(result) PROVE IInv'
<1>1. Notify(tx.id, result) /\ task' = "recv"
  BY Zenon DEF Complete
<1>2. UNCHANGED <<now, client, call, generation, queue, cancelled>>
  BY Zenon DEF Complete, clientVars
<1>3. queue = <<>> /\ client # "post"
  BY DEF IInv, Serving
<1> QED BY <1>1, <1>2, <1>3, Notifying

(* What the task receives, replies and allocates concerns no request. *)
LEMMA Otherwise ==
  ASSUME IInv,
         \/ Dispatch \/ ReplySent \/ RecvWoken \/ AllocateBegin \/ AllocateEnd
         \/ NothingToServe \/ QueryUnavailable \/ \E m \in Messages : Arrive(m)
  PROVE  IInv'
<1>1. UNCHANGED invVars
  BY Zenon DEF Dispatch, ReplySent, RecvWoken, AllocateBegin, AllocateEnd, NothingToServe,
     QueryUnavailable, Arrive, invVars, clientVars, noteVars, taskVars
<1>2. task' = task \/ task' \notin {"bus", "wire"}
  BY DEF Dispatch, ReplySent, RecvWoken, AllocateBegin, AllocateEnd, NothingToServe,
     QueryUnavailable, Arrive, taskVars
<1> QED BY <1>1, <1>2, Unconcerned

(* The clock waits for whoever can run, the frame layer included. *)
LEMMA Ticking ==
  ASSUME IInv, Tick PROVE IInv'
<1>1. /\ now' = now + 1
      /\ task \in {"bus", "wire"} => now < FrameLimit
      /\ client # "idle" => now < ClientLimit
      /\ UNCHANGED <<client, call, generation, queue, cancelled, txNote, task, tx>>
  BY Zenon DEF Tick, clientVars, noteVars, taskVars
<1>2. client \in {"wait", "grace"} => txNote = <<>>
  BY <1>1 DEF ClientLimit, IInv, Typed
<1>3. Typed' /\ Queued' /\ Prepared'
  BY <1>1 DEF IInv, Typed, Queued, Prepared
<1>4. Serving'
  BY <1>1, <1>2, TxAssumption DEF IInv, Typed, Serving, FrameLimit
<1> QED BY <1>3, <1>4 DEF IInv

LEMMA Step == IInv /\ [Next]_vars => IInv'
<1> SUFFICES ASSUME IInv, [Next]_vars PROVE IInv'
  OBVIOUS
<1>1. CASE ClientCalls
  BY <1>1, Beginning, Otherwise DEF ClientCalls
<1>2. CASE Client
  BY <1>2, Preparing, Posting, Hearing, Expiring, GivingUp, Querying DEF Client
<1>3. CASE Task
  BY <1>3, Refusing, Accepting, Starting, Completing, Otherwise DEF Task, BusNeverIdle, FrameEnd
<1>4. CASE Tick \/ \E m \in Messages : Arrive(m)
  BY <1>4, Ticking, Otherwise
<1>5. CASE UNCHANGED vars
  BY <1>5, Unconcerned DEF vars, invVars, clientVars, noteVars, taskVars
<1> QED BY <1>1, <1>2, <1>3, <1>4, <1>5 DEF Next

(* Whatever times a send and the bus take, the CEC task waits for the bus or *)
(* transmits only for a call that has not returned: a caller that was told   *)
(* of a timeout is followed by no transmission of its own.                   *)
THEOREM NothingIsLate == Spec => []NoLateEffect
<1>1. IInv => NoLateEffect
  BY DEF IInv, Serving, NoLateEffect
<1> QED BY <1>1, Initially, Step, PTL DEF Spec

--------------------------------------------------------------------------------
(* The waiter's slot.                                                        *)

WInv == waiter => client # "idle" /\ call.kind = "query"

LEMMA WaiterInitially == Init => WInv
BY Zenon DEF Init, WInv

(* Only a query sets the waiter, and it clears it before it returns. *)
LEMMA WaiterStep == IInv /\ WInv /\ [Next]_vars => WInv'
<1> SUFFICES ASSUME IInv, WInv, [Next]_vars PROVE WInv'
  OBVIOUS
<1>1. ASSUME waiter' => waiter, UNCHANGED <<client, call>> PROVE WInv'
  BY <1>1, Zenon DEF WInv
<1>2. CASE ~waiter'
  BY <1>2, Zenon DEF WInv
<1>3. CASE QueryBegin
  <2>1. client' = "begin" /\ call'.kind = "query"
    BY <1>3 DEF QueryBegin, NoCall
  <2> QED BY <2>1 DEF WInv
<1>4. CASE SendBegin
  <2>1. client = "idle" /\ (waiter' <=> waiter)
    BY <1>4, Zenon DEF SendBegin, MayCall, noteVars
  <2> QED BY <1>2, <2>1, Zenon DEF WInv
<1>5. ASSUME NEW result, NEW heard, SendReturns(result, heard), waiter' => waiter PROVE WInv'
  <2>1. CASE call.kind = "send"
    BY <1>2, <1>5, <2>1 DEF WInv
  <2>2. CASE call.kind # "send"
    <3>1. client' # "idle" /\ call' = [call EXCEPT !.tx = result, !.heard = heard]
      BY <1>5, <2>2 DEF SendReturns
    <3>2. call'.kind = call.kind
      BY <3>1, Zenon DEF IInv, Typed, Fields
    <3> QED BY <1>5, <3>1, <3>2, Zenon DEF WInv
  <2> QED BY <2>1, <2>2
<1>6. CASE SendPrepare \/ Expired \/ Answered
  <2>1. client' # "idle" /\ (waiter' <=> waiter)
    BY <1>6 DEF SendPrepare, Expired, Answered, noteVars
  <2>2. call'.kind = call.kind
    BY <1>6 DEF SendPrepare, Expired, Answered, IInv, Typed, Fields
  <2> QED BY <2>1, <2>2, Zenon DEF WInv
<1>7. CASE Post \/ Heard \/ GiveUp
  <2>1. waiter' = waiter
    <3>1. Post => waiter' = waiter BY Zenon DEF Post, noteVars
    <3>2. Heard => waiter' = waiter BY Zenon DEF Heard
    <3>3. GiveUp => waiter' = waiter BY Zenon DEF GiveUp
    <3> QED BY <1>7, <3>1, <3>2, <3>3, Zenon
  <2>2. (UNCHANGED call /\ client' \in {client, "wait"}) \/ \E r, h : SendReturns(r, h)
    BY <1>7, Zenon DEF Post, Heard, GiveUp
  <2> QED BY <1>5, <2>1, <2>2, Zenon DEF WInv
<1>8. CASE Unanswered \/ QueryReturns
  <2>1. CASE Unanswered
    BY <2>1, Zenon DEF Unanswered, noteVars, WInv
  <2>2. CASE QueryReturns
    BY <1>2, <2>2, Zenon DEF QueryReturns, ClearWaiter
  <2> QED BY <1>8, <2>1, <2>2
<1>9. CASE Task
  <2>1. UNCHANGED <<client, call>>
    BY <1>9, Zenon DEF Task, Dispatch, ReplySent, RecvWoken, Reject, TooLate, Accept, FrameStart,
       BusNeverIdle, FrameEnd, Complete, AllocateBegin, AllocateEnd, NothingToServe, clientVars
  <2>2. waiter' => waiter
    BY <1>9, Zenon DEF Task, Dispatch, ReplySent, RecvWoken, Reject, TooLate, Accept, FrameStart,
       BusNeverIdle, FrameEnd, Complete, AllocateBegin, AllocateEnd, NothingToServe, noteVars
  <2> QED BY <1>1, <2>1, <2>2
<1>10. CASE Tick \/ QueryUnavailable \/ \E m \in Messages : Arrive(m)
  BY <1>1, <1>10, Zenon DEF Tick, QueryUnavailable, Arrive, clientVars, noteVars
<1>11. CASE UNCHANGED vars
  BY <1>1, <1>11, Zenon DEF vars, clientVars, noteVars
<1> QED BY <1>3, <1>4, <1>6, <1>7, <1>8, <1>9, <1>10, <1>11 DEF Next, ClientCalls, Client

(* The slot a query's answer comes through is taken only while a query runs, *)
(* whichever way the earlier ones ended.                                     *)
THEOREM SlotIsFreed == Spec => []WaiterIsQuerying
<1>1. WInv => WaiterIsQuerying
  BY Zenon DEF WInv, WaiterIsQuerying
<1>2. Init => IInv /\ WInv
  BY Initially, WaiterInitially
<1>3. IInv /\ WInv /\ [Next]_vars => IInv' /\ WInv'
  BY Step, WaiterStep
<1> QED BY <1>1, <1>2, <1>3, PTL DEF Spec

--------------------------------------------------------------------------------
(* The results.                                                              *)

(* Neither transmitted nor judged yet. *)
Pending(id) == id \in 1 .. generation /\ id \notin framed /\ verdict[id] = "none"

(* The verdicts agree with what was transmitted, and the notification that   *)
(* lies there agrees with the verdict of its send.                           *)
Judged ==
  /\ DOMAIN verdict = 1 .. MaxCalls /\ generation \in 0 .. MaxCalls
  /\ client = "begin" => generation < MaxCalls
  /\ framed \subseteq 1 .. generation
  /\ \A id \in 1 .. MaxCalls :
       /\ verdict[id] = "ack" => id \in framed
       /\ verdict[id] = "unavailable" => id \notin framed
       /\ id > generation => verdict[id] = "none"
  /\ txNote # <<>> => /\ txNote[1].id \in 1 .. generation
                      /\ verdict[txNote[1].id] = txNote[1].result
  /\ queue # <<>> => Pending(Head(queue).id)
  /\ client = "post" => Pending(generation)
  /\ task = "bus" => Pending(tx.id)
  /\ task = "wire" => tx.id \in framed /\ verdict[tx.id] = "none"

(* What a send is told is true, and stays true: a send that is neither       *)
(* queued nor in service is neither transmitted nor judged any more.         *)
Away(id) ==
  /\ queue # <<>> => Head(queue).id # id
  /\ task \in {"bus", "wire"} => tx.id # id

Settled(id, result, heard) ==
  /\ id \in 0 .. generation
  /\ heard => id # 0 /\ verdict[id] = result
  /\ id # 0 /\ result = "unavailable" => id \notin framed
  /\ result = "ack" => id \in framed
  /\ id # 0 /\ (heard \/ result = "unavailable") => Away(id)

Sending == {"post", "wait", "grace", "report", "clear"}

Told ==
  /\ Settled(returned.id, returned.result, returned.heard)
  /\ client \in Sending => call.id = generation /\ returned.id < generation
  /\ client \in {"report", "clear"} => Settled(call.id, call.tx, call.heard)

RInv == Judged /\ Told

LEMMA NothingJudged == Init => RInv
<1> SUFFICES ASSUME Init PROVE RInv
  OBVIOUS
<1>1. verdict = [i \in 1 .. MaxCalls |-> "none"] /\ generation = 0 /\ framed = {}
  BY DEF Init
<1>2. client = "idle" /\ txNote = <<>> /\ queue = <<>> /\ task = "recv"
  BY DEF Init
<1>3. returned.id = 0 /\ returned.result = "unavailable" /\ returned.heard = FALSE
  BY DEF Init, NoReturn
<1>4. Judged
  BY <1>1, <1>2, TxAssumption DEF Judged
<1>5. Told
  BY <1>1, <1>2, <1>3 DEF Told, Settled, Sending
<1> QED BY <1>4, <1>5 DEF RInv

(* Steps that neither transmit nor judge. *)
judgeVars == <<generation, queue, tx, verdict, framed>>

LEMMA JudgedStays ==
  ASSUME RInv, UNCHANGED judgeVars, txNote' \in {txNote, <<>>},
         client' \in {"begin", "post"} => client' = client,
         task' = task \/ task' \notin {"bus", "wire"}
  PROVE  Judged'
BY DEF RInv, Judged, judgeVars, Pending

LEMMA SettledStays ==
  ASSUME UNCHANGED judgeVars, task' = task \/ task' \notin {"bus", "wire"},
         NEW id, NEW result, NEW heard, Settled(id, result, heard)
  PROVE  Settled(id, result, heard)'
BY DEF Settled, Away, judgeVars

(* Steps that leave alone what the calls were told, too. *)
LEMMA ToldStays ==
  ASSUME RInv, UNCHANGED judgeVars, UNCHANGED <<client, call, returned>>,
         txNote' \in {txNote, <<>>}, task' = task \/ task' \notin {"bus", "wire"}
  PROVE  RInv'
<1>1. Judged'
  BY JudgedStays
<1>2. Settled(returned.id, returned.result, returned.heard)'
  BY SettledStays DEF RInv, Told
<1>3. client \in {"report", "clear"} => Settled(call.id, call.tx, call.heard)'
  BY SettledStays DEF RInv, Told
<1> QED BY <1>1, <1>2, <1>3 DEF RInv, Told, judgeVars

(* A call that begins or ends leaves the latest result as it is or settles it. *)
LEMMA ToldBeginning ==
  ASSUME RInv, QueryUnavailable \/ QueryBegin \/ SendBegin PROVE RInv'
<1>1. /\ client = "idle" /\ client' \in {"idle", "begin"} /\ generation < MaxCalls
      /\ UNCHANGED judgeVars /\ UNCHANGED <<txNote, task>>
  BY Zenon DEF QueryUnavailable, QueryBegin, SendBegin, MayCall, judgeVars, noteVars, taskVars
<1>2. Judged'
  BY <1>1 DEF RInv, Judged, judgeVars, Pending
<1>3. Settled(returned.id, returned.result, returned.heard)'
  <2>1. CASE UNCHANGED returned
    BY <1>1, <2>1, SettledStays DEF RInv, Told
  <2>2. CASE ~UNCHANGED returned
    <3>1. returned' = [NoReturn EXCEPT !.start = now, !.limit = now]
      BY <2>2, Zenon DEF QueryUnavailable, QueryBegin, SendBegin
    <3>2. returned'.id = 0 /\ returned'.result = "unavailable" /\ returned'.heard = FALSE
      BY <3>1 DEF NoReturn
    <3> QED BY <1>1, <1>2, <3>2 DEF Settled, Judged
  <2> QED BY <2>1, <2>2
<1> QED BY <1>1, <1>2, <1>3 DEF RInv, Told, Sending

LEMMA ToldPreparing ==
  ASSUME IInv, RInv, SendPrepare PROVE RInv'
<1>1. /\ client = "begin" /\ client' = "post" /\ generation' = generation + 1 /\ txNote' = <<>>
      /\ UNCHANGED <<queue, tx, verdict, framed, task, returned>>
  BY Zenon DEF SendPrepare, taskVars
<1> DEFINE t == now + IF call.kind = "send" THEN TxTimeout ELSE Earlier(QueryTimeout, TxTimeout)
<1>2. call' = [call EXCEPT !.id = generation + 1, !.deadline = t]
  BY Zenon DEF SendPrepare
<1> HIDE DEF t
<1>3. call'.id = generation + 1
  BY <1>2 DEF IInv, Typed, Fields
<1>4. Judged'
  BY <1>1, TxAssumption DEF RInv, Judged, Pending
<1>5. Settled(returned.id, returned.result, returned.heard)'
  BY <1>1 DEF RInv, Told, Judged, Settled, Away
<1> QED BY <1>1, <1>3, <1>4, <1>5 DEF RInv, Told, Judged, Settled

(* A send that returns with a settled result. *)
LEMMA ToldReturning ==
  ASSUME IInv, RInv, NEW result, NEW heard, SendReturns(result, heard),
         client \in Sending, Settled(generation, result, heard),
         UNCHANGED judgeVars, txNote' \in {txNote, <<>>}, UNCHANGED task
  PROVE  RInv'
<1>1. client' \in {"idle", "report", "clear"}
  BY Zenon DEF SendReturns
<1>2. Judged'
  BY <1>1, JudgedStays
<1>3. call.id = generation /\ returned.id < generation /\ generation' = generation
  BY DEF RInv, Told, judgeVars
<1>4. Settled(generation, result, heard)'
  BY <1>3, SettledStays
<1>5. CASE call.kind = "send"
  <2>1. /\ client' = "idle"
        /\ returned' = [NoReturn EXCEPT !.id = call.id, !.result = result, !.heard = heard]
    BY <1>5, Zenon DEF SendReturns
  <2>2. returned'.id = generation /\ returned'.result = result /\ returned'.heard = heard
    BY <1>3, <2>1 DEF NoReturn
  <2> QED BY <1>2, <1>3, <1>4, <2>1, <2>2 DEF RInv, Told, Sending
<1>6. CASE call.kind # "send"
  <2>1. call' = [call EXCEPT !.tx = result, !.heard = heard] /\ UNCHANGED returned
    BY <1>6, Zenon DEF SendReturns
  <2>2. call'.id = generation /\ call'.tx = result /\ call'.heard = heard
    BY <1>3, <2>1 DEF IInv, Typed, Fields
  <2>3. Settled(returned.id, returned.result, returned.heard)'
    BY <2>1, SettledStays DEF RInv, Told
  <2> QED BY <1>2, <1>3, <1>4, <2>1, <2>2, <2>3 DEF RInv, Told
<1> QED BY <1>5, <1>6

LEMMA ToldPosting ==
  ASSUME IInv, RInv, Post PROVE RInv'
<1>1. client = "post" /\ UNCHANGED <<generation, txNote, task, tx, verdict, framed>>
  BY Zenon DEF Post, noteVars, taskVars
<1>2. call.id = generation /\ Pending(generation) /\ returned.id < generation
  BY <1>1 DEF RInv, Judged, Told, Sending
<1>3. task \notin {"bus", "wire"}
  BY <1>1 DEF IInv, Serving
<1>4. CASE queue = <<>>
  <2>1. UNCHANGED <<call, returned>> /\ client' = "wait"
    BY <1>4, Zenon DEF Post
  <2>2. queue' # <<>> /\ Head(queue').id = generation
    BY <1>2, <1>4 DEF Post
  <2>3. Judged'
    BY <1>1, <1>2, <2>1, <2>2 DEF RInv, Judged, Pending
  <2>4. Settled(returned.id, returned.result, returned.heard)'
    BY <1>1, <1>2, <1>3, <2>1, <2>2 DEF RInv, Told, Settled, Away
  <2> QED BY <1>1, <1>2, <2>1, <2>3, <2>4 DEF RInv, Told, Sending
<1>5. CASE queue # <<>>
  <2>1. SendReturns("unavailable", FALSE) /\ UNCHANGED queue
    BY <1>5, Zenon DEF Post
  <2>2. Head(queue).id < generation
    BY <1>1, <1>5 DEF IInv, Prepared
  <2>3. Settled(generation, "unavailable", FALSE)
    BY <1>2, <1>3, <2>2 DEF RInv, Judged, Pending, Settled, Away
  <2> QED BY <1>1, <2>1, <2>3, ToldReturning DEF judgeVars, Sending
<1> QED BY <1>4, <1>5

(* What is heard is the verdict, and nothing of the send is left. *)
LEMMA ToldHearing ==
  ASSUME IInv, RInv, Heard PROVE RInv'
<1>1. /\ client = "wait" /\ txNote # <<>> /\ txNote' = <<>>
      /\ UNCHANGED judgeVars /\ UNCHANGED task
  BY Zenon DEF Heard, taskVars, judgeVars
<1>2. CASE IsOwnNote
  <2>1. queue = <<>> /\ task \notin {"bus", "wire"}
    BY <1>1, <1>2 DEF IInv, Queued, Serving, IsOwnNote
  <2>2. SendReturns(txNote[1].result, TRUE)
    BY <1>2, Zenon DEF Heard
  <2>3. txNote[1].id = generation
    BY <1>1, <1>2 DEF RInv, Told, Sending, IsOwnNote
  <2>4. /\ generation \in 1 .. MaxCalls /\ verdict[generation] = txNote[1].result
    BY <1>1, <2>3 DEF RInv, Judged
  <2>5. Settled(generation, txNote[1].result, TRUE)
    BY <2>1, <2>4 DEF RInv, Judged, Settled, Away
  <2> QED BY <1>1, <2>2, <2>5, ToldReturning DEF Sending
<1>3. CASE ~IsOwnNote
  <2>1. UNCHANGED <<client, call, returned>>
    BY <1>3, Zenon DEF Heard
  <2> QED BY <1>1, <2>1, ToldStays
<1> QED BY <1>2, <1>3

LEMMA ToldGivingUp ==
  ASSUME IInv, RInv, GiveUp PROVE RInv'
<1>1. /\ client = "grace" /\ txNote' = <<>> /\ SendReturns("timeout", FALSE)
      /\ UNCHANGED judgeVars /\ UNCHANGED task
  BY Zenon DEF GiveUp, taskVars, judgeVars
<1>2. Settled(generation, "timeout", FALSE)
  BY DEF RInv, Judged, Settled
<1> QED BY <1>1, <1>2, ToldReturning DEF Sending

(* A query keeps what its send was told until it returns. *)
LEMMA ToldWaiting ==
  ASSUME IInv, RInv, Expired \/ Answered \/ Unanswered PROVE RInv'
<1>1. /\ client \in Sending /\ client' \in {"grace", "clear"}
      /\ UNCHANGED judgeVars /\ UNCHANGED <<returned, txNote, task>>
      /\ client' = "clear" => client = "report"
  BY DEF Expired, Answered, Unanswered, noteVars, taskVars, judgeVars, Sending
<1>2. call'.id = call.id /\ call'.tx = call.tx /\ call'.heard = call.heard
  BY DEF Expired, Answered, Unanswered, IInv, Typed, Fields
<1>3. Judged'
  BY <1>1, JudgedStays
<1>4. Settled(returned.id, returned.result, returned.heard)'
  BY <1>1, SettledStays DEF RInv, Told
<1>5. client' = "clear" => Settled(call.id, call.tx, call.heard)'
  BY <1>1, <1>2, SettledStays DEF RInv, Told
<1> QED BY <1>1, <1>2, <1>3, <1>4, <1>5 DEF RInv, Told, judgeVars

LEMMA ToldQuery ==
  ASSUME RInv, QueryReturns PROVE RInv'
<1>1. /\ client = "clear" /\ client' = "idle" /\ UNCHANGED <<txNote, task>>
      /\ UNCHANGED judgeVars
  BY Zenon DEF QueryReturns, taskVars, judgeVars
<1>2. returned'.id = call.id /\ returned'.result = call.tx /\ returned'.heard = call.heard
  BY DEF QueryReturns
<1>3. Judged'
  BY <1>1, JudgedStays
<1>4. Settled(returned.id, returned.result, returned.heard)'
  BY <1>1, <1>2, SettledStays DEF RInv, Told
<1> QED BY <1>1, <1>3, <1>4 DEF RInv, Told, Sending

(* A verdict is on a send nobody has heard of, and does not contradict what  *)
(* was transmitted.                                                          *)
LEMMA ToldNotifying ==
  ASSUME IInv, RInv, NEW id, NEW result, Notify(id, result), Pending(id) \/ task = "wire",
         verdict[id] = "none",
         queue' = <<>>, task' = "recv", UNCHANGED <<client, call, generation, framed, returned>>,
         result = "ack" => id \in framed, result = "unavailable" => id \notin framed,
         id \in 1 .. generation, client = "post" => id < generation,
         \/ queue # <<>> /\ id = Head(queue).id
         \/ task \in {"bus", "wire"} /\ id = tx.id
  PROVE  RInv'
<1>1. /\ txNote' = <<[id |-> id, result |-> result]>>
      /\ verdict' = [verdict EXCEPT ![id] = result]
  BY Zenon DEF Notify
<1>2. txNote'[1].id = id /\ txNote'[1].result = result
  BY <1>1
<1>3. DOMAIN verdict = 1 .. MaxCalls /\ generation \in 0 .. MaxCalls /\ id \in DOMAIN verdict
  BY TxAssumption DEF RInv, Judged
<1>4. /\ DOMAIN verdict' = 1 .. MaxCalls /\ verdict'[id] = result
      /\ \A i \in 1 .. MaxCalls : i # id => verdict'[i] = verdict[i]
  BY <1>1, <1>3, Zenon
<1> HIDE DEF Notify
<1>5. Judged'
  BY <1>2, <1>3, <1>4 DEF RInv, Judged, Pending
<1>6. \A i \in 0 .. generation : i # 0 => i \in 1 .. MaxCalls
  BY <1>3, TxAssumption
<1>7. ASSUME NEW i, NEW r, NEW h, Settled(i, r, h) PROVE Settled(i, r, h)'
  <2>1. i \in 0 .. generation /\ (h => i # 0 /\ verdict[i] = r)
    BY <1>7, Zenon DEF Settled
  <2>2. i # 0 /\ (h \/ r = "unavailable") => i # id
    BY <1>7, Zenon DEF Settled, Away
  <2>3. h => i # 0 /\ verdict'[i] = r
    BY <1>4, <1>6, <2>1, <2>2, Zenon
  <2>4. Away(i)'
    BY Zenon DEF Away
  <2> QED BY <1>7, <2>3, <2>4, Zenon DEF Settled
<1> QED BY <1>5, <1>7 DEF RInv, Told

LEMMA ToldRefusing ==
  ASSUME IInv, RInv, Reject \/ TooLate PROVE RInv'
<1>1. PICK result \in {"timeout", "unavailable"} : Notify(Head(queue).id, result)
  BY Zenon DEF Reject, TooLate
<1>2. /\ queue # <<>> /\ queue' = <<>> /\ task' = "recv"
      /\ UNCHANGED <<client, call, generation, framed, returned>>
  BY Zenon DEF Reject, TooLate, clientVars
<1>3. Pending(Head(queue).id)
  BY <1>2 DEF RInv, Judged
<1>4. client = "post" => Head(queue).id < generation
  BY <1>2 DEF IInv, Prepared
<1> QED BY <1>1, <1>2, <1>3, <1>4, ToldNotifying DEF Pending

LEMMA ToldCompleting ==
  ASSUME IInv, RInv, BusNeverIdle \/ \E result \in FrameResults : FrameEnd(result)
  PROVE  RInv'
<1>1. PICK result \in FrameResults :
        /\ task \in {"bus", "wire"} /\ Complete(result)
        /\ task = "bus" => result = "timeout"
  BY DEF BusNeverIdle, FrameEnd, FrameResults, TxResults
<1>2. /\ Notify(tx.id, result) /\ task' = "recv" /\ UNCHANGED queue
      /\ UNCHANGED <<client, call, generation, framed, returned>>
  BY <1>1, Zenon DEF Complete, clientVars
<1>3. queue = <<>> /\ client # "post"
  BY <1>1 DEF IInv, Serving
<1>4. verdict[tx.id] = "none" /\ tx.id \in 1 .. generation /\ (result = "ack" => tx.id \in framed)
  BY <1>1 DEF RInv, Judged, Pending
<1>5. result # "unavailable" /\ (Pending(tx.id) \/ task = "wire")
  BY <1>1 DEF FrameResults, RInv, Judged
<1> QED BY <1>1, <1>2, <1>3, <1>4, <1>5, ToldNotifying

(* The request goes from the queue to the bus, and from there on the wire. *)
LEMMA ToldAccepting ==
  ASSUME IInv, RInv, Accept PROVE RInv'
<1>1. /\ queue # <<>> /\ queue' = <<>> /\ task' = "bus"
      /\ UNCHANGED <<client, call, generation, txNote, verdict, framed, returned>>
  BY Zenon DEF Accept, clientVars
<1>2. tx'.id = Head(queue).id
  BY DEF Accept
<1>3. Judged'
  BY <1>1, <1>2 DEF RInv, Judged, Pending
<1>4. ASSUME NEW i, NEW r, NEW h, Settled(i, r, h) PROVE Settled(i, r, h)'
  BY <1>1, <1>2, <1>4 DEF Settled, Away
<1> QED BY <1>1, <1>3, <1>4 DEF RInv, Told

LEMMA ToldStarting ==
  ASSUME IInv, RInv, FrameStart PROVE RInv'
<1>1. /\ task = "bus" /\ task' = "wire" /\ framed' = framed \cup {tx.id}
      /\ UNCHANGED <<client, call, generation, queue, txNote, verdict, returned>>
  BY Zenon DEF FrameStart, clientVars, noteVars
<1>2. tx'.id = tx.id
  BY <1>1 DEF FrameStart, IInv, Serving
<1>3. queue = <<>> /\ client # "post"
  BY <1>1 DEF IInv, Serving
<1>4. Judged'
  BY <1>1, <1>2, <1>3 DEF RInv, Judged, Pending
<1>5. ASSUME NEW i, NEW r, NEW h, Settled(i, r, h) PROVE Settled(i, r, h)'
  BY <1>1, <1>2, <1>5 DEF Settled, Away
<1> QED BY <1>1, <1>4, <1>5 DEF RInv, Told

LEMMA ToldOtherwise ==
  ASSUME RInv,
         \/ Dispatch \/ ReplySent \/ RecvWoken \/ AllocateBegin \/ AllocateEnd
         \/ NothingToServe \/ Tick \/ \E m \in Messages : Arrive(m)
  PROVE  RInv'
<1>1. UNCHANGED judgeVars /\ UNCHANGED <<client, call, returned>> /\ UNCHANGED txNote
  BY Zenon DEF Dispatch, ReplySent, RecvWoken, AllocateBegin, AllocateEnd, NothingToServe,
     Tick, Arrive, judgeVars, clientVars, noteVars, taskVars
<1>2. task' = task \/ task' \notin {"bus", "wire"}
  BY DEF Dispatch, ReplySent, RecvWoken, AllocateBegin, AllocateEnd, NothingToServe,
     Tick, Arrive, taskVars
<1> QED BY <1>1, <1>2, ToldStays

LEMMA ToldStep == IInv /\ RInv /\ [Next]_vars => RInv'
<1> SUFFICES ASSUME IInv, RInv, [Next]_vars PROVE RInv'
  OBVIOUS
<1>1. CASE ClientCalls
  BY <1>1, ToldBeginning DEF ClientCalls
<1>2. CASE Client
  BY <1>2, ToldPreparing, ToldPosting, ToldHearing, ToldGivingUp, ToldWaiting, ToldQuery DEF Client
<1>3. CASE Task
  BY <1>3, ToldRefusing, ToldAccepting, ToldStarting, ToldCompleting, ToldOtherwise DEF Task
<1>4. CASE Tick \/ \E m \in Messages : Arrive(m)
  BY <1>4, ToldOtherwise
<1>5. CASE UNCHANGED vars
  BY <1>5, ToldStays DEF vars, judgeVars, clientVars, noteVars, taskVars
<1> QED BY <1>1, <1>2, <1>3, <1>4, <1>5 DEF Next

(* Whatever is left of earlier sends, the result a call waited for is the    *)
(* one the CEC task gave for this very send; a call told "unavailable" has   *)
(* transmitted nothing, and never will, and one told "ack" has.              *)
THEOREM ResultsAreOwn == Spec => []ResultIsOwn
<1>1. RInv => ResultIsOwn
  BY DEF RInv, Told, Settled, ResultIsOwn
<1>2. Init => IInv /\ RInv
  BY Initially, NothingJudged
<1>3. IInv /\ RInv /\ [Next]_vars => IInv' /\ RInv'
  BY Step, ToldStep
<1> QED BY <1>1, <1>2, <1>3, PTL DEF Spec

--------------------------------------------------------------------------------
(* The answers.                                                              *)

Within(answer) == answer[1].at \in Nat /\ call.start <= answer[1].at /\ answer[1].at <= call.limit

QueryRuns == client # "idle" /\ call.kind = "query"

(* While a query runs, the window for answers begins no earlier than it and  *)
(* ends with it, the later beginning that comes with its frame included; so  *)
(* what lies in its notification slot, emptied at its start, is fresh.       *)
Window ==
  /\ now <= MaxNow /\ call.start \in Nat /\ call.start <= now
  /\ rx \in Seq([message : Messages, at : Nat])
  /\ since \in Nat
  /\ QueryRuns => call.start <= since /\ until = call.limit /\ call.limit \in Nat
  /\ QueryRuns /\ powerNote # <<>> => Within(powerNote)
  /\ task \in {"bus", "wire"} => "sentAt" \in DOMAIN tx
  /\ task = "wire" => tx.sentAt \in Nat /\ call.start <= tx.sentAt

Answers ==
  /\ client # "idle" => call.kind \in {"send", "query"}
  /\ client \in {"report", "clear"} => call.kind = "query"
  /\ client = "report" => call.tx = "ack"
  /\ call.answer # <<>> => client = "clear" /\ call.tx = "ack" /\ Within(call.answer)

AInv == Window /\ Answers /\ AnswerIsFresh

LEMMA NothingAnswered == Init => AInv
<1> SUFFICES ASSUME Init PROVE AInv
  OBVIOUS
<1>1. Window
  BY TxAssumption DEF Init, Window, QueryRuns, NoCall
<1>2. Answers
  BY DEF Init, Answers, NoCall
<1>3. AnswerIsFresh
  BY DEF Init, AnswerIsFresh, NoReturn
<1> QED BY <1>1, <1>2, <1>3 DEF AInv

(* Steps of the CEC task and of the clock, in which the client stands still. *)
LEMMA WindowStays ==
  ASSUME IInv, AInv, UNCHANGED <<client, call, until, returned>>,
         now' = now \/ (now < MaxNow /\ now' = now + 1),
         rx' \in Seq([message : Messages, at : Nat]),
         since' \in {since, Never} \/ (task = "wire" /\ since' = tx.sentAt),
         powerNote' = powerNote \/ (QueryRuns => Within(powerNote')),
         task' \in {"bus", "wire"} => "sentAt" \in DOMAIN tx',
         task' = "wire" => (task = "wire" /\ tx' = tx) \/ tx'.sentAt = now
  PROVE  AInv'
<1>1. /\ now \in Nat /\ now <= MaxNow /\ MaxNow \in Nat
      /\ call.start \in Nat /\ call.start <= now /\ since \in Nat
  BY TxAssumption DEF IInv, Typed, AInv, Window
<1>2. now' \in Nat /\ now' <= MaxNow /\ call.start <= now'
  BY <1>1
<1>3. since' \in Nat /\ (QueryRuns => call.start <= since')
  BY <1>1 DEF AInv, Window, Never
<1>4. QueryRuns' <=> QueryRuns
  BY DEF QueryRuns
<1>5. QueryRuns /\ powerNote' # <<>> => Within(powerNote)'
  BY DEF AInv, Window, Within
<1>6. task' = "wire" => tx'.sentAt \in Nat /\ call.start <= tx'.sentAt
  BY <1>1 DEF AInv, Window
<1>7. Window'
  BY <1>2, <1>3, <1>4, <1>5, <1>6 DEF AInv, Window
<1>8. Answers' /\ AnswerIsFresh'
  BY DEF AInv, Answers, AnswerIsFresh, Within
<1> QED BY <1>7, <1>8 DEF AInv

LEMMA AnswerTask ==
  ASSUME IInv, WInv, AInv, Task \/ Tick \/ \E m \in Messages : Arrive(m) PROVE AInv'
<1> USE DEF taskVars, clientVars, noteVars
<1>1. rx \in Seq([message : Messages, at : Nat]) /\ now \in Nat
  BY DEF AInv, Window, IInv, Typed
<1>2. task \in {"bus", "wire"} => "sentAt" \in DOMAIN tx
  BY DEF AInv, Window
<1>3. CASE Dispatch
  <2>1. /\ task = "recv" /\ rx # <<>> /\ rx' = Tail(rx) /\ task' \in {"reply", "service"}
        /\ UNCHANGED <<now, client, call, since, until, returned>>
    BY <1>3 DEF Dispatch
  <2>2. \/ powerNote' = powerNote
        \/ /\ waiter /\ InWindow(Head(rx).at)
           /\ powerNote' = <<[value |-> Head(rx).message.value, at |-> Head(rx).at]>>
    BY <1>3, Zenon DEF Dispatch
  <2>3. Head(rx).at \in Nat /\ rx' \in Seq([message : Messages, at : Nat])
    <3> DEFINE entries == [message : Messages, at : Nat]
    <3>1. Head(rx) \in entries => Head(rx).at \in Nat
      OBVIOUS
    <3>2. rx \in Seq(entries) /\ rx # <<>> /\ rx' = Tail(rx)
      BY <1>1, <2>1
    <3> HIDE DEF entries
    <3>3. Head(rx) \in entries /\ rx' \in Seq(entries)
      BY <3>2
    <3> QED BY <3>1, <3>3 DEF entries
  <2>4. powerNote' # powerNote => (QueryRuns => Within(powerNote'))
    BY <2>2, <2>3 DEF Within, InWindow, AInv, Window
  <2> QED BY <2>1, <2>3, <2>4, WindowStays
<1>4. CASE \E m \in Messages : Arrive(m)
  <2>1. PICK m \in Messages : Arrive(m)
    BY <1>4
  <2>2. rx' \in Seq([message : Messages, at : Nat])
    <3> DEFINE entries == [message : Messages, at : Nat]
    <3>1. [message |-> m, at |-> now] \in entries
      BY <1>1
    <3>2. rx \in Seq(entries) /\ rx' \in {rx, Append(rx, [message |-> m, at |-> now])}
      BY <1>1, <2>1 DEF Arrive
    <3> HIDE DEF entries
    <3>3. rx' \in Seq(entries)
      BY <3>1, <3>2
    <3> QED BY <3>3 DEF entries
  <2>3. UNCHANGED <<now, client, call, since, until, powerNote, returned, task, tx>>
    BY <2>1, Zenon DEF Arrive
  <2> QED BY <1>2, <2>2, <2>3, WindowStays
<1>5. CASE FrameStart
  <2>1. /\ task = "bus" /\ tx' = [tx EXCEPT !.sentAt = now]
        /\ UNCHANGED <<now, client, call, since, until, powerNote, returned, rx>>
    BY <1>5, Zenon DEF FrameStart
  <2>2. "sentAt" \in DOMAIN tx' /\ tx'.sentAt = now
    BY <1>2, <2>1
  <2> QED BY <1>1, <2>1, <2>2, WindowStays
<1>6. CASE Accept
  <2>1. /\ task' = "bus" /\ since' \in {since, Never}
        /\ UNCHANGED <<now, client, call, until, powerNote, returned, rx>>
    BY <1>6, Zenon DEF Accept
  <2>2. "sentAt" \in DOMAIN tx'
    BY <1>6 DEF Accept
  <2> QED BY <1>1, <2>1, <2>2, WindowStays
<1>7. CASE Tick
  <2>1. /\ now < MaxNow /\ now' = now + 1
        /\ UNCHANGED <<client, call, since, until, powerNote, returned, rx, task, tx>>
    BY <1>7, Zenon DEF Tick
  <2> QED BY <1>1, <1>2, <2>1, WindowStays
<1>8. CASE ReplySent \/ RecvWoken \/ Reject \/ AllocateBegin \/ AllocateEnd \/ NothingToServe
           \/ TooLate
  <2>1. /\ task' \notin {"bus", "wire"} /\ since' \in {since, Never}
        /\ UNCHANGED <<now, client, call, until, powerNote, returned, rx>>
    BY <1>8 DEF ReplySent, RecvWoken, Reject, AllocateBegin, AllocateEnd, NothingToServe, TooLate
  <2> QED BY <1>1, <2>1, WindowStays
<1>9. ASSUME NEW result, Complete(result), task = "wire" \/ result = "timeout" PROVE AInv'
  <2>1. /\ task' = "recv" /\ (since' = since \/ (task = "wire" /\ since' = tx.sentAt))
        /\ UNCHANGED <<now, client, call, until, powerNote, returned, rx>>
    BY <1>9 DEF Complete
  <2> QED BY <1>1, <2>1, WindowStays
<1> QED BY <1>3, <1>4, <1>5, <1>6, <1>7, <1>8, <1>9 DEF Task, BusNeverIdle, FrameEnd

LEMMA AnswerBeginning ==
  ASSUME IInv, AInv, ClientCalls PROVE AInv'
<1>1. /\ client = "idle" /\ UNCHANGED <<now, task, tx, rx>> /\ now \in Nat
  BY Zenon DEF ClientCalls, QueryUnavailable, QueryBegin, SendBegin, MayCall, taskVars, IInv, Typed
<1>2. CASE QueryUnavailable
  <2>1. UNCHANGED <<client, call, since, until, powerNote>> /\ returned'.answer = <<>>
    BY <1>2 DEF QueryUnavailable, noteVars, NoReturn
  <2>2. Window' /\ Answers'
    BY <1>1, <2>1 DEF AInv, Window, Answers, Within, QueryRuns
  <2> QED BY <2>1, <2>2 DEF AInv, AnswerIsFresh
<1>3. CASE QueryBegin
  <2>1. /\ client' = "begin" /\ powerNote' = <<>> /\ since' = now /\ until' = now + QueryTimeout
        /\ UNCHANGED returned
    BY <1>3, Zenon DEF QueryBegin, Stamp
  <2>2. /\ call'.kind = "query" /\ call'.start = now /\ call'.limit = now + QueryTimeout
        /\ call'.answer = <<>>
    BY <1>3 DEF QueryBegin, NoCall
  <2>3. ~(task \in {"bus", "wire"})
    BY <1>1 DEF IInv, Serving
  <2>4. Window'
    BY <1>1, <2>1, <2>2, <2>3, TxAssumption DEF AInv, Window
  <2> QED BY <2>1, <2>2, <2>4 DEF AInv, Answers, AnswerIsFresh
<1>4. CASE SendBegin
  <2>1. client' = "begin" /\ UNCHANGED <<powerNote, since, until, returned>>
    BY <1>4, Zenon DEF SendBegin, noteVars
  <2>2. call'.kind = "send" /\ call'.start = now /\ call'.answer = <<>>
    BY <1>4 DEF SendBegin, NoCall
  <2>3. ~(task \in {"bus", "wire"})
    BY <1>1 DEF IInv, Serving
  <2>4. Window'
    BY <1>1, <2>1, <2>2, <2>3 DEF AInv, Window, QueryRuns
  <2> QED BY <2>1, <2>2, <2>4 DEF AInv, Answers, AnswerIsFresh
<1> QED BY <1>2, <1>3, <1>4 DEF ClientCalls

(* Steps of a call that keep its kind, its times and its answer. *)
LEMMA AnswerKept ==
  ASSUME AInv, client \in {"begin", "post", "wait", "grace", "report"},
         client' # "idle", client' \in {"report", "clear"} => call.kind = "query",
         client' = "report" => call'.tx = "ack",
         call'.kind = call.kind, call'.start = call.start, call'.limit = call.limit,
         call'.answer = call.answer,
         UNCHANGED <<now, task, tx, rx, since, until, powerNote, returned>>
  PROVE  AInv'
<1>1. call.answer = <<>> /\ call.kind \in {"send", "query"}
  BY DEF AInv, Answers
<1>2. QueryRuns' <=> QueryRuns
  BY DEF AInv, Answers, QueryRuns
<1>3. Window'
  BY <1>2 DEF AInv, Window, Within
<1>4. Answers'
  BY <1>1 DEF AInv, Answers
<1> QED BY <1>3, <1>4 DEF AInv, AnswerIsFresh

LEMMA AnswerReturning ==
  ASSUME IInv, AInv, NEW result, NEW heard, SendReturns(result, heard),
         client \in {"post", "wait", "grace"},
         UNCHANGED <<now, task, tx, rx, since, until, powerNote>>,
         task \notin {"bus", "wire"}
  PROVE  AInv'
<1>1. call.kind \in {"send", "query"}
  BY DEF AInv, Answers
<1>2. CASE call.kind = "send"
  <2>1. client' = "idle" /\ call' = NoCall /\ returned'.answer = <<>>
    BY <1>2 DEF SendReturns, NoReturn
  <2>2. call'.start = 0 /\ call'.answer = <<>>
    BY <2>1 DEF NoCall
  <2>3. Window'
    BY <2>1, <2>2 DEF AInv, Window, QueryRuns, IInv, Typed
  <2> QED BY <2>1, <2>2, <2>3 DEF AInv, Answers, AnswerIsFresh
<1>3. CASE call.kind = "query"
  <2>1. /\ client' = IF result = "ack" /\ now < call.limit THEN "report" ELSE "clear"
        /\ call' = [call EXCEPT !.tx = result, !.heard = heard] /\ UNCHANGED returned
    BY <1>3 DEF SendReturns
  <2>2. /\ call'.kind = call.kind /\ call'.start = call.start /\ call'.limit = call.limit
        /\ call'.answer = call.answer /\ call'.tx = result
    BY <2>1 DEF IInv, Typed, Fields
  <2> QED BY <1>3, <2>1, <2>2, AnswerKept
<1> QED BY <1>1, <1>2, <1>3

LEMMA AnswerClient ==
  ASSUME IInv, AInv, Client PROVE AInv'
<1>1. CASE SendPrepare \/ Expired
  <2>1. /\ client \in {"begin", "wait"} /\ client' \in {"post", "grace"}
        /\ UNCHANGED <<now, task, tx, rx, since, until, powerNote, returned>>
    BY <1>1 DEF SendPrepare, Expired, noteVars, taskVars
  <2>2. /\ call'.kind = call.kind /\ call'.start = call.start /\ call'.limit = call.limit
        /\ call'.answer = call.answer
    BY <1>1 DEF SendPrepare, Expired, IInv, Typed, Fields
  <2> QED BY <2>1, <2>2, AnswerKept
<1>2. CASE Post \/ Heard \/ GiveUp
  <2>1. /\ client \in {"post", "wait", "grace"}
        /\ UNCHANGED <<now, task, tx, rx, since, until, powerNote>>
    BY <1>2, Zenon DEF Post, Heard, GiveUp, noteVars, taskVars
  <2>2. ASSUME NEW r, NEW h, SendReturns(r, h) PROVE AInv'
    <3>1. CASE task \notin {"bus", "wire"}
      BY <2>1, <2>2, <3>1, AnswerReturning
    <3>2. CASE task \in {"bus", "wire"}
      <4>1. ~Post
        BY <3>2, Zenon DEF IInv, Serving, Post
      <4>2. ~GiveUp
        <5>1. ~(client = "grace" /\ GraceOver)
          BY <3>2, TxAssumption DEF GraceOver, IInv, Typed, Serving, FrameLimit
        <5> QED BY <5>1, Zenon DEF GiveUp
      <4>3. UNCHANGED <<client, call, returned>>
        BY <1>2, <3>2, <4>1, <4>2 DEF Heard, IsOwnNote, IInv, Serving
      <4> QED BY <2>1, <4>3 DEF AInv, Window, Answers, AnswerIsFresh, Within, QueryRuns
    <3> QED BY <3>1, <3>2
  <2>3. ASSUME UNCHANGED <<call, returned>>, client' \in {client, "wait"} PROVE AInv'
    BY <2>1, <2>3, AnswerKept DEF AInv, Answers
  <2>4. \/ UNCHANGED <<call, returned>> /\ client' \in {client, "wait"}
        \/ \E r, h : SendReturns(r, h)
    BY <1>2, Zenon DEF Post, Heard, GiveUp
  <2> QED BY <2>2, <2>3, <2>4
<1>3. CASE Answered
  <2>1. /\ client = "report" /\ client' = "clear" /\ powerNote # <<>> /\ powerNote' = <<>>
        /\ call' = [call EXCEPT !.answer = powerNote]
        /\ UNCHANGED <<now, task, tx, rx, since, until, returned>>
    BY <1>3, Zenon DEF Answered, taskVars
  <2>2. /\ call'.kind = call.kind /\ call'.start = call.start /\ call'.limit = call.limit
        /\ call'.tx = call.tx /\ call'.answer = powerNote
    BY <2>1 DEF IInv, Typed, Fields
  <2>3. call.kind = "query" /\ call.tx = "ack"
    BY <2>1 DEF AInv, Answers
  <2>4. Within(powerNote)
    BY <2>1, <2>3 DEF AInv, Window, QueryRuns
  <2>5. Window'
    BY <2>1, <2>2, <2>3 DEF AInv, Window, QueryRuns
  <2>6. Answers'
    BY <2>1, <2>2, <2>3, <2>4 DEF Answers, Within
  <2> QED BY <2>1, <2>5, <2>6 DEF AInv, AnswerIsFresh
<1>4. CASE Unanswered
  <2>1. /\ client = "report" /\ client' = "clear" /\ UNCHANGED call
        /\ UNCHANGED <<now, task, tx, rx, since, until, powerNote, returned>>
    BY <1>4, Zenon DEF Unanswered, noteVars, taskVars
  <2> QED BY <2>1, AnswerKept DEF AInv, Answers
<1>5. CASE QueryReturns
  <2>1. /\ client = "clear" /\ client' = "idle" /\ call' = NoCall
        /\ UNCHANGED <<now, task, tx, rx, since, until, powerNote>>
    BY <1>5, Zenon DEF QueryReturns, taskVars
  <2>2. /\ returned'.answer = call.answer /\ returned'.result = call.tx
        /\ returned'.start = call.start /\ returned'.limit = call.limit
    BY <1>5 DEF QueryReturns
  <2>3. task \notin {"bus", "wire"}
    BY <2>1 DEF IInv, Serving
  <2>4. call'.start = 0 /\ call'.answer = <<>>
    BY <2>1 DEF NoCall
  <2>5. Window' /\ Answers'
    BY <2>1, <2>3, <2>4 DEF AInv, Window, Answers, QueryRuns, IInv, Typed
  <2>6. AnswerIsFresh'
    BY <2>2 DEF AInv, Answers, Within, AnswerIsFresh
  <2> QED BY <2>5, <2>6 DEF AInv
<1> QED BY <1>1, <1>2, <1>3, <1>4, <1>5 DEF Client

LEMMA AnswerStep == IInv /\ WInv /\ AInv /\ [Next]_vars => AInv'
<1> SUFFICES ASSUME IInv, WInv, AInv, [Next]_vars PROVE AInv'
  OBVIOUS
<1>1. CASE UNCHANGED vars
  BY <1>1 DEF vars, clientVars, noteVars, taskVars, AInv, Window, Answers, AnswerIsFresh,
     Within, QueryRuns
<1> QED BY <1>1, AnswerBeginning, AnswerClient, AnswerTask DEF Next

(* A query is answered only by a message that arrived while it ran, and only *)
(* if its frame was acknowledged: no late answer of an earlier query counts. *)
THEOREM AnswersAreFresh == Spec => []AnswerIsFresh
<1>1. Init => IInv /\ WInv /\ AInv
  BY Initially, WaiterInitially, NothingAnswered
<1>2. IInv /\ WInv /\ AInv /\ [Next]_vars => IInv' /\ WInv' /\ AInv'
  BY Step, WaiterStep, AnswerStep
<1>3. AInv => AnswerIsFresh
  BY DEF AInv
<1> QED BY <1>1, <1>2, <1>3, PTL DEF Spec
================================================================================

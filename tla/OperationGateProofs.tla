-------------------------- MODULE OperationGateProofs --------------------------
(***************************************************************************)
(* Theorems about OperationGate, for every set of ids, addresses and       *)
(* outcomes and every size of the ring and of the output queue.            *)
(***************************************************************************)
EXTENDS OperationGate, TLAPS

(* The ring index stays in the ring, and wraps only at its end. *)
LEMMA NextSlotRange ==
  ASSUME NEW i \in Slots
  PROVE  /\ NextSlot(i) \in Slots
         /\ NextSlot(i) = IF i + 1 = ResultCount THEN 0 ELSE i + 1
<1>1. ResultCount \in Nat \ {0} BY GateAssumption
<1>2. CASE i + 1 = ResultCount
  BY <1>1, <1>2 DEF NextSlot, Slots
<1>3. CASE i + 1 # ResultCount
  BY <1>1, <1>3 DEF NextSlot, Slots
<1> QED BY <1>2, <1>3

(* Every variable keeps its type, whatever the scheduler does.             *)
LEMMA TypeStep == TypeOK /\ [Next]_vars => TypeOK'
<1> SUFFICES ASSUME TypeOK, [Next]_vars PROVE TypeOK'
  OBVIOUS
<1> USE DEF TypeOK
<1>a. 0 \in Slots /\ ResultCount \in Nat /\ OutputCount \in Nat
  BY GateAssumption DEF Slots
<1>b. Line \subseteq Request
  BY DEF Line
<1>c. LogItem \in OutputItem /\ NoReply \in [kind : ReplyKinds,
        request : Request \cup {NoRequest}, entry : Entry \cup {NoEntry}]
  BY DEF LogItem, OutputItem, NoReply, Answer, ReplyKinds
<1>d. ASSUME NEW k \in ReplyKinds, NEW r \in Request \cup {NoRequest},
             NEW e \in Entry \cup {NoEntry}, Reply(k, r, e)
      PROVE  reply' \in [kind : ReplyKinds, request : Request \cup {NoRequest},
                         entry : Entry \cup {NoEntry}]
  BY <1>d DEF Reply, Answer
<1>1. ASSUME NEW r \in Line, RefuseArgument(r) PROVE TypeOK'
  BY <1>1, <1>b, <1>d DEF RefuseArgument, workerVars, ReplyKinds
<1>2. ASSUME NEW r \in Line, ScanHit(r) PROVE TypeOK'
  BY <1>2, <1>b, <1>d DEF ScanHit, workerVars, ReplyKinds
<1>3. ASSUME NEW r \in Line, ScanMiss(r) PROVE TypeOK'
  BY <1>3, <1>b, <1>c DEF ScanMiss, workerVars
<1>4. CASE Refuse
  <2>1. Refusal \in ReplyKinds BY DEF Refusal, ReplyKinds
  <2> QED BY <1>4, <2>1, <1>d DEF Refuse, workerVars
<1>5. CASE Claim
  BY <1>5 DEF Claim, ParserAt, workerVars
<1>6. CASE Enqueue
  <2>1. CASE opQueue = <<>>
    <3>1. request \in Request BY <1>6 DEF Enqueue, ParserAt
    <3>2. <<request>> \in Seq(Request) /\ Len(<<request>>) = 1 BY <3>1
    <3>3. opQueue' = <<request>> /\ accepted' = Append(accepted, request)
      BY <1>6, <2>1 DEF Enqueue
    <3>4. accepted' \in Seq(Request) BY <3>1, <3>3
    <3>5. opQueue' \in Seq(Request) /\ Len(opQueue') <= 1 BY <3>2, <3>3
    <3> QED BY <1>6, <2>1, <3>4, <3>5 DEF Enqueue, workerVars
  <2>2. CASE opQueue # <<>>
    BY <1>6, <2>2, <1>d DEF Enqueue, workerVars, ReplyKinds
  <2> QED BY <2>1, <2>2
<1>7. CASE RawRefused \/ RawBegin \/ RawEnd
  BY <1>7, <1>c, <1>d DEF RawRefused, RawBegin, RawEnd, workerVars, ReplyKinds
<1>8. CASE Drain
  BY <1>8, <1>a DEF Drain, parserVars, workerVars
<1>9. CASE Receive
  <2>1. Head(opQueue) \in Request BY <1>9 DEF Receive
  <2>2. Tail(opQueue) \in Seq(Request) /\ Len(Tail(opQueue)) <= 1
    BY <1>9 DEF Receive
  <2> QED BY <1>9, <2>1, <2>2 DEF Receive, parserVars
<1>10. ASSUME NEW o \in Outcomes, Retain(o) PROVE TypeOK'
  <2>1. [request |-> working, outcome |-> o] \in Entry BY <1>10 DEF Retain, Entry
  <2>2. NextSlot(retainedNext) \in Slots BY NextSlotRange
  <2> QED BY <1>10, <2>1, <2>2 DEF Retain, parserVars
<1>11. CASE PrintLine
  BY <1>11, <1>a DEF PrintLine, Room, ResultItem, OutputItem, parserVars
<1>12. CASE PrintTimeout \/ Release
  BY <1>12 DEF PrintTimeout, Release, parserVars
<1>13. CASE Log \/ LineState
  <2>1. CASE outQueue' = outQueue
    BY <1>13, <2>1 DEF Log, LineState, parserVars, workerVars
  <2>2. CASE outQueue' = Append(outQueue, LogItem) /\ Len(outQueue) < OutputCount
    <3>1. outQueue' \in Seq(OutputItem) /\ Len(outQueue') <= OutputCount
      BY <2>2, <1>a, <1>c
    <3> QED BY <1>13, <3>1 DEF Log, LineState, parserVars, workerVars
  <2> QED BY <1>13, <2>1, <2>2, <1>a DEF Log, LineState, Room
<1>14. CASE Restart
  <2>1. /\ parser' = "idle" /\ worker' = "waiting" /\ boot' \in Nat
        /\ retained' \in [Slots -> Entry \cup {NoEntry}] /\ retainedNext' \in Slots
    BY <1>14, <1>a DEF Restart
  <2>2. /\ opQueue' = <<>> /\ outQueue' = <<>>
        /\ accepted' = <<>> /\ completed' = <<>>
    BY <1>14 DEF Restart
  <2>3. /\ opQueue' \in Seq(Request) /\ Len(opQueue') <= 1
        /\ outQueue' \in Seq(OutputItem) /\ Len(outQueue') <= OutputCount
        /\ accepted' \in Seq(Request) /\ completed' \in Seq(Entry)
    BY <2>2, <1>a
  <2> QED BY <1>14, <1>c, <2>1, <2>3 DEF Restart
<1>15. CASE UNCHANGED vars
  BY <1>15 DEF vars, parserVars, workerVars
<1> QED
  BY <1>1, <1>2, <1>3, <1>4, <1>5, <1>6, <1>7, <1>8, <1>9, <1>10, <1>11, <1>12,
     <1>13, <1>14, <1>15 DEF Next, ParserLine, ParserProgress, Worker

(* The gate is well typed in every state; in particular the operation queue *)
(* holds at most one request and the ring index never leaves the ring.      *)
THEOREM TypeCorrect == Spec => []TypeOK
<1>1. Init => TypeOK
  BY GateAssumption DEF Init, TypeOK, NoReply, Answer, ReplyKinds, Slots
<1>2. TypeOK /\ [Next]_vars => TypeOK'
  BY TypeStep
<1> QED BY <1>1, <1>2, PTL DEF Spec

(* What every reader of operation_busy relies on: the flag covers the        *)
(* operation, and a raw command begun under a clear flag stays alone.        *)
GateInv == OneOwner /\ RawExcludesOperation

(* No step of either task breaks the flag's promise. *)
LEMMA GateStep == TypeOK /\ GateInv /\ [Next]_vars => GateInv'
<1> SUFFICES ASSUME TypeOK, GateInv, [Next]_vars PROVE GateInv'
  OBVIOUS
<1> USE DEF GateInv, OneOwner, RawExcludesOperation
<1>1. ASSUME NEW r \in Line, RefuseArgument(r) \/ ScanHit(r) \/ ScanMiss(r)
      PROVE  GateInv'
  BY <1>1 DEF RefuseArgument, ScanHit, ScanMiss, ReadLine, ParserAt, workerVars
<1>2. CASE Refuse
  BY <1>2 DEF Refuse, ParserAt, workerVars
<1>3. CASE Claim
  BY <1>3 DEF Claim, Refusal, ParserAt, workerVars
<1>4. CASE Enqueue
  BY <1>4 DEF Enqueue, ParserAt, workerVars
<1>5. CASE RawRefused \/ RawBegin \/ RawEnd \/ Drain
  BY <1>5 DEF RawRefused, RawBegin, RawAllowed, RawEnd, Drain, ParserAt, workerVars,
              parserVars
<1>6. CASE Receive
  <2>1. Tail(opQueue) = <<>> BY <1>6 DEF Receive, TypeOK
  <2> QED BY <1>6, <2>1 DEF Receive, parserVars
<1>7. ASSUME NEW o \in Outcomes, Retain(o) PROVE GateInv'
  BY <1>7 DEF Retain, parserVars
<1>8. CASE PrintLine \/ PrintTimeout \/ Release
  BY <1>8 DEF PrintLine, PrintTimeout, Release, parserVars
<1>9. CASE Log \/ LineState
  BY <1>9 DEF Log, LineState, parserVars, workerVars
<1>10. CASE Restart
  BY <1>10 DEF Restart
<1>11. CASE UNCHANGED vars
  BY <1>11 DEF vars, parserVars, workerVars
<1> QED
  BY <1>1, <1>2, <1>3, <1>4, <1>5, <1>6, <1>7, <1>8, <1>9, <1>10, <1>11
     DEF Next, ParserLine, ParserProgress, Worker

(* The flag covers every operation and every raw command, always.           *)
THEOREM GateSafe == Spec => []GateInv
<1>1. Init => GateInv
  BY DEF Init, GateInv, OneOwner, RawExcludesOperation
<1>2. TypeOK /\ GateInv /\ [Next]_vars => GateInv'
  BY GateStep
<1> QED BY <1>1, <1>2, TypeCorrect, PTL DEF Spec

(* An operation owns the controller alone, and the busy flag says so.       *)
THEOREM OwnerAlone == Spec => []OneOwner
<1>1. GateInv => OneOwner BY DEF GateInv
<1> QED BY <1>1, GateSafe, PTL

(* Raw send, set, save and reboot never run beside an operation.            *)
THEOREM RawAlone == Spec => []RawExcludesOperation
<1>1. GateInv => RawExcludesOperation BY DEF GateInv
<1> QED BY <1>1, GateSafe, PTL

(* The slot of the k-th latest result after a store is the slot of the       *)
(* (k - 1)-th before it, and the newest is where retained_next stood.        *)
LEMMA SlotsShift ==
  ASSUME retainedNext \in Slots, retainedNext' = NextSlot(retainedNext),
         NEW k \in 1 .. ResultCount
  PROVE  /\ SlotBehind(k) \in Slots
         /\ SlotBehind(k)' = IF k = 1 THEN retainedNext ELSE SlotBehind(k - 1)
         /\ SlotBehind(k) = retainedNext => k = ResultCount
<1>1. ResultCount \in Nat \ {0} BY GateAssumption
<1>2. retainedNext' = IF retainedNext + 1 = ResultCount THEN 0 ELSE retainedNext + 1
  BY NextSlotRange
<1> QED BY <1>1, <1>2 DEF SlotBehind, Slots

(* Only the worker's store and a restart move the ring.                      *)
LEMMA RingFrame ==
  ASSUME RingHoldsLatest, UNCHANGED <<retained, retainedNext, completed>>
  PROVE  RingHoldsLatest'
BY DEF RingHoldsLatest, SlotBehind

(* No step of either task loses a result that is among the latest.           *)
LEMMA RingStep == TypeOK /\ RingHoldsLatest /\ [Next]_vars => RingHoldsLatest'
<1> SUFFICES ASSUME TypeOK, RingHoldsLatest, [Next]_vars PROVE RingHoldsLatest'
  OBVIOUS
<1>1. ASSUME NEW r \in Line, RefuseArgument(r) \/ ScanHit(r) \/ ScanMiss(r)
      PROVE  RingHoldsLatest'
  BY <1>1, RingFrame DEF RefuseArgument, ScanHit, ScanMiss, workerVars
<1>2. CASE ParserProgress \/ RawRefused \/ RawBegin
  BY <1>2, RingFrame DEF ParserProgress, Refuse, Claim, Enqueue, RawEnd, Drain,
                         RawRefused, RawBegin, workerVars
<1>3. CASE Receive \/ PrintLine \/ PrintTimeout \/ Release
  BY <1>3, RingFrame DEF Receive, PrintLine, PrintTimeout, Release
<1>4. ASSUME NEW o \in Outcomes, Retain(o) PROVE RingHoldsLatest'
  <2> DEFINE e == [request |-> working, outcome |-> o]
  <2>1. /\ retainedNext \in Slots /\ completed \in Seq(Entry) /\ e \in Entry
        /\ retained \in [Slots -> Entry \cup {NoEntry}]
    BY <1>4 DEF TypeOK, Retain, Entry
  <2>2. /\ retained' = [retained EXCEPT ![retainedNext] = e]
        /\ completed' = Append(completed, e)
        /\ retainedNext' = NextSlot(retainedNext)
    BY <1>4 DEF Retain
  <2> HIDE DEF e
  <2>3. /\ Len(completed') = Len(completed) + 1
        /\ completed'[Len(completed')] = e
        /\ \A i \in 1 .. Len(completed) : completed'[i] = completed[i]
    BY <2>1, <2>2
  <2>4. ASSUME NEW k \in 1 .. ResultCount
        PROVE  retained'[SlotBehind(k)'] =
                 IF k <= Len(completed') THEN completed'[Len(completed') + 1 - k]
                                         ELSE NoEntry
    <3>1. ResultCount \in Nat /\ Len(completed) \in Nat
      BY <2>1, GateAssumption
    <3>2. CASE k = 1
      <4>1. SlotBehind(k)' = retainedNext BY <2>1, <2>2, <3>2, SlotsShift
      <4>2. retained'[retainedNext] = e BY <2>1, <2>2
      <4> QED BY <2>3, <3>1, <3>2, <4>1, <4>2
    <3>3. CASE k # 1
      <4>1. k - 1 \in 1 .. ResultCount /\ k - 1 # ResultCount BY <3>1, <3>3
      <4>2. SlotBehind(k)' = SlotBehind(k - 1) BY <2>1, <2>2, <3>3, SlotsShift
      <4>3. SlotBehind(k - 1) \in Slots /\ SlotBehind(k - 1) # retainedNext
        BY <2>1, <2>2, <4>1, SlotsShift
      <4>4. retained'[SlotBehind(k)'] = retained[SlotBehind(k - 1)]
        BY <2>1, <2>2, <4>2, <4>3
      <4>5. retained[SlotBehind(k - 1)] =
              IF k - 1 <= Len(completed) THEN completed[Len(completed) + 1 - (k - 1)]
                                         ELSE NoEntry
        BY <4>1 DEF RingHoldsLatest
      <4> QED BY <2>3, <3>1, <3>3, <4>4, <4>5
    <3> QED BY <3>2, <3>3
  <2> QED BY <2>4 DEF RingHoldsLatest
<1>5. CASE Log \/ LineState
  BY <1>5, RingFrame DEF Log, LineState, workerVars
<1>6. CASE Restart
  <2>1. /\ retained' = [i \in Slots |-> NoEntry] /\ retainedNext' = 0
        /\ completed' = <<>>
    BY <1>6 DEF Restart
  <2>2. ResultCount \in Nat \ {0} BY GateAssumption
  <2> QED BY <2>1, <2>2 DEF RingHoldsLatest, SlotBehind, Slots
<1>7. CASE UNCHANGED vars
  BY <1>7, RingFrame DEF vars, workerVars
<1> QED
  BY <1>1, <1>2, <1>3, <1>4, <1>5, <1>6, <1>7 DEF Next, ParserLine, Worker

(* The ring is the latest ResultCount results of the boot, whatever its size *)
(* and however often retained_next has wrapped.                              *)
THEOREM RingCorrect == Spec => []RingHoldsLatest
<1>1. Init => RingHoldsLatest
  BY GateAssumption DEF Init, RingHoldsLatest, SlotBehind, Slots
<1>2. TypeOK /\ RingHoldsLatest /\ [Next]_vars => RingHoldsLatest'
  BY RingStep
<1> QED BY <1>1, <1>2, TypeCorrect, PTL DEF Spec

(* What the worker takes from a queue of length one is all of it.            *)
LEMMA OnlyOne ==
  ASSUME NEW S, NEW q \in Seq(S), q # <<>>, Len(q) <= 1
  PROVE  q = <<Head(q)>> /\ Tail(q) = <<>>
<1>1. Len(q) \in Nat /\ Len(q) # 0 OBVIOUS
<1>2. Len(q) = 1 BY <1>1
<1>3. q[1] \in S /\ Head(q) = q[1] BY <1>2
<1>4. q = <<q[1]>>
  <2>1. <<q[1]>> \in Seq(S) /\ Len(<<q[1]>>) = 1 /\ <<q[1]>>[1] = q[1] BY <1>3
  <2>2. \A i \in 1 .. 1 : q[i] = <<q[1]>>[i] BY <2>1
  <2> QED BY <1>2, <2>1, <2>2
<1>5. Tail(q) \in Seq(S) /\ Len(Tail(q)) = 0 BY <1>2
<1>6. Tail(q) = <<>> BY <1>5
<1> QED BY <1>3, <1>4, <1>6

(* The requests of the results of a boot, oldest first.                      *)
Ran(results) == [i \in DOMAIN results |-> results[i].request]

(* Requests that ran are requests.                                           *)
LEMMA RanInRequests ==
  ASSUME NEW results \in Seq(Entry)
  PROVE  Ran(results) \in Seq(Request) /\ Len(Ran(results)) = Len(results)
<1>1. \A x \in Entry : x.request \in Request BY DEF Entry
<1>2. \A i \in 1 .. Len(results) : results[i] \in Entry OBVIOUS
<1>3. DOMAIN results = 1 .. Len(results) /\ Len(results) \in Nat OBVIOUS
<1> QED BY <1>1, <1>2, <1>3 DEF Ran

(* One more result is one more request that ran.                             *)
LEMMA RanAppend ==
  ASSUME NEW results \in Seq(Entry), NEW e \in Entry
  PROVE  Ran(Append(results, e)) = Append(Ran(results), e.request)
<1> DEFINE longer == Append(results, e)
<1>1. /\ longer \in Seq(Entry) /\ Len(longer) = Len(results) + 1
      /\ \A i \in 1 .. Len(results) : longer[i] = results[i]
      /\ longer[Len(results) + 1] = e
      /\ DOMAIN results = 1 .. Len(results)
      /\ DOMAIN longer = 1 .. Len(results) + 1 /\ Len(results) \in Nat
  OBVIOUS
<1>2. e.request \in Request /\ \A i \in 1 .. Len(results) : results[i].request \in Request
  <2>1. \A x \in Entry : x.request \in Request BY DEF Entry
  <2>2. \A i \in 1 .. Len(results) : results[i] \in Entry OBVIOUS
  <2> QED BY <2>1, <2>2
<1> HIDE DEF longer
<1>3. Ran(results) \in Seq(Request) /\ Len(Ran(results)) = Len(results)
  BY RanInRequests
<1>4. /\ Append(Ran(results), e.request) \in Seq(Request)
      /\ Len(Append(Ran(results), e.request)) = Len(results) + 1
      /\ \A i \in 1 .. Len(results) + 1 :
           Append(Ran(results), e.request)[i] =
             IF i <= Len(results) THEN results[i].request ELSE e.request
  BY <1>1, <1>2, <1>3 DEF Ran
<1>5. Ran(longer) \in Seq(Request) /\ Len(Ran(longer)) = Len(results) + 1
  BY <1>1, <1>2 DEF Ran
<1>6. \A i \in 1 .. Len(results) + 1 : Ran(longer)[i] = Append(Ran(results), e.request)[i]
  BY <1>1, <1>4 DEF Ran
<1>7. Ran(longer) = Append(Ran(results), e.request)
  BY <1>4, <1>5, <1>6
<1> QED BY <1>7 DEF longer

(* What makes the order inductive: the parser queues the request that it     *)
(* made current when it took the flag.                                       *)
OrderInv ==
  /\ RunsOnceInOrder
  /\ parser = "claimed" => busy /\ current = request

(* Steps that touch neither the operations nor the parser's claim.           *)
LEMMA OrderFrame ==
  ASSUME OrderInv,
         UNCHANGED <<accepted, completed, opQueue, working, current, request, busy>>,
         worker' = "running" <=> worker = "running",
         parser' = "claimed" => parser = "claimed"
  PROVE  OrderInv'
BY DEF OrderInv, RunsOnceInOrder, InFlight

(* No step of either task drops, repeats or reorders an operation.           *)
LEMMA OrderStep == TypeOK /\ GateInv /\ OrderInv /\ [Next]_vars => OrderInv'
<1> SUFFICES ASSUME TypeOK, GateInv, OrderInv, [Next]_vars PROVE OrderInv'
  OBVIOUS
<1>a. accepted = Ran(completed) \o InFlight
  BY DEF OrderInv, RunsOnceInOrder, Ran
<1>b. (accepted' = Ran(completed') \o InFlight'
        /\ (InFlight' # <<>> => busy' /\ InFlight' = <<current'>>)
        /\ (parser' = "claimed" => busy' /\ current' = request')) => OrderInv'
  BY DEF OrderInv, RunsOnceInOrder, Ran
<1>c. OneOwner BY DEF GateInv
<1>d. Ran(completed) \in Seq(Request)
  <2>1. completed \in Seq(Entry) BY DEF TypeOK
  <2> QED BY <2>1, RanInRequests
<1>1. ASSUME NEW r \in Line, RefuseArgument(r) \/ ScanHit(r)
      PROVE  OrderInv'
  BY <1>1, OrderFrame DEF RefuseArgument, ScanHit, workerVars
<1>2. ASSUME NEW r \in Line, ScanMiss(r) PROVE OrderInv'
  BY <1>2, <1>a, <1>b DEF ScanMiss, workerVars, InFlight, OrderInv, RunsOnceInOrder
<1>3. CASE Refuse \/ RawRefused \/ RawBegin \/ RawEnd
  BY <1>3, OrderFrame DEF Refuse, RawRefused, RawBegin, RawEnd, workerVars
<1>4. CASE Drain \/ Log \/ LineState
  BY <1>4, OrderFrame DEF Drain, Log, LineState, parserVars, workerVars
<1>5. CASE Claim
  <2>1. InFlight = <<>> /\ InFlight' = <<>>
    BY <1>5, <1>c DEF Claim, Refusal, OneOwner, InFlight, workerVars
  <2>2. accepted' = Ran(completed') \o InFlight'
    BY <1>5, <1>a, <2>1 DEF Claim, workerVars
  <2>3. busy' /\ current' = request' BY <1>5 DEF Claim
  <2> QED BY <1>b, <2>1, <2>2, <2>3
<1>6. CASE Enqueue
  <2>1. opQueue = <<>> /\ worker = "waiting" /\ parser' = "idle"
    BY <1>6, <1>c DEF Enqueue, ParserAt, OneOwner
  <2>2. /\ accepted' = Append(accepted, request) /\ opQueue' = <<request>>
        /\ current' = current /\ busy' = busy
        /\ completed' = completed /\ worker' = "waiting"
    BY <1>6, <2>1 DEF Enqueue, workerVars
  <2>3. InFlight = <<>> /\ InFlight' = <<request>>
    BY <2>1, <2>2 DEF InFlight
  <2>4. busy /\ current = request /\ request \in Request
    BY <1>6 DEF Enqueue, ParserAt, OrderInv, TypeOK
  <2>5. accepted = Ran(completed) BY <1>a, <1>d, <2>3
  <2>6. accepted' = Ran(completed') \o <<request>>
    BY <1>d, <2>2, <2>4, <2>5
  <2> QED BY <1>b, <2>1, <2>2, <2>3, <2>4, <2>6
<1>7. CASE Receive
  <2>1. opQueue \in Seq(Request) /\ opQueue # <<>> /\ Len(opQueue) <= 1
    BY <1>7 DEF Receive, TypeOK
  <2>2. opQueue = <<Head(opQueue)>> /\ Tail(opQueue) = <<>> BY <2>1, OnlyOne
  <2>3. InFlight = opQueue /\ InFlight' = opQueue
    <3>1. InFlight = opQueue BY <1>7 DEF Receive, InFlight
    <3>2. InFlight' = <<Head(opQueue)>> \o <<>>
      BY <1>7, <2>2 DEF Receive, InFlight
    <3>3. Head(opQueue) \in Request BY <2>1
    <3> QED BY <2>2, <3>1, <3>2, <3>3
  <2>4. /\ accepted' = accepted /\ completed' = completed /\ busy' = busy
        /\ UNCHANGED <<current, request, parser>>
    BY <1>7 DEF Receive, parserVars
  <2> QED BY <1>a, <1>b, <2>3, <2>4 DEF OrderInv, RunsOnceInOrder
<1>8. ASSUME NEW o \in Outcomes, Retain(o) PROVE OrderInv'
  <2> DEFINE e == [request |-> working, outcome |-> o]
  <2>1. e \in Entry /\ completed \in Seq(Entry) /\ working \in Request
    BY <1>8 DEF Retain, TypeOK, Entry
  <2>2. /\ completed' = Append(completed, e) /\ accepted' = accepted
        /\ worker' = "print" /\ opQueue' = opQueue /\ busy' = busy
        /\ UNCHANGED <<current, request, parser>>
    BY <1>8 DEF Retain, parserVars
  <2>3. opQueue = <<>> BY <1>8, <1>c DEF Retain, OneOwner
  <2>4. InFlight = <<working>> /\ InFlight' = <<>>
    BY <1>8, <2>2, <2>3 DEF Retain, InFlight
  <2>5. Ran(completed') = Append(Ran(completed), working)
    BY <2>1, <2>2, RanAppend
  <2>6. accepted' = Ran(completed') \o <<>>
    <3>1. accepted = Append(Ran(completed), working) BY <1>a, <1>d, <2>1, <2>4
    <3>2. Append(Ran(completed), working) \in Seq(Request) BY <1>d, <2>1
    <3> QED BY <2>2, <2>5, <3>1, <3>2
  <2> QED BY <1>b, <2>2, <2>4, <2>6 DEF OrderInv
<1>9. CASE PrintLine \/ PrintTimeout
  BY <1>9, OrderFrame DEF PrintLine, PrintTimeout, parserVars
<1>10. CASE Release
  <2>1. InFlight = <<>> /\ InFlight' = <<>> /\ parser # "claimed"
    BY <1>10, <1>c DEF Release, OneOwner, InFlight
  <2> QED BY <1>10, <1>a, <1>b, <2>1 DEF Release, parserVars
<1>11. CASE Restart
  <2>1. /\ accepted' = <<>> /\ completed' = <<>> /\ opQueue' = <<>>
        /\ worker' = "waiting" /\ parser' = "idle"
    BY <1>11 DEF Restart
  <2>2. InFlight' = <<>> /\ Ran(completed') = <<>>
    BY <2>1 DEF InFlight, Ran
  <2> QED BY <1>b, <2>1, <2>2
<1>12. CASE UNCHANGED vars
  BY <1>12, OrderFrame DEF vars, parserVars, workerVars
<1> QED
  BY <1>1, <1>2, <1>3, <1>4, <1>5, <1>6, <1>7, <1>8, <1>9, <1>10, <1>11, <1>12
     DEF Next, ParserLine, ParserProgress, Worker

(* The order, with the claim that makes it inductive, holds always.          *)
THEOREM OrderAlways == Spec => []OrderInv
<1>1. Init => OrderInv
  BY DEF Init, OrderInv, RunsOnceInOrder, InFlight
<1>2. TypeOK /\ GateInv /\ OrderInv /\ [Next]_vars => OrderInv'
  BY OrderStep
<1> QED BY <1>1, <1>2, TypeCorrect, GateSafe, PTL DEF Spec

(* Every accepted operation runs once, in the order of acceptance.           *)
THEOREM OperationsInOrder == Spec => []RunsOnceInOrder
<1>1. OrderInv => RunsOnceInOrder BY DEF OrderInv
<1> QED BY <1>1, OrderAlways, PTL

(* A slot that holds an id of the host's holds one of the latest results.    *)
LEMMA HeldIsLatest ==
  ASSUME TypeOK, RingHoldsLatest, NEW id \in Ids, NEW i \in Holding(id)
  PROVE  retained[i] \in Service!Latest
<1>1. ResultCount \in Nat \ {0} /\ retainedNext \in Slots /\ i \in Slots
  BY GateAssumption DEF TypeOK, Holding
<1>2. PICK k \in 1 .. ResultCount : SlotBehind(k) = i
  <2>1. CASE i < retainedNext
    <3>1. retainedNext - i \in 1 .. ResultCount /\ SlotBehind(retainedNext - i) = i
      BY <1>1, <2>1 DEF SlotBehind, Slots
    <3> QED BY <3>1
  <2>2. CASE ~(i < retainedNext)
    <3>1. /\ retainedNext + ResultCount - i \in 1 .. ResultCount
          /\ SlotBehind(retainedNext + ResultCount - i) = i
      BY <1>1, <2>2 DEF SlotBehind, Slots
    <3> QED BY <3>1
  <2> QED BY <2>1, <2>2
<1>3. retained[i] # NoEntry
  <2>1. retained[i].request.id = id /\ id # 0 BY GateAssumption DEF Holding
  <2>2. NoEntry.request.id = 0 BY DEF NoEntry, NoRequest
  <2> QED BY <2>1, <2>2
<1>4. /\ k <= Len(completed)
      /\ retained[i] = completed[Len(completed) + 1 - k]
  BY <1>2, <1>3 DEF RingHoldsLatest
<1>5. /\ completed \in Seq(Entry) /\ Len(completed) \in Nat
      /\ DOMAIN completed = 1 .. Len(completed)
  BY DEF TypeOK
<1>6. /\ Len(completed) + 1 - k \in DOMAIN completed
      /\ (Len(completed) + 1 - k) + ResultCount > Len(completed)
  BY <1>1, <1>2, <1>4, <1>5
<1> QED BY <1>4, <1>6 DEF Service!Latest

(* Steps that leave the service as it is. *)
LEMMA ServiceFrame ==
  ASSUME InFlight' = InFlight, UNCHANGED <<completed, reply>>
  PROVE  UNCHANGED Service!svars
BY DEF Service!svars

(* Steps of the parser that answer, and answer nothing from memory. *)
LEMMA ServiceReply ==
  ASSUME InFlight' = InFlight, completed' = completed, reply'.kind # "retained"
  PROVE  Service!SNext
BY DEF Service!SNext, Service!OtherReply

(* Every step of the gate is a step of the service, or none.                 *)
LEMMA ServiceStep ==
  TypeOK /\ GateInv /\ OrderInv /\ RingHoldsLatest /\ [Next]_vars
    => [Service!SNext]_(Service!svars)
<1> SUFFICES ASSUME TypeOK, GateInv, OrderInv, RingHoldsLatest, [Next]_vars
             PROVE  Service!SNext \/ UNCHANGED Service!svars
  OBVIOUS
<1>a. NoRequest \notin Request
  <2>1. \A r \in Request : r.id \in Ids BY DEF Request
  <2>2. NoRequest.id = 0 BY DEF NoRequest
  <2> QED BY <2>1, <2>2, GateAssumption
<1>1. ASSUME NEW r \in Line, RefuseArgument(r) \/ ScanMiss(r)
      PROVE  Service!SNext
  BY <1>1, ServiceReply
     DEF RefuseArgument, ScanMiss, Reply, Answer, NoReply, workerVars, InFlight
<1>2. ASSUME NEW r \in Line, ScanHit(r) PROVE Service!SNext
  <2>1. InFlight' = InFlight /\ completed' = completed
    BY <1>2 DEF ScanHit, workerVars, InFlight
  <2>2. PICK i \in Slots :
          /\ First(i, r.id)
          /\ IF SameRequest(r, retained[i].request)
               THEN Reply("retained", r, retained[i])
               ELSE Reply("id_conflict", r, NoEntry)
    BY <1>2 DEF ScanHit
  <2>3. CASE ~SameRequest(r, retained[i].request)
    BY <2>1, <2>2, <2>3, ServiceReply DEF Reply, Answer
  <2>4. CASE SameRequest(r, retained[i].request)
    <3>1. r \in Request /\ r.id \in Ids BY DEF Line, Request
    <3>2. retained[i] \in Service!Latest
      BY <2>2, <3>1, HeldIsLatest DEF First
    <3>3. Service!AnswersTo(r, retained[i])
      BY <2>2, <2>4 DEF Service!AnswersTo, SameRequest, First, Holding
    <3>4. reply'.kind = "retained" /\ reply'.request = r /\ reply'.entry = retained[i]
      BY <2>2, <2>4 DEF Reply, Answer
    <3>5. Service!Recall(r, retained[i])
      BY <2>1, <3>2, <3>3, <3>4 DEF Service!Recall
    <3> QED BY <3>1, <3>2, <3>5 DEF Service!SNext
  <2> QED BY <2>3, <2>4
<1>3. CASE Refuse
  <2>1. reply'.kind # "retained" BY <1>3 DEF Refuse, Refusal, Reply, Answer
  <2> QED BY <1>3, <2>1, ServiceReply DEF Refuse, workerVars, InFlight
<1>4. CASE RawRefused \/ RawBegin \/ RawEnd
  <2>1. reply'.kind # "retained"
    BY <1>4 DEF RawRefused, RawBegin, RawEnd, Reply, Answer, NoReply
  <2> QED BY <1>4, <2>1, ServiceReply
          DEF RawRefused, RawBegin, RawEnd, workerVars, InFlight
<1>5. CASE Claim \/ Drain \/ Log \/ LineState
  BY <1>5, ServiceFrame
     DEF Claim, Drain, Log, LineState, parserVars, workerVars, InFlight
<1>6. CASE Enqueue
  <2>1. opQueue = <<>> /\ worker = "waiting"
    BY <1>6 DEF Enqueue, ParserAt, GateInv, OneOwner
  <2>2. opQueue' = <<request>> /\ UNCHANGED <<completed, reply, worker>>
    BY <1>6, <2>1 DEF Enqueue, workerVars
  <2>3. InFlight = <<>> /\ InFlight' = <<request>> BY <2>1, <2>2 DEF InFlight
  <2>4. request \in Request BY <1>6 DEF Enqueue, ParserAt, TypeOK
  <2>5. <<request>> # <<>> /\ Head(<<request>>) = request BY <2>4
  <2>6. Service!Accept(request)
    BY <2>2, <2>3, <2>5 DEF Service!Accept
  <2> QED BY <2>4, <2>6 DEF Service!SNext
<1>7. CASE Receive
  <2>1. InFlight' = InFlight
    <3>1. opQueue \in Seq(Request) /\ opQueue # <<>> /\ Len(opQueue) <= 1
      BY <1>7 DEF Receive, TypeOK
    <3>2. opQueue = <<Head(opQueue)>> /\ Tail(opQueue) = <<>> BY <3>1, OnlyOne
    <3>3. InFlight = opQueue BY <1>7 DEF Receive, InFlight
    <3>4. InFlight' = <<Head(opQueue)>> \o <<>>
      BY <1>7, <3>2 DEF Receive, InFlight
    <3>5. Head(opQueue) \in Request BY <3>1
    <3> QED BY <3>2, <3>3, <3>4, <3>5
  <2> QED BY <1>7, <2>1, ServiceFrame DEF Receive, parserVars
<1>8. ASSUME NEW o \in Outcomes, Retain(o) PROVE Service!SNext
  <2>1. working \in Request BY <1>8 DEF Retain, TypeOK
  <2>2. opQueue = <<>> BY <1>8 DEF Retain, GateInv, OneOwner
  <2>3. /\ worker' = "print" /\ UNCHANGED <<opQueue, reply>>
        /\ completed' = Append(completed, [request |-> working, outcome |-> o])
    BY <1>8 DEF Retain, parserVars
  <2>4. InFlight = <<working>> /\ InFlight' = <<>>
    BY <1>8, <2>1, <2>2, <2>3 DEF Retain, InFlight
  <2>5. <<working>> # <<>> /\ Head(<<working>>) = working /\ working # NoRequest
    BY <1>a, <2>1
  <2>6. Service!Finish(o)
    BY <2>3, <2>4, <2>5 DEF Service!Finish
  <2> QED BY <2>6 DEF Service!SNext
<1>9. CASE PrintLine \/ PrintTimeout \/ Release
  BY <1>9, ServiceFrame
     DEF PrintLine, PrintTimeout, Release, parserVars, InFlight
<1>10. CASE Restart
  <2>1. /\ InFlight' = <<>> /\ completed' = <<>> /\ reply'.kind # "retained"
    BY <1>10 DEF Restart, InFlight, NoReply, Answer
  <2> QED BY <2>1 DEF Service!SNext, Service!Reboot
<1>11. CASE UNCHANGED vars
  BY <1>11, ServiceFrame DEF vars, parserVars, workerVars, InFlight
<1> QED
  BY <1>1, <1>2, <1>3, <1>4, <1>5, <1>6, <1>7, <1>8, <1>9, <1>10, <1>11
     DEF Next, ParserLine, ParserProgress, Worker

(* The flag, the queue and the ring of usb-cdc.c implement the service of    *)
(* PowerService: one owner, each operation run once, and a lookup or a       *)
(* repeated id answered only by one of the latest results of that request.   *)
THEOREM GateImplementsService == Spec => ImplementsService
<1>1. Init => Service!SInit
  BY DEF Init, Service!SInit, InFlight, NoReply, Answer
<1>2. TypeOK /\ GateInv /\ OrderInv /\ RingHoldsLatest /\ [Next]_vars
        => [Service!SNext]_(Service!svars)
  BY ServiceStep
<1> QED
  BY <1>1, <1>2, TypeCorrect, GateSafe, OrderAlways, RingCorrect, PTL
     DEF Spec, ImplementsService, Service!SSpec
================================================================================

------------------------------- MODULE HostProofs -------------------------------
(***************************************************************************)
(* Theorems about the client: HostClient, for every set of invocations,    *)
(* and AddressCache, for every set of connectors and displays.             *)
(***************************************************************************)
EXTENDS HostClient, AddressCache, FiniteSetTheorems, TLAPS

--------------------------------------------------------------------------------
(* The transaction with the controller.                                      *)

(* What the variables hold, and that only the client with the lock is at the *)
(* device, with a command of protocol version 2 once it is past the probe.   *)
Kinds == Power \cup {"protocol", "result", "other"}
DeviceLine == [kind : {"protocol", "op", "lookup"}, from : Clients]
HostLine == [kind : Kinds, id : Clients, session : Nat, outcome : Outcomes \cup {"busy"}]
OwnRequests == {Req(c) : c \in Clients}
Stored == [request : OwnRequests, outcome : Outcomes]

LinesTyped ==
  /\ toDevice \in Seq(DeviceLine) /\ toHost \in Seq(HostLine)
  /\ results \in Seq(Stored) /\ owner \in {None} \cup OwnRequests
  /\ session \in Nat /\ lost \in Nat /\ running \in Nat

ClientsTyped ==
  /\ pc \in [Clients -> Points] /\ exit \in [Clients -> Int] /\ probed \in [Clients -> Nat]
  /\ age \in [Clients -> Nat] /\ left \in [Clients -> Nat] /\ begun \in [Clients -> Nat]

AtDevice == {"probing", "sending", "waiting", "pausing", "looking"}
Probed == AtDevice \ {"probing"}

Locked ==
  \A c \in Clients : /\ holder = c <=> pc[c] \in AtDevice
                     /\ pc[c] \in Probed => Command[c] \in Power /\ version = 2

Versioned == \A i \in DOMAIN toHost : toHost[i].kind = "other" <=> version # 2

Typed == LinesTyped /\ ClientsTyped /\ Locked /\ Versioned

LEMMA Budgets ==
  /\ Startup \in Nat /\ ProbeTime \in Nat /\ LookupTime \in Nat /\ Slack \in Nat /\ Slack > 0
  /\ \A c \in Clients : /\ Command[c] \in Power \cup {"protocol"} /\ Invocation[Command[c]] \in Nat
                        /\ Startup + ProbeTime <= Invocation[Command[c]]
                        /\ Command[c] \in Power => Deadline(c) \in Nat
  /\ \A k \in Power : Operation[k] \in Nat
BY ClientAssumption DEF Deadline

LEMMA Requested ==
  ASSUME NEW c \in Clients
  PROVE  /\ Req(c) \in OwnRequests /\ Req(c).id = c /\ Req(c).command = Command[c]
         /\ Req(c) # None /\ Lookup(c).id = c /\ Lookup(c).command = "result"
BY RequestAssumption DEF Req, Lookup, OwnRequests

(* What a client's step may do to the lines and to the other clients. *)
OwnStep(c) ==
  /\ UNCHANGED <<owner, results, session, running, begun, ended, lost, version, age>>
  /\ \A d \in Clients \ {c} : /\ pc'[d] = pc[d] /\ left'[d] = left[d]
                              /\ exit'[d] = exit[d] /\ probed'[d] = probed[d]
  /\ \/ toHost' \in {toHost, <<>>}
     \/ toHost # <<>> /\ toHost' = Tail(toHost)
  /\ \/ toDevice' = toDevice
     \/ \E kind \in {"protocol", "op", "lookup"} :
          toDevice' = Append(toDevice, [kind |-> kind, from |-> c])
  /\ pc' \in [Clients -> Points] /\ exit' \in [Clients -> Int]
  /\ probed' \in [Clients -> Nat] /\ left' \in [Clients -> Nat]

LEMMA AbandonOwn ==
  ASSUME Typed, NEW c \in Clients, NEW status \in Int, Abandon(c, status)
  PROVE  /\ OwnStep(c) /\ pc'[c] = "done" /\ exit'[c] = status /\ left'[c] = 0
         /\ holder' = None /\ toHost' = <<>> /\ UNCHANGED <<probed, toDevice>>
<1>1. /\ pc' = [pc EXCEPT ![c] = "done"] /\ exit' = [exit EXCEPT ![c] = status]
      /\ left' = [left EXCEPT ![c] = 0] /\ age' = age
  BY Zenon DEF Abandon, Exit
<1>2. /\ holder' = None /\ toHost' = <<>>
      /\ UNCHANGED <<probed, version, owner, results, session, running, toDevice, begun, ended,
                     lost>>
  BY Zenon DEF Abandon, Close, deviceVars, svars, historyVars
<1>3. /\ pc \in [Clients -> Points] /\ exit \in [Clients -> Int]
      /\ probed \in [Clients -> Nat] /\ left \in [Clients -> Nat]
  BY DEF Typed, ClientsTyped
<1>4. "done" \in Points
  BY DEF Points
<1>5. /\ pc' \in [Clients -> Points] /\ exit' \in [Clients -> Int]
      /\ probed' \in [Clients -> Nat] /\ left' \in [Clients -> Nat]
  BY <1>1, <1>2, <1>3, <1>4
<1>6. \A d \in Clients \ {c} : /\ pc'[d] = pc[d] /\ left'[d] = left[d]
                               /\ exit'[d] = exit[d] /\ probed'[d] = probed[d]
  BY <1>1, <1>2, <1>3
<1>7. pc'[c] = "done" /\ exit'[c] = status /\ left'[c] = 0
  BY <1>1, <1>3
<1> QED BY <1>1, <1>2, <1>5, <1>6, <1>7 DEF OwnStep

(* A client goes on with what it holds, and may take or write a line. *)
LEMMA GoOwn ==
  ASSUME Typed, NEW c \in Clients, NEW p \in Points, NEW wait \in Nat, Go(c, p, wait),
         UNCHANGED <<version, owner, results, session, running, begun, ended, lost>>,
         \/ probed' = probed
         \/ toHost # <<>> /\ probed' = [probed EXCEPT ![c] = Head(toHost).session],
         toHost' \in {toHost, <<>>} \/ (toHost # <<>> /\ toHost' = Tail(toHost)),
         toDevice' = toDevice \/ \E kind \in {"protocol", "op", "lookup"} : Write(kind, c)
  PROVE  OwnStep(c) /\ pc'[c] = p /\ left'[c] = wait /\ exit' = exit
<1>1. /\ pc' = [pc EXCEPT ![c] = p] /\ left' = [left EXCEPT ![c] = wait]
      /\ UNCHANGED <<age, exit>>
  BY Zenon DEF Go
<1>2. /\ pc \in [Clients -> Points] /\ exit \in [Clients -> Int]
      /\ probed \in [Clients -> Nat] /\ left \in [Clients -> Nat]
  BY DEF Typed, ClientsTyped
<1>3. toHost # <<>> => Head(toHost).session \in Nat
  <2>1. toHost # <<>> => Head(toHost) \in HostLine
    BY DEF Typed, LinesTyped
  <2> QED BY <2>1 DEF HostLine
<1>4. probed' \in [Clients -> Nat] /\ \A d \in Clients \ {c} : probed'[d] = probed[d]
  BY <1>2, <1>3
<1>5. /\ pc' \in [Clients -> Points] /\ exit' \in [Clients -> Int] /\ left' \in [Clients -> Nat]
  BY <1>1, <1>2
<1>6. \A d \in Clients \ {c} : pc'[d] = pc[d] /\ left'[d] = left[d] /\ exit'[d] = exit[d]
  BY <1>1, <1>2
<1>7. pc'[c] = p /\ left'[c] = wait
  BY <1>1, <1>2
<1> QED BY <1>1, <1>4, <1>5, <1>6, <1>7 DEF OwnStep, Write

(* What a client's step does to itself. *)
LEMMA StartOwn ==
  ASSUME Typed, NEW c \in Clients, Start(c)
  PROVE  /\ OwnStep(c) /\ UNCHANGED <<toHost, toDevice, holder, probed>> /\ pc[c] = "idle"
         /\ \/ pc'[c] = "done" /\ exit'[c] \in {2, 3}
            \/ pc'[c] \in {"resolving", "opening"} /\ exit' = exit
         /\ left'[c] = 0
<1>1. /\ UNCHANGED <<version, owner, results, session, running, begun, ended, lost, toHost,
                     toDevice, holder, probed>>
      /\ pc[c] = "idle"
  BY Zenon DEF Start, AtHome, deviceVars, svars, historyVars, lineVars
<1>2. /\ pc \in [Clients -> Points] /\ exit \in [Clients -> Int]
      /\ probed \in [Clients -> Nat] /\ left \in [Clients -> Nat]
  BY DEF Typed, ClientsTyped
<1>3. ASSUME NEW status \in {2, 3}, Exit(c, status)
      PROVE  /\ OwnStep(c) /\ pc'[c] = "done" /\ exit'[c] \in {2, 3} /\ left'[c] = 0
  BY <1>1, <1>2, <1>3 DEF Exit, OwnStep, Points
<1>4. ASSUME NEW p \in {"resolving", "opening"}, Go(c, p, 0)
      PROVE  /\ OwnStep(c) /\ pc'[c] = p /\ exit' = exit /\ left'[c] = 0
  BY <1>1, <1>4, GoOwn DEF Points
<1>5. \/ \E status \in {2, 3} : Exit(c, status)
      \/ Go(c, IF Command[c] = "on" THEN "resolving" ELSE "opening", 0)
  BY Zenon DEF Start
<1> QED BY <1>1, <1>3, <1>4, <1>5

LEMMA ResolveOwn ==
  ASSUME Typed, NEW c \in Clients, Resolve(c) \/ OpenFails(c)
  PROVE  /\ OwnStep(c) /\ UNCHANGED <<toHost, toDevice, holder, probed>>
         /\ pc[c] \in {"resolving", "opening"}
         /\ \/ pc'[c] = "done" /\ exit'[c] \in {3, 4}
            \/ pc'[c] = "opening" /\ exit' = exit
         /\ left'[c] = 0
<1>1. /\ UNCHANGED <<version, owner, results, session, running, begun, ended, lost, toHost,
                     toDevice, holder, probed>>
      /\ pc[c] \in {"resolving", "opening"}
  BY Zenon DEF Resolve, OpenFails, AtHome, deviceVars, svars, historyVars, lineVars
<1>2. /\ pc \in [Clients -> Points] /\ exit \in [Clients -> Int]
      /\ probed \in [Clients -> Nat] /\ left \in [Clients -> Nat]
  BY DEF Typed, ClientsTyped
<1>3. ASSUME NEW status \in {3, 4}, Exit(c, status)
      PROVE  /\ OwnStep(c) /\ pc'[c] = "done" /\ exit'[c] \in {3, 4} /\ left'[c] = 0
  BY <1>1, <1>2, <1>3 DEF Exit, OwnStep, Points
<1>4. Go(c, "opening", 0) => OwnStep(c) /\ pc'[c] = "opening" /\ exit' = exit /\ left'[c] = 0
  BY <1>1, GoOwn DEF Points
<1> QED BY <1>1, <1>3, <1>4 DEF Resolve, OpenFails

LEMMA OpenOwn ==
  ASSUME Typed, NEW c \in Clients, Open(c)
  PROVE  /\ OwnStep(c) /\ pc[c] = "opening" /\ age[c] < Startup /\ holder = None
         /\ holder' = c /\ toHost' = <<>> /\ Write("protocol", c) /\ pc'[c] = "probing"
         /\ left'[c] = ProbeTime /\ exit' = exit /\ probed' = probed
<1>1. /\ UNCHANGED <<version, owner, results, session, running, begun, ended, lost, probed>>
      /\ pc[c] = "opening" /\ age[c] < Startup /\ holder = None /\ holder' = c
      /\ toHost' = <<>> /\ Write("protocol", c) /\ Go(c, "probing", ProbeTime)
  BY Zenon DEF Open, deviceVars, svars, historyVars
<1> QED BY <1>1, GoOwn, Budgets DEF Points

LEMMA SendOwn ==
  ASSUME Typed, NEW c \in Clients, SendOperation(c)
  PROVE  /\ OwnStep(c) /\ pc[c] = "sending" /\ probed' = probed
         /\ \/ /\ EnoughTime(c) /\ Write("op", c) /\ pc'[c] = "waiting"
               /\ left'[c] = Deadline(c) /\ exit' = exit /\ UNCHANGED <<holder, toHost>>
            \/ Abandon(c, 4)
<1>1. pc[c] = "sending"
  BY DEF SendOperation
<1>2. Abandon(c, 4) => OwnStep(c) /\ probed' = probed
  BY AbandonOwn
<1>3. ASSUME Go(c, "waiting", Deadline(c)), Write("op", c),
             UNCHANGED <<probed, holder, gone, version, deviceVars, toHost, historyVars>>
      PROVE  /\ OwnStep(c) /\ probed' = probed /\ pc'[c] = "waiting"
             /\ left'[c] = Deadline(c) /\ exit' = exit /\ UNCHANGED <<holder, toHost>>
  <2>1. /\ UNCHANGED <<version, owner, results, session, running, begun, ended, lost, probed,
                       holder, toHost>>
    BY <1>3, Zenon DEF deviceVars, svars, historyVars
  <2>2. Deadline(c) \in Nat
    BY <1>1, Budgets DEF Typed, Locked, Probed, AtDevice
  <2> QED BY <1>3, <2>1, <2>2, GoOwn DEF Points
<1> QED BY <1>1, <1>2, <1>3, Zenon DEF SendOperation

LEMMA RetryOwn ==
  ASSUME Typed, NEW c \in Clients, Retry(c)
  PROVE  /\ OwnStep(c) /\ pc[c] = "pausing" /\ probed' = probed
         /\ \/ /\ age[c] < Invocation[Command[c]] /\ pc'[c] = "sending" /\ left'[c] = 0
               /\ exit' = exit /\ UNCHANGED <<holder, toHost, toDevice>>
            \/ Abandon(c, 5)
<1>1. pc[c] = "pausing"
  BY DEF Retry
<1>2. Abandon(c, 5) => OwnStep(c) /\ probed' = probed
  BY AbandonOwn
<1>3. ASSUME Go(c, "sending", 0),
             UNCHANGED <<probed, holder, gone, version, deviceVars, lineVars, historyVars>>
      PROVE  /\ OwnStep(c) /\ probed' = probed /\ pc'[c] = "sending"
             /\ left'[c] = 0 /\ exit' = exit /\ UNCHANGED <<holder, toHost, toDevice>>
  <2>1. /\ UNCHANGED <<version, owner, results, session, running, begun, ended, lost, probed,
                       holder, toHost, toDevice>>
    BY <1>3, Zenon DEF deviceVars, svars, historyVars, lineVars
  <2> QED BY <1>3, <2>1, GoOwn DEF Points
<1>4. ~(age[c] >= Invocation[Command[c]]) => age[c] < Invocation[Command[c]]
  BY Budgets DEF Typed, ClientsTyped
<1> QED BY <1>1, <1>2, <1>3, <1>4, Zenon DEF Retry

LEMMA TimesOutOwn ==
  ASSUME Typed, NEW c \in Clients, TimesOut(c)
  PROVE  /\ OwnStep(c) /\ left[c] = 0 /\ toHost = <<>> /\ toDevice = <<>> /\ probed' = probed
         /\ \/ pc[c] \in {"probing", "waiting", "looking"} /\ Abandon(c, 4)
            \/ /\ pc[c] = "waiting" /\ age[c] + LookupTime < Invocation[Command[c]]
               /\ Write("lookup", c) /\ pc'[c] = "looking" /\ left'[c] = LookupTime
               /\ exit' = exit /\ UNCHANGED <<holder, toHost>>
<1>1. left[c] = 0 /\ toHost = <<>> /\ toDevice = <<>>
  BY DEF TimesOut
<1>2. Abandon(c, 4) => OwnStep(c) /\ probed' = probed
  BY AbandonOwn
<1>3. ASSUME Asks(c, "lookup")
      PROVE  /\ OwnStep(c) /\ probed' = probed /\ pc'[c] = "looking" /\ Write("lookup", c)
             /\ left'[c] = LookupTime /\ exit' = exit /\ UNCHANGED <<holder, toHost>>
  <2>1. /\ UNCHANGED <<version, owner, results, session, running, begun, ended, lost, probed,
                       holder, toHost>>
        /\ Go(c, "looking", LookupTime) /\ Write("lookup", c)
    BY <1>3, Zenon DEF Asks, deviceVars, svars, historyVars
  <2> QED BY <2>1, GoOwn, Budgets DEF Points
<1>4. \/ pc[c] \in {"probing", "looking"} /\ Abandon(c, 4)
      \/ pc[c] = "waiting" /\ Uncertain(c)
  BY Zenon DEF TimesOut
<1> QED BY <1>1, <1>2, <1>3, <1>4 DEF Uncertain

LEMMA DiesOwn ==
  ASSUME Typed, NEW c \in Clients, Dies(c) \/ Killed(c)
  PROVE  /\ OwnStep(c) /\ holder = c /\ probed' = probed
         /\ \/ Abandon(c, 4) /\ gone
            \/ Abandon(c, Signal)
<1>1. holder = c /\ ((Abandon(c, 4) /\ gone) \/ Abandon(c, Signal))
  BY Zenon DEF Dies, Killed
<1>2. Signal \in Int
  BY DEF Signal
<1> QED BY <1>1, <1>2, AbandonOwn

(* A line that is not the client's is skipped; its own ends a wait. *)
Skips(c) ==
  /\ ~Matches(c, Head(toHost)) /\ toHost' = Tail(toHost)
  /\ UNCHANGED <<pc, left, exit, probed, holder, toDevice>>
Takes(c) ==
  /\ Matches(c, Head(toHost)) /\ SameSession(c, Head(toHost)) /\ Head(toHost).kind # "other"
  /\ \/ pc[c] = "probing" /\ Command[c] = "protocol" /\ Abandon(c, 0)
     \/ /\ pc[c] = "probing" /\ Command[c] # "protocol" /\ pc'[c] = "sending" /\ left'[c] = 0
        /\ probed'[c] = Head(toHost).session
        /\ toHost' = Tail(toHost) /\ exit' = exit /\ UNCHANGED <<holder, toDevice>>
     \/ /\ pc[c] = "waiting" /\ Head(toHost).outcome = "busy" /\ pc'[c] = "pausing"
        /\ left'[c] = 1 /\ toHost' = Tail(toHost) /\ exit' = exit
        /\ UNCHANGED <<holder, toDevice, probed>>
     \/ /\ pc[c] \in {"waiting", "looking"}
        /\ Head(toHost).outcome # "busy" \/ pc[c] = "looking"
        /\ Abandon(c, Status(Head(toHost).outcome))
Breaks(c) ==
  /\ \/ Head(toHost).kind = "other"
     \/ Matches(c, Head(toHost)) /\ ~SameSession(c, Head(toHost))
  /\ Abandon(c, 4)

LEMMA StatusRange == \A o : Status(o) \in {0, 5, 6}
BY DEF Status

LEMMA ReceiveOwn ==
  ASSUME Typed, NEW c \in Clients, Receive(c)
  PROVE  /\ OwnStep(c) /\ holder = c /\ pc[c] \in {"probing", "waiting", "looking"}
         /\ toHost # <<>> /\ Head(toHost) \in HostLine
         /\ Skips(c) \/ Takes(c) \/ Breaks(c)
<1>1. holder = c /\ pc[c] \in {"probing", "waiting", "looking"} /\ toHost # <<>>
  BY Zenon DEF Receive
<1>2. Head(toHost) \in HostLine
  BY <1>1 DEF Typed, LinesTyped
<1> DEFINE line == Head(toHost)
<1>3. ASSUME NEW status \in Int, Abandon(c, status) PROVE OwnStep(c)
  BY <1>3, AbandonOwn
<1>4. CASE line.kind = "other" \/ (Matches(c, line) /\ ~SameSession(c, line))
  <2>1. Abandon(c, 4)
    BY <1>4, Zenon DEF Receive
  <2> QED BY <1>1, <1>2, <1>3, <1>4, <2>1 DEF Breaks
<1>5. CASE ~(line.kind = "other" \/ (Matches(c, line) /\ ~SameSession(c, line)))
  <2>1. CASE ~Matches(c, line)
    <3>1. /\ toHost' = Tail(toHost)
          /\ UNCHANGED <<clientVars, gone, version, deviceVars, toDevice, historyVars>>
      BY <1>5, <2>1, Zenon DEF Receive
    <3>2. /\ UNCHANGED <<version, owner, results, session, running, begun, ended, lost, age>>
          /\ UNCHANGED <<pc, left, exit, probed, holder, toDevice>>
      BY <3>1, Zenon DEF clientVars, deviceVars, svars, historyVars
    <3>3. OwnStep(c)
      BY <1>1, <3>1, <3>2 DEF OwnStep, Typed, ClientsTyped
    <3> QED BY <1>1, <1>2, <2>1, <3>1, <3>2, <3>3 DEF Skips
  <2>2. CASE Matches(c, line) /\ pc[c] = "probing"
    <3>1. TakeProbe(c, line)
      BY <1>5, <2>2, Zenon DEF Receive
    <3>2. CASE Command[c] = "protocol"
      <4>1. Abandon(c, 0)
        BY <3>1, <3>2, Zenon DEF TakeProbe
      <4>2. Takes(c)
        BY <1>5, <2>2, <3>2, <4>1 DEF Takes
      <4> QED BY <1>1, <1>2, <1>3, <4>1, <4>2
    <3>3. CASE Command[c] # "protocol"
      <4>1. /\ Go(c, "sending", 0) /\ probed' = [probed EXCEPT ![c] = line.session]
            /\ toHost' = Tail(toHost)
            /\ UNCHANGED <<holder, gone, version, deviceVars, toDevice, historyVars>>
        BY <3>1, <3>3, Zenon DEF TakeProbe
      <4>2. UNCHANGED <<version, owner, results, session, running, begun, ended, lost>>
        BY <4>1, Zenon DEF deviceVars, svars, historyVars
      <4>3. OwnStep(c) /\ pc'[c] = "sending" /\ left'[c] = 0 /\ exit' = exit
        BY <1>1, <4>1, <4>2, GoOwn DEF Points
      <4>4. probed'[c] = line.session
        BY <4>1 DEF Typed, ClientsTyped
      <4>5. Takes(c)
        BY <1>5, <2>2, <3>3, <4>1, <4>3, <4>4 DEF Takes
      <4> QED BY <1>1, <1>2, <4>3, <4>5
    <3> QED BY <3>2, <3>3
  <2>3. CASE Matches(c, line) /\ pc[c] # "probing" /\ line.outcome = "busy" /\ pc[c] = "waiting"
    <3>1. TakeBusy(c)
      BY <1>5, <2>3, Zenon DEF Receive
    <3>2. /\ UNCHANGED <<version, owner, results, session, running, begun, ended, lost>>
          /\ Go(c, "pausing", 1) /\ toHost' = Tail(toHost)
          /\ UNCHANGED <<probed, holder, toDevice>>
      BY <3>1, Zenon DEF TakeBusy, deviceVars, svars, historyVars
    <3>3. OwnStep(c) /\ pc'[c] = "pausing" /\ left'[c] = 1 /\ exit' = exit
      BY <1>1, <3>2, GoOwn DEF Points
    <3>4. Takes(c)
      BY <1>5, <2>3, <3>2, <3>3 DEF Takes
    <3> QED BY <1>1, <1>2, <3>3, <3>4
  <2>4. CASE Matches(c, line) /\ pc[c] # "probing" /\ ~(line.outcome = "busy" /\ pc[c] = "waiting")
    <3>1. Abandon(c, Status(line.outcome))
      BY <1>5, <2>4, Zenon DEF Receive
    <3>2. OwnStep(c)
      BY <1>3, <3>1, StatusRange
    <3>3. Takes(c)
      BY <1>1, <1>5, <2>4, <3>1 DEF Takes
    <3> QED BY <1>1, <1>2, <3>2, <3>3
  <2> QED BY <2>1, <2>2, <2>3, <2>4
<1> QED BY <1>4, <1>5

(* What the controller makes of a line: it begins the operation of a request *)
(* it knows nothing of, or answers - with a result it has stored, or a       *)
(* refusal.                                                                  *)
BeginsFor(c) ==
  /\ owner = None /\ owner' = Req(c) /\ running' = 0
  /\ begun' = [begun EXCEPT ![c] = @ + 1] /\ UNCHANGED <<toHost, results>>
Tells(kind, c, outcome) ==
  /\ Say(kind, c, outcome) /\ UNCHANGED <<owner, results, running, begun>>

LEMMA ReadOwn ==
  ASSUME Typed, ReadLine
  PROVE  /\ toDevice # <<>> /\ Head(toDevice) \in DeviceLine /\ toDevice' = Tail(toDevice)
         /\ UNCHANGED <<pc, age, left, exit, probed, holder, version, session, ended, lost>>
         /\ \/ Head(toDevice).kind = "op" /\ BeginsFor(Head(toDevice).from)
            \/ /\ Head(toDevice).kind = "op" /\ owner # None
               /\ Tells(Command[Head(toDevice).from], Head(toDevice).from, "busy")
            \/ /\ Head(toDevice).kind # "op"
               /\ \E kind \in {"protocol", "result"} : Tells(kind, Head(toDevice).from, "busy")
            \/ \E i \in DOMAIN results :
                 /\ results[i].request.id = Head(toDevice).from
                 /\ Tells(results[i].request.command, results[i].request.id, results[i].outcome)
<1> DEFINE line == Head(toDevice)
<1>1. /\ toDevice # <<>> /\ toDevice' = Tail(toDevice) /\ Serve(line)
      /\ UNCHANGED <<pc, age, left, exit, probed, holder, version, session, ended, lost>>
  BY Zenon DEF ReadLine, clientVars
<1>2. line \in DeviceLine
  BY <1>1 DEF Typed, LinesTyped
<1>3. line.from \in Clients
  BY <1>2 DEF DeviceLine
<1> HIDE DEF line
<1> DEFINE r == IF line.kind = "lookup" THEN Lookup(line.from) ELSE Req(line.from)
           known == {e \in Latest : AnswersTo(r, e)}
<1>4. r.id = line.from
  BY <1>3, Requested
<1>5. ASSUME NEW kind, Refuse(kind, line.from) PROVE Tells(kind, line.from, "busy")
  BY <1>5, Zenon DEF Refuse, OtherReply, Tells
<1>6. CASE line.kind = "protocol" /\ Refuse("protocol", line.from)
  BY <1>1, <1>2, <1>5, <1>6 DEF line
<1>7. ASSUME NEW e \in known, line.kind # "protocol", UNCHANGED <<running, begun>>, Recall(r, e),
             Say(e.request.command, e.request.id, e.outcome)
      PROVE  \E i \in DOMAIN results :
               /\ results[i].request.id = line.from
               /\ Tells(results[i].request.command, results[i].request.id, results[i].outcome)
  <2>1. e \in Latest /\ e.request.id = line.from
    BY <1>4, <1>7 DEF AnswersTo
  <2>2. PICK i \in DOMAIN results : e = results[i]
    BY <2>1 DEF Latest
  <2>3. UNCHANGED <<owner, results>>
    BY <1>7, Zenon DEF Recall
  <2> QED BY <1>7, <2>1, <2>2, <2>3, Zenon DEF Tells
<1>8. CASE line.kind = "lookup" /\ known = {} /\ Refuse("result", line.from)
  BY <1>1, <1>2, <1>5, <1>8 DEF line
<1>9. CASE line.kind = "op" /\ known = {} /\ owner # None /\ Refuse(r.command, line.from)
  <2>1. r.command = Command[line.from]
    BY <1>3, <1>9, Requested
  <2> QED BY <1>1, <1>2, <1>5, <1>9, <2>1 DEF line
<1>10. CASE /\ line.kind = "op" /\ known = {} /\ Accept(r) /\ running' = 0
            /\ begun' = [begun EXCEPT ![line.from] = @ + 1] /\ UNCHANGED toHost
  <2>1. r = Req(line.from)
    BY <1>10
  <2>2. BeginsFor(line.from)
    BY <1>10, <2>1, Zenon DEF BeginsFor, Accept
  <2> QED BY <1>1, <1>2, <1>10, <2>2 DEF line
<1>11. \/ line.kind = "protocol" /\ Refuse("protocol", line.from)
       \/ /\ line.kind # "protocol" /\ UNCHANGED <<running, begun>>
          /\ \E e \in known : Recall(r, e) /\ Say(e.request.command, e.request.id, e.outcome)
       \/ line.kind = "lookup" /\ known = {} /\ Refuse("result", line.from)
       \/ line.kind = "op" /\ known = {} /\ owner # None /\ Refuse(r.command, line.from)
       \/ /\ line.kind = "op" /\ known = {} /\ Accept(r) /\ running' = 0
          /\ begun' = [begun EXCEPT ![line.from] = @ + 1] /\ UNCHANGED toHost
  BY <1>1, Zenon DEF Serve
<1>12. line = Head(toDevice)
  BY DEF line
<1> QED BY <1>1, <1>2, <1>6, <1>7, <1>8, <1>9, <1>10, <1>11, <1>12, Zenon

LEMMA EndOwn ==
  ASSUME Typed, EndOperation
  PROVE  /\ UNCHANGED <<pc, age, left, exit, probed, holder, version, session, running, toDevice,
                        begun, lost>>
         /\ owner \in OwnRequests /\ owner' = None
         /\ \E o \in Outcomes :
              /\ results' = Append(results, [request |-> owner, outcome |-> o])
              /\ Say(owner.command, owner.id, o)
              /\ ended' = ended \cup {<<owner.id, session, o>>}
<1>1. PICK o \in Outcomes : /\ Finish(o) /\ Say(owner.command, owner.id, o)
                            /\ ended' = ended \cup {<<owner.id, session, o>>}
  BY Zenon DEF EndOperation
<1>2. UNCHANGED <<pc, age, left, exit, probed, holder, version, session, running, toDevice,
                  begun, lost>>
  BY Zenon DEF EndOperation, clientVars
<1>3. owner \in OwnRequests
  BY <1>1 DEF Finish, Typed, LinesTyped
<1> QED BY <1>1, <1>2, <1>3, Zenon DEF Finish

LEMMA RestartOwn ==
  ASSUME Restart
  PROVE  /\ UNCHANGED <<pc, age, left, exit, probed, holder, version, toHost, begun, ended, lost>>
         /\ session' = session + 1 /\ owner' = None /\ results' = <<>> /\ running' = 0
         /\ toDevice' = <<>>
BY Zenon DEF Restart, Reboot, clientVars, historyVars

LEMMA LoseOwn ==
  ASSUME Lose
  PROVE  /\ UNCHANGED <<pc, age, left, exit, probed, holder, gone, version, owner, results,
                        session, running, begun, ended>>
         /\ lost' = lost + 1
         /\ \/ toDevice # <<>> /\ toDevice' = Tail(toDevice) /\ UNCHANGED toHost
            \/ toHost # <<>> /\ toHost' = Tail(toHost) /\ UNCHANGED toDevice
BY Zenon DEF Lose, clientVars, deviceVars, svars

Awake(c) == pc[c] \notin {"idle", "done"}

LEMMA TickOwn ==
  ASSUME Typed, Tick
  PROVE  /\ UNCHANGED <<pc, exit, probed, holder, gone, version, owner, results, session,
                        toDevice, toHost, begun, ended, lost>>
         /\ toDevice = <<>> /\ toHost = <<>>
         /\ owner # None => running < Operation[owner.command] /\ running' = running + 1
         /\ owner = None => running' = 0
         /\ age' \in [Clients -> Nat] /\ left' \in [Clients -> Nat]
         /\ \A c \in Clients :
              /\ pc[c] # "sending" /\ (pc[c] \in {"resolving", "opening"} => age[c] < Startup)
              /\ pc[c] \in {"probing", "waiting", "looking", "pausing"} => left[c] > 0
              /\ age'[c] = IF Awake(c) THEN age[c] + 1 ELSE age[c]
              /\ left'[c] = IF left[c] > 0 THEN left[c] - 1 ELSE 0
<1>1. /\ UNCHANGED <<pc, exit, probed, holder, gone, version, owner, results, session,
                     toDevice, toHost, begun, ended, lost>>
      /\ toDevice = <<>> /\ toHost = <<>>
      /\ owner # None => running < Operation[owner.command]
      /\ running' = IF owner = None THEN 0 ELSE running + 1
  BY Zenon DEF Tick, svars, lineVars, historyVars
<1>2. \A c \in Clients :
       /\ pc[c] # "sending" /\ (pc[c] \in {"resolving", "opening"} => age[c] < Startup)
       /\ pc[c] \in {"probing", "waiting", "looking", "pausing"} => left[c] > 0
  BY Zenon DEF Tick
<1> DEFINE alive == {c \in Clients : pc[c] \notin {"idle", "done"}}
<1>3. /\ age' = [c \in Clients |-> IF c \in alive THEN age[c] + 1 ELSE age[c]]
      /\ left' = [c \in Clients |-> IF left[c] > 0 THEN left[c] - 1 ELSE 0]
  BY Zenon DEF Tick
<1>4. age \in [Clients -> Nat] /\ left \in [Clients -> Nat]
  BY DEF Typed, ClientsTyped
<1>5. /\ age' \in [Clients -> Nat] /\ left' \in [Clients -> Nat]
      /\ \A c \in Clients : /\ age'[c] = IF Awake(c) THEN age[c] + 1 ELSE age[c]
                            /\ left'[c] = IF left[c] > 0 THEN left[c] - 1 ELSE 0
  BY <1>3, <1>4 DEF Awake
<1> QED BY <1>1, <1>2, <1>5

--------------------------------------------------------------------------------
(* What Tail and Append leave of a sequence. *)
LEMMA Shorter ==
  ASSUME NEW S, NEW s \in Seq(S), s # <<>>
  PROVE  /\ Tail(s) \in Seq(S) /\ 1 \in DOMAIN s /\ Head(s) = s[1] /\ Head(s) \in S
         /\ \A i \in DOMAIN Tail(s) : i + 1 \in DOMAIN s /\ Tail(s)[i] = s[i + 1] /\ i \in Nat
         /\ \A i \in DOMAIN s : i # 1 => i - 1 \in DOMAIN Tail(s) /\ Tail(s)[i - 1] = s[i]
<1>1. Len(s) \in Nat /\ Len(s) # 0 /\ DOMAIN s = 1 .. Len(s) /\ Len(Tail(s)) = Len(s) - 1
      /\ Tail(s) \in Seq(S) /\ DOMAIN Tail(s) = 1 .. Len(Tail(s))
  OBVIOUS
<1> QED BY <1>1

LEMMA Longer ==
  ASSUME NEW S, NEW s \in Seq(S), NEW e \in S
  PROVE  /\ Append(s, e) \in Seq(S) /\ Append(s, e)[Len(s) + 1] = e /\ Len(s) + 1 \notin DOMAIN s
         /\ DOMAIN Append(s, e) = DOMAIN s \cup {Len(s) + 1}
         /\ \A i \in DOMAIN s : Append(s, e)[i] = s[i]
<1>1. Len(s) \in Nat /\ DOMAIN s = 1 .. Len(s)
  OBVIOUS
<1>2. Append(s, e) \in Seq(S) /\ Len(Append(s, e)) = Len(s) + 1
      /\ Append(s, e)[Len(s) + 1] = e /\ \A i \in 1 .. Len(s) : Append(s, e)[i] = s[i]
  OBVIOUS
<1>3. DOMAIN Append(s, e) = 1 .. Len(s) + 1
  BY <1>2
<1> QED BY <1>1, <1>2, <1>3

(* What the controller says is dropped, or one line more for the client.     *)
LEMMA Said ==
  ASSUME Typed, NEW kind \in Kinds \ {"other"}, NEW c \in Clients,
         NEW outcome \in Outcomes \cup {"busy"}, Say(kind, c, outcome)
  PROVE  \/ toHost' = toHost
         \/ \E line \in HostLine :
              /\ toHost' = Append(toHost, line) /\ holder # None
              /\ line.kind = IF version = 2 THEN kind ELSE "other"
              /\ line.id = c /\ line.session = session /\ line.outcome = outcome
<1> DEFINE line == [kind |-> IF version = 2 THEN kind ELSE "other", id |-> c,
                    session |-> session, outcome |-> outcome]
<1>1. line \in HostLine
  BY DEF HostLine, Typed, LinesTyped, Kinds
<1>2. toHost' = IF holder = None THEN toHost ELSE Append(toHost, line)
  BY Zenon DEF Say
<1> QED BY <1>1, <1>2

LEMMA SaidTyped ==
  ASSUME Typed, NEW kind \in Kinds \ {"other"}, NEW c \in Clients,
         NEW outcome \in Outcomes \cup {"busy"}, Say(kind, c, outcome), version' = version
  PROVE  toHost' \in Seq(HostLine) /\ Versioned'
<1>1. CASE toHost' = toHost
  BY <1>1 DEF Typed, LinesTyped, Versioned
<1>2. CASE toHost' # toHost
  <2>1. PICK line \in HostLine :
          /\ toHost' = Append(toHost, line) /\ line.kind = IF version = 2 THEN kind ELSE "other"
    BY <1>2, Said
  <2>2. toHost \in Seq(HostLine)
    BY DEF Typed, LinesTyped
  <2>3. line.kind = "other" <=> version # 2
    BY <2>1
  <2>4. toHost' \in Seq(HostLine)
    BY <2>1, <2>2, Longer
  <2>5. ASSUME NEW i \in DOMAIN toHost' PROVE toHost'[i].kind = "other" <=> version' # 2
    BY <2>1, <2>2, <2>3, <2>5, Longer DEF Typed, Versioned
  <2> QED BY <2>4, <2>5 DEF Versioned
<1> QED BY <1>1, <1>2

LEMMA OwnTyped ==
  ASSUME Typed, NEW c \in Clients, OwnStep(c)
  PROVE  LinesTyped' /\ ClientsTyped' /\ Versioned'
<1>1. toHost \in Seq(HostLine) /\ toDevice \in Seq(DeviceLine)
  BY DEF Typed, LinesTyped
<1>2. toHost' \in Seq(HostLine) /\ Versioned'
  <2>1. CASE toHost' \in {toHost, <<>>}
    <3>1. version' = version
      BY DEF OwnStep
    <3>2. CASE toHost' = toHost
      BY <1>1, <3>1, <3>2 DEF Typed, Versioned
    <3>3. CASE toHost' = <<>>
      BY <3>3 DEF Versioned
    <3> QED BY <2>1, <3>2, <3>3
  <2>2. CASE toHost # <<>> /\ toHost' = Tail(toHost)
    <3>1. toHost' \in Seq(HostLine)
      BY <1>1, <2>2, Shorter
    <3>2. ASSUME NEW i \in DOMAIN toHost' PROVE toHost'[i].kind = "other" <=> version' # 2
      <4>1. i + 1 \in DOMAIN toHost /\ toHost'[i] = toHost[i + 1]
        BY <1>1, <2>2, <3>2, Shorter
      <4> QED BY <4>1 DEF OwnStep, Typed, Versioned
    <3> QED BY <3>1, <3>2 DEF Versioned
  <2> QED BY <2>1, <2>2 DEF OwnStep
<1>3. toDevice' \in Seq(DeviceLine)
  <2>1. ASSUME NEW kind \in {"protocol", "op", "lookup"},
               toDevice' = Append(toDevice, [kind |-> kind, from |-> c])
        PROVE  toDevice' \in Seq(DeviceLine)
    <3>1. [kind |-> kind, from |-> c] \in DeviceLine
      BY DEF DeviceLine
    <3> QED BY <1>1, <2>1, <3>1, Longer
  <2> QED BY <1>1, <2>1 DEF OwnStep
<1> QED BY <1>2, <1>3 DEF OwnStep, Typed, LinesTyped, ClientsTyped

(* The lock stays with the client that has it, or goes to one that is free.  *)
LEMMA LockKept ==
  ASSUME Typed, NEW c \in Clients, OwnStep(c),
         \/ holder' = holder /\ (pc'[c] \in AtDevice <=> pc[c] \in AtDevice)
         \/ holder \in {c, None} /\ holder' = c /\ pc'[c] \in AtDevice
         \/ holder = c /\ holder' = None /\ pc'[c] \notin AtDevice,
         pc'[c] \in Probed => Command[c] \in Power /\ version = 2
  PROVE  Locked'
<1>1. None \notin Clients
  BY ClientAssumption
<1>2. ASSUME NEW d \in Clients, d # c
      PROVE  /\ holder' = d <=> pc'[d] \in AtDevice
             /\ pc'[d] \in Probed => Command[d] \in Power /\ version' = 2
  BY <1>1, <1>2 DEF OwnStep, Typed, Locked
<1>3. holder' = c <=> pc'[c] \in AtDevice
  BY <1>1 DEF Typed, Locked
<1>4. pc'[c] \in Probed => Command[c] \in Power /\ version' = 2
  BY DEF OwnStep
<1> QED BY <1>2, <1>3, <1>4 DEF Locked

LEMMA TypedInitially == Init => Typed
<1> SUFFICES ASSUME Init PROVE Typed
  OBVIOUS
<1>1. LinesTyped
  BY DEF Init, SInit, LinesTyped
<1>2. ClientsTyped
  BY DEF Init, ClientsTyped, Points, Running
<1>3. Locked /\ Versioned
  BY ClientAssumption DEF Init, Locked, Versioned, AtDevice, Probed
<1> QED BY <1>1, <1>2, <1>3 DEF Typed

(* An invocation that is given up holds nothing. *)
LEMMA AbandonTyped ==
  ASSUME Typed, NEW c \in Clients, NEW status \in Int, Abandon(c, status), holder = c
  PROVE  Typed'
<1>1. OwnStep(c) /\ pc'[c] = "done" /\ holder' = None
  BY AbandonOwn
<1>2. Locked'
  BY <1>1, LockKept DEF AtDevice, Probed
<1> QED BY <1>1, <1>2, OwnTyped DEF Typed

LEMMA TypedStep == Typed /\ [Next]_vars => Typed'
<1> SUFFICES ASSUME Typed, [Next]_vars PROVE Typed'
  OBVIOUS
<1>1. CASE UNCHANGED vars
  <2>1. UNCHANGED <<pc, age, left, exit, probed, holder, version, owner, results, session,
                    running, toDevice, toHost, begun, lost>>
    BY <1>1, Zenon DEF vars, clientVars, deviceVars, svars, lineVars, historyVars
  <2> QED BY <2>1 DEF Typed, LinesTyped, ClientsTyped, Locked, Versioned
<1>2. CASE ReadLine
  <2>1. toDevice' \in Seq(DeviceLine)
    BY <1>2, ReadOwn, Shorter DEF Typed, LinesTyped
  <2>2. UNCHANGED <<pc, age, left, exit, probed, holder, version, session, ended, lost>>
    BY <1>2, ReadOwn, Zenon
  <2> DEFINE c == Head(toDevice).from
  <2>3. c \in Clients
    BY <1>2, ReadOwn DEF DeviceLine
  <2> HIDE DEF c
  <2>4. ASSUME BeginsFor(c) PROVE Typed'
    <3>1. owner' = Req(c) /\ running' = 0 /\ UNCHANGED <<toHost, results>>
          /\ begun' = [begun EXCEPT ![c] = @ + 1]
      BY <2>4, Zenon DEF BeginsFor
    <3>2. LinesTyped'
      BY <2>1, <2>2, <2>3, <3>1, Requested DEF Typed, LinesTyped
    <3>3. ClientsTyped'
      BY <2>2, <2>3, <3>1 DEF Typed, ClientsTyped
    <3> QED BY <2>2, <3>1, <3>2, <3>3 DEF Typed, Locked, Versioned
  <2>5. ASSUME NEW kind \in Kinds \ {"other"}, NEW outcome \in Outcomes \cup {"busy"},
               Tells(kind, c, outcome)
        PROVE  Typed'
    <3>1. UNCHANGED <<owner, results, running, begun>> /\ Say(kind, c, outcome)
      BY <2>5, Zenon DEF Tells
    <3>2. toHost' \in Seq(HostLine) /\ Versioned'
      BY <2>2, <2>3, <3>1, SaidTyped
    <3>3. LinesTyped'
      BY <2>1, <2>2, <3>1, <3>2 DEF Typed, LinesTyped
    <3>4. ClientsTyped'
      BY <2>2, <3>1 DEF Typed, ClientsTyped
    <3> QED BY <2>2, <3>2, <3>3, <3>4 DEF Typed, Locked
  <2>6. Command[c] \in Kinds \ {"other"}
    BY <2>3, Budgets DEF Kinds, Power
  <2>7. ASSUME NEW i \in DOMAIN results, results[i].request.id = c
        PROVE  /\ results[i].request.command \in Kinds \ {"other"}
               /\ results[i].outcome \in Outcomes \cup {"busy"}
    <3>1. results[i] \in Stored
      BY DEF Typed, LinesTyped
    <3>2. PICK d \in Clients : results[i].request = Req(d)
      BY <3>1 DEF Stored, OwnRequests
    <3>3. results[i].request.command = Command[d]
      BY <3>2, Requested
    <3> QED BY <3>1, <3>3, Budgets DEF Kinds, Power, Stored
  <2>8. \/ BeginsFor(c) \/ Tells(Command[c], c, "busy")
        \/ \E kind \in {"protocol", "result"} : Tells(kind, c, "busy")
        \/ \E i \in DOMAIN results :
              /\ results[i].request.id = c
              /\ Tells(results[i].request.command, results[i].request.id, results[i].outcome)
    BY <1>2, ReadOwn, Zenon DEF c
  <2>9. ASSUME NEW i \in DOMAIN results, results[i].request.id = c,
               Tells(results[i].request.command, results[i].request.id, results[i].outcome)
        PROVE  Typed'
    BY <2>5, <2>7, <2>9
  <2>10. ASSUME NEW kind \in {"protocol", "result"}, Tells(kind, c, "busy") PROVE Typed'
    BY <2>5, <2>10 DEF Kinds
  <2> QED BY <2>4, <2>5, <2>6, <2>8, <2>9, <2>10
<1>3. CASE EndOperation
  <2>1. PICK o \in Outcomes : /\ results' = Append(results, [request |-> owner, outcome |-> o])
                              /\ Say(owner.command, owner.id, o)
    BY <1>3, EndOwn
  <2>2. UNCHANGED <<pc, age, left, exit, probed, holder, version, session, running, toDevice,
                    begun, lost>>
    BY <1>3, EndOwn, Zenon
  <2>3. owner' = None /\ owner \in OwnRequests
    BY <1>3, EndOwn, Zenon
  <2>4. PICK c \in Clients : owner = Req(c)
    BY <2>3 DEF OwnRequests
  <2>5. owner.id = c /\ owner.command = Command[c]
    BY <2>4, Requested
  <2>6. owner.command \in Kinds \ {"other"}
    BY <2>5, Budgets DEF Kinds, Power
  <2>7. toHost' \in Seq(HostLine) /\ Versioned'
    BY <2>1, <2>2, <2>5, <2>6, SaidTyped
  <2>8. [request |-> owner, outcome |-> o] \in Stored
    BY <2>3 DEF Stored
  <2>9. results' \in Seq(Stored)
    BY <2>1, <2>8, Longer DEF Typed, LinesTyped
  <2>10. LinesTyped'
    BY <2>2, <2>3, <2>7, <2>9 DEF Typed, LinesTyped
  <2> QED BY <2>2, <2>7, <2>10 DEF Typed, ClientsTyped, Locked
<1>4. CASE Restart
  BY <1>4, RestartOwn DEF Typed, LinesTyped, ClientsTyped, Locked, Versioned
<1>5. CASE Lose
  <2>1. UNCHANGED <<pc, age, left, exit, probed, holder, version, owner, results, session,
                    running, begun>> /\ lost' = lost + 1
    BY <1>5, LoseOwn, Zenon
  <2>2. toDevice' \in Seq(DeviceLine) /\ toHost' \in Seq(HostLine)
    BY <1>5, LoseOwn, Shorter DEF Typed, LinesTyped
  <2>3. LinesTyped' /\ ClientsTyped' /\ Locked'
    BY <2>1, <2>2 DEF Typed, LinesTyped, ClientsTyped, Locked
  <2>4. ASSUME NEW i \in DOMAIN toHost' PROVE toHost'[i].kind = "other" <=> version' # 2
    <3>1. \/ i \in DOMAIN toHost /\ toHost'[i] = toHost[i]
          \/ i + 1 \in DOMAIN toHost /\ toHost'[i] = toHost[i + 1]
      <4>1. toHost \in Seq(HostLine)
        BY DEF Typed, LinesTyped
      <4>2. CASE toHost' = toHost
        BY <2>4, <4>2
      <4>3. CASE toHost # <<>> /\ toHost' = Tail(toHost)
        BY <2>4, <4>1, <4>3, Shorter
      <4> QED BY <1>5, <4>2, <4>3, LoseOwn
    <3> QED BY <2>1, <3>1 DEF Typed, Versioned
  <2> QED BY <2>3, <2>4 DEF Typed, Versioned
<1>6. CASE Tick
  <2>1. UNCHANGED <<pc, exit, probed, holder, version, owner, results, session, toDevice, toHost,
                    begun, lost>>
    BY <1>6, TickOwn, Zenon
  <2>2. running' \in Nat /\ age' \in [Clients -> Nat] /\ left' \in [Clients -> Nat]
    BY <1>6, TickOwn DEF Typed, LinesTyped
  <2> QED BY <2>1, <2>2 DEF Typed, LinesTyped, ClientsTyped, Locked, Versioned
<1>7. ASSUME NEW c \in Clients, Start(c) \/ Resolve(c) \/ OpenFails(c) PROVE Typed'
  <2>1. OwnStep(c) /\ pc[c] \notin AtDevice /\ pc'[c] \notin AtDevice /\ holder' = holder
    BY <1>7, StartOwn, ResolveOwn DEF AtDevice
  <2>2. Locked'
    BY <2>1, LockKept DEF Probed
  <2> QED BY <2>1, <2>2, OwnTyped DEF Typed
<1>8. ASSUME NEW c \in Clients, Open(c) PROVE Typed'
  <2>1. OwnStep(c) /\ holder = None /\ holder' = c /\ pc'[c] = "probing"
    BY <1>8, OpenOwn
  <2>2. Locked'
    BY <2>1, LockKept DEF AtDevice, Probed
  <2> QED BY <2>1, <2>2, OwnTyped DEF Typed
<1>9. ASSUME NEW c \in Clients, SendOperation(c) PROVE Typed'
  <2>1. OwnStep(c) /\ pc[c] = "sending" /\ holder = c
    BY <1>9, SendOwn DEF Typed, Locked, AtDevice
  <2>2. CASE Abandon(c, 4)
    BY <2>1, <2>2, AbandonTyped
  <2>3. CASE pc'[c] = "waiting" /\ holder' = holder
    <3>1. Locked'
      BY <2>1, <2>3, LockKept DEF AtDevice, Probed, Typed, Locked
    <3> QED BY <2>1, <3>1, OwnTyped DEF Typed
  <2> QED BY <1>9, <2>2, <2>3, SendOwn
<1>10. ASSUME NEW c \in Clients, Receive(c) PROVE Typed'
  <2>1. OwnStep(c) /\ holder = c /\ pc[c] \in {"probing", "waiting", "looking"}
        /\ toHost # <<>> /\ (Skips(c) \/ Takes(c) \/ Breaks(c))
    BY <1>10, ReceiveOwn
  <2>2. ASSUME NEW status \in Int, Abandon(c, status) PROVE Typed'
    BY <2>1, <2>2, AbandonTyped
  <2>3. CASE holder' = holder /\ pc'[c] \in {pc[c], "pausing"} /\ pc[c] # "probing"
    <3>1. Locked'
      BY <2>1, <2>3, LockKept DEF AtDevice, Probed, Typed, Locked
    <3> QED BY <2>1, <3>1, OwnTyped DEF Typed
  <2>4. CASE holder' = holder /\ pc'[c] = pc[c] /\ pc[c] = "probing"
    <3>1. Locked'
      BY <2>1, <2>4, LockKept DEF AtDevice, Probed, Typed, Locked
    <3> QED BY <2>1, <3>1, OwnTyped DEF Typed
  <2>5. CASE /\ Head(toHost).kind # "other" /\ Command[c] # "protocol" /\ pc'[c] = "sending"
             /\ pc[c] = "probing" /\ holder' = holder
    <3>1. version = 2
      <4>1. 1 \in DOMAIN toHost /\ Head(toHost) = toHost[1]
        BY <2>1, Shorter DEF Typed, LinesTyped
      <4> QED BY <2>5, <4>1 DEF Typed, Versioned
    <3>2. Command[c] \in Power
      BY <2>5, Budgets
    <3>3. Locked'
      BY <2>1, <2>5, <3>1, <3>2, LockKept DEF AtDevice, Probed
    <3> QED BY <2>1, <3>3, OwnTyped DEF Typed
  <2>6. Status(Head(toHost).outcome) \in Int
    BY StatusRange
  <2>7. CASE Skips(c)
    BY <2>1, <2>3, <2>4, <2>7 DEF Skips
  <2>8. CASE Takes(c)
    BY <2>1, <2>2, <2>3, <2>5, <2>6, <2>8 DEF Takes
  <2>9. CASE Breaks(c)
    BY <2>2, <2>9 DEF Breaks
  <2> QED BY <2>1, <2>7, <2>8, <2>9
<1>11. ASSUME NEW c \in Clients, Retry(c) PROVE Typed'
  <2>1. OwnStep(c) /\ pc[c] = "pausing" /\ holder = c
    BY <1>11, RetryOwn DEF Typed, Locked, AtDevice
  <2>2. CASE Abandon(c, 5)
    BY <2>1, <2>2, AbandonTyped
  <2>3. CASE pc'[c] = "sending" /\ holder' = holder
    <3>1. Locked'
      BY <2>1, <2>3, LockKept DEF AtDevice, Probed, Typed, Locked
    <3> QED BY <2>1, <3>1, OwnTyped DEF Typed
  <2> QED BY <1>11, <2>2, <2>3, RetryOwn
<1>12. ASSUME NEW c \in Clients, TimesOut(c) PROVE Typed'
  <2>1. OwnStep(c) /\ pc[c] \in {"probing", "waiting", "looking"} /\ holder = c
    BY <1>12, TimesOutOwn DEF Typed, Locked, AtDevice
  <2>2. CASE Abandon(c, 4)
    BY <2>1, <2>2, AbandonTyped
  <2>3. CASE pc[c] = "waiting" /\ pc'[c] = "looking" /\ holder' = holder
    <3>1. Locked'
      BY <2>1, <2>3, LockKept DEF AtDevice, Probed, Typed, Locked
    <3> QED BY <2>1, <3>1, OwnTyped DEF Typed
  <2> QED BY <1>12, <2>2, <2>3, TimesOutOwn
<1>13. ASSUME NEW c \in Clients, Dies(c) \/ Killed(c) PROVE Typed'
  BY <1>13, DiesOwn, AbandonTyped DEF Signal
<1>14. CASE AllDone
  BY <1>1, <1>14 DEF AllDone
<1> QED BY <1>1, <1>2, <1>3, <1>4, <1>5, <1>6, <1>7, <1>8, <1>9, <1>10, <1>11, <1>12, <1>13, <1>14,
           Zenon DEF Next

--------------------------------------------------------------------------------
(* What a client has spent and what it may still wait for are within its     *)
(* budget together, at every point of main.                                  *)
InTime(c) ==
  LET limit == Invocation[Command[c]] IN
  /\ pc[c] = "idle" => age[c] = 0
  /\ pc[c] \in {"resolving", "opening"} => age[c] <= Startup
  /\ pc[c] = "probing" => age[c] + left[c] <= Startup + ProbeTime
  /\ pc[c] \in {"sending", "done"} => age[c] <= limit
  /\ pc[c] \in {"waiting", "looking", "pausing"} => age[c] + left[c] <= limit
  /\ pc[c] \in {"waiting", "looking"} => age[c] + left[c] < limit

Timed == \A c \in Clients : InTime(c)

(* Wherever a client is, its time is not up. *)
LEMMA WithinLimit ==
  ASSUME Typed, NEW c \in Clients, InTime(c)
  PROVE  age[c] <= Invocation[Command[c]]
<1>1. age[c] \in Nat /\ left[c] \in Nat /\ pc[c] \in Points
  BY DEF Typed, ClientsTyped
<1> QED BY <1>1, Budgets DEF InTime, Points

LEMMA OthersInTime ==
  ASSUME Typed, Timed, NEW c \in Clients, OwnStep(c), InTime(c)'
  PROVE  Timed'
<1>1. ASSUME NEW d \in Clients, d # c PROVE InTime(d)'
  <2>1. pc'[d] = pc[d] /\ left'[d] = left[d] /\ age' = age
    BY <1>1 DEF OwnStep
  <2> QED BY <2>1 DEF Timed, InTime
<1> QED BY <1>1 DEF Timed

LEMMA AbandonInTime ==
  ASSUME Typed, Timed, NEW c \in Clients, NEW status \in Int, Abandon(c, status)
  PROVE  Timed'
<1>1. OwnStep(c) /\ pc'[c] = "done" /\ age' = age
  BY AbandonOwn DEF OwnStep
<1>2. age[c] <= Invocation[Command[c]]
  BY WithinLimit DEF Timed
<1>3. InTime(c)'
  BY <1>1, <1>2 DEF InTime
<1> QED BY <1>1, <1>3, OthersInTime

LEMMA TimedInitially == Init => Timed
BY Budgets DEF Init, Timed, InTime

LEMMA TimedStep == Typed /\ Timed /\ [Next]_vars => Timed'
<1> SUFFICES ASSUME Typed, Timed, [Next]_vars PROVE Timed'
  OBVIOUS
<1>1. CASE UNCHANGED <<pc, age, left>>
  BY <1>1 DEF Timed, InTime
<1>2. CASE ReadLine
  BY <1>1, <1>2, ReadOwn
<1>3. CASE EndOperation
  BY <1>1, <1>3, EndOwn
<1>4. CASE Restart
  BY <1>1, <1>4, RestartOwn
<1>5. CASE Lose
  BY <1>1, <1>5, LoseOwn
<1>6. CASE Tick
  <2> SUFFICES ASSUME NEW c \in Clients PROVE InTime(c)'
    BY DEF Timed
  <2>1. age[c] \in Nat /\ left[c] \in Nat /\ pc[c] \in Points /\ InTime(c)
    BY DEF Typed, ClientsTyped, Timed
  <2>2. /\ pc' = pc /\ pc[c] # "sending" /\ (pc[c] \in {"resolving", "opening"} => age[c] < Startup)
        /\ pc[c] \in {"probing", "waiting", "looking", "pausing"} => left[c] > 0
        /\ age'[c] = IF Awake(c) THEN age[c] + 1 ELSE age[c]
        /\ left'[c] = IF left[c] > 0 THEN left[c] - 1 ELSE 0
    BY <1>6, TickOwn
  <2>3. CASE pc[c] \in {"idle", "done"}
    BY <2>1, <2>2, <2>3 DEF InTime, Awake
  <2>4. CASE pc[c] \in {"resolving", "opening"}
    <3>1. age'[c] = age[c] + 1
      BY <2>2, <2>4 DEF Awake
    <3> QED BY <2>1, <2>2, <2>4, <3>1, Budgets DEF InTime
  <2>5. CASE pc[c] \in {"probing", "waiting", "looking", "pausing"}
    <3>1. age'[c] = age[c] + 1 /\ left'[c] = left[c] - 1
      BY <2>1, <2>2, <2>5 DEF Awake
    <3>2. age'[c] + left'[c] = age[c] + left[c]
      BY <2>1, <3>1
    <3> QED BY <2>1, <2>2, <2>5, <3>2 DEF InTime
  <2> QED BY <2>1, <2>2, <2>3, <2>4, <2>5 DEF Points
<1>7. ASSUME NEW c \in Clients, OwnStep(c), InTime(c)' PROVE Timed'
  BY <1>7, OthersInTime
<1>8. ASSUME NEW c \in Clients, NEW status \in Int, Abandon(c, status) PROVE Timed'
  BY <1>8, AbandonInTime
<1>9. ASSUME NEW c \in Clients, OwnStep(c)
      PROVE  age' = age /\ age[c] \in Nat /\ InTime(c) /\ age[c] <= Invocation[Command[c]]
  BY <1>9, WithinLimit DEF OwnStep, Typed, ClientsTyped, Timed
<1>10. ASSUME NEW c \in Clients, Start(c) PROVE Timed'
  <2>1. OwnStep(c) /\ pc[c] = "idle" /\ pc'[c] \in {"done", "resolving", "opening"}
    BY <1>10, StartOwn
  <2>2. age'[c] = 0
    BY <1>9, <2>1 DEF InTime
  <2>3. InTime(c)'
    BY <2>1, <2>2, Budgets DEF InTime
  <2> QED BY <1>7, <2>1, <2>3
<1>11. ASSUME NEW c \in Clients, Resolve(c) \/ OpenFails(c) PROVE Timed'
  <2>1. OwnStep(c) /\ pc[c] \in {"resolving", "opening"} /\ pc'[c] \in {"done", "opening"}
    BY <1>11, ResolveOwn
  <2>2. InTime(c)'
    BY <1>9, <2>1 DEF InTime
  <2> QED BY <1>7, <2>1, <2>2
<1>12. ASSUME NEW c \in Clients, Open(c) PROVE Timed'
  <2>1. OwnStep(c) /\ age[c] < Startup /\ pc'[c] = "probing" /\ left'[c] = ProbeTime
    BY <1>12, OpenOwn
  <2>2. InTime(c)'
    BY <1>9, <2>1, Budgets DEF InTime
  <2> QED BY <1>7, <2>1, <2>2
<1>13. ASSUME NEW c \in Clients, SendOperation(c) PROVE Timed'
  <2>1. CASE EnoughTime(c) /\ OwnStep(c) /\ pc'[c] = "waiting" /\ left'[c] = Deadline(c)
    <3>1. age'[c] + left'[c] < Invocation[Command[c]]
      BY <1>9, <2>1 DEF EnoughTime
    <3>2. age'[c] \in Nat /\ left'[c] \in Nat /\ Invocation[Command[c]] \in Nat
      BY <1>9, <2>1, Budgets DEF OwnStep
    <3>3. InTime(c)'
      BY <2>1, <3>1, <3>2 DEF InTime
    <3> QED BY <1>7, <2>1, <3>3
  <2> QED BY <1>8, <1>13, <2>1, SendOwn
<1>14. ASSUME NEW c \in Clients, Receive(c) PROVE Timed'
  <2>1. OwnStep(c) /\ (Skips(c) \/ Takes(c) \/ Breaks(c))
    BY <1>14, ReceiveOwn
  <2>2. CASE Skips(c)
    BY <1>1, <2>1, <2>2 DEF Skips, OwnStep
  <2>3. CASE Breaks(c)
    BY <1>8, <2>3 DEF Breaks
  <2>4. Status(Head(toHost).outcome) \in Int
    BY StatusRange
  <2>5. CASE pc[c] = "probing" /\ pc'[c] = "sending"
    <3>1. InTime(c)'
      BY <1>9, <2>1, <2>5 DEF InTime
    <3> QED BY <1>7, <2>1, <3>1
  <2>6. CASE pc[c] = "waiting" /\ pc'[c] = "pausing" /\ left'[c] = 1
    <3>1. age[c] + left[c] < Invocation[Command[c]] /\ left[c] \in Nat
      BY <1>9, <2>1, <2>6 DEF InTime, Typed, ClientsTyped
    <3>2. age'[c] + left'[c] <= Invocation[Command[c]]
      BY <1>9, <2>1, <2>6, <3>1, Budgets
    <3>3. InTime(c)'
      BY <2>6, <3>2 DEF InTime
    <3> QED BY <1>7, <2>1, <3>3
  <2> QED BY <1>8, <2>1, <2>2, <2>3, <2>4, <2>5, <2>6 DEF Takes
<1>15. ASSUME NEW c \in Clients, Retry(c) PROVE Timed'
  <2>1. CASE OwnStep(c) /\ pc'[c] = "sending"
    <3>1. InTime(c)'
      BY <1>9, <2>1 DEF InTime
    <3> QED BY <1>7, <2>1, <3>1
  <2> QED BY <1>8, <1>15, <2>1, RetryOwn
<1>16. ASSUME NEW c \in Clients, TimesOut(c) PROVE Timed'
  <2>1. CASE /\ OwnStep(c) /\ age[c] + LookupTime < Invocation[Command[c]]
             /\ pc'[c] = "looking" /\ left'[c] = LookupTime
    <3>1. age'[c] + left'[c] < Invocation[Command[c]]
      BY <1>9, <2>1
    <3>2. InTime(c)'
      BY <1>9, <2>1, <3>1, Budgets DEF InTime
    <3> QED BY <1>7, <2>1, <3>2
  <2> QED BY <1>8, <1>16, <2>1, TimesOutOwn
<1>17. ASSUME NEW c \in Clients, Dies(c) \/ Killed(c) PROVE Timed'
  BY <1>8, <1>17, DiesOwn DEF Signal
<1>18. CASE AllDone \/ UNCHANGED vars
  BY <1>1, <1>18, Zenon DEF AllDone, vars, clientVars
<1> QED BY <1>2, <1>3, <1>4, <1>5, <1>6, <1>10, <1>11, <1>12, <1>13, <1>14, <1>15, <1>16, <1>17,
           <1>18, Zenon DEF Next

(* InvocationIsBounded, for any budgets that leave the start-up its time:    *)
(* what a client waits for next is always within what is left.               *)
THEOREM InvocationsAreBounded == Spec => []InvocationIsBounded
<1>1. Init => Typed /\ Timed
  BY TypedInitially, TimedInitially
<1>2. (Typed /\ Timed) /\ [Next]_vars => (Typed /\ Timed)'
  BY TypedStep, TimedStep
<1>3. Typed /\ Timed => InvocationIsBounded
  BY WithinLimit DEF Timed, InvocationIsBounded
<1> QED BY <1>1, <1>2, <1>3, PTL DEF Spec

--------------------------------------------------------------------------------
(* A client has one line at a time under way that can begin its operation;   *)
(* it writes another only after a refusal, and a refused operation has not   *)
(* begun.                                                                    *)
OpFrom(c, line) == line.kind = "op" /\ line.from = c
BusyFor(c, line) == line.kind \in Power /\ line.id = c /\ line.outcome = "busy"
OpLines(c) == {i \in DOMAIN toDevice : OpFrom(c, toDevice[i])}
BusyLines(c) == {i \in DOMAIN toHost : BusyFor(c, toHost[i])}
Lone(S) == \A i, j \in S : i = j
Unsent == {"idle", "resolving", "opening", "probing", "sending", "pausing"}

Effect(c) ==
  /\ begun[c] \in 0 .. 1 /\ Lone(OpLines(c))
  /\ OpLines(c) # {} => begun[c] = 0
  /\ pc[c] \in Unsent => begun[c] = 0 /\ OpLines(c) = {} /\ BusyLines(c) = {}
  /\ pc[c] = "waiting" => /\ Lone(BusyLines(c))
                          /\ BusyLines(c) # {} => begun[c] = 0 /\ OpLines(c) = {}

Effects == \A c \in Clients : Effect(c)

LEMMA OpsKept ==
  ASSUME Typed, NEW c \in Clients,
         \/ toDevice' \in {toDevice, <<>>}
         \/ toDevice # <<>> /\ toDevice' = Tail(toDevice)
         \/ \E line \in DeviceLine : toDevice' = Append(toDevice, line) /\ ~OpFrom(c, line)
  PROVE  /\ OpLines(c) = {} => OpLines(c)' = {}
         /\ Lone(OpLines(c)) => Lone(OpLines(c)')
<1>1. toDevice \in Seq(DeviceLine)
  BY DEF Typed, LinesTyped
<1>2. CASE toDevice' = toDevice
  BY <1>2 DEF OpLines
<1>3. CASE toDevice' = <<>>
  BY <1>3 DEF OpLines, Lone
<1>4. CASE toDevice # <<>> /\ toDevice' = Tail(toDevice)
  <2>1. ASSUME NEW i \in OpLines(c)' PROVE i + 1 \in OpLines(c) /\ i \in Nat
    BY <1>1, <1>4, <2>1, Shorter DEF OpLines
  <2>2. Lone(OpLines(c)) => Lone(OpLines(c)')
    BY <2>1 DEF Lone
  <2> QED BY <2>1, <2>2
<1>5. ASSUME NEW line \in DeviceLine, toDevice' = Append(toDevice, line), ~OpFrom(c, line)
      PROVE  OpLines(c)' = OpLines(c)
  <2>1. ASSUME NEW i \in OpLines(c)' PROVE i \in OpLines(c)
    BY <1>1, <1>5, <2>1, Longer DEF OpLines
  <2>2. ASSUME NEW i \in OpLines(c) PROVE i \in OpLines(c)'
    BY <1>1, <1>5, <2>2, Longer DEF OpLines
  <2> QED BY <2>1, <2>2
<1>6. CASE OpLines(c)' = OpLines(c)
  BY <1>6
<1> QED BY <1>2, <1>3, <1>4, <1>5, <1>6

LEMMA BusyKept ==
  ASSUME Typed, NEW c \in Clients,
         \/ toHost' \in {toHost, <<>>}
         \/ toHost # <<>> /\ toHost' = Tail(toHost)
         \/ \E line \in HostLine : toHost' = Append(toHost, line) /\ ~BusyFor(c, line)
  PROVE  /\ BusyLines(c) = {} => BusyLines(c)' = {}
         /\ Lone(BusyLines(c)) => Lone(BusyLines(c)')
<1>1. toHost \in Seq(HostLine)
  BY DEF Typed, LinesTyped
<1>2. CASE toHost' = toHost
  BY <1>2 DEF BusyLines
<1>3. CASE toHost' = <<>>
  BY <1>3 DEF BusyLines, Lone
<1>4. CASE toHost # <<>> /\ toHost' = Tail(toHost)
  <2>1. ASSUME NEW i \in BusyLines(c)' PROVE i + 1 \in BusyLines(c) /\ i \in Nat
    BY <1>1, <1>4, <2>1, Shorter DEF BusyLines
  <2>2. Lone(BusyLines(c)) => Lone(BusyLines(c)')
    BY <2>1 DEF Lone
  <2> QED BY <2>1, <2>2
<1>5. ASSUME NEW line \in HostLine, toHost' = Append(toHost, line), ~BusyFor(c, line)
      PROVE  BusyLines(c)' = BusyLines(c)
  <2>1. ASSUME NEW i \in BusyLines(c)' PROVE i \in BusyLines(c)
    BY <1>1, <1>5, <2>1, Longer DEF BusyLines
  <2>2. ASSUME NEW i \in BusyLines(c) PROVE i \in BusyLines(c)'
    BY <1>1, <1>5, <2>2, Longer DEF BusyLines
  <2> QED BY <2>1, <2>2
<1>6. CASE BusyLines(c)' = BusyLines(c)
  BY <1>6
<1> QED BY <1>2, <1>3, <1>4, <1>5, <1>6

(* What keeps the lines of a client, or takes some away, keeps its effect.   *)
LEMMA EffectKept ==
  ASSUME NEW c \in Clients, Effect(c), begun'[c] = begun[c],
         OpLines(c) = {} => OpLines(c)' = {}, Lone(OpLines(c)) => Lone(OpLines(c)'),
         BusyLines(c) = {} => BusyLines(c)' = {}, Lone(BusyLines(c)) => Lone(BusyLines(c)'),
         pc'[c] \in Unsent => pc[c] \in Unsent, pc'[c] = "waiting" => pc[c] = "waiting"
  PROVE  Effect(c)'
<1>1. begun'[c] \in 0 .. 1 /\ Lone(OpLines(c)') /\ (OpLines(c)' # {} => begun'[c] = 0)
  BY DEF Effect
<1>2. pc'[c] \in Unsent => begun'[c] = 0 /\ OpLines(c)' = {} /\ BusyLines(c)' = {}
  BY DEF Effect
<1>3. pc'[c] = "waiting" => /\ Lone(BusyLines(c)')
                            /\ BusyLines(c)' # {} => begun'[c] = 0 /\ OpLines(c)' = {}
  BY DEF Effect
<1> QED BY <1>1, <1>2, <1>3 DEF Effect

(* A client's step is its own: the others' lines stay theirs. *)
LEMMA OthersEffect ==
  ASSUME Typed, Effects, NEW c \in Clients, OwnStep(c), Effect(c)'
  PROVE  Effects'
<1>1. ASSUME NEW d \in Clients, d # c PROVE Effect(d)'
  <2>1. pc'[d] = pc[d] /\ begun'[d] = begun[d]
    BY <1>1 DEF OwnStep
  <2>2. \/ toDevice' = toDevice
        \/ \E line \in DeviceLine : toDevice' = Append(toDevice, line) /\ ~OpFrom(d, line)
    <3>1. ASSUME NEW kind \in {"protocol", "op", "lookup"},
                 toDevice' = Append(toDevice, [kind |-> kind, from |-> c])
          PROVE  \E line \in DeviceLine : toDevice' = Append(toDevice, line) /\ ~OpFrom(d, line)
      <4>1. [kind |-> kind, from |-> c] \in DeviceLine /\ ~OpFrom(d, [kind |-> kind, from |-> c])
        BY <1>1 DEF DeviceLine, OpFrom
      <4> QED BY <3>1, <4>1
    <3> QED BY <3>1 DEF OwnStep
  <2>3. toHost' \in {toHost, <<>>} \/ (toHost # <<>> /\ toHost' = Tail(toHost))
    BY DEF OwnStep
  <2>4. /\ OpLines(d) = {} => OpLines(d)' = {}
        /\ Lone(OpLines(d)) => Lone(OpLines(d)')
    BY <2>2, OpsKept
  <2>5. /\ BusyLines(d) = {} => BusyLines(d)' = {}
        /\ Lone(BusyLines(d)) => Lone(BusyLines(d)')
    BY <2>3, BusyKept
  <2> QED BY <2>1, <2>4, <2>5, EffectKept DEF Effects
<1> QED BY <1>1 DEF Effects

(* As long as it writes no operation, so does its own. *)
LEMMA OwnEffect ==
  ASSUME Typed, Effects, NEW c \in Clients, OwnStep(c), ~Write("op", c),
         pc'[c] \in Unsent => pc[c] \in Unsent, pc'[c] = "waiting" => pc[c] = "waiting"
  PROVE  Effects'
<1>1. begun'[c] = begun[c] /\ Effect(c)
  BY DEF OwnStep, Effects
<1>2. \/ toDevice' = toDevice
      \/ \E line \in DeviceLine : toDevice' = Append(toDevice, line) /\ ~OpFrom(c, line)
  <2>1. ASSUME NEW kind \in {"protocol", "op", "lookup"},
               toDevice' = Append(toDevice, [kind |-> kind, from |-> c])
        PROVE  \E line \in DeviceLine : toDevice' = Append(toDevice, line) /\ ~OpFrom(c, line)
    <3>1. [kind |-> kind, from |-> c] \in DeviceLine /\ kind # "op"
      BY <2>1 DEF DeviceLine, Write
    <3>2. ~OpFrom(c, [kind |-> kind, from |-> c])
      BY <3>1 DEF OpFrom
    <3> QED BY <2>1, <3>1, <3>2
  <2> QED BY <2>1 DEF OwnStep
<1>3. toHost' \in {toHost, <<>>} \/ (toHost # <<>> /\ toHost' = Tail(toHost))
  BY DEF OwnStep
<1>4. /\ OpLines(c) = {} => OpLines(c)' = {}
      /\ Lone(OpLines(c)) => Lone(OpLines(c)')
  BY <1>2, OpsKept
<1>5. /\ BusyLines(c) = {} => BusyLines(c)' = {}
      /\ Lone(BusyLines(c)) => Lone(BusyLines(c)')
  BY <1>3, BusyKept
<1>6. Effect(c)'
  BY <1>1, <1>4, <1>5, EffectKept
<1> QED BY <1>6, OthersEffect

LEMMA EffectsInitially == Init => Effects
<1> SUFFICES ASSUME Init, NEW c \in Clients PROVE Effect(c)
  BY DEF Effects
<1>1. begun[c] = 0 /\ OpLines(c) = {} /\ BusyLines(c) = {} /\ pc[c] = "idle"
  BY DEF Init, OpLines, BusyLines
<1> QED BY <1>1 DEF Effect, Lone

LEMMA EffectsStep == Typed /\ Effects /\ [Next]_vars => Effects'
<1> SUFFICES ASSUME Typed, Effects, [Next]_vars PROVE Effects'
  OBVIOUS
<1> DEFINE OpsFew(c) == /\ OpLines(c) = {} => OpLines(c)' = {}
                        /\ Lone(OpLines(c)) => Lone(OpLines(c)')
           BusyFew(c) == /\ BusyLines(c) = {} => BusyLines(c)' = {}
                         /\ Lone(BusyLines(c)) => Lone(BusyLines(c)')
<1>1. ASSUME pc' = pc, begun' = begun, \A c \in Clients : OpsFew(c) /\ BusyFew(c) PROVE Effects'
  <2> SUFFICES ASSUME NEW c \in Clients PROVE Effect(c)'
    BY DEF Effects
  <2> QED BY <1>1, EffectKept DEF Effects
<1>2. ASSUME UNCHANGED <<pc, begun, toDevice, toHost>> PROVE Effects'
  BY <1>2 DEF Effects, Effect, OpLines, BusyLines
<1>3. CASE ReadLine
  <2> DEFINE line == Head(toDevice)
  <2>1. toDevice # <<>> /\ line \in DeviceLine /\ toDevice' = Tail(toDevice) /\ pc' = pc
    BY <1>3, ReadOwn
  <2>2. \A d \in Clients : OpsFew(d)
    BY <2>1, OpsKept
  <2>3. PICK c \in Clients : line.from = c /\ line = toDevice[1] /\ 1 \in DOMAIN toDevice
    <3>1. line.from \in Clients
      BY <2>1 DEF DeviceLine
    <3> QED BY <2>1, <3>1, Shorter DEF Typed, LinesTyped
  <2>4. ASSUME line.kind = "op"
        PROVE  /\ begun[c] = 0 /\ OpLines(c)' = {} /\ pc[c] \notin Unsent
               /\ pc[c] = "waiting" => BusyLines(c) = {}
    <3>1. 1 \in OpLines(c)
      BY <2>3, <2>4 DEF OpLines, OpFrom
    <3>2. begun[c] = 0 /\ Lone(OpLines(c)) /\ pc[c] \notin Unsent
          /\ (pc[c] = "waiting" => BusyLines(c) = {})
      BY <2>3, <3>1 DEF Effects, Effect
    <3>3. ASSUME NEW i \in OpLines(c)' PROVE FALSE
      <4>1. i + 1 \in OpLines(c) /\ i \in Nat /\ i # 0
        BY <2>1, <3>3, Shorter DEF OpLines, Typed, LinesTyped
      <4> QED BY <3>1, <3>2, <4>1 DEF Lone
    <3> QED BY <3>2, <3>3
  <2> HIDE DEF line
  <2>5. CASE line.kind = "op" /\ BeginsFor(c)
    <3>1. begun' = [begun EXCEPT ![c] = @ + 1] /\ toHost' = toHost
      BY <2>5, Zenon DEF BeginsFor
    <3>2. begun'[c] = begun[c] + 1 /\ \A d \in Clients \ {c} : begun'[d] = begun[d]
      BY <2>3, <3>1 DEF Typed, ClientsTyped
    <3>3. \A d \in Clients : BusyLines(d)' = BusyLines(d)
      BY <3>1 DEF BusyLines
    <3>4. Effect(c)'
      <4>1. begun'[c] = 1 /\ OpLines(c)' = {}
        BY <2>4, <2>5, <3>2
      <4>2. pc'[c] \notin Unsent /\ (pc'[c] = "waiting" => BusyLines(c)' = {})
        BY <2>1, <2>3, <2>4, <2>5, <3>3
      <4> QED BY <4>1, <4>2 DEF Effect, Lone
    <3>5. ASSUME NEW d \in Clients, d # c PROVE Effect(d)'
      BY <2>1, <2>2, <3>2, <3>3, <3>5, EffectKept DEF Effects
    <3> QED BY <3>4, <3>5 DEF Effects
  <2>6. CASE line.kind = "op" /\ Tells(Command[c], c, "busy")
    <3>1. begun' = begun /\ Say(Command[c], c, "busy")
      BY <2>6, Zenon DEF Tells
    <3>2. Command[c] \in Kinds \ {"other"}
      BY <2>3, Budgets DEF Kinds, Power
    <3>3. \/ toHost' = toHost
          \/ \E l \in HostLine : toHost' = Append(toHost, l) /\ l.id = c
      BY <2>3, <3>1, <3>2, Said
    <3>4. ASSUME NEW d \in Clients, d # c PROVE Effect(d)'
      <4>1. \/ toHost' = toHost
            \/ \E l \in HostLine : toHost' = Append(toHost, l) /\ ~BusyFor(d, l)
        BY <3>3, <3>4 DEF BusyFor
      <4>2. BusyFew(d)
        BY <4>1, BusyKept
      <4> QED BY <2>1, <2>2, <3>1, <3>4, <4>2, EffectKept DEF Effects
    <3>5. Effect(c)'
      <4>1. begun'[c] = 0 /\ OpLines(c)' = {} /\ pc'[c] \notin Unsent
        BY <2>1, <2>4, <2>6, <3>1
      <4>2. pc'[c] = "waiting" => Lone(BusyLines(c)')
        <5> SUFFICES ASSUME pc'[c] = "waiting" PROVE Lone(BusyLines(c)')
          OBVIOUS
        <5>1. BusyLines(c) = {}
          BY <2>1, <2>4, <2>6
        <5>2. CASE toHost' = toHost
          BY <5>1, <5>2 DEF BusyLines, Lone
        <5>3. ASSUME NEW l \in HostLine, toHost' = Append(toHost, l) PROVE Lone(BusyLines(c)')
          <6>1. ASSUME NEW i \in BusyLines(c)' PROVE i = Len(toHost) + 1
            BY <5>1, <5>3, <6>1, Longer DEF BusyLines, Typed, LinesTyped
          <6> QED BY <6>1 DEF Lone
        <5> QED BY <3>3, <5>2, <5>3
      <4> QED BY <4>1, <4>2 DEF Effect, Lone
    <3> QED BY <3>4, <3>5 DEF Effects
  <2>7. ASSUME NEW kind \in Kinds \ {"other"}, NEW outcome \in Outcomes \cup {"busy"},
               NEW d \in Clients, Tells(kind, d, outcome), ~(kind \in Power /\ outcome = "busy")
        PROVE  Effects'
    <3>1. begun' = begun /\ Say(kind, d, outcome)
      BY <2>7, Zenon DEF Tells
    <3>2. \/ toHost' = toHost
          \/ \E l \in HostLine : /\ toHost' = Append(toHost, l) /\ l.outcome = outcome
                                 /\ l.kind = IF version = 2 THEN kind ELSE "other"
      BY <3>1, Said
    <3>3. ASSUME NEW b \in Clients PROVE BusyFew(b)
      <4>1. ASSUME NEW l, l.outcome = outcome, l.kind = IF version = 2 THEN kind ELSE "other"
            PROVE  ~BusyFor(b, l)
        BY <2>7, <4>1 DEF BusyFor, Power
      <4> QED BY <3>2, <4>1, BusyKept
    <3> QED BY <1>1, <2>1, <2>2, <3>1, <3>3
  <2>8. ASSUME NEW i \in DOMAIN results,
               Tells(results[i].request.command, results[i].request.id, results[i].outcome)
        PROVE  Effects'
    <3>1. results[i] \in Stored
      BY DEF Typed, LinesTyped
    <3>2. PICK d \in Clients : results[i].request = Req(d)
      BY <3>1 DEF Stored, OwnRequests
    <3>3. results[i].request.command = Command[d] /\ results[i].request.id = d
      BY <3>2, Requested
    <3>4. results[i].request.command \in Kinds \ {"other"}
      BY <3>3, Budgets DEF Kinds, Power
    <3>5. results[i].outcome \in Outcomes /\ results[i].outcome # "busy"
      BY <3>1, ClientAssumption DEF Stored
    <3> QED BY <2>7, <2>8, <3>3, <3>4, <3>5
  <2>9. \/ line.kind = "op" /\ BeginsFor(c)
        \/ line.kind = "op" /\ Tells(Command[c], c, "busy")
        \/ \E kind \in {"protocol", "result"} : Tells(kind, c, "busy")
        \/ \E i \in DOMAIN results :
              Tells(results[i].request.command, results[i].request.id, results[i].outcome)
    BY <1>3, <2>3, ReadOwn DEF line
  <2>10. ASSUME NEW kind \in {"protocol", "result"}, Tells(kind, c, "busy") PROVE Effects'
    BY <2>3, <2>7, <2>10 DEF Kinds, Power
  <2> QED BY <2>5, <2>6, <2>8, <2>9, <2>10
<1>4. CASE EndOperation
  <2>1. UNCHANGED <<pc, toDevice, begun>> /\ owner \in OwnRequests
    BY <1>4, EndOwn, Zenon
  <2>2. PICK o \in Outcomes : Say(owner.command, owner.id, o)
    BY <1>4, EndOwn, Zenon
  <2>3. PICK d \in Clients : owner = Req(d)
    BY <2>1 DEF OwnRequests
  <2>4. owner.command \in Kinds \ {"other"} /\ owner.id = d
    BY <2>3, Requested, Budgets DEF Kinds, Power
  <2>5. \/ toHost' = toHost
        \/ \E l \in HostLine : toHost' = Append(toHost, l) /\ l.outcome = o
    BY <2>2, <2>4, Said
  <2>6. ASSUME NEW b \in Clients PROVE BusyFew(b)
    <3>1. o # "busy"
      BY ClientAssumption
    <3> QED BY <2>5, <3>1, BusyKept DEF BusyFor
  <2>7. ASSUME NEW b \in Clients PROVE OpsFew(b)
    BY <2>1, OpsKept
  <2> QED BY <1>1, <2>1, <2>6, <2>7
<1>5. CASE Restart
  <2>1. UNCHANGED <<pc, toHost, begun>> /\ toDevice' = <<>>
    BY <1>5, RestartOwn, Zenon
  <2>2. ASSUME NEW b \in Clients PROVE OpsFew(b) /\ BusyFew(b)
    BY <2>1, OpsKept, BusyKept
  <2> QED BY <1>1, <2>1, <2>2
<1>6. CASE Lose
  <2>1. UNCHANGED <<pc, begun>>
        /\ \/ toDevice # <<>> /\ toDevice' = Tail(toDevice) /\ UNCHANGED toHost
           \/ toHost # <<>> /\ toHost' = Tail(toHost) /\ UNCHANGED toDevice
    BY <1>6, LoseOwn, Zenon
  <2>2. ASSUME NEW b \in Clients PROVE OpsFew(b) /\ BusyFew(b)
    BY <2>1, OpsKept, BusyKept
  <2> QED BY <1>1, <2>1, <2>2
<1>7. CASE Tick
  BY <1>2, <1>7, TickOwn
<1>8. ASSUME NEW c \in Clients, NEW status \in Int, Abandon(c, status) PROVE Effects'
  <2>1. OwnStep(c) /\ pc'[c] = "done" /\ toDevice' = toDevice
    BY <1>8, AbandonOwn
  <2>2. ~Write("op", c)
    BY <2>1, Longer DEF Write, Typed, LinesTyped, DeviceLine
  <2> QED BY <2>1, <2>2, OwnEffect DEF Unsent
<1>9. ASSUME NEW c \in Clients, NEW kind,
             toDevice' = toDevice \/ (Write(kind, c) /\ kind \in {"protocol", "lookup"})
      PROVE  ~Write("op", c)
  <2>1. toDevice \in Seq(DeviceLine) /\ [kind |-> "op", from |-> c] \in DeviceLine
    BY <1>9 DEF Typed, LinesTyped, DeviceLine
  <2>2. CASE toDevice' = toDevice
    BY <2>1, <2>2, Longer DEF Write
  <2>3. CASE Write(kind, c) /\ kind \in {"protocol", "lookup"}
    <3>1. [kind |-> kind, from |-> c] \in DeviceLine
      BY <1>9, <2>3 DEF DeviceLine
    <3>2. toDevice'[Len(toDevice) + 1] = [kind |-> kind, from |-> c]
      BY <2>1, <2>3, <3>1, Longer DEF Write
    <3>3. Write("op", c) => toDevice'[Len(toDevice) + 1] = [kind |-> "op", from |-> c]
      BY <2>1, Longer DEF Write
    <3> QED BY <2>3, <3>2, <3>3
  <2> QED BY <1>9, <2>2, <2>3
<1>10. ASSUME NEW c \in Clients, Start(c) \/ Resolve(c) \/ OpenFails(c) PROVE Effects'
  <2>1. OwnStep(c) /\ toDevice' = toDevice /\ pc[c] \in Unsent /\ pc'[c] # "waiting"
    BY <1>10, StartOwn, ResolveOwn DEF Unsent
  <2> QED BY <1>9, <2>1, OwnEffect
<1>11. ASSUME NEW c \in Clients, Open(c) PROVE Effects'
  <2>1. OwnStep(c) /\ Write("protocol", c) /\ pc[c] \in Unsent /\ pc'[c] = "probing"
    BY <1>11, OpenOwn DEF Unsent
  <2> QED BY <1>9, <2>1, OwnEffect
<1>12. ASSUME NEW c \in Clients, SendOperation(c) PROVE Effects'
  <2>1. CASE /\ OwnStep(c) /\ pc[c] = "sending" /\ Write("op", c) /\ pc'[c] = "waiting"
             /\ toHost' = toHost
    <3>1. begun'[c] = begun[c] /\ begun[c] = 0 /\ OpLines(c) = {} /\ BusyLines(c) = {}
      BY <2>1 DEF OwnStep, Effects, Effect, Unsent
    <3>2. BusyLines(c)' = {}
      BY <2>1, <3>1 DEF BusyLines
    <3>3. toDevice \in Seq(DeviceLine) /\ [kind |-> "op", from |-> c] \in DeviceLine
      BY DEF Typed, LinesTyped, DeviceLine
    <3>4. ASSUME NEW i \in OpLines(c)' PROVE i = Len(toDevice) + 1
      BY <2>1, <3>1, <3>3, <3>4, Longer DEF OpLines, Write
    <3>5. Effect(c)'
      BY <2>1, <3>1, <3>2, <3>4 DEF Effect, Lone, Unsent
    <3> QED BY <2>1, <3>5, OthersEffect
  <2> QED BY <1>8, <1>12, <2>1, SendOwn
<1>13. ASSUME NEW c \in Clients, Receive(c) PROVE Effects'
  <2>1. OwnStep(c) /\ toHost # <<>> /\ (Skips(c) \/ Takes(c) \/ Breaks(c))
    BY <1>13, ReceiveOwn
  <2>2. CASE Skips(c)
    <3>1. toDevice' = toDevice /\ pc' = pc
      BY <2>2 DEF Skips
    <3> QED BY <1>9, <2>1, <3>1, OwnEffect
  <2>3. CASE Breaks(c)
    BY <1>8, <2>3 DEF Breaks
  <2>4. Status(Head(toHost).outcome) \in Int
    BY StatusRange
  <2>5. CASE pc[c] = "probing" /\ pc'[c] = "sending" /\ toDevice' = toDevice
    BY <1>9, <2>1, <2>5, OwnEffect DEF Unsent
  <2>6. CASE /\ pc[c] = "waiting" /\ pc'[c] = "pausing" /\ toDevice' = toDevice
             /\ Matches(c, Head(toHost)) /\ Head(toHost).outcome = "busy"
             /\ toHost' = Tail(toHost)
    <3>1. 1 \in DOMAIN toHost /\ Head(toHost) = toHost[1] /\ toHost \in Seq(HostLine)
      BY <2>1, Shorter DEF Typed, LinesTyped
    <3>2. Command[c] \in Power
      BY <2>6 DEF Typed, Locked, Probed, AtDevice
    <3>3. 1 \in BusyLines(c)
      BY <2>6, <3>1, <3>2 DEF BusyLines, BusyFor, Matches
    <3>4. Lone(BusyLines(c)) /\ begun[c] = 0 /\ OpLines(c) = {}
      BY <2>6, <3>3 DEF Effects, Effect
    <3>5. ASSUME NEW i \in BusyLines(c)' PROVE FALSE
      <4>1. i + 1 \in BusyLines(c) /\ i \in Nat /\ i # 0
        BY <2>1, <2>6, <3>1, <3>5, Shorter DEF BusyLines
      <4> QED BY <3>3, <3>4, <4>1 DEF Lone
    <3>6. begun'[c] = 0 /\ OpLines(c)' = {}
      BY <2>1, <2>6, <3>4 DEF OwnStep, OpLines
    <3>7. Effect(c)'
      BY <2>6, <3>5, <3>6 DEF Effect, Lone
    <3> QED BY <2>1, <3>7, OthersEffect
  <2> QED BY <1>8, <2>1, <2>2, <2>3, <2>4, <2>5, <2>6 DEF Takes
<1>14. ASSUME NEW c \in Clients, Retry(c) PROVE Effects'
  <2>1. CASE OwnStep(c) /\ pc[c] = "pausing" /\ pc'[c] = "sending" /\ toDevice' = toDevice
    BY <1>9, <2>1, OwnEffect DEF Unsent
  <2> QED BY <1>8, <1>14, <2>1, RetryOwn
<1>15. ASSUME NEW c \in Clients, TimesOut(c) PROVE Effects'
  <2>1. CASE OwnStep(c) /\ Write("lookup", c) /\ pc'[c] = "looking"
    BY <1>9, <2>1, OwnEffect DEF Unsent
  <2> QED BY <1>8, <1>15, <2>1, TimesOutOwn
<1>16. ASSUME NEW c \in Clients, Dies(c) \/ Killed(c) PROVE Effects'
  BY <1>8, <1>16, DiesOwn DEF Signal
<1>17. CASE AllDone \/ UNCHANGED vars
  BY <1>2, <1>17, Zenon DEF AllDone, vars, clientVars, historyVars, lineVars
<1> QED BY <1>3, <1>4, <1>5, <1>6, <1>7, <1>10, <1>11, <1>12, <1>13, <1>14, <1>15, <1>16, <1>17,
           Zenon DEF Next

(* AtMostOneEffect, for any number of invocations, restarts and lost lines.  *)
THEOREM EffectsAreSingle == Spec => []AtMostOneEffect
<1>1. Init => Typed /\ Effects
  BY TypedInitially, EffectsInitially
<1>2. (Typed /\ Effects) /\ [Next]_vars => (Typed /\ Effects)'
  BY TypedStep, EffectsStep
<1>3. Effects => AtMostOneEffect
  BY DEF Effects, Effect, AtMostOneEffect
<1> QED BY <1>1, <1>2, <1>3, PTL DEF Spec

--------------------------------------------------------------------------------
(* A result that is stored, or on its way, is that of an operation of its    *)
(* request which ended in its session; so is the one an exit status tells.   *)
Recorded == \A i \in DOMAIN results :
              <<results[i].request.id, session, results[i].outcome>> \in ended
TellsResult(line) == line.kind \in Power /\ line.outcome # "busy"
Honest(line) == TellsResult(line) => <<line.id, line.session, line.outcome>> \in ended
Told(c) ==
  /\ pc[c] # "done" => exit[c] = Running
  /\ Command[c] \in Power /\ exit[c] = 0 => <<c, probed[c], "ok">> \in ended
  /\ Command[c] \in Power /\ exit[c] = 6 => <<c, probed[c], "input_unconfirmed">> \in ended

Tellings ==
  /\ Recorded /\ (\A i \in DOMAIN toHost : Honest(toHost[i])) /\ (\A c \in Clients : Told(c))

LEMMA StatusMeans ==
  ASSUME NEW o
  PROVE  (Status(o) = 0 <=> o = "ok") /\ (Status(o) = 6 <=> o = "input_unconfirmed")
BY DEF Status

LEMMA TellingsInitially == Init => Tellings
BY DEF Init, SInit, Tellings, Recorded, Told, Running

(* Lines that go, and one honest line that comes, leave honest lines.        *)
LEMMA LinesHonest ==
  ASSUME Typed, Tellings, ended \subseteq ended',
         \/ toHost' \in {toHost, <<>>}
         \/ toHost # <<>> /\ toHost' = Tail(toHost)
         \/ \E line \in HostLine : toHost' = Append(toHost, line) /\ Honest(line)'
  PROVE  \A i \in DOMAIN toHost' : Honest(toHost[i])'
<1>1. toHost \in Seq(HostLine) /\ \A i \in DOMAIN toHost : Honest(toHost[i])
  BY DEF Typed, LinesTyped, Tellings
<1> SUFFICES ASSUME NEW i \in DOMAIN toHost', TellsResult(toHost'[i])
             PROVE  <<toHost'[i].id, toHost'[i].session, toHost'[i].outcome>> \in ended'
  BY DEF Honest, TellsResult
<1>2. CASE toHost' = toHost
  BY <1>1, <1>2 DEF Honest
<1>3. CASE toHost' = <<>>
  BY <1>3
<1>4. CASE toHost # <<>> /\ toHost' = Tail(toHost)
  <2>1. i + 1 \in DOMAIN toHost /\ toHost'[i] = toHost[i + 1]
    BY <1>1, <1>4, Shorter
  <2> QED BY <1>1, <2>1 DEF Honest
<1>5. ASSUME NEW line \in HostLine, toHost' = Append(toHost, line),
             TellsResult(line) => <<line.id, line.session, line.outcome>> \in ended'
      PROVE  <<toHost'[i].id, toHost'[i].session, toHost'[i].outcome>> \in ended'
  <2>1. (i \in DOMAIN toHost /\ toHost'[i] = toHost[i]) \/ toHost'[i] = line
    BY <1>1, <1>5, Longer
  <2> QED BY <1>1, <1>5, <2>1 DEF Honest
<1> QED BY <1>2, <1>3, <1>4, <1>5 DEF Honest, TellsResult

(* A client's step leaves what it did not tell. *)
LEMMA OwnTold ==
  ASSUME Typed, Tellings, NEW c \in Clients, OwnStep(c), Told(c)'
  PROVE  Tellings'
<1>1. UNCHANGED <<results, session, ended>>
      /\ (toHost' \in {toHost, <<>>} \/ (toHost # <<>> /\ toHost' = Tail(toHost)))
  BY DEF OwnStep
<1>2. \A i \in DOMAIN toHost' : Honest(toHost[i])'
  BY <1>1, LinesHonest
<1>3. Recorded'
  BY <1>1 DEF Tellings, Recorded
<1>4. ASSUME NEW d \in Clients, d # c PROVE Told(d)'
  <2>1. pc'[d] = pc[d] /\ exit'[d] = exit[d] /\ probed'[d] = probed[d]
    BY <1>4 DEF OwnStep
  <2> QED BY <1>1, <2>1 DEF Tellings, Told
<1> QED BY <1>2, <1>3, <1>4 DEF Tellings

LEMMA TellingsStep == Typed /\ Tellings /\ [Next]_vars => Tellings'
<1> SUFFICES ASSUME Typed, Tellings, [Next]_vars PROVE Tellings'
  OBVIOUS
<1>1. ASSUME UNCHANGED <<pc, exit, probed>>, ended \subseteq ended',
             \A i \in DOMAIN toHost' : Honest(toHost[i])', Recorded'
      PROVE  Tellings'
  BY <1>1 DEF Tellings, Told
<1>2. ASSUME UNCHANGED <<pc, exit, probed, results, session, ended, toHost>> PROVE Tellings'
  BY <1>2 DEF Tellings, Told, Recorded, Honest, TellsResult
<1>3. CASE ReadLine
  <2>1. UNCHANGED <<pc, exit, probed, session, ended>> /\ Head(toDevice) \in DeviceLine
    BY <1>3, ReadOwn
  <2>2. PICK c \in Clients : Head(toDevice).from = c
    BY <2>1 DEF DeviceLine
  <2>3. ASSUME results' = results, \A i \in DOMAIN toHost' : Honest(toHost[i])' PROVE Tellings'
    <3>1. Recorded'
      BY <2>1, <2>3 DEF Tellings, Recorded
    <3> QED BY <1>1, <2>1, <2>3, <3>1
  <2>4. CASE BeginsFor(c)
    <3>1. toHost' = toHost /\ results' = results
      BY <2>4, Zenon DEF BeginsFor
    <3> QED BY <1>2, <2>1, <3>1
  <2>5. ASSUME NEW kind \in Kinds \ {"other"}, NEW outcome \in Outcomes \cup {"busy"},
               NEW d \in Clients,
               Tells(kind, d, outcome),
               kind \in Power /\ outcome # "busy" => <<d, session, outcome>> \in ended
        PROVE  Tellings'
    <3>1. results' = results /\ Say(kind, d, outcome)
      BY <2>5, Zenon DEF Tells
    <3>2. \/ toHost' = toHost
          \/ \E l \in HostLine : /\ toHost' = Append(toHost, l) /\ l.id = d /\ l.session = session
                                 /\ l.outcome = outcome
                                 /\ l.kind = IF version = 2 THEN kind ELSE "other"
      BY <3>1, Said
    <3>3. ASSUME NEW l, l.id = d, l.session = session, l.outcome = outcome,
                 l.kind = IF version = 2 THEN kind ELSE "other"
          PROVE  Honest(l)'
      BY <2>1, <2>5, <3>3 DEF Honest, TellsResult, Power
    <3>4. \A i \in DOMAIN toHost' : Honest(toHost[i])'
      BY <2>1, <3>2, <3>3, LinesHonest
    <3> QED BY <2>3, <3>1, <3>4
  <2>6. ASSUME NEW i \in DOMAIN results,
               Tells(results[i].request.command, results[i].request.id, results[i].outcome)
        PROVE  Tellings'
    <3>1. results[i] \in Stored
      BY DEF Typed, LinesTyped
    <3>2. PICK d \in Clients : results[i].request = Req(d)
      BY <3>1 DEF Stored, OwnRequests
    <3>3. results[i].request.command = Command[d] /\ results[i].request.id = d
      BY <3>2, Requested
    <3>4. results[i].request.command \in Kinds \ {"other"} /\ results[i].outcome \in Outcomes
      BY <3>1, <3>3, Budgets DEF Kinds, Power, Stored
    <3>5. <<results[i].request.id, session, results[i].outcome>> \in ended
      BY DEF Tellings, Recorded
    <3> QED BY <2>5, <2>6, <3>3, <3>4, <3>5
  <2>7. \/ BeginsFor(c) \/ Tells(Command[c], c, "busy")
        \/ \E kind \in {"protocol", "result"} : Tells(kind, c, "busy")
        \/ \E i \in DOMAIN results :
              Tells(results[i].request.command, results[i].request.id, results[i].outcome)
    BY <1>3, <2>2, ReadOwn
  <2>8. ASSUME NEW kind \in {"protocol", "result", Command[c]}, Tells(kind, c, "busy")
        PROVE  Tellings'
    <3>1. kind \in Kinds \ {"other"}
      BY Budgets DEF Kinds, Power
    <3> QED BY <2>5, <2>8, <3>1
  <2> QED BY <2>4, <2>6, <2>7, <2>8
<1>4. CASE EndOperation
  <2>1. UNCHANGED <<pc, exit, probed, session>> /\ owner \in OwnRequests
    BY <1>4, EndOwn, Zenon
  <2>2. PICK o \in Outcomes : /\ results' = Append(results, [request |-> owner, outcome |-> o])
                              /\ Say(owner.command, owner.id, o)
                              /\ ended' = ended \cup {<<owner.id, session, o>>}
    BY <1>4, EndOwn, Zenon
  <2>3. PICK d \in Clients : owner = Req(d)
    BY <2>1 DEF OwnRequests
  <2>4. owner.command \in Kinds \ {"other"} /\ owner.id = d
    BY <2>3, Requested, Budgets DEF Kinds, Power
  <2>5. \/ toHost' = toHost
        \/ \E l \in HostLine : /\ toHost' = Append(toHost, l) /\ l.id = d /\ l.session = session
                               /\ l.outcome = o
    BY <2>2, <2>4, Said
  <2>6. ASSUME NEW l, l.id = d, l.session = session, l.outcome = o PROVE Honest(l)'
    BY <2>2, <2>4, <2>6 DEF Honest
  <2>7. \A i \in DOMAIN toHost' : Honest(toHost[i])'
    BY <2>2, <2>5, <2>6, LinesHonest
  <2>8. Recorded'
    <3>1. results \in Seq(Stored) /\ [request |-> owner, outcome |-> o] \in Stored
      BY <2>1 DEF Typed, LinesTyped, Stored
    <3>2. ASSUME NEW i \in DOMAIN results'
          PROVE  <<results'[i].request.id, session', results'[i].outcome>> \in ended'
      <4>1. (i \in DOMAIN results /\ results'[i] = results[i])
            \/ results'[i] = [request |-> owner, outcome |-> o]
        BY <2>2, <3>1, Longer
      <4> QED BY <2>1, <2>2, <4>1 DEF Tellings, Recorded
    <3> QED BY <3>2 DEF Recorded
  <2> QED BY <1>1, <2>1, <2>2, <2>7, <2>8
<1>5. CASE Restart
  <2>1. UNCHANGED <<pc, exit, probed, toHost, ended>> /\ results' = <<>>
    BY <1>5, RestartOwn, Zenon
  <2> QED BY <2>1 DEF Tellings, Told, Recorded, Honest, TellsResult
<1>6. CASE Lose
  <2>1. UNCHANGED <<pc, exit, probed, results, session, ended>>
        /\ (toHost' = toHost \/ (toHost # <<>> /\ toHost' = Tail(toHost)))
    BY <1>6, LoseOwn, Zenon
  <2>2. \A i \in DOMAIN toHost' : Honest(toHost[i])'
    BY <2>1, LinesHonest
  <2>3. Recorded'
    BY <2>1 DEF Tellings, Recorded
  <2> QED BY <1>1, <2>1, <2>2, <2>3
<1>7. CASE Tick
  BY <1>2, <1>7, TickOwn
<1>8. ASSUME NEW c \in Clients, NEW status \in Int, Abandon(c, status),
             Command[c] \in Power /\ status = 0 => <<c, probed[c], "ok">> \in ended,
             Command[c] \in Power /\ status = 6 => <<c, probed[c], "input_unconfirmed">> \in ended
      PROVE  Tellings'
  <2>1. OwnStep(c) /\ pc'[c] = "done" /\ exit'[c] = status /\ probed' = probed
    BY <1>8, AbandonOwn
  <2>2. Told(c)'
    BY <1>8, <2>1 DEF Told, OwnStep
  <2> QED BY <2>1, <2>2, OwnTold
<1>8a. ASSUME NEW c \in Clients, NEW status \in Int \ {0, 6}, Abandon(c, status) PROVE Tellings'
  <2>1. status # 0 /\ status # 6 /\ status \in Int
    OBVIOUS
  <2> QED BY <1>8, <1>8a, <2>1
<1>9. ASSUME NEW c \in Clients, OwnStep(c), pc[c] # "done", exit' = exit PROVE Tellings'
  <2>1. exit'[c] = Running
    BY <1>9 DEF Tellings, Told
  <2>2. Told(c)'
    BY <2>1 DEF Told, Running
  <2> QED BY <1>9, <2>2, OwnTold
<1>10. ASSUME NEW c \in Clients, OwnStep(c), pc'[c] = "done", exit'[c] \in {2, 3, 4} PROVE Tellings'
  <2>1. Told(c)'
    BY <1>10 DEF Told
  <2> QED BY <1>10, <2>1, OwnTold
<1>11. ASSUME NEW c \in Clients, Start(c) \/ Resolve(c) \/ OpenFails(c) PROVE Tellings'
  <2>1. OwnStep(c) /\ pc[c] # "done"
        /\ (exit' = exit \/ (pc'[c] = "done" /\ exit'[c] \in {2, 3, 4}))
    BY <1>11, StartOwn, ResolveOwn
  <2> QED BY <1>9, <1>10, <2>1
<1>12. ASSUME NEW c \in Clients, Open(c) PROVE Tellings'
  BY <1>9, <1>12, OpenOwn
<1>13. ASSUME NEW c \in Clients, SendOperation(c) PROVE Tellings'
  <2>1. OwnStep(c) /\ pc[c] # "done"
    BY <1>13, SendOwn
  <2>2. exit' = exit \/ Abandon(c, 4)
    BY <1>13, SendOwn
  <2> QED BY <1>8a, <1>9, <2>1, <2>2
<1>14. ASSUME NEW c \in Clients, Receive(c) PROVE Tellings'
  <2>1. /\ OwnStep(c) /\ pc[c] \in {"probing", "waiting", "looking"} /\ toHost # <<>>
        /\ Skips(c) \/ Takes(c) \/ Breaks(c)
    BY <1>14, ReceiveOwn
  <2>2. CASE Skips(c)
    BY <1>9, <2>1, <2>2 DEF Skips
  <2>3. CASE Breaks(c)
    BY <1>8a, <2>3 DEF Breaks
  <2>4. ASSUME pc[c] = "probing", Command[c] = "protocol", Abandon(c, 0) PROVE Tellings'
    <3>1. Command[c] \notin Power
      BY <2>4 DEF Power
    <3>2. 0 # 6 /\ 0 \in Int
      OBVIOUS
    <3> QED BY <1>8, <2>4, <3>1, <3>2, Zenon
  <2>5. CASE exit' = exit
    BY <1>9, <2>1, <2>5
  <2>6. ASSUME Matches(c, Head(toHost)), SameSession(c, Head(toHost)),
               pc[c] \in {"waiting", "looking"}, Abandon(c, Status(Head(toHost).outcome))
        PROVE  Tellings'
    <3> DEFINE line == Head(toHost)
    <3>1. Honest(line)
      BY <2>1, Shorter DEF Typed, LinesTyped, Tellings
    <3>2. line.kind = Command[c] /\ line.id = c /\ line.session = probed[c]
      BY <2>6 DEF Matches, SameSession
    <3>3. Command[c] \in Power
      BY <2>6 DEF Typed, Locked, Probed, AtDevice
    <3>4. line.outcome # "busy" => <<c, probed[c], line.outcome>> \in ended
      BY <3>1, <3>2, <3>3 DEF Honest, TellsResult
    <3> HIDE DEF line
    <3>5. Abandon(c, Status(line.outcome)) /\ Status(line.outcome) \in Int
      BY <2>6, StatusRange DEF line
    <3>6. /\ Status(line.outcome) = 0 => <<c, probed[c], "ok">> \in ended
          /\ Status(line.outcome) = 6 => <<c, probed[c], "input_unconfirmed">> \in ended
      BY <3>4, StatusMeans
    <3> QED BY <1>8, <3>5, <3>6
  <2> QED BY <2>1, <2>2, <2>3, <2>4, <2>5, <2>6 DEF Takes
<1>15. ASSUME NEW c \in Clients, Retry(c) PROVE Tellings'
  <2>1. OwnStep(c) /\ pc[c] # "done"
    BY <1>15, RetryOwn
  <2>2. exit' = exit \/ Abandon(c, 5)
    BY <1>15, RetryOwn
  <2> QED BY <1>8a, <1>9, <2>1, <2>2
<1>16. ASSUME NEW c \in Clients, TimesOut(c) PROVE Tellings'
  <2>1. OwnStep(c) /\ pc[c] # "done"
    BY <1>16, TimesOutOwn
  <2>2. exit' = exit \/ Abandon(c, 4)
    BY <1>16, TimesOutOwn
  <2> QED BY <1>8a, <1>9, <2>1, <2>2
<1>17. ASSUME NEW c \in Clients, Dies(c) \/ Killed(c) PROVE Tellings'
  <2>1. Abandon(c, 4) \/ Abandon(c, Signal)
    BY <1>17, DiesOwn
  <2>2. Signal \in Int \ {0, 6}
    BY DEF Signal
  <2> QED BY <1>8a, <2>1, <2>2
<1>18. CASE AllDone \/ UNCHANGED vars
  BY <1>2, <1>18, Zenon DEF AllDone, vars, clientVars, historyVars, lineVars, deviceVars, svars
<1> QED BY <1>3, <1>4, <1>5, <1>6, <1>7, <1>11, <1>12, <1>13, <1>14, <1>15, <1>16, <1>17,
           <1>18, Zenon DEF Next

(* StatusIsOwn, over any restarts, lost lines and answers of an older boot   *)
(* that a descriptor may still deliver.                                      *)
THEOREM StatusesAreOwn == Spec => []StatusIsOwn
<1>1. Init => Typed /\ Tellings
  BY TypedInitially, TellingsInitially
<1>2. (Typed /\ Tellings) /\ [Next]_vars => (Typed /\ Tellings)'
  BY TypedStep, TellingsStep
<1>3. Tellings => StatusIsOwn
  <2> SUFFICES ASSUME Tellings, NEW c \in Clients, NEW o \in Outcomes, Command[c] # "protocol",
                      exit[c] \in {0, 6}, exit[c] = Status(o)
               PROVE  <<c, probed[c], o>> \in ended
    BY DEF StatusIsOwn
  <2>1. Command[c] \in Power
    BY Budgets
  <2> QED BY <2>1, StatusMeans DEF Tellings, Told
<1> QED BY <1>1, <1>2, <1>3, PTL DEF Spec

--------------------------------------------------------------------------------
(* Only commands with an operation begin one. *)
Sensible ==
  /\ \A i \in DOMAIN toDevice : toDevice[i].kind = "op" => Command[toDevice[i].from] \in Power
  /\ owner # None => owner.command \in Power

(* While no line is lost and the controller has not restarted: what a client *)
(* waits for is on its way to the controller, begun there and on time, or on *)
(* its way back, so that it need not be looked up.                           *)
Fresh == \A i \in DOMAIN toHost : toHost[i].session = 0
OnTime == owner # None => running <= Operation[owner.command]
AnswerFor(c, line) == line.kind = Command[c] /\ line.id = c
Answered(c) == \E i \in DOMAIN toHost : AnswerFor(c, toHost[i])
Waits(c) ==
  \/ OpLines(c) # {} /\ left[c] = Deadline(c)
  \/ Answered(c)
  \/ owner = Req(c) /\ running + left[c] = Deadline(c)
Sure(c) ==
  /\ probed[c] = 0 /\ pc[c] # "looking" /\ (pc[c] = "waiting" => Waits(c))
  /\ exit[c] = 4 => begun[c] = 0 /\ OpLines(c) = {}

Calm == Fresh /\ OnTime /\ \A c \in Clients : Sure(c)
Certain == lost = 0 /\ session = 0 => ~gone /\ Calm

LEMMA SensibleInitially == Init => Sensible
BY DEF Init, SInit, Sensible

LEMMA SensibleStep == Typed /\ Sensible /\ [Next]_vars => Sensible'
<1> SUFFICES ASSUME Typed, Sensible, [Next]_vars PROVE Sensible'
  OBVIOUS
<1>1. toDevice \in Seq(DeviceLine)
  BY DEF Typed, LinesTyped
<1>2. ASSUME owner' \in {owner, None},
             \/ toDevice' \in {toDevice, <<>>}
             \/ toDevice # <<>> /\ toDevice' = Tail(toDevice)
             \/ \E line \in DeviceLine : /\ toDevice' = Append(toDevice, line)
                                         /\ line.kind = "op" => Command[line.from] \in Power
      PROVE  Sensible'
  <2>1. owner' # None => owner'.command \in Power
    BY <1>2 DEF Sensible
  <2>2. ASSUME NEW i \in DOMAIN toDevice', toDevice'[i].kind = "op"
        PROVE  Command[toDevice'[i].from] \in Power
    <3>1. CASE toDevice' \in {toDevice, <<>>}
      BY <2>2, <3>1 DEF Sensible
    <3>2. CASE toDevice # <<>> /\ toDevice' = Tail(toDevice)
      <4>1. i + 1 \in DOMAIN toDevice /\ toDevice'[i] = toDevice[i + 1]
        BY <1>1, <2>2, <3>2, Shorter
      <4> QED BY <2>2, <4>1 DEF Sensible
    <3>3. CASE \E line \in DeviceLine : /\ toDevice' = Append(toDevice, line)
                                        /\ line.kind = "op" => Command[line.from] \in Power
      <4>1. PICK line \in DeviceLine :
              /\ toDevice' = Append(toDevice, line)
              /\ line.kind = "op" => Command[line.from] \in Power
        BY <3>3
      <4>2. toDevice'[i] = line \/ (i \in DOMAIN toDevice /\ toDevice'[i] = toDevice[i])
        BY <1>1, <2>2, <4>1, Longer
      <4> QED BY <2>2, <4>1, <4>2 DEF Sensible
    <3> QED BY <1>2, <3>1, <3>2, <3>3
  <2> QED BY <2>1, <2>2 DEF Sensible
<1>3. CASE ReadLine
  <2>1. toDevice # <<>> /\ toDevice' = Tail(toDevice) /\ Head(toDevice) \in DeviceLine
    BY <1>3, ReadOwn
  <2>2. CASE UNCHANGED owner
    BY <1>2, <2>1, <2>2
  <2>3. CASE Head(toDevice).kind = "op" /\ owner' = Req(Head(toDevice).from)
    <3>1. Head(toDevice) = toDevice[1] /\ 1 \in DOMAIN toDevice /\ Head(toDevice).from \in Clients
      BY <1>1, <2>1, Shorter DEF DeviceLine
    <3>2. owner'.command \in Power
      BY <2>3, <3>1, Requested DEF Sensible
    <3>3. ASSUME NEW i \in DOMAIN toDevice', toDevice'[i].kind = "op"
          PROVE  Command[toDevice'[i].from] \in Power
      <4>1. i + 1 \in DOMAIN toDevice /\ toDevice'[i] = toDevice[i + 1]
        BY <1>1, <2>1, <3>3, Shorter
      <4> QED BY <3>3, <4>1 DEF Sensible
    <3> QED BY <3>2, <3>3 DEF Sensible
  <2> QED BY <1>3, <2>2, <2>3, ReadOwn DEF BeginsFor, Tells
<1>4. CASE EndOperation
  BY <1>2, <1>4, EndOwn
<1>5. CASE Restart
  BY <1>2, <1>5, RestartOwn
<1>6. CASE Lose
  BY <1>2, <1>6, LoseOwn
<1>7. CASE Tick
  BY <1>2, <1>7, TickOwn
<1>8. ASSUME NEW c \in Clients, OwnStep(c), ~Write("op", c) \/ Command[c] \in Power
      PROVE  Sensible'
  <2>1. owner' = owner
    BY <1>8 DEF OwnStep
  <2>2. ASSUME NEW kind \in {"protocol", "op", "lookup"},
               toDevice' = Append(toDevice, [kind |-> kind, from |-> c])
        PROVE  Sensible'
    <3>1. /\ [kind |-> kind, from |-> c] \in DeviceLine
          /\ kind = "op" => Command[c] \in Power
      BY <1>8, <2>2 DEF DeviceLine, Write
    <3> QED BY <1>2, <2>1, <2>2, <3>1
  <2>3. CASE toDevice' = toDevice
    BY <1>2, <2>1, <2>3
  <2> QED BY <1>8, <2>2, <2>3 DEF OwnStep
<1>9. ASSUME NEW c \in Clients, NEW status \in Int, Abandon(c, status) PROVE Sensible'
  BY <1>2, <1>9, AbandonOwn DEF OwnStep
<1>10. ASSUME NEW c \in Clients, OwnStep(c), toDevice' = toDevice PROVE Sensible'
  BY <1>2, <1>10 DEF OwnStep
<1>11. ASSUME NEW c \in Clients, NEW kind \in {"protocol", "lookup"}, Write(kind, c), OwnStep(c)
       PROVE  Sensible'
  <2>1. [kind |-> kind, from |-> c] \in DeviceLine /\ kind # "op" /\ owner' = owner
    BY <1>11 DEF DeviceLine, OwnStep
  <2> QED BY <1>2, <1>11, <2>1 DEF Write
<1>12. ASSUME NEW c \in Clients, Start(c) \/ Resolve(c) \/ OpenFails(c) PROVE Sensible'
  BY <1>10, <1>12, StartOwn, ResolveOwn
<1>13. ASSUME NEW c \in Clients, Open(c) PROVE Sensible'
  BY <1>11, <1>13, OpenOwn
<1>14. ASSUME NEW c \in Clients, SendOperation(c) PROVE Sensible'
  <2>1. OwnStep(c) /\ Command[c] \in Power
    BY <1>14, SendOwn DEF Typed, Locked, Probed, AtDevice
  <2> QED BY <1>8, <2>1
<1>15. ASSUME NEW c \in Clients, Receive(c) PROVE Sensible'
  <2>1. OwnStep(c) /\ (Skips(c) \/ Takes(c) \/ Breaks(c))
    BY <1>15, ReceiveOwn
  <2>2. toDevice' = toDevice \/ \E status \in Int : Abandon(c, status)
    BY <2>1, StatusRange DEF Skips, Takes, Breaks
  <2> QED BY <1>9, <1>10, <2>1, <2>2
<1>16. ASSUME NEW c \in Clients, Retry(c) PROVE Sensible'
  BY <1>9, <1>10, <1>16, RetryOwn
<1>17. ASSUME NEW c \in Clients, TimesOut(c) PROVE Sensible'
  <2>1. OwnStep(c) /\ (Abandon(c, 4) \/ Write("lookup", c))
    BY <1>17, TimesOutOwn
  <2> QED BY <1>9, <1>11, <2>1
<1>18. ASSUME NEW c \in Clients, Dies(c) \/ Killed(c) PROVE Sensible'
  BY <1>9, <1>18, DiesOwn DEF Signal
<1>19. CASE AllDone \/ UNCHANGED vars
  <2>1. UNCHANGED <<owner, toDevice>>
    BY <1>19, Zenon DEF AllDone, vars, lineVars, deviceVars, svars
  <2> QED BY <1>2, <2>1
<1> QED BY <1>3, <1>4, <1>5, <1>6, <1>7, <1>12, <1>13, <1>14, <1>15, <1>16, <1>17, <1>18, <1>19,
           Zenon DEF Next

(* Only a restart takes the device away from an open descriptor. *)
LEMMA GoneByRestart ==
  ASSUME [Next]_vars, session' = session, session \in Nat
  PROVE  ~gone => ~gone'
<1>1. CASE gone' = gone
  BY <1>1, Zenon
<1>2. CASE gone' = FALSE
  BY <1>2, Zenon
<1>3. ASSUME NEW c, NEW status, Abandon(c, status) PROVE ~gone => ~gone'
  BY <1>3, <1>2, Zenon DEF Abandon, Close
<1>4. CASE ReadLine \/ EndOperation \/ Lose \/ Tick \/ AllDone \/ UNCHANGED vars
  BY <1>1, <1>4, Zenon DEF ReadLine, EndOperation, Lose, Tick, AllDone, vars
<1>5. CASE Restart
  <2>1. session' = session + 1
    BY <1>5, Zenon DEF Restart
  <2> QED BY <2>1
<1>6. ASSUME NEW c, Start(c) \/ Resolve(c) \/ OpenFails(c) \/ Open(c) PROVE ~gone => ~gone'
  BY <1>1, <1>6, Zenon DEF Start, Resolve, OpenFails, Open, AtHome
<1>7. ASSUME NEW c, SendOperation(c) \/ Retry(c) PROVE ~gone => ~gone'
  BY <1>1, <1>3, <1>7, Zenon DEF SendOperation, Retry
<1>8. ASSUME NEW c, Receive(c) PROVE ~gone => ~gone'
  BY <1>1, <1>3, <1>8, Zenon DEF Receive, TakeProbe, TakeBusy
<1>9. ASSUME NEW c, TimesOut(c) \/ Dies(c) \/ Killed(c) PROVE ~gone => ~gone'
  BY <1>1, <1>3, <1>9, Zenon DEF TimesOut, Uncertain, Asks, Dies, Killed
<1> QED BY <1>4, <1>5, <1>6, <1>7, <1>8, <1>9, Zenon DEF Next

LEMMA FreshKept ==
  ASSUME Typed, Fresh,
         \/ toHost' \in {toHost, <<>>}
         \/ toHost # <<>> /\ toHost' = Tail(toHost)
         \/ \E line \in HostLine : toHost' = Append(toHost, line) /\ line.session = 0
  PROVE  Fresh'
<1>1. toHost \in Seq(HostLine) /\ \A i \in DOMAIN toHost : toHost[i].session = 0
  BY DEF Typed, LinesTyped, Fresh
<1> SUFFICES ASSUME NEW i \in DOMAIN toHost' PROVE toHost'[i].session = 0
  BY DEF Fresh
<1>2. CASE toHost' \in {toHost, <<>>}
  BY <1>1, <1>2
<1>3. CASE toHost # <<>> /\ toHost' = Tail(toHost)
  <2>1. i + 1 \in DOMAIN toHost /\ toHost'[i] = toHost[i + 1]
    BY <1>1, <1>3, Shorter
  <2> QED BY <1>1, <2>1
<1>4. ASSUME NEW line \in HostLine, toHost' = Append(toHost, line), line.session = 0
      PROVE  toHost'[i].session = 0
  <2>1. toHost'[i] = line \/ (i \in DOMAIN toHost /\ toHost'[i] = toHost[i])
    BY <1>1, <1>4, Longer
  <2> QED BY <1>1, <1>4, <2>1
<1> QED BY <1>2, <1>3, <1>4

(* A line that is under way stays so, unless it is the one that is read.     *)
LEMMA OpsStay ==
  ASSUME Typed, NEW c \in Clients,
         \/ toDevice' = toDevice
         \/ \E line \in DeviceLine : toDevice' = Append(toDevice, line)
         \/ toDevice # <<>> /\ toDevice' = Tail(toDevice) /\ ~OpFrom(c, Head(toDevice))
  PROVE  OpLines(c) # {} => OpLines(c)' # {}
<1> SUFFICES ASSUME NEW i \in OpLines(c) PROVE OpLines(c)' # {}
  OBVIOUS
<1>1. toDevice \in Seq(DeviceLine) /\ i \in DOMAIN toDevice /\ OpFrom(c, toDevice[i])
  BY DEF Typed, LinesTyped, OpLines
<1>2. CASE toDevice' = toDevice
  BY <1>2 DEF OpLines
<1>3. ASSUME NEW line \in DeviceLine, toDevice' = Append(toDevice, line) PROVE OpLines(c)' # {}
  <2>1. i \in DOMAIN toDevice' /\ toDevice'[i] = toDevice[i]
    BY <1>1, <1>3, Longer
  <2>2. i \in OpLines(c)'
    BY <1>1, <2>1 DEF OpLines, OpFrom
  <2> QED BY <2>2
<1>4. CASE toDevice # <<>> /\ toDevice' = Tail(toDevice) /\ ~OpFrom(c, Head(toDevice))
  <2>1. i # 1
    BY <1>1, <1>4, Shorter
  <2>2. i - 1 \in DOMAIN toDevice' /\ toDevice'[i - 1] = toDevice[i]
    BY <1>1, <1>4, <2>1, Shorter
  <2>3. i - 1 \in OpLines(c)'
    BY <1>1, <2>2 DEF OpLines, OpFrom
  <2> QED BY <2>3
<1> QED BY <1>2, <1>3, <1>4

LEMMA AnswersStay ==
  ASSUME Typed, NEW c \in Clients,
         \/ toHost' = toHost
         \/ \E line \in HostLine : toHost' = Append(toHost, line)
         \/ toHost # <<>> /\ toHost' = Tail(toHost) /\ ~AnswerFor(c, Head(toHost))
  PROVE  Answered(c) => Answered(c)'
<1> SUFFICES ASSUME NEW i \in DOMAIN toHost, AnswerFor(c, toHost[i]) PROVE Answered(c)'
  BY DEF Answered
<1>1. toHost \in Seq(HostLine)
  BY DEF Typed, LinesTyped
<1>2. CASE toHost' = toHost
  BY <1>2 DEF Answered, AnswerFor
<1>3. ASSUME NEW line \in HostLine, toHost' = Append(toHost, line) PROVE Answered(c)'
  <2>1. i \in DOMAIN toHost' /\ toHost'[i] = toHost[i]
    BY <1>1, <1>3, Longer
  <2> QED BY <2>1 DEF Answered, AnswerFor
<1>4. CASE toHost # <<>> /\ toHost' = Tail(toHost) /\ ~AnswerFor(c, Head(toHost))
  <2>1. i # 1
    BY <1>1, <1>4, Shorter
  <2>2. i - 1 \in DOMAIN toHost' /\ toHost'[i - 1] = toHost[i]
    BY <1>1, <1>4, <2>1, Shorter
  <2> QED BY <2>2 DEF Answered, AnswerFor
<1> QED BY <1>2, <1>3, <1>4

(* What is said to a client that waits is its answer. *)
LEMMA SaidAnswers ==
  ASSUME Typed, NEW c \in Clients, pc[c] = "waiting", NEW outcome \in Outcomes \cup {"busy"},
         Say(Command[c], c, outcome)
  PROVE  Answered(c)'
<1>1. holder = c /\ Command[c] \in Power /\ version = 2 /\ holder # None
  BY ClientAssumption DEF Typed, Locked, Probed, AtDevice
<1>2. Command[c] \in Kinds \ {"other"}
  BY <1>1 DEF Kinds, Power
<1> DEFINE line == [kind |-> Command[c], id |-> c, session |-> session, outcome |-> outcome]
<1>3. toHost' = Append(toHost, line)
  BY <1>1 DEF Say
<1>4. line \in HostLine
  BY <1>2 DEF HostLine, Typed, LinesTyped
<1>5. toHost \in Seq(HostLine)
  BY DEF Typed, LinesTyped
<1>6. Len(toHost) + 1 \in DOMAIN toHost' /\ toHost'[Len(toHost) + 1] = line
  BY <1>3, <1>4, <1>5, Longer
<1> QED BY <1>6 DEF Answered, AnswerFor

(* A client's step, by the lock, leaves the others to wait. *)
LEMMA OwnCalm ==
  ASSUME Typed, Calm, NEW c \in Clients, OwnStep(c), Sure(c)',
         toHost' = toHost \/ holder \in {c, None}
  PROVE  Calm'
<1>1. Fresh'
  BY FreshKept DEF OwnStep, Calm
<1>2. OnTime'
  BY DEF OwnStep, Calm, OnTime
<1>3. \/ toDevice' = toDevice
      \/ \E line \in DeviceLine : toDevice' = Append(toDevice, line) /\ line.from = c
  <2>1. ASSUME NEW kind \in {"protocol", "op", "lookup"},
               toDevice' = Append(toDevice, [kind |-> kind, from |-> c])
        PROVE  \E line \in DeviceLine : toDevice' = Append(toDevice, line) /\ line.from = c
    <3>1. [kind |-> kind, from |-> c] \in DeviceLine
      BY DEF DeviceLine
    <3> QED BY <2>1, <3>1
  <2> QED BY <2>1 DEF OwnStep
<1>4. ASSUME NEW d \in Clients, d # c PROVE Sure(d)'
  <2>1. /\ pc'[d] = pc[d] /\ exit'[d] = exit[d] /\ probed'[d] = probed[d] /\ left'[d] = left[d]
        /\ UNCHANGED <<owner, running, begun>> /\ Sure(d)
    BY <1>4 DEF OwnStep, Calm
  <2>2. OpLines(d) = {} => OpLines(d)' = {}
    BY <1>3, <1>4, OpsKept DEF OpFrom
  <2>3. OpLines(d) # {} => OpLines(d)' # {}
    BY <1>3, OpsStay
  <2>4. pc[d] = "waiting" => toHost' = toHost
    BY <1>4, ClientAssumption DEF Typed, Locked, AtDevice
  <2>5. pc'[d] = "waiting" => Waits(d)'
    BY <2>1, <2>3, <2>4, AnswersStay DEF Sure, Waits, Deadline
  <2> QED BY <2>1, <2>2, <2>5 DEF Sure
<1> QED BY <1>1, <1>2, <1>4 DEF Calm

LEMMA AbandonCalm ==
  ASSUME Typed, Calm, NEW c \in Clients, NEW status \in Int, Abandon(c, status), holder = c,
         status = 4 => begun[c] = 0 /\ OpLines(c) = {}
  PROVE  Calm'
<1>1. /\ OwnStep(c) /\ pc'[c] = "done" /\ exit'[c] = status /\ probed' = probed
      /\ toDevice' = toDevice /\ begun' = begun
  BY AbandonOwn DEF OwnStep
<1>2. Sure(c)'
  BY <1>1 DEF Calm, Sure, OpLines
<1> QED BY <1>1, <1>2, OwnCalm

LEMMA CertainInitially == Init => Certain
<1> SUFFICES ASSUME Init PROVE Certain
  OBVIOUS
<1>1. ~gone
  BY Zenon DEF Init
<1>2. Fresh /\ OnTime
  BY DEF Init, SInit, Fresh, OnTime
<1>3. ASSUME NEW c \in Clients PROVE Sure(c)
  BY DEF Init, Sure, OpLines
<1> QED BY <1>1, <1>2, <1>3, Zenon DEF Certain, Calm

(* What the controller does keeps the promise to every client that waits.    *)
LEMMA ReadCalm ==
  ASSUME Typed, Effects, Sensible, Calm, ReadLine, session = 0
  PROVE  Calm'
<1> DEFINE line == Head(toDevice)
<1>1. /\ toDevice # <<>> /\ line \in DeviceLine /\ toDevice' = Tail(toDevice)
      /\ UNCHANGED <<pc, left, exit, probed, holder, version>>
  BY ReadOwn
<1>2. PICK c \in Clients : line.from = c /\ line = toDevice[1] /\ 1 \in DOMAIN toDevice
  <2>1. line.from \in Clients
    BY <1>1 DEF DeviceLine
  <2> QED BY <1>1, <2>1, Shorter DEF Typed, LinesTyped
<1>3. ASSUME NEW d \in Clients
      PROVE  /\ OpLines(d) = {} => OpLines(d)' = {}
             /\ ~(line.kind = "op" /\ d = c) /\ OpLines(d) # {} => OpLines(d)' # {}
  <2>1. OpLines(d) = {} => OpLines(d)' = {}
    BY <1>1, OpsKept
  <2>2. ~(line.kind = "op" /\ d = c) => ~OpFrom(d, line)
    BY <1>2 DEF OpFrom
  <2> QED BY <1>1, <2>1, <2>2, OpsStay
<1>4. line.kind = "op" => OpLines(c) # {} /\ Command[c] \in Power
  BY <1>2 DEF OpLines, OpFrom, Sensible
<1> HIDE DEF line
<1>5. CASE line.kind = "op" /\ BeginsFor(c)
  <2>1. /\ owner = None /\ owner' = Req(c) /\ running' = 0 /\ toHost' = toHost
        /\ begun' = [begun EXCEPT ![c] = @ + 1]
    BY <1>5, Zenon DEF BeginsFor
  <2>2. Fresh'
    BY <2>1, FreshKept DEF Calm
  <2>3. Operation[owner'.command] \in Nat
    BY <1>4, <1>5, <2>1, Requested, Budgets
  <2>4. OnTime'
    BY <2>1, <2>3 DEF OnTime
  <2>5. ASSUME NEW d \in Clients, d # c PROVE Sure(d)'
    <3>1. begun'[d] = begun[d]
      BY <2>1, <2>5 DEF Typed, ClientsTyped
    <3>2. owner # Req(d)
      BY <2>1, Requested
    <3>3. pc[d] = "waiting" => Waits(d)'
      BY <1>1, <1>3, <2>1, <2>5, <3>2, AnswersStay DEF Calm, Sure, Waits, Deadline
    <3> QED BY <1>1, <1>3, <2>5, <3>1, <3>3 DEF Calm, Sure
  <2>6. Sure(c)'
    <3>1. owner # Req(c) /\ Sure(c)
      BY <2>1, Requested DEF Calm
    <3>2. exit'[c] # 4
      BY <1>1, <1>4, <1>5, <3>1 DEF Sure
    <3>3. ASSUME pc[c] = "waiting" PROVE Waits(c)'
      <4>1. left[c] = Deadline(c) \/ Answered(c)
        BY <3>1, <3>3 DEF Sure, Waits
      <4>2. CASE Answered(c)
        BY <2>1, <4>2, AnswersStay DEF Waits
      <4>3. CASE left[c] = Deadline(c)
        <5>1. Deadline(c) \in Nat
          BY <1>4, <1>5, Budgets
        <5>2. owner' = Req(c) /\ running' + left'[c] = Deadline(c)
          BY <1>1, <2>1, <4>3, <5>1
        <5> QED BY <5>2 DEF Waits, Deadline, Req
      <4> QED BY <4>1, <4>2, <4>3
    <3> QED BY <1>1, <3>1, <3>2, <3>3 DEF Sure
  <2> QED BY <2>2, <2>4, <2>5, <2>6 DEF Calm
<1>6. ASSUME NEW kind \in Kinds \ {"other"}, NEW outcome \in Outcomes \cup {"busy"},
             NEW b \in Clients,
             Tells(kind, b, outcome),
             line.kind = "op" /\ pc[c] = "waiting" => b = c /\ kind = Command[c]
      PROVE  Calm'
  <2>1. UNCHANGED <<owner, running, begun>> /\ Say(kind, b, outcome)
    BY <1>6, Zenon DEF Tells
  <2>2. \/ toHost' = toHost
        \/ \E l \in HostLine : toHost' = Append(toHost, l) /\ l.session = session
    BY <2>1, Said
  <2>3. Fresh'
    BY <2>2, FreshKept DEF Calm
  <2>4. OnTime'
    BY <2>1 DEF OnTime, Calm
  <2>5. ASSUME NEW d \in Clients PROVE Sure(d)'
    <3>1. Sure(d)
      BY DEF Calm
    <3>2. ASSUME pc[d] = "waiting" PROVE Waits(d)'
      <4>1. CASE line.kind = "op" /\ d = c
        <5>1. Answered(d)'
          BY <1>6, <2>1, <3>2, <4>1, SaidAnswers
        <5> QED BY <5>1 DEF Waits
      <4>2. CASE ~(line.kind = "op" /\ d = c)
        <5>1. Answered(d) => Answered(d)'
          BY <2>2, AnswersStay
        <5> QED BY <1>1, <1>3, <2>1, <3>1, <3>2, <4>2, <5>1 DEF Sure, Waits, Deadline
      <4> QED BY <4>1, <4>2
    <3> QED BY <1>1, <1>3, <2>1, <3>1, <3>2 DEF Sure
  <2> QED BY <2>3, <2>4, <2>5 DEF Calm
<1>7. ASSUME NEW i \in DOMAIN results, results[i].request.id = c,
             Tells(results[i].request.command, results[i].request.id, results[i].outcome)
      PROVE  Calm'
  <2>1. results[i] \in Stored
    BY DEF Typed, LinesTyped
  <2>2. PICK d \in Clients : results[i].request = Req(d)
    BY <2>1 DEF Stored, OwnRequests
  <2>3. results[i].request.command = Command[c] /\ results[i].request.id = c
    BY <1>7, <2>2, Requested
  <2>4. Command[c] \in Kinds \ {"other"} /\ results[i].outcome \in Outcomes
    BY <2>1, Budgets DEF Kinds, Power, Stored
  <2> QED BY <1>6, <1>7, <2>3, <2>4
<1>8. CASE line.kind = "op" /\ Tells(Command[c], c, "busy")
  <2>1. Command[c] \in Kinds \ {"other"}
    BY Budgets DEF Kinds, Power
  <2> QED BY <1>6, <1>8, <2>1
<1>9. ASSUME line.kind # "op", NEW kind \in {"protocol", "result"}, Tells(kind, c, "busy")
      PROVE  Calm'
  BY <1>6, <1>9 DEF Kinds
<1>10. \/ line.kind = "op" /\ BeginsFor(c)
       \/ line.kind = "op" /\ Tells(Command[c], c, "busy")
       \/ line.kind # "op" /\ \E kind \in {"protocol", "result"} : Tells(kind, c, "busy")
       \/ \E i \in DOMAIN results :
             /\ results[i].request.id = c
             /\ Tells(results[i].request.command, results[i].request.id, results[i].outcome)
  BY <1>2, ReadOwn DEF line
<1> QED BY <1>5, <1>7, <1>8, <1>9, <1>10

LEMMA EndCalm ==
  ASSUME Typed, Calm, EndOperation, session = 0
  PROVE  Calm'
<1>1. UNCHANGED <<pc, left, exit, probed, toDevice, running, begun>> /\ owner \in OwnRequests
      /\ owner' = None
  BY EndOwn, Zenon
<1>2. PICK o \in Outcomes : Say(owner.command, owner.id, o)
  BY EndOwn, Zenon
<1>3. PICK c \in Clients : owner = Req(c)
  BY <1>1 DEF OwnRequests
<1>4. owner.command = Command[c] /\ owner.id = c /\ Command[c] \in Kinds \ {"other"}
  BY <1>3, Requested, Budgets DEF Kinds, Power
<1>5. \/ toHost' = toHost
      \/ \E l \in HostLine : toHost' = Append(toHost, l) /\ l.session = session
  BY <1>2, <1>4, Said
<1>6. Fresh'
  BY <1>5, FreshKept DEF Calm
<1>7. OnTime'
  BY <1>1 DEF OnTime
<1>8. ASSUME NEW d \in Clients PROVE Sure(d)'
  <2>1. Sure(d)
    BY DEF Calm
  <2>2. OpLines(d)' = OpLines(d)
    BY <1>1 DEF OpLines
  <2>3. ASSUME pc[d] = "waiting" PROVE Waits(d)'
    <3>1. CASE owner = Req(d)
      <4>1. d = c
        BY <1>4, <3>1, Requested
      <4>2. Answered(d)'
        BY <1>2, <1>4, <2>3, <4>1, SaidAnswers
      <4> QED BY <4>2 DEF Waits
    <3>2. CASE owner # Req(d)
      BY <1>1, <1>5, <2>1, <2>2, <2>3, <3>2, AnswersStay DEF Sure, Waits, Deadline
    <3> QED BY <3>1, <3>2
  <2> QED BY <1>1, <2>1, <2>2, <2>3 DEF Sure
<1> QED BY <1>6, <1>7, <1>8 DEF Calm

(* Time does not pass for an operation that is over its own.                 *)
LEMMA TickCalm ==
  ASSUME Typed, Sensible, Calm, Tick
  PROVE  Calm'
<1>1. /\ UNCHANGED <<pc, exit, probed, owner, toDevice, toHost, begun>>
      /\ toDevice = <<>> /\ toHost = <<>>
  BY TickOwn
<1>2. Fresh'
  BY <1>1 DEF Calm, Fresh
<1>3. running \in Nat
  BY DEF Typed, LinesTyped
<1>4. OnTime'
  <2>1. owner # None => /\ running < Operation[owner.command] /\ running' = running + 1
                        /\ Operation[owner.command] \in Nat
    BY TickOwn, Budgets DEF Sensible
  <2>2. owner # None => running' <= Operation[owner.command]
    BY <1>3, <2>1
  <2> QED BY <1>1, <2>2 DEF OnTime
<1>5. ASSUME NEW c \in Clients PROVE Sure(c)'
  <2>1. Sure(c) /\ OpLines(c) = {} /\ ~Answered(c) /\ OpLines(c)' = {}
    BY <1>1 DEF Calm, OpLines, Answered
  <2>2. ASSUME pc[c] = "waiting" PROVE Waits(c)'
    <3>1. owner = Req(c) /\ running + left[c] = Deadline(c) /\ left[c] \in Nat
      BY <2>1, <2>2 DEF Sure, Waits, Typed, ClientsTyped
    <3>2. running' = running + 1 /\ left'[c] = left[c] - 1
      BY <2>2, <3>1, TickOwn, Requested
    <3>3. owner' = Req(c) /\ running' + left'[c] = Deadline(c)
      BY <1>1, <1>3, <3>1, <3>2
    <3> QED BY <3>3 DEF Waits, Deadline, Req
  <2> QED BY <1>1, <2>1, <2>2 DEF Sure
<1> QED BY <1>2, <1>4, <1>5 DEF Calm

(* When the time of a wait is up, an operation that is on time would have    *)
(* ended.                                                                    *)
LEMMA NoTimeOut ==
  ASSUME Typed, Sensible, Calm, NEW c \in Clients, TimesOut(c)
  PROVE  pc[c] = "probing" /\ Abandon(c, 4)
<1>1. /\ left[c] = 0 /\ toHost = <<>> /\ toDevice = <<>>
      /\ \/ pc[c] \in {"probing", "looking"} /\ Abandon(c, 4)
         \/ pc[c] = "waiting"
  BY Zenon DEF TimesOut
<1>2. pc[c] # "looking" /\ (pc[c] = "waiting" => Waits(c))
  BY DEF Calm, Sure
<1>3. ~Answered(c) /\ OpLines(c) = {}
  BY <1>1 DEF Answered, OpLines
<1>4. ASSUME pc[c] = "waiting" PROVE FALSE
  <2>1. owner = Req(c) /\ running + left[c] = Deadline(c)
    BY <1>2, <1>3, <1>4 DEF Waits
  <2>2. running <= Operation[Command[c]]
    BY <2>1, Requested DEF Calm, OnTime
  <2>3. Command[c] \in Power
    BY <1>4 DEF Typed, Locked, Probed, AtDevice
  <2> QED BY <1>1, <2>1, <2>2, <2>3, Budgets DEF Deadline, Typed, LinesTyped
<1> QED BY <1>1, <1>2, <1>4

LEMMA ReceiveCalm ==
  ASSUME Typed, Effects, Calm, session = 0, NEW c \in Clients, Receive(c)
  PROVE  Calm'
<1>1. /\ OwnStep(c) /\ holder = c /\ pc[c] \in {"probing", "waiting", "looking"} /\ toHost # <<>>
      /\ Skips(c) \/ Takes(c) \/ Breaks(c)
  BY ReceiveOwn
<1>2. /\ 1 \in DOMAIN toHost /\ Head(toHost) = toHost[1] /\ toHost[1].session = 0
      /\ version = 2 => Head(toHost).kind # "other"
  BY <1>1, Shorter DEF Typed, LinesTyped, Versioned, Calm, Fresh
<1>3. Sure(c) /\ pc[c] # "looking"
  BY DEF Calm, Sure
<1>4. ASSUME Sure(c)' PROVE Calm'
  BY <1>1, <1>4, OwnCalm
<1>5. ASSUME NEW status \in Int, Abandon(c, status),
             status = 4 => begun[c] = 0 /\ OpLines(c) = {}
      PROVE  Calm'
  BY <1>1, <1>5, AbandonCalm
<1>6. UNCHANGED <<begun, owner, running>>
  BY <1>1 DEF OwnStep
<1>7. CASE Skips(c)
  <2>1. UNCHANGED <<pc, left, exit, probed, toDevice>> /\ toHost' = Tail(toHost)
        /\ ~Matches(c, Head(toHost))
    BY <1>7 DEF Skips
  <2>2. pc[c] = "waiting" => ~AnswerFor(c, Head(toHost))
    BY <2>1 DEF Matches, AnswerFor
  <2>3. OpLines(c)' = OpLines(c)
    BY <2>1 DEF OpLines
  <2>4. pc[c] = "waiting" => Waits(c)'
    BY <1>1, <1>3, <1>6, <2>1, <2>2, <2>3, AnswersStay DEF Sure, Waits, Deadline
  <2> QED BY <1>3, <1>4, <1>6, <2>1, <2>3, <2>4 DEF Sure
<1>8. CASE Breaks(c)
  <2>1. pc[c] = "probing"
    <3>1. pc[c] = "waiting" => version = 2
      BY DEF Typed, Locked, Probed, AtDevice
    <3>2. probed[c] = 0
      BY <1>3 DEF Sure
    <3> QED BY <1>1, <1>2, <1>3, <1>8, <3>1, <3>2 DEF Breaks, SameSession
  <2>2. begun[c] = 0 /\ OpLines(c) = {}
    BY <2>1 DEF Effects, Effect, Unsent
  <2> QED BY <1>5, <1>8, <2>2 DEF Breaks
<1>9. CASE Takes(c)
  <2>1. ASSUME NEW status \in {0, 5, 6}, Abandon(c, status) PROVE Calm'
    BY <1>5, <2>1
  <2>2. CASE /\ pc[c] = "probing" /\ pc'[c] = "sending" /\ probed'[c] = Head(toHost).session
             /\ exit' = exit /\ toDevice' = toDevice
    <3>1. OpLines(c)' = OpLines(c)
      BY <2>2 DEF OpLines
    <3> QED BY <1>2, <1>3, <1>4, <1>6, <2>2, <3>1 DEF Sure
  <2>3. CASE pc'[c] = "pausing" /\ exit' = exit /\ UNCHANGED <<toDevice, probed>>
    <3>1. OpLines(c)' = OpLines(c)
      BY <2>3 DEF OpLines
    <3> QED BY <1>3, <1>4, <1>6, <2>3, <3>1 DEF Sure
  <2>4. Status(Head(toHost).outcome) \in {0, 5, 6}
    BY StatusRange
  <2> QED BY <1>9, <2>1, <2>2, <2>3, <2>4 DEF Takes
<1> QED BY <1>1, <1>7, <1>8, <1>9

LEMMA CalmStep ==
  ASSUME Typed, Effects, Tellings, Sensible, Calm, ~gone, session = 0, lost = 0,
         [Next]_vars, session' = 0, lost' = 0
  PROVE  Calm'
<1>1. ASSUME UNCHANGED <<pc, left, exit, probed, owner, running, begun, toDevice, toHost>>
      PROVE  Calm'
  <2>1. Fresh' /\ OnTime'
    BY <1>1 DEF Calm, Fresh, OnTime
  <2>2. ASSUME NEW c \in Clients PROVE Sure(c)'
    <3>1. OpLines(c)' = OpLines(c) /\ Answered(c)' = Answered(c)
      BY <1>1 DEF OpLines, Answered, AnswerFor
    <3> QED BY <1>1, <3>1 DEF Calm, Sure, Waits, Deadline
  <2> QED BY <2>1, <2>2 DEF Calm
<1>2. CASE ReadLine
  BY <1>2, ReadCalm
<1>3. CASE EndOperation
  BY <1>3, EndCalm
<1>4. CASE Restart
  BY <1>4, RestartOwn
<1>5. CASE Lose
  BY <1>5, LoseOwn
<1>6. CASE Tick
  BY <1>6, TickCalm
<1>7. ASSUME NEW c \in Clients, OwnStep(c), UNCHANGED <<toDevice, probed>>,
             pc'[c] \notin {"waiting", "looking"}, exit'[c] = 4 => exit[c] = 4 \/ pc[c] \in Unsent,
             toHost' = toHost \/ holder \in {c, None}
      PROVE  Calm'
  <2>1. OpLines(c)' = OpLines(c) /\ begun' = begun
    BY <1>7 DEF OpLines, OwnStep
  <2>2. exit'[c] = 4 => begun[c] = 0 /\ OpLines(c) = {}
    BY <1>7 DEF Calm, Sure, Effects, Effect
  <2>3. Sure(c)'
    BY <1>7, <2>1, <2>2 DEF Calm, Sure
  <2> QED BY <1>7, <2>3, OwnCalm
<1>8. ASSUME NEW c \in Clients, NEW status \in Int, Abandon(c, status), holder = c,
             status = 4 => pc[c] \in Unsent
      PROVE  Calm'
  BY <1>8, AbandonCalm DEF Effects, Effect
<1>9. ASSUME NEW c \in Clients, pc[c] \in AtDevice PROVE holder = c
  BY <1>9 DEF Typed, Locked
<1>9a. ASSUME NEW c \in Clients, pc[c] # "done" PROVE exit[c] # 4 /\ probed[c] = 0
  <2>1. Told(c) /\ Sure(c)
    BY Zenon DEF Tellings, Calm
  <2>2. exit[c] = Running
    BY <1>9a, <2>1, Zenon DEF Told
  <2> QED BY <2>1, <2>2 DEF Sure, Running
<1>10. ASSUME NEW c \in Clients, Start(c) PROVE Calm'
  <2>1. /\ OwnStep(c) /\ UNCHANGED <<toDevice, probed, toHost>> /\ pc[c] \in Unsent
        /\ pc'[c] \notin {"waiting", "looking"}
    BY <1>10, StartOwn DEF Unsent
  <2> QED BY <1>7, <2>1
<1>11. ASSUME NEW c \in Clients, Resolve(c) \/ OpenFails(c) PROVE Calm'
  <2>1. /\ OwnStep(c) /\ UNCHANGED <<toDevice, probed, toHost>> /\ pc[c] \in Unsent
        /\ pc'[c] \notin {"waiting", "looking"}
    BY <1>11, ResolveOwn DEF Unsent
  <2> QED BY <1>7, <2>1
<1>12. ASSUME NEW c \in Clients, Open(c) PROVE Calm'
  <2>1. /\ OwnStep(c) /\ holder = None /\ Write("protocol", c) /\ pc'[c] = "probing"
        /\ exit' = exit /\ probed' = probed /\ pc[c] = "opening"
    BY <1>12, OpenOwn
  <2>2. exit[c] # 4 /\ probed[c] = 0
    BY <1>9a, <2>1
  <2>3. Sure(c)'
    BY <2>1, <2>2 DEF Sure
  <2> QED BY <2>1, <2>3, OwnCalm
<1>13. ASSUME NEW c \in Clients, SendOperation(c) PROVE Calm'
  <2>1. OwnStep(c) /\ pc[c] = "sending" /\ probed' = probed /\ holder = c
    BY <1>9, <1>13, SendOwn DEF AtDevice
  <2>2. CASE Abandon(c, 4)
    BY <1>8, <2>1, <2>2 DEF Unsent
  <2>3. CASE Write("op", c) /\ pc'[c] = "waiting" /\ left'[c] = Deadline(c) /\ exit' = exit
    <3>1. exit[c] # 4 /\ probed[c] = 0
      BY <1>9a, <2>1
    <3>2. toDevice \in Seq(DeviceLine) /\ [kind |-> "op", from |-> c] \in DeviceLine
      BY DEF Typed, LinesTyped, DeviceLine
    <3>3. /\ Len(toDevice) + 1 \in DOMAIN toDevice'
          /\ toDevice'[Len(toDevice) + 1] = [kind |-> "op", from |-> c]
      BY <2>3, <3>2, Longer DEF Write
    <3>4. Len(toDevice) + 1 \in OpLines(c)'
      BY <3>3 DEF OpLines, OpFrom
    <3>5. Waits(c)'
      BY <2>3, <3>4 DEF Waits, Deadline
    <3>6. Sure(c)'
      BY <2>1, <2>3, <3>1, <3>5 DEF Sure
    <3> QED BY <2>1, <3>6, OwnCalm
  <2> QED BY <1>13, <2>2, <2>3, SendOwn
<1>14. ASSUME NEW c \in Clients, Receive(c) PROVE Calm'
  BY <1>14, ReceiveCalm
<1>15. ASSUME NEW c \in Clients, Retry(c) PROVE Calm'
  <2>1. OwnStep(c) /\ pc[c] = "pausing" /\ probed' = probed /\ holder = c
    BY <1>9, <1>15, RetryOwn DEF AtDevice
  <2>2. CASE Abandon(c, 5)
    BY <1>8, <2>1, <2>2
  <2>3. CASE pc'[c] = "sending" /\ exit' = exit /\ UNCHANGED <<toHost, toDevice>>
    BY <1>7, <2>1, <2>3 DEF Unsent
  <2> QED BY <1>15, <2>2, <2>3, RetryOwn
<1>16. ASSUME NEW c \in Clients, TimesOut(c) PROVE Calm'
  <2>1. pc[c] = "probing" /\ Abandon(c, 4)
    BY <1>16, NoTimeOut
  <2>2. holder = c
    BY <1>9, <2>1 DEF AtDevice
  <2> QED BY <1>8, <2>1, <2>2 DEF Unsent
<1>17. ASSUME NEW c \in Clients, Dies(c) PROVE Calm'
  BY <1>17, Zenon DEF Dies
<1>18. ASSUME NEW c \in Clients, Killed(c) PROVE Calm'
  <2>1. Abandon(c, Signal) /\ holder = c
    BY <1>18, Zenon DEF Killed
  <2> QED BY <1>8, <2>1 DEF Signal
<1>19. CASE AllDone \/ UNCHANGED vars
  BY <1>1, <1>19, Zenon DEF AllDone, vars, clientVars, historyVars, lineVars, deviceVars, svars
<1> QED BY <1>2, <1>3, <1>4, <1>5, <1>6, <1>10, <1>11, <1>12, <1>13, <1>14, <1>15, <1>16, <1>17,
           <1>18, <1>19, Zenon DEF Next

(* Faults are counted and never taken back. *)
LEMMA FaultsStay ==
  ASSUME Typed, [Next]_vars
  PROVE  session' = 0 /\ lost' = 0 => session = 0 /\ lost = 0
<1>1. CASE UNCHANGED <<session, lost>>
  BY <1>1
<1>2. session \in Nat /\ lost \in Nat
  BY DEF Typed, LinesTyped
<1>3. CASE ReadLine \/ EndOperation \/ Tick
  BY <1>1, <1>3, ReadOwn, EndOwn, TickOwn
<1>4. CASE Restart \/ Lose
  BY <1>2, <1>4, RestartOwn, LoseOwn
<1>5. ASSUME NEW c \in Clients, OwnStep(c)
      PROVE  session' = 0 /\ lost' = 0 => session = 0 /\ lost = 0
  BY <1>5 DEF OwnStep
<1>6. CASE AllDone \/ UNCHANGED vars
  BY <1>1, <1>6, Zenon DEF AllDone, vars, deviceVars, historyVars
<1>7. ASSUME NEW c \in Clients,
             \/ Start(c) \/ Resolve(c) \/ Open(c) \/ OpenFails(c) \/ SendOperation(c)
             \/ Receive(c) \/ Retry(c) \/ TimesOut(c) \/ Dies(c) \/ Killed(c)
      PROVE  OwnStep(c)
  BY <1>7, StartOwn, ResolveOwn, OpenOwn, SendOwn, ReceiveOwn, RetryOwn, TimesOutOwn, DiesOwn
<1> QED BY <1>3, <1>4, <1>5, <1>6, <1>7, Zenon DEF Next

(* UncertainOnlyByFault, for any limits of the operations and any budgets:   *)
(* the controller is done with an operation before the client's patience is, *)
(* whenever the client had the time to begin it.                             *)
THEOREM UncertaintyIsEarned == Spec => []UncertainOnlyByFault
<1> DEFINE Inv == Typed /\ Effects /\ Tellings /\ Sensible /\ Certain
<1>1. Init => Inv
  BY TypedInitially, EffectsInitially, TellingsInitially, SensibleInitially, CertainInitially
<1>2. Inv /\ [Next]_vars => Inv'
  <2> SUFFICES ASSUME Inv, [Next]_vars PROVE Inv'
    OBVIOUS
  <2>1. Typed' /\ Effects' /\ Tellings' /\ Sensible'
    BY TypedStep, EffectsStep, TellingsStep, SensibleStep
  <2>2. ASSUME lost' = 0, session' = 0 PROVE ~gone' /\ Calm'
    <3>1. session = 0 /\ lost = 0
      BY <2>2, FaultsStay
    <3>2. ~gone /\ Calm
      BY <3>1, Zenon DEF Certain
    <3>3. session' = session /\ session \in Nat
      BY <2>2, <3>1
    <3>4. ~gone'
      BY <3>2, <3>3, GoneByRestart, Zenon
    <3>5. Calm'
      BY <2>2, <3>1, <3>2, CalmStep
    <3> QED BY <3>4, <3>5
  <2>3. Certain'
    BY <2>2, Zenon DEF Certain
  <2> QED BY <2>1, <2>3
<1>3. Inv => UncertainOnlyByFault
  <2> SUFFICES ASSUME Inv, NEW c \in Clients, exit[c] = 4, begun[c] > 0, lost = 0, session = 0
               PROVE  FALSE
    BY DEF UncertainOnlyByFault, Typed, LinesTyped
  <2>1. Calm
    BY Zenon DEF Certain
  <2>2. begun[c] = 0
    BY <2>1 DEF Calm, Sure
  <2> QED BY <2>2
<1> QED BY <1>1, <1>2, <1>3, PTL DEF Spec

--------------------------------------------------------------------------------
(* The controller as the client meets it.                                    *)

LEMMA ServeIsService ==
  ASSUME NEW line \in DeviceLine, Serve(line) PROVE [SNext]_svars
<1> DEFINE r == IF line.kind = "lookup" THEN Lookup(line.from) ELSE Req(line.from)
           found == {e \in Latest : AnswersTo(r, e)}
<1>1. line.from \in Clients
  BY DEF DeviceLine
<1>2. r \in Requests /\ Req(line.from) \in Requests
  BY <1>1, RequestAssumption
<1>3. \/ OtherReply
      \/ \E e \in found : Recall(r, e)
      \/ line.kind = "op" /\ Accept(r)
  BY Zenon DEF Serve, Refuse
<1> QED BY <1>2, <1>3 DEF SNext

LEMMA ServiceStep == Typed /\ [Next]_vars => [SNext]_svars
<1> SUFFICES ASSUME Typed, [Next]_vars PROVE [SNext]_svars
  OBVIOUS
<1>1. CASE ReadLine
  <2>1. Head(toDevice) \in DeviceLine /\ Serve(Head(toDevice))
    BY <1>1, ReadOwn, Zenon DEF ReadLine
  <2>2. PICK line \in DeviceLine : Serve(line)
    BY <2>1
  <2> QED BY <2>2, ServeIsService
<1>2. CASE EndOperation
  BY <1>2 DEF EndOperation, SNext
<1>3. CASE Restart
  BY <1>3 DEF Restart, SNext
<1>4. CASE Lose \/ Tick \/ AllDone \/ UNCHANGED vars
  BY <1>4 DEF Lose, Tick, AllDone, vars, deviceVars, svars
<1>5. ASSUME NEW c \in Clients,
             \/ Start(c) \/ Resolve(c) \/ Open(c) \/ OpenFails(c) \/ SendOperation(c)
             \/ Receive(c) \/ Retry(c) \/ TimesOut(c) \/ Dies(c) \/ Killed(c)
      PROVE  UNCHANGED svars
  BY <1>5 DEF Start, Resolve, Open, OpenFails, SendOperation, Receive, Retry, TimesOut, Dies,
     Killed, Abandon, AtHome, deviceVars, TakeProbe, TakeBusy, Asks, Uncertain
<1> QED BY <1>1, <1>2, <1>3, <1>4, <1>5 DEF Next

(* With its clients, its lossy line and its restarts the controller remains  *)
(* a PowerService, which OperationGate implements (ImplementsService): the   *)
(* theorems above assume nothing of it that the gate does not do.            *)
THEOREM ControllerIsService == Spec => SSpec
<1>1. Init => SInit
  BY DEF Init
<1> QED BY <1>1, TypedInitially, TypedStep, ServiceStep, PTL DEF Spec, SSpec

--------------------------------------------------------------------------------
(* The cache of the address.                                                 *)

(* A temporary file is written in full before it is synchronized, and        *)
(* synchronized before it is renamed, so the data of the file that is in     *)
(* place has reached the disk.                                               *)
WholeInv ==
  /\ file # Nothing => file.whole /\ file.synced
  /\ point = "sync" => temp = [record |-> temp.record, synced |-> FALSE, whole |-> TRUE]
  /\ point = "rename" => temp.whole /\ temp.synced

LEMMA WholeInitially == CacheInit => WholeInv
BY DEF CacheInit, WholeInv

(* Only a rename and a power failure touch the file in place. *)
LEMMA WholeStep == WholeInv /\ [CacheNext]_cacheVars => WholeInv'
<1> SUFFICES ASSUME WholeInv, [CacheNext]_cacheVars PROVE WholeInv'
  OBVIOUS
<1>1. ASSUME file' = file, point' \notin {"sync", "rename"} PROVE WholeInv'
  BY <1>1 DEF WholeInv
<1>2. CASE ResolveAddress \/ Discovered \/ Load \/ Others \/ Compare
  BY <1>1, <1>2 DEF ResolveAddress, Discovered, Load, Others, Compare, Done, files
<1>3. CASE Identify
  BY <1>1, <1>3 DEF Identify, files
<1>4. CASE WriteTemp
  <2>1. file' = file
    BY <1>4, Zenon DEF WriteTemp
  <2>2. CASE point' = "done"
    BY <1>1, <2>1, <2>2
  <2>3. CASE temp' = [record |-> Record, synced |-> FALSE, whole |-> TRUE] /\ point' = "sync"
    <3>1. temp' = [record |-> temp'.record, synced |-> FALSE, whole |-> TRUE]
      BY <2>3
    <3> QED BY <2>1, <2>3, <3>1 DEF WholeInv
  <2> QED BY <1>4, <2>2, <2>3, Zenon DEF WriteTemp
<1>5. CASE Sync
  <2>1. file' = file
    BY <1>5, Zenon DEF Sync
  <2>2. CASE point' = "done"
    BY <1>1, <2>1, <2>2
  <2>3. CASE temp' = Synced(temp) /\ point' = "rename"
    <3>1. temp = [record |-> temp.record, synced |-> FALSE, whole |-> TRUE]
      BY <1>5 DEF Sync, WholeInv
    <3>2. temp'.whole /\ temp'.synced
      BY <2>3, <3>1 DEF Synced
    <3> QED BY <2>1, <2>3, <3>2 DEF WholeInv
  <2> QED BY <1>5, <2>2, <2>3, Zenon DEF Sync
<1>6. CASE Rename
  <2>1. point' = "done" /\ point = "rename" /\ file' \in {temp, file}
    BY <1>6, Zenon DEF Rename
  <2> QED BY <2>1 DEF WholeInv
<1>7. CASE Plug
  <2>1. UNCHANGED <<file, temp, point>>
    BY <1>7, Zenon DEF Plug, files
  <2> QED BY <2>1 DEF WholeInv
<1>8. CASE Kill
  BY <1>1, <1>8 DEF Kill, Stops, files
<1>9. CASE PowerFails
  <2>1. point' = "idle"
    BY <1>9, Zenon DEF PowerFails, Stops
  <2>2. file = Nothing \/ file.synced
    BY DEF WholeInv
  <2>3. file' = file
    BY <1>9, <2>2 DEF PowerFails
  <2> QED BY <1>1, <2>1, <2>3
<1>10. ASSUME NEW c \in Connectors, LookAt(c) PROVE WholeInv'
  BY <1>1, <1>10 DEF LookAt, files
<1>11. CASE UNCHANGED cacheVars
  <2>1. UNCHANGED <<file, temp, point>>
    BY <1>11, Zenon DEF cacheVars, files
  <2> QED BY <2>1 DEF WholeInv
<1> QED BY <1>2, <1>3, <1>4, <1>5, <1>6, <1>7, <1>8, <1>9, <1>10, <1>11 DEF CacheNext

(* Wherever a kill or a power failure falls, what the next invocation finds  *)
(* in place of the cache file is a whole record or nothing.                  *)
THEOREM CacheSurvives == CacheSpec => []FileIsWhole
<1>1. WholeInv => FileIsWhole
  BY DEF WholeInv, FileIsWhole
<1> QED BY <1>1, WholeInitially, WholeStep, PTL DEF CacheSpec

--------------------------------------------------------------------------------
(* When a cached address is used.                                            *)

(* The cached answer is the record of the file in place, and as long as      *)
(* nothing was plugged it passed both comparisons.                           *)
Alone(c) == selected = Nothing => \A o \in Connectors \ {c} : ~Connected(o)
CacheCompared ==
  /\ point \in {"others", "compare"} => file # Nothing /\ resolved.source # "cache"
  /\ point = "scan" => resolved.source # "cache"
  /\ point = "load" => resolved.source # "cache"
  /\ stable /\ point = "compare" => Alone(file.record.connector)
  /\ resolved.source = "cache" =>
       /\ point = "done"
       /\ stable => /\ Alone(resolved.connector)
                    /\ Identity(resolved.connector) \in {Nothing, file.record.display}

LEMMA CacheComparedInitially == CacheInit => CacheCompared
BY DEF CacheInit, CacheCompared, NoAnswer

(* What the displays show changes only where they are plugged. *)
LEMMA SameDisplays ==
  ASSUME UNCHANGED environment
  PROVE  \A c : /\ Connected(c)' = Connected(c) /\ Readable(c)' = Readable(c)
                /\ Offered(c)' = Offered(c) /\ Identity(c)' = Identity(c)
                /\ \A a : Bears(c, a)' = Bears(c, a)
BY DEF environment, Connected, Readable, Offered, Identity, Bears

LEMMA CacheComparedStep == CacheCompared /\ [CacheNext]_cacheVars => CacheCompared'
<1> SUFFICES ASSUME CacheCompared, [CacheNext]_cacheVars PROVE CacheCompared'
  OBVIOUS
<1>1. ASSUME resolved'.source # "cache", point' \notin {"others", "compare"} PROVE CacheCompared'
  BY <1>1 DEF CacheCompared
<1>2. NoAnswer.source # "cache" /\ \A a, c : Answer("edid", a, c).source # "cache"
  BY DEF NoAnswer, Answer
<1>3. CASE ResolveAddress \/ Kill \/ PowerFails
  BY <1>1, <1>2, <1>3 DEF ResolveAddress, Kill, PowerFails, Stops
<1>4. CASE Discovered
  <2>1. point = "scan" /\ resolved.source # "cache"
    BY <1>4 DEF Discovered, CacheCompared
  <2>2. point' \in {"done", "load", "identify"} /\ resolved'.source # "cache"
    BY <1>2, <1>4, <2>1 DEF Discovered, Done
  <2> QED BY <1>1, <2>2
<1>5. ASSUME point \in {"scan", "identify", "write", "sync", "rename"}, resolved' = resolved,
             point' \notin {"others", "compare"}
      PROVE  CacheCompared'
  BY <1>1, <1>5 DEF CacheCompared
<1>6. CASE Identify \/ WriteTemp \/ Sync \/ Rename
  BY <1>5, <1>6 DEF Identify, WriteTemp, Sync, Rename
<1>7. ASSUME NEW c \in Connectors, LookAt(c) PROVE CacheCompared'
  BY <1>5, <1>7 DEF LookAt
<1>8. CASE Load
  <2>1. CASE point' = "others" /\ file' = file /\ resolved' = resolved /\ file # Nothing
    <3>1. point = "load"
      BY <1>8, Zenon DEF Load
    <3> QED BY <2>1, <3>1 DEF CacheCompared
  <2>2. CASE Done(NoAnswer)
    BY <1>1, <1>2, <2>2 DEF Done
  <2> QED BY <1>8, <2>1, <2>2 DEF Load, files
<1>9. CASE Others
  <2>1. UNCHANGED <<environment, file, selected, stable>> /\ point = "others"
    BY <1>9, Zenon DEF Others, files, scan
  <2>2. CASE Done(NoAnswer)
    BY <1>1, <1>2, <2>2 DEF Done
  <2>3. CASE ~OtherConnected /\ point' = "compare" /\ resolved' = resolved
    <3>1. Alone(file.record.connector)
      BY <2>3, Zenon DEF OtherConnected, Alone
    <3>2. Alone(file.record.connector)'
      BY <2>1, <3>1, SameDisplays, Zenon DEF Alone
    <3>3. file' # Nothing /\ resolved'.source # "cache" /\ point' \notin {"scan", "load"}
      BY <2>1, <2>3 DEF CacheCompared
    <3> QED BY <3>2, <3>3, Zenon DEF CacheCompared
  <2> QED BY <1>9, <2>2, <2>3, Zenon DEF Others
<1>10. CASE Compare
  <2>1. UNCHANGED <<environment, file, selected, stable>> /\ point = "compare"
        /\ identity' = Identity(file.record.connector)
    BY <1>10, Zenon DEF Compare, files, scan
  <2>2. CASE Done(NoAnswer)
    BY <1>1, <1>2, <2>2 DEF Done
  <2>3. CASE /\ identity' \in {Nothing, file.record.display}
             /\ Done(Answer("cache", file.record.address, file.record.connector))
    <3>1. point' = "done" /\ resolved'.connector = file.record.connector
      BY <2>3 DEF Done, Answer
    <3>2. Identity(resolved.connector)' \in {Nothing, file'.record.display}
      <4>1. resolved'.connector = file.record.connector /\ file' = file
        BY <2>1, <3>1
      <4>2. Identity(resolved.connector)' = Identity(file.record.connector)
        BY <2>1, <4>1 DEF Identity, Readable, Connected, environment
      <4> QED BY <2>1, <2>3, <4>1, <4>2
    <3>3. ASSUME stable' PROVE Alone(resolved.connector)'
      <4>1. Alone(file.record.connector)
        BY <2>1, <3>3, Zenon DEF CacheCompared
      <4> QED BY <2>1, <3>1, <4>1 DEF Alone, Connected, environment
    <3>4. point' \notin {"others", "compare", "scan", "load"}
      BY <3>1
    <3> QED BY <3>1, <3>2, <3>3, <3>4, Zenon DEF CacheCompared
  <2> QED BY <1>10, <2>2, <2>3 DEF Compare
<1>11. CASE Plug
  <2>1. UNCHANGED <<file, point, resolved>> /\ ~stable'
    BY <1>11, Zenon DEF Plug, files
  <2> QED BY <2>1, Zenon DEF CacheCompared
<1>12. CASE UNCHANGED cacheVars
  <2>1. UNCHANGED <<environment, file, point, selected, resolved, stable>>
    BY <1>12, Zenon DEF cacheVars, files, scan
  <2>2. \A c : Alone(c)' = Alone(c)
    BY <2>1, SameDisplays, Zenon DEF Alone
  <2> QED BY <2>1, <2>2, SameDisplays, Zenon DEF CacheCompared
<1> QED BY <1>3, <1>4, <1>6, <1>7, <1>8, <1>9, <1>10, <1>11, <1>12, Zenon DEF CacheNext

(* A cached address is given only where no other output is connected and to  *)
(* no other display than the one it was read from, as far as that can be     *)
(* told: for every set of outputs, displays and EDIDs.                       *)
THEOREM CacheIsNeverAGuess == CacheSpec => []CacheIsUnambiguous
<1>1. CacheCompared => CacheIsUnambiguous
  BY Zenon DEF CacheCompared, Alone, CacheIsUnambiguous
<1> QED BY <1>1, CacheComparedInitially, CacheComparedStep, PTL DEF CacheSpec

--------------------------------------------------------------------------------
(* The discovered address.                                                   *)

(* That the scan of an EDID is right: the loop over its data blocks finds the*)
(* address that the blocks, taken one after another, carry.                  *)
ScanIsRight == \A d \in Displays : IsAddressOf(Extension[d], PhysicalAddress(Extension[d]))

(* The outputs that are looked at. *)
Looked == IF selected = Nothing THEN Connectors ELSE {selected}

(* Without a plug, the matches are what the outputs looked at so far offer.  *)
Matched ==
  /\ IsFiniteSet(matches)
  /\ \A m \in matches : m = <<m[1], m[2]>> /\ m[1] \in Connectors /\ m[2] # NoAddress
  /\ point = "scan" => todo \subseteq Looked /\ selected \in Connectors \cup {Nothing}
  /\ point = "scan" /\ stable =>
       /\ \A m \in matches : m[2] = Offered(m[1])
       /\ \A c \in Looked \ todo :
            Offered(c) # NoAddress => <<c, Offered(c)>> \in matches

Found(a) ==
  /\ a.address # NoAddress /\ a.address = Offered(a.connector) /\ a.connector \in Connectors
  /\ selected = Nothing => \A c \in Connectors : Offered(c) # NoAddress => c = a.connector

Unique == resolved.source = "edid" => point # "scan" /\ (stable => Found(resolved))

Discovery == Matched /\ Unique

LEMMA DiscoveryInitially == CacheInit => Discovery
BY FS_EmptySet DEF CacheInit, Discovery, Matched, Unique, NoAnswer

LEMMA SameOffers ==
  ASSUME UNCHANGED environment PROVE \A c : Offered(c)' = Offered(c)
BY SameDisplays, Zenon

LEMMA SameFound ==
  ASSUME UNCHANGED <<environment, selected, resolved>> PROVE Found(resolved)' <=> Found(resolved)
BY SameOffers DEF Found

(* One match: the only output that offers an address. *)
LEMMA OneMatch ==
  ASSUME Matched, point = "scan", todo = {}, stable, ~Ambiguous, NEW m \in matches
  PROVE  Found(Answer("edid", m[2], m[1]))
<1> DEFINE a == Answer("edid", m[2], m[1])
<1>1. a.address = m[2] /\ a.connector = m[1]
  BY DEF Answer
<1>2. \A n \in matches : n = m
  <2> SUFFICES ASSUME NEW n \in matches, n # m PROVE FALSE
    OBVIOUS
  <2>1. IsFiniteSet(matches) /\ Cardinality(matches) \in Nat /\ Cardinality(matches) <= 1
    BY FS_CardinalityType DEF Matched, Ambiguous
  <2>2. IsFiniteSet(matches \ {m}) /\ Cardinality(matches \ {m}) = Cardinality(matches) - 1
    BY <2>1, FS_RemoveElement
  <2>3. Cardinality(matches \ {m}) = 0
    BY <2>1, <2>2, FS_CardinalityType
  <2>4. matches \ {m} = {}
    BY <2>2, <2>3, FS_EmptySet
  <2> QED BY <2>4
<1>3. m[1] \in Connectors /\ m[2] # NoAddress /\ m[2] = Offered(m[1])
  BY Zenon DEF Matched
<1>4. ASSUME selected = Nothing, NEW c \in Connectors, Offered(c) # NoAddress PROVE c = m[1]
  <2>1. c \in Looked \ todo
    BY <1>4 DEF Looked
  <2>2. <<c, Offered(c)>> \in matches
    BY <1>4, <2>1, Zenon DEF Matched
  <2>3. <<c, Offered(c)>> = m
    BY <1>2, <2>2
  <2> QED BY <2>3
<1> HIDE DEF a
<1> QED BY <1>1, <1>3, <1>4, Zenon DEF Found, a

LEMMA LookAtDiscovers ==
  ASSUME Matched, Unique, NEW c \in Connectors, LookAt(c) PROVE Matched' /\ Unique'
<1>1. /\ UNCHANGED <<environment, point, selected, resolved, stable>>
      /\ point = "scan" /\ todo' = todo \ {c} /\ c \in todo
      /\ matches' = IF Offered(c) = NoAddress THEN matches ELSE matches \cup {<<c, Offered(c)>>}
  BY Zenon DEF LookAt
<1>2. IsFiniteSet(matches')
  BY <1>1, FS_AddElement DEF Matched
<1>3. \A m \in matches' : m \in matches \/ (m = <<c, Offered(c)>> /\ Offered(c) # NoAddress)
  BY <1>1
<1>4. \A m \in matches' : m = <<m[1], m[2]>> /\ m[1] \in Connectors /\ m[2] # NoAddress
  BY <1>3 DEF Matched
<1>5. Looked' = Looked /\ todo' \subseteq Looked' /\ selected' \in Connectors \cup {Nothing}
  BY <1>1 DEF Looked, Matched
<1>6. ASSUME stable', NEW m \in matches' PROVE m[2] = Offered(m[1])'
  <2>1. m[2] = Offered(m[1])
    <3>1. CASE m \in matches
      BY <1>1, <1>6, <3>1, Zenon DEF Matched
    <3>2. CASE m = <<c, Offered(c)>>
      BY <3>2
    <3> QED BY <1>3, <3>1, <3>2
  <2> QED BY <1>1, <2>1, SameDisplays, Zenon
<1>7. ASSUME stable', NEW o \in Looked \ todo', Offered(o)' # NoAddress
      PROVE  <<o, Offered(o)'>> \in matches'
  <2>1. Offered(o)' = Offered(o)
    BY <1>1, SameDisplays, Zenon
  <2>2. CASE o = c
    BY <1>1, <1>7, <2>1, <2>2
  <2>3. CASE o \in Looked \ todo
    <3>1. <<o, Offered(o)>> \in matches
      BY <1>1, <1>7, <2>1, <2>3, Zenon DEF Matched
    <3> QED BY <1>1, <2>1, <3>1
  <2> QED BY <1>1, <2>2, <2>3
<1>8. Matched'
  BY <1>2, <1>4, <1>5, <1>6, <1>7, Zenon DEF Matched
<1>9. Unique'
  BY <1>1, Zenon DEF Unique
<1> QED BY <1>8, <1>9

LEMMA DiscoveryStep == Discovery /\ [CacheNext]_cacheVars => Discovery'
<1> SUFFICES ASSUME Discovery, [CacheNext]_cacheVars PROVE Discovery'
  OBVIOUS
<1>1. Matched /\ Unique
  BY DEF Discovery
<1>2. ASSUME UNCHANGED matches, point' # "scan" PROVE Matched'
  BY <1>1, <1>2 DEF Matched
<1>3. ASSUME resolved'.source # "edid" PROVE Unique'
  BY <1>3 DEF Unique
<1>4. NoAnswer.source # "edid" /\ \A a, c : Answer("cache", a, c).source # "edid"
  BY DEF NoAnswer, Answer
<1>5. CASE ResolveAddress
  <2>1. /\ matches' = {} /\ selected' \in Connectors \cup {Nothing} /\ point' = "scan"
        /\ todo' = (IF selected' = Nothing THEN Connectors ELSE {selected'})
    BY <1>5, Zenon DEF ResolveAddress
  <2>2. todo' = Looked'
    BY <2>1 DEF Looked
  <2>3. Matched'
    BY <2>1, <2>2, FS_EmptySet DEF Matched
  <2>4. Unique'
    BY <1>3, <1>4, <1>5 DEF ResolveAddress
  <2> QED BY <2>3, <2>4 DEF Discovery
<1>6. CASE Discovered
  <2>1. /\ UNCHANGED <<environment, selected, matches, stable>> /\ point = "scan" /\ todo = {}
        /\ point' \in {"done", "load", "identify"}
    BY <1>6 DEF Discovered, Done, scan
  <2>2. Matched'
    BY <1>2, <2>1
  <2>3. CASE resolved' = NoAnswer
    BY <1>3, <1>4, <2>2, <2>3 DEF Discovery
  <2>4. CASE resolved' = resolved /\ point' = "load"
    <3>1. Unique'
      BY <1>1, <2>1, <2>4 DEF Unique
    <3> QED BY <2>2, <3>1 DEF Discovery
  <2>5. CASE ~Ambiguous /\ \E m \in matches : resolved' = Answer("edid", m[2], m[1])
    <3>1. PICK m \in matches : resolved' = Answer("edid", m[2], m[1])
      BY <2>5
    <3>2. stable => Found(resolved')
      BY <1>1, <2>1, <2>5, <3>1, OneMatch
    <3>3. stable => Found(resolved)'
      BY <2>1, <3>2, SameOffers DEF Found
    <3>4. point' # "scan"
      BY <2>1
    <3> QED BY <2>1, <2>2, <3>3, <3>4, Zenon DEF Discovery, Unique
  <2> QED BY <1>6, <2>3, <2>4, <2>5, Zenon DEF Discovered, Done
<1>7. ASSUME point \notin {"scan"}, point' # "scan", UNCHANGED <<environment, scan, stable>>,
             resolved' = resolved \/ resolved'.source # "edid"
      PROVE  Discovery'
  <2>1. UNCHANGED <<matches, selected>>
    BY <1>7, Zenon DEF scan
  <2>2. Unique'
    <3>1. CASE resolved' = resolved
      BY <1>1, <1>7, <2>1, <3>1, SameFound, Zenon DEF Unique
    <3>2. CASE resolved'.source # "edid"
      BY <1>3, <3>2
    <3> QED BY <1>7, <3>1, <3>2
  <2> QED BY <1>2, <1>7, <2>1, <2>2 DEF Discovery
<1>8. CASE Identify \/ WriteTemp \/ Sync \/ Rename
  BY <1>7, <1>8 DEF Identify, WriteTemp, Sync, Rename
<1>9. CASE Load \/ Others \/ Compare
  BY <1>4, <1>7, <1>9 DEF Load, Others, Compare, Done
<1>10. CASE Kill \/ PowerFails
  BY <1>2, <1>3, <1>4, <1>10 DEF Kill, PowerFails, Stops, scan, Discovery
<1>11. CASE Plug
  <2>1. UNCHANGED <<point, matches, todo, selected, resolved>> /\ ~stable'
    BY <1>11, Zenon DEF Plug, scan
  <2>2. Matched' /\ Unique'
    <3>1. Unique'
      BY <1>1, <2>1, Zenon DEF Unique
    <3>2. Looked' = Looked
      BY <2>1 DEF Looked
    <3>3. Matched'
      BY <1>1, <2>1, <3>2 DEF Matched
    <3> QED BY <3>1, <3>3
  <2> QED BY <2>2 DEF Discovery
<1>12. ASSUME NEW c \in Connectors, LookAt(c) PROVE Discovery'
  BY <1>1, <1>12, LookAtDiscovers DEF Discovery
<1>13. CASE UNCHANGED cacheVars
  <2>1. UNCHANGED <<environment, point, matches, todo, selected, resolved, stable>>
    BY <1>13, Zenon DEF cacheVars, scan
  <2>2. Matched' /\ Unique'
    <3>1. Unique'
      BY <1>1, <2>1, SameFound, Zenon DEF Unique
    <3>2. Matched'
      BY <1>1, <2>1, SameOffers, Zenon DEF Matched, Looked
    <3> QED BY <3>1, <3>2
  <2> QED BY <2>2 DEF Discovery
<1> QED BY <1>5, <1>6, <1>8, <1>9, <1>10, <1>11, <1>12, <1>13, Zenon DEF CacheNext

(* Given a right scan, an output bears the address it offers and no other. *)
LEMMA BearsOffered ==
  ASSUME ScanIsRight, NEW c, Readable(c), display[c] \in Displays
  PROVE  \A a : Bears(c, a) <=> a = Offered(c)
<1>1. IsAddressOf(Extension[display[c]], Offered(c))
  BY Zenon DEF ScanIsRight, Offered
<1>2. \A e, a, b : IsAddressOf(e, a) /\ IsAddressOf(e, b) => a = b
  BY Zenon DEF IsAddressOf
<1> QED BY <1>1, <1>2, Zenon DEF Bears

Plugged == display \in [Connectors -> Displays \cup {Nothing}]

LEMMA PluggedInitially == CacheInit => Plugged
BY DEF CacheInit, Plugged

LEMMA PluggedStep == Plugged /\ [CacheNext]_cacheVars => Plugged'
<1> SUFFICES ASSUME Plugged, [CacheNext]_cacheVars PROVE Plugged'
  OBVIOUS
<1>1. CASE Plug
  BY <1>1 DEF Plug, Plugged
<1>2. CASE UNCHANGED display
  BY <1>2 DEF Plugged
<1>3. CASE UNCHANGED cacheVars
  BY <1>2, <1>3, Zenon DEF cacheVars, environment
<1>4. ASSUME NEW c \in Connectors, LookAt(c) PROVE Plugged'
  BY <1>2, <1>4, Zenon DEF LookAt, environment
<1>5. CASE ResolveAddress \/ Discovered \/ Identify \/ WriteTemp \/ Sync \/ Rename
           \/ Load \/ Others \/ Compare \/ Kill \/ PowerFails
  BY <1>2, <1>5, Zenon DEF ResolveAddress, Discovered, Identify, WriteTemp, Sync, Rename, Load,
     Others, Compare, Kill, PowerFails, Stops, environment
<1> QED BY <1>1, <1>3, <1>4, <1>5 DEF CacheNext

(* While nobody touches the displays, the address discovered is that of the  *)
(* only output that offers one, or of the selected one, for every set of     *)
(* outputs and displays: of two outputs with an address none is chosen.      *)
THEOREM DiscoveryIsUnique ==
  ASSUME ScanIsRight PROVE CacheSpec => []DiscoveredIsUnique
<1>1. CacheInit => Discovery /\ Plugged
  BY DiscoveryInitially, PluggedInitially
<1>2. Discovery /\ Plugged /\ [CacheNext]_cacheVars => Discovery' /\ Plugged'
  BY DiscoveryStep, PluggedStep
<1>3. Discovery /\ Plugged => DiscoveredIsUnique
  <2> SUFFICES ASSUME Discovery, Plugged, point = "done", stable, resolved.source = "edid"
               PROVE  /\ resolved.address # NoAddress
                      /\ Bears(resolved.connector, resolved.address)
                      /\ \A c \in Connectors :
                           Readable(c) /\ ~Bears(c, NoAddress) =>
                             c = resolved.connector \/ selected # Nothing
    BY Zenon DEF DiscoveredIsUnique
  <2>1. Found(resolved)
    BY Zenon DEF Discovery, Unique
  <2>2. ASSUME NEW c \in Connectors, Readable(c)
        PROVE  \A a : Bears(c, a) <=> a = Offered(c)
    <3>1. display[c] \in Displays
      BY <2>2 DEF Plugged, Readable, Connected
    <3> QED BY <2>2, <3>1, BearsOffered
  <2>3. Readable(resolved.connector)
    BY <2>1, Zenon DEF Found, Offered
  <2>4. Bears(resolved.connector, resolved.address)
    BY <2>1, <2>2, <2>3, Zenon DEF Found
  <2>5. ASSUME NEW c \in Connectors, Readable(c), ~Bears(c, NoAddress), selected = Nothing
        PROVE  c = resolved.connector
    BY <2>1, <2>2, <2>5, Zenon DEF Found
  <2> QED BY <2>1, <2>4, <2>5, Zenon DEF Found
<1> QED BY <1>1, <1>2, <1>3, PTL DEF CacheSpec
================================================================================

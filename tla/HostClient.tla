------------------------------- MODULE HostClient -------------------------------
(***************************************************************************)
(* Invocations of the client, src/host/src/main.c, against the controller. *)
(* The controller is PowerService, which OperationGate implements; between *)
(* them is a serial line that may lose text, and a controller that may     *)
(* restart.  Time passes only when nobody has something to do: lines are   *)
(* read within one unit.                                                   *)
(***************************************************************************)
EXTENDS PowerService, Integers, FiniteSets

CONSTANTS
  Clients,     \* invocations, each with a random request id of its own
  Command,     \* the command of each invocation
  Invocation, Startup, ProbeTime, LookupTime, \* budgets of main, in units
  Operation,   \* the controller's limit for each command, as the probe tells it
  Slack,       \* what the client waits longer than that: 500 ms
  Boots,       \* bound: restarts of the controller
  Losses       \* bound: lines lost

Power == {"on", "standby", "status"}

ASSUME ClientAssumption ==
  /\ Command \in [Clients -> Power \cup {"protocol"}]
  /\ Invocation \in [Power \cup {"protocol"} -> Nat] /\ Operation \in [Power -> Nat]
  /\ {Startup, ProbeTime, LookupTime, Boots, Losses} \subseteq Nat /\ Slack \in Nat \ {0}
  /\ \A k \in Power \cup {"protocol"} : Startup + ProbeTime <= Invocation[k]
  /\ None \notin Clients /\ "busy" \notin Outcomes

VARIABLES
  pc, age, left, \* of each client: point in main, time since its start, to its deadline
  exit,          \* of each client: its exit status
  probed,        \* of each client: the session the probe named
  holder,        \* the client with the device's lock, or None
  gone,          \* the holder's descriptor has lost its device
  version,       \* of the controller's protocol
  session,       \* session_id, as a count of restarts
  running,       \* time since the operation in progress began
  toDevice, toHost, \* lines under way
  begun,         \* history: operations begun, by request id
  ended,         \* history: terminal results, with request id and session
  lost           \* history: lines lost

clientVars == <<pc, age, left, exit, probed, holder>>
historyVars == <<begun, ended, lost>>
lineVars == <<toDevice, toHost>>
deviceVars == <<svars, session, running>>
vars == <<clientVars, gone, version, deviceVars, lineVars, historyVars>>

Running == -1  \* no exit status yet
Signal == -9   \* killed

Req(c) == [command |-> Command[c], id |-> c, physical |-> "pc"]
Lookup(c) == [Req(c) EXCEPT !.command = "result"]

ASSUME RequestAssumption ==
  \A c \in Clients : Req(c) # None /\ {Req(c), Lookup(c)} \subseteq Requests

Say(kind, c, outcome) ==
  toHost' = IF holder = None THEN toHost
            ELSE Append(toHost, [kind |-> IF version = 2 THEN kind ELSE "other", id |-> c,
                                 session |-> session, outcome |-> outcome])
Write(kind, c) == toDevice' = Append(toDevice, [kind |-> kind, from |-> c])

--------------------------------------------------------------------------------
(* The controller.                                                           *)

(* A lookup that finds nothing is refused with command=result. *)
Refuse(kind, c) == OtherReply /\ Say(kind, c, "busy") /\ UNCHANGED <<running, begun>>

(* Result lines carry the request's own command, repeated or looked up.      *)
Serve(line) ==
  LET r == IF line.kind = "lookup" THEN Lookup(line.from) ELSE Req(line.from)
      found == {e \in Latest : AnswersTo(r, e)}
  IN  \/ line.kind = "protocol" /\ Refuse("protocol", line.from)
      \/ /\ line.kind # "protocol" /\ UNCHANGED <<running, begun>>
         /\ \E e \in found : Recall(r, e) /\ Say(e.request.command, e.request.id, e.outcome)
      \/ line.kind = "lookup" /\ found = {} /\ Refuse("result", line.from)
      \/ line.kind = "op" /\ found = {} /\ owner # None /\ Refuse(r.command, line.from)
      \/ /\ line.kind = "op" /\ found = {} /\ Accept(r) /\ running' = 0
         /\ begun' = [begun EXCEPT ![line.from] = @ + 1] /\ UNCHANGED toHost

ReadLine ==
  /\ toDevice # <<>> /\ toDevice' = Tail(toDevice)
  /\ Serve(Head(toDevice))
  /\ UNCHANGED <<clientVars, gone, version, session, ended, lost>>

EndOperation ==
  /\ \E o \in Outcomes : /\ Finish(o) /\ Say(owner.command, owner.id, o)
                         /\ ended' = ended \cup {<<owner.id, session, o>>}
  /\ UNCHANGED <<clientVars, gone, version, session, running, toDevice, begun, lost>>

(* A restart may leave the descriptor alive: text that came before is read.  *)
Restart ==
  /\ session < Boots /\ session' = session + 1
  /\ Reboot /\ running' = 0 /\ toDevice' = <<>>
  /\ gone' \in (IF holder = None THEN {gone} ELSE BOOLEAN)
  /\ UNCHANGED <<clientVars, version, toHost, historyVars>>

Lose ==
  /\ lost < Losses /\ lost' = lost + 1
  /\ \/ toDevice # <<>> /\ toDevice' = Tail(toDevice) /\ UNCHANGED toHost
     \/ toHost # <<>> /\ toHost' = Tail(toHost) /\ UNCHANGED toDevice
  /\ UNCHANGED <<clientVars, gone, version, deviceVars, begun, ended>>

--------------------------------------------------------------------------------
(* The client.                                                               *)

Go(c, point, wait) ==
  /\ pc' = [pc EXCEPT ![c] = point] /\ left' = [left EXCEPT ![c] = wait]
  /\ UNCHANGED <<age, exit>>

Exit(c, status) ==
  /\ pc' = [pc EXCEPT ![c] = "done"] /\ exit' = [exit EXCEPT ![c] = status]
  /\ left' = [left EXCEPT ![c] = 0] /\ UNCHANGED age

(* Closing gives the lock up; what arrives from then on is dropped.          *)
Close == holder' = None /\ toHost' = <<>> /\ gone' = FALSE
Abandon(c, status) ==
  Exit(c, status) /\ Close /\ UNCHANGED <<probed, version, deviceVars, toDevice, historyVars>>

AtHome(c) ==
  UNCHANGED <<probed, holder, gone, version, deviceVars, lineVars, historyVars>>

(* A wrong invocation or an unreadable configuration ends here. *)
Start(c) ==
  /\ pc[c] = "idle" /\ AtHome(c)
  /\ \/ \E status \in {2, 3} : Exit(c, status)
     \/ Go(c, IF Command[c] = "on" THEN "resolving" ELSE "opening", 0)

(* The address is found, or never: an ambiguity, or none until the deadline. *)
Resolve(c) ==
  /\ pc[c] = "resolving" /\ AtHome(c)
  /\ Go(c, "opening", 0) \/ Exit(c, 3)

(* The lock, exclusive use, flushed buffers and the probe. *)
Open(c) ==
  /\ pc[c] = "opening" /\ age[c] < Startup /\ holder = None
  /\ holder' = c /\ toHost' = <<>> /\ Write("protocol", c)
  /\ Go(c, "probing", ProbeTime)
  /\ UNCHANGED <<probed, gone, version, deviceVars, historyVars>>

(* No permission, or not before the deadline. *)
OpenFails(c) == pc[c] = "opening" /\ AtHome(c) /\ Exit(c, 4)

(* Fault: the time of the operation is not waited for. *)
DeadlineShort(c) == Slack
Deadline(c) == Operation[Command[c]] + Slack

(* Fault: the budget is checked for the client's own end only. *)
EnoughTimeNow(c) == age[c] < Invocation[Command[c]]
EnoughTime(c) == age[c] + Deadline(c) < Invocation[Command[c]]

(* No random id, or the line cannot be written: nothing has begun. *)
SendOperation(c) ==
  /\ pc[c] = "sending"
  /\ IF ~EnoughTime(c) THEN Abandon(c, 4)
     ELSE \/ /\ Go(c, "waiting", Deadline(c)) /\ Write("op", c)
             /\ UNCHANGED <<probed, holder, gone, version, deviceVars, toHost, historyVars>>
          \/ Abandon(c, 4)

Matches(c, line) ==
  IF pc[c] = "probing" THEN line.kind = "protocol" ELSE line.kind = Command[c] /\ line.id = c

(* Fault: a reply of any session is taken. *)
SameSessionAny(c, line) == TRUE
SameSession(c, line) == pc[c] = "probing" \/ line.session = probed[c]

Status(outcome) ==
  CASE outcome = "ok" -> 0 [] outcome = "input_unconfirmed" -> 6 [] OTHER -> 5

TakeProbe(c, line) ==
  IF Command[c] = "protocol" THEN Abandon(c, 0)
  ELSE /\ Go(c, "sending", 0) /\ probed' = [probed EXCEPT ![c] = line.session]
       /\ toHost' = Tail(toHost)
       /\ UNCHANGED <<holder, gone, version, deviceVars, toDevice, historyVars>>

TakeBusy(c) ==
  /\ Go(c, "pausing", 1) /\ toHost' = Tail(toHost)
  /\ UNCHANGED <<probed, holder, gone, version, deviceVars, toDevice, historyVars>>

(* read_reply: other lines are skipped, another protocol version is an error.*)
Receive(c) ==
  /\ pc[c] \in {"probing", "waiting", "looking"} /\ holder = c /\ toHost # <<>>
  /\ LET line == Head(toHost) IN
     IF line.kind = "other" \/ (Matches(c, line) /\ ~SameSession(c, line)) THEN Abandon(c, 4)
     ELSE IF ~Matches(c, line)
       THEN /\ toHost' = Tail(toHost)
            /\ UNCHANGED <<clientVars, gone, version, deviceVars, toDevice, historyVars>>
     ELSE IF pc[c] = "probing" THEN TakeProbe(c, line)
     ELSE IF line.outcome = "busy" /\ pc[c] = "waiting" THEN TakeBusy(c)
     ELSE Abandon(c, Status(line.outcome))

(* The pause after busy is over: once more, unless the invocation is. *)
Retry(c) ==
  /\ pc[c] = "pausing"
  /\ IF age[c] >= Invocation[Command[c]] THEN Abandon(c, 5)
     ELSE /\ Go(c, "sending", 0)
          /\ UNCHANGED <<probed, holder, gone, version, deviceVars, lineVars, historyVars>>

Asks(c, kind) ==
  /\ Go(c, "looking", LookupTime) /\ Write(kind, c)
  /\ UNCHANGED <<probed, holder, gone, version, deviceVars, toHost, historyVars>>

(* Fault: the request itself is repeated. *)
UncertainRepeats(c) ==
  IF age[c] + LookupTime < Invocation[Command[c]] THEN Asks(c, "op") ELSE Abandon(c, 4)

(* One lookup, if there is time for it. *)
Uncertain(c) ==
  IF age[c] + LookupTime < Invocation[Command[c]] THEN Asks(c, "lookup") ELSE Abandon(c, 4)

TimesOut(c) ==
  /\ left[c] = 0 /\ toHost = <<>> /\ toDevice = <<>>
  /\ \/ pc[c] \in {"probing", "looking"} /\ Abandon(c, 4)
     \/ pc[c] = "waiting" /\ Uncertain(c)

(* The device is gone, or the process is killed: the lock goes with the      *)
(* descriptor.                                                               *)
Dies(c) == holder = c /\ Abandon(c, 4) /\ gone
Killed(c) == holder = c /\ Abandon(c, Signal)

Tick ==
  /\ toDevice = <<>> /\ toHost = <<>> /\ ~gone
  /\ \E c \in Clients : pc[c] \notin {"idle", "done"}
  /\ owner # None => running < Operation[owner.command]
  /\ \A c \in Clients :
       /\ pc[c] # "sending" /\ (pc[c] \in {"resolving", "opening"} => age[c] < Startup)
       /\ pc[c] \in {"probing", "waiting", "looking", "pausing"} => left[c] > 0
  /\ LET alive == {c \in Clients : pc[c] \notin {"idle", "done"}} IN
     /\ age' = [c \in Clients |-> IF c \in alive THEN age[c] + 1 ELSE age[c]]
     /\ left' = [c \in Clients |-> IF left[c] > 0 THEN left[c] - 1 ELSE 0]
  /\ running' = IF owner = None THEN 0 ELSE running + 1
  /\ UNCHANGED <<pc, exit, probed, holder, gone, version, svars, session, lineVars,
                 historyVars>>

Init ==
  /\ SInit /\ session = 0 /\ running = 0 /\ version \in {1, 2}
  /\ pc = [c \in Clients |-> "idle"] /\ age = [c \in Clients |-> 0] /\ left = age
  /\ exit = [c \in Clients |-> Running] /\ probed = [c \in Clients |-> 0]
  /\ holder = None /\ gone = FALSE /\ toDevice = <<>> /\ toHost = <<>>
  /\ begun = age /\ ended = {} /\ lost = 0

(* Every invocation is over. *)
AllDone == (\A c \in Clients : pc[c] = "done") /\ UNCHANGED vars

Next ==
  \/ AllDone
  \/ ReadLine \/ EndOperation \/ Restart \/ Lose \/ Tick
  \/ \E c \in Clients :
       \/ Start(c) \/ Resolve(c) \/ Open(c) \/ OpenFails(c) \/ SendOperation(c)
       \/ Receive(c) \/ Retry(c) \/ TimesOut(c) \/ Dies(c) \/ Killed(c)

Spec == Init /\ [][Next]_vars

--------------------------------------------------------------------------------
(* Properties.                                                               *)

Points == {"idle", "resolving", "opening", "probing", "sending", "waiting", "pausing",
           "looking", "done"}

TypeOK ==
  /\ pc \in [Clients -> Points] /\ holder \in Clients \cup {None}
  /\ exit \in [Clients -> {0, 2, 3, 4, 5, 6, Running, Signal}]
  /\ \A c \in Clients : holder = c <=> pc[c] \notin {"idle", "resolving", "opening", "done"}
  /\ Len(toDevice) <= 1 + Cardinality(Clients) /\ session \in 0 .. Boots
  /\ begun \in [Clients -> Nat] /\ probed \in [Clients -> 0 .. Boots]

(* "without repeating power effects" (docs/PROTOCOL.md:133): an invocation   *)
(* begins at most one operation, over retries, lookups and restarts.         *)
AtMostOneEffect == \A c \in Clients : begun[c] <= 1

(* "It matches both request ID and boot session" (docs/PROTOCOL.md:129): an  *)
(* exit status that tells a result tells that of this request, from the      *)
(* session the client had probed.                                            *)
StatusIsOwn ==
  \A c \in Clients : \A o \in Outcomes :
    Command[c] # "protocol" /\ exit[c] \in {0, 6} /\ exit[c] = Status(o)
      => <<c, probed[c], o>> \in ended

(* "bounds the whole invocation to 40 s for wake and 20 s for standby"       *)
(* (docs/PROTOCOL.md:130).                                                   *)
InvocationIsBounded == \A c \in Clients : age[c] <= Invocation[Command[c]]

(* The client gives an operation that has begun up as uncertain only when a  *)
(* line was lost or the controller restarted: its deadline is the            *)
(* controller's, and there is time left for it whenever it starts one.       *)
UncertainOnlyByFault ==
  \A c \in Clients : exit[c] = 4 /\ begun[c] > 0 => lost > 0 \/ session > 0
================================================================================

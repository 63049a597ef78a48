-------------------------------- MODULE CecControl --------------------------------
(***************************************************************************)
(* One power operation: cec_control_on, cec_control_standby and            *)
(* cec_control_status in src/src/cec-control.c with the callbacks and the  *)
(* frame of operation_worker in src/src/usb-cdc.c.  The bus is the         *)
(* environment: every send and every query may give every result, each     *)
(* after any time up to its timeout, and a timed-out one may overrun it by *)
(* the grace of cec_send_msg_sync.  Other devices claim the source and the *)
(* TV routes at any moment.  Time is counted from the operation's start.   *)
(***************************************************************************)
EXTENDS Integers, Sequences

CONSTANTS
  OnTimeout, StandbyTimeout, StatusTimeout,  \* deadlines of the operations
  TxTimeout, PowerTimeout,                   \* longest send, longest query
  Poll, RetryDelay,                          \* pauses
  OnAttempts, StandbyAttempts,               \* caps of the power commands
  Overrun,                                   \* lateness of a timed-out call
  ElapsedLimit                               \* what the host accepts

ASSUME ControlAssumption ==
  /\ {OnTimeout, StandbyTimeout, StatusTimeout, TxTimeout, PowerTimeout, Poll,
      RetryDelay, OnAttempts, StandbyAttempts} \subseteq Nat \ {0}
  /\ Overrun \in Nat /\ ElapsedLimit \in Nat

Host == INSTANCE HostReply WITH AttemptsLimit <- OnAttempts

VARIABLES
  pc,           \* control point of the operation
  op,           \* "on", "standby" or "status"
  clock,        \* time since the operation started
  result,       \* the cec_control_result_t
  nextSend,     \* next_send: no power command before this time
  stable,       \* consecutive reports of the target
  anyReport,    \* any_report
  tries,        \* announcements made, the loop counter of cec_control_on
  activation,   \* activation_started of the control context
  sourceActive, \* source_active: this device is the active source
  routed,       \* routing_address is this device's, set "before" or "since"
                \* the operation began, or "none"
  asked,        \* history: the latest two power states answered, latest first
  askedAt,      \* history: when the latest query ended
  spaced,       \* history: the two queries are a polling interval apart and
                \* no power command was sent between them
  commanded,    \* history: end of the latest power command
  shown,        \* history: the TV routed here since the operation began
  lost          \* history: the source was lost since the announcement

progress == <<nextSend, stable, anyReport, tries, activation>>
queries == <<asked, askedAt, spaced>>
history == <<queries, commanded, shown, lost>>
vars == <<pc, op, clock, result, progress, sourceActive, routed, history>>

(* "failed" stands for no_ack, arbitration_lost and bus_error, which no code *)
(* here tells apart.                                                         *)
TxResults == {"ack", "failed", "timeout", "unavailable"}
Unknown == 255
QueryFailures == {"no_ack", "tx_timeout", "response_timeout", "unavailable",
                  "unsupported_feedback"}
Answers == [code : {"ok"}, power : 0 .. 3] \cup [code : QueryFailures, power : {Unknown}]

InitialResult ==
  [code |-> "unavailable", attempts |-> 0, power |-> Unknown,
   verified |-> FALSE, announced |-> FALSE, routing |-> FALSE, phase |-> "ready",
   elapsed |-> 0]

Limit(o) == CASE o = "on" -> OnTimeout
              [] o = "standby" -> StandbyTimeout
              [] OTHER -> StatusTimeout

Target == IF op = "on" THEN 0 ELSE 1
Attempts == IF op = "on" THEN OnAttempts ELSE StandbyAttempts

Min2(a, b) == IF a < b THEN a ELSE b

(* Fault: a call's timeout is not cut at the deadline. *)
RemainingUncapped(at, maximum) == IF at >= Limit(op) THEN 0 ELSE maximum

(* remaining(): what is left of the deadline, at most a maximum.             *)
Remaining(at, maximum) ==
  IF at >= Limit(op) THEN 0 ELSE Min2(Limit(op) - at, maximum)

(* The times at which a call with a timeout may be over.                     *)
Ends(timeout, late) ==
  clock .. clock + timeout + (IF late THEN Overrun ELSE 0)

(* Fault: the loop does not pause. *)
PausedNever(at) == at

Paused(at) == at + Remaining(at, Poll)

Init ==
  /\ pc = "idle" /\ op = "status" /\ clock = 0 /\ result = InitialResult
  /\ nextSend = 0 /\ stable = 0 /\ anyReport = FALSE /\ tries = 0
  /\ activation = FALSE /\ sourceActive = FALSE /\ routed = "none"
  /\ asked = <<>> /\ askedAt = 0 /\ spaced = FALSE /\ commanded = 0
  /\ shown = FALSE /\ lost = FALSE

--------------------------------------------------------------------------------
(* operation_worker: the frame of an operation.                              *)

Done(r, at) ==
  /\ pc' = "done"
  /\ clock' = at
  /\ result' = [r EXCEPT !.elapsed = at]

(* The locals and the control context are new; a route reported so far       *)
(* counts as older than the operation.                                       *)
Fresh(o) ==
  /\ op' = o
  /\ routed' = IF routed = "since" THEN "before" ELSE routed
  /\ UNCHANGED <<progress, history>>

(* The worker waits for a logical address; `standby` gives up the source     *)
(* before anything else.                                                     *)
Begin(o, at) ==
  /\ pc = "idle" /\ at <= Limit(o)
  /\ Fresh(o)
  /\ clock' = at /\ pc' = IF o = "status" THEN "status" ELSE "command"
  /\ result' = [InitialResult EXCEPT !.phase = IF o = "status" THEN @ ELSE "power"]
  /\ sourceActive' = (sourceActive /\ o # "standby")

(* No logical address by the deadline, or the host closed the port; the      *)
(* address may also go between the worker's check and the operation's.       *)
BeginUnavailable(o, at) ==
  /\ pc = "idle" /\ at <= Limit(o)
  /\ Fresh(o)
  /\ Done(InitialResult, at)
  /\ \/ UNCHANGED sourceActive
     \/ o = "standby" /\ sourceActive' = FALSE

--------------------------------------------------------------------------------
(* confirm_power.                                                            *)

(* Fault: the reported power state is not looked at. *)
CommandWhateverReported == clock >= nextSend /\ result.attempts < Attempts

CommandDue ==
  /\ clock >= nextSend /\ result.attempts < Attempts
  /\ result.power \notin {2, 3, Target}

SendCommand(tx, at) ==
  /\ pc = "command" /\ Remaining(clock, 1) > 0 /\ CommandDue
  /\ at \in Ends(Remaining(clock, TxTimeout), tx = "timeout")
  /\ LET r == [result EXCEPT !.attempts = @ + 1]
     IN  IF tx = "unavailable"
           THEN Done([r EXCEPT !.code = "unavailable"], at)
           ELSE pc' = "ask" /\ clock' = at /\ result' = r
  /\ nextSend' = at + RetryDelay
  /\ commanded' = at
  /\ UNCHANGED <<op, stable, anyReport, tries, activation, sourceActive, routed, queries,
                 shown, lost>>

SkipCommand ==
  /\ pc = "command" /\ Remaining(clock, 1) > 0 /\ ~CommandDue
  /\ pc' = "ask"
  /\ UNCHANGED <<op, clock, result, progress, sourceActive, routed, history>>

(* Fault: a report of another state does not restart the count. *)
StableKept(answer) == IF answer.power = Target THEN stable + 1 ELSE stable

Stable(answer) == IF answer.power = Target THEN stable + 1 ELSE 0

(* What a query leaves: its code, and the power state if it was reported.    *)
Answered(answer) ==
  [result EXCEPT !.code = answer.code,
     !.power = IF answer.code = "ok" THEN answer.power ELSE @]

Asked(answer, at) ==
  /\ at \in Ends(Remaining(clock, PowerTimeout), answer.code = "tx_timeout")
  /\ asked' = <<answer.power>> \o SubSeq(asked, 1, Min2(1, Len(asked)))
  /\ askedAt' = at
  /\ spaced' = (asked # <<>> /\ at - askedAt >= Poll /\ commanded <= askedAt)
  /\ UNCHANGED <<commanded, shown, lost>>

(* A query, and the pause after it when the loop goes on.                    *)
Ask(answer, at) ==
  /\ pc = "ask" /\ Remaining(clock, PowerTimeout) > 0
  /\ Asked(answer, at)
  /\ anyReport' = (anyReport \/ answer.code = "ok")
  /\ stable' = Stable(answer)
  /\ CASE answer.code \in {"unsupported_feedback", "unavailable"} ->
            Done(Answered(answer), at)
       [] stable' = 2 /\ op = "standby" ->
            Done([Answered(answer) EXCEPT !.verified = TRUE], at)
       [] stable' = 2 /\ op = "on" ->
            /\ pc' = "activate" /\ clock' = Paused(at)
            /\ result' = [Answered(answer) EXCEPT !.verified = TRUE, !.phase = "activate"]
       [] OTHER -> pc' = "command" /\ clock' = Paused(at) /\ result' = Answered(answer)
  /\ UNCHANGED <<op, nextSend, tries, activation, sourceActive, routed>>

Expire ==
  /\ pc \in {"command", "ask"} /\ Remaining(clock, 1) = 0
  /\ Done([result EXCEPT !.code =
             IF anyReport THEN "transition_timeout"
             ELSE IF result.code = "no_ack" THEN "no_ack" ELSE "response_timeout"], clock)
  /\ UNCHANGED <<op, progress, sourceActive, routed, history>>

--------------------------------------------------------------------------------
(* cec_control_on after the wake is confirmed.                               *)

Unconfirmed(r, at) == Done([r EXCEPT !.code = "input_unconfirmed"], at)

ReportAddress(tx, at) ==
  /\ pc = "activate" /\ Remaining(clock, TxTimeout) > 0
  /\ at \in Ends(Remaining(clock, TxTimeout), tx = "timeout")
  /\ IF tx = "ack"
       THEN pc' = "announce" /\ clock' = at /\ UNCHANGED result
       ELSE Unconfirmed(result, at)
  /\ UNCHANGED <<op, progress, sourceActive, routed, history>>

OutOfTime ==
  /\ pc \in {"activate", "announce"} /\ Remaining(clock, TxTimeout) = 0
  /\ Unconfirmed(result, clock)
  /\ UNCHANGED <<op, progress, sourceActive, routed, history>>

(* control_send: the first announcement takes the source; the repeat looks   *)
(* whether this device still has it.                                         *)
TakeSource ==
  /\ pc = "announce" /\ Remaining(clock, TxTimeout) > 0 /\ ~activation
  /\ activation' = TRUE /\ sourceActive' = TRUE /\ lost' = FALSE
  /\ pc' = "posted"
  /\ UNCHANGED <<op, clock, result, nextSend, stable, anyReport, tries, routed, queries,
                 commanded, shown>>

CheckSource ==
  /\ pc = "announce" /\ Remaining(clock, TxTimeout) > 0 /\ activation
  /\ IF sourceActive
       THEN pc' = "posted" /\ UNCHANGED <<clock, result>>
       ELSE Unconfirmed(result, clock)
  /\ UNCHANGED <<op, progress, sourceActive, routed, history>>

(* The CEC task takes the posted request and begins the frame.               *)
Transmit ==
  /\ pc = "posted" /\ pc' = "on_wire"
  /\ UNCHANGED <<op, clock, result, progress, sourceActive, routed, history>>

(* Active Source was sent, or failed before or on the wire.                  *)
Announce(tx, at) ==
  /\ pc = "on_wire" \/ (pc = "posted" /\ tx \in {"timeout", "unavailable"})
  /\ at \in Ends(Remaining(clock, TxTimeout), tx = "timeout")
  /\ tries' = tries + 1
  /\ IF tx = "ack"
       THEN /\ pc' = "route" /\ clock' = Paused(at)
            /\ result' = [result EXCEPT !.announced = TRUE]
       ELSE Unconfirmed(result, at)
  /\ UNCHANGED <<op, nextSend, stable, anyReport, activation, sourceActive, routed,
                 history>>

(* Fault: routing evidence from before the operation counts. *)
RoutedToUsEver == sourceActive /\ routed # "none"

RoutedToUs == sourceActive /\ routed = "since"

CheckRoute ==
  /\ pc = "route"
  /\ IF RoutedToUs
       THEN Done([result EXCEPT !.routing = TRUE, !.code = "ok"], clock)
       ELSE IF tries < 2 THEN pc' = "announce" /\ UNCHANGED <<clock, result>>
            ELSE Unconfirmed(result, clock)
  /\ UNCHANGED <<op, progress, sourceActive, routed, history>>

--------------------------------------------------------------------------------
(* cec_control_status: one query.                                            *)

Status(answer, at) ==
  /\ pc = "status" /\ Remaining(clock, PowerTimeout) > 0
  /\ Asked(answer, at)
  /\ Done([Answered(answer) EXCEPT !.verified = answer.code = "ok",
             !.attempts = 1, !.phase = "status"], at)
  /\ UNCHANGED <<op, progress, sourceActive, routed>>

(* The deadline passed while the worker waited for an address. *)
StatusTooLate ==
  /\ pc = "status" /\ Remaining(clock, PowerTimeout) = 0
  /\ Done([result EXCEPT !.code = "response_timeout"], clock)
  /\ UNCHANGED <<op, progress, sourceActive, routed, history>>

(* The worker has retained and printed the line; the locals are gone.        *)
Finish ==
  /\ pc = "done" /\ pc' = "idle" /\ clock' = 0
  /\ result' = InitialResult
  /\ nextSend' = 0 /\ stable' = 0 /\ anyReport' = FALSE /\ tries' = 0
  /\ activation' = FALSE
  /\ asked' = <<>> /\ askedAt' = 0 /\ spaced' = FALSE /\ commanded' = 0
  /\ shown' = FALSE /\ lost' = FALSE
  /\ UNCHANGED <<op, sourceActive, routed>>

--------------------------------------------------------------------------------
(* The bus, as dispatch_message shows it to the operation.                   *)

BusMoves(source, route, show) ==
  /\ sourceActive' = source /\ routed' = route
  /\ shown' = show /\ lost' = (activation /\ (lost \/ ~source))
  /\ UNCHANGED <<pc, op, clock, result, progress, queries, commanded>>

(* Active Source of another device. *)
OtherSource == BusMoves(FALSE, "none", FALSE)

(* Standby, a Routing Change that is not the TV's, or another device on this *)
(* logical address: the source is lost, the routing evidence stays.          *)
SourceLost == BusMoves(FALSE, routed, shown)

(* Routing Change or Routing Information of the TV: to here or elsewhere.    *)
TvRoutesHere == BusMoves(sourceActive, "since", TRUE)
TvRoutesAway == BusMoves(FALSE, "none", FALSE)

Times == 0 .. OnTimeout + Overrun + RetryDelay

Operate ==
  \/ \E tx \in TxResults, at \in Times :
       SendCommand(tx, at) \/ ReportAddress(tx, at) \/ Announce(tx, at)
  \/ \E answer \in Answers, at \in Times : Ask(answer, at) \/ Status(answer, at)
  \/ SkipCommand \/ Expire \/ StatusTooLate \/ Transmit \/ OutOfTime \/ TakeSource \/ CheckSource \/ CheckRoute
  \/ Finish

Environment == OtherSource \/ SourceLost \/ TvRoutesHere \/ TvRoutesAway

Next ==
  \/ \E o \in {"on", "standby", "status"}, at \in Times :
       Begin(o, at) \/ BeginUnavailable(o, at)
  \/ Operate \/ Environment

Spec == Init /\ [][Next]_vars

(* Every callback of the operation returns within its timeout.               *)
FairSpec == Spec /\ WF_vars(Operate)

--------------------------------------------------------------------------------
(* Properties.                                                               *)

TypeOK ==
  /\ pc \in {"idle", "command", "ask", "activate", "announce", "posted",
             "on_wire", "route", "status", "done"}
  /\ op \in {"on", "standby", "status"}
  /\ clock \in Times /\ nextSend \in Times
  /\ result.code \in QueryFailures \cup {"ok", "transition_timeout", "input_unconfirmed"}
  /\ result.power \in (0 .. 3) \cup {Unknown}
  /\ result.attempts \in 0 .. OnAttempts
  /\ stable \in 0 .. 2 /\ tries \in 0 .. 2
  /\ {anyReport, activation, sourceActive, spaced, shown, lost} \subseteq BOOLEAN
  /\ routed \in {"none", "before", "since"}
  /\ Len(asked) <= 2 /\ askedAt \in Times /\ commanded \in Times

(* What the worker prints for a result, and the client's parser reads.       *)
Line ==
  [ok |-> result.code = "ok", command |-> op, code |-> result.code,
   value |-> result.power, power |-> Host!PowerName(result.power),
   verified |-> result.verified,
   source |-> IF result.announced THEN "announced" ELSE "none",
   routing |-> IF result.routing THEN "confirmed" ELSE "unconfirmed",
   attempts |-> result.attempts, elapsed |-> result.elapsed]

(* Every terminal line the firmware can produce passes the client's parser:  *)
(* no result is taken for a malformed reply, and elapsed_ms stays in the     *)
(* client's margin because at most one call of an operation overruns.        *)
HostUnderstands == pc = "done" => Host!ReplyAcceptable(Line)

(* Power is called verified only on the two latest queries both reporting    *)
(* the target, a polling interval apart and with no power command between:   *)
(* one report that came late or was stale is not enough.                     *)
VerifiedByTwoReports ==
  result.verified /\ op # "status" =>
    asked = <<Target, Target>> /\ spaced

(* A power command is sent at least RetryDelay after the one before it, and  *)
(* never when the latest answer is the target or a transition: one report *)
(* then may have been the last word of the command before.                   *)
CommandIsJustified ==
  [][pc = "command" /\ result'.attempts > result.attempts =>
       /\ result.attempts > 0 => clock - commanded >= RetryDelay
       /\ asked # <<>> => asked[1] \notin {2, 3, Target}]_vars

(* Success of `on` says that the TV is awake and shows this device now: the  *)
(* TV routed here since the operation began, and from the first announcement *)
(* on neither the route nor the source went to another device.               *)
SuccessIsCurrent ==
  [][pc' = "done" /\ pc # "done" /\ result'.code = "ok" /\ op = "on"
       => result'.verified /\ shown /\ ~lost /\ tries > 0]_vars

(* Every operation ends.                                                     *)
OperationEnds == pc # "idle" ~> pc = "idle"

(* docs/PROTOCOL.md:66 "Another source becoming active stops the repeat."    *)
RepeatStops ==
  [][pc = "posted" /\ pc' = "on_wire" /\ tries = 1 => sourceActive]_vars
================================================================================

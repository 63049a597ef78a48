------------------------------ MODULE CecTransmit ------------------------------
(***************************************************************************)
(* Sending a frame in src/src/cec-frame.c: cec_frame_send_timeout in the   *)
(* CEC task, which waits for an idle line, starts an alarm and sleeps, and *)
(* frame_tx_callback, the alarm, which makes the pulses and samples the    *)
(* line.  Another initiator may pull the line low at any sample, an alarm  *)
(* may come late, and the deadline may fall into the frame.  A byte has    *)
(* Bits bits, the first Bits \div 2 of a header name the initiator.        *)
(***************************************************************************)
EXTENDS CecFrame

CONSTANTS
  Messages, \* what is sent
  Sends     \* bound: calls of cec_frame_send_timeout

ASSUME TransmitAssumption ==
  Sends \in Nat /\ Messages \subseteq Seq(Bytes) \ {<<>>}

VARIABLES
  task,     \* where the task is: "free", "idle" wait, "sending", "woken"
  message,  \* tx.message
  txState, byteAt, bitAt, one, \* tx: bits count down, as there
  active, result, \* tx.active, tx.result
  notified, \* NOTIFY_TX of the task
  alarms,   \* alarms that will call frame_tx_callback
  out,      \* this device pulls the line low
  clock,    \* "early", "near": the tick before the deadline, or "past" it
  edges,    \* the receiver's interrupt is enabled
  receiving, silent, \* rx.state, and the line for more than 5 ms
  returned, \* the last call's result, or "none"
  seen,     \* history: the bits on the line since the start bit
  sends,    \* history: calls
  finished  \* history: the alarm has ended the frame, acknowledged

tx == <<message, txState, byteAt, bitAt, one, active, result>>
lineVars == <<receiving, silent>>
vars == <<task, tx, notified, alarms, out, clock, edges, lineVars, returned, seen, sends, finished>>

Broadcast == Destination(message[1]) = Ones

--------------------------------------------------------------------------------
(* The alarm.                                                                *)

(* tx_finish: the line is released and the task notified. *)
TxFinish(r) ==
  /\ out' = FALSE /\ result' = r /\ active' = FALSE /\ notified' = TRUE
  /\ alarms' = alarms - 1
  /\ UNCHANGED <<message, txState, byteAt, bitAt, one, seen>>

(* tx_next: the alarm comes again, for the next state. *)
Continue(state, drives) ==
  /\ txState' = state /\ out' = drives /\ UNCHANGED <<message, active, notified, alarms>>

Go(state, drives) ==
  Continue(state, drives) /\ UNCHANGED <<byteAt, bitAt, one, result, seen>>

DataLow(b) ==
  /\ Continue("data_release", TRUE)
  /\ bitAt' = b /\ one' = (message[byteAt + 1][Bits - b] = 1) /\ UNCHANGED <<byteAt, result, seen>>

(* A zero is on the line whatever others do; a one is read back. *)
DataRelease ==
  IF one THEN Go("data_sample", FALSE)
  ELSE /\ Continue("data_end", FALSE) /\ seen' = Append(seen, 0)
       /\ UNCHANGED <<byteAt, bitAt, one, result>>

Collision == IF byteAt = 0 /\ bitAt >= Bits \div 2 THEN "arbitration_lost" ELSE "bus_error"

(* Fault: what others pull low is not noticed. *)
DataSampleBlind(low) ==
  /\ Continue("data_end", FALSE) /\ seen' = Append(seen, IF low THEN 0 ELSE 1)
  /\ UNCHANGED <<byteAt, bitAt, one, result>>
DataSample(low) ==
  IF low THEN TxFinish(Collision)
  ELSE /\ Continue("data_end", FALSE) /\ seen' = Append(seen, 1)
       /\ UNCHANGED <<byteAt, bitAt, one, result>>

DataEnd ==
  IF bitAt > 0 THEN DataLow(bitAt - 1)
  ELSE /\ Continue("eom_release", TRUE) /\ byteAt' = byteAt + 1
       /\ UNCHANGED <<bitAt, one, result, seen>>

(* A directed byte is accepted by a low, a broadcast one by the lack of it. *)
AckSample(low) ==
  IF low # Broadcast
    THEN Go(IF byteAt < Len(message) THEN "next" ELSE "end", FALSE)
    ELSE /\ Continue("end", FALSE) /\ result' = IF Broadcast THEN "bus_error" ELSE "no_ack"
         /\ UNCHANGED <<byteAt, bitAt, one, seen>>

Pulse(low) ==
  CASE txState = "start_low" -> Go("start_release", TRUE)
    [] txState = "start_release" -> Go("data_low", FALSE)
    [] txState = "data_low" -> DataLow(bitAt)
    [] txState = "data_release" -> DataRelease
    [] txState = "data_sample" -> DataSample(low)
    [] txState = "data_end" -> DataEnd
    [] txState = "eom_release" -> Go("ack_low", FALSE)
    [] txState = "ack_low" -> Go("ack_release", TRUE)
    [] txState = "ack_release" -> Go("ack_sample", FALSE)
    [] txState = "ack_sample" -> AckSample(low)
    [] txState = "next" -> DataLow(Bits - 1)
    [] OTHER -> TxFinish(result)

(* frame_tx_callback: nothing if the frame is over, a timeout if it is too   *)
(* late for the pulse or for the frame.                                      *)
Alarm ==
  /\ alarms > 0
  /\ IF ~active THEN alarms' = alarms - 1 /\ UNCHANGED <<tx, notified, out, seen, finished>>
     ELSE \/ TxFinish("timeout") /\ UNCHANGED finished
          \/ clock # "past" /\ \E low \in BOOLEAN : Pulse(low)
             /\ finished' = (txState = "end" /\ result = "ack")
  /\ UNCHANGED <<task, clock, edges, lineVars, returned, sends>>

--------------------------------------------------------------------------------
(* The task.                                                                 *)

Return(r) == returned' = r /\ task' = "free"

Call(m) ==
  /\ task = "free" /\ sends < Sends /\ sends' = sends + 1
  /\ IF m \in Rejected THEN Return("unavailable") /\ UNCHANGED <<message, clock>>
     ELSE task' = "idle" /\ message' = m /\ clock' = "early" /\ returned' = "none"
  /\ UNCHANGED <<txState, byteAt, bitAt, one, active, result, notified, alarms, out, edges,
                 lineVars, seen, finished>>

(* Fault: it waits for an idle line however long that takes. *)
IdleOverNever == FALSE
IdleOver == clock = "past"

(* One round of the wait for an idle line. *)
IdleRound ==
  /\ task = "idle"
  /\ IF ~receiving /\ silent
       THEN /\ task' = "sending" /\ edges' = FALSE /\ seen' = <<>> /\ finished' = FALSE
            /\ txState' = "start_low" /\ byteAt' = 0 /\ bitAt' = Bits - 1 /\ one' = FALSE
            /\ result' = "ack" /\ active' = TRUE /\ notified' = FALSE
            /\ UNCHANGED <<alarms, receiving, returned>>
       ELSE /\ receiving' = (receiving /\ ~silent)
            /\ IF IdleOver THEN Return("timeout") ELSE UNCHANGED <<task, returned>>
            /\ UNCHANGED <<txState, byteAt, bitAt, one, active, result, notified, alarms, edges,
                           seen, finished>>
  /\ UNCHANGED <<message, out, clock, silent, sends>>

(* The alarm is set unless the time is up or no alarm is free. *)
SetAlarm ==
  /\ task = "sending"
  /\ \/ clock # "past" /\ alarms' = alarms + 1 /\ task' = "asleep" /\ UNCHANGED result
     \/ result' = "timeout" /\ task' = "woken" /\ UNCHANGED alarms
  /\ UNCHANGED <<message, txState, byteAt, bitAt, one, active, notified, out, clock, edges,
                 lineVars, returned, seen, sends, finished>>

(* The wait ends with the alarm's notification, or with the time: a tick     *)
(* early at the earliest. *)
Wake ==
  /\ task = "asleep"
  /\ \/ notified /\ notified' = FALSE /\ task' = "woken"
     \/ clock # "early" /\ ~notified /\ task' = "late" /\ UNCHANGED notified
  /\ UNCHANGED <<tx, alarms, out, clock, edges, lineVars, returned, seen, sends, finished>>

(* The task's timeout overwrites what the alarm may have found by now. *)
Overwrite ==
  /\ task = "late" /\ task' = "woken" /\ result' = "timeout"
  /\ UNCHANGED <<message, txState, byteAt, bitAt, one, active, notified, alarms, out, clock,
                 edges, lineVars, returned, seen, sends, finished>>

(* Fault: the alarm is not cancelled. *)
CancelNothing == alarms
Cancelled == 0

(* The end, with interrupts disabled. *)
End ==
  /\ task = "woken" /\ active' = FALSE /\ alarms' = Cancelled /\ out' = FALSE
  /\ edges' = TRUE /\ silent' = FALSE /\ Return(result)
  /\ UNCHANGED <<message, txState, byteAt, bitAt, one, result, notified, clock, receiving,
                 seen, sends, finished>>

--------------------------------------------------------------------------------
(* The line and the clock.                                                   *)

Line ==
  /\ edges
  /\ \/ receiving' \in BOOLEAN /\ silent' = FALSE
     \/ silent' = TRUE /\ UNCHANGED receiving
  /\ UNCHANGED <<task, tx, notified, alarms, out, clock, edges, returned, seen, sends, finished>>

Time ==
  /\ task # "free" /\ clock # "past"
  /\ clock' = IF clock = "early" THEN "near" ELSE "past"
  /\ UNCHANGED <<task, tx, notified, alarms, out, edges, lineVars, returned, seen, sends, finished>>

Init ==
  /\ task = "free" /\ message = <<>> /\ txState = "start_low" /\ byteAt = 0 /\ bitAt = 0
  /\ one = FALSE /\ active = FALSE /\ result = "none" /\ notified = FALSE /\ alarms = 0
  /\ out = FALSE /\ clock = "early" /\ edges = TRUE /\ receiving = FALSE /\ silent = FALSE
  /\ returned = "none" /\ seen = <<>> /\ sends = 0 /\ finished = FALSE

Next ==
  \/ Alarm \/ IdleRound \/ SetAlarm \/ Wake \/ Overwrite \/ End \/ Line \/ Time
  \/ \E m \in Messages : Call(m)

(* The task runs, alarms come, and time passes. *)
Fairness == WF_vars(Alarm) /\ WF_vars(IdleRound) /\ WF_vars(SetAlarm) /\ WF_vars(Wake)
            /\ WF_vars(Overwrite) /\ WF_vars(End) /\ WF_vars(Time)
Spec == Init /\ [][Next]_vars /\ Fairness

--------------------------------------------------------------------------------
(* Properties.                                                               *)

TypeOK ==
  /\ task \in {"free", "idle", "sending", "asleep", "late", "woken"} /\ alarms \in 0 .. 1
  /\ returned \in {"none", "ack", "no_ack", "timeout", "arbitration_lost", "bus_error",
                   "unavailable"}
  /\ byteAt \in 0 .. 3 /\ bitAt \in 0 .. Bits - 1 /\ clock \in {"early", "near", "past"}

Flat(m) == [i \in 1 .. Bits * Len(m) |-> m[((i - 1) \div Bits) + 1][((i - 1) % Bits) + 1]]

(* A frame reported as delivered was on the line in full: every one of its   *)
(* ones was read back.                                                       *)
DeliveredWasSent == returned = "ack" => seen = Flat(message)

(* The line is pulled, and the receiver deaf, only during the call: whatever *)
(* its result, "Expired internal transmissions cannot execute later"         *)
(* (docs/PROTOCOL.md:125).                                                   *)
QuietAfterReturn == task \in {"free", "idle"} => ~out /\ alarms = 0 /\ edges

(* Every call returns: a deadline, an alarm that never was set or came too   *)
(* late, a line that is never idle, all end it.                              *)
Returns == task # "free" ~> task = "free"

(* "`tx_timeout`: CEC transmission could not finish in time"                 *)
(* (docs/PROTOCOL.md:111): not one that the alarm has finished.              *)
TimeoutIsUnfinished == returned = "timeout" => ~finished
===============================================================================

-------------------------------- MODULE Watchdog --------------------------------
(***************************************************************************)
(* The health task and the boot escalation of src/src/main.c over the      *)
(* heartbeats of the CEC task and of the command parser.  The clock is the *)
(* time since boot, counted in health periods and modulo Width as the      *)
(* 32-bit millisecond counter is.                                          *)
(***************************************************************************)
EXTENDS Integers

CONSTANTS
  Width,     \* the clock counts modulo this: 2^32 ms
  Stale,     \* age at which a heartbeat is no longer fresh: 3 s
  Settle,    \* time after boot in which heartbeats are not looked at: 10 s
  Healthy,   \* age of a run that clears the failure count: 30 s
  Timeout,   \* watchdog_enable: 8 s
  CecLoop,   \* longest round of cec_task
  ParserLoop,\* longest that cdc_task takes for one thing: a character, a line, a frame
  Skips      \* bound: health checks in a row that a heartbeat overtakes

ASSUME WatchdogAssumption ==
  /\ {Width, Stale, Settle, Healthy, Timeout, CecLoop, ParserLoop} \subseteq Nat \ {0}
  /\ Skips \in Nat /\ Stale <= Settle /\ Settle < Healthy
  /\ Healthy + Stale + Timeout < Width /\ Settle + Stale + 2 * Timeout < Width

VARIABLES
  mode,     \* "run", or USB recovery: "bootsel" after failures, "asked" by `reboot bootsel`
  time,     \* milliseconds since boot, modulo Width
  cec, parser, \* the two heartbeats
  going,    \* cdc_task is at more than the first thing of its round
  stalled,  \* the tasks that hang
  checked,  \* health_task has run in this period
  skipped,  \* history: checks in a row that were overtaken
  late,     \* history: a check missed a heartbeat of cdc_task going on, none was good since
  dog,      \* time left to the watchdog reset
  failures, \* watchdog_hw->scratch[1]
  repeated, \* history: watchdog resets since the last other reset or good run
  good      \* history: this run was found healthy when older than Healthy

clockVars == <<time, cec, parser, going, stalled, checked, skipped, late, dog>>
vars == <<mode, clockVars, failures, repeated, good>>

Tasks == {"cec", "parser"}

Age(now, beat) == (now - beat) % Width

--------------------------------------------------------------------------------
(* main: what a boot makes of scratch[1], the count of failures.  Every run  *)
(* has left its mark in scratch[0], so only the cause of the reset decides.  *)

Started ==
  /\ time' = 0 /\ cec' = 0 /\ parser' = 0 /\ stalled' = {}
  /\ checked' = FALSE /\ skipped' = 0 /\ dog' = Timeout /\ good' = FALSE
  /\ going' = FALSE /\ late' = FALSE

(* Fault: the count is kept over resets that the watchdog did not cause. *)
CountedAlways(expired) == failures

Counted(expired) == IF expired THEN failures ELSE 0

Boot(expired) ==
  LET count == Counted(expired) + IF expired THEN 1 ELSE 0
  IN  /\ mode' = IF expired /\ count >= 2 THEN "bootsel" ELSE "run"
      /\ failures' = count
      /\ Started

(* The watchdog was not updated in time. *)
Expire ==
  /\ mode = "run" /\ dog = 0
  /\ Boot(TRUE)
  /\ repeated' = IF good THEN 1 ELSE repeated + 1

(* `reboot`, a power cycle, or a reset out of the recovery mode. *)
Reboot == Boot(FALSE) /\ repeated' = 0

(* `reboot bootsel`: the parser disables the watchdog and enters recovery. *)
RebootBootsel ==
  /\ mode = "run" /\ "parser" \notin stalled /\ mode' = "asked"
  /\ UNCHANGED <<clockVars, failures, repeated, good>>

--------------------------------------------------------------------------------
(* The tasks.                                                                *)

(* A hanging task sets no heartbeat.                                         *)
Stall(task) ==
  /\ mode = "run" /\ task \notin stalled /\ stalled' = stalled \cup {task}
  /\ going' = (going /\ task # "parser") /\ late' = FALSE
  /\ UNCHANGED <<mode, time, cec, parser, checked, skipped, dog, failures, repeated,
                 good>>

CecBeat ==
  /\ mode = "run" /\ "cec" \notin stalled /\ cec' = time
  /\ UNCHANGED <<mode, time, parser, going, stalled, checked, skipped, late, dog,
                 failures, repeated, good>>

(* cdc_task sets its heartbeat once per round, *)
ParserBeat ==
  /\ mode = "run" /\ "parser" \notin stalled /\ parser' = time /\ going' = FALSE
  /\ UNCHANGED <<mode, time, cec, stalled, checked, skipped, late, dog, failures,
                 repeated, good>>

(* and not for each line it writes, nor for each character it takes from the *)
(* host, which may stand for a frame to be sent: as long as there are more   *)
(* of them the round goes on.                                                *)
ParserGoesOn ==
  /\ mode = "run" /\ "parser" \notin stalled /\ going' = TRUE
  /\ UNCHANGED <<mode, time, cec, parser, stalled, checked, skipped, late, dog, failures,
                 repeated, good>>

(* What health_task sees of a heartbeat: it reads the clock first, so a      *)
(* heartbeat set in between may be later than its `now`.                     *)
Seen(task, overtaking) ==
  IF task \in overtaking THEN (time + 1) % Width ELSE IF task = "cec" THEN cec ELSE parser

(* Fault: both conditions are required, as with && for ||. *)
FreshBoth(overtaking) ==
  time >= Settle /\ \A task \in Tasks : Age(time, Seen(task, overtaking)) < Stale

(* Fault: only the CEC task is monitored. *)
FreshCec(overtaking) == time < Settle \/ Age(time, Seen("cec", overtaking)) < Stale

Fresh(overtaking) ==
  time < Settle \/ \A task \in Tasks : Age(time, Seen(task, overtaking)) < Stale

Missing(overtaking) ==
  stalled = {} /\ going /\ "parser" \notin overtaking /\ Age(time, parser) >= Stale

HealthCheck(overtaking) ==
  /\ mode = "run" /\ ~checked /\ checked' = TRUE
  /\ overtaking # {} => skipped < Skips
  /\ IF Fresh(overtaking)
       THEN /\ dog' = Timeout /\ skipped' = 0 /\ late' = FALSE
            /\ failures' = IF time > Healthy THEN 0 ELSE failures
            /\ good' = (good \/ time > Healthy)
       ELSE /\ skipped' = IF overtaking = {} THEN skipped ELSE skipped + 1
            /\ late' = (late \/ Missing(overtaking))
            /\ UNCHANGED <<dog, failures, good>>
  /\ cec' = IF "cec" \in overtaking THEN time ELSE cec
  /\ parser' = IF "parser" \in overtaking THEN time ELSE parser
  /\ going' = (going /\ "parser" \notin overtaking)
  /\ UNCHANGED <<mode, time, stalled, repeated>>

(* A period passes.  A round of the CEC task has an end, and so has each     *)
(* thing that cdc_task does, but not its round.                              *)
Tick ==
  /\ mode = "run" /\ dog > 0 /\ checked
  /\ "cec" \in stalled \/ Age(time, cec) < CecLoop
  /\ "parser" \in stalled \/ going \/ Age(time, parser) < ParserLoop
  /\ time' = (time + 1) % Width /\ dog' = dog - 1 /\ checked' = FALSE
  /\ UNCHANGED <<mode, cec, parser, going, stalled, skipped, late, failures, repeated,
                 good>>

(* The first boot after power-on or another firmware finds no mark: it       *)
(* counts from 0, and 1 if that firmware's watchdog caused it.               *)
Init ==
  /\ time = 0 /\ cec = 0 /\ parser = 0 /\ stalled = {} /\ checked = FALSE
  /\ skipped = 0 /\ dog = Timeout /\ good = FALSE
  /\ mode = "run" /\ going = FALSE /\ late = FALSE
  /\ failures \in {0, 1} /\ repeated = failures

Next ==
  \/ Expire \/ Reboot \/ RebootBootsel \/ Tick \/ CecBeat \/ ParserBeat \/ ParserGoesOn
  \/ \E task \in Tasks : Stall(task)
  \/ \E overtaking \in SUBSET (Tasks \ stalled) : HealthCheck(overtaking)

Spec == Init /\ [][Next]_vars

--------------------------------------------------------------------------------
(* Properties.                                                               *)

TypeOK ==
  /\ mode \in {"run", "bootsel", "asked"}
  /\ time \in 0 .. Width - 1 /\ {cec, parser} \subseteq 0 .. Width - 1
  /\ stalled \subseteq Tasks /\ dog \in 0 .. Timeout /\ skipped \in 0 .. Skips
  /\ failures \in 0 .. 2 /\ {checked, good, going, late} \subseteq BOOLEAN

(* The watchdog resets a controller none of whose tasks hangs only if        *)
(* cdc_task, going on in one round with what the host sends or with lines    *)
(* to write, made a health check find its heartbeat stale: the six frames of *)
(* a CEC round, late heartbeats newer than `now` and the wrap of the clock   *)
(* never cause a reset, alone or together (main.c:24, cec-health.h:5-9).     *)
ResetIsExplained == mode = "run" /\ dog = 0 => stalled # {} \/ late

(* docs/BUILD.md:157 "Unexpected task stalls are monitored by a watchdog.":  *)
(* the watchdog resets only a controller with a task that hangs.  A round of *)
(* cdc_task has no end while the host sends (usb-cdc.c:562).                 *)
ResetMeansStall == mode = "run" /\ dog = 0 => stalled # {}

(* A hanging task is noticed: its last heartbeat is never older than the     *)
(* time that is fresh, the watchdog's and, after a wrap of the clock just    *)
(* before the reset, the settling time and the watchdog's once more.         *)
StallIsNoticed ==
  mode = "run" => /\ Age(time, cec) <= Settle + Stale + 2 * Timeout
                  /\ Age(time, parser) <= Settle + Stale + 2 * Timeout

(* docs/BUILD.md:157 "One watchdog failure restarts the firmware; repeated   *)
(* failures enter BOOTSEL": exactly the second in a row, with neither a run  *)
(* that was healthy past thirty seconds nor another reset between them.      *)
BootselIsRepeated == mode = "bootsel" <=> repeated >= 2
================================================================================

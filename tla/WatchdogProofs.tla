----------------------------- MODULE WatchdogProofs -----------------------------
(***************************************************************************)
(* Theorems about Watchdog, for every length of its periods.               *)
(***************************************************************************)
EXTENDS Watchdog, TLAPS

(* The count in scratch[1] is that of the resets in a row, until a good run  *)
(* clears it; the count of resets itself is then still that of the past.     *)
IInv ==
  /\ mode \in {"run", "bootsel", "asked"}
  /\ repeated \in 0 .. 2 /\ failures \in 0 .. 2
  /\ mode = "bootsel" => repeated = 2
  /\ mode # "bootsel" => repeated <= 1
  /\ mode # "bootsel" /\ good => failures = 0
  /\ mode # "bootsel" /\ ~good => failures = repeated

LEMMA Initially == Init => IInv
<1> SUFFICES ASSUME Init PROVE IInv
  OBVIOUS
<1>1. ~good
  BY Zenon DEF Init
<1>2. mode = "run" /\ failures \in {0, 1} /\ repeated = failures
  BY DEF Init
<1> QED BY <1>1, <1>2 DEF IInv

(* A boot counts the watchdog's resets and no others. *)
LEMMA BootCounts ==
  ASSUME NEW expired \in BOOLEAN, failures \in 0 .. 2, Boot(expired)
  PROVE  /\ ~good'
         /\ expired  => /\ failures' = failures + 1
                        /\ mode' = IF failures + 1 >= 2 THEN "bootsel" ELSE "run"
         /\ ~expired => failures' = 0 /\ mode' = "run"
<1>1. ~good'
  BY Zenon DEF Boot, Started
<1>2. CASE expired
  <2>1. Counted(expired) = failures BY <1>2 DEF Counted
  <2>2. failures' = failures + 1 BY <1>2, <2>1 DEF Boot
  <2>3. mode' = IF failures + 1 >= 2 THEN "bootsel" ELSE "run"
    BY <1>2, <2>1 DEF Boot
  <2> QED BY <1>1, <1>2, <2>2, <2>3
<1>3. CASE ~expired
  <2>1. Counted(expired) = 0 BY <1>3 DEF Counted
  <2>2. failures' = 0 BY <1>3, <2>1 DEF Boot
  <2>3. mode' = "run" BY <1>3, <2>1 DEF Boot
  <2> QED BY <1>1, <1>3, <2>2, <2>3
<1> QED BY <1>2, <1>3

(* Only a reset or a good run moves the count. *)
LEMMA Step == IInv /\ [Next]_vars => IInv'
<1> SUFFICES ASSUME IInv, [Next]_vars PROVE IInv'
  OBVIOUS
<1>t. failures \in 0 .. 2 /\ repeated \in 0 .. 2
  BY DEF IInv
<1>1. CASE Expire
  <2>1. Boot(TRUE) /\ mode = "run"
    BY <1>1, Zenon DEF Expire
  <2>2. /\ ~good' /\ failures' = failures + 1
        /\ mode' = IF failures + 1 >= 2 THEN "bootsel" ELSE "run"
    BY <1>t, <2>1, BootCounts
  <2>3. CASE good
    <3>1. repeated' = 1 BY <1>1, <2>3 DEF Expire
    <3>2. failures = 0 BY <2>1, <2>3 DEF IInv
    <3> QED BY <2>2, <3>1, <3>2 DEF IInv
  <2>4. CASE ~good
    <3>1. repeated' = repeated + 1 BY <1>1, <2>4 DEF Expire
    <3>2. failures = repeated /\ repeated <= 1 BY <2>1, <2>4 DEF IInv
    <3> QED BY <1>t, <2>2, <3>1, <3>2 DEF IInv
  <2> QED BY <2>3, <2>4
<1>2. CASE Reboot
  <2>1. Boot(FALSE) /\ repeated' = 0
    BY <1>2, Zenon DEF Reboot
  <2>2. ~good' /\ failures' = 0 /\ mode' = "run"
    BY <1>t, <2>1, BootCounts
  <2> QED BY <2>1, <2>2 DEF IInv
<1>3. CASE RebootBootsel
  <2>1. (good' <=> good) /\ UNCHANGED <<failures, repeated>>
    BY <1>3, Zenon DEF RebootBootsel
  <2>2. mode = "run" /\ mode' = "asked"
    BY <1>3, Zenon DEF RebootBootsel
  <2> QED BY <2>1, <2>2 DEF IInv
<1>4. ASSUME UNCHANGED <<mode, failures, repeated, good>> PROVE IInv'
  BY <1>4 DEF IInv
<1>5. CASE Tick \/ CecBeat \/ ParserBeat \/ ParserGoesOn
  BY <1>4, <1>5, Zenon DEF Tick, CecBeat, ParserBeat, ParserGoesOn
<1>6. ASSUME NEW task \in Tasks, Stall(task) PROVE IInv'
  BY <1>4, <1>6, Zenon DEF Stall
<1>7. ASSUME NEW overtaking \in SUBSET (Tasks \ stalled), HealthCheck(overtaking)
      PROVE  IInv'
  <2>1. UNCHANGED <<mode, repeated>> /\ mode = "run"
    BY <1>7, Zenon DEF HealthCheck
  <2>2. CASE Fresh(overtaking) /\ time > Healthy
    <3>1. good'
      BY <1>7, <2>2, Zenon DEF HealthCheck
    <3>2. failures' = 0
      BY <1>7, <2>2, Zenon DEF HealthCheck
    <3> QED BY <2>1, <3>1, <3>2 DEF IInv
  <2>3. CASE ~(Fresh(overtaking) /\ time > Healthy)
    <3>1. good' <=> good
      BY <1>7, <2>3, Zenon DEF HealthCheck
    <3>2. failures' = failures
      BY <1>7, <2>3, Zenon DEF HealthCheck
    <3> QED BY <2>1, <3>1, <3>2 DEF IInv
  <2> QED BY <2>2, <2>3
<1>8. CASE UNCHANGED vars
  BY <1>4, <1>8, Zenon DEF vars
<1> QED BY <1>1, <1>2, <1>3, <1>5, <1>6, <1>7, <1>8 DEF Next

(* The firmware enters BOOTSEL on exactly the second watchdog failure with   *)
(* neither a good run nor another reset between, however long the periods    *)
(* are and however the clock wraps.                                          *)
THEOREM SecondFailureRecovers == Spec => []BootselIsRepeated
<1>1. IInv => BootselIsRepeated BY DEF IInv, BootselIsRepeated
<1> QED BY <1>1, Initially, Step, PTL DEF Spec

--------------------------------------------------------------------------------
(* The clock.  A remainder by Width is computed by cases, so that the rest   *)
(* is linear.                                                                *)

LEMMA WidthIsNat == Width \in Nat /\ Width > 0
BY WatchdogAssumption

LEMMA RemainderOfLess ==
  ASSUME NEW w \in Nat, w > 0, NEW x \in 0 .. w - 1 PROVE x % w = x
OBVIOUS

LEMMA RemainderOfNegative ==
  ASSUME NEW w \in Nat, w > 0, NEW x \in Int, 0 - w <= x , x < 0 PROVE x % w = x + w
OBVIOUS

LEMMA RemainderOfEqual == ASSUME NEW w \in Nat, w > 0 PROVE w % w = 0
OBVIOUS

LEMMA AgeIs ==
  ASSUME NEW now \in 0 .. Width - 1, NEW beat \in 0 .. Width - 1
  PROVE  Age(now, beat) = IF now >= beat THEN now - beat ELSE now - beat + Width
<1>1. CASE now >= beat
  <2>1. now - beat \in 0 .. Width - 1
    BY <1>1, WidthIsNat
  <2>2. (now - beat) % Width = now - beat
    BY <2>1, WidthIsNat, RemainderOfLess
  <2> QED BY <1>1, <2>2 DEF Age
<1>2. CASE now < beat
  <2>1. now - beat \in Int /\ 0 - Width <= now - beat /\ now - beat < 0
    BY <1>2, WidthIsNat
  <2>2. (now - beat) % Width = now - beat + Width
    BY <2>1, WidthIsNat, RemainderOfNegative
  <2> QED BY <1>2, <2>2, WidthIsNat DEF Age
<1> QED BY <1>1, <1>2, WidthIsNat

LEMMA NextTime ==
  ASSUME NEW now \in 0 .. Width - 1
  PROVE  (now + 1) % Width = IF now + 1 = Width THEN 0 ELSE now + 1
<1>1. CASE now + 1 = Width
  BY <1>1, WidthIsNat, RemainderOfEqual
<1>2. CASE now + 1 # Width
  <2>1. now + 1 \in 0 .. Width - 1
    BY <1>2, WidthIsNat
  <2> QED BY <1>2, <2>1, WidthIsNat, RemainderOfLess
<1> QED BY <1>1, <1>2

(* What the actions do to an age: a heartbeat makes it zero, a period older  *)
(* by one, and a heartbeat of the next period looks as old as can be.        *)
LEMMA Ages ==
  ASSUME NEW now \in 0 .. Width - 1, NEW beat \in 0 .. Width - 1
  PROVE  /\ Age(now, beat) \in 0 .. Width - 1 /\ Age(now, now) = 0
         /\ (now + 1) % Width \in 0 .. Width - 1
         /\ Age(now, beat) < Width - 1 => Age((now + 1) % Width, beat) = Age(now, beat) + 1
         /\ Age(now, (now + 1) % Width) = Width - 1
<1>1. (now + 1) % Width = IF now + 1 = Width THEN 0 ELSE now + 1
  BY NextTime
<1>2. (now + 1) % Width \in 0 .. Width - 1
  BY <1>1, WidthIsNat
<1> DEFINE next == (now + 1) % Width
<1> HIDE DEF next
<1>3. next \in 0 .. Width - 1 /\ next = IF now + 1 = Width THEN 0 ELSE now + 1
  BY <1>1, <1>2 DEF next
<1>4. /\ Age(now, beat) = IF now >= beat THEN now - beat ELSE now - beat + Width
      /\ Age(now, now) = IF now >= now THEN now - now ELSE now - now + Width
      /\ Age(next, beat) = IF next >= beat THEN next - beat ELSE next - beat + Width
      /\ Age(now, next) = IF now >= next THEN now - next ELSE now - next + Width
  BY <1>3, AgeIs
<1>5. /\ Age(now, beat) \in 0 .. Width - 1 /\ Age(now, now) = 0
      /\ Age(now, beat) < Width - 1 => Age(next, beat) = Age(now, beat) + 1
  BY <1>3, <1>4, WidthIsNat
<1>6. Age(now, next) = Width - 1
  BY <1>3, <1>4, WidthIsNat
<1> QED BY <1>2, <1>5, <1>6 DEF next

--------------------------------------------------------------------------------
(* A hanging task is noticed.                                                *)

Typed ==
  /\ time \in 0 .. Width - 1 /\ cec \in 0 .. Width - 1 /\ parser \in 0 .. Width - 1
  /\ dog \in 0 .. Timeout /\ skipped \in 0 .. Skips

Since == Timeout - dog      \* periods since the latest check that found all fresh

(* A heartbeat is fresh whenever the watchdog is updated, and ages with it   *)
(* from then on.  Before the settling time heartbeats are not looked at; the *)
(* check of its last period may have been the latest that succeeded.         *)
Aging(a) ==
  /\ time < Settle => a <= Stale + Timeout + time
  /\ time >= Settle => \/ a <= Stale + Since
                       \/ time - Settle <= Since /\ a <= Stale + Timeout + time

Noticed == Typed /\ Aging(Age(time, cec)) /\ Aging(Age(time, parser))

LEMMA Limits ==
  /\ {Width, Stale, Settle, Timeout, Healthy} \subseteq Nat \ {0} /\ Skips \in Nat
  /\ Stale <= Settle /\ Settle < Width /\ Settle + Stale + 2 * Timeout < Width
BY WatchdogAssumption

LEMMA YoungIsAging ==
  ASSUME Typed, NEW a \in Nat, a <= Stale PROVE Aging(a)
BY Limits DEF Typed, Aging, Since

LEMMA AgingBound ==
  ASSUME Typed, NEW a \in Nat, Aging(a) PROVE a <= Settle + Stale + 2 * Timeout
BY Limits DEF Typed, Aging, Since

(* A step in which a heartbeat stands still and no check succeeds. *)
LEMMA AgingStays ==
  ASSUME Typed, NEW a \in Nat, Aging(a), UNCHANGED <<time, dog>> PROVE Aging(a)'
BY DEF Aging, Since

(* A period passes; the clock may wrap. *)
LEMMA AgingTick ==
  ASSUME Typed, NEW a \in Nat, Aging(a), dog > 0, dog' = dog - 1,
         time' = IF time + 1 = Width THEN 0 ELSE time + 1,
         NEW b \in Nat, b = a + 1
  PROVE  Aging(b)'
<1>1. time \in Nat /\ time < Width /\ dog \in Nat /\ dog <= Timeout
  BY Limits DEF Typed
<1> QED BY <1>1, Limits DEF Aging, Since

LEMMA NoticedInitially == Init => Noticed
<1> SUFFICES ASSUME Init PROVE Noticed
  OBVIOUS
<1>1. time = 0 /\ cec = 0 /\ parser = 0 /\ dog = Timeout /\ skipped = 0
  BY DEF Init
<1>2. Typed
  BY <1>1, Limits DEF Typed
<1>3. Age(time, cec) = 0 /\ Age(time, parser) = 0
  BY <1>1, <1>2, Ages DEF Typed
<1> QED BY <1>2, <1>3, YoungIsAging, Limits DEF Noticed

LEMMA StartedAnew ==
  ASSUME Started PROVE Noticed'
<1>1. time' = 0 /\ cec' = 0 /\ parser' = 0 /\ dog' = Timeout /\ skipped' = 0
  BY DEF Started
<1>2. Typed'
  BY <1>1, Limits DEF Typed
<1>3. 0 \in 0 .. Width - 1
  BY WidthIsNat
<1>4. Age(time, cec)' = 0 /\ Age(time, parser)' = 0
  BY <1>1, <1>3, Ages
<1>5. Aging(0)'
  BY <1>1, Limits DEF Aging, Since
<1> QED BY <1>2, <1>4, <1>5 DEF Noticed

LEMMA BeatsAreTyped ==
  ASSUME Noticed
  PROVE  /\ time \in 0 .. Width - 1 /\ cec \in 0 .. Width - 1 /\ parser \in 0 .. Width - 1
         /\ Age(time, cec) \in Nat /\ Age(time, parser) \in Nat
<1>1. time \in 0 .. Width - 1 /\ cec \in 0 .. Width - 1 /\ parser \in 0 .. Width - 1
  BY DEF Noticed, Typed
<1>2. Age(time, cec) \in 0 .. Width - 1 /\ Age(time, parser) \in 0 .. Width - 1
  BY <1>1, Ages
<1> QED BY <1>1, <1>2, WidthIsNat

(* A heartbeat is now or as it was. *)
LEMMA NoticedBeat ==
  ASSUME Noticed, UNCHANGED <<time, dog, skipped>>,
         cec' \in {cec, time}, parser' \in {parser, time}
  PROVE  Noticed'
<1>1. Typed /\ Aging(Age(time, cec)) /\ Aging(Age(time, parser))
  BY DEF Noticed
<1>2. Typed'
  BY <1>1 DEF Typed
<1>3. Aging(0) /\ Age(time, time) = 0
  BY <1>1, YoungIsAging, BeatsAreTyped, Ages, Limits
<1>4. Aging(Age(time, cec))' /\ Aging(Age(time, parser))'
  BY <1>1, <1>3, BeatsAreTyped DEF Aging, Since
<1> QED BY <1>2, <1>4 DEF Noticed

(* A successful check finds every heartbeat fresh, and none overtaken. *)
LEMMA FreshIsYoung ==
  ASSUME Noticed, NEW overtaking \in SUBSET (Tasks \ stalled), Fresh(overtaking), time >= Settle
  PROVE  overtaking = {} /\ Age(time, cec) < Stale /\ Age(time, parser) < Stale
<1>1. \A task \in Tasks : Age(time, Seen(task, overtaking)) < Stale
  BY Limits DEF Fresh, Noticed, Typed
<1>2. Age(time, (time + 1) % Width) = Width - 1
  BY BeatsAreTyped, Ages
<1>3. ~(Width - 1 < Stale)
  BY Limits
<1>4. \A task \in Tasks : task \notin overtaking
  BY <1>1, <1>2, <1>3 DEF Seen
<1>5. overtaking = {}
  BY <1>4
<1>6. Seen("cec", overtaking) = cec /\ Seen("parser", overtaking) = parser
  BY <1>5 DEF Seen
<1> QED BY <1>1, <1>5, <1>6 DEF Tasks

LEMMA NoticedCheck ==
  ASSUME Noticed, NEW overtaking \in SUBSET (Tasks \ stalled), HealthCheck(overtaking)
  PROVE  Noticed'
<1>1. /\ time' = time /\ cec' \in {cec, time} /\ parser' \in {parser, time}
      /\ cec' = IF "cec" \in overtaking THEN time ELSE cec
      /\ parser' = IF "parser" \in overtaking THEN time ELSE parser
  BY DEF HealthCheck
<1>2. skipped' \in 0 .. Skips
  BY Limits DEF HealthCheck, Noticed, Typed
<1>3. CASE ~Fresh(overtaking)
  <2>1. dog' = dog
    BY <1>3, Zenon DEF HealthCheck
  <2>2. Typed /\ Aging(Age(time, cec)) /\ Aging(Age(time, parser))
    BY DEF Noticed
  <2>3. Aging(0) /\ Age(time, time) = 0
    BY <2>2, YoungIsAging, BeatsAreTyped, Ages, Limits
  <2>4. Aging(Age(time, cec))' /\ Aging(Age(time, parser))'
    BY <1>1, <2>1, <2>2, <2>3 DEF Aging, Since
  <2>5. Typed'
    BY <1>1, <1>2, <2>1, <2>2 DEF Typed
  <2> QED BY <2>4, <2>5 DEF Noticed
<1>4. CASE Fresh(overtaking)
  <2>1. dog' = Timeout
    BY <1>4, Zenon DEF HealthCheck
  <2>2. Typed'
    BY <1>1, <1>2, <2>1, Limits DEF Noticed, Typed
  <2>3. ASSUME NEW a \in Nat, time >= Settle => a <= Stale, Aging(a) PROVE Aging(a)'
    BY <1>1, <2>1, <2>3, Limits, BeatsAreTyped DEF Aging, Since
  <2>4. time >= Settle => /\ overtaking = {} /\ Age(time, cec) <= Stale
                          /\ Age(time, parser) <= Stale
    BY <1>4, FreshIsYoung, BeatsAreTyped, Limits
  <2>5. Aging(0) /\ Age(time, time) = 0
    BY YoungIsAging, BeatsAreTyped, Ages, Limits DEF Noticed
  <2>6. Aging(0)' /\ Aging(Age(time, cec)) /\ Aging(Age(time, parser))
    BY <2>3, <2>5, Limits DEF Noticed
  <2>7. Age(time', cec') \in {0, Age(time, cec)} /\ Age(time', parser') \in {0, Age(time, parser)}
    BY <1>1, <2>5
  <2>8. /\ Age(time', cec') \in Nat /\ Age(time', parser') \in Nat
        /\ time >= Settle => Age(time', cec') <= Stale /\ Age(time', parser') <= Stale
        /\ Aging(Age(time, cec)) /\ Aging(Age(time, parser))
    BY <2>4, <2>6, <2>7, BeatsAreTyped, Limits
  <2>9. Aging(Age(time, cec))' /\ Aging(Age(time, parser))'
    <3>1. ASSUME NEW b \in Nat, b \in {0, Age(time, cec), Age(time, parser)} PROVE Aging(b)'
      BY <2>3, <2>4, <2>5, <2>6, <3>1, Limits
    <3>2. Aging(Age(time, cec))'
      BY <2>7, <2>8, <3>1 DEF Aging, Since
    <3>3. Aging(Age(time, parser))'
      BY <2>7, <2>8, <3>1 DEF Aging, Since
    <3> QED BY <3>2, <3>3
  <2> QED BY <2>2, <2>9 DEF Noticed
<1> QED BY <1>3, <1>4

LEMMA NoticedTick == Noticed /\ Tick => Noticed'
<1> SUFFICES ASSUME Noticed, Tick PROVE Noticed'
  OBVIOUS
<1>1. /\ time' = (time + 1) % Width /\ dog > 0 /\ dog' = dog - 1
      /\ UNCHANGED <<cec, parser, skipped>>
  BY Zenon DEF Tick
<1>2. Typed /\ Aging(Age(time, cec)) /\ Aging(Age(time, parser))
  BY DEF Noticed
<1>3. time' = IF time + 1 = Width THEN 0 ELSE time + 1
  BY <1>1, NextTime, BeatsAreTyped
<1>4. Typed'
  <2>1. dog' \in 0 .. Timeout
    BY <1>1, <1>2, Limits DEF Typed
  <2>2. time' \in 0 .. Width - 1
    BY <1>1, BeatsAreTyped, Ages
  <2> QED BY <1>1, <1>2, <2>1, <2>2 DEF Typed
<1>5. Age(time, cec) < Width - 1 /\ Age(time, parser) < Width - 1
  <2>1. ASSUME NEW a \in Nat, Aging(a) PROVE a < Width - 1
    BY <1>1, <1>2, <2>1, Limits DEF Typed, Aging, Since
  <2> QED BY <1>2, <2>1, BeatsAreTyped
<1>6. /\ Age(time, cec)' = Age(time, cec) + 1
      /\ Age(time, parser)' = Age(time, parser) + 1
  BY <1>1, <1>5, BeatsAreTyped, Ages
<1>7. ASSUME NEW a \in Nat, Aging(a), NEW b \in Nat, b = a + 1 PROVE Aging(b)'
  BY <1>1, <1>2, <1>3, <1>7, AgingTick
<1>8. Aging(Age(time, cec))'
  BY <1>2, <1>6, <1>7, BeatsAreTyped DEF Aging, Since
<1>9. Aging(Age(time, parser))'
  BY <1>2, <1>6, <1>7, BeatsAreTyped DEF Aging, Since
<1> QED BY <1>4, <1>8, <1>9 DEF Noticed

LEMMA NoticedStep == Noticed /\ [Next]_vars => Noticed'
<1> SUFFICES ASSUME Noticed, [Next]_vars PROVE Noticed'
  OBVIOUS
<1>1. CASE Expire
  BY <1>1, StartedAnew, Zenon DEF Expire, Boot
<1>2. CASE Reboot
  BY <1>2, StartedAnew, Zenon DEF Reboot, Boot
<1>3. ASSUME UNCHANGED <<time, dog, skipped>>, cec' \in {cec, time}, parser' \in {parser, time}
      PROVE  Noticed'
  BY <1>3, NoticedBeat
<1>4. CASE RebootBootsel \/ UNCHANGED vars
  BY <1>3, <1>4, Zenon DEF RebootBootsel, vars, clockVars
<1>5. CASE CecBeat \/ ParserBeat \/ ParserGoesOn
  BY <1>3, <1>5, Zenon DEF CecBeat, ParserBeat, ParserGoesOn
<1>6. ASSUME NEW task \in Tasks, Stall(task) PROVE Noticed'
  BY <1>3, <1>6, Zenon DEF Stall
<1>7. CASE Tick
  BY <1>7, NoticedTick
<1>8. ASSUME NEW overtaking \in SUBSET (Tasks \ stalled), HealthCheck(overtaking)
      PROVE  Noticed'
  BY <1>8, NoticedCheck
<1> QED BY <1>1, <1>2, <1>4, <1>5, <1>6, <1>7, <1>8 DEF Next

(* A task that hangs is noticed in time, however the clock wraps, health     *)
(* checks are overtaken and heartbeats fall between them.                    *)
THEOREM StallsAreNoticed == Spec => []StallIsNoticed
<1>1. Noticed => StallIsNoticed
  <2> SUFFICES ASSUME Noticed PROVE StallIsNoticed
    OBVIOUS
  <2>1. Typed /\ Aging(Age(time, cec)) /\ Aging(Age(time, parser))
    BY DEF Noticed
  <2> QED BY <2>1, BeatsAreTyped, AgingBound DEF StallIsNoticed
<1> QED BY <1>1, NoticedInitially, NoticedStep, PTL DEF Spec

--------------------------------------------------------------------------------
(* The watchdog resets a controller none of whose tasks hangs only if        *)
(* cdc_task was late because its round went on, provided that the rest is    *)
(* short enough: the first thing of a round of cdc_task is done before its   *)
(* heartbeat is stale, and what a round of the CEC task is longer than that, *)
(* the overtaken checks and one period included, is over before the          *)
(* watchdog's time is.  How long a round of cdc_task goes on is not assumed. *)

Excess(a) == IF a >= Stale THEN a - Stale + 1 ELSE 0   \* stale periods of a round

RoundsAreShort ==
  ParserLoop < Stale /\ Skips + 1 < Stale /\ Excess(CecLoop) + Skips + 1 < Timeout

(* Unless cdc_task was late, the watchdog has missed one update for each     *)
(* stale period of this round of the CEC task and for each overtaken check,  *)
(* or those of an earlier round, which ended at most as many periods ago as  *)
(* checks were overtaken since.                                              *)
Missed(a) ==
  IF checked
    THEN \/ Since <= skipped + Excess(a)
         \/ a <= skipped /\ Since <= skipped + Excess(CecLoop)
    ELSE \/ Since <= 1 + skipped + Excess(a - 1)
         \/ a <= skipped + 1 /\ Since <= 1 + skipped + Excess(CecLoop)

Alive ==
  /\ Noticed
  /\ mode = "run" /\ stalled = {}
       => /\ Age(time, cec) <= CecLoop
          /\ going \/ Age(time, parser) <= ParserLoop
          /\ late \/ Missed(Age(time, cec))

LEMMA Loops == CecLoop \in Nat \ {0} /\ ParserLoop \in Nat \ {0}
BY WatchdogAssumption

LEMMA AliveAnew ==
  ASSUME Started PROVE Alive'
<1>1. time' = 0 /\ cec' = 0 /\ parser' = 0 /\ dog' = Timeout /\ skipped' = 0
  BY DEF Started
<1>2. checked' = FALSE
  BY Zenon DEF Started
<1>3. 0 \in 0 .. Width - 1
  BY WidthIsNat
<1>4. Age(time, cec)' = 0 /\ Age(time, parser)' = 0
  BY <1>1, <1>3, Ages
<1>5. Missed(0)'
  BY <1>1, <1>2, Limits DEF Missed, Since, Excess
<1>6. Missed(Age(time, cec))'
  BY <1>4, <1>5 DEF Missed, Since
<1> QED BY <1>4, <1>6, StartedAnew, Loops DEF Alive

LEMMA AliveInitially == Init => Alive
<1> SUFFICES ASSUME Init PROVE Alive
  OBVIOUS
<1>1. time = 0 /\ cec = 0 /\ parser = 0 /\ dog = Timeout /\ skipped = 0
  BY DEF Init
<1>2. checked = FALSE
  BY Zenon DEF Init
<1>3. 0 \in 0 .. Width - 1
  BY WidthIsNat
<1>4. Age(time, cec) = 0 /\ Age(time, parser) = 0
  BY <1>1, <1>3, Ages
<1>5. Missed(0)
  BY <1>1, <1>2, Limits DEF Missed, Since, Excess
<1> QED BY <1>4, <1>5, NoticedInitially, Loops DEF Alive

(* The heartbeats of a controller none of whose tasks hangs. *)
LEMMA AliveNow ==
  ASSUME Alive, mode = "run", stalled = {}
  PROVE  /\ Age(time, cec) \in Nat /\ Age(time, cec) <= CecLoop
         /\ Age(time, parser) \in Nat
         /\ going \/ Age(time, parser) <= ParserLoop
         /\ late \/ Missed(Age(time, cec))
         /\ time \in 0 .. Width - 1 /\ cec \in 0 .. Width - 1 /\ parser \in 0 .. Width - 1
         /\ dog \in 0 .. Timeout /\ skipped \in 0 .. Skips
BY BeatsAreTyped DEF Alive, Noticed, Typed

(* A round of the CEC task may end at any time. *)
LEMMA MissedBeat ==
  ASSUME Typed, NEW a \in Nat, a <= CecLoop, Missed(a) PROVE Missed(0)
<1>1. skipped \in Nat /\ Since \in Nat
  BY Limits DEF Typed, Since
<1>2. Excess(a) <= Excess(CecLoop) /\ Excess(a - 1) <= Excess(CecLoop)
  BY Limits, Loops DEF Excess
<1>3. Excess(a) \in Nat /\ Excess(a - 1) \in Nat /\ Excess(CecLoop) \in Nat
  BY Limits, Loops DEF Excess
<1>4. CASE checked
  <2>1. Since <= skipped + Excess(CecLoop)
    BY <1>1, <1>2, <1>3, <1>4 DEF Missed
  <2> QED BY <1>1, <1>4, <2>1 DEF Missed
<1>5. CASE ~checked
  <2>1. Since <= 1 + skipped + Excess(CecLoop)
    BY <1>1, <1>2, <1>3, <1>5 DEF Missed
  <2> QED BY <1>1, <1>5, <2>1 DEF Missed
<1> QED BY <1>4, <1>5

LEMMA AliveBeat ==
  ASSUME Alive, UNCHANGED <<mode, stalled, time, dog, skipped>>, checked' = checked,
         cec' \in {cec, time}, parser' \in {parser, time}, late => late',
         parser' = time \/ (going => going')
  PROVE  Alive'
<1>1. Noticed'
  BY NoticedBeat DEF Alive
<1>2. ASSUME mode' = "run", stalled' = {}
      PROVE  /\ Age(time', cec') <= CecLoop
             /\ going' \/ Age(time', parser') <= ParserLoop
             /\ late' \/ Missed(Age(time, cec))'
  <2>1. mode = "run" /\ stalled = {}
    BY <1>2
  <2>2. Age(time, time) = 0
    BY <2>1, AliveNow, Ages
  <2>3. late \/ Missed(0)
    BY <2>1, AliveNow, MissedBeat, Zenon DEF Alive, Noticed
  <2>4. Age(time', cec') \in {0, Age(time, cec)} /\ Age(time', parser') \in {0, Age(time, parser)}
    BY <2>2
  <2>5. \A a : Missed(a) <=> Missed(a)'
    BY DEF Missed, Since
  <2>6. late \/ Missed(Age(time', cec'))
    BY <2>1, <2>3, <2>4, AliveNow
  <2>7. late' \/ Missed(Age(time, cec))'
    BY <2>5, <2>6
  <2>8. Age(time', cec') <= CecLoop
    BY <2>1, <2>4, AliveNow, Loops
  <2>9. going' \/ Age(time', parser') <= ParserLoop
    <3>1. CASE parser' # time /\ parser' = parser
      BY <2>1, <3>1, AliveNow
    <3>2. CASE parser' = time
      BY <2>2, <3>2, Loops
    <3> QED BY <3>1, <3>2
  <2> QED BY <2>7, <2>8, <2>9
<1> QED BY <1>1, <1>2 DEF Alive

LEMMA AliveTick == Alive /\ Tick => Alive'
<1> SUFFICES ASSUME Alive, Tick, mode' = "run" /\ stalled' = {}
             PROVE  /\ Age(time', cec') <= CecLoop
                    /\ going' \/ Age(time', parser') <= ParserLoop
                    /\ late' \/ Missed(Age(time, cec))'
  BY NoticedTick DEF Alive
<1>1. /\ time' = (time + 1) % Width /\ dog > 0 /\ dog' = dog - 1
      /\ UNCHANGED <<mode, cec, parser, stalled, skipped>>
  BY Zenon DEF Tick
<1>2. checked /\ ~checked'
  BY Zenon DEF Tick
<1>3. mode = "run" /\ stalled = {}
  BY <1>1
<1>4. Age(time, cec) < CecLoop /\ (going \/ Age(time, parser) < ParserLoop)
  BY <1>3 DEF Tick
<1>g. (going' <=> going) /\ (late' <=> late)
  BY Zenon DEF Tick
<1>5. Age(time, cec) < Width - 1 /\ Age(time, parser) < Width - 1
  <2>1. ASSUME NEW a \in Nat, Aging(a) PROVE a < Width - 1
    BY <1>1, <2>1, Limits DEF Alive, Noticed, Typed, Aging, Since
  <2> QED BY <2>1, BeatsAreTyped DEF Alive, Noticed
<1>6. /\ Age(time', cec') = Age(time, cec) + 1
      /\ Age(time', parser') = Age(time, parser) + 1
  BY <1>1, <1>3, <1>5, AliveNow, Ages
<1>7. ASSUME NEW b, b = Age(time, cec) + 1, ~late PROVE Missed(b)'
  <2> DEFINE a == Age(time, cec)
  <2>1. a \in Nat /\ Missed(a) /\ dog \in 0 .. Timeout
    BY <1>3, <1>7, AliveNow
  <2> HIDE DEF a
  <2>2. \/ Since <= skipped + Excess(a)
        \/ a <= skipped /\ Since <= skipped + Excess(CecLoop)
    BY <1>2, <2>1 DEF Missed
  <2>3. Since' = Since + 1 /\ Since \in Nat
    BY <1>1, <2>1, Limits DEF Since
  <2>4. Excess(a) \in Nat /\ Excess(CecLoop) \in Nat /\ skipped \in Nat
    BY <1>3, <2>1, AliveNow, Limits, Loops DEF Excess
  <2>5. skipped' = skipped /\ (a + 1) - 1 = a
    BY <1>1, <2>1
  <2>6. \/ Since' <= 1 + skipped' + Excess((a + 1) - 1)
        \/ a + 1 <= skipped' + 1 /\ Since' <= 1 + skipped' + Excess(CecLoop)
    BY <2>1, <2>2, <2>3, <2>4, <2>5
  <2>7. b = a + 1
    BY <1>7 DEF a
  <2> QED BY <1>2, <2>6, <2>7 DEF Missed
<1>8. late' \/ Missed(Age(time, cec))'
  <2>1. ASSUME ~late PROVE Missed(Age(time, cec))'
    BY <1>6, <1>7, <2>1 DEF Missed
  <2> QED BY <1>g, <2>1
<1>9. Age(time', cec') <= CecLoop
  BY <1>3, <1>4, <1>6, AliveNow, Loops
<1>10. going' \/ Age(time', parser') <= ParserLoop
  <2>1. going \/ Age(time', parser') <= ParserLoop
    BY <1>3, <1>4, <1>6, AliveNow, Loops
  <2> QED BY <1>g, <2>1
<1> QED BY <1>8, <1>9, <1>10

(* A check that finds a heartbeat stale has missed one update of the         *)
(* watchdog, which a stale period of the CEC task's round or an overtaken    *)
(* heartbeat accounts for.                                                   *)
LEMMA MissedStale ==
  ASSUME RoundsAreShort, Typed, NEW a \in Nat, a <= CecLoop, Missed(a), ~checked,
         checked', dog' = dog, UNCHANGED <<time>>,
         NEW b \in {0, a}, b = 0 \/ skipped' = skipped + 1 \/ a >= Stale,
         skipped' = skipped + 1 \/ (skipped' = skipped /\ b = a /\ a >= Stale)
  PROVE  Missed(b)'
<1>1. Since \in Nat /\ Since' = Since /\ skipped \in 0 .. Skips /\ skipped' \in Nat
  BY Limits DEF Typed, Since
<1>2. /\ Excess(a) <= Excess(CecLoop) /\ Excess(a - 1) <= Excess(a)
      /\ a >= Stale => Excess(a) = 1 + Excess(a - 1)
      /\ {Excess(a), Excess(a - 1), Excess(CecLoop)} \subseteq Nat
  BY Limits, Loops DEF Excess
<1>3. \/ Since <= 1 + skipped + Excess(a - 1)
      \/ a <= skipped + 1 /\ Since <= 1 + skipped + Excess(CecLoop)
  BY Zenon DEF Missed
<1>4. \/ Since' <= skipped' + Excess(b)
      \/ b <= skipped' /\ Since' <= skipped' + Excess(CecLoop)
  <2>1. CASE skipped' = skipped /\ b = a /\ a >= Stale
    BY <1>1, <1>2, <1>3, <2>1, Limits DEF RoundsAreShort
  <2>2. CASE skipped' = skipped + 1 /\ b = a
    BY <1>1, <1>2, <1>3, <2>2
  <2>3. CASE skipped' = skipped + 1 /\ b = 0
    BY <1>1, <1>2, <1>3, <2>3
  <2> QED BY <2>1, <2>2, <2>3
<1> QED BY <1>4, Zenon DEF Missed

LEMMA AliveCheck ==
  ASSUME RoundsAreShort, Alive,
         NEW overtaking \in SUBSET (Tasks \ stalled), HealthCheck(overtaking)
  PROVE  Alive'
<1> SUFFICES ASSUME mode' = "run" /\ stalled' = {}
             PROVE  /\ Age(time', cec') <= CecLoop
                    /\ going' \/ Age(time', parser') <= ParserLoop
                    /\ late' \/ Missed(Age(time, cec))'
  BY NoticedCheck DEF Alive
<1>1. /\ UNCHANGED <<mode, stalled, time>>
      /\ cec' = IF "cec" \in overtaking THEN time ELSE cec
      /\ parser' = IF "parser" \in overtaking THEN time ELSE parser
      /\ overtaking # {} => skipped < Skips
  BY DEF HealthCheck
<1>2. ~checked /\ checked'
  BY Zenon DEF HealthCheck
<1>3. mode = "run" /\ stalled = {}
  BY <1>1
<1>4. Age(time, time) = 0
  BY <1>3, AliveNow, Ages
<1>5. /\ Age(time', cec') = IF "cec" \in overtaking THEN 0 ELSE Age(time, cec)
      /\ Age(time', parser') = IF "parser" \in overtaking THEN 0 ELSE Age(time, parser)
  BY <1>1, <1>4
<1>g. going' <=> going /\ "parser" \notin overtaking
  BY Zenon DEF HealthCheck
<1>6. Age(time', cec') <= CecLoop
  BY <1>3, <1>5, AliveNow, Loops
<1>9. going' \/ Age(time', parser') <= ParserLoop
  <2>1. CASE "parser" \in overtaking
    BY <1>5, <2>1, Loops
  <2>2. CASE "parser" \notin overtaking
    BY <1>3, <1>5, <1>g, <2>2, AliveNow
  <2> QED BY <2>1, <2>2
<1>7. CASE Fresh(overtaking)
  <2>1. dog' = Timeout /\ skipped' = 0
    BY <1>7, Zenon DEF HealthCheck
  <2>2. Since' = 0 /\ Age(time', cec') \in Nat
    BY <1>3, <1>5, <2>1, Limits, AliveNow DEF Since
  <2>3. ASSUME NEW b \in Nat PROVE Missed(b)'
    <3>1. Since' <= skipped' + Excess(b)
      BY <2>1, <2>2, Limits DEF Excess
    <3> QED BY <1>2, <3>1, Zenon DEF Missed
  <2>4. Missed(Age(time, cec))'
    BY <2>2, <2>3 DEF Missed
  <2> QED BY <1>6, <1>9, <2>4
<1>10. CASE ~Fresh(overtaking) /\ late'
  BY <1>6, <1>9, <1>10
<1>8. CASE ~Fresh(overtaking) /\ ~late'
  <2>0. ~late /\ ~Missing(overtaking)
    BY <1>8, Zenon DEF HealthCheck
  <2>1. dog' = dog /\ skipped' = IF overtaking = {} THEN skipped ELSE skipped + 1
    BY <1>8, Zenon DEF HealthCheck
  <2>2. overtaking = {} => Age(time, cec) >= Stale
    <3> SUFFICES ASSUME overtaking = {} PROVE Age(time, cec) >= Stale
      OBVIOUS
    <3>1. PICK task \in Tasks : ~(Age(time, Seen(task, overtaking)) < Stale)
      BY <1>8 DEF Fresh
    <3>2. Age(time, parser) < Stale
      <4>1. CASE going
        BY <1>3, <2>0, <4>1, AliveNow, Limits DEF Missing
      <4>2. CASE ~going
        BY <1>3, <4>2, AliveNow, Limits, Loops DEF RoundsAreShort
      <4> QED BY <4>1, <4>2
    <3> QED BY <1>3, <3>1, <3>2, AliveNow, Limits DEF Tasks, Seen
  <2>3. /\ \/ Age(time', cec') = 0 \/ skipped' = skipped + 1
           \/ Age(time, cec) >= Stale
        /\ \/ skipped' = skipped + 1
           \/ /\ skipped' = skipped /\ Age(time', cec') = Age(time, cec)
              /\ Age(time, cec) >= Stale
    BY <1>5, <2>1, <2>2
  <2>4. ASSUME NEW b, b = Age(time', cec') PROVE Missed(b)'
    <3>1. b \in {0, Age(time, cec)}
      BY <1>5, <2>4
    <3>2. Typed /\ Age(time, cec) \in Nat /\ Age(time, cec) <= CecLoop /\ Missed(Age(time, cec))
      BY <1>3, <2>0, AliveNow DEF Alive, Noticed
    <3>3. b = 0 \/ skipped' = skipped + 1 \/ Age(time, cec) >= Stale
      BY <2>3, <2>4
    <3>4. \/ skipped' = skipped + 1
          \/ skipped' = skipped /\ b = Age(time, cec) /\ Age(time, cec) >= Stale
      BY <2>3, <2>4
    <3>5. dog' = dog /\ time' = time
      BY <1>1, <2>1
    <3> QED BY <1>2, <3>1, <3>2, <3>3, <3>4, <3>5, MissedStale, Zenon
  <2>5. Missed(Age(time, cec))'
    BY <2>4 DEF Missed
  <2> QED BY <1>6, <1>9, <2>5
<1> QED BY <1>7, <1>8, <1>10

LEMMA AliveStep == RoundsAreShort /\ Alive /\ [Next]_vars => Alive'
<1> SUFFICES ASSUME RoundsAreShort, Alive, [Next]_vars PROVE Alive'
  OBVIOUS
<1>1. CASE Expire
  BY <1>1, AliveAnew, Zenon DEF Expire, Boot
<1>2. CASE Reboot
  BY <1>2, AliveAnew, Zenon DEF Reboot, Boot
<1>3. CASE RebootBootsel
  <2>1. mode' # "run" /\ UNCHANGED <<time, dog, skipped, cec, parser>>
    BY <1>3 DEF RebootBootsel, clockVars
  <2> QED BY <2>1, NoticedBeat DEF Alive
<1>4. ASSUME UNCHANGED <<mode, stalled, time, dog, skipped>>, checked' = checked,
             cec' \in {cec, time}, parser' \in {parser, time}, late => late',
             parser' = time \/ (going => going')
      PROVE  Alive'
  BY <1>4, AliveBeat, Zenon
<1>5. CASE CecBeat \/ ParserBeat \/ ParserGoesOn
  BY <1>4, <1>5, Zenon DEF CecBeat, ParserBeat, ParserGoesOn
<1>6. CASE UNCHANGED vars
  BY <1>4, <1>6, Zenon DEF vars, clockVars
<1>7. ASSUME NEW task \in Tasks, Stall(task) PROVE Alive'
  <2>1. stalled' # {} /\ UNCHANGED <<time, dog, skipped, cec, parser>>
    BY <1>7 DEF Stall
  <2> QED BY <2>1, NoticedBeat DEF Alive
<1>8. CASE Tick
  BY <1>8, AliveTick
<1>9. ASSUME NEW overtaking \in SUBSET (Tasks \ stalled), HealthCheck(overtaking)
      PROVE  Alive'
  BY <1>9, AliveCheck
<1> QED BY <1>1, <1>2, <1>3, <1>5, <1>6, <1>7, <1>8, <1>9 DEF Next

(* The watchdog resets a controller none of whose tasks hangs only after a   *)
(* check found the heartbeat of cdc_task stale while its round went on, for  *)
(* all periods, however long such a round is and whatever the clock does.    *)
THEOREM ResetsAreExplained ==
  ASSUME RoundsAreShort
  PROVE  Spec => []ResetIsExplained
<1>1. Alive => ResetIsExplained
  <2> SUFFICES ASSUME Alive, mode = "run", dog = 0, stalled = {}, ~late PROVE FALSE
    BY DEF ResetIsExplained
  <2> DEFINE a == Age(time, cec)
  <2>1. a \in Nat /\ a <= CecLoop /\ Missed(a) /\ skipped \in 0 .. Skips
    BY AliveNow
  <2> HIDE DEF a
  <2>2. Since = Timeout
    BY Limits DEF Since
  <2>3. /\ Excess(a) <= Excess(CecLoop) /\ Excess(a - 1) <= Excess(CecLoop)
        /\ {Excess(a), Excess(a - 1), Excess(CecLoop)} \subseteq Nat
    BY <2>1, Limits, Loops DEF Excess
  <2>4. \/ Since <= skipped + Excess(a)
        \/ Since <= skipped + Excess(CecLoop)
        \/ Since <= 1 + skipped + Excess(a - 1)
        \/ Since <= 1 + skipped + Excess(CecLoop)
    BY <2>1, Zenon DEF Missed
  <2> QED BY <2>1, <2>2, <2>3, <2>4, Limits DEF RoundsAreShort
<1>2. RoundsAreShort /\ Alive /\ [Next]_vars => Alive'
  BY AliveStep
<1> QED BY <1>1, <1>2, AliveInitially, PTL DEF Spec
================================================================================

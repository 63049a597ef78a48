---------------------------- MODULE CecControlProofs ----------------------------
(***************************************************************************)
(* Theorems about CecControl, for every deadline, timeout, pause and       *)
(* number of attempts.                                                     *)
(***************************************************************************)
EXTENDS CecControl, SequenceTheorems, TLAPS

Fields == {"code", "attempts", "power", "verified", "announced", "routing", "phase", "elapsed"}
Confirming == {"command", "ask"}
Activating == {"activate", "announce", "posted", "on_wire", "route"}

Typed ==
  /\ clock \in Nat /\ askedAt \in Nat /\ commanded \in Nat /\ tries \in Nat
  /\ DOMAIN result = Fields /\ asked \in Seq(Nat)
  /\ op \in {"on", "standby", "status"}
  /\ pc = "status" => op = "status"
  /\ pc \in Confirming => op # "status"

(* Between operations the locals are new. *)
Renewed ==
  pc = "idle" => result = InitialResult /\ stable = 0 /\ commanded = 0

(* One report of the target: it is the latest answer, no command followed it,*)
(* and the pause after it is over unless the deadline came first.            *)
Counted ==
  pc \in Confirming =>
    /\ stable \in {0, 1} /\ commanded <= clock
    /\ stable = 1 =>
         /\ asked # <<>> /\ asked[1] = Target /\ result.power = Target
         /\ commanded <= askedAt
         /\ clock >= askedAt + Poll \/ clock >= Limit(op)

Verified ==
  result.verified /\ op # "status" =>
    /\ asked = <<Target, Target>> /\ spaced
    /\ pc \in Activating \cup {"done"}

IInv == Typed /\ Renewed /\ Counted /\ Verified

Initial ==
  DOMAIN InitialResult = Fields /\ ~InitialResult.verified /\ InitialResult.code = "unavailable"

LEMMA InitialIs == Initial
<1>1. ~InitialResult.verified
  BY DEF InitialResult
<1> QED BY <1>1 DEF Initial, InitialResult, Fields

LEMMA Initially == Init => IInv
<1> SUFFICES ASSUME Init PROVE IInv
  OBVIOUS
<1>1. Typed /\ Renewed /\ Counted
  BY InitialIs DEF Init, Typed, Renewed, Counted, Initial, Confirming
<1>2. result = InitialResult
  BY Zenon DEF Init
<1>3. Verified
  BY <1>2, InitialIs, Zenon DEF Verified, Initial
<1> QED BY <1>1, <1>3 DEF IInv

LEMMA LimitIs == op \in {"on", "standby", "status"} => Limit(op) \in Nat
BY ControlAssumption DEF Limit

(* The answers before the latest two are forgotten. *)
LEMMA AskedIs ==
  ASSUME asked \in Seq(Nat), NEW p \in Nat,
         asked' = <<p>> \o SubSeq(asked, 1, Min2(1, Len(asked)))
  PROVE  /\ asked' \in Seq(Nat) /\ asked' # <<>> /\ asked'[1] = p
         /\ asked # <<>> => asked' = <<p, asked[1]>>
<1> DEFINE old == SubSeq(asked, 1, Min2(1, Len(asked)))
<1>1. Len(asked) \in Nat /\ <<p>> \in Seq(Nat) /\ Len(<<p>>) = 1 /\ <<p>>[1] = p
  BY LenProperties
<1>2. /\ old \in Seq(Nat)
      /\ asked = <<>> => Len(old) = 0
      /\ asked # <<>> => Len(old) = 1 /\ old[1] = asked[1] /\ asked[1] \in Nat
  <2>1. CASE asked = <<>>
    <3>1. Min2(1, Len(asked)) = 0
      BY <2>1, EmptySeq DEF Min2
    <3>2. old = <<>>
      BY <3>1, SubSeqEmpty
    <3> QED BY <2>1, <3>2, EmptySeq
  <2>2. CASE asked # <<>>
    <3>1. Len(asked) \in Nat \ {0}
      BY <2>2, EmptySeq
    <3>2. Min2(1, Len(asked)) = 1
      BY <3>1 DEF Min2
    <3>3. asked[1] \in Nat
      BY <3>1, ElementOfSeq
    <3>4. \A i \in 1 .. 1 : asked[i] \in Nat
      BY <3>3
    <3>5. /\ SubSeq(asked, 1, 1) \in Seq(Nat) /\ Len(SubSeq(asked, 1, 1)) = 1
          /\ \A i \in 1 .. 1 : SubSeq(asked, 1, 1)[i] = asked[1 + i - 1]
      BY <3>4, SubSeqProperties
    <3> QED BY <2>2, <3>2, <3>3, <3>5
  <2> QED BY <2>1, <2>2
<1> HIDE DEF old
<1> DEFINE first == <<p>>
<1>3. first \in Seq(Nat) /\ Len(first) = 1 /\ first[1] = p
  BY <1>1
<1> HIDE DEF first
<1>4. /\ first \o old \in Seq(Nat) /\ Len(first \o old) = Len(first) + Len(old)
      /\ \A i \in 1 .. Len(first) + Len(old) :
           (first \o old)[i] = IF i <= Len(first) THEN first[i] ELSE old[i - Len(first)]
  BY <1>2, <1>3, ConcatProperties
<1>5. asked' = first \o old
  BY DEF first, old
<1>6. Len(old) \in Nat
  BY <1>2, LenProperties
<1>7. asked' \in Seq(Nat) /\ Len(asked') = 1 + Len(old)
  BY <1>3, <1>4, <1>5
<1>8. asked'[1] = p
  BY <1>3, <1>4, <1>5, <1>6
<1>9. asked' # <<>>
  BY <1>6, <1>7, EmptySeq
<1>10. CASE asked # <<>>
  <2>1. Len(old) = 1 /\ old[1] = asked[1] /\ asked[1] \in Nat
    BY <1>2, <1>10
  <2>2. Len(asked') = 2
    BY <1>7, <2>1
  <2>3. asked'[2] = asked[1]
    <3>1. 2 \in 1 .. Len(first) + Len(old) /\ ~(2 <= Len(first)) /\ 2 - Len(first) = 1
      BY <1>3, <2>1
    <3>2. (first \o old)[2] = old[2 - Len(first)]
      BY <1>4, <3>1, Zenon
    <3> QED BY <1>5, <2>1, <3>1, <3>2, Zenon
  <2> DEFINE both == <<p, asked[1]>>
  <2>4. both \in Seq(Nat) /\ Len(both) = 2 /\ both[1] = p /\ both[2] = asked[1]
    BY <2>1
  <2> HIDE DEF both
  <2>5. \A i \in 1 .. 2 : asked'[i] = both[i]
    <3>1. \A i \in 1 .. 2 : i = 1 \/ i = 2
      OBVIOUS
    <3> QED BY <1>8, <2>3, <2>4, <3>1, Zenon
  <2>6. asked' = both
    BY <1>7, <2>2, <2>4, <2>5, SeqEqual
  <2> QED BY <1>7, <1>8, <1>9, <2>6 DEF both
<1> QED BY <1>7, <1>8, <1>9, <1>10

(* Steps that keep the answers, and what was verified with them. *)
LEMMA Keeping ==
  ASSUME IInv, result'.verified => result.verified, UNCHANGED <<op, asked, spaced>>,
         pc \in Activating => pc' \in Activating \cup {"done"}, pc = "done" => pc' = "done"
  PROVE  Verified'
BY Zenon DEF IInv, Verified, Target

LEMMA TimesAreNat == \A at \in Times : at \in Nat
BY ControlAssumption DEF Times

LEMMA EndsLater ==
  ASSUME clock \in Nat, NEW t, NEW late, NEW at \in Times, at \in Ends(t, late)
  PROVE  at \in Nat /\ clock <= at
BY TimesAreNat DEF Ends

(* A pause lasts a polling interval or until the deadline. *)
LEMMA PauseIs ==
  ASSUME op \in {"on", "standby", "status"}, NEW at \in Nat
  PROVE  Paused(at) \in Nat /\ at <= Paused(at)
         /\ (Paused(at) >= at + Poll \/ Paused(at) >= Limit(op))
BY LimitIs, ControlAssumption DEF Paused, Remaining, Min2

--------------------------------------------------------------------------------
(* The steps.                                                                *)

(* An operation that ends keeps what it has verified. *)
LEMMA Ending ==
  ASSUME IInv, NEW r, NEW at \in Nat, Done(r, at), DOMAIN r = Fields,
         r.verified => result.verified,
         UNCHANGED <<op, asked, spaced>>, askedAt' \in Nat, commanded' \in Nat, tries' \in Nat
  PROVE  IInv'
<1>1. pc' = "done" /\ clock' = at /\ result' = [r EXCEPT !.elapsed = at]
  BY Zenon DEF Done
<1>2. DOMAIN result' = Fields /\ result'.verified = r.verified
  BY <1>1 DEF Fields
<1>3. Typed' /\ Renewed' /\ Counted'
  BY <1>1, <1>2 DEF IInv, Typed, Renewed, Counted, Confirming
<1>4. Verified'
  BY <1>1, <1>2, Zenon DEF IInv, Verified, Target
<1> QED BY <1>3, <1>4 DEF IInv

LEMMA Beginning ==
  ASSUME IInv, NEW o \in {"on", "standby", "status"}, NEW at \in Times,
         Begin(o, at) \/ BeginUnavailable(o, at)
  PROVE  IInv'
<1>1. /\ pc = "idle" /\ op' = o
      /\ UNCHANGED <<stable, tries, asked, askedAt, spaced, commanded>>
  BY Zenon DEF Begin, BeginUnavailable, Fresh, progress, history, queries
<1>2. /\ clock' = at /\ pc' \in {"status", "command", "done"}
      /\ pc' = "status" => o = "status"
      /\ pc' = "command" => o # "status"
  BY DEF Begin, BeginUnavailable, Done
<1>3. result = InitialResult /\ stable = 0 /\ commanded = 0
  BY <1>1 DEF IInv, Renewed
<1>4. \/ result' = [InitialResult EXCEPT !.phase = IF o = "status" THEN @ ELSE "power"]
      \/ result' = [InitialResult EXCEPT !.elapsed = at]
  BY Zenon DEF Begin, BeginUnavailable, Done
<1>5. DOMAIN result' = Fields /\ result'.verified = InitialResult.verified
  <2>1. CASE result' = [InitialResult EXCEPT !.phase = IF o = "status" THEN @ ELSE "power"]
    BY <2>1, InitialIs DEF Initial, Fields
  <2>2. CASE result' = [InitialResult EXCEPT !.elapsed = at]
    BY <2>2, InitialIs DEF Initial, Fields
  <2> QED BY <1>4, <2>1, <2>2
<1>6. at \in Nat
  BY TimesAreNat
<1>7. Typed' /\ Renewed' /\ Counted'
  BY <1>1, <1>2, <1>3, <1>5, <1>6 DEF IInv, Typed, Renewed, Counted, Confirming
<1>8. Verified'
  BY <1>5, InitialIs, Zenon DEF Initial, Verified
<1> QED BY <1>7, <1>8 DEF IInv

LEMMA NotYet == IInv /\ pc \in Confirming => ~result.verified
<1> SUFFICES ASSUME IInv, pc \in Confirming PROVE ~result.verified
  OBVIOUS
<1>1. op # "status" /\ pc \notin Activating \cup {"done"}
  BY DEF IInv, Typed, Confirming, Activating
<1> QED BY <1>1, Zenon DEF IInv, Verified

(* No command is sent after a report of the target. *)
LEMMA Commanding ==
  ASSUME IInv, NEW tx, NEW at \in Times, SendCommand(tx, at) PROVE IInv'
<1> DEFINE r == [result EXCEPT !.attempts = @ + 1]
<1>1. /\ pc = "command" /\ CommandDue /\ commanded' = at /\ at \in Times
      /\ UNCHANGED <<op, stable, tries, asked, askedAt, spaced>>
  BY Zenon DEF SendCommand, queries
<1>2. at \in Nat
  BY TimesAreNat
<1>3. DOMAIN r = Fields /\ r.verified = result.verified
  BY DEF IInv, Typed, Fields
<1>4. stable = 0
  BY <1>1 DEF CommandDue, IInv, Counted, Confirming
<1>5. CASE Done([r EXCEPT !.code = "unavailable"], at)
  <2> DEFINE s == [r EXCEPT !.code = "unavailable"]
  <2>1. DOMAIN s = Fields /\ s.verified = r.verified
    BY <1>3 DEF Fields
  <2> HIDE DEF r, s
  <2>2. s.verified => result.verified
    BY <1>3, <2>1, Zenon
  <2>3. Done(s, at)
    BY <1>5, Zenon DEF s
  <2> QED BY <1>1, <1>2, <2>1, <2>2, <2>3, Ending DEF IInv, Typed
<1>6. CASE pc' = "ask" /\ clock' = at /\ result' = r
  <2>1. Typed' /\ Renewed' /\ Counted'
    BY <1>1, <1>2, <1>3, <1>4, <1>6 DEF IInv, Typed, Renewed, Counted, Confirming
  <2>2. ~result'.verified
    BY <1>1, <1>3, <1>6, NotYet, Zenon DEF Confirming
  <2> QED BY <2>1, <2>2, Zenon DEF IInv, Verified
<1> QED BY <1>5, <1>6, Zenon DEF SendCommand

LEMMA Skipping ==
  ASSUME IInv, SkipCommand PROVE IInv'
<1>1. /\ pc = "command" /\ pc' = "ask"
      /\ UNCHANGED <<op, clock, result, stable, tries, asked, askedAt, spaced, commanded>>
  BY Zenon DEF SkipCommand, progress, history, queries
<1>2. Typed' /\ Renewed' /\ Counted'
  BY <1>1 DEF IInv, Typed, Renewed, Counted, Confirming, Target, Limit
<1>3. ~result'.verified
  BY <1>1, NotYet, Zenon DEF Confirming
<1> QED BY <1>2, <1>3, Zenon DEF IInv, Verified

LEMMA AnsweredIs ==
  ASSUME DOMAIN result = Fields, NEW answer
  PROVE  /\ DOMAIN Answered(answer) = Fields
         /\ Answered(answer).verified = result.verified
         /\ answer.code = "ok" => Answered(answer).power = answer.power
BY DEF Answered, Fields

LEMMA AnswersAre ==
  ASSUME NEW answer \in Answers
  PROVE  answer.power \in Nat /\ (answer.power = Target => answer.code = "ok")
BY DEF Answers, Unknown, Target

(* The second report of the target in a row comes a polling interval after   *)
(* the first, or the deadline has come before.                               *)
LEMMA SecondReport ==
  ASSUME IInv, NEW answer \in Answers, NEW at \in Times, Ask(answer, at), stable' = 2
  PROVE  asked' = <<Target, Target>> /\ spaced' /\ answer.power = Target
<1>1. /\ pc = "ask" /\ Remaining(clock, PowerTimeout) > 0 /\ Asked(answer, at)
      /\ stable' = Stable(answer)
  BY Zenon DEF Ask
<1>2. stable \in {0, 1} /\ commanded <= clock
  BY <1>1 DEF IInv, Counted, Confirming
<1>3. answer.power = Target /\ stable = 1
  BY <1>1, <1>2 DEF Stable
<1>4. /\ asked # <<>> /\ asked[1] = Target /\ commanded <= askedAt
      /\ clock >= askedAt + Poll \/ clock >= Limit(op)
  BY <1>1, <1>3 DEF IInv, Counted, Confirming
<1>5. ~(clock >= Limit(op))
  BY <1>1 DEF Remaining
<1>6. at \in Nat /\ clock <= at
  <2>1. \E t, late : at \in Ends(t, late)
    BY <1>1, Zenon DEF Asked
  <2> QED BY <2>1, EndsLater DEF IInv, Typed
<1>7. asked' = <<Target, Target>>
  <2>1. asked' = <<answer.power>> \o SubSeq(asked, 1, Min2(1, Len(asked)))
    BY <1>1, Zenon DEF Asked
  <2>2. asked' = <<answer.power, asked[1]>>
    BY <1>4, <2>1, AskedIs, AnswersAre DEF IInv, Typed
  <2> QED BY <1>3, <1>4, <2>2
<1>8. at - askedAt >= Poll
  BY <1>4, <1>5, <1>6, ControlAssumption DEF IInv, Typed
<1>9. spaced'
  BY <1>1, <1>4, <1>8, Zenon DEF Asked
<1> QED BY <1>3, <1>7, <1>9

LEMMA Asking ==
  ASSUME IInv, NEW answer \in Answers, NEW at \in Times, Ask(answer, at) PROVE IInv'
<1> DEFINE r == Answered(answer)
<1>1. /\ pc = "ask" /\ Asked(answer, at) /\ stable' = Stable(answer)
      /\ UNCHANGED <<op, tries, commanded>> /\ askedAt' = at
  BY Zenon DEF Ask, Asked
<1>2. at \in Nat /\ clock <= at
  <2>1. \E t, late : at \in Ends(t, late)
    BY <1>1, Zenon DEF Asked
  <2> QED BY <2>1, EndsLater DEF IInv, Typed
<1>3. /\ asked' \in Seq(Nat) /\ asked' # <<>> /\ asked'[1] = answer.power
  <2>1. asked' = <<answer.power>> \o SubSeq(asked, 1, Min2(1, Len(asked)))
    BY <1>1, Zenon DEF Asked
  <2> QED BY <2>1, AskedIs, AnswersAre DEF IInv, Typed
<1>4. /\ DOMAIN r = Fields /\ r.verified = result.verified
      /\ answer.code = "ok" => r.power = answer.power
  BY AnsweredIs DEF IInv, Typed
<1>5. ~result.verified
  BY <1>1, NotYet DEF Confirming
<1>6. ~r.verified
  BY <1>4, <1>5, Zenon
<1>7. stable' \in {0, 1, 2} /\ (stable' > 0 => answer.power = Target)
  BY <1>1 DEF IInv, Counted, Confirming, Stable
<1>8. op \in {"on", "standby"}
  BY <1>1 DEF IInv, Typed, Confirming
<1>9. commanded <= at /\ commanded \in Nat /\ tries \in Nat
  BY <1>1, <1>2 DEF IInv, Typed, Counted, Confirming
<1> HIDE DEF r
<1>10. CASE Done(r, at)
  <2>1. pc' = "done" /\ clock' = at /\ result' = [r EXCEPT !.elapsed = at]
    BY <1>10, Zenon DEF Done
  <2>2. DOMAIN result' = Fields /\ result'.verified = r.verified
    BY <1>4, <2>1 DEF Fields
  <2>3. Typed' /\ Renewed' /\ Counted'
    BY <1>1, <1>2, <1>3, <1>9, <2>1, <2>2 DEF IInv, Typed, Renewed, Counted, Confirming
  <2> QED BY <1>6, <2>2, <2>3, Zenon DEF IInv, Verified
<1>11. ASSUME stable' = 2, DOMAIN result' = Fields, pc' \in {"activate", "done"}, clock' \in Nat
       PROVE  IInv'
  <2>1. asked' = <<Target, Target>> /\ spaced'
    BY <1>11, SecondReport, Zenon
  <2>2. Target' = Target
    BY <1>1 DEF Target
  <2>3. Typed' /\ Renewed' /\ Counted'
    BY <1>1, <1>2, <1>3, <1>9, <1>11 DEF IInv, Typed, Renewed, Counted, Confirming
  <2>4. pc' \in Activating \cup {"done"}
    BY <1>11 DEF Activating
  <2> QED BY <2>1, <2>2, <2>3, <2>4, Zenon DEF IInv, Verified
<1>12. CASE stable' = 2 /\ Done([r EXCEPT !.verified = TRUE], at)
  <2> DEFINE s == [r EXCEPT !.verified = TRUE]
  <2>1. DOMAIN s = Fields
    BY <1>4 DEF Fields
  <2> HIDE DEF s
  <2>2. pc' = "done" /\ clock' = at /\ result' = [s EXCEPT !.elapsed = at]
    BY <1>12, Zenon DEF Done, s
  <2> QED BY <1>2, <1>11, <1>12, <2>1, <2>2
<1>13. CASE /\ stable' = 2 /\ pc' = "activate" /\ clock' = Paused(at)
            /\ result' = [r EXCEPT !.verified = TRUE, !.phase = "activate"]
  <2>1. DOMAIN result' = Fields
    BY <1>4, <1>13
  <2>2. clock' \in Nat
    BY <1>2, <1>13, PauseIs DEF IInv, Typed
  <2> QED BY <1>11, <1>13, <2>1, <2>2
<1>14. CASE /\ stable' # 2 /\ pc' = "command" /\ clock' = Paused(at) /\ result' = r
  <2>1. /\ clock' \in Nat /\ at <= clock'
        /\ clock' >= at + Poll \/ clock' >= Limit(op)
    BY <1>2, <1>14, PauseIs DEF IInv, Typed
  <2>2. stable' = 1 => result'.power = Target
    BY <1>4, <1>7, <1>14, AnswersAre
  <2>3. Target' = Target /\ Limit(op)' = Limit(op)
    BY <1>1 DEF Target, Limit
  <2>4. Typed' /\ Renewed'
    BY <1>1, <1>2, <1>3, <1>4, <1>8, <1>9, <1>14, <2>1 DEF IInv, Typed, Renewed
  <2>5. Counted'
    <3>1. commanded' <= clock' /\ commanded' <= askedAt' /\ stable' \in {0, 1}
      BY <1>1, <1>2, <1>7, <1>9, <1>14, <2>1
    <3>2. stable' = 1 => asked' # <<>> /\ asked'[1] = Target
      BY <1>3, <1>7
    <3>3. clock' >= askedAt' + Poll \/ clock' >= Limit(op)'
      BY <1>1, <2>1, <2>3
    <3> QED BY <2>2, <2>3, <3>1, <3>2, <3>3 DEF Counted
  <2>6. ~result'.verified
    BY <1>6, <1>14, Zenon
  <2> QED BY <2>4, <2>5, <2>6, Zenon DEF IInv, Verified
<1>15. CASE answer.code \in {"unsupported_feedback", "unavailable"}
  <2>1. stable' # 2
    BY <1>7, <1>15, AnswersAre
  <2> QED BY <1>10, <1>15, <2>1 DEF Ask, r
<1>16. CASE answer.code \notin {"unsupported_feedback", "unavailable"} /\ stable' = 2
  BY <1>8, <1>12, <1>13, <1>16 DEF Ask, r
<1>17. CASE answer.code \notin {"unsupported_feedback", "unavailable"} /\ stable' # 2
  BY <1>14, <1>17 DEF Ask, r
<1> QED BY <1>15, <1>16, <1>17

(* From here on nothing is asked. *)
LEMMA Elsewhere ==
  ASSUME IInv, pc' \in Activating, pc \in Activating,
         result' = result \/ result' = [result EXCEPT !.announced = TRUE],
         UNCHANGED <<op, asked, askedAt, spaced, commanded>>, clock' \in Nat, tries' \in Nat
  PROVE  IInv'
<1>1. DOMAIN result' = Fields /\ result'.verified = result.verified
  BY DEF IInv, Typed, Fields
<1>2. Typed' /\ Renewed' /\ Counted'
  BY <1>1 DEF IInv, Typed, Renewed, Counted, Confirming, Activating
<1>3. Verified'
  BY <1>1, Zenon DEF IInv, Verified, Target
<1> QED BY <1>2, <1>3 DEF IInv
(* The activation, which nothing shortens but its end. *)
LEMMA ActivatingKeeps ==
  ASSUME IInv, NEW tx, NEW at \in Times,
         \/ ReportAddress(tx, at) \/ Announce(tx, at)
         \/ OutOfTime \/ TakeSource \/ CheckSource \/ Transmit \/ CheckRoute
  PROVE  IInv'
<1>1. /\ pc \in Activating /\ UNCHANGED <<op, stable, asked, askedAt, spaced, commanded>>
  BY DEF ReportAddress, Announce, OutOfTime, TakeSource, CheckSource, Transmit, CheckRoute,
     progress, queries, history, Activating
<1>2. tries' \in Nat
  BY DEF ReportAddress, Announce, OutOfTime, TakeSource, CheckSource, Transmit, CheckRoute,
     progress, IInv, Typed
<1>3. at \in Nat /\ clock \in Nat /\ Paused(at) \in Nat /\ DOMAIN result = Fields
  BY TimesAreNat, PauseIs DEF IInv, Typed
<1>4. ASSUME NEW r, NEW t \in {clock, at}, Done(r, t),
             \/ \E code : r = [result EXCEPT !.code = code]
             \/ r = [result EXCEPT !.routing = TRUE, !.code = "ok"]
      PROVE  IInv'
  <2>1. DOMAIN r = Fields /\ r.verified = result.verified
    BY <1>3, <1>4 DEF Fields
  <2>2. r.verified => result.verified
    BY <2>1, Zenon
  <2> QED BY <1>1, <1>2, <1>3, <1>4, <2>1, <2>2, Ending DEF IInv, Typed
<1>5. ASSUME NEW r, NEW t \in {clock, at}, Unconfirmed(r, t), r = result PROVE IInv'
  BY <1>4, <1>5, Zenon DEF Unconfirmed
<1>6. CASE ReportAddress(tx, at)
  <2>1. CASE pc' = "announce" /\ clock' = at /\ UNCHANGED result
    BY <1>1, <1>2, <1>3, <2>1, Elsewhere DEF Activating
  <2>2. CASE Unconfirmed(result, at)
    BY <1>5, <2>2
  <2> QED BY <1>6, <2>1, <2>2, Zenon DEF ReportAddress
<1>7. CASE Announce(tx, at)
  <2>1. CASE /\ pc' = "route" /\ clock' = Paused(at)
             /\ result' = [result EXCEPT !.announced = TRUE]
    BY <1>1, <1>2, <1>3, <2>1, Elsewhere DEF Activating
  <2>2. CASE Unconfirmed(result, at)
    BY <1>5, <2>2
  <2> QED BY <1>7, <2>1, <2>2, Zenon DEF Announce
<1>8. CASE OutOfTime
  BY <1>5, <1>8 DEF OutOfTime
<1>9. CASE TakeSource \/ Transmit
  <2>1. pc' = "posted" \/ pc' = "on_wire"
    BY <1>9, Zenon DEF TakeSource, Transmit
  <2>2. UNCHANGED <<clock, result>>
    BY <1>9, Zenon DEF TakeSource, Transmit
  <2> QED BY <1>1, <1>2, <1>3, <2>1, <2>2, Elsewhere DEF Activating
<1>10. CASE CheckSource
  <2>1. CASE pc' = "posted" /\ UNCHANGED <<clock, result>>
    BY <1>1, <1>2, <1>3, <2>1, Elsewhere DEF Activating
  <2>2. CASE Unconfirmed(result, clock)
    BY <1>5, <2>2
  <2> QED BY <1>10, <2>1, <2>2, Zenon DEF CheckSource
<1>11. CASE CheckRoute
  <2>1. CASE Done([result EXCEPT !.routing = TRUE, !.code = "ok"], clock)
    BY <1>4, <2>1
  <2>2. CASE pc' = "announce" /\ UNCHANGED <<clock, result>>
    BY <1>1, <1>2, <1>3, <2>2, Elsewhere DEF Activating
  <2>3. CASE Unconfirmed(result, clock)
    BY <1>5, <2>3
  <2> QED BY <1>11, <2>1, <2>2, <2>3, Zenon DEF CheckRoute
<1> QED BY <1>6, <1>7, <1>8, <1>9, <1>10, <1>11

LEMMA Expiring ==
  ASSUME IInv, Expire PROVE IInv'
<1>1. UNCHANGED <<op, tries, asked, askedAt, spaced, commanded>>
  BY Zenon DEF Expire, progress, history, queries
<1>2. PICK code : Done([result EXCEPT !.code = code], clock)
  BY Zenon DEF Expire
<1> DEFINE r == [result EXCEPT !.code = code]
<1>3. DOMAIN r = Fields /\ r.verified = result.verified
  BY DEF IInv, Typed, Fields
<1> HIDE DEF r
<1>4. Done(r, clock)
  BY <1>2, Zenon DEF r
<1>5. r.verified => result.verified
  BY <1>3, Zenon
<1> QED BY <1>1, <1>3, <1>4, <1>5, Ending DEF IInv, Typed

(* One report is enough for `status`. *)
LEMMA Reporting ==
  ASSUME IInv, NEW answer \in Answers, NEW at \in Times,
         Status(answer, at) \/ StatusTooLate
  PROVE  IInv'
<1>1. op = "status" /\ UNCHANGED <<op, tries, commanded>>
  BY DEF IInv, Typed, Status, StatusTooLate, Asked, progress, history, queries
<1>2. pc' = "done" /\ clock' \in Nat
  BY TimesAreNat DEF IInv, Typed, Status, StatusTooLate, Done
<1>3. askedAt' \in Nat /\ asked' \in Seq(Nat)
  <2>1. CASE StatusTooLate
    BY <2>1 DEF StatusTooLate, history, queries, IInv, Typed
  <2>2. CASE Status(answer, at)
    <3>1. asked' = <<answer.power>> \o SubSeq(asked, 1, Min2(1, Len(asked))) /\ askedAt' = at
      BY <2>2, Zenon DEF Status, Asked
    <3> QED BY <3>1, AskedIs, AnswersAre, TimesAreNat DEF IInv, Typed
  <2> QED BY <2>1, <2>2
<1>4. DOMAIN result' = Fields
  <2>1. CASE StatusTooLate
    BY <2>1 DEF StatusTooLate, Done, IInv, Typed
  <2>2. CASE Status(answer, at)
    BY <2>2, AnsweredIs DEF Status, Done, IInv, Typed
  <2> QED BY <2>1, <2>2
<1>5. Typed' /\ Renewed' /\ Counted'
  BY <1>1, <1>2, <1>3, <1>4 DEF IInv, Typed, Renewed, Counted, Confirming
<1>6. Verified'
  BY <1>1, Zenon DEF Verified
<1> QED BY <1>5, <1>6 DEF IInv

LEMMA Finishing ==
  ASSUME IInv, Finish PROVE IInv'
<1>1. /\ pc' = "idle" /\ clock' = 0 /\ result' = InitialResult /\ stable' = 0 /\ tries' = 0
      /\ asked' = <<>> /\ askedAt' = 0 /\ commanded' = 0 /\ op' = op
  BY DEF Finish
<1>2. Typed' /\ Renewed' /\ Counted'
  BY <1>1, InitialIs DEF IInv, Typed, Renewed, Counted, Confirming, Initial
<1>3. ~result'.verified
  BY <1>1, InitialIs, Zenon DEF Initial
<1> QED BY <1>2, <1>3, Zenon DEF IInv, Verified

LEMMA Standing ==
  ASSUME IInv,
         UNCHANGED <<pc, op, clock, result, stable, tries, asked, askedAt, spaced, commanded>>
  PROVE  IInv'
BY DEF IInv, Typed, Renewed, Counted, Verified, Target, Limit

LEMMA Step == IInv /\ [Next]_vars => IInv'
<1> SUFFICES ASSUME IInv, [Next]_vars PROVE IInv'
  OBVIOUS
<1>1. ASSUME NEW o \in {"on", "standby", "status"}, NEW at \in Times,
             Begin(o, at) \/ BeginUnavailable(o, at)
      PROVE  IInv'
  BY <1>1, Beginning
<1>2. CASE Operate
  <2>1. 0 \in Times
    BY ControlAssumption DEF Times
  <2>2. [code |-> "no_ack", power |-> Unknown] \in Answers
    BY DEF Answers, QueryFailures
  <2> QED BY <1>2, <2>1, <2>2, Commanding, Skipping, Asking, ActivatingKeeps, Expiring,
             Reporting, Finishing, Zenon DEF Operate
<1>3. CASE Environment
  BY <1>3, Standing, Zenon DEF Environment, OtherSource, SourceLost, TvRoutesHere, TvRoutesAway,
     BusMoves, progress, queries
<1>4. CASE UNCHANGED vars
  BY <1>4, Standing, Zenon DEF vars, progress, queries, history
<1> QED BY <1>1, <1>2, <1>3, <1>4, Zenon DEF Next

(* The firmware calls power verified only on two queries in a row that both  *)
(* report the target, a polling interval apart, with no power command        *)
(* between them: whatever the times of calls, pauses and deadline.           *)
THEOREM TwoReportsVerify == Spec => []VerifiedByTwoReports
<1>1. IInv => VerifiedByTwoReports
  BY Zenon DEF IInv, Verified, VerifiedByTwoReports
<1> QED BY <1>1, Initially, Step, PTL DEF Spec

--------------------------------------------------------------------------------
(* What success of `on` says.                                                *)

(* A route to here is one the TV has shown since the operation began, the    *)
(* source at hand was not lost, and only a verified `on` is activated.       *)
Current ==
  /\ pc # "idle" /\ routed = "since" => shown
  /\ sourceActive => ~lost
  /\ pc \in Activating => op = "on" /\ result.verified
  /\ pc = "route" => tries > 0

Closes == pc' = "done" /\ pc # "done"
Succeeds == Closes /\ result'.code = "ok" /\ op = "on"
Justified == Succeeds => result'.verified /\ shown /\ ~lost /\ tries > 0

LEMMA CurrentInitially == Init => Current
<1> SUFFICES ASSUME Init PROVE Current
  OBVIOUS
<1>1. pc = "idle" /\ ~sourceActive
  BY Zenon DEF Init
<1> QED BY <1>1 DEF Current, Activating

(* Where a result other than success is made. *)
LEMMA FailureCode ==
  ASSUME IInv, NEW r, NEW at, Done(r, at), DOMAIN r = Fields, r.code # "ok" PROVE Justified
<1>1. result' = [r EXCEPT !.elapsed = at]
  BY Zenon DEF Done
<1>2. result'.code = r.code
  BY <1>1 DEF Fields
<1> QED BY <1>2, Zenon DEF Justified, Succeeds

LEMMA UnconfirmedCode ==
  ASSUME IInv, NEW at, Unconfirmed(result, at) PROVE Justified /\ pc' = "done"
<1> DEFINE r == [result EXCEPT !.code = "input_unconfirmed"]
<1>1. DOMAIN r = Fields /\ r.code = "input_unconfirmed"
  BY DEF IInv, Typed, Fields
<1> HIDE DEF r
<1>2. Done(r, at)
  BY Zenon DEF Unconfirmed, r
<1> QED BY <1>1, <1>2, FailureCode, Zenon DEF Done

(* Steps outside the activation that touch neither source nor route. *)
LEMMA Before ==
  ASSUME Current, UNCHANGED <<sourceActive, routed, shown, lost>>, pc # "idle",
         pc' \notin Activating
  PROVE  Current'
<1>1. pc' # "route"
  BY DEF Activating
<1> QED BY <1>1, Zenon DEF Current

LEMMA During ==
  ASSUME Current, UNCHANGED <<routed, shown, op>>, pc \in Activating,
         pc' \in {"announce", "posted", "on_wire"}, sourceActive' => ~lost',
         result'.verified = result.verified
  PROVE  Current'
<1>1. pc # "idle" /\ pc' # "route"
  BY DEF Activating
<1> QED BY <1>1, Zenon DEF Current

LEMMA CurrentBegins ==
  ASSUME IInv, Current, NEW o, NEW at, Begin(o, at) \/ BeginUnavailable(o, at)
  PROVE  Current' /\ Justified
<1>1. routed' # "since" /\ (sourceActive' => sourceActive) /\ lost' = lost
  <2>1. Fresh(o) /\ (sourceActive' => sourceActive)
    <3>1. Begin(o, at) => Fresh(o) /\ (sourceActive' => sourceActive)
      BY DEF Begin
    <3>2. CASE BeginUnavailable(o, at)
      <4>1. Fresh(o) /\ (sourceActive' = sourceActive \/ sourceActive' = FALSE)
        BY <3>2, Zenon DEF BeginUnavailable
      <4>2. CASE sourceActive' = sourceActive
        BY <4>1, <4>2
      <4>3. CASE sourceActive' = FALSE
        BY <4>1, <4>3
      <4> QED BY <4>1, <4>2, <4>3
    <3> QED BY <3>1, <3>2
  <2>2. routed' = IF routed = "since" THEN "before" ELSE routed
    BY <2>1, Zenon DEF Fresh
  <2>3. routed' # "since"
    BY <2>2
  <2>4. lost' = lost
    BY <2>1, Zenon DEF Fresh, history
  <2> QED BY <2>1, <2>3, <2>4
<1>2. pc' \in {"status", "command", "done"}
  BY DEF Begin, BeginUnavailable, Done
<1>3. Current'
  <2>1. pc' \notin Activating /\ pc' # "route"
    BY <1>2 DEF Activating
  <2> QED BY <1>1, <2>1, Zenon DEF Current
<1>4. CASE Begin(o, at)
  <2>1. pc' # "done"
    BY <1>4 DEF Begin
  <2> QED BY <1>3, <2>1, Zenon DEF Justified, Succeeds, Closes
<1>5. CASE BeginUnavailable(o, at)
  <2>1. Done(InitialResult, at) /\ InitialResult.code # "ok" /\ DOMAIN InitialResult = Fields
    BY <1>5, InitialIs DEF BeginUnavailable, Initial
  <2> QED BY <1>3, <2>1, FailureCode
<1> QED BY <1>4, <1>5

LEMMA CurrentConfirms ==
  ASSUME IInv, Current, NEW tx, NEW at \in Times, NEW answer \in Answers,
         SendCommand(tx, at) \/ SkipCommand \/ Ask(answer, at) \/ Expire
  PROVE  Current' /\ Justified
<1>1. pc \in Confirming /\ pc # "idle" /\ UNCHANGED <<op, sourceActive, routed, shown, lost>>
  BY Zenon DEF SendCommand, SkipCommand, Ask, Asked, Expire, history, Confirming
<1>2. DOMAIN result = Fields /\ op \in {"on", "standby"}
  BY <1>1 DEF IInv, Typed, Confirming
<1>3. ASSUME pc' # "done" PROVE Justified
  BY <1>3, Zenon DEF Justified, Succeeds, Closes
<1>4. CASE SendCommand(tx, at)
  <2> DEFINE r == [[result EXCEPT !.attempts = @ + 1] EXCEPT !.code = "unavailable"]
  <2>1. pc' = "ask" \/ Done(r, at)
    BY <1>4, Zenon DEF SendCommand
  <2>2. DOMAIN r = Fields /\ r.code = "unavailable"
    BY <1>2 DEF Fields
  <2> HIDE DEF r
  <2>3. pc' \in {"ask", "done"}
    BY <2>1 DEF Done
  <2>4. Justified
    BY <1>3, <2>1, <2>2, FailureCode
  <2> QED BY <1>1, <2>3, <2>4, Before DEF Activating
<1>5. CASE SkipCommand
  BY <1>1, <1>3, <1>5, Before DEF SkipCommand, Activating
<1>6. CASE Ask(answer, at)
  <2> DEFINE r == Answered(answer)
             s == [r EXCEPT !.verified = TRUE]
             t == [r EXCEPT !.verified = TRUE, !.phase = "activate"]
  <2>1. DOMAIN r = Fields /\ r.code = answer.code
    BY <1>2 DEF Answered, Fields
  <2>2. t.verified
    BY <2>1 DEF Fields
  <2> HIDE DEF r, t
  <2>3. CASE Done(r, at) /\ answer.code # "ok"
    <3>1. pc' = "done" /\ Justified
      BY <2>1, <2>3, FailureCode DEF Done
    <3> QED BY <1>1, <3>1, Before DEF Activating
  <2>4. CASE Done(s, at) /\ op = "standby"
    <3>1. pc' = "done" /\ Justified
      BY <2>4 DEF Done, Justified, Succeeds
    <3> QED BY <1>1, <3>1, Before DEF Activating
  <2>5. CASE pc' = "activate" /\ op = "on" /\ result' = t
    <3>1. result'.verified /\ op' = "on" /\ pc' # "route" /\ pc' # "done"
      BY <1>1, <2>2, <2>5
    <3> QED BY <1>1, <1>3, <3>1, Zenon DEF Current
  <2>6. CASE pc' = "command"
    BY <1>1, <1>3, <2>6, Before DEF Activating
  <2>7. stable' = Stable(answer)
    BY <1>6, Zenon DEF Ask
  <2>8. answer.code \in {"unsupported_feedback", "unavailable"} => stable' # 2
    <3>1. answer.power = Target => answer.code = "ok"
      BY AnswersAre
    <3> QED BY <2>7, <3>1 DEF Stable
  <2>9. CASE answer.code \in {"unsupported_feedback", "unavailable"}
    <3>1. Done(r, at)
      BY <1>6, <2>8, <2>9 DEF Ask, r
    <3> QED BY <2>3, <2>9, <3>1
  <2>10. CASE answer.code \notin {"unsupported_feedback", "unavailable"} /\ stable' = 2
    BY <1>2, <1>6, <2>4, <2>5, <2>10 DEF Ask, r, t
  <2>11. CASE answer.code \notin {"unsupported_feedback", "unavailable"} /\ stable' # 2
    BY <1>6, <2>6, <2>11 DEF Ask
  <2> QED BY <2>9, <2>10, <2>11
<1>7. CASE Expire
  <2>1. PICK code \in {"transition_timeout", "no_ack", "response_timeout"} :
          Done([result EXCEPT !.code = code], clock)
    BY <1>7 DEF Expire
  <2> DEFINE r == [result EXCEPT !.code = code]
  <2>2. DOMAIN r = Fields /\ r.code # "ok"
    BY <1>2 DEF Fields
  <2> HIDE DEF r
  <2>3. Done(r, clock)
    BY <2>1, Zenon DEF r
  <2> QED BY <1>1, <2>2, <2>3, Before, FailureCode DEF Done, Activating
<1> QED BY <1>4, <1>5, <1>6, <1>7
LEMMA CurrentActivates ==
  ASSUME IInv, Current, NEW tx, NEW at \in Times,
         \/ ReportAddress(tx, at) \/ Announce(tx, at)
         \/ OutOfTime \/ TakeSource \/ CheckSource \/ Transmit \/ CheckRoute
  PROVE  Current' /\ Justified
<1>1. pc \in Activating /\ pc # "idle"
  BY DEF ReportAddress, Announce, OutOfTime, TakeSource, CheckSource, Transmit, CheckRoute,
     Activating
<1>2. UNCHANGED <<op, routed, shown>>
  BY Zenon DEF ReportAddress, Announce, OutOfTime, TakeSource, CheckSource, Transmit, CheckRoute,
     history
<1>3. op = "on" /\ result.verified
  BY <1>1, Zenon DEF Current
<1>4. sourceActive' => ~lost'
  BY Zenon DEF ReportAddress, Announce, OutOfTime, TakeSource, CheckSource, Transmit, CheckRoute,
     history, Current
<1>5. DOMAIN result = Fields /\ tries \in Nat
  BY DEF IInv, Typed
<1>6. ASSUME pc' # "done" PROVE Justified
  BY <1>6, Zenon DEF Justified, Succeeds, Closes
<1>7. ASSUME pc' = "done" PROVE Current'
  <2>1. pc' \notin Activating /\ pc' # "route"
    BY <1>7 DEF Activating
  <2> QED BY <1>1, <1>2, <1>4, <2>1, Zenon DEF Current
<1>8. CASE pc' \in {"announce", "posted", "on_wire"} /\ UNCHANGED result
  BY <1>1, <1>2, <1>4, <1>6, <1>8, During
<1>9. ASSUME \E t : Unconfirmed(result, t) PROVE Current' /\ Justified
  BY <1>7, <1>9, UnconfirmedCode
<1>10. CASE ReportAddress(tx, at)
  BY <1>8, <1>9, <1>10 DEF ReportAddress
<1>11. CASE Announce(tx, at)
  <2>1. CASE pc' = "route" /\ result' = [result EXCEPT !.announced = TRUE]
    <3>1. result'.verified = result.verified
      BY <1>5, <2>1 DEF Fields
    <3>2. tries' > 0
      BY <1>5, <1>11 DEF Announce
    <3>3. pc' # "done"
      BY <2>1
    <3>4. Current'
      BY <1>1, <1>2, <1>3, <1>4, <3>1, <3>2, Zenon DEF Current
    <3> QED BY <1>6, <3>3, <3>4
  <2>2. CASE Unconfirmed(result, at)
    BY <1>9, <2>2
  <2> QED BY <1>11, <2>1, <2>2, Zenon DEF Announce
<1>12. CASE OutOfTime
  BY <1>9, <1>12, Zenon DEF OutOfTime
<1>13. CASE TakeSource \/ Transmit
  BY <1>8, <1>13 DEF TakeSource, Transmit
<1>14. CASE CheckSource
  BY <1>8, <1>9, <1>14 DEF CheckSource
<1>15. CASE CheckRoute
  <2>1. CASE RoutedToUs
    <3> DEFINE r == [result EXCEPT !.routing = TRUE, !.code = "ok"]
    <3>1. Done(r, clock)
      BY <1>15, <2>1, Zenon DEF CheckRoute
    <3>2. DOMAIN r = Fields /\ r.verified = result.verified
      BY <1>5 DEF Fields
    <3> HIDE DEF r
    <3>3. result' = [r EXCEPT !.elapsed = clock] /\ pc' = "done"
      BY <3>1, Zenon DEF Done
    <3>4. result'.verified = r.verified
      BY <3>2, <3>3 DEF Fields
    <3>5. pc = "route" /\ tries > 0
      BY <1>15, Zenon DEF CheckRoute, Current
    <3>6. shown /\ ~lost
      BY <1>1, <2>1, Zenon DEF RoutedToUs, Current
    <3> QED BY <1>3, <1>7, <3>2, <3>3, <3>4, <3>5, <3>6, Zenon DEF Justified
  <2>2. CASE ~RoutedToUs
    BY <1>8, <1>9, <1>15, <2>2 DEF CheckRoute
  <2> QED BY <2>1, <2>2
<1> QED BY <1>10, <1>11, <1>12, <1>13, <1>14, <1>15

LEMMA CurrentEnds ==
  ASSUME IInv, Current, NEW answer, NEW at,
         Status(answer, at) \/ StatusTooLate \/ Finish
  PROVE  Current' /\ Justified
<1>1. CASE Status(answer, at) \/ StatusTooLate
  <2>1. pc = "status" /\ op = "status"
    BY <1>1 DEF Status, StatusTooLate, IInv, Typed
  <2>2. UNCHANGED <<sourceActive, routed, shown, lost>>
    BY <1>1, Zenon DEF Status, StatusTooLate, Asked, history
  <2>3. pc' = "done"
    BY <1>1, Zenon DEF Status, StatusTooLate, Done
  <2>4. Justified
    BY <2>1 DEF Justified, Succeeds
  <2> QED BY <2>1, <2>2, <2>3, <2>4, Before DEF Activating
<1>2. CASE Finish
  <2>1. pc' = "idle" /\ ~lost'
    BY <1>2, Zenon DEF Finish
  <2>2. pc' \notin Activating /\ pc' # "route" /\ pc' # "done"
    BY <2>1 DEF Activating
  <2> QED BY <2>1, <2>2, Zenon DEF Current, Justified, Succeeds, Closes
<1> QED BY <1>1, <1>2

(* What the bus may take away in the meantime. *)
LEMMA CurrentMoves ==
  ASSUME Current, Environment PROVE Current' /\ Justified
<1>1. UNCHANGED <<pc, op, result, tries>>
  BY Zenon DEF Environment, OtherSource, SourceLost, TvRoutesHere, TvRoutesAway, BusMoves,
     progress
<1>2. routed' = "since" => shown' \/ (UNCHANGED <<routed, shown>>)
  BY DEF Environment, OtherSource, SourceLost, TvRoutesHere, TvRoutesAway, BusMoves
<1>3. sourceActive' => sourceActive
  BY Zenon DEF Environment, OtherSource, SourceLost, TvRoutesHere, TvRoutesAway, BusMoves
<1>4. lost' => lost \/ ~sourceActive'
  <2>1. ASSUME NEW source, NEW route, NEW show, BusMoves(source, route, show)
        PROVE  lost' => lost \/ ~sourceActive'
    <3>1. sourceActive' = source
      BY <2>1, Zenon DEF BusMoves
    <3>2. lost' => lost \/ ~source
      BY <2>1 DEF BusMoves
    <3> QED BY <3>1, <3>2, Zenon
  <2> QED BY <2>1, Zenon DEF Environment, OtherSource, SourceLost, TvRoutesHere, TvRoutesAway
<1> QED BY <1>1, <1>2, <1>3, <1>4, Zenon DEF Current, Justified, Succeeds, Closes

LEMMA CurrentStep == IInv /\ Current /\ [Next]_vars => Current' /\ Justified
<1> SUFFICES ASSUME IInv, Current, [Next]_vars PROVE Current' /\ Justified
  OBVIOUS
<1>1. 0 \in Times
  BY ControlAssumption DEF Times
<1>2. [code |-> "no_ack", power |-> Unknown] \in Answers
  BY DEF Answers, QueryFailures
<1>3. CASE Operate
  BY <1>1, <1>2, <1>3, CurrentConfirms, CurrentActivates, CurrentEnds, Zenon DEF Operate
<1>4. CASE UNCHANGED vars
  BY <1>4, Zenon DEF vars, history, progress, Current, Justified, Succeeds, Closes
<1> QED BY <1>3, <1>4, CurrentBegins, CurrentMoves, Zenon DEF Next

(* `on` ends with success only while the TV has routed here since it began   *)
(* and no other device took the source or the route after the announcement.  *)
THEOREM SuccessIsNow == Spec => SuccessIsCurrent
<1>1. IInv /\ Current /\ [Next]_vars
        => [pc' = "done" /\ pc # "done" /\ result'.code = "ok" /\ op = "on"
              => result'.verified /\ shown /\ ~lost /\ tries > 0]_vars
  BY CurrentStep, Zenon DEF Justified, Succeeds, Closes
<1>2. Init => IInv /\ Current
  BY Initially, CurrentInitially
<1>3. IInv /\ Current /\ [Next]_vars => IInv' /\ Current'
  BY Step, CurrentStep, Zenon
<1> QED BY <1>1, <1>2, <1>3, PTL DEF Spec, SuccessIsCurrent

--------------------------------------------------------------------------------
(* What the client's parser accepts.                                         *)

(* The budgets of the source: no operation has more time than `on`, the      *)
(* client's margin covers one overrun, and `standby` sends no more commands  *)
(* than `on`.                                                                *)
MarginsSuffice ==
  /\ StandbyTimeout <= OnTimeout /\ StatusTimeout <= OnTimeout
  /\ OnTimeout + Overrun <= ElapsedLimit /\ StandbyAttempts <= OnAttempts

Sized(r) == /\ r.power \in (0 .. 3) \cup {Unknown}
            /\ r.attempts \in Nat /\ r.attempts <= OnAttempts

(* Success, and the one failure that claims a power state, are proven by the *)
(* other fields.                                                             *)
Proven(r, o) ==
  /\ r.code = "ok" => /\ r.verified /\ r.power \in 0 .. 3
                      /\ o = "on" => r.power = 0 /\ r.announced /\ r.routing
                      /\ o = "standby" => r.power = 1
  /\ r.code = "input_unconfirmed" => r.verified /\ r.power = 0

Readable ==
  /\ Sized(result)
  /\ pc # "idle" => clock <= Limit(op) + Overrun
  /\ pc \in {"posted", "on_wire"} => clock < Limit(op)
  /\ pc \in Activating => result.power = 0
  /\ pc = "route" => result.announced
  /\ pc = "done" => result.elapsed = clock /\ Proven(result, op)

LEMMA ReadableInitially == Init => Readable
<1> SUFFICES ASSUME Init PROVE Readable
  OBVIOUS
<1>1. pc = "idle" /\ result = InitialResult
  BY Zenon DEF Init
<1>2. Sized(InitialResult)
  BY ControlAssumption DEF Sized, InitialResult, Unknown
<1> QED BY <1>1, <1>2, Zenon DEF Readable, Activating

(* A call that begins before the deadline ends by it, or overruns once.      *)
LEMMA EndsInTime ==
  ASSUME clock \in Nat, op \in {"on", "standby", "status"}, NEW m \in Nat, NEW late, NEW at,
         clock < Limit(op), at \in Ends(Remaining(clock, m), late)
  PROVE  at \in Nat /\ at <= Limit(op) + Overrun
         /\ Paused(at) \in Nat /\ Paused(at) <= Limit(op) + Overrun
<1>1. Limit(op) \in Nat /\ Overrun \in Nat /\ Poll \in Nat
  BY LimitIs, ControlAssumption
<1>2. Remaining(clock, m) \in Nat /\ clock + Remaining(clock, m) <= Limit(op)
  BY <1>1 DEF Remaining, Min2
<1>3. at \in Nat /\ at <= clock + Remaining(clock, m) + Overrun
  BY <1>1, <1>2 DEF Ends
<1>4. at <= Limit(op) + Overrun
  BY <1>1, <1>2, <1>3
<1>5. Paused(at) \in Nat /\ (Paused(at) = at \/ Paused(at) <= Limit(op))
  BY <1>1, <1>3 DEF Paused, Remaining, Min2
<1> QED BY <1>1, <1>3, <1>4, <1>5

LEMMA TimeIsLeft ==
  ASSUME clock \in Nat, op \in {"on", "standby", "status"}, NEW m, Remaining(clock, m) > 0
  PROVE  clock < Limit(op)
BY LimitIs DEF Remaining

LEMMA DoneReadable ==
  ASSUME NEW r, NEW at, Done(r, at), DOMAIN r = Fields, Sized(r), at <= Limit(op') + Overrun,
         Proven(r, op')
  PROVE  Readable'
<1>1. pc' = "done" /\ clock' = at /\ result' = [r EXCEPT !.elapsed = at]
  BY Zenon DEF Done
<1>2. /\ result'.power = r.power /\ result'.attempts = r.attempts /\ result'.code = r.code
      /\ result'.verified = r.verified /\ result'.announced = r.announced
      /\ result'.routing = r.routing /\ result'.elapsed = at
  BY <1>1 DEF Fields
<1>3. Sized(result')
  BY <1>2 DEF Sized
<1>4. Proven(result', op')
  BY <1>2, Zenon DEF Proven
<1>5. Limit(op)' = Limit(op')
  BY DEF Limit
<1>6. pc' \notin {"idle", "posted", "on_wire", "route"} \cup Activating
  BY <1>1 DEF Activating
<1> QED BY <1>1, <1>2, <1>3, <1>4, <1>5, <1>6, Zenon DEF Readable

(* A result that is neither success nor an unconfirmed input proves nothing. *)
LEMMA FailureReadable ==
  ASSUME NEW r, NEW at, Done(r, at), DOMAIN r = Fields, Sized(r), at <= Limit(op') + Overrun,
         r.code \notin {"ok", "input_unconfirmed"}
  PROVE  Readable'
<1>1. Proven(r, op')
  BY DEF Proven
<1> QED BY <1>1, DoneReadable

(* Steps that go on: nothing is claimed yet. *)
LEMMA GoingReadable ==
  ASSUME Readable, Sized(result'), op' = op, clock' <= Limit(op) + Overrun,
         pc' \in {"command", "ask", "announce"}, pc' = "announce" => result'.power = 0
  PROVE  Readable'
<1>1. Limit(op)' = Limit(op)
  BY DEF Limit
<1>2. pc' \notin {"posted", "on_wire", "route", "done"} /\ (pc' \in Activating => pc' = "announce")
  BY DEF Activating
<1> QED BY <1>1, <1>2, Zenon DEF Readable

LEMMA BeginsReadable ==
  ASSUME IInv, NEW o \in {"on", "standby", "status"}, NEW at \in Times,
         Begin(o, at) \/ BeginUnavailable(o, at)
  PROVE  Readable'
<1>1. op' = o /\ at <= Limit(o) /\ at \in Nat
  BY TimesAreNat DEF Begin, BeginUnavailable, Fresh
<1>2. Limit(o) \in Nat /\ Overrun \in Nat
  BY ControlAssumption DEF Limit
<1>3. Limit(op)' = Limit(o) /\ at <= Limit(o) + Overrun
  BY <1>1, <1>2 DEF Limit
<1>4. Sized(InitialResult)
  BY ControlAssumption DEF Sized, InitialResult, Unknown
<1>5. CASE Begin(o, at)
  <2>1. /\ clock' = at /\ pc' \in {"status", "command"}
        /\ result' = [InitialResult EXCEPT !.phase = IF o = "status" THEN @ ELSE "power"]
    BY <1>5 DEF Begin
  <2>2. Sized(result')
    BY <1>4, <2>1, InitialIs DEF Sized, Initial, Fields
  <2>3. pc' \notin {"idle", "posted", "on_wire", "route", "done"} \cup Activating
    BY <2>1 DEF Activating
  <2> QED BY <1>1, <1>3, <2>1, <2>2, <2>3, Zenon DEF Readable
<1>6. CASE BeginUnavailable(o, at)
  <2>1. Done(InitialResult, at)
    BY <1>6, Zenon DEF BeginUnavailable
  <2>2. DOMAIN InitialResult = Fields /\ InitialResult.code = "unavailable"
    BY InitialIs DEF Initial
  <2> QED BY <1>1, <1>3, <1>4, <2>1, <2>2, FailureReadable
<1> QED BY <1>5, <1>6

LEMMA CommandReadable ==
  ASSUME IInv, Readable, MarginsSuffice, NEW tx, NEW at, SendCommand(tx, at) PROVE Readable'
<1> DEFINE r == [result EXCEPT !.attempts = @ + 1]
           s == [r EXCEPT !.code = "unavailable"]
<1>1. /\ op' = op /\ CommandDue /\ Remaining(clock, 1) > 0
      /\ \E late : at \in Ends(Remaining(clock, TxTimeout), late)
      /\ Done(s, at) \/ (pc' = "ask" /\ clock' = at /\ result' = r)
  BY Zenon DEF SendCommand
<1>2. clock \in Nat /\ op \in {"on", "standby", "status"} /\ TxTimeout \in Nat
  BY ControlAssumption DEF IInv, Typed
<1>3. at <= Limit(op) + Overrun
  BY <1>1, <1>2, EndsInTime, TimeIsLeft
<1>4. DOMAIN result = Fields /\ Sized(result)
  BY DEF IInv, Typed, Readable
<1>5. Attempts <= OnAttempts /\ Attempts \in Nat /\ OnAttempts \in Nat
  BY ControlAssumption DEF Attempts, MarginsSuffice
<1>6. DOMAIN r = Fields /\ r.power = result.power /\ r.attempts = result.attempts + 1
  BY <1>4 DEF Fields
<1>7. Sized(r)
  BY <1>1, <1>4, <1>5, <1>6 DEF Sized, CommandDue
<1>8. DOMAIN s = Fields /\ s.power = r.power /\ s.attempts = r.attempts /\ s.code = "unavailable"
  BY <1>6 DEF Fields
<1>9. Sized(s)
  BY <1>7, <1>8 DEF Sized
<1> HIDE DEF r, s
<1>10. CASE Done(s, at)
  BY <1>1, <1>3, <1>8, <1>9, <1>10, FailureReadable
<1>11. CASE pc' = "ask" /\ clock' = at /\ result' = r
  BY <1>1, <1>3, <1>7, <1>11, GoingReadable
<1> QED BY <1>1, <1>10, <1>11

(* What a query leaves is a power state or none. *)
LEMMA AnswerSized ==
  ASSUME DOMAIN result = Fields, Sized(result), NEW answer \in Answers
  PROVE  /\ DOMAIN Answered(answer) = Fields /\ Sized(Answered(answer))
         /\ Answered(answer).code = answer.code
         /\ answer.code = "ok" => Answered(answer).power = answer.power /\ answer.power \in 0 .. 3
<1> DEFINE r == Answered(answer)
<1>1. /\ DOMAIN r = Fields /\ r.code = answer.code /\ r.attempts = result.attempts
      /\ r.power = IF answer.code = "ok" THEN answer.power ELSE result.power
  BY DEF Answered, Fields
<1>2. answer.code = "ok" => answer.power \in 0 .. 3
  BY DEF Answers, QueryFailures
<1>3. Sized(r)
  <2>1. CASE answer.code = "ok"
    BY <1>1, <1>2, <2>1 DEF Sized
  <2>2. CASE answer.code # "ok"
    BY <1>1, <2>2 DEF Sized
  <2> QED BY <2>1, <2>2
<1> QED BY <1>1, <1>2, <1>3

LEMMA AskReadable ==
  ASSUME IInv, Readable, NEW answer \in Answers, NEW at \in Times, Ask(answer, at)
  PROVE  Readable'
<1> DEFINE r == Answered(answer)
           s == [r EXCEPT !.verified = TRUE]
           t == [r EXCEPT !.verified = TRUE, !.phase = "activate"]
<1>1. /\ op' = op /\ pc = "ask" /\ Remaining(clock, PowerTimeout) > 0 /\ Asked(answer, at)
      /\ stable' = Stable(answer)
  BY Zenon DEF Ask
<1>2. /\ clock \in Nat /\ op \in {"on", "standby", "status"} /\ PowerTimeout \in Nat
      /\ DOMAIN result = Fields /\ Sized(result) /\ op # "status"
  BY <1>1, ControlAssumption DEF IInv, Typed, Readable, Confirming
<1>3. at <= Limit(op) + Overrun /\ Paused(at) <= Limit(op) + Overrun
  <2>1. \E late : at \in Ends(Remaining(clock, PowerTimeout), late)
    BY <1>1, Zenon DEF Asked
  <2> QED BY <1>1, <1>2, <2>1, EndsInTime, TimeIsLeft
<1>4. DOMAIN r = Fields /\ Sized(r) /\ r.code = answer.code
      /\ (answer.code = "ok" => r.power = answer.power)
  BY <1>2, AnswerSized
<1>5. /\ DOMAIN s = Fields /\ s.power = r.power /\ s.attempts = r.attempts /\ s.code = r.code
      /\ s.verified
  BY <1>4 DEF Fields
<1>6. t.power = r.power /\ t.attempts = r.attempts
  BY <1>4 DEF Fields
<1>7. Sized(s) /\ Sized(t)
  BY <1>4, <1>5, <1>6 DEF Sized
<1>8. stable' = 2 => answer.power = Target /\ answer.code = "ok"
  <2>1. stable \in {0, 1}
    BY <1>1 DEF IInv, Counted, Confirming
  <2> QED BY <1>1, <2>1, AnswersAre DEF Stable
<1> HIDE DEF r, s, t
<1>9. CASE Done(r, at) /\ answer.code \in {"unsupported_feedback", "unavailable"}
  BY <1>1, <1>3, <1>4, <1>9, FailureReadable
<1>10. CASE Done(s, at) /\ stable' = 2 /\ op = "standby"
  <2>1. s.power = 1
    BY <1>4, <1>5, <1>8, <1>10 DEF Target
  <2>2. s.code = "ok"
    BY <1>4, <1>5, <1>8, <1>10
  <2>3. Proven(s, op')
    BY <1>1, <1>5, <1>10, <2>1, <2>2 DEF Proven
  <2> QED BY <1>1, <1>3, <1>5, <1>7, <1>10, <2>3, DoneReadable
<1>11. CASE stable' = 2 /\ op = "on" /\ pc' = "activate" /\ clock' = Paused(at) /\ result' = t
  <2>1. result'.power = 0
    BY <1>4, <1>6, <1>8, <1>11 DEF Target
  <2>2. Limit(op)' = Limit(op) /\ pc' \notin {"posted", "on_wire", "route", "done"}
    BY <1>1, <1>11 DEF Limit
  <2>3. Sized(result') /\ clock' <= Limit(op) + Overrun
    BY <1>3, <1>7, <1>11
  <2> QED BY <2>1, <2>2, <2>3, Zenon DEF Readable
<1>12. CASE pc' = "command" /\ clock' = Paused(at) /\ result' = r
  BY <1>1, <1>3, <1>4, <1>12, GoingReadable
<1>13. CASE answer.code \in {"unsupported_feedback", "unavailable"}
  BY <1>8, <1>9, <1>13 DEF Ask, r
<1>14. CASE answer.code \notin {"unsupported_feedback", "unavailable"} /\ stable' = 2
  BY <1>2, <1>10, <1>11, <1>14 DEF Ask, r, s, t
<1>15. CASE answer.code \notin {"unsupported_feedback", "unavailable"} /\ stable' # 2
  BY <1>12, <1>15 DEF Ask, r
<1> QED BY <1>13, <1>14, <1>15

(* The end of a confirmation, and of a status. *)
LEMMA EndReadable ==
  ASSUME IInv, Readable, NEW answer \in Answers, NEW at \in Times,
         Expire \/ Status(answer, at) \/ StatusTooLate
  PROVE  Readable'
<1>1. DOMAIN result = Fields /\ Sized(result) /\ op \in {"on", "standby", "status"} /\ clock \in Nat
  BY DEF IInv, Typed, Readable
<1>2. ASSUME NEW code, code \notin {"ok", "input_unconfirmed"},
             Done([result EXCEPT !.code = code], clock), op' = op, pc # "idle"
      PROVE  Readable'
  <2> DEFINE r == [result EXCEPT !.code = code]
  <2>1. DOMAIN r = Fields /\ r.power = result.power /\ r.attempts = result.attempts /\ r.code = code
    BY <1>1 DEF Fields
  <2>2. Sized(r)
    BY <1>1, <2>1 DEF Sized
  <2> HIDE DEF r
  <2>3. Done(r, clock)
    BY <1>2, Zenon DEF r
  <2> QED BY <1>2, <2>1, <2>2, <2>3, FailureReadable DEF Readable
<1>3. CASE Expire
  <2>1. op' = op /\ pc # "idle"
    BY <1>3, Zenon DEF Expire
  <2>2. \E code \in {"transition_timeout", "no_ack", "response_timeout"} :
          Done([result EXCEPT !.code = code], clock)
    BY <1>3 DEF Expire
  <2> QED BY <1>2, <2>1, <2>2
<1>4. CASE StatusTooLate
  <2>1. op' = op /\ pc # "idle" /\ Done([result EXCEPT !.code = "response_timeout"], clock)
    BY <1>4, Zenon DEF StatusTooLate
  <2> QED BY <1>2, <2>1
<1>5. CASE Status(answer, at)
  <2> DEFINE r == [Answered(answer) EXCEPT !.verified = answer.code = "ok", !.attempts = 1,
                                           !.phase = "status"]
  <2>1. /\ pc = "status" /\ op' = op /\ Remaining(clock, PowerTimeout) > 0 /\ Asked(answer, at)
        /\ Done(r, at)
    BY <1>5, Zenon DEF Status
  <2>2. op = "status" /\ PowerTimeout \in Nat /\ OnAttempts \in Nat \ {0}
    BY <2>1, ControlAssumption DEF IInv, Typed
  <2>3. at <= Limit(op) + Overrun
    <3>1. \E late : at \in Ends(Remaining(clock, PowerTimeout), late)
      BY <2>1, Zenon DEF Asked
    <3> QED BY <1>1, <2>1, <2>2, <3>1, EndsInTime, TimeIsLeft
  <2>4. /\ DOMAIN Answered(answer) = Fields /\ Sized(Answered(answer))
        /\ Answered(answer).code = answer.code
        /\ answer.code = "ok" => Answered(answer).power \in 0 .. 3
    BY <1>1, AnswerSized
  <2>5. /\ DOMAIN r = Fields /\ r.power = Answered(answer).power /\ r.attempts = 1
        /\ r.code = answer.code /\ (answer.code = "ok" => r.verified)
    BY <2>4 DEF Fields
  <2>6. Sized(r)
    BY <2>2, <2>4, <2>5 DEF Sized
  <2>7. answer.code # "input_unconfirmed"
    BY DEF Answers, QueryFailures
  <2> HIDE DEF r
  <2>8. Proven(r, op')
    BY <2>1, <2>2, <2>4, <2>5, <2>7 DEF Proven
  <2> QED BY <2>1, <2>3, <2>5, <2>6, <2>8, DoneReadable
<1> QED BY <1>3, <1>4, <1>5

(* The activation: everything success claims is at hand when it is claimed.  *)
LEMMA ActivatingReadable ==
  ASSUME IInv, Current, Readable, NEW tx, NEW at \in Times,
         \/ ReportAddress(tx, at) \/ Announce(tx, at)
         \/ OutOfTime \/ TakeSource \/ CheckSource \/ Transmit \/ CheckRoute
  PROVE  Readable'
<1>1. pc \in Activating /\ pc # "idle" /\ op' = op
  BY DEF ReportAddress, Announce, OutOfTime, TakeSource, CheckSource, Transmit, CheckRoute,
     Activating
<1>2. op = "on" /\ result.verified
  BY <1>1, Zenon DEF Current
<1>3. /\ DOMAIN result = Fields /\ Sized(result) /\ result.power = 0 /\ clock \in Nat
      /\ op \in {"on", "standby", "status"} /\ TxTimeout \in Nat
      /\ clock <= Limit(op) + Overrun
  BY <1>1, ControlAssumption DEF IInv, Typed, Readable
<1>4. Limit(op)' = Limit(op)
  BY <1>1 DEF Limit
<1>5. ASSUME NEW t, t <= Limit(op) + Overrun, Unconfirmed(result, t) PROVE Readable'
  <2> DEFINE r == [result EXCEPT !.code = "input_unconfirmed"]
  <2>1. /\ DOMAIN r = Fields /\ r.power = 0 /\ r.attempts = result.attempts
        /\ r.code = "input_unconfirmed" /\ r.verified = result.verified
    BY <1>3 DEF Fields
  <2>2. Sized(r)
    BY <1>3, <2>1 DEF Sized
  <2>3. r.verified
    BY <1>2, <2>1, Zenon
  <2> HIDE DEF r
  <2>4. Proven(r, op')
    BY <2>1, <2>3 DEF Proven
  <2>5. Done(r, t)
    BY <1>5, Zenon DEF Unconfirmed, r
  <2> QED BY <1>1, <1>5, <2>1, <2>2, <2>4, <2>5, DoneReadable
<1>6. ASSUME NEW late, at \in Ends(Remaining(clock, TxTimeout), late), clock < Limit(op)
      PROVE  at <= Limit(op) + Overrun /\ Paused(at) <= Limit(op) + Overrun
  BY <1>3, <1>6, EndsInTime
<1>7. CASE ReportAddress(tx, at)
  <2>1. at <= Limit(op) + Overrun
    BY <1>3, <1>6, <1>7, TimeIsLeft DEF ReportAddress
  <2>2. CASE pc' = "announce" /\ clock' = at /\ UNCHANGED result
    BY <1>1, <1>3, <2>1, <2>2, GoingReadable
  <2>3. CASE Unconfirmed(result, at)
    BY <1>5, <2>1, <2>3
  <2> QED BY <1>7, <2>2, <2>3, Zenon DEF ReportAddress
<1>8. CASE OutOfTime
  BY <1>3, <1>5, <1>8 DEF OutOfTime
<1>9. ASSUME pc' \in {"posted", "on_wire"}, clock < Limit(op), UNCHANGED <<clock, result>>
      PROVE  Readable'
  <2>1. pc' \notin {"idle", "route", "done"}
    BY <1>9
  <2> QED BY <1>3, <1>4, <1>9, <2>1, Zenon DEF Readable
<1>10. CASE TakeSource \/ Transmit
  <2>1. clock < Limit(op)
    BY <1>3, <1>10, TimeIsLeft DEF TakeSource, Transmit, Readable
  <2> QED BY <1>9, <1>10, <2>1 DEF TakeSource, Transmit
<1>11. CASE CheckSource
  <2>1. clock < Limit(op)
    BY <1>3, <1>11, TimeIsLeft DEF CheckSource
  <2>2. CASE pc' = "posted" /\ UNCHANGED <<clock, result>>
    BY <1>9, <2>1, <2>2
  <2>3. CASE Unconfirmed(result, clock)
    BY <1>3, <1>5, <2>3
  <2> QED BY <1>11, <2>2, <2>3, Zenon DEF CheckSource
<1>12. CASE Announce(tx, at)
  <2>1. pc \in {"posted", "on_wire"}
    BY <1>12 DEF Announce
  <2>2. at <= Limit(op) + Overrun /\ Paused(at) <= Limit(op) + Overrun
    BY <1>6, <1>12, <2>1 DEF Announce, Readable
  <2>3. CASE /\ pc' = "route" /\ clock' = Paused(at)
             /\ result' = [result EXCEPT !.announced = TRUE]
    <3>1. result'.announced /\ result'.power = 0 /\ result'.attempts = result.attempts
      BY <1>3, <2>3 DEF Fields
    <3>2. Sized(result')
      BY <1>3, <3>1 DEF Sized
    <3>3. pc' \notin {"posted", "on_wire", "done"}
      BY <2>3
    <3> QED BY <1>4, <2>2, <2>3, <3>1, <3>2, <3>3, Zenon DEF Readable
  <2>4. CASE Unconfirmed(result, at)
    BY <1>5, <2>2, <2>4
  <2> QED BY <1>12, <2>3, <2>4, Zenon DEF Announce
<1>13. CASE CheckRoute
  <2>1. CASE Done([result EXCEPT !.routing = TRUE, !.code = "ok"], clock)
    <3> DEFINE r == [result EXCEPT !.routing = TRUE, !.code = "ok"]
    <3>1. /\ DOMAIN r = Fields /\ r.power = 0 /\ r.attempts = result.attempts /\ r.code = "ok"
          /\ r.verified = result.verified /\ r.announced = result.announced /\ r.routing
      BY <1>3 DEF Fields
    <3>2. Sized(r)
      BY <1>3, <3>1 DEF Sized
    <3>3. result.announced
      BY <1>13, Zenon DEF CheckRoute, Readable
    <3>4. r.verified /\ r.announced
      BY <1>2, <3>1, <3>3, Zenon
    <3> HIDE DEF r
    <3>5. Done(r, clock)
      BY <2>1, Zenon DEF r
    <3>6. Proven(r, op')
      BY <1>1, <1>2, <3>1, <3>4 DEF Proven
    <3> QED BY <1>1, <1>3, <3>1, <3>2, <3>5, <3>6, DoneReadable
  <2>2. CASE pc' = "announce" /\ UNCHANGED <<clock, result>>
    BY <1>1, <1>3, <2>2, GoingReadable
  <2>3. CASE Unconfirmed(result, clock)
    BY <1>3, <1>5, <2>3
  <2> QED BY <1>13, <2>1, <2>2, <2>3, Zenon DEF CheckRoute
<1> QED BY <1>7, <1>8, <1>10, <1>11, <1>12, <1>13

(* Steps that leave the operation as it is. *)
LEMMA StandsReadable ==
  ASSUME Readable, UNCHANGED <<pc, op, clock, result>> PROVE Readable'
<1>1. Limit(op)' = Limit(op)
  BY DEF Limit
<1> QED BY <1>1, Zenon DEF Readable

LEMMA ReadableStep ==
  IInv /\ Current /\ Readable /\ MarginsSuffice /\ [Next]_vars => Readable'
<1> SUFFICES ASSUME IInv, Current, Readable, MarginsSuffice, [Next]_vars PROVE Readable'
  OBVIOUS
<1>1. 0 \in Times
  BY ControlAssumption DEF Times
<1>2. [code |-> "no_ack", power |-> Unknown] \in Answers
  BY DEF Answers, QueryFailures
<1>3. CASE SkipCommand
  <2>1. pc = "command" /\ pc' = "ask" /\ UNCHANGED <<op, clock, result>>
    BY <1>3, Zenon DEF SkipCommand
  <2>2. Sized(result') /\ clock' <= Limit(op) + Overrun
    BY <2>1 DEF Readable
  <2> QED BY <2>1, <2>2, GoingReadable
<1>4. CASE Finish
  <2>1. pc' = "idle" /\ result' = InitialResult
    BY <1>4, Zenon DEF Finish
  <2>2. Sized(result')
    BY <2>1, ControlAssumption DEF Sized, InitialResult, Unknown
  <2>3. pc' \notin {"posted", "on_wire", "route", "done"} \cup Activating
    BY <2>1 DEF Activating
  <2> QED BY <2>1, <2>2, <2>3, Zenon DEF Readable
<1>5. CASE Operate
  BY <1>1, <1>2, <1>3, <1>4, <1>5, CommandReadable, AskReadable, EndReadable, ActivatingReadable,
     Zenon DEF Operate
<1>6. CASE Environment
  BY <1>6, StandsReadable, Zenon DEF Environment, OtherSource, SourceLost, TvRoutesHere,
     TvRoutesAway, BusMoves
<1>7. CASE UNCHANGED vars
  BY <1>7, StandsReadable, Zenon DEF vars
<1> QED BY <1>5, <1>6, <1>7, BeginsReadable, Zenon DEF Next

(* No terminal line of the firmware is taken for a malformed reply: whatever *)
(* the callbacks answer and however long they take, what it claims is proven *)
(* by its other fields, and elapsed_ms and attempts stay within the client's *)
(* limits, because at most one call of an operation overruns its deadline.   *)
THEOREM LinesAreUnderstood ==
  ASSUME MarginsSuffice PROVE Spec => []HostUnderstands
<1>1. Init => IInv /\ Current /\ Readable
  BY Initially, CurrentInitially, ReadableInitially
<1>2. IInv /\ Current /\ Readable /\ [Next]_vars => IInv' /\ Current' /\ Readable'
  BY Step, CurrentStep, ReadableStep, Zenon
<1>3. IInv /\ Readable => HostUnderstands
  <2> SUFFICES ASSUME IInv, Readable, pc = "done" PROVE Host!ReplyAcceptable(Line)
    BY DEF HostUnderstands
  <2>1. Sized(result) /\ result.elapsed = clock /\ Proven(result, op)
    BY Zenon DEF Readable
  <2>2. result.elapsed <= ElapsedLimit
    <3>1. clock <= Limit(op) + Overrun /\ clock \in Nat
      BY DEF Readable, IInv, Typed
    <3>2. Limit(op) <= OnTimeout /\ Limit(op) \in Nat
      BY ControlAssumption DEF Limit, MarginsSuffice, IInv, Typed
    <3> QED BY <2>1, <3>1, <3>2, ControlAssumption DEF MarginsSuffice
  <2> DEFINE line == Line
  <2>3. /\ line.ok = (result.code = "ok") /\ line.command = op /\ line.code = result.code
        /\ line.value = result.power /\ line.power = Host!PowerName(result.power)
        /\ line.verified = result.verified /\ line.attempts = result.attempts
        /\ line.elapsed = result.elapsed
        /\ line.source = (IF result.announced THEN "announced" ELSE "none")
        /\ line.routing = (IF result.routing THEN "confirmed" ELSE "unconfirmed")
    BY DEF Line
  <2>4. result.power \in (0 .. 3) \cup {255}
    BY <2>1 DEF Sized, Unknown
  <2> HIDE DEF line
  <2>5. line.source \in {"none", "announced"} /\ line.routing \in {"confirmed", "unconfirmed"}
    BY <2>3
  <2>6. line.attempts <= OnAttempts /\ line.elapsed <= ElapsedLimit
    BY <2>1, <2>2, <2>3 DEF Sized
  <2>7. line.code = "input_unconfirmed" => line.verified /\ line.power = "on"
    <3>1. Host!PowerName(0) = "on"
      BY DEF Host!PowerName, Host!PowerNames
    <3>2. result.code = "input_unconfirmed" => result.verified /\ result.power = 0
      BY <2>1, Zenon DEF Proven
    <3> QED BY <2>3, <3>1, <3>2, Zenon
  <2>8. line.ok => Host!SuccessAcceptable(line)
    <3> SUFFICES ASSUME result.code = "ok" PROVE Host!SuccessAcceptable(line)
      BY <2>3, Zenon
    <3>1. /\ result.verified /\ result.power \in 0 .. 3
          /\ op = "on" => result.power = 0 /\ result.announced /\ result.routing
          /\ op = "standby" => result.power = 1
      BY <2>1, Zenon DEF Proven
    <3>2. line.code = "ok" /\ line.value <= 3 /\ (op = "on" => line.value = 0)
          /\ (op = "standby" => line.value = 1)
      BY <2>3, <3>1
    <3>3. line.verified
      BY <2>3, <3>1, Zenon
    <3>4. op = "on" => line.source = "announced" /\ line.routing = "confirmed"
      BY <2>3, <3>1, Zenon
    <3> QED BY <2>3, <3>2, <3>3, <3>4, Zenon DEF Host!SuccessAcceptable
  <2>9. ~line.ok => line.code # "ok"
    BY <2>3, Zenon
  <2>10. line.value \in (0 .. 3) \cup {255} /\ line.power = Host!PowerName(line.value)
    BY <2>3, <2>4, Zenon
  <2>11. Host!ReplyAcceptable(line)
    BY <2>5, <2>6, <2>7, <2>8, <2>9, <2>10, Zenon DEF Host!ReplyAcceptable
  <2> QED BY <2>11 DEF line
<1> QED BY <1>1, <1>2, <1>3, PTL DEF Spec

--------------------------------------------------------------------------------
(* When a power command is due.                                              *)

(* While power is being confirmed, next_send lies RetryDelay after the latest*)
(* command, and the retained power state is the latest answer, unless that   *)
(* was a failure.                                                            *)
Due ==
  /\ pc = "idle" => asked = <<>>
  /\ pc \in Confirming =>
       /\ result.attempts \in Nat
       /\ result.attempts > 0 => nextSend = commanded + RetryDelay
       /\ asked # <<>> => asked[1] \in {Unknown, result.power}

LEMMA DueInitially == Init => Due
BY DEF Init, Due, Confirming

(* An operation begins with no command sent and no answer. *)
LEMMA DueBegins ==
  ASSUME IInv, Due, NEW o \in {"on", "standby", "status"}, NEW at,
         Begin(o, at) \/ BeginUnavailable(o, at)
  PROVE  Due'
<1>1. pc = "idle" /\ asked' = asked /\ asked = <<>>
  BY Zenon DEF Begin, BeginUnavailable, Fresh, history, queries, Due
<1>2. pc' \in {"status", "command", "done"}
  BY DEF Begin, BeginUnavailable, Done
<1>3. CASE Begin(o, at)
  <2>1. result' = [InitialResult EXCEPT !.phase = IF o = "status" THEN @ ELSE "power"]
    BY <1>3, Zenon DEF Begin
  <2>2. result'.attempts = 0
    BY <2>1 DEF InitialResult
  <2> QED BY <1>1, <1>2, <2>2 DEF Due
<1>4. CASE BeginUnavailable(o, at)
  <2>1. pc' = "done"
    BY <1>4, Zenon DEF BeginUnavailable, Done
  <2> QED BY <2>1 DEF Due, Confirming
<1> QED BY <1>3, <1>4

LEMMA DueCommands ==
  ASSUME IInv, Due, NEW tx, NEW at, SendCommand(tx, at) PROVE Due'
<1> DEFINE r == [result EXCEPT !.attempts = @ + 1]
<1>1. nextSend' = at + RetryDelay /\ commanded' = at /\ asked' = asked /\ pc = "command"
  BY Zenon DEF SendCommand, queries
<1>2. DOMAIN result = Fields
  BY DEF IInv, Typed
<1>3. r.power = result.power /\ r.attempts = result.attempts + 1
  BY <1>2 DEF Fields
<1> HIDE DEF r
<1>4. pc' = "done" \/ (pc' = "ask" /\ result' = r)
  BY Zenon DEF SendCommand, Done, r
<1>5. CASE pc' = "done"
  BY <1>5 DEF Due, Confirming
<1>6. CASE pc' = "ask" /\ result' = r
  BY <1>1, <1>3, <1>6 DEF Due, Confirming
<1> QED BY <1>4, <1>5, <1>6

LEMMA DueAsks ==
  ASSUME IInv, Due, NEW answer \in Answers, NEW at \in Times, Ask(answer, at) PROVE Due'
<1> DEFINE r == Answered(answer)
<1>1. /\ pc = "ask" /\ UNCHANGED <<nextSend, commanded>>
      /\ asked' = <<answer.power>> \o SubSeq(asked, 1, Min2(1, Len(asked)))
  BY Zenon DEF Ask, Asked
<1>2. asked'[1] = answer.power
  BY <1>1, AskedIs, AnswersAre DEF IInv, Typed
<1>3. DOMAIN result = Fields
  BY DEF IInv, Typed
<1>4. r.attempts = result.attempts /\ (answer.code = "ok" => r.power = answer.power)
  BY <1>3 DEF Answered, Fields
<1>5. answer.code # "ok" => answer.power = Unknown
  BY DEF Answers
<1>6. pc' \in {"done", "activate"} \/ (pc' = "command" /\ result' = r)
  BY DEF Ask, Done
<1> HIDE DEF r
<1>7. CASE pc' \in {"done", "activate"}
  BY <1>7 DEF Due, Confirming
<1>8. CASE pc' = "command" /\ result' = r
  BY <1>1, <1>2, <1>4, <1>5, <1>8 DEF Due, Confirming
<1> QED BY <1>6, <1>7, <1>8

(* Elsewhere nothing is confirmed any more. *)
LEMMA DueElsewhere ==
  ASSUME NEW tx, NEW answer, NEW at,
         \/ ReportAddress(tx, at) \/ Announce(tx, at) \/ Status(answer, at)
         \/ Expire \/ StatusTooLate \/ Transmit \/ OutOfTime \/ TakeSource \/ CheckSource
         \/ CheckRoute \/ Finish
  PROVE  Due'
<1>1. CASE Finish
  <2>1. pc' = "idle" /\ asked' = <<>>
    BY <1>1, Zenon DEF Finish
  <2> QED BY <2>1 DEF Due, Confirming
<1>2. CASE ~Finish
  <2>1. pc' \in {"announce", "posted", "on_wire", "route", "done"}
    BY <1>2 DEF ReportAddress, Announce, Status, Expire, StatusTooLate, Transmit, OutOfTime,
       TakeSource, CheckSource, CheckRoute, Unconfirmed, Done
  <2> QED BY <2>1 DEF Due, Confirming
<1> QED BY <1>1, <1>2

LEMMA DueStep == IInv /\ Due /\ [Next]_vars => Due'
<1> SUFFICES ASSUME IInv, Due, [Next]_vars PROVE Due'
  OBVIOUS
<1>1. ASSUME UNCHANGED <<result, nextSend, commanded, asked>>,
             pc' = pc \/ (pc = "command" /\ pc' = "ask")
      PROVE  Due'
  BY <1>1 DEF Due, Confirming
<1>2. CASE SkipCommand
  BY <1>1, <1>2, Zenon DEF SkipCommand, progress, history, queries
<1>3. CASE Environment
  BY <1>1, <1>3, Zenon DEF Environment, OtherSource, SourceLost, TvRoutesHere, TvRoutesAway,
     BusMoves, progress, queries
<1>4. CASE UNCHANGED vars
  BY <1>1, <1>4, Zenon DEF vars, progress, history, queries
<1>5. CASE Operate
  BY <1>2, <1>5, DueCommands, DueAsks, DueElsewhere, Zenon DEF Operate
<1> QED BY <1>3, <1>4, <1>5, DueBegins, Zenon DEF Next

(* A power command is sent only RetryDelay after the one before it and on a  *)
(* latest answer that is neither the target nor a transition, whatever the   *)
(* operation has seen and however long its calls took.                       *)
THEOREM CommandsAreJustified == Spec => CommandIsJustified
<1>1. ASSUME IInv, Due, [Next]_vars, pc = "command", result'.attempts > result.attempts
      PROVE  /\ result.attempts > 0 => clock - commanded >= RetryDelay
             /\ asked # <<>> => asked[1] \notin {2, 3, Target}
  <2>1. result.attempts \in Nat /\ DOMAIN result = Fields /\ clock \in Nat /\ commanded \in Nat
    BY <1>1 DEF Due, Confirming, IInv, Typed
  <2>2. ASSUME result' = result PROVE FALSE
    BY <1>1, <2>1, <2>2
  <2>3. ASSUME Expire PROVE FALSE
    <3>1. PICK code : Done([result EXCEPT !.code = code], clock)
      BY <2>3, Zenon DEF Expire
    <3>2. result'.attempts = result.attempts
      BY <2>1, <3>1 DEF Done, Fields
    <3> QED BY <1>1, <2>1, <3>2
  <2>4. \E tx, at : SendCommand(tx, at)
    <3>1. ~SkipCommand
      BY <2>2, Zenon DEF SkipCommand
    <3>2. ~Environment
      BY <2>2, Zenon DEF Environment, OtherSource, SourceLost, TvRoutesHere, TvRoutesAway,
         BusMoves
    <3>3. ~UNCHANGED vars
      BY <2>2, Zenon DEF vars
    <3>4. ASSUME NEW tx, NEW answer, NEW at,
                 \/ ReportAddress(tx, at) \/ Announce(tx, at) \/ Ask(answer, at)
                 \/ Status(answer, at) \/ StatusTooLate \/ Transmit \/ OutOfTime
                 \/ TakeSource \/ CheckSource \/ CheckRoute \/ Finish
                 \/ Begin(tx, at) \/ BeginUnavailable(tx, at)
          PROVE  FALSE
      BY <1>1, <3>4 DEF ReportAddress, Announce, Ask, Status, StatusTooLate, Transmit,
         OutOfTime, TakeSource, CheckSource, CheckRoute, Finish, Begin, BeginUnavailable
    <3> QED BY <1>1, <2>3, <3>1, <3>2, <3>3, <3>4, Zenon DEF Next, Operate
  <2>5. CommandDue
    BY <2>4, Zenon DEF SendCommand
  <2>6. clock >= nextSend /\ result.power \notin {2, 3, Target}
    BY <2>5 DEF CommandDue
  <2>7. Unknown \notin {2, 3, Target}
    BY DEF Unknown, Target
  <2>8. /\ result.attempts > 0 => nextSend = commanded + RetryDelay
        /\ asked # <<>> => asked[1] \in {Unknown, result.power}
    BY <1>1 DEF Due, Confirming
  <2> QED BY <2>1, <2>6, <2>7, <2>8, ControlAssumption
<1>2. IInv /\ Due /\ [Next]_vars
        => [pc = "command" /\ result'.attempts > result.attempts =>
              /\ result.attempts > 0 => clock - commanded >= RetryDelay
              /\ asked # <<>> => asked[1] \notin {2, 3, Target}]_vars
  BY <1>1, Zenon
<1>3. Init => IInv /\ Due
  BY Initially, DueInitially
<1>4. IInv /\ Due /\ [Next]_vars => IInv' /\ Due'
  BY Step, DueStep, Zenon
<1> QED BY <1>2, <1>3, <1>4, PTL DEF Spec, CommandIsJustified
================================================================================

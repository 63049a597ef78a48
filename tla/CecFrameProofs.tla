----------------------------- MODULE CecFrameProofs -----------------------------
(***************************************************************************)
(* Theorems about the frame layer: CecTransmit, for every set of messages  *)
(* and any number of calls, and CecReceive, for every set of frames and    *)
(* any number of faults; both for every length of a byte.                  *)
(***************************************************************************)
EXTENDS CecTransmit, CecReceive, SequenceTheorems, TLAPS

--------------------------------------------------------------------------------
(* Sending.                                                                  *)

(* Only the call that set the alarm waits for it, and the alarm is the only  *)
(* other one to touch the line: where no task waits there is none.           *)
QuietInv ==
  /\ task \in {"free", "idle", "sending", "asleep", "late", "woken"}
  /\ alarms \in 0 .. 1
  /\ task \in {"free", "idle", "sending"} => alarms = 0 /\ ~out
  /\ task \in {"free", "idle"} => edges

LEMMA QuietInitially == Init => QuietInv
<1> SUFFICES ASSUME Init PROVE QuietInv
  OBVIOUS
<1>1. ~out /\ edges
  BY Zenon DEF Init
<1>2. task = "free" /\ alarms = 0
  BY DEF Init
<1> QED BY <1>1, <1>2 DEF QuietInv

(* An alarm that is late for its frame, or in time, stays one or ends. *)
LEMMA AlarmIsOne ==
  ASSUME alarms = 1, Alarm PROVE alarms' \in 0 .. 1
<1>1. alarms' = alarms \/ alarms' = alarms - 1
  <2>1. CASE ~active
    BY <2>1 DEF Alarm
  <2>2. CASE TxFinish("timeout")
    BY <2>2 DEF TxFinish
  <2>3. ASSUME NEW low \in BOOLEAN, Pulse(low) PROVE alarms' = alarms \/ alarms' = alarms - 1
    <3>1. \A r : TxFinish(r) => alarms' = alarms - 1
      BY DEF TxFinish
    <3>2. \A s, d : Continue(s, d) => alarms' = alarms
      BY DEF Continue
    <3>3. \A b : DataLow(b) => alarms' = alarms
      BY <3>2, Zenon DEF DataLow
    <3>4. \A s, d : Go(s, d) => alarms' = alarms
      BY <3>2, Zenon DEF Go
    <3>5. DataRelease => alarms' = alarms
      BY <3>2, <3>4, Zenon DEF DataRelease
    <3>6. DataSample(low) => alarms' = alarms \/ alarms' = alarms - 1
      BY <3>1, <3>2, Zenon DEF DataSample
    <3>7. DataEnd => alarms' = alarms
      BY <3>2, <3>3, Zenon DEF DataEnd
    <3>8. AckSample(low) => alarms' = alarms
      BY <3>2, <3>4, Zenon DEF AckSample
    <3> QED BY <2>3, <3>1, <3>3, <3>4, <3>5, <3>6, <3>7, <3>8 DEF Pulse
  <2> QED BY <2>1, <2>2, <2>3, Zenon DEF Alarm
<1> QED BY <1>1

LEMMA QuietStep == QuietInv /\ [Next]_vars => QuietInv'
<1> SUFFICES ASSUME QuietInv, [Next]_vars PROVE QuietInv'
  OBVIOUS
<1>1. CASE Alarm
  <2>1. alarms = 1 /\ task \in {"asleep", "late", "woken"}
    BY <1>1 DEF QuietInv, Alarm
  <2>2. alarms' \in 0 .. 1
    BY <1>1, <2>1, AlarmIsOne
  <2>3. task' = task
    BY <1>1, Zenon DEF Alarm
  <2> QED BY <2>1, <2>2, <2>3 DEF QuietInv
<1>2. ASSUME NEW m \in Messages, Call(m) PROVE QuietInv'
  <2>1. alarms = 0 /\ ~out /\ edges
    BY <1>2 DEF QuietInv, Call
  <2>2. alarms' = alarms /\ (out' <=> out) /\ (edges' <=> edges)
    BY <1>2, Zenon DEF Call
  <2>3. task' \in {"free", "idle"}
    BY <1>2, Zenon DEF Call, Return
  <2> QED BY <2>1, <2>2, <2>3 DEF QuietInv
<1>3. CASE IdleRound
  <2>1. alarms = 0 /\ ~out /\ edges
    BY <1>3 DEF QuietInv, IdleRound
  <2>2. alarms' = alarms /\ (out' <=> out)
    BY <1>3, Zenon DEF IdleRound
  <2>3. task' = "sending" \/ (task' \in {"free", "idle"} /\ (edges' <=> edges))
    BY <1>3, Zenon DEF IdleRound, Return
  <2> QED BY <2>1, <2>2, <2>3 DEF QuietInv
<1>4. CASE SetAlarm
  <2>1. alarms = 0
    BY <1>4 DEF QuietInv, SetAlarm
  <2>2. task' \in {"asleep", "woken"} /\ alarms' \in {alarms, alarms + 1}
    BY <1>4 DEF SetAlarm
  <2> QED BY <2>1, <2>2 DEF QuietInv
<1>5. CASE Wake \/ Overwrite
  <2>1. task' \in {"late", "woken"} /\ alarms' = alarms
    BY <1>5, Zenon DEF Wake, Overwrite
  <2> QED BY <2>1 DEF QuietInv
<1>6. CASE End
  <2>1. ~out' /\ edges'
    BY <1>6, Zenon DEF End
  <2>2. alarms' = 0 /\ task' = "free"
    BY <1>6 DEF End, Cancelled, Return
  <2> QED BY <2>1, <2>2 DEF QuietInv
<1>7. CASE Line
  <2>1. task' = task /\ alarms' = alarms /\ (out' <=> out) /\ (edges' <=> edges)
    BY <1>7, Zenon DEF Line
  <2> QED BY <2>1 DEF QuietInv
<1>8. CASE Time
  <2>1. task' = task /\ alarms' = alarms /\ (out' <=> out) /\ (edges' <=> edges)
    BY <1>8, Zenon DEF Time
  <2> QED BY <2>1 DEF QuietInv
<1>9. CASE UNCHANGED vars
  <2>1. task' = task /\ alarms' = alarms /\ (out' <=> out) /\ (edges' <=> edges)
    BY <1>9, Zenon DEF vars
  <2> QED BY <2>1 DEF QuietInv
<1> QED BY <1>1, <1>2, <1>3, <1>4, <1>5, <1>6, <1>7, <1>8, <1>9 DEF Next

(* Whatever ended the call - the alarm, the deadline, an alarm never set or  *)
(* come too late - the line is released, no alarm is left to drive it and    *)
(* the receiver listens again.                                               *)
THEOREM LineIsLeftQuiet == Spec => []QuietAfterReturn
<1>1. QuietInv => QuietAfterReturn
  BY DEF QuietInv, QuietAfterReturn
<1> QED BY <1>1, QuietInitially, QuietStep, PTL DEF Spec

--------------------------------------------------------------------------------
(* What is on the line is a beginning of the frame, and its length says      *)
(* where the alarm is.                                                       *)

LEMMA DivMod ==
  ASSUME NEW b \in Nat \ {0}, NEW q \in Nat, NEW k \in 0 .. b - 1
  PROVE  (b * q + k) \div b = q /\ (b * q + k) % b = k
OBVIOUS

LEMMA Product ==
  ASSUME NEW b \in Nat \ {0}, NEW q \in Nat, NEW p \in Nat
  PROVE  /\ b * q \in Nat /\ b * (q + 1) = b * q + b /\ b * 0 = 0
         /\ q < p => b * q + b <= b * p
OBVIOUS

LEMMA BitsIsNat == Bits \in Nat \ {0}
BY FrameAssumption

LEMMA MessageBits ==
  ASSUME NEW m \in Messages
  PROVE  /\ Len(m) \in Nat \ {0}
         /\ \A q \in 0 .. Len(m) - 1 : \A k \in 1 .. Bits : m[q + 1][k] \in {0, 1}
<1>1. m \in Seq([1 .. Bits -> {0, 1}]) /\ m # <<>>
  BY TransmitAssumption DEF Bytes
<1>2. Len(m) \in Nat \ {0}
  BY <1>1
<1>3. \A q \in 0 .. Len(m) - 1 : m[q + 1] \in [1 .. Bits -> {0, 1}]
  BY <1>1, <1>2
<1> QED BY <1>2, <1>3

(* The bit at a place of the frame. *)
LEMMA FlatBit ==
  ASSUME NEW m \in Messages, NEW q \in 0 .. Len(m) - 1, NEW k \in 0 .. Bits - 1
  PROVE  Flat(m)[Bits * q + k + 1] = m[q + 1][k + 1]
<1>1. Len(m) \in Nat /\ q \in Nat /\ q < Len(m)
  BY MessageBits
<1>2. Bits * q \in Nat /\ Bits * q + Bits <= Bits * Len(m)
  BY <1>1, BitsIsNat, Product
<1>3. (Bits * q + k) \div Bits = q /\ (Bits * q + k) % Bits = k
  BY <1>1, BitsIsNat, DivMod
<1> DEFINE n == Bits * q
<1> HIDE DEF n
<1>4. n + k + 1 \in 1 .. Bits * Len(m) /\ (n + k + 1) - 1 = n + k
  BY <1>1, <1>2, BitsIsNat, Product DEF n
<1>5. (n + k) \div Bits = q /\ (n + k) % Bits = k
  BY <1>3 DEF n
<1>6. Flat(m)[n + k + 1] = m[((n + k) \div Bits) + 1][((n + k) % Bits) + 1]
  BY <1>4 DEF Flat
<1> QED BY <1>5, <1>6 DEF n

Sent(n) ==
  /\ seen \in Seq({0, 1}) /\ Len(seen) = n
  /\ \A i \in 1 .. n : seen[i] = Flat(message)[i]

LEMMA SentNothing ==
  ASSUME seen = <<>> PROVE Sent(0)
BY DEF Sent

LEMMA SentAll ==
  ASSUME message \in Messages, Sent(Bits * Len(message)) PROVE seen = Flat(message)
<1>1. Bits * Len(message) \in Nat
  BY MessageBits, BitsIsNat, Product
<1> DEFINE n == Bits * Len(message)
<1> HIDE DEF n
<1>2. seen \in [1 .. n -> {0, 1}] /\ \A i \in 1 .. n : seen[i] = Flat(message)[i]
  BY <1>1 DEF Sent, n
<1>3. Flat(message) = [i \in 1 .. n |-> Flat(message)[i]]
  BY DEF Flat, n
<1> QED BY <1>2, <1>3

(* The next bit of the frame is appended. *)
LEMMA SentBit ==
  ASSUME message \in Messages, message' = message,
         NEW q \in 0 .. Len(message) - 1, NEW k \in 0 .. Bits - 1,
         Sent(Bits * q + k), NEW bit, bit = message[q + 1][k + 1], seen' = Append(seen, bit)
  PROVE  Sent(Bits * q + k + 1)'
<1>1. Bits * q + k \in Nat
  BY MessageBits, BitsIsNat, Product
<1>2. bit \in {0, 1} /\ Flat(message)[Bits * q + k + 1] = bit
  <2>1. k + 1 \in 1 .. Bits
    BY BitsIsNat
  <2>2. message[q + 1][k + 1] \in {0, 1}
    BY <2>1, MessageBits
  <2>3. Flat(message)[Bits * q + k + 1] = message[q + 1][k + 1]
    BY FlatBit
  <2> QED BY <2>2, <2>3
<1> DEFINE n == Bits * q + k
<1> HIDE DEF n
<1>3. /\ n \in Nat /\ bit \in {0, 1} /\ Flat(message)[n + 1] = bit
      /\ seen \in Seq({0, 1}) /\ Len(seen) = n
      /\ \A i \in 1 .. n : seen[i] = Flat(message)[i]
  BY <1>1, <1>2 DEF n, Sent
<1>4. /\ seen' \in Seq({0, 1}) /\ Len(seen') = n + 1
      /\ \A i \in 1 .. n + 1 : seen'[i] = Flat(message)[i]
  BY <1>3
<1>5. Sent(n + 1)'
  BY <1>4 DEF Sent
<1> QED BY <1>5 DEF n

(* Where the alarm is in the frame. *)
AtBit == byteAt \in 0 .. Len(message) - 1 /\ bitAt \in 0 .. Bits - 1

Position ==
  /\ txState \in {"start_low", "start_release", "data_low"} =>
       byteAt = 0 /\ bitAt = Bits - 1 /\ Sent(0)
  /\ txState \in {"data_release", "data_sample"} =>
       /\ AtBit /\ Sent(Bits * byteAt + (Bits - 1 - bitAt))
       /\ one <=> message[byteAt + 1][Bits - bitAt] = 1
       /\ txState = "data_sample" => one
  /\ txState = "data_end" => AtBit /\ Sent(Bits * byteAt + (Bits - 1 - bitAt) + 1)
  /\ txState \in {"eom_release", "ack_low", "ack_release", "ack_sample", "next"} =>
       /\ byteAt \in 1 .. Len(message) /\ Sent(Bits * byteAt)
       /\ txState = "next" => byteAt < Len(message)
  /\ txState = "end" => Sent(Bits * Len(message))
  /\ txState \in {"start_low", "start_release", "data_low", "data_release", "data_sample",
                  "data_end", "eom_release", "ack_low", "ack_release", "ack_sample", "next",
                  "end"}

SendingInv ==
  /\ task # "free" => message \in Messages /\ returned # "ack"
  /\ task \in {"sending", "asleep", "late", "woken"} =>
       /\ result = "ack" => IF active THEN Position ELSE Sent(Bits * Len(message))
       /\ notified => ~active
  /\ task = "woken" /\ result = "ack" => ~active
  /\ returned = "ack" => message \in Messages /\ Sent(Bits * Len(message))

(* The bits left to the next one. *)
LEMMA BitIndex ==
  ASSUME AtBit, message \in Messages
  PROVE  /\ Bits - 1 - bitAt \in 0 .. Bits - 1 /\ (Bits - 1 - bitAt) + 1 = Bits - bitAt
         /\ byteAt \in 0 .. Len(message) - 1 /\ byteAt \in Nat /\ Bits * byteAt \in Nat
         /\ message[byteAt + 1][Bits - bitAt] \in {0, 1}
<1>1. byteAt \in Nat /\ bitAt \in 0 .. Bits - 1 /\ byteAt \in 0 .. Len(message) - 1
  BY MessageBits DEF AtBit
<1>2. Bits * byteAt \in Nat
  BY <1>1, BitsIsNat, Product
<1>3. Bits - bitAt \in 1 .. Bits
  BY <1>1, BitsIsNat
<1>4. message[byteAt + 1][Bits - bitAt] \in {0, 1}
  BY <1>1, <1>3, MessageBits
<1> QED BY <1>1, <1>2, <1>3, <1>4, BitsIsNat

LEMMA SameSent == ASSUME UNCHANGED <<message, seen>>, NEW n, Sent(n) PROVE Sent(n)'
<1>1. Flat(message') = Flat(message)
  OBVIOUS
<1> QED BY <1>1 DEF Sent

(* A bit begins. *)
LEMMA BitBegins ==
  ASSUME message \in Messages, NEW b \in 0 .. Bits - 1, DataLow(b),
         byteAt \in 0 .. Len(message) - 1, Sent(Bits * byteAt + (Bits - 1 - b))
  PROVE  Position'
<1>1. /\ txState' = "data_release" /\ bitAt' = b
      /\ UNCHANGED <<message, byteAt, seen>>
  BY DEF DataLow, Continue
<1>2. one' <=> message[byteAt + 1][Bits - b] = 1
  BY Zenon DEF DataLow
<1>3. Sent(Bits * byteAt + (Bits - 1 - b))'
  <2> DEFINE n == Bits * byteAt + (Bits - 1 - b)
  <2>1. ASSUME NEW x, Sent(x) PROVE Sent(x)'
    BY <1>1, <2>1, SameSent
  <2> QED BY <1>1, <2>1 DEF Sent
<1>4. AtBit'
  BY <1>1 DEF AtBit
<1>5. Sent(Bits * byteAt + (Bits - 1 - bitAt))'
  BY <1>1, <1>3 DEF Sent
<1>6. (one <=> message[byteAt + 1][Bits - bitAt] = 1)'
  BY <1>1, <1>2, Zenon
<1> QED BY <1>1, <1>4, <1>5, <1>6 DEF Position

(* A bit is on the line. *)
LEMMA BitIsRead ==
  ASSUME message \in Messages, AtBit, Sent(Bits * byteAt + (Bits - 1 - bitAt)),
         Continue("data_end", FALSE), UNCHANGED <<byteAt, bitAt>>,
         NEW bit, seen' = Append(seen, bit), bit = message[byteAt + 1][Bits - bitAt]
  PROVE  Position'
<1>1. txState' = "data_end" /\ message' = message
  BY DEF Continue
<1>2. AtBit'
  BY <1>1 DEF AtBit
<1>3. Sent(Bits * byteAt + (Bits - 1 - bitAt) + 1)'
  <2>1. ASSUME NEW q \in 0 .. Len(message) - 1, NEW k \in 0 .. Bits - 1,
               q = byteAt, k = Bits - 1 - bitAt
        PROVE  Sent(Bits * q + k + 1)'
    <3>1. Sent(Bits * q + k) /\ bit = message[q + 1][k + 1]
      BY <2>1, BitIndex
    <3> QED BY <1>1, <3>1, SentBit
  <2> QED BY <2>1, BitIndex DEF Sent
<1> QED BY <1>1, <1>2, <1>3 DEF Position

Going == {"eom_release", "ack_low", "ack_release", "ack_sample", "next"}

(* A step in which no bit begins or ends. *)
LEMMA BetweenBits ==
  ASSUME message \in Messages, NEW state, NEW drives, Go(state, drives), Position,
         \/ txState \in {"start_low", "start_release"} /\ state \in {"start_release", "data_low"}
         \/ txState = "data_release" /\ one /\ state = "data_sample"
         \/ /\ txState \in Going /\ state \in Going
            /\ state = "next" => byteAt < Len(message)
         \/ txState \in Going /\ state = "end" /\ byteAt = Len(message)
  PROVE  Position'
<1>1. /\ txState' = state
      /\ UNCHANGED <<message, byteAt, bitAt, seen>>
  BY DEF Go, Continue
<1>2. one' <=> one
  BY Zenon DEF Go
<1>3. ASSUME NEW n, Sent(n) PROVE Sent(n)'
  BY <1>1, <1>3, SameSent
<1>4. CASE txState \in {"start_low", "start_release"} /\ state \in {"start_release", "data_low"}
  <2>1. byteAt = 0 /\ bitAt = Bits - 1 /\ Sent(0)
    BY <1>4 DEF Position
  <2>2. Sent(0)'
    BY <1>3, <2>1
  <2> QED BY <1>1, <1>4, <2>1, <2>2 DEF Position
<1>5. CASE txState = "data_release" /\ one /\ state = "data_sample"
  <2>1. /\ AtBit /\ Sent(Bits * byteAt + (Bits - 1 - bitAt))
        /\ one <=> message[byteAt + 1][Bits - bitAt] = 1
    BY <1>5, Zenon DEF Position
  <2>2. one'
    BY <1>2, <1>5
  <2>3. AtBit'
    BY <1>1, <2>1 DEF AtBit
  <2>4. Sent(Bits * byteAt + (Bits - 1 - bitAt))'
    BY <1>1, <1>3, <2>1 DEF Sent
  <2>5. (message[byteAt + 1][Bits - bitAt] = 1)'
    BY <1>1, <1>5, <2>1
  <2> QED BY <1>1, <1>5, <2>2, <2>3, <2>4, <2>5 DEF Position
<1>6. CASE txState \in Going
  <2>1. byteAt \in 1 .. Len(message) /\ Sent(Bits * byteAt)
    BY <1>6 DEF Position, Going
  <2>2. Sent(Bits * byteAt)' /\ (byteAt \in 1 .. Len(message))'
    BY <1>1, <1>3, <2>1 DEF Sent
  <2>3. \/ state \in Going /\ (state = "next" => (byteAt < Len(message))')
        \/ state = "end" /\ byteAt = Len(message)
    BY <1>1, <1>6 DEF Going
  <2>4. state = "end" => Sent(Bits * Len(message))'
    BY <1>1, <2>2, <2>3 DEF Sent, Going
  <2> QED BY <1>1, <2>2, <2>3, <2>4 DEF Position, Going
<1> QED BY <1>4, <1>5, <1>6

(* Each pulse of the alarm, as long as nothing has gone wrong: only the last *)
(* one finishes the frame.                                                   *)
LEMMA PulseSends ==
  ASSUME message \in Messages, NEW low \in BOOLEAN, Pulse(low), active, result = "ack",
         result' = "ack", Position
  PROVE  /\ message' = message
         /\ \/ active' /\ (notified' <=> notified) /\ Position'
            \/ ~active' /\ Sent(Bits * Len(message))'
<1> DEFINE Goes == message' = message /\ active' /\ (notified' <=> notified)
<1>1. ASSUME NEW state, NEW drives, Continue(state, drives) PROVE Goes
  BY <1>1, Zenon DEF Continue
<1>2. ASSUME NEW state, NEW drives, Go(state, drives) PROVE Goes
  BY <1>1, <1>2, Zenon DEF Go
<1>3. ASSUME NEW b, DataLow(b) PROVE Goes
  BY <1>1, <1>3, Zenon DEF DataLow
<1>4. Len(message) \in Nat \ {0} /\ Bits \in Nat \ {0}
  BY MessageBits, BitsIsNat
<1> HIDE DEF Goes
<1>5. CASE txState \in {"start_low", "start_release"}
  <2>1. \/ Go("start_release", TRUE)
        \/ Go("data_low", FALSE)
    BY <1>5 DEF Pulse
  <2>2. Position'
    BY <1>5, <2>1, BetweenBits
  <2>3. Goes
    BY <1>2, <2>1, Zenon
  <2> QED BY <2>2, <2>3, Zenon DEF Goes
<1>6. CASE txState = "data_low"
  <2>1. DataLow(bitAt) /\ byteAt = 0 /\ bitAt = Bits - 1 /\ Sent(0)
    BY <1>6 DEF Pulse, Position
  <2>2. Bits * 0 + (Bits - 1 - (Bits - 1)) = 0
    BY BitsIsNat
  <2>3. Bits * byteAt + (Bits - 1 - bitAt) = 0
    BY <2>1, <2>2
  <2>4. byteAt \in 0 .. Len(message) - 1 /\ bitAt \in 0 .. Bits - 1
    BY <1>4, <2>1
  <2>5. ASSUME NEW b \in 0 .. Bits - 1, b = bitAt PROVE Position'
    <3>1. DataLow(b) /\ Sent(Bits * byteAt + (Bits - 1 - b))
      BY <2>1, <2>3, <2>5
    <3> QED BY <2>4, <3>1, BitBegins
  <2>6. Goes
    BY <1>3, <2>1, Zenon
  <2> QED BY <2>4, <2>5, <2>6, Zenon DEF Goes
<1>7. CASE txState = "data_release"
  <2>1. /\ AtBit /\ Sent(Bits * byteAt + (Bits - 1 - bitAt)) /\ DataRelease
        /\ one <=> message[byteAt + 1][Bits - bitAt] = 1
    BY <1>7, Zenon DEF Position, Pulse
  <2>2. CASE one
    <3>1. Go("data_sample", FALSE)
      BY <2>1, <2>2, Zenon DEF DataRelease
    <3>2. Position'
      BY <1>7, <2>2, <3>1, BetweenBits
    <3>3. Goes
      BY <1>2, <3>1, Zenon
    <3> QED BY <3>2, <3>3, Zenon DEF Goes
  <2>3. CASE ~one
    <3>1. /\ Continue("data_end", FALSE) /\ seen' = Append(seen, 0)
          /\ UNCHANGED <<byteAt, bitAt>>
      BY <2>1, <2>3, Zenon DEF DataRelease
    <3>2. message[byteAt + 1][Bits - bitAt] = 0
      BY <2>1, <2>3, BitIndex
    <3>3. Position'
      BY <2>1, <3>1, <3>2, BitIsRead
    <3>4. Goes
      BY <1>1, <3>1, Zenon
    <3> QED BY <3>3, <3>4, Zenon DEF Goes
  <2> QED BY <2>2, <2>3
<1>8. CASE txState = "data_sample"
  <2>1. /\ AtBit /\ Sent(Bits * byteAt + (Bits - 1 - bitAt)) /\ DataSample(low)
        /\ message[byteAt + 1][Bits - bitAt] = 1
    BY <1>8, Zenon DEF Position, Pulse
  <2>2. ~low
    BY <2>1 DEF DataSample, TxFinish, Collision
  <2>3. /\ Continue("data_end", FALSE) /\ seen' = Append(seen, 1)
        /\ UNCHANGED <<byteAt, bitAt>>
    BY <2>1, <2>2, Zenon DEF DataSample
  <2>4. Position'
    BY <2>1, <2>3, BitIsRead
  <2>5. Goes
    BY <1>1, <2>3, Zenon
  <2> QED BY <2>4, <2>5, Zenon DEF Goes
<1>9. CASE txState = "data_end"
  <2>1. AtBit /\ Sent(Bits * byteAt + (Bits - 1 - bitAt) + 1) /\ DataEnd
    BY <1>9 DEF Position, Pulse
  <2>2. CASE bitAt > 0
    <3>1. DataLow(bitAt - 1)
      BY <2>1, <2>2 DEF DataEnd
    <3>2. bitAt - 1 \in 0 .. Bits - 1 /\ byteAt \in 0 .. Len(message) - 1
      BY <2>1, <2>2, BitsIsNat DEF AtBit
    <3>3. ASSUME NEW b \in 0 .. Bits - 1, b = bitAt - 1 PROVE Position'
      <4>1. Bits * byteAt + (Bits - 1 - b) = Bits * byteAt + (Bits - 1 - bitAt) + 1
        BY <2>1, <3>3, BitIndex, BitsIsNat DEF AtBit
      <4>2. DataLow(b) /\ Sent(Bits * byteAt + (Bits - 1 - b))
        BY <2>1, <3>1, <3>3, <4>1
      <4> QED BY <3>2, <4>2, BitBegins
    <3>4. Goes
      BY <1>3, <3>1, Zenon
    <3> QED BY <3>2, <3>3, <3>4, Zenon DEF Goes
  <2>3. CASE ~(bitAt > 0)
    <3>1. /\ Continue("eom_release", TRUE) /\ byteAt' = byteAt + 1
          /\ UNCHANGED seen
      BY <2>1, <2>3, Zenon DEF DataEnd
    <3>2. bitAt = 0 /\ byteAt \in Nat /\ byteAt < Len(message)
      BY <2>1, <2>3, <1>4, BitsIsNat DEF AtBit
    <3>3. Bits * byteAt + (Bits - 1 - bitAt) + 1 = Bits * (byteAt + 1)
      BY <3>2, BitsIsNat, Product
    <3>4. txState' = "eom_release" /\ message' = message
      BY <3>1 DEF Continue
    <3>5. ASSUME NEW n, Sent(n) PROVE Sent(n)'
      BY <3>1, <3>4, <3>5, SameSent
    <3>6. Sent(Bits * byteAt)'
      BY <2>1, <3>1, <3>3, <3>5 DEF Sent
    <3>7. (byteAt \in 1 .. Len(message))'
      BY <1>4, <3>1, <3>2, <3>4
    <3>8. Position'
      BY <3>4, <3>6, <3>7 DEF Position
    <3>9. Goes
      BY <1>1, <3>1, Zenon
    <3> QED BY <3>8, <3>9, Zenon DEF Goes
  <2> QED BY <2>2, <2>3
<1>10. CASE txState \in {"eom_release", "ack_low", "ack_release"}
  <2>1. PICK state \in {"ack_low", "ack_release", "ack_sample"}, drives \in BOOLEAN :
          Go(state, drives)
    BY <1>10 DEF Pulse
  <2>2. Position'
    BY <1>10, <2>1, BetweenBits DEF Going
  <2>3. Goes
    BY <1>2, <2>1, Zenon
  <2> QED BY <2>2, <2>3, Zenon DEF Goes
<1>11. CASE txState = "ack_sample"
  <2>1. AckSample(low) /\ byteAt \in 1 .. Len(message)
    BY <1>11 DEF Pulse, Position
  <2>2. Go(IF byteAt < Len(message) THEN "next" ELSE "end", FALSE)
    BY <2>1 DEF AckSample
  <2>3. CASE byteAt < Len(message)
    <3>1. Go("next", FALSE)
      BY <2>2, <2>3
    <3>2. Position'
      BY <1>11, <2>3, <3>1, BetweenBits DEF Going
    <3> QED BY <1>2, <3>1, <3>2, Zenon DEF Goes
  <2>4. CASE ~(byteAt < Len(message))
    <3>1. Go("end", FALSE)
      BY <2>2, <2>4
    <3>2. byteAt = Len(message)
      BY <1>4, <2>1, <2>4
    <3>3. Position'
      BY <1>11, <3>1, <3>2, BetweenBits DEF Going
    <3> QED BY <1>2, <3>1, <3>3, Zenon DEF Goes
  <2> QED BY <2>3, <2>4
<1>12. CASE txState = "next"
  <2>1. DataLow(Bits - 1) /\ byteAt \in 0 .. Len(message) - 1 /\ Sent(Bits * byteAt)
    BY <1>4, <1>12 DEF Pulse, Position
  <2>2. Bits - 1 \in 0 .. Bits - 1
    BY BitsIsNat
  <2>3. Bits * byteAt + (Bits - 1 - (Bits - 1)) = Bits * byteAt
    BY <1>4, <2>1, BitsIsNat, Product
  <2>4. ASSUME NEW b \in 0 .. Bits - 1, b = Bits - 1 PROVE Position'
    <3>1. DataLow(b) /\ Sent(Bits * byteAt + (Bits - 1 - b))
      BY <2>1, <2>3, <2>4
    <3> QED BY <2>1, <3>1, BitBegins
  <2>5. Goes
    BY <1>3, <2>1, Zenon
  <2> QED BY <2>2, <2>4, <2>5, Zenon DEF Goes
<1>13. CASE txState = "end"
  <2>1. TxFinish("ack") /\ Sent(Bits * Len(message))
    BY <1>13 DEF Pulse, Position
  <2>2. UNCHANGED <<message, seen>>
    BY <2>1 DEF TxFinish
  <2>3. ~active'
    BY <2>1, Zenon DEF TxFinish
  <2>4. Sent(Bits * Len(message))'
    BY <2>1, <2>2, SameSent DEF Sent
  <2> QED BY <2>2, <2>3, <2>4
<1> QED BY <1>5, <1>6, <1>7, <1>8, <1>9, <1>10, <1>11, <1>12, <1>13 DEF Position

(* A result that the alarm or the deadline has made of "ack" stays one. *)
LEMMA FailureStays ==
  ASSUME NEW low \in BOOLEAN, Pulse(low), result # "ack" PROVE result' # "ack"
<1>1. ASSUME NEW state, NEW drives, Go(state, drives) PROVE result' = result
  BY <1>1 DEF Go
<1>2. ASSUME NEW b, DataLow(b) PROVE result' = result
  BY <1>2 DEF DataLow
<1>3. DataRelease => result' = result
  BY <1>1 DEF DataRelease
<1>4. DataSample(low) => result' # "ack"
  BY DEF DataSample, TxFinish, Collision
<1>5. DataEnd => result' = result
  BY <1>2 DEF DataEnd
<1>6. AckSample(low) => result' # "ack"
  BY <1>1 DEF AckSample
<1>7. TxFinish(result) => result' = result
  BY DEF TxFinish
<1> QED BY <1>1, <1>2, <1>3, <1>4, <1>5, <1>6, <1>7 DEF Pulse

LEMMA PulseKeeps ==
  ASSUME NEW low \in BOOLEAN, Pulse(low), active, ~notified
  PROVE  message' = message /\ (notified' => ~active')
<1>1. ASSUME NEW r, TxFinish(r) PROVE message' = message /\ (notified' => ~active')
  BY <1>1, Zenon DEF TxFinish
<1>2. ASSUME NEW state, NEW drives, Continue(state, drives)
      PROVE  message' = message /\ (notified' => ~active')
  BY <1>2, Zenon DEF Continue
<1>3. ASSUME NEW b, DataLow(b) PROVE message' = message /\ (notified' => ~active')
  BY <1>2, <1>3, Zenon DEF DataLow
<1>4. ASSUME NEW state, NEW drives, Go(state, drives)
      PROVE  message' = message /\ (notified' => ~active')
  BY <1>2, <1>4, Zenon DEF Go
<1>5. DataRelease => message' = message /\ (notified' => ~active')
  BY <1>2, <1>4, Zenon DEF DataRelease
<1>6. DataSample(low) => message' = message /\ (notified' => ~active')
  BY <1>1, <1>2, Zenon DEF DataSample
<1>7. DataEnd => message' = message /\ (notified' => ~active')
  BY <1>2, <1>3, Zenon DEF DataEnd
<1>8. AckSample(low) => message' = message /\ (notified' => ~active')
  BY <1>2, <1>4, Zenon DEF AckSample
<1> QED BY <1>1, <1>3, <1>4, <1>5, <1>6, <1>7, <1>8, Zenon DEF Pulse

LEMMA SendingAlarm == QuietInv /\ SendingInv /\ Alarm => SendingInv'
<1> SUFFICES ASSUME QuietInv, SendingInv, Alarm PROVE SendingInv'
  OBVIOUS
<1>1. task \in {"asleep", "late", "woken"} /\ task' = task /\ returned' = returned
  BY DEF QuietInv, Alarm
<1>2. message \in Messages /\ returned # "ack"
  BY <1>1 DEF SendingInv
<1>3. /\ result = "ack" => IF active THEN Position ELSE Sent(Bits * Len(message))
      /\ task = "woken" /\ result = "ack" => ~active
  BY <1>1 DEF SendingInv
<1>4. notified => ~active
  BY <1>1, Zenon DEF SendingInv
<1>5. CASE ~active
  <2>1. UNCHANGED <<message, seen, result>>
    BY <1>5 DEF Alarm, tx
  <2>2. ~active'
    BY <1>5, Zenon DEF Alarm, tx
  <2>3. result = "ack" => Sent(Bits * Len(message))'
    BY <1>3, <1>5, <2>1, SameSent DEF Sent
  <2> QED BY <1>1, <1>2, <2>1, <2>2, <2>3 DEF SendingInv
<1>6. CASE active /\ TxFinish("timeout")
  <2>1. result' = "timeout" /\ message' = message
    BY <1>6 DEF TxFinish
  <2>2. ~active'
    BY <1>6, Zenon DEF TxFinish
  <2> QED BY <1>1, <1>2, <2>1, <2>2 DEF SendingInv
<1>7. ASSUME NEW low \in BOOLEAN, Pulse(low), active PROVE SendingInv'
  <2>1. message' = message /\ (notified' => ~active')
    BY <1>4, <1>7, PulseKeeps
  <2>2. CASE result' # "ack"
    BY <1>1, <1>2, <2>1, <2>2 DEF SendingInv
  <2>3. CASE result' = "ack"
    <3>1. result = "ack"
      BY <1>7, <2>3, FailureStays
    <3>2. task # "woken" /\ Position
      BY <1>3, <1>7, <3>1
    <3>3. \/ active' /\ Position'
          \/ ~active' /\ Sent(Bits * Len(message))'
      BY <1>2, <1>7, <2>3, <3>1, <3>2, PulseSends
    <3> QED BY <1>1, <1>2, <2>1, <3>2, <3>3 DEF SendingInv
  <2> QED BY <2>2, <2>3
<1> QED BY <1>5, <1>6, <1>7, Zenon DEF Alarm

LEMMA SamePosition ==
  ASSUME UNCHANGED <<message, txState, byteAt, bitAt, seen>>, one' = one, Position
  PROVE  Position'
<1>1. ASSUME NEW n, Sent(n) PROVE Sent(n)'
  BY <1>1, SameSent
<1>2. Sent(0) => Sent(0)'
  BY <1>1
<1>3. Sent(Bits * byteAt + (Bits - 1 - bitAt)) => Sent(Bits * byteAt + (Bits - 1 - bitAt))'
  BY <1>1 DEF Sent
<1>4. Sent(Bits * byteAt + (Bits - 1 - bitAt) + 1) =>
        Sent(Bits * byteAt + (Bits - 1 - bitAt) + 1)'
  BY <1>1 DEF Sent
<1>5. Sent(Bits * byteAt) => Sent(Bits * byteAt)'
  BY <1>1 DEF Sent
<1>6. Sent(Bits * Len(message)) => Sent(Bits * Len(message))'
  BY <1>1 DEF Sent
<1>7. AtBit <=> AtBit'
  BY DEF AtBit
<1>8. (one <=> message[byteAt + 1][Bits - bitAt] = 1) <=>
        (one' <=> message'[byteAt' + 1][Bits - bitAt'] = 1)
  BY Zenon
<1> QED BY <1>2, <1>3, <1>4, <1>5, <1>6, <1>7, <1>8 DEF Position

LEMMA SendingInitially == Init => SendingInv
BY DEF Init, SendingInv

(* What the task holds on to while it sends. *)
Frame ==
  /\ message \in Messages /\ returned # "ack"
  /\ result = "ack" => IF active THEN Position ELSE Sent(Bits * Len(message))
  /\ notified => ~active

LEMMA SameFrame ==
  ASSUME UNCHANGED <<message, txState, byteAt, bitAt, seen, returned>>, one' = one,
         active' = active, notified' => notified, result' = result \/ result' = "timeout", Frame
  PROVE  Frame'
<1>1. Position => Position'
  BY SamePosition
<1>2. Sent(Bits * Len(message)) => Sent(Bits * Len(message))'
  BY SameSent DEF Sent
<1>3. (notified => ~active)'
  BY Zenon DEF Frame
<1>4. (result = "ack" => IF active THEN Position ELSE Sent(Bits * Len(message)))'
  <2> SUFFICES ASSUME result' = "ack"
               PROVE  IF active' THEN Position' ELSE Sent(Bits * Len(message))'
    OBVIOUS
  <2>1. IF active THEN Position ELSE Sent(Bits * Len(message))
    BY DEF Frame
  <2> QED BY <1>1, <1>2, <2>1, Zenon
<1> QED BY <1>3, <1>4 DEF Frame

LEMMA SendingStep == QuietInv /\ SendingInv /\ [Next]_vars => SendingInv'
<1> SUFFICES ASSUME QuietInv, SendingInv, [Next]_vars PROVE SendingInv'
  OBVIOUS
<1> DEFINE Busy == {"sending", "asleep", "late", "woken"}
<1>1. task \in Busy => Frame
  BY DEF SendingInv, Frame
<1>2. ASSUME Frame', task' \in Busy, task' = "woken" => result' # "ack" \/ ~active'
      PROVE  SendingInv'
  BY <1>2 DEF SendingInv, Frame
<1>3. CASE Alarm
  BY <1>3, SendingAlarm
<1>4. ASSUME NEW m \in Messages, Call(m) PROVE SendingInv'
  <2>1. returned' # "ack" /\ (task' = "free" \/ (task' = "idle" /\ message' = m))
    <3>1. CASE m \in Rejected
      BY <1>4, <3>1 DEF Call, Return
    <3>2. CASE m \notin Rejected
      BY <1>4, <3>2 DEF Call, Return
    <3> QED BY <3>1, <3>2
  <2> QED BY <2>1 DEF SendingInv
<1>5. CASE IdleRound
  <2>1. message \in Messages /\ returned # "ack" /\ message' = message
    BY <1>5 DEF IdleRound, SendingInv
  <2>2. CASE ~receiving /\ silent
    <3>1. /\ task' = "sending" /\ seen' = <<>> /\ txState' = "start_low" /\ byteAt' = 0
          /\ bitAt' = Bits - 1 /\ result' = "ack" /\ returned' = returned
      BY <1>5, <2>2, Zenon DEF IdleRound
    <3>2. active' /\ ~notified'
      BY <1>5, <2>2, Zenon DEF IdleRound
    <3>3. Position'
      BY <3>1, SentNothing DEF Position, Sent
    <3> QED BY <1>2, <2>1, <3>1, <3>2, <3>3 DEF Frame
  <2>3. CASE ~(~receiving /\ silent)
    <3>1. \/ task' = "free" /\ returned' = "timeout"
          \/ task' = "idle" /\ returned' = returned
      BY <1>5, <2>3 DEF IdleRound, Return
    <3> QED BY <2>1, <3>1 DEF SendingInv
  <2> QED BY <2>2, <2>3
<1>6. CASE SetAlarm
  <2>1. /\ UNCHANGED <<message, txState, byteAt, bitAt, seen, returned>> /\ task = "sending"
        /\ \/ result' = result /\ task' = "asleep"
           \/ result' = "timeout" /\ task' = "woken"
    BY <1>6, Zenon DEF SetAlarm
  <2>2. one' = one /\ active' = active /\ notified' = notified
    BY <1>6, Zenon DEF SetAlarm
  <2>3. Frame'
    BY <1>1, <2>1, <2>2, SameFrame
  <2> QED BY <1>2, <2>1, <2>3
<1>7. CASE Wake
  <2>1. /\ UNCHANGED <<message, txState, byteAt, bitAt, seen, returned, result>>
        /\ task = "asleep"
    BY <1>7, Zenon DEF Wake, tx
  <2>2. one' = one /\ active' = active
    BY <1>7, Zenon DEF Wake, tx
  <2>3. \/ task' = "woken" /\ notified /\ notified' = FALSE
        \/ task' = "late" /\ notified' = notified
    BY <1>7, Zenon DEF Wake
  <2>4. notified' => notified
    BY <2>3
  <2>5. Frame'
    BY <1>1, <2>1, <2>2, <2>4, SameFrame
  <2>6. notified => ~active'
    BY <1>1, <2>1, <2>2, Zenon DEF Frame
  <2> QED BY <1>2, <2>3, <2>5, <2>6
<1>8. CASE Overwrite
  <2>1. /\ UNCHANGED <<message, txState, byteAt, bitAt, seen, returned>>
        /\ task = "late" /\ task' = "woken" /\ result' = "timeout"
    BY <1>8, Zenon DEF Overwrite
  <2>2. one' = one /\ active' = active /\ notified' = notified
    BY <1>8, Zenon DEF Overwrite
  <2>3. Frame'
    BY <1>1, <2>1, <2>2, SameFrame
  <2> QED BY <1>2, <2>1, <2>3
<1>9. CASE End
  <2>1. /\ UNCHANGED <<message, seen>> /\ task = "woken" /\ task' = "free"
        /\ returned' = result
    BY <1>9 DEF End, Return
  <2>2. result = "ack" => ~active
    BY <2>1 DEF SendingInv
  <2>3. result = "ack" => Sent(Bits * Len(message))
    BY <1>1, <2>1, <2>2 DEF Frame
  <2>4. result = "ack" => Sent(Bits * Len(message))'
    BY <2>1, <2>3, SameSent DEF Sent
  <2> QED BY <1>1, <2>1, <2>4 DEF SendingInv, Frame
<1>10. CASE Line \/ Time \/ UNCHANGED vars
  <2>1. UNCHANGED <<message, txState, byteAt, bitAt, seen, returned, result, task>>
    BY <1>10, Zenon DEF Line, Time, vars, tx
  <2>2. one' = one /\ active' = active /\ notified' = notified
    BY <1>10, Zenon DEF Line, Time, vars, tx
  <2>3. CASE task \in Busy
    <3>1. Frame'
      BY <1>1, <2>1, <2>2, <2>3, SameFrame
    <3>2. task = "woken" => result # "ack" \/ ~active
      BY DEF SendingInv
    <3> QED BY <1>2, <2>1, <2>2, <2>3, <3>1, <3>2
  <2>4. CASE task \notin Busy
    <3>1. Sent(Bits * Len(message)) => Sent(Bits * Len(message))'
      BY <2>1, SameSent DEF Sent
    <3> QED BY <2>1, <2>4, <3>1 DEF SendingInv
  <2> QED BY <2>3, <2>4
<1> QED BY <1>3, <1>4, <1>5, <1>6, <1>7, <1>8, <1>9, <1>10, Zenon DEF Next

(* A frame reported as delivered was on the line bit by bit, in order and to *)
(* its end, whatever the deadline, the other initiators and a late alarm did *)
(* meanwhile: every one of its ones was read back.                           *)
THEOREM DeliveryIsHonest == Spec => []DeliveredWasSent
<1>1. SendingInv => DeliveredWasSent
  BY SentAll DEF SendingInv, DeliveredWasSent
<1>2. Init => QuietInv /\ SendingInv
  BY QuietInitially, SendingInitially
<1>3. QuietInv /\ SendingInv /\ [Next]_vars => (QuietInv /\ SendingInv)'
  BY QuietStep, SendingStep
<1> QED BY <1>1, <1>2, <1>3, PTL DEF Spec

--------------------------------------------------------------------------------
(* Receiving: the receiver is in its start state or follows the sender.      *)

Inside == {"bit_fall", "bit_rise", "eom_fall", "eom_rise", "ack_fall", "ack_rise"}

(* While the line is high the receiver expects a fall; it pulls the line only*)
(* in an acknowledge; at a start bit it has nothing yet.                     *)
Levels ==
  /\ driving => rxState = "ack_rise"
  /\ frame = <<>> \/ lowTime > 0 => ExpectsFall
  /\ rxState = "start_rise" => elapsed = 0 /\ rxMessage = <<>> /\ byte = <<>>
  /\ rxState \in Inside \cup {"start", "start_rise"} /\ elapsed \in Int
  /\ quiet => frame = <<>> /\ elapsed = Cap

(* The sender goes on after an acknowledge only when bytes are left. *)
InFrame ==
  frame # <<>> =>
    /\ frame \in Frames /\ symbol \in Nat /\ lowTime \in Nat
    /\ symbol > 0 => ByteOf(symbol) <= Len(frame)
    /\ lowTime > 0 /\ IsAck(symbol) => ByteOf(symbol) < Len(frame)

(* The receiver has the first n bytes of the frame, and s bits of the next.  *)
Heard(n, s) ==
  /\ rxMessage \in Seq(Bytes) /\ Len(rxMessage) = n /\ \A i \in 1 .. n : rxMessage[i] = frame[i]
  /\ byte \in Seq({0, 1}) /\ Len(byte) = s /\ \A i \in 1 .. s : byte[i] = frame[n + 1][i]

(* It has everything before symbol k, a data bit, an end of message or an    *)
(* acknowledge.                                                              *)
TakesBit(k) == Slot(k) <= Bits /\ Heard(ByteOf(k) - 1, Slot(k) - 1)
TakesEom(k) == Slot(k) = Bits + 1 /\ Heard(ByteOf(k), 0)
TakesAck(k) == Slot(k) = Bits + 2 /\ Heard(ByteOf(k), 0) /\ (eom <=> ByteOf(k) = Len(frame))

(* It expects the fall of the symbol, or measures how long that is low.      *)
Expects(k) ==
  \/ rxState = "bit_fall" /\ TakesBit(k)
  \/ rxState = "eom_fall" /\ TakesEom(k)
  \/ rxState = "ack_fall" /\ TakesAck(k)
Measures(k) ==
  \/ rxState = "bit_rise" /\ TakesBit(k)
  \/ rxState = "eom_rise" /\ TakesEom(k)
  \/ rxState = "ack_rise" /\ TakesAck(k)

Follows ==
  frame # <<>> /\ rxState \in Inside =>
    \E k \in Nat \ {0} :
      \/ lowTime > 0 /\ k = symbol + 1 /\ Expects(k)
      \/ lowTime = 0 /\ k = symbol /\ elapsed = 0 /\ Measures(k)

Taken == HandedIsSent /\ AcknowledgedIsHeard

ReceiveInv == Levels /\ InFrame /\ Follows /\ Taken

LEMMA Divided ==
  ASSUME NEW b \in Nat \ {0}, NEW m \in Nat
  PROVE  \E q \in Nat, r \in 0 .. b - 1 : m = b * q + r
<1>1. m \div b \in Nat /\ m % b \in 0 .. b - 1 /\ m = b * (m \div b) + (m % b)
  OBVIOUS
<1> QED BY <1>1

LEMMA NextSlot ==
  ASSUME NEW k \in Nat \ {0}
  PROVE  /\ Slot(k) \in 1 .. Bits + 2 /\ ByteOf(k) \in Nat \ {0}
         /\ Slot(k) = Bits + 2 => Slot(k + 1) = 1 /\ ByteOf(k + 1) = ByteOf(k) + 1
         /\ Slot(k) # Bits + 2 => Slot(k + 1) = Slot(k) + 1 /\ ByteOf(k + 1) = ByteOf(k)
<1>1. PICK b \in Nat \ {0} : b = Bits + 2
  BY BitsIsNat
<1>2. PICK q \in Nat, r \in 0 .. b - 1 : k - 1 = b * q + r
  <2>1. k - 1 \in Nat
    OBVIOUS
  <2> QED BY <2>1, Divided
<1>3. Slot(k) = r + 1 /\ ByteOf(k) = q + 1
  <2>1. (k - 1) \div b = q /\ (k - 1) % b = r
    BY <1>2, DivMod, Zenon
  <2>2. Slot(k) = ((k - 1) % b) + 1 /\ ByteOf(k) = ((k - 1) \div b) + 1
    BY <1>1, Zenon DEF Slot, ByteOf
  <2> QED BY <2>1, <2>2
<1>4. CASE r = b - 1
  <2>1. k = b * (q + 1) + 0
    BY <1>2, <1>4, Product
  <2>2. k \div b = q + 1 /\ k % b = 0
    <3>1. 0 \in 0 .. b - 1 /\ q + 1 \in Nat
      OBVIOUS
    <3> QED BY <2>1, <3>1, DivMod
  <2>3. Slot(k + 1) = (k % b) + 1 /\ ByteOf(k + 1) = (k \div b) + 1
    BY <1>1 DEF Slot, ByteOf
  <2> QED BY <1>1, <1>3, <1>4, <2>2, <2>3, BitsIsNat
<1>5. CASE r # b - 1
  <2>1. k = b * q + (r + 1) /\ r + 1 \in 0 .. b - 1
    BY <1>2, <1>5, Product
  <2>2. k \div b = q /\ k % b = r + 1
    BY <2>1, DivMod
  <2>3. Slot(k + 1) = (k % b) + 1 /\ ByteOf(k + 1) = (k \div b) + 1
    BY <1>1 DEF Slot, ByteOf
  <2> QED BY <1>1, <1>3, <1>5, <2>1, <2>2, <2>3, BitsIsNat
<1> QED BY <1>4, <1>5

LEMMA FirstSlot == Slot(1) = 1 /\ ByteOf(1) = 1
<1>1. Bits + 2 \in Nat \ {0}
  BY BitsIsNat
<1>2. 0 \div (Bits + 2) = 0 /\ 0 % (Bits + 2) = 0
  BY <1>1
<1> QED BY <1>2 DEF Slot, ByteOf

LEMMA FrameIs ==
  ASSUME InFrame, frame # <<>>
  PROVE  /\ frame \in Seq(Bytes) /\ Len(frame) \in Nat \ {0}
         /\ \A i \in 1 .. Len(frame) : frame[i] \in [1 .. Bits -> {0, 1}]
<1>1. frame \in Seq(Bytes)
  BY ReceiveAssumption DEF InFrame
<1>2. Len(frame) \in Nat \ {0}
  BY <1>1, EmptySeq
<1> QED BY <1>1, <1>2, ElementOfSeq DEF Bytes

(* In its start state the receiver follows nothing. *)
LEMMA InStart ==
  ASSUME rxState' = "start", ~driving', elapsed' \in Int, quiet' = FALSE
  PROVE  Levels' /\ Follows'
<1>1. rxState' \notin Inside /\ ExpectsFall'
  BY DEF Inside, ExpectsFall
<1> QED BY <1>1 DEF Levels, Follows

LEMMA HeardKept ==
  ASSUME UNCHANGED <<rxMessage, byte, frame>>, NEW n, NEW s, Heard(n, s) PROVE Heard(n, s)'
BY DEF Heard

(* One bit more, which may end the byte. *)
LEMMA HeardBit ==
  ASSUME InFrame, frame # <<>>, NEW n \in Nat, n < Len(frame), NEW s \in 0 .. Bits - 1,
         Heard(n, s), NEW b, b = frame[n + 1][s + 1]
  PROVE  /\ Append(byte, b) \in Seq({0, 1}) /\ Len(Append(byte, b)) = s + 1
         /\ \A i \in 1 .. s + 1 : Append(byte, b)[i] = frame[n + 1][i]
         /\ s + 1 = Bits =>
              /\ Append(byte, b) = frame[n + 1]
              /\ Append(rxMessage, frame[n + 1]) \in Seq(Bytes)
              /\ Len(Append(rxMessage, frame[n + 1])) = n + 1
              /\ \A i \in 1 .. n + 1 : Append(rxMessage, frame[n + 1])[i] = frame[i]
<1>1. Bits \in Nat \ {0}
  BY BitsIsNat
<1>2. frame[n + 1] \in [1 .. Bits -> {0, 1}]
  BY FrameIs
<1>3. b \in {0, 1}
  BY <1>1, <1>2
<1>4. byte \in Seq({0, 1}) /\ Len(byte) = s /\ \A i \in 1 .. s : byte[i] = frame[n + 1][i]
  BY Zenon DEF Heard
<1> DEFINE bits == Append(byte, b)
<1>5. /\ bits \in Seq({0, 1}) /\ Len(bits) = s + 1 /\ bits[s + 1] = b
      /\ \A i \in 1 .. s : bits[i] = byte[i]
  BY <1>3, <1>4, AppendProperties
<1>6. \A i \in 1 .. s + 1 : bits[i] = frame[n + 1][i]
  BY <1>4, <1>5
<1>7. ASSUME s + 1 = Bits PROVE bits = frame[n + 1]
  <2>1. bits \in [1 .. Bits -> {0, 1}]
    BY <1>5, <1>7, LenProperties
  <2> HIDE DEF bits
  <2> QED BY <1>2, <1>6, <1>7, <2>1
<1>8. rxMessage \in Seq(Bytes) /\ Len(rxMessage) = n /\ \A i \in 1 .. n : rxMessage[i] = frame[i]
  BY Zenon DEF Heard
<1>9. frame[n + 1] \in Bytes
  BY <1>2 DEF Bytes
<1> DEFINE more == Append(rxMessage, frame[n + 1])
<1>10. /\ more \in Seq(Bytes) /\ Len(more) = n + 1 /\ more[n + 1] = frame[n + 1]
       /\ \A i \in 1 .. n : more[i] = rxMessage[i]
  BY <1>8, <1>9, AppendProperties
<1>11. \A i \in 1 .. n + 1 : more[i] = frame[i]
  BY <1>8, <1>10
<1> QED BY <1>5, <1>6, <1>7, <1>10, <1>11

(* All bytes: the frame. *)
LEMMA HeardAll ==
  ASSUME InFrame, frame # <<>>, Heard(Len(frame), 0) PROVE rxMessage = frame
<1>1. frame \in Seq(Bytes) /\ Len(frame) \in Nat
  BY FrameIs
<1>2. /\ rxMessage \in Seq(Bytes) /\ Len(rxMessage) = Len(frame)
      /\ \A i \in 1 .. Len(frame) : rxMessage[i] = frame[i]
  BY Zenon DEF Heard
<1> QED BY <1>1, <1>2, SeqEqual

--------------------------------------------------------------------------------
(* The steps.                                                                *)

LEMMA AtFall ==
  ASSUME NEW delta, Edge("fall", delta), ExpectsFall
  PROVE  /\ elapsed' = 0
         /\ Falling(IF elapsed + delta > Cap THEN Cap ELSE elapsed + delta)
BY Zenon DEF Edge

LEMMA AtRise ==
  ASSUME NEW delta \in Nat, Edge("rise", delta), elapsed \in Int
  PROVE  /\ elapsed' \in Int
         /\ ExpectsFall => Unexpected
         /\ ~ExpectsFall /\ elapsed = 0 /\ delta < Cap => Rising(delta)
<1> DEFINE d == IF elapsed + delta > Cap THEN Cap ELSE elapsed + delta
<1>1. /\ elapsed' = IF FALSE THEN 0 ELSE d
      /\ IF ExpectsFall THEN Unexpected ELSE Rising(d)
  BY DEF Edge
<1>2. d \in Int
  BY DEF Cap
<1>3. elapsed = 0 /\ delta < Cap => d = delta
  BY DEF Cap
<1> HIDE DEF d
<1> QED BY <1>1, <1>2, <1>3

(* The receiver is ready for the fall of the next symbol or in its start     *)
(* state; the sender's side of the step is common to all falls.              *)
LEMMA FallFollows ==
  ASSUME ReceiveInv, Fall PROVE Levels' /\ Follows' /\ UNCHANGED taken
<1>1. /\ frame # <<>> /\ lowTime > 0 /\ symbol' = symbol + 1 /\ lowTime' = 0 /\ quiet' = FALSE
      /\ frame' = frame /\ Edge("fall", Period(symbol) - lowTime)
  BY Zenon DEF Fall
<1>2. Levels /\ InFrame /\ Follows
  BY DEF ReceiveInv
<1>3. ExpectsFall
  BY <1>1, <1>2, Zenon DEF Levels
<1>4. elapsed' = 0 /\ \E d : Falling(d)
  BY <1>1, <1>3, AtFall
<1>5. PICK d : Falling(d)
  BY <1>4
<1>6. UNCHANGED taken
  BY <1>5, Zenon DEF Falling, NoItem
<1>7. ASSUME RxReset PROVE Levels' /\ Follows'
  <2>1. elapsed' \in Int
    BY <1>4
  <2>2. rxState' = "start" /\ ~driving'
    BY <1>7, Zenon DEF RxReset
  <2> QED BY <1>1, <2>1, <2>2, InStart, Zenon
<1>8. ASSUME rxState = "start" PROVE Levels' /\ Follows'
  <2>1. rxState' = "start_rise" /\ rxMessage' = <<>> /\ byte' = <<>> /\ driving' = driving
    BY <1>5, <1>8 DEF Falling
  <2>2. ~driving
    BY <1>2, <1>8 DEF Levels
  <2>3. rxState' \notin Inside
    BY <2>1 DEF Inside
  <2> QED BY <1>1, <1>4, <2>1, <2>2, <2>3 DEF Levels, Follows
<1>9. ASSUME rxState # "start" PROVE Levels' /\ Follows'
  <2>1. rxState \in {"bit_fall", "eom_fall", "ack_fall"} /\ rxState \in Inside
    BY <1>3, <1>9 DEF ExpectsFall, Inside
  <2>2. PICK k \in Nat \ {0} : k = symbol + 1 /\ Expects(k)
    BY <1>1, <1>2, <2>1 DEF Follows, InFrame
  <2>3. ~driving
    BY <1>2, <2>1 DEF Levels
  <2>4. ASSUME UNCHANGED <<rxMessage, byte, eom>>, rxState' \in Inside, Measures(k)',
               driving' => rxState' = "ack_rise"
        PROVE  Levels' /\ Follows'
    <3>1. symbol' = k
      BY <1>1, <2>2
    <3>2. Levels'
      BY <1>1, <1>4, <2>4 DEF Levels, Inside
    <3>3. Follows'
      BY <1>1, <1>4, <2>4, <3>1 DEF Follows
    <3> QED BY <3>2, <3>3
  <2>5. ASSUME ~RxReset, rxState = "bit_fall" PROVE Levels' /\ Follows'
    <3>1. rxState' = "bit_rise" /\ UNCHANGED <<rxMessage, byte, eom, driving>>
      BY <1>5, <2>5 DEF Falling
    <3>2. TakesBit(k)
      BY <2>2, <2>5 DEF Expects
    <3>3. TakesBit(k)'
      BY <1>1, <3>1, <3>2 DEF TakesBit, Heard
    <3> QED BY <2>3, <2>4, <3>1, <3>3, Zenon DEF Measures, Inside
  <2>6. ASSUME ~RxReset, rxState = "eom_fall" PROVE Levels' /\ Follows'
    <3>1. rxState' = "eom_rise" /\ UNCHANGED <<rxMessage, byte, eom, driving>>
      BY <1>5, <2>6 DEF Falling, Advance
    <3>2. TakesEom(k)
      BY <2>2, <2>6 DEF Expects
    <3>3. TakesEom(k)'
      BY <1>1, <3>1, <3>2 DEF TakesEom, Heard
    <3> QED BY <2>3, <2>4, <3>1, <3>3, Zenon DEF Measures, Inside
  <2>7. ASSUME ~RxReset, rxState = "ack_fall" PROVE Levels' /\ Follows'
    <3>1. rxState' = "ack_rise" /\ UNCHANGED <<rxMessage, byte, eom>>
      BY <1>5, <2>7 DEF Falling
    <3>2. TakesAck(k)
      BY <2>2, <2>7 DEF Expects
    <3>3. TakesAck(k)'
      <4>1. Heard(ByteOf(k), 0)'
        BY <1>1, <3>1, <3>2, HeardKept, Zenon DEF TakesAck
      <4>2. Slot(k) = Bits + 2 /\ (eom' <=> ByteOf(k) = Len(frame'))
        BY <1>1, <3>1, <3>2, Zenon DEF TakesAck
      <4> QED BY <4>1, <4>2, Zenon DEF TakesAck
    <3> QED BY <2>4, <3>1, <3>3, Zenon DEF Measures, Inside
  <2> QED BY <1>7, <2>1, <2>5, <2>6, <2>7, Zenon
<1> QED BY <1>6, <1>8, <1>9

LEMMA NextInFrame ==
  ASSUME InFrame, frame # <<>>, lowTime > 0
  PROVE  \E k \in Nat \ {0} : k = symbol + 1 /\ ByteOf(k) <= Len(frame)
<1>1. PICK j \in Nat : j = symbol
  BY DEF InFrame
<1>2. j > 0 => ByteOf(j) <= Len(frame) /\ (IsAck(j) => ByteOf(j) < Len(frame))
  BY <1>1 DEF InFrame
<1>3. Len(frame) \in Nat \ {0}
  BY FrameIs
<1>4. ByteOf(j + 1) <= Len(frame)
  <2>1. CASE j = 0
    BY <1>3, <2>1, FirstSlot
  <2>2. CASE j \in Nat \ {0} /\ Slot(j) = Bits + 2
    BY <1>2, <1>3, <2>2, NextSlot DEF IsAck
  <2>3. CASE j \in Nat \ {0} /\ Slot(j) # Bits + 2
    BY <1>2, <1>3, <2>3, NextSlot
  <2> QED BY <1>1, <2>1, <2>2, <2>3
<1> QED BY <1>1, <1>4

(* How long the symbols are low. *)
LEMMA LowIs ==
  ASSUME NEW k \in Nat, InFrame, frame # <<>>, k > 0 => ByteOf(k) <= Len(frame)
  PROVE  /\ k = 0 => Low(k) = 37
         /\ k > 0 => Low(k) \in {6, 15}
         /\ k > 0 /\ Slot(k) = Bits + 1 => (Low(k) = 6 <=> ByteOf(k) = Len(frame))
         /\ k > 0 /\ Slot(k) <= Bits => (Low(k) = 6 <=> frame[ByteOf(k)][Slot(k)] = 1)
<1>1. Bits \in Nat \ {0} /\ Len(frame) \in Nat
  BY BitsIsNat, FrameIs
<1> QED BY <1>1 DEF Low, IsAck

(* A bit ends: the receiver has it, and expects the symbol after it. *)
LEMMA BitFollows ==
  ASSUME InFrame, frame # <<>>, NEW k \in Nat \ {0}, ByteOf(k) <= Len(frame), TakesBit(k),
         NEW d, One(d) <=> frame[ByteOf(k)][Slot(k)] = 1, BitEnds(d), frame' = frame
  PROVE  rxState' \in {"bit_fall", "eom_fall"} /\ Expects(k + 1)'
<1>1. Bits \in Nat \ {0} /\ Slot(k) \in 1 .. Bits /\ ByteOf(k) \in Nat \ {0}
  BY BitsIsNat, NextSlot DEF TakesBit
<1>2. Slot(k + 1) = Slot(k) + 1 /\ ByteOf(k + 1) = ByteOf(k)
  <2>1. Slot(k) # Bits + 2
    BY <1>1
  <2> QED BY <2>1, NextSlot
<1>3. PICK n \in Nat, s \in 0 .. Bits - 1 : n = ByteOf(k) - 1 /\ s = Slot(k) - 1
  BY <1>1
<1>4. n < Len(frame) /\ Heard(n, s)
  <2>1. n < Len(frame)
    BY <1>1, <1>3, FrameIs
  <2>2. Heard(n, s)
    BY <1>3 DEF TakesBit
  <2> QED BY <2>1, <2>2
<1> DEFINE b == IF One(d) THEN 1 ELSE 0
<1>5. frame[n + 1] \in [1 .. Bits -> {0, 1}]
  BY <1>4, FrameIs
<1>6. frame[n + 1][s + 1] \in {0, 1} /\ n + 1 = ByteOf(k) /\ s + 1 = Slot(k)
  BY <1>1, <1>3, <1>5
<1>7. b = frame[n + 1][s + 1]
  BY <1>6
<1> HIDE DEF b
<1>8. /\ Append(byte, b) \in Seq({0, 1}) /\ Len(Append(byte, b)) = s + 1
      /\ \A i \in 1 .. s + 1 : Append(byte, b)[i] = frame[n + 1][i]
      /\ s + 1 = Bits =>
           /\ Append(byte, b) = frame[n + 1]
           /\ Append(rxMessage, frame[n + 1]) \in Seq(Bytes)
           /\ Len(Append(rxMessage, frame[n + 1])) = n + 1
           /\ \A i \in 1 .. n + 1 : Append(rxMessage, frame[n + 1])[i] = frame[i]
  BY <1>4, <1>7, HeardBit
<1>9. IF Len(Append(byte, b)) = Bits
      THEN /\ rxState' = "eom_fall" /\ byte' = <<>>
           /\ rxMessage' = Append(rxMessage, Append(byte, b))
      ELSE rxState' = "bit_fall" /\ byte' = Append(byte, b) /\ rxMessage' = rxMessage
  BY Zenon DEF BitEnds, b
<1>10. ASSUME s + 1 = Bits PROVE rxState' = "eom_fall" /\ TakesEom(k + 1)'
  <2>1. rxState' = "eom_fall" /\ byte' = <<>> /\ rxMessage' = Append(rxMessage, frame[n + 1])
    BY <1>8, <1>9, <1>10
  <2>2. Heard(n + 1, 0)'
    BY <1>8, <1>10, <2>1 DEF Heard
  <2>3. Slot(k + 1) = Bits + 1 /\ ByteOf(k + 1) = n + 1
    BY <1>2, <1>6, <1>10
  <2> QED BY <2>1, <2>2, <2>3 DEF TakesEom
<1>11. ASSUME s + 1 # Bits PROVE rxState' = "bit_fall" /\ TakesBit(k + 1)'
  <2>1. rxState' = "bit_fall" /\ byte' = Append(byte, b) /\ rxMessage' = rxMessage
    BY <1>8, <1>9, <1>11
  <2>2. Heard(n, s + 1)'
    BY <1>4, <1>8, <2>1 DEF Heard
  <2>3. Slot(k + 1) - 1 = s + 1 /\ Slot(k + 1) <= Bits /\ ByteOf(k + 1) - 1 = n
    BY <1>1, <1>2, <1>6, <1>11
  <2> QED BY <2>1, <2>2, <2>3 DEF TakesBit
<1> QED BY <1>10, <1>11 DEF Expects

(* While a symbol is low, the receiver is in its start state, times a start  *)
(* bit, or measures this symbol; it has just noted the fall.                 *)
LEMMA WhileLow ==
  ASSUME Levels, InFrame, Follows, frame # <<>>, lowTime = 0
  PROVE  \/ rxState = "start" /\ ExpectsFall /\ ~driving
         \/ rxState = "start_rise" /\ ~ExpectsFall /\ elapsed = 0 /\ ~driving
            /\ rxMessage = <<>> /\ byte = <<>>
         \/ /\ rxState \in Inside /\ ~ExpectsFall /\ elapsed = 0
            /\ \E k \in Nat \ {0} : k = symbol /\ Measures(k)
<1>1. CASE rxState \in Inside
  <2>1. PICK k \in Nat \ {0} : k = symbol /\ elapsed = 0 /\ Measures(k)
    BY <1>1 DEF Follows
  <2>2. ~ExpectsFall
    BY <2>1 DEF Measures, ExpectsFall
  <2> QED BY <1>1, <2>1, <2>2
<1>2. CASE rxState = "start"
  BY <1>2 DEF Levels, ExpectsFall
<1>3. CASE rxState = "start_rise"
  BY <1>3 DEF Levels, ExpectsFall
<1> QED BY <1>1, <1>2, <1>3 DEF Levels

LEMMA RiseFollows ==
  ASSUME Levels, InFrame, Follows, frame # <<>>, lowTime = 0, ~IsAck(symbol),
         NEW low \in {Low(symbol), 10}, Edge("rise", low), lowTime' = low, quiet' = FALSE,
         UNCHANGED <<frame, symbol>>
  PROVE  Levels' /\ InFrame' /\ Follows' /\ UNCHANGED taken
<1>1. PICK k \in Nat : k = symbol /\ (k > 0 => ByteOf(k) <= Len(frame))
  BY DEF InFrame
<1>2. /\ k = 0 => Low(k) = 37
      /\ k > 0 => Low(k) \in {6, 15}
      /\ k > 0 /\ Slot(k) = Bits + 1 => (Low(k) = 6 <=> ByteOf(k) = Len(frame))
      /\ k > 0 /\ Slot(k) <= Bits => (Low(k) = 6 <=> frame[ByteOf(k)][Slot(k)] = 1)
  BY <1>1, LowIs
<1>3. low \in {Low(k), 10} /\ low \in {6, 10, 15, 37} /\ ~IsAck(k)
  BY <1>1, <1>2
<1>4. low \in Nat \ {0} /\ low < Cap /\ elapsed \in Int
  BY <1>3 DEF Cap, Levels
<1>5. /\ elapsed' \in Int
      /\ ExpectsFall => Unexpected
      /\ ~ExpectsFall /\ elapsed = 0 => Rising(low)
  BY <1>4, AtRise
<1>6. InFrame'
  BY <1>1, <1>3, <1>4 DEF InFrame
<1>7. ASSUME RxReset PROVE Levels' /\ Follows'
  <2>1. rxState' = "start" /\ ~driving'
    BY <1>7, Zenon DEF RxReset
  <2> QED BY <2>1, <1>5, InStart, Zenon
<1>8. ASSUME NEW j \in Nat \ {0}, j = k + 1, Expects(j)',
             rxState' \in Inside, ExpectsFall', ~driving'
      PROVE  Levels' /\ Follows'
  <2>1. Levels'
    BY <1>5, <1>8 DEF Levels, Inside
  <2>2. Follows'
    BY <1>1, <1>4, <1>8 DEF Follows
  <2> QED BY <2>1, <2>2
<1>9. CASE rxState = "start" /\ ExpectsFall /\ ~driving
  <2>1. rxState' = "start" /\ ~driving' /\ UNCHANGED taken
    BY <1>5, <1>9 DEF Unexpected, rxVars, NoItem
  <2> QED BY <2>1, <1>5, <1>6, InStart, Zenon
<1>10. CASE /\ rxState = "start_rise" /\ ~ExpectsFall /\ elapsed = 0 /\ ~driving
            /\ rxMessage = <<>> /\ byte = <<>>
  <2>1. NoItem /\ IF low \in 35 .. 39 THEN Advance("bit_fall") ELSE RxReset
    BY <1>5, <1>10 DEF Rising
  <2>2. UNCHANGED taken
    BY <2>1 DEF NoItem
  <2>3. ASSUME low \in 35 .. 39, Advance("bit_fall") PROVE Levels' /\ Follows'
    <3>1. k = 0
      BY <1>2, <1>3, <2>3
    <3>2. rxState' = "bit_fall" /\ rxMessage' = <<>> /\ byte' = <<>> /\ ~driving'
      BY <1>10, <2>3 DEF Advance
    <3>3. Heard(0, 0)'
      BY <3>2, EmptySeq DEF Heard
    <3>4. Slot(1) <= Bits /\ ByteOf(1) - 1 = 0 /\ Slot(1) - 1 = 0
      BY FirstSlot, BitsIsNat
    <3>5. Expects(1)'
      BY <3>2, <3>3, <3>4 DEF Expects, TakesBit
    <3>6. rxState' \in Inside /\ ExpectsFall' /\ 1 \in Nat \ {0} /\ 1 = k + 1
      BY <3>1, <3>2 DEF Inside, ExpectsFall
    <3> QED BY <1>8, <3>2, <3>5, <3>6
  <2> QED BY <1>6, <1>7, <2>1, <2>2, <2>3
<1>11. CASE /\ rxState \in Inside /\ ~ExpectsFall /\ elapsed = 0
            /\ \E j \in Nat \ {0} : j = symbol /\ Measures(j)
  <2>1. k \in Nat \ {0} /\ Measures(k) /\ k + 1 \in Nat \ {0}
    BY <1>1, <1>11
  <2>2. rxState \in {"bit_rise", "eom_rise"} /\ rxState # "start_rise" /\ rxState # "ack_rise"
    BY <1>3, <2>1 DEF Measures, IsAck, TakesAck
  <2>3. ~driving
    BY <2>2 DEF Levels
  <2>4. Rising(low)
    BY <1>5, <1>11
  <2>5. \/ ~IsSymbol(low) /\ NoItem /\ RxReset
        \/ rxState = "bit_rise" /\ IsSymbol(low) /\ NoItem /\ BitEnds(low)
        \/ rxState = "eom_rise" /\ IsSymbol(low) /\ NoItem /\ EomEnds(low)
    BY <2>2, <2>4, Zenon DEF Rising
  <2>6. UNCHANGED taken
    BY <2>5 DEF NoItem
  <2>7. ASSUME IsSymbol(low)
        PROVE  low = Low(k) /\ (One(low) <=> Low(k) = 6) /\ (Zero(low) <=> Low(k) # 6)
    BY <1>2, <1>3, <2>1, <2>7 DEF IsSymbol, One, Zero
  <2>8. ASSUME rxState = "bit_rise", IsSymbol(low), BitEnds(low) PROVE Levels' /\ Follows'
    <3>1. TakesBit(k) /\ Slot(k) <= Bits
      BY <2>1, <2>8 DEF Measures, TakesBit
    <3>2. One(low) <=> frame[ByteOf(k)][Slot(k)] = 1
      BY <1>2, <2>1, <2>7, <2>8, <3>1
    <3>3. rxState' \in {"bit_fall", "eom_fall"} /\ Expects(k + 1)'
      BY <1>1, <2>1, <2>8, <3>1, <3>2, BitFollows
    <3>4. ~driving' /\ rxState' \in Inside /\ ExpectsFall'
      BY <2>3, <2>8, <3>3 DEF BitEnds, Inside, ExpectsFall
    <3> QED BY <1>8, <2>1, <3>3, <3>4
  <2>9. ASSUME rxState = "eom_rise", IsSymbol(low), EomEnds(low), ~RxReset PROVE Levels' /\ Follows'
    <3>1. TakesEom(k) /\ Slot(k) = Bits + 1
      BY <2>1, <2>9 DEF Measures, TakesEom
    <3>2. /\ rxState' = "ack_fall" /\ (eom' <=> One(low))
          /\ UNCHANGED <<rxMessage, byte>> /\ driving' = driving
      BY <2>9, Zenon DEF EomEnds
    <3>3. Heard(ByteOf(k), 0)'
      BY <3>1, <3>2, HeardKept, Zenon DEF TakesEom
    <3>4. Slot(k + 1) = Bits + 2 /\ ByteOf(k + 1) = ByteOf(k)
      <4>1. Slot(k) # Bits + 2 /\ Slot(k) + 1 = Bits + 2
        BY <3>1, BitsIsNat
      <4> QED BY <2>1, <4>1, NextSlot
    <3>5. eom' <=> ByteOf(k + 1) = Len(frame')
      BY <1>2, <2>1, <2>7, <2>9, <3>1, <3>2, <3>4
    <3>6. TakesAck(k + 1)'
      BY <3>3, <3>4, <3>5 DEF TakesAck
    <3>7. Expects(k + 1)'
      BY <3>2, <3>6 DEF Expects
    <3>8. ~driving' /\ rxState' \in Inside /\ ExpectsFall'
      BY <2>3, <3>2 DEF Inside, ExpectsFall
    <3> QED BY <1>8, <2>1, <3>7, <3>8
  <2> QED BY <1>6, <1>7, <2>5, <2>6, <2>8, <2>9
<1> QED BY <1>9, <1>10, <1>11, WhileLow

(* What is handed over, and what was sent to its end. *)
LEMMA TakenKept ==
  ASSUME Taken, UNCHANGED <<whole, taken>> PROVE Taken'
BY DEF Taken, HandedIsSent, AcknowledgedIsHeard

LEMMA UnheardIsKept ==
  ASSUME Taken, taken' = taken, NEW o, ~o, NEW f,
         whole' = whole \/ whole' = whole \cup {<<started, f, o>>}
  PROVE  Taken'
<1>1. <<started, f, o>>[3] = o
  OBVIOUS
<1> QED BY <1>1 DEF Taken, HandedIsSent, AcknowledgedIsHeard

LEMMA HeardIsTaken ==
  ASSUME Taken, NEW o, NEW f, taken' = taken \cup {<<started, f>>},
         whole' = whole \cup {<<started, f, o>>}
  PROVE  Taken'
<1> DEFINE new == <<started, f, o>>
<1>1. new \in whole' /\ new[1] = started /\ new[2] = f /\ <<started, f>> \in taken'
  OBVIOUS
<1>2. ASSUME NEW t \in taken' PROVE \E w \in whole' : w[1] = t[1] /\ w[2] = t[2]
  <2>1. CASE t \in taken
    BY <2>1 DEF Taken, HandedIsSent
  <2>2. CASE t = <<started, f>>
    <3>1. new[1] = t[1] /\ new[2] = t[2]
      BY <2>2
    <3> QED BY <1>1, <3>1
  <2> QED BY <2>1, <2>2
<1>3. AcknowledgedIsHeard'
  BY <1>1 DEF Taken, AcknowledgedIsHeard
<1> QED BY <1>2, <1>3 DEF Taken, HandedIsSent

(* An acknowledge ends: the receiver that missed the start of the frame has  *)
(* not held the line low, so the sender knows of a byte it did not           *)
(* acknowledge; the others have every byte so far.                           *)
LEMMA AckFollows ==
  ASSUME Levels, InFrame, Follows, Taken, frame # <<>>, lowTime = 0, IsAck(symbol),
         NEW d \in {6, 15}, Edge("rise", d), AckEnds(d), quiet' = FALSE
  PROVE  Levels' /\ InFrame' /\ Follows' /\ Taken'
<1>1. PICK k \in Nat \ {0} :
        k = symbol /\ ByteOf(k) <= Len(frame) /\ IsAck(k) /\ Slot(k) = Bits + 2
  BY DEF InFrame, IsAck
<1>2. Len(frame) \in Nat /\ ByteOf(k) \in Nat /\ frame \in Frames
  BY <1>1, FrameIs, NextSlot DEF InFrame
<1> DEFINE last == ByteOf(k) = Len(frame)
<1>3. /\ ours' = (ours /\ driving)
      /\ \/ ~last /\ lowTime' = d /\ UNCHANGED <<frame, symbol, whole>>
         \/ /\ frame' = <<>> /\ symbol' = 0 /\ lowTime' = 0
            /\ last => whole' = whole \cup {<<started, frame, ours'>>}
            /\ ~last => whole' = whole
  BY <1>1 DEF AckEnds
<1>4. InFrame'
  BY <1>1, <1>2, <1>3 DEF InFrame
<1>5. d < Cap /\ elapsed \in Int /\ d \in Nat
  BY DEF Cap, Levels
<1>6. /\ elapsed' \in Int
      /\ ExpectsFall => Unexpected
      /\ ~ExpectsFall /\ elapsed = 0 => Rising(d)
  BY <1>5, AtRise
<1>7. ASSUME rxState' = "start", ~driving' PROVE Levels' /\ Follows'
  BY <1>6, <1>7, InStart, Zenon
<1>8. ASSUME ~driving, taken' = taken PROVE Taken'
  <2>1. ~ours'
    BY <1>3, <1>8, Zenon
  <2>2. whole' = whole \/ whole' = whole \cup {<<started, frame, ours'>>}
    BY <1>3
  <2>3. PICK o : o = ours'
    OBVIOUS
  <2>4. ~o /\ (whole' = whole \/ whole' = whole \cup {<<started, frame, o>>})
    BY <2>1, <2>2, <2>3
  <2> QED BY <1>8, <2>4, UnheardIsKept
<1>9. CASE rxState = "start" /\ ExpectsFall /\ ~driving
  <2>1. rxState' = "start" /\ ~driving' /\ taken' = taken
    BY <1>6, <1>9 DEF Unexpected, rxVars, NoItem
  <2> QED BY <1>4, <1>7, <1>8, <1>9, <2>1
<1>10. CASE rxState = "start_rise" /\ ~ExpectsFall /\ elapsed = 0 /\ ~driving
  <2>1. Rising(d) /\ d \notin 35 .. 39
    BY <1>6, <1>10
  <2>2. RxReset /\ NoItem
    BY <1>10, <2>1 DEF Rising
  <2>3. rxState' = "start" /\ ~driving' /\ taken' = taken
    BY <2>2, Zenon DEF RxReset, NoItem
  <2> QED BY <1>4, <1>7, <1>8, <1>10, <2>3
<1>11. CASE /\ rxState \in Inside /\ ~ExpectsFall /\ elapsed = 0
            /\ \E j \in Nat \ {0} : j = symbol /\ Measures(j)
  <2>1. Measures(k) /\ Rising(d) /\ IsSymbol(d)
    BY <1>1, <1>6, <1>11 DEF IsSymbol, One, Zero
  <2>2. rxState = "ack_rise" /\ TakesAck(k)
    BY <1>1, <2>1, BitsIsNat DEF Measures, TakesBit, TakesEom
  <2>3. ByteEnds
    BY <2>1, <2>2 DEF Rising
  <2>4. Heard(ByteOf(k), 0) /\ (eom <=> last)
    BY <2>2, Zenon DEF TakesAck
  <2>5. ASSUME last PROVE Levels' /\ Follows' /\ Taken'
    <3>1. HandOver /\ RxReset
      BY <2>3, <2>4, <2>5, Zenon DEF ByteEnds
    <3>2. rxState' = "start" /\ ~driving'
      BY <3>1, Zenon DEF RxReset
    <3>3. rxMessage = frame
      BY <2>4, <2>5, HeardAll
    <3>4. taken' = taken \cup {<<started, frame>>}
      BY <3>1, <3>3, Zenon DEF HandOver
    <3>5. whole' = whole \cup {<<started, frame, ours'>>}
      BY <1>3, <2>5
    <3>6. PICK o : o = ours'
      OBVIOUS
    <3>7. Taken'
      BY <3>4, <3>5, <3>6, HeardIsTaken
    <3> QED BY <1>7, <3>2, <3>7
  <2>6. ASSUME ~last PROVE Levels' /\ Follows' /\ Taken'
    <3>1. NoItem /\ NextByte
      BY <2>3, <2>4, <2>6, Zenon DEF ByteEnds
    <3>2. rxState' = "bit_fall" /\ ~driving' /\ UNCHANGED <<rxMessage, byte>>
      BY <3>1, Zenon DEF NextByte
    <3>3. Taken'
      <4>1. UNCHANGED <<whole, taken>>
        BY <1>3, <2>6, <3>1 DEF NoItem
      <4> QED BY <4>1, TakenKept
    <3>4. rxState' \in Inside /\ ExpectsFall'
      BY <3>2 DEF Inside, ExpectsFall
    <3>5. Levels'
      BY <1>6, <3>2, <3>4 DEF Levels
    <3>6. CASE frame' = <<>>
      BY <3>3, <3>5, <3>6 DEF Follows
    <3>7. CASE lowTime' = d /\ UNCHANGED <<frame, symbol>>
      <4>1. Heard(ByteOf(k), 0)'
        BY <2>4, <3>2, <3>7, HeardKept
      <4>2. Slot(k + 1) = 1 /\ ByteOf(k + 1) = ByteOf(k) + 1
        BY <1>1, NextSlot
      <4>3. Slot(k + 1) <= Bits /\ Slot(k + 1) - 1 = 0 /\ ByteOf(k + 1) - 1 = ByteOf(k)
        BY <1>2, <4>2, BitsIsNat
      <4>4. Expects(k + 1)'
        BY <3>2, <4>1, <4>3 DEF Expects, TakesBit
      <4>5. lowTime' > 0 /\ k + 1 = symbol' + 1 /\ k + 1 \in Nat \ {0}
        BY <1>1, <3>7
      <4> QED BY <3>3, <3>5, <4>4, <4>5 DEF Follows
    <3> QED BY <1>3, <3>6, <3>7
  <2> QED BY <1>4, <2>5, <2>6
<1> QED BY <1>9, <1>10, <1>11, WhileLow

LEMMA Unmoved ==
  ASSUME ReceiveInv, whole' = whole, taken' = taken,
         UNCHANGED <<rxState, rxMessage, byte, eom, driving, elapsed>>,
         UNCHANGED <<frame, symbol, lowTime, quiet>>
  PROVE  ReceiveInv'
<1>1. Levels' /\ InFrame'
  BY DEF ReceiveInv, Levels, InFrame, ExpectsFall
<1>2. \A k \in Nat \ {0} : (Expects(k) => Expects(k)') /\ (Measures(k) => Measures(k)')
  BY DEF Expects, Measures, TakesBit, TakesEom, TakesAck, Heard
<1>3. Follows'
  BY <1>2 DEF ReceiveInv, Follows
<1>4. Taken'
  BY TakenKept DEF ReceiveInv
<1> QED BY <1>1, <1>3, <1>4 DEF ReceiveInv

LEMMA BeginKeeps ==
  ASSUME ReceiveInv, NEW f \in Frames, Begin(f) PROVE ReceiveInv'
<1>1. /\ frame = <<>> /\ quiet /\ frame' = f /\ symbol' = 0 /\ lowTime' = 0 /\ quiet' = FALSE
      /\ Edge("fall", Cap) /\ UNCHANGED whole
  BY Zenon DEF Begin
<1>2. Levels /\ Taken
  BY DEF ReceiveInv
<1>3. ExpectsFall /\ elapsed = Cap /\ (driving => rxState = "ack_rise")
  BY <1>1, <1>2 DEF Levels
<1>4. elapsed' = 0 /\ Falling(Cap)
  <2>1. elapsed + Cap > Cap
    BY <1>3 DEF Cap
  <2> QED BY <1>1, <1>3, <2>1, AtFall
<1>5. Cap \notin 43 .. 47 /\ Cap \notin 21 .. 27
  BY DEF Cap
<1>6. ~OnTime(Cap)
  BY <1>5 DEF OnTime
<1>7. InFrame'
  <2>1. ~(0 > 0) /\ 0 \in Nat
    OBVIOUS
  <2> QED BY <1>1, <2>1 DEF InFrame
<1>8. Taken'
  <2>1. UNCHANGED taken
    BY <1>4, Zenon DEF Falling, NoItem
  <2> QED BY <1>1, <1>2, <2>1, TakenKept
<1>9. CASE rxState = "start"
  <2>1. rxState' = "start_rise" /\ rxMessage' = <<>> /\ byte' = <<>> /\ driving' = driving
    BY <1>4, <1>9 DEF Falling
  <2>2. ~driving /\ f # <<>>
    BY <1>3, <1>9, ReceiveAssumption
  <2>3. Levels' /\ Follows'
    BY <1>1, <1>4, <2>1, <2>2 DEF Levels, Follows, Inside
  <2> QED BY <1>7, <1>8, <2>3 DEF ReceiveInv
<1>10. CASE rxState # "start"
  <2>1. RxReset
    BY <1>4, <1>6, <1>10, Zenon DEF Falling
  <2>2. rxState' = "start" /\ ~driving'
    BY <2>1, Zenon DEF RxReset
  <2>3. elapsed' \in Int
    BY <1>4
  <2>4. Levels' /\ Follows'
    BY <1>1, <2>2, <2>3, InStart
  <2> QED BY <1>7, <1>8, <2>4 DEF ReceiveInv
<1> QED BY <1>9, <1>10

LEMMA MergeKeeps ==
  ASSUME ReceiveInv, Merge PROVE ReceiveInv'
<1>1. /\ frame # <<>> /\ lowTime > 0 /\ symbol' = symbol + 1 /\ ~IsAck(symbol + 1)
      /\ Edge("both", Period(symbol) - lowTime + Low(symbol + 1))
      /\ lowTime' = Low(symbol + 1) /\ quiet' = FALSE /\ UNCHANGED <<frame, whole>>
  BY Zenon DEF Merge
<1>2. Levels /\ InFrame /\ Taken
  BY DEF ReceiveInv
<1>3. PICK k \in Nat \ {0} : k = symbol + 1 /\ ByteOf(k) <= Len(frame)
  BY <1>1, <1>2, NextInFrame
<1>4. Low(k) \in {6, 15} /\ ~IsAck(k) /\ lowTime' = Low(k)
  BY <1>1, <1>2, <1>3, LowIs
<1>5. InFrame'
  BY <1>1, <1>2, <1>3, <1>4 DEF InFrame
<1>6. RxReset /\ NoItem
  BY <1>1, Zenon DEF Edge
<1>7. elapsed' \in Int
  <2>1. PICK delta \in Int : delta = Period(symbol) - lowTime + Low(symbol + 1)
    BY <1>1, <1>2, <1>3, <1>4 DEF Period, InFrame
  <2>2. Edge("both", delta)
    BY <1>1, <2>1
  <2>3. elapsed' = IF FALSE THEN 0 ELSE IF elapsed + delta > Cap THEN Cap ELSE elapsed + delta
    BY <2>2 DEF Edge
  <2> QED BY <1>2, <2>3 DEF Levels, Cap
<1>8. Levels' /\ Follows'
  <2>1. rxState' = "start" /\ ~driving'
    BY <1>6, Zenon DEF RxReset
  <2> QED BY <1>1, <1>7, <2>1, InStart
<1>9. Taken'
  BY <1>1, <1>2, <1>6, TakenKept DEF NoItem
<1> QED BY <1>5, <1>8, <1>9 DEF ReceiveInv

LEMMA PollKeeps ==
  ASSUME ReceiveInv, NEW own \in Addresses, Poll(own) PROVE ReceiveInv'
<1>1. /\ IF Stale THEN RxReset ELSE UNCHANGED rxVars
      /\ UNCHANGED <<elapsed, frame, symbol, lowTime, quiet, whole, taken>>
  BY Zenon DEF Poll, senderVars
<1>2. InFrame' /\ Taken'
  BY <1>1, TakenKept DEF ReceiveInv, InFrame
<1>3. CASE Stale
  <2>1. rxState' = "start" /\ ~driving'
    BY <1>1, <1>3, Zenon DEF RxReset
  <2> QED BY <1>1, <1>2, <2>1 DEF ReceiveInv, Levels, Follows, ExpectsFall, Inside
<1>4. CASE ~Stale
  <2>1. UNCHANGED <<rxState, rxMessage, byte, first, eom, driving>>
    BY <1>1, <1>4 DEF rxVars
  <2> QED BY <1>1, <1>2, <2>1, Unmoved DEF ReceiveInv
<1> QED BY <1>3, <1>4

LEMMA RiseKeeps == ASSUME ReceiveInv, Rise PROVE ReceiveInv'
<1>1. frame # <<>> /\ lowTime = 0 /\ quiet' = FALSE
  BY Zenon DEF Rise
<1>2. CASE IsAck(symbol)
  <2>1. PICK d \in {6, 15} : Edge("rise", d) /\ AckEnds(d)
    BY <1>2, Zenon DEF Rise
  <2> QED BY <1>1, <1>2, <2>1, AckFollows DEF ReceiveInv
<1>3. CASE ~IsAck(symbol)
  <2>1. PICK low \in {Low(symbol), 10} :
          Edge("rise", low) /\ lowTime' = low /\ UNCHANGED <<frame, symbol, whole>>
    BY <1>3 DEF Rise
  <2>2. Levels' /\ InFrame' /\ Follows' /\ UNCHANGED taken
    BY <1>1, <1>3, <2>1, RiseFollows DEF ReceiveInv
  <2> QED BY <2>1, <2>2, TakenKept DEF ReceiveInv
<1> QED BY <1>2, <1>3

LEMMA SkewKeeps == ASSUME ReceiveInv, Skew PROVE ReceiveInv'
<1>1. /\ frame # <<>> /\ lowTime = 0 /\ quiet' = FALSE /\ ~IsAck(symbol)
      /\ Edge("rise", 10) /\ lowTime' = 10 /\ UNCHANGED <<frame, symbol, whole>>
  BY Zenon DEF Skew
<1>2. Levels' /\ InFrame' /\ Follows' /\ UNCHANGED taken
  <2>1. 10 \in {Low(symbol), 10}
    OBVIOUS
  <2> QED BY <1>1, <2>1, RiseFollows DEF ReceiveInv
<1> QED BY <1>1, <1>2, TakenKept DEF ReceiveInv

LEMMA FallKeeps == ASSUME ReceiveInv, Fall PROVE ReceiveInv'
<1>1. /\ frame # <<>> /\ lowTime > 0 /\ symbol' = symbol + 1 /\ lowTime' = 0
      /\ UNCHANGED <<frame, whole>>
  BY Zenon DEF Fall
<1>2. PICK k \in Nat \ {0} : k = symbol + 1 /\ ByteOf(k) <= Len(frame)
  BY <1>1, NextInFrame DEF ReceiveInv
<1>3. InFrame'
  BY <1>1, <1>2 DEF ReceiveInv, InFrame
<1> QED BY <1>1, <1>3, FallFollows, TakenKept DEF ReceiveInv

LEMMA StopKeeps == ASSUME ReceiveInv, Stop PROVE ReceiveInv'
<1>1. /\ lowTime > 0 /\ frame' = <<>>
      /\ UNCHANGED <<rxState, rxMessage, byte, first, eom, driving, elapsed, quiet, whole, taken>>
      /\ frame # <<>>
  BY DEF Stop, rxVars
<1>2. Levels' /\ InFrame' /\ Follows'
  BY <1>1 DEF ReceiveInv, Levels, InFrame, Follows, ExpectsFall
<1> QED BY <1>1, <1>2, TakenKept DEF ReceiveInv

LEMMA SilenceKeeps == ASSUME ReceiveInv, Silence PROVE ReceiveInv'
<1>1. /\ frame = <<>> /\ elapsed' = Cap
      /\ UNCHANGED <<rxState, rxMessage, byte, first, eom, driving, frame, symbol, lowTime>>
      /\ UNCHANGED <<whole, taken>>
  BY DEF Silence, rxVars, senderVars
<1>2. Levels' /\ InFrame' /\ Follows'
  BY <1>1 DEF ReceiveInv, Levels, InFrame, Follows, ExpectsFall, Cap
<1> QED BY <1>1, <1>2, TakenKept DEF ReceiveInv

LEMMA ReceiveInitially == ReceiveInit => ReceiveInv
<1> SUFFICES ASSUME ReceiveInit PROVE ReceiveInv
  OBVIOUS
<1>1. Levels
  BY DEF ReceiveInit, Levels, ExpectsFall, Cap
<1>2. InFrame /\ Follows /\ Taken
  BY DEF ReceiveInit, InFrame, Follows, Taken, HandedIsSent, AcknowledgedIsHeard
<1> QED BY <1>1, <1>2 DEF ReceiveInv

LEMMA ReceiveStep == ReceiveInv /\ [ReceiveNext]_receiveVars => ReceiveInv'
<1> SUFFICES ASSUME ReceiveInv, [ReceiveNext]_receiveVars PROVE ReceiveInv'
  OBVIOUS
<1>1. CASE UNCHANGED receiveVars
  <2>1. /\ UNCHANGED <<rxState, rxMessage, byte, eom, driving, elapsed>>
        /\ UNCHANGED <<frame, symbol, lowTime, quiet>>
        /\ whole' = whole /\ taken' = taken
    BY <1>1 DEF receiveVars, rxVars, senderVars
  <2> QED BY <2>1, Unmoved
<1>2. CASE \E own \in Addresses : Poll(own)
  BY <1>2, PollKeeps
<1>3. CASE \E f \in Frames : Begin(f)
  BY <1>3, BeginKeeps
<1> QED BY <1>1, <1>2, <1>3, RiseKeeps, FallKeeps, StopKeeps, SkewKeeps, MergeKeeps, SilenceKeeps
        DEF ReceiveNext

LEMMA ReceivingIsTrue == ReceiveSpec => []ReceiveInv
BY ReceiveInitially, ReceiveStep, PTL DEF ReceiveSpec

(* What the interrupt hands over, frame_rx_isr's queue send, is the frame    *)
(* another device has just sent to its end, whatever pulses were wrong,      *)
(* edges lost or frames broken off before.                                   *)
THEOREM FramesAreWhole == ReceiveSpec => []HandedIsSent
<1>1. ReceiveInv => HandedIsSent
  BY DEF ReceiveInv, Taken
<1> QED BY <1>1, ReceivingIsTrue, PTL

(* A sender that found every byte acknowledged by this device has had its    *)
(* frame handed over: the receiver never acknowledges what it then loses.    *)
THEOREM AcknowledgedAreHeard == ReceiveSpec => []AcknowledgedIsHeard
<1>1. ReceiveInv => AcknowledgedIsHeard
  BY DEF ReceiveInv, Taken
<1> QED BY <1>1, ReceivingIsTrue, PTL
================================================================================

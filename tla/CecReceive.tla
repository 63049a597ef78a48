------------------------------- MODULE CecReceive -------------------------------
(***************************************************************************)
(* The receiver of src/src/cec-frame.c: an interrupt for every edge of the *)
(* line, and the task that takes frames out of a bounded queue.  Another   *)
(* device sends; it may stop, send pulses of a wrong length, or have two   *)
(* edges seen as one.  Times are in units of 100 microseconds.             *)
(***************************************************************************)
EXTENDS CecFrame

CONSTANTS
  MaxLen,    \* CEC_FRAME_MAX_LEN
  QueueLen,  \* RX_QUEUE_LEN
  Frames,    \* frames the other device sends
  Addresses, \* addresses this device may have, as the bits of a nibble
  Starts,    \* bound: frames begun in one behaviour
  Faults     \* bound: faults of the line

ASSUME ReceiveAssumption ==
  /\ {MaxLen, QueueLen} \subseteq Nat \ {0}
  /\ Frames \subseteq Seq(Bytes) \ {<<>>} /\ Rejected \subseteq Frames
  /\ Addresses \subseteq [1 .. Bits \div 2 -> {0, 1}] /\ {Starts, Faults} \subseteq Nat

VARIABLES
  rxState, rxMessage, byte, first, eom, \* rx: the last byte of its message is under construction
  driving,   \* this device holds the line low; its alarm will release it
  elapsed,   \* time since rx.start, as far as it matters
  rxQueue,
  address,   \* as the latest cec_frame_recv left it
  frame,     \* what the other device sends, or <<>>
  symbol,    \* the symbol of it that is on the line: 0 is the start bit
  lowTime,   \* how long the symbol was low, or 0 while it is
  ours,      \* this device acknowledged every byte of it
  quiet,     \* no edge for more than 5 ms
  started, faulty, \* history: frames begun, faults
  whole,     \* history: frames sent to the end, with their number and `ours`
  taken      \* history: frames handed over, with the number of the frame then sent

rxVars == <<rxState, rxMessage, byte, first, eom, driving>>
senderVars == <<frame, symbol, lowTime, ours, started>>
receiveVars == <<rxVars, elapsed, rxQueue, address, senderVars, quiet, faulty, whole, taken>>

Cap == 60

--------------------------------------------------------------------------------
(* The interrupt.  Each operator gives rx after an edge at time d.           *)

RxReset ==
  /\ rxState' = "start" /\ rxMessage' = <<>> /\ byte' = <<>>
  /\ driving' = FALSE /\ UNCHANGED <<first, eom>>

Advance(state) == rxState' = state /\ UNCHANGED <<rxMessage, byte, first, eom, driving>>

One(d) == d \in 4 .. 8
Zero(d) == d \in 13 .. 17
IsSymbol(d) == One(d) \/ Zero(d)

NoItem == UNCHANGED <<rxQueue, taken>>

Acknowledged(m) == Destination(m[1]) = address /\ address # Ones

OnTime(d) == d \in IF first THEN 43 .. 47 ELSE 21 .. 27

Falling(d) ==
  /\ NoItem
  /\ \/ /\ rxState = "start" /\ rxState' = "start_rise" /\ rxMessage' = <<>> /\ byte' = <<>>
        /\ first' = TRUE /\ eom' = FALSE /\ UNCHANGED driving
     \/ rxState # "start" /\ ~OnTime(d) /\ RxReset
     \/ /\ rxState = "bit_fall" /\ OnTime(d)
        /\ IF Len(rxMessage) >= MaxLen THEN RxReset
           ELSE /\ rxState' = "bit_rise" /\ first' = FALSE
                /\ UNCHANGED <<rxMessage, byte, eom, driving>>
     \/ rxState = "eom_fall" /\ OnTime(d) /\ Advance("eom_rise")
     \/ /\ rxState = "ack_fall" /\ OnTime(d)
        /\ rxState' = "ack_rise" /\ driving' = Acknowledged(rxMessage)
        /\ UNCHANGED <<rxMessage, byte, first, eom>>
     \* No alarm can be had for the release of the line.
     \/ rxState = "ack_fall" /\ OnTime(d) /\ Acknowledged(rxMessage) /\ RxReset

BitEnds(d) ==
  LET bits == Append(byte, IF One(d) THEN 1 ELSE 0)
  IN  /\ IF Len(bits) = Bits
           THEN rxState' = "eom_fall" /\ byte' = <<>> /\ rxMessage' = Append(rxMessage, bits)
           ELSE rxState' = "bit_fall" /\ byte' = bits /\ UNCHANGED rxMessage
      /\ UNCHANGED <<first, eom, driving>>

EomEnds(d) ==
  IF Zero(d) /\ Len(rxMessage) = MaxLen THEN RxReset
  ELSE rxState' = "ack_fall" /\ eom' = One(d) /\ UNCHANGED <<rxMessage, byte, first, driving>>

Room == Len(rxQueue) < QueueLen

(* A frame is queued, or dropped when it is invalid or there is no room. *)
HandOver ==
  /\ rxQueue' = IF rxMessage \notin Rejected /\ Room THEN Append(rxQueue, rxMessage) ELSE rxQueue
  /\ taken' = taken \cup {<<started, rxMessage>>}

(* The alarm has released the line. *)
NextByte == rxState' = "bit_fall" /\ driving' = FALSE /\ UNCHANGED <<rxMessage, byte, first, eom>>

(* Fault: an incomplete frame is handed over. *)
ByteEndsEarly == HandOver /\ IF eom THEN RxReset ELSE NextByte
(* Fault: a frame of one byte is taken for incomplete. *)
ByteEndsLong ==
  IF eom /\ Len(rxMessage) > 1 THEN HandOver /\ RxReset ELSE NoItem /\ NextByte
ByteEnds == IF eom THEN HandOver /\ RxReset ELSE NoItem /\ NextByte

Rising(d) ==
  \/ rxState = "start_rise" /\ NoItem /\ IF d \in 35 .. 39 THEN Advance("bit_fall") ELSE RxReset
  \/ rxState # "start_rise" /\ ~IsSymbol(d) /\ NoItem /\ RxReset
  \/ rxState = "bit_rise" /\ IsSymbol(d) /\ NoItem /\ BitEnds(d)
  \/ rxState = "eom_rise" /\ IsSymbol(d) /\ NoItem /\ EomEnds(d)
  \/ rxState = "ack_rise" /\ IsSymbol(d) /\ ByteEnds

ExpectsFall == rxState \in {"start", "bit_fall", "eom_fall", "ack_fall"}

Unexpected == UNCHANGED rxVars /\ NoItem

(* An edge after `delta` since the one before.  At a fall that is accepted   *)
(* rx.start moves; the line rises, at the latest, when this device's alarm   *)
(* releases it.                                                              *)
Edge(kind, delta) ==
  LET d == IF elapsed + delta > Cap THEN Cap ELSE elapsed + delta
  IN  /\ CASE kind = "both" -> RxReset /\ NoItem
           [] kind = "fall" -> IF ExpectsFall THEN Falling(d) ELSE Unexpected
           [] kind = "rise" -> IF ExpectsFall THEN Unexpected
                               ELSE Rising(d)
      /\ elapsed' = IF kind = "fall" /\ ExpectsFall THEN 0 ELSE d

--------------------------------------------------------------------------------
(* The task: cec_frame_recv.                                                 *)

(* Fault: only a frame that has lasted too long is given up. *)
StaleNever == FALSE
Stale == rxState # "start" /\ quiet

Poll(own) ==
  /\ address' = own
  /\ IF Stale THEN RxReset ELSE UNCHANGED rxVars
  /\ rxQueue' = IF rxQueue = <<>> THEN rxQueue ELSE Tail(rxQueue)
  /\ UNCHANGED <<elapsed, senderVars, quiet, faulty, whole, taken>>

--------------------------------------------------------------------------------
(* The other device.                                                         *)

Slot(k) == ((k - 1) % (Bits + 2)) + 1
ByteOf(k) == ((k - 1) \div (Bits + 2)) + 1
IsAck(k) == k > 0 /\ Slot(k) = Bits + 2

Low(k) ==
  IF k = 0 THEN 37
  ELSE IF IsAck(k) THEN 6
  ELSE IF Slot(k) = Bits + 1 THEN IF ByteOf(k) = Len(frame) THEN 6 ELSE 15
  ELSE IF frame[ByteOf(k)][Slot(k)] = 1 THEN 6 ELSE 15

Period(k) == IF k = 0 THEN 45 ELSE 24

Begin(f) ==
  /\ frame = <<>> /\ quiet /\ started < Starts
  /\ frame' = f /\ symbol' = 0 /\ lowTime' = 0 /\ ours' = TRUE /\ started' = started + 1
  /\ quiet' = FALSE /\ Edge("fall", Cap)
  /\ UNCHANGED <<address, faulty, whole>>

(* A byte is accepted when a directed one is acknowledged, by this or by     *)
(* another device, or a broadcast is not rejected; otherwise the sender stops*)
(* after the symbol.  The receiver takes a frame that nobody accepted, too.  *)
AckEnds(d) ==
  LET accepted == (d = 15) <=> (Destination(frame[1]) # Ones)
      last == ByteOf(symbol) = Len(frame)
  IN  /\ ours' = (ours /\ driving) /\ UNCHANGED started
      /\ IF accepted /\ ~last THEN lowTime' = d /\ UNCHANGED <<frame, symbol, whole>>
         ELSE /\ frame' = <<>> /\ symbol' = 0 /\ lowTime' = 0
              /\ whole' = IF last THEN whole \cup {<<started, frame, ours'>>} ELSE whole

Rise ==
  /\ frame # <<>> /\ lowTime = 0
  /\ IF IsAck(symbol)
       THEN \E d \in {6, 15} : (driving => d = 15) /\ Edge("rise", d) /\ AckEnds(d)
       ELSE /\ Edge("rise", Low(symbol)) /\ lowTime' = Low(symbol)
            /\ UNCHANGED <<frame, symbol, ours, started, whole>>
  /\ quiet' = FALSE /\ UNCHANGED <<address, faulty>>

Fall ==
  /\ frame # <<>> /\ lowTime > 0
  /\ Edge("fall", Period(symbol) - lowTime)
  /\ symbol' = symbol + 1 /\ lowTime' = 0 /\ quiet' = FALSE
  /\ UNCHANGED <<frame, ours, started, address, faulty, whole>>

Fault == faulty < Faults /\ faulty' = faulty + 1 /\ UNCHANGED address

(* The sender stops with the line high. *)
Stop ==
  /\ Fault /\ frame # <<>> /\ lowTime > 0
  /\ frame' = <<>> /\ symbol' = 0 /\ lowTime' = 0
  /\ UNCHANGED <<ours, started, rxVars, elapsed, rxQueue, quiet, whole, taken>>

(* A low pulse that is no symbol's. *)
Skew ==
  /\ Fault /\ frame # <<>> /\ lowTime = 0 /\ ~IsAck(symbol)
  /\ Edge("rise", 10) /\ lowTime' = 10 /\ quiet' = FALSE
  /\ UNCHANGED <<frame, symbol, ours, started, whole>>

(* The interrupt comes so late that both edges of a symbol are seen at once. *)
Merge ==
  /\ Fault /\ frame # <<>> /\ lowTime > 0
  /\ symbol' = symbol + 1 /\ ~IsAck(symbol + 1)
  /\ Edge("both", Period(symbol) - lowTime + Low(symbol + 1)) /\ lowTime' = Low(symbol + 1)
  /\ quiet' = FALSE /\ UNCHANGED <<frame, ours, started, whole>>

Silence ==
  /\ frame = <<>> /\ ~quiet /\ quiet' = TRUE /\ elapsed' = Cap
  /\ UNCHANGED <<rxVars, rxQueue, address, senderVars, faulty, whole, taken>>

ReceiveInit ==
  /\ rxState = "start" /\ rxMessage = <<>> /\ byte = <<>> /\ first = TRUE /\ eom = FALSE
  /\ driving = FALSE /\ elapsed = Cap /\ rxQueue = <<>> /\ address = Ones
  /\ frame = <<>> /\ symbol = 0 /\ lowTime = 0 /\ ours = FALSE /\ quiet = TRUE
  /\ started = 0 /\ faulty = 0 /\ whole = {} /\ taken = {}

ReceiveNext ==
  \/ \E own \in Addresses : Poll(own)
  \/ \E f \in Frames : Begin(f)
  \/ Rise \/ Fall \/ Stop \/ Skew \/ Merge \/ Silence

ReceiveSpec == ReceiveInit /\ [][ReceiveNext]_receiveVars

(* The line falls silent after a sender, and cec_task goes on receiving.     *)
ReceiveFairness == WF_receiveVars(Silence) /\ \A own \in Addresses : WF_receiveVars(Poll(own))
            /\ WF_receiveVars(Rise) /\ WF_receiveVars(Fall)
FairReceiveSpec == ReceiveSpec /\ ReceiveFairness

--------------------------------------------------------------------------------
(* Properties.                                                               *)

ReceiveTypeOK ==
  /\ rxState \in {"start", "start_rise", "bit_fall", "bit_rise", "eom_fall", "eom_rise",
                   "ack_fall", "ack_rise"}
  /\ Len(rxMessage) <= MaxLen /\ Len(byte) < Bits /\ elapsed \in 0 .. Cap
  /\ Len(rxQueue) <= QueueLen /\ address \in Addresses
  /\ {first, eom, driving, ours, quiet} \subseteq BOOLEAN /\ lowTime \in 0 .. 37

(* What is handed to the task is the frame the other device has just sent to *)
(* its end: never two frames run together, bits missing, or half a frame,    *)
(* whatever pulses were wrong or edges lost on the way.                      *)
HandedIsSent == \A t \in taken : \E w \in whole : w[1] = t[1] /\ w[2] = t[2]

(* A sender whose every byte this device acknowledged has been heard: the    *)
(* frame reached the end of the interrupt's work, where only an invalid      *)
(* message or a full queue drops it.                                         *)
AcknowledgedIsHeard == \A w \in whole : w[3] => <<w[1], w[2]>> \in taken

(* "incomplete-frame recovery" (docs/ARCHITECTURE.md:99): a frame that stops *)
(* in the middle never keeps the receiver out of its start state for ever.   *)
Recovers == []<>(rxState = "start")
================================================================================

------------------------- MODULE MqttKeepAliveProof -------------------------
(***************************************************************************)
(* Theorems about MqttKeepAlive for all durations and any width of the     *)
(* clock that has room for them.                                           *)
(***************************************************************************)
EXTENDS MqttKeepAlive, TLAPS

\* The longest round of the yield loop, the same with a command that blocks in it,
\* and with a yield and a ping that run out of time as well.
Round == Interval + MaxCallback + Timeout
LongRound == Round + Timeout
MaxRound == Round + 3 * Timeout

Types ==
    /\ pc \in Looping \cup {"off", "connack", "exit"}
    /\ now \in 0..(Modulus - 1) /\ deadline \in 0..(Modulus - 1)
    /\ left \in Nat /\ callerLeft \in Nat /\ sinceWrite \in Nat

\* What each place of the process and of the publishing task knows of the time
\* since the last packet was written.
ProcessTime ==
    /\ pc \in {"connack", "yield", "keep_alive", "ping"} => caller \notin {"reply", "write"}
    /\ pc = "connack" => sinceWrite + left <= Timeout
    /\ pc = "callback" => sinceWrite + left < Interval + MaxCallback /\ left <= MaxCallback
    /\ pc = "select" => sinceWrite + left < Round /\ left <= Timeout
    /\ pc = "lock" => sinceWrite < LongRound /\ (alive => sinceWrite < Round)
    /\ pc = "yield" => /\ sinceWrite + left < LongRound + Timeout /\ left <= Timeout
                       /\ alive => sinceWrite + left < LongRound
    /\ pc = "keep_alive" => sinceWrite < LongRound + Timeout /\ (alive => sinceWrite < LongRound)
    /\ pc = "ping" => ~alive /\ sinceWrite + left < MaxRound
    /\ pc = "exit" => sinceWrite < MaxRound
CallerTime ==
    /\ caller \in {"reply", "write"} => Connected
    /\ caller = "reply" => sinceWrite + callerLeft <= Timeout
    /\ caller = "write" => ~alive /\ sinceWrite + callerLeft < LongRound

\* The difference of the two ticks is what is left of the interval, or that less
\* or more one turn of the clock.
Difference ==
    LET x == Interval - sinceWrite
    IN pc # "off" => deadline - now \in {x, x - Modulus, x + Modulus}

TimeInv == Types /\ ProcessTime /\ CallerTime /\ Difference

-----------------------------------------------------------------------------
\* The assumptions in the form the steps need them.
LEMMA Durations ==
    /\ Interval \in Nat /\ Timeout \in Nat /\ MaxCallback \in Nat /\ Modulus \in Nat
    /\ 0 < Timeout /\ Timeout < Interval
    /\ Round \in Nat /\ LongRound \in Nat /\ MaxRound \in Nat
    /\ Round = Interval + MaxCallback + Timeout /\ LongRound = Round + Timeout
    /\ MaxRound = LongRound + Timeout + Timeout
    /\ 2 * MaxRound < Modulus
BY DurationsAssumption, ClockAssumption DEF Interval, Round, LongRound, MaxRound

\* One turn of the clock at most is taken off, or put on.
LEMMA Turn ==
    ASSUME NEW w \in Nat, w > 0, NEW a \in Int, -w < a, a < 2 * w
    PROVE  a % w = IF a < 0 THEN a + w ELSE IF a < w THEN a ELSE a - w
OBVIOUS

\* What a timer shows when it has just been set, and when it is read.
LEMMA Set ==
    ASSUME Types
    PROVE  /\ TimerSet(Interval) \in 0..(Modulus - 1)
           /\ TimerSet(Interval) - now \in {Interval, Interval - Modulus}
<1>1. now + Interval \in Int /\ -Modulus < now + Interval /\ now + Interval < 2 * Modulus
  BY Durations DEF Types
<1>2. (now + Interval) % Modulus = IF now + Interval < Modulus THEN now + Interval
                                   ELSE now + Interval - Modulus
  BY <1>1, Turn, Durations DEF Types
<1>3. QED
  BY <1>2, Durations DEF TimerSet, Types

\* As long as the two ticks are less than half a turn apart the timer shows what
\* is left.
LEMMA ReadsTrue ==
    ASSUME Types, Difference, pc # "off", sinceWrite < MaxRound
    PROVE  TimerGet(deadline) = Interval - sinceWrite
<1> DEFINE a == deadline - now
           x == Interval - sinceWrite
<1>1. a \in Int /\ -Modulus < a /\ a < 2 * Modulus /\ a < Modulus
  BY Durations DEF Types
<1>2. a % Modulus = IF a < 0 THEN a + Modulus ELSE a
  BY <1>1, Turn, Durations
<1>3. a \in {x, x - Modulus, x + Modulus}
  BY DEF Difference
<1>4. x \in Int /\ 2 * x < Modulus /\ -Modulus < 2 * x
  BY Durations DEF Types
<1>5. a % Modulus = IF x < 0 THEN x + Modulus ELSE x
  BY ONLY <1>1, <1>2, <1>3, <1>4, Durations
<1>6. TimerGet(deadline) = IF 2 * (a % Modulus) < Modulus THEN a % Modulus
                           ELSE (a % Modulus) - Modulus
  BY DEF TimerGet
<1>7. QED
  BY <1>4, <1>5, <1>6, Durations

\* At any place but "off" the time since the last packet is bounded.
LEMMA Bounded == ASSUME TimeInv, Connected PROVE sinceWrite < MaxRound
BY Durations DEF TimeInv, Types, ProcessTime, Connected, Looping

\* Whether a ping is due is whether the interval is over.
LEMMA Due ==
    ASSUME TimeInv, pc = "keep_alive"
    PROVE  PingDue <=> sinceWrite >= Interval
<1>1. TimerGet(deadline) = Interval - sinceWrite /\ sinceWrite \in Nat
  BY ReadsTrue, Bounded DEF TimeInv, Types, Connected, Looping
<1>2. QED
  BY <1>1, Durations DEF PingDue

\* The clock moves on.
LEMMA TickStep == ASSUME TimeInv, Tick PROVE TimeInv'
<1> USE Durations
<1>1. /\ left' = IF left = 0 THEN 0 ELSE left - 1
      /\ callerLeft' = IF callerLeft = 0 THEN 0 ELSE callerLeft - 1
      /\ UNCHANGED <<deadline, pc, caller, alive>>
      /\ now' = (now + 1) % Modulus
      /\ sinceWrite' = IF Connected \/ pc = "connack" THEN sinceWrite + 1 ELSE sinceWrite
  BY DEF Tick, Less, TimeInv, Types
<1>2. now' = IF now + 1 < Modulus THEN now + 1 ELSE 0
  <2> DEFINE a == now + 1
  <2>1. a \in Int /\ 0 < a /\ a <= Modulus /\ Modulus \in Nat
    BY DEF TimeInv, Types
  <2>2. a % Modulus = IF a < 0 THEN a + Modulus ELSE IF a < Modulus THEN a ELSE a - Modulus
    BY <2>1, Turn
  <2>3. QED
    BY <1>1, <2>1, <2>2
<1>3. Types'
  BY <1>1, <1>2 DEF TimeInv, Types
<1>4. /\ pc # "keep_alive"
      /\ pc \in {"connack", "callback", "select", "yield", "ping"} => left > 0
      /\ pc \in {"lock", "exit"} => ~MainFree
      /\ caller \in {"reply", "write"} => callerLeft > 0
  <2>1. left \in Nat /\ callerLeft \in Nat /\ ~Urgent
    BY DEF Tick, TimeInv, Types
  <2>2. QED
    BY ONLY <2>1 DEF Urgent
<1>5. ProcessTime'
  <2> USE DEF TimeInv, Types, ProcessTime, CallerTime
  <2>1. CASE pc \in {"connack", "callback", "select", "yield", "ping"}
    BY <1>1, <1>4, <2>1 DEF Connected, Looping
  <2>2. CASE pc \in {"lock", "exit"}
    <3>1. CASE caller = "reply"
      BY <1>1, <1>4, <2>2, <3>1 DEF Connected, Looping
    <3>2. CASE caller = "write"
      BY <1>1, <1>4, <2>2, <3>2 DEF Connected, Looping
    <3>3. QED
      BY <1>4, <2>2, <3>1, <3>2 DEF MainFree
  <2>3. CASE pc = "off"
    BY <1>1, <2>3
  <2>4. QED
    BY <1>4, <2>1, <2>2, <2>3 DEF Looping
<1>6. CallerTime'
  BY <1>1, <1>4 DEF TimeInv, Types, CallerTime, Connected, Looping
<1>7. Difference'
  <2>1. CASE pc = "off"
    BY <1>1, <2>1 DEF Difference
  <2>2. CASE pc # "off" /\ (Connected \/ pc = "connack")
    <3>1. sinceWrite' = sinceWrite + 1 /\ sinceWrite < MaxRound
      BY <1>1, <2>2, Bounded DEF TimeInv, ProcessTime, Types
    <3>2. QED
      BY <1>1, <1>2, <2>2, <3>1 DEF TimeInv, Types, Difference
  <2>3. CASE pc # "off" /\ ~Connected /\ pc # "connack"
    BY <2>3 DEF TimeInv, Types, Connected, Looping
  <2>4. QED
    BY <2>1, <2>2, <2>3
<1>8. QED
  BY <1>3, <1>5, <1>6, <1>7 DEF TimeInv

\* A packet is written, or the timer stays as it is.
LEMMA TimerKept ==
    ASSUME TimeInv, now' = now, Written \/ UNCHANGED <<deadline, sinceWrite>>
    PROVE  /\ deadline' \in 0..(Modulus - 1)
           /\ sinceWrite' = 0 \/ sinceWrite' = sinceWrite
           /\ Written => sinceWrite' = 0
           /\ Written \/ pc # "off" => Difference'
<1>1. CASE Written
  <2>1. /\ deadline' = TimerSet(Interval) /\ sinceWrite' = 0 /\ now' = now
    BY <1>1 DEF Written
  <2>2. /\ TimerSet(Interval) \in 0..(Modulus - 1)
        /\ TimerSet(Interval) - now \in {Interval, Interval - Modulus}
    BY Set DEF TimeInv
  <2>3. Interval - sinceWrite' = Interval
    BY <2>1, Durations
  <2>4. Difference'
    BY <2>1, <2>2, <2>3 DEF Difference
  <2>5. QED
    BY <2>1, <2>2, <2>4 DEF TimeInv, Types
<1>2. CASE ~Written /\ UNCHANGED <<deadline, sinceWrite>>
  BY <1>2 DEF TimeInv, Types, Difference
<1>3. QED
  BY <1>1, <1>2

\* What reading does to the timer.
LEMMA Reading ==
    ASSUME PacketRead \/ BrokenOff
    PROVE  /\ Written \/ UNCHANGED <<deadline, sinceWrite>>
           /\ UNCHANGED <<alive, travel>>
BY DEF PacketRead, BrokenOff, timer

\* The connection.
LEMMA ConnectKeeps ==
    ASSUME TimeInv, ConnectBegins \/ ConnectSucceeds \/ ConnectFails \/ Exit
    PROVE  TimeInv'
<1> USE Durations DEF Looping, Connected
<1>1. CASE ConnectBegins
  <2>1. /\ pc' = "connack" /\ left' = Timeout /\ Written
        /\ UNCHANGED <<now, caller, callerLeft>> /\ MainFree
    BY <1>1 DEF ConnectBegins, publisher
  <2>2. deadline' \in 0..(Modulus - 1) /\ sinceWrite' = 0 /\ Difference'
    BY <2>1, TimerKept
  <2>3. QED
    BY <2>1, <2>2 DEF TimeInv, Types, ProcessTime, CallerTime, MainFree
<1>2. CASE ConnectSucceeds
  <2>1. /\ pc = "connack" /\ pc' = "callback" /\ left' = MaxCallback
        /\ UNCHANGED <<now, caller, callerLeft>>
        /\ Written \/ UNCHANGED <<deadline, sinceWrite>>
    BY <1>2, Reading DEF ConnectSucceeds, publisher
  <2>2. /\ deadline' \in 0..(Modulus - 1) /\ (sinceWrite' = 0 \/ sinceWrite' = sinceWrite)
        /\ Difference'
    BY <2>1, TimerKept
  <2>3. QED
    BY <2>1, <2>2 DEF TimeInv, Types, ProcessTime, CallerTime
<1>3. CASE ConnectFails \/ Exit
  BY <1>3 DEF ConnectFails, Exit, publisher, timer, TimeInv, Types, ProcessTime, CallerTime,
              Difference, MainFree
<1>4. QED
  BY <1>1, <1>2, <1>3

\* The process goes round its loop.
LEMMA LoopKeeps ==
    ASSUME TimeInv,
           \/ CallbackReturns \/ SelectReturns \/ Peek \/ YieldReads \/ YieldTimesOut
           \/ NoPing \/ Ping \/ PingBlocks \/ PingTimesOut \/ PongOverdue \/ LoopFails
    PROVE  TimeInv'
<1> USE Durations DEF Looping
<1>1. /\ UNCHANGED <<now, caller, callerLeft, alive>>
      /\ Written \/ UNCHANGED <<deadline, sinceWrite>>
      /\ pc \in Looping /\ pc' \in Looping \cup {"exit"}
  <2>1. CASE YieldReads \/ YieldTimesOut
    BY <2>1, Reading DEF YieldReads, YieldTimesOut, publisher
  <2>2. CASE ~(YieldReads \/ YieldTimesOut)
    BY <2>2 DEF CallbackReturns, SelectReturns, Peek, NoPing, Ping, PingBlocks, PingTimesOut,
                PongOverdue, LoopFails, publisher, timer, network
  <2>3. QED
    BY <2>1, <2>2
<1>2. /\ deadline' \in 0..(Modulus - 1) /\ (sinceWrite' = 0 \/ sinceWrite' = sinceWrite)
      /\ Written => sinceWrite' = 0
      /\ Difference'
  BY <1>1, TimerKept
<1>3. CallerTime'
  BY <1>1, <1>2 DEF TimeInv, Types, CallerTime, Connected
<1>4. ASSUME left' \in Nat, ProcessTime' PROVE TimeInv'
  BY <1>1, <1>2, <1>3, <1>4 DEF TimeInv, Types
<1> USE DEF TimeInv, Types, ProcessTime
<1>5. CASE CallbackReturns
  <2>1. /\ pc = "callback"
        /\ (pc' = "exit" /\ left' = 0) \/ (pc' = "select" /\ left' = Timeout)
    BY <1>5 DEF CallbackReturns
  <2>2. left' \in Nat /\ ProcessTime'
    BY <1>1, <1>2, <2>1
  <2>3. QED
    BY <1>4, <2>2
<1>6. CASE SelectReturns
  <2>1. pc = "select" /\ pc' = "lock" /\ left' = 0
    BY <1>6 DEF SelectReturns
  <2>2. left' \in Nat /\ ProcessTime'
    BY <1>1, <1>2, <2>1
  <2>3. QED
    BY <1>4, <2>2
<1>7. CASE Peek
  <2>1. /\ pc = "lock" /\ caller \notin {"reply", "write"}
        /\ (pc' = "yield" /\ left' = Timeout) \/ (pc' = "keep_alive" /\ left' = left)
    BY <1>7 DEF Peek, MainFree
  <2>2. left' \in Nat /\ ProcessTime'
    BY <1>1, <1>2, <2>1
  <2>3. QED
    BY <1>4, <2>2
<1>8. CASE YieldReads \/ YieldTimesOut
  <2>1. /\ pc = "yield"
        /\ (pc' = "yield" /\ left' = left) \/ (pc' = "keep_alive" /\ left' \in {0, left})
    BY <1>8 DEF YieldReads, YieldTimesOut
  <2>2. left' \in Nat /\ ProcessTime'
    BY <1>1, <1>2, <2>1
  <2>3. QED
    BY <1>4, <2>2
<1>9. CASE NoPing \/ Ping \/ PingTimesOut
  <2>1. /\ pc' = "callback" /\ left' = MaxCallback
        /\ Written \/ (pc = "keep_alive" /\ ~PingDue)
    BY <1>9 DEF NoPing, Ping, PingTimesOut
  <2>2. sinceWrite' < Interval
    BY <1>2, <2>1, Due
  <2>3. left' \in Nat /\ ProcessTime'
    BY <1>1, <1>2, <2>1, <2>2
  <2>4. QED
    BY <1>4, <2>3
<1>10. CASE PingBlocks
  <2>1. pc = "keep_alive" /\ pc' = "ping" /\ left' = Timeout /\ ~alive
    BY <1>10 DEF PingBlocks
  <2>2. left' \in Nat /\ ProcessTime'
    BY <1>1, <1>2, <2>1
  <2>3. QED
    BY <1>4, <2>2
<1>11. CASE PongOverdue \/ LoopFails
  <2>1. pc \in {"select", "lock", "yield", "keep_alive", "ping"} /\ pc' = "exit" /\ left' \in {0, left}
    BY <1>11 DEF PongOverdue, LoopFails
  <2>2. left' \in Nat /\ ProcessTime'
    BY <1>1, <1>2, <2>1
  <2>3. QED
    BY <1>4, <2>2
<1>12. QED
  BY <1>5, <1>6, <1>7, <1>8, <1>9, <1>10, <1>11

\* The publishing task takes a step.
LEMMA CallerKeeps ==
    ASSUME TimeInv,
           \/ Call \/ Rejected \/ PublishQos0 \/ PublishQos1 \/ PublishBlocks
           \/ ReadsReply \/ PublishFails \/ PublishTakenForDone
    PROVE  TimeInv'
<1> USE Durations DEF Looping, Connected
<1>1. /\ UNCHANGED <<now, pc, left, alive>>
      /\ Written \/ UNCHANGED <<deadline, sinceWrite>>
  <2>1. CASE ReadsReply \/ PublishFails \/ PublishTakenForDone
    BY <2>1, Reading DEF ReadsReply, PublishFails, PublishTakenForDone, process, network, timer
  <2>2. CASE Call \/ Rejected \/ PublishQos0 \/ PublishQos1 \/ PublishBlocks
    BY <2>2 DEF Call, Rejected, PublishQos0, PublishQos1, PublishBlocks, process, network, timer
  <2>3. QED
    BY <2>1, <2>2
<1>2. /\ deadline' \in 0..(Modulus - 1) /\ (sinceWrite' = 0 \/ sinceWrite' = sinceWrite)
      /\ Written => sinceWrite' = 0
      /\ pc # "off" => Difference'
  BY <1>1, TimerKept
<1>3. CASE Call \/ Rejected
  BY <1>3 DEF Call, Rejected, CallerOwns, process, timer, network, TimeInv, Types, ProcessTime,
              CallerTime, Difference
<1>4. CASE ReadsReply \/ PublishFails \/ PublishTakenForDone
  <2>1. /\ caller \in {"reply", "write"} /\ caller' \in {"idle", caller}
        /\ callerLeft' = callerLeft
    BY <1>4 DEF ReadsReply, PublishFails, PublishTakenForDone
  <2>2. pc # "off"
    BY <2>1 DEF TimeInv, CallerTime
  <2>3. QED
    BY <1>1, <1>2, <2>1, <2>2 DEF TimeInv, Types, ProcessTime, CallerTime
<1>5. CASE PublishQos0 \/ PublishQos1
  <2>1. /\ pc \in {"callback", "select"} /\ Written
        /\ \/ caller' = "idle" /\ callerLeft' = callerLeft
           \/ caller' = "reply" /\ callerLeft' = Timeout
    BY <1>5 DEF PublishQos0, PublishQos1, CallerOwns, MainFree
  <2>2. QED
    BY <1>1, <1>2, <2>1 DEF TimeInv, Types, ProcessTime, CallerTime
<1>6. CASE PublishBlocks
  <2>1. /\ pc \in {"callback", "select"} /\ ~alive
        /\ UNCHANGED <<deadline, sinceWrite>>
        /\ caller' = "write" /\ callerLeft' = Timeout
    BY <1>6 DEF PublishBlocks, CallerOwns, MainFree, timer
  <2>2. sinceWrite + Timeout < LongRound
    BY <2>1 DEF TimeInv, Types, ProcessTime
  <2>3. QED
    BY <1>1, <1>2, <2>1, <2>2 DEF TimeInv, Types, ProcessTime, CallerTime
<1>7. QED
  BY <1>3, <1>4, <1>5, <1>6

\* The times stay within their bounds.
LEMMA TimeInvStep == TimeInv /\ [Next]_vars => TimeInv'
<1> SUFFICES ASSUME TimeInv, [Next]_vars PROVE TimeInv'
  OBVIOUS
<1>1. CASE PeerPublishes \/ ArriveInPart \/ Arrive \/ PeerDies \/ UNCHANGED vars
  <2>1. /\ UNCHANGED <<now, deadline, sinceWrite, pc, left, caller, callerLeft>>
        /\ alive' => alive
    BY <1>1 DEF PeerPublishes, ArriveInPart, Arrive, PeerDies, vars, process, publisher, timer,
                network
  <2>2. QED
    BY <2>1 DEF TimeInv, Types, ProcessTime, CallerTime, Difference, Connected
<1>2. QED
  BY <1>1, TickStep, ConnectKeeps, LoopKeeps, CallerKeeps DEF Next

\* Nothing is measured before the first connection.
LEMMA TimeInvInit == Init => TimeInv
BY Durations DEF Init, TimeInv, Types, ProcessTime, CallerTime, Difference, Connected, Looping

\* The bounds on the time since the last packet hold at every place.
THEOREM TimesBounded == Spec => []TimeInv
BY TimeInvInit, TimeInvStep, PTL DEF Spec

\* The timer of esp_lwmqtt.c reads true although the clock wraps, for any width
\* of it that holds twice the longest time measured.
THEOREM TimerReadsTrue == Spec => []TimerTrue
<1>1. TimeInv => TimerTrue
  BY ReadsTrue, Bounded DEF TimeInv, TimerTrue, Connected, Looping
<1>2. QED
  BY TimesBounded, <1>1, PTL

\* A living peer hears from the client within one interval, one select and one
\* callback, and one Timeout more after a yield that waits for the rest of a packet,
\* whatever a command does with the mutex meanwhile.
THEOREM PeerHearsInTime == Spec => []WritesInTime
<1>1. TimeInv => WritesInTime
  <2> SUFFICES ASSUME TimeInv, pc \in Looping, alive
               PROVE  sinceWrite < HearTime + IF pc \in {"yield", "keep_alive"} THEN Timeout ELSE 0
    BY DEF WritesInTime
  <2>1. HearTime = Round
    BY Durations DEF HearTime
  <2>2. QED
    BY <2>1, Durations DEF TimeInv, Types, ProcessTime, Looping
<1>2. QED
  BY TimesBounded, <1>1, PTL

-----------------------------------------------------------------------------
(***************************************************************************)
(* The packets under way, and the yield that reads them.                   *)
(***************************************************************************)
Kinds == {"connack", "pong", "puback", "message"}
Messages == [type : Kinds, age : Nat]
Queued == travel \in Seq(Messages) /\ inbox \in Seq(Kinds)

\* Packets come in order and in time.
InOrder == \A i, j \in 1..Len(travel) : i <= j => travel[j].age <= travel[i].age
InTime == \A i \in 1..Len(travel) : travel[i].age <= MaxDelay

NetInv == Queued /\ InOrder /\ InTime

\* What an empty queue and one with a packet on its way are.
LEMMA Empty == << >> \in Seq(Messages) /\ << >> \in Seq(Kinds) /\ Len(<< >>) = 0
OBVIOUS

\* A packet that is taken from those under way.
LEMMA Arrived ==
    ASSUME Queued, travel # <<>>
    PROVE  /\ Tail(travel) \in Seq(Messages) /\ Head(travel) \in Messages
           /\ Head(travel) = travel[1] /\ 1 \in 1..Len(travel)
           /\ Len(Tail(travel)) = Len(travel) - 1 /\ Len(travel) \in Nat
           /\ \A i \in 1..Len(Tail(travel)) : Tail(travel)[i] = travel[i + 1]
<1>1. /\ travel \in Seq(Messages) /\ travel # <<>>
  BY DEF Queued
<1>2. QED
  BY ONLY <1>1

\* A packet that is taken from those that have arrived.
LEMMA Taken ==
    ASSUME Queued, inbox # <<>>
    PROVE  /\ Tail(inbox) \in Seq(Kinds) /\ Head(inbox) = inbox[1]
           /\ Len(Tail(inbox)) = Len(inbox) - 1 /\ Len(inbox) \in Nat /\ Len(inbox) > 0
           /\ \A i \in 1..Len(Tail(inbox)) : Tail(inbox)[i] = inbox[i + 1]
<1>1. inbox \in Seq(Kinds) /\ inbox # <<>>
  BY DEF Queued
<1>2. QED
  BY ONLY <1>1

\* A packet that joins those that have arrived.
LEMMA Joined ==
    ASSUME Queued, NEW type \in Kinds, inbox' = Append(inbox, type)
    PROVE  /\ inbox' \in Seq(Kinds) /\ Len(inbox) \in Nat /\ Len(inbox') = Len(inbox) + 1
           /\ inbox' # <<>>
           /\ \A i \in 1..Len(inbox) : inbox'[i] = inbox[i]
           /\ inbox'[Len(inbox) + 1] = type
<1>1. inbox \in Seq(Kinds)
  BY DEF Queued
<1>2. QED
  BY ONLY <1>1, inbox' = Append(inbox, type)

\* What appending a packet leaves.
LEMMA Sent ==
    ASSUME Queued, NEW type \in Kinds, NEW q, q = Append(travel, [type |-> type, age |-> 0])
    PROVE  /\ q \in Seq(Messages) /\ Len(travel) \in Nat /\ Len(q) = Len(travel) + 1
           /\ \A i \in 1..Len(travel) : q[i] = travel[i]
           /\ q[Len(travel) + 1] = [type |-> type, age |-> 0]
           /\ \A i \in 1..Len(travel) : travel[i] \in Messages
<1>1. [type |-> type, age |-> 0] \in Messages
  BY DEF Messages
<1>2. travel \in Seq(Messages)
  BY DEF Queued
<1>3. QED
  BY ONLY <1>1, <1>2, q = Append(travel, [type |-> type, age |-> 0])

\* Ages are numbers.
LEMMA Ages == ASSUME Queued PROVE \A i \in 1..Len(travel) : travel[i].age \in Nat
<1>1. \A i \in 1..Len(travel) : travel[i] \in Messages
  BY DEF Queued
<1>2. QED
  BY <1>1 DEF Messages

\* Something written now has its answer behind the others.
LEMMA NetSent ==
    ASSUME NetInv, NEW type \in Kinds, Answered(type), inbox' = inbox
    PROVE  NetInv'
<1>1. CASE travel' = travel
  BY <1>1 DEF NetInv, Queued, InOrder, InTime
<1>2. CASE travel' = Append(travel, [type |-> type, age |-> 0])
  <2>1. /\ travel' \in Seq(Messages) /\ Len(travel) \in Nat /\ Len(travel') = Len(travel) + 1
        /\ \A i \in 1..Len(travel) : travel'[i] = travel[i]
        /\ travel'[Len(travel) + 1] = [type |-> type, age |-> 0]
    BY <1>2, Sent DEF NetInv
  <2>2. \A i \in 1..Len(travel) : travel[i].age \in Nat
    BY Ages DEF NetInv
  <2>3. InOrder'
    BY <2>1, <2>2 DEF NetInv, InOrder
  <2>4. InTime'
    BY <2>1, DurationsAssumption DEF NetInv, InTime
  <2>5. QED
    BY <2>1, <2>3, <2>4 DEF NetInv, Queued
<1>3. QED
  BY <1>1, <1>2 DEF Answered

\* All packets under way grow older by one.
LEMMA Aged ==
    ASSUME Queued, Tick
    PROVE  /\ Len(travel) \in Nat /\ Len(travel') = Len(travel) /\ travel' \in Seq(Messages)
           /\ \A i \in 1..Len(travel) : /\ travel'[i].type = travel[i].type
                                        /\ travel'[i].age = travel[i].age + 1
                                        /\ travel[i].age \in Nat
<1>1. travel' = [i \in 1..Len(travel) |-> [travel[i] EXCEPT !.age = @ + 1]]
  BY DEF Tick
<1>2. /\ travel \in Seq(Messages) /\ Len(travel) \in Nat /\ Len(travel') = Len(travel)
      /\ \A i \in 1..Len(travel) : travel'[i] = [travel[i] EXCEPT !.age = @ + 1]
  BY <1>1 DEF Queued
<1>3. \A i \in 1..Len(travel) : travel[i] \in Messages
  BY <1>2
<1>4. \A r \in Messages : LET n == [r EXCEPT !.age = @ + 1]
                          IN n \in Messages /\ n.age = r.age + 1 /\ n.type = r.type
  BY DEF Messages
<1>5. \A i \in 1..Len(travel) : /\ travel'[i] \in Messages /\ travel'[i].type = travel[i].type
                                /\ travel'[i].age = travel[i].age + 1 /\ travel[i].age \in Nat
  BY <1>2, <1>3, <1>4 DEF Messages
<1>6. travel' = [i \in 1..Len(travel) |-> travel'[i]]
  BY <1>1
<1>7. travel' \in Seq(Messages)
  BY <1>2, <1>5, <1>6
<1>8. QED
  BY <1>2, <1>5, <1>7

\* Time passes only while the oldest packet under way is not yet due.
LEMMA NetTick == ASSUME NetInv, Tick PROVE NetInv'
<1>1. ~Urgent /\ inbox' = inbox
  BY DEF Tick
<1>2. /\ Len(travel) \in Nat /\ Len(travel') = Len(travel) /\ travel' \in Seq(Messages)
      /\ \A i \in 1..Len(travel) : /\ travel'[i].age = travel[i].age + 1
                                   /\ travel[i].age \in Nat
  BY Aged DEF NetInv
<1>3. InOrder'
  BY <1>2 DEF NetInv, InOrder
<1>4. InTime'
  <2>1. travel # <<>> => travel[1].age # MaxDelay
    <3>1. travel \in Seq(Messages)
      BY DEF NetInv, Queued
    <3>2. travel # <<>> => Head(travel) = travel[1]
      BY <3>1
    <3>3. QED
      BY <1>1, <3>2 DEF Urgent
  <2>2. \A i \in 1..Len(travel) : travel[i].age <= travel[1].age /\ travel[1].age < MaxDelay
    <3>1. Len(travel) > 0 => travel # <<>>
      BY Empty
    <3>2. QED
      BY <1>2, <2>1, <3>1, DurationsAssumption DEF NetInv, InOrder, InTime
  <2>3. QED
    BY <1>2, <2>2, DurationsAssumption, SMTT(60) DEF InTime
<1>5. QED
  BY <1>1, <1>2, <1>3, <1>4 DEF NetInv, Queued

\* An arrival leaves the others in order.
LEMMA NetArrive == ASSUME NetInv, Arrive PROVE NetInv'
<1>1. travel # <<>> /\ travel' = Tail(travel) /\ inbox' = Append(inbox, Head(travel).type)
  BY DEF Arrive
<1>2. /\ travel' \in Seq(Messages) /\ Head(travel) \in Messages
      /\ Len(travel') = Len(travel) - 1 /\ Len(travel) \in Nat
      /\ \A i \in 1..Len(travel') : travel'[i] = travel[i + 1]
  BY <1>1, Arrived DEF NetInv
<1>3. Head(travel).type \in Kinds
  BY <1>2 DEF Messages
<1>4. inbox' \in Seq(Kinds)
  BY <1>1, <1>3, Joined DEF NetInv
<1>5. InOrder' /\ InTime'
  BY <1>2, SMTT(60) DEF NetInv, InOrder, InTime
<1>6. QED
  BY <1>2, <1>4, <1>5 DEF NetInv, Queued

\* The packets under way stay in order and in time at every step.
LEMMA NetStep == ASSUME NetInv, [Next]_vars PROVE NetInv'
<1> USE DEF NetInv, Queued, InOrder, InTime
<1>1. ASSUME travel' \in {travel, <<>>}, inbox' \in {inbox, <<>>} PROVE NetInv'
  <2>1. CASE travel' = travel
    BY <1>1, <2>1, Empty
  <2>2. CASE travel' = <<>>
    <3>1. Len(travel') = 0 /\ travel' \in Seq(Messages)
      BY <2>2, Empty
    <3>2. inbox' \in Seq(Kinds)
      BY <1>1, Empty
    <3>3. QED
      BY <3>1, <3>2
  <2>3. QED
    BY <1>1, <2>1, <2>2
<1>2. ASSUME PacketRead, inbox # <<>> PROVE NetInv'
  <2>1. travel' = travel /\ inbox' = Tail(inbox)
    BY <1>2 DEF PacketRead
  <2>2. QED
    BY <1>2, <2>1, Taken
<1>3. CASE ConnectBegins
  <2> DEFINE m == [type |-> "connack", age |-> 0]
  <2>1. m \in Messages
    BY DEF Messages, Kinds
  <2>2. inbox' = <<>> /\ travel' = <<m>>
    BY <1>3 DEF ConnectBegins
  <2>3. \A i \in 1..Len(travel') : travel'[i].age = 0
    BY <2>2
  <2>4. travel' \in Seq(Messages)
    BY <2>1, <2>2
  <2>5. QED
    BY <2>2, <2>3, <2>4, DurationsAssumption
<1> HIDE DEF NetInv, Queued, InOrder, InTime
<1>4. CASE ConnectSucceeds
  BY <1>1, <1>2, <1>4 DEF ConnectSucceeds, BrokenOff
<1>5. CASE YieldReads \/ ReadsReply
  BY <1>2, <1>5 DEF YieldReads, ReadsReply
<1>6. CASE Ping
  <2>1. Answered("pong") /\ inbox' = inbox /\ "pong" \in Kinds
    BY <1>6 DEF Ping, Kinds
  <2>2. QED
    BY <2>1, NetSent
<1>7. CASE PublishQos1
  <2>1. Answered("puback") /\ inbox' = inbox /\ "puback" \in Kinds
    BY <1>7 DEF PublishQos1, Kinds
  <2>2. QED
    BY <2>1, NetSent
<1>8. CASE PeerPublishes
  <2>1. Answered("message") /\ inbox' = inbox /\ "message" \in Kinds
    BY <1>8 DEF PeerPublishes, Kinds
  <2>2. QED
    BY <2>1, NetSent
<1>9. CASE ConnectFails \/ Exit \/ YieldTimesOut \/ PeerDies \/ ArriveInPart
  BY <1>1, <1>9 DEF ConnectFails, Exit, YieldTimesOut, BrokenOff, PeerDies, ArriveInPart
<1>10. CASE \/ CallbackReturns \/ SelectReturns \/ Peek \/ NoPing \/ PingBlocks
            \/ PingTimesOut \/ PongOverdue \/ LoopFails
  BY <1>1, <1>10 DEF CallbackReturns, SelectReturns, Peek, NoPing, PingBlocks, PingTimesOut,
                     PongOverdue, LoopFails, network
<1>11. CASE \/ Call \/ Rejected \/ PublishQos0 \/ PublishBlocks \/ PublishFails
            \/ PublishTakenForDone \/ UNCHANGED vars
  BY <1>1, <1>11 DEF Call, Rejected, PublishQos0, PublishBlocks, PublishFails,
                     PublishTakenForDone, BrokenOff, network, vars
<1>12. QED
  BY <1>3, <1>4, <1>5, <1>6, <1>7, <1>8, <1>9, <1>10, <1>11, NetTick, NetArrive DEF Next

\* A yield has never more packets before it than have begun to arrive.
YieldInv ==
    /\ unread \in Nat
    /\ pc = "yield" => Data /\ unread <= Len(inbox) + IF cut THEN 1 ELSE 0

\* What one packet read leaves of that.
LEMMA YieldReading == ASSUME NetInv, YieldInv, YieldReads PROVE YieldInv'
<1>1. /\ inbox # <<>> /\ inbox' = Tail(inbox)
      /\ cut' = cut \/ cut'
      /\ \/ pc' = "yield" /\ unread' = Less(unread) /\ (unread > 1 \/ inbox' # <<>> \/ cut')
         \/ pc' = "keep_alive" /\ unread' = 0
  BY DEF YieldReads, PacketRead
<1>2. /\ Len(inbox') = Len(inbox) - 1 /\ Len(inbox) \in Nat /\ Len(inbox) > 0
      /\ inbox' = <<>> => Len(inbox') = 0
  BY <1>1, Taken, Empty DEF NetInv
<1>3. unread <= Len(inbox) + IF cut THEN 1 ELSE 0
  BY DEF YieldInv, YieldReads
<1>4. unread \in Nat /\ Less(unread) = IF unread = 0 THEN 0 ELSE unread - 1
  BY DEF YieldInv, Less
<1>5. CASE pc' = "keep_alive"
  BY <1>1, <1>5 DEF YieldInv
<1>6. CASE pc' = "yield"
  <2>1. Less(unread) <= Len(inbox') + IF cut' THEN 1 ELSE 0
    BY <1>1, <1>2, <1>3, <1>4
  <2>2. inbox' # <<>> \/ cut'
    <3>1. CASE unread > 1 /\ inbox' = <<>> /\ ~cut
      <4>1. Len(inbox) = 1
        BY <1>2, <3>1
      <4>2. unread <= 1
        BY <1>3, <3>1, <4>1
      <4>3. QED
        BY <1>4, <3>1, <4>2
    <3>2. QED
      BY <1>1, <1>6, <3>1
  <2>3. Less(unread) \in Nat
    BY <1>4
  <2>4. QED
    BY <1>1, <1>6, <2>1, <2>2, <2>3 DEF YieldInv, Data
<1>7. QED
  BY <1>1, <1>5, <1>6

\* The main mutex keeps the commands away from what the peek has counted.
LEMMA YieldStep == ASSUME TimeInv, NetInv, YieldInv, [Next]_vars PROVE YieldInv'
<1>1. Len(inbox) \in Nat
  BY DEF NetInv, Queued
<1>2. ASSUME pc' # "yield", unread' \in {0, unread} PROVE YieldInv'
  BY <1>2 DEF YieldInv
<1>3. ASSUME pc' = pc, UNCHANGED <<inbox, unread>>, cut' = cut \/ cut' PROVE YieldInv'
  BY <1>1, <1>3 DEF YieldInv, Data
<1>4. \/ ConnectBegins \/ ConnectSucceeds \/ ConnectFails \/ CallbackReturns \/ SelectReturns
      \/ YieldTimesOut \/ NoPing \/ Ping \/ PingBlocks \/ PingTimesOut \/ PongOverdue
      \/ LoopFails \/ Exit
      => pc' # "yield" /\ unread' \in {0, unread}
  BY DEF ConnectBegins, ConnectSucceeds, ConnectFails, CallbackReturns, SelectReturns,
         YieldTimesOut, NoPing, Ping, PingBlocks, PingTimesOut, PongOverdue, LoopFails, Exit
<1>5. \/ Call \/ Tick \/ PeerPublishes \/ ArriveInPart \/ PeerDies \/ UNCHANGED vars
      => pc' = pc /\ UNCHANGED <<inbox, unread>> /\ (cut' = cut \/ cut')
  BY DEF Call, Tick, PeerPublishes, ArriveInPart, PeerDies, process, network, vars
<1>6. \/ Rejected \/ PublishQos0 \/ PublishQos1 \/ PublishBlocks
      \/ ReadsReply \/ PublishFails \/ PublishTakenForDone
      => pc' # "yield" /\ unread' = unread
  BY DEF Rejected, PublishQos0, PublishQos1, PublishBlocks, ReadsReply, PublishFails,
         PublishTakenForDone, CallerOwns, MainFree, process, TimeInv, ProcessTime
<1>7. CASE Peek
  <2>1. \/ /\ pc' = "yield" /\ unread' = Len(inbox) + IF cut THEN 1 ELSE 0
           /\ Data /\ UNCHANGED <<inbox, cut>>
        \/ pc' = "keep_alive" /\ unread' = unread
    BY <1>7 DEF Peek, Peeked, network
  <2>2. QED
    BY <1>1, <2>1 DEF YieldInv, Data
<1>8. CASE Arrive
  <2>1. /\ travel # <<>> /\ inbox' = Append(inbox, Head(travel).type) /\ ~cut'
        /\ UNCHANGED <<pc, unread>>
    BY <1>8 DEF Arrive, process
  <2>2. Head(travel).type \in Kinds
    BY <2>1, Arrived DEF NetInv, Messages
  <2>3. Len(inbox') = Len(inbox) + 1 /\ inbox' # <<>>
    BY <2>1, <2>2, Joined DEF NetInv
  <2>4. QED
    BY <1>1, <2>1, <2>3 DEF YieldInv, Data
<1>9. QED
  BY <1>2, <1>3, <1>4, <1>5, <1>6, <1>7, <1>8, YieldReading DEF Next

LEMMA NetAndYieldInit == Init => NetInv /\ YieldInv
BY Empty DEF Init, NetInv, Queued, InOrder, InTime, YieldInv

\* The packets, and the yield that reads them, at every place.
THEOREM PacketsCounted == Spec => [](NetInv /\ YieldInv)
<1>1. TimeInv /\ NetInv /\ YieldInv /\ [Next]_vars => NetInv' /\ YieldInv'
  BY NetStep, YieldStep
<1>2. QED
  BY <1>1, NetAndYieldInit, TimesBounded, PTL DEF Spec

\* A yield always has something to read: what select saw and a command has read in the
\* meantime is never waited for (esp_mqtt.c:254-256), however many packets, whole or in
\* part, there are.
THEOREM YieldNeverIdle == Spec => []YieldHasData
<1>1. YieldInv => YieldHasData
  BY DEF YieldInv, YieldHasData
<1>2. QED
  BY <1>1, PacketsCounted, PTL

-----------------------------------------------------------------------------
(***************************************************************************)
(* The pong that is awaited.                                               *)
(***************************************************************************)
\* The pong has arrived, is among the packets the yield has yet to read, or has been
\* on its way since the last write or longer.
PongArrived == \E i \in 1..Len(inbox) : inbox[i] = "pong"
PongUnread == \E i \in 1..Len(inbox) : inbox[i] = "pong" /\ i <= unread
PongTravels == \E i \in 1..Len(travel) : travel[i].type = "pong" /\ travel[i].age >= sinceWrite

\* A pong that is due from a living peer exists; a process whose select saw nothing has
\* time left to wait for it, and one that yields reads it if it has not.
PongPlaces ==
    /\ pc # "connack"
    /\ Connected => PongArrived \/ PongTravels
    /\ pc = "lock" /\ ~available => sinceWrite < Interval
    /\ pc = "yield" => PongUnread \/ sinceWrite <= MaxDelay
    /\ pc = "keep_alive" => sinceWrite < Interval
PongAwaited == alive /\ framed /\ pongPending => PongPlaces

PongPremise == TimeInv /\ NetInv /\ YieldInv /\ PongAwaited /\ MaxDelay < Interval

\* A pong on its way is no older than MaxDelay, so the timer does not run out
\* before it is there.
LEMMA PongInTime ==
    ASSUME TimeInv, NetInv, PongTravels PROVE sinceWrite <= MaxDelay
<1>1. PICK i \in 1..Len(travel) : travel[i].age >= sinceWrite
  BY DEF PongTravels
<1>2. travel[i].age <= MaxDelay /\ travel[i].age \in Nat
  BY Ages DEF NetInv, InTime
<1>3. QED
  BY <1>1, <1>2, DurationsAssumption DEF TimeInv, Types

\* Reading a packet that is no pong leaves the pong where it is, one place ahead.
LEMMA PongReading ==
    ASSUME NetInv, YieldInv, PacketRead, inbox # <<>>, framed', pongPending'
    PROVE  /\ framed /\ pongPending /\ sinceWrite' = sinceWrite
           /\ PongArrived => PongArrived'
           /\ PongTravels => PongTravels'
           /\ PongUnread => unread > 1 /\ (unread' = unread - 1 => PongUnread')
<1>1. /\ framed /\ pongPending /\ Head(inbox) # "pong" /\ inbox' = Tail(inbox)
      /\ travel' = travel /\ sinceWrite' = sinceWrite
  BY DEF PacketRead, StillPending, timer
<1>2. /\ Len(inbox') = Len(inbox) - 1 /\ Len(inbox) \in Nat
      /\ \A i \in 1..Len(inbox') : inbox'[i] = inbox[i + 1]
      /\ Head(inbox) = inbox[1]
  BY <1>1, Taken DEF NetInv
<1>3. \A i \in 1..Len(inbox) : inbox[i] = "pong" =>
          i > 1 /\ i - 1 \in 1..Len(inbox') /\ inbox'[i - 1] = "pong"
  <2> SUFFICES ASSUME NEW i \in 1..Len(inbox), inbox[i] = "pong"
               PROVE  i > 1 /\ i - 1 \in 1..Len(inbox') /\ inbox'[i - 1] = "pong"
    OBVIOUS
  <2>1. i # 1
    BY <1>1, <1>2
  <2>2. i > 1 /\ i - 1 \in 1..Len(inbox') /\ (i - 1) + 1 = i
    BY <1>2, <2>1
  <2>3. QED
    BY <1>2, <2>2
<1>4. PongArrived => PongArrived'
  BY <1>3 DEF PongArrived
<1>5. PongTravels => PongTravels'
  BY <1>1 DEF PongTravels
<1>6. ASSUME PongUnread PROVE unread > 1 /\ (unread' = unread - 1 => PongUnread')
  <2>1. PICK i \in 1..Len(inbox) : inbox[i] = "pong" /\ i <= unread
    BY <1>6 DEF PongUnread
  <2>2. i > 1 /\ i - 1 \in 1..Len(inbox') /\ inbox'[i - 1] = "pong"
    BY <1>3, <2>1
  <2>3. unread > 1 /\ (unread' = unread - 1 => i - 1 <= unread')
    BY <2>1, <2>2, <1>2 DEF YieldInv
  <2>4. QED
    BY <2>1, <2>2, <2>3 DEF PongUnread
<1>7. QED
  BY <1>1, <1>4, <1>5, <1>6

\* Something written, or sent by the peer, leaves a pong on its way where it is.
LEMMA PongSent ==
    ASSUME NetInv, NEW type \in Kinds, Answered(type),
           sinceWrite' = 0 \/ sinceWrite' = sinceWrite
    PROVE  /\ PongTravels => PongTravels'
           /\ alive /\ type = "pong" /\ sinceWrite' = 0 => PongTravels'
<1>1. CASE travel' = travel /\ ~alive
  <2>1. \A i \in 1..Len(travel) : travel[i].age \in Nat
    BY Ages DEF NetInv
  <2>2. QED
    BY <1>1, <2>1 DEF PongTravels
<1>2. CASE travel' = Append(travel, [type |-> type, age |-> 0])
  <2>1. /\ Len(travel) \in Nat /\ Len(travel') = Len(travel) + 1
        /\ \A i \in 1..Len(travel) : travel'[i] = travel[i]
        /\ travel'[Len(travel) + 1] = [type |-> type, age |-> 0]
    BY <1>2, Sent DEF NetInv
  <2>2. \A i \in 1..Len(travel) : travel[i].age \in Nat
    BY Ages DEF NetInv
  <2>3. PongTravels => PongTravels'
    BY <2>1, <2>2 DEF PongTravels
  <2>4. ASSUME type = "pong", sinceWrite' = 0 PROVE PongTravels'
    <3>1. Len(travel) + 1 \in 1..Len(travel')
      BY <2>1
    <3>2. travel'[Len(travel) + 1].type = "pong" /\ travel'[Len(travel) + 1].age >= sinceWrite'
      BY <2>1, <2>4
    <3>3. QED
      BY <3>1, <3>2 DEF PongTravels
  <2>5. QED
    BY <2>3, <2>4
<1>3. QED
  BY <1>1, <1>2 DEF Answered

-----------------------------------------------------------------------------
\* Time passes.
LEMMA PongTick == ASSUME PongPremise, Tick PROVE PongAwaited'
<1> USE DEF PongPremise
<1>1. ~Urgent /\ UNCHANGED <<pongPending, pc, available, unread, caller, alive, inbox, framed>>
  BY DEF Tick
<1> SUFFICES ASSUME alive, framed, pongPending PROVE PongPlaces'
  BY <1>1 DEF PongAwaited
<1>2. PongPlaces
  BY DEF PongAwaited
<1>3. Connected => sinceWrite' = sinceWrite + 1 /\ sinceWrite \in Nat
  BY DEF Tick, TimeInv, Types
<1>4. PongArrived' <=> PongArrived
  BY <1>1 DEF PongArrived
<1>5. PongTravels /\ Connected => PongTravels'
  <2>1. /\ Len(travel) \in Nat /\ Len(travel') = Len(travel)
        /\ \A i \in 1..Len(travel) : /\ travel'[i].type = travel[i].type
                                     /\ travel'[i].age = travel[i].age + 1
                                     /\ travel[i].age \in Nat
    BY Aged DEF NetInv
  <2>2. QED
    BY <1>3, <2>1, SMTT(60) DEF PongTravels
<1>6. ASSUME pc = "lock", ~available PROVE sinceWrite' < Interval
  <2>1. caller = "reply" /\ callerLeft # 0
    BY <1>1, <1>6 DEF Urgent, MainFree, TimeInv, CallerTime
  <2>2. sinceWrite + callerLeft <= Timeout /\ callerLeft \in Nat /\ sinceWrite \in Nat
    BY <2>1 DEF TimeInv, CallerTime, Types
  <2>3. QED
    BY <1>3, <1>6, <2>1, <2>2, Durations DEF Connected, Looping
<1>7. ASSUME pc = "yield" PROVE sinceWrite' <= MaxDelay
  <2>1. inbox = <<>>
    BY <1>1, <1>7 DEF Urgent
  <2>2. ~PongArrived
    BY <2>1, Empty DEF PongArrived
  <2>3. PongTravels'
    BY <1>2, <1>5, <1>7, <2>2 DEF PongPlaces, Connected, Looping
  <2>4. PICK i \in 1..Len(travel') : travel'[i].age >= sinceWrite'
    BY <2>3 DEF PongTravels
  <2>5. /\ Len(travel') = Len(travel)
        /\ travel'[i].age = travel[i].age + 1 /\ travel[i].age \in Nat
    BY <2>4, Aged DEF NetInv
  <2>6. travel'[i].age <= MaxDelay
    BY <2>4, NetTick DEF NetInv, InTime
  <2>7. QED
    BY <1>3, <1>7, <2>4, <2>5, <2>6, DurationsAssumption DEF Connected, Looping
<1>8. pc # "keep_alive"
  BY <1>1 DEF Urgent
<1>9. Connected' <=> Connected
  BY <1>1 DEF Connected
<1>10. QED
  BY <1>1, <1>2, <1>4, <1>5, <1>6, <1>7, <1>8, <1>9 DEF PongPlaces

\* The connection, and the way out: a new session awaits no pong.
LEMMA PongConnect ==
    ASSUME PongPremise, ConnectBegins \/ ConnectSucceeds \/ ConnectFails \/ Exit
    PROVE  PongAwaited'
<1>1. CASE ConnectBegins
  BY <1>1 DEF ConnectBegins, PongAwaited
<1>2. CASE ConnectSucceeds
  <2> SUFFICES ASSUME alive', framed', pongPending' PROVE FALSE
    BY DEF PongAwaited
  <2>1. pc = "connack" /\ inbox # <<>> /\ PacketRead
    BY <1>2 DEF ConnectSucceeds, BrokenOff
  <2>2. framed /\ pongPending /\ alive
    BY <2>1, PongReading DEF PongPremise, PacketRead
  <2>3. QED
    BY <2>1, <2>2 DEF PongPremise, PongAwaited, PongPlaces
<1>3. CASE ConnectFails \/ Exit
  BY <1>3 DEF ConnectFails, Exit, PongAwaited, PongPlaces, Connected, Looping
<1>4. QED
  BY <1>1, <1>2, <1>3

\* A step that leaves the pong and the timer where they are, at whatever place.
LEMMA PongStays ==
    ASSUME UNCHANGED <<sinceWrite, travel, inbox>>, Connected' => Connected, PongPlaces
    PROVE  Connected' => PongArrived' \/ PongTravels'
BY DEF PongPlaces, PongArrived, PongTravels

\* Select has seen the pong, or there is time left to wait for it; so has the peek.
LEMMA PongSeen == ASSUME PongPremise, SelectReturns \/ Peek PROVE PongAwaited'
<1> USE DEF PongPremise
<1>1. UNCHANGED <<alive, framed, pongPending, sinceWrite, travel, inbox, cut>>
  BY DEF SelectReturns, Peek, timer, network
<1>2. Connected /\ Connected'
  BY DEF SelectReturns, Peek, Connected, Looping
<1> SUFFICES ASSUME alive, framed, pongPending PROVE PongPlaces'
  BY <1>1 DEF PongAwaited
<1>3. PongPlaces
  BY DEF PongAwaited
<1>4. PongArrived' \/ PongTravels'
  BY <1>1, <1>2, <1>3, PongStays
<1>5. PongArrived \/ sinceWrite <= MaxDelay
  BY <1>2, <1>3, PongInTime DEF PongPlaces
<1>6. sinceWrite <= MaxDelay => sinceWrite < Interval
  BY Durations, DurationsAssumption DEF TimeInv, Types
<1>7. ~Data => ~PongArrived
  BY Empty DEF Data, PongArrived
<1>8. CASE SelectReturns
  <2>1. pc' = "lock" /\ (available' <=> Data)
    BY <1>8 DEF SelectReturns
  <2>2. QED
    BY <1>1, <1>2, <1>4, <1>5, <1>6, <1>7, <2>1 DEF PongPlaces
<1>9. CASE Peek
  <2>1. CASE pc' = "yield"
    <3>1. unread' = Len(inbox) + (IF cut THEN 1 ELSE 0)
      BY <1>9, <2>1 DEF Peek
    <3>2. PongArrived => PongUnread'
      <4>1. Len(inbox) \in Nat
        BY DEF NetInv, Queued
      <4>2. QED
        BY <1>1, <3>1, <4>1 DEF PongArrived, PongUnread
    <3>3. QED
      BY <1>1, <1>4, <1>5, <2>1, <3>2 DEF PongPlaces
  <2>2. CASE pc' = "keep_alive"
    <3>1. pc = "lock" /\ ~(available /\ Data)
      BY <1>9, <2>2 DEF Peek, Peeked
    <3>2. sinceWrite < Interval
      BY <1>3, <1>5, <1>6, <1>7, <3>1 DEF PongPlaces
    <3>3. QED
      BY <1>1, <1>4, <2>2, <3>2 DEF PongPlaces
  <2>3. QED
    BY <1>9, <2>1, <2>2 DEF Peek
<1>10. QED
  BY <1>8, <1>9

\* The yield has read the pong when it is over, or there is time left to wait for it.
LEMMA PongYield == ASSUME PongPremise, YieldReads \/ YieldTimesOut PROVE PongAwaited'
<1> USE DEF PongPremise
<1> SUFFICES ASSUME alive', framed', pongPending' PROVE PongPlaces'
  BY DEF PongAwaited
<1>1. YieldReads /\ PacketRead /\ inbox # <<>> /\ pc = "yield"
  BY DEF YieldReads, YieldTimesOut, BrokenOff
<1>2. /\ framed /\ pongPending /\ sinceWrite' = sinceWrite
      /\ PongArrived => PongArrived'
      /\ PongTravels => PongTravels'
      /\ PongUnread => unread > 1 /\ (unread' = unread - 1 => PongUnread')
  BY <1>1, PongReading
<1>3. PongPlaces /\ alive
  BY <1>1, <1>2 DEF PacketRead, PongAwaited
<1>4. sinceWrite <= MaxDelay => sinceWrite < Interval
  BY Durations, DurationsAssumption DEF TimeInv, Types
<1>5. \/ pc' = "yield" /\ unread > 1 /\ unread' = unread - 1
      \/ pc' = "keep_alive" /\ ~(unread > 1)
  BY <1>1, <1>2 DEF YieldReads, Less, YieldInv
<1>6. PongUnread \/ sinceWrite <= MaxDelay
  BY <1>1, <1>3 DEF PongPlaces
<1>7. PongArrived' \/ PongTravels'
  BY <1>1, <1>2, <1>3 DEF PongPlaces, Connected, Looping
<1>8. QED
  BY <1>2, <1>4, <1>5, <1>6, <1>7 DEF PongPlaces

\* The keep-alive, and the steps that wait for nothing.
LEMMA PongLoop ==
    ASSUME PongPremise,
           \/ CallbackReturns \/ NoPing \/ Ping \/ PingBlocks \/ PingTimesOut
           \/ PongOverdue \/ LoopFails
    PROVE  PongAwaited'
<1> USE DEF PongPremise
<1>1. CASE Ping
  <2>1. Answered("pong") /\ sinceWrite' = 0 /\ pc' = "callback" /\ alive' = alive
    BY <1>1 DEF Ping, Written
  <2>2. "pong" \in Kinds
    BY DEF Kinds
  <2>3. alive => PongTravels'
    BY <2>1, <2>2, PongSent
  <2>4. QED
    BY <2>1, <2>3 DEF PongAwaited, PongPlaces
<1>2. CASE PingBlocks \/ PingTimesOut
  <2>1. ~alive'
    BY <1>2 DEF PingBlocks, PingTimesOut, network, TimeInv, ProcessTime
  <2>2. QED
    BY <2>1 DEF PongAwaited
<1>3. CASE CallbackReturns \/ NoPing \/ PongOverdue \/ LoopFails
  <2>1. /\ UNCHANGED <<sinceWrite, travel, inbox, alive, framed, pongPending>>
        /\ pc' \in {"exit", "select", "callback"}
        /\ Connected /\ Connected'
    BY <1>3 DEF CallbackReturns, NoPing, PongOverdue, LoopFails, timer, network, Connected, Looping
  <2> SUFFICES ASSUME alive, framed, pongPending PROVE PongPlaces'
    BY <2>1 DEF PongAwaited
  <2>2. PongPlaces
    BY DEF PongAwaited
  <2>3. PongArrived' \/ PongTravels'
    BY <2>1, <2>2, PongStays
  <2>4. QED
    BY <2>1, <2>3 DEF PongPlaces
<1>4. QED
  BY <1>1, <1>2, <1>3

\* The publishing task.
LEMMA PongPublisher ==
    ASSUME PongPremise,
           \/ Call \/ Rejected \/ PublishQos0 \/ PublishQos1 \/ PublishBlocks
           \/ ReadsReply \/ PublishFails \/ PublishTakenForDone
    PROVE  PongAwaited'
<1> USE DEF PongPremise
<1> SUFFICES ASSUME alive', framed', pongPending' PROVE PongPlaces'
  BY DEF PongAwaited
<1>1. UNCHANGED <<pc, available, unread, alive>>
  <2>1. CASE ReadsReply \/ PublishFails \/ PublishTakenForDone
    BY <2>1, Reading DEF ReadsReply, PublishFails, PublishTakenForDone, process, network
  <2>2. CASE Call \/ Rejected \/ PublishQos0 \/ PublishQos1 \/ PublishBlocks
    BY <2>2 DEF Call, Rejected, PublishQos0, PublishQos1, PublishBlocks, process, network
  <2>3. QED
    BY <2>1, <2>2
<1>2. /\ framed /\ pongPending
      /\ sinceWrite' = 0 \/ sinceWrite' = sinceWrite
      /\ PongArrived => PongArrived'
      /\ PongTravels => PongTravels'
  <2>1. CASE ReadsReply
    <3>1. PacketRead /\ inbox # <<>>
      BY <2>1 DEF ReadsReply
    <3>2. QED
      BY <3>1, PongReading
  <2>2. CASE PublishQos1
    <3>1. /\ Answered("puback") /\ "puback" \in Kinds /\ sinceWrite' = 0
          /\ UNCHANGED <<inbox, framed, pongPending>>
      BY <2>2 DEF PublishQos1, Written, Kinds
    <3>2. QED
      BY <3>1, PongSent DEF PongArrived
  <2>3. CASE Call \/ Rejected \/ PublishQos0 \/ PublishBlocks \/ PublishFails \/ PublishTakenForDone
    <3>1. ~BrokenOff
      BY <1>1 DEF BrokenOff
    <3>2. /\ UNCHANGED <<travel, inbox, framed, pongPending>>
          /\ sinceWrite' = 0 \/ sinceWrite' = sinceWrite
      BY <2>3, <3>1 DEF Call, Rejected, PublishQos0, PublishBlocks, PublishFails,
                        PublishTakenForDone, Written, network, timer
    <3>3. \A i \in 1..Len(travel) : travel[i].age \in Nat
      BY Ages DEF NetInv
    <3>4. QED
      BY <3>2, <3>3 DEF PongArrived, PongTravels
  <2>4. QED
    BY <2>1, <2>2, <2>3
<1>3. PongPlaces
  BY <1>1, <1>2 DEF PongAwaited
<1>4. pc # "yield" \/ UNCHANGED <<inbox, sinceWrite>>
  <2>1. CASE Call
    BY <2>1 DEF Call, timer, network
  <2>2. CASE ~Call
    BY <2>2 DEF Rejected, PublishQos0, PublishQos1, PublishBlocks, ReadsReply, PublishFails,
                PublishTakenForDone, CallerOwns, MainFree, TimeInv, ProcessTime
  <2>3. QED
    BY <2>1, <2>2
<1>5. PongUnread /\ UNCHANGED inbox => PongUnread'
  BY <1>1 DEF PongUnread
<1>6. sinceWrite' < Interval \/ sinceWrite' = sinceWrite
  BY <1>2, Durations
<1>7. QED
  BY <1>1, <1>2, <1>3, <1>4, <1>5, <1>6 DEF PongPlaces, Connected

\* The peer and the network.
LEMMA PongNetwork ==
    ASSUME PongPremise,
           PeerPublishes \/ ArriveInPart \/ Arrive \/ PeerDies \/ UNCHANGED vars
    PROVE  PongAwaited'
<1> USE DEF PongPremise
<1> SUFFICES ASSUME alive', framed', pongPending' PROVE PongPlaces'
  BY DEF PongAwaited
<1>1. /\ UNCHANGED <<pc, available, unread, sinceWrite, framed, pongPending, alive>>
      /\ ~PeerDies
  BY DEF PeerPublishes, ArriveInPart, Arrive, PeerDies, process, timer, network, vars
<1>2. PongPlaces
  BY <1>1 DEF PongAwaited
<1>3. /\ PongArrived => PongArrived'
      /\ PongUnread => PongUnread'
      /\ PongTravels => PongArrived' \/ PongTravels'
  <2>1. CASE PeerPublishes
    <3>1. Answered("message") /\ "message" \in Kinds /\ inbox' = inbox
      BY <2>1 DEF PeerPublishes, Kinds
    <3>2. QED
      BY <1>1, <3>1, PongSent DEF PongArrived, PongUnread
  <2>2. CASE ArriveInPart \/ UNCHANGED vars
    <3>1. UNCHANGED <<travel, inbox>>
      BY <2>2 DEF ArriveInPart, vars, network
    <3>2. QED
      BY <1>1, <3>1 DEF PongArrived, PongUnread, PongTravels
  <2>3. CASE Arrive
    <3>1. /\ travel # <<>> /\ travel' = Tail(travel)
          /\ inbox' = Append(inbox, Head(travel).type)
      BY <2>3 DEF Arrive
    <3>2. /\ Head(travel) \in Messages /\ Head(travel) = travel[1]
          /\ Len(travel') = Len(travel) - 1 /\ Len(travel) \in Nat
          /\ \A i \in 1..Len(travel') : travel'[i] = travel[i + 1]
      BY <3>1, Arrived DEF NetInv
    <3>3. Head(travel).type \in Kinds
      BY <3>2 DEF Messages
    <3>4. /\ Len(inbox) \in Nat /\ Len(inbox') = Len(inbox) + 1
          /\ \A i \in 1..Len(inbox) : inbox'[i] = inbox[i]
          /\ inbox'[Len(inbox) + 1] = Head(travel).type
      BY <3>1, <3>3, Joined DEF NetInv
    <3>5. (PongArrived => PongArrived') /\ (PongUnread => PongUnread')
      BY <1>1, <3>4 DEF PongArrived, PongUnread
    <3>6. ASSUME PongTravels PROVE PongArrived' \/ PongTravels'
      <4>1. PICK i \in 1..Len(travel) : travel[i].type = "pong" /\ travel[i].age >= sinceWrite
        BY <3>6 DEF PongTravels
      <4>2. CASE i = 1
        <5>1. Len(inbox) + 1 \in 1..Len(inbox') /\ inbox'[Len(inbox) + 1] = "pong"
          BY <3>2, <3>4, <4>1, <4>2
        <5>2. QED
          BY <5>1 DEF PongArrived
      <4>3. CASE i # 1
        <5>1. i - 1 \in 1..Len(travel') /\ travel'[i - 1] = travel[i]
          BY <3>2, <4>1, <4>3
        <5>2. QED
          BY <1>1, <4>1, <5>1 DEF PongTravels
      <4>4. QED
        BY <4>2, <4>3
    <3>7. QED
      BY <3>5, <3>6
  <2>4. QED
    BY <1>1, <2>1, <2>2, <2>3
<1>4. QED
  BY <1>1, <1>2, <1>3 DEF PongPlaces, Connected

\* A living peer whose packets take less than the interval to arrive is never given up
\* for a missing pong (client.c:593-596), as long as no packet has been broken off.
THEOREM AnswersAreSeen == ASSUME MaxDelay < Interval PROVE Spec => []LivePeerKept
<1>1. Init => PongAwaited
  BY DEF Init, PongAwaited
<1>2. TimeInv /\ NetInv /\ YieldInv /\ PongAwaited /\ [Next]_vars => PongAwaited'
  <2> SUFFICES ASSUME PongPremise, [Next]_vars PROVE PongAwaited'
    BY DEF PongPremise
  <2>1. QED
    BY PongTick, PongConnect, PongSeen, PongYield, PongLoop, PongPublisher, PongNetwork DEF Next
<1>3. TimeInv /\ PongAwaited => LivePeerKept
  <2> SUFFICES ASSUME TimeInv, PongAwaited, pc = "keep_alive", alive, framed, pongPending
               PROVE  ~PingDue
    BY DEF LivePeerKept
  <2>1. sinceWrite < Interval
    BY DEF PongAwaited, PongPlaces
  <2>2. QED
    BY <2>1, Due, Durations DEF TimeInv, Types
<1>4. QED
  BY <1>1, <1>2, <1>3, TimesBounded, PacketsCounted, PTL DEF Spec

-----------------------------------------------------------------------------
(***************************************************************************)
(* The dead peer.                                                          *)
(***************************************************************************)
\* The session is about to end, or something is about to be written: a command has
\* failed, is blocked, or waits for a reply of which nothing has come.
Doomed ==
    \/ error
    \/ caller = "write"
    \/ caller = "reply" /\ ~Data

\* The longest silence that two rounds of the loop leave unnoticed, and the longest
\* that the process has let pass by the time it looks at the timer: one round when
\* no ping is pending, both when one is.
Longest == 2 * Round + Timeout - 1
Base == IF pongPending THEN Longest ELSE Round

\* While nothing has failed yet: no packet was written since the peer died, or the
\* only one is the ping of the round before.
SilenceSinceWrite ==
    pc \in Looping /\ ~alive /\ ~Doomed =>
        silence <= sinceWrite + IF pongPending THEN LongRound ELSE 0

\* What each place of the process leaves of the time in which the silence is noticed.
SilenceLeft ==
    /\ pc = "connack" => silence <= sinceWrite
    /\ pc = "callback" /\ ~error => silence + left <= Base - Timeout
    /\ pc = "callback" /\ error => silence + left <= Longest + Timeout + MaxCallback
    /\ pc = "select" => silence + left <= Base
    /\ pc \in {"lock", "keep_alive"} => silence <= Base + Timeout /\ (Doomed \/ silence <= Base)
    /\ pc = "ping" => /\ ~pongPending /\ silence + left <= LongRound + Timeout
                      /\ ~error => silence + left <= LongRound

\* And each place of the publishing task.
SilenceOfCaller ==
    caller \in {"reply", "write"} =>
        /\ callerLeft <= Timeout
        /\ pc = "callback" /\ ~error => silence + callerLeft <= Base
        /\ pc \in {"select", "lock"} => silence + callerLeft <= Base + Timeout

SilenceInv ==
    /\ silence \in Nat
    /\ alive => silence = 0
    /\ Data => silence = 0
    /\ ~alive => travel = <<>>
    /\ SilenceSinceWrite /\ SilenceLeft /\ SilenceOfCaller

\* The bounds in the form the steps need them.
LEMMA Long ==
    /\ Longest \in Nat /\ Longest = Round + Round + Timeout - 1
    /\ Interval + MaxCallback + Timeout = Round
    /\ 2 <= Interval /\ 1 <= Timeout
    /\ Base \in Nat /\ Round <= Base /\ Base <= Longest
    /\ pongPending => Base = Longest
    /\ ~pongPending => Base = Round
BY Durations DEF Longest, Base

\* The same of the next state.
LEMMA LongNext ==
    /\ Base' \in Nat /\ Round <= Base' /\ Base' <= Longest
    /\ pongPending' => Base' = Longest
    /\ ~pongPending' => Base' = Round
    /\ UNCHANGED pongPending => Base' = Base
BY Durations, Long DEF Base, Longest

\* Where the loop is left nothing more is asked.
LEMMA SilenceOutside ==
    ASSUME SilenceInv, pc' \in {"off", "exit"}, travel' = travel \/ travel' = <<>>, Data' => Data,
           UNCHANGED <<silence, alive, caller, callerLeft>>
    PROVE  SilenceInv'
BY DEF SilenceInv, SilenceSinceWrite, SilenceLeft, SilenceOfCaller, Looping

\* What has been read was there.
LEMMA SilenceReading ==
    ASSUME SilenceInv, (PacketRead /\ inbox # <<>>) \/ (BrokenOff /\ cut)
    PROVE  /\ silence = 0 /\ UNCHANGED <<alive, travel>>
           /\ sinceWrite' = 0 \/ sinceWrite' = sinceWrite
           /\ pongPending' => pongPending
<1>1. Data
  BY DEF Data
<1>2. UNCHANGED <<alive, travel>> /\ (UNCHANGED timer \/ Written)
  BY DEF PacketRead, BrokenOff
<1>3. pongPending' => pongPending
  BY Zenon DEF PacketRead, BrokenOff, StillPending
<1>4. QED
  BY <1>1, <1>2, <1>3 DEF SilenceInv, Written, timer

\* When the silence starts anew nothing is asked but that the waits are in their bounds.
LEMMA NoSilence ==
    ASSUME Types', ProcessTime', silence' = 0, pc' # "ping", ~alive' => travel' = <<>>,
           caller' \in {"reply", "write"} => callerLeft' <= Timeout
    PROVE  SilenceInv'
<1> USE Durations, Long, LongNext
<1>1. /\ sinceWrite' \in Nat /\ left' \in Nat /\ callerLeft' \in Nat
      /\ pc' = "callback" => left' <= MaxCallback
      /\ pc' = "select" => left' <= Timeout
  BY DEF Types, ProcessTime
<1>now. PICK w \in Nat, l \in Nat, c \in Nat, b \in Nat :
            /\ w = sinceWrite' /\ l = left' /\ c = callerLeft' /\ b = Base'
            /\ Round <= b
  BY <1>1
<1>bound. Round <= b /\ w \in Nat /\ l \in Nat /\ c \in Nat /\ b \in Nat
  BY <1>now
<1>2. SilenceSinceWrite'
  <2>1. 0 <= w + IF pongPending' THEN LongRound ELSE 0
    OBVIOUS
  <2>2. QED
    BY <1>now, <2>1 DEF SilenceSinceWrite
<1>3. SilenceLeft'
  <2>1. /\ l <= MaxCallback => 0 + l <= b - Timeout /\ 0 + l <= Longest + Timeout + MaxCallback
        /\ l <= Timeout => 0 + l <= b
        /\ 0 <= w /\ 0 <= b + Timeout /\ 0 <= b
    BY ONLY <1>bound, Durations, Long
  <2>2. QED
    BY <1>1, <1>now, <2>1 DEF SilenceLeft
<1>4. SilenceOfCaller'
  <2>1. c <= Timeout => 0 + c <= b /\ 0 + c <= b + Timeout
    BY ONLY <1>bound, Durations
  <2>2. QED
    BY <1>now, <2>1 DEF SilenceOfCaller
<1>5. QED
  BY <1>2, <1>3, <1>4 DEF SilenceInv

\* The connection is made, or ends.
LEMMA SilenceConnect ==
    ASSUME TimeInv, TimeInv', SilenceInv,
           ConnectBegins \/ ConnectSucceeds \/ ConnectFails \/ Exit
    PROVE  SilenceInv'
<1> USE Durations, Long, LongNext
<1>1. CASE ConnectBegins
  <2>1. /\ pc' = "connack" /\ silence' = 0 /\ alive' = TRUE /\ sinceWrite' = 0
        /\ caller' = caller /\ caller \notin {"reply", "write"}
    BY <1>1 DEF ConnectBegins, Written, publisher, MainFree
  <2>2. QED
    BY <2>1 DEF SilenceInv, SilenceSinceWrite, SilenceLeft, SilenceOfCaller, Looping
<1>2. CASE ConnectSucceeds
  <2>1. /\ pc = "connack" /\ pc' = "callback"
        /\ UNCHANGED <<silence, caller>>
        /\ silence = 0 /\ UNCHANGED <<alive, travel>>
    BY <1>2, SilenceReading DEF ConnectSucceeds, publisher
  <2>2. caller \notin {"reply", "write"}
    BY <2>1 DEF TimeInv, ProcessTime
  <2>3. QED
    BY <2>1, <2>2, NoSilence DEF TimeInv, SilenceInv
<1>3. CASE ConnectFails \/ Exit
  <2>1. /\ pc' \in {"off", "exit"} /\ (travel' = travel \/ travel' = <<>>)
        /\ Data' => Data
        /\ UNCHANGED <<silence, alive, caller, callerLeft>>
    BY <1>3 DEF ConnectFails, Exit, publisher, Data
  <2>2. QED
    BY <2>1, SilenceOutside
<1>4. QED
  BY <1>1, <1>2, <1>3

\* The loop goes on to select and to the mutex, or ends.
LEMMA SilenceLoop ==
    ASSUME TimeInv, SilenceInv,
           CallbackReturns \/ SelectReturns \/ PongOverdue \/ LoopFails
    PROVE  SilenceInv'
<1> USE Durations, Long, LongNext
<1>1. /\ UNCHANGED <<silence, sinceWrite, alive, travel, inbox, cut, caller, callerLeft, error,
                     pongPending>>
      /\ Data' <=> Data
      /\ left \in Nat
  BY DEF CallbackReturns, SelectReturns, PongOverdue, LoopFails, timer, publisher, network, Data,
         TimeInv, Types
<1>2. CASE pc' = "exit"
  BY <1>1, <1>2, SilenceOutside
<1>3. /\ Doomed' <=> Doomed
      /\ Base' = Base
  BY <1>1 DEF Doomed
<1>4. SilenceSinceWrite'
  <2>1. pc \in Looping
    BY DEF CallbackReturns, SelectReturns, PongOverdue, LoopFails, Looping
  <2>2. QED
    BY <1>1, <1>3, <2>1 DEF SilenceInv, SilenceSinceWrite
<1>5. CASE CallbackReturns /\ pc' # "exit"
  <2>1. pc = "callback" /\ pc' = "select" /\ left' = Timeout /\ ~error
    BY <1>5 DEF CallbackReturns
  <2>2. SilenceLeft' /\ SilenceOfCaller'
    BY <1>1, <1>3, <2>1 DEF SilenceInv, SilenceLeft, SilenceOfCaller, TimeInv, Types
  <2>3. QED
    BY <1>1, <1>4, <2>2 DEF SilenceInv
<1>6. CASE SelectReturns
  <2>1. pc = "select" /\ pc' = "lock"
    BY <1>6 DEF SelectReturns
  <2>2. SilenceLeft' /\ SilenceOfCaller'
    BY <1>1, <1>3, <2>1 DEF SilenceInv, SilenceLeft, SilenceOfCaller, TimeInv, Types
  <2>3. QED
    BY <1>1, <1>4, <2>2 DEF SilenceInv
<1>7. QED
  BY <1>2, <1>5, <1>6 DEF PongOverdue, LoopFails

\* While there is something to read there is no silence.
LEMMA SilenceYield ==
    ASSUME TimeInv, TimeInv', YieldInv, SilenceInv, Peek \/ YieldReads \/ YieldTimesOut
    PROVE  SilenceInv'
<1> USE Durations, Long, LongNext
<1>1. /\ caller \notin {"reply", "write"} /\ caller' = caller
      /\ UNCHANGED <<silence, error>>
  BY DEF Peek, YieldReads, YieldTimesOut, publisher, MainFree, TimeInv, ProcessTime
<1>2. SilenceOfCaller'
  BY <1>1 DEF SilenceOfCaller
<1>3. silence \in Nat /\ sinceWrite \in Nat
  BY DEF SilenceInv, TimeInv, Types
<1>4. CASE Peek
  <2>1. /\ pc = "lock" /\ pc' \in {"yield", "keep_alive"}
        /\ UNCHANGED <<sinceWrite, alive, travel, inbox, cut, pongPending>>
    BY <1>4 DEF Peek, timer, network
  <2>2. (Data' <=> Data) /\ (Doomed' <=> Doomed) /\ Base' = Base
    BY <1>1, <2>1 DEF Data, Doomed
  <2>3. SilenceSinceWrite'
    BY <1>1, <2>1, <2>2 DEF SilenceInv, SilenceSinceWrite, Looping
  <2>4. SilenceLeft'
    BY <1>1, <2>1, <2>2 DEF SilenceInv, SilenceLeft
  <2>5. QED
    BY <1>1, <1>2, <2>1, <2>2, <2>3, <2>4 DEF SilenceInv
<1>5. CASE YieldReads \/ YieldTimesOut
  <2>1. /\ pc' \in {"yield", "keep_alive"}
        /\ silence = 0 /\ UNCHANGED <<alive, travel>>
    BY <1>5, SilenceReading DEF YieldReads, YieldTimesOut, YieldInv, Data
  <2>2. QED
    BY <1>1, <2>1, NoSilence DEF TimeInv, SilenceInv
<1>6. QED
  BY <1>4, <1>5

\* The ping is written one round after the last packet, and not written again before
\* its pong has come.
LEMMA SilencePing ==
    ASSUME TimeInv, SilenceInv, NoPing \/ Ping \/ PingBlocks \/ PingTimesOut
    PROVE  SilenceInv'
<1> USE Durations, Long, LongNext
<1>1. /\ pc \in {"keep_alive", "ping"} /\ caller \notin {"reply", "write"}
      /\ UNCHANGED <<caller, callerLeft, silence, error, alive, inbox, cut>>
      /\ Data' <=> Data
      /\ ~alive => travel' = travel
  BY DEF NoPing, Ping, PingBlocks, PingTimesOut, Answered, network, publisher, Data, TimeInv,
         ProcessTime
<1>2. SilenceOfCaller' /\ (Doomed <=> error) /\ (Doomed' <=> error)
  BY <1>1 DEF SilenceOfCaller, Doomed
<1>3. silence \in Nat /\ sinceWrite \in Nat /\ left \in Nat
  BY DEF SilenceInv, TimeInv, Types
<1>4. ASSUME SilenceSinceWrite', SilenceLeft' PROVE SilenceInv'
  BY <1>1, <1>2, <1>4 DEF SilenceInv
<1>5. CASE NoPing
  <2>1. /\ pc = "keep_alive" /\ pc' = "callback" /\ left' = MaxCallback
        /\ UNCHANGED <<sinceWrite, pongPending>>
        /\ sinceWrite < Interval
    BY <1>3, <1>5, Due DEF NoPing, timer
  <2>2. SilenceSinceWrite'
    BY <1>1, <1>2, <2>1 DEF SilenceInv, SilenceSinceWrite, Looping
  <2>3. CASE error
    <3>1. silence <= Base + Timeout
      BY <2>1 DEF SilenceInv, SilenceLeft
    <3>2. silence + MaxCallback <= Longest + Timeout + MaxCallback
      BY <1>3, <3>1
    <3>3. SilenceLeft'
      BY <1>1, <2>1, <2>3, <3>2 DEF SilenceLeft
    <3>4. QED
      BY <1>4, <2>2, <3>3
  <2>4. CASE ~error /\ alive
    <3>1. silence = 0
      BY <2>4 DEF SilenceInv
    <3>2. SilenceLeft'
      BY <1>1, <2>1, <2>4, <3>1 DEF SilenceLeft
    <3>3. QED
      BY <1>4, <2>2, <3>2
  <2>5. CASE ~error /\ ~alive
    <3>1. silence <= sinceWrite + IF pongPending THEN LongRound ELSE 0
      BY <1>2, <2>1, <2>5 DEF SilenceInv, SilenceSinceWrite, Looping
    <3>2. silence + MaxCallback <= Base - Timeout
      BY <1>3, <2>1, <3>1
    <3>3. SilenceLeft'
      BY <1>1, <2>1, <2>5, <3>2 DEF SilenceLeft
    <3>4. QED
      BY <1>4, <2>2, <3>3
  <2>6. QED
    BY <2>3, <2>4, <2>5
<1>6. CASE Ping
  <2>1. /\ pc = "keep_alive" /\ pc' = "callback" /\ left' = MaxCallback
        /\ ~pongPending /\ pongPending' /\ sinceWrite' = 0
    BY <1>6 DEF Ping, Written
  <2>2. silence <= Round + Timeout /\ (error \/ silence <= Round)
    BY <1>2, <2>1 DEF SilenceInv, SilenceLeft
  <2>3. SilenceSinceWrite'
    BY <1>1, <1>2, <1>3, <2>1, <2>2 DEF SilenceSinceWrite
  <2>4. SilenceLeft'
    BY <1>1, <1>3, <2>1, <2>2 DEF SilenceLeft
  <2>5. QED
    BY <1>4, <2>3, <2>4
<1>7. CASE PingBlocks
  <2>1. /\ pc = "keep_alive" /\ pc' = "ping" /\ left' = Timeout
        /\ ~pongPending /\ UNCHANGED <<sinceWrite, pongPending>>
    BY <1>7 DEF PingBlocks, timer
  <2>2. silence <= Round + Timeout /\ (error \/ silence <= Round)
    BY <1>2, <2>1 DEF SilenceInv, SilenceLeft
  <2>3. SilenceSinceWrite'
    BY <1>1, <1>2, <2>1 DEF SilenceInv, SilenceSinceWrite, Looping
  <2>4. SilenceLeft'
    BY <1>1, <1>3, <2>1, <2>2 DEF SilenceLeft
  <2>5. QED
    BY <1>4, <2>3, <2>4
<1>8. CASE PingTimesOut
  <2>1. /\ pc = "ping" /\ left = 0 /\ pc' = "callback" /\ left' = MaxCallback
        /\ pongPending' /\ sinceWrite' = 0
    BY <1>8 DEF PingTimesOut, Written
  <2>2. silence <= LongRound + Timeout /\ (error \/ silence <= LongRound)
    BY <1>3, <2>1 DEF SilenceInv, SilenceLeft
  <2>3. SilenceSinceWrite'
    BY <1>1, <1>2, <1>3, <2>1, <2>2 DEF SilenceSinceWrite
  <2>4. SilenceLeft'
    BY <1>1, <1>3, <2>1, <2>2 DEF SilenceLeft
  <2>5. QED
    BY <1>4, <2>3, <2>4
<1>9. QED
  BY <1>5, <1>6, <1>7, <1>8

\* The publishing task: a packet at QoS 0 starts the silence anew, a command to a dead
\* peer is bound to fail.
LEMMA SilencePublisher ==
    ASSUME TimeInv, TimeInv', SilenceInv,
           \/ Call \/ Rejected \/ PublishQos0 \/ PublishQos1 \/ PublishBlocks
           \/ ReadsReply \/ PublishFails \/ PublishTakenForDone
    PROVE  SilenceInv'
<1> USE Durations, Long, LongNext
<1>1. /\ silence \in Nat /\ sinceWrite \in Nat /\ left \in Nat /\ callerLeft \in Nat
      /\ caller \in {"reply", "write"} => pc # "ping" /\ pc # "keep_alive"
  BY DEF SilenceInv, TimeInv, Types, ProcessTime
<1>2. CASE Call \/ Rejected
  <2>1. /\ caller \in {"idle", "lock"} /\ caller' \in {"idle", "lock"}
        /\ UNCHANGED <<pc, left, silence, sinceWrite, alive, travel, inbox, cut, error,
                       pongPending>>
    BY <1>2 DEF Call, Rejected, CallerOwns, timer, process, network
  <2>2. (Data' <=> Data) /\ (Doomed' <=> Doomed) /\ Base' = Base
    BY <2>1 DEF Data, Doomed
  <2>3. SilenceSinceWrite'
    BY <2>1, <2>2 DEF SilenceInv, SilenceSinceWrite
  <2>4. SilenceLeft' /\ SilenceOfCaller'
    BY <2>1, <2>2 DEF SilenceInv, SilenceLeft, SilenceOfCaller
  <2>5. QED
    BY <2>1, <2>2, <2>3, <2>4 DEF SilenceInv
<1>3. CASE PublishQos0
  <2>1. silence' = 0 /\ caller' = "idle" /\ pc' # "ping" /\ UNCHANGED <<alive, travel>>
    BY <1>3 DEF PublishQos0, CallerOwns, MainFree, process, network
  <2>2. QED
    BY <2>1, NoSilence DEF TimeInv, SilenceInv
<1>4. CASE PublishQos1 \/ PublishBlocks
  <2>1. /\ pc \in {"callback", "select"} /\ caller' \in {"reply", "write"}
        /\ callerLeft' = Timeout
        /\ UNCHANGED <<pc, left, silence, alive, inbox, cut, error, pongPending>>
        /\ ~alive => travel' = travel
    BY <1>4 DEF PublishQos1, PublishBlocks, CallerOwns, MainFree, Connected, Looping, Answered,
                process, network
  <2>2. CASE alive \/ Data
    <3>1. silence = 0
      BY <2>2 DEF SilenceInv
    <3>2. QED
      BY <2>1, <3>1, NoSilence DEF TimeInv, SilenceInv
  <2>3. CASE ~alive /\ ~Data
    <3>1. Doomed' /\ ~Data' /\ Base' = Base
      BY <2>1, <2>3 DEF Doomed, Data
    <3>2. SilenceSinceWrite'
      BY <3>1 DEF SilenceSinceWrite
    <3>3. /\ pc = "callback" /\ ~error => silence + left <= Base - Timeout
          /\ pc = "select" => silence + left <= Base
      BY DEF SilenceInv, SilenceLeft
    <3>4. /\ pc = "callback" /\ ~error => silence + Timeout <= Base
          /\ pc = "select" => silence + Timeout <= Base + Timeout
      BY <1>1, <3>3
    <3>5. SilenceOfCaller'
      BY <2>1, <3>1, <3>4 DEF SilenceOfCaller
    <3>6. SilenceLeft'
      BY <2>1, <3>1 DEF SilenceInv, SilenceLeft
    <3>7. QED
      BY <2>1, <2>3, <3>1, <3>2, <3>5, <3>6 DEF SilenceInv
  <2>4. QED
    BY <2>2, <2>3
<1>5. CASE \/ ReadsReply
           \/ PublishFails /\ caller = "reply" /\ cut /\ inbox = <<>>
           \/ PublishTakenForDone
  <2>1. /\ caller \in {"reply", "write"} /\ UNCHANGED <<pc, callerLeft>>
        /\ silence' = 0 /\ UNCHANGED <<alive, travel>>
    <3>1. CASE caller = "reply"
      BY <1>5, <3>1, SilenceReading DEF ReadsReply, PublishFails, PublishTakenForDone, process
    <3>2. CASE caller # "reply"
      BY <1>5, <3>2 DEF ReadsReply, PublishTakenForDone, process, network
    <3>3. QED
      BY <3>1, <3>2
  <2>2. pc' # "ping" /\ callerLeft' <= Timeout
    BY <1>1, <2>1 DEF SilenceInv, SilenceOfCaller
  <2>3. QED
    BY <2>1, <2>2, NoSilence DEF TimeInv, SilenceInv
<1>6. CASE PublishFails /\ ~(caller = "reply" /\ cut /\ inbox = <<>>)
  <2>1. /\ error' = TRUE /\ caller' = "idle" /\ caller \in {"reply", "write"}
        /\ UNCHANGED <<pc, left, silence, sinceWrite, alive, travel, inbox, cut, pongPending>>
    BY <1>6 DEF PublishFails, process, timer, network
  <2>2. Doomed' /\ (Data' <=> Data) /\ Base' = Base
    BY <2>1 DEF Doomed, Data
  <2>3. SilenceSinceWrite' /\ SilenceOfCaller'
    BY <2>1, <2>2 DEF SilenceSinceWrite, SilenceOfCaller
  <2>4. SilenceLeft'
    BY <1>1, <2>1, <2>2 DEF SilenceInv, SilenceLeft
  <2>5. QED
    BY <2>1, <2>2, <2>3, <2>4 DEF SilenceInv
<1>7. QED
  BY <1>2, <1>3, <1>4, <1>5, <1>6

\* The peer and the network: as long as anything comes from the peer there is no silence.
LEMMA SilenceNetwork ==
    ASSUME TimeInv, TimeInv', SilenceInv,
           PeerPublishes \/ ArriveInPart \/ Arrive \/ PeerDies \/ UNCHANGED vars
    PROVE  SilenceInv'
<1>1. CASE PeerPublishes \/ ArriveInPart \/ Arrive \/ PeerDies
  <2>1. alive /\ (~alive' => travel' = <<>>) /\ UNCHANGED <<pc, caller, callerLeft, silence>>
    BY <1>1 DEF PeerPublishes, ArriveInPart, Arrive, PeerDies, process, publisher, SilenceInv
  <2>2. /\ silence = 0 /\ pc # "ping"
        /\ caller \in {"reply", "write"} => callerLeft <= Timeout
    BY <2>1 DEF SilenceInv, SilenceOfCaller, TimeInv, ProcessTime
  <2>3. QED
    BY <2>1, <2>2, NoSilence DEF TimeInv
<1>2. CASE UNCHANGED vars
  BY <1>2 DEF vars, process, publisher, timer, network, SilenceInv, SilenceSinceWrite,
              SilenceLeft, SilenceOfCaller, Doomed, Data, Base
<1>3. QED
  BY <1>1, <1>2

\* Time passes only where something is left to wait for.
LEMMA SilenceTick == ASSUME TimeInv, YieldInv, SilenceInv, Tick PROVE SilenceInv'
<1> USE Durations, Long, LongNext
<1>1. /\ UNCHANGED <<pc, caller, error, pongPending, inbox, cut, alive>>
      /\ left' = IF left = 0 THEN 0 ELSE left - 1
      /\ callerLeft' = IF callerLeft = 0 THEN 0 ELSE callerLeft - 1
      /\ pc \in Looping \cup {"connack"} => /\ sinceWrite' = sinceWrite + 1
                                            /\ silence' = IF alive \/ Data THEN 0 ELSE silence + 1
      /\ pc \in {"off", "exit"} => silence' \in {0, silence, silence + 1}
      /\ silence' # silence => silence' = IF alive \/ Data THEN 0 ELSE silence + 1
  BY DEF Tick, Less, Connected, Looping
<1>2. /\ silence \in Nat /\ sinceWrite \in Nat /\ left \in Nat /\ callerLeft \in Nat
      /\ pc \in Looping \cup {"off", "connack", "exit"}
  BY DEF SilenceInv, TimeInv, Types
<1>3. /\ pc \in {"connack", "callback", "select", "ping"} => left > 0
      /\ pc = "lock" => caller \in {"reply", "write"}
      /\ pc # "keep_alive"
      /\ caller \in {"reply", "write"} => callerLeft > 0
      /\ caller = "reply" => inbox = <<>>
  <2>1. ~Urgent
    BY DEF Tick
  <2>2. QED
    BY ONLY <1>2, <2>1 DEF Urgent, MainFree
<1>4. silence' \in Nat /\ (alive \/ Data => silence' = 0) /\ silence' <= silence + 1
  BY <1>1, <1>2 DEF SilenceInv
<1>now. PICK s \in Nat, t \in Nat : s = silence' /\ t = silence /\ s <= t + 1
  BY <1>2, <1>4
<1>5. ~alive => travel' = <<>>
  <2>1. travel' = [i \in 1..Len(travel) |-> [travel[i] EXCEPT !.age = @ + 1]]
    BY DEF Tick
  <2>2. travel = <<>> => travel' = <<>>
    BY <2>1
  <2>3. QED
    BY <2>2 DEF SilenceInv
<1>6. (Data' <=> Data) /\ (Doomed' <=> Doomed) /\ Base' = Base
  BY <1>1 DEF Data, Doomed
<1>7. SilenceSinceWrite'
  <2> SUFFICES ASSUME pc \in Looping, ~alive, ~Doomed
               PROVE  silence' <= sinceWrite' + IF pongPending THEN LongRound ELSE 0
    BY <1>1, <1>6 DEF SilenceSinceWrite
  <2>1. silence <= sinceWrite + IF pongPending THEN LongRound ELSE 0
    BY DEF SilenceInv, SilenceSinceWrite
  <2>2. sinceWrite' = sinceWrite + 1
    BY <1>1
  <2>3. QED
    BY <1>2, <1>4, <2>1, <2>2
<1>8. SilenceOfCaller'
  <2> SUFFICES ASSUME caller \in {"reply", "write"}
               PROVE  /\ callerLeft' <= Timeout
                      /\ pc = "callback" /\ ~error => silence' + callerLeft' <= Base
                      /\ pc \in {"select", "lock"} => silence' + callerLeft' <= Base + Timeout
    BY <1>1, <1>6 DEF SilenceOfCaller
  <2>1. PICK l \in Nat, m \in Nat : l = callerLeft' /\ m = callerLeft /\ l = m - 1
    BY <1>1, <1>2, <1>3
  <2>2. /\ m <= Timeout
        /\ pc = "callback" /\ ~error => t + m <= Base
        /\ pc \in {"select", "lock"} => t + m <= Base + Timeout
    BY <1>now, <2>1 DEF SilenceInv, SilenceOfCaller
  <2>3. s + l <= t + m /\ l <= m
    <3>1. s <= t + 1 /\ l = m - 1
      BY <1>now, <2>1
    <3>2. QED
      BY <3>1
  <2>4. /\ l <= Timeout
        /\ pc = "callback" /\ ~error => s + l <= Base
        /\ pc \in {"select", "lock"} => s + l <= Base + Timeout
    BY <2>2, <2>3
  <2>5. QED
    BY <1>now, <2>1, <2>4
<1>9. SilenceLeft'
  <2>1. CASE pc = "connack"
    <3>1. silence <= sinceWrite
      BY <2>1 DEF SilenceInv, SilenceLeft
    <3>2. QED
      BY <1>1, <1>2, <1>4, <2>1, <3>1 DEF SilenceLeft
  <2>2. CASE pc \in {"callback", "select", "ping"}
    <3>1. PICK l \in Nat, m \in Nat : l = left' /\ m = left /\ l = m - 1
      BY <1>1, <1>2, <1>3, <2>2
    <3>2. /\ pc = "callback" /\ ~error => t + m <= Base - Timeout
          /\ pc = "callback" /\ error => t + m <= Longest + Timeout + MaxCallback
          /\ pc = "select" => t + m <= Base
          /\ pc = "ping" => ~pongPending /\ t + m <= LongRound + Timeout
          /\ pc = "ping" /\ ~error => t + m <= LongRound
      BY <1>now, <3>1 DEF SilenceInv, SilenceLeft
    <3>3. s + l <= t + m
      <4>1. s <= t + 1 /\ l = m - 1
        BY <1>now, <3>1
      <4>2. QED
        BY <4>1
    <3>4. /\ pc = "callback" /\ ~error => s + l <= Base - Timeout
          /\ pc = "callback" /\ error => s + l <= Longest + Timeout + MaxCallback
          /\ pc = "select" => s + l <= Base
          /\ pc = "ping" => ~pongPending /\ s + l <= LongRound + Timeout
          /\ pc = "ping" /\ ~error => s + l <= LongRound
      BY <3>2, <3>3
    <3>5. QED
      BY <1>1, <1>6, <1>now, <2>2, <3>1, <3>4 DEF SilenceLeft
  <2>3. CASE pc = "lock"
    <3>1. silence + callerLeft <= Base + Timeout /\ callerLeft > 0
      BY <1>3, <2>3 DEF SilenceInv, SilenceOfCaller
    <3>2. silence' <= Base + Timeout
      BY <1>2, <1>4, <3>1
    <3>3. Doomed \/ Data
      BY <1>3, <2>3 DEF Doomed
    <3>4. Doomed \/ silence' <= Base
      BY <1>4, <3>3
    <3>5. QED
      BY <1>1, <1>6, <2>3, <3>2, <3>4 DEF SilenceLeft
  <2>4. CASE pc \in {"off", "exit", "yield"}
    BY <1>1, <2>4 DEF SilenceLeft
  <2>5. QED
    BY <1>2, <1>3, <2>1, <2>2, <2>3, <2>4 DEF Looping
<1>10. QED
  BY <1>1, <1>4, <1>5, <1>6, <1>7, <1>8, <1>9 DEF SilenceInv

\* A dead peer is noticed within two rounds of the loop, one command and one callback,
\* unless somebody publishes at QoS 0, whatever else is published, fails or waits for the
\* mutex meanwhile, and wherever the clock wraps.
THEOREM SilenceNoticed == Spec => []DeadPeerNoticed
<1>1. Init => SilenceInv
  BY DEF Init, Data, SilenceInv, SilenceSinceWrite, SilenceLeft, SilenceOfCaller, Looping
<1>2. TimeInv /\ TimeInv' /\ YieldInv /\ SilenceInv /\ [Next]_vars => SilenceInv'
  BY SilenceConnect, SilenceLoop, SilenceYield, SilencePing, SilencePublisher, SilenceNetwork,
     SilenceTick DEF Next
<1>3. TimeInv /\ YieldInv /\ SilenceInv => DeadPeerNoticed
  <2> SUFFICES ASSUME TimeInv, YieldInv, SilenceInv, pc \in Looping PROVE silence < NoticeTime
    BY DEF DeadPeerNoticed
  <2>1. /\ silence \in Nat /\ left \in Nat
        /\ NoticeTime = 2 * (Interval + Timeout + MaxCallback) + 2 * Timeout + MaxCallback
    BY DEF SilenceInv, TimeInv, Types, NoticeTime
  <2>2. pc = "yield" => silence = 0
    BY DEF YieldInv, SilenceInv, Data
  <2>3. silence <= Longest + Timeout + MaxCallback
    BY <2>1, <2>2, Durations, Long DEF SilenceInv, SilenceLeft, Looping
  <2>4. QED
    BY <2>1, <2>3, Durations, Long
<1>4. QED
  BY <1>1, <1>2, <1>3, TimesBounded, PacketsCounted, PTL DEF Spec
=============================================================================

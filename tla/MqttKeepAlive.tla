---------------------------- MODULE MqttKeepAlive ----------------------------
(***************************************************************************)
(* Keep-alive against the clock: the timers of esp_lwmqtt.c, whose ticks   *)
(* wrap, lwmqtt_keep_alive of client.c, the yield loop of esp_mqtt.c that  *)
(* calls it, and a task that publishes through the same client meanwhile.  *)
(*                                                                         *)
(* Computing takes no time next to a tick; waiting does: in select, for    *)
(* the main mutex, for the rest of a packet of which a part has arrived,   *)
(* for a write that finds no room, for a reply, in a callback.  Tick is    *)
(* disabled while some step is due, and every wait has its bound.  The     *)
(* peer and the network are external: a living peer takes what is written  *)
(* to it at once and answers in order, within MaxDelay; a dead one keeps   *)
(* silent for good, and what is written to it may be swallowed or refused. *)
(* What a peer sends by itself is at QoS 0 and asks for no answer.         *)
(***************************************************************************)
EXTENDS Integers, Sequences

CONSTANTS
    KeepAlive,    \* options.keep_alive, 10 s
    Timeout,      \* esp_mqtt_command_timeout
    MaxCallback,  \* bound: time the application's callbacks take
    MaxDelay,     \* bound: time a packet of a living peer takes to arrive whole
    MaxFlight,    \* bound: packets under way or not yet read
    Modulus       \* uint32_t wraps at this value, 2^32

\* keep_alive_interval: 75 %, "to be a little earlier than actually needed".
Interval == (KeepAlive * 3) \div 4

ASSUME DurationsAssumption ==
    /\ KeepAlive \in Nat /\ Timeout \in Nat \ {0} /\ MaxCallback \in Nat
    /\ MaxDelay \in Nat /\ MaxFlight \in Nat
    /\ Timeout < Interval
\* Half of the clock's range is more than all that is ever measured.
ASSUME ClockAssumption ==
    /\ Modulus \in Nat /\ Modulus % 2 = 0
    /\ 2 * (Interval + 4 * Timeout + MaxCallback) < Modulus

VARIABLES
    now,          \* xTaskGetTickCount() * portTICK_PERIOD_MS, a uint32_t
    deadline,     \* deadline of the keep-alive timer, a uint32_t
    pongPending,  \* pong_pending
    error,        \* esp_mqtt_error
    pc,           \* where the background process stands
    left,         \* what is left of the wait or the callback it is in
    available,    \* what its last select saw
    unread,       \* packets, begun when it peeked, that its yield has yet to read
    caller,       \* where the publishing task stands
    callerLeft,   \* what is left of its command timer
    alive,        \* the peer answers
    travel,       \* packets on their way: [type, age]
    inbox,        \* packets that have arrived whole and wait in the socket
    cut,          \* of the next packet a part has arrived
    framed,       \* the client still knows where packets begin
    sinceWrite,   \* time since the last packet was written
    silence       \* time for which the peer has been dead, with nothing of it
                  \* left to read and nothing published at QoS 0

process == <<pc, left, available, unread>>
publisher == <<caller, callerLeft>>
timer == <<deadline, sinceWrite>>
network == <<alive, travel, inbox, cut, framed>>
vars == <<now, timer, pongPending, error, process, publisher, network, silence>>

\* The process is in its loop; in "exit" it waits for the mutex to leave it.
Looping == {"callback", "select", "lock", "yield", "keep_alive", "ping"}
Connected == pc \in Looping \cup {"exit"}
\* Nobody waits inside the main mutex.
MainFree == pc \notin {"connack", "yield", "keep_alive", "ping"} /\ caller \notin {"reply", "write"}
\* The socket has something to read.
Data == inbox # <<>> \/ cut

Less(n) == IF n = 0 THEN 0 ELSE n - 1

-----------------------------------------------------------------------------
(***************************************************************************)
(* The timers.                                                             *)
(***************************************************************************)
\* esp_lwmqtt_timer_set: the sum wraps.
TimerSet(timeout) == (now + timeout) % Modulus

\* Seeded fault: the two ticks are subtracted without regard to the wrap.
TimerGetPlain(d) == d - now
\* esp_lwmqtt_timer_get: the difference as a signed number of the same width.
TimerGet(d) == LET diff == (d - now) % Modulus
               IN IF 2 * diff < Modulus THEN diff ELSE diff - Modulus

\* Seeded fault: the timer is set to all of the agreed time.
WrittenLate == deadline' = TimerSet(KeepAlive) /\ sinceWrite' = 0
\* lwmqtt_send_packet_in_buffer restarts the keep-alive timer.
Written == deadline' = TimerSet(Interval) /\ sinceWrite' = 0

\* A living peer answers what has just been written; a dead one does not.
Answered(type) == travel' = IF alive THEN Append(travel, [type |-> type, age |-> 0]) ELSE travel

\* Seeded fault: a yield drops the pong without clearing the flag.
StillPendingAlways(type) == pongPending
\* lwmqtt_cycle: a PINGRESP clears pong_pending, whoever reads it.
StillPending(type) == pongPending /\ type # "pong"

\* The next packet is read.  Once the framing is lost, bytes are taken for a
\* packet at random: it may seem to be a PINGRESP, or one to be acknowledged, and
\* leave a rest behind.
PacketRead ==
    /\ inbox' = Tail(inbox)
    /\ \/ /\ framed
          /\ pongPending' = StillPending(Head(inbox))
          /\ UNCHANGED <<timer, cut>>
       \/ /\ ~framed
          /\ pongPending' \in {pongPending, FALSE}
          /\ cut' \in {cut, TRUE}
          /\ UNCHANGED timer \/ Written
    /\ UNCHANGED <<alive, travel, framed>>

\* The rest of a packet has not come in time: what is in the read buffer is handled
\* as if it had (EspNetwork!ReadWhole), and what comes next is read out of step.
BrokenOff ==
    /\ cut' = FALSE
    /\ framed' = (framed /\ ~alive)
    /\ pongPending' \in {pongPending, FALSE}
    /\ UNCHANGED timer \/ (~framed /\ Written)
    /\ UNCHANGED <<alive, travel, inbox>>

-----------------------------------------------------------------------------
Init ==
    /\ now = 0 /\ deadline = 0 /\ sinceWrite = 0
    /\ pongPending = FALSE /\ error = FALSE
    /\ pc = "off" /\ left = 0 /\ available = FALSE /\ unread = 0
    /\ caller = "idle" /\ callerLeft = 0
    /\ alive = TRUE /\ travel = <<>> /\ inbox = <<>> /\ cut = FALSE /\ framed = TRUE
    /\ silence = 0

(***************************************************************************)
(* esp_mqtt_process_connect and lwmqtt_connect, to a peer that is there.   *)
(***************************************************************************)
ConnectBegins ==
    /\ pc = "off" /\ MainFree
    /\ pc' = "connack" /\ left' = Timeout
    /\ Written
    /\ pongPending' = FALSE
    /\ alive' = TRUE /\ inbox' = <<>> /\ cut' = FALSE /\ framed' = TRUE
    /\ travel' = <<[type |-> "connack", age |-> 0]>>
    /\ silence' = 0
    /\ UNCHANGED <<now, error, available, unread, publisher>>

\* The CONNACK arrives, or its beginning is taken for it: the CONNECTED callback
\* is made outside the mutex.
ConnectSucceeds ==
    /\ pc = "connack"
    /\ \/ inbox # <<>> /\ PacketRead
       \/ inbox = <<>> /\ cut /\ left = 0 /\ BrokenOff
    /\ pc' = "callback" /\ left' = MaxCallback
    /\ UNCHANGED <<now, error, available, unread, publisher, silence>>

\* The socket stays open until the next attempt; nothing reads from it.
ConnectFails ==
    /\ pc = "connack"
    /\ inbox = <<>> /\ left = 0
    /\ pc' = "off"
    /\ travel' = <<>> /\ cut' = FALSE
    /\ UNCHANGED <<now, timer, pongPending, error, left, available, unread, publisher,
                   alive, inbox, framed, silence>>

(***************************************************************************)
(* The yield loop.                                                         *)
(***************************************************************************)
\* The CONNECTED callback or the dispatch is over: check the error flag, select.
CallbackReturns ==
    /\ pc = "callback"
    /\ IF error THEN pc' = "exit" /\ left' = 0
                ELSE pc' = "select" /\ left' = Timeout
    /\ UNCHANGED <<now, timer, pongPending, error, available, unread, publisher, network,
                   silence>>

SelectReturns ==
    /\ pc = "select"
    /\ Data \/ left = 0
    /\ available' = Data
    /\ pc' = "lock" /\ left' = 0
    /\ UNCHANGED <<now, timer, pongPending, error, unread, publisher, network, silence>>

\* Seeded fault: the yield relies on what select saw.
PeekedBlind == TRUE
\* esp_lwmqtt_network_peek: a command may have read the data in the meantime.
Peeked == Data

\* Under the main mutex: yield what there is to read, or go on to the keep-alive.
\* Data that arrived after select timed out stays for the next round.
Peek ==
    /\ pc = "lock" /\ MainFree
    /\ available' = FALSE
    /\ IF available /\ Peeked
       THEN /\ pc' = "yield" /\ left' = Timeout
            /\ unread' = Len(inbox) + IF cut THEN 1 ELSE 0
       ELSE pc' = "keep_alive" /\ UNCHANGED <<left, unread>>
    /\ UNCHANGED <<now, timer, pongPending, error, publisher, network, silence>>

\* lwmqtt_cycle_until: read on while fewer bytes have been read than the peek found.
YieldReads ==
    /\ pc = "yield"
    /\ inbox # <<>>
    /\ PacketRead
    /\ \/ /\ unread > 1 \/ (~framed /\ (inbox' # <<>> \/ cut'))
          /\ unread' = Less(unread)
          /\ UNCHANGED <<pc, left>>
       \/ /\ unread <= 1 \/ ~framed
          /\ pc' = "keep_alive" /\ left' = 0 /\ unread' = 0
    /\ UNCHANGED <<now, error, available, publisher, silence>>

\* The read that waits for the rest of a packet ends with EAGAIN.
YieldTimesOut ==
    /\ pc = "yield"
    /\ inbox = <<>> /\ left = 0
    /\ BrokenOff
    /\ pc' = "keep_alive" /\ unread' = 0
    /\ UNCHANGED <<now, error, left, available, publisher, silence>>

\* lwmqtt_keep_alive: whether a ping is due.
PingDue == TimerGet(deadline) <= 0

NoPing ==
    /\ pc = "keep_alive" /\ ~PingDue
    /\ pc' = "callback" /\ left' = MaxCallback
    /\ UNCHANGED <<now, timer, pongPending, error, available, unread, publisher, network,
                   silence>>

Ping ==
    /\ pc = "keep_alive" /\ PingDue /\ ~pongPending
    /\ Written /\ Answered("pong")
    /\ pongPending' = TRUE
    /\ pc' = "callback" /\ left' = MaxCallback
    /\ UNCHANGED <<now, error, available, unread, publisher, alive, inbox, cut, framed,
                   silence>>

\* The send buffer towards a dead peer is full: the write waits...
PingBlocks ==
    /\ pc = "keep_alive" /\ PingDue /\ ~pongPending /\ ~alive
    /\ pc' = "ping" /\ left' = Timeout
    /\ UNCHANGED <<now, timer, pongPending, error, available, unread, publisher, network,
                   silence>>

\* ... and ends with EAGAIN, which counts as written (EspNetwork!WrittenWhole).
PingTimesOut ==
    /\ pc = "ping" /\ left = 0
    /\ Written
    /\ pongPending' = TRUE
    /\ pc' = "callback" /\ left' = MaxCallback
    /\ UNCHANGED <<now, error, available, unread, publisher, network, silence>>

PongOverdue ==
    /\ pc = "keep_alive" /\ PingDue /\ pongPending
    /\ pc' = "exit"
    /\ UNCHANGED <<now, timer, pongPending, error, left, available, unread, publisher,
                   network, silence>>

\* select, peek, the yield or the ping returns an error: the network's, of a dead
\* peer or a living one, or LWMQTT_NETWORK_TIMEOUT for a packet that came in part.
LoopFails ==
    /\ \/ pc \in {"select", "yield", "ping"}
       \/ pc = "lock" /\ available /\ MainFree
       \/ pc = "keep_alive" /\ PingDue
    /\ pc' = "exit" /\ left' = 0 /\ available' = FALSE /\ unread' = 0
    /\ UNCHANGED <<now, timer, pongPending, error, publisher, network, silence>>

\* The exit section: the connection is closed, the flags are reset.
Exit ==
    /\ pc = "exit" /\ MainFree
    /\ pc' = "off"
    /\ error' = FALSE
    /\ travel' = <<>> /\ inbox' = <<>> /\ cut' = FALSE
    /\ UNCHANGED <<now, timer, pongPending, left, available, unread, publisher, alive,
                   framed, silence>>

-----------------------------------------------------------------------------
(***************************************************************************)
(* esp_mqtt_publish in another task.  A process that waits for the mutex   *)
(* gets it before the task that has just given it back.                    *)
(***************************************************************************)
Call ==
    /\ caller = "idle"
    /\ caller' = "lock"
    /\ UNCHANGED <<now, timer, pongPending, error, process, callerLeft, network, silence>>

CallerOwns == caller = "lock" /\ MainFree /\ pc \notin {"lock", "exit"}

Rejected ==
    /\ CallerOwns /\ ~Connected
    /\ caller' = "idle"
    /\ UNCHANGED <<now, timer, pongPending, error, process, callerLeft, network, silence>>

PublishQos0 ==
    /\ CallerOwns /\ Connected
    /\ Written
    /\ silence' = 0
    /\ caller' = "idle"
    /\ UNCHANGED <<now, pongPending, error, process, callerLeft, network>>

\* At QoS 1 the packet is written and its acknowledgement awaited.
PublishQos1 ==
    /\ CallerOwns /\ Connected
    /\ Len(travel) + Len(inbox) < MaxFlight
    /\ Written /\ Answered("puback")
    /\ caller' = "reply" /\ callerLeft' = Timeout
    /\ UNCHANGED <<now, pongPending, error, process, alive, inbox, cut, framed, silence>>

\* The send buffer towards a dead peer is full: the write waits.
PublishBlocks ==
    /\ CallerOwns /\ Connected /\ ~alive
    /\ caller' = "write" /\ callerLeft' = Timeout
    /\ UNCHANGED <<now, timer, pongPending, error, process, network, silence>>

\* lwmqtt_cycle_until: the publishing task reads whatever comes.
ReadsReply ==
    /\ caller = "reply"
    /\ inbox # <<>>
    /\ PacketRead
    /\ \/ framed /\ caller' = IF Head(inbox) = "puback" THEN "idle" ELSE "reply"
       \/ ~framed /\ caller' \in {"idle", "reply"}
    /\ UNCHANGED <<now, error, process, callerLeft, silence>>

\* Seeded fault: the command's error is not remembered.
PublishFailsQuietly ==
    /\ caller \in {"reply", "write"}
    /\ caller' = "idle"
    /\ IF caller = "reply" /\ cut /\ inbox = <<>>
       THEN BrokenOff
       ELSE UNCHANGED <<timer, pongPending, network>>
    /\ UNCHANGED <<now, error, process, callerLeft, silence>>

\* The network fails, or the reply or the room to write did not come in time.
PublishFails ==
    /\ caller \in {"reply", "write"}
    /\ error' = TRUE
    /\ caller' = "idle"
    /\ IF caller = "reply" /\ cut /\ inbox = <<>>
       THEN BrokenOff
       ELSE UNCHANGED <<timer, pongPending, network>>
    /\ UNCHANGED <<now, process, callerLeft, silence>>

\* The beginning of a reply is taken for the reply, or nothing written at QoS 0 for
\* the packet.
PublishTakenForDone ==
    /\ callerLeft = 0
    /\ \/ caller = "reply" /\ cut /\ inbox = <<>> /\ BrokenOff /\ silence' = silence
       \/ caller = "write" /\ Written /\ silence' = 0 /\ UNCHANGED <<pongPending, network>>
    /\ caller' = "idle"
    /\ UNCHANGED <<now, error, process, callerLeft>>

-----------------------------------------------------------------------------
(***************************************************************************)
(* The peer and time (external).                                           *)
(***************************************************************************)
\* A message at QoS 0 for one of the client's subscriptions.
PeerPublishes ==
    /\ alive /\ Connected
    /\ Len(travel) + Len(inbox) < MaxFlight
    /\ Answered("message")
    /\ UNCHANGED <<now, timer, pongPending, error, process, publisher, alive, inbox, cut,
                   framed, silence>>

ArriveInPart ==
    /\ travel # <<>> /\ ~cut
    /\ cut' = TRUE
    /\ UNCHANGED <<now, timer, pongPending, error, process, publisher, alive, travel,
                   inbox, framed, silence>>

Arrive ==
    /\ travel # <<>>
    /\ inbox' = Append(inbox, Head(travel).type)
    /\ travel' = Tail(travel)
    /\ cut' = FALSE
    /\ UNCHANGED <<now, timer, pongPending, error, process, publisher, alive, framed,
                   silence>>

\* What has arrived of a packet by now stays in the socket, without its rest.
PeerDies ==
    /\ alive /\ pc # "off"
    /\ alive' = FALSE
    /\ travel' = <<>>
    /\ UNCHANGED <<now, timer, pongPending, error, process, publisher, inbox, cut, framed,
                   silence>>

\* A step of the code, or an arrival, that does not wait for time to pass.
Urgent ==
    \/ pc \in {"connack", "yield"} /\ (inbox # <<>> \/ left = 0)
    \/ pc \in {"callback", "ping"} /\ left = 0
    \/ pc = "select" /\ (Data \/ left = 0)
    \/ pc \in {"lock", "exit"} /\ MainFree
    \/ pc = "keep_alive"
    \/ CallerOwns
    \/ caller = "reply" /\ inbox # <<>>
    \/ caller \in {"reply", "write"} /\ callerLeft = 0
    \/ travel # <<>> /\ Head(travel).age = MaxDelay

Tick ==
    /\ ~Urgent
    /\ now' = (now + 1) % Modulus
    /\ left' = Less(left) /\ callerLeft' = Less(callerLeft)
    /\ travel' = [i \in 1..Len(travel) |-> [travel[i] EXCEPT !.age = @ + 1]]
    /\ IF Connected \/ pc = "connack"
       THEN /\ sinceWrite' = sinceWrite + 1
            /\ silence' = IF alive \/ Data THEN 0 ELSE silence + 1
       ELSE UNCHANGED <<sinceWrite, silence>>
    /\ UNCHANGED <<deadline, pongPending, error, pc, available, unread, caller, alive,
                   inbox, cut, framed>>

-----------------------------------------------------------------------------
Next ==
    \/ ConnectBegins \/ ConnectSucceeds \/ ConnectFails
    \/ CallbackReturns \/ SelectReturns
    \/ Peek \/ YieldReads \/ YieldTimesOut
    \/ NoPing \/ Ping \/ PingBlocks \/ PingTimesOut \/ PongOverdue
    \/ LoopFails \/ Exit
    \/ Call \/ Rejected \/ PublishQos0 \/ PublishQos1 \/ PublishBlocks
    \/ ReadsReply \/ PublishFails \/ PublishTakenForDone
    \/ PeerPublishes \/ ArriveInPart \/ Arrive \/ PeerDies \/ Tick

Spec == Init /\ [][Next]_vars

-----------------------------------------------------------------------------
(***************************************************************************)
(* Properties.                                                             *)
(***************************************************************************)
\* Every variable keeps its type.
TypeOK ==
    /\ now \in 0..(Modulus - 1) /\ deadline \in 0..(Modulus - 1)
    /\ pongPending \in BOOLEAN /\ error \in BOOLEAN
    /\ pc \in Looping \cup {"off", "connack", "exit"} /\ available \in BOOLEAN
    /\ caller \in {"idle", "lock", "reply", "write"}
    /\ left \in Nat /\ callerLeft \in Nat /\ sinceWrite \in Nat /\ silence \in Nat
    /\ unread \in Nat
    /\ alive \in BOOLEAN /\ cut \in BOOLEAN /\ framed \in BOOLEAN
    /\ travel \in Seq([type : {"connack", "pong", "puback", "message"}, age : Nat])
    /\ inbox \in Seq({"connack", "pong", "puback", "message"})

\* The keep-alive timer reads true: what is left of the interval since the last
\* packet was written, wherever the clock wraps in between.
TimerTrue == Connected => TimerGet(deadline) = Interval - sinceWrite

\* One interval, and a round of the loop that has just found the timer running.
HearTime == Interval + Timeout + MaxCallback

\* The peer hears from the client within HearTime, though the timer is only looked
\* at once a round, when select, the mutex and the callbacks let it; the rest of a
\* packet that a yield waits for can put it off by one more Timeout.
WritesInTime == pc \in Looping /\ alive =>
    sinceWrite < HearTime + IF pc \in {"yield", "keep_alive"} THEN Timeout ELSE 0

\* Two rounds of the loop, each of which may end with a ping that blocks, then one
\* command that holds the mutex, and the callback in which its error waits.
NoticeTime == 2 * (Interval + Timeout + MaxCallback) + 2 * Timeout + MaxCallback

\* A dead peer is noticed, unless somebody publishes at QoS 0: the ping that
\* nobody answers, or the command whose answer is missing, ends the session.
DeadPeerNoticed == pc \in Looping => silence < NoticeTime

\* A peer that answers in time is never given up for a missing pong, however late
\* the process comes to read it, as long as no packet has been broken off.
LivePeerKept == pc = "keep_alive" /\ alive /\ framed => ~(PingDue /\ pongPending)

\* A yield always has a packet to read, whole or in part: it never waits, with the
\* main mutex held, for a packet that a command has read since select saw it
\* (esp_mqtt.c:254, "only if there is still data to read").
YieldHasData == pc = "yield" => Data
=============================================================================

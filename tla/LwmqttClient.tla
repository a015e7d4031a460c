---------------------------- MODULE LwmqttClient ----------------------------
(***************************************************************************)
(* The MQTT client of lwmqtt/src/client.c on one connection at a time: a   *)
(* command writes its packet and reads packets until the one that answers  *)
(* it arrives or its timer runs out.  Whatever else arrives meanwhile is   *)
(* handled on the way.  The caller issues one command at a time, as        *)
(* esp_mqtt.c does under its main mutex.                                   *)
(*                                                                         *)
(* The two directions of the connection are sequences of packets.  A call  *)
(* may wait in the middle of the one it reads, of which only a part has    *)
(* come; if its timer runs out there, the client is out of step with what  *)
(* it reads next (MqttKeepAlive follows that), and here the connection is  *)
(* closed.  Packets to which the broker has nothing to answer (QoS 0       *)
(* publishes, DISCONNECT) are not kept.  The broker is external: it        *)
(* answers in order, after any delay.                                      *)
(***************************************************************************)
EXTENDS Naturals, Sequences, FiniteSets

CONSTANTS
    MaxId,          \* the largest packet id, 65535
    MaxCommands,    \* bound: commands with a packet id per connection
    MaxInbound      \* bound: messages the broker sends per connection

ASSUME ClientAssumption == /\ MaxId \in Nat \ {0}
                           /\ MaxCommands \in Nat /\ MaxInbound \in Nat

Commands == {"subscribe", "unsubscribe", "publish1", "publish2"}
Inbound == {"publish0", "publish1", "publish2"}

\* The packet each call waits for; a yield waits for none in particular.
\* Seeded fault: a QoS 2 publish is content with the first acknowledgement.
NeedleTooEarly == [connect |-> "connack", subscribe |-> "suback", unsubscribe |-> "unsuback",
                   publish1 |-> "puback", publish2 |-> "pubrec", yield |-> "no_packet"]
Needle == [connect |-> "connack", subscribe |-> "suback", unsubscribe |-> "unsuback",
           publish1 |-> "puback", publish2 |-> "pubcomp", yield |-> "no_packet"]

VARIABLES
    up,           \* the CONNECT has been accepted on this connection
    op,           \* the call in progress: [kind, id, avail], kind "none" when idle
    read,         \* what the yield in progress has read so far
    lastId,       \* last_packet_id
    pongPending,  \* pong_pending
    due,          \* the keep-alive timer has run out
    toBroker,     \* packets written and not yet received by the broker
    fromBroker,   \* packets sent by the broker and not yet read
    commands,     \* number of commands issued
    succeeded,    \* ids whose command has returned success
    tainted,      \* a call has returned without its answer
    done,         \* ids whose command the broker has completed
    inbound,      \* number of messages the broker has sent
    handled,      \* inbound messages given to the message callback
    acked         \* inbound messages the broker believes received

call == <<op, read>>
client == <<lastId, pongPending, due>>
outcome == <<commands, succeeded, tainted>>
broker == <<done, inbound, acked>>
vars == <<up, call, client, toBroker, fromBroker, outcome, broker, handled>>

Idle == [kind |-> "none", id |-> 0, avail |-> 0]
Packet(type, id) == [type |-> type, id |-> id]

Init ==
    /\ up = FALSE /\ op = Idle /\ read = 0
    /\ lastId = 1 /\ pongPending = FALSE /\ due = FALSE
    /\ toBroker = <<>> /\ fromBroker = <<>>
    /\ commands = 0 /\ succeeded = {} /\ tainted = FALSE
    /\ done = {} /\ inbound = 0 /\ acked = {} /\ handled = {}

-----------------------------------------------------------------------------
\* Seeded fault: the counter runs past the largest id.
NextPacketIdUnbounded(last) == last + 1
\* lwmqtt_get_next_packet_id
NextPacketId(last) == IF last = MaxId THEN 1 ELSE last + 1

\* lwmqtt_send_packet_in_buffer: the packets are written and the keep-alive
\* timer starts again.
Send(packets) == /\ toBroker' = toBroker \o packets
                 /\ due' = FALSE
SendNothing == UNCHANGED <<toBroker, due>>

\* The call in progress returns, with success or with an error.
Finish(ok) ==
    /\ op' = Idle /\ read' = 0
    /\ succeeded' = IF ok /\ op.kind \in Commands THEN succeeded \cup {op.id} ELSE succeeded

-----------------------------------------------------------------------------
(***************************************************************************)
(* lwmqtt_init and lwmqtt_connect on a new network connection.             *)
(***************************************************************************)
Connect ==
    /\ op = Idle /\ ~up
    /\ op' = [Idle EXCEPT !.kind = "connect"]
    /\ lastId' = 1 /\ pongPending' = FALSE /\ due' = FALSE
    /\ toBroker' = <<Packet("connect", 0)>> /\ fromBroker' = <<>>
    /\ commands' = 0 /\ succeeded' = {} /\ tainted' = FALSE
    /\ done' = {} /\ inbound' = 0 /\ acked' = {} /\ handled' = {}
    /\ UNCHANGED <<up, read>>

(***************************************************************************)
(* lwmqtt_subscribe, lwmqtt_unsubscribe and lwmqtt_publish at QoS 1 and 2: *)
(* take the next id, write the packet, then wait for the answer.  An id    *)
(* that comes round again stands for the new command only.                 *)
(***************************************************************************)
TakeId ==
    /\ op = Idle /\ up
    /\ commands < MaxCommands
    /\ commands' = commands + 1
    /\ lastId' = NextPacketId(lastId)
    /\ succeeded' = succeeded \ {lastId'}
    /\ done' = done \ {lastId'}

Issue(kind) ==
    /\ TakeId
    /\ op' = [kind |-> kind, id |-> lastId', avail |-> 0]
    /\ Send(<<Packet(kind, lastId')>>)
    /\ UNCHANGED <<up, read, pongPending, fromBroker, tainted, inbound, acked, handled>>

\* The packet does not fit the write buffer, or cannot be written.
IssueFails ==
    /\ TakeId
    /\ tainted' = TRUE
    /\ UNCHANGED <<up, call, pongPending, due, toBroker, fromBroker, inbound, acked, handled>>

\* lwmqtt_publish at QoS 0 returns once the packet is written.
PublishQos0 ==
    /\ op = Idle /\ up
    /\ Send(<<>>)
    /\ UNCHANGED <<up, call, lastId, pongPending, fromBroker, outcome, broker, handled>>

\* lwmqtt_yield, told how many bytes there are to read (0: not told).  They are
\* counted in the packets they begin in, of those on their way: of the last one
\* the rest may still be to come, and the yield waits for it.
Yield ==
    /\ op = Idle /\ up
    /\ \E avail \in 0..Len(fromBroker) :
          op' = [kind |-> "yield", id |-> 0, avail |-> avail]
    /\ UNCHANGED <<up, read, client, toBroker, fromBroker, outcome, broker, handled>>

\* lwmqtt_disconnect, after which the caller closes the connection; or the
\* caller closes it for another reason.
Disconnect ==
    /\ op = Idle /\ up
    /\ up' = FALSE
    /\ toBroker' = <<>> /\ fromBroker' = <<>>
    /\ due' = FALSE
    /\ UNCHANGED <<call, lastId, pongPending, outcome, broker, handled>>

(***************************************************************************)
(* lwmqtt_keep_alive: nothing to do while the timer runs; then a ping, and *)
(* an error if the previous one is still unanswered.                       *)
(***************************************************************************)
\* Seeded fault: the pending pong is not looked at.
MayPingAlways == TRUE
MayPing == ~pongPending

KeepAlivePings ==
    /\ op = Idle /\ up /\ due
    /\ MayPing
    /\ pongPending' = TRUE
    /\ Send(<<Packet("pingreq", 0)>>)
    /\ UNCHANGED <<up, call, lastId, fromBroker, outcome, broker, handled>>

\* The pong is missing, or the ping cannot be written.
KeepAliveFails ==
    /\ op = Idle /\ up /\ due
    /\ tainted' = TRUE
    /\ UNCHANGED <<up, call, client, toBroker, fromBroker, commands, succeeded, broker, handled>>

\* Nothing has been written for the keep-alive interval.
KeepAliveExpires ==
    /\ up /\ ~due
    /\ due' = TRUE
    /\ UNCHANGED <<up, call, lastId, pongPending, toBroker, fromBroker, outcome, broker, handled>>

-----------------------------------------------------------------------------
(***************************************************************************)
(* lwmqtt_cycle: one packet read and handled, inside the call in progress. *)
(***************************************************************************)
\* What a packet makes the client write.
Reply(p) == CASE p.type = "publish1" -> <<Packet("puback", p.id)>>
              [] p.type = "publish2" -> <<Packet("pubrec", p.id)>>
              [] p.type = "pubrec" -> <<Packet("pubrel", p.id)>>
              [] p.type = "pubrel" -> <<Packet("pubcomp", p.id)>>
              [] OTHER -> <<>>

\* Seeded fault: only a yield hands messages over.
HandOverInYield(p) ==
    handled' = IF p.type \in Inbound /\ op.kind = "yield" THEN handled \cup {p.id} ELSE handled
\* A PUBLISH goes to the message callback before it is acknowledged.
HandOver(p) == handled' = IF p.type \in Inbound THEN handled \cup {p.id} ELSE handled

\* The condition of lwmqtt_cycle_until when there is no needle.
YieldGoesOn(n, avail) == n < avail

\* Whether the packet ends the loop of lwmqtt_cycle_until.
Ends(p) == \/ p.type = Needle[op.kind]
           \/ op.kind = "yield" /\ ~YieldGoesOn(read + 1, op.avail)

\* The answer can say no: a refused CONNECT, a failed subscription.
Accepted(p) == IF p.type \in {"connack", "suback"} THEN BOOLEAN ELSE {TRUE}

Cycle ==
    /\ op # Idle
    /\ fromBroker # <<>>
    /\ LET p == Head(fromBroker)
       IN /\ fromBroker' = Tail(fromBroker)
          /\ HandOver(p)
          /\ pongPending' = (pongPending /\ p.type # "pingresp")
          /\ IF Reply(p) = <<>> THEN SendNothing ELSE Send(Reply(p))
          /\ IF Ends(p)
             THEN \E ok \in Accepted(p) :
                     Finish(ok) /\ up' = (up \/ (op.kind = "connect" /\ ok))
             ELSE /\ read' = IF op.kind = "yield" THEN read + 1 ELSE read
                  /\ UNCHANGED <<up, op, succeeded>>
    /\ UNCHANGED <<lastId, commands, tainted, broker>>

\* The packet cannot be decoded, or its acknowledgement cannot be written.
CycleFails ==
    /\ op # Idle
    /\ fromBroker # <<>>
    /\ Head(fromBroker).type # "pingresp"
    /\ fromBroker' = Tail(fromBroker)
    /\ HandOver(Head(fromBroker)) \/ UNCHANGED handled
    /\ Finish(FALSE)
    /\ tainted' = TRUE
    /\ UNCHANGED <<up, client, toBroker, commands, broker>>

\* The command timer runs out between two packets, or the network reports an error.
GiveUp ==
    /\ op # Idle
    /\ Finish(FALSE)
    /\ tainted' = TRUE
    /\ UNCHANGED <<up, client, toBroker, fromBroker, commands, broker, handled>>

\* The command timer runs out in the middle of a packet.
CutShort ==
    /\ op # Idle
    /\ fromBroker # <<>>
    /\ Finish(FALSE)
    /\ tainted' = TRUE
    /\ up' = FALSE
    /\ toBroker' = <<>> /\ fromBroker' = <<>>
    /\ due' = FALSE
    /\ UNCHANGED <<lastId, pongPending, commands, broker, handled>>

\* A yield that times out between two packets is no error.
YieldTimesOut ==
    /\ op.kind = "yield"
    /\ Finish(TRUE)
    /\ UNCHANGED <<up, client, toBroker, fromBroker, commands, tainted, broker, handled>>

-----------------------------------------------------------------------------
(***************************************************************************)
(* The broker (external).                                                  *)
(***************************************************************************)
Answer == [connect |-> "connack", subscribe |-> "suback", unsubscribe |-> "unsuback",
           publish1 |-> "puback", publish2 |-> "pubrec", pubrel |-> "pubcomp",
           pubrec |-> "pubrel", pingreq |-> "pingresp"]

BrokerReceives ==
    /\ toBroker # <<>>
    /\ LET p == Head(toBroker)
       IN /\ toBroker' = Tail(toBroker)
          /\ fromBroker' = IF p.type \in DOMAIN Answer
                           THEN Append(fromBroker, Packet(Answer[p.type], p.id))
                           ELSE fromBroker
          /\ done' = IF p.type \in {"subscribe", "unsubscribe", "publish1", "pubrel"}
                     THEN done \cup {p.id} ELSE done
          /\ acked' = IF p.type \in {"puback", "pubrec"} THEN acked \cup {p.id} ELSE acked
    /\ UNCHANGED <<up, call, client, outcome, inbound, handled>>

BrokerPublishes(type) ==
    /\ up
    /\ inbound < MaxInbound
    /\ inbound' = inbound + 1
    /\ fromBroker' = Append(fromBroker, Packet(type, inbound'))
    /\ UNCHANGED <<up, call, client, toBroker, outcome, done, acked, handled>>

-----------------------------------------------------------------------------
Next ==
    \/ Connect \/ PublishQos0 \/ Yield \/ Disconnect
    \/ \E kind \in Commands : Issue(kind)
    \/ IssueFails
    \/ KeepAlivePings \/ KeepAliveFails \/ KeepAliveExpires
    \/ Cycle \/ CycleFails \/ GiveUp \/ CutShort \/ YieldTimesOut
    \/ BrokerReceives
    \/ \E type \in Inbound : BrokerPublishes(type)

Spec == Init /\ [][Next]_vars

-----------------------------------------------------------------------------
(***************************************************************************)
(* Properties.                                                             *)
(***************************************************************************)
PacketTypes == DOMAIN Answer \cup {Answer[t] : t \in DOMAIN Answer} \cup {"publish0"}
Packets == [type : PacketTypes, id : 0..(MaxId + MaxInbound)]

\* Every variable keeps its type; a packet id is never 0 and fits its 16 bits.
TypeOK ==
    /\ up \in BOOLEAN /\ pongPending \in BOOLEAN /\ due \in BOOLEAN /\ tainted \in BOOLEAN
    /\ op \in [kind : DOMAIN Needle \cup {"none"}, id : 0..MaxId, avail : Nat]
    /\ read \in Nat
    /\ lastId \in 1..MaxId
    /\ toBroker \in Seq(Packets) /\ fromBroker \in Seq(Packets)
    /\ commands \in 0..MaxCommands
    /\ succeeded \subseteq 1..MaxId /\ done \subseteq 1..MaxId
    /\ inbound \in 0..MaxInbound
    /\ handled \subseteq 1..inbound /\ acked \subseteq 1..inbound

\* As long as every call has had its answer, a command that returns success has
\* been completed by the broker, up to the last acknowledgement of QoS 2.
CommandDone == ~tainted => succeeded \subseteq done

\* A publish that returns success had all its acknowledgements, whatever
\* happened before (lwmqtt.h:270: "Will send a publish packet and wait for all
\* acks to complete").
PublishAcked == [][op.kind \in {"publish1", "publish2"} /\ op.id \in succeeded'
                      => op.id \in done]_vars

Count(s, type) == Cardinality({i \in 1..Len(s) : s[i].type = type})

\* The pending flag stands for exactly one ping on its way there or back: no
\* ping overtakes another, and a pong that arrives inside any call is noticed.
PingBalance == up => Count(toBroker, "pingreq") + Count(fromBroker, "pingresp")
                        = (IF pongPending THEN 1 ELSE 0)

\* The broker believes a message received only if the message callback had it,
\* whichever call read it.
InboundHandled == acked \subseteq handled
=============================================================================

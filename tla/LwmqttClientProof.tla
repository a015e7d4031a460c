-------------------------- MODULE LwmqttClientProof --------------------------
(***************************************************************************)
(* Theorems about LwmqttClient for any largest packet id, any number of    *)
(* commands and any number of inbound messages.                            *)
(***************************************************************************)
EXTENDS LwmqttClient, FiniteSetTheorems, TLAPS

\* No packet, and exactly one packet, of a sequence has one of the types in T.
Without(s, T) == \A i \in 1..Len(s) : s[i].type \notin T
Lone(s, T) == \E k \in 1..Len(s) : /\ s[k].type \in T
                                   /\ \A i \in 1..Len(s) : i # k => s[i].type \notin T

\* The packets of a command on their way to the broker, and the answers to them.
Requests == Commands \cup {"pubrel"}
Answers == {"suback", "unsuback", "puback", "pubrec", "pubcomp"}

\* What is written, and what the broker sends.
Written == {p \in Packets : /\ p.type \in {"puback", "pubrec"} => p.id \in handled
                            /\ p.type \in Requests => p.id \in 1..MaxId}
Sent == {p \in Packets : /\ p.type \in Inbound => p.id \in 1..inbound
                         /\ p.type \in Answers => p.id \in 1..MaxId}

Basic ==
    /\ up \in BOOLEAN /\ pongPending \in BOOLEAN /\ due \in BOOLEAN /\ tainted \in BOOLEAN
    /\ op \in [kind : DOMAIN Needle \cup {"none"}, id : 0..MaxId, avail : Nat]
    /\ op.kind \in Commands => op.id \in 1..MaxId
    /\ read \in Nat /\ (op.kind # "yield" => read = 0)
    /\ lastId \in 1..MaxId
    /\ toBroker \in Seq(Written) /\ fromBroker \in Seq(Sent)
    /\ commands \in 0..MaxCommands /\ inbound \in 0..MaxInbound
    /\ succeeded \subseteq 1..MaxId /\ done \subseteq 1..MaxId
    /\ handled \subseteq 1..inbound
    /\ InboundHandled

\* One ping at most is on its way, there or back.
Pings ==
    up \/ op.kind = "connect" =>
       \/ /\ ~pongPending
          /\ Without(toBroker, {"pingreq"}) /\ Without(fromBroker, {"pingresp"})
       \/ /\ pongPending
          /\ \/ Lone(toBroker, {"pingreq"}) /\ Without(fromBroker, {"pingresp"})
             \/ Without(toBroker, {"pingreq"}) /\ Lone(fromBroker, {"pingresp"})

\* As long as every call had its answer, the packets of a command under way are
\* those of the call in progress, and it has exactly one.
Asks(p) == p.id = op.id /\ (p.type = op.kind \/ (p.type = "pubrel" /\ op.kind = "publish2"))
Answered(p) == /\ p.id = op.id
               /\ \/ p.type = "suback" /\ op.kind = "subscribe" /\ op.id \in done
                  \/ p.type = "unsuback" /\ op.kind = "unsubscribe" /\ op.id \in done
                  \/ p.type = "puback" /\ op.kind = "publish1" /\ op.id \in done
                  \/ p.type = "pubrec" /\ op.kind = "publish2"
                  \/ p.type = "pubcomp" /\ op.kind = "publish2" /\ op.id \in done
ToMatch == \A i \in 1..Len(toBroker) : toBroker[i].type \in Requests => Asks(toBroker[i])
FromMatch == \A i \in 1..Len(fromBroker) : fromBroker[i].type \in Answers => Answered(fromBroker[i])
Exchange ==
    ~tainted =>
       /\ succeeded \subseteq done
       /\ ToMatch /\ FromMatch
       /\ \/ /\ op.kind \notin Commands
             /\ Without(toBroker, Requests) /\ Without(fromBroker, Answers)
          \/ /\ op.kind \in Commands
             /\ \/ Lone(toBroker, Requests) /\ Without(fromBroker, Answers)
                \/ Without(toBroker, Requests) /\ Lone(fromBroker, Answers)

-----------------------------------------------------------------------------
\* Facts about sequences of packets.
LEMMA Appended ==
    ASSUME NEW S, NEW s \in Seq(S), NEW p \in S, NEW T
    PROVE  /\ Append(s, p) \in Seq(S)
           /\ s \o <<p>> = Append(s, p)
           /\ p.type \notin T /\ Without(s, T) => Without(Append(s, p), T)
           /\ p.type \in T /\ Without(s, T) => Lone(Append(s, p), T)
           /\ p.type \notin T /\ Lone(s, T) => Lone(Append(s, p), T)
<1>1. /\ Append(s, p) \in Seq(S) /\ Len(s) \in Nat /\ Len(Append(s, p)) = Len(s) + 1
      /\ \A i \in 1..Len(s) : Append(s, p)[i] = s[i]
      /\ Append(s, p)[Len(s) + 1] = p
  OBVIOUS
<1>2. s \o <<p>> = Append(s, p)
  OBVIOUS
<1>3. p.type \notin T /\ Without(s, T) => Without(Append(s, p), T)
  BY <1>1 DEF Without
<1>4. p.type \in T /\ Without(s, T) => Lone(Append(s, p), T)
  <2> SUFFICES ASSUME p.type \in T, Without(s, T)
               PROVE  \E k \in 1..Len(Append(s, p)) :
                         /\ Append(s, p)[k].type \in T
                         /\ \A i \in 1..Len(Append(s, p)) : i # k => Append(s, p)[i].type \notin T
    BY DEF Lone
  <2> WITNESS Len(s) + 1 \in 1..Len(Append(s, p))
  <2> QED
    BY <1>1 DEF Without
<1>5. p.type \notin T /\ Lone(s, T) => Lone(Append(s, p), T)
  <2> SUFFICES ASSUME p.type \notin T, Lone(s, T)
               PROVE  \E k \in 1..Len(Append(s, p)) :
                         /\ Append(s, p)[k].type \in T
                         /\ \A i \in 1..Len(Append(s, p)) : i # k => Append(s, p)[i].type \notin T
    BY DEF Lone
  <2>1. PICK k \in 1..Len(s) : /\ s[k].type \in T
                               /\ \A i \in 1..Len(s) : i # k => s[i].type \notin T
    BY DEF Lone
  <2>2. k \in 1..Len(Append(s, p))
    BY <1>1
  <2> WITNESS k \in 1..Len(Append(s, p))
  <2> QED
    BY <1>1, <2>1
<1>6. QED
  BY <1>1, <1>2, <1>3, <1>4, <1>5

\* What taking the first packet leaves.
LEMMA Taken ==
    ASSUME NEW S, NEW s \in Seq(S), s # <<>>, NEW T
    PROVE  /\ Head(s) \in S /\ Tail(s) \in Seq(S)
           /\ Head(s) = s[1] /\ 1 \in 1..Len(s)
           /\ Len(Tail(s)) = Len(s) - 1 /\ Len(s) \in Nat
           /\ \A i \in 1..Len(Tail(s)) : Tail(s)[i] = s[i + 1]
           /\ Without(s, T) => Without(Tail(s), T) /\ Head(s).type \notin T
           /\ Lone(s, T) /\ Head(s).type \in T => Without(Tail(s), T)
           /\ Lone(s, T) /\ Head(s).type \notin T => Lone(Tail(s), T)
<1>1. /\ Head(s) \in S /\ Tail(s) \in Seq(S) /\ Len(s) \in Nat \ {0}
      /\ Len(Tail(s)) = Len(s) - 1 /\ Head(s) = s[1]
      /\ \A i \in 1..Len(Tail(s)) : Tail(s)[i] = s[i + 1]
  OBVIOUS
<1>2. Without(s, T) => Without(Tail(s), T) /\ Head(s).type \notin T
  BY <1>1 DEF Without
<1>3. ASSUME Lone(s, T), Head(s).type \in T PROVE Without(Tail(s), T)
  BY <1>1, <1>3 DEF Lone, Without
<1>4. ASSUME Lone(s, T), Head(s).type \notin T PROVE Lone(Tail(s), T)
  <2>1. PICK k \in 1..Len(s) : /\ s[k].type \in T
                               /\ \A i \in 1..Len(s) : i # k => s[i].type \notin T
    BY <1>4 DEF Lone
  <2>2. k # 1
    BY <1>1, <1>4, <2>1
  <2>3. k - 1 \in 1..Len(Tail(s)) /\ (k - 1) + 1 = k
    BY <1>1, <2>1, <2>2
  <2>4. Tail(s)[k - 1].type \in T
    BY <1>1, <2>1, <2>3
  <2>5. \A i \in 1..Len(Tail(s)) : i # k - 1 => Tail(s)[i].type \notin T
    BY <1>1, <2>1, <2>3
  <2>6. QED
    BY <2>3, <2>4, <2>5 DEF Lone
<1>5. QED
  BY <1>1, <1>2, <1>3, <1>4

\* A sequence over a set is one over any larger set.
LEMMA Widened == ASSUME NEW A, NEW B, A \subseteq B, NEW s \in Seq(A) PROVE s \in Seq(B)
BY SMT

\* How many packets of a type there are.
LEMMA Counted ==
    ASSUME NEW S, NEW s \in Seq(S), NEW t
    PROVE  /\ Without(s, {t}) => Count(s, t) = 0
           /\ Lone(s, {t}) => Count(s, t) = 1
<1> DEFINE I == {i \in 1..Len(s) : s[i].type = t}
<1>1. Count(s, t) = Cardinality(I)
  BY DEF Count
<1>2. ASSUME Without(s, {t}) PROVE Count(s, t) = 0
  <2>1. I = {}
    BY <1>2 DEF Without
  <2>2. QED
    BY <1>1, <2>1, FS_EmptySet
<1>3. ASSUME Lone(s, {t}) PROVE Count(s, t) = 1
  <2>1. PICK k \in 1..Len(s) : /\ s[k].type \in {t}
                               /\ \A i \in 1..Len(s) : i # k => s[i].type \notin {t}
    BY <1>3 DEF Lone
  <2>2. I = {k}
    BY <2>1
  <2>3. QED
    BY <1>1, <2>2, FS_Singleton
<1>4. QED
  BY <1>2, <1>3

\* The types of packets, spelled out.
LEMMA PacketTypesAre ==
    /\ DOMAIN Needle = {"connect", "subscribe", "unsubscribe", "publish1", "publish2", "yield"}
    /\ DOMAIN Answer = {"connect", "subscribe", "unsubscribe", "publish1", "publish2", "pubrel",
                        "pubrec", "pingreq"}
    /\ PacketTypes = {"connect", "subscribe", "unsubscribe", "publish0", "publish1", "publish2",
                      "pubrel", "pubrec", "pingreq", "connack", "suback", "unsuback", "puback",
                      "pubcomp", "pingresp"}
<1>1. DOMAIN Needle = {"connect", "subscribe", "unsubscribe", "publish1", "publish2", "yield"}
  BY DEF Needle
<1>2. DOMAIN Answer = {"connect", "subscribe", "unsubscribe", "publish1", "publish2", "pubrel",
                       "pubrec", "pingreq"}
  BY DEF Answer
<1>3. /\ Answer["connect"] = "connack" /\ Answer["subscribe"] = "suback"
      /\ Answer["unsubscribe"] = "unsuback" /\ Answer["publish1"] = "puback"
      /\ Answer["publish2"] = "pubrec" /\ Answer["pubrel"] = "pubcomp"
      /\ Answer["pubrec"] = "pubrel" /\ Answer["pingreq"] = "pingresp"
  BY DEF Answer
<1>4. {Answer[t] : t \in DOMAIN Answer} = {"connack", "suback", "unsuback", "puback", "pubrec",
                                           "pubcomp", "pubrel", "pingresp"}
  BY <1>2, <1>3
<1>5. QED
  BY <1>1, <1>2, <1>4 DEF PacketTypes

\* A packet of one of the types is one of the packets.
LEMMA PacketIs ==
    ASSUME NEW t \in PacketTypes, NEW id \in 0..(MaxId + MaxInbound)
    PROVE  Packet(t, id) \in Packets /\ Packet(t, id).type = t /\ Packet(t, id).id = id
BY DEF Packet, Packets

\* Integers that types need.
LEMMA Numbers ==
    /\ MaxId \in Nat /\ MaxId > 0 /\ MaxInbound \in Nat /\ MaxCommands \in Nat
    /\ 0 \in 0..MaxId /\ 1 \in 1..MaxId /\ 0 \in 0..MaxCommands /\ 0 \in 0..MaxInbound
    /\ 0..MaxId \subseteq 0..(MaxId + MaxInbound)
    /\ 0..MaxInbound \subseteq 0..(MaxId + MaxInbound)
BY ClientAssumption

\* The next packet id is never 0.
LEMMA NextIdRange == ASSUME NEW n \in 1..MaxId PROVE NextPacketId(n) \in 1..MaxId
BY Numbers DEF NextPacketId

\* The calls that wait for an answer.
LEMMA NeedleIs ==
    /\ Needle["connect"] = "connack" /\ Needle["subscribe"] = "suback"
    /\ Needle["unsubscribe"] = "unsuback" /\ Needle["publish1"] = "puback"
    /\ Needle["publish2"] = "pubcomp" /\ Needle["yield"] = "no_packet"
BY DEF Needle

\* What the broker answers to each type, spelled out.
LEMMA AnswerIs ==
    /\ Answer["connect"] = "connack" /\ Answer["subscribe"] = "suback"
    /\ Answer["unsubscribe"] = "unsuback" /\ Answer["publish1"] = "puback"
    /\ Answer["publish2"] = "pubrec" /\ Answer["pubrel"] = "pubcomp"
    /\ Answer["pubrec"] = "pubrel" /\ Answer["pingreq"] = "pingresp"
BY DEF Answer

-----------------------------------------------------------------------------
(***************************************************************************)
(* The types, what the broker believes, and how far a yield reads.         *)
(***************************************************************************)
\* The invariant holds before the first connection.
LEMMA BasicInit == Init => Basic
<1> SUFFICES ASSUME Init PROVE Basic
  OBVIOUS
<1>1. /\ toBroker \in Seq(Written) /\ fromBroker \in Seq(Sent)
      /\ Idle \in [kind : DOMAIN Needle \cup {"none"}, id : 0..MaxId, avail : Nat]
  BY Numbers DEF Init, Idle
<1>2. QED
  BY <1>1, Numbers DEF Init, Basic, Idle, Commands, InboundHandled

\* A call returns.
LEMMA FinishFacts ==
    ASSUME Basic, NEW ok \in BOOLEAN, Finish(ok)
    PROVE  /\ op' = Idle /\ Idle.kind = "none" /\ read' = 0
           /\ op' \in [kind : DOMAIN Needle \cup {"none"}, id : 0..MaxId, avail : Nat]
           /\ succeeded' \subseteq 1..MaxId
           /\ \/ succeeded' = succeeded
              \/ op.kind \in Commands /\ succeeded' = succeeded \cup {op.id}
BY Numbers DEF Finish, Idle, Basic

\* A connection begins, or ends.
LEMMA BasicConnection == ASSUME Basic, Connect \/ Disconnect PROVE Basic'
<1> USE DEF Basic
<1>1. CASE Connect
  <2>1. /\ op' = [Idle EXCEPT !.kind = "connect"] /\ op = Idle
        /\ lastId' = 1 /\ pongPending' = FALSE /\ due' = FALSE
        /\ toBroker' = <<Packet("connect", 0)>> /\ fromBroker' = <<>>
        /\ commands' = 0 /\ succeeded' = {} /\ tainted' = FALSE
        /\ done' = {} /\ inbound' = 0 /\ acked' = {} /\ handled' = {}
        /\ UNCHANGED <<up, read>>
    BY <1>1 DEF Connect
  <2>2. /\ op' \in [kind : DOMAIN Needle \cup {"none"}, id : 0..MaxId, avail : Nat]
        /\ op'.kind = "connect" /\ read = 0
    BY <2>1, PacketTypesAre, Numbers DEF Idle
  <2>3. Packet("connect", 0) \in Written'
    <3>1. 0 \in 0..(MaxId + MaxInbound) /\ "connect" \in PacketTypes
      BY Numbers, PacketTypesAre
    <3>2. Packet("connect", 0) \in Packets /\ Packet("connect", 0).type = "connect"
      BY <3>1, PacketIs
    <3>3. QED
      BY <3>2 DEF Written, Requests, Commands
  <2>4. toBroker' \in Seq(Written') /\ fromBroker' \in Seq(Sent')
    BY <2>1, <2>3
  <2>5. Commands \cap {"connect"} = {}
    BY DEF Commands
  <2>6. QED
    BY <2>1, <2>2, <2>4, <2>5, Numbers DEF InboundHandled
<1>2. CASE Disconnect
  <2>1. /\ up' = FALSE /\ due' = FALSE /\ toBroker' = <<>> /\ fromBroker' = <<>>
        /\ UNCHANGED <<op, read, lastId, pongPending, commands, succeeded, tainted, done, inbound,
                       acked, handled>>
    BY <1>2 DEF Disconnect, call, outcome, broker
  <2>2. toBroker' \in Seq(Written') /\ fromBroker' \in Seq(Sent')
    BY <2>1
  <2>3. QED
    BY <2>1, <2>2 DEF InboundHandled
<1>3. QED
  BY <1>1, <1>2

\* Steps that leave what the sets of packets are made of.
LEMMA SameSets ==
    ASSUME UNCHANGED <<handled, inbound>> PROVE Written' = Written /\ Sent' = Sent
BY DEF Written, Sent

\* Something is written.
LEMMA SendFacts ==
    ASSUME Basic, NEW p \in Written, Send(<<p>>)
    PROVE  toBroker' = Append(toBroker, p) /\ toBroker' \in Seq(Written) /\ due' = FALSE
BY Appended DEF Send, Basic

\* A command is issued, or cannot be.
LEMMA TakeIdFacts ==
    ASSUME Basic, TakeId
    PROVE  /\ op = Idle /\ up /\ lastId' \in 1..MaxId /\ commands' \in 0..MaxCommands
           /\ succeeded' = succeeded \ {lastId'} /\ done' = done \ {lastId'}
           /\ Idle.kind = "none" /\ read = 0
<1>1. commands \in Nat /\ commands + 1 <= MaxCommands
  BY Numbers DEF Basic, TakeId
<1>2. QED
  BY <1>1, NextIdRange DEF Basic, TakeId, Idle

\* A command that is issued, or fails to be, keeps the types.
LEMMA BasicCommand ==
    ASSUME Basic, (\E kind \in Commands : Issue(kind)) \/ IssueFails PROVE Basic'
<1> USE DEF Basic
<1>1. ASSUME NEW kind \in Commands, Issue(kind) PROVE Basic'
  <2>1. /\ op' = [kind |-> kind, id |-> lastId', avail |-> 0]
        /\ Send(<<Packet(kind, lastId')>>) /\ TakeId
        /\ UNCHANGED <<up, read, pongPending, fromBroker, tainted, inbound, acked, handled>>
    BY <1>1 DEF Issue
  <2>2. /\ lastId' \in 1..MaxId /\ commands' \in 0..MaxCommands /\ read = 0
        /\ succeeded' \subseteq 1..MaxId /\ done' \subseteq 1..MaxId
    BY <2>1, TakeIdFacts
  <2>3. Packet(kind, lastId') \in Written
    <3>1. kind \in PacketTypes /\ lastId' \in 0..(MaxId + MaxInbound)
          /\ kind \notin {"puback", "pubrec"}
      BY <2>2, Numbers, PacketTypesAre DEF Commands
    <3>2. QED
      BY <2>2, <3>1, PacketIs DEF Written
  <2>4. toBroker' \in Seq(Written') /\ fromBroker' \in Seq(Sent') /\ due' = FALSE
    BY <2>1, <2>3, SendFacts, SameSets
  <2>5. /\ op' \in [kind : DOMAIN Needle \cup {"none"}, id : 0..MaxId, avail : Nat]
        /\ op'.kind # "yield" /\ op'.id \in 1..MaxId
    BY <2>1, <2>2, PacketTypesAre, Numbers DEF Commands
  <2>6. QED
    BY <2>1, <2>2, <2>4, <2>5 DEF InboundHandled
<1>2. ASSUME IssueFails PROVE Basic'
  <2>1. /\ TakeId /\ tainted' = TRUE
        /\ UNCHANGED <<up, op, read, pongPending, due, toBroker, fromBroker, inbound, acked,
                       handled>>
    BY <1>2 DEF IssueFails, call
  <2>2. QED
    BY <2>1, TakeIdFacts, SameSets DEF InboundHandled
<1>3. QED
  BY <1>1, <1>2

\* The other calls, and the time.
LEMMA BasicCall ==
    ASSUME Basic, PublishQos0 \/ Yield \/ KeepAlivePings \/ KeepAliveFails \/ KeepAliveExpires
    PROVE  Basic'
<1> USE DEF Basic
<1>1. CASE PublishQos0
  <2>1. /\ toBroker' = toBroker /\ due' = FALSE
        /\ UNCHANGED <<up, op, read, lastId, pongPending, fromBroker, commands, succeeded, tainted,
                       done, inbound, acked, handled>>
    BY <1>1 DEF PublishQos0, Send, call, outcome, broker
  <2>2. QED
    BY <2>1, SameSets DEF InboundHandled
<1>2. CASE Yield
  <2>1. PICK avail \in 0..Len(fromBroker) : op' = [kind |-> "yield", id |-> 0, avail |-> avail]
    BY <1>2 DEF Yield
  <2>2. /\ read = 0
        /\ UNCHANGED <<up, read, lastId, pongPending, due, toBroker, fromBroker, commands,
                       succeeded, tainted, done, inbound, acked, handled>>
    BY <1>2 DEF Yield, Idle, client, outcome, broker
  <2>3. /\ op' \in [kind : DOMAIN Needle \cup {"none"}, id : 0..MaxId, avail : Nat]
        /\ op'.kind = "yield"
    BY <2>1, PacketTypesAre, Numbers
  <2>4. QED
    BY <2>2, <2>3, SameSets DEF InboundHandled, Commands
<1>3. CASE KeepAlivePings
  <2>1. /\ pongPending' = TRUE /\ Send(<<Packet("pingreq", 0)>>)
        /\ UNCHANGED <<up, op, read, lastId, fromBroker, commands, succeeded, tainted, done,
                       inbound, acked, handled>>
    BY <1>3 DEF KeepAlivePings, call, outcome, broker
  <2>2. Packet("pingreq", 0) \in Written
    <3>1. 0 \in 0..(MaxId + MaxInbound) /\ "pingreq" \in PacketTypes
      BY Numbers, PacketTypesAre
    <3>2. QED
      BY <3>1, PacketIs DEF Written, Requests, Commands
  <2>3. QED
    BY <2>1, <2>2, SendFacts, SameSets DEF InboundHandled
<1>4. CASE KeepAliveFails \/ KeepAliveExpires
  <2>1. /\ tainted' \in BOOLEAN /\ due' \in BOOLEAN
        /\ UNCHANGED <<up, op, read, lastId, pongPending, toBroker, fromBroker, commands,
                       succeeded, done, inbound, acked, handled>>
    BY <1>4 DEF KeepAliveFails, KeepAliveExpires, call, client, outcome, broker
  <2>2. QED
    BY <2>1, SameSets DEF InboundHandled
<1>5. QED
  BY <1>1, <1>2, <1>3, <1>4

\* Handing a message over.
LEMMA HandOverFacts ==
    ASSUME Basic, NEW p \in Sent, HandOver(p), UNCHANGED inbound
    PROVE  /\ handled' \subseteq 1..inbound' /\ handled \subseteq handled'
           /\ p.type \in Inbound => p.id \in handled'
           /\ Written \subseteq Written' /\ Sent' = Sent
BY DEF HandOver, Basic, Sent, Written

\* What handling a packet writes.
LEMMA CycleFacts ==
    ASSUME Basic, Cycle, NEW p, p = Head(fromBroker)
    PROVE  /\ p \in Sent /\ fromBroker # <<>> /\ fromBroker' = Tail(fromBroker)
           /\ HandOver(p) /\ inbound' = inbound
           /\ toBroker' \in Seq(Written') /\ fromBroker' \in Seq(Sent')
           /\ \/ /\ p.type \notin {"publish1", "publish2", "pubrec", "pubrel"}
                 /\ toBroker' = toBroker
              \/ \E q \in Written' :
                    /\ toBroker' = Append(toBroker, q) /\ q.id = p.id
                    /\ \/ p.type \in {"publish1", "publish2"} /\ q.type \in {"puback", "pubrec"}
                       \/ p.type = "pubrec" /\ q.type = "pubrel"
                       \/ p.type = "pubrel" /\ q.type = "pubcomp"
           /\ due' \in BOOLEAN /\ pongPending' = (pongPending /\ p.type # "pingresp")
           /\ UNCHANGED <<lastId, commands, tainted, done, inbound, acked>>
<1>1. /\ fromBroker # <<>> /\ fromBroker' = Tail(fromBroker) /\ HandOver(p)
      /\ pongPending' = (pongPending /\ p.type # "pingresp")
      /\ IF Reply(p) = <<>> THEN SendNothing ELSE Send(Reply(p))
      /\ UNCHANGED <<lastId, commands, tainted, done, inbound, acked>>
  BY DEF Cycle, broker
<1>2. p \in Sent /\ Tail(fromBroker) \in Seq(Sent)
  BY <1>1, Taken DEF Basic
<1>3. /\ Written \subseteq Written' /\ Sent' = Sent
      /\ p.type \in Inbound => p.id \in handled'
  BY <1>1, <1>2, HandOverFacts
<1>4. toBroker \in Seq(Written')
  BY <1>3, Widened DEF Basic
<1>5. p.id \in 0..(MaxId + MaxInbound) /\ p.type \in PacketTypes
  BY <1>2 DEF Sent, Packets
<1>6. ASSUME NEW t \in {"puback", "pubrec", "pubrel", "pubcomp"}, Reply(p) = <<Packet(t, p.id)>>,
             t \in {"puback", "pubrec"} => p.type \in Inbound,
             t = "pubrel" => p.type \in Answers
      PROVE  /\ Packet(t, p.id) \in Written' /\ Packet(t, p.id).type = t
             /\ Packet(t, p.id).id = p.id
             /\ toBroker' = Append(toBroker, Packet(t, p.id)) /\ toBroker' \in Seq(Written')
             /\ due' = FALSE
  <2>1. t \in PacketTypes
    BY PacketTypesAre
  <2>2. Packet(t, p.id) \in Packets /\ Packet(t, p.id).type = t /\ Packet(t, p.id).id = p.id
    BY <1>5, <2>1, PacketIs
  <2>3. Packet(t, p.id) \in Written'
    BY <1>2, <1>3, <1>6, <2>2 DEF Written, Sent, Requests, Commands
  <2>4. toBroker' = toBroker \o <<Packet(t, p.id)>> /\ due' = FALSE
    <3>1. Reply(p) # <<>>
      BY <1>6
    <3>2. QED
      BY <1>1, <1>6, <3>1 DEF Send
  <2>5. QED
    BY <1>4, <2>2, <2>3, <2>4, Appended
<1>7. CASE p.type = "publish1"
  BY <1>1, <1>2, <1>3, <1>6, <1>7 DEF Reply, Inbound, Answers
<1>8. CASE p.type = "publish2"
  BY <1>1, <1>2, <1>3, <1>6, <1>8 DEF Reply, Inbound, Answers
<1>9. CASE p.type = "pubrec"
  BY <1>1, <1>2, <1>3, <1>6, <1>9 DEF Reply, Inbound, Answers
<1>10. CASE p.type = "pubrel"
  BY <1>1, <1>2, <1>3, <1>6, <1>10 DEF Reply, Inbound, Answers
<1>11. CASE p.type \notin {"publish1", "publish2", "pubrec", "pubrel"}
  BY <1>1, <1>2, <1>3, <1>4, <1>11 DEF Reply, SendNothing, Basic
<1>12. QED
  BY <1>7, <1>8, <1>9, <1>10, <1>11

\* Whether the call goes on.
LEMMA CycleEnds ==
    ASSUME Basic, Cycle, NEW p, p = Head(fromBroker)
    PROVE  \/ /\ Ends(p) /\ \E ok \in BOOLEAN : Finish(ok)
              /\ up' \in BOOLEAN /\ (up' => up \/ op.kind = "connect")
           \/ /\ ~Ends(p) /\ UNCHANGED <<up, op, succeeded>>
              /\ read' = IF op.kind = "yield" THEN read + 1 ELSE read
BY DEF Cycle, Accepted, Basic

\* Reading one packet keeps the types and what the broker may believe.
LEMMA BasicCycle == ASSUME Basic, Cycle PROVE Basic'
<1> DEFINE p == Head(fromBroker)
<1>1. /\ p \in Sent /\ HandOver(p) /\ toBroker' \in Seq(Written') /\ fromBroker' \in Seq(Sent')
      /\ due' \in BOOLEAN /\ pongPending' = (pongPending /\ p.type # "pingresp")
      /\ UNCHANGED <<lastId, commands, tainted, done, inbound, acked>>
  BY CycleFacts
<1>2. handled' \subseteq 1..inbound' /\ handled \subseteq handled'
  BY <1>1, HandOverFacts
<1>3. pongPending' \in BOOLEAN
  BY <1>1
<1> HIDE DEF p
<1>4. CASE Ends(p) /\ \E ok \in BOOLEAN : Finish(ok)
  <2>1. /\ op' = Idle /\ Idle.kind = "none" /\ read' = 0
        /\ op' \in [kind : DOMAIN Needle \cup {"none"}, id : 0..MaxId, avail : Nat]
        /\ succeeded' \subseteq 1..MaxId
    BY <1>4, FinishFacts
  <2>2. up' \in BOOLEAN
    BY CycleEnds DEF p, Basic
  <2>3. QED
    BY <1>1, <1>2, <1>3, <2>1, <2>2 DEF Basic, InboundHandled, Commands
<1>5. CASE /\ ~Ends(p) /\ UNCHANGED <<up, op, succeeded>>
           /\ read' = IF op.kind = "yield" THEN read + 1 ELSE read
  <2>1. read' \in Nat /\ (op.kind # "yield" => read' = 0)
    BY <1>5 DEF Basic
  <2>2. QED
    BY <1>1, <1>2, <1>3, <1>5, <2>1 DEF Basic, InboundHandled
<1>6. QED
  BY <1>4, <1>5, CycleEnds DEF p

\* A call and the connection end in the middle of a packet.
LEMMA BasicCutShort == ASSUME Basic, CutShort PROVE Basic'
<1>1. /\ Finish(FALSE) /\ tainted' = TRUE /\ up' = FALSE /\ due' = FALSE
      /\ toBroker' = <<>> /\ fromBroker' = <<>>
      /\ UNCHANGED <<lastId, pongPending, commands, done, inbound, acked, handled>>
  BY DEF CutShort, broker
<1>2. /\ op' = Idle /\ Idle.kind = "none" /\ read' = 0
      /\ op' \in [kind : DOMAIN Needle \cup {"none"}, id : 0..MaxId, avail : Nat]
      /\ succeeded' \subseteq 1..MaxId
  BY <1>1, FinishFacts
<1>3. toBroker' \in Seq(Written') /\ fromBroker' \in Seq(Sent')
  BY <1>1
<1>4. QED
  BY <1>1, <1>2, <1>3 DEF Basic, InboundHandled, Commands

\* A call ends with an error, or a yield without having read more.
LEMMA BasicGiveUp == ASSUME Basic, CycleFails \/ GiveUp \/ YieldTimesOut PROVE Basic'
<1>1. PICK ok \in BOOLEAN : Finish(ok)
  BY DEF CycleFails, GiveUp, YieldTimesOut
<1>2. /\ op' = Idle /\ Idle.kind = "none" /\ read' = 0
      /\ op' \in [kind : DOMAIN Needle \cup {"none"}, id : 0..MaxId, avail : Nat]
      /\ succeeded' \subseteq 1..MaxId
  BY <1>1, FinishFacts
<1>3. /\ UNCHANGED <<up, lastId, pongPending, due, toBroker, commands, done, inbound, acked>>
      /\ tainted' \in BOOLEAN
  BY DEF CycleFails, GiveUp, YieldTimesOut, client, broker, Basic
<1>4. /\ handled' \subseteq 1..inbound' /\ handled \subseteq handled'
      /\ Written \subseteq Written' /\ Sent' = Sent /\ fromBroker' \in Seq(Sent)
  <2>1. CASE UNCHANGED <<fromBroker, handled>>
    BY <1>3, <2>1, SameSets DEF Basic
  <2>2. CASE /\ fromBroker # <<>> /\ fromBroker' = Tail(fromBroker)
             /\ HandOver(Head(fromBroker)) \/ UNCHANGED handled
    <3>1. Head(fromBroker) \in Sent /\ Tail(fromBroker) \in Seq(Sent)
      BY <2>2, Taken DEF Basic
    <3>2. QED
      BY <1>3, <2>2, <3>1, HandOverFacts, SameSets DEF Basic
  <2>3. QED
    BY <2>1, <2>2 DEF CycleFails, GiveUp, YieldTimesOut
<1>5. toBroker' \in Seq(Written') /\ fromBroker' \in Seq(Sent')
  BY <1>3, <1>4, Widened DEF Basic
<1>6. QED
  BY <1>2, <1>3, <1>4, <1>5 DEF Basic, InboundHandled, Commands

\* What the broker makes of a packet.
LEMMA BrokerFacts ==
    ASSUME Basic, BrokerReceives, NEW p, p = Head(toBroker)
    PROVE  /\ p \in Written /\ toBroker # <<>> /\ toBroker' = Tail(toBroker)
           /\ \/ p.type \notin DOMAIN Answer /\ fromBroker' = fromBroker
              \/ /\ p.type \in DOMAIN Answer
                 /\ Packet(Answer[p.type], p.id) \in Sent
                 /\ Packet(Answer[p.type], p.id).type = Answer[p.type]
                 /\ Packet(Answer[p.type], p.id).id = p.id
                 /\ fromBroker' = Append(fromBroker, Packet(Answer[p.type], p.id))
           /\ done' = IF p.type \in {"subscribe", "unsubscribe", "publish1", "pubrel"}
                      THEN done \cup {p.id} ELSE done
           /\ acked' = IF p.type \in {"puback", "pubrec"} THEN acked \cup {p.id} ELSE acked
           /\ UNCHANGED <<up, op, read, lastId, pongPending, due, commands, succeeded, tainted,
                          inbound, handled>>
<1>1. /\ toBroker # <<>> /\ toBroker' = Tail(toBroker)
      /\ fromBroker' = IF p.type \in DOMAIN Answer
                       THEN Append(fromBroker, Packet(Answer[p.type], p.id)) ELSE fromBroker
      /\ done' = IF p.type \in {"subscribe", "unsubscribe", "publish1", "pubrel"}
                 THEN done \cup {p.id} ELSE done
      /\ acked' = IF p.type \in {"puback", "pubrec"} THEN acked \cup {p.id} ELSE acked
      /\ UNCHANGED <<up, op, read, lastId, pongPending, due, commands, succeeded, tainted,
                     inbound, handled>>
  BY DEF BrokerReceives, call, client, outcome
<1>2. p \in Written
  BY <1>1, Taken DEF Basic
<1>3. ASSUME p.type \in DOMAIN Answer
      PROVE  /\ Packet(Answer[p.type], p.id) \in Sent
             /\ Packet(Answer[p.type], p.id).type = Answer[p.type]
             /\ Packet(Answer[p.type], p.id).id = p.id
  <2>1. Answer[p.type] \in PacketTypes /\ Answer[p.type] \notin Inbound
    BY <1>3, AnswerIs, PacketTypesAre DEF Inbound
  <2>2. Answer[p.type] \in Answers => p.type \in Requests
    BY <1>3, AnswerIs, PacketTypesAre DEF Answers, Requests, Commands
  <2>3. p.id \in 0..(MaxId + MaxInbound) /\ (p.type \in Requests => p.id \in 1..MaxId)
    BY <1>2 DEF Written, Packets
  <2>4. QED
    BY <2>1, <2>2, <2>3, PacketIs DEF Sent
<1>4. QED
  BY <1>1, <1>2, <1>3

\* The broker's steps keep them.
LEMMA BasicBroker ==
    ASSUME Basic, BrokerReceives \/ \E type \in Inbound : BrokerPublishes(type) PROVE Basic'
<1>1. CASE BrokerReceives
  <2> DEFINE p == Head(toBroker)
  <2>1. /\ p \in Written /\ toBroker # <<>> /\ toBroker' = Tail(toBroker)
        /\ fromBroker' = fromBroker
           \/ \E q \in Sent : fromBroker' = Append(fromBroker, q)
        /\ done' = IF p.type \in {"subscribe", "unsubscribe", "publish1", "pubrel"}
                   THEN done \cup {p.id} ELSE done
        /\ acked' = IF p.type \in {"puback", "pubrec"} THEN acked \cup {p.id} ELSE acked
        /\ UNCHANGED <<up, op, read, lastId, pongPending, due, commands, succeeded, tainted,
                       inbound, handled>>
    BY <1>1, BrokerFacts
  <2>2. toBroker' \in Seq(Written') /\ fromBroker' \in Seq(Sent')
    <3>1. Written' = Written /\ Sent' = Sent /\ toBroker \in Seq(Written) /\ fromBroker \in Seq(Sent)
      BY <2>1, SameSets DEF Basic
    <3>2. Tail(toBroker) \in Seq(Written)
      BY <2>1, <3>1, Taken
    <3>3. \A q \in Sent : Append(fromBroker, q) \in Seq(Sent)
      BY <3>1
    <3>4. QED
      BY <2>1, <3>1, <3>2, <3>3
  <2>3. done' \subseteq 1..MaxId
    BY <2>1 DEF Written, Requests, Commands, Basic
  <2>4. acked' \subseteq handled'
    BY <2>1 DEF Written, Basic, InboundHandled
  <2> HIDE DEF p
  <2>5. QED
    BY <2>1, <2>2, <2>3, <2>4 DEF Basic, InboundHandled
<1>2. ASSUME NEW type \in Inbound, BrokerPublishes(type) PROVE Basic'
  <2>1. /\ inbound < MaxInbound /\ inbound' = inbound + 1
        /\ fromBroker' = Append(fromBroker, Packet(type, inbound'))
        /\ UNCHANGED <<up, op, read, lastId, pongPending, due, toBroker, commands, succeeded,
                       tainted, done, acked, handled>>
    BY <1>2 DEF BrokerPublishes, call, client, outcome
  <2>2. /\ inbound' \in 0..MaxInbound /\ inbound' \in 1..inbound' /\ 1..inbound \subseteq 1..inbound'
        /\ inbound' \in 0..(MaxId + MaxInbound)
    BY <2>1, Numbers DEF Basic
  <2>3. Written' = Written /\ Sent \subseteq Sent'
    BY <2>1, <2>2 DEF Written, Sent
  <2>4. Packet(type, inbound') \in Sent'
    <3>1. type \in PacketTypes /\ type \notin Answers
      BY PacketTypesAre DEF Inbound, Answers
    <3>2. /\ Packet(type, inbound') \in Packets /\ Packet(type, inbound').type = type
          /\ Packet(type, inbound').id = inbound'
      BY <2>2, <3>1, PacketIs
    <3>3. QED
      BY <2>2, <3>1, <3>2 DEF Sent
  <2>5. fromBroker \in Seq(Sent')
    BY <2>3, Widened DEF Basic
  <2>6. fromBroker' \in Seq(Sent')
    BY <2>1, <2>4, <2>5, Appended
  <2>7. QED
    BY <2>1, <2>2, <2>3, <2>6 DEF Basic, InboundHandled
<1>3. QED
  BY <1>1, <1>2

\* Every step keeps them.
LEMMA BasicStep == Basic /\ [Next]_vars => Basic'
<1>1. ASSUME Basic, UNCHANGED vars PROVE Basic'
  BY <1>1, SameSets DEF vars, call, client, outcome, broker, Basic, InboundHandled
<1>2. QED
  BY <1>1, BasicConnection, BasicCommand, BasicCall, BasicCycle, BasicCutShort, BasicGiveUp,
     BasicBroker DEF Next

\* The invariant holds in every behaviour.
THEOREM BasicHolds == Spec => []Basic
BY BasicInit, BasicStep, PTL DEF Spec

\* Every variable keeps its type, and no packet id is 0 (client.c:49-60).
THEOREM ClientTypes == Spec => []TypeOK
<1>1. Basic => TypeOK
  <2> SUFFICES ASSUME Basic PROVE TypeOK
    OBVIOUS
  <2>1. Written \subseteq Packets /\ Sent \subseteq Packets
    BY DEF Written, Sent
  <2>2. toBroker \in Seq(Packets) /\ fromBroker \in Seq(Packets)
    BY <2>1, Widened DEF Basic
  <2>3. QED
    BY <2>2 DEF Basic, TypeOK, InboundHandled
<1>2. QED
  BY BasicHolds, <1>1, PTL

\* The broker never believes more than the message callback had (client.c:191-312).
THEOREM NothingAckedUnheard == Spec => []InboundHandled
<1>1. Basic => InboundHandled
  BY DEF Basic
<1>2. QED
  BY BasicHolds, <1>1, PTL

-----------------------------------------------------------------------------
(***************************************************************************)
(* Pings.                                                                  *)
(***************************************************************************)
\* Whatever concerns neither the flag nor the two directions.
LEMMA PingsSame ==
    ASSUME Pings, UNCHANGED <<pongPending, toBroker, fromBroker>>,
           up' \/ op'.kind = "connect" => up \/ op.kind = "connect"
    PROVE  Pings'
BY DEF Pings, Without, Lone

\* A packet that is no ping is written.
LEMMA PingsWritten ==
    ASSUME Basic, Pings, NEW S, toBroker \in Seq(S), NEW q \in S, q.type # "pingreq",
           toBroker' = Append(toBroker, q),
           UNCHANGED <<pongPending, fromBroker>>,
           up' \/ op'.kind = "connect" => up \/ op.kind = "connect"
    PROVE  Pings'
<1>1. /\ Without(toBroker, {"pingreq"}) => Without(toBroker, {"pingreq"})'
      /\ Lone(toBroker, {"pingreq"}) => Lone(toBroker, {"pingreq"})'
  BY Appended
<1>2. QED
  BY <1>1 DEF Pings, Without, Lone

\* Reading a packet keeps the one ping: only a pong clears the pending flag.
LEMMA PingsCycle == ASSUME Basic, Pings, Cycle PROVE Pings'
<1> DEFINE p == Head(fromBroker)
<1>1. /\ p \in Sent /\ fromBroker # <<>> /\ fromBroker' = Tail(fromBroker)
      /\ pongPending' = (pongPending /\ p.type # "pingresp")
      /\ \/ toBroker' = toBroker
         \/ \E q \in Written' : toBroker' = Append(toBroker, q) /\ q.type # "pingreq"
      /\ Written \subseteq Written'
  BY CycleFacts, HandOverFacts
<1>2. up' \/ op'.kind = "connect" => up \/ op.kind = "connect"
  BY CycleEnds, FinishFacts
<1>3. toBroker \in Seq(Written') /\ fromBroker \in Seq(Sent)
  BY <1>1, Widened DEF Basic
<1> HIDE DEF p
<1>4. /\ Without(toBroker, {"pingreq"}) => Without(toBroker', {"pingreq"})
      /\ Lone(toBroker, {"pingreq"}) => Lone(toBroker', {"pingreq"})
  BY <1>1, <1>3, Appended
<1>5. /\ Without(fromBroker, {"pingresp"})
           => Without(fromBroker', {"pingresp"}) /\ p.type # "pingresp"
      /\ Lone(fromBroker, {"pingresp"}) /\ p.type = "pingresp" => Without(fromBroker', {"pingresp"})
      /\ Lone(fromBroker, {"pingresp"}) /\ p.type # "pingresp" => Lone(fromBroker', {"pingresp"})
  BY <1>1, <1>3, Taken DEF p
<1>6. QED
  BY <1>1, <1>2, <1>4, <1>5 DEF Pings

\* So does a packet that cannot be decoded or answered: the connection is over.
LEMMA PingsCycleFails == ASSUME Basic, Pings, CycleFails PROVE Pings'
<1>1. /\ fromBroker # <<>> /\ fromBroker' = Tail(fromBroker)
      /\ Head(fromBroker).type # "pingresp" /\ UNCHANGED <<up, pongPending, toBroker>>
      /\ op' = Idle
  BY DEF CycleFails, Finish, client
<1>2. fromBroker \in Seq(Sent)
  BY DEF Basic
<1>3. /\ Without(fromBroker, {"pingresp"}) => Without(fromBroker', {"pingresp"})
      /\ Lone(fromBroker, {"pingresp"}) => Lone(fromBroker', {"pingresp"})
  BY <1>1, <1>2, Taken
<1>4. QED
  BY <1>1, <1>3 DEF Pings, Idle

\* The broker turns a ping into a pong.
LEMMA PingsBroker ==
    ASSUME Basic, Pings, BrokerReceives \/ \E type \in Inbound : BrokerPublishes(type) PROVE Pings'
<1>1. toBroker \in Seq(Written) /\ fromBroker \in Seq(Sent)
  BY DEF Basic
<1>2. CASE BrokerReceives
  <2> DEFINE p == Head(toBroker)
             a == Packet(Answer[p.type], p.id)
  <2>1. /\ toBroker # <<>> /\ toBroker' = Tail(toBroker)
        /\ \/ p.type \notin DOMAIN Answer /\ fromBroker' = fromBroker
           \/ /\ p.type \in DOMAIN Answer /\ a \in Sent /\ a.type = Answer[p.type]
              /\ fromBroker' = Append(fromBroker, a)
        /\ UNCHANGED <<up, op, pongPending>>
    BY <1>2, BrokerFacts
  <2>2. \A t \in DOMAIN Answer : Answer[t] = "pingresp" <=> t = "pingreq"
    BY AnswerIs, PacketTypesAre
  <2>3. "pingreq" \in DOMAIN Answer
    BY PacketTypesAre
  <2> HIDE DEF p, a
  <2>4. /\ Without(toBroker, {"pingreq"}) => Without(toBroker', {"pingreq"}) /\ p.type # "pingreq"
        /\ Lone(toBroker, {"pingreq"}) /\ p.type = "pingreq" => Without(toBroker', {"pingreq"})
        /\ Lone(toBroker, {"pingreq"}) /\ p.type # "pingreq" => Lone(toBroker', {"pingreq"})
    BY <1>1, <2>1, Taken DEF p
  <2>5. CASE p.type = "pingreq"
    <3>1. a \in Sent /\ a.type \in {"pingresp"} /\ fromBroker' = Append(fromBroker, a)
      BY <2>1, <2>2, <2>3, <2>5
    <3>2. Without(fromBroker, {"pingresp"}) => Lone(fromBroker', {"pingresp"})
      BY <1>1, <3>1, Appended
    <3>3. QED
      BY <2>1, <2>4, <2>5, <3>2 DEF Pings
  <2>6. CASE p.type # "pingreq"
    <3>1. /\ Without(fromBroker, {"pingresp"}) => Without(fromBroker', {"pingresp"})
          /\ Lone(fromBroker, {"pingresp"}) => Lone(fromBroker', {"pingresp"})
      BY <1>1, <2>1, <2>2, <2>6, Appended
    <3>2. QED
      BY <2>1, <2>4, <2>6, <3>1 DEF Pings
  <2>7. QED
    BY <2>5, <2>6
<1>3. ASSUME NEW type \in Inbound, BrokerPublishes(type) PROVE Pings'
  <2>1. /\ fromBroker' = Append(fromBroker, Packet(type, inbound'))
        /\ UNCHANGED <<up, op, pongPending, toBroker>>
    BY <1>3 DEF BrokerPublishes, call, client
  <2>2. Packet(type, inbound').type = type /\ type # "pingresp"
    BY DEF Packet, Inbound
  <2>3. \A S, T, q : fromBroker \in Seq(S) /\ q \in S /\ q.type \notin T =>
           /\ Without(fromBroker, T) => Without(Append(fromBroker, q), T)
           /\ Lone(fromBroker, T) => Lone(Append(fromBroker, q), T)
    BY Appended
  <2>4. fromBroker \in Seq(Sent \cup {Packet(type, inbound')})
    BY <1>1, Widened
  <2>5. /\ Without(fromBroker, {"pingresp"}) => Without(fromBroker', {"pingresp"})
        /\ Lone(fromBroker, {"pingresp"}) => Lone(fromBroker', {"pingresp"})
    BY <2>1, <2>2, <2>3, <2>4
  <2>6. QED
    BY <2>1, <2>5 DEF Pings
<1>4. QED
  BY <1>2, <1>3

\* The client writes.
LEMMA PingsClient ==
    ASSUME Basic, Pings, Connect \/ KeepAlivePings \/ \E kind \in Commands : Issue(kind)
    PROVE  Pings'
<1>1. CASE Connect
  BY <1>1 DEF Connect, Pings, Without, Packet
<1>2. CASE KeepAlivePings
  <2>1. /\ ~pongPending /\ pongPending' = TRUE /\ up
        /\ toBroker' = toBroker \o <<Packet("pingreq", 0)>>
        /\ UNCHANGED fromBroker
    BY <1>2 DEF KeepAlivePings, MayPing, Send
  <2>2. Packet("pingreq", 0) \in Written /\ Packet("pingreq", 0).type \in {"pingreq"}
    <3>1. 0 \in 0..(MaxId + MaxInbound) /\ "pingreq" \in PacketTypes
      BY Numbers, PacketTypesAre
    <3>2. QED
      BY <3>1, PacketIs DEF Written, Requests, Commands
  <2>3. Without(toBroker, {"pingreq"}) => Lone(toBroker', {"pingreq"})
    BY <2>1, <2>2, Appended DEF Basic
  <2>4. QED
    BY <2>1, <2>3 DEF Pings
<1>3. ASSUME NEW kind \in Commands, Issue(kind) PROVE Pings'
  <2> DEFINE q == Packet(kind, lastId')
  <2>1. /\ toBroker' = toBroker \o <<q>> /\ op'.kind = kind /\ kind # "connect"
        /\ UNCHANGED <<up, pongPending, fromBroker>>
    BY <1>3 DEF Issue, Send, Commands
  <2>2. toBroker \in Seq(Written \cup {q}) /\ q \in Written \cup {q}
    BY Widened DEF Basic
  <2>3. q.type # "pingreq"
    BY DEF Packet, Commands
  <2> HIDE DEF q
  <2>4. toBroker' = Append(toBroker, q)
    BY <2>1, <2>2, Appended
  <2>5. QED
    BY <2>1, <2>2, <2>3, <2>4, PingsWritten
<1>4. QED
  BY <1>1, <1>2, <1>3

\* Every step keeps one ping at most under way.
LEMMA PingsStep == Basic /\ Pings /\ [Next]_vars => Pings'
<1> SUFFICES ASSUME Basic, Pings, [Next]_vars PROVE Pings'
  OBVIOUS
<1>1. CASE Disconnect \/ CutShort
  BY <1>1 DEF Disconnect, CutShort, Finish, call, Idle, Pings
<1>2. CASE IssueFails \/ KeepAliveFails \/ KeepAliveExpires \/ UNCHANGED vars
  <2>1. UNCHANGED <<up, op, pongPending, toBroker, fromBroker>>
    BY <1>2 DEF IssueFails, KeepAliveFails, KeepAliveExpires, call, client, vars
  <2>2. QED
    BY <2>1, PingsSame
<1>3. CASE PublishQos0
  <2>1. UNCHANGED <<up, op, pongPending, toBroker, fromBroker>>
    BY <1>3 DEF PublishQos0, Send, call, Basic
  <2>2. QED
    BY <2>1, PingsSame
<1>4. CASE Yield
  <2>1. UNCHANGED <<up, pongPending, toBroker, fromBroker>> /\ op'.kind = "yield"
    BY <1>4 DEF Yield, client
  <2>2. QED
    BY <2>1, PingsSame
<1>5. CASE GiveUp \/ YieldTimesOut
  <2>1. UNCHANGED <<up, pongPending, toBroker, fromBroker>> /\ op' = Idle
    BY <1>5 DEF GiveUp, YieldTimesOut, Finish, client
  <2>2. QED
    BY <2>1, PingsSame DEF Idle
<1>6. QED
  BY <1>1, <1>2, <1>3, <1>4, <1>5, PingsClient, PingsCycle, PingsCycleFails, PingsBroker DEF Next

\* The pending flag stands for exactly one ping or pong under way (client.c:577-615).
THEOREM OnePing == Spec => []PingBalance
<1>1. Init => Pings
  BY DEF Init, Pings, Idle
<1>2. Spec => []Pings
  BY <1>1, BasicHolds, PingsStep, PTL DEF Spec
<1>3. Basic /\ Pings => PingBalance
  <2> SUFFICES ASSUME Basic, Pings, up
               PROVE  Count(toBroker, "pingreq") + Count(fromBroker, "pingresp")
                         = (IF pongPending THEN 1 ELSE 0)
    BY DEF PingBalance
  <2>1. toBroker \in Seq(Written) /\ fromBroker \in Seq(Sent)
    BY DEF Basic
  <2>2. /\ Without(toBroker, {"pingreq"}) => Count(toBroker, "pingreq") = 0
        /\ Lone(toBroker, {"pingreq"}) => Count(toBroker, "pingreq") = 1
        /\ Without(fromBroker, {"pingresp"}) => Count(fromBroker, "pingresp") = 0
        /\ Lone(fromBroker, {"pingresp"}) => Count(fromBroker, "pingresp") = 1
    BY <2>1, Counted
  <2>3. QED
    BY <2>2 DEF Pings
<1>4. QED
  BY <1>2, <1>3, BasicHolds, PTL

-----------------------------------------------------------------------------
(***************************************************************************)
(* Commands.                                                               *)
(***************************************************************************)
\* Nothing of a command happens.
LEMMA ExchangeSame ==
    ASSUME Exchange, UNCHANGED <<op, toBroker, fromBroker, succeeded, done, tainted>>
    PROVE  Exchange'
BY DEF Exchange, ToMatch, FromMatch, Asks, Answered, Without, Lone

\* A call begins or ends that is no command.
LEMMA ExchangeIdle ==
    ASSUME Exchange, op.kind \notin Commands, op'.kind \notin Commands,
           UNCHANGED <<toBroker, fromBroker, succeeded, done, tainted>>
    PROVE  Exchange'
BY DEF Exchange, ToMatch, FromMatch, Without

\* A packet of no command is written, or sent by the broker.
LEMMA ExchangeMore ==
    ASSUME Exchange, NEW S, toBroker \in Seq(S), fromBroker \in Seq(S), NEW q \in S,
           UNCHANGED <<op, succeeded, done, tainted>>,
           \/ /\ q.type \notin Requests /\ toBroker' = Append(toBroker, q)
              /\ UNCHANGED fromBroker
           \/ /\ q.type \notin Answers /\ fromBroker' = Append(fromBroker, q)
              /\ UNCHANGED toBroker
    PROVE  Exchange'
<1> SUFFICES ASSUME ~tainted PROVE Exchange'
  BY DEF Exchange
<1>1. CASE /\ q.type \notin Requests /\ toBroker' = Append(toBroker, q)
           /\ UNCHANGED fromBroker
  <2>1. /\ Without(toBroker, Requests) => Without(toBroker', Requests)
        /\ Lone(toBroker, Requests) => Lone(toBroker', Requests)
    BY <1>1, Appended
  <2>2. ToMatch'
    <3>1. /\ Len(toBroker') = Len(toBroker) + 1 /\ Len(toBroker) \in Nat
          /\ \A i \in 1..Len(toBroker) : toBroker'[i] = toBroker[i]
          /\ toBroker'[Len(toBroker) + 1] = q
      BY <1>1
    <3>2. QED
      BY <1>1, <3>1 DEF Exchange, ToMatch, Asks
  <2>3. FromMatch'
    BY <1>1 DEF Exchange, FromMatch, Answered
  <2>4. QED
    BY <1>1, <2>1, <2>2, <2>3 DEF Exchange
<1>2. CASE /\ q.type \notin Answers /\ fromBroker' = Append(fromBroker, q)
           /\ UNCHANGED toBroker
  <2>1. /\ Without(fromBroker, Answers) => Without(fromBroker', Answers)
        /\ Lone(fromBroker, Answers) => Lone(fromBroker', Answers)
    BY <1>2, Appended
  <2>2. FromMatch'
    <3>1. /\ Len(fromBroker') = Len(fromBroker) + 1 /\ Len(fromBroker) \in Nat
          /\ \A i \in 1..Len(fromBroker) : fromBroker'[i] = fromBroker[i]
          /\ fromBroker'[Len(fromBroker) + 1] = q
      BY <1>2
    <3>2. QED
      BY <1>2, <3>1 DEF Exchange, FromMatch, Answered
  <2>3. ToMatch'
    BY <1>2 DEF Exchange, ToMatch, Asks
  <2>4. QED
    BY <1>2, <2>1, <2>2, <2>3 DEF Exchange
<1>3. QED
  BY <1>1, <1>2

\* A command is written.
LEMMA ExchangeIssue == ASSUME Basic, Exchange, NEW kind \in Commands, Issue(kind) PROVE Exchange'
<1>0. PICK q : q = Packet(kind, lastId')
  OBVIOUS
<1>1. /\ op = Idle /\ op' = [kind |-> kind, id |-> lastId', avail |-> 0]
      /\ succeeded' = succeeded \ {lastId'} /\ done' = done \ {lastId'}
      /\ toBroker' = toBroker \o <<q>> /\ UNCHANGED <<fromBroker, tainted>>
  BY <1>0 DEF Issue, TakeId, Send
<1>2. q.type = kind /\ q.id = lastId' /\ kind \in Requests
  BY <1>0 DEF Packet, Requests
<1>3. toBroker \in Seq(Written \cup {q}) /\ q \in Written \cup {q}
  BY Widened DEF Basic
<1>4. toBroker' = Append(toBroker, q)
  BY <1>1, <1>3, Appended
<1> SUFFICES ASSUME ~tainted PROVE Exchange'
  BY <1>1 DEF Exchange
<1>5. /\ succeeded \subseteq done
      /\ Without(toBroker, Requests) /\ Without(fromBroker, Answers)
  BY <1>1 DEF Exchange, Idle, Commands
<1>6. Lone(toBroker', Requests)
  BY <1>2, <1>3, <1>4, <1>5, Appended
<1>7. ToMatch'
  <2>1. /\ Len(toBroker') = Len(toBroker) + 1 /\ Len(toBroker) \in Nat
        /\ \A i \in 1..Len(toBroker) : toBroker'[i] = toBroker[i]
        /\ toBroker'[Len(toBroker) + 1] = q
    BY <1>3, <1>4
  <2>2. ASSUME NEW i \in 1..Len(toBroker'), toBroker'[i].type \in Requests
        PROVE  toBroker'[i] = q
    BY <1>5, <2>1, <2>2 DEF Without
  <2>3. q.id = op'.id /\ q.type = op'.kind
    BY <1>1, <1>2
  <2>4. QED
    BY <2>2, <2>3 DEF ToMatch, Asks
<1>8. FromMatch' /\ Without(fromBroker', Answers)
  BY <1>1, <1>5 DEF FromMatch, Without
<1>9. succeeded' \subseteq done' /\ op'.kind \in Commands
  BY <1>1, <1>5
<1>10. QED
  BY <1>6, <1>7, <1>8, <1>9 DEF Exchange

\* A packet is read.
LEMMA ExchangeCycle == ASSUME Basic, Exchange, Cycle PROVE Exchange'
<1> DEFINE p == Head(fromBroker)
<1>1. /\ p \in Sent /\ fromBroker # <<>> /\ fromBroker' = Tail(fromBroker)
      /\ \/ /\ p.type \notin {"publish1", "publish2", "pubrec", "pubrel"}
            /\ toBroker' = toBroker
         \/ \E q \in Written' :
               /\ toBroker' = Append(toBroker, q) /\ q.id = p.id
               /\ \/ p.type \in {"publish1", "publish2"} /\ q.type \in {"puback", "pubrec"}
                  \/ p.type = "pubrec" /\ q.type = "pubrel"
                  \/ p.type = "pubrel" /\ q.type = "pubcomp"
      /\ Written \subseteq Written'
      /\ UNCHANGED <<tainted, done>>
  BY CycleFacts, HandOverFacts
<1>2. \/ /\ Ends(p) /\ \E ok \in BOOLEAN : Finish(ok)
      \/ ~Ends(p) /\ UNCHANGED <<op, succeeded>>
  BY CycleEnds
<1>3. toBroker \in Seq(Written') /\ fromBroker \in Seq(Sent)
  BY <1>1, Widened DEF Basic
<1>4. /\ p = fromBroker[1] /\ 1 \in 1..Len(fromBroker)
      /\ Len(fromBroker') = Len(fromBroker) - 1 /\ Len(fromBroker) \in Nat
      /\ \A i \in 1..Len(fromBroker') : fromBroker'[i] = fromBroker[i + 1]
      /\ Without(fromBroker, Answers) => Without(fromBroker', Answers) /\ p.type \notin Answers
      /\ Lone(fromBroker, Answers) /\ p.type \in Answers => Without(fromBroker', Answers)
      /\ Lone(fromBroker, Answers) /\ p.type \notin Answers => Lone(fromBroker', Answers)
  BY <1>1, <1>3, Taken
<1> HIDE DEF p
<1> SUFFICES ASSUME ~tainted PROVE Exchange'
  BY <1>1 DEF Exchange
<1>5. CASE p.type \notin Answers
  <2>1. \/ UNCHANGED <<op, succeeded>>
        \/ op.kind \notin Commands /\ op'.kind \notin Commands /\ UNCHANGED succeeded
    <3>1. Ends(p) => op.kind \notin Commands
      BY <1>5, NeedleIs DEF Ends, Commands, Answers
    <3>2. QED
      BY <1>2, <3>1 DEF Finish, Idle, Commands
  <2>2. \/ toBroker' = toBroker
        \/ \E q \in Written' : toBroker' = Append(toBroker, q) /\ q.type \notin Requests
    BY <1>1, <1>5 DEF Answers, Requests, Commands
  <2>3. /\ Without(toBroker, Requests) => Without(toBroker', Requests)
        /\ Lone(toBroker, Requests) => Lone(toBroker', Requests)
    BY <1>3, <2>2, Appended
  <2>4. \A i \in 1..Len(toBroker') :
           toBroker'[i].type \in Requests => i \in 1..Len(toBroker) /\ toBroker'[i] = toBroker[i]
    <3>1. CASE toBroker' = toBroker
      BY <3>1
    <3>2. ASSUME NEW q \in Written', toBroker' = Append(toBroker, q), q.type \notin Requests
          PROVE  \A i \in 1..Len(toBroker') :
                    toBroker'[i].type \in Requests
                       => i \in 1..Len(toBroker) /\ toBroker'[i] = toBroker[i]
      BY <1>3, <3>2
    <3>3. QED
      BY <2>2, <3>1, <3>2
  <2>5. CASE UNCHANGED <<op, succeeded>>
    <3>1. ToMatch'
      BY <2>4, <2>5 DEF Exchange, ToMatch, Asks
    <3>2. \A i \in 1..Len(fromBroker') : i + 1 \in 1..Len(fromBroker)
      BY <1>4
    <3>3. FromMatch'
      BY <1>1, <1>4, <2>5, <3>2 DEF Exchange, FromMatch, Answered
    <3>4. QED
      BY <1>1, <1>4, <1>5, <2>3, <2>5, <3>1, <3>3 DEF Exchange
  <2>6. CASE op.kind \notin Commands /\ op'.kind \notin Commands /\ UNCHANGED succeeded
    <3>1. /\ Without(toBroker', Requests) /\ Without(fromBroker', Answers)
          /\ succeeded' \subseteq done'
      BY <1>1, <1>4, <2>3, <2>6 DEF Exchange
    <3>2. ToMatch' /\ FromMatch'
      BY <3>1 DEF ToMatch, FromMatch, Without
    <3>3. QED
      BY <2>6, <3>1, <3>2 DEF Exchange
  <2>7. QED
    BY <2>1, <2>5, <2>6
<1>6. CASE p.type \in Answers
  <2>1. /\ op.kind \in Commands /\ Without(toBroker, Requests) /\ Lone(fromBroker, Answers)
        /\ Answered(p) /\ succeeded \subseteq done
    BY <1>4, <1>6 DEF Exchange, FromMatch
  <2>2. Without(fromBroker', Answers) /\ FromMatch'
    BY <1>4, <1>6, <2>1 DEF FromMatch, Without
  <2>3. CASE p.type = "pubrec"
    <3>1. op.kind = "publish2" /\ p.id = op.id
      BY <2>1, <2>3 DEF Answered
    <3>2. UNCHANGED <<op, succeeded>>
      BY <1>2, <2>3, <3>1, NeedleIs DEF Ends
    <3>3. PICK q \in Written' : toBroker' = Append(toBroker, q) /\ q.id = p.id /\ q.type = "pubrel"
      BY <1>1, <2>3
    <3>4. Lone(toBroker', Requests)
      BY <1>3, <2>1, <3>3, Appended DEF Requests
    <3>5. ToMatch'
      <4>1. /\ Len(toBroker') = Len(toBroker) + 1 /\ Len(toBroker) \in Nat
            /\ \A i \in 1..Len(toBroker) : toBroker'[i] = toBroker[i]
            /\ toBroker'[Len(toBroker) + 1] = q
        BY <1>3, <3>3
      <4>2. ASSUME NEW i \in 1..Len(toBroker'), toBroker'[i].type \in Requests
            PROVE  toBroker'[i] = q
        BY <2>1, <4>1, <4>2 DEF Without
      <4>3. QED
        BY <3>1, <3>2, <3>3, <4>2 DEF ToMatch, Asks
    <3>6. QED
      BY <1>1, <2>1, <2>2, <3>2, <3>4, <3>5 DEF Exchange
  <2>4. CASE p.type # "pubrec"
    <3>1. Ends(p) /\ op.id \in done
      BY <2>1, <2>4, NeedleIs DEF Answered, Ends
    <3>2. /\ op'.kind \notin Commands /\ succeeded' \subseteq done'
      BY <1>1, <1>2, <2>1, <3>1 DEF Finish, Idle, Commands
    <3>3. toBroker' = toBroker
      BY <1>1, <1>6, <2>4 DEF Answers
    <3>4. ToMatch' /\ Without(toBroker', Requests)
      BY <2>1, <3>3 DEF ToMatch, Without
    <3>5. QED
      BY <2>2, <3>2, <3>4 DEF Exchange
  <2>5. QED
    BY <2>3, <2>4
<1>7. QED
  BY <1>5, <1>6

\* The broker receives a packet.
LEMMA ExchangeBroker == ASSUME Basic, Exchange, BrokerReceives PROVE Exchange'
<1>0. PICK p, a : p = Head(toBroker) /\ a = Packet(Answer[p.type], p.id)
  OBVIOUS
<1>1. /\ p \in Written /\ toBroker # <<>> /\ toBroker' = Tail(toBroker)
      /\ \/ p.type \notin DOMAIN Answer /\ fromBroker' = fromBroker
         \/ /\ p.type \in DOMAIN Answer /\ a \in Sent
            /\ a.type = Answer[p.type] /\ a.id = p.id
            /\ fromBroker' = Append(fromBroker, a)
      /\ done' = IF p.type \in {"subscribe", "unsubscribe", "publish1", "pubrel"}
                 THEN done \cup {p.id} ELSE done
      /\ UNCHANGED <<op, succeeded, tainted>>
  BY <1>0, BrokerFacts
<1>2. toBroker \in Seq(Written) /\ fromBroker \in Seq(Sent)
  BY DEF Basic
<1>3. /\ p = toBroker[1] /\ 1 \in 1..Len(toBroker)
      /\ Len(toBroker') = Len(toBroker) - 1 /\ Len(toBroker) \in Nat
      /\ \A i \in 1..Len(toBroker') : toBroker'[i] = toBroker[i + 1]
      /\ Without(toBroker, Requests) => Without(toBroker', Requests) /\ p.type \notin Requests
      /\ Lone(toBroker, Requests) /\ p.type \in Requests => Without(toBroker', Requests)
      /\ Lone(toBroker, Requests) /\ p.type \notin Requests => Lone(toBroker', Requests)
  BY <1>0, <1>1, <1>2, Taken
<1> SUFFICES ASSUME ~tainted PROVE Exchange'
  BY <1>1 DEF Exchange
<1>4. CASE p.type \in Requests
  <2>1. /\ op.kind \in Commands /\ Without(fromBroker, Answers) /\ Without(toBroker', Requests)
        /\ Asks(p) /\ succeeded \subseteq done
    BY <1>3, <1>4 DEF Exchange, ToMatch
  <2>2. /\ p.type \in DOMAIN Answer /\ Answer[p.type] \in Answers
    BY <1>4, AnswerIs, PacketTypesAre DEF Requests, Commands, Answers
  <2>3. /\ a \in Sent /\ a.type = Answer[p.type] /\ a.id = p.id
        /\ fromBroker' = Append(fromBroker, a)
    BY <1>1, <2>2
  <2>4. Lone(fromBroker', Answers)
    BY <1>2, <2>1, <2>2, <2>3, Appended
  <2>5. /\ a.id = op'.id
        /\ \/ a.type = "suback" /\ op'.kind = "subscribe" /\ op'.id \in done'
           \/ a.type = "unsuback" /\ op'.kind = "unsubscribe" /\ op'.id \in done'
           \/ a.type = "puback" /\ op'.kind = "publish1" /\ op'.id \in done'
           \/ a.type = "pubrec" /\ op'.kind = "publish2"
           \/ a.type = "pubcomp" /\ op'.kind = "publish2" /\ op'.id \in done'
    <3>1. a.id = op'.id /\ p.id = op.id /\ op' = op
      BY <1>1, <2>1, <2>3 DEF Asks
    <3>2. CASE p.type = "publish2"
      BY <2>1, <2>3, <3>1, <3>2, AnswerIs DEF Asks
    <3>3. CASE p.type = "pubrel"
      <4>1. op.kind = "publish2" /\ op.id \in done'
        BY <1>1, <2>1, <3>1, <3>3 DEF Asks, Commands
      <4>2. QED
        BY <2>3, <3>1, <3>3, <4>1, AnswerIs
    <3>4. CASE p.type \in {"subscribe", "unsubscribe", "publish1"}
      <4>1. op.kind = p.type /\ op.id \in done'
        BY <1>1, <2>1, <3>1, <3>4 DEF Asks
      <4>2. QED
        BY <2>3, <3>1, <3>4, <4>1, AnswerIs
    <3>5. QED
      BY <1>4, <3>2, <3>3, <3>4 DEF Requests, Commands
  <2>6. FromMatch'
    <3>1. /\ Len(fromBroker') = Len(fromBroker) + 1 /\ Len(fromBroker) \in Nat
          /\ \A i \in 1..Len(fromBroker) : fromBroker'[i] = fromBroker[i]
          /\ fromBroker'[Len(fromBroker) + 1] = a
      BY <1>2, <2>3
    <3>2. ASSUME NEW i \in 1..Len(fromBroker'), fromBroker'[i].type \in Answers
          PROVE  fromBroker'[i] = a
      BY <2>1, <3>1, <3>2 DEF Without
    <3>3. QED
      BY <2>5, <3>2 DEF FromMatch, Answered
  <2>7. ToMatch'
    BY <2>1 DEF ToMatch, Without
  <2>8. QED
    BY <1>1, <2>1, <2>4, <2>6, <2>7 DEF Exchange
<1>5. CASE p.type \notin Requests
  <2>1. \/ fromBroker' = fromBroker
        \/ fromBroker' = Append(fromBroker, a) /\ a \in Sent /\ a.type \notin Answers
    <3>1. p.type \in DOMAIN Answer => Answer[p.type] \notin Answers
      BY <1>5, AnswerIs, PacketTypesAre DEF Requests, Commands, Answers
    <3>2. QED
      BY <1>1, <3>1
  <2>2. done' = done
    BY <1>1, <1>5 DEF Requests, Commands
  <2>3. /\ Without(fromBroker, Answers) => Without(fromBroker', Answers)
        /\ Lone(fromBroker, Answers) => Lone(fromBroker', Answers)
    BY <1>2, <2>1, Appended
  <2>4. \A i \in 1..Len(fromBroker') :
           fromBroker'[i].type \in Answers
              => i \in 1..Len(fromBroker) /\ fromBroker'[i] = fromBroker[i]
    BY <1>2, <2>1
  <2>5. FromMatch'
    BY <1>1, <2>2, <2>4 DEF Exchange, FromMatch, Answered
  <2>6. \A i \in 1..Len(toBroker') : i + 1 \in 1..Len(toBroker)
    BY <1>3
  <2>7. ToMatch'
    BY <1>1, <1>3, <2>6 DEF Exchange, ToMatch, Asks
  <2>8. QED
    BY <1>1, <1>3, <1>5, <2>2, <2>3, <2>5, <2>7 DEF Exchange
<1>6. QED
  BY <1>4, <1>5

\* Every step keeps the one request or answer of the call in progress.
LEMMA ExchangeStep == Basic /\ Exchange /\ [Next]_vars => Exchange'
<1> SUFFICES ASSUME Basic, Exchange, [Next]_vars PROVE Exchange'
  OBVIOUS
<1>1. CASE Connect
  BY <1>1 DEF Connect, Exchange, Without, ToMatch, FromMatch, Packet, Requests, Commands, Idle
<1>2. CASE Disconnect
  BY <1>2 DEF Disconnect, call, outcome, broker, Exchange, Without, ToMatch, FromMatch, Commands,
              Idle
<1>3. CASE IssueFails \/ KeepAliveFails \/ CycleFails \/ GiveUp \/ CutShort
  BY <1>3 DEF IssueFails, KeepAliveFails, CycleFails, GiveUp, CutShort, Exchange
<1>4. CASE KeepAliveExpires \/ UNCHANGED vars \/ PublishQos0
  <2>1. UNCHANGED <<op, toBroker, fromBroker, succeeded, done, tainted>>
    BY <1>4 DEF KeepAliveExpires, PublishQos0, Send, vars, call, outcome, broker, Basic
  <2>2. QED
    BY <2>1, ExchangeSame
<1>5. CASE Yield \/ YieldTimesOut
  <2>1. /\ op.kind \notin Commands /\ op'.kind \notin Commands
        /\ UNCHANGED <<toBroker, fromBroker, succeeded, done, tainted>>
    BY <1>5 DEF Yield, YieldTimesOut, Finish, Idle, Commands, client, outcome, broker
  <2>2. QED
    BY <2>1, ExchangeIdle
<1>6. CASE KeepAlivePings
  <2> DEFINE q == Packet("pingreq", 0)
             S == Written \cup Sent \cup {q}
  <2>1. /\ toBroker' = toBroker \o <<q>>
        /\ UNCHANGED <<op, fromBroker, succeeded, done, tainted>>
    BY <1>6 DEF KeepAlivePings, Send, call, outcome, broker
  <2>2. toBroker \in Seq(S) /\ fromBroker \in Seq(S) /\ q \in S
    BY Widened DEF Basic
  <2>3. q.type \notin Requests
    BY DEF Packet, Requests, Commands
  <2> HIDE DEF q, S
  <2>4. toBroker' = Append(toBroker, q)
    BY <2>1, <2>2, Appended
  <2>5. QED
    BY <2>1, <2>2, <2>3, <2>4, ExchangeMore
<1>7. ASSUME NEW type \in Inbound, BrokerPublishes(type) PROVE Exchange'
  <2> DEFINE q == Packet(type, inbound')
             S == Written \cup Sent \cup {q}
  <2>1. /\ fromBroker' = Append(fromBroker, q)
        /\ UNCHANGED <<op, toBroker, succeeded, done, tainted>>
    BY <1>7 DEF BrokerPublishes, call, outcome
  <2>2. toBroker \in Seq(S) /\ fromBroker \in Seq(S) /\ q \in S
    BY Widened DEF Basic
  <2>3. q.type \notin Answers
    BY DEF Packet, Inbound, Answers
  <2> HIDE DEF q, S
  <2>4. QED
    BY <2>1, <2>2, <2>3, ExchangeMore
<1>8. QED
  BY <1>1, <1>2, <1>3, <1>4, <1>5, <1>6, <1>7, ExchangeIssue, ExchangeCycle, ExchangeBroker DEF Next

\* As long as every call had its answer, success is what the broker has done
\* (client.c:314-555).
THEOREM SuccessIsTrue == Spec => []CommandDone
<1>1. Init => Exchange
  BY DEF Init, Exchange, Idle, Commands, Without, ToMatch, FromMatch
<1>2. Spec => []Exchange
  BY <1>1, BasicHolds, ExchangeStep, PTL DEF Spec
<1>3. Exchange => CommandDone
  BY DEF Exchange, CommandDone
<1>4. QED
  BY <1>2, <1>3, PTL
=============================================================================

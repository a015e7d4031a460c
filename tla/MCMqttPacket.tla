---------------------------- MODULE MCMqttPacket ----------------------------
(***************************************************************************)
(* Instances of MqttPacket for TLC.                                        *)
(***************************************************************************)
EXTENDS MqttPacket

Filled(n) == [i \in 1..n |-> 112]

\* Every subset of will, user name and password, an empty client id among them.
Wills == {<<>>} \cup {<<[topic |-> <<119>>, payload |-> p, qos |-> q, retained |-> TRUE]>> :
                        p \in {<<>>, <<112, 113>>}, q \in {0, 2}}
Connects == [type : {"connect"}, clientId : {<<>>, <<99, 100>>}, cleanSession : {TRUE},
             will : Wills, username : {<<>>, <<117>>}, password : {<<>>, <<118>>},
             keepAlive : {300}]

\* Payloads that bring the remaining length to either side of 127 and the packet
\* to either side of the larger write buffer.
Publishes == [type : {"publish"}, dup : BOOLEAN, qos : 0..2, retained : BOOLEAN, id : {258},
              topic : {<<116>>}, payload : {Filled(n) : n \in {0, 1, 122, 123, 124, 125}}]

Filters == [topic : {<<97>>, <<98, 47>>}, qos : {1}]
Subscribes == [type : {"subscribe", "unsubscribe"}, id : {7},
               filters : {<<f>> : f \in Filters} \cup {<<f, g>> : f, g \in Filters}]

SmallRequests == Connects \cup Publishes \cup Subscribes
    \cup [type : {"puback", "pubrec", "pubrel", "pubcomp"}, dup : {FALSE}, id : {258}]
    \cup [type : {"pingreq", "disconnect"}]

\* Headers: CONNACK, PUBLISH at QoS 0, 1, 2 (repeated, retained) and 3, PUBACK,
\* SUBACK, PINGRESP, and CONNECT, which cannot be received.
Headers == {32, 48, 50, 61, 54, 64, 144, 208, 16}
\* All short bodies, and longer ones that begin with a topic of length 0 or 1.
Bodies == BoundedSeq({0, 1}, 3) \cup {<<0>> \o b : b \in BoundedSeq({0, 1}, 4)}

\* These packets, and over-long, overflowing and unreadable lengths.
SmallArrivals == {<<h, Len(b)>> \o b : h \in Headers, b \in Bodies}
    \cup {<<48, 131, 0, 0, 1, 1>>, <<48, 127>>, <<48, 255, 255, 255, 127>>,
          <<64, 255, 255, 255, 255, 1>>, <<144, 130, 128, 128, 0, 0, 1>>}

=============================================================================

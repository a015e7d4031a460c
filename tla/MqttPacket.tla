------------------------------ MODULE MqttPacket ------------------------------
(***************************************************************************)
(* The packets of lwmqtt/src/packet.c and the cursor functions of          *)
(* lwmqtt/src/helpers.c, byte by byte, between the two buffers of the      *)
(* client: a packet is encoded into write_buf; a packet that arrives is    *)
(* read into read_buf, over what earlier packets left there, and decoded   *)
(* from the whole buffer.                                                  *)
(*                                                                         *)
(* A buffer is a sequence of bytes.  A cursor is the number of bytes that  *)
(* lie behind it.  A read returns [err, next, ...] or Failed(err).         *)
(***************************************************************************)
EXTENDS Integers, SequencesExt

CONSTANTS
    ReadSize,    \* read_buf_size
    WriteSizes,  \* the possible values of write_buf_size
    MaxCount,    \* the number of filters of the subscription in progress
    Requests,    \* what the client may be asked to encode
    Arrivals,    \* the packets the broker may send, as bytes
    Garbage,     \* bytes fresh memory may hold
    MaxPackets   \* bound: packets encoded or received since the start

Byte == 0..255
Word == 0..(256 * 256 - 1)

\* A lwmqtt_string_t: its length is a word.
Text == {s \in Seq(Byte) : Len(s) \in Word}
Will == [topic : Text, payload : Text, qos : 0..2, retained : BOOLEAN]

\* What may be asked of the encoders.  The last will is a sequence of none or one.
ConnectRequest ==
    [type : {"connect"}, clientId : Text, cleanSession : BOOLEAN,
     will : {w \in Seq(Will) : Len(w) <= 1}, username : Text, password : Text,
     keepAlive : Word]
PublishRequest ==
    [type : {"publish"}, dup : BOOLEAN, qos : 0..2, retained : BOOLEAN, id : Word,
     topic : Text, payload : Seq(Byte)]
FilterRequest ==
    [type : {"subscribe", "unsubscribe"}, id : Word,
     filters : Seq([topic : Text, qos : 0..2])]
AckRequest == [type : {"puback", "pubrec", "pubrel", "pubcomp"}, dup : BOOLEAN, id : Word]
ZeroRequest == [type : {"pingreq", "disconnect"}]
Request == ConnectRequest \cup PublishRequest \cup FilterRequest \cup AckRequest
           \cup ZeroRequest

ASSUME PacketAssumption ==
    /\ ReadSize \in Nat \ {0} /\ WriteSizes \subseteq Nat
    /\ MaxCount \in Nat \ {0} /\ MaxPackets \in Nat
    /\ Requests \subseteq Request /\ Arrivals \subseteq Seq(Byte) /\ Garbage \subseteq Byte

VARIABLES
    request,   \* what was encoded last
    sent,      \* the outcome: [err, size, out]
    readBuf,   \* read_buf
    arrived,   \* the packet that lies at the start of read_buf, or <<>>
    result,    \* what reading and decoding returned
    packets    \* number of packets so far

vars == <<request, sent, readBuf, arrived, result, packets>>

Success == "SUCCESS"
Failed(err) == [err |-> err]
Undecoded == Failed("UNDECODED")
NoRequest == [type |-> "none"]
NothingSent == [err |-> "UNSENT", size |-> 0, out |-> <<>>]

PacketType == [connect |-> 1, connack |-> 2, publish |-> 3, puback |-> 4, pubrec |-> 5,
               pubrel |-> 6, pubcomp |-> 7, subscribe |-> 8, suback |-> 9,
               unsubscribe |-> 10, unsuback |-> 11, pingreq |-> 12, pingresp |-> 13,
               disconnect |-> 14]
Acks == {"puback", "pubrec", "pubrel", "pubcomp", "unsuback"}
Receivable == Acks \cup {"connack", "publish", "suback", "pingresp"}

-----------------------------------------------------------------------------
(***************************************************************************)
(* helpers.c                                                               *)
(***************************************************************************)
ReadBits(byte, pos, num) == (byte \div 2^pos) % 2^num
WriteBits(byte, value, pos, num) == byte + (value - ReadBits(byte, pos, num)) * 2^pos
Bit(flag) == IF flag THEN 1 ELSE 0

\* The sum of a sequence of numbers.
Total(s) == LET sum[n \in 0..Len(s)] == IF n = 0 THEN 0 ELSE sum[n - 1] + s[n]
            IN sum[Len(s)]

\* Seeded fault: the two bytes the wrong way round.
ReadNumSwapped(buf, pos, end) ==
    IF end - pos < 2 THEN Failed("BUFFER_TOO_SHORT")
    ELSE [err |-> Success, next |-> pos + 2, num |-> buf[pos + 1] + 256 * buf[pos + 2]]
ReadNum(buf, pos, end) ==
    IF end - pos < 2 THEN Failed("BUFFER_TOO_SHORT")
    ELSE [err |-> Success, next |-> pos + 2, num |-> 256 * buf[pos + 1] + buf[pos + 2]]

ReadString(buf, pos, end) ==
    LET len == ReadNum(buf, pos, end)
    IN IF len.err # Success THEN len
       ELSE IF end - len.next < len.num THEN Failed("BUFFER_TOO_SHORT")
       ELSE [err |-> Success, next |-> len.next + len.num,
             data |-> SubSeq(buf, len.next + 1, len.next + len.num)]

\* What a digit of the variable-length number counts.
Weight == <<1, 128, 128 * 128, 128 * 128 * 128>>

\* At most four bytes of seven bits, the lowest first; a fifth byte has to be
\* there before the overflow is noticed.
ReadVarnum(buf, pos, end) ==
    LET last == {k \in 1..4 : k <= end - pos /\ buf[pos + k] < 128}
        digits == [i \in 1..Min(last) |-> (buf[pos + i] % 128) * Weight[i]]
    IN IF last # {} THEN [err |-> Success, next |-> pos + Min(last), num |-> Total(digits)]
       ELSE Failed(IF end - pos < 5 THEN "BUFFER_TOO_SHORT" ELSE "VARNUM_OVERFLOW")

\* The largest length that fits is taken for an overflow.
VarnumFits(n) == n < 128 * 128 * 128 * 128 - 1

DigitsOf(n) == Min({k \in 1..4 : n \div Weight[k] < 128})
\* Seeded fault: a byte is not cut to its seven bits.
VarnumUncut(n) ==
    [i \in 1..DigitsOf(n) |-> (n \div Weight[i]) + Bit(i < DigitsOf(n)) * 128]
Varnum(n) ==
    [i \in 1..DigitsOf(n) |-> ((n \div Weight[i]) % 128) + Bit(i < DigitsOf(n)) * 128]

Num(n) == <<n \div 256, n % 256>>
String(s) == Num(Len(s)) \o s

\* Seeded fault: the last byte of the buffer is taken for one too many.
PutShort(w, field) ==
    IF w.err # Success THEN w
    ELSE IF w.size - Len(w.out) <= Len(field) THEN [w EXCEPT !.err = "BUFFER_TOO_SHORT"]
    ELSE [w EXCEPT !.out = @ \o field]
\* One write of an encoder.  (A string that has room for its length only counts as
\* a write that has none: nothing reads what a failed encoder leaves.)
Put(w, field) ==
    IF w.err # Success THEN w
    ELSE IF w.size - Len(w.out) < Len(field) THEN [w EXCEPT !.err = "BUFFER_TOO_SHORT"]
    ELSE [w EXCEPT !.out = @ \o field]

\* All the writes of an encoder, which returns at the first that has no room.
Write(start, fields) ==
    LET wrote[n \in 0..Len(fields)] == IF n = 0 THEN start ELSE Put(wrote[n - 1], fields[n])
    IN wrote[Len(fields)]

-----------------------------------------------------------------------------
(***************************************************************************)
(* The encoders of packet.c, each as the frame it writes: the header byte, *)
(* the remaining length as the code computes it beforehand, and the fields *)
(* in the order they are written.                                          *)
(***************************************************************************)
TypeBits(type) == WriteBits(0, PacketType[type], 4, 4)

\* A password counts only beside a user name.
Credentials(r) ==
    CASE r.username = <<>> -> <<>>
      [] r.username # <<>> /\ r.password = <<>> -> <<r.username>>
      [] OTHER -> <<r.username, r.password>>

WillFlags(flags, will) ==
    WriteBits(WriteBits(WriteBits(flags, 1, 2, 1), will.qos, 3, 2), Bit(will.retained), 5, 1)

\* Seeded fault: a password without a user name is announced.
ConnectFlagsLoose(r) ==
    LET clean == WriteBits(0, Bit(r.cleanSession), 1, 1)
        will == IF r.will = <<>> THEN clean ELSE WillFlags(clean, r.will[1])
    IN WriteBits(WriteBits(will, Bit(r.username # <<>>), 6, 1), Bit(r.password # <<>>), 7, 1)
ConnectFlags(r) ==
    LET clean == WriteBits(0, Bit(r.cleanSession), 1, 1)
        will == IF r.will = <<>> THEN clean ELSE WillFlags(clean, r.will[1])
        user == WriteBits(will, Bit(r.username # <<>>), 6, 1)
    IN WriteBits(user, Bit(r.username # <<>> /\ r.password # <<>>), 7, 1)

\* The bytes of a sequence of strings, each with its length.
StringBytes(strings) == Total([i \in DOMAIN strings |-> Len(strings[i]) + 2])
Strings(strings) == [i \in DOMAIN strings |-> String(strings[i])]

ConnectFrame(r) ==
    LET will == IF r.will = <<>> THEN <<>> ELSE <<r.will[1].topic, r.will[1].payload>>
        strings == <<r.clientId>> \o will \o Credentials(r)
    IN [header |-> TypeBits("connect"),
        length |-> 10 + StringBytes(strings),
        fields |-> <<String(<<77, 81, 84, 84>>), <<4>>, <<ConnectFlags(r)>>, Num(r.keepAlive)>>
                   \o Strings(strings)]

PublishFrame(r) ==
    LET qos == WriteBits(WriteBits(TypeBits("publish"), Bit(r.dup), 3, 1), r.qos, 1, 2)
    IN [header |-> WriteBits(qos, Bit(r.retained), 0, 1),
        length |-> 2 + Len(r.topic) + Len(r.payload) + 2 * Bit(r.qos > 0),
        fields |-> <<String(r.topic)>> \o (IF r.qos > 0 THEN <<Num(r.id)>> ELSE <<>>)
                   \o <<r.payload>>]

\* Seeded fault: the QoS byte that follows each filter is not counted.
FilterBytesNoQos(filters) == Total([i \in DOMAIN filters |-> 2 + Len(filters[i].topic)])
FilterBytes(filters) == Total([i \in DOMAIN filters |-> 2 + Len(filters[i].topic) + 1])

SubscribeFrame(r) ==
    [header |-> WriteBits(TypeBits("subscribe"), 1, 1, 2),
     length |-> 2 + FilterBytes(r.filters),
     fields |-> <<Num(r.id)>> \o [i \in DOMAIN r.filters |->
                                    String(r.filters[i].topic) \o <<r.filters[i].qos>>]]

UnsubscribeFrame(r) ==
    LET topics == [i \in DOMAIN r.filters |-> r.filters[i].topic]
    IN [header |-> WriteBits(TypeBits("unsubscribe"), 1, 1, 2),
        length |-> 2 + StringBytes(topics),
        fields |-> <<Num(r.id)>> \o Strings(topics)]

AckFrame(r) ==
    [header |-> WriteBits(WriteBits(TypeBits(r.type), Bit(r.dup), 3, 1),
                          Bit(r.type = "pubrel"), 1, 2),
     length |-> 2, fields |-> <<Num(r.id)>>]

ZeroFrame(r) == [header |-> TypeBits(r.type), length |-> 0, fields |-> <<>>]

Frame(r) ==
    CASE r.type = "connect" -> ConnectFrame(r)
      [] r.type = "publish" -> PublishFrame(r)
      [] r.type = "subscribe" -> SubscribeFrame(r)
      [] r.type = "unsubscribe" -> UnsubscribeFrame(r)
      [] r.type \in Acks -> AckFrame(r)
      [] OTHER -> ZeroFrame(r)

EncodePacket(r, size) ==
    LET start == [err |-> Success, size |-> size, out |-> <<>>]
        frame == Frame(r)
    IN IF ~VarnumFits(frame.length) THEN [start EXCEPT !.err = "REMAINING_LENGTH_OVERFLOW"]
       ELSE Write(start, << <<frame.header>>, Varnum(frame.length)>> \o frame.fields)

-----------------------------------------------------------------------------
(***************************************************************************)
(* The decoders of packet.c, each over the whole buffer buf.               *)
(***************************************************************************)
\* Where every decoder begins: the packet type and the remaining length.
Opening(buf, type) ==
    IF ReadBits(buf[1], 4, 4) # PacketType[type] THEN Failed("MISSING_OR_WRONG_PACKET")
    ELSE ReadVarnum(buf, 1, Len(buf))

DecodeConnack(buf) ==
    LET v == Opening(buf, "connack")
    IN IF v.err # Success THEN v
       ELSE IF v.num # 2 THEN Failed("REMAINING_LENGTH_MISMATCH")
       ELSE IF Len(buf) - v.next < 2 THEN Failed("BUFFER_TOO_SHORT")
       ELSE [err |-> Success, session |-> ReadBits(buf[v.next + 1], 7, 1) = 1,
             code |-> Min({buf[v.next + 2], 6})]

DecodeAck(buf, type) ==
    LET v == Opening(buf, type)
        id == ReadNum(buf, v.next, Len(buf))
    IN IF v.err # Success THEN v
       ELSE IF v.num # 2 THEN Failed("REMAINING_LENGTH_MISMATCH")
       ELSE IF id.err # Success THEN id
       ELSE [err |-> Success, dup |-> ReadBits(buf[1], 3, 1) = 1, id |-> id.num]

\* The reserved value 3 is taken for QoS 0.
QosOf(header) == LET qos == ReadBits(header, 1, 2) IN IF qos = 3 THEN 0 ELSE qos

\* Seeded fault: the end of the buffer stays the end of what is read.
PublishEndLoose(buf, v) == Len(buf)
\* The end of the packet in the buffer.
PublishEnd(buf, v) == v.next + v.num

\* Seeded fault: only QoS 2 is taken to carry a packet id.
HasIdQos2(qos) == qos > 1
HasId(qos) == qos > 0

DecodePublish(buf) ==
    LET v == Opening(buf, "publish")
        qos == QosOf(buf[1])
        end == PublishEnd(buf, v)
        topic == ReadString(buf, v.next, end)
        id == IF HasId(qos) THEN ReadNum(buf, topic.next, end)
              ELSE [err |-> Success, next |-> topic.next, num |-> 0]
    IN IF v.err # Success THEN v
       ELSE IF v.num < 2 THEN Failed("REMAINING_LENGTH_MISMATCH")
       ELSE IF Len(buf) - v.next < v.num THEN Failed("BUFFER_TOO_SHORT")
       ELSE IF topic.err # Success THEN topic
       ELSE IF id.err # Success THEN id
       ELSE [err |-> Success, dup |-> ReadBits(buf[1], 3, 1) = 1, qos |-> qos,
             retained |-> ReadBits(buf[1], 0, 1) = 1, id |-> id.num,
             topic |-> topic.data, payload |-> SubSeq(buf, id.next + 1, end)]

\* The check made before the code with index count is stored in an array of
\* MaxCount elements.
TooMany(count) == count > MaxCount

DecodeSuback(buf) ==
    LET v == Opening(buf, "suback")
        id == ReadNum(buf, v.next, Len(buf))
        codes == v.num - 2
        room == Len(buf) - id.next
        stop == {i \in 0..(codes - 1) : TooMany(i) \/ room <= i}
    IN IF v.err # Success THEN v
       ELSE IF v.num < 3 THEN Failed("REMAINING_LENGTH_MISMATCH")
       ELSE IF id.err # Success THEN id
       ELSE IF stop # {} THEN Failed(IF TooMany(Min(stop)) THEN "SUBACK_ARRAY_OVERFLOW"
                                     ELSE "BUFFER_TOO_SHORT")
       ELSE [err |-> Success, id |-> id.num,
             granted |-> [i \in 1..codes |-> IF buf[id.next + i] <= 2
                                             THEN buf[id.next + i] ELSE 128]]

\* The decoder called for the type found in the header; a PINGRESP needs none.
DecodePacket(buf) ==
    LET type == CHOOSE t \in Receivable : PacketType[t] = ReadBits(buf[1], 4, 4)
    IN CASE type = "connack" -> DecodeConnack(buf)
         [] type = "publish" -> DecodePublish(buf)
         [] type = "suback" -> DecodeSuback(buf)
         [] type \in Acks -> DecodeAck(buf, type)
         [] OTHER -> [err |-> Success]

-----------------------------------------------------------------------------
(***************************************************************************)
(* lwmqtt_read_packet_in_buffer on the bytes p: the error it returns and   *)
(* the number of bytes it has then read.  The remaining length is tried    *)
(* again with each byte, until it can be decoded or has overflowed.        *)
(***************************************************************************)
RemainingLength(p, n) == ReadVarnum(SubSeq(p, 2, n + 1), 0, n)

Tries(p) == {k \in 1..5 : k < Len(p) /\ RemainingLength(p, k).err # "BUFFER_TOO_SHORT"}

ReadPacket(p) ==
    LET n == Min(Tries(p))
        rem == RemainingLength(p, n)
    IN IF \A t \in Receivable : PacketType[t] # ReadBits(p[1], 4, 4)
       THEN [err |-> "MISSING_OR_WRONG_PACKET", read |-> 1]
       ELSE IF 1 + n > ReadSize THEN [err |-> "BUFFER_TOO_SHORT", read |-> ReadSize]
       ELSE IF rem.err # Success THEN [err |-> "REMAINING_LENGTH_OVERFLOW", read |-> 1 + n]
       ELSE IF 1 + n + rem.num > ReadSize THEN [err |-> "BUFFER_TOO_SHORT", read |-> 1 + n]
       ELSE [err |-> Success, read |-> 1 + n + rem.num]

\* What the broker sends is complete: a packet that is cut short is a failure of
\* the network.
ASSUME ArrivalsComplete ==
    \A p \in Arrivals : Tries(p) # {} /\ ReadPacket(p).read <= Len(p)

\* The bytes of p overwrite the start of the buffer.
Over(buf, p) == p \o SubSeq(buf, Len(p) + 1, Len(buf))

Init ==
    /\ request = NoRequest /\ sent = NothingSent
    /\ \E b \in Garbage : readBuf = [i \in 1..ReadSize |-> b]
    /\ arrived = <<>> /\ result = Undecoded
    /\ packets = 0

Count == packets < MaxPackets /\ packets' = packets + 1

Encode ==
    /\ Count
    /\ \E r \in Requests, size \in WriteSizes :
          request' = r /\ sent' = EncodePacket(r, size)
    /\ UNCHANGED <<readBuf, arrived, result>>

\* A packet is read, or refused as soon as it cannot be.
Receive ==
    /\ Count
    /\ \E p \in Arrivals :
          LET outcome == ReadPacket(p)
              bytes == SubSeq(p, 1, outcome.read)
          IN /\ readBuf' = Over(readBuf, bytes)
             /\ arrived' = IF outcome.err = Success THEN bytes ELSE <<>>
             /\ result' = IF outcome.err = Success THEN Undecoded ELSE Failed(outcome.err)
    /\ UNCHANGED <<request, sent>>

\* The network fails in the middle of a packet.  What was read stays in the
\* buffer, which the next connection goes on to use.
ReceiveCut ==
    /\ Count
    /\ \E p \in Arrivals : \E n \in 1..(ReadPacket(p).read - 1) :
          readBuf' = Over(readBuf, SubSeq(p, 1, n))
    /\ arrived' = <<>> /\ result' = Failed("NETWORK_FAILED_READ")
    /\ UNCHANGED <<request, sent>>

Decode ==
    /\ arrived # <<>> /\ result = Undecoded
    /\ result' = DecodePacket(readBuf)
    /\ UNCHANGED <<request, sent, readBuf, arrived, packets>>

\* The device starts again and esp_mqtt_init allocates the buffers.
Restart ==
    /\ packets > 0
    /\ request' = NoRequest /\ sent' = NothingSent
    /\ \E b \in Garbage : readBuf' = [i \in 1..ReadSize |-> b]
    /\ arrived' = <<>> /\ result' = Undecoded
    /\ packets' = 0

Next == Encode \/ Receive \/ ReceiveCut \/ Decode \/ Restart

Spec == Init /\ [][Next]_vars

-----------------------------------------------------------------------------
(***************************************************************************)
(* Properties.                                                             *)
(***************************************************************************)
\* Both buffers hold bytes, and no packet exceeds the buffer it lies in.
TypeOK ==
    /\ sent.out \in Seq(Byte) /\ Len(sent.out) <= sent.size
    /\ readBuf \in [1..ReadSize -> Byte]
    /\ arrived \in Seq(Byte) /\ Len(arrived) <= ReadSize
    /\ packets \in 0..MaxPackets

Encoded == sent.err = Success

\* The remaining length of every packet that is sent is the number of bytes that
\* follow it: otherwise the broker takes the rest of the stream for something else.
FrameExact == Encoded => LET v == ReadVarnum(sent.out, 1, Len(sent.out))
                         IN v.err = Success /\ v.num = Len(sent.out) - v.next

\* A packet is refused exactly if its length cannot be written or if it does not
\* fit the write buffer.
EncodeFits == request # NoRequest =>
    LET length == Frame(request).length
        total == 1 + DigitsOf(length) + length
    IN sent.err = IF ~VarnumFits(length) THEN "REMAINING_LENGTH_OVERFLOW"
                  ELSE IF total <= sent.size THEN Success ELSE "BUFFER_TOO_SHORT"

\* What follows the client id in a CONNECT is what its flags announce, whatever
\* subset of will, user name and password is configured.
FlagsAnnounce == Encoded /\ request.type = "connect" =>
    LET start == ReadVarnum(sent.out, 1, Len(sent.out)).next
        Set(pos) == ReadBits(sent.out[start + 8], pos, 1) = 1
    IN /\ Set(2) => request.will # <<>>
       /\ SubSeq(sent.out, start + 11, Len(sent.out))
            = String(request.clientId)
              \o (IF Set(2) THEN String(request.will[1].topic)
                                 \o String(request.will[1].payload) ELSE <<>>)
              \o (IF Set(6) THEN String(request.username) ELSE <<>>)
              \o (IF Set(7) THEN String(request.password) ELSE <<>>)

\* A publish or an acknowledgement this client encodes is decoded by another
\* lwmqtt client to what was asked.
OwnReadable == Encoded =>
    /\ request.type = "publish" =>
          LET d == DecodePublish(sent.out)
          IN /\ d.err = Success
             /\ d.topic = request.topic /\ d.payload = request.payload
             /\ d.qos = request.qos /\ d.dup = request.dup /\ d.retained = request.retained
             /\ d.id = IF request.qos = 0 THEN 0 ELSE request.id
    /\ request.type \in Acks =>
          DecodeAck(sent.out, request.type)
            = [err |-> Success, dup |-> request.dup, id |-> request.id]

Decoded == arrived # <<>> /\ result # Undecoded

\* What a decoder returns depends on the packet alone, never on bytes that
\* earlier packets have left behind it in the buffer.
FreshOnly == Decoded =>
    \A b \in {0, 255} : result = DecodePacket(Over([i \in 1..ReadSize |-> b], arrived))

\* A publish that is accepted is decoded without loss: encoding the result gives
\* back the packet, if its length was encoded in the shortest way, is not the one
\* legal length that the encoder refuses, and its QoS is not the reserved one.
PublishLossless ==
    Decoded /\ result.err = Success /\ ReadBits(arrived[1], 4, 4) = PacketType.publish
      => LET again == [type |-> "publish", dup |-> result.dup, qos |-> result.qos,
                       retained |-> result.retained, id |-> result.id,
                       topic |-> result.topic, payload |-> result.payload]
             v == ReadVarnum(arrived, 1, Len(arrived))
         IN \/ v.next > 1 + DigitsOf(v.num)
            \/ ~VarnumFits(v.num)
            \/ ReadBits(arrived[1], 1, 2) = 3
            \/ EncodePacket(again, ReadSize).out = arrived

\* As many granted QoS levels are stored as the caller's array has room for
\* (packet.h:163: "The maximum number of members allowed in the
\* granted_qos_levels array").
SubackFits ==
    Decoded /\ result.err = Success /\ ReadBits(arrived[1], 4, 4) = PacketType.suback
      => Len(result.granted) <= MaxCount
=============================================================================

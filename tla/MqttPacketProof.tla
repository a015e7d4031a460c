---------------------------- MODULE MqttPacketProof ----------------------------
(***************************************************************************)
(* Proofs about MqttPacket: what the encoders write and what the decoders  *)
(* read, for every request, every packet and every size of the buffers.    *)
(***************************************************************************)
EXTENDS MqttPacketLemmas

-----------------------------------------------------------------------------
(***************************************************************************)
(* The frames that the encoders write.                                     *)
(***************************************************************************)
\* The packet type is in the upper four bits.
LEMMA TypeBitsAre ==
  ASSUME NEW t \in DOMAIN PacketType
  PROVE  TypeBits(t) = 16 * PacketType[t] /\ PacketType[t] \in 1..14
<1>1. PacketType[t] \in 1..14
  BY DEF PacketType
<1>2. WriteBits(0, PacketType[t], 4, 4) = 0 + (PacketType[t] - ((0 \div 16) % 16)) * 16
  BY <1>1 DEF WriteBits, ReadBits
<1> QED BY <1>1, <1>2 DEF TypeBits

\* The header of a PUBLISH: the type, and below it dup, QoS and retained.
LEMMA PublishHeader ==
  ASSUME NEW r \in PublishRequest
  PROVE  /\ Frame(r) = PublishFrame(r)
         /\ Frame(r).header = 48 + 8 * Bit(r.dup) + 2 * r.qos + Bit(r.retained)
<1>1. /\ r.type = "publish" /\ r.dup \in BOOLEAN /\ r.qos \in 0..2 /\ r.retained \in BOOLEAN
  BY DEF PublishRequest
<1>2. PICK d \in 0..1 : d = Bit(r.dup)
  BY DEF Bit
<1>3. PICK t \in 0..1 : t = Bit(r.retained)
  BY DEF Bit
<1>4. TypeBits("publish") = 48
  BY TypeBitsAre DEF PacketType
<1>5. WriteBits(48, d, 3, 1) = 48 + 8 * d
  <2>1. WriteBits(48, d, 3, 1) = 48 + (d - ((48 \div 8) % 2)) * 8
    BY DEF WriteBits, ReadBits
  <2> QED BY <2>1
<1>6. WriteBits(48 + 8 * d, r.qos, 1, 2) = 48 + 8 * d + 2 * r.qos
  <2>1. PICK q \in 0..2 : q = r.qos
    BY <1>1
  <2>2. WriteBits(48 + 8 * d, q, 1, 2) = (48 + 8 * d) + (q - (((48 + 8 * d) \div 2) % 4)) * 2
    BY DEF WriteBits, ReadBits
  <2> QED BY <2>1, <2>2
<1>7. WriteBits(48 + 8 * d + 2 * r.qos, t, 0, 1) = 48 + 8 * d + 2 * r.qos + t
  <2>1. PICK b \in Nat : b = 48 + 8 * d + 2 * r.qos /\ b % 2 = 0
    BY <1>1
  <2>2. WriteBits(b, t, 0, 1) = b + (t - (b % 2))
    BY DEF WriteBits, ReadBits
  <2> QED BY <2>1, <2>2
<1>8. Frame(r) = PublishFrame(r)
  BY <1>1 DEF Frame, Acks
<1> QED BY <1>2, <1>3, <1>4, <1>5, <1>6, <1>7, <1>8 DEF PublishFrame

\* The header of an acknowledgement: the type, dup, and QoS 1 for a PUBREL.
LEMMA AckHeader ==
  ASSUME NEW r \in AckRequest
  PROVE  /\ Frame(r) = AckFrame(r)
         /\ Frame(r).header = 16 * PacketType[r.type] + 8 * Bit(r.dup) + 2 * Bit(r.type = "pubrel")
<1>1. r.type \in {"puback", "pubrec", "pubrel", "pubcomp"} /\ r.dup \in BOOLEAN
  BY DEF AckRequest
<1>2. PICK d \in 0..1 : d = Bit(r.dup)
  BY DEF Bit
<1>3. PICK q \in 0..1 : q = Bit(r.type = "pubrel")
  BY DEF Bit
<1>4. PICK t \in 1..14 : t = PacketType[r.type] /\ TypeBits(r.type) = 16 * t
  BY <1>1, TypeBitsAre DEF PacketType
<1>5. WriteBits(16 * t, d, 3, 1) = 16 * t + 8 * d
  <2>1. WriteBits(16 * t, d, 3, 1) = 16 * t + (d - (((16 * t) \div 8) % 2)) * 8
    BY DEF WriteBits, ReadBits
  <2> QED BY <2>1
<1>6. WriteBits(16 * t + 8 * d, q, 1, 2) = 16 * t + 8 * d + 2 * q
  <2>1. PICK b \in Nat : b = 16 * t + 8 * d /\ (b \div 2) % 4 = 0
    OBVIOUS
  <2>2. WriteBits(b, q, 1, 2) = b + (q - ((b \div 2) % 4)) * 2
    BY DEF WriteBits, ReadBits
  <2> QED BY <2>1, <2>2
<1>7. Frame(r) = AckFrame(r)
  BY <1>1 DEF Frame, Acks
<1> QED BY <1>2, <1>3, <1>4, <1>5, <1>6, <1>7 DEF AckFrame

\* The header of a SUBSCRIBE or an UNSUBSCRIBE.
LEMMA FilterHeader ==
  ASSUME NEW r \in FilterRequest
  PROVE  /\ r.type = "subscribe" => Frame(r) = SubscribeFrame(r)
         /\ r.type = "unsubscribe" => Frame(r) = UnsubscribeFrame(r)
         /\ r.type \in {"subscribe", "unsubscribe"}
         /\ Frame(r).header \in Byte
<1>1. r.type \in {"subscribe", "unsubscribe"}
  BY DEF FilterRequest
<1>2. TypeBits("subscribe") = 128 /\ TypeBits("unsubscribe") = 160
  BY TypeBitsAre DEF PacketType
<1>3. WriteBits(128, 1, 1, 2) = 130 /\ WriteBits(160, 1, 1, 2) = 162
  <2>1. /\ WriteBits(128, 1, 1, 2) = 128 + (1 - ((128 \div 2) % 4)) * 2
        /\ WriteBits(160, 1, 1, 2) = 160 + (1 - ((160 \div 2) % 4)) * 2
    BY DEF WriteBits, ReadBits
  <2> QED BY <2>1
<1>4. /\ r.type = "subscribe" => Frame(r) = SubscribeFrame(r)
      /\ r.type = "unsubscribe" => Frame(r) = UnsubscribeFrame(r)
  BY <1>1 DEF Frame, Acks
<1>5. /\ r.type = "subscribe" => Frame(r).header = 130
      /\ r.type = "unsubscribe" => Frame(r).header = 162
  BY <1>2, <1>3, <1>4 DEF SubscribeFrame, UnsubscribeFrame
<1> QED BY <1>1, <1>4, <1>5, Bytes

\* The connect flags are a byte, and each of the bits 2, 6 and 7 says what it is
\* there for.
LEMMA ConnectFlagsAre ==
  ASSUME NEW r \in ConnectRequest
  PROVE  /\ ConnectFlags(r) \in Byte
         /\ (ReadBits(ConnectFlags(r), 2, 1) = 1) <=> (r.will # <<>>)
         /\ (ReadBits(ConnectFlags(r), 6, 1) = 1) <=> (r.username # <<>>)
         /\ (ReadBits(ConnectFlags(r), 7, 1) = 1) <=> (r.username # <<>> /\ r.password # <<>>)
<1>1. /\ r.cleanSession \in BOOLEAN /\ r.will \in Seq(Will) /\ Len(r.will) <= 1
  BY DEF ConnectRequest
<1>2. PICK c \in 0..1 : c = Bit(r.cleanSession)
  BY DEF Bit
<1>3. PICK u \in 0..1 : u = Bit(r.username # <<>>)
  BY DEF Bit
<1>4. PICK p \in 0..1 : p = Bit(r.username # <<>> /\ r.password # <<>>)
  BY DEF Bit
<1>5. (u = 1) <=> (r.username # <<>>)
  BY <1>3 DEF Bit
<1>6. (p = 1) <=> (r.username # <<>> /\ r.password # <<>>)
  BY <1>4 DEF Bit
<1>7. WriteBits(0, c, 1, 1) = 2 * c
  BY DEF WriteBits, ReadBits
<1>8. PICK w \in 0..1, x \in 0..7 :
         /\ (w = 1) <=> (r.will # <<>>)
         /\ (IF r.will = <<>> THEN 2 * c ELSE WillFlags(2 * c, r.will[1])) = 2 * c + 4 * w + 8 * x
  <2>1. CASE r.will = <<>>
    BY <2>1
  <2>2. CASE r.will # <<>>
    <3>1. r.will[1] \in Will
      BY <1>1, <2>2
    <3>2. PICK q \in 0..2 : q = r.will[1].qos
      BY <3>1 DEF Will
    <3>3. PICK t \in 0..1 : t = Bit(r.will[1].retained)
      BY DEF Bit
    <3>4. WriteBits(2 * c, 1, 2, 1) = 2 * c + 4
      BY DEF WriteBits, ReadBits
    <3>5. WriteBits(2 * c + 4, q, 3, 2) = 2 * c + 4 + 8 * q
      BY DEF WriteBits, ReadBits
    <3>6. WriteBits(2 * c + 4 + 8 * q, t, 5, 1) = 2 * c + 4 + 8 * q + 32 * t
      BY DEF WriteBits, ReadBits
    <3>7. WillFlags(2 * c, r.will[1]) = 2 * c + 4 * 1 + 8 * (q + 4 * t)
      BY <3>2, <3>3, <3>4, <3>5, <3>6 DEF WillFlags
    <3>8. q + 4 * t \in 0..7
      OBVIOUS
    <3> QED BY <2>2, <3>7, <3>8
  <2> QED BY <2>1, <2>2
<1>9. PICK b \in Nat : b = 2 * c + 4 * w + 8 * x
  OBVIOUS
<1>10. WriteBits(b, u, 6, 1) = b + 64 * u
  BY <1>9 DEF WriteBits, ReadBits
<1>11. WriteBits(b + 64 * u, p, 7, 1) = b + 64 * u + 128 * p
  BY <1>9 DEF WriteBits, ReadBits
<1>12. ConnectFlags(r) = b + 64 * u + 128 * p
  BY <1>2, <1>3, <1>4, <1>7, <1>8, <1>9, <1>10, <1>11 DEF ConnectFlags
<1>13. PICK f \in Nat : f = b + 64 * u + 128 * p
  OBVIOUS
<1>14. f < 256 /\ ReadBits(f, 2, 1) = w /\ ReadBits(f, 6, 1) = u /\ ReadBits(f, 7, 1) = p
  BY <1>9, <1>13, SMTT(60) DEF ReadBits
<1> QED BY <1>5, <1>6, <1>8, <1>12, <1>13, <1>14, Bytes

\* A number of sixteen bits is two bytes.
LEMMA NumIs ==
  ASSUME NEW n \in Word
  PROVE  /\ Num(n) \in Seq(Byte) /\ Len(Num(n)) = 2
         /\ 256 * Num(n)[1] + Num(n)[2] = n
<1>1. n \in Nat /\ n < 256 * 256
  BY SMTT(60) DEF Word
<1>2. PICK h \in Nat, l \in Nat : h = n \div 256 /\ l = n % 256
  BY <1>1
<1>3. h < 256 /\ l < 256 /\ 256 * h + l = n
  BY <1>1, <1>2
<1>4. h \in Byte /\ l \in Byte
  BY <1>3, Bytes
<1>5. Num(n) = <<h, l>>
  BY <1>2 DEF Num
<1> QED BY <1>3, <1>4, <1>5

\* A string is its length, in two bytes, and its bytes.
LEMMA StringIs ==
  ASSUME NEW t \in Text
  PROVE  /\ t \in Seq(Byte) /\ Len(t) \in Word
         /\ String(t) \in Seq(Byte) /\ Len(String(t)) = Len(t) + 2
<1>1. t \in Seq(Byte) /\ Len(t) \in Word
  BY DEF Text
<1> QED BY <1>1, NumIs, ConcatProperties, SMTT(60) DEF String

\* Strings one after the other are as many bytes as are counted beforehand.
LEMMA StringsAre ==
  ASSUME NEW strings \in Seq(Text)
  PROVE  /\ Strings(strings) \in Fields
         /\ Total(Lens(Strings(strings))) = StringBytes(strings)
<1>1. Len(strings) \in Nat /\ DOMAIN strings = 1..Len(strings)
  OBVIOUS
<1>2. ASSUME NEW i \in 1..Len(strings)
      PROVE  String(strings[i]) \in Seq(Byte) /\ Len(String(strings[i])) = Len(strings[i]) + 2
  BY StringIs
<1>3. /\ Strings(strings) \in Fields /\ Len(Strings(strings)) = Len(strings)
      /\ \A i \in 1..Len(strings) : Strings(strings)[i] = String(strings[i])
  BY <1>1, <1>2 DEF Strings, Fields
<1>4. Lens(Strings(strings)) = [i \in DOMAIN strings |-> Len(strings[i]) + 2]
  BY <1>1, <1>2, <1>3 DEF Lens
<1> QED BY <1>3, <1>4 DEF StringBytes

\* What a frame is as bytes: a byte for the header, and as many bytes after the
\* remaining length as that length says.
Exact(frame) == /\ frame.header \in Byte /\ frame.length \in Nat /\ frame.fields \in Fields
                /\ Len(FlattenSeq(frame.fields)) = frame.length

\* The bytes of a PUBLISH behind the remaining length.
LEMMA PublishBytes ==
  ASSUME NEW r \in PublishRequest
  PROVE  /\ Exact(Frame(r))
         /\ FlattenSeq(Frame(r).fields)
              = (String(r.topic) \o (IF r.qos > 0 THEN Num(r.id) ELSE <<>>)) \o r.payload
<1>1. /\ r.dup \in BOOLEAN /\ r.qos \in 0..2 /\ r.retained \in BOOLEAN
      /\ r.id \in Word /\ r.topic \in Text /\ r.payload \in Seq(Byte)
  BY DEF PublishRequest
<1>2. PICK a \in Seq(Byte) : a = String(r.topic) /\ Len(a) = Len(r.topic) + 2
  BY <1>1, StringIs
<1>3. PICK m \in Fields, b \in Seq(Byte) :
         /\ m = IF r.qos > 0 THEN <<Num(r.id)>> ELSE <<>>
         /\ b = IF r.qos > 0 THEN Num(r.id) ELSE <<>>
         /\ FlattenSeq(m) = b /\ Len(b) = 2 * Bit(r.qos > 0)
  <2>1. CASE r.qos > 0
    <3>1. Num(r.id) \in Seq(Byte) /\ Len(Num(r.id)) = 2
      BY <1>1, NumIs
    <3>2. <<Num(r.id)>> \in Fields /\ FlattenSeq(<<Num(r.id)>>) = Num(r.id)
      BY <3>1, FlattenShort
    <3> QED BY <2>1, <3>1, <3>2 DEF Bit
  <2>2. CASE ~(r.qos > 0)
    <3>1. <<>> \in Fields /\ FlattenSeq(<<>>) = <<>> /\ <<>> \in Seq(Byte) /\ Len(<<>>) = 0
      BY FlattenShort
    <3>2. 2 * Bit(r.qos > 0) = 0
      BY <2>2 DEF Bit
    <3> QED BY <2>2, <3>1, <3>2
  <2> QED BY <2>1, <2>2
<1>4. /\ Frame(r).fields = (<<a>> \o m) \o <<r.payload>>
      /\ Frame(r).length = 2 + Len(r.topic) + Len(r.payload) + 2 * Bit(r.qos > 0)
  <2>1. Frame(r) = PublishFrame(r)
    BY PublishHeader
  <2>2. PublishFrame(r).fields
          = (<<String(r.topic)>> \o (IF r.qos > 0 THEN <<Num(r.id)>> ELSE <<>>)) \o <<r.payload>>
    BY DEF PublishFrame
  <2>3. PublishFrame(r).length = 2 + Len(r.topic) + Len(r.payload) + 2 * Bit(r.qos > 0)
    BY DEF PublishFrame
  <2> QED BY <1>2, <1>3, <2>1, <2>2, <2>3
<1>5. <<a>> \in Fields /\ FlattenSeq(<<a>>) = a
  BY FlattenShort
<1>6. <<r.payload>> \in Fields /\ FlattenSeq(<<r.payload>>) = r.payload
  BY <1>1, FlattenShort
<1>7. <<a>> \o m \in Fields /\ FlattenSeq(<<a>> \o m) = a \o b
  BY <1>3, <1>5, FlattenConcat, LensAre, ZenonT(60)
<1>8. /\ Frame(r).fields \in Fields
      /\ FlattenSeq(Frame(r).fields) = (a \o b) \o r.payload
  BY <1>4, <1>6, <1>7, FlattenConcat, LensAre, ZenonT(60)
<1>9. Len((a \o b) \o r.payload) = Len(a) + Len(b) + Len(r.payload)
  BY <1>1
<1>10. Frame(r).header \in Byte
  <2>1. PICK d \in 0..1 : d = Bit(r.dup)
    BY DEF Bit
  <2>2. PICK t \in 0..1 : t = Bit(r.retained)
    BY DEF Bit
  <2>3. Frame(r).header = 48 + 8 * d + 2 * r.qos + t
    BY <2>1, <2>2, PublishHeader
  <2>4. PICK q \in 0..2 : q = r.qos
    BY <1>1
  <2>5. PICK h \in Nat : h = 48 + 8 * d + 2 * q + t /\ h < 256
    OBVIOUS
  <2>6. Frame(r).header = h
    BY <2>3, <2>4, <2>5
  <2> QED BY <2>5, <2>6, Bytes
<1>11. PICK x \in Nat : x = 2 * Bit(r.qos > 0)
  BY DEF Bit
<1>12. PICK m1 \in Nat, m2 \in Nat : m1 = Len(r.topic) /\ m2 = Len(r.payload)
  BY <1>1 DEF Text
<1>13. Len(FlattenSeq(Frame(r).fields)) = Frame(r).length /\ Frame(r).length \in Nat
  <2>1. Len(a) = m1 + 2
    BY <1>2, <1>12
  <2>2. Len(b) = x
    BY <1>3, <1>11
  <2>3. Len(FlattenSeq(Frame(r).fields)) = (m1 + 2) + x + m2
    BY <1>8, <1>9, <1>12, <2>1, <2>2
  <2>4. Frame(r).length = 2 + m1 + m2 + x
    BY <1>4, <1>11, <1>12
  <2> QED BY <2>3, <2>4
<1> QED BY <1>2, <1>3, <1>8, <1>10, <1>13 DEF Exact

\* The bytes of an acknowledgement behind the remaining length.
LEMMA AckBytes ==
  ASSUME NEW r \in AckRequest
  PROVE  /\ Exact(Frame(r)) /\ Frame(r).length = 2
         /\ FlattenSeq(Frame(r).fields) = Num(r.id)
<1>1. r.type \in {"puback", "pubrec", "pubrel", "pubcomp"} /\ r.dup \in BOOLEAN /\ r.id \in Word
  BY DEF AckRequest
<1>2. Num(r.id) \in Seq(Byte) /\ Len(Num(r.id)) = 2
  BY <1>1, NumIs
<1>3. Frame(r).length = 2 /\ Frame(r).fields = <<Num(r.id)>>
  BY AckHeader DEF AckFrame
<1>4. Frame(r).header \in Byte
  <2>1. PICK d \in 0..1 : d = Bit(r.dup)
    BY DEF Bit
  <2>2. PICK q \in 0..1 : q = Bit(r.type = "pubrel")
    BY DEF Bit
  <2>3. PICK t \in 1..14 : t = PacketType[r.type]
    BY <1>1 DEF PacketType
  <2>4. Frame(r).header = 16 * t + 8 * d + 2 * q
    BY <2>1, <2>2, <2>3, AckHeader
  <2> QED BY <2>4, Bytes
<1> QED BY <1>2, <1>3, <1>4, FlattenShort DEF Exact

\* PINGREQ and DISCONNECT are a header and a remaining length of zero.
LEMMA ZeroBytes ==
  ASSUME NEW r \in ZeroRequest
  PROVE  Exact(Frame(r))
<1>1. r.type \in {"pingreq", "disconnect"}
  BY DEF ZeroRequest
<1>2. Frame(r) = ZeroFrame(r)
  BY <1>1 DEF Frame, Acks
<1>3. TypeBits("pingreq") = 192 /\ TypeBits("disconnect") = 224
  BY TypeBitsAre DEF PacketType
<1>4. Frame(r).header \in {192, 224} /\ Frame(r).length = 0 /\ Frame(r).fields = <<>>
  BY <1>1, <1>2, <1>3 DEF ZeroFrame
<1>5. Frame(r).header \in Byte
  BY <1>4, Bytes
<1>6. <<>> \in Fields /\ FlattenSeq(<<>>) = <<>> /\ Len(<<>>) = 0
  BY FlattenShort
<1> QED BY <1>4, <1>5, <1>6 DEF Exact

\* A frame that begins with one field counts its bytes first.
LEMMA FirstField ==
  ASSUME NEW a \in Seq(Byte), NEW s \in Fields
  PROVE  /\ <<a>> \o s \in Fields
         /\ FlattenSeq(<<a>> \o s) = a \o FlattenSeq(s)
         /\ Len(FlattenSeq(<<a>> \o s)) = Len(a) + Total(Lens(s))
<1>1. <<a>> \in Fields /\ FlattenSeq(<<a>>) = a
  BY FlattenShort
<1>2. <<a>> \o s \in Fields /\ FlattenSeq(<<a>> \o s) = a \o FlattenSeq(s)
  BY <1>1, FlattenConcat, LensAre
<1>3. FlattenSeq(s) \in Seq(Byte) /\ Len(FlattenSeq(s)) = Total(Lens(s))
  BY <1>1, FlattenConcat, FlattenLen
<1>4. Len(a \o FlattenSeq(s)) = Len(a) + Len(FlattenSeq(s))
  BY <1>3, ConcatProperties
<1> QED BY <1>2, <1>3, <1>4

\* The bytes of a SUBSCRIBE or an UNSUBSCRIBE behind the remaining length.
LEMMA FilterBytesAre ==
  ASSUME NEW r \in FilterRequest
  PROVE  Exact(Frame(r))
<1>1. r.id \in Word /\ r.filters \in Seq([topic : Text, qos : 0..2])
  BY DEF FilterRequest
<1>2. PICK n \in Nat : n = Len(r.filters) /\ DOMAIN r.filters = 1..n
  BY <1>1
<1>3. ASSUME NEW i \in 1..n
      PROVE  r.filters[i].topic \in Text /\ r.filters[i].qos \in 0..2
  <2>1. r.filters[i] \in [topic : Text, qos : 0..2]
    BY <1>1, <1>2, ElementOfSeq
  <2> QED BY <2>1
<1>4. Num(r.id) \in Seq(Byte) /\ Len(Num(r.id)) = 2
  BY <1>1, NumIs
<1>5. CASE r.type = "subscribe"
  <2>1. PICK f : f = [i \in DOMAIN r.filters |->
                        String(r.filters[i].topic) \o <<r.filters[i].qos>>]
    OBVIOUS
  <2>2. ASSUME NEW i \in 1..n
        PROVE  f[i] \in Seq(Byte) /\ Len(f[i]) = 2 + Len(r.filters[i].topic) + 1
    <3>1. /\ String(r.filters[i].topic) \in Seq(Byte)
          /\ Len(String(r.filters[i].topic)) = Len(r.filters[i].topic) + 2
          /\ Len(r.filters[i].topic) \in Nat
      <4>1. PICK t \in Text : t = r.filters[i].topic
        BY <1>3
      <4>2. Len(t) \in Nat
        BY DEF Text
      <4> QED BY <4>1, <4>2, StringIs
    <3>2. r.filters[i].qos \in Byte
      BY <1>3, Bytes
    <3>3. <<r.filters[i].qos>> \in Seq(Byte) /\ Len(<<r.filters[i].qos>>) = 1
      BY <3>2
    <3>4. f[i] = String(r.filters[i].topic) \o <<r.filters[i].qos>>
      BY <1>2, <2>1
    <3>5. /\ f[i] \in Seq(Byte)
          /\ Len(f[i]) = Len(String(r.filters[i].topic)) + Len(<<r.filters[i].qos>>)
      BY <3>1, <3>3, <3>4, ConcatProperties, SMTT(60)
    <3> QED BY <3>1, <3>3, <3>5
  <2>3. f \in Fields /\ Len(f) = n
    <3>1. DOMAIN f = 1..n
      BY <1>2, <2>1
    <3>2. f = [i \in 1..n |-> f[i]]
      BY <1>2, <2>1
    <3>3. f \in [1..n -> Seq(Byte)]
      BY <2>2, <3>2
    <3> QED BY <3>3 DEF Fields
  <2>4. Lens(f) = [i \in DOMAIN r.filters |-> 2 + Len(r.filters[i].topic) + 1]
    BY <1>2, <2>2, <2>3 DEF Lens
  <2>5. Total(Lens(f)) = FilterBytes(r.filters) /\ Total(Lens(f)) \in Nat
    BY <2>3, <2>4, LensAre, TotalShort DEF FilterBytes
  <2>6. /\ Frame(r).fields = <<Num(r.id)>> \o f
        /\ Frame(r).length = 2 + FilterBytes(r.filters)
    <3>1. Frame(r) = SubscribeFrame(r)
      BY <1>5, FilterHeader
    <3> QED BY <2>1, <3>1 DEF SubscribeFrame
  <2>7. Frame(r).fields \in Fields /\ Len(FlattenSeq(Frame(r).fields)) = 2 + Total(Lens(f))
    BY <1>4, <2>3, <2>6, FirstField
  <2>8. Frame(r).length \in Nat /\ Len(FlattenSeq(Frame(r).fields)) = Frame(r).length
    BY <2>5, <2>6, <2>7
  <2> QED BY <2>7, <2>8, FilterHeader DEF Exact
<1>6. CASE r.type = "unsubscribe"
  <2>1. PICK t : t = [i \in DOMAIN r.filters |-> r.filters[i].topic]
    OBVIOUS
  <2>2. t \in Seq(Text)
    BY <1>2, <1>3, <2>1
  <2>3. Strings(t) \in Fields /\ Total(Lens(Strings(t))) = StringBytes(t)
    BY <2>2, StringsAre
  <2>4. Total(Lens(Strings(t))) \in Nat
    BY <2>3, LensAre, TotalShort
  <2>5. /\ Frame(r).fields = <<Num(r.id)>> \o Strings(t)
        /\ Frame(r).length = 2 + StringBytes(t)
    <3>1. Frame(r) = UnsubscribeFrame(r)
      BY <1>6, FilterHeader
    <3> QED BY <2>1, <3>1 DEF UnsubscribeFrame
  <2>6. /\ Frame(r).fields \in Fields
        /\ Len(FlattenSeq(Frame(r).fields)) = 2 + Total(Lens(Strings(t)))
    BY <1>4, <2>3, <2>5, FirstField
  <2>7. Frame(r).length \in Nat /\ Len(FlattenSeq(Frame(r).fields)) = Frame(r).length
    BY <2>3, <2>4, <2>5, <2>6
  <2> QED BY <2>6, <2>7, FilterHeader DEF Exact
<1> QED BY <1>5, <1>6, FilterHeader

\* The strings of a CONNECT.
ConnectStrings(r) ==
    (<<r.clientId>> \o (IF r.will = <<>> THEN <<>> ELSE <<r.will[1].topic, r.will[1].payload>>))
    \o Credentials(r)

\* What a CONNECT begins with: the name and the level of the protocol, the flags and
\* the keep-alive time.
ConnectBegin(r) == ((String(<<77, 81, 84, 84>>) \o <<4>>) \o <<ConnectFlags(r)>>) \o Num(r.keepAlive)

\* The bytes of a CONNECT behind the remaining length.
LEMMA ConnectBytes ==
  ASSUME NEW r \in ConnectRequest
  PROVE  /\ Exact(Frame(r))
         /\ ConnectStrings(r) \in Seq(Text)
         /\ ConnectBegin(r) \in Seq(Byte) /\ Len(ConnectBegin(r)) = 10
         /\ ConnectBegin(r)[8] = ConnectFlags(r)
         /\ Strings(ConnectStrings(r)) \in Fields
         /\ FlattenSeq(Frame(r).fields)
              = ConnectBegin(r) \o FlattenSeq(Strings(ConnectStrings(r)))
<1>1. /\ r.type = "connect" /\ r.clientId \in Text /\ r.will \in Seq(Will)
      /\ r.username \in Text /\ r.password \in Text /\ r.keepAlive \in Word
  BY DEF ConnectRequest
<1>2. ConnectStrings(r) \in Seq(Text)
  <2>1. <<r.clientId>> \in Seq(Text)
    BY <1>1
  <2>2. (IF r.will = <<>> THEN <<>> ELSE <<r.will[1].topic, r.will[1].payload>>) \in Seq(Text)
    <3>1. CASE r.will = <<>>
      BY <3>1
    <3>2. CASE r.will # <<>>
      <4>1. r.will[1] \in Will
        BY <1>1, <3>2
      <4>2. r.will[1].topic \in Text /\ r.will[1].payload \in Text
        BY <4>1 DEF Will
      <4> QED BY <3>2, <4>2
    <3> QED BY <3>1, <3>2
  <2>3. Credentials(r) \in Seq(Text)
    BY <1>1 DEF Credentials
  <2> QED BY <2>1, <2>2, <2>3, ConcatProperties DEF ConnectStrings
<1>3. PICK a \in Seq(Byte) : a = String(<<77, 81, 84, 84>>) /\ Len(a) = 6
  <2>1. 77 \in Byte /\ 81 \in Byte /\ 84 \in Byte
    BY DEF Byte
  <2>2. PICK m \in Seq(Byte) : m = <<77, 81, 84, 84>> /\ Len(m) = 4
    <3>1. <<77, 81, 84, 84>> \in Seq(Byte) /\ Len(<<77, 81, 84, 84>>) = 4
      BY <2>1
    <3> QED BY <3>1
  <2>3. Len(m) \in Word
    BY <2>2 DEF Word
  <2>4. m \in Text
    BY <2>3 DEF Text
  <2>5. String(m) \in Seq(Byte) /\ Len(String(m)) = Len(m) + 2
    BY <2>4, StringIs
  <2>6. Len(String(m)) = 6
    BY <2>2, <2>5
  <2> QED BY <2>2, <2>5, <2>6
<1>4. PICK b \in Seq(Byte) : b = <<4>> /\ Len(b) = 1
  <2>1. 4 \in Byte
    BY DEF Byte
  <2>2. <<4>> \in Seq(Byte) /\ Len(<<4>>) = 1
    BY <2>1
  <2> QED BY <2>2
<1>5. PICK c \in Seq(Byte) : c = <<ConnectFlags(r)>> /\ Len(c) = 1
  <2>1. ConnectFlags(r) \in Byte
    BY ConnectFlagsAre
  <2>2. <<ConnectFlags(r)>> \in Seq(Byte) /\ Len(<<ConnectFlags(r)>>) = 1
    BY <2>1
  <2> QED BY <2>2
<1>6. PICK d \in Seq(Byte) : d = Num(r.keepAlive) /\ Len(d) = 2
  BY <1>1, NumIs
<1>7. PICK e : e = ((a \o b) \o c) \o d /\ e = ConnectBegin(r)
  BY <1>3, <1>4, <1>5, <1>6 DEF ConnectBegin
<1>8. e \in Seq(Byte) /\ Len(e) = 10 /\ e[8] = c[1]
  <2>1. a \o b \in Seq(Byte) /\ Len(a \o b) = 7
    <3>1. a \o b \in Seq(Byte) /\ Len(a \o b) = Len(a) + Len(b)
      BY BytesConcat
    <3>2. Len(a) = 6 /\ Len(b) = 1
      BY <1>3, <1>4
    <3> QED BY <3>1, <3>2
  <2>2. PICK f \in Seq(Byte) : f = (a \o b) \o c /\ Len(f) = 8 /\ f[8] = c[1]
    <3>1. PICK g \in Seq(Byte) : g = a \o b /\ Len(g) = 7
      BY <2>1
    <3>2. /\ g \o c \in Seq(Byte) /\ Len(g \o c) = Len(g) + Len(c)
          /\ \A i \in 1..Len(c) : (g \o c)[Len(g) + i] = c[i]
      BY BytesConcat
    <3>3. Len(c) = 1
      BY <1>5
    <3>4. Len(g) = 7 /\ g = a \o b
      BY <3>1
    <3>5. (g \o c)[8] = c[1]
      BY <3>2, <3>3, <3>4
    <3>6. g \o c \in Seq(Byte) /\ Len(g \o c) = 8
      BY <3>2, <3>3, <3>4
    <3> QED BY <3>4, <3>5, <3>6
  <2>3. f \o d \in Seq(Byte) /\ Len(f \o d) = 10 /\ (f \o d)[8] = f[8]
    <3>1. /\ f \o d \in Seq(Byte) /\ Len(f \o d) = Len(f) + Len(d)
          /\ \A i \in 1..Len(f) : (f \o d)[i] = f[i]
      BY BytesConcat
    <3> QED BY <1>6, <2>2, <3>1, SMTT(60)
  <2> QED BY <1>7, <2>2, <2>3
<1>9. PICK s \in Fields : s = Strings(ConnectStrings(r))
                          /\ Total(Lens(s)) = StringBytes(ConnectStrings(r))
  BY <1>2, StringsAre
<1>10. /\ Frame(r).header = 16
       /\ Frame(r).length = 10 + StringBytes(ConnectStrings(r))
       /\ Frame(r).fields = <<a, b, c, d>> \o s
  <2>1. Frame(r) = ConnectFrame(r)
    BY <1>1 DEF Frame, Acks
  <2>2. TypeBits("connect") = 16
    BY TypeBitsAre DEF PacketType
  <2> QED BY <1>3, <1>4, <1>5, <1>6, <1>9, <2>1, <2>2 DEF ConnectFrame, ConnectStrings
<1>11. <<a, b, c, d>> \in Fields /\ FlattenSeq(<<a, b, c, d>>) = e
  <2>1. <<a, b>> \in Fields /\ <<c, d>> \in Fields
        /\ FlattenSeq(<<a, b>>) = a \o b /\ FlattenSeq(<<c, d>>) = c \o d
    BY FlattenShort
  <2>2. <<a, b, c, d>> = <<a, b>> \o <<c, d>>
    <3>1. /\ <<a, b, c, d>> \in Seq(Seq(Byte)) /\ Len(<<a, b, c, d>>) = 4
          /\ <<a, b>> \o <<c, d>> \in Seq(Seq(Byte)) /\ Len(<<a, b>> \o <<c, d>>) = 4
      OBVIOUS
    <3>2. \A i \in 1..4 : <<a, b, c, d>>[i] = (<<a, b>> \o <<c, d>>)[i]
      OBVIOUS
    <3> QED BY <3>1, <3>2, SeqEqual
  <2>3. <<a, b, c, d>> \in Fields /\ FlattenSeq(<<a, b, c, d>>) = (a \o b) \o (c \o d)
    <3>1. PICK p \in Fields, q \in Fields : p = <<a, b>> /\ q = <<c, d>>
      BY <2>1
    <3>2. p \o q \in Fields /\ FlattenSeq(p \o q) = FlattenSeq(p) \o FlattenSeq(q)
      BY FlattenConcat, LensAre
    <3> QED BY <2>1, <2>2, <3>1, <3>2
  <2>4. ((a \o b) \o c) \o d = (a \o b) \o (c \o d)
    <3>1. PICK x \in Seq(Byte) : x = a \o b
      BY BytesConcat
    <3>2. (x \o c) \o d = x \o (c \o d)
      BY Associative
    <3> QED BY <3>1, <3>2
  <2> QED BY <1>7, <2>3, <2>4
<1>12. /\ Frame(r).fields \in Fields
       /\ FlattenSeq(Frame(r).fields) = e \o FlattenSeq(s)
  BY <1>9, <1>10, <1>11, FlattenConcat, LensAre, ZenonT(60)
<1>13. FlattenSeq(s) \in Seq(Byte) /\ Len(FlattenSeq(s)) = StringBytes(ConnectStrings(r))
  BY <1>9, <1>11, FlattenConcat, FlattenLen
<1>14. Len(FlattenSeq(Frame(r).fields)) = Frame(r).length /\ Frame(r).length \in Nat
  <2>1. Len(e \o FlattenSeq(s)) = Len(e) + Len(FlattenSeq(s)) /\ Len(FlattenSeq(s)) \in Nat
    BY <1>8, <1>13, BytesConcat
  <2> QED BY <1>8, <1>10, <1>12, <1>13, <2>1, SMTT(60)
<1>15. 16 \in Byte
  BY DEF Byte
<1> QED BY <1>2, <1>5, <1>7, <1>8, <1>9, <1>10, <1>12, <1>14, <1>15 DEF Exact

\* Every frame is as long as it says.
LEMMA FrameIs ==
  ASSUME NEW r \in Request
  PROVE  Exact(Frame(r))
<1>1. CASE r \in ConnectRequest
  BY <1>1, ConnectBytes
<1>2. CASE r \in PublishRequest
  BY <1>2, PublishBytes
<1>3. CASE r \in FilterRequest
  BY <1>3, FilterBytesAre
<1>4. CASE r \in AckRequest
  BY <1>4, AckBytes
<1>5. CASE r \in ZeroRequest
  BY <1>5, ZeroBytes
<1> QED BY <1>1, <1>2, <1>3, <1>4, <1>5 DEF Request

-----------------------------------------------------------------------------
(***************************************************************************)
(* The packets that are sent.                                              *)
(***************************************************************************)
\* A frame that fits the buffer is written as a whole.
LEMMA EncodePacketIs ==
  ASSUME NEW r \in Request, NEW size \in Nat
  PROVE  LET e == EncodePacket(r, size)
             n == Frame(r).length
         IN /\ e.size = size /\ e.out \in Seq(Byte) /\ Len(e.out) <= size
            /\ e.err = IF ~VarnumFits(n) THEN "REMAINING_LENGTH_OVERFLOW"
                       ELSE IF 1 + DigitsOf(n) + n <= size THEN Success ELSE "BUFFER_TOO_SHORT"
            /\ e.err = Success =>
                  /\ VarnumFits(n)
                  /\ e.out = (<<Frame(r).header>> \o Varnum(n)) \o FlattenSeq(Frame(r).fields)
<1> DEFINE start == [err |-> Success, size |-> size, out |-> <<>>]
<1>1. PICK h \in Byte, n \in Nat, f \in Fields :
         h = Frame(r).header /\ n = Frame(r).length /\ f = Frame(r).fields
  BY FrameIs DEF Exact
<1>2. Len(FlattenSeq(f)) = n
  BY <1>1, FrameIs DEF Exact
<1>3. EncodePacket(r, size)
        = IF ~VarnumFits(n) THEN [start EXCEPT !.err = "REMAINING_LENGTH_OVERFLOW"]
          ELSE Write(start, << <<h>>, Varnum(n)>> \o f)
  BY <1>1 DEF EncodePacket
<1>4. CASE ~VarnumFits(n)
  <2>1. EncodePacket(r, size) = [start EXCEPT !.err = "REMAINING_LENGTH_OVERFLOW"]
    BY <1>3, <1>4
  <2>2. /\ EncodePacket(r, size).size = size /\ EncodePacket(r, size).out = <<>>
        /\ EncodePacket(r, size).err = "REMAINING_LENGTH_OVERFLOW"
    BY <2>1
  <2>3. <<>> \in Seq(Byte) /\ Len(<<>>) <= size
    OBVIOUS
  <2>4. "REMAINING_LENGTH_OVERFLOW" # Success
    BY DEF Success
  <2> QED BY <1>1, <1>4, <2>2, <2>3, <2>4
<1>5. CASE VarnumFits(n)
  <2>1. n < 128 * 128 * 128 * 128
    BY <1>5 DEF VarnumFits
  <2>2. PICK v \in Seq(Byte), d \in 1..4 : v = Varnum(n) /\ d = DigitsOf(n) /\ Len(v) = d
    BY <2>1, VarnumSize
  <2>3. PICK x \in Seq(Byte) : x = <<h>> /\ Len(x) = 1
    <3>1. <<h>> \in Seq(Byte) /\ Len(<<h>>) = 1
      OBVIOUS
    <3> QED BY <3>1
  <2>4. PICK a \in Fields : a = <<x, v>> /\ FlattenSeq(a) = x \o v
    BY FlattenShort
  <2>5. a \o f \in Fields /\ FlattenSeq(a \o f) = (x \o v) \o FlattenSeq(f)
    BY <2>4, FlattenConcat, LensAre, ZenonT(60)
  <2>6. FlattenSeq(f) \in Seq(Byte)
    BY FlattenConcat
  <2>7. x \o v \in Seq(Byte) /\ Len(x \o v) = Len(x) + Len(v)
    BY BytesConcat
  <2>8. Len((x \o v) \o FlattenSeq(f)) = Len(x \o v) + Len(FlattenSeq(f))
    BY <2>6, <2>7, BytesConcat
  <2>9. Len(FlattenSeq(a \o f)) = 1 + d + n
    <3>1. Len(x) = 1 /\ Len(v) = d
      BY <2>2, <2>3
    <3> QED BY <1>2, <2>5, <2>7, <2>8, <3>1
  <2>10. Total(Lens(a \o f)) = 1 + d + n
    BY <2>5, <2>9, FlattenLen
  <2>11. EncodePacket(r, size) = Write(start, a \o f)
    BY <1>3, <1>5, <2>2, <2>3, <2>4
  <2>12. PICK w : w = Write(start, a \o f)
    OBVIOUS
  <2>13. /\ w.size = size /\ w.out \in Seq(Byte) /\ Len(w.out) <= size
         /\ w.err = IF 1 + d + n <= size THEN Success ELSE "BUFFER_TOO_SHORT"
         /\ w.err = Success => w.out = (x \o v) \o FlattenSeq(f)
    BY <2>5, <2>10, <2>12, WriteIs, SMTT(60)
  <2> QED BY <1>1, <1>5, <2>2, <2>3, <2>11, <2>12, <2>13
<1> QED BY <1>4, <1>5

\* What is sent is the header, the length of the rest and the rest.
LEMMA EncodedIs ==
  ASSUME NEW r \in Request, NEW size \in Nat, EncodePacket(r, size).err = Success
  PROVE  LET out == EncodePacket(r, size).out
             n == Frame(r).length
             m == 1 + DigitsOf(n)
             rest == FlattenSeq(Frame(r).fields)
         IN /\ out \in Seq(Byte) /\ n \in Nat /\ m \in 2..5 /\ rest \in Seq(Byte) /\ Len(rest) = n
            /\ Len(out) = m + n /\ Len(out) <= size
            /\ out[1] = Frame(r).header
            /\ ReadVarnum(out, 1, Len(out)) = [err |-> Success, next |-> m, num |-> n]
            /\ \A i \in 1..n : out[m + i] = rest[i]
            /\ SubSeq(out, m + 1, Len(out)) = rest
<1>1. PICK h \in Byte, n \in Nat, f \in Fields :
         h = Frame(r).header /\ n = Frame(r).length /\ f = Frame(r).fields
  BY FrameIs DEF Exact
<1>2. PICK rest \in Seq(Byte) : rest = FlattenSeq(f) /\ Len(rest) = n
  <2>1. Len(FlattenSeq(f)) = n
    BY <1>1, FrameIs DEF Exact
  <2> QED BY <2>1, FlattenConcat
<1>3. PICK out \in Seq(Byte) : out = EncodePacket(r, size).out /\ Len(out) <= size
  BY EncodePacketIs
<1>4. VarnumFits(n) /\ out = (<<h>> \o Varnum(n)) \o rest
  BY <1>1, <1>2, <1>3, EncodePacketIs
<1>5. n < 128 * 128 * 128 * 128
  BY <1>4 DEF VarnumFits
<1>6. PICK v \in Seq(Byte), d \in 1..4 : v = Varnum(n) /\ d = DigitsOf(n) /\ Len(v) = d
  BY <1>5, VarnumSize
<1>7. PICK x \in Seq(Byte) : x = <<h>> /\ Len(x) = 1 /\ x[1] = h
  <2>1. <<h>> \in Seq(Byte) /\ Len(<<h>>) = 1 /\ <<h>>[1] = h
    OBVIOUS
  <2> QED BY <2>1
<1>8. PICK y \in Seq(Byte) : y = x \o v
  BY BytesConcat
<1>9. Len(y) = 1 + d /\ y[1] = h /\ \A i \in 1..d : y[1 + i] = v[i]
  <2>1. /\ Len(y) = Len(x) + Len(v)
        /\ \A i \in 1..Len(x) : y[i] = x[i]
        /\ \A i \in 1..Len(v) : y[Len(x) + i] = v[i]
    BY <1>8, BytesConcat
  <2>2. Len(x) = 1 /\ x[1] = h /\ Len(v) = d
    BY <1>6, <1>7
  <2> QED BY <2>1, <2>2
<1>10. out = y \o rest
  BY <1>4, <1>6, <1>7, <1>8
<1>11. /\ Len(out) = 1 + d + n
       /\ \A i \in 1..(1 + d) : out[i] = y[i]
       /\ \A i \in 1..n : out[1 + d + i] = rest[i]
  <2>1. /\ Len(out) = Len(y) + Len(rest)
        /\ \A i \in 1..Len(y) : out[i] = y[i]
        /\ \A i \in 1..Len(rest) : out[Len(y) + i] = rest[i]
    BY <1>10, BytesConcat
  <2>2. Len(y) = 1 + d /\ Len(rest) = n
    BY <1>2, <1>9
  <2> QED BY <2>1, <2>2
<1>12. out[1] = h /\ \A i \in 1..d : out[1 + i] = v[i]
  <2>1. 1 \in 1..(1 + d) /\ \A i \in 1..d : 1 + i \in 1..(1 + d)
    OBVIOUS
  <2> QED BY <1>9, <1>11, <2>1
<1>13. ReadVarnum(out, 1, Len(out)) = [err |-> Success, next |-> 1 + d, num |-> n]
  <2>1. PICK end \in Nat : end = Len(out) /\ end <= Len(out) /\ 1 + d <= end
    BY <1>11
  <2>2. 1 \in Nat /\ 1 + DigitsOf(n) <= end /\ WrittenAt(out, 1, n)
    BY <1>6, <1>12, <2>1 DEF WrittenAt
  <2>3. ReadVarnum(out, 1, end) = [err |-> Success, next |-> 1 + DigitsOf(n), num |-> n]
    <3>1. end <= Len(out) /\ 1 + DigitsOf(n) <= end
      BY <2>1, <2>2
    <3>2. 1 \in Nat /\ WrittenAt(out, 1, n)
      BY <2>2
    <3> QED BY <1>5, <3>1, <3>2, VarnumInverse
  <2> QED BY <1>6, <2>1, <2>3
<1>14. SubSeq(out, 1 + d + 1, Len(out)) = rest
  <2>1. SubSeq(y \o rest, Len(y) + 1, Len(y \o rest)) = rest
    BY LastPart
  <2> QED BY <1>9, <1>10, <2>1
<1>15. 1 + d \in 2..5
  OBVIOUS
<1> QED BY <1>1, <1>2, <1>3, <1>6, <1>11, <1>12, <1>13, <1>14, <1>15

-----------------------------------------------------------------------------
(***************************************************************************)
(* Invariants of what is sent.                                             *)
(***************************************************************************)
\* What was sent is what encoding the request into some write buffer gave.
SentInv == \/ request = NoRequest /\ sent = NothingSent
           \/ request \in Requests /\ \E size \in WriteSizes : sent = EncodePacket(request, size)

\* The outcome belongs to the request.
LEMMA SentAlways == Spec => []SentInv
<1>1. Init => SentInv
  BY DEF Init, SentInv
<1>2. SentInv /\ [Next]_vars => SentInv'
  <2> SUFFICES ASSUME SentInv, [Next]_vars
               PROVE  SentInv'
    OBVIOUS
  <2>1. CASE Encode
    BY <2>1 DEF Encode, SentInv
  <2>2. CASE Receive \/ ReceiveCut \/ Decode \/ UNCHANGED vars
    <3>1. request' = request /\ sent' = sent
      BY <2>2 DEF Receive, ReceiveCut, Decode, vars
    <3> QED BY <3>1 DEF SentInv
  <2>3. CASE Restart
    BY <2>3 DEF Restart, SentInv
  <2> QED BY <2>1, <2>2, <2>3 DEF Next
<1> QED BY <1>1, <1>2, PTL DEF Spec

\* The remaining length of every packet that is sent is the number of bytes that
\* follow it, whatever is encoded.
THEOREM FrameExactAlways == Spec => []FrameExact
<1>1. SentInv => FrameExact
  <2> SUFFICES ASSUME SentInv, Encoded
               PROVE  LET v == ReadVarnum(sent.out, 1, Len(sent.out))
                      IN v.err = Success /\ v.num = Len(sent.out) - v.next
    BY DEF FrameExact
  <2>1. PICK r \in Request, size \in Nat : request = r /\ sent = EncodePacket(r, size)
    <3>1. "UNSENT" # Success
      BY DEF Success
    <3> QED BY <3>1, PacketAssumption DEF SentInv, Encoded, NothingSent
  <2>2. PICK n \in Nat, m \in Nat :
           /\ Len(sent.out) = m + n
           /\ ReadVarnum(sent.out, 1, Len(sent.out)) = [err |-> Success, next |-> m, num |-> n]
    <3>1. EncodePacket(r, size).err = Success
      BY <2>1 DEF Encoded
    <3>2. LET out == EncodePacket(r, size).out
              k == Frame(r).length
              j == 1 + DigitsOf(k)
          IN /\ k \in Nat /\ j \in 2..5 /\ Len(out) = j + k
             /\ ReadVarnum(out, 1, Len(out)) = [err |-> Success, next |-> j, num |-> k]
      BY <3>1, EncodedIs
    <3> QED BY <2>1, <3>2
  <2> QED BY <2>2
<1> QED BY <1>1, SentAlways, PTL

\* A packet is refused exactly if its length cannot be written or if it does not
\* fit the write buffer.
THEOREM EncodeFitsAlways == Spec => []EncodeFits
<1>1. SentInv => EncodeFits
  <2> SUFFICES ASSUME SentInv, request # NoRequest
               PROVE  LET n == Frame(request).length
                      IN sent.err = IF ~VarnumFits(n) THEN "REMAINING_LENGTH_OVERFLOW"
                                    ELSE IF 1 + DigitsOf(n) + n <= sent.size
                                         THEN Success ELSE "BUFFER_TOO_SHORT"
    BY DEF EncodeFits
  <2>1. PICK r \in Request, size \in Nat : request = r /\ sent = EncodePacket(r, size)
    BY PacketAssumption DEF SentInv
  <2> QED BY <2>1, EncodePacketIs, ZenonT(60)
<1> QED BY <1>1, SentAlways, PTL

-----------------------------------------------------------------------------
(***************************************************************************)
(* Reading back what was written.                                          *)
(***************************************************************************)
\* A number of two bytes is read back.
LEMMA NumRead ==
  ASSUME NEW buf \in Seq(Byte), NEW pos \in Nat, NEW end \in Nat, pos + 2 <= end,
         NEW w \in Word, buf[pos + 1] = Num(w)[1], buf[pos + 2] = Num(w)[2]
  PROVE  ReadNum(buf, pos, end) = [err |-> Success, next |-> pos + 2, num |-> w]
<1>1. ~(end - pos < 2)
  OBVIOUS
<1>2. 256 * buf[pos + 1] + buf[pos + 2] = w
  BY NumIs
<1> QED BY <1>1, <1>2 DEF ReadNum

\* A string is read back.
LEMMA StringRead ==
  ASSUME NEW buf \in Seq(Byte), NEW pos \in Nat, NEW end \in Nat, end <= Len(buf),
         NEW t \in Text, pos + (Len(t) + 2) <= end,
         \A i \in 1..(Len(t) + 2) : buf[pos + i] = String(t)[i]
  PROVE  ReadString(buf, pos, end) = [err |-> Success, next |-> pos + 2 + Len(t), data |-> t]
<1>1. PICK n \in Nat : n = Len(t) /\ n \in Word /\ t \in Seq(Byte)
  <2>1. Len(t) \in Word /\ t \in Seq(Byte)
    BY DEF Text
  <2>2. Len(t) \in Nat
    BY <2>1
  <2> QED BY <2>1, <2>2
<1>2. Num(n) \in Seq(Byte) /\ Len(Num(n)) = 2
  BY <1>1, NumIs
<1>3. /\ \A i \in 1..2 : String(t)[i] = Num(n)[i]
      /\ \A i \in 1..n : String(t)[2 + i] = t[i]
  <2>1. PICK a \in Seq(Byte) : a = Num(n) /\ Len(a) = 2
    BY <1>2
  <2>2. /\ \A i \in 1..Len(a) : (a \o t)[i] = a[i]
        /\ \A i \in 1..Len(t) : (a \o t)[Len(a) + i] = t[i]
    BY <1>1, BytesConcat
  <2>3. String(t) = a \o t
    BY <1>1, <2>1 DEF String
  <2>4. Len(a) = 2
    BY <2>1
  <2>5. /\ \A i \in 1..2 : (a \o t)[i] = a[i]
        /\ \A i \in 1..n : (a \o t)[2 + i] = t[i]
    BY <1>1, <2>2, <2>4
  <2> QED BY <2>1, <2>3, <2>5
<1>4. ReadNum(buf, pos, end) = [err |-> Success, next |-> pos + 2, num |-> n]
  <2>1. 1 \in 1..(n + 2) /\ 2 \in 1..(n + 2)
    OBVIOUS
  <2>2. buf[pos + 1] = String(t)[1] /\ buf[pos + 2] = String(t)[2]
    BY <1>1, <2>1
  <2>3. buf[pos + 1] = Num(n)[1] /\ buf[pos + 2] = Num(n)[2]
    BY <1>3, <2>2
  <2>4. pos + 2 <= end
    BY <1>1
  <2> QED BY <1>1, <2>3, <2>4, NumRead
<1>5. SubSeq(buf, pos + 2 + 1, pos + 2 + n) = t
  <2>1. PICK m \in Nat : m = pos + 2 + 1
    OBVIOUS
  <2>2. ASSUME NEW i \in 1..n
        PROVE  buf[m + i - 1] = t[i]
    <3>1. 2 + i \in 1..(n + 2) /\ pos + (2 + i) = m + i - 1
      BY <2>1
    <3>2. buf[pos + (2 + i)] = String(t)[2 + i]
      BY <1>1, <3>1
    <3> QED BY <1>3, <3>1, <3>2
  <2>3. m \in Nat \ {0} /\ m + Len(t) <= Len(buf) + 1 /\ m + Len(t) - 1 = pos + 2 + n
    BY <1>1, <2>1
  <2>4. \A i \in 1..Len(t) : buf[m + i - 1] = t[i]
    BY <1>1, <2>2
  <2>5. SubSeq(buf, m, m + Len(t) - 1) = t
    BY <1>1, <2>3, <2>4, PartEquals
  <2> QED BY <2>1, <2>3, <2>5
<1>6. end - (pos + 2) >= n
  BY <1>1
<1>7. ~(end - (pos + 2) < n)
  BY <1>6
<1>8. PICK len : /\ len = ReadNum(buf, pos, end)
                 /\ len.err = Success /\ len.next = pos + 2 /\ len.num = n
  BY <1>4
<1>9. ReadString(buf, pos, end)
        = IF len.err # Success THEN len
          ELSE IF end - len.next < len.num THEN Failed("BUFFER_TOO_SHORT")
          ELSE [err |-> Success, next |-> len.next + len.num,
                data |-> SubSeq(buf, len.next + 1, len.next + len.num)]
  BY <1>8 DEF ReadString
<1>10. ReadString(buf, pos, end)
        = [err |-> Success, next |-> pos + 2 + n, data |-> SubSeq(buf, pos + 2 + 1, pos + 2 + n)]
  BY <1>7, <1>8, <1>9
<1> QED BY <1>1, <1>5, <1>10

\* A header: the type, dup, the QoS and retained.
Header(t, d, q, e) == 16 * t + 8 * d + 2 * q + e

\* The bits of a header.
LEMMA HeaderRead ==
  ASSUME NEW t \in 0..15, NEW d \in 0..1, NEW q \in 0..3, NEW e \in 0..1
  PROVE  LET h == Header(t, d, q, e)
         IN /\ ReadBits(h, 4, 4) = t /\ ReadBits(h, 3, 1) = d
            /\ ReadBits(h, 1, 2) = q /\ ReadBits(h, 0, 1) = e
<1>1. PICK h \in Nat : h = 16 * t + 8 * d + 2 * q + e
  OBVIOUS
<1>2. ReadBits(h, 4, 4) = t
  BY <1>1 DEF ReadBits
<1>3. ReadBits(h, 3, 1) = d
  BY <1>1 DEF ReadBits
<1>4. ReadBits(h, 1, 2) = q
  BY <1>1 DEF ReadBits
<1>5. ReadBits(h, 0, 1) = e
  BY <1>1 DEF ReadBits
<1> QED BY <1>1, <1>2, <1>3, <1>4, <1>5 DEF Header

\* A bit says what it was written for.
LEMMA BitIs ==
  ASSUME NEW x \in BOOLEAN
  PROVE  Bit(x) \in 0..1 /\ (Bit(x) = 1) = x
BY DEF Bit

\* The header of an acknowledgement is read back.
LEMMA AckHeaderRead ==
  ASSUME NEW r \in AckRequest
  PROVE  /\ ReadBits(Frame(r).header, 4, 4) = PacketType[r.type]
         /\ (ReadBits(Frame(r).header, 3, 1) = 1) = r.dup
<1>1. r.type \in {"puback", "pubrec", "pubrel", "pubcomp"} /\ r.dup \in BOOLEAN
  BY DEF AckRequest
<1>2. PICK d \in 0..1 : d = Bit(r.dup) /\ (d = 1) = r.dup
  BY <1>1, BitIs
<1>3. PICK q \in 0..3 : q = Bit(r.type = "pubrel")
  BY DEF Bit
<1>4. PICK t \in 0..15 : t = PacketType[r.type]
  BY <1>1 DEF PacketType
<1>5. Frame(r).header = 16 * t + 8 * d + 2 * q
  BY <1>2, <1>3, <1>4, AckHeader
<1>6. PICK e \in 0..1 : e = 0
  OBVIOUS
<1>7. Frame(r).header = Header(t, d, q, e)
  BY <1>5, <1>6 DEF Header
<1>8. ReadBits(Header(t, d, q, e), 4, 4) = t /\ ReadBits(Header(t, d, q, e), 3, 1) = d
  BY HeaderRead
<1> QED BY <1>2, <1>4, <1>7, <1>8

\* The header of a PUBLISH is read back.
LEMMA PublishHeaderRead ==
  ASSUME NEW r \in PublishRequest
  PROVE  /\ ReadBits(Frame(r).header, 4, 4) = PacketType["publish"]
         /\ (ReadBits(Frame(r).header, 3, 1) = 1) = r.dup
         /\ (ReadBits(Frame(r).header, 0, 1) = 1) = r.retained
         /\ QosOf(Frame(r).header) = r.qos
<1>1. r.dup \in BOOLEAN /\ r.retained \in BOOLEAN /\ r.qos \in 0..2
  BY DEF PublishRequest
<1>2. PICK d \in 0..1 : d = Bit(r.dup) /\ (d = 1) = r.dup
  BY <1>1, BitIs
<1>3. PICK q \in 0..3 : q = r.qos /\ q # 3
  BY <1>1
<1>4. PICK e \in 0..1 : e = Bit(r.retained) /\ (e = 1) = r.retained
  BY <1>1, BitIs
<1>5. PICK t \in 0..15 : t = 3 /\ t = PacketType["publish"]
  BY DEF PacketType
<1>6. Frame(r).header = 48 + 8 * d + 2 * q + e
  BY <1>2, <1>3, <1>4, PublishHeader
<1>7. Frame(r).header = Header(t, d, q, e)
  BY <1>5, <1>6 DEF Header
<1>8. /\ ReadBits(Header(t, d, q, e), 4, 4) = t /\ ReadBits(Header(t, d, q, e), 3, 1) = d
      /\ ReadBits(Header(t, d, q, e), 1, 2) = q /\ ReadBits(Header(t, d, q, e), 0, 1) = e
  BY HeaderRead
<1>9. QosOf(Frame(r).header) = q
  BY <1>3, <1>7, <1>8 DEF QosOf
<1> QED BY <1>2, <1>3, <1>4, <1>5, <1>7, <1>8, <1>9

\* An acknowledgement that is written is read back.
LEMMA AckRead ==
  ASSUME NEW r \in AckRequest, NEW size \in Nat, EncodePacket(r, size).err = Success
  PROVE  DecodeAck(EncodePacket(r, size).out, r.type)
           = [err |-> Success, dup |-> r.dup, id |-> r.id]
<1>1. r.type \in {"puback", "pubrec", "pubrel", "pubcomp"} /\ r.dup \in BOOLEAN /\ r.id \in Word
  BY DEF AckRequest
<1>2. r \in Request
  BY DEF Request
<1>3. Frame(r).length = 2 /\ FlattenSeq(Frame(r).fields) = Num(r.id)
  BY AckBytes
<1>4. PICK out \in Seq(Byte), m \in 2..5 :
         /\ out = EncodePacket(r, size).out
         /\ Len(out) = m + 2
         /\ out[1] = Frame(r).header
         /\ ReadVarnum(out, 1, Len(out)) = [err |-> Success, next |-> m, num |-> 2]
         /\ \A i \in 1..2 : out[m + i] = Num(r.id)[i]
  <2>1. LET out == EncodePacket(r, size).out
            n == Frame(r).length
            m == 1 + DigitsOf(n)
            rest == FlattenSeq(Frame(r).fields)
        IN /\ out \in Seq(Byte) /\ m \in 2..5
           /\ Len(out) = m + n
           /\ out[1] = Frame(r).header
           /\ ReadVarnum(out, 1, Len(out)) = [err |-> Success, next |-> m, num |-> n]
           /\ \A i \in 1..n : out[m + i] = rest[i]
    BY <1>2, EncodedIs
  <2> QED BY <1>3, <2>1, ZenonT(60)
<1>5. ReadBits(out[1], 4, 4) = PacketType[r.type] /\ (ReadBits(out[1], 3, 1) = 1) = r.dup
  BY <1>4, AckHeaderRead
<1>6. Opening(out, r.type) = [err |-> Success, next |-> m, num |-> 2]
  BY <1>4, <1>5 DEF Opening
<1>7. ReadNum(out, m, Len(out)) = [err |-> Success, next |-> m + 2, num |-> r.id]
  <2>1. out[m + 1] = Num(r.id)[1] /\ out[m + 2] = Num(r.id)[2]
    BY <1>4
  <2>2. PICK end \in Nat : end = Len(out) /\ m + 2 <= end
    BY <1>4
  <2>3. m \in Nat
    OBVIOUS
  <2>4. ReadNum(out, m, end) = [err |-> Success, next |-> m + 2, num |-> r.id]
    BY <1>1, <2>1, <2>2, <2>3, NumRead
  <2> QED BY <2>2, <2>4
<1>8. DecodeAck(out, r.type)
        = [err |-> Success, dup |-> ReadBits(out[1], 3, 1) = 1, id |-> r.id]
  BY <1>6, <1>7 DEF DecodeAck
<1> QED BY <1>4, <1>5, <1>8

\* A PUBLISH that is written is read back.
LEMMA PublishRead ==
  ASSUME NEW r \in PublishRequest, NEW size \in Nat, EncodePacket(r, size).err = Success
  PROVE  DecodePublish(EncodePacket(r, size).out)
           = [err |-> Success, dup |-> r.dup, qos |-> r.qos, retained |-> r.retained,
              id |-> IF r.qos > 0 THEN r.id ELSE 0, topic |-> r.topic, payload |-> r.payload]
<1>1. /\ r.dup \in BOOLEAN /\ r.qos \in 0..2 /\ r.retained \in BOOLEAN
      /\ r.id \in Word /\ r.topic \in Text /\ r.payload \in Seq(Byte)
  BY DEF PublishRequest
<1>2. r \in Request
  BY DEF Request
<1>3. PICK a \in Seq(Byte), k \in Nat :
         a = String(r.topic) /\ k = Len(r.topic) /\ Len(a) = k + 2
  <2>1. PICK t \in Text : t = r.topic
    BY <1>1
  <2>2. Len(t) \in Nat
    BY DEF Text
  <2>3. String(t) \in Seq(Byte) /\ Len(String(t)) = Len(t) + 2
    BY StringIs
  <2> QED BY <2>1, <2>2, <2>3
<1>4. PICK b \in Seq(Byte), j \in {0, 2} :
         /\ b = IF r.qos > 0 THEN Num(r.id) ELSE <<>>
         /\ Len(b) = j /\ (r.qos > 0 => j = 2) /\ (~(r.qos > 0) => j = 0)
  <2>1. CASE r.qos > 0
    <3>1. Num(r.id) \in Seq(Byte) /\ Len(Num(r.id)) = 2
      BY <1>1, NumIs
    <3> QED BY <2>1, <3>1
  <2>2. CASE ~(r.qos > 0)
    <3>1. <<>> \in Seq(Byte) /\ Len(<<>>) = 0
      OBVIOUS
    <3> QED BY <2>2, <3>1
  <2> QED BY <2>1, <2>2
<1>5. PICK c \in Seq(Byte), l \in Nat : c = r.payload /\ l = Len(c)
  BY <1>1
<1>6. PICK rest \in Seq(Byte) :
         /\ rest = FlattenSeq(Frame(r).fields)
         /\ Len(rest) = k + 2 + j + l
         /\ \A i \in 1..(k + 2) : rest[i] = a[i]
         /\ \A i \in 1..j : rest[k + 2 + i] = b[i]
         /\ \A i \in 1..l : rest[k + 2 + j + i] = c[i]
  <2>1. FlattenSeq(Frame(r).fields) = (a \o b) \o c
    BY <1>3, <1>4, <1>5, PublishBytes
  <2>2. PICK s \in Seq(Byte) : s = a \o b
    BY BytesConcat
  <2>3. PICK u \in Seq(Byte) : u = s \o c
    BY BytesConcat
  <2>4. Len(a) = k + 2 /\ Len(b) = j /\ Len(c) = l
    BY <1>3, <1>4, <1>5
  <2>5. /\ Len(s) = k + 2 + j
        /\ \A i \in 1..(k + 2) : s[i] = a[i]
        /\ \A i \in 1..j : s[k + 2 + i] = b[i]
    <3>1. /\ Len(s) = Len(a) + Len(b)
          /\ \A i \in 1..Len(a) : s[i] = a[i]
          /\ \A i \in 1..Len(b) : s[Len(a) + i] = b[i]
      BY <2>2, BytesConcat
    <3> QED BY <2>4, <3>1
  <2>6. /\ Len(u) = k + 2 + j + l
        /\ \A i \in 1..(k + 2 + j) : u[i] = s[i]
        /\ \A i \in 1..l : u[k + 2 + j + i] = c[i]
    <3>1. /\ Len(u) = Len(s) + Len(c)
          /\ \A i \in 1..Len(s) : u[i] = s[i]
          /\ \A i \in 1..Len(c) : u[Len(s) + i] = c[i]
      BY <2>3, BytesConcat
    <3>2. Len(s) = k + 2 + j /\ Len(c) = l
      BY <2>4, <2>5
    <3> QED BY <3>1, <3>2
  <2>7. \A i \in 1..(k + 2) : u[i] = a[i]
    BY <2>5, <2>6
  <2>8. \A i \in 1..j : u[k + 2 + i] = b[i]
    <3>1. \A i \in 1..j : k + 2 + i \in 1..(k + 2 + j)
      OBVIOUS
    <3> QED BY <2>5, <2>6, <3>1
  <2> QED BY <2>1, <2>2, <2>3, <2>6, <2>7, <2>8
<1>7. PICK out \in Seq(Byte), m \in 2..5, n \in Nat :
         /\ out = EncodePacket(r, size).out
         /\ Len(rest) = n /\ Len(out) = m + n
         /\ out[1] = Frame(r).header
         /\ ReadVarnum(out, 1, Len(out)) = [err |-> Success, next |-> m, num |-> n]
         /\ \A i \in 1..n : out[m + i] = rest[i]
  <2>1. LET o == EncodePacket(r, size).out
            n == Frame(r).length
            m == 1 + DigitsOf(n)
            f == FlattenSeq(Frame(r).fields)
        IN /\ o \in Seq(Byte) /\ n \in Nat /\ m \in 2..5 /\ Len(f) = n
           /\ Len(o) = m + n
           /\ o[1] = Frame(r).header
           /\ ReadVarnum(o, 1, Len(o)) = [err |-> Success, next |-> m, num |-> n]
           /\ \A i \in 1..n : o[m + i] = f[i]
    BY <1>2, EncodedIs
  <2>2. rest = FlattenSeq(Frame(r).fields)
    BY <1>6
  <2> QED BY <2>1, <2>2
<1>size. n = k + 2 + j + l /\ Len(out) = m + n /\ j \in Nat /\ Len(a) = k + 2 /\ Len(c) = l
  <2>1. Len(rest) = k + 2 + j + l
    BY <1>6
  <2>2. Len(rest) = n /\ Len(out) = m + n
    BY <1>7
  <2>3. j \in Nat /\ Len(a) = k + 2 /\ Len(c) = l
    BY <1>3, <1>4, <1>5
  <2> QED BY <2>1, <2>2, <2>3
<1>bytes. /\ \A i \in 1..(k + 2) : out[m + i] = a[i]
          /\ \A i \in 1..j : out[m + (k + 2 + i)] = b[i]
          /\ \A i \in 1..l : out[m + (k + 2 + j + i)] = c[i]
  <2>1. /\ \A i \in 1..(k + 2) : i \in 1..n
        /\ \A i \in 1..j : k + 2 + i \in 1..n
        /\ \A i \in 1..l : k + 2 + j + i \in 1..n
    BY <1>size
  <2>2. \A i \in 1..n : out[m + i] = rest[i]
    BY <1>7
  <2>3. /\ \A i \in 1..(k + 2) : rest[i] = a[i]
        /\ \A i \in 1..j : rest[k + 2 + i] = b[i]
        /\ \A i \in 1..l : rest[k + 2 + j + i] = c[i]
    BY <1>6
  <2> QED BY <2>1, <2>2, <2>3
<1>8. /\ ReadBits(out[1], 4, 4) = PacketType["publish"]
      /\ (ReadBits(out[1], 3, 1) = 1) = r.dup
      /\ (ReadBits(out[1], 0, 1) = 1) = r.retained
      /\ QosOf(out[1]) = r.qos
  BY <1>7, PublishHeaderRead
<1>9. PICK v : v = Opening(out, "publish") /\ v.err = Success /\ v.next = m /\ v.num = n
  BY <1>7, <1>8 DEF Opening
<1>10. PublishEnd(out, v) = m + n
  BY <1>9 DEF PublishEnd
<1>11. PICK topic : /\ topic = ReadString(out, m, m + n)
                    /\ topic.err = Success /\ topic.next = m + 2 + k /\ topic.data = r.topic
  <2>1. PICK t \in Text : t = r.topic
    BY <1>1
  <2>2. Len(t) = k /\ String(t) = a
    BY <1>3, <2>1
  <2>3. PICK end \in Nat : end = m + n
    OBVIOUS
  <2>4. m \in Nat /\ end <= Len(out) /\ m + (Len(t) + 2) <= end
    BY <1>size, <2>2, <2>3
  <2>5. \A i \in 1..(Len(t) + 2) : out[m + i] = String(t)[i]
    BY <1>bytes, <2>2
  <2>6. ReadString(out, m, end) = [err |-> Success, next |-> m + 2 + Len(t), data |-> t]
    BY <2>4, <2>5, StringRead
  <2> QED BY <2>1, <2>2, <2>3, <2>6
<1>12. PICK id : /\ id = IF HasId(QosOf(out[1])) THEN ReadNum(out, topic.next, m + n)
                         ELSE [err |-> Success, next |-> topic.next, num |-> 0]
                 /\ id.err = Success /\ id.next = m + 2 + k + j
                 /\ id.num = IF r.qos > 0 THEN r.id ELSE 0
  <2>1. CASE r.qos > 0
    <3>1. HasId(QosOf(out[1]))
      BY <1>8, <2>1 DEF HasId
    <3>2. j = 2
      BY <1>4, <2>1
    <3>3. PICK p \in Nat : p = m + 2 + k
      OBVIOUS
    <3>4. out[p + 1] = b[1] /\ out[p + 2] = b[2]
      <4>1. 1 \in 1..j /\ 2 \in 1..j /\ m + (k + 2 + 1) = p + 1 /\ m + (k + 2 + 2) = p + 2
        BY <3>2, <3>3
      <4> QED BY <1>bytes, <4>1
    <3>5. out[p + 1] = Num(r.id)[1] /\ out[p + 2] = Num(r.id)[2]
      BY <1>4, <2>1, <3>4
    <3>6. PICK end \in Nat : end = m + n /\ p + 2 <= end
      BY <1>size, <3>2, <3>3
    <3>7. PICK w \in Word : w = r.id
      BY <1>1
    <3>8. ReadNum(out, p, end) = [err |-> Success, next |-> p + 2, num |-> w]
      BY <3>5, <3>6, <3>7, NumRead
    <3>9. ReadNum(out, topic.next, m + n) = [err |-> Success, next |-> p + 2, num |-> r.id]
      BY <1>11, <3>3, <3>6, <3>7, <3>8
    <3>10. p + 2 = m + 2 + k + j
      BY <3>2, <3>3
    <3> QED BY <2>1, <3>1, <3>9, <3>10
  <2>2. CASE ~(r.qos > 0)
    <3>1. ~HasId(QosOf(out[1]))
      BY <1>8, <2>2 DEF HasId
    <3>2. j = 0
      BY <1>4, <2>2
    <3>3. m + 2 + k = m + 2 + k + j
      BY <3>2
    <3>4. topic.next = m + 2 + k + j
      BY <1>11, <3>3
    <3>5. PICK x : x = [err |-> Success, next |-> topic.next, num |-> 0]
      OBVIOUS
    <3>6. x.err = Success /\ x.next = topic.next /\ x.num = 0
      BY <3>5
    <3> QED BY <2>2, <3>1, <3>4, <3>5, <3>6
  <2> QED BY <2>1, <2>2
<1>13. SubSeq(out, id.next + 1, m + n) = c
  <2>1. PICK p \in Nat \ {0} : p = m + 2 + k + j + 1
    BY <1>size
  <2>2. p + l - 1 = m + n /\ p + l <= Len(out) + 1
    BY <1>size, <2>1
  <2>3. ASSUME NEW i \in 1..l
        PROVE  out[p + i - 1] = c[i]
    <3>1. m + (k + 2 + j + i) = p + i - 1
      BY <1>size, <2>1
    <3>2. out[m + (k + 2 + j + i)] = c[i]
      BY <1>bytes
    <3> QED BY <3>1, <3>2
  <2>4. \A i \in 1..Len(c) : out[p + i - 1] = c[i]
    BY <1>size, <2>3
  <2>5. p + Len(c) <= Len(out) + 1
    BY <1>size, <2>2
  <2>6. SubSeq(out, p, p + Len(c) - 1) = c
    BY <2>4, <2>5, PartEquals
  <2>7. id.next + 1 = p
    BY <1>12, <2>1
  <2> QED BY <1>size, <2>2, <2>6, <2>7
<1>14. ~(v.num < 2) /\ ~(Len(out) - v.next < v.num)
  <2>1. v.num = n /\ v.next = m
    BY <1>9
  <2>2. ~(n < 2) /\ ~(Len(out) - m < n)
    BY <1>size
  <2> QED BY <2>1, <2>2
<1>15. DecodePublish(out)
         = [err |-> Success, dup |-> ReadBits(out[1], 3, 1) = 1, qos |-> QosOf(out[1]),
            retained |-> ReadBits(out[1], 0, 1) = 1, id |-> id.num,
            topic |-> topic.data, payload |-> SubSeq(out, id.next + 1, m + n)]
  <2>1. DecodePublish(out)
          = IF v.err # Success THEN v
            ELSE IF v.num < 2 THEN Failed("REMAINING_LENGTH_MISMATCH")
            ELSE IF Len(out) - v.next < v.num THEN Failed("BUFFER_TOO_SHORT")
            ELSE IF topic.err # Success THEN topic
            ELSE IF id.err # Success THEN id
            ELSE [err |-> Success, dup |-> ReadBits(out[1], 3, 1) = 1, qos |-> QosOf(out[1]),
                  retained |-> ReadBits(out[1], 0, 1) = 1, id |-> id.num,
                  topic |-> topic.data, payload |-> SubSeq(out, id.next + 1, m + n)]
    BY <1>9, <1>10, <1>11, <1>12, ZenonT(60) DEF DecodePublish
  <2> QED BY <1>9, <1>11, <1>12, <1>14, <2>1
<1>16. DecodePublish(out)
         = [err |-> Success, dup |-> r.dup, qos |-> r.qos, retained |-> r.retained,
            id |-> IF r.qos > 0 THEN r.id ELSE 0, topic |-> r.topic, payload |-> c]
  BY <1>8, <1>11, <1>12, <1>13, <1>15, ZenonT(60)
<1>17. out = EncodePacket(r, size).out /\ c = r.payload
  BY <1>5, <1>7
<1> QED BY <1>16, <1>17

\* A PUBLISH or an acknowledgement that this client sends is decoded by another lwmqtt
\* client to what was asked, for every topic, payload and packet id.
THEOREM OwnReadableAlways == Spec => []OwnReadable
<1>1. SentInv => OwnReadable
  <2> SUFFICES ASSUME SentInv, Encoded
               PROVE  /\ request.type = "publish" =>
                            LET d == DecodePublish(sent.out)
                            IN /\ d.err = Success
                               /\ d.topic = request.topic /\ d.payload = request.payload
                               /\ d.qos = request.qos /\ d.dup = request.dup
                               /\ d.retained = request.retained
                               /\ d.id = IF request.qos = 0 THEN 0 ELSE request.id
                      /\ request.type \in Acks =>
                            DecodeAck(sent.out, request.type)
                              = [err |-> Success, dup |-> request.dup, id |-> request.id]
    BY DEF OwnReadable
  <2>1. PICK r \in Request, size \in Nat : request = r /\ sent = EncodePacket(r, size)
    <3>1. "UNSENT" # Success
      BY DEF Success
    <3> QED BY <3>1, PacketAssumption DEF SentInv, Encoded, NothingSent
  <2>2. EncodePacket(r, size).err = Success
    BY <2>1 DEF Encoded
  <2>3. ASSUME r.type = "publish"
        PROVE  LET d == DecodePublish(EncodePacket(r, size).out)
               IN /\ d.err = Success
                  /\ d.topic = r.topic /\ d.payload = r.payload
                  /\ d.qos = r.qos /\ d.dup = r.dup /\ d.retained = r.retained
                  /\ d.id = IF r.qos = 0 THEN 0 ELSE r.id
    <3>1. r \in PublishRequest
      BY <2>3 DEF Request, ConnectRequest, FilterRequest, AckRequest, ZeroRequest
    <3>2. r.qos \in 0..2
      BY <3>1 DEF PublishRequest
    <3>3. (IF r.qos > 0 THEN r.id ELSE 0) = IF r.qos = 0 THEN 0 ELSE r.id
      BY <3>2
    <3>4. DecodePublish(EncodePacket(r, size).out)
            = [err |-> Success, dup |-> r.dup, qos |-> r.qos, retained |-> r.retained,
               id |-> IF r.qos > 0 THEN r.id ELSE 0, topic |-> r.topic, payload |-> r.payload]
      BY <2>2, <3>1, PublishRead
    <3> QED BY <3>3, <3>4
  <2>4. ASSUME r.type \in Acks
        PROVE  DecodeAck(EncodePacket(r, size).out, r.type)
                 = [err |-> Success, dup |-> r.dup, id |-> r.id]
    <3>1. r \in AckRequest
      BY <2>4 DEF Acks, Request, ConnectRequest, PublishRequest, FilterRequest, ZeroRequest
    <3> QED BY <2>2, <3>1, AckRead
  <2> QED BY <2>1, <2>3, <2>4
<1> QED BY <1>1, SentAlways, PTL

-----------------------------------------------------------------------------
(***************************************************************************)
(* What the flags of a CONNECT announce.                                   *)
(***************************************************************************)
\* The bytes of several strings one after the other.
Joined(strings) == FlattenSeq(Strings(strings))

\* The bytes of at most two strings.
LEMMA JoinedShort ==
  /\ Joined(<<>>) = <<>>
  /\ \A t \in Text : Joined(<<t>>) = String(t)
  /\ \A t, u \in Text : Joined(<<t, u>>) = String(t) \o String(u)
<1>1. Joined(<<>>) = <<>>
  <2>1. Strings(<<>>) = <<>>
    <3>1. \A i \in DOMAIN <<>> : FALSE
      OBVIOUS
    <3>2. Strings(<<>>) = [i \in {} |-> String(<<>>[i])]
      BY <3>1 DEF Strings
    <3>3. <<>> = [i \in {} |-> String(<<>>[i])]
      OBVIOUS
    <3> QED BY <3>2, <3>3
  <2> QED BY <2>1, FlattenShort DEF Joined
<1>2. ASSUME NEW t \in Text
      PROVE  Joined(<<t>>) = String(t)
  <2>1. PICK a \in Seq(Byte) : a = String(t)
    BY StringIs
  <2>2. Strings(<<t>>) = <<a>>
    BY <2>1 DEF Strings
  <2> QED BY <2>1, <2>2, FlattenShort DEF Joined
<1>3. ASSUME NEW t \in Text, NEW u \in Text
      PROVE  Joined(<<t, u>>) = String(t) \o String(u)
  <2>1. PICK a \in Seq(Byte), b \in Seq(Byte) : a = String(t) /\ b = String(u)
    BY StringIs
  <2>2. Strings(<<t, u>>) = <<a, b>>
    BY <2>1 DEF Strings
  <2>3. FlattenSeq(<<a, b>>) = a \o b
    BY FlattenShort
  <2> QED BY <2>1, <2>2, <2>3 DEF Joined
<1> QED BY <1>1, <1>2, <1>3

\* More strings are more bytes.
LEMMA JoinedConcat ==
  ASSUME NEW s \in Seq(Text), NEW t \in Seq(Text)
  PROVE  Joined(s) \in Seq(Byte) /\ Joined(s \o t) = Joined(s) \o Joined(t)
<1>1. Strings(s) \in Fields /\ Strings(t) \in Fields
  BY StringsAre
<1>2. Strings(s \o t) = Strings(s) \o Strings(t)
  <2>1. PICK u \in Seq(Text) : u = s \o t
    BY ConcatProperties
  <2>2. /\ Len(u) = Len(s) + Len(t) /\ Len(s) \in Nat /\ Len(t) \in Nat
        /\ \A i \in 1..(Len(s) + Len(t)) : u[i] = IF i <= Len(s) THEN s[i] ELSE t[i - Len(s)]
    BY <2>1, ConcatProperties
  <2>3. PICK x \in Seq(Seq(Byte)), y \in Seq(Seq(Byte)), z \in Seq(Seq(Byte)) :
           x = Strings(s) /\ y = Strings(t) /\ z = Strings(u)
    BY StringsAre DEF Fields
  <2>4. /\ Len(x) = Len(s) /\ \A i \in 1..Len(s) : x[i] = String(s[i])
        /\ Len(y) = Len(t) /\ \A i \in 1..Len(t) : y[i] = String(t[i])
        /\ Len(z) = Len(u) /\ \A i \in 1..Len(u) : z[i] = String(u[i])
    BY <2>3 DEF Strings
  <2>5. /\ x \o y \in Seq(Seq(Byte)) /\ Len(x \o y) = Len(x) + Len(y)
        /\ \A i \in 1..(Len(x) + Len(y)) : (x \o y)[i] = IF i <= Len(x) THEN x[i] ELSE y[i - Len(x)]
    BY ConcatProperties
  <2>6. ASSUME NEW i \in 1..Len(z)
        PROVE  z[i] = (x \o y)[i]
    <3>1. i \in 1..(Len(s) + Len(t)) /\ Len(x) = Len(s)
      BY <2>2, <2>4
    <3>2. z[i] = String(u[i])
      BY <2>4
    <3>3. CASE i <= Len(s)
      <4>1. u[i] = s[i] /\ (x \o y)[i] = x[i] /\ i \in 1..Len(s)
        BY <2>2, <2>4, <2>5, <3>1, <3>3
      <4> QED BY <2>4, <3>2, <4>1
    <3>4. CASE ~(i <= Len(s))
      <4>1. u[i] = t[i - Len(s)] /\ (x \o y)[i] = y[i - Len(s)] /\ i - Len(s) \in 1..Len(t)
        BY <2>2, <2>4, <2>5, <3>1, <3>4, SMTT(60)
      <4> QED BY <2>4, <3>2, <4>1
    <3> QED BY <3>3, <3>4
  <2>7. Len(z) = Len(x \o y)
    BY <2>2, <2>4, <2>5
  <2>8. z = x \o y
    BY <2>5, <2>6, <2>7, SeqEqual
  <2> QED BY <2>1, <2>3, <2>8
<1> QED BY <1>1, <1>2, FlattenConcat DEF Joined

\* The strings of a CONNECT are those that its flags announce.
LEMMA ConnectAnnounces ==
  ASSUME NEW r \in ConnectRequest
  PROVE  LET Set(pos) == ReadBits(ConnectFlags(r), pos, 1) = 1
         IN /\ Set(2) => r.will # <<>>
            /\ Joined(ConnectStrings(r))
                 = String(r.clientId)
                   \o (IF Set(2) THEN String(r.will[1].topic)
                                      \o String(r.will[1].payload) ELSE <<>>)
                   \o (IF Set(6) THEN String(r.username) ELSE <<>>)
                   \o (IF Set(7) THEN String(r.password) ELSE <<>>)
<1> DEFINE Set(pos) == ReadBits(ConnectFlags(r), pos, 1) = 1
<1>1. /\ r.clientId \in Text /\ r.will \in Seq(Will)
      /\ r.username \in Text /\ r.password \in Text
  BY DEF ConnectRequest
<1>2. /\ Set(2) <=> (r.will # <<>>)
      /\ Set(6) <=> (r.username # <<>>)
      /\ Set(7) <=> (r.username # <<>> /\ r.password # <<>>)
  BY ConnectFlagsAre
<1>3. PICK c \in Seq(Byte) : c = String(r.clientId) /\ Joined(<<r.clientId>>) = c
  BY <1>1, StringIs, JoinedShort
<1>4. PICK w \in Seq(Text), x \in Seq(Byte) :
         /\ w = IF r.will = <<>> THEN <<>> ELSE <<r.will[1].topic, r.will[1].payload>>
         /\ x = IF Set(2) THEN String(r.will[1].topic) \o String(r.will[1].payload) ELSE <<>>
         /\ Joined(w) = x
  <2>1. CASE r.will = <<>>
    <3>1. <<>> \in Seq(Text) /\ <<>> \in Seq(Byte)
      OBVIOUS
    <3> QED BY <1>2, <2>1, <3>1, JoinedShort
  <2>2. CASE r.will # <<>>
    <3>1. r.will[1] \in Will
      BY <1>1, <2>2
    <3>2. PICK t \in Text, u \in Text : t = r.will[1].topic /\ u = r.will[1].payload
      BY <3>1 DEF Will
    <3>3. <<t, u>> \in Seq(Text)
      OBVIOUS
    <3>4. String(t) \o String(u) \in Seq(Byte)
      BY StringIs, BytesConcat
    <3> QED BY <1>2, <2>2, <3>2, <3>3, <3>4, JoinedShort
  <2> QED BY <2>1, <2>2
<1>5. PICK y \in Seq(Byte), z \in Seq(Byte) :
         /\ y = IF Set(6) THEN String(r.username) ELSE <<>>
         /\ z = IF Set(7) THEN String(r.password) ELSE <<>>
  <2>1. <<>> \in Seq(Byte)
    OBVIOUS
  <2> QED BY <1>1, <2>1, StringIs
<1>6. Credentials(r) \in Seq(Text) /\ Joined(Credentials(r)) = y \o z
  <2>1. CASE r.username = <<>>
    <3>1. Credentials(r) = <<>> /\ y = <<>> /\ z = <<>>
      BY <1>2, <1>5, <2>1 DEF Credentials
    <3>2. <<>> \in Seq(Text) /\ <<>> \o <<>> = <<>>
      OBVIOUS
    <3> QED BY <3>1, <3>2, JoinedShort
  <2>2. CASE r.username # <<>> /\ r.password = <<>>
    <3>1. Credentials(r) = <<r.username>> /\ y = String(r.username) /\ z = <<>>
      BY <1>2, <1>5, <2>2 DEF Credentials
    <3>2. <<r.username>> \in Seq(Text) /\ Joined(<<r.username>>) = String(r.username)
      BY <1>1, JoinedShort
    <3>3. y \o <<>> = y
      OBVIOUS
    <3> QED BY <3>1, <3>2, <3>3
  <2>3. CASE r.username # <<>> /\ r.password # <<>>
    <3>1. /\ Credentials(r) = <<r.username, r.password>>
          /\ y = String(r.username) /\ z = String(r.password)
      BY <1>2, <1>5, <2>3 DEF Credentials
    <3>2. <<r.username, r.password>> \in Seq(Text)
      BY <1>1
    <3>3. Joined(<<r.username, r.password>>) = String(r.username) \o String(r.password)
      BY <1>1, JoinedShort
    <3> QED BY <3>1, <3>2, <3>3
  <2> QED BY <2>1, <2>2, <2>3
<1>7. <<r.clientId>> \in Seq(Text) /\ <<r.clientId>> \o w \in Seq(Text)
  BY <1>1
<1>8. Joined(<<r.clientId>> \o w) = c \o x
  BY <1>3, <1>4, <1>7, JoinedConcat, ZenonT(60)
<1>9. Joined(ConnectStrings(r)) = (c \o x) \o (y \o z)
  <2>1. ConnectStrings(r) = (<<r.clientId>> \o w) \o Credentials(r)
    BY <1>4 DEF ConnectStrings
  <2> QED BY <1>6, <1>7, <1>8, <2>1, JoinedConcat
<1>10. (c \o x) \o (y \o z) = ((c \o x) \o y) \o z
  <2>1. PICK v \in Seq(Byte) : v = c \o x
    BY BytesConcat
  <2>2. (v \o y) \o z = v \o (y \o z)
    BY Associative
  <2> QED BY <2>1, <2>2
<1> QED BY <1>2, <1>3, <1>4, <1>5, <1>9, <1>10, ZenonT(60)

\* What follows the client id in a CONNECT is what its flags announce, whatever
\* subset of will, user name and password is configured.
THEOREM FlagsAnnounceAlways == Spec => []FlagsAnnounce
<1>1. SentInv => FlagsAnnounce
  <2> SUFFICES ASSUME SentInv, Encoded, request.type = "connect"
               PROVE  LET start == ReadVarnum(sent.out, 1, Len(sent.out)).next
                          Set(pos) == ReadBits(sent.out[start + 8], pos, 1) = 1
                      IN /\ Set(2) => request.will # <<>>
                         /\ SubSeq(sent.out, start + 11, Len(sent.out))
                              = String(request.clientId)
                                \o (IF Set(2) THEN String(request.will[1].topic)
                                                   \o String(request.will[1].payload) ELSE <<>>)
                                \o (IF Set(6) THEN String(request.username) ELSE <<>>)
                                \o (IF Set(7) THEN String(request.password) ELSE <<>>)
    BY DEF FlagsAnnounce
  <2>1. PICK r \in Request, size \in Nat : request = r /\ sent = EncodePacket(r, size)
    <3>1. "UNSENT" # Success
      BY DEF Success
    <3> QED BY <3>1, PacketAssumption DEF SentInv, Encoded, NothingSent
  <2>2. EncodePacket(r, size).err = Success
    BY <2>1 DEF Encoded
  <2>3. r \in ConnectRequest
    BY <2>1 DEF Request, PublishRequest, FilterRequest, AckRequest, ZeroRequest
  <2> DEFINE o == EncodePacket(r, size).out
             k == Frame(r).length
             j == 1 + DigitsOf(k)
             x == FlattenSeq(Frame(r).fields)
  <2>part. /\ o \in Seq(Byte) /\ k \in Nat /\ j \in 2..5 /\ x \in Seq(Byte) /\ Len(x) = k
           /\ Len(o) = j + k
           /\ ReadVarnum(o, 1, Len(o)) = [err |-> Success, next |-> j, num |-> k]
           /\ \A i \in 1..k : o[j + i] = x[i]
    BY <2>2, EncodedIs
  <2>same. o = sent.out /\ x = FlattenSeq(Frame(r).fields)
    BY <2>1
  <2> HIDE DEF o, k, j, x
  <2>next. ReadVarnum(o, 1, Len(o)).next = j
    BY <2>part
  <2>pick. PICK out \in Seq(Byte), m \in 2..5, n \in Nat, rest \in Seq(Byte) :
              out = o /\ m = j /\ n = k /\ rest = x
    BY <2>part
  <2>4. /\ out = sent.out /\ rest = FlattenSeq(Frame(r).fields)
        /\ Len(rest) = n /\ Len(out) = m + n
        /\ ReadVarnum(out, 1, Len(out)).next = m
        /\ \A i \in 1..n : out[m + i] = rest[i]
    BY <2>part, <2>same, <2>next, <2>pick
  <2>5. PICK e \in Seq(Byte), f \in Seq(Byte) :
           /\ e = ConnectBegin(r) /\ f = Joined(ConnectStrings(r))
           /\ rest = e \o f /\ Len(e) = 10 /\ e[8] = ConnectFlags(r)
    <3>1. Joined(ConnectStrings(r)) \in Seq(Byte)
      BY <2>3, ConnectBytes, FlattenConcat DEF Joined
    <3>2. rest = ConnectBegin(r) \o Joined(ConnectStrings(r))
      BY <2>3, <2>4, ConnectBytes DEF Joined
    <3> QED BY <2>3, <3>1, <3>2, ConnectBytes
  <2>6. /\ n = 10 + Len(f) /\ rest[8] = ConnectFlags(r)
        /\ \A i \in 1..Len(f) : rest[10 + i] = f[i]
    <3>1. /\ Len(e \o f) = Len(e) + Len(f)
          /\ \A i \in 1..Len(e) : (e \o f)[i] = e[i]
          /\ \A i \in 1..Len(f) : (e \o f)[Len(e) + i] = f[i]
      BY BytesConcat
    <3>2. Len(e) = 10 /\ rest = e \o f /\ e[8] = ConnectFlags(r) /\ Len(rest) = n
      BY <2>4, <2>5
    <3> QED BY <3>1, <3>2, SMTT(60)
  <2>7. out[m + 8] = ConnectFlags(r)
    <3>1. 8 \in 1..n
      BY <2>6
    <3>2. out[m + 8] = rest[8]
      BY <2>4, <3>1
    <3> QED BY <2>6, <3>2
  <2>8. SubSeq(out, m + 11, Len(out)) = f
    <3>1. PICK p \in Nat \ {0} : p = m + 11
      OBVIOUS
    <3>2. Len(out) = m + n
      BY <2>4
    <3>3. p + Len(f) <= Len(out) + 1 /\ p + Len(f) - 1 = Len(out)
      BY <2>6, <3>1, <3>2
    <3>4. ASSUME NEW i \in 1..Len(f)
          PROVE  out[p + i - 1] = f[i]
      <4>1. 10 + i \in 1..n /\ m + (10 + i) = p + i - 1
        BY <2>6, <3>1
      <4>2. out[m + (10 + i)] = rest[10 + i]
        BY <2>4, <4>1
      <4>3. rest[10 + i] = f[i]
        BY <2>6
      <4> QED BY <4>1, <4>2, <4>3
    <3>5. SubSeq(out, p, p + Len(f) - 1) = f
      BY <3>3, <3>4, PartEquals
    <3> QED BY <3>1, <3>3, <3>5
  <2>9. /\ sent.out = out
        /\ ReadVarnum(sent.out, 1, Len(sent.out)).next = m
        /\ sent.out[m + 8] = ConnectFlags(r)
        /\ SubSeq(sent.out, m + 11, Len(sent.out)) = Joined(ConnectStrings(r))
    BY <2>4, <2>5, <2>7, <2>8
  <2> QED BY <2>1, <2>3, <2>9, ConnectAnnounces, ZenonT(60)
<1> QED BY <1>1, SentAlways, PTL

-----------------------------------------------------------------------------
(***************************************************************************)
(* The packets that arrive.                                                *)
(***************************************************************************)
\* The sequence a and the sequence b hold the same first n bytes.
Agree(a, b, n) == n \in Nat /\ n <= Len(a) /\ n <= Len(b) /\ \A i \in 1..n : a[i] = b[i]

\* A packet whose remaining length, of m bytes, counts the bytes that follow it.
Whole(p, m) == EndsAt(p, 1, m) /\ 1 + m <= Len(p) /\ 1 + m + Number(p, 1, m) = Len(p)

\* The m bytes after the position i of one sequence are those after j of another.
SameDigits(a, i, b, j, m) == \A k \in 1..m : a[i + k] = b[j + k]

\* A number is that of its bytes.
LEMMA NumberSame ==
  ASSUME NEW a, NEW b, NEW i \in Nat, NEW j \in Nat, NEW m \in 1..4,
         SameDigits(a, i, b, j, m)
  PROVE  /\ EndsAt(a, i, m) <=> EndsAt(b, j, m)
         /\ Number(a, i, m) = Number(b, j, m)
<1>0. \A k \in 1..m : a[i + k] = b[j + k]
  BY DEF SameDigits
<1>1. m \in 1..m /\ \A k \in 1..(m - 1) : k \in 1..m
  OBVIOUS
<1>2. EndsAt(a, i, m) <=> EndsAt(b, j, m)
  BY <1>0, <1>1 DEF EndsAt
<1>3. [k \in 1..m |-> (a[i + k] % 128) * Weight[k]] = [k \in 1..m |-> (b[j + k] % 128) * Weight[k]]
  BY <1>0
<1> QED BY <1>2, <1>3 DEF Number

\* The start of p that its remaining length counts is a whole packet.
LEMMA WholeStart ==
  ASSUME NEW p \in Seq(Byte), NEW q \in Seq(Byte), NEW n \in 1..4, NEW l \in Nat,
         EndsAt(p, 1, n), l = Number(p, 1, n), Len(q) = 1 + n + l, Agree(q, p, 1 + n + l)
  PROVE  Whole(q, n)
<1>1. \A k \in 1..n : q[1 + k] = p[1 + k]
  <2>1. \A k \in 1..n : 1 + k \in 1..(1 + n + l)
    OBVIOUS
  <2> QED BY <2>1 DEF Agree
<1>2. EndsAt(q, 1, n)
  <2>1. n \in 1..n /\ \A k \in 1..(n - 1) : k \in 1..n
    OBVIOUS
  <2> QED BY <1>1, <2>1 DEF EndsAt
<1>3. Number(q, 1, n) = l
  <2>1. [k \in 1..n |-> (q[1 + k] % 128) * Weight[k]] = [k \in 1..n |-> (p[1 + k] % 128) * Weight[k]]
    BY <1>1
  <2> QED BY <2>1 DEF Number
<1>4. 1 + n <= Len(q) /\ 1 + n + l = Len(q)
  OBVIOUS
<1> QED BY <1>2, <1>3, <1>4 DEF Whole

\* What lwmqtt_read_packet_in_buffer has read fits the buffer, and is a whole packet if
\* it is accepted.
LEMMA ReadPacketIs ==
  ASSUME NEW p \in Arrivals
  PROVE  LET read == ReadPacket(p).read
             q == SubSeq(p, 1, read)
         IN /\ p \in Seq(Byte) /\ read \in Nat \ {0} /\ read <= ReadSize /\ read <= Len(p)
            /\ q \in Seq(Byte) /\ Len(q) = read /\ \A i \in 1..read : q[i] = p[i]
            /\ ReadPacket(p).err = Success => \E m \in 1..4 : Whole(q, m)
<1>1. p \in Seq(Byte) /\ Tries(p) # {} /\ ReadPacket(p).read <= Len(p) /\ ReadSize \in Nat \ {0}
  BY PacketAssumption, ArrivalsComplete
<1>2. PICK n \in 1..5 : n \in Tries(p) /\ n < Len(p) /\ n = Min(Tries(p)) /\ \A k \in Tries(p) : n <= k
  <2>1. Tries(p) \subseteq 1..5 /\ \A k \in Tries(p) : k < Len(p)
    BY DEF Tries
  <2>2. Tries(p) \subseteq Nat /\ Tries(p) \subseteq Int
    BY <2>1
  <2>3. PICK k \in Tries(p) : \A y \in Tries(p) : k <= y
    BY <1>1, <2>2, LeastNat
  <2>4. Min(Tries(p)) = k
    BY <2>2, <2>3, MinIs
  <2> QED BY <2>1, <2>3, <2>4
<1>3. ASSUME NEW k \in 1..5, k <= n
      PROVE  /\ SubSeq(p, 2, k + 1) \in Seq(Byte) /\ Len(SubSeq(p, 2, k + 1)) = k
             /\ \A i \in 1..k : SubSeq(p, 2, k + 1)[i] = p[1 + i]
  <2>1. PICK e \in Nat : e = k + 1 /\ e <= Len(p) /\ e - 2 + 1 = k
    BY <1>1, <1>2, <1>3
  <2>2. 2 \in Nat \ {0} /\ 2 <= e + 1
    BY <2>1
  <2>3. /\ SubSeq(p, 2, e) \in Seq(Byte) /\ Len(SubSeq(p, 2, e)) = e - 2 + 1
        /\ \A i \in 1..(e - 2 + 1) : SubSeq(p, 2, e)[i] = p[2 + i - 1]
    BY <1>1, <2>1, <2>2, PartIs
  <2>4. \A i \in 1..k : 2 + i - 1 = 1 + i
    OBVIOUS
  <2> QED BY <2>1, <2>3, <2>4
<1>4. PICK rem : rem = RemainingLength(p, n)
  OBVIOUS
<1>5. ASSUME rem.err = Success
      PROVE  n \in 1..4 /\ EndsAt(p, 1, n) /\ rem.num = Number(p, 1, n) /\ rem.num \in Nat
  <2>1. PICK s \in Seq(Byte) : /\ s = SubSeq(p, 2, n + 1) /\ Len(s) = n
                               /\ \A i \in 1..n : s[0 + i] = p[1 + i]
    <3>1. n \in 1..5 /\ n <= n /\ \A i \in 1..n : 0 + i = i
      OBVIOUS
    <3> QED BY <1>3, <3>1, ZenonT(60)
  <2>2. rem = ReadVarnum(s, 0, n)
    BY <1>4, <2>1 DEF RemainingLength
  <2>3. PICK m \in 1..4 : EndsAt(s, 0, m) /\ m <= n
    <3>1. n \in Nat /\ 0 \in Nat /\ n <= Len(s) /\ ReadVarnum(s, 0, n).err = Success
      BY <1>5, <2>1, <2>2
    <3>2. \E m \in 1..4 : EndsAt(s, 0, m) /\ m <= n - 0
      BY <3>1, VarnumFound
    <3> QED BY <3>2
  <2>4. EndsAt(p, 1, m) /\ Number(s, 0, m) = Number(p, 1, m)
    <3>1. SameDigits(s, 0, p, 1, m)
      BY <2>1, <2>3 DEF SameDigits
    <3>2. 0 \in Nat /\ 1 \in Nat
      OBVIOUS
    <3> QED BY <2>3, <3>1, <3>2, NumberSame
  <2>5. m \in Tries(p)
    <3>1. PICK u \in Seq(Byte) : /\ u = SubSeq(p, 2, m + 1) /\ Len(u) = m
                                 /\ \A i \in 1..m : u[0 + i] = p[1 + i]
      <4>1. m \in 1..5 /\ m <= n /\ \A i \in 1..m : 0 + i = i
        BY <2>3
      <4>2. /\ SubSeq(p, 2, m + 1) \in Seq(Byte) /\ Len(SubSeq(p, 2, m + 1)) = m
            /\ \A i \in 1..m : SubSeq(p, 2, m + 1)[i] = p[1 + i]
        BY <1>3, <4>1
      <4> QED BY <4>1, <4>2
    <3>2. EndsAt(u, 0, m)
      <4>1. SameDigits(u, 0, p, 1, m)
        BY <3>1 DEF SameDigits
      <4>2. 0 \in Nat /\ 1 \in Nat
        OBVIOUS
      <4> QED BY <2>4, <4>1, <4>2, NumberSame
    <3>3. 0 \in Nat /\ m \in Nat /\ m <= Len(u) /\ m <= m - 0
      <4>1. Len(u) = m
        BY <3>1
      <4> QED BY <4>1
    <3>4. ReadVarnum(u, 0, m).err = Success
      BY <3>2, <3>3, VarnumRead
    <3>5. RemainingLength(p, m).err # "BUFFER_TOO_SHORT"
      BY <3>1, <3>4 DEF RemainingLength, Success
    <3>6. m < Len(p)
      BY <1>1, <1>2, <2>3
    <3> QED BY <3>5, <3>6 DEF Tries
  <2>6. m = n
    BY <1>2, <2>3, <2>5
  <2>7. ReadVarnum(s, 0, n).num = Number(s, 0, m)
    <3>1. 0 \in Nat /\ n \in Nat /\ n <= Len(s) /\ m \in Nat /\ m <= n - 0
      <4>1. Len(s) = n
        BY <2>1
      <4> QED BY <2>3, <4>1
    <3> QED BY <2>3, <3>1, VarnumRead
  <2>8. Number(p, 1, m) \in Nat
    <3>1. 1 \in Nat /\ 1 + m <= Len(p)
      BY <1>1, <1>2, <2>3
    <3> QED BY <1>1, <3>1, NumberIs
  <2> QED BY <2>2, <2>4, <2>6, <2>7, <2>8
<1>6. /\ ReadPacket(p).read \in Nat \ {0} /\ ReadPacket(p).read <= ReadSize
      /\ ReadPacket(p).err = Success => rem.err = Success /\ ReadPacket(p).read = 1 + n + rem.num
  <2>1. ReadPacket(p)
          = IF \A t \in Receivable : PacketType[t] # ReadBits(p[1], 4, 4)
            THEN [err |-> "MISSING_OR_WRONG_PACKET", read |-> 1]
            ELSE IF 1 + n > ReadSize THEN [err |-> "BUFFER_TOO_SHORT", read |-> ReadSize]
            ELSE IF rem.err # Success THEN [err |-> "REMAINING_LENGTH_OVERFLOW", read |-> 1 + n]
            ELSE IF 1 + n + rem.num > ReadSize THEN [err |-> "BUFFER_TOO_SHORT", read |-> 1 + n]
            ELSE [err |-> Success, read |-> 1 + n + rem.num]
    BY <1>2, <1>4 DEF ReadPacket
  <2>2. CASE \A t \in Receivable : PacketType[t] # ReadBits(p[1], 4, 4)
    <3>1. ReadPacket(p) = [err |-> "MISSING_OR_WRONG_PACKET", read |-> 1]
      BY <2>1, <2>2
    <3> QED BY <1>1, <3>1 DEF Success
  <2>3. CASE ~(\A t \in Receivable : PacketType[t] # ReadBits(p[1], 4, 4)) /\ 1 + n > ReadSize
    <3>1. ReadPacket(p) = [err |-> "BUFFER_TOO_SHORT", read |-> ReadSize]
      BY <2>1, <2>3
    <3> QED BY <1>1, <3>1 DEF Success
  <2>4. CASE /\ ~(\A t \in Receivable : PacketType[t] # ReadBits(p[1], 4, 4))
             /\ ~(1 + n > ReadSize) /\ rem.err # Success
    <3>1. ReadPacket(p) = [err |-> "REMAINING_LENGTH_OVERFLOW", read |-> 1 + n]
      BY <2>1, <2>4
    <3>2. 1 + n \in Nat \ {0} /\ 1 + n <= ReadSize
      BY <1>1, <2>4
    <3> QED BY <3>1, <3>2 DEF Success
  <2>5. CASE /\ ~(\A t \in Receivable : PacketType[t] # ReadBits(p[1], 4, 4))
             /\ ~(1 + n > ReadSize) /\ rem.err = Success
    <3>1. PICK l \in Nat : l = rem.num
      BY <1>5, <2>5
    <3>2. ReadPacket(p) = IF 1 + n + l > ReadSize THEN [err |-> "BUFFER_TOO_SHORT", read |-> 1 + n]
                          ELSE [err |-> Success, read |-> 1 + n + l]
      BY <2>1, <2>5, <3>1
    <3>3. 1 + n \in Nat \ {0} /\ 1 + n <= ReadSize /\ 1 + n + l \in Nat \ {0}
      BY <1>1, <2>5
    <3>4. CASE 1 + n + l > ReadSize
      <4>1. ReadPacket(p) = [err |-> "BUFFER_TOO_SHORT", read |-> 1 + n]
        BY <3>2, <3>4
      <4> QED BY <3>3, <4>1 DEF Success
    <3>5. CASE ~(1 + n + l > ReadSize)
      <4>1. ReadPacket(p) = [err |-> Success, read |-> 1 + n + l]
        BY <3>2, <3>5
      <4>2. 1 + n + l <= ReadSize
        BY <1>1, <3>5
      <4> QED BY <2>5, <3>1, <3>3, <4>1, <4>2
    <3> QED BY <3>4, <3>5
  <2> QED BY <2>2, <2>3, <2>4, <2>5
<1>7. PICK read \in Nat \ {0} : read = ReadPacket(p).read /\ read <= ReadSize /\ read <= Len(p)
  BY <1>1, <1>6
<1>8. PICK q \in Seq(Byte) : q = SubSeq(p, 1, read) /\ Len(q) = read /\ \A i \in 1..read : q[i] = p[i]
  <2>1. 1 \in Nat \ {0} /\ read \in Nat /\ 1 <= read + 1 /\ read - 1 + 1 = read
    OBVIOUS
  <2>2. /\ SubSeq(p, 1, read) \in Seq(Byte) /\ Len(SubSeq(p, 1, read)) = read - 1 + 1
        /\ \A i \in 1..(read - 1 + 1) : SubSeq(p, 1, read)[i] = p[1 + i - 1]
    BY <1>1, <1>7, <2>1, PartIs
  <2>3. \A i \in 1..read : 1 + i - 1 = i
    OBVIOUS
  <2> QED BY <2>1, <2>2, <2>3
<1>9. ASSUME ReadPacket(p).err = Success
      PROVE  n \in 1..4 /\ Whole(q, n)
  <2>1. /\ n \in 1..4 /\ EndsAt(p, 1, n) /\ rem.num = Number(p, 1, n) /\ Number(p, 1, n) \in Nat
        /\ read = 1 + n + rem.num
    BY <1>5, <1>6, <1>7, <1>9
  <2>2. PICK m \in 1..4, l \in Nat : m = n /\ l = Number(p, 1, n) /\ read = 1 + n + l
    BY <2>1
  <2>3. Len(q) = 1 + m + l /\ Agree(q, p, 1 + m + l)
    <3>1. Agree(q, p, read)
      BY <1>7, <1>8 DEF Agree
    <3> QED BY <1>8, <2>2, <3>1
  <2>4. EndsAt(p, 1, m) /\ l = Number(p, 1, m)
    BY <2>1, <2>2
  <2>5. Whole(q, m)
    BY <1>1, <2>3, <2>4, WholeStart
  <2> QED BY <2>1, <2>2, <2>5
<1> QED BY <1>1, <1>7, <1>8, <1>9

-----------------------------------------------------------------------------
(***************************************************************************)
(* Decoding reads nothing behind the packet.                               *)
(***************************************************************************)
\* Two buffers that hold the same packet: k bytes up to its remaining length, and the l
\* bytes that this counts.
Same(a, b, k, l) ==
    /\ a \in Seq(Byte) /\ b \in Seq(Byte) /\ Len(a) = Len(b)
    /\ k \in Nat \ {0} /\ l \in Nat /\ Agree(a, b, k + l)
    /\ ReadVarnum(a, 1, Len(a)) = [err |-> Success, next |-> k, num |-> l]
    /\ ReadVarnum(b, 1, Len(b)) = [err |-> Success, next |-> k, num |-> l]

\* A buffer that begins with a whole packet has its remaining length.
LEMMA WholeRead ==
  ASSUME NEW p \in Seq(Byte), NEW m \in 1..4, Whole(p, m),
         NEW buf \in Seq(Byte), Agree(buf, p, Len(p))
  PROVE  /\ Number(p, 1, m) \in Nat /\ 1 + m + Number(p, 1, m) = Len(p)
         /\ ReadVarnum(buf, 1, Len(buf)) = [err |-> Success, next |-> 1 + m, num |-> Number(p, 1, m)]
<1>1. EndsAt(p, 1, m) /\ 1 + m <= Len(p) /\ 1 + m + Number(p, 1, m) = Len(p)
  BY DEF Whole
<1>2. Number(p, 1, m) \in Nat
  <2>1. 1 \in Nat
    OBVIOUS
  <2> QED BY <1>1, <2>1, NumberIs
<1>3. Len(p) <= Len(buf) /\ \A i \in 1..Len(p) : buf[i] = p[i]
  BY DEF Agree
<1>4. \A k \in 1..m : buf[1 + k] = p[1 + k]
  <2>1. \A k \in 1..m : 1 + k \in 1..Len(p)
    BY <1>1
  <2> QED BY <1>3, <2>1
<1>5. EndsAt(buf, 1, m)
  <2>1. m \in 1..m /\ \A k \in 1..(m - 1) : k \in 1..m
    OBVIOUS
  <2> QED BY <1>1, <1>4, <2>1 DEF EndsAt
<1>6. Number(buf, 1, m) = Number(p, 1, m)
  <2>1. [k \in 1..m |-> (buf[1 + k] % 128) * Weight[k]] = [k \in 1..m |-> (p[1 + k] % 128) * Weight[k]]
    BY <1>4
  <2> QED BY <2>1 DEF Number
<1>7. ReadVarnum(buf, 1, Len(buf)) = [err |-> Success, next |-> 1 + m, num |-> Number(buf, 1, m)]
  <2>1. PICK end \in Nat : end = Len(buf) /\ end <= Len(buf) /\ m <= end - 1
    BY <1>1, <1>3
  <2>2. 1 \in Nat /\ m \in Nat
    OBVIOUS
  <2>3. ReadVarnum(buf, 1, end) = [err |-> Success, next |-> 1 + m, num |-> Number(buf, 1, m)]
    BY <1>5, <2>1, <2>2, VarnumRead
  <2> QED BY <2>1, <2>3
<1> QED BY <1>1, <1>2, <1>6, <1>7

\* The same number is read from the same bytes.
LEMMA ReadNumSame ==
  ASSUME NEW a \in Seq(Byte), NEW b \in Seq(Byte), NEW n \in Nat, Agree(a, b, n),
         NEW pos \in Nat, NEW end \in Nat, pos + 2 <= end => pos + 2 <= n
  PROVE  /\ ReadNum(a, pos, end) = ReadNum(b, pos, end)
         /\ ReadNum(a, pos, end).err = Success =>
               /\ ReadNum(a, pos, end).next = pos + 2 /\ pos + 2 <= end
               /\ ReadNum(a, pos, end).num \in Nat
<1>1. CASE end - pos < 2
  <2>1. /\ ReadNum(a, pos, end) = Failed("BUFFER_TOO_SHORT")
        /\ ReadNum(b, pos, end) = Failed("BUFFER_TOO_SHORT")
    BY <1>1 DEF ReadNum
  <2> QED BY <2>1 DEF Failed, Success
<1>2. CASE ~(end - pos < 2)
  <2>1. pos + 2 <= n /\ pos + 2 <= end
    BY <1>2
  <2>2. pos + 1 \in 1..n /\ pos + 2 \in 1..n
    BY <2>1
  <2>3. n <= Len(a) /\ a[pos + 1] = b[pos + 1] /\ a[pos + 2] = b[pos + 2]
    BY <2>2 DEF Agree
  <2>4. pos + 1 \in 1..Len(a) /\ pos + 2 \in 1..Len(a)
    BY <2>2, <2>3
  <2>5. PICK x \in Nat, y \in Nat : x = a[pos + 1] /\ y = a[pos + 2]
    BY <2>4, InBuffer
  <2>6. /\ ReadNum(a, pos, end) = [err |-> Success, next |-> pos + 2, num |-> 256 * x + y]
        /\ ReadNum(b, pos, end) = [err |-> Success, next |-> pos + 2, num |-> 256 * x + y]
    BY <1>2, <2>3, <2>5 DEF ReadNum
  <2>7. 256 * x + y \in Nat
    OBVIOUS
  <2> QED BY <2>1, <2>6, <2>7
<1> QED BY <1>1, <1>2

\* The same part lies in both buffers.
LEMMA PartSame ==
  ASSUME NEW a \in Seq(Byte), NEW b \in Seq(Byte), NEW n \in Nat, Agree(a, b, n)
  PROVE  \A i \in Nat \ {0}, j \in Nat : j <= n /\ i <= j + 1 => SubSeq(a, i, j) = SubSeq(b, i, j)
<1> SUFFICES ASSUME NEW i \in Nat \ {0}, NEW j \in Nat, j <= n, i <= j + 1
             PROVE  SubSeq(a, i, j) = SubSeq(b, i, j)
  OBVIOUS
<1>1. j <= Len(a) /\ j <= Len(b) /\ \A x \in 1..n : a[x] = b[x]
  BY DEF Agree
<1>2. PICK s \in Seq(Byte) : /\ s = SubSeq(a, i, j) /\ Len(s) = j - i + 1
                             /\ \A x \in 1..(j - i + 1) : s[x] = a[i + x - 1]
  BY <1>1, PartIs
<1>3. PICK t \in Seq(Byte) : /\ t = SubSeq(b, i, j) /\ Len(t) = j - i + 1
                             /\ \A x \in 1..(j - i + 1) : t[x] = b[i + x - 1]
  BY <1>1, PartIs, ZenonT(60)
<1>4. ASSUME NEW x \in 1..Len(s)
      PROVE  s[x] = t[x]
  <2>1. x \in 1..(j - i + 1) /\ i + x - 1 \in 1..n
    BY <1>2
  <2> QED BY <1>1, <1>2, <1>3, <2>1
<1>5. Len(s) = Len(t)
  BY <1>2, <1>3
<1>6. s = t
  BY <1>4, <1>5, SeqEqual
<1> QED BY <1>2, <1>3, <1>6

\* The same string is read from the same bytes.
LEMMA ReadStringSame ==
  ASSUME NEW a \in Seq(Byte), NEW b \in Seq(Byte), NEW n \in Nat, Agree(a, b, n),
         NEW pos \in Nat, NEW end \in Nat, end <= n
  PROVE  /\ ReadString(a, pos, end) = ReadString(b, pos, end)
         /\ ReadString(a, pos, end).err = Success =>
               ReadString(a, pos, end).next \in Nat /\ ReadString(a, pos, end).next <= end
<1>part. \A i \in Nat \ {0}, j \in Nat : j <= n /\ i <= j + 1 => SubSeq(a, i, j) = SubSeq(b, i, j)
  BY PartSame
<1>1. pos + 2 <= end => pos + 2 <= n
  OBVIOUS
<1>2. PICK len : len = ReadNum(a, pos, end) /\ len = ReadNum(b, pos, end)
  BY <1>1, ReadNumSame
<1>3. len.err = Success => len.next = pos + 2 /\ pos + 2 <= end /\ len.num \in Nat
  BY <1>1, <1>2, ReadNumSame
<1>4. \A buf \in {a, b} :
         ReadString(buf, pos, end)
           = IF len.err # Success THEN len
             ELSE IF end - len.next < len.num THEN Failed("BUFFER_TOO_SHORT")
             ELSE [err |-> Success, next |-> len.next + len.num,
                   data |-> SubSeq(buf, len.next + 1, len.next + len.num)]
  BY <1>2 DEF ReadString
<1>5. CASE len.err # Success
  BY <1>4, <1>5
<1>6. CASE len.err = Success
  <2>1. PICK k \in Nat, l \in Nat : k = len.next /\ l = len.num
    BY <1>3, <1>6
  <2>2. \A buf \in {a, b} :
           ReadString(buf, pos, end)
             = IF end - k < l THEN Failed("BUFFER_TOO_SHORT")
               ELSE [err |-> Success, next |-> k + l, data |-> SubSeq(buf, k + 1, k + l)]
    BY <1>4, <1>6, <2>1
  <2>3. CASE end - k < l
    <3>1. ReadString(a, pos, end) = Failed("BUFFER_TOO_SHORT")
          /\ ReadString(b, pos, end) = Failed("BUFFER_TOO_SHORT")
      BY <2>2, <2>3
    <3> QED BY <3>1 DEF Failed, Success
  <2>4. CASE ~(end - k < l)
    <3>1. PICK i \in Nat \ {0}, j \in Nat : i = k + 1 /\ j = k + l
      OBVIOUS
    <3>2. j <= n /\ i <= j + 1 /\ j <= end
      BY <2>4, <3>1
    <3>3. SubSeq(a, i, j) = SubSeq(b, i, j)
      BY <1>part, <3>2
    <3>4. /\ ReadString(a, pos, end) = [err |-> Success, next |-> j, data |-> SubSeq(a, i, j)]
          /\ ReadString(b, pos, end) = [err |-> Success, next |-> j, data |-> SubSeq(a, i, j)]
      BY <2>2, <2>4, <3>1, <3>3
    <3> QED BY <3>2, <3>4
  <2> QED BY <2>3, <2>4
<1> QED BY <1>5, <1>6

\* Every decoder begins in the same way.
LEMMA OpeningSame ==
  ASSUME NEW a, NEW b, NEW k, NEW l, Same(a, b, k, l), NEW type
  PROVE  /\ a[1] = b[1]
         /\ Opening(a, type) = Opening(b, type)
         /\ Opening(a, type).err = Success => Opening(a, type).next = k /\ Opening(a, type).num = l
<1>1. a[1] = b[1]
  <2>1. k \in Nat \ {0} /\ l \in Nat /\ Agree(a, b, k + l)
    BY DEF Same
  <2>2. 1 \in 1..(k + l)
    BY <2>1
  <2> QED BY <2>1, <2>2 DEF Agree
<1>2. CASE ReadBits(a[1], 4, 4) # PacketType[type]
  <2>1. /\ Opening(a, type) = Failed("MISSING_OR_WRONG_PACKET")
        /\ Opening(b, type) = Failed("MISSING_OR_WRONG_PACKET")
    BY <1>1, <1>2 DEF Opening
  <2> QED BY <1>1, <2>1 DEF Failed, Success
<1>3. CASE ReadBits(a[1], 4, 4) = PacketType[type]
  <2>1. /\ Opening(a, type) = [err |-> Success, next |-> k, num |-> l]
        /\ Opening(b, type) = [err |-> Success, next |-> k, num |-> l]
    BY <1>1, <1>3 DEF Opening, Same
  <2> QED BY <1>1, <2>1
<1> QED BY <1>2, <1>3

\* A CONNACK.
LEMMA ConnackSame ==
  ASSUME NEW a, NEW b, NEW k, NEW l, Same(a, b, k, l)
  PROVE  DecodeConnack(a) = DecodeConnack(b)
<1>1. PICK v : /\ v = Opening(a, "connack") /\ v = Opening(b, "connack")
               /\ v.err = Success => v.next = k /\ v.num = l
  BY OpeningSame
<1>2. CASE v.err # Success
  BY <1>1, <1>2 DEF DecodeConnack
<1>3. CASE v.err = Success /\ l # 2
  BY <1>1, <1>3 DEF DecodeConnack
<1>4. CASE v.err = Success /\ l = 2
  <2>1. Len(a) = Len(b) /\ k \in Nat /\ \A i \in 1..(k + 2) : a[i] = b[i]
    BY <1>4 DEF Same, Agree
  <2>2. k + 1 \in 1..(k + 2) /\ k + 2 \in 1..(k + 2)
    BY <2>1
  <2>3. a[v.next + 1] = b[v.next + 1] /\ a[v.next + 2] = b[v.next + 2] /\ Len(a) = Len(b)
    BY <1>1, <1>4, <2>1, <2>2
  <2> QED BY <1>1, <2>3 DEF DecodeConnack
<1> QED BY <1>2, <1>3, <1>4

\* An acknowledgement.
LEMMA AckSame ==
  ASSUME NEW a, NEW b, NEW k, NEW l, Same(a, b, k, l), NEW type
  PROVE  DecodeAck(a, type) = DecodeAck(b, type)
<1>1. PICK v : /\ v = Opening(a, type) /\ v = Opening(b, type)
               /\ v.err = Success => v.next = k /\ v.num = l
  BY OpeningSame
<1>2. a[1] = b[1]
  BY OpeningSame
<1>3. CASE v.err # Success
  BY <1>1, <1>3 DEF DecodeAck
<1>4. CASE v.err = Success /\ l # 2
  BY <1>1, <1>4 DEF DecodeAck
<1>5. CASE v.err = Success /\ l = 2
  <2>1. PICK n \in Nat, end \in Nat : n = k + 2 /\ end = Len(a) /\ end = Len(b)
    BY <1>5 DEF Same
  <2>2. a \in Seq(Byte) /\ b \in Seq(Byte) /\ Agree(a, b, n) /\ k \in Nat
    BY <1>5, <2>1 DEF Same
  <2>3. k + 2 <= end => k + 2 <= n
    BY <2>1, <2>2
  <2>4. ReadNum(a, k, end) = ReadNum(b, k, end)
    BY <2>2, <2>3, ReadNumSame
  <2>5. ReadNum(a, v.next, Len(a)) = ReadNum(b, v.next, Len(b))
    BY <1>1, <1>5, <2>1, <2>4
  <2> QED BY <1>1, <1>2, <2>5 DEF DecodeAck
<1> QED BY <1>3, <1>4, <1>5

\* A PUBLISH.
LEMMA PublishSame ==
  ASSUME NEW a, NEW b, NEW k, NEW l, Same(a, b, k, l)
  PROVE  DecodePublish(a) = DecodePublish(b)
<1>1. PICK v : /\ v = Opening(a, "publish") /\ v = Opening(b, "publish")
               /\ v.err = Success => v.next = k /\ v.num = l
  BY OpeningSame
<1>2. a[1] = b[1]
  BY OpeningSame
<1>3. CASE v.err # Success
  BY <1>1, <1>3 DEF DecodePublish
<1>4. CASE v.err = Success
  <2>1. PICK n \in Nat : n = k + l /\ Agree(a, b, n)
    BY DEF Same
  <2>2. a \in Seq(Byte) /\ b \in Seq(Byte) /\ Len(a) = Len(b) /\ k \in Nat /\ l \in Nat
    BY DEF Same
  <2>3. v.next = k /\ PublishEnd(a, v) = n /\ PublishEnd(b, v) = n
    BY <1>1, <1>4, <2>1 DEF PublishEnd
  <2>4. PICK topic : /\ topic = ReadString(a, k, n) /\ topic = ReadString(b, k, n)
                     /\ topic.err = Success => topic.next \in Nat /\ topic.next <= n
    <3>1. n <= n
      OBVIOUS
    <3> QED BY <2>1, <2>2, <3>1, ReadStringSame
  <2>5. PICK q : q = QosOf(a[1]) /\ q = QosOf(b[1])
    BY <1>2
  <2>6. PICK x, y : /\ x = IF HasId(q) THEN ReadNum(a, topic.next, n)
                           ELSE [err |-> Success, next |-> topic.next, num |-> 0]
                    /\ y = IF HasId(q) THEN ReadNum(b, topic.next, n)
                           ELSE [err |-> Success, next |-> topic.next, num |-> 0]
    OBVIOUS
  <2>7. /\ DecodePublish(a)
             = IF l < 2 THEN Failed("REMAINING_LENGTH_MISMATCH")
               ELSE IF Len(a) - k < l THEN Failed("BUFFER_TOO_SHORT")
               ELSE IF topic.err # Success THEN topic
               ELSE IF x.err # Success THEN x
               ELSE [err |-> Success, dup |-> ReadBits(a[1], 3, 1) = 1, qos |-> q,
                     retained |-> ReadBits(a[1], 0, 1) = 1, id |-> x.num,
                     topic |-> topic.data, payload |-> SubSeq(a, x.next + 1, n)]
        /\ DecodePublish(b)
             = IF l < 2 THEN Failed("REMAINING_LENGTH_MISMATCH")
               ELSE IF Len(b) - k < l THEN Failed("BUFFER_TOO_SHORT")
               ELSE IF topic.err # Success THEN topic
               ELSE IF y.err # Success THEN y
               ELSE [err |-> Success, dup |-> ReadBits(b[1], 3, 1) = 1, qos |-> q,
                     retained |-> ReadBits(b[1], 0, 1) = 1, id |-> y.num,
                     topic |-> topic.data, payload |-> SubSeq(b, y.next + 1, n)]
    <3>1. v.num = l
      BY <1>1, <1>4
    <3> QED BY <1>1, <1>4, <2>3, <2>4, <2>5, <2>6, <3>1 DEF DecodePublish
  <2>8. topic.err = Success =>
           x = y /\ (x.err = Success => SubSeq(a, x.next + 1, n) = SubSeq(b, x.next + 1, n))
    <3> SUFFICES ASSUME topic.err = Success
                 PROVE  x = y /\ (x.err = Success =>
                                    SubSeq(a, x.next + 1, n) = SubSeq(b, x.next + 1, n))
      OBVIOUS
    <3>1. PICK pos \in Nat : pos = topic.next /\ pos <= n
      BY <2>4
    <3>2. x = y /\ (x.err = Success => x.next \in Nat /\ x.next <= n)
      <4>1. CASE HasId(q)
        <5>1. pos + 2 <= n => pos + 2 <= n
          OBVIOUS
        <5>2. /\ ReadNum(a, pos, n) = ReadNum(b, pos, n)
              /\ ReadNum(a, pos, n).err = Success =>
                    ReadNum(a, pos, n).next = pos + 2 /\ pos + 2 <= n
          BY <2>1, <2>2, <5>1, ReadNumSame
        <5>3. x = ReadNum(a, pos, n) /\ y = ReadNum(b, pos, n)
          BY <2>6, <3>1, <4>1
        <5>4. pos + 2 \in Nat
          OBVIOUS
        <5> QED BY <5>2, <5>3, <5>4
      <4>2. CASE ~HasId(q)
        <5>1. x = [err |-> Success, next |-> pos, num |-> 0] /\ x = y
          BY <2>6, <3>1, <4>2
        <5> QED BY <3>1, <5>1
      <4> QED BY <4>1, <4>2
    <3>3. ASSUME x.err = Success
          PROVE  SubSeq(a, x.next + 1, n) = SubSeq(b, x.next + 1, n)
      <4>1. PICK i \in Nat \ {0} : i = x.next + 1 /\ i <= n + 1
        BY <3>2, <3>3
      <4>2. \A j \in Nat \ {0}, e \in Nat : e <= n /\ j <= e + 1 => SubSeq(a, j, e) = SubSeq(b, j, e)
        BY <2>1, <2>2, PartSame, ZenonT(60)
      <4>3. n <= n
        OBVIOUS
      <4>4. SubSeq(a, i, n) = SubSeq(b, i, n)
        BY <4>1, <4>2, <4>3
      <4> QED BY <4>1, <4>4
    <3> QED BY <3>2, <3>3
  <2>9. CASE topic.err # Success \/ l < 2 \/ Len(a) - k < l
    BY <2>2, <2>7, <2>9
  <2>10. CASE topic.err = Success /\ x.err # Success
    BY <2>2, <2>7, <2>8, <2>10
  <2>11. CASE topic.err = Success /\ x.err = Success /\ ~(l < 2) /\ ~(Len(a) - k < l)
    <3>1. PICK payload : payload = SubSeq(a, x.next + 1, n) /\ payload = SubSeq(b, x.next + 1, n)
      BY <2>8, <2>11
    <3>2. x = y /\ Len(a) = Len(b)
      BY <2>2, <2>8, <2>11
    <3>3. DecodePublish(a)
            = [err |-> Success, dup |-> ReadBits(a[1], 3, 1) = 1, qos |-> q,
               retained |-> ReadBits(a[1], 0, 1) = 1, id |-> x.num,
               topic |-> topic.data, payload |-> payload]
      BY <2>7, <2>11, <3>1
    <3>4. DecodePublish(b)
            = [err |-> Success, dup |-> ReadBits(b[1], 3, 1) = 1, qos |-> q,
               retained |-> ReadBits(b[1], 0, 1) = 1, id |-> x.num,
               topic |-> topic.data, payload |-> payload]
      BY <2>7, <2>11, <3>1, <3>2
    <3> QED BY <1>2, <3>3, <3>4
  <2> QED BY <2>9, <2>10, <2>11
<1> QED BY <1>3, <1>4

\* A SUBACK.
LEMMA SubackSame ==
  ASSUME NEW a, NEW b, NEW k, NEW l, Same(a, b, k, l)
  PROVE  DecodeSuback(a) = DecodeSuback(b)
<1>1. PICK v : /\ v = Opening(a, "suback") /\ v = Opening(b, "suback")
               /\ v.err = Success => v.next = k /\ v.num = l
  BY OpeningSame
<1>2. CASE v.err # Success
  BY <1>1, <1>2 DEF DecodeSuback
<1>3. k \in Nat /\ l \in Nat /\ Len(a) = Len(b)
  BY DEF Same
<1>4. CASE v.err = Success /\ l < 3
  BY <1>1, <1>3, <1>4 DEF DecodeSuback
<1>5. CASE v.err = Success /\ ~(l < 3)
  <2>1. PICK n \in Nat, end \in Nat : n = k + l /\ end = Len(a) /\ end = Len(b)
    BY DEF Same
  <2>2. a \in Seq(Byte) /\ b \in Seq(Byte) /\ Agree(a, b, n)
    BY <2>1 DEF Same
  <2>3. k + 2 <= end => k + 2 <= n
    BY <1>3, <1>5, <2>1
  <2>4. PICK id : /\ id = ReadNum(a, k, end) /\ id = ReadNum(b, k, end)
                  /\ id.err = Success => id.next = k + 2
    BY <1>3, <2>2, <2>3, ReadNumSame
  <2>5. PICK codes \in Nat : codes = l - 2
    BY <1>3, <1>5
  <2>6. v.num < 3 <=> FALSE
    BY <1>1, <1>5
  <2>7. \A buf \in {a, b} :
           LET stop == {i \in 0..(codes - 1) : TooMany(i) \/ end - id.next <= i}
           IN DecodeSuback(buf)
                = IF id.err # Success THEN id
                  ELSE IF stop # {} THEN Failed(IF TooMany(Min(stop)) THEN "SUBACK_ARRAY_OVERFLOW"
                                                ELSE "BUFFER_TOO_SHORT")
                  ELSE [err |-> Success, id |-> id.num,
                        granted |-> [i \in 1..codes |-> IF buf[id.next + i] <= 2
                                                        THEN buf[id.next + i] ELSE 128]]
    <3> SUFFICES ASSUME NEW buf \in {a, b}
                 PROVE  LET stop == {i \in 0..(codes - 1) : TooMany(i) \/ end - id.next <= i}
                        IN DecodeSuback(buf)
                             = IF id.err # Success THEN id
                               ELSE IF stop # {}
                                    THEN Failed(IF TooMany(Min(stop)) THEN "SUBACK_ARRAY_OVERFLOW"
                                                ELSE "BUFFER_TOO_SHORT")
                               ELSE [err |-> Success, id |-> id.num,
                                     granted |-> [i \in 1..codes |-> IF buf[id.next + i] <= 2
                                                                     THEN buf[id.next + i]
                                                                     ELSE 128]]
      OBVIOUS
    <3>1. v = Opening(buf, "suback") /\ v.err = Success /\ ~(v.num < 3)
      BY <1>1, <1>5, <2>6
    <3>2. id = ReadNum(buf, v.next, Len(buf)) /\ codes = v.num - 2 /\ end = Len(buf)
      BY <1>1, <1>5, <2>1, <2>4, <2>5
    <3> QED BY <3>1, <3>2 DEF DecodeSuback
  <2>8. id.err = Success => \A i \in 1..codes : a[id.next + i] = b[id.next + i]
    <3>1. \A i \in 1..n : a[i] = b[i]
      BY <2>2 DEF Agree
    <3>2. \A i \in 1..codes : k + 2 + i \in 1..n
      BY <1>3, <2>1, <2>5
    <3> QED BY <2>4, <3>1, <3>2
  <2>9. id.err = Success =>
           [i \in 1..codes |-> IF a[id.next + i] <= 2 THEN a[id.next + i] ELSE 128]
             = [i \in 1..codes |-> IF b[id.next + i] <= 2 THEN b[id.next + i] ELSE 128]
    BY <2>8
  <2> QED BY <2>7, <2>9
<1> QED BY <1>2, <1>4, <1>5

\* What is decoded depends on the packet alone.
LEMMA DecodeSame ==
  ASSUME NEW a, NEW b, NEW k, NEW l, Same(a, b, k, l)
  PROVE  DecodePacket(a) = DecodePacket(b)
<1>1. a[1] = b[1]
  BY OpeningSame
<1>2. PICK type : /\ type = CHOOSE t \in Receivable : PacketType[t] = ReadBits(a[1], 4, 4)
                  /\ type = CHOOSE t \in Receivable : PacketType[t] = ReadBits(b[1], 4, 4)
  BY <1>1
<1>3. \A buf \in {a, b} :
         DecodePacket(buf) = CASE type = "connack" -> DecodeConnack(buf)
                               [] type = "publish" -> DecodePublish(buf)
                               [] type = "suback" -> DecodeSuback(buf)
                               [] type \in Acks -> DecodeAck(buf, type)
                               [] OTHER -> [err |-> Success]
  BY <1>2 DEF DecodePacket
<1>4. /\ DecodeConnack(a) = DecodeConnack(b) /\ DecodePublish(a) = DecodePublish(b)
      /\ DecodeSuback(a) = DecodeSuback(b) /\ DecodeAck(a, type) = DecodeAck(b, type)
  BY ConnackSame, PublishSame, SubackSame, AckSame
<1> QED BY <1>3, <1>4

\* Two buffers that begin with the same whole packet are decoded alike.
LEMMA DecodeWhole ==
  ASSUME NEW p \in Seq(Byte), NEW m \in 1..4, Whole(p, m),
         NEW a \in Seq(Byte), NEW b \in Seq(Byte), Len(a) = Len(b),
         Agree(a, p, Len(p)), Agree(b, p, Len(p))
  PROVE  DecodePacket(a) = DecodePacket(b)
<1>1. PICK k \in Nat \ {0}, l \in Nat :
         /\ k = 1 + m /\ l = Number(p, 1, m) /\ k + l = Len(p)
         /\ ReadVarnum(a, 1, Len(a)) = [err |-> Success, next |-> k, num |-> l]
         /\ ReadVarnum(b, 1, Len(b)) = [err |-> Success, next |-> k, num |-> l]
  <2>1. /\ Number(p, 1, m) \in Nat /\ 1 + m + Number(p, 1, m) = Len(p)
        /\ ReadVarnum(a, 1, Len(a)) = [err |-> Success, next |-> 1 + m, num |-> Number(p, 1, m)]
    BY WholeRead
  <2>2. ReadVarnum(b, 1, Len(b)) = [err |-> Success, next |-> 1 + m, num |-> Number(p, 1, m)]
    BY WholeRead
  <2>3. 1 + m \in Nat \ {0}
    OBVIOUS
  <2> QED BY <2>1, <2>2, <2>3
<1>2. Agree(a, b, k + l)
  BY <1>1 DEF Agree
<1>3. Same(a, b, k, l)
  BY <1>1, <1>2 DEF Same
<1> QED BY <1>3, DecodeSame

\* What is read overwrites the start of the buffer.
LEMMA OverIs ==
  ASSUME NEW buf \in Seq(Byte), NEW q \in Seq(Byte), Len(q) <= Len(buf)
  PROVE  /\ Over(buf, q) \in Seq(Byte) /\ Len(Over(buf, q)) = Len(buf)
         /\ Agree(Over(buf, q), q, Len(q))
<1>1. PICK m \in Nat \ {0}, n \in Nat : m = Len(q) + 1 /\ n = Len(buf) /\ m <= n + 1
  OBVIOUS
<1>2. PICK s \in Seq(Byte) : s = SubSeq(buf, m, n) /\ Len(s) = n - m + 1
  <2>1. n <= Len(buf) /\ m <= n + 1
    BY <1>1
  <2>2. SubSeq(buf, m, n) \in Seq(Byte) /\ Len(SubSeq(buf, m, n)) = n - m + 1
    BY <2>1, PartIs
  <2> QED BY <2>2
<1>3. /\ q \o s \in Seq(Byte) /\ Len(q) \in Nat /\ Len(q \o s) = Len(q) + Len(s)
      /\ \A i \in 1..Len(q) : (q \o s)[i] = q[i]
  BY BytesConcat
<1>4. Over(buf, q) = q \o s
  BY <1>1, <1>2 DEF Over
<1>5. Len(q) + Len(s) = Len(buf)
  BY <1>1, <1>2
<1>6. Len(q) <= Len(q \o s)
  BY <1>3, <1>5
<1>7. Agree(q \o s, q, Len(q))
  BY <1>3, <1>6 DEF Agree
<1> QED BY <1>3, <1>4, <1>5, <1>7

-----------------------------------------------------------------------------
(***************************************************************************)
(* Invariants of what is read.                                             *)
(***************************************************************************)
\* The buffer is always full of bytes: those of the last packet over those of the
\* packets before it.
BufInv == readBuf \in Seq(Byte) /\ Len(readBuf) = ReadSize

\* The packet that arrived is a whole one and lies at the start of the buffer.
ArrivedInv == arrived # <<>> =>
    /\ arrived \in Seq(Byte) /\ Len(arrived) <= ReadSize
    /\ Agree(readBuf, arrived, Len(arrived))
    /\ \E m \in 1..4 : Whole(arrived, m)

\* What was decoded was decoded from the buffer.
ResultInv == arrived # <<>> => result = Undecoded \/ result = DecodePacket(readBuf)

ReadInv == BufInv /\ ArrivedInv /\ ResultInv

\* Memory that was never written holds bytes too.
LEMMA FreshMemory ==
  ASSUME NEW b \in Byte
  PROVE  /\ [i \in 1..ReadSize |-> b] \in Seq(Byte)
         /\ Len([i \in 1..ReadSize |-> b]) = ReadSize
<1>1. ReadSize \in Nat
  BY PacketAssumption
<1> QED BY <1>1

\* Reading and decoding keep the buffer, the packet and the result together.
LEMMA ReadAlways == Spec => []ReadInv
<1>1. Init => ReadInv
  <2> SUFFICES ASSUME Init
               PROVE  ReadInv
    OBVIOUS
  <2>1. PICK b \in Byte : readBuf = [i \in 1..ReadSize |-> b]
    BY PacketAssumption DEF Init
  <2>2. BufInv
    BY <2>1, FreshMemory DEF BufInv
  <2> QED BY <2>2 DEF Init, ReadInv, ArrivedInv, ResultInv
<1>2. ReadInv /\ [Next]_vars => ReadInv'
  <2> SUFFICES ASSUME ReadInv, [Next]_vars
               PROVE  ReadInv'
    OBVIOUS
  <2>1. CASE Encode \/ UNCHANGED vars
    <3>1. readBuf' = readBuf /\ arrived' = arrived /\ result' = result
      BY <2>1 DEF Encode, vars
    <3> QED BY <3>1 DEF ReadInv, BufInv, ArrivedInv, ResultInv
  <2>2. CASE Receive
    <3>1. PICK p \in Arrivals :
             /\ readBuf' = Over(readBuf, SubSeq(p, 1, ReadPacket(p).read))
             /\ arrived' = IF ReadPacket(p).err = Success
                           THEN SubSeq(p, 1, ReadPacket(p).read) ELSE <<>>
             /\ result' = IF ReadPacket(p).err = Success
                          THEN Undecoded ELSE Failed(ReadPacket(p).err)
      BY <2>2 DEF Receive
    <3>2. PICK q \in Seq(Byte) : q = SubSeq(p, 1, ReadPacket(p).read) /\ Len(q) <= ReadSize
      BY ReadPacketIs
    <3>3. ReadPacket(p).err = Success => \E m \in 1..4 : Whole(q, m)
      BY <3>2, ReadPacketIs
    <3>4. readBuf \in Seq(Byte) /\ Len(readBuf) = ReadSize
      BY DEF ReadInv, BufInv
    <3>5. /\ readBuf' \in Seq(Byte) /\ Len(readBuf') = ReadSize
          /\ Agree(readBuf', q, Len(q))
      BY <3>1, <3>2, <3>4, OverIs
    <3>6. BufInv'
      BY <3>5 DEF BufInv
    <3>7. ArrivedInv'
      <4>1. CASE ReadPacket(p).err = Success
        <5>1. arrived' = q
          BY <3>1, <3>2, <4>1
        <5> QED BY <3>2, <3>3, <3>5, <4>1, <5>1 DEF ArrivedInv
      <4>2. CASE ReadPacket(p).err # Success
        BY <3>1, <4>2 DEF ArrivedInv
      <4> QED BY <4>1, <4>2
    <3>8. ResultInv'
      BY <3>1 DEF ResultInv
    <3> QED BY <3>6, <3>7, <3>8 DEF ReadInv
  <2>3. CASE ReceiveCut
    <3>p. PICK p \in Arrivals : \E n \in 1..(ReadPacket(p).read - 1) :
             readBuf' = Over(readBuf, SubSeq(p, 1, n)) /\ arrived' = <<>>
      BY <2>3 DEF ReceiveCut
    <3>1. PICK n \in 1..(ReadPacket(p).read - 1) :
             readBuf' = Over(readBuf, SubSeq(p, 1, n)) /\ arrived' = <<>>
      BY <3>p
    <3>2. /\ p \in Seq(Byte) /\ ReadPacket(p).read \in Nat \ {0}
          /\ ReadPacket(p).read <= ReadSize /\ ReadPacket(p).read <= Len(p)
      BY ReadPacketIs
    <3>3. n \in Nat /\ n <= ReadSize /\ n <= Len(p) /\ 1 <= n + 1 /\ n - 1 + 1 = n
      <4>1. ReadSize \in Nat /\ Len(p) \in Nat
        BY <3>2, PacketAssumption
      <4> QED BY <3>2, <4>1
    <3>4. 1 \in Nat \ {0}
      OBVIOUS
    <3>5. SubSeq(p, 1, n) \in Seq(Byte) /\ Len(SubSeq(p, 1, n)) = n - 1 + 1
      BY <3>2, <3>3, <3>4, PartIs
    <3>6. PICK q \in Seq(Byte) : q = SubSeq(p, 1, n) /\ Len(q) <= ReadSize
      BY <3>3, <3>5
    <3>7. readBuf \in Seq(Byte) /\ Len(readBuf) = ReadSize
      BY DEF ReadInv, BufInv
    <3>8. BufInv'
      BY <3>1, <3>6, <3>7, OverIs DEF BufInv
    <3> QED BY <3>1, <3>8 DEF ReadInv, ArrivedInv, ResultInv
  <2>4. CASE Decode
    BY <2>4 DEF Decode, ReadInv, BufInv, ArrivedInv, ResultInv
  <2>5. CASE Restart
    <3>1. PICK b \in Byte : readBuf' = [i \in 1..ReadSize |-> b]
      BY <2>5, PacketAssumption DEF Restart
    <3>2. BufInv'
      BY <3>1, FreshMemory DEF BufInv
    <3> QED BY <2>5, <3>2 DEF Restart, ReadInv, ArrivedInv, ResultInv
  <2> QED BY <2>1, <2>2, <2>3, <2>4, <2>5 DEF Next
<1> QED BY <1>1, <1>2, PTL DEF Spec

\* The number of packets stays within its bound.
CountInv == packets \in 0..MaxPackets

\* Each packet is counted, and a restart counts anew.
LEMMA CountAlways == Spec => []CountInv
<1>0. MaxPackets \in Nat
  BY PacketAssumption
<1>1. Init => CountInv
  BY <1>0 DEF Init, CountInv
<1>2. CountInv /\ [Next]_vars => CountInv'
  <2> SUFFICES ASSUME CountInv, [Next]_vars
               PROVE  CountInv'
    OBVIOUS
  <2>1. CASE Encode \/ Receive \/ ReceiveCut
    <3>1. packets < MaxPackets /\ packets' = packets + 1
      BY <2>1 DEF Encode, Receive, ReceiveCut, Count
    <3> QED BY <1>0, <3>1 DEF CountInv
  <2>2. CASE Decode \/ UNCHANGED vars
    <3>1. packets' = packets
      BY <2>2 DEF Decode, vars
    <3> QED BY <3>1 DEF CountInv
  <2>3. CASE Restart
    BY <1>0, <2>3 DEF Restart, CountInv
  <2> QED BY <2>1, <2>2, <2>3 DEF Next
<1> QED BY <1>1, <1>2, PTL DEF Spec

\* Both buffers hold bytes, and no packet exceeds the buffer it lies in, whatever is
\* encoded and whatever arrives.
THEOREM TypeCorrect == Spec => []TypeOK
<1>1. SentInv /\ ReadInv /\ CountInv => TypeOK
  <2> SUFFICES ASSUME SentInv, ReadInv, CountInv
               PROVE  TypeOK
    OBVIOUS
  <2>1. sent.out \in Seq(Byte) /\ Len(sent.out) <= sent.size
    <3>1. CASE sent = NothingSent
      <4>1. sent.out = <<>> /\ sent.size = 0
        BY <3>1 DEF NothingSent
      <4> QED BY <4>1
    <3>2. CASE request \in Requests /\ \E size \in WriteSizes : sent = EncodePacket(request, size)
      <4>1. PICK r \in Request, size \in Nat : sent = EncodePacket(r, size)
        BY <3>2, PacketAssumption
      <4>2. LET e == EncodePacket(r, size)
            IN e.size = size /\ e.out \in Seq(Byte) /\ Len(e.out) <= size
        BY EncodePacketIs
      <4> QED BY <4>1, <4>2
    <3> QED BY <3>1, <3>2 DEF SentInv
  <2>2. readBuf \in [1..ReadSize -> Byte]
    <3>1. readBuf \in Seq(Byte) /\ Len(readBuf) = ReadSize
      BY DEF ReadInv, BufInv
    <3> QED BY <3>1
  <2>3. arrived \in Seq(Byte) /\ Len(arrived) <= ReadSize
    <3>1. CASE arrived = <<>>
      <4>1. <<>> \in Seq(Byte) /\ Len(<<>>) = 0 /\ 0 <= ReadSize
        BY PacketAssumption
      <4> QED BY <3>1, <4>1
    <3>2. CASE arrived # <<>>
      BY <3>2 DEF ReadInv, ArrivedInv
    <3> QED BY <3>1, <3>2
  <2> QED BY <2>1, <2>2, <2>3 DEF TypeOK, CountInv
<1> QED BY <1>1, SentAlways, ReadAlways, CountAlways, PTL

\* What a decoder returns depends on the packet alone, never on bytes that earlier
\* packets have left behind it in the buffer, for every packet of every length.
THEOREM FreshOnlyAlways == Spec => []FreshOnly
<1>1. ReadInv => FreshOnly
  <2> SUFFICES ASSUME ReadInv, Decoded, NEW b \in {0, 255}
               PROVE  result = DecodePacket(Over([i \in 1..ReadSize |-> b], arrived))
    BY DEF FreshOnly
  <2>1. /\ arrived \in Seq(Byte) /\ Len(arrived) <= ReadSize
        /\ Agree(readBuf, arrived, Len(arrived))
    BY DEF ReadInv, ArrivedInv, Decoded
  <2>2. PICK m \in 1..4 : Whole(arrived, m)
    BY DEF ReadInv, ArrivedInv, Decoded
  <2>3. readBuf \in Seq(Byte) /\ Len(readBuf) = ReadSize
    BY DEF ReadInv, BufInv
  <2>4. PICK f \in Seq(Byte) : f = [i \in 1..ReadSize |-> b] /\ Len(f) = ReadSize
    <3>1. b \in Byte
      BY DEF Byte
    <3>2. DEFINE g == [i \in 1..ReadSize |-> b]
    <3>3. g \in Seq(Byte) /\ Len(g) = ReadSize
      BY <3>1, FreshMemory
    <3> HIDE DEF g
    <3>4. \E f \in Seq(Byte) : f = g /\ Len(f) = ReadSize
      BY <3>3
    <3> QED BY <3>4, Zenon DEF g
  <2>5. PICK c \in Seq(Byte) : c = Over(f, arrived) /\ Len(c) = ReadSize
                               /\ Agree(c, arrived, Len(arrived))
    BY <2>1, <2>4, OverIs
  <2>6. DecodePacket(readBuf) = DecodePacket(c)
    BY <2>1, <2>2, <2>3, <2>5, DecodeWhole
  <2>7. result = DecodePacket(readBuf)
    BY DEF ReadInv, ResultInv, Decoded
  <2> QED BY <2>4, <2>5, <2>6, <2>7
<1> QED BY <1>1, ReadAlways, PTL

-----------------------------------------------------------------------------
(***************************************************************************)
(* Writing back what was read.                                             *)
(***************************************************************************)
\* Two bytes are what is written for the number they stand for.
LEMMA NumOf ==
  ASSUME NEW x \in Byte, NEW y \in Byte, NEW w, w = 256 * x + y
  PROVE  w \in Word /\ Num(w) = <<x, y>>
<1>1. x \in Nat /\ y \in Nat /\ x < 256 /\ y < 256
  BY Bytes
<1>2. w \in Word
  <2>1. PICK e \in Nat : e = 256 * 256 - 1
    BY SMTT(60)
  <2>2. w \in Nat
    BY <1>1
  <2>3. w <= e
    BY <1>1, <2>1
  <2>4. w \in 0..e
    BY <2>2, <2>3
  <2> QED BY <2>1, <2>4, ZenonT(60) DEF Word
<1>3. w \div 256 = x
  BY <1>1
<1>4. w % 256 = y
  BY <1>1
<1> QED BY <1>2, <1>3, <1>4 DEF Num

\* A number that was read is written as the bytes it was read from.
LEMMA NumFound ==
  ASSUME NEW buf \in Seq(Byte), NEW pos \in Nat, NEW end \in Nat, end <= Len(buf),
         ReadNum(buf, pos, end).err = Success
  PROVE  \E w \in Word : /\ ReadNum(buf, pos, end) = [err |-> Success, next |-> pos + 2, num |-> w]
                         /\ pos + 2 <= end /\ SubSeq(buf, pos + 1, pos + 2) = Num(w)
<1>1. ~(end - pos < 2)
  BY DEF ReadNum, Failed, Success
<1>2. PICK x \in Byte, y \in Byte : x = buf[pos + 1] /\ y = buf[pos + 2]
  <2>1. pos + 1 \in 1..Len(buf) /\ pos + 2 \in 1..Len(buf)
    BY <1>1
  <2> QED BY <2>1
<1>3. PICK w : w = 256 * x + y
  OBVIOUS
<1>4. w \in Word
  BY <1>3, NumOf
<1>5. Num(w) = <<x, y>>
  BY <1>3, NumOf
<1>6. PICK n \in Seq(Byte) : n = Num(w) /\ Len(n) = 2
  BY <1>4, NumIs
<1>7. n[1] = x /\ n[2] = y
  BY <1>5, <1>6
<1>8. PICK m \in Nat \ {0} : m = pos + 1
  OBVIOUS
<1>9. ASSUME NEW i \in 1..Len(n) PROVE buf[m + i - 1] = n[i]
  <2>1. i = 1 \/ i = 2
    BY <1>6
  <2>2. CASE i = 1
    <3>1. m + i - 1 = pos + 1
      BY <1>8, <2>2
    <3> QED BY <1>2, <1>7, <2>2, <3>1
  <2>3. CASE i = 2
    <3>1. m + i - 1 = pos + 2
      BY <1>8, <2>3
    <3> QED BY <1>2, <1>7, <2>3, <3>1
  <2> QED BY <2>1, <2>2, <2>3
<1>10. m + Len(n) <= Len(buf) + 1 /\ m + Len(n) - 1 = pos + 2
  BY <1>1, <1>6, <1>8
<1>11. SubSeq(buf, m, m + Len(n) - 1) = n
  BY <1>9, <1>10, PartEquals
<1>12. SubSeq(buf, pos + 1, pos + 2) = Num(w)
  BY <1>6, <1>8, <1>10, <1>11
<1>13. ReadNum(buf, pos, end) = [err |-> Success, next |-> pos + 2, num |-> w]
  BY <1>1, <1>2, <1>3 DEF ReadNum
<1>14. pos + 2 <= end
  BY <1>1
<1> QED BY <1>4, <1>12, <1>13, <1>14

\* A string that was read is written as the bytes it was read from.
LEMMA StringFound ==
  ASSUME NEW buf \in Seq(Byte), NEW pos \in Nat, NEW end \in Nat, end <= Len(buf),
         ReadString(buf, pos, end).err = Success
  PROVE  \E t \in Text, next \in Nat :
            /\ ReadString(buf, pos, end) = [err |-> Success, next |-> next, data |-> t]
            /\ pos <= next /\ next <= end /\ SubSeq(buf, pos + 1, next) = String(t)
<1>1. PICK len : len = ReadNum(buf, pos, end)
  OBVIOUS
<1>2. ReadString(buf, pos, end)
        = IF len.err # Success THEN len
          ELSE IF end - len.next < len.num THEN Failed("BUFFER_TOO_SHORT")
          ELSE [err |-> Success, next |-> len.next + len.num,
                data |-> SubSeq(buf, len.next + 1, len.next + len.num)]
  BY <1>1 DEF ReadString
<1>3. len.err = Success
  BY <1>2
<1>4. PICK w \in Word : /\ len = [err |-> Success, next |-> pos + 2, num |-> w]
                        /\ pos + 2 <= end /\ SubSeq(buf, pos + 1, pos + 2) = Num(w)
  BY <1>1, <1>3, NumFound, SMTT(60)
<1>5. w \in Nat
  BY SMTT(60) DEF Word
<1>6. ReadString(buf, pos, end)
        = IF end - (pos + 2) < w THEN Failed("BUFFER_TOO_SHORT")
          ELSE [err |-> Success, next |-> pos + 2 + w,
                data |-> SubSeq(buf, pos + 2 + 1, pos + 2 + w)]
  BY <1>2, <1>4
<1>7. ~(end - (pos + 2) < w)
  BY <1>6 DEF Failed, Success
<1>8. PICK k \in Nat, next \in Nat : k = pos + 2 /\ next = pos + 2 + w
  BY <1>5
<1>9. k <= next /\ next <= end /\ next <= Len(buf) /\ next - k = w /\ pos <= k
  BY <1>5, <1>7, <1>8
<1>10. PICK t \in Seq(Byte) : t = SubSeq(buf, k + 1, next) /\ Len(t) = w
  BY <1>9, Between
<1>11. t \in Text
  BY <1>10 DEF Text
<1>12. SubSeq(buf, pos + 1, k) \o SubSeq(buf, k + 1, next) = SubSeq(buf, pos + 1, next)
  BY <1>9, PartsJoin
<1>13. SubSeq(buf, pos + 1, next) = String(t)
  BY <1>4, <1>8, <1>10, <1>12 DEF String
<1>14. ReadString(buf, pos, end) = [err |-> Success, next |-> next, data |-> t]
  BY <1>6, <1>7, <1>8, <1>10
<1>15. pos <= next
  BY <1>9
<1> QED BY <1>9, <1>11, <1>13, <1>14, <1>15

\* The bits of a header are those of a byte.
LEMMA HeaderBits ==
  ASSUME NEW x \in Nat, x < 256
  PROVE  /\ QosOf(x) \in 0..2
         /\ ReadBits(x, 4, 4) = PacketType["publish"] /\ ReadBits(x, 1, 2) # 3 =>
               x = 48 + 8 * Bit(ReadBits(x, 3, 1) = 1) + 2 * QosOf(x) + Bit(ReadBits(x, 0, 1) = 1)
<1>1. /\ ReadBits(x, 4, 4) = (x \div 16) % 16 /\ ReadBits(x, 3, 1) = (x \div 8) % 2
      /\ ReadBits(x, 1, 2) = (x \div 2) % 4 /\ ReadBits(x, 0, 1) = (x \div 1) % 2
  BY DEF ReadBits
<1>2. ReadBits(x, 1, 2) \in 0..3
  BY <1>1
<1>3. QosOf(x) = IF ReadBits(x, 1, 2) = 3 THEN 0 ELSE ReadBits(x, 1, 2)
  BY DEF QosOf
<1>4. QosOf(x) \in 0..2
  BY <1>2, <1>3
<1>5. ASSUME ReadBits(x, 4, 4) = PacketType["publish"], ReadBits(x, 1, 2) # 3
      PROVE  x = 48 + 8 * Bit(ReadBits(x, 3, 1) = 1) + 2 * QosOf(x) + Bit(ReadBits(x, 0, 1) = 1)
  <2>1. (x \div 16) % 16 = 3
    BY <1>1, <1>5 DEF PacketType
  <2>2. PICK d \in 0..1, q \in 0..3, e \in 0..1 :
           d = (x \div 8) % 2 /\ q = (x \div 2) % 4 /\ e = (x \div 1) % 2
    OBVIOUS
  <2>3. x = 48 + 8 * d + 2 * q + e
    BY <2>1, <2>2
  <2>4. Bit(ReadBits(x, 3, 1) = 1) = d /\ Bit(ReadBits(x, 0, 1) = 1) = e /\ QosOf(x) = q
    BY <1>1, <1>3, <1>5, <2>2 DEF Bit
  <2> QED BY <2>3, <2>4
<1> QED BY <1>4, <1>5

\* A PUBLISH that is decoded is one this client could have been asked to send, and
\* its bytes behind the remaining length are those that would be written for it.
LEMMA PublishFound ==
  ASSUME NEW buf \in Seq(Byte), NEW k \in Nat \ {0}, NEW l \in Nat, k + l <= Len(buf),
         ReadVarnum(buf, 1, Len(buf)) = [err |-> Success, next |-> k, num |-> l],
         DecodePublish(buf).err = Success
  PROVE  \E r \in PublishRequest :
            /\ r.type = "publish" /\ r.dup = (ReadBits(buf[1], 3, 1) = 1)
            /\ r.qos = QosOf(buf[1]) /\ r.retained = (ReadBits(buf[1], 0, 1) = 1)
            /\ DecodePublish(buf)
                 = [err |-> Success, dup |-> r.dup, qos |-> r.qos, retained |-> r.retained,
                    id |-> r.id, topic |-> r.topic, payload |-> r.payload]
            /\ FlattenSeq(Frame(r).fields) = SubSeq(buf, k + 1, k + l)
<1>1. PICK n \in Nat : n = k + l /\ k <= n /\ n <= Len(buf)
  OBVIOUS
<1>2. PICK v : v = Opening(buf, "publish")
  OBVIOUS
<1>3. v.err # Success => DecodePublish(buf) = v
  BY <1>2 DEF DecodePublish
<1>4. v = [err |-> Success, next |-> k, num |-> l]
  <2>1. v.err = Success
    BY <1>3
  <2>2. ReadBits(buf[1], 4, 4) = PacketType["publish"]
    BY <1>2, <2>1 DEF Opening, Failed, Success
  <2> QED BY <1>2, <2>2 DEF Opening
<1>5. PublishEnd(buf, v) = n
  BY <1>1, <1>4 DEF PublishEnd
<1>6. PICK x \in Nat : x = buf[1] /\ x < 256
  <2>1. 1 \in 1..Len(buf)
    OBVIOUS
  <2> QED BY <2>1, InBuffer
<1>7. PICK q \in 0..2 : q = QosOf(x)
  BY <1>6, HeaderBits
<1>8. PICK topic : topic = ReadString(buf, k, n)
  OBVIOUS
<1>9. PICK y : y = IF HasId(q) THEN ReadNum(buf, topic.next, n)
                   ELSE [err |-> Success, next |-> topic.next, num |-> 0]
  OBVIOUS
<1>10. DecodePublish(buf)
         = IF l < 2 THEN Failed("REMAINING_LENGTH_MISMATCH")
           ELSE IF Len(buf) - k < l THEN Failed("BUFFER_TOO_SHORT")
           ELSE IF topic.err # Success THEN topic
           ELSE IF y.err # Success THEN y
           ELSE [err |-> Success, dup |-> ReadBits(x, 3, 1) = 1, qos |-> q,
                 retained |-> ReadBits(x, 0, 1) = 1, id |-> y.num,
                 topic |-> topic.data, payload |-> SubSeq(buf, y.next + 1, n)]
  <2>1. v.err = Success /\ v.next = k /\ v.num = l
    BY <1>4
  <2> QED BY <1>2, <1>5, <1>6, <1>7, <1>8, <1>9, <2>1 DEF DecodePublish
<1>11. topic.err = Success /\ y.err = Success
  BY <1>10 DEF Failed, Success
<1>12. PICK t \in Text, i \in Nat :
          /\ topic = [err |-> Success, next |-> i, data |-> t]
          /\ k <= i /\ i <= n /\ SubSeq(buf, k + 1, i) = String(t)
  BY <1>1, <1>8, <1>11, StringFound
<1>13. PICK w \in Word, j \in Nat :
          /\ y = [err |-> Success, next |-> j, num |-> w]
          /\ i <= j /\ j <= n
          /\ SubSeq(buf, k + 1, j) = String(t) \o (IF q > 0 THEN Num(w) ELSE <<>>)
  <2>1. CASE q > 0
    <3>1. y = ReadNum(buf, i, n)
      BY <1>9, <1>12, <2>1 DEF HasId
    <3>2. PICK w \in Word : /\ y = [err |-> Success, next |-> i + 2, num |-> w]
                            /\ i + 2 <= n /\ SubSeq(buf, i + 1, i + 2) = Num(w)
      BY <1>1, <1>11, <3>1, NumFound
    <3>3. PICK j \in Nat : j = i + 2
      OBVIOUS
    <3>4. i <= j /\ j <= n /\ j <= Len(buf)
      BY <1>1, <3>2, <3>3
    <3>5. SubSeq(buf, k + 1, i) \o SubSeq(buf, i + 1, j) = SubSeq(buf, k + 1, j)
      BY <1>12, <3>4, PartsJoin
    <3>6. SubSeq(buf, k + 1, j) = String(t) \o Num(w)
      BY <1>12, <3>2, <3>3, <3>5
    <3> QED BY <2>1, <3>2, <3>3, <3>4, <3>6
  <2>2. CASE ~(q > 0)
    <3>1. y = [err |-> Success, next |-> i, num |-> 0]
      BY <1>9, <1>12, <2>2 DEF HasId
    <3>2. 0 \in Word
      BY DEF Word
    <3>3. String(t) \o <<>> = String(t)
      <4>1. String(t) \in Seq(Byte)
        BY StringIs
      <4> QED BY <4>1, ConcatEmptySeq
    <3>4. i <= i
      OBVIOUS
    <3> QED BY <1>12, <2>2, <3>1, <3>2, <3>3, <3>4
  <2> QED BY <2>1, <2>2
<1>14. PICK payload \in Seq(Byte) : payload = SubSeq(buf, j + 1, n)
  BY <1>1, <1>13, Between
<1>15. SubSeq(buf, k + 1, n) = (String(t) \o (IF q > 0 THEN Num(w) ELSE <<>>)) \o payload
  <2>1. k <= j /\ j <= n /\ n <= Len(buf)
    BY <1>1, <1>12, <1>13
  <2>2. SubSeq(buf, k + 1, j) \o SubSeq(buf, j + 1, n) = SubSeq(buf, k + 1, n)
    BY <2>1, PartsJoin
  <2> QED BY <1>13, <1>14, <2>2
<1>16. PICK dup \in BOOLEAN, retained \in BOOLEAN :
          dup = (ReadBits(x, 3, 1) = 1) /\ retained = (ReadBits(x, 0, 1) = 1)
  OBVIOUS
<1>17. DecodePublish(buf) = [err |-> Success, dup |-> dup, qos |-> q, retained |-> retained,
                             id |-> w, topic |-> t, payload |-> payload]
  <2>1. /\ y.num = w /\ y.next = j /\ topic.data = t
    BY <1>12, <1>13
  <2>2. ~(l < 2) /\ ~(Len(buf) - k < l)
    BY <1>10 DEF Failed, Success
  <2>3. DecodePublish(buf)
          = [err |-> Success, dup |-> ReadBits(x, 3, 1) = 1, qos |-> q,
             retained |-> ReadBits(x, 0, 1) = 1, id |-> y.num,
             topic |-> topic.data, payload |-> SubSeq(buf, y.next + 1, n)]
    BY <1>10, <1>11, <2>2
  <2> QED BY <1>14, <1>16, <2>1, <2>3
<1>18. PICK r : r = [type |-> "publish", dup |-> dup, qos |-> q, retained |-> retained, id |-> w,
                     topic |-> t, payload |-> payload]
  OBVIOUS
<1>19. r \in PublishRequest
  BY <1>18 DEF PublishRequest
<1>20. FlattenSeq(Frame(r).fields) = SubSeq(buf, k + 1, k + l)
  <2>1. FlattenSeq(Frame(r).fields)
          = (String(r.topic) \o (IF r.qos > 0 THEN Num(r.id) ELSE <<>>)) \o r.payload
    BY <1>19, PublishBytes
  <2> QED BY <1>1, <1>15, <1>18, <2>1
<1> QED BY <1>6, <1>7, <1>16, <1>17, <1>18, <1>19, <1>20

\* A PUBLISH that was decoded, and whose length had no byte to spare, is written back
\* as the bytes that were read.
LEMMA PublishBack ==
  ASSUME NEW buf \in Seq(Byte), NEW p \in Seq(Byte), NEW m \in 1..4, Whole(p, m),
         Agree(buf, p, Len(p)), DecodePublish(buf).err = Success,
         VarnumFits(Number(p, 1, m)), m <= DigitsOf(Number(p, 1, m)),
         ReadBits(p[1], 4, 4) = PacketType["publish"], ReadBits(p[1], 1, 2) # 3,
         NEW size \in Nat, Len(p) <= size
  PROVE  \E r \in PublishRequest :
            /\ r.type = "publish"
            /\ DecodePublish(buf)
                 = [err |-> Success, dup |-> r.dup, qos |-> r.qos, retained |-> r.retained,
                    id |-> r.id, topic |-> r.topic, payload |-> r.payload]
            /\ EncodePacket(r, size).out = p
<1>1. PICK k \in Nat \ {0}, l \in Nat :
         /\ k = 1 + m /\ l = Number(p, 1, m) /\ k + l = Len(p)
         /\ ReadVarnum(buf, 1, Len(buf)) = [err |-> Success, next |-> k, num |-> l]
  <2>1. /\ Number(p, 1, m) \in Nat /\ 1 + m + Number(p, 1, m) = Len(p)
        /\ ReadVarnum(buf, 1, Len(buf)) = [err |-> Success, next |-> 1 + m, num |-> Number(p, 1, m)]
    BY WholeRead
  <2>2. 1 + m \in Nat \ {0}
    OBVIOUS
  <2> QED BY <2>1, <2>2
<1>2. k + l <= Len(buf) /\ \A i \in 1..(k + l) : buf[i] = p[i]
  BY <1>1 DEF Agree
<1>3. buf[1] = p[1]
  <2>1. 1 \in 1..(k + l)
    OBVIOUS
  <2> QED BY <1>2, <2>1
<1>4. PICK r \in PublishRequest :
         /\ r.type = "publish" /\ r.dup = (ReadBits(p[1], 3, 1) = 1)
         /\ r.qos = QosOf(p[1]) /\ r.retained = (ReadBits(p[1], 0, 1) = 1)
         /\ DecodePublish(buf)
              = [err |-> Success, dup |-> r.dup, qos |-> r.qos, retained |-> r.retained,
                 id |-> r.id, topic |-> r.topic, payload |-> r.payload]
         /\ FlattenSeq(Frame(r).fields) = SubSeq(buf, k + 1, k + l)
  <2>1. \E r \in PublishRequest :
           /\ r.type = "publish" /\ r.dup = (ReadBits(buf[1], 3, 1) = 1)
           /\ r.qos = QosOf(buf[1]) /\ r.retained = (ReadBits(buf[1], 0, 1) = 1)
           /\ DecodePublish(buf)
                = [err |-> Success, dup |-> r.dup, qos |-> r.qos, retained |-> r.retained,
                   id |-> r.id, topic |-> r.topic, payload |-> r.payload]
           /\ FlattenSeq(Frame(r).fields) = SubSeq(buf, k + 1, k + l)
    BY <1>1, <1>2, PublishFound, ZenonT(60)
  <2> QED BY <1>3, <2>1, ZenonT(60)
<1>5. Frame(r).header = p[1]
  <2>1. PICK x \in Nat : x = p[1] /\ x < 256
    <3>1. 1 \in 1..Len(p)
      BY <1>1
    <3> QED BY <3>1, InBuffer
  <2>2. x = 48 + 8 * Bit(r.dup) + 2 * r.qos + Bit(r.retained)
    BY <1>4, <2>1, HeaderBits
  <2> QED BY <2>1, <2>2, PublishHeader
<1>6. SubSeq(buf, k + 1, k + l) \in Seq(Byte) /\ Len(SubSeq(buf, k + 1, k + l)) = l
  <2>1. PICK n \in Nat : n = k + l /\ k <= n /\ n <= Len(buf) /\ n - k = l
    BY <1>2
  <2>2. SubSeq(buf, k + 1, n) \in Seq(Byte) /\ Len(SubSeq(buf, k + 1, n)) = n - k
    BY <2>1, Between
  <2> QED BY <2>1, <2>2
<1>7. Frame(r).length = l
  BY <1>4, <1>6, PublishBytes DEF Exact
<1>8. DigitsOf(l) = m /\ WrittenAt(p, 1, l)
  <2>1. EndsAt(p, 1, m) /\ 1 + m <= Len(p)
    BY DEF Whole
  <2>2. m <= DigitsOf(l)
    BY <1>1
  <2> QED BY <1>1, <2>1, <2>2, VarnumShortest
<1>9. VarnumFits(l)
  BY <1>1
<1>10. Varnum(l) \in Seq(Byte) /\ Len(Varnum(l)) = m
  <2>1. l < 128 * 128 * 128 * 128
    BY <1>9 DEF VarnumFits
  <2> QED BY <1>8, <2>1, VarnumSize
<1>11. PICK e : /\ e = EncodePacket(r, size)
                /\ e.out = (<<p[1]>> \o Varnum(l)) \o SubSeq(buf, k + 1, k + l)
  <2>1. r \in Request
    BY DEF Request
  <2>2. /\ EncodePacket(r, size).err
             = IF ~VarnumFits(l) THEN "REMAINING_LENGTH_OVERFLOW"
               ELSE IF 1 + DigitsOf(l) + l <= size THEN Success ELSE "BUFFER_TOO_SHORT"
        /\ EncodePacket(r, size).err = Success =>
              EncodePacket(r, size).out
                = (<<Frame(r).header>> \o Varnum(l)) \o FlattenSeq(Frame(r).fields)
    BY <1>7, <2>1, EncodePacketIs
  <2>3. 1 + DigitsOf(l) + l <= size
    BY <1>1, <1>8
  <2>4. EncodePacket(r, size).err = Success
    BY <1>9, <2>2, <2>3
  <2> QED BY <1>4, <1>5, <2>2, <2>4
<1>12. <<p[1]>> = SubSeq(p, 1, 1)
  OBVIOUS
<1>13. Varnum(l) = SubSeq(p, 1 + 1, k)
  <2>1. PICK d \in Seq(Byte) : d = Varnum(l) /\ Len(d) = m
    BY <1>10
  <2>2. PICK i \in Nat \ {0} : i = 1 + 1
    OBVIOUS
  <2>3. i + Len(d) <= Len(p) + 1 /\ i + Len(d) - 1 = k
    BY <1>1, <2>1, <2>2
  <2>4. ASSUME NEW x \in 1..Len(d) PROVE p[i + x - 1] = d[x]
    <3>1. x \in 1..DigitsOf(l) /\ i + x - 1 = 1 + x
      BY <1>8, <2>1, <2>2
    <3> QED BY <1>8, <2>1, <3>1 DEF WrittenAt
  <2>5. SubSeq(p, i, i + Len(d) - 1) = d
    BY <2>3, <2>4, PartEquals
  <2> QED BY <2>1, <2>2, <2>3, <2>5
<1>14. SubSeq(buf, k + 1, k + l) = SubSeq(p, k + 1, k + l)
  <2>1. PICK n \in Nat, i \in Nat \ {0} : n = k + l /\ i = k + 1 /\ i <= n + 1
    OBVIOUS
  <2>2. Agree(buf, p, n)
    BY <1>1, <2>1
  <2>3. n <= n
    OBVIOUS
  <2>4. \A a \in Nat \ {0}, z \in Nat :
           z <= n /\ a <= z + 1 => SubSeq(buf, a, z) = SubSeq(p, a, z)
    BY <2>2, PartSame, ZenonT(60)
  <2>5. SubSeq(buf, i, n) = SubSeq(p, i, n)
    BY <2>1, <2>3, <2>4
  <2> QED BY <2>1, <2>5
<1>15. (SubSeq(p, 1, 1) \o SubSeq(p, 1 + 1, k)) \o SubSeq(p, k + 1, k + l) = p
  <2>1. PICK n \in Nat : n = k + l /\ n = Len(p)
    BY <1>1
  <2>2. 0 <= 1 /\ 1 <= k /\ k <= n /\ n <= Len(p)
    BY <1>1, <2>1
  <2>3. SubSeq(p, 0 + 1, 1) \o SubSeq(p, 1 + 1, k) = SubSeq(p, 0 + 1, k)
    <3>1. k <= Len(p)
      BY <2>1, <2>2
    <3> QED BY <2>2, <3>1, PartsJoin
  <2>4. SubSeq(p, 0 + 1, k) \o SubSeq(p, k + 1, n) = SubSeq(p, 0 + 1, n)
    <3>1. 0 <= k
      BY <2>2
    <3> QED BY <2>2, <3>1, PartsJoin
  <2>5. SubSeq(p, 1, Len(p)) = p
    <3>1. 1 + Len(p) <= Len(p) + 1 /\ 1 + Len(p) - 1 = Len(p)
      OBVIOUS
    <3>2. \A i \in 1..Len(p) : p[1 + i - 1] = p[i]
      OBVIOUS
    <3>3. SubSeq(p, 1, 1 + Len(p) - 1) = p
      BY <3>1, <3>2, PartEquals
    <3> QED BY <3>1, <3>3
  <2> QED BY <2>1, <2>3, <2>4, <2>5, SMTT(60)
<1>16. e.out = p
  BY <1>11, <1>12, <1>13, <1>14, <1>15
<1> QED BY <1>4, <1>11, <1>16

\* A publish that is accepted is decoded without loss, for every packet of every
\* length and a read buffer of every size: encoding the result gives back the packet,
\* if its length was encoded in the shortest way, is not the one legal length that the
\* encoder refuses, and its QoS is not the reserved one.
THEOREM PublishLosslessAlways == Spec => []PublishLossless
<1>1. ReadInv => PublishLossless
  <2> DEFINE again == [type |-> "publish", dup |-> result.dup, qos |-> result.qos,
                       retained |-> result.retained, id |-> result.id,
                       topic |-> result.topic, payload |-> result.payload]
             v == ReadVarnum(arrived, 1, Len(arrived))
  <2> SUFFICES ASSUME ReadInv, Decoded, result.err = Success,
                      ReadBits(arrived[1], 4, 4) = PacketType.publish,
                      ~(v.next > 1 + DigitsOf(v.num)), VarnumFits(v.num),
                      ReadBits(arrived[1], 1, 2) # 3
               PROVE  EncodePacket(again, ReadSize).out = arrived
    BY DEF PublishLossless
  <2>1. /\ arrived \in Seq(Byte) /\ Len(arrived) <= ReadSize
        /\ Agree(readBuf, arrived, Len(arrived))
    BY DEF ReadInv, ArrivedInv, Decoded
  <2>2. PICK m \in 1..4 : Whole(arrived, m)
    BY DEF ReadInv, ArrivedInv, Decoded
  <2>3. readBuf \in Seq(Byte) /\ Len(readBuf) = ReadSize /\ ReadSize \in Nat
    BY PacketAssumption DEF ReadInv, BufInv
  <2>4. v = [err |-> Success, next |-> 1 + m, num |-> Number(arrived, 1, m)]
        /\ Number(arrived, 1, m) \in Nat
    <3>1. Agree(arrived, arrived, Len(arrived))
      BY <2>1 DEF Agree
    <3> QED BY <2>1, <2>2, <3>1, WholeRead
  <2> HIDE DEF v
  <2>5. VarnumFits(Number(arrived, 1, m)) /\ m <= DigitsOf(Number(arrived, 1, m))
    <3>1. PICK n \in Nat : n = Number(arrived, 1, m)
      BY <2>4
    <3>2. v.next = 1 + m /\ v.num = n
      BY <2>4, <3>1
    <3>3. VarnumFits(n)
      BY <3>2
    <3>4. n < 128 * 128 * 128 * 128
      BY <3>3 DEF VarnumFits
    <3>5. DigitsOf(n) \in 1..4
      BY <3>4, VarnumSize
    <3>6. m <= DigitsOf(n)
      BY <3>2, <3>5
    <3> QED BY <3>1, <3>3, <3>6
  <2>6. arrived[1] = readBuf[1]
    <3>1. 1 \in 1..Len(arrived)
      BY <2>1, <2>2 DEF Whole
    <3> QED BY <2>1, <3>1 DEF Agree
  <2>7. result = DecodePublish(readBuf)
    <3>1. result = DecodePacket(readBuf)
      BY DEF ReadInv, ResultInv, Decoded
    <3>2. (CHOOSE t \in Receivable : PacketType[t] = ReadBits(readBuf[1], 4, 4)) = "publish"
      BY <2>6 DEF Receivable, Acks, PacketType
    <3> QED BY <3>1, <3>2 DEF DecodePacket, Acks
  <2>8. PICK r \in PublishRequest :
           /\ r.type = "publish"
           /\ DecodePublish(readBuf)
                = [err |-> Success, dup |-> r.dup, qos |-> r.qos, retained |-> r.retained,
                   id |-> r.id, topic |-> r.topic, payload |-> r.payload]
           /\ EncodePacket(r, ReadSize).out = arrived
    BY <2>1, <2>2, <2>3, <2>5, <2>7, PublishBack
  <2>9. again = r
    <3>1. r = [type |-> r.type, dup |-> r.dup, qos |-> r.qos, retained |-> r.retained,
               id |-> r.id, topic |-> r.topic, payload |-> r.payload]
      BY DEF PublishRequest
    <3> QED BY <2>7, <2>8, <3>1
  <2> QED BY <2>8, <2>9
<1> QED BY <1>1, ReadAlways, PTL
=============================================================================

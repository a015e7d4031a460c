--------------------------- MODULE MqttPacketLemmas ---------------------------
(***************************************************************************)
(* What the operators of MqttPacket compute, for every input: sums, the    *)
(* variable-length number and the writes of an encoder.                    *)
(***************************************************************************)
EXTENDS MqttPacket, SequenceTheorems, WellFoundedInduction, TLAPS

-----------------------------------------------------------------------------
(***************************************************************************)
(* Induction.  The library's induction theorems take a predicate as a      *)
(* parameter, which no prover here can instantiate; over a set of numbers  *)
(* the principle follows from the well-foundedness of <.                   *)
(***************************************************************************)
\* Every set of natural numbers that is not empty has a least element.
LEMMA LeastNat ==
  ASSUME NEW T, T \subseteq Nat, T # {}
  PROVE  \E x \in T : \A y \in T : x <= y
<1>1. PICK x \in T : \A y \in T : ~(<<y, x>> \in OpToRel(<, Nat))
  BY NatLessThanWellFounded, WFMin
<1>2. \A m, n \in Nat : m < n => <<m, n>> \in OpToRel(<, Nat)
  BY SMT DEF OpToRel
<1>3. ASSUME NEW y \in T PROVE x <= y
  <2>1. ~(y < x)
    BY <1>1, <1>2
  <2> QED BY <2>1
<1> QED BY <1>3

\* A set that holds 0 and, with each number below N, the next one holds 0..N.
LEMMA Induction ==
  ASSUME NEW N \in Nat, NEW S, 0 \in S, \A n \in 0..(N - 1) : n \in S => n + 1 \in S
  PROVE  \A n \in 0..N : n \in S
<1> DEFINE T == {n \in 0..N : n \notin S}
<1> SUFFICES ASSUME T # {} PROVE FALSE
  OBVIOUS
<1>1. PICK x \in T : \A y \in T : x <= y
  <2>1. T \subseteq Nat
    OBVIOUS
  <2> HIDE DEF T
  <2> QED BY <2>1, LeastNat
<1>2. x # 0
  OBVIOUS
<1>3. x - 1 \in 0..(N - 1) /\ x - 1 \in S
  BY <1>1, <1>2
<1> QED BY <1>3

-----------------------------------------------------------------------------
(***************************************************************************)
(* Sums.                                                                   *)
(***************************************************************************)
\* f is the sequence of the sums of s, from the empty one to that of all of s.
Sums(f, s) == /\ f \in [0..Len(s) -> Nat] /\ f[0] = 0
              /\ \A n \in 1..Len(s) : f[n] = f[n - 1] + s[n]

\* Every sequence of numbers has its sums.
LEMMA SumsExist ==
  ASSUME NEW s \in Seq(Nat)
  PROVE  \E f : Sums(f, s)
<1> DEFINE P(N) == \E f \in [0..N -> Nat] :
                      f[0] = 0 /\ \A n \in 1..N : f[n] = f[n - 1] + s[n]
           S == {N \in Nat : P(N)}
<1>0. Len(s) \in Nat
  OBVIOUS
<1>1. P(0)
  <2> DEFINE f == [n \in 0..0 |-> 0]
  <2>1. f \in [0..0 -> Nat] /\ f[0] = 0 /\ \A n \in 1..0 : f[n] = f[n - 1] + s[n]
    OBVIOUS
  <2> QED BY <2>1
<1>2. ASSUME NEW N \in 0..(Len(s) - 1), P(N) PROVE P(N + 1)
  <2>1. PICK f \in [0..N -> Nat] : f[0] = 0 /\ \A n \in 1..N : f[n] = f[n - 1] + s[n]
    BY <1>2
  <2>2. s[N + 1] \in Nat
    OBVIOUS
  <2>3. PICK g : g = [n \in 0..(N + 1) |-> IF n <= N THEN f[n] ELSE f[N] + s[N + 1]]
    OBVIOUS
  <2>4. g \in [0..(N + 1) -> Nat]
    BY <2>2, <2>3
  <2>5. g[0] = 0 /\ \A n \in 1..(N + 1) : g[n] = g[n - 1] + s[n]
    BY <2>1, <2>3
  <2> QED BY <2>4, <2>5
<1> HIDE DEF P
<1>3. 0 \in S /\ \A n \in 0..(Len(s) - 1) : n \in S => n + 1 \in S
  BY <1>1, <1>2
<1>4. \A n \in 0..Len(s) : n \in S
  <2> HIDE DEF S
  <2> QED BY <1>0, <1>3, Induction
<1>5. P(Len(s))
  BY <1>0, <1>4
<1> QED BY <1>5 DEF P, Sums

\* Total is the last of the sums.
LEMMA TotalIs ==
  ASSUME NEW s \in Seq(Nat), NEW f, Sums(f, s)
  PROVE  Total(s) = f[Len(s)] /\ Total(s) \in Nat
<1> DEFINE N == Len(s)
           F(h) == [n \in 0..N |-> IF n = 0 THEN 0 ELSE h[n - 1] + s[n]]
           g == CHOOSE h : h = F(h)
<1>0. N \in Nat
  OBVIOUS
<1>1. f \in [0..N -> Nat] /\ f[0] = 0 /\ \A n \in 1..N : f[n] = f[n - 1] + s[n]
  BY DEF Sums
<1>2. f = F(f)
  BY <1>0, <1>1
<1>3. g = F(g)
  <2> HIDE DEF F
  <2> QED BY <1>2
<1>4. Total(s) = g[N]
  BY DEF Total
<1> HIDE DEF g
<1>5. g[0] = 0 /\ \A n \in 1..N : g[n] = g[n - 1] + s[n]
  BY <1>0, <1>3
<1>6. \A n \in 0..N : g[n] = f[n]
  <2> DEFINE S == {n \in 0..N : g[n] = f[n]}
  <2>1. 0 \in S /\ \A n \in 0..(N - 1) : n \in S => n + 1 \in S
     BY <1>0, <1>1, <1>5
  <2>2. \A n \in 0..N : n \in S
    <3> HIDE DEF S, N
    <3> QED BY <1>0, <2>1, Induction
  <2> QED BY <1>0, <2>2
<1> QED BY <1>0, <1>1, <1>4, <1>6

\* The sum of two sequences one after the other.
LEMMA TotalConcat ==
  ASSUME NEW s \in Seq(Nat), NEW t \in Seq(Nat)
  PROVE  Total(s \o t) = Total(s) + Total(t)
<1>1. PICK f : Sums(f, s)
  BY SumsExist
<1>2. PICK g : Sums(g, t)
  BY SumsExist
<1>3. f \in [0..Len(s) -> Nat] /\ f[0] = 0 /\ \A n \in 1..Len(s) : f[n] = f[n - 1] + s[n]
  BY <1>1 DEF Sums
<1>4. g \in [0..Len(t) -> Nat] /\ g[0] = 0 /\ \A n \in 1..Len(t) : g[n] = g[n - 1] + t[n]
  BY <1>2 DEF Sums
<1>5. PICK h : h = [n \in 0..(Len(s) + Len(t)) |->
                      IF n <= Len(s) THEN f[n] ELSE f[Len(s)] + g[n - Len(s)]]
  OBVIOUS
<1>6. s \o t \in Seq(Nat) /\ Len(s \o t) = Len(s) + Len(t)
  OBVIOUS
<1>7. Sums(h, s \o t)
  <2>0. Len(s) \in Nat /\ Len(t) \in Nat
    OBVIOUS
  <2>1. h \in [0..(Len(s) + Len(t)) -> Nat] /\ h[0] = 0
    <3>1. ASSUME NEW n \in 0..(Len(s) + Len(t)) PROVE h[n] \in Nat
      <4>1. CASE n <= Len(s)
        BY <1>3, <1>5, <4>1, <2>0
      <4>2. CASE n > Len(s)
        <5>1. h[n] = f[Len(s)] + g[n - Len(s)]
          BY <1>5, <4>2, <2>0
        <5>2. n - Len(s) \in 0..Len(t) /\ Len(s) \in 0..Len(s)
          BY <4>2, <2>0
        <5>3. f[Len(s)] \in Nat
          BY <1>3, <5>2
        <5>4. g[n - Len(s)] \in Nat
          BY <1>4, <5>2
        <5> QED BY <5>1, <5>3, <5>4
      <4> QED BY <4>1, <4>2, <2>0
    <3>2. h[0] = 0
      BY <1>3, <1>5, <2>0
    <3>3. \A n \in 0..(Len(s) + Len(t)) :
             (IF n <= Len(s) THEN f[n] ELSE f[Len(s)] + g[n - Len(s)]) \in Nat
      BY <1>5, <3>1
    <3>4. h \in [0..(Len(s) + Len(t)) -> Nat]
      BY <1>5, <3>3, Zenon
    <3> QED BY <3>2, <3>4
  <2>2. ASSUME NEW n \in 1..(Len(s) + Len(t)) PROVE h[n] = h[n - 1] + (s \o t)[n]
    <3>1. CASE n <= Len(s)
      BY <1>3, <1>5, <3>1
    <3>2. CASE n = Len(s) + 1
      BY <1>3, <1>4, <1>5, <3>2
    <3>3. CASE n > Len(s) + 1
      <4>1. n - Len(s) \in 1..Len(t) /\ (s \o t)[n] = t[n - Len(s)]
        BY <3>3
      <4>2. g[n - Len(s)] = g[(n - Len(s)) - 1] + t[n - Len(s)]
        BY <1>4, <4>1
      <4>3. h[n] = f[Len(s)] + g[n - Len(s)]
        BY <1>5, <3>3
      <4>4. h[n - 1] = f[Len(s)] + g[(n - Len(s)) - 1]
        <5>1. n - 1 \in 0..(Len(s) + Len(t)) /\ ~(n - 1 <= Len(s))
              /\ (n - 1) - Len(s) = (n - Len(s)) - 1
          BY <3>3, <2>0
        <5> QED BY <1>5, <5>1
      <4>5. f[Len(s)] \in Nat /\ g[(n - Len(s)) - 1] \in Nat /\ t[n - Len(s)] \in Nat
        <5>1. Len(s) \in 0..Len(s) /\ (n - Len(s)) - 1 \in 0..Len(t)
          BY <4>1, <2>0
        <5>2. f[Len(s)] \in Nat
          BY <1>3, <5>1
        <5>3. g[(n - Len(s)) - 1] \in Nat
          BY <1>4, <5>1
        <5>4. t[n - Len(s)] \in Nat
          BY <4>1
        <5> QED BY <5>2, <5>3, <5>4
      <4> QED BY <4>1, <4>2, <4>3, <4>4, <4>5
    <3> QED BY <3>1, <3>2, <3>3
  <2> QED BY <1>6, <2>1, <2>2 DEF Sums
<1>8. h[Len(s \o t)] = f[Len(s)] + g[Len(t)]
  <2>1. CASE Len(t) = 0
    BY <1>3, <1>4, <1>5, <1>6, <2>1
  <2>2. CASE Len(t) > 0
    BY <1>3, <1>4, <1>5, <1>6, <2>2
  <2> QED BY <2>1, <2>2
<1> QED BY <1>1, <1>2, <1>6, <1>7, <1>8, TotalIs

\* The sums of at most four digits.
LEMMA TotalShort ==
  ASSUME NEW s \in Seq(Nat)
  PROVE  /\ Total(s) \in Nat
         /\ Len(s) = 0 => Total(s) = 0
         /\ Len(s) = 1 => Total(s) = s[1]
         /\ Len(s) = 2 => Total(s) = s[1] + s[2]
         /\ Len(s) = 3 => Total(s) = s[1] + s[2] + s[3]
         /\ Len(s) = 4 => Total(s) = s[1] + s[2] + s[3] + s[4]
<1>1. PICK f : Sums(f, s)
  BY SumsExist
<1>2. f \in [0..Len(s) -> Nat] /\ f[0] = 0 /\ \A n \in 1..Len(s) : f[n] = f[n - 1] + s[n]
  BY <1>1 DEF Sums
<1>3. Total(s) = f[Len(s)] /\ Total(s) \in Nat
  BY <1>1, TotalIs
<1>4. Len(s) >= 1 => f[1] = s[1]
  BY <1>2
<1>5. Len(s) >= 2 => f[2] = s[1] + s[2]
  BY <1>2, <1>4
<1>6. Len(s) >= 3 => f[3] = s[1] + s[2] + s[3]
  BY <1>2, <1>5
<1>7. Len(s) >= 4 => f[4] = s[1] + s[2] + s[3] + s[4]
  BY <1>2, <1>6
<1>8. Len(s) = 0 => Total(s) = 0
  BY <1>2, <1>3
<1>9. ASSUME NEW k \in 1..4, Len(s) = k PROVE Total(s) = f[k]
  BY <1>3, <1>9
<1> QED BY <1>3, <1>4, <1>5, <1>6, <1>7, <1>8, <1>9

-----------------------------------------------------------------------------
(***************************************************************************)
(* The variable-length number.                                             *)
(***************************************************************************)
\* Min is the least element of a set of numbers that has one.
LEMMA MinIs ==
  ASSUME NEW S, S \subseteq Int, NEW m \in S, \A k \in S : m <= k
  PROVE  Min(S) = m
<1>1. \E x \in S : \A y \in S : x <= y
  OBVIOUS
<1>2. Min(S) \in S /\ \A y \in S : Min(S) <= y
  BY <1>1 DEF Min
<1>3. Min(S) <= m /\ m <= Min(S) /\ Min(S) \in Int /\ m \in Int
  BY <1>2
<1> QED BY <1>3

\* The bytes are the numbers below 256.
LEMMA Bytes ==
  ASSUME NEW x
  PROVE  x \in Byte <=> x \in Nat /\ x < 256
BY DEF Byte

\* What lies in a buffer is a byte.
LEMMA InBuffer ==
  ASSUME NEW buf \in Seq(Byte), NEW i \in 1..Len(buf)
  PROVE  buf[i] \in Nat /\ buf[i] < 256
<1>1. buf[i] \in Byte
  OBVIOUS
<1> QED BY <1>1, Bytes

\* The first m bytes behind pos are a variable-length number.
EndsAt(buf, pos, m) == /\ m \in 1..4 /\ buf[pos + m] < 128
                       /\ \A k \in 1..(m - 1) : buf[pos + k] >= 128

\* The number that the m bytes behind pos stand for.
Number(buf, pos, m) == Total([i \in 1..m |-> (buf[pos + i] % 128) * Weight[i]])

\* A number whose bytes are all there is read.
LEMMA VarnumRead ==
  ASSUME NEW buf \in Seq(Byte), NEW pos \in Nat, NEW end \in Nat, end <= Len(buf),
         NEW m \in Nat, EndsAt(buf, pos, m), m <= end - pos
  PROVE  ReadVarnum(buf, pos, end) = [err |-> Success, next |-> pos + m, num |-> Number(buf, pos, m)]
<1> DEFINE last == {k \in 1..4 : k <= end - pos /\ buf[pos + k] < 128}
<1>1. m \in last
  BY DEF EndsAt
<1>2. ASSUME NEW k \in last PROVE m <= k
  <2> SUFFICES ASSUME k < m PROVE FALSE
    BY DEF EndsAt
  <2>1. k \in 1..(m - 1)
    BY DEF EndsAt
  <2>2. buf[pos + k] \in Int /\ buf[pos + k] < 128
    <3>1. pos + k \in 1..Len(buf)
      OBVIOUS
    <3> QED BY <3>1, InBuffer
  <2>3. buf[pos + k] >= 128
    BY <2>1 DEF EndsAt
  <2> QED BY <2>2, <2>3
<1>3. Min(last) = m
  <2>1. last \subseteq Int
    OBVIOUS
  <2> HIDE DEF last
  <2> QED BY <1>1, <1>2, <2>1, MinIs
<1> QED BY <1>1, <1>3 DEF ReadVarnum, Number

\* A number that is read has its bytes behind pos.
LEMMA VarnumFound ==
  ASSUME NEW buf \in Seq(Byte), NEW pos \in Nat, NEW end \in Nat, end <= Len(buf),
         ReadVarnum(buf, pos, end).err = Success
  PROVE  \E m \in 1..4 : EndsAt(buf, pos, m) /\ m <= end - pos
<1> DEFINE last == {k \in 1..4 : k <= end - pos /\ buf[pos + k] < 128}
<1>1. last # {}
  BY DEF ReadVarnum, Failed, Success
<1>2. PICK m \in last : \A k \in last : m <= k
  <2>1. last \subseteq Nat
    OBVIOUS
  <2> HIDE DEF last
  <2> QED BY <1>1, <2>1, LeastNat
<1>3. ASSUME NEW k \in 1..(m - 1) PROVE buf[pos + k] >= 128
  <2>1. k \notin last
    BY <1>2
  <2>2. buf[pos + k] \in Int
    <3>1. pos + k \in 1..Len(buf)
      OBVIOUS
    <3> QED BY <3>1, InBuffer
  <2> QED BY <2>1, <2>2
<1> QED BY <1>3 DEF EndsAt

\* A number whose bytes are not all there is too short, if fewer than five are
\* left.
LEMMA VarnumShort ==
  ASSUME NEW buf \in Seq(Byte), NEW pos \in Nat, NEW end \in Nat, end <= Len(buf),
         ReadVarnum(buf, pos, end).err # Success
  PROVE  /\ \A k \in 1..4 : k <= end - pos => buf[pos + k] >= 128
         /\ ReadVarnum(buf, pos, end).err
              = IF end - pos < 5 THEN "BUFFER_TOO_SHORT" ELSE "VARNUM_OVERFLOW"
<1> DEFINE last == {k \in 1..4 : k <= end - pos /\ buf[pos + k] < 128}
<1>1. last = {}
  BY DEF ReadVarnum
<1>2. ASSUME NEW k \in 1..4, k <= end - pos PROVE buf[pos + k] >= 128
  <2>1. buf[pos + k] \in Int
    <3>1. pos + k \in 1..Len(buf)
      BY <1>2
    <3> QED BY <3>1, InBuffer
  <2>2. ~(buf[pos + k] < 128)
    BY <1>1, <1>2
  <2> QED BY <2>1, <2>2
<1>3. ReadVarnum(buf, pos, end)
        = Failed(IF end - pos < 5 THEN "BUFFER_TOO_SHORT" ELSE "VARNUM_OVERFLOW")
  BY <1>1 DEF ReadVarnum
<1> QED BY <1>2, <1>3 DEF Failed

\* The value of at most four digits.
LEMMA NumberIs ==
  ASSUME NEW buf \in Seq(Byte), NEW pos \in Nat, NEW m \in 1..4, pos + m <= Len(buf)
  PROVE  /\ Number(buf, pos, m) \in Nat
         /\ m = 1 => Number(buf, pos, m) = buf[pos + 1] % 128
         /\ m = 2 => Number(buf, pos, m) = (buf[pos + 1] % 128) + (buf[pos + 2] % 128) * 128
         /\ m = 3 => Number(buf, pos, m) = (buf[pos + 1] % 128) + (buf[pos + 2] % 128) * 128
                                           + (buf[pos + 3] % 128) * (128 * 128)
         /\ m = 4 => Number(buf, pos, m) = (buf[pos + 1] % 128) + (buf[pos + 2] % 128) * 128
                                           + (buf[pos + 3] % 128) * (128 * 128)
                                           + (buf[pos + 4] % 128) * (128 * 128 * 128)
<1>1. PICK s : s = [i \in 1..m |-> (buf[pos + i] % 128) * Weight[i]]
  OBVIOUS
<1>2. Weight[1] = 1 /\ Weight[2] = 128 /\ Weight[3] = 128 * 128 /\ Weight[4] = 128 * 128 * 128
  BY DEF Weight
<1>3. ASSUME NEW i \in 1..m PROVE buf[pos + i] % 128 \in Nat /\ s[i] \in Nat
  <2>1. pos + i \in 1..Len(buf)
    OBVIOUS
  <2>2. buf[pos + i] % 128 \in Nat
    <3>1. buf[pos + i] \in Nat
      BY <2>1, InBuffer
    <3> QED BY <3>1
  <2>3. Weight[i] \in Nat
    BY <1>2
  <2>4. s[i] = (buf[pos + i] % 128) * Weight[i]
    BY <1>1
  <2> QED BY <2>2, <2>3, <2>4
<1>4. s \in Seq(Nat) /\ Len(s) = m
  BY <1>1, <1>3
<1>5. Number(buf, pos, m) = Total(s)
  BY <1>1 DEF Number
<1>6. \A i \in 1..m : s[i] = (buf[pos + i] % 128) * Weight[i]
  BY <1>1
<1>7. Total(s) \in Nat
  BY <1>4, TotalShort
<1>first. s[1] = buf[pos + 1] % 128
  <2>1. 1 \in 1..m /\ Weight[1] = 1
    BY <1>2
  <2>2. PICK x \in Nat : x = buf[pos + 1] % 128
    BY <1>3, <2>1
  <2>3. s[1] = x * 1
    BY <1>6, <2>1, <2>2
  <2> QED BY <2>2, <2>3
<1>8. CASE m = 1
  BY <1>4, <1>5, <1>7, <1>8, <1>first, TotalShort
<1>9. CASE m = 2
  <2>2. s[2] = (buf[pos + 2] % 128) * 128
    BY <1>2, <1>6, <1>9
  <2> QED BY <1>4, <1>5, <1>7, <1>9, <1>first, <2>2, TotalShort
<1>10. CASE m = 3
  <2>2. s[2] = (buf[pos + 2] % 128) * 128
    BY <1>2, <1>6, <1>10
  <2>3. s[3] = (buf[pos + 3] % 128) * (128 * 128)
    BY <1>2, <1>6, <1>10
  <2>4. Total(s) = s[1] + s[2] + s[3]
    BY <1>4, <1>10, TotalShort
  <2> QED BY <1>5, <1>7, <1>10, <1>first, <2>2, <2>3, <2>4
<1>11. CASE m = 4
  <2>2. s[2] = (buf[pos + 2] % 128) * 128
    BY <1>2, <1>6, <1>11
  <2>3. s[3] = (buf[pos + 3] % 128) * (128 * 128)
    BY <1>2, <1>6, <1>11
  <2>4. s[4] = (buf[pos + 4] % 128) * (128 * 128 * 128)
    BY <1>2, <1>6, <1>11
  <2>5. Total(s) = s[1] + s[2] + s[3] + s[4]
    BY <1>4, <1>11, TotalShort
  <2> QED BY <1>5, <1>7, <1>11, <1>first, <2>2, <2>3, <2>4, <2>5
<1> QED BY <1>8, <1>9, <1>10, <1>11

\* The bytes that a number needs.
LEMMA DigitsAre ==
  ASSUME NEW n \in Nat, n < 128 * 128 * 128 * 128
  PROVE  DigitsOf(n) = IF n < 128 THEN 1 ELSE IF n < 128 * 128 THEN 2
                       ELSE IF n < 128 * 128 * 128 THEN 3 ELSE 4
<1> DEFINE S == {k \in 1..4 : n \div Weight[k] < 128}
<1>1. Weight[1] = 1 /\ Weight[2] = 128 /\ Weight[3] = 128 * 128 /\ Weight[4] = 128 * 128 * 128
  BY DEF Weight
<1>2. /\ n \div 1 < 128 <=> n < 128
      /\ n \div 128 < 128 <=> n < 128 * 128
      /\ n \div (128 * 128) < 128 <=> n < 128 * 128 * 128
      /\ n \div (128 * 128 * 128) < 128
  OBVIOUS
<1>3. /\ 1 \in S <=> n < 128
      /\ 2 \in S <=> n < 128 * 128
      /\ 3 \in S <=> n < 128 * 128 * 128
      /\ 4 \in S
  BY <1>1, <1>2
<1>4. S \subseteq 1..4
  OBVIOUS
<1>5. DigitsOf(n) = Min(S)
  BY DEF DigitsOf
<1>6. S \subseteq Int
  OBVIOUS
<1> HIDE DEF S
<1>7. CASE n < 128
  <2>1. 1 \in S /\ \A k \in S : 1 <= k
    BY <1>3, <1>4, <1>7
  <2>2. Min(S) = 1
    BY <1>6, <2>1, MinIs
  <2> QED BY <1>5, <1>7, <2>2
<1>8. CASE n >= 128 /\ n < 128 * 128
  <2>1. 2 \in S /\ \A k \in S : 2 <= k
    BY <1>3, <1>4, <1>8
  <2>2. Min(S) = 2
    BY <1>6, <2>1, MinIs
  <2> QED BY <1>5, <1>8, <2>2
<1>9. CASE n >= 128 * 128 /\ n < 128 * 128 * 128
  <2>1. 3 \in S /\ \A k \in S : 3 <= k
    BY <1>3, <1>4, <1>9
  <2>2. Min(S) = 3
    BY <1>6, <2>1, MinIs
  <2> QED BY <1>5, <1>9, <2>2
<1>10. CASE n >= 128 * 128 * 128
  <2>1. 4 \in S /\ \A k \in S : 4 <= k
    BY <1>3, <1>4, <1>10
  <2>2. Min(S) = 4
    BY <1>6, <2>1, MinIs
  <2> QED BY <1>5, <1>10, <2>2
<1> QED BY <1>7, <1>8, <1>9, <1>10

\* What is written for a number: at most four bytes of seven bits, of which all but
\* the last have the top bit.
LEMMA VarnumWritten ==
  ASSUME NEW n \in Nat, n < 128 * 128 * 128 * 128
  PROVE  /\ DigitsOf(n) \in 1..4
         /\ Varnum(n) \in Seq(Byte) /\ Len(Varnum(n)) = DigitsOf(n)
         /\ \A i \in 1..DigitsOf(n) :
               /\ (Varnum(n)[i] < 128) <=> (i = DigitsOf(n))
               /\ Varnum(n)[i] % 128 = (n \div Weight[i]) % 128
               /\ Varnum(n)[i] = ((n \div Weight[i]) % 128) + (IF i < DigitsOf(n) THEN 128 ELSE 0)
<1>1. DigitsOf(n) \in 1..4
  BY DigitsAre
<1>2. PICK d \in 1..4 : d = DigitsOf(n)
  BY <1>1
<1>3. PICK v : v = [i \in 1..d |-> ((n \div Weight[i]) % 128) + Bit(i < d) * 128]
  OBVIOUS
<1>4. Varnum(n) = v
  BY <1>2, <1>3 DEF Varnum
<1>5. ASSUME NEW i \in 1..d
      PROVE  /\ v[i] \in Byte
             /\ (v[i] < 128) <=> (i = d)
             /\ v[i] % 128 = (n \div Weight[i]) % 128
             /\ v[i] = ((n \div Weight[i]) % 128) + (IF i < d THEN 128 ELSE 0)
  <2>1. Weight[i] \in Nat \ {0}
    BY DEF Weight
  <2>2. PICK x \in 0..127 : x = (n \div Weight[i]) % 128
    <3>1. n \div Weight[i] \in Nat
      BY <2>1
    <3> QED BY <3>1
  <2>3. v[i] = x + (IF i < d THEN 128 ELSE 0)
    BY <1>3, <2>2 DEF Bit
  <2> QED BY <2>2, <2>3 DEF Byte
<1>6. v \in Seq(Byte) /\ Len(v) = d
  BY <1>3, <1>5
<1> QED BY <1>1, <1>2, <1>4, <1>5, <1>6

\* The number of those bytes.
LEMMA VarnumSize ==
  ASSUME NEW n \in Nat, n < 128 * 128 * 128 * 128
  PROVE  DigitsOf(n) \in 1..4 /\ Varnum(n) \in Seq(Byte) /\ Len(Varnum(n)) = DigitsOf(n)
BY VarnumWritten

\* The bytes after the position pos are those written for the number n.
WrittenAt(buf, pos, n) == \A i \in 1..DigitsOf(n) : buf[pos + i] = Varnum(n)[i]

\* What is written for a number is read as that number.
LEMMA VarnumInverse ==
  ASSUME NEW buf \in Seq(Byte), NEW pos \in Nat, NEW end \in Nat, end <= Len(buf),
         NEW n \in Nat, n < 128 * 128 * 128 * 128, pos + DigitsOf(n) <= end, WrittenAt(buf, pos, n)
  PROVE  ReadVarnum(buf, pos, end) = [err |-> Success, next |-> pos + DigitsOf(n), num |-> n]
<1>1. PICK d \in 1..4 : d = DigitsOf(n)
  BY VarnumSize
<1>2. \A i \in 1..d : /\ (buf[pos + i] < 128) <=> (i = d)
                      /\ buf[pos + i] % 128 = (n \div Weight[i]) % 128
  <2>1. \A i \in 1..d : buf[pos + i] = Varnum(n)[i]
    BY <1>1 DEF WrittenAt
  <2>2. \A i \in 1..d : /\ (Varnum(n)[i] < 128) <=> (i = d)
                        /\ Varnum(n)[i] % 128 = (n \div Weight[i]) % 128
    BY <1>1, VarnumWritten, SMTT(60)
  <2>3. ASSUME NEW i \in 1..d
        PROVE  /\ (buf[pos + i] < 128) <=> (i = d)
               /\ buf[pos + i] % 128 = (n \div Weight[i]) % 128
    <3>1. buf[pos + i] = Varnum(n)[i]
      BY <2>1
    <3>2. /\ (Varnum(n)[i] < 128) <=> (i = d)
          /\ Varnum(n)[i] % 128 = (n \div Weight[i]) % 128
      BY <2>2
    <3> QED BY <3>1, <3>2
  <2> QED BY <2>3
<1>3. EndsAt(buf, pos, d)
  <2>1. buf[pos + d] < 128
    BY <1>2
  <2>2. ASSUME NEW k \in 1..(d - 1) PROVE buf[pos + k] >= 128
    <3>1. ~(buf[pos + k] < 128)
      <4>1. k \in 1..d /\ k # d
        OBVIOUS
      <4> QED BY <1>2, <4>1
    <3>2. buf[pos + k] \in Int
      <4>1. pos + k \in 1..Len(buf)
        BY <1>1
      <4> QED BY <4>1, InBuffer
    <3> QED BY <3>1, <3>2
  <2> QED BY <2>1, <2>2 DEF EndsAt
<1>4. ReadVarnum(buf, pos, end) = [err |-> Success, next |-> pos + d, num |-> Number(buf, pos, d)]
  BY <1>1, <1>3, VarnumRead
<1>5. Weight[1] = 1 /\ Weight[2] = 128 /\ Weight[3] = 128 * 128 /\ Weight[4] = 128 * 128 * 128
  BY DEF Weight
<1>6. pos + d <= Len(buf)
  BY <1>1
<1>7. /\ (d = 1) => n < 128
      /\ (d = 2) => n < 128 * 128
      /\ (d = 3) => n < 128 * 128 * 128
  BY <1>1, DigitsAre
<1>9. /\ (d >= 1) => buf[pos + 1] % 128 = (n \div Weight[1]) % 128
      /\ (d >= 2) => buf[pos + 2] % 128 = (n \div Weight[2]) % 128
      /\ (d >= 3) => buf[pos + 3] % 128 = (n \div Weight[3]) % 128
      /\ (d >= 4) => buf[pos + 4] % 128 = (n \div Weight[4]) % 128
  <2>1. \A i \in 1..d : buf[pos + i] % 128 = (n \div Weight[i]) % 128
    BY <1>2
  <2> QED BY <2>1
<1>8. Number(buf, pos, d) = n
  <2>1. CASE d = 1
    <3>1. buf[pos + 1] % 128 = (n \div 1) % 128
      BY <1>9, <1>5, <2>1
    <3>2. Number(buf, pos, d) = buf[pos + 1] % 128
      BY <1>6, <2>1, NumberIs
    <3> QED BY <1>7, <2>1, <3>1, <3>2
  <2>2. CASE d = 2
    <3>1. buf[pos + 1] % 128 = (n \div 1) % 128 /\ buf[pos + 2] % 128 = (n \div 128) % 128
      BY <1>9, <1>5, <2>2
    <3>2. Number(buf, pos, d) = (buf[pos + 1] % 128) + (buf[pos + 2] % 128) * 128
      BY <1>6, <2>2, NumberIs
    <3>3. Number(buf, pos, d) = ((n \div 1) % 128) + ((n \div 128) % 128) * 128
      BY <3>1, <3>2
    <3> QED BY <1>7, <2>2, <3>3
  <2>3. CASE d = 3
    <3>1. /\ buf[pos + 1] % 128 = (n \div 1) % 128 /\ buf[pos + 2] % 128 = (n \div 128) % 128
          /\ buf[pos + 3] % 128 = (n \div (128 * 128)) % 128
      BY <1>9, <1>5, <2>3
    <3>2. Number(buf, pos, d) = (buf[pos + 1] % 128) + (buf[pos + 2] % 128) * 128
                                + (buf[pos + 3] % 128) * (128 * 128)
      BY <1>6, <2>3, NumberIs
    <3>3. Number(buf, pos, d) = ((n \div 1) % 128) + ((n \div 128) % 128) * 128
                                + ((n \div (128 * 128)) % 128) * (128 * 128)
      BY <3>1, <3>2
    <3>4. n < 128 * 128 * 128
      BY <1>7, <2>3
    <3> QED BY <3>3, <3>4
  <2>4. CASE d = 4
    <3>1. /\ buf[pos + 1] % 128 = (n \div 1) % 128 /\ buf[pos + 2] % 128 = (n \div 128) % 128
          /\ buf[pos + 3] % 128 = (n \div (128 * 128)) % 128
          /\ buf[pos + 4] % 128 = (n \div (128 * 128 * 128)) % 128
      BY <1>9, <1>5, <2>4
    <3>2. Number(buf, pos, d) = (buf[pos + 1] % 128) + (buf[pos + 2] % 128) * 128
                                + (buf[pos + 3] % 128) * (128 * 128)
                                + (buf[pos + 4] % 128) * (128 * 128 * 128)
      BY <1>6, <2>4, NumberIs
    <3>3. Number(buf, pos, d) = ((n \div 1) % 128) + ((n \div 128) % 128) * 128
                                + ((n \div (128 * 128)) % 128) * (128 * 128)
                                + ((n \div (128 * 128 * 128)) % 128) * (128 * 128 * 128)
      BY <3>1, <3>2, ZenonT(60)
    <3> QED BY <3>3
  <2> QED BY <2>1, <2>2, <2>3, <2>4
<1> QED BY <1>1, <1>4, <1>8

\* n is the number of four digits, the lowest first.
FourDigits(n, a, b, c, d) == n = a + b * 128 + c * (128 * 128) + d * (128 * 128 * 128)

\* n is below the first number of five digits, and these are its digits.
HasDigits(n, a, b, c, d) ==
    /\ n < 128 * 128 * 128 * 128
    /\ (n \div 1) % 128 = a /\ (n \div 128) % 128 = b
    /\ (n \div (128 * 128)) % 128 = c /\ (n \div (128 * 128 * 128)) % 128 = d

\* The digits of a number of at most four digits.
LEMMA DigitsFound ==
  ASSUME NEW a \in 0..127, NEW b \in 0..127, NEW c \in 0..127, NEW d \in 0..127,
         NEW n \in Nat, FourDigits(n, a, b, c, d)
  PROVE  HasDigits(n, a, b, c, d)
<1>0. n = a + b * 128 + c * (128 * 128) + d * (128 * 128 * 128)
  BY DEF FourDigits
<1>1. n < 128 * 128 * 128 * 128
  BY <1>0
<1>2. (n \div 1) % 128 = a
  BY <1>0
<1>3. (n \div 128) % 128 = b
  <2>1. PICK q \in Nat : q = b + c * 128 + d * (128 * 128)
    OBVIOUS
  <2>2. n = a + q * 128
    BY <1>0, <2>1
  <2>3. n \div 128 = q
    BY <2>2
  <2>4. q % 128 = b
    BY <2>1
  <2> QED BY <2>3, <2>4
<1>4. (n \div (128 * 128)) % 128 = c
  <2>1. PICK q \in Nat : q = c + d * 128
    OBVIOUS
  <2>2. PICK e \in Nat : e = a + b * 128
    OBVIOUS
  <2>3. e < 128 * 128 /\ n = e + q * (128 * 128)
    BY <1>0, <2>1, <2>2
  <2>4. n \div (128 * 128) = q
    BY <2>3
  <2>5. q % 128 = c
    BY <2>1
  <2> QED BY <2>4, <2>5
<1>5. (n \div (128 * 128 * 128)) % 128 = d
  <2>1. PICK e \in Nat : e = a + b * 128 + c * (128 * 128)
    OBVIOUS
  <2>2. e < 128 * 128 * 128 /\ n = e + d * (128 * 128 * 128)
    BY <1>0, <2>1
  <2>3. n \div (128 * 128 * 128) = d
    BY <2>2
  <2> QED BY <2>3
<1> QED BY <1>1, <1>2, <1>3, <1>4, <1>5 DEF HasDigits

\* What a byte is beside its seven bits.
LEMMA SevenBits ==
  ASSUME NEW y \in Nat, y < 256
  PROVE  /\ y % 128 \in 0..127
         /\ y < 128 => y = (y % 128) + 0
         /\ y >= 128 => y = (y % 128) + 128
OBVIOUS

\* The number of a variable-length number that has no byte to spare is written as
\* those very bytes.
LEMMA VarnumShortest ==
  ASSUME NEW buf \in Seq(Byte), NEW pos \in Nat, NEW m \in 1..4, pos + m <= Len(buf),
         EndsAt(buf, pos, m), NEW n \in Nat, n = Number(buf, pos, m), m <= DigitsOf(n)
  PROVE  n < 128 * 128 * 128 * 128 /\ DigitsOf(n) = m /\ WrittenAt(buf, pos, n)
<1>1. \A i \in 1..m : buf[pos + i] \in Nat /\ buf[pos + i] < 256
  <2> SUFFICES ASSUME NEW i \in 1..m PROVE buf[pos + i] \in Nat /\ buf[pos + i] < 256
    OBVIOUS
  <2>1. pos + i \in 1..Len(buf)
    OBVIOUS
  <2> QED BY <2>1, InBuffer
<1>2. PICK x : x = [i \in 1..4 |-> IF i \in 1..m THEN buf[pos + i] % 128 ELSE 0]
  OBVIOUS
<1>3. \A i \in 1..4 : x[i] \in 0..127
  <2> SUFFICES ASSUME NEW i \in 1..4 PROVE x[i] \in 0..127
    OBVIOUS
  <2>1. CASE i \in 1..m
    <3>1. PICK y \in Nat : y = buf[pos + i] /\ y < 256
      BY <1>1, <2>1
    <3>2. y % 128 \in 0..127
      BY <3>1, SevenBits, ZenonT(60)
    <3>3. x[i] = y % 128
      BY <1>2, <2>1, <3>1
    <3> QED BY <3>2, <3>3
  <2>2. CASE i \notin 1..m
    <3>1. x[i] = 0
      BY <1>2, <2>2
    <3> QED BY <3>1
  <2> QED BY <2>1, <2>2
<1>4. PICK a \in 0..127, b \in 0..127, c \in 0..127, d \in 0..127 :
         a = x[1] /\ b = x[2] /\ c = x[3] /\ d = x[4]
  <2>1. x[1] \in 0..127 /\ x[2] \in 0..127 /\ x[3] \in 0..127 /\ x[4] \in 0..127
    BY <1>3
  <2> QED BY <2>1, ZenonT(60)
<1>5. n = a + b * 128 + c * (128 * 128) + d * (128 * 128 * 128)
  <2>1. /\ m >= 1 => buf[pos + 1] % 128 = a
        /\ m >= 2 => buf[pos + 2] % 128 = b
        /\ m >= 3 => buf[pos + 3] % 128 = c
        /\ m >= 4 => buf[pos + 4] % 128 = d
        /\ m < 2 => b = 0
        /\ m < 3 => c = 0
        /\ m < 4 => d = 0
    BY <1>2, <1>4
  <2>2. CASE m = 1
    <3>1. n = buf[pos + 1] % 128
      BY <2>2, NumberIs
    <3> QED BY <2>1, <2>2, <3>1
  <2>3. CASE m = 2
    <3>1. n = (buf[pos + 1] % 128) + (buf[pos + 2] % 128) * 128
      BY <2>3, NumberIs
    <3>2. buf[pos + 1] % 128 = a /\ buf[pos + 2] % 128 = b /\ c = 0 /\ d = 0
      BY <2>1, <2>3
    <3>3. n = a + b * 128
      BY <3>1, <3>2, ZenonT(60)
    <3> QED BY <3>2, <3>3
  <2>4. CASE m = 3
    <3>1. n = (buf[pos + 1] % 128) + (buf[pos + 2] % 128) * 128
              + (buf[pos + 3] % 128) * (128 * 128)
      BY <2>4, NumberIs
    <3>2. buf[pos + 1] % 128 = a /\ buf[pos + 2] % 128 = b /\ buf[pos + 3] % 128 = c
      BY <2>1, <2>4
    <3>3. n = a + b * 128 + c * (128 * 128)
      BY <3>1, <3>2, ZenonT(60)
    <3>4. d = 0
      BY <2>1, <2>4
    <3> QED BY <3>3, <3>4
  <2>5. CASE m = 4
    <3>1. n = (buf[pos + 1] % 128) + (buf[pos + 2] % 128) * 128
              + (buf[pos + 3] % 128) * (128 * 128) + (buf[pos + 4] % 128) * (128 * 128 * 128)
      BY <2>5, NumberIs
    <3>2. /\ buf[pos + 1] % 128 = a /\ buf[pos + 2] % 128 = b
          /\ buf[pos + 3] % 128 = c /\ buf[pos + 4] % 128 = d
      BY <2>1, <2>5
    <3> QED BY <3>1, <3>2, ZenonT(60)
  <2> QED BY <2>2, <2>3, <2>4, <2>5
<1>6. /\ n < 128 * 128 * 128 * 128
      /\ (n \div 1) % 128 = a /\ (n \div 128) % 128 = b
      /\ (n \div (128 * 128)) % 128 = c /\ (n \div (128 * 128 * 128)) % 128 = d
  <2>1. FourDigits(n, a, b, c, d)
    BY <1>5, ZenonT(60) DEF FourDigits
  <2>2. HasDigits(n, a, b, c, d)
    BY <2>1, DigitsFound, ZenonT(60)
  <2> QED BY <2>2 DEF HasDigits
<1>7. DigitsOf(n) = m
  <2>1. /\ m < 2 => b = 0
        /\ m < 3 => c = 0
        /\ m < 4 => d = 0
    BY <1>2, <1>4
  <2>2. /\ m < 2 => n < 128
        /\ m < 3 => n < 128 * 128
        /\ m < 4 => n < 128 * 128 * 128
    BY <1>5, <2>1
  <2>3. DigitsOf(n) = IF n < 128 THEN 1 ELSE IF n < 128 * 128 THEN 2
                      ELSE IF n < 128 * 128 * 128 THEN 3 ELSE 4
    BY <1>6, DigitsAre, ZenonT(60)
  <2> QED BY <2>2, <2>3
<1>8. \A i \in 1..m : (n \div Weight[i]) % 128 = x[i]
  <2>1. Weight[1] = 1 /\ Weight[2] = 128 /\ Weight[3] = 128 * 128 /\ Weight[4] = 128 * 128 * 128
    BY DEF Weight
  <2>2. /\ (n \div Weight[1]) % 128 = x[1] /\ (n \div Weight[2]) % 128 = x[2]
        /\ (n \div Weight[3]) % 128 = x[3] /\ (n \div Weight[4]) % 128 = x[4]
    BY <1>4, <1>6, <2>1, ZenonT(60)
  <2>3. ASSUME NEW i \in 1..m PROVE i = 1 \/ i = 2 \/ i = 3 \/ i = 4
    OBVIOUS
  <2> QED BY <2>2, <2>3
<1>9. ASSUME NEW i \in 1..m
      PROVE  buf[pos + i] = Varnum(n)[i]
  <2>1. PICK y \in Nat : y = buf[pos + i] /\ y < 256
    BY <1>1
  <2>2. x[i] = y % 128
    BY <1>2, <2>1
  <2>3. y = (y % 128) + (IF i < m THEN 128 ELSE 0)
    <3>1. CASE i < m
      <4>1. i \in 1..(m - 1)
        BY <3>1
      <4>2. y >= 128
        BY <2>1, <4>1 DEF EndsAt
      <4> QED BY <2>1, <3>1, <4>2, SevenBits
    <3>2. CASE ~(i < m)
      <4>1. i = m
        BY <3>2
      <4>2. y < 128
        BY <2>1, <4>1 DEF EndsAt
      <4> QED BY <2>1, <3>2, <4>2, SevenBits
    <3> QED BY <3>1, <3>2
  <2>4. Varnum(n)[i] = ((n \div Weight[i]) % 128) + (IF i < m THEN 128 ELSE 0)
    <3>1. i \in 1..DigitsOf(n)
      BY <1>7
    <3>2. Varnum(n)[i] = ((n \div Weight[i]) % 128) + (IF i < DigitsOf(n) THEN 128 ELSE 0)
      BY <1>6, <3>1, VarnumWritten, ZenonT(60)
    <3> QED BY <1>7, <3>2, ZenonT(60)
  <2>5. (n \div Weight[i]) % 128 = y % 128
    BY <1>8, <2>2
  <2> QED BY <2>1, <2>3, <2>4, <2>5, ZenonT(60)
<1> QED BY <1>6, <1>7, <1>9 DEF WrittenAt

-----------------------------------------------------------------------------
(***************************************************************************)
(* The writes of an encoder.                                               *)
(***************************************************************************)
\* Concatenation is associative.
LEMMA Associative ==
  ASSUME NEW a \in Seq(Byte), NEW b \in Seq(Byte), NEW c \in Seq(Byte)
  PROVE  (a \o b) \o c = a \o (b \o c)
BY ConcatAssociative

\* Two sequences of bytes one after the other.
LEMMA BytesConcat ==
  ASSUME NEW a \in Seq(Byte), NEW b \in Seq(Byte)
  PROVE  /\ a \o b \in Seq(Byte) /\ Len(a) \in Nat /\ Len(b) \in Nat
         /\ Len(a \o b) = Len(a) + Len(b)
         /\ \A i \in 1..Len(a) : (a \o b)[i] = a[i]
         /\ \A i \in 1..Len(b) : (a \o b)[Len(a) + i] = b[i]
<1>1. Len(a) \in Nat /\ Len(b) \in Nat
  OBVIOUS
<1>2. /\ a \o b \in Seq(Byte) /\ Len(a \o b) = Len(a) + Len(b)
      /\ \A i \in 1..(Len(a) + Len(b)) :
            (a \o b)[i] = IF i <= Len(a) THEN a[i] ELSE b[i - Len(a)]
  BY ConcatProperties
<1>3. \A i \in 1..Len(a) : (a \o b)[i] = a[i]
  BY <1>1, <1>2
<1>4. ASSUME NEW i \in 1..Len(b)
      PROVE  (a \o b)[Len(a) + i] = b[i]
  <2>1. Len(a) + i \in 1..(Len(a) + Len(b)) /\ ~(Len(a) + i <= Len(a)) /\ (Len(a) + i) - Len(a) = i
    BY <1>1
  <2> QED BY <1>2, <2>1
<1> QED BY <1>1, <1>2, <1>3, <1>4

\* A part of a buffer.
LEMMA PartIs ==
  ASSUME NEW s \in Seq(Byte), NEW m \in Nat \ {0}, NEW n \in Nat, n <= Len(s), m <= n + 1
  PROVE  /\ SubSeq(s, m, n) \in Seq(Byte) /\ Len(SubSeq(s, m, n)) = n - m + 1
         /\ \A i \in 1..(n - m + 1) : SubSeq(s, m, n)[i] = s[m + i - 1]
<1>1. \A i \in m..n : s[i] \in Byte
  <2>1. m..n \subseteq 1..Len(s)
    OBVIOUS
  <2> QED BY <2>1
<1>2. m \in Int /\ n \in Int
  OBVIOUS
<1>3. /\ SubSeq(s, m, n) \in Seq(Byte)
      /\ Len(SubSeq(s, m, n)) = IF m <= n THEN n - m + 1 ELSE 0
      /\ \A i \in 1..(n - m + 1) : SubSeq(s, m, n)[i] = s[m + i - 1]
  BY <1>1, <1>2, SubSeqProperties
<1>4. (IF m <= n THEN n - m + 1 ELSE 0) = n - m + 1
  OBVIOUS
<1> QED BY <1>3, <1>4

\* A part of a buffer is known by its bytes.
LEMMA PartEquals ==
  ASSUME NEW s \in Seq(Byte), NEW m \in Nat \ {0}, NEW b \in Seq(Byte),
         m + Len(b) <= Len(s) + 1,
         \A i \in 1..Len(b) : s[m + i - 1] = b[i]
  PROVE  SubSeq(s, m, m + Len(b) - 1) = b
<1>1. PICK n \in Nat : n = m + Len(b) - 1 /\ n <= Len(s) /\ m <= n + 1 /\ n - m + 1 = Len(b)
  BY SMTT(60)
<1>2. /\ SubSeq(s, m, n) \in Seq(Byte) /\ Len(SubSeq(s, m, n)) = Len(b)
      /\ \A i \in 1..Len(b) : SubSeq(s, m, n)[i] = s[m + i - 1]
  BY <1>1, PartIs
<1>3. \A i \in 1..Len(SubSeq(s, m, n)) : SubSeq(s, m, n)[i] = b[i]
  BY <1>2
<1>4. SubSeq(s, m, n) = b
  BY <1>2, <1>3, SeqEqual
<1> QED BY <1>1, <1>4

\* What lies between two positions of a sequence.
LEMMA Between ==
  ASSUME NEW s \in Seq(Byte), NEW i \in Nat, NEW j \in Nat, i <= j, j <= Len(s)
  PROVE  /\ SubSeq(s, i + 1, j) \in Seq(Byte) /\ Len(SubSeq(s, i + 1, j)) = j - i
         /\ \A x \in 1..(j - i) : SubSeq(s, i + 1, j)[x] = s[i + x]
<1>1. PICK m \in Nat \ {0} : m = i + 1 /\ m <= j + 1
  OBVIOUS
<1>2. /\ SubSeq(s, m, j) \in Seq(Byte) /\ Len(SubSeq(s, m, j)) = j - m + 1
      /\ \A x \in 1..(j - m + 1) : SubSeq(s, m, j)[x] = s[m + x - 1]
  BY <1>1, PartIs
<1>3. j - m + 1 = j - i
  BY <1>1
<1>4. ASSUME NEW x \in 1..(j - i) PROVE SubSeq(s, m, j)[x] = s[i + x]
  <2>1. m + x - 1 = i + x
    BY <1>1
  <2>2. SubSeq(s, m, j)[x] = s[m + x - 1]
    BY <1>2, <1>3
  <2> QED BY <2>1, <2>2
<1> QED BY <1>1, <1>2, <1>3, <1>4

\* Two parts of a sequence that lie side by side.
LEMMA PartsJoin ==
  ASSUME NEW s \in Seq(Byte), NEW i \in Nat, NEW j \in Nat, NEW k \in Nat,
         i <= j, j <= k, k <= Len(s)
  PROVE  SubSeq(s, i + 1, j) \o SubSeq(s, j + 1, k) = SubSeq(s, i + 1, k)
<1>1. PICK a \in Seq(Byte) : /\ a = SubSeq(s, i + 1, j) /\ Len(a) = j - i
                             /\ \A x \in 1..(j - i) : a[x] = s[i + x]
  <2>1. j <= Len(s)
    OBVIOUS
  <2> QED BY <2>1, Between
<1>2. PICK b \in Seq(Byte) : /\ b = SubSeq(s, j + 1, k) /\ Len(b) = k - j
                             /\ \A x \in 1..(k - j) : b[x] = s[j + x]
  BY Between
<1>3. PICK c \in Seq(Byte) : /\ c = SubSeq(s, i + 1, k) /\ Len(c) = k - i
                             /\ \A x \in 1..(k - i) : c[x] = s[i + x]
  <2>1. i <= k
    OBVIOUS
  <2> QED BY <2>1, Between
<1>4. PICK e \in Seq(Byte) : /\ e = a \o b /\ Len(e) = Len(a) + Len(b)
                             /\ \A x \in 1..Len(a) : e[x] = a[x]
                             /\ \A x \in 1..Len(b) : e[Len(a) + x] = b[x]
  <2>1. /\ a \o b \in Seq(Byte) /\ Len(a \o b) = Len(a) + Len(b)
        /\ \A x \in 1..Len(a) : (a \o b)[x] = a[x]
        /\ \A x \in 1..Len(b) : (a \o b)[Len(a) + x] = b[x]
    BY BytesConcat, ZenonT(60)
  <2>2. \E e \in Seq(Byte) : e = a \o b
    BY <2>1
  <2> QED BY <2>1, <2>2, ZenonT(60)
<1>5. Len(e) = k - i
  BY <1>1, <1>2, <1>4
<1>6. ASSUME NEW x \in 1..(k - i)
      PROVE  e[x] = c[x]
  <2>1. CASE x <= j - i
    <3>1. x \in 1..(j - i) /\ x \in 1..Len(a)
      BY <1>1, <2>1
    <3>2. e[x] = a[x]
      BY <1>4, <3>1
    <3>3. a[x] = s[i + x]
      BY <1>1, <3>1
    <3> QED BY <1>3, <3>2, <3>3
  <2>2. CASE x > j - i
    <3>1. PICK y \in 1..(k - j) : x = (j - i) + y
      <4>1. x - (j - i) \in 1..(k - j) /\ x = (j - i) + (x - (j - i))
        BY <2>2
      <4> QED BY <4>1
    <3>2. y \in 1..Len(b) /\ Len(a) + y = x /\ j + y = i + x
      BY <1>1, <1>2, <3>1
    <3>3. e[Len(a) + y] = b[y]
      BY <1>4, <3>2
    <3>4. b[y] = s[j + y]
      BY <1>2
    <3> QED BY <1>3, <3>2, <3>3, <3>4
  <2> QED BY <2>1, <2>2
<1>7. e = c
  <2>1. Len(e) = Len(c) /\ \A x \in 1..Len(e) : e[x] = c[x]
    BY <1>3, <1>5, <1>6
  <2> QED BY <2>1, SeqEqual
<1> QED BY <1>1, <1>2, <1>3, <1>4, <1>7

\* What was appended is found where what it was appended to ends.
LEMMA LastPart ==
  ASSUME NEW a \in Seq(Byte), NEW b \in Seq(Byte)
  PROVE  SubSeq(a \o b, Len(a) + 1, Len(a \o b)) = b
<1>0. PICK s \in Seq(Byte) : s = a \o b
  BY BytesConcat
<1>1. PICK m \in Nat : s = a \o b /\ m = Len(a) + 1
  BY <1>0, BytesConcat
<1>2. /\ m \in Nat \ {0} /\ m + Len(b) <= Len(s) + 1 /\ m + Len(b) - 1 = Len(s)
  BY <1>1, BytesConcat
<1>3. ASSUME NEW i \in 1..Len(b)
      PROVE  s[m + i - 1] = b[i]
  <2>1. m + i - 1 = Len(a) + i
    BY <1>1, BytesConcat
  <2>2. s[Len(a) + i] = b[i]
    BY <1>1, BytesConcat
  <2> QED BY <2>1, <2>2
<1>4. SubSeq(s, m, m + Len(b) - 1) = b
  BY <1>2, <1>3, PartEquals
<1> QED BY <1>1, <1>2, <1>4

\* What is written: a sequence of sequences of bytes.
Fields == Seq(Seq(Byte))

\* Their lengths.
Lens(fields) == [i \in 1..Len(fields) |-> Len(fields[i])]

\* f is the sequence of what the first fields are one after the other.
Joins(f, fields) ==
    /\ f \in [0..Len(fields) -> Seq(Byte)] /\ f[0] = <<>>
    /\ \A n \in 1..Len(fields) : f[n] = f[n - 1] \o fields[n]

\* Every sequence of fields has its joins.
LEMMA JoinsExist ==
  ASSUME NEW fields \in Fields
  PROVE  \E f : Joins(f, fields)
<1> DEFINE P(N) == \E f \in [0..N -> Seq(Byte)] :
                      f[0] = <<>> /\ \A n \in 1..N : f[n] = f[n - 1] \o fields[n]
           S == {N \in Nat : P(N)}
<1>0. Len(fields) \in Nat
  BY DEF Fields
<1>1. P(0)
  <2> DEFINE f == [n \in 0..0 |-> <<>>]
  <2>1. f \in [0..0 -> Seq(Byte)] /\ f[0] = <<>> /\ \A n \in 1..0 : f[n] = f[n - 1] \o fields[n]
    OBVIOUS
  <2> QED BY <2>1
<1>2. ASSUME NEW N \in 0..(Len(fields) - 1), P(N) PROVE P(N + 1)
  <2>1. PICK f \in [0..N -> Seq(Byte)] :
           f[0] = <<>> /\ \A n \in 1..N : f[n] = f[n - 1] \o fields[n]
    BY <1>2
  <2>2. PICK last : last = f[N] \o fields[N + 1]
    OBVIOUS
  <2>3. last \in Seq(Byte)
    <3>1. f[N] \in Seq(Byte)
      OBVIOUS
    <3>2. fields[N + 1] \in Seq(Byte)
      BY DEF Fields
    <3> QED BY <2>2, <3>1, <3>2
  <2>4. PICK g : g = [n \in 0..(N + 1) |-> IF n <= N THEN f[n] ELSE last]
    OBVIOUS
  <2>5. g \in [0..(N + 1) -> Seq(Byte)]
    BY <2>3, <2>4
  <2>6. ASSUME NEW n \in 1..(N + 1) PROVE g[n] = g[n - 1] \o fields[n]
    <3>1. g[n - 1] = f[n - 1]
      BY <2>4
    <3>2. CASE n <= N
      <4>1. g[n] = f[n] /\ f[n] = f[n - 1] \o fields[n]
        <5>1. n \in 1..N /\ n \in 0..(N + 1)
          BY <3>2
        <5> QED BY <2>1, <2>4, <3>2, <5>1
      <4> QED BY <3>1, <4>1
    <3>3. CASE n = N + 1
      <4>1. g[n] = last /\ n - 1 = N
        BY <2>4, <3>3
      <4> QED BY <2>2, <3>1, <3>3, <4>1
    <3> QED BY <3>2, <3>3
  <2>7. g[0] = <<>>
    BY <2>1, <2>4
  <2> QED BY <2>5, <2>6, <2>7
<1> HIDE DEF P
<1>3. 0 \in S /\ \A n \in 0..(Len(fields) - 1) : n \in S => n + 1 \in S
  BY <1>1, <1>2
<1>4. \A n \in 0..Len(fields) : n \in S
  <2> HIDE DEF S
  <2> QED BY <1>0, <1>3, Induction
<1>5. P(Len(fields))
  BY <1>0, <1>4
<1> QED BY <1>5 DEF P, Joins

\* FlattenSeq is the last of the joins.
LEMMA FlattenIs ==
  ASSUME NEW fields \in Fields, NEW f, Joins(f, fields)
  PROVE  FlattenSeq(fields) = f[Len(fields)] /\ FlattenSeq(fields) \in Seq(Byte)
<1> DEFINE N == Len(fields)
           F(h) == [i \in 1..N |-> IF i = 1 THEN fields[i] ELSE h[i - 1] \o fields[i]]
           g == CHOOSE h : h = F(h)
<1>0. N \in Nat
  BY DEF Fields
<1>1. f \in [0..N -> Seq(Byte)] /\ f[0] = <<>> /\ \A n \in 1..N : f[n] = f[n - 1] \o fields[n]
  BY DEF Joins
<1>2. CASE N = 0
  <2>1. fields = <<>>
    BY <1>2 DEF Fields
  <2>2. FlattenSeq(fields) = fields
    BY <1>2 DEF FlattenSeq
  <2> QED BY <1>1, <1>2, <2>1, <2>2
<1>3. CASE N # 0
  <2>1. f[1] = fields[1]
    <3>1. fields[1] \in Seq(Byte)
      BY <1>0, <1>3 DEF Fields
    <3>2. f[1] = <<>> \o fields[1]
      BY <1>0, <1>1, <1>3, SMTT(60)
    <3> QED BY <3>1, <3>2, ConcatEmptySeq
  <2>2. PICK e : e = [i \in 1..N |-> f[i]]
    OBVIOUS
  <2>3. e = F(e)
    <3>1. ASSUME NEW i \in 1..N
          PROVE  f[i] = IF i = 1 THEN fields[i] ELSE e[i - 1] \o fields[i]
      <4>1. CASE i = 1
        BY <2>1, <4>1
      <4>2. CASE i # 1
        <5>1. e[i - 1] = f[i - 1]
          BY <1>0, <2>2, <4>2
        <5> QED BY <1>1, <4>2, <5>1
      <4> QED BY <4>1, <4>2
    <3> QED BY <2>2, <3>1
  <2>4. g = F(g)
    <3> HIDE DEF F
    <3> QED BY <2>3
  <2>5. FlattenSeq(fields) = g[N]
    BY <1>3 DEF FlattenSeq
  <2> HIDE DEF g
  <2>6. \A n \in 0..N : n # 0 => g[n] = f[n]
    <3> DEFINE S == {n \in 0..N : n # 0 => g[n] = f[n]}
    <3>1. 0 \in S
      BY <1>0
    <3>2. ASSUME NEW n \in 0..(N - 1), n \in S PROVE n + 1 \in S
      <4>1. n + 1 \in 1..N /\ (n + 1) - 1 = n
        BY <1>0
      <4>2. CASE n = 0
        BY <2>1, <2>4, <4>1, <4>2
      <4>3. CASE n # 0
        <5>1. g[n] = f[n]
          BY <3>2, <4>3
        <5>2. g[n + 1] = g[n] \o fields[n + 1]
          <6>1. g[n + 1] = IF n + 1 = 1 THEN fields[n + 1] ELSE g[(n + 1) - 1] \o fields[n + 1]
            BY <2>4, <4>1
          <6>2. n + 1 # 1
            BY <4>3
          <6> QED BY <4>1, <6>1, <6>2
        <5>3. f[n + 1] = f[n] \o fields[n + 1]
          BY <1>1, <4>1
        <5>4. g[n + 1] = f[n + 1]
          BY <5>1, <5>2, <5>3
        <5> QED BY <4>1, <5>4
      <4> QED BY <4>2, <4>3
    <3>3. \A n \in 0..N : n \in S
      <4> HIDE DEF S, N
      <4> QED BY <1>0, <3>1, <3>2, Induction
    <3> QED BY <3>3
  <2> QED BY <1>0, <1>1, <1>3, <2>5, <2>6
<1> QED BY <1>2, <1>3

\* Fields one after the other are flattened one after the other.
LEMMA FlattenConcat ==
  ASSUME NEW s \in Fields, NEW t \in Fields
  PROVE  /\ FlattenSeq(s) \in Seq(Byte)
         /\ FlattenSeq(s \o t) = FlattenSeq(s) \o FlattenSeq(t)
<1>1. PICK f : Joins(f, s)
  BY JoinsExist
<1>2. PICK g : Joins(g, t)
  BY JoinsExist
<1>3. PICK h : Joins(h, s \o t)
  <2>1. s \o t \in Fields
    BY DEF Fields
  <2> QED BY <2>1, JoinsExist
<1>4. /\ Len(s) \in Nat /\ Len(t) \in Nat
      /\ s \o t \in Fields /\ Len(s \o t) = Len(s) + Len(t)
      /\ \A i \in 1..Len(s) : (s \o t)[i] = s[i]
      /\ \A i \in 1..Len(t) : (s \o t)[Len(s) + i] = t[i] /\ t[i] \in Seq(Byte)
  BY DEF Fields
<1>5. /\ f \in [0..Len(s) -> Seq(Byte)] /\ f[0] = <<>>
      /\ \A n \in 1..Len(s) : f[n] = f[n - 1] \o s[n]
  BY <1>1 DEF Joins
<1>6. /\ g \in [0..Len(t) -> Seq(Byte)] /\ g[0] = <<>>
      /\ \A n \in 1..Len(t) : g[n] = g[n - 1] \o t[n]
  BY <1>2 DEF Joins
<1>7. /\ h[0] = <<>>
      /\ \A n \in 1..(Len(s) + Len(t)) : h[n] = h[n - 1] \o (s \o t)[n]
  BY <1>3, <1>4 DEF Joins
<1>8. h[Len(s)] = f[Len(s)]
  <2> DEFINE S == {n \in 0..Len(s) : h[n] = f[n]}
  <2>1. 0 \in S
    BY <1>4, <1>5, <1>7
  <2>2. ASSUME NEW n \in 0..(Len(s) - 1), n \in S PROVE n + 1 \in S
    <3>1. n + 1 \in 1..Len(s) /\ n + 1 \in 1..(Len(s) + Len(t)) /\ (n + 1) - 1 = n
      BY <1>4
    <3>2. h[n] = f[n]
      BY <2>2
    <3>3. h[n + 1] = h[n] \o s[n + 1]
      BY <1>4, <1>7, <3>1
    <3>4. f[n + 1] = f[n] \o s[n + 1]
      BY <1>5, <3>1
    <3>5. h[n + 1] = f[n + 1]
      BY <3>2, <3>3, <3>4
    <3> QED BY <3>1, <3>5
  <2>3. \A n \in 0..Len(s) : n \in S
    <3> HIDE DEF S
    <3> QED BY <1>4, <2>1, <2>2, Induction
  <2> QED BY <1>4, <2>3
<1>9. f[Len(s)] \in Seq(Byte)
  <2>1. Len(s) \in 0..Len(s)
    BY <1>4
  <2> QED BY <1>5, <2>1
<1>10. h[Len(s) + Len(t)] = f[Len(s)] \o g[Len(t)]
  <2> DEFINE S == {n \in 0..Len(t) : h[Len(s) + n] = f[Len(s)] \o g[n]}
  <2>1. 0 \in S
    <3>1. Len(s) + 0 = Len(s)
      BY <1>4
    <3>2. f[Len(s)] \o <<>> = f[Len(s)]
      BY <1>9, ConcatEmptySeq
    <3>3. h[Len(s) + 0] = f[Len(s)] \o g[0]
      BY <1>6, <1>8, <3>1, <3>2
    <3>4. 0 \in 0..Len(t)
      BY <1>4
    <3> QED BY <3>3, <3>4, Zenon
  <2>2. ASSUME NEW n \in 0..(Len(t) - 1), n \in S PROVE n + 1 \in S
    <3>1. /\ n \in 0..Len(t) /\ n + 1 \in 1..Len(t) /\ (n + 1) - 1 = n
          /\ Len(s) + (n + 1) \in 1..(Len(s) + Len(t))
          /\ (Len(s) + (n + 1)) - 1 = Len(s) + n
      BY <1>4
    <3>2. h[Len(s) + n] = f[Len(s)] \o g[n]
      BY <2>2
    <3>3. (s \o t)[Len(s) + (n + 1)] = t[n + 1] /\ t[n + 1] \in Seq(Byte)
      BY <1>4, <3>1
    <3>4. h[Len(s) + (n + 1)] = h[Len(s) + n] \o t[n + 1]
      BY <1>7, <3>1, <3>3
    <3>5. g[n + 1] = g[n] \o t[n + 1] /\ g[n] \in Seq(Byte)
      <4>1. g[n] \in Seq(Byte)
        BY <1>6, <3>1
      <4>2. g[n + 1] = g[(n + 1) - 1] \o t[n + 1]
        BY <1>6, <3>1
      <4> QED BY <3>1, <4>1, <4>2
    <3>6. (f[Len(s)] \o g[n]) \o t[n + 1] = f[Len(s)] \o (g[n] \o t[n + 1])
      BY <1>9, <3>3, <3>5, Associative
    <3>7. h[Len(s) + (n + 1)] = f[Len(s)] \o g[n + 1]
      BY <3>2, <3>4, <3>5, <3>6
    <3>8. n + 1 \in 0..Len(t)
      BY <3>1
    <3> QED BY <3>7, <3>8, Zenon
  <2>3. \A n \in 0..Len(t) : n \in S
    <3> HIDE DEF S
    <3> QED BY <1>4, <2>1, <2>2, Induction
  <2>4. Len(t) \in 0..Len(t)
    BY <1>4
  <2>5. Len(t) \in S
    BY <2>3, <2>4
  <2> QED BY <2>5
<1> QED BY <1>1, <1>2, <1>3, <1>4, <1>10, FlattenIs

\* None, one or two fields.
LEMMA FlattenShort ==
  /\ <<>> \in Fields /\ FlattenSeq(<<>>) = <<>>
  /\ \A a \in Seq(Byte) : <<a>> \in Fields /\ FlattenSeq(<<a>>) = a
  /\ \A a, b \in Seq(Byte) : <<a, b>> \in Fields /\ FlattenSeq(<<a, b>>) = a \o b
<1>1. <<>> \in Fields /\ FlattenSeq(<<>>) = <<>>
  BY DEF Fields, FlattenSeq
<1>2. ASSUME NEW a \in Seq(Byte) PROVE <<a>> \in Fields /\ FlattenSeq(<<a>>) = a
  <2>1. <<a>> \in Fields /\ Len(<<a>>) = 1
    BY DEF Fields
  <2>2. PICK f : Joins(f, <<a>>)
    BY <2>1, JoinsExist
  <2>3. f[0] = <<>> /\ f[1] = f[0] \o a
    <3>1. f[0] = <<>> /\ \A n \in 1..1 : f[n] = f[n - 1] \o <<a>>[n]
      BY <2>1, <2>2 DEF Joins
    <3>2. 1 \in 1..1 /\ 1 - 1 = 0 /\ <<a>>[1] = a
      OBVIOUS
    <3> QED BY <3>1, <3>2
  <2>4. FlattenSeq(<<a>>) = f[1]
    BY <2>1, <2>2, FlattenIs
  <2> QED BY <2>1, <2>3, <2>4, ConcatEmptySeq
<1>3. ASSUME NEW a \in Seq(Byte), NEW b \in Seq(Byte)
      PROVE  <<a, b>> \in Fields /\ FlattenSeq(<<a, b>>) = a \o b
  <2>1. <<a>> \in Fields /\ <<b>> \in Fields
    BY DEF Fields
  <2>3. <<a, b>> = <<a>> \o <<b>>
    <3>1. <<a, b>> \in Seq(Seq(Byte)) /\ <<a>> \o <<b>> \in Seq(Seq(Byte))
      OBVIOUS
    <3>2. Len(<<a, b>>) = 2 /\ Len(<<a>> \o <<b>>) = 2
      OBVIOUS
    <3>3. \A i \in 1..2 : <<a, b>>[i] = (<<a>> \o <<b>>)[i]
      OBVIOUS
    <3> QED BY <3>1, <3>2, <3>3, SeqEqual
  <2>2. <<a, b>> \in Fields
    BY DEF Fields
  <2>4. FlattenSeq(<<a>> \o <<b>>) = FlattenSeq(<<a>>) \o FlattenSeq(<<b>>)
    BY <2>1, FlattenConcat
  <2>5. FlattenSeq(<<a>>) = a /\ FlattenSeq(<<b>>) = b
    BY <1>2
  <2> QED BY <2>2, <2>3, <2>4, <2>5
<1> QED BY <1>1, <1>2, <1>3

\* The lengths of fields are numbers; those of fields one after the other come one
\* after the other.
LEMMA LensAre ==
  ASSUME NEW s \in Fields
  PROVE  /\ Lens(s) \in Seq(Nat) /\ Len(Lens(s)) = Len(s)
         /\ \A t \in Fields : s \o t \in Fields /\ Lens(s \o t) = Lens(s) \o Lens(t)
<1>1. ASSUME NEW t \in Fields, NEW i \in 1..Len(t) PROVE Len(t[i]) \in Nat
  <2>1. t[i] \in Seq(Byte)
    BY DEF Fields
  <2> QED BY <2>1
<1>2. ASSUME NEW t \in Fields PROVE Lens(t) \in Seq(Nat) /\ Len(Lens(t)) = Len(t)
  <2>1. Len(t) \in Nat
    BY DEF Fields
  <2> QED BY <1>1, <2>1 DEF Lens
<1>3. ASSUME NEW t \in Fields PROVE s \o t \in Fields /\ Lens(s \o t) = Lens(s) \o Lens(t)
  <2>1. /\ s \o t \in Fields /\ Len(s \o t) = Len(s) + Len(t)
        /\ Len(s) \in Nat /\ Len(t) \in Nat
    BY DEF Fields
  <2>2. ASSUME NEW i \in 1..(Len(s) + Len(t))
        PROVE  Lens(s \o t)[i] = (Lens(s) \o Lens(t))[i]
    <3>1. Lens(s \o t)[i] = Len((s \o t)[i])
      BY <2>1 DEF Lens
    <3>2. CASE i <= Len(s)
      <4>1. (s \o t)[i] = s[i]
        BY <2>1, <3>2 DEF Fields
      <4>2. (Lens(s) \o Lens(t))[i] = Lens(s)[i]
        BY <1>2, <2>1, <3>2
      <4>3. Lens(s)[i] = Len(s[i])
        BY <2>1, <3>2 DEF Lens
      <4> QED BY <3>1, <4>1, <4>2, <4>3
    <3>3. CASE i > Len(s)
      <4>0. i - Len(s) \in 1..Len(t)
        BY <2>1, <3>3
      <4>1. (s \o t)[i] = t[i - Len(s)]
        BY <2>1, <3>3 DEF Fields
      <4>2. (Lens(s) \o Lens(t))[i] = Lens(t)[i - Len(s)]
        BY <1>2, <2>1, <3>3, SMTT(60)
      <4>3. Lens(t)[i - Len(s)] = Len(t[i - Len(s)])
        BY <4>0 DEF Lens
      <4> QED BY <3>1, <4>1, <4>2, <4>3
    <3>4. i <= Len(s) \/ i > Len(s)
      BY <2>1
    <3> QED BY <3>2, <3>3, <3>4, Zenon
  <2>3. /\ Lens(s \o t) \in Seq(Nat) /\ Len(Lens(s \o t)) = Len(s) + Len(t)
        /\ Lens(s) \o Lens(t) \in Seq(Nat) /\ Len(Lens(s) \o Lens(t)) = Len(s) + Len(t)
    <3>1. Lens(s) \in Seq(Nat) /\ Len(Lens(s)) = Len(s)
      BY <1>2
    <3>2. Lens(t) \in Seq(Nat) /\ Len(Lens(t)) = Len(t)
      BY <1>2
    <3>3. Lens(s \o t) \in Seq(Nat) /\ Len(Lens(s \o t)) = Len(s \o t)
      BY <1>2, <2>1
    <3>4. Lens(s) \o Lens(t) \in Seq(Nat) /\ Len(Lens(s) \o Lens(t)) = Len(s) + Len(t)
      <4>1. \A a, b \in Seq(Nat) : a \o b \in Seq(Nat) /\ Len(a \o b) = Len(a) + Len(b)
        OBVIOUS
      <4>2. /\ Lens(s) \o Lens(t) \in Seq(Nat)
            /\ Len(Lens(s) \o Lens(t)) = Len(Lens(s)) + Len(Lens(t))
        BY <3>1, <3>2, <4>1
      <4> QED BY <3>1, <3>2, <4>2
    <3> QED BY <2>1, <3>3, <3>4
  <2> QED BY <2>1, <2>2, <2>3, SeqEqual
<1> QED BY <1>2, <1>3

\* Fields one after the other are as long as all of them together.
LEMMA FlattenLen ==
  ASSUME NEW fields \in Fields
  PROVE  Len(FlattenSeq(fields)) = Total(Lens(fields))
<1>1. PICK f : Joins(f, fields)
  BY JoinsExist
<1>2. Lens(fields) \in Seq(Nat) /\ Len(Lens(fields)) = Len(fields) /\ Len(fields) \in Nat
  BY LensAre DEF Fields
<1>3. PICK g : Sums(g, Lens(fields))
  BY <1>2, SumsExist
<1>4. /\ f \in [0..Len(fields) -> Seq(Byte)] /\ f[0] = <<>>
      /\ \A n \in 1..Len(fields) : f[n] = f[n - 1] \o fields[n]
  BY <1>1 DEF Joins
<1>5. /\ g[0] = 0
      /\ \A n \in 1..Len(fields) : g[n] = g[n - 1] + Lens(fields)[n]
  BY <1>2, <1>3 DEF Sums
<1> DEFINE S == {n \in 0..Len(fields) : Len(f[n]) = g[n]}
<1>6. 0 \in S
  BY <1>2, <1>4, <1>5
<1>7. ASSUME NEW n \in 0..(Len(fields) - 1), n \in S PROVE n + 1 \in S
  <2>1. n + 1 \in 1..Len(fields) /\ n + 1 \in 0..Len(fields) /\ n \in 0..Len(fields)
        /\ (n + 1) - 1 = n
    BY <1>2
  <2>2. Len(f[n]) = g[n] /\ f[n] \in Seq(Byte)
    BY <1>4, <1>7, <2>1
  <2>3. f[n + 1] = f[n] \o fields[n + 1]
    BY <1>4, <2>1
  <2>4. g[n + 1] = g[n] + Len(fields[n + 1])
    BY <1>5, <2>1 DEF Lens
  <2>5. fields[n + 1] \in Seq(Byte)
    BY <2>1 DEF Fields
  <2>6. Len(f[n + 1]) = g[n + 1]
    <3>1. Len(f[n] \o fields[n + 1]) = Len(f[n]) + Len(fields[n + 1])
      <4>1. f[n] \in Seq(Byte) /\ fields[n + 1] \in Seq(Byte)
        BY <2>2, <2>5
      <4> QED BY <4>1, ConcatProperties
    <3> QED BY <2>2, <2>3, <2>4, <3>1
  <2> QED BY <2>1, <2>6, Zenon
<1>8. \A n \in 0..Len(fields) : n \in S
  <2> HIDE DEF S
  <2> QED BY <1>2, <1>6, <1>7, Induction
<1>9. Len(f[Len(fields)]) = g[Len(fields)]
  BY <1>2, <1>8
<1> QED BY <1>1, <1>2, <1>3, <1>9, FlattenIs, TotalIs

\* The states of an encoder over a buffer of size bytes.
Writer(size) == [err : {Success, "BUFFER_TOO_SHORT"}, size : {size}, out : Seq(Byte)]

\* One write: done if there is room and no write before it failed.
LEMMA PutIs ==
  ASSUME NEW size \in Nat, NEW w \in Writer(size), Len(w.out) <= size, NEW x \in Seq(Byte)
  PROVE  /\ Put(w, x) \in Writer(size) /\ Len(Put(w, x).out) <= size
         /\ (Put(w, x).err = Success) <=> (w.err = Success /\ Len(w.out) + Len(x) <= size)
         /\ Put(w, x).err = Success => Put(w, x).out = w.out \o x
<1>1. /\ w.err \in {Success, "BUFFER_TOO_SHORT"} /\ w.size = size /\ w.out \in Seq(Byte)
      /\ w = [err |-> w.err, size |-> size, out |-> w.out]
  BY DEF Writer
<1>2. Len(w.out) \in Nat /\ Len(x) \in Nat /\ Success # "BUFFER_TOO_SHORT"
  BY <1>1 DEF Success
<1>3. CASE w.err # Success
  BY <1>1, <1>2, <1>3 DEF Put
<1>4. CASE w.err = Success /\ size - Len(w.out) < Len(x)
  <2>1. Put(w, x) = [err |-> "BUFFER_TOO_SHORT", size |-> size, out |-> w.out]
    BY <1>1, <1>4 DEF Put
  <2> QED BY <1>1, <1>2, <1>4, <2>1 DEF Writer
<1>5. CASE w.err = Success /\ ~(size - Len(w.out) < Len(x))
  <2>1. Put(w, x) = [err |-> Success, size |-> size, out |-> w.out \o x]
    BY <1>1, <1>5 DEF Put
  <2>2. w.out \o x \in Seq(Byte) /\ Len(w.out \o x) = Len(w.out) + Len(x)
    BY <1>1
  <2> QED BY <1>1, <1>2, <1>5, <2>1, <2>2 DEF Writer
<1> QED BY <1>3, <1>4, <1>5

\* An encoder writes all its fields, if together they fit, and refuses otherwise;
\* it never writes behind the end of the buffer.
LEMMA WriteIs ==
  ASSUME NEW size \in Nat, NEW fields \in Fields
  PROVE  LET w == Write([err |-> Success, size |-> size, out |-> <<>>], fields)
         IN /\ w.size = size /\ w.out \in Seq(Byte) /\ Len(w.out) <= size
            /\ w.err = IF Total(Lens(fields)) <= size THEN Success ELSE "BUFFER_TOO_SHORT"
            /\ w.err = Success => w.out = FlattenSeq(fields)
<1> DEFINE start == [err |-> Success, size |-> size, out |-> <<>>]
           N == Len(fields)
           F(h) == [n \in 0..N |-> IF n = 0 THEN start ELSE Put(h[n - 1], fields[n])]
           w == CHOOSE h : h = F(h)
<1>1. PICK f : Joins(f, fields)
  BY JoinsExist
<1>2. Lens(fields) \in Seq(Nat) /\ Len(Lens(fields)) = N /\ N \in Nat
  BY LensAre DEF Fields
<1>3. PICK g : Sums(g, Lens(fields))
  BY <1>2, SumsExist
<1>4. /\ f \in [0..N -> Seq(Byte)] /\ f[0] = <<>>
      /\ \A n \in 1..N : f[n] = f[n - 1] \o fields[n]
  BY <1>1 DEF Joins
<1>5. /\ g \in [0..N -> Nat] /\ g[0] = 0
      /\ \A n \in 1..N : g[n] = g[n - 1] + Len(fields[n])
  <2>1. \A n \in 1..N : Lens(fields)[n] = Len(fields[n])
    BY DEF Lens
  <2> QED BY <1>2, <1>3, <2>1 DEF Sums
<1>6. \A n \in 1..N : fields[n] \in Seq(Byte)
  BY DEF Fields
<1>7. start \in Writer(size) /\ Len(start.out) <= size
  BY DEF Writer
<1> DEFINE Q(n, h) == /\ h \in [0..n -> Writer(size)] /\ h[0] = start
                      /\ \A k \in 1..n : h[k] = Put(h[k - 1], fields[k])
                      /\ \A k \in 0..n : Len(h[k].out) <= size
           S == {n \in 0..N : \E h : Q(n, h)}
<1>8. \E h : Q(0, h)
  <2>1. PICK h : h = [n \in 0..0 |-> start]
    OBVIOUS
  <2>2. Q(0, h)
    BY <1>7, <2>1
  <2> QED BY <2>2
<1>9. ASSUME NEW n \in 0..(N - 1), NEW h, Q(n, h) PROVE \E e : Q(n + 1, e)
  <2>1. PICK next : next = Put(h[n], fields[n + 1])
    OBVIOUS
  <2>2. n + 1 \in 1..N /\ n \in 0..n
    BY <1>2
  <2>3. h[n] \in Writer(size) /\ Len(h[n].out) <= size
    BY <1>9, <2>2
  <2>4. next \in Writer(size) /\ Len(next.out) <= size
    <3>1. fields[n + 1] \in Seq(Byte)
      BY <1>6, <2>2
    <3> QED BY <2>1, <2>3, <3>1, PutIs
  <2>5. PICK e : e = [k \in 0..(n + 1) |-> IF k <= n THEN h[k] ELSE next]
    OBVIOUS
  <2>6. \A k \in 0..n : e[k] = h[k]
    BY <2>5
  <2>7. e[n + 1] = next
    BY <2>5
  <2>8. e \in [0..(n + 1) -> Writer(size)]
    BY <1>9, <2>4, <2>5
  <2>9. ASSUME NEW k \in 1..(n + 1) PROVE e[k] = Put(e[k - 1], fields[k])
    <3>1. e[k - 1] = h[k - 1]
      BY <2>6
    <3>2. CASE k <= n
      <4>1. k \in 1..n /\ k \in 0..n
        BY <3>2
      <4>2. h[k] = Put(h[k - 1], fields[k])
        BY <1>9, <4>1
      <4> QED BY <2>6, <3>1, <4>1, <4>2
    <3>3. CASE k = n + 1
      <4>1. k - 1 = n
        BY <3>3
      <4> QED BY <2>1, <2>7, <3>1, <3>3, <4>1
    <3> QED BY <3>2, <3>3
  <2>10. ASSUME NEW k \in 0..(n + 1) PROVE Len(e[k].out) <= size
    BY <1>9, <2>4, <2>6, <2>7
  <2>11. e[0] = start
    BY <1>9, <2>6
  <2> QED BY <2>8, <2>9, <2>10, <2>11
<1>10. PICK v : Q(N, v)
  <2> HIDE DEF Q
  <2>1. 0 \in S /\ \A n \in 0..(N - 1) : n \in S => n + 1 \in S
    BY <1>2, <1>8, <1>9
  <2>2. \A n \in 0..N : n \in S
    <3> HIDE DEF S, N
    <3> QED BY <1>2, <2>1, Induction
  <2> QED BY <1>2, <2>2
<1>11. w = F(w)
  <2>1. v = F(v)
    BY <1>2, <1>10
  <2> HIDE DEF F
  <2> QED BY <2>1
<1>12. Write(start, fields) = w[N]
  BY DEF Write
<1> HIDE DEF w
<1>13. w[0] = start /\ \A n \in 1..N : w[n] = Put(w[n - 1], fields[n])
  <2>1. ASSUME NEW n \in 0..N
        PROVE  w[n] = IF n = 0 THEN start ELSE Put(w[n - 1], fields[n])
    <3> HIDE DEF start
    <3> QED BY <1>11
  <2>2. w[0] = start
    <3> HIDE DEF start
    <3>1. 0 \in 0..N
      BY <1>2
    <3> QED BY <2>1, <3>1
  <2>3. ASSUME NEW n \in 1..N PROVE w[n] = Put(w[n - 1], fields[n])
    <3> HIDE DEF start
    <3>1. n \in 0..N /\ n # 0
      BY <1>2
    <3> QED BY <2>1, <3>1
  <2> QED BY <2>2, <2>3
<1> DEFINE I(n) == /\ w[n] \in Writer(size) /\ Len(w[n].out) <= size
                   /\ (w[n].err = Success) <=> (g[n] <= size)
                   /\ w[n].err = Success => w[n].out = f[n]
                   /\ Len(f[n]) = g[n]
           T == {n \in 0..N : I(n)}
<1>14. I(0)
  BY <1>2, <1>4, <1>5, <1>7, <1>13
<1>15. ASSUME NEW n \in 0..(N - 1), I(n) PROVE I(n + 1)
  <2>1. n + 1 \in 1..N /\ n \in 0..N /\ n + 1 \in 0..N /\ (n + 1) - 1 = n
    BY <1>2
  <2>2. w[n + 1] = Put(w[n], fields[n + 1])
    BY <1>13, <2>1
  <2>3. f[n + 1] = f[n] \o fields[n + 1] /\ f[n] \in Seq(Byte)
    BY <1>4, <2>1
  <2>4. g[n + 1] = g[n] + Len(fields[n + 1]) /\ g[n] \in Nat
    BY <1>5, <2>1
  <2>5. fields[n + 1] \in Seq(Byte) /\ Len(fields[n + 1]) \in Nat
    BY <1>6, <2>1
  <2>6. Len(f[n + 1]) = g[n + 1]
    <3>1. Len(f[n] \o fields[n + 1]) = Len(f[n]) + Len(fields[n + 1])
      BY <2>3, <2>5
    <3>2. Len(f[n]) = g[n]
      BY <1>15
    <3> QED BY <2>3, <2>4, <3>1, <3>2
  <2>7. w[n] \in Writer(size) /\ Len(w[n].out) <= size
    BY <1>15
  <2>8. PICK p : p = Put(w[n], fields[n + 1])
    OBVIOUS
  <2>9. /\ p \in Writer(size) /\ Len(p.out) <= size
        /\ (p.err = Success)
             <=> (w[n].err = Success /\ Len(w[n].out) + Len(fields[n + 1]) <= size)
        /\ p.err = Success => p.out = w[n].out \o fields[n + 1]
    BY <2>5, <2>7, <2>8, PutIs
  <2>10. (w[n].err = Success) <=> (g[n] <= size)
    BY <1>15
  <2>11. w[n].err = Success => w[n].out = f[n] /\ Len(w[n].out) = g[n]
    BY <1>15
  <2>12. (p.err = Success) <=> (g[n + 1] <= size)
    <3>1. CASE w[n].err = Success
      BY <2>4, <2>5, <2>9, <2>11, <3>1
    <3>2. CASE w[n].err # Success
      <4>1. ~(g[n] <= size) /\ p.err # Success
        BY <2>9, <2>10, <3>2
      <4>2. ~(g[n + 1] <= size)
        BY <2>4, <2>5, <4>1
      <4> QED BY <4>1, <4>2
    <3> QED BY <3>1, <3>2
  <2>13. p.err = Success => p.out = f[n + 1]
    BY <2>3, <2>9, <2>11
  <2>14. w[n + 1] = p
    BY <2>2, <2>8
  <2> QED BY <2>6, <2>9, <2>12, <2>13, <2>14
<1>16. I(N)
  <2> HIDE DEF I
  <2>1. 0 \in T /\ \A n \in 0..(N - 1) : n \in T => n + 1 \in T
    BY <1>2, <1>14, <1>15
  <2>2. \A n \in 0..N : n \in T
    <3> HIDE DEF T, N
    <3> QED BY <1>2, <2>1, Induction
  <2> QED BY <1>2, <2>2
<1>17. FlattenSeq(fields) = f[N] /\ Total(Lens(fields)) = g[N]
  BY <1>1, <1>2, <1>3, FlattenIs, TotalIs
<1>18. /\ w[N].err \in {Success, "BUFFER_TOO_SHORT"} /\ w[N].size = size
       /\ w[N].out \in Seq(Byte)
  BY <1>16 DEF Writer
<1> QED BY <1>12, <1>16, <1>17, <1>18
=============================================================================

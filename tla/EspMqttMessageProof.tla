------------------------- MODULE EspMqttMessageProof -------------------------
(***************************************************************************)
(* Theorems about the messages of EspMqtt, for any number of tasks that    *)
(* receive and dispatch and for any size of the queue.                     *)
(***************************************************************************)
EXTENDS EspMqttProof

Ascending(s) == \A i, j \in 1..Len(s) : i < j => s[i] < s[j]
AllBelow(s, t) == \A i \in 1..Len(s) : \A j \in 1..Len(t) : s[i] < t[j]
UpTo(s, n) == \A i \in 1..Len(s) : s[i] <= n

\* PipelineOrdered taken apart, and nothing is newer than the last arrival.
Ordered ==
    /\ Ascending(queue) /\ Ascending(wire) /\ AllBelow(queue, wire)
    /\ UpTo(queue, arrived) /\ UpTo(wire, arrived)
HandsApart ==
    \A t \in Tasks : hand[t] # 0 =>
        /\ hand[t] <= arrived
        /\ \A i \in 1..Len(queue) : hand[t] < queue[i]
        /\ \A i \in 1..Len(wire) : hand[t] < wire[i]
        /\ \A u \in Tasks \ {t} : hand[u] # hand[t]
PInv == TypeOK /\ Ordered /\ HandsApart

-----------------------------------------------------------------------------
\* Steps that leave the messages where they are.
Still == UNCHANGED <<queue, wire, arrived, hand>>

\* What each step does to the messages.
LEMMA MessageSteps ==
    ASSUME Next
    PROVE  \/ Still
           \/ BrokerSends
           \/ \E t \in Tasks : ReceiveMessage(t)
           \/ \E t \in Tasks : TakeEvent(t)
           \/ \E t \in Tasks : DeliverEvent(t)
           \/ wire' = <<>> /\ ~connected' /\ UNCHANGED <<queue, arrived, hand>>
           \/ /\ \E v : hand' = [hand EXCEPT ![v] = 0]
              /\ UNCHANGED <<queue, wire, arrived>>
<1> USE DEF stream, events
<1>1. ASSUME NEW t \in App, NEW f \in Functions, Call(t, f) PROVE Still
  BY <1>1 DEF Call, Still
<1>2. ASSUME NEW t \in Tasks, LockMain(t) \/ LockSelect(t) PROVE Still
  BY <1>2 DEF LockMain, LockSelect, Still
<1>3. ASSUME NEW p \in Proc, ProcessStep(p)
      PROVE  Still \/ (wire' = <<>> /\ ~connected' /\ UNCHANGED <<queue, arrived, hand>>)
  <2>1. CASE Exit(p)
    BY <2>1 DEF Exit, ResetFlags
  <2>2. CASE CallbackStep(p)
    <3>1. CASE CallbackReturns(p)
      BY <3>1 DEF CallbackReturns, Goto, Still
    <3>2. ASSUME NEW f \in Functions, CallbackCalls(p, f) PROVE Still
      BY <3>2 DEF CallbackCalls, Goto, Still
    <3>3. QED
      BY <2>2, <3>1, <3>2 DEF CallbackStep
  <2>3. ASSUME ~Exit(p), ~CallbackStep(p) PROVE Still
    <3>1. ConnectFails(p) \/ ConnectSucceeds(p) \/ DelayOver(p) => Still
      BY DEF ConnectFails, ConnectSucceeds, DelayOver, Still
    <3>2. Check(p) \/ SelectFails(p) \/ SelectReturns(p) => Still
      BY DEF Check, SelectFails, SelectReturns, Goto, Still
    <3>3. WorkFails(p) \/ WorkDone(p) \/ Delete(p) => Still
      BY DEF WorkFails, WorkDone, Delete, Still
    <3>4. QED
      BY <1>3, <2>3, <3>1, <3>2, <3>3 DEF ProcessStep
  <2>4. QED
    BY <2>1, <2>2, <2>3
<1>4. ASSUME NEW t \in Tasks, StopKills(t)
      PROVE  /\ \E v : hand' = [hand EXCEPT ![v] = 0]
             /\ UNCHANGED <<queue, wire, arrived>>
  <2>1. hand' = [hand EXCEPT ![Victim(t)] = 0] /\ UNCHANGED <<queue, wire, arrived>>
    BY <1>4 DEF StopKills
  <2>2. hand' = [hand EXCEPT ![t] = 0] \/ hand' = [hand EXCEPT ![handle] = 0]
    BY <2>1 DEF Victim
  <2>3. QED
    BY <2>1, <2>2
<1>5. ASSUME NEW t \in Tasks, StopDisconnects(t)
      PROVE  wire' = <<>> /\ ~connected' /\ UNCHANGED <<queue, arrived, hand>>
  BY <1>5 DEF StopDisconnects
<1>6. ASSUME NEW t \in Tasks, ApiStep(t), ~TakeEvent(t), ~DeliverEvent(t), ~StopKills(t),
             ~StopDisconnects(t)
      PROVE  Still
  BY <1>6 DEF ApiStep, Lwt, StartAgain, Start, CommandRejected, CommandFails, CommandSucceeds,
              DispatchDone, StopNothing, StopEnds, Still
<1>7. QED
  BY <1>1, <1>2, <1>3, <1>4, <1>5, <1>6 DEF Next

-----------------------------------------------------------------------------
\* Orders of sequences survive what the steps do to them.
LEMMA TailKeeps ==
    ASSUME NEW S \in SUBSET Nat, NEW s \in Seq(S), s # <<>>, Ascending(s)
    PROVE  /\ Tail(s) \in Seq(S) /\ Head(s) \in S
           /\ Ascending(Tail(s))
           /\ \A i \in 1..Len(Tail(s)) : Head(s) < Tail(s)[i] /\ Tail(s)[i] = s[i + 1]
           /\ Len(Tail(s)) = Len(s) - 1 /\ Head(s) = s[1] /\ Len(s) \in Nat \ {0}
BY DEF Ascending

\* ... and what a sequence gets at its end.
LEMMA AppendKeeps ==
    ASSUME NEW S \in SUBSET Nat, NEW s \in Seq(S), NEW e \in S, Ascending(s),
           \A i \in 1..Len(s) : s[i] < e
    PROVE  /\ Append(s, e) \in Seq(S)
           /\ Ascending(Append(s, e))
           /\ Len(Append(s, e)) = Len(s) + 1
           /\ \A i \in 1..Len(s) : Append(s, e)[i] = s[i]
           /\ Append(s, e)[Len(s) + 1] = e
<1> DEFINE a == Append(s, e)
<1>1. /\ a \in Seq(S) /\ Len(a) = Len(s) + 1 /\ Len(s) \in Nat
      /\ \A i \in 1..Len(s) : a[i] = s[i]
      /\ a[Len(s) + 1] = e
  OBVIOUS
<1>2. ASSUME NEW i \in 1..Len(a), NEW j \in 1..Len(a), i < j PROVE a[i] < a[j]
  <2>1. i \in 1..Len(s)
    BY <1>1, <1>2
  <2>2. CASE j = Len(s) + 1
    BY <1>1, <2>1, <2>2
  <2>3. CASE j \in 1..Len(s)
    BY <1>1, <1>2, <2>1, <2>3 DEF Ascending
  <2>4. QED
    BY <1>1, <2>2, <2>3
<1>3. QED
  BY <1>1, <1>2 DEF Ascending

\* The order of the messages survives every step.
LEMMA PInvStep == PInv /\ [Next]_vars => PInv'
<1> SUFFICES ASSUME PInv, [Next]_vars PROVE Ordered' /\ HandsApart'
  BY TypeStep DEF PInv
<1> USE BoundsAssumption
<1>0. /\ queue \in Seq(Messages) /\ wire \in Seq(Messages) /\ arrived \in Nat
      /\ hand \in [Tasks -> Nat] /\ Messages \in SUBSET Nat
      /\ Len(queue) \in Nat /\ Len(wire) \in Nat
  BY DEF PInv, TypeOK, Messages
<1>m. /\ \A i \in 1..Len(queue) : queue[i] \in Nat
      /\ \A i \in 1..Len(wire) : wire[i] \in Nat
      /\ \A t \in Tasks : hand[t] \in Nat
  <2>1. /\ \A i \in 1..Len(queue) : queue[i] \in Messages
        /\ \A i \in 1..Len(wire) : wire[i] \in Messages
    BY <1>0
  <2>2. QED
    BY <1>0, <2>1
<1>1. ASSUME Still PROVE Ordered' /\ HandsApart'
  BY <1>1 DEF Still, PInv, Ordered, HandsApart, Ascending, AllBelow, UpTo
<1>2. ASSUME BrokerSends PROVE Ordered' /\ HandsApart'
  <2>1. /\ arrived' = arrived + 1 /\ wire' = Append(wire, arrived + 1)
        /\ queue' = queue /\ hand' = hand /\ arrived + 1 \in Messages
    BY <1>0, <1>m, <1>2 DEF BrokerSends, events, Messages
  <2>2. /\ Ascending(wire') /\ Len(wire') = Len(wire) + 1
        /\ \A i \in 1..Len(wire) : wire'[i] = wire[i]
        /\ wire'[Len(wire) + 1] = arrived + 1
    <3>1. \A i \in 1..Len(wire) : wire[i] \in Nat /\ wire[i] < arrived + 1
      BY <1>0, <1>m DEF PInv, Ordered, UpTo
    <3>2. Ascending(wire) /\ wire \in Seq(Messages) /\ arrived + 1 \in Messages
      BY <1>0, <2>1 DEF PInv, Ordered
    <3>3. QED
      BY ONLY <1>0, <2>1, <3>1, <3>2, AppendKeeps
  <2>3. \A i \in 1..Len(wire') : i \in 1..Len(wire) \/ i = Len(wire) + 1
    BY <1>0, <1>m, <2>2
  <2>5. Ordered'
    <3>1. \A i \in 1..Len(queue) : queue[i] <= arrived
      BY DEF PInv, Ordered, UpTo
    <3>2. \A i \in 1..Len(wire) : wire[i] <= arrived
      BY DEF PInv, Ordered, UpTo
    <3>3. Ascending(queue') /\ UpTo(queue, arrived)'
      BY <1>0, <1>m, <2>1, <3>1 DEF PInv, Ordered, UpTo
    <3>4. AllBelow(queue, wire)'
      BY <1>0, <1>m, <2>1, <2>2, <2>3, <3>1 DEF PInv, Ordered, AllBelow
    <3>5. UpTo(wire, arrived)'
      BY <1>0, <1>m, <2>1, <2>2, <2>3, <3>2 DEF UpTo
    <3>6. QED
      BY <2>2, <3>3, <3>4, <3>5 DEF Ordered
  <2>6. HandsApart'
    BY <1>0, <1>m, <2>1, <2>2, <2>3 DEF PInv, HandsApart
  <2>7. QED
    BY <2>5, <2>6
<1>3. ASSUME NEW t \in Tasks, ReceiveMessage(t) PROVE Ordered' /\ HandsApart'
  <2>1. /\ wire # <<>> /\ wire' = Tail(wire)
        /\ arrived' = arrived /\ hand' = hand
        /\ queue' = queue \/ queue' = Append(queue, Head(wire))
    BY <1>3 DEF ReceiveMessage, Enqueue
  <2>2. /\ Head(wire) \in Messages /\ Ascending(Tail(wire))
        /\ \A i \in 1..Len(wire') : Head(wire) < wire'[i] /\ wire'[i] = wire[i + 1]
        /\ Len(wire') = Len(wire) - 1 /\ Head(wire) = wire[1] /\ 1 \in 1..Len(wire)
    BY <1>0, <1>m, <2>1, TailKeeps DEF PInv, Ordered
  <2>3. \A i \in 1..Len(wire') : i + 1 \in 1..Len(wire)
    BY <1>0, <1>m, <2>2
  <2>4. CASE queue' = queue
    <3>1. Ordered'
      BY <1>0, <1>m, <2>1, <2>2, <2>3, <2>4 DEF PInv, Ordered, Ascending, AllBelow, UpTo
    <3>2. HandsApart'
      BY <1>0, <1>m, <2>1, <2>2, <2>3, <2>4 DEF PInv, HandsApart
    <3>3. QED
      BY <3>1, <3>2
  <2>5. CASE queue' = Append(queue, Head(wire))
    <3>1. \A i \in 1..Len(queue) : queue[i] < Head(wire)
      BY <2>2 DEF PInv, Ordered, AllBelow
    <3>2. /\ Ascending(queue') /\ Len(queue') = Len(queue) + 1
          /\ \A i \in 1..Len(queue) : queue'[i] = queue[i]
          /\ queue'[Len(queue) + 1] = Head(wire)
      <4>1. Ascending(queue) /\ queue \in Seq(Messages) /\ Head(wire) \in Messages
        BY <1>0, <2>2 DEF PInv, Ordered
      <4>2. QED
        BY ONLY <1>0, <2>5, <3>1, <4>1, AppendKeeps
    <3>3. \A i \in 1..Len(queue') : i \in 1..Len(queue) \/ i = Len(queue) + 1
      BY <1>0, <1>m, <3>2
    <3>4. AllBelow(queue', wire')
      BY <2>2, <2>3, <3>2, <3>3 DEF PInv, Ordered, AllBelow
    <3>5. Ordered'
      BY <1>0, <1>m, <2>1, <2>2, <2>3, <3>2, <3>3, <3>4 DEF PInv, Ordered, Ascending, UpTo
    <3>6. HandsApart'
      BY <1>0, <1>m, <2>1, <2>2, <2>3, <3>2, <3>3 DEF PInv, HandsApart
    <3>7. QED
      BY <3>5, <3>6
  <2>6. QED
    BY <2>1, <2>4, <2>5
<1>4. ASSUME NEW t \in Tasks, TakeEvent(t) PROVE Ordered' /\ HandsApart'
  <2>1. /\ queue # <<>> /\ queue' = Tail(queue) /\ wire' = wire /\ arrived' = arrived
        /\ hand' = [hand EXCEPT ![t] = Head(queue)]
    BY <1>4 DEF TakeEvent, Dequeue, stream
  <2>2. /\ Head(queue) \in Messages /\ Ascending(Tail(queue))
        /\ \A i \in 1..Len(queue') : Head(queue) < queue'[i] /\ queue'[i] = queue[i + 1]
        /\ Len(queue') = Len(queue) - 1 /\ Head(queue) = queue[1] /\ 1 \in 1..Len(queue)
    BY <1>0, <1>m, <2>1, TailKeeps DEF PInv, Ordered
  <2>3. \A i \in 1..Len(queue') : i + 1 \in 1..Len(queue)
    BY <1>0, <1>m, <2>2
  <2>4. Ordered'
    BY <1>0, <1>m, <2>1, <2>2, <2>3 DEF PInv, Ordered, Ascending, AllBelow, UpTo
  <2>5. \A u \in Tasks : hand'[u] = IF u = t THEN Head(queue) ELSE hand[u]
    BY <1>0, <1>m, <2>1
  <2>6. \A u \in Tasks : hand[u] # 0 => hand[u] < Head(queue)
    BY <2>2 DEF PInv, HandsApart
  <2>7. Head(queue) <= arrived /\ \A i \in 1..Len(wire) : Head(queue) < wire[i]
    BY <2>2 DEF PInv, Ordered, AllBelow, UpTo
  <2>8. Head(queue) \in Nat /\ \A u \in Tasks : hand[u] \in Nat
    BY <1>0, <1>m, <2>2
  <2>9. HandsApart'
    BY <2>1, <2>2, <2>3, <2>5, <2>6, <2>7, <2>8 DEF PInv, HandsApart
  <2>10. QED
    BY <2>4, <2>9
<1>5. ASSUME NEW v, hand' = [hand EXCEPT ![v] = 0], UNCHANGED <<queue, wire, arrived>>
      PROVE  Ordered' /\ HandsApart'
  <2>1. \A u \in Tasks : hand'[u] = IF u = v THEN 0 ELSE hand[u]
    BY <1>0, <1>m, <1>5
  <2>2. QED
    BY <1>5, <2>1 DEF PInv, Ordered, HandsApart, Ascending, AllBelow, UpTo
<1>6. ASSUME NEW t \in Tasks, DeliverEvent(t) PROVE Ordered' /\ HandsApart'
  BY <1>5, <1>6 DEF DeliverEvent, stream
<1>7. ASSUME wire' = <<>>, UNCHANGED <<queue, arrived, hand>> PROVE Ordered' /\ HandsApart'
  <2>1. Len(wire') = 0
    BY <1>7
  <2>2. QED
    BY <1>0, <1>m, <1>7, <2>1 DEF PInv, Ordered, HandsApart, Ascending, AllBelow, UpTo
<1>8. CASE Next
  BY <1>1, <1>2, <1>3, <1>4, <1>5, <1>6, <1>7, <1>8, MessageSteps
<1>9. CASE UNCHANGED vars
  BY <1>1, <1>9 DEF vars, Still, stream, events
<1>10. QED
  BY <1>8, <1>9

\* At the start there are no messages.
LEMMA PInvInit == Init => PInv
<1> SUFFICES ASSUME Init PROVE PInv
  OBVIOUS
<1>1. queue = <<>> /\ wire = <<>> /\ \A t \in Tasks : hand[t] = 0
  BY DEF Init
<1>2. Len(<<>>) = 0
  OBVIOUS
<1>3. Ordered /\ HandsApart
  BY <1>1, <1>2 DEF Ordered, HandsApart, Ascending, AllBelow, UpTo
<1>4. QED
  BY <1>3, TypeInit DEF PInv

\* Messages are dispatched in the order of arrival, and none twice, whichever
\* tasks receive and dispatch concurrently, sessions that end and stops that
\* delete a dispatching task included.
THEOREM MessagesOrdered == Spec => []PipelineOrdered
<1>1. PInv => PipelineOrdered
  <2> SUFFICES ASSUME PInv PROVE PipelineOrdered
    OBVIOUS
  <2> DEFINE waiting == queue \o wire
  <2>1. /\ queue \in Seq(Messages) /\ wire \in Seq(Messages)
        /\ Len(queue) \in Nat /\ Len(wire) \in Nat
    BY DEF PInv, TypeOK
  <2>2. /\ Len(waiting) = Len(queue) + Len(wire)
        /\ \A i \in 1..Len(queue) : waiting[i] = queue[i]
        /\ \A i \in 1..Len(waiting) : i > Len(queue) =>
              /\ i - Len(queue) \in 1..Len(wire)
              /\ waiting[i] = wire[i - Len(queue)]
    BY <2>1
  <2>3. ASSUME NEW i \in 1..Len(waiting), NEW j \in 1..Len(waiting), i < j
        PROVE  waiting[i] < waiting[j]
    <3>1. CASE j <= Len(queue)
      BY <2>1, <2>2, <2>3, <3>1 DEF PInv, Ordered, Ascending
    <3>2. CASE i <= Len(queue) /\ j > Len(queue)
      BY <2>1, <2>2, <3>2 DEF PInv, Ordered, AllBelow
    <3>3. CASE i > Len(queue)
      BY <2>1, <2>2, <2>3, <3>3 DEF PInv, Ordered, Ascending
    <3>4. QED
      BY <2>1, <2>2, <3>1, <3>2, <3>3
  <2>4. ASSUME NEW t \in Tasks, hand[t] # 0
        PROVE  /\ \A i \in 1..Len(waiting) : hand[t] < waiting[i]
               /\ \A u \in Tasks \ {t} : hand[u] # hand[t]
    <3>1. ASSUME NEW i \in 1..Len(waiting) PROVE hand[t] < waiting[i]
      <4>1. CASE i <= Len(queue)
        BY <2>1, <2>2, <2>4, <4>1 DEF PInv, HandsApart
      <4>2. CASE i > Len(queue)
        BY <2>1, <2>2, <2>4, <4>2 DEF PInv, HandsApart
      <4>3. QED
        BY <2>1, <4>1, <4>2
    <3>2. QED
      BY <2>4, <3>1 DEF PInv, HandsApart
  <2>5. QED
    BY <2>3, <2>4 DEF PipelineOrdered
<1>2. QED
  BY PInvInit, PInvStep, <1>1, PTL DEF Spec

-----------------------------------------------------------------------------
\* An event leaves the queue only into the hands of the task that dispatches it,
\* and a received message is dropped only when the queue is full or with its
\* connection: nothing is lost in silence, whatever the tasks do.
THEOREM NothingLost == Spec => NoSilentLoss
<1> DEFINE Kept == \A m \in Messages :
              /\ In(queue, m) => In(queue', m) \/ \E t \in Tasks : hand'[t] = m
              /\ In(wire, m) => \/ In(wire', m) \/ In(queue', m)
                                \/ Len(queue) = EventQueueSize
                                \/ ~connected'
<1>1. TypeOK /\ [Next]_vars => [Kept]_vars
  <2> SUFFICES ASSUME TypeOK, Next PROVE Kept
    OBVIOUS
  <2> USE BoundsAssumption
  <2>0. /\ queue \in Seq(Messages) /\ wire \in Seq(Messages) /\ hand \in [Tasks -> Nat]
        /\ Len(queue) \in Nat /\ Len(wire) \in Nat /\ Len(queue) <= EventQueueSize
    BY DEF TypeOK
  <2>1. CASE Still
    BY <2>1 DEF Still, In
  <2>2. CASE BrokerSends
    <3>1. queue' = queue /\ wire' = Append(wire, arrived + 1) /\ arrived + 1 \in Messages
      BY <2>2 DEF BrokerSends, events, TypeOK, Messages
    <3>2. /\ Len(wire') = Len(wire) + 1
          /\ \A i \in 1..Len(wire) : wire'[i] = wire[i]
      BY <2>0, <3>1
    <3>3. QED
      BY <2>0, <3>1, <3>2 DEF In
  <2>3. ASSUME NEW t \in Tasks, ReceiveMessage(t) PROVE Kept
    <3>1. /\ wire # <<>> /\ wire' = Tail(wire)
          /\ \/ queue' = queue /\ Len(queue) = EventQueueSize
             \/ queue' = Append(queue, Head(wire))
      BY <2>0, <2>3 DEF ReceiveMessage, Enqueue
    <3>2. /\ Len(wire') = Len(wire) - 1 /\ Head(wire) = wire[1] /\ Head(wire) \in Messages
          /\ \A i \in 1..Len(wire') : wire'[i] = wire[i + 1]
      BY <2>0, <3>1
    <3>3. CASE queue' = queue /\ Len(queue) = EventQueueSize
      BY <3>3 DEF In
    <3>4. CASE queue' = Append(queue, Head(wire))
      <4>1. /\ Len(queue') = Len(queue) + 1
            /\ \A i \in 1..Len(queue) : queue'[i] = queue[i]
            /\ queue'[Len(queue) + 1] = wire[1]
        BY <2>0, <3>2, <3>4
      <4>2. ASSUME NEW m \in Messages, NEW i \in 1..Len(wire), wire[i] = m
            PROVE  In(wire', m) \/ In(queue', m)
        <5>1. CASE i = 1
          BY <2>0, <4>1, <4>2, <5>1 DEF In
        <5>2. CASE i # 1
          <6>1. i - 1 \in 1..Len(wire') /\ wire'[i - 1] = m
            BY <2>0, <3>2, <4>2, <5>2
          <6>2. QED
            BY <6>1 DEF In
        <5>3. QED
          BY <5>1, <5>2
      <4>3. ASSUME NEW m \in Messages, In(queue, m) PROVE In(queue', m)
        BY <2>0, <4>1, <4>3 DEF In
      <4>4. QED
        BY <4>2, <4>3 DEF In
    <3>5. QED
      BY <3>1, <3>3, <3>4
  <2>4. ASSUME NEW t \in Tasks, TakeEvent(t) PROVE Kept
    <3>1. /\ queue # <<>> /\ queue' = Tail(queue) /\ wire' = wire
          /\ hand'[t] = Head(queue)
      BY <2>0, <2>4 DEF TakeEvent, Dequeue, stream
    <3>2. /\ Len(queue') = Len(queue) - 1 /\ Head(queue) = queue[1]
          /\ \A i \in 1..Len(queue') : queue'[i] = queue[i + 1]
      BY <2>0, <3>1
    <3>3. ASSUME NEW m \in Messages, NEW i \in 1..Len(queue), queue[i] = m
          PROVE  In(queue', m) \/ hand'[t] = m
      <4>1. CASE i = 1
        BY <3>1, <3>2, <3>3, <4>1
      <4>2. CASE i # 1
        <5>1. i - 1 \in 1..Len(queue') /\ queue'[i - 1] = m
          BY <2>0, <3>2, <3>3, <4>2
        <5>2. QED
          BY <5>1 DEF In
      <4>3. QED
        BY <4>1, <4>2
    <3>4. QED
      BY <3>1, <3>3 DEF In
  <2>5. ASSUME NEW t \in Tasks, DeliverEvent(t) PROVE Kept
    BY <2>5 DEF DeliverEvent, stream, In
  <2>6. ASSUME UNCHANGED <<queue, wire>> \/ (~connected' /\ UNCHANGED queue) PROVE Kept
    BY <2>6 DEF In
  <2>7. QED
    BY <2>1, <2>2, <2>3, <2>4, <2>5, <2>6, MessageSteps
<1>2. QED
  BY TypeCorrect, <1>1, PTL DEF Spec, NoSilentLoss
=============================================================================

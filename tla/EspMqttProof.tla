---------------------------- MODULE EspMqttProof ----------------------------
(***************************************************************************)
(* Theorems about EspMqtt for every number of tasks, every queue size and  *)
(* every choice of the settings, provided that no callback made while the  *)
(* session is up calls esp_mqtt_stop.  What the invariant says of the      *)
(* session holds until xTaskCreatePinnedToCore fails: esp_mqtt_start does  *)
(* not look at its result (esp_mqtt.c:411).                                *)
(***************************************************************************)
EXTENDS EspMqtt, TLAPS

\* What the code relies on without checking it.
GoodUse == "stop" \notin ConnectedCalls

\* A start for which no task could be created, and a step that is none.
CreationFails == \E t \in Tasks : Start(t) /\ pc' = [pc EXCEPT ![t] = ret[t]]
Created == Next /\ ~CreationFails

\* No creation fails.  Of a safety property this says that it holds until one does.
TasksCreated == [][~CreationFails]_vars

\* Then a start leaves a new process.
LEMMA StartCreates ==
    ASSUME [Created]_vars, NEW t \in Tasks, Start(t) PROVE \E p \in Proc : CreateTask(t, p)
<1>1. running' # running
  BY DEF Start, MayStart
<1>2. ~CreationFails
  BY <1>1 DEF Created, vars, flags
<1>3. QED
  BY <1>2 DEF Start, CreationFails

-----------------------------------------------------------------------------
\* Every step keeps every variable in its type.
LEMMA TypeStep == TypeOK /\ [Next]_vars => TypeOK'
<1> SUFFICES ASSUME TypeOK, [Next]_vars PROVE TypeOK'
  OBVIOUS
<1> USE TasksAssumption, CallsAssumption, BoundsAssumption
<1> USE DEF TypeOK, Labels, CallLabels, StopLabels, ConnectLabels, SessionLabels, ExitLabels,
            Returns, Messages, Tasks
<1>0. <<>> \in Seq(Messages) /\ Len(<<>>) = 0
  OBVIOUS
<1>1. ASSUME NEW t \in App, NEW f \in Functions, Call(t, f) PROVE TypeOK'
  BY <1>1 DEF Call, Goto, Entry, Functions, locks, flags, settings, stream, events
<1>2. ASSUME NEW t \in Tasks, LockMain(t) PROVE TypeOK'
  BY <1>2 DEF LockMain, Goto, AfterMain, MainWait, flags, settings, stream, events
<1>3. ASSUME NEW t \in Tasks, LockSelect(t) PROVE TypeOK'
  BY <1>3 DEF LockSelect, Goto, AfterSelect, SelectWait, flags, settings, stream, events
<1>4. ASSUME NEW t \in Tasks, ApiStep(t) PROVE TypeOK'
  <2>1. CASE Lwt(t)
    BY <2>1 DEF Lwt, Return, locks, flags, settings, stream, events
  <2>2. CASE StartAgain(t)
    BY <2>2 DEF StartAgain, Return, locks, flags, settings, stream, events
  <2>3. CASE Start(t)
    BY <2>3, ZenonT(60) DEF Start, MayStart, CreateTask, locks, flags, settings, stream, events
  <2>4. CASE CommandRejected(t)
    BY <2>4 DEF CommandRejected, Return, locks, flags, settings, stream, events
  <2>5. CASE CommandFails(t)
    BY <2>5 DEF CommandFails, Return, locks, flags, settings, stream, events
  <2>6. CASE CommandSucceeds(t)
    BY <2>6 DEF CommandSucceeds, Goto, locks, flags, settings, stream, events
  <2>7. CASE TakeEvent(t)
    <3>1. Head(queue) \in Messages /\ Tail(queue) \in Seq(Messages)
          /\ Len(Tail(queue)) = Len(queue) - 1
      BY <2>7 DEF TakeEvent
    <3>2. QED
      BY <2>7, <3>1 DEF TakeEvent, Dequeue, Goto, locks, flags, settings, stream
  <2>8. CASE DeliverEvent(t)
    BY <2>8 DEF DeliverEvent, Goto, locks, flags, settings, stream, events
  <2>9. CASE DispatchDone(t)
    BY <2>9 DEF DispatchDone, Return, locks, flags, settings, stream, events
  <2>10. CASE StopNothing(t)
    BY <2>10 DEF StopNothing, Return, locks, flags, settings, stream, events
  <2>11. CASE StopDisconnects(t)
    BY <1>0, <2>11 DEF StopDisconnects, Goto, locks, flags, settings, stream, events
  <2>12. CASE StopKills(t)
    BY <2>12 DEF StopKills, Victim, locks, flags, settings, stream, events
  <2>13. CASE StopEnds(t)
    BY <2>13 DEF StopEnds, Return, locks, flags, settings, stream, events
  <2>14. QED
    BY <1>4, <2>1, <2>2, <2>3, <2>4, <2>5, <2>6, <2>7, <2>8, <2>9, <2>10, <2>11, <2>12, <2>13
    DEF ApiStep
<1>5. ASSUME NEW t \in Tasks, ReceiveMessage(t) PROVE TypeOK'
  <2>1. Head(wire) \in Messages /\ Tail(wire) \in Seq(Messages)
    BY <1>5 DEF ReceiveMessage
  <2>2. queue' \in Seq(Messages) /\ Len(queue') <= EventQueueSize
    <3>1. Append(queue, Head(wire)) \in Seq(Messages)
          /\ Len(Append(queue, Head(wire))) = Len(queue) + 1
      BY <2>1
    <3>2. \/ queue' = Append(queue, Head(wire)) /\ Len(queue) < EventQueueSize
         \/ queue' = queue
      BY <1>5 DEF ReceiveMessage, Enqueue
    <3>3. CASE queue' = queue
      BY <3>3
    <3>4. CASE queue' = Append(queue, Head(wire)) /\ Len(queue) < EventQueueSize
      <4>1. Len(queue) \in Nat /\ EventQueueSize \in Nat
        OBVIOUS
      <4>2. QED
        BY ONLY <3>1, <3>4, <4>1
    <3>5. QED
      BY <3>2, <3>3, <3>4
  <2>3. QED
    BY <1>5, <2>1, <2>2 DEF ReceiveMessage, locks, flags, settings
<1>6. ASSUME NEW p \in Proc, ProcessStep(p) PROVE TypeOK'
  <2>1. CASE ConnectFails(p)
    BY <2>1 DEF ConnectFails, Goto, locks, flags, settings, stream, events
  <2>2. CASE ConnectSucceeds(p)
    BY <2>2 DEF ConnectSucceeds, Goto, locks, flags, settings, stream, events
  <2>3. CASE DelayOver(p)
    BY <2>3 DEF DelayOver, Goto, locks, flags, settings, stream, events
  <2>4. CASE CallbackStep(p)
    <3>1. CASE CallbackReturns(p)
      BY <3>1 DEF CallbackReturns, Goto, locks, flags, settings, stream, events
    <3>2. ASSUME NEW f \in Functions, CallbackCalls(p, f) PROVE TypeOK'
      <4>1. Entry[f] \in Labels
        BY DEF Entry, Functions
      <4>2. QED
        BY <3>2, <4>1 DEF CallbackCalls, Goto, locks, flags, settings, stream, events
    <3>3. QED
      BY <2>4, <3>1, <3>2 DEF CallbackStep
  <2>5. CASE Check(p)
    BY <2>5 DEF Check, Goto, locks, flags, settings, stream, events
  <2>6. CASE SelectFails(p)
    BY <2>6 DEF SelectFails, Goto, locks, flags, settings, stream, events
  <2>7. CASE SelectReturns(p)
    BY <2>7 DEF SelectReturns, Goto, locks, flags, settings, stream, events
  <2>8. CASE WorkFails(p)
    BY <2>8 DEF WorkFails, Goto, locks, flags, settings, stream, events
  <2>9. CASE WorkDone(p)
    BY <2>9 DEF WorkDone, Goto, locks, flags, settings, stream, events
  <2>10. CASE Exit(p)
    BY <1>0, <2>10 DEF Exit, ResetFlags, AfterExit, Goto, locks, flags, settings, stream, events
  <2>11. CASE Delete(p)
    BY <2>11 DEF Delete, Goto, locks, flags, settings, stream, events
  <2>12. QED
    BY <1>6, <2>1, <2>2, <2>3, <2>4, <2>5, <2>6, <2>7, <2>8, <2>9, <2>10, <2>11
    DEF ProcessStep
<1>7. CASE BrokerSends
  BY <1>7 DEF BrokerSends, locks, flags, settings, events
<1>8. CASE UNCHANGED vars
  BY <1>8 DEF vars, locks, flags, settings, stream, events
<1>9. QED
  BY <1>1, <1>2, <1>3, <1>4, <1>5, <1>6, <1>7, <1>8 DEF Next

\* The initial state has the right types.
LEMMA TypeInit == Init => TypeOK
<1> SUFFICES ASSUME Init PROVE TypeOK
  OBVIOUS
<1>1. pc \in [Tasks -> Labels]
  BY DEF Init, Labels
<1>2. ret \in [Tasks -> Returns]
  BY DEF Init, Returns
<1>3. wire \in Seq(Messages) /\ queue \in Seq(Messages) /\ Len(queue) <= EventQueueSize
  BY BoundsAssumption DEF Init
<1>4. arrived \in 0..MaxMessages /\ hand \in [Tasks -> 0..MaxMessages]
  BY BoundsAssumption DEF Init
<1>5. QED
  BY <1>1, <1>2, <1>3, <1>4 DEF Init, TypeOK

\* Type correctness of the session manager.
THEOREM TypeCorrect == Spec => []TypeOK
BY TypeInit, TypeStep, PTL DEF Spec
-----------------------------------------------------------------------------
\* Every call returns to the place it was made from.
LEMMA CallersStep == GoodUse /\ IInv /\ [Created]_vars => CallersReturn'
<1> SUFFICES ASSUME GoodUse, IInv, [Created]_vars PROVE CallersReturn'
  OBVIOUS
<1> USE TasksAssumption, BoundsAssumption
<1> USE DEF GoodUse, IInv, TypeOK, CallersReturn, StopHasVictim,
            Labels, CallLabels, StopLabels, ConnectLabels, SessionLabels, ExitLabels,
            MainHeld, SelectHeld, Returns, Tasks
<1>1. ASSUME NEW t \in App, NEW f \in Functions, Call(t, f) PROVE CallersReturn'
  BY <1>1 DEF Call, Goto, Entry, Functions, locks, flags, settings, stream, events
<1>2. ASSUME NEW t \in Tasks, LockMain(t) PROVE CallersReturn'
  BY <1>2 DEF LockMain, MainFree, Goto, AfterMain, MainWait, flags, settings, stream, events
<1>3. ASSUME NEW t \in Tasks, LockSelect(t) PROVE CallersReturn'
  BY <1>3 DEF LockSelect, SelectFree, Goto, AfterSelect, SelectWait, flags, settings, stream, events
<1>4. ASSUME NEW t \in Tasks, ApiStep(t) PROVE CallersReturn'
  <2>1. CASE Lwt(t)
    BY <2>1 DEF Lwt, Return, locks, flags, settings, stream, events
  <2>2. CASE StartAgain(t)
    BY <2>2 DEF StartAgain, Return, locks, flags, settings, stream, events
  <2>3. CASE Start(t)
    <3>1. \E p \in Proc : CreateTask(t, p)
      BY <2>3, StartCreates
    <3>2. QED
      BY <2>3, <3>1 DEF Start, MayStart, CreateTask, locks, flags, settings, stream, events
  <2>4. CASE CommandRejected(t)
    BY <2>4 DEF CommandRejected, Return, locks, flags, settings, stream, events
  <2>5. CASE CommandFails(t)
    BY <2>5 DEF CommandFails, Return, locks, flags, settings, stream, events
  <2>6. CASE CommandSucceeds(t)
    BY <2>6 DEF CommandSucceeds, Goto, locks, flags, settings, stream, events
  <2>7. CASE TakeEvent(t)
    BY <2>7 DEF TakeEvent, Goto, locks, flags, settings, stream, events
  <2>8. CASE DeliverEvent(t)
    BY <2>8 DEF DeliverEvent, Goto, locks, flags, settings, stream, events
  <2>9. CASE DispatchDone(t)
    BY <2>9 DEF DispatchDone, Return, locks, flags, settings, stream, events
  <2>10. CASE StopNothing(t)
    BY <2>10 DEF StopNothing, Return, locks, flags, settings, stream, events
  <2>11. CASE StopDisconnects(t)
    BY <2>11 DEF StopDisconnects, Goto, locks, flags, settings, stream, events
  <2>12. CASE StopKills(t)
    BY <2>12 DEF StopKills, Victim, locks, flags, settings, stream, events
  <2>13. CASE StopEnds(t)
    BY <2>13 DEF StopEnds, Return, locks, flags, settings, stream, events
  <2>14. QED
    BY <1>4, <2>1, <2>2, <2>3, <2>4, <2>5, <2>6, <2>7, <2>8, <2>9, <2>10, <2>11, <2>12, <2>13
    DEF ApiStep
<1>5. ASSUME NEW t \in Tasks, ReceiveMessage(t) PROVE CallersReturn'
  BY <1>5 DEF ReceiveMessage, locks, flags, settings
<1>6. ASSUME NEW p \in Proc, ProcessStep(p) PROVE CallersReturn'
  <2>1. CASE ConnectFails(p)
    BY <2>1 DEF ConnectFails, Goto, locks, flags, settings, stream, events
  <2>2. CASE ConnectSucceeds(p)
    BY <2>2 DEF ConnectSucceeds, Goto, locks, flags, settings, stream, events
  <2>3. CASE DelayOver(p)
    BY <2>3 DEF DelayOver, Goto, locks, flags, settings, stream, events
  <2>4. CASE CallbackStep(p)
    <3>1. CASE CallbackReturns(p)
      BY <3>1 DEF CallbackReturns, Goto, locks, flags, settings, stream, events
    <3>2. ASSUME NEW f \in Functions, CallbackCalls(p, f) PROVE CallersReturn'
      BY <3>2 DEF CallbackCalls, Goto, Entry, Functions, locks, flags, settings, stream, events
    <3>3. QED
      BY <2>4, <3>1, <3>2 DEF CallbackStep
  <2>5. CASE Check(p)
    BY <2>5 DEF Check, Goto, locks, flags, settings, stream, events
  <2>6. CASE SelectFails(p)
    BY <2>6 DEF SelectFails, Goto, locks, flags, settings, stream, events
  <2>7. CASE SelectReturns(p)
    BY <2>7 DEF SelectReturns, Goto, locks, flags, settings, stream, events
  <2>8. CASE WorkFails(p)
    BY <2>8 DEF WorkFails, Goto, locks, flags, settings, stream, events
  <2>9. CASE WorkDone(p)
    BY <2>9 DEF WorkDone, Goto, locks, flags, settings, stream, events
  <2>10. CASE Exit(p)
    BY <2>10 DEF Exit, ResetFlags, AfterExit, Goto, locks, flags, settings, stream, events
  <2>11. CASE Delete(p)
    BY <2>11 DEF Delete, Goto, locks, flags, settings, stream, events
  <2>12. QED
    BY <1>6, <2>1, <2>2, <2>3, <2>4, <2>5, <2>6, <2>7, <2>8, <2>9, <2>10, <2>11
    DEF ProcessStep
<1>7. CASE BrokerSends
  BY <1>7 DEF BrokerSends, locks, flags, settings, events
<1>8. CASE UNCHANGED vars
  BY <1>8 DEF vars, locks, flags, settings, stream, events
<1>9. QED
  BY <1>1, <1>2, <1>3, <1>4, <1>5, <1>6, <1>7, <1>8 DEF Created, Next

\* The mutexes stay with the tasks in their critical sections.
LEMMA LocksStep == GoodUse /\ IInv /\ [Created]_vars => LocksMatch'
<1> SUFFICES ASSUME GoodUse, IInv, [Created]_vars PROVE LocksMatch'
  OBVIOUS
<1> USE TasksAssumption, BoundsAssumption
<1> USE DEF GoodUse, IInv, TypeOK, CallersReturn, LocksMatch, StopHasVictim, Active,
            Labels, CallLabels, StopLabels, ConnectLabels, SessionLabels, ExitLabels,
            MainHeld, SelectHeld, Returns, Tasks
<1>1. ASSUME NEW t \in App, NEW f \in Functions, Call(t, f) PROVE LocksMatch'
  BY <1>1 DEF Call, Goto, Entry, Functions, locks, flags, settings, stream, events
<1>2. ASSUME NEW t \in Tasks, LockMain(t) PROVE LocksMatch'
  BY <1>2 DEF LockMain, MainFree, Goto, AfterMain, MainWait, flags, settings, stream, events
<1>3. ASSUME NEW t \in Tasks, LockSelect(t) PROVE LocksMatch'
  BY <1>3 DEF LockSelect, SelectFree, Goto, AfterSelect, SelectWait, flags, settings, stream, events
<1>4. ASSUME NEW t \in Tasks, ApiStep(t) PROVE LocksMatch'
  <2>1. CASE Lwt(t)
    <3>1. main = t /\ main' = None /\ select' = select
      BY <2>1 DEF Lwt
    <3>2. pc'[t] \in Returns /\ \A u \in Tasks \ {t} : pc'[u] = pc[u]
      BY <2>1 DEF Lwt, Return
    <3>3. pc[t] \notin SelectHeld
      BY <2>1 DEF Lwt
    <3>4. QED
      BY <3>1, <3>2, <3>3
  <2>2. CASE StartAgain(t)
    <3>1. main = t /\ main' = None /\ select' = select
      BY <2>2 DEF StartAgain
    <3>2. pc'[t] \in Returns /\ \A u \in Tasks \ {t} : pc'[u] = pc[u]
      BY <2>2 DEF StartAgain, Return
    <3>3. pc[t] \notin SelectHeld
      BY <2>2 DEF StartAgain
    <3>4. QED
      BY <3>1, <3>2, <3>3
  <2>3. CASE Start(t)
    <3>1. \E p \in Proc : CreateTask(t, p)
      BY <2>3, StartCreates
    <3>2. QED
      BY <2>3, <3>1 DEF Start, MayStart, CreateTask, locks, flags, settings, stream, events
  <2>4. CASE CommandRejected(t)
    <3>1. main = t /\ main' = None /\ select' = select
      BY <2>4 DEF CommandRejected
    <3>2. pc'[t] \in Returns /\ \A u \in Tasks \ {t} : pc'[u] = pc[u]
      BY <2>4 DEF CommandRejected, Return
    <3>3. pc[t] \notin SelectHeld
      BY <2>4 DEF CommandRejected
    <3>4. QED
      BY <3>1, <3>2, <3>3
  <2>5. CASE CommandFails(t)
    <3>1. main = t /\ main' = None /\ select' = select
      BY <2>5 DEF CommandFails
    <3>2. pc'[t] \in Returns /\ \A u \in Tasks \ {t} : pc'[u] = pc[u]
      BY <2>5 DEF CommandFails, Return
    <3>3. pc[t] \notin SelectHeld
      BY <2>5 DEF CommandFails
    <3>4. QED
      BY <3>1, <3>2, <3>3
  <2>6. CASE CommandSucceeds(t)
    BY <2>6 DEF CommandSucceeds, Goto, locks, flags, settings, stream, events
  <2>7. CASE TakeEvent(t)
    BY <2>7 DEF TakeEvent, Goto, locks, flags, settings, stream, events
  <2>8. CASE DeliverEvent(t)
    BY <2>8 DEF DeliverEvent, Goto, locks, flags, settings, stream, events
  <2>9. CASE DispatchDone(t)
    BY <2>9 DEF DispatchDone, Return, locks, flags, settings, stream, events
  <2>10. CASE StopNothing(t)
    BY <2>10 DEF StopNothing, Return, locks, flags, settings, stream, events
  <2>11. CASE StopDisconnects(t)
    BY <2>11 DEF StopDisconnects, Goto, locks, flags, settings, stream, events
  <2>12. CASE StopKills(t)
    <3>1. main = t /\ pc[t] = "stop_kill" /\ select = t
      BY <2>12 DEF StopKills
    <3>2. handle \in Proc /\ Active(handle) /\ pc[t] \in MainHeld
      BY <3>1
    <3>3. pc[handle] \notin MainHeld \cup SelectHeld
      BY ONLY <3>1, <3>2, TasksAssumption, IInv DEF IInv, LocksMatch, CallersReturn, Active, Tasks
    <3>4. QED
      BY <2>12, <3>1, <3>3 DEF StopKills, Victim, locks
  <2>13. CASE StopEnds(t)
    BY <2>13 DEF StopEnds, Return, locks, flags, settings, stream, events
  <2>14. QED
    BY <1>4, <2>1, <2>2, <2>3, <2>4, <2>5, <2>6, <2>7, <2>8, <2>9, <2>10, <2>11, <2>12, <2>13
    DEF ApiStep
<1>5. ASSUME NEW t \in Tasks, ReceiveMessage(t) PROVE LocksMatch'
  BY <1>5 DEF ReceiveMessage, locks, flags, settings
<1>6. ASSUME NEW p \in Proc, ProcessStep(p) PROVE LocksMatch'
  <2>1. CASE ConnectFails(p)
    BY <2>1 DEF ConnectFails, Goto, locks, flags, settings, stream, events
  <2>2. CASE ConnectSucceeds(p)
    BY <2>2 DEF ConnectSucceeds, Goto, locks, flags, settings, stream, events
  <2>3. CASE DelayOver(p)
    BY <2>3 DEF DelayOver, Goto, locks, flags, settings, stream, events
  <2>4. CASE CallbackStep(p)
    <3>1. CASE CallbackReturns(p)
      BY <3>1 DEF CallbackReturns, Goto, locks, flags, settings, stream, events
    <3>2. ASSUME NEW f \in Functions, CallbackCalls(p, f) PROVE LocksMatch'
      BY <3>2 DEF CallbackCalls, Goto, Entry, Functions, locks, flags, settings, stream, events
    <3>3. QED
      BY <2>4, <3>1, <3>2 DEF CallbackStep
  <2>5. CASE Check(p)
    BY <2>5 DEF Check, Goto, locks, flags, settings, stream, events
  <2>6. CASE SelectFails(p)
    BY <2>6 DEF SelectFails, Goto, locks, flags, settings, stream, events
  <2>7. CASE SelectReturns(p)
    BY <2>7 DEF SelectReturns, Goto, locks, flags, settings, stream, events
  <2>8. CASE WorkFails(p)
    BY <2>8 DEF WorkFails, Goto, locks, flags, settings, stream, events
  <2>9. CASE WorkDone(p)
    BY <2>9 DEF WorkDone, Goto, locks, flags, settings, stream, events
  <2>10. CASE Exit(p)
    BY <2>10 DEF Exit, ResetFlags, AfterExit, Goto, locks, flags, settings, stream, events
  <2>11. CASE Delete(p)
    BY <2>11 DEF Delete, Goto, locks, flags, settings, stream, events
  <2>12. QED
    BY <1>6, <2>1, <2>2, <2>3, <2>4, <2>5, <2>6, <2>7, <2>8, <2>9, <2>10, <2>11
    DEF ProcessStep
<1>7. CASE BrokerSends
  BY <1>7 DEF BrokerSends, locks, flags, settings, events
<1>8. CASE UNCHANGED vars
  BY <1>8 DEF vars, locks, flags, settings, stream, events
<1>9. QED
  BY <1>1, <1>2, <1>3, <1>4, <1>5, <1>6, <1>7, <1>8 DEF Created, Next

\* No step makes a second process, or resets the running flag under one.
LEMMA SingleStep == GoodUse /\ IInv /\ [Created]_vars => SingleSession'
<1> SUFFICES ASSUME GoodUse, IInv, [Created]_vars PROVE SingleSession'
  OBVIOUS
<1> USE TasksAssumption, BoundsAssumption
<1> USE DEF GoodUse, IInv, TypeOK, CallersReturn, LocksMatch, SingleSession, StopHasVictim, Active,
            Labels, CallLabels, StopLabels, ConnectLabels, SessionLabels, ExitLabels,
            MainHeld, SelectHeld, Returns, Tasks
<1>1. ASSUME NEW t \in App, NEW f \in Functions, Call(t, f) PROVE SingleSession'
  BY <1>1 DEF Call, Goto, Entry, Functions, locks, flags, settings, stream, events
<1>2. ASSUME NEW t \in Tasks, LockMain(t) PROVE SingleSession'
  BY <1>2 DEF LockMain, MainFree, Goto, AfterMain, MainWait, flags, settings, stream, events
<1>3. ASSUME NEW t \in Tasks, LockSelect(t) PROVE SingleSession'
  BY <1>3 DEF LockSelect, SelectFree, Goto, AfterSelect, SelectWait, flags, settings, stream, events
<1>4. ASSUME NEW t \in Tasks, ApiStep(t) PROVE SingleSession'
  <2>1. CASE Lwt(t)
    BY <2>1 DEF Lwt, Return, locks, flags, settings, stream, events
  <2>2. CASE StartAgain(t)
    BY <2>2 DEF StartAgain, Return, locks, flags, settings, stream, events
  <2>3. CASE Start(t)
    <3>1. \E p \in Proc : CreateTask(t, p)
      BY <2>3, StartCreates
    <3>2. QED
      BY <2>3, <3>1 DEF Start, MayStart, CreateTask, locks, flags, settings, stream, events
  <2>4. CASE CommandRejected(t)
    BY <2>4 DEF CommandRejected, Return, locks, flags, settings, stream, events
  <2>5. CASE CommandFails(t)
    BY <2>5 DEF CommandFails, Return, locks, flags, settings, stream, events
  <2>6. CASE CommandSucceeds(t)
    BY <2>6 DEF CommandSucceeds, Goto, locks, flags, settings, stream, events
  <2>7. CASE TakeEvent(t)
    BY <2>7 DEF TakeEvent, Goto, locks, flags, settings, stream, events
  <2>8. CASE DeliverEvent(t)
    BY <2>8 DEF DeliverEvent, Goto, locks, flags, settings, stream, events
  <2>9. CASE DispatchDone(t)
    BY <2>9 DEF DispatchDone, Return, locks, flags, settings, stream, events
  <2>10. CASE StopNothing(t)
    BY <2>10 DEF StopNothing, Return, locks, flags, settings, stream, events
  <2>11. CASE StopDisconnects(t)
    BY <2>11 DEF StopDisconnects, Goto, locks, flags, settings, stream, events
  <2>12. CASE StopKills(t)
    BY <2>12 DEF StopKills, Victim, locks, flags, settings, stream, events
  <2>13. CASE StopEnds(t)
    BY <2>13 DEF StopEnds, Return, locks, flags, settings, stream, events
  <2>14. QED
    BY <1>4, <2>1, <2>2, <2>3, <2>4, <2>5, <2>6, <2>7, <2>8, <2>9, <2>10, <2>11, <2>12, <2>13
    DEF ApiStep
<1>5. ASSUME NEW t \in Tasks, ReceiveMessage(t) PROVE SingleSession'
  BY <1>5 DEF ReceiveMessage, locks, flags, settings
<1>6. ASSUME NEW p \in Proc, ProcessStep(p) PROVE SingleSession'
  <2>1. CASE ConnectFails(p)
    BY <2>1 DEF ConnectFails, Goto, locks, flags, settings, stream, events
  <2>2. CASE ConnectSucceeds(p)
    BY <2>2 DEF ConnectSucceeds, Goto, locks, flags, settings, stream, events
  <2>3. CASE DelayOver(p)
    BY <2>3 DEF DelayOver, Goto, locks, flags, settings, stream, events
  <2>4. CASE CallbackStep(p)
    <3>1. CASE CallbackReturns(p)
      BY <3>1 DEF CallbackReturns, Goto, locks, flags, settings, stream, events
    <3>2. ASSUME NEW f \in Functions, CallbackCalls(p, f) PROVE SingleSession'
      BY <3>2 DEF CallbackCalls, Goto, Entry, Functions, locks, flags, settings, stream, events
    <3>3. QED
      BY <2>4, <3>1, <3>2 DEF CallbackStep
  <2>5. CASE Check(p)
    BY <2>5 DEF Check, Goto, locks, flags, settings, stream, events
  <2>6. CASE SelectFails(p)
    BY <2>6 DEF SelectFails, Goto, locks, flags, settings, stream, events
  <2>7. CASE SelectReturns(p)
    BY <2>7 DEF SelectReturns, Goto, locks, flags, settings, stream, events
  <2>8. CASE WorkFails(p)
    BY <2>8 DEF WorkFails, Goto, locks, flags, settings, stream, events
  <2>9. CASE WorkDone(p)
    BY <2>9 DEF WorkDone, Goto, locks, flags, settings, stream, events
  <2>10. CASE Exit(p)
    BY <2>10 DEF Exit, ResetFlags, AfterExit, Goto, locks, flags, settings, stream, events
  <2>11. CASE Delete(p)
    BY <2>11 DEF Delete, Goto, locks, flags, settings, stream, events
  <2>12. QED
    BY <1>6, <2>1, <2>2, <2>3, <2>4, <2>5, <2>6, <2>7, <2>8, <2>9, <2>10, <2>11
    DEF ProcessStep
<1>7. CASE BrokerSends
  BY <1>7 DEF BrokerSends, locks, flags, settings, events
<1>8. CASE UNCHANGED vars
  BY <1>8 DEF vars, locks, flags, settings, stream, events
<1>9. QED
  BY <1>1, <1>2, <1>3, <1>4, <1>5, <1>6, <1>7, <1>8 DEF Created, Next

\* The process a stop is about to delete stays there for it.
LEMMA VictimStep == GoodUse /\ IInv /\ [Created]_vars => StopHasVictim'
<1> SUFFICES ASSUME GoodUse, IInv, [Created]_vars PROVE StopHasVictim'
  OBVIOUS
<1> USE TasksAssumption, BoundsAssumption
<1> USE DEF GoodUse, IInv, TypeOK, CallersReturn, LocksMatch, SingleSession, RunningHasProcess,
        ConnectedHasProcess, StopHasVictim, Active,
            Labels, CallLabels, StopLabels, ConnectLabels, SessionLabels, ExitLabels,
            MainHeld, SelectHeld, Returns, Tasks
<1>1. ASSUME NEW t \in App, NEW f \in Functions, Call(t, f) PROVE StopHasVictim'
  BY <1>1 DEF Call, Goto, Entry, Functions, locks, flags, settings, stream, events
<1>2. ASSUME NEW t \in Tasks, LockMain(t) PROVE StopHasVictim'
  BY <1>2 DEF LockMain, MainFree, Goto, AfterMain, MainWait, flags, settings, stream, events
<1>3. ASSUME NEW t \in Tasks, LockSelect(t) PROVE StopHasVictim'
  BY <1>3 DEF LockSelect, SelectFree, Goto, AfterSelect, SelectWait, flags, settings, stream, events
<1>4. ASSUME NEW t \in Tasks, ApiStep(t) PROVE StopHasVictim'
  <2>1. CASE Lwt(t)
    BY <2>1 DEF Lwt, Return, locks, flags, settings, stream, events
  <2>2. CASE StartAgain(t)
    BY <2>2 DEF StartAgain, Return, locks, flags, settings, stream, events
  <2>3. CASE Start(t)
    <3>1. main = t /\ \A u \in Tasks \ {t} : pc[u] \notin MainHeld
      BY <2>3 DEF Start
    <3>2. PICK p \in Proc : CreateTask(t, p)
      BY <2>3, StartCreates
    <3>3. \A u \in Tasks : pc'[u] \notin MainHeld
      BY <3>1, <3>2 DEF CreateTask
    <3>4. QED
      BY <3>3
  <2>4. CASE CommandRejected(t)
    BY <2>4 DEF CommandRejected, Return, locks, flags, settings, stream, events
  <2>5. CASE CommandFails(t)
    BY <2>5 DEF CommandFails, Return, locks, flags, settings, stream, events
  <2>6. CASE CommandSucceeds(t)
    BY <2>6 DEF CommandSucceeds, Goto, locks, flags, settings, stream, events
  <2>7. CASE TakeEvent(t)
    BY <2>7 DEF TakeEvent, Goto, locks, flags, settings, stream, events
  <2>8. CASE DeliverEvent(t)
    BY <2>8 DEF DeliverEvent, Goto, locks, flags, settings, stream, events
  <2>9. CASE DispatchDone(t)
    BY <2>9 DEF DispatchDone, Return, locks, flags, settings, stream, events
  <2>10. CASE StopNothing(t)
    BY <2>10 DEF StopNothing, Return, locks, flags, settings, stream, events
  <2>11. CASE StopDisconnects(t)
    BY <2>11 DEF StopDisconnects, Goto, locks, flags, settings, stream, events
  <2>12. CASE StopKills(t)
    BY <2>12 DEF StopKills, Victim, locks, flags, settings, stream, events
  <2>13. CASE StopEnds(t)
    BY <2>13 DEF StopEnds, Return, locks, flags, settings, stream, events
  <2>14. QED
    BY <1>4, <2>1, <2>2, <2>3, <2>4, <2>5, <2>6, <2>7, <2>8, <2>9, <2>10, <2>11, <2>12, <2>13
    DEF ApiStep
<1>5. ASSUME NEW t \in Tasks, ReceiveMessage(t) PROVE StopHasVictim'
  BY <1>5 DEF ReceiveMessage, locks, flags, settings
<1>6. ASSUME NEW p \in Proc, ProcessStep(p) PROVE StopHasVictim'
  <2>1. CASE ConnectFails(p)
    BY <2>1 DEF ConnectFails, Goto, locks, flags, settings, stream, events
  <2>2. CASE ConnectSucceeds(p)
    BY <2>2 DEF ConnectSucceeds, Goto, locks, flags, settings, stream, events
  <2>3. CASE DelayOver(p)
    BY <2>3 DEF DelayOver, Goto, locks, flags, settings, stream, events
  <2>4. CASE CallbackStep(p)
    <3>1. CASE CallbackReturns(p)
      BY <3>1 DEF CallbackReturns, Goto, locks, flags, settings, stream, events
    <3>2. ASSUME NEW f \in Functions, CallbackCalls(p, f) PROVE StopHasVictim'
      BY <3>2 DEF CallbackCalls, Goto, Entry, Functions, locks, flags, settings, stream, events
    <3>3. QED
      BY <2>4, <3>1, <3>2 DEF CallbackStep
  <2>5. CASE Check(p)
    BY <2>5 DEF Check, Goto, locks, flags, settings, stream, events
  <2>6. CASE SelectFails(p)
    BY <2>6 DEF SelectFails, Goto, locks, flags, settings, stream, events
  <2>7. CASE SelectReturns(p)
    BY <2>7 DEF SelectReturns, Goto, locks, flags, settings, stream, events
  <2>8. CASE WorkFails(p)
    BY <2>8 DEF WorkFails, Goto, locks, flags, settings, stream, events
  <2>9. CASE WorkDone(p)
    BY <2>9 DEF WorkDone, Goto, locks, flags, settings, stream, events
  <2>10. CASE Exit(p)
    BY <2>10 DEF Exit, ResetFlags, AfterExit, Goto, locks, flags, settings, stream, events
  <2>11. CASE Delete(p)
    BY <2>11 DEF Delete, Goto, locks, flags, settings, stream, events
  <2>12. QED
    BY <1>6, <2>1, <2>2, <2>3, <2>4, <2>5, <2>6, <2>7, <2>8, <2>9, <2>10, <2>11
    DEF ProcessStep
<1>7. CASE BrokerSends
  BY <1>7 DEF BrokerSends, locks, flags, settings, events
<1>8. CASE UNCHANGED vars
  BY <1>8 DEF vars, locks, flags, settings, stream, events
<1>9. QED
  BY <1>1, <1>2, <1>3, <1>4, <1>5, <1>6, <1>7, <1>8 DEF Created, Next

\* The running flag never outlives its process.
LEMMA RunningStep == GoodUse /\ IInv /\ [Created]_vars => RunningHasProcess'
<1> SUFFICES ASSUME GoodUse, IInv, [Created]_vars PROVE RunningHasProcess'
  OBVIOUS
<1> USE TasksAssumption, BoundsAssumption
<1> USE DEF GoodUse, IInv, TypeOK, CallersReturn, LocksMatch, SingleSession, RunningHasProcess,
        StopHasVictim, Active,
            Labels, CallLabels, StopLabels, ConnectLabels, SessionLabels, ExitLabels,
            MainHeld, SelectHeld, Returns, Tasks
<1>1. ASSUME NEW t \in App, NEW f \in Functions, Call(t, f) PROVE RunningHasProcess'
  BY <1>1 DEF Call, Goto, Entry, Functions, locks, flags, settings, stream, events
<1>2. ASSUME NEW t \in Tasks, LockMain(t) PROVE RunningHasProcess'
  BY <1>2 DEF LockMain, MainFree, Goto, AfterMain, MainWait, flags, settings, stream, events
<1>3. ASSUME NEW t \in Tasks, LockSelect(t) PROVE RunningHasProcess'
  BY <1>3 DEF LockSelect, SelectFree, Goto, AfterSelect, SelectWait, flags, settings, stream, events
<1>4. ASSUME NEW t \in Tasks, ApiStep(t) PROVE RunningHasProcess'
  <2>1. CASE Lwt(t)
    BY <2>1 DEF Lwt, Return, locks, flags, settings, stream, events
  <2>2. CASE StartAgain(t)
    BY <2>2 DEF StartAgain, Return, locks, flags, settings, stream, events
  <2>3. CASE Start(t)
    <3>1. \E p \in Proc : CreateTask(t, p)
      BY <2>3, StartCreates
    <3>2. QED
      BY <2>3, <3>1 DEF Start, MayStart, CreateTask, locks, flags, settings, stream, events
  <2>4. CASE CommandRejected(t)
    BY <2>4 DEF CommandRejected, Return, locks, flags, settings, stream, events
  <2>5. CASE CommandFails(t)
    BY <2>5 DEF CommandFails, Return, locks, flags, settings, stream, events
  <2>6. CASE CommandSucceeds(t)
    BY <2>6 DEF CommandSucceeds, Goto, locks, flags, settings, stream, events
  <2>7. CASE TakeEvent(t)
    BY <2>7 DEF TakeEvent, Goto, locks, flags, settings, stream, events
  <2>8. CASE DeliverEvent(t)
    BY <2>8 DEF DeliverEvent, Goto, locks, flags, settings, stream, events
  <2>9. CASE DispatchDone(t)
    BY <2>9 DEF DispatchDone, Return, locks, flags, settings, stream, events
  <2>10. CASE StopNothing(t)
    BY <2>10 DEF StopNothing, Return, locks, flags, settings, stream, events
  <2>11. CASE StopDisconnects(t)
    BY <2>11 DEF StopDisconnects, Goto, locks, flags, settings, stream, events
  <2>12. CASE StopKills(t)
    BY <2>12 DEF StopKills, Victim, locks, flags, settings, stream, events
  <2>13. CASE StopEnds(t)
    BY <2>13 DEF StopEnds, Return, locks, flags, settings, stream, events
  <2>14. QED
    BY <1>4, <2>1, <2>2, <2>3, <2>4, <2>5, <2>6, <2>7, <2>8, <2>9, <2>10, <2>11, <2>12, <2>13
    DEF ApiStep
<1>5. ASSUME NEW t \in Tasks, ReceiveMessage(t) PROVE RunningHasProcess'
  BY <1>5 DEF ReceiveMessage, locks, flags, settings
<1>6. ASSUME NEW p \in Proc, ProcessStep(p) PROVE RunningHasProcess'
  <2>1. CASE ConnectFails(p)
    BY <2>1 DEF ConnectFails, Goto, locks, flags, settings, stream, events
  <2>2. CASE ConnectSucceeds(p)
    BY <2>2 DEF ConnectSucceeds, Goto, locks, flags, settings, stream, events
  <2>3. CASE DelayOver(p)
    BY <2>3 DEF DelayOver, Goto, locks, flags, settings, stream, events
  <2>4. CASE CallbackStep(p)
    <3>1. CASE CallbackReturns(p)
      BY <3>1 DEF CallbackReturns, Goto, locks, flags, settings, stream, events
    <3>2. ASSUME NEW f \in Functions, CallbackCalls(p, f) PROVE RunningHasProcess'
      BY <3>2 DEF CallbackCalls, Goto, Entry, Functions, locks, flags, settings, stream, events
    <3>3. QED
      BY <2>4, <3>1, <3>2 DEF CallbackStep
  <2>5. CASE Check(p)
    BY <2>5 DEF Check, Goto, locks, flags, settings, stream, events
  <2>6. CASE SelectFails(p)
    BY <2>6 DEF SelectFails, Goto, locks, flags, settings, stream, events
  <2>7. CASE SelectReturns(p)
    BY <2>7 DEF SelectReturns, Goto, locks, flags, settings, stream, events
  <2>8. CASE WorkFails(p)
    BY <2>8 DEF WorkFails, Goto, locks, flags, settings, stream, events
  <2>9. CASE WorkDone(p)
    BY <2>9 DEF WorkDone, Goto, locks, flags, settings, stream, events
  <2>10. CASE Exit(p)
    BY <2>10 DEF Exit, ResetFlags, AfterExit, Goto, locks, flags, settings, stream, events
  <2>11. CASE Delete(p)
    BY <2>11 DEF Delete, Goto, locks, flags, settings, stream, events
  <2>12. QED
    BY <1>6, <2>1, <2>2, <2>3, <2>4, <2>5, <2>6, <2>7, <2>8, <2>9, <2>10, <2>11
    DEF ProcessStep
<1>7. CASE BrokerSends
  BY <1>7 DEF BrokerSends, locks, flags, settings, events
<1>8. CASE UNCHANGED vars
  BY <1>8 DEF vars, locks, flags, settings, stream, events
<1>9. QED
  BY <1>1, <1>2, <1>3, <1>4, <1>5, <1>6, <1>7, <1>8 DEF Created, Next

\* The connected flag stays with a process in its yield loop.
LEMMA ConnectedStep == GoodUse /\ IInv /\ [Created]_vars => ConnectedHasProcess'
<1> SUFFICES ASSUME GoodUse, IInv, [Created]_vars PROVE ConnectedHasProcess'
  OBVIOUS
<1> USE TasksAssumption, BoundsAssumption
<1> USE DEF GoodUse, IInv, TypeOK, CallersReturn, LocksMatch, SingleSession, ConnectedHasProcess,
        StopHasVictim, Active,
            Labels, CallLabels, StopLabels, ConnectLabels, SessionLabels, ExitLabels,
            MainHeld, SelectHeld, Returns, Tasks
<1>1. ASSUME NEW t \in App, NEW f \in Functions, Call(t, f) PROVE ConnectedHasProcess'
  BY <1>1 DEF Call, Goto, Entry, Functions, locks, flags, settings, stream, events
<1>2. ASSUME NEW t \in Tasks, LockMain(t) PROVE ConnectedHasProcess'
  BY <1>2 DEF LockMain, MainFree, Goto, AfterMain, MainWait, flags, settings, stream, events
<1>3. ASSUME NEW t \in Tasks, LockSelect(t) PROVE ConnectedHasProcess'
  BY <1>3 DEF LockSelect, SelectFree, Goto, AfterSelect, SelectWait, flags, settings, stream, events
<1>4. ASSUME NEW t \in Tasks, ApiStep(t) PROVE ConnectedHasProcess'
  <2>1. CASE Lwt(t)
    BY <2>1 DEF Lwt, Return, locks, flags, settings, stream, events
  <2>2. CASE StartAgain(t)
    BY <2>2 DEF StartAgain, Return, locks, flags, settings, stream, events
  <2>3. CASE Start(t)
    <3>1. \E p \in Proc : CreateTask(t, p)
      BY <2>3, StartCreates
    <3>2. QED
      BY <2>3, <3>1 DEF Start, MayStart, CreateTask, locks, flags, settings, stream, events
  <2>4. CASE CommandRejected(t)
    BY <2>4 DEF CommandRejected, Return, locks, flags, settings, stream, events
  <2>5. CASE CommandFails(t)
    BY <2>5 DEF CommandFails, Return, locks, flags, settings, stream, events
  <2>6. CASE CommandSucceeds(t)
    BY <2>6 DEF CommandSucceeds, Goto, locks, flags, settings, stream, events
  <2>7. CASE TakeEvent(t)
    BY <2>7 DEF TakeEvent, Goto, locks, flags, settings, stream, events
  <2>8. CASE DeliverEvent(t)
    BY <2>8 DEF DeliverEvent, Goto, locks, flags, settings, stream, events
  <2>9. CASE DispatchDone(t)
    BY <2>9 DEF DispatchDone, Return, locks, flags, settings, stream, events
  <2>10. CASE StopNothing(t)
    BY <2>10 DEF StopNothing, Return, locks, flags, settings, stream, events
  <2>11. CASE StopDisconnects(t)
    BY <2>11 DEF StopDisconnects, Goto, locks, flags, settings, stream, events
  <2>12. CASE StopKills(t)
    BY <2>12 DEF StopKills, Victim, locks, flags, settings, stream, events
  <2>13. CASE StopEnds(t)
    BY <2>13 DEF StopEnds, Return, locks, flags, settings, stream, events
  <2>14. QED
    BY <1>4, <2>1, <2>2, <2>3, <2>4, <2>5, <2>6, <2>7, <2>8, <2>9, <2>10, <2>11, <2>12, <2>13
    DEF ApiStep
<1>5. ASSUME NEW t \in Tasks, ReceiveMessage(t) PROVE ConnectedHasProcess'
  BY <1>5 DEF ReceiveMessage, locks, flags, settings
<1>6. ASSUME NEW p \in Proc, ProcessStep(p) PROVE ConnectedHasProcess'
  <2>1. CASE ConnectFails(p)
    BY <2>1 DEF ConnectFails, Goto, locks, flags, settings, stream, events
  <2>2. CASE ConnectSucceeds(p)
    BY <2>2 DEF ConnectSucceeds, Goto, locks, flags, settings, stream, events
  <2>3. CASE DelayOver(p)
    BY <2>3 DEF DelayOver, Goto, locks, flags, settings, stream, events
  <2>4. CASE CallbackStep(p)
    <3>1. CASE CallbackReturns(p)
      BY <3>1 DEF CallbackReturns, Goto, locks, flags, settings, stream, events
    <3>2. ASSUME NEW f \in Functions, CallbackCalls(p, f) PROVE ConnectedHasProcess'
      BY <3>2 DEF CallbackCalls, Goto, Entry, Functions, locks, flags, settings, stream, events
    <3>3. QED
      BY <2>4, <3>1, <3>2 DEF CallbackStep
  <2>5. CASE Check(p)
    BY <2>5 DEF Check, Goto, locks, flags, settings, stream, events
  <2>6. CASE SelectFails(p)
    BY <2>6 DEF SelectFails, Goto, locks, flags, settings, stream, events
  <2>7. CASE SelectReturns(p)
    BY <2>7 DEF SelectReturns, Goto, locks, flags, settings, stream, events
  <2>8. CASE WorkFails(p)
    BY <2>8 DEF WorkFails, Goto, locks, flags, settings, stream, events
  <2>9. CASE WorkDone(p)
    BY <2>9 DEF WorkDone, Goto, locks, flags, settings, stream, events
  <2>10. CASE Exit(p)
    BY <2>10 DEF Exit, ResetFlags, AfterExit, Goto, locks, flags, settings, stream, events
  <2>11. CASE Delete(p)
    BY <2>11 DEF Delete, Goto, locks, flags, settings, stream, events
  <2>12. QED
    BY <1>6, <2>1, <2>2, <2>3, <2>4, <2>5, <2>6, <2>7, <2>8, <2>9, <2>10, <2>11
    DEF ProcessStep
<1>7. CASE BrokerSends
  BY <1>7 DEF BrokerSends, locks, flags, settings, events
<1>8. CASE UNCHANGED vars
  BY <1>8 DEF vars, locks, flags, settings, stream, events
<1>9. QED
  BY <1>1, <1>2, <1>3, <1>4, <1>5, <1>6, <1>7, <1>8 DEF Created, Next

\* A process in its yield loop stays connected until a stop reaches it.
LEMMA SocketStep == GoodUse /\ IInv /\ [Created]_vars => SessionConnected'
<1> SUFFICES ASSUME GoodUse, IInv, [Created]_vars PROVE SessionConnected'
  OBVIOUS
<1> USE TasksAssumption, BoundsAssumption
<1> USE DEF GoodUse, IInv, TypeOK, CallersReturn, LocksMatch, SingleSession, ConnectedHasProcess,
        StopHasVictim,
            SessionConnected, Active,
            Labels, CallLabels, StopLabels, ConnectLabels, SessionLabels, ExitLabels,
            MainHeld, SelectHeld, Returns, Tasks
<1>1. ASSUME NEW t \in App, NEW f \in Functions, Call(t, f) PROVE SessionConnected'
  BY <1>1 DEF Call, Goto, Entry, Functions, locks, flags, settings, stream, events
<1>2. ASSUME NEW t \in Tasks, LockMain(t) PROVE SessionConnected'
  BY <1>2 DEF LockMain, MainFree, Goto, AfterMain, MainWait, flags, settings, stream, events
<1>3. ASSUME NEW t \in Tasks, LockSelect(t) PROVE SessionConnected'
  BY <1>3 DEF LockSelect, SelectFree, Goto, AfterSelect, SelectWait, flags, settings, stream, events
<1>4. ASSUME NEW t \in Tasks, ApiStep(t) PROVE SessionConnected'
  <2>1. CASE Lwt(t)
    BY <2>1 DEF Lwt, Return, locks, flags, settings, stream, events
  <2>2. CASE StartAgain(t)
    BY <2>2 DEF StartAgain, Return, locks, flags, settings, stream, events
  <2>3. CASE Start(t)
    <3>1. \E p \in Proc : CreateTask(t, p)
      BY <2>3, StartCreates
    <3>2. QED
      BY <2>3, <3>1 DEF Start, MayStart, CreateTask, locks, flags, settings, stream, events
  <2>4. CASE CommandRejected(t)
    BY <2>4 DEF CommandRejected, Return, locks, flags, settings, stream, events
  <2>5. CASE CommandFails(t)
    BY <2>5 DEF CommandFails, Return, locks, flags, settings, stream, events
  <2>6. CASE CommandSucceeds(t)
    BY <2>6 DEF CommandSucceeds, Goto, locks, flags, settings, stream, events
  <2>7. CASE TakeEvent(t)
    BY <2>7 DEF TakeEvent, Goto, locks, flags, settings, stream, events
  <2>8. CASE DeliverEvent(t)
    BY <2>8 DEF DeliverEvent, Goto, locks, flags, settings, stream, events
  <2>9. CASE DispatchDone(t)
    BY <2>9 DEF DispatchDone, Return, locks, flags, settings, stream, events
  <2>10. CASE StopNothing(t)
    BY <2>10 DEF StopNothing, Return, locks, flags, settings, stream, events
  <2>11. CASE StopDisconnects(t)
    BY <2>11 DEF StopDisconnects, Goto, locks, flags, settings, stream, events
  <2>12. CASE StopKills(t)
    BY <2>12 DEF StopKills, Victim, locks, flags, settings, stream, events
  <2>13. CASE StopEnds(t)
    BY <2>13 DEF StopEnds, Return, locks, flags, settings, stream, events
  <2>14. QED
    BY <1>4, <2>1, <2>2, <2>3, <2>4, <2>5, <2>6, <2>7, <2>8, <2>9, <2>10, <2>11, <2>12, <2>13
    DEF ApiStep
<1>5. ASSUME NEW t \in Tasks, ReceiveMessage(t) PROVE SessionConnected'
  BY <1>5 DEF ReceiveMessage, locks, flags, settings
<1>6. ASSUME NEW p \in Proc, ProcessStep(p) PROVE SessionConnected'
  <2>1. CASE ConnectFails(p)
    BY <2>1 DEF ConnectFails, Goto, locks, flags, settings, stream, events
  <2>2. CASE ConnectSucceeds(p)
    BY <2>2 DEF ConnectSucceeds, Goto, locks, flags, settings, stream, events
  <2>3. CASE DelayOver(p)
    BY <2>3 DEF DelayOver, Goto, locks, flags, settings, stream, events
  <2>4. CASE CallbackStep(p)
    <3>1. CASE CallbackReturns(p)
      BY <3>1 DEF CallbackReturns, Goto, locks, flags, settings, stream, events
    <3>2. ASSUME NEW f \in Functions, CallbackCalls(p, f) PROVE SessionConnected'
      BY <3>2 DEF CallbackCalls, Goto, Entry, Functions, locks, flags, settings, stream, events
    <3>3. QED
      BY <2>4, <3>1, <3>2 DEF CallbackStep
  <2>5. CASE Check(p)
    BY <2>5 DEF Check, Goto, locks, flags, settings, stream, events
  <2>6. CASE SelectFails(p)
    BY <2>6 DEF SelectFails, Goto, locks, flags, settings, stream, events
  <2>7. CASE SelectReturns(p)
    BY <2>7 DEF SelectReturns, Goto, locks, flags, settings, stream, events
  <2>8. CASE WorkFails(p)
    BY <2>8 DEF WorkFails, Goto, locks, flags, settings, stream, events
  <2>9. CASE WorkDone(p)
    BY <2>9 DEF WorkDone, Goto, locks, flags, settings, stream, events
  <2>10. CASE Exit(p)
    BY <2>10 DEF Exit, ResetFlags, AfterExit, Goto, locks, flags, settings, stream, events
  <2>11. CASE Delete(p)
    BY <2>11 DEF Delete, Goto, locks, flags, settings, stream, events
  <2>12. QED
    BY <1>6, <2>1, <2>2, <2>3, <2>4, <2>5, <2>6, <2>7, <2>8, <2>9, <2>10, <2>11
    DEF ProcessStep
<1>7. CASE BrokerSends
  BY <1>7 DEF BrokerSends, locks, flags, settings, events
<1>8. CASE UNCHANGED vars
  BY <1>8 DEF vars, locks, flags, settings, stream, events
<1>9. QED
  BY <1>1, <1>2, <1>3, <1>4, <1>5, <1>6, <1>7, <1>8 DEF Created, Next

\* The invariant holds initially.
LEMMA IInvInit == Init => IInv
<1> SUFFICES ASSUME Init PROVE IInv
  OBVIOUS
<1>1. TypeOK
  BY TypeInit
<1>2. /\ \A t \in App : pc[t] = "idle" /\ ret[t] = "idle"
      /\ \A p \in Proc : pc[p] = "none"
      /\ \A t \in Tasks : pc[t] \in {"idle", "none"}
  BY TasksAssumption DEF Init, Tasks
<1>3. CallersReturn
  BY <1>2 DEF CallersReturn, CallLabels, StopLabels
<1>4. LocksMatch
  BY <1>2, TasksAssumption DEF Init, LocksMatch, MainHeld, SelectHeld, Tasks
<1>5. \A p \in Proc : ~Active(p)
  BY <1>2 DEF Active, ConnectLabels, SessionLabels, CallLabels, StopLabels
<1>6. SingleSession /\ RunningHasProcess /\ ConnectedHasProcess /\ SessionConnected
  BY <1>5 DEF Init, SingleSession, RunningHasProcess, ConnectedHasProcess, SessionConnected
<1>7. StopHasVictim
  BY <1>2 DEF StopHasVictim
<1>8. QED
  BY <1>1, <1>3, <1>4, <1>6, <1>7 DEF IInv

\* All parts of the invariant together.
LEMMA IInvStep == GoodUse /\ IInv /\ [Created]_vars => IInv'
<1> SUFFICES ASSUME GoodUse, IInv, [Created]_vars PROVE IInv'
  OBVIOUS
<1>1. TypeOK'
  BY TypeStep DEF IInv, Created
<1>2. CallersReturn' /\ LocksMatch' /\ SingleSession' /\ StopHasVictim'
  BY CallersStep, LocksStep, SingleStep, VictimStep
<1>3. RunningHasProcess' /\ ConnectedHasProcess' /\ SessionConnected'
  BY RunningStep, ConnectedStep, SocketStep
<1>4. QED
  BY <1>1, <1>2, <1>3 DEF IInv

\* The inductive invariant of the session manager.
THEOREM Inductive == ASSUME GoodUse PROVE Spec /\ TasksCreated => []IInv
<1>1. IInv /\ [Next]_vars /\ [~CreationFails]_vars => IInv'
  BY IInvStep, GoodUse DEF Created
<1>2. QED
  BY IInvInit, <1>1, PTL DEF Spec, TasksCreated

\* No task is deleted while it owns a mutex, and whoever stands in a critical
\* section owns its mutex, whatever stop, start and the commands are doing.
THEOREM Locking == ASSUME GoodUse PROVE Spec /\ TasksCreated => []LocksMatch
<1>1. IInv => LocksMatch
  BY DEF IInv
<1>2. QED
  BY Inductive, <1>1, PTL

\* There is never a second live process: whoever connects or yields is the one
\* esp_mqtt_task names.
THEOREM OneSession == ASSUME GoodUse PROVE Spec /\ TasksCreated => []SingleSession
<1>1. IInv => SingleSession
  BY DEF IInv
<1>2. QED
  BY Inductive, <1>1, PTL

\* esp_mqtt_running has a process that will reset it, or a stop about to, until a
\* creation fails.
THEOREM RunningIsReal == ASSUME GoodUse PROVE Spec /\ TasksCreated => []RunningHasProcess
<1>1. IInv => RunningHasProcess
  BY DEF IInv
<1>2. QED
  BY Inductive, <1>1, PTL

\* And a creation that fails, which esp_mqtt_start takes for one that succeeded
\* (esp_mqtt.c:411), is the one step that leaves the flag set without a process.
THEOREM OnlyCreationBreaksIt ==
    ASSUME GoodUse, IInv, [Next]_vars PROVE ~RunningHasProcess' <=> CreationFails
<1>1. ~CreationFails => RunningHasProcess'
  BY RunningStep DEF Created
<1>2. ASSUME NEW t \in Tasks, Start(t), pc' = [pc EXCEPT ![t] = ret[t]] PROVE ~RunningHasProcess'
  <2>1. /\ running' = TRUE /\ ~running /\ main = t /\ pc[t] = "start"
        /\ \A p \in Proc : ~Active(p)
    BY <1>2 DEF Start, MayStart, IInv, SingleSession, LocksMatch, MainHeld
  <2>2. \A u \in Tasks \ {t} : pc[u] # "stop_end"
    BY <2>1 DEF IInv, LocksMatch, MainHeld
  <2>3. ret[t] \in {"idle", "delete"}
    BY <2>1 DEF IInv, CallersReturn, Tasks, Active, CallLabels
  <2>4. pc' = [pc EXCEPT ![t] = ret[t]] /\ pc \in [Tasks -> Labels] /\ handle' = handle
        /\ ret' = [ret EXCEPT ![t] = "idle"] /\ ret \in [Tasks -> Returns]
    <3>1. \A p \in Proc : ~CreateTask(t, p)
      BY <1>2, <2>1, TasksAssumption DEF CreateTask, IInv, TypeOK, Tasks
    <3>2. QED
      BY <1>2, <3>1 DEF Start, IInv, TypeOK
  <2>5. \A u \in Tasks : pc'[u] # "stop_end"
    BY <2>2, <2>3, <2>4
  <2>6. \A p \in Proc : ~Active(p)'
    BY <2>1, <2>3, <2>4 DEF Active, ConnectLabels, SessionLabels, CallLabels, StopLabels, Tasks
  <2>7. QED
    BY <2>1, <2>4, <2>5, <2>6 DEF RunningHasProcess, Active
<1>3. QED
  BY <1>1, <1>2 DEF CreationFails

\* A command that passes the check of esp_mqtt_connected has the process in its
\* yield loop behind it.
THEOREM ConnectedIsReal == ASSUME GoodUse PROVE Spec /\ TasksCreated => []ConnectedHasProcess
<1>1. IInv => ConnectedHasProcess
  BY DEF IInv
<1>2. QED
  BY Inductive, <1>1, PTL

\* Nobody closes or reopens the socket under a task that selects on it, reads
\* from it or runs a command on it.
THEOREM SocketSafe == ASSUME GoodUse PROVE Spec /\ TasksCreated => []SocketInUse
<1>1. IInv => SocketInUse
  <2> SUFFICES ASSUME IInv PROVE SocketInUse
    OBVIOUS
  <2>1. ASSUME NEW t \in Tasks, pc[t] \in {"select", "work"} PROVE connected
    <3>1. t \in Proc /\ Active(t) /\ pc[t] \notin ConnectLabels
      BY <2>1 DEF IInv, CallersReturn, Tasks, Active, SessionLabels, ConnectLabels,
                  CallLabels, StopLabels
    <3>2. ~\E u \in Tasks : pc[u] = "stop_kill"
      BY <2>1, TasksAssumption DEF IInv, LocksMatch, MainHeld, SelectHeld
    <3>3. QED
      BY <3>1, <3>2 DEF IInv, SessionConnected
  <2>2. connected => socket
    BY DEF IInv, SessionConnected
  <2>3. QED
    BY <2>1, <2>2, Zenon DEF SocketInUse
<1>2. QED
  BY Inductive, <1>1, PTL

-----------------------------------------------------------------------------
\* The settings a connection attempt reads stay what they are while it runs.
THEOREM StableSettings == ASSUME GoodUse PROVE Spec /\ TasksCreated => SettingsStable
<1>1. IInv /\ [Next]_vars => [SettingsKept]_vars
  <2> SUFFICES ASSUME IInv, Next PROVE SettingsKept
    OBVIOUS
  <2> USE DEF settings
  <2>1. ASSUME NEW t \in App, NEW f \in Functions, Call(t, f) PROVE UNCHANGED settings
    BY <2>1 DEF Call
  <2>2. ASSUME NEW t \in Tasks, LockMain(t) \/ LockSelect(t) PROVE UNCHANGED settings
    BY <2>2 DEF LockMain, LockSelect
  <2>3. ASSUME NEW t \in Tasks, ReceiveMessage(t) PROVE UNCHANGED settings
    BY <2>3 DEF ReceiveMessage
  <2>4. ASSUME NEW p \in Proc, ProcessStep(p) PROVE UNCHANGED settings
    BY <2>4 DEF ProcessStep, ConnectFails, ConnectSucceeds, DelayOver, CallbackStep,
                CallbackReturns, CallbackCalls, Check, SelectFails, SelectReturns, WorkFails,
                WorkDone, Exit, Delete
  <2>5. ASSUME BrokerSends PROVE UNCHANGED settings
    BY <2>5 DEF BrokerSends
  <2>6. ASSUME NEW t \in Tasks, Lwt(t)
        PROVE  UNCHANGED config /\ \A p \in Proc : pc[p] # "connect"
    <3>1. main = t /\ \A p \in Proc : pc[p] = "connect" => main = p
      BY <2>6 DEF Lwt, IInv, LocksMatch, MainHeld, Tasks
    <3>2. QED
      BY <2>6, <3>1 DEF Lwt
  <2>7. ASSUME NEW t \in Tasks, Start(t) PROVE ~running /\ UNCHANGED lwt
    BY <2>7 DEF Start, MayStart
  <2>8. ASSUME NEW t \in Tasks, ApiStep(t), ~Lwt(t), ~Start(t) PROVE UNCHANGED settings
    BY <2>8 DEF ApiStep, StartAgain, CommandRejected, CommandFails, CommandSucceeds, TakeEvent,
                DeliverEvent, DispatchDone, StopNothing, StopDisconnects, StopKills, StopEnds
  <2>9. QED
    BY <2>1, <2>2, <2>3, <2>4, <2>5, <2>6, <2>7, <2>8 DEF Next, SettingsKept
<1>2. QED
  BY Inductive, <1>1, PTL DEF Spec, SettingsStable

-----------------------------------------------------------------------------
(***************************************************************************)
(* Refinement.  Seven actions move the abstract session; every other one is  *)
(* a stutter, since it keeps each process on its side of these lines.      *)
(***************************************************************************)
SamePlace(p) == /\ Active(p)' <=> Active(p)
                /\ pc'[p] \in ConnectLabels <=> pc[p] \in ConnectLabels
                /\ pc'[p] = "cb_connected" <=> pc[p] = "cb_connected"
                /\ pc'[p] = "cb_disconnected" <=> pc[p] = "cb_disconnected"
SameStops == \A t \in Tasks : pc'[t] = "stop_kill" <=> pc[t] = "stop_kill"
Quiet == handle' = handle /\ SameStops /\ \A p \in Proc : SamePlace(p)

\* A quiet step is a stutter of the abstract session.
LEMMA QuietStutters == Quiet => UNCHANGED <<SessionState, StopDue, AnnounceDue, OwedBy>>
BY Zenon DEF Quiet, SamePlace, SameStops, SessionState, StopDue, AnnounceDue, OwedBy,
             ActiveProcess

\* Inside the public functions only start and stop move the session.
LEMMA QuietCalls ==
    ASSUME GoodUse, IInv, NEW t \in Tasks,
           Lwt(t) \/ StartAgain(t) \/ CommandRejected(t) \/ CommandFails(t)
           \/ CommandSucceeds(t) \/ TakeEvent(t) \/ DeliverEvent(t) \/ DispatchDone(t)
           \/ StopNothing(t) \/ StopEnds(t)
    PROVE  Quiet
<1> USE TasksAssumption
<1> USE DEF GoodUse, IInv, TypeOK, CallersReturn, Quiet, SamePlace, SameStops, Active, Labels,
        CallLabels,
            StopLabels, ConnectLabels, SessionLabels, ExitLabels, Returns, Tasks
<1>1. CASE Lwt(t)
  BY <1>1 DEF Lwt, Return, locks, flags, settings, stream, events
<1>2. CASE StartAgain(t)
  BY <1>2 DEF StartAgain, Return, locks, flags, settings, stream, events
<1>3. CASE CommandRejected(t)
  BY <1>3 DEF CommandRejected, Return, locks, flags, settings, stream, events
<1>4. CASE CommandFails(t)
  BY <1>4 DEF CommandFails, Return, locks, flags, settings, stream, events
<1>5. CASE CommandSucceeds(t)
  BY <1>5 DEF CommandSucceeds, Goto, locks, flags, settings, stream, events
<1>6. CASE TakeEvent(t)
  BY <1>6 DEF TakeEvent, Goto, locks, flags, settings, stream, events
<1>7. CASE DeliverEvent(t)
  BY <1>7 DEF DeliverEvent, Goto, locks, flags, settings, stream, events
<1>8. CASE DispatchDone(t)
  BY <1>8 DEF DispatchDone, Return, locks, flags, settings, stream, events
<1>9. CASE StopNothing(t)
  BY <1>9 DEF StopNothing, Return, locks, flags, settings, stream, events
<1>10. CASE StopEnds(t)
  BY <1>10 DEF StopEnds, Return, locks, flags, settings, stream, events
<1>11. QED
  BY <1>1, <1>2, <1>3, <1>4, <1>5, <1>6, <1>7, <1>8, <1>9, <1>10

\* In the process only its connection, its callbacks and its exit move the session.
LEMMA QuietProcess ==
    ASSUME GoodUse, IInv, NEW p \in Proc,
           ConnectFails(p) \/ DelayOver(p) \/ Check(p) \/ SelectFails(p)
           \/ SelectReturns(p) \/ WorkFails(p) \/ WorkDone(p) \/ Delete(p)
    PROVE  Quiet
<1> USE TasksAssumption
<1> USE DEF GoodUse, IInv, TypeOK, CallersReturn, Quiet, SamePlace, SameStops, Active, Labels,
        CallLabels,
            StopLabels, ConnectLabels, SessionLabels, ExitLabels, Returns, Tasks
<1>1. CASE ConnectFails(p)
  BY <1>1 DEF ConnectFails, Goto, locks, flags, settings, stream, events
<1>2. CASE DelayOver(p)
  BY <1>2 DEF DelayOver, Goto, locks, flags, settings, stream, events
<1>3. CASE Check(p)
  BY <1>3 DEF Check, Goto, locks, flags, settings, stream, events
<1>4. CASE SelectFails(p)
  BY <1>4 DEF SelectFails, Goto, locks, flags, settings, stream, events
<1>5. CASE SelectReturns(p)
  BY <1>5 DEF SelectReturns, Goto, locks, flags, settings, stream, events
<1>6. CASE WorkFails(p)
  BY <1>6 DEF WorkFails, Goto, locks, flags, settings, stream, events
<1>7. CASE WorkDone(p)
  BY <1>7 DEF WorkDone, Goto, locks, flags, settings, stream, events
<1>8. CASE Delete(p)
  BY <1>8 DEF Delete, Goto, locks, flags, settings, stream, events
<1>9. QED
  BY <1>1, <1>2, <1>3, <1>4, <1>5, <1>6, <1>7, <1>8

\* Only the process the handle names can be active, and it owns what it does.
LEMMA OnlyHandle ==
    ASSUME IInv, NEW p \in Proc, Active(p)
    PROVE  /\ handle = p /\ ActiveProcess
           /\ \A q \in Proc : Active(q) => q = p
BY DEF IInv, SingleSession, ActiveProcess

\* Creating the process starts the abstract session.
LEMMA StartStep ==
    ASSUME GoodUse, IInv, [Created]_vars, NEW t \in Tasks, Start(t) PROVE Session!Start
<1> USE DEF GoodUse, IInv, TypeOK, CallersReturn, Active, Labels, CallLabels, StopLabels,
            ConnectLabels, SessionLabels, ExitLabels, Returns, Tasks
<1>1. PICK p \in Proc : CreateTask(t, p)
  BY StartCreates
<1>2. \A q \in Proc : ~Active(q)
  BY DEF Start, MayStart, SingleSession
<1>3. handle' = p /\ pc'[p] = "connect_lock" /\ p # t
  BY <1>1 DEF CreateTask, Start
<1>4. SessionState = "stopped" /\ ~AnnounceDue
  BY <1>2 DEF SessionState, AnnounceDue, ActiveProcess
<1>5. Active(p)'
  BY <1>3
<1>6. SessionState' = "connecting" /\ ~AnnounceDue'
  BY <1>3, <1>5 DEF SessionState, AnnounceDue, ActiveProcess
<1>7. \A q \in Proc : pc'[q] = "cb_disconnected" <=> pc[q] = "cb_disconnected"
  BY <1>1 DEF Start, CreateTask
<1>8. OwedBy' = OwedBy
  BY <1>7 DEF OwedBy
<1>9. \A u \in Tasks : pc[u] # "stop_kill" /\ pc'[u] # "stop_kill"
  <2>1. main = t /\ pc[t] = "start"
    BY DEF Start, LocksMatch, MainHeld
  <2>2. \A u \in Tasks : pc[u] # "stop_kill"
    BY <2>1 DEF LocksMatch, MainHeld
  <2>3. pc' = [pc EXCEPT ![p] = "connect_lock", ![t] = ret[t]]
    BY <1>1 DEF CreateTask
  <2>4. QED
    BY <2>2, <2>3
<1>10. StopDue = FALSE /\ StopDue' = FALSE
  BY <1>9 DEF StopDue
<1>11. QED
  BY <1>4, <1>6, <1>8, <1>10 DEF Session!Start, AnnounceDue

\* A successful attempt establishes it.
LEMMA EstablishStep ==
    ASSUME GoodUse, IInv, NEW p \in Proc, ConnectSucceeds(p) PROVE Session!Establish
<1> USE DEF IInv, TypeOK, Active, Labels, CallLabels, StopLabels, ConnectLabels,
            SessionLabels, Tasks
<1>1. pc[p] = "connect" /\ pc' = [pc EXCEPT ![p] = "cb_connected"] /\ handle' = handle
  BY DEF ConnectSucceeds, Goto
<1>2. handle = p /\ ActiveProcess
  BY <1>1, OnlyHandle
<1>3. ActiveProcess' /\ pc'[handle'] = "cb_connected"
  BY <1>1, <1>2 DEF ActiveProcess
<1>4. SessionState = "connecting" /\ SessionState' = "connected" /\ AnnounceDue'
  BY <1>1, <1>2, <1>3 DEF SessionState, AnnounceDue
<1>5. OwedBy' = OwedBy
  BY <1>1 DEF OwedBy
<1>6. \A u \in Tasks : pc[u] # "stop_kill" /\ pc'[u] # "stop_kill"
  BY <1>1, TasksAssumption DEF LocksMatch, MainHeld
<1>7. StopDue = FALSE /\ StopDue' = FALSE
  BY <1>6 DEF StopDue
<1>8. QED
  BY <1>4, <1>5, <1>7 DEF Session!Establish

\* The status callbacks are the announcements.
LEMMA CallbackStepMaps ==
    ASSUME GoodUse, IInv, NEW p \in Proc, CallbackStep(p)
    PROVE  Session!AnnounceConnected \/ Session!AnnounceDisconnected(p)
<1> USE DEF IInv, TypeOK, CallersReturn, Active, Labels, CallLabels, StopLabels, ConnectLabels,
            SessionLabels, ExitLabels, Tasks
<1> DEFINE LeavesCallback ==
             /\ pc[p] \in {"cb_connected", "cb_disconnected"}
             /\ handle' = handle
             /\ \A q \in Proc \ {p} : pc'[q] = pc[q] /\ ret'[q] = ret[q]
             /\ pc'[p] \notin ConnectLabels \cup {"cb_connected", "cb_disconnected"}
             /\ Active(p)' <=> pc[p] = "cb_connected"
             /\ SameStops
<1> USE DEF SameStops
<1>1. LeavesCallback
  <2>1. CASE CallbackReturns(p)
    BY <2>1 DEF CallbackReturns, Goto
  <2>2. ASSUME NEW f \in Functions, CallbackCalls(p, f)
        PROVE  LeavesCallback
    BY <2>2 DEF CallbackCalls, Goto, Entry, Functions
  <2>3. QED
    BY <2>1, <2>2 DEF CallbackStep
<1>0. StopDue' = StopDue
  <2>1. \A u \in Tasks : pc'[u] = "stop_kill" <=> pc[u] = "stop_kill"
    BY <1>1
  <2>2. QED
    BY ONLY <2>1, Zenon DEF StopDue
<1>2. CASE pc[p] = "cb_connected"
  <2>1. handle = p /\ ActiveProcess
    BY <1>2, OnlyHandle
  <2>2. SessionState = "connected" /\ AnnounceDue
    BY <1>2, <2>1 DEF SessionState, AnnounceDue
  <2>3. SessionState' = "connected" /\ AnnounceDue' = FALSE
    BY <1>1, <1>2, <2>1 DEF SessionState, AnnounceDue, ActiveProcess
  <2>4. OwedBy' = OwedBy
    BY <1>1, <1>2 DEF OwedBy
  <2>5. QED
    BY <1>0, <2>2, <2>3, <2>4 DEF Session!AnnounceConnected
<1>3. CASE pc[p] = "cb_disconnected"
  <2>1. handle' = handle /\ \A q \in Proc : /\ Active(q)' <=> Active(q)
                                            /\ Active(q) => pc'[q] = pc[q]
    BY <1>1, <1>3
  <2>2. SessionState' = SessionState /\ AnnounceDue' = AnnounceDue
    BY <2>1 DEF SessionState, AnnounceDue, ActiveProcess
  <2>3. OwedBy' = OwedBy \ {p} /\ p \in OwedBy
    BY <1>1, <1>3 DEF OwedBy
  <2>4. QED
    BY <1>0, <2>2, <2>3 DEF Session!AnnounceDisconnected
<1>4. QED
  BY <1>1, <1>2, <1>3

\* The exit section loses the session and owes a callback.
LEMMA LoseStep == ASSUME GoodUse, IInv, NEW p \in Proc, Exit(p) PROVE Session!Lose(p)
<1> USE DEF IInv, TypeOK, Active, Labels, CallLabels, StopLabels, ConnectLabels,
            SessionLabels, ExitLabels, Tasks
<1>1. /\ pc[p] = "exit" /\ pc' = [pc EXCEPT ![p] = "cb_disconnected"]
      /\ handle' = handle
  BY DEF Exit, ResetFlags, AfterExit, Goto
<1>2. handle = p /\ ActiveProcess
  BY <1>1, OnlyHandle
<1>3. SessionState = "connected" /\ AnnounceDue = FALSE
  BY <1>1, <1>2 DEF SessionState, AnnounceDue
<1>4. ~ActiveProcess'
  BY <1>1, <1>2 DEF ActiveProcess
<1>5. SessionState' = "stopped" /\ AnnounceDue' = FALSE
  BY <1>4 DEF SessionState, AnnounceDue
<1>6. p \notin OwedBy /\ OwedBy' = OwedBy \cup {p}
  BY <1>1 DEF OwedBy
<1>7. \A u \in Tasks : pc[u] # "stop_kill" /\ pc'[u] # "stop_kill"
  BY <1>1, TasksAssumption DEF LocksMatch, MainHeld
<1>8. StopDue = FALSE /\ StopDue' = FALSE
  BY <1>7 DEF StopDue
<1>9. QED
  BY <1>3, <1>5, <1>6, <1>8 DEF Session!Lose

\* stop begins when it has closed the connection ...
LEMMA BeginStopStep ==
    ASSUME GoodUse, IInv, NEW t \in Tasks, StopDisconnects(t) PROVE Session!BeginStop
<1> USE DEF GoodUse, IInv, TypeOK, CallersReturn, Active, Labels, CallLabels, StopLabels,
            ConnectLabels, SessionLabels, ExitLabels, Returns, Tasks
<1>1. pc[t] = "stop" /\ pc' = [pc EXCEPT ![t] = "stop_kill"] /\ running /\ handle' = handle
  BY DEF StopDisconnects, Goto
<1>2. ret' = ret
  BY DEF StopDisconnects
<1>3. \A u \in Tasks : pc[u] \notin {"stop_kill", "stop_end"}
  BY <1>1, TasksAssumption DEF LocksMatch, MainHeld
<1>4. handle \in Proc /\ Active(handle) /\ handle # t
  BY <1>1, <1>3, TasksAssumption DEF RunningHasProcess
<1>5. \A p \in Proc : SamePlace(p)
  BY <1>1, <1>2 DEF SamePlace
<1>6. SessionState # "stopped" /\ SessionState' = SessionState
  BY <1>1, <1>4, <1>5 DEF SessionState, ActiveProcess, SamePlace
<1>7. AnnounceDue' = AnnounceDue /\ OwedBy' = OwedBy
  BY <1>1, <1>4, <1>5 DEF AnnounceDue, OwedBy, ActiveProcess, SamePlace
<1>8. ~StopDue /\ StopDue'
  BY <1>1, <1>3 DEF StopDue
<1>9. QED
  BY <1>6, <1>7, <1>8 DEF Session!BeginStop

\* ... and ends the session when it deletes the process.
LEMMA StopStep == ASSUME GoodUse, IInv, NEW t \in Tasks, StopKills(t) PROVE Session!EndStop
<1> USE DEF GoodUse, IInv, TypeOK, CallersReturn, Active, Labels, CallLabels, StopLabels,
            ConnectLabels, SessionLabels, ExitLabels, Returns, Tasks
<1>1. pc[t] = "stop_kill" /\ handle \in Proc /\ Active(handle) /\ handle # t /\ handle' = handle
  BY TasksAssumption DEF StopKills, StopHasVictim
<1>2. pc' = [u \in Tasks |-> IF u = handle THEN "none"
                             ELSE IF u = t THEN "stop_end" ELSE pc[u]]
  BY <1>1, TasksAssumption DEF StopKills, Victim
<1>3. SessionState # "stopped"
  BY <1>1 DEF SessionState, ActiveProcess
<1>4. ~ActiveProcess'
  BY <1>1, <1>2 DEF ActiveProcess
<1>5. SessionState' = "stopped" /\ AnnounceDue' = FALSE
  BY <1>4 DEF SessionState, AnnounceDue
<1>6. pc[handle] # "cb_disconnected"
  BY <1>1
<1>7. OwedBy' = OwedBy
  BY <1>1, <1>2, <1>6 DEF OwedBy
<1>8. \A u \in Tasks \ {t} : pc[u] # "stop_kill"
  BY <1>1, TasksAssumption DEF LocksMatch, MainHeld
<1>9. StopDue /\ ~StopDue'
  BY <1>1, <1>2, <1>8 DEF StopDue
<1>10. QED
  BY <1>3, <1>5, <1>7, <1>9 DEF Session!EndStop

\* Initial states map to the initial state.
LEMMA SessionInit == Init => Session!Init
<1> SUFFICES ASSUME Init PROVE Session!Init
  OBVIOUS
<1>1. \A p \in Proc : pc[p] = "none"
  BY TasksAssumption DEF Init, Tasks
<1>2. ~ActiveProcess
  BY <1>1 DEF ActiveProcess, Active, ConnectLabels, SessionLabels, CallLabels, StopLabels
<1>3. OwedBy = {}
  BY <1>1 DEF OwedBy
<1>4. ~StopDue
  BY TasksAssumption DEF Init, StopDue, Tasks
<1>5. QED
  BY <1>2, <1>3, <1>4 DEF Session!Init, SessionState, AnnounceDue

\* Every step maps to a step of the abstract session or to a stutter.
LEMMA SessionStep ==
    GoodUse /\ IInv /\ [Created]_vars => [Session!Next]_(Session!sessionVars)
<1> SUFFICES ASSUME GoodUse, IInv, [Created]_vars
             PROVE  [Session!Next]_(Session!sessionVars)
  OBVIOUS
<1>1. ASSUME Quiet PROVE [Session!Next]_(Session!sessionVars)
  BY <1>1, QuietStutters DEF Session!sessionVars
<1>2. ASSUME pc' = pc, ret' = ret, handle' = handle PROVE Quiet
  BY <1>2 DEF Quiet, SamePlace, SameStops, Active
<1>3. ASSUME NEW t \in App, NEW f \in Functions, Call(t, f) PROVE Quiet
  <2>1. /\ pc' = [pc EXCEPT ![t] = Entry[f]] /\ pc[t] = "idle"
        /\ ret' = ret /\ handle' = handle /\ Entry[f] # "stop_kill"
    BY <1>3 DEF Call, Goto, Entry, Functions
  <2>2. \A p \in Proc : pc'[p] = pc[p]
    BY <2>1, TasksAssumption DEF IInv, TypeOK, Tasks
  <2>3. SameStops
    BY <2>1 DEF SameStops, IInv, TypeOK
  <2>4. QED
    BY <2>1, <2>2, <2>3 DEF Quiet, SamePlace, Active
<1>4. ASSUME NEW t \in Tasks, LockMain(t) PROVE Quiet
  BY <1>4 DEF LockMain, Goto, AfterMain, MainWait, Quiet, SamePlace, SameStops, Active, IInv,
     TypeOK,
              Tasks, ConnectLabels, SessionLabels, CallLabels, StopLabels
<1>5. ASSUME NEW t \in Tasks, LockSelect(t) PROVE Quiet
  BY <1>5 DEF LockSelect, Goto, AfterSelect, SelectWait, Quiet, SamePlace, SameStops, Active, IInv,
              TypeOK, Tasks, ConnectLabels, SessionLabels, CallLabels, StopLabels
<1>6. ASSUME NEW t \in Tasks, ReceiveMessage(t) PROVE Quiet
  BY <1>2, <1>6 DEF ReceiveMessage
<1>7. CASE BrokerSends
  BY <1>1, <1>2, <1>7 DEF BrokerSends
<1>8. CASE UNCHANGED vars
  BY <1>1, <1>2, <1>8 DEF vars
<1>9. ASSUME NEW t \in Tasks, ApiStep(t)
       PROVE  Session!Start \/ Session!BeginStop \/ Session!EndStop \/ Quiet
  BY <1>9, StartStep, BeginStopStep, StopStep, QuietCalls DEF ApiStep
<1>10. ASSUME NEW p \in Proc, ProcessStep(p)
       PROVE  \/ Session!Establish \/ Session!AnnounceConnected
              \/ Session!AnnounceDisconnected(p) \/ Session!Lose(p) \/ Quiet
  BY <1>10, EstablishStep, CallbackStepMaps, LoseStep, QuietProcess DEF ProcessStep
<1>11. QED
  BY <1>1, <1>3, <1>4, <1>5, <1>6, <1>7, <1>8, <1>9, <1>10 DEF Created, Next, Session!Next

\* The session manager keeps the promises of MqttSession: one session at a
\* time, each establishment and each loss announced exactly once, in its
\* turn, and a stopped session announced no more.
THEOREM Refinement == ASSUME GoodUse PROVE Spec /\ TasksCreated => ImplementsSession
<1>1. IInv /\ [Next]_vars /\ [~CreationFails]_vars => [Session!Next]_(Session!sessionVars)
  BY SessionStep, GoodUse DEF Created
<1>2. QED
  BY Inductive, SessionInit, <1>1, PTL DEF Spec, TasksCreated, ImplementsSession, Session!Spec
=============================================================================

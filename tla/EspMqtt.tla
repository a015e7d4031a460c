------------------------------- MODULE EspMqtt -------------------------------
(***************************************************************************)
(* The session manager of components/esp-mqtt/esp_mqtt.c: one background   *)
(* "process" task per started session, any number of application tasks     *)
(* that call the public functions, two FreeRTOS mutexes, three unprotected *)
(* flags, and a bounded queue of received messages.                        *)
(*                                                                         *)
(* pc[t] is where task t stands, at the granularity of what other tasks    *)
(* can observe: waiting for a mutex, inside a critical section, in a       *)
(* callback, asleep.  The lwmqtt and lwIP calls made inside a critical     *)
(* section are a choice among the outcomes their return codes allow; their *)
(* own behaviour is the subject of LwmqttClient and EspNetwork.            *)
(***************************************************************************)
EXTENDS Naturals, Sequences, FiniteSets

CONSTANTS
    App,              \* application tasks
    Proc,             \* identities a background process task can have
    None,             \* NULL: no task, no owner, nothing configured
    Settings,         \* values of the connection and of the last-will parameters
    ConnectedCalls,   \* functions the CONNECTED status callback may call
    DisconnectedCalls,\* functions the DISCONNECTED status callback may call
    EventQueueSize,   \* CONFIG_ESP_MQTT_EVENT_QUEUE_SIZE
    MaxMessages,      \* bound: messages the broker sends in one behaviour
    CreateMayFail     \* whether xTaskCreatePinnedToCore may run out of memory

Tasks == App \cup Proc
Functions == {"lwt", "start", "command", "stop"}

ASSUME TasksAssumption == /\ App \cap Proc = {}
                          /\ None \notin App \cup Proc
ASSUME CallsAssumption == /\ ConnectedCalls \subseteq Functions
                          /\ DisconnectedCalls \subseteq Functions
ASSUME BoundsAssumption == /\ EventQueueSize \in Nat \ {0}
                           /\ MaxMessages \in Nat
                           /\ CreateMayFail \in BOOLEAN

VARIABLES
    pc,         \* where each task stands
    ret,        \* where a task goes on after the call or the dispatch it is in
    main,       \* owner of esp_mqtt_main_mutex
    select,     \* owner of esp_mqtt_select_mutex
    running,    \* esp_mqtt_running
    connected,  \* esp_mqtt_connected
    error,      \* esp_mqtt_error
    handle,     \* esp_mqtt_task
    config,     \* esp_mqtt_config
    lwt,        \* esp_mqtt_lwt_config
    socket,     \* whether esp_mqtt_network holds a connected socket
    available,  \* what select() told each process
    wire,       \* PUBLISH packets received by the socket and not yet read
    arrived,    \* number of messages the broker has sent
    queue,      \* esp_mqtt_event_queue
    hand        \* the event a task took from the queue, 0 when none

locks == <<main, select>>
flags == <<running, connected, error>>
settings == <<config, lwt>>
stream == <<wire, arrived>>
events == <<queue, hand>>
vars == <<pc, ret, locks, flags, handle, settings, socket, available, stream, events>>

(***************************************************************************)
(* Places of the code.                                                     *)
(***************************************************************************)
\* Seeded fault: stop takes only the main mutex.
AfterMainOneLock ==
    [connect_lock |-> "connect", work_lock |-> "work", exit_lock |-> "exit",
     lwt_lock |-> "lwt", start_lock |-> "start", command_lock |-> "command",
     stop_lock |-> "stop"]

\* Waiting in ESP_MQTT_LOCK_MAIN, and where the task is once it owns the mutex.
AfterMain == [connect_lock |-> "connect", work_lock |-> "work", exit_lock |-> "exit",
              lwt_lock |-> "lwt", start_lock |-> "start", command_lock |-> "command",
              stop_lock |-> "stop_select"]
\* Waiting in ESP_MQTT_LOCK_SELECT.
AfterSelect == [select_lock |-> "select", stop_select |-> "stop"]

MainWait == {"connect_lock", "work_lock", "exit_lock",
             "lwt_lock", "start_lock", "command_lock", "stop_lock"}
MainHeld == {"connect", "work", "exit", "lwt", "start", "command",
             "stop_select", "stop", "stop_kill", "stop_end"}
SelectWait == {"select_lock", "stop_select"}
SelectHeld == {"select", "stop", "stop_kill", "stop_end"}

StopLabels == {"stop_lock", "stop_select", "stop", "stop_kill", "stop_end"}
\* What any task goes through inside a public function.
CallLabels == {"lwt_lock", "lwt", "start_lock", "start", "command_lock", "command",
               "dispatch", "deliver"} \cup StopLabels
\* What the background process goes through up to the end of its session ...
ConnectLabels == {"connect_lock", "connect", "delay"}
SessionLabels == {"cb_connected", "check", "select_lock", "select", "work_lock", "work",
                  "exit_lock", "exit"}
\* ... and after it.
ExitLabels == {"cb_disconnected", "delete"}
Labels == {"idle", "none"} \cup CallLabels \cup ConnectLabels \cup SessionLabels
          \cup ExitLabels

Returns == {"idle", "check", "delete"}

\* The process still owns its session: it has not left the exit section.
Active(p) == \/ pc[p] \in ConnectLabels \cup SessionLabels
             \/ pc[p] \in CallLabels /\ ret[p] = "check"
\* The process has ended its session and is on its way out.
Leaving(p) == \/ pc[p] \in ExitLabels
              \/ pc[p] \in CallLabels /\ ret[p] = "delete"

Goto(t, l) == pc' = [pc EXCEPT ![t] = l]
\* A public function, or the process's own dispatch, returns.
Return(t) == /\ pc' = [pc EXCEPT ![t] = ret[t]]
             /\ ret' = [ret EXCEPT ![t] = "idle"]

-----------------------------------------------------------------------------
(***************************************************************************)
(* esp_mqtt_init has run: it is called once on boot, before any task       *)
(* touches the module.                                                     *)
(***************************************************************************)
Init ==
    /\ pc = [t \in Tasks |-> IF t \in App THEN "idle" ELSE "none"]
    /\ ret = [t \in Tasks |-> "idle"]
    /\ main = None /\ select = None
    /\ running = FALSE /\ connected = FALSE /\ error = FALSE
    /\ handle = None
    /\ config = None /\ lwt = None
    /\ socket = FALSE
    /\ available = [p \in Proc |-> FALSE]
    /\ wire = <<>> /\ arrived = 0
    /\ queue = <<>>
    /\ hand = [t \in Tasks |-> 0]

-----------------------------------------------------------------------------
(***************************************************************************)
(* The mutexes.  xSemaphoreTake with portMAX_DELAY blocks until the mutex  *)
(* is free; FreeRTOS mutexes of this kind are not recursive.               *)
(***************************************************************************)
MainFree == main = None
SelectFree == select = None

\* Bound: the processes on their way out never take up all of Proc, so that a
\* start always finds an identity for the task it creates.
RoomToLeave(p) == \E q \in Proc \ {p} : pc[q] = "none"

LockMain(t) ==
    /\ pc[t] \in MainWait
    /\ MainFree
    /\ pc[t] = "exit_lock" => RoomToLeave(t)
    /\ main' = t
    /\ Goto(t, AfterMain[pc[t]])
    /\ UNCHANGED <<ret, select, flags, handle, settings, socket, available, stream, events>>

LockSelect(t) ==
    /\ pc[t] \in SelectWait
    /\ SelectFree
    /\ select' = t
    /\ Goto(t, AfterSelect[pc[t]])
    /\ UNCHANGED <<ret, main, flags, handle, settings, socket, available, stream, events>>

-----------------------------------------------------------------------------
(***************************************************************************)
(* Entering a public function.  An application task may call any of them   *)
(* at any time; a status callback runs in the process task and makes at    *)
(* most one call, from the set its constant gives.                         *)
(***************************************************************************)
Entry == [lwt |-> "lwt_lock", start |-> "start_lock",
          command |-> "command_lock", stop |-> "stop_lock"]

Call(t, f) ==
    /\ pc[t] = "idle"
    /\ Goto(t, Entry[f])
    /\ UNCHANGED <<ret, locks, flags, handle, settings, socket, available, stream, events>>

\* The status callback, if it makes no call.
CallbackReturns(p) ==
    /\ pc[p] \in {"cb_connected", "cb_disconnected"}
    /\ Goto(p, IF pc[p] = "cb_connected" THEN "check" ELSE "delete")
    /\ UNCHANGED <<ret, locks, flags, handle, settings, socket, available, stream, events>>

\* The status callback, making its one call.
CallbackCalls(p, f) ==
    /\ \/ pc[p] = "cb_connected" /\ f \in ConnectedCalls
       \/ pc[p] = "cb_disconnected" /\ f \in DisconnectedCalls
    /\ ret' = [ret EXCEPT ![p] = IF pc[p] = "cb_connected" THEN "check" ELSE "delete"]
    /\ Goto(p, Entry[f])
    /\ UNCHANGED <<locks, flags, handle, settings, socket, available, stream, events>>

-----------------------------------------------------------------------------
\* Seeded fault: the last will is replaced outside the main mutex.
LwtUnlocked(t) ==
    /\ pc[t] \in {"lwt_lock", "lwt"}
    /\ lwt' \in Settings
    /\ main' = IF pc[t] = "lwt" THEN None ELSE main
    /\ Return(t)
    /\ UNCHANGED <<select, flags, handle, config, socket, available, stream, events>>

\* esp_mqtt_lwt: replace the last will.
Lwt(t) ==
    /\ pc[t] = "lwt"
    /\ lwt' \in Settings
    /\ main' = None
    /\ Return(t)
    /\ UNCHANGED <<select, flags, handle, config, socket, available, stream, events>>

\* esp_mqtt_start when a process is already running.
StartAgain(t) ==
    /\ pc[t] = "start"
    /\ running
    /\ main' = None
    /\ Return(t)
    /\ UNCHANGED <<select, flags, handle, settings, socket, available, stream, events>>

\* xTaskCreatePinnedToCore: a new task p, which first waits for the main mutex.
CreateTask(t, p) ==
    /\ pc[p] = "none"
    /\ pc' = [pc EXCEPT ![p] = "connect_lock", ![t] = ret[t]]
    /\ handle' = p

\* Seeded fault: start does not look whether a process is running.
MayStartAlways == TRUE

\* Only one session at a time.
MayStart == ~running

\* esp_mqtt_start: take over the configuration and create the process.  The
\* result of the creation is not looked at, so a failure leaves the handle as
\* it was.
Start(t) ==
    /\ pc[t] = "start"
    /\ MayStart
    /\ config' \in Settings
    /\ \/ \E p \in Proc : CreateTask(t, p)
       \/ CreateMayFail /\ pc' = [pc EXCEPT ![t] = ret[t]] /\ UNCHANGED handle
    /\ ret' = [ret EXCEPT ![t] = "idle"]
    /\ running' = TRUE
    /\ main' = None
    /\ UNCHANGED <<select, connected, error, lwt, socket, available, stream, events>>

-----------------------------------------------------------------------------
(***************************************************************************)
(* esp_mqtt_subscribe, esp_mqtt_unsubscribe and esp_mqtt_publish: the same *)
(* critical section around a different lwmqtt command.                     *)
(***************************************************************************)
\* Seeded fault: the early return forgets the mutex.
CommandRejectedLocked(t) ==
    /\ pc[t] = "command"
    /\ ~connected
    /\ Return(t)
    /\ UNCHANGED <<locks, flags, handle, settings, socket, available, stream, events>>

CommandRejected(t) ==
    /\ pc[t] = "command"
    /\ ~connected
    /\ main' = None
    /\ Return(t)
    /\ UNCHANGED <<select, flags, handle, settings, socket, available, stream, events>>

CommandFails(t) ==
    /\ pc[t] = "command"
    /\ connected
    /\ error' = TRUE
    /\ main' = None
    /\ Return(t)
    /\ UNCHANGED <<select, running, connected, handle, settings, socket, available, stream,
                   events>>

\* The command succeeds: the caller goes on to dispatch the queued events.
CommandSucceeds(t) ==
    /\ pc[t] = "command"
    /\ connected
    /\ main' = None
    /\ Goto(t, "dispatch")
    /\ UNCHANGED <<ret, select, flags, handle, settings, socket, available, stream, events>>

-----------------------------------------------------------------------------
(***************************************************************************)
(* Messages.  The broker sends while the connection is up; whoever is in   *)
(* an lwmqtt call that reads packets runs the message handler, which drops *)
(* the message when the queue is full.                                     *)
(***************************************************************************)
BrokerSends ==
    /\ connected
    /\ arrived < MaxMessages
    /\ arrived' = arrived + 1
    /\ wire' = Append(wire, arrived + 1)
    /\ UNCHANGED <<pc, ret, locks, flags, handle, settings, socket, available, events>>

\* Seeded faults: no bound; the last place of the queue never used.
EnqueueUnbounded(q, m) == Append(q, m)
EnqueueEarly(q, m) == IF Len(q) + 1 < EventQueueSize THEN Append(q, m) ELSE q

\* esp_mqtt_message_handler
Enqueue(q, m) == IF Len(q) < EventQueueSize THEN Append(q, m) ELSE q

\* Tasks inside lwmqtt_yield (only when select saw data) or waiting for the
\* answer of a command.
Reading(t) == \/ pc[t] = "command" /\ connected
              \/ t \in Proc /\ pc[t] = "work" /\ available[t]

ReceiveMessage(t) ==
    /\ Reading(t)
    /\ wire # <<>>
    /\ queue' = Enqueue(queue, Head(wire))
    /\ wire' = Tail(wire)
    /\ UNCHANGED <<pc, ret, locks, flags, handle, settings, socket, available, arrived, hand>>

\* Seeded fault: the event is looked at and stays in the queue.
DequeuePeek(q) == q
\* xQueueReceive without waiting takes the oldest event.
Dequeue(q) == Tail(q)

\* esp_mqtt_dispatch_events: outside every mutex, in whatever task called it.
TakeEvent(t) ==
    /\ pc[t] = "dispatch"
    /\ queue # <<>>
    /\ hand' = [hand EXCEPT ![t] = Head(queue)]
    /\ queue' = Dequeue(queue)
    /\ Goto(t, "deliver")
    /\ UNCHANGED <<ret, locks, flags, handle, settings, socket, available, stream>>

\* The message callback has run and the event is freed.
DeliverEvent(t) ==
    /\ pc[t] = "deliver"
    /\ hand' = [hand EXCEPT ![t] = 0]
    /\ Goto(t, "dispatch")
    /\ UNCHANGED <<ret, locks, flags, handle, settings, socket, available, stream, queue>>

DispatchDone(t) ==
    /\ pc[t] = "dispatch"
    /\ queue = <<>>
    /\ Return(t)
    /\ UNCHANGED <<locks, flags, handle, settings, socket, available, stream, events>>

-----------------------------------------------------------------------------
(***************************************************************************)
(* esp_mqtt_process.                                                       *)
(***************************************************************************)
\* One connection attempt, from the network connection to the CONNACK.  A
\* refused CONNECT leaves the socket open until the next attempt.
ConnectFails(p) ==
    /\ pc[p] = "connect"
    /\ socket' \in BOOLEAN
    /\ main' = None
    /\ Goto(p, "delay")
    /\ UNCHANGED <<ret, select, flags, handle, settings, available, stream, events>>

ConnectSucceeds(p) ==
    /\ pc[p] = "connect"
    /\ socket' = TRUE
    /\ connected' = TRUE
    /\ main' = None
    /\ Goto(p, "cb_connected")
    /\ UNCHANGED <<ret, select, running, error, handle, settings, available, stream, events>>

DelayOver(p) ==
    /\ pc[p] = "delay"
    /\ Goto(p, "connect_lock")
    /\ UNCHANGED <<ret, locks, flags, handle, settings, socket, available, stream, events>>

\* Seeded fault: the error flag is not looked at.
CheckBlind(p) ==
    /\ pc[p] = "check"
    /\ Goto(p, "select_lock")
    /\ UNCHANGED <<ret, locks, flags, handle, settings, socket, available, stream, events>>

\* The head of the yield loop: the error flag is read outside the mutexes.
Check(p) ==
    /\ pc[p] = "check"
    /\ Goto(p, IF error THEN "exit_lock" ELSE "select_lock")
    /\ UNCHANGED <<ret, locks, flags, handle, settings, socket, available, stream, events>>

SelectFails(p) ==
    /\ pc[p] = "select"
    /\ select' = None
    /\ Goto(p, "exit_lock")
    /\ UNCHANGED <<ret, main, flags, handle, settings, socket, available, stream, events>>

\* select() sees the data that is there, acknowledgements that another task is
\* about to read, or times out.
SelectReturns(p) ==
    /\ pc[p] = "select"
    /\ \E a \in BOOLEAN :
          /\ wire # <<>> => a
          /\ available' = [available EXCEPT ![p] = a]
    /\ select' = None
    /\ Goto(p, "work_lock")
    /\ UNCHANGED <<ret, main, flags, handle, settings, socket, stream, events>>

\* The peek, the yield or the keep-alive reports an error.
WorkFails(p) ==
    /\ pc[p] = "work"
    /\ available' = [available EXCEPT ![p] = FALSE]
    /\ main' = None
    /\ Goto(p, "exit_lock")
    /\ UNCHANGED <<ret, select, flags, handle, settings, socket, stream, events>>

\* Seeded fault: the loop does not dispatch what it has received.
WorkDoneQuiet(p) ==
    /\ pc[p] = "work"
    /\ available' = [available EXCEPT ![p] = FALSE]
    /\ main' = None
    /\ Goto(p, "check")
    /\ UNCHANGED <<ret, select, flags, handle, settings, socket, stream, events>>

WorkDone(p) ==
    /\ pc[p] = "work"
    /\ available' = [available EXCEPT ![p] = FALSE]
    /\ main' = None
    /\ Goto(p, "dispatch")
    /\ ret' = [ret EXCEPT ![p] = "check"]
    /\ UNCHANGED <<select, flags, handle, settings, socket, stream, events>>

\* Seeded faults: a flag is forgotten; the callback is forgotten.
ResetFlagsNotRunning == connected' = FALSE /\ error' = FALSE /\ UNCHANGED running
ResetFlagsNotConnected == running' = FALSE /\ error' = FALSE /\ UNCHANGED connected
AfterExitSilent == "delete"

\* The DISCONNECTED callback comes once the mutex is given back.
AfterExit == "cb_disconnected"

\* Every flag is reset before the mutex is given back.
ResetFlags == connected' = FALSE /\ running' = FALSE /\ error' = FALSE

\* The exit section: close the socket, reset the flags, then the callback.
Exit(p) ==
    /\ pc[p] = "exit"
    /\ socket' = FALSE
    /\ wire' = <<>>
    /\ ResetFlags
    /\ main' = None
    /\ Goto(p, AfterExit)
    /\ UNCHANGED <<ret, select, handle, settings, available, arrived, events>>

\* vTaskDelete(NULL)
Delete(p) ==
    /\ pc[p] = "delete"
    /\ Goto(p, "none")
    /\ UNCHANGED <<ret, locks, flags, handle, settings, socket, available, stream, events>>

-----------------------------------------------------------------------------
(***************************************************************************)
(* esp_mqtt_stop.                                                          *)
(***************************************************************************)
StopNothing(t) ==
    /\ pc[t] = "stop"
    /\ ~running
    /\ main' = None /\ select' = None
    /\ Return(t)
    /\ UNCHANGED <<flags, handle, settings, socket, available, stream, events>>

\* Say DISCONNECT if connected (its result is only logged), close the socket.
StopDisconnects(t) ==
    /\ pc[t] = "stop"
    /\ running
    /\ connected' = FALSE
    /\ socket' = FALSE
    /\ wire' = <<>>
    /\ Goto(t, "stop_kill")
    /\ UNCHANGED <<ret, locks, running, error, handle, settings, available, arrived, events>>

\* vTaskDelete(NULL) deletes the calling task.
Victim(t) == IF handle = None THEN t ELSE handle

\* The process disappears wherever it is, with the event it had in hand.  A
\* task that deletes itself goes no further, its mutexes stay taken.
StopKills(t) ==
    /\ pc[t] = "stop_kill"
    /\ LET v == Victim(t) IN
        /\ pc' = [u \in Tasks |-> IF u = v THEN "none"
                                  ELSE IF u = t THEN "stop_end" ELSE pc[u]]
        /\ ret' = [ret EXCEPT ![v] = "idle"]
        /\ hand' = [hand EXCEPT ![v] = 0]
        /\ available' = [p \in Proc |-> p # v /\ available[p]]
    /\ UNCHANGED <<locks, flags, handle, settings, socket, stream, queue>>

StopEnds(t) ==
    /\ pc[t] = "stop_end"
    /\ running' = FALSE
    /\ main' = None /\ select' = None
    /\ Return(t)
    /\ UNCHANGED <<connected, error, handle, settings, socket, available, stream, events>>

-----------------------------------------------------------------------------
\* What a task does without being asked: once it has a step, it takes it.
ApiStep(t) ==
    \/ Lwt(t) \/ StartAgain(t) \/ Start(t)
    \/ CommandRejected(t) \/ CommandFails(t) \/ CommandSucceeds(t)
    \/ TakeEvent(t) \/ DeliverEvent(t) \/ DispatchDone(t)
    \/ StopNothing(t) \/ StopDisconnects(t) \/ StopKills(t) \/ StopEnds(t)

CallbackStep(p) == CallbackReturns(p) \/ \E f \in Functions : CallbackCalls(p, f)

ProcessStep(p) ==
    \/ ConnectFails(p) \/ ConnectSucceeds(p) \/ DelayOver(p) \/ CallbackStep(p)
    \/ Check(p) \/ SelectFails(p) \/ SelectReturns(p)
    \/ WorkFails(p) \/ WorkDone(p) \/ Exit(p) \/ Delete(p)

Next ==
    \/ \E t \in App, f \in Functions : Call(t, f)
    \/ \E t \in Tasks : LockMain(t) \/ LockSelect(t) \/ ApiStep(t) \/ ReceiveMessage(t)
    \/ \E p \in Proc : ProcessStep(p)
    \/ BrokerSends

Spec == Init /\ [][Next]_vars

(***************************************************************************)
(* Every task that can run runs: lwmqtt and lwIP calls return within their *)
(* timeouts, callbacks return.  A mutex is granted to a waiter that finds  *)
(* it free again and again: xSemaphoreGive readies the longest waiter of   *)
(* the highest priority, and the callers pause between their calls.        *)
(***************************************************************************)
Fairness ==
    /\ \A t \in Tasks : /\ WF_vars(ApiStep(t))
                        /\ SF_vars(LockMain(t))
                        /\ SF_vars(LockSelect(t))
    /\ \A p \in Proc : WF_vars(ProcessStep(p))

FairSpec == Spec /\ Fairness
-----------------------------------------------------------------------------
(***************************************************************************)
(* Properties.                                                             *)
(***************************************************************************)
Messages == 1..MaxMessages

\* Every variable keeps its type; the event queue never exceeds its size.
TypeOK ==
    /\ pc \in [Tasks -> Labels]
    /\ ret \in [Tasks -> Returns]
    /\ main \in Tasks \cup {None} /\ select \in Tasks \cup {None}
    /\ running \in BOOLEAN /\ connected \in BOOLEAN /\ error \in BOOLEAN
    /\ handle \in Proc \cup {None}
    /\ config \in Settings \cup {None} /\ lwt \in Settings \cup {None}
    /\ socket \in BOOLEAN
    /\ available \in [Proc -> BOOLEAN]
    /\ wire \in Seq(Messages) /\ arrived \in 0..MaxMessages
    /\ queue \in Seq(Messages) /\ Len(queue) <= EventQueueSize
    /\ hand \in [Tasks -> 0..MaxMessages]

\* A mutex is owned by exactly the task that stands in its critical section.
\* In particular no task is deleted while it owns one (esp_mqtt_stop takes
\* both mutexes before vTaskDelete), and a task blocked on a second mutex
\* still owns the first.
LocksMatch == \A t \in Tasks : /\ main = t <=> pc[t] \in MainHeld
                               /\ select = t <=> pc[t] \in SelectHeld

\* There is at most one process in its connection or yield loop, it is the one
\* esp_mqtt_task names and esp_mqtt_running is set: stop, an error exit and a
\* concurrent start never leave two processes on the one client.
SingleSession == \A p \in Proc : Active(p) => running /\ handle = p

\* esp_mqtt_running is never set without a process to reset it, except between
\* the deletion of the process and the end of esp_mqtt_stop.  After a start "the
\* background process will attempt to connect" (esp_mqtt.h:50): it exists.
RunningHasProcess ==
    running => \/ handle \in Proc /\ Active(handle)
               \/ \E t \in Tasks : pc[t] = "stop_end"

\* Commands pass their check only while the process that connected is in its
\* yield loop.
ConnectedHasProcess ==
    connected => /\ running
                 /\ handle \in Proc
                 /\ Active(handle) /\ pc[handle] \notin ConnectLabels

\* Whoever selects on, reads or writes the socket finds it open: stop and the
\* error exit close it only when nobody is using it.
SocketInUse ==
    \A t \in Tasks :
        (pc[t] \in {"select", "work"} \/ (pc[t] = "command" /\ connected)) => socket

\* The strengthening that makes the invariants above inductive.  Application
\* tasks always return to "idle"; a process calls stop only from its
\* DISCONNECTED callback, where the session is no longer its own.
CallersReturn ==
    /\ \A t \in App : pc[t] \in {"idle"} \cup CallLabels /\ ret[t] = "idle"
    /\ \A p \in Proc : /\ pc[p] # "idle"
                       /\ pc[p] \in CallLabels => ret[p] \in {"check", "delete"}
                       /\ pc[p] \in StopLabels => ret[p] = "delete"

\* While stop works, the process it is about to delete is there, and not
\* itself; once deleted, no process is left.
StopHasVictim ==
    \A t \in Tasks :
        /\ pc[t] = "stop_kill" => /\ running /\ ~connected
                                  /\ handle \in Proc /\ Active(handle)
        /\ pc[t] = "stop_end" => running /\ ~connected /\ \A p \in Proc : ~Active(p)

\* A process past its connection attempt is connected, unless a stop is about
\* to delete it; the connection has a socket.
SessionConnected ==
    /\ \A p \in Proc : Active(p) /\ pc[p] \notin ConnectLabels =>
          connected \/ \E t \in Tasks : pc[t] = "stop_kill"
    /\ connected => socket

IInv == /\ TypeOK /\ CallersReturn /\ LocksMatch
        /\ SingleSession /\ RunningHasProcess /\ ConnectedHasProcess
        /\ StopHasVictim /\ SessionConnected

\* A message is in one place at a time and in the order of arrival: on the
\* wire after the queue, in the queue after what the tasks have in hand.  So no
\* message is delivered twice, whichever tasks dispatch concurrently.
PipelineOrdered ==
    LET waiting == queue \o wire
    IN /\ \A i, j \in 1..Len(waiting) : i < j => waiting[i] < waiting[j]
       /\ \A t \in Tasks : hand[t] # 0 =>
             /\ \A i \in 1..Len(waiting) : hand[t] < waiting[i]
             /\ \A u \in Tasks \ {t} : hand[u] # hand[t]

In(s, m) == \E i \in 1..Len(s) : s[i] = m

\* An event leaves the queue only into the hands of a task, and a received
\* message is dropped only when the queue is full or the connection ends.
NoSilentLoss ==
    [][\A m \in Messages :
         /\ In(queue, m) => In(queue', m) \/ \E t \in Tasks : hand'[t] = m
         /\ In(wire, m) => \/ In(wire', m) \/ In(queue', m)
                           \/ Len(queue) = EventQueueSize
                           \/ ~connected']_vars

\* The strings a connection attempt reads are not freed or replaced under it:
\* start changes them only when nothing runs, lwt only outside an attempt.
SettingsKept == /\ running => UNCHANGED config
                /\ (\E p \in Proc : pc[p] = "connect") => UNCHANGED lwt
SettingsStable == [][SettingsKept]_vars

\* A connection is established with a clear error flag, so that the session
\* can be used from its CONNECTED callback on (esp_mqtt.h:52-53).
SessionStartsClean == [][~connected /\ connected' => ~error]_vars

\* An error a command has met ends the connection (esp_mqtt.h:95-96): the
\* process leaves its yield loop, or a stop comes first.
FailedSessionEnds == connected /\ error ~> ~connected

\* Every call returns: the locks are always taken in the same order and no
\* owner waits for the process, so nobody waits for ever.
CallsReturn == \A t \in Tasks :
    pc[t] \in CallLabels ~> pc[t] \in {"idle", "check", "delete", "none"}

\* Events do not stay in the queue of a live connection.
EventsDrained == connected /\ queue # <<>> ~> queue = <<>> \/ ~connected

-----------------------------------------------------------------------------
(***************************************************************************)
(* The session of MqttSession, read off the places of the processes: the   *)
(* flags are what the code uses to keep to it.                             *)
(***************************************************************************)
ActiveProcess == handle \in Proc /\ Active(handle)

SessionState == IF ~ActiveProcess THEN "stopped"
                ELSE IF pc[handle] \in ConnectLabels THEN "connecting" ELSE "connected"
AnnounceDue == ActiveProcess /\ pc[handle] = "cb_connected"
StopDue == \E t \in Tasks : pc[t] = "stop_kill"
OwedBy == {p \in Proc : pc[p] = "cb_disconnected"}

Session == INSTANCE MqttSession
             WITH session <- SessionState, stopping <- StopDue,
                  announce <- AnnounceDue, owed <- OwedBy

\* esp_mqtt.c keeps the promises of MqttSession.
ImplementsSession == Session!Spec
\* ... and makes the callbacks it owes.
ImplementsFairSession == Session!FairSpec
=============================================================================

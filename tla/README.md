# Verification of support_esp_mqtt

TLA+ models, TLC runs and TLAPS proofs for this repository: the MQTT session
manager `components/esp-mqtt/esp_mqtt.c`, its port `esp_lwmqtt.c`, the client
`components/esp-mqtt/lwmqtt` with its own port to Unix, the Wi-Fi station
`components/mjd_wifi` and the application in `main` that uses them.

    tlc -workers 2 -config MCEspMqtt_session.cfg MCEspMqtt.tla
    tlapm EspMqttProof.tla

## 1. Inventory

| Part | State | Operations | Interacts with |
|---|---|---|---|
| **esp_mqtt** (`esp_mqtt.c`) | two mutexes, flags `running`, `connected`, `error`, task handle, configuration and last will, event queue, the one `lwmqtt_client_t` | `esp_mqtt_init`, `_lwt`, `_start`, `_subscribe`, `_unsubscribe`, `_publish`, `_stop`; the background process; `message_handler`, `dispatch_events` | any application task (calls), the application's status and message callbacks, lwmqtt (calls under the main mutex), esp_lwmqtt |
| **esp_lwmqtt** (`esp_lwmqtt.c`) and **unix port** (`lwmqtt/src/os/unix.c`) | one socket number, two deadlines | `network_connect`, `_disconnect`, `_select`, `_peek`, `_read`, `_write`; `timer_set`, `timer_get` | lwIP or the kernel, whose descriptors all tasks share; the clock |
| **lwmqtt client** (`client.c`) | last packet id, keep-alive interval and timer, command timer, pending pong, two buffers | `connect`, `subscribe`, `unsubscribe`, `publish`, `disconnect`, `yield`, `keep_alive` over `cycle_until`, `cycle`, `read_packet_in_buffer`, `send_packet_in_buffer` | the network callbacks, the message callback |
| **lwmqtt codec** (`packet.c`, `helpers.c`, `string.c`) | a cursor into a buffer | encode and decode one packet | client |
| **mjd_wifi** | an event group with two bits | `sta_init`, `sta_start`, `sta_disconnect_stop`, `sta_is_connected`, the event handler | Wi-Fi driver, event loop task, main task |
| **main application** | an event group with one bit, counters | start Wi-Fi, start MQTT, wait, publish in a loop, stop both | all of the above |
| mjd utilities, test application, examples | none that is shared | | |

What makes them hard, and what correctness means:

* **esp_mqtt.** Several tasks, two mutexes taken in nested order, flags read
  outside them, a task that another one deletes at any point, callbacks made
  without locks that call back into the module.  Correct means: one process per
  session, nobody left waiting for ever, no mutex lost with a deleted task, the
  socket open whenever somebody uses it, strings stable while a connection
  attempt reads them, status callbacks that match what happened, messages handed
  over once and in order.
* **lwmqtt client.** Answers, messages and pongs arrive interleaved while a
  command waits; any read or write can time out or fail; the clock wraps.  Correct
  means: success is reported only for what the broker has completed, the broker is
  never told of a message the callback did not get, at most one ping is
  outstanding, a yield never starts with nothing to read, a dead peer is noticed
  and a living one never given up for a missing pong.
* **ports.** An attempt can fail after any step; a transfer can return any
  count.  Correct means: no descriptor lost, none closed that is not its own,
  nothing stored outside the buffer, every transfer ends, success means all bytes.
* **codec.** Lengths computed apart from the fields they count, optional fields,
  length boundaries, malformed packets over the remains of earlier ones.  Correct
  means: a packet that is sent is framed exactly, one that is refused does not fit,
  what is decoded is what the packet says and nothing else.
* **mjd_wifi, main.** Sticky event bits that another task sets in two steps and
  nobody clears before waiting, a wait without a timeout.  Correct means: a bit
  tells the truth once the events are handled, a start that reports a connection
  had one, the waits end, everything is taken down in order.

The hazards, each at its line with the properties that cover it, are in
`PROJECT.json`.

## 2. Modules

| Module | What it is |
|---|---|
| `MqttSession` | Abstract: the life of a session as `esp_mqtt.h` promises it, without tasks, locks or flags |
| `EspMqtt` | `esp_mqtt.c`, all of it; states that it implements `MqttSession` |
| `LwmqttClient` | `lwmqtt/src/client.c` on one connection, packet by packet |
| `EspNetwork` | `esp_lwmqtt.c` and `os/unix.c`: the socket among the system's descriptors, and the byte loops of `client.c` that run over it |
| `MqttKeepAlive` | the timers of `esp_lwmqtt.c`, `lwmqtt_keep_alive`, the yield loop that calls it and a task that publishes, against the clock |
| `MqttPacket` | `packet.c` and `helpers.c`: encoders, decoders and the reading of a packet, byte by byte, between the client's two buffers |
| `MjdWifi` | `mjd_wifi.c`: functions, event handler, driver |
| `MqttApp` | `main_task` and its status callback over `MjdWifi` and `MqttSession` |
| `EspMqttProof`, `EspMqttMessageProof`, `LwmqttClientProof`, `EspNetworkProof`, `MqttKeepAliveProof`, `MqttPacketProof`, `MqttAppProof` | Theorems, each about the module it is named after; `MqttAppProof` also about `MjdWifi` |
| `MqttPacketLemmas` | What the operators of `MqttPacket` compute: sums, variable-length numbers, concatenated fields, the writes of an encoder |
| `MC...` | Instances for TLC |

`MqttApp` uses the abstract session: that `EspMqtt` implements it is checked by the
runs `session` and `liveness` and, without fairness, proved.

### EspMqtt

`pc[t]` is the place of task `t` in the code, as fine as other tasks can tell:
waiting for a mutex (`connect_lock`, `command_lock`, `stop_select`, ...), inside a
critical section (`connect`, `select`, `work`, `command`, `stop`, ...), in a
callback (`cb_connected`, `cb_disconnected`), dispatching, asleep.  A call made
from a callback, or the dispatch of the process itself, remembers in `ret[t]`
where the process goes on.  The other variables are the static variables of the
file under their own names without the prefix `esp_mqtt_`.

* `LockMain`, `LockSelect` are `ESP_MQTT_LOCK_MAIN` and `_SELECT`; each critical
  section gives its mutexes back in the action that ends it.
* `Call`, `CallbackCalls`, `CallbackReturns` are the application: a task may call
  any function at any time, a status callback makes at most one call out of
  `ConnectedCalls` or `DisconnectedCalls`.  Message callbacks make no calls.
* `Lwt`, `StartAgain`, `Start`, `CommandRejected`, `CommandFails`,
  `CommandSucceeds`, `StopNothing`, `StopDisconnects`, `StopKills`, `StopEnds` are
  the public functions; subscribe, unsubscribe and publish share one critical
  section.  `StopKills` deletes the process wherever it stands, with the event it
  had in hand; with no handle it deletes the caller, as `vTaskDelete(NULL)` does.
* `ConnectFails` ... `Delete` are the background process.
* `ReceiveMessage` is the message handler, run by whoever is inside an lwmqtt call
  that reads; `TakeEvent`, `DeliverEvent`, `DispatchDone` are `dispatch_events`.

What an lwmqtt or lwIP call inside a critical section does is a choice among its
return codes; the calls themselves are the next modules.

### LwmqttClient

`op` is the call in progress; `Cycle` is one pass of `lwmqtt_cycle` and ends the
call when the packet is the one it waits for (`Needle`) or a yield has read what it
was told of.  The code counts bytes there, the model the packets they begin in: of the
last one the rest may still be to come.  `GiveUp` and `YieldTimesOut` are the ends by
timer between two packets, or by network error, `CutShort` the end in the middle of a
packet (`lwmqtt_read_from_network` returns -4), after which the model closes the
connection instead of reading on out of step.
`CycleFails` is a packet that cannot be decoded or answered, `IssueFails` a command
whose packet does not fit or cannot be written.  The broker is external and
answers in order after any delay.  `succeeded`, `tainted`, `done`, `handled` and
`acked` record history for the properties only.

### EspNetwork

`pc` follows `network_connect` step by step, because between its calls other tasks
open and close sockets; `open` is the descriptor table, `mine` what this object
opened in it, `theirs` what other tasks hold.  `port` says which of the two ports is
built: the device's has one more step (`options`) and closes the socket when a step
fails, keeping its number; the other keeps the socket, for the next attempt to
close.  `Loop` and `Io` are the loop of `lwmqtt_read_from_network` (and `_write_`)
around the port's callback; `moved` is its `size_t`, modulo `Modulus`; `places` are
the buffer positions really moved.  `select` and `peek` change no state.  Descriptor
0, which both ports take for "none", is left out.

### MqttKeepAlive

`now` and `deadline` are ticks that wrap at `Modulus`.  The difference is taken as
a signed number of the same width; the overflow of that subtraction wraps on this
compiler.  Computing takes no time next to a tick, so `Tick` is disabled while a step
is due (`Urgent`), and every wait has its bound.

`pc` is the process: `select`, `lock` (waiting for the main mutex), `yield` (inside
`lwmqtt_yield`, with the mutex in hand), `keep_alive`, `ping` (a PINGREQ that finds no
room), `callback` (CONNECTED, or the dispatch), `exit`.  `Peek` is the FIONREAD under the
mutex; `unread` counts the packets it found begun.  A yield reads them (`YieldReads`)
and, when the last has come only in part (`cut`), waits for its rest up to `Timeout`,
nobody else getting the mutex meanwhile.  Then the rest arrives, or the read ends with
`LWMQTT_NETWORK_TIMEOUT` (-4, `LoopFails`, the exit that the repository's `README.md:34`
shows), or with `EAGAIN` before anything of that part was read, which the byte loop
takes for success (`YieldTimesOut`; the finding of run `partial`).  From then on the
client reads out of step: `framed` is FALSE and any packet may seem to be anything.
`LoopFails` is every error exit of the loop but the missing pong: of select, peek,
yield and the ping's write, with a living peer as with a dead one.

`caller` is a task inside `esp_mqtt_publish`; it reads what comes while it waits for its
reply, so it can take away what select saw.  A process that waits for the mutex gets it
before the task that has just given it back.

The peer and the network are external.  A living peer takes what is written to it at
once, answers in order, and may publish by itself at QoS 0; its packets arrive whole
within `MaxDelay`, in one piece or two.  A dead peer is silent for good; what is written
to it may be swallowed, refused, or block the writer.

### MqttPacket

An encoder is the frame it writes (`ConnectFrame` ... `ZeroFrame`): the header, the
remaining length as the code computes it beforehand, and the fields; `EncodePacket`
writes them with `Put`, which stops at the first that has no room.  `Request` is what
the parameters' types let a caller ask for.  A decoder is an
operator on the whole read buffer that returns an error or the decoded fields, its
conditions in the order of the code's early returns; a cursor is the number of
bytes behind it.  `ReadPacket` is `lwmqtt_read_packet_in_buffer`.  The actions
`Encode`, `Receive`, `ReceiveCut` (the network fails inside a packet), `Decode` and
`Restart` (new buffers) exist because the read buffer is used again and again: each
packet overwrites the start of what the ones before have left.

### MjdWifi and MqttApp

`bits` is the event group, `driver` the station with the `events` it has posted,
`handler` the event whose handling is half done: the handler clears one bit and sets
the other in two calls, and others may read in between.  `place` is where the
function in progress stands.  The driver and the access point are external:
`Joins`, `Drops`.  `client` is either `main_task`, whose steps are the actions from
`InitsWifi` to `Deletes`, or another application that calls `mjd_wifi` in any order.
The status callback is made in the steps of the session that owe it.
`main_task` ignores the results of the Wi-Fi functions and goes on, as the code
does.

## 3. Runs

| Run | Question | Result |
|---|---|---|
| `session` | Do mutexes, flags, process, socket, strings and messages stay consistent, and is this `MqttSession`? | holds |
| `liveness` | Does every call return, every failed session end, every queued event get dispatched, every owed callback come? | holds |
| `stale_error` | Does a new session start without the error of the last one? | violated |
| `commands` | Does what the client reports match what the broker did? | holds |
| `acks` | Does a publish wait for its own acknowledgement? | violated |
| `transport` | No descriptor lost, no byte outside the buffer, every transfer ends? | holds |
| `double_close` | Does the port close only its own socket? | violated |
| `partial` | Does a successful transfer have all its bytes? | violated |
| `codec` | Are frames exact, refusals justified, own packets readable, decoders blind to stale bytes and lossless? | holds |
| `suback` | Does a SUBACK stay inside the caller's array? | violated |
| `keepalive` | Does the timer read true across the wrap? How late can the peer hear from the client, how late is a dead one noticed? Is a living one ever given up for a missing pong, does a yield ever have nothing to read? | holds, with the bounds stated |
| `app` | Do the event bits tell the truth, the waits end, and everything go down in order? | holds |

### Disagreements found

* `stale_error`: `esp_mqtt_stop` leaves `esp_mqtt_error` set (`esp_mqtt.c:547`), so
  a command that failed just before makes the next session end right after its
  CONNECTED callback.
* `acks`: acknowledgements are not matched by packet id (`client.c:548`): a publish
  after a timed-out one can report success on the other's acknowledgement.
* `double_close`: the device's `network_connect` closes a socket and keeps its number
  (`esp_lwmqtt.c:48`, `:61`), which the next attempt closes again.
* `partial`: `EAGAIN` adds -1 to an unsigned counter (`esp_lwmqtt.c:123`, `:146`; the
  Unix port does the same).  With nothing moved so far the counter wraps and the
  transfer reports success.
* `suback`: the bound check of `lwmqtt_decode_suback` (`packet.c:653`) lets one element
  too many through.

Met on the way, without a run of their own:

* The peer may hear from the client later than agreed.  `client.c:360` takes 75 % of the
  interval "to be a little earlier than actually needed", but the timer is only looked
  at once a round: the bound of `WritesInTime` is interval, timeout and callback, with the
  application's 10 s and 2 s thus 9.5 s and whatever its callbacks take, and after the
  rest of a packet was waited for 11.5 s.  A broker allows one and a half times the
  agreed time, so 15 s.
* A packet of which a part is late ends the session of a healthy peer
  (`esp_mqtt.c:257-262`, error -4), without `esp_mqtt_error`.
* `esp_mqtt.h:94` says that after a failed command every interaction fails too.
  Commands look at `esp_mqtt_connected` only, so until the process has seen the error
  flag another command may be tried, and may succeed.
* The result of `xTaskCreatePinnedToCore` (`esp_mqtt.c:411`) is ignored.  With
  `CreateMayFail = TRUE` in the cfg of `session`, `RunningHasProcess` fails; a
  stop that follows deletes its own caller, with both mutexes.  `OnlyCreationBreaksIt`
  (section 4) proves that no other step gets there.
* `HandleStartAborts`: `ESP_ERROR_CHECK` restarts the device when the driver is
  stopped before its start event is handled (`mjd_wifi.c:99`).  An application gets
  there with a start that is satisfied by the bit of a connection whose end has not
  been handled yet, and a stop right after it; `main_task` does not.
* A lost association is never tried again (`mjd_wifi.c:125`), and a session lost
  between `esp_mqtt_start` and the wait of `main_task` for its bit leaves `main_task`
  waiting for ever unless somebody starts another: hence the premise of `AwaitEnds`.
* The session-present flag of a CONNACK is taken from bit 7 (`packet.c:249`) and used
  nowhere; the reserved QoS 3 of a PUBLISH is read as QoS 0 (`packet.c:423`), which
  `PublishLossless` excepts.

### Bounds

* `session`: two application tasks, three process identities, two values of the
  settings, a queue of one and two messages.  Two callers and the process are the
  parties of every race in the code (each critical section involves one mutex or
  the nested pair); the third identity lets two ended processes be on their way out
  while a new one runs.  `RoomToLeave` keeps one identity free, so `Start` never
  blocks.  The queue fills, overflows and is emptied from both sides.  CONNECTED
  callbacks set a last will or issue a command, DISCONNECTED callbacks start or stop.
* `liveness`: one caller, two process identities, a queue of one; no symmetry.
* `commands`: three commands with ids that wrap at 2, one inbound message of any
  QoS, any number of pings, yields and failures; the connection may be closed
  and opened again without limit.
* `transport`: both ports, two descriptors, transfers of up to three bytes, two
  ticks, an 8-valued counter.  Attempts and transfers may repeat without limit.
* `codec`: every subset of will, user name and password; one or two filters; payloads
  that put the remaining length on either side of 127 and the packet on either side
  of the larger write buffer.  The read buffer has seven bytes, enough for a QoS 1
  PUBLISH with a topic of one byte and too few for the next size; two packets per
  start, so that one lies over the remains of another, complete or cut.  Arrivals
  are all short bodies over two byte values under nine headers, and over-long,
  overflowing and unreadable lengths.
* `keepalive`: an agreed interval of 8, so a timer of 6, a timeout of 2, callbacks of 1,
  two packets under way and a clock that wraps at 32: rounds, pings and pongs fall on
  either side of the wrap and of each other.  A packet may take 4 to arrive, longer than
  the timeout (so yields and commands run out of time with a living peer, and bytes are
  read out of step) and shorter than the interval, which `LivePeerKept` needs: with an
  answer that takes longer than the timer the client does give up.  The wrap puts no
  bound on the length of a behaviour: all variables are finite.
* `app`: the access point drops or refuses the station three times, two publishes, two
  process identities.

Deadlock is checked in every run that passes but `app`, where `main_task` deletes
itself at its end and the system may stop.  Each component has a type invariant;
where the list of a run leaves it out (`MqttKeepAlive`, `MjdWifi`) the theorems of
section 4 carry the types they need.

### Fairness

`EspMqtt!Fairness`: weak fairness for each step of a task, since lwmqtt and lwIP
calls return within their timeouts and callbacks return; strong fairness for taking
a mutex, since `xSemaphoreGive` readies the longest waiter of the highest priority
and callers pause between calls.  Nothing makes the application call, the broker
send, or a connection attempt succeed.  `FailedSessionEnds` needs no more: the
select call times out even when no data comes.
`EspNetwork!FairSpec`: time passes while a transfer waits, and lwIP returns.
`MqttSession!FairSpec`, which the `liveness` run shows implemented, asks only that
callbacks that are due are made and that a stop that has begun takes effect.
`MqttKeepAlive` needs none: its bounds on time are invariants, counted by `Tick`.
`MqttApp!AppFairSpec`: tasks run, callbacks are made, waits of ten seconds and more
end once the event loop has caught up; an attempt to connect, made every second,
succeeds if it can again and again.  The network staying up is a premise of
`AwaitEnds`, and nothing else forces it.

## 4. Proofs

Every theorem holds for all values of the constants that the modules' assumptions
admit, and the hypotheses named here.

**EspMqtt**, for any sets of tasks and settings, any queue size and any number of
messages:

* `TypeCorrect` (`TypeOK`), `MessagesOrdered` (`PipelineOrdered`) and `NothingLost`
  (`NoSilentLoss`), without any hypothesis.
* `Inductive` (`IInv`) and from it `Locking`, `OneSession`, `RunningIsReal`,
  `ConnectedIsReal`, `SocketSafe`, `StableSettings` and `Refinement`
  (`Spec => MqttSession!Spec`), under `GoodUse`, no `esp_mqtt_stop` from the CONNECTED
  callback, for the behaviours in which no task creation fails (`TasksCreated`): a safety
  property that holds in those holds in every behaviour until the first creation fails.
  Without these hypotheses they are false: a process that stops itself keeps both
  mutexes, and a task that cannot be created leaves `running` set with nothing behind it.
* `OnlyCreationBreaksIt` says what the second hypothesis leaves out, with failing
  creation allowed: from a state of `IInv` a step leads to `running` without a process
  exactly if it is a start whose creation fails.

`IInv` adds to the stated invariants three parts that make it inductive.
`CallersReturn`: which places a task can be in for which return place, so that a
process inside stop is never the one it deletes.  `StopHasVictim`: between
`StopDisconnects` and `StopKills` the running process is there and nothing is
connected, and between `StopKills` and `StopEnds` no process is active.
`SessionConnected`: a process past its attempt is connected, unless a stop is about
to delete it, and a connection has a socket.  The induction goes conjunct by
conjunct (`CallersStep` ... `SocketStep`), each over the actions that can disturb
it; `TypeOK` comes from its own invariant.

`Refinement` maps the places of the processes to the abstract session: `Quiet` steps
leave `SessionState`, `StopDue`, `AnnounceDue` and `OwedBy` alone and become
stutters, the seven others map to the abstract action of their own.

`PInv`, for the messages, takes `PipelineOrdered` apart (queue, wire, hands) and adds
that no message is newer than the last arrival; `MessageSteps` reduces every action
to one of the few things that can happen to a message.

**LwmqttClient**, for any largest packet id and any number of commands and
messages: `ClientTypes`, `NothingAckedUnheard`, `OnePing`,
`SuccessIsTrue`.

`Basic` types the two directions by what their packets may say: an acknowledgement
on its way stands for a message that was handled.  `Pings`: while a pong is pending
exactly one ping or pong is under way (`Lone`), otherwise none (`Without`).
`Exchange`: as long as every call had its answer, the call in progress has exactly
one request or answer under way, with its own packet id, and an answer that would
end it stands for something the broker has done; that is why matching answers by type
alone is harmless until a call times out, and why `CommandDone` says nothing after.

**EspNetwork**, for either port and any descriptors, lengths, timeouts and counter
width: `NetTypes`, `KeepsSocket` and `StaysInside`, from `NetInv`, which adds that no
socket of the object is open between closing the old and creating the new one, and
that the socket is only asked for missing bytes.

**MqttKeepAlive**, for any durations with `Timeout < Interval`, any number of packets and
any clock that holds twice the longest time measured (the interval, four timeouts and a
callback): `TimerReadsTrue`, `PeerHearsInTime`, `YieldNeverIdle`, `SilenceNoticed`, and,
if packets arrive faster than the timer runs out, `AnswersAreSeen`.

* `TimeInv` says at each place of the process and of the publisher how much time can
  have passed since the last packet was written; with a dead peer a blocked command and
  a blocked ping add a timeout each, which is why the clock has to hold four.
* `NetInv`: packets arrive in order and in time.  `YieldInv`: of the packets a yield has
  yet to read no more have been counted than have begun to arrive, and one has; since
  the peek and the yield share one critical section, no command comes between.
* `PongAwaited`: the pong of a living peer has arrived or has been travelling since the
  last write or longer.  When select saw nothing, there is time left to wait for it; a
  yield reads it if it was there at the peek, and if not, the last write is not older
  than `MaxDelay`, so the timer is still running.  It ends with the framing: bytes read
  out of step may be anything, a pong among them that is then lost.
* `SilenceInv` follows the loop from the peer's death.  As long as the session is not
  `Doomed` (an error, a command that is blocked or will not have its answer), the silence
  is no longer than the time since the last write, or, once a ping without an answer is
  out, than that and one round (`SilenceSinceWrite`).  A doomed session ends after the
  command, and the callback or select it finds the process in.  `NoticeTime` is two
  rounds, a blocked ping, one command and one callback, counted from the last packet of
  the peer that is read and the last publish at QoS 0, which restarts the timer.

**MqttPacket**, for buffers of any size and strings, payloads and numbers of filters
of any length their types admit: `TypeCorrect`, `FrameExactAlways`, `EncodeFitsAlways`,
`OwnReadableAlways`, `FlagsAnnounceAlways`, `FreshOnlyAlways`, `PublishLosslessAlways`,
without any hypothesis.  The invariants are short: `SentInv` (the outcome is that of the
request), `BufInv`, `ArrivedInv` (what arrived is a `Whole` packet and lies at the start
of the buffer) and `ResultInv` (the result was decoded from that buffer).  The work is in
what the operators return.

* `MqttPacketLemmas` characterises the recursive functions behind `Total`, `FlattenSeq`
  and `Write` by functions that satisfy their equations (`Sums`, `Joins`); that those
  exist, and that a set with 0 and with each successor holds all numbers up to N
  (`Induction`), is had from the well-foundedness of the numbers as a statement about
  sets.  From this come `TotalConcat`, `FlattenConcat`, `FlattenLen` and `WriteIs`: a
  sequence of writes succeeds exactly if its bytes fit, and has then written them all.
* `VarnumInverse` and `VarnumShortest`: a number is read back as what was written, and
  written back as the bytes that were read unless they were more than it needs.
* `FrameIs`: the length each frame computes beforehand is that of its fields.  With
  `WriteIs` this is `EncodePacketIs` and `EncodedIs`, from which `FrameExact`, `EncodeFits`
  and `FlagsAnnounce` follow; `AckRead` and `PublishRead` decode what was encoded,
  `PublishFound` and `PublishBack` encode what was decoded.
* `DecodeSame`: two buffers that agree on a whole packet are decoded alike, decoder by
  decoder, since no early return lets a cursor pass the packet's end unnoticed.

`PublishLossless` excepts three packets: an over-long length, the reserved QoS, and the
length 128^4 - 1, which `lwmqtt_read_varnum` reads and `lwmqtt_varnum_length` refuses to
write (`helpers.c:162`).  No run could reach the third; the proof did.

**MjdWifi and MqttApp**, for any number of drops, publishes and processes, and any
order of calls: `NeverBoth`, `BitsTell`, `StartTells`, `DownInOrder`.  `WifiInv` says
that the newest unhandled event about the association, or else the one in the handler,
or else the bit, tells whether the station is joined.

Every safety property of the passing runs is thus proved.  Only model-checked:
liveness and the fair refinement (`FailedSessionEnds`, `CallsReturn`, `EventsDrained`,
`ImplementsFairSession`, `TransferReturns`, `AwaitEnds`, `MainEnds`), which need ENABLED
and are outside the prover's reach, and the five disagreements of section 3.

## 5. Not modelled

* The strings of `string.c`, the 16-bit truncation of a string's length among them,
  and the logging, LED, date and conversion helpers of `mjd`: conversions without
  shared state that no property here tells apart.
* The test application and the examples: the calls they make are among those the
  models' applications make.
* Allocation failures in the message handler, calls that a message callback makes
  (dispatch nested in dispatch), and `esp_mqtt_stop` from the callbacks of a live
  session, which kills its own caller (`GoodUse`).
* Which of the steps of `mjd_wifi_sta_init` failed: any failure leaves the driver unusable.
* What the client makes of the rest of a packet whose reading was cut short by a
  timeout: `LwmqttClient` closes the connection there (`CutShort`), `MqttPacket` has the
  bytes, and `MqttKeepAlive` lets the packets that seem to follow be anything.
* In `MqttKeepAlive`, inbound messages at QoS 1 and 2, whose acknowledgements would restart
  the timer, and a living peer that takes no data for a while.
* The width of `rem_len`, a `uint32_t`: a packet whose length overflows it has more
  bytes than the device can address.  The length that `lwmqtt_varnum_length` returns,
  wrong for 2097151 (`helpers.c:162`), is not used by its callers.

## 6. Order of work, and what could follow

The modules were written from the centre outwards: `MqttSession` and `EspMqtt`, then the
client, the network and the codec under it, then time, Wi-Fi and the application.
What could follow: calls from message callbacks in `EspMqtt`; `LwmqttClient` over
`MqttPacket` for packets cut short; proofs of the steps that the liveness properties rest
on, such as which action a waiting task can always take.

------------------------------- MODULE MjdWifi -------------------------------
(***************************************************************************)
(* The Wi-Fi station of components/mjd_wifi/mjd_wifi.c: functions that ask *)
(* the driver and then wait for a bit of an event group, and the handler,  *)
(* in the event loop task, that turns the driver's events into these bits. *)
(*                                                                         *)
(* The driver and the access point are external: the driver posts an event *)
(* with each change, the handler sees it later.  Bits are sticky: nobody   *)
(* clears them before a wait, so that a wait can be satisfied by the past. *)
(***************************************************************************)
EXTENDS Naturals, Sequences

CONSTANT MaxFlaps    \* bound: times the access point drops or refuses the station
ASSUME WifiAssumption == MaxFlaps \in Nat

VARIABLES
    bits,      \* wifi_event_group: subset of WIFI_CONNECTED_BIT and WIFI_DISCONNECTED_BIT
    driver,    \* "off", "stopped", "idle" (started), "joining" or "joined"
    events,    \* posted and not yet handled
    handler,   \* "ready", or the event whose bit is still to be set
    place,     \* where the function in progress stands, "idle" when there is none
    call,      \* that function, or the last one: "none", "init", "start" or "stop"
    attempt,   \* which esp_wifi_start of sta_start it is
    result,    \* what the last function returned
    linked,    \* the station was joined during the call, or its events not yet handled
    flaps

caller == <<place, call, attempt, result, linked>>
station == <<driver, events>>
wifiVars == <<bits, station, handler, caller, flaps>>

Started == {"idle", "joining", "joined"}
Bits == {"connected", "disconnected"}
\* The event loop task has caught up with the driver.
Settled == events = <<>> /\ handler = "ready"

WifiInit ==
    /\ bits = {} /\ driver = "off" /\ events = <<>> /\ handler = "ready"
    /\ place = "idle" /\ call = "none" /\ attempt = 0 /\ result = "none"
    /\ linked = FALSE /\ flaps = 0

\* The function in progress returns.
Returns(r) == place' = "idle" /\ result' = r /\ attempt' = 0
Goes(p) == place' = p /\ UNCHANGED <<attempt, result>>

-----------------------------------------------------------------------------
(***************************************************************************)
(* The driver and the access point (external).                             *)
(***************************************************************************)
Post(event) == events' = Append(events, event)

\* esp_wifi_connect succeeds, and DHCP.
Joins ==
    /\ driver = "joining"
    /\ driver' = "joined" /\ linked' = TRUE
    /\ Post("got_ip")
    /\ UNCHANGED <<bits, handler, place, call, attempt, result, flaps>>

\* The access point is not found, refuses the station, or drops it.
Drops ==
    /\ driver \in {"joining", "joined"}
    /\ flaps < MaxFlaps
    /\ flaps' = flaps + 1
    /\ driver' = "idle"
    /\ Post("lost")
    /\ UNCHANGED <<bits, handler, caller>>

\* esp_wifi_disconnect and esp_wifi_stop end an association.
Leave(to) == /\ driver' = to
             /\ IF driver \in {"joining", "joined"} THEN Post("lost") ELSE UNCHANGED events

-----------------------------------------------------------------------------
(***************************************************************************)
(* mjd_wifi_sta_event_handler.                                             *)
(***************************************************************************)
Take == events # <<>> /\ handler = "ready" /\ events' = Tail(events)

\* SYSTEM_EVENT_STA_START: connect, once; a failed or lost association is not
\* tried again before the next start.
HandleStart ==
    /\ Take /\ Head(events) = "start"
    /\ driver # "stopped"
    /\ driver' = IF driver = "idle" THEN "joining" ELSE driver
    /\ UNCHANGED <<bits, handler, caller, flaps>>

\* ESP_ERROR_CHECK: the driver was stopped in the meantime, esp_wifi_connect is
\* an error, and the device restarts.
HandleStartAborts ==
    /\ handler = "ready" /\ events # <<>> /\ Head(events) = "start"
    /\ driver = "stopped"
    /\ driver' = "off" /\ bits' = {} /\ events' = <<>>
    /\ place' = "idle" /\ call' = "none" /\ attempt' = 0 /\ result' = "none"
    /\ linked' = FALSE
    /\ UNCHANGED <<handler, flaps>>

\* Seeded fault: the old bit stays.
OtherBitNone(event) == {}
\* SYSTEM_EVENT_STA_GOT_IP and _DISCONNECTED first clear the other bit ...
OtherBit(event) == IF event = "got_ip" THEN {"disconnected"} ELSE {"connected"}
OwnBit(event) == IF event = "got_ip" THEN "connected" ELSE "disconnected"

HandleClears ==
    /\ Take /\ Head(events) \in {"got_ip", "lost"}
    /\ bits' = bits \ OtherBit(Head(events))
    /\ handler' = Head(events)
    /\ UNCHANGED <<driver, caller, flaps>>

\* The bit a function waits for.
Awaited == IF call = "stop" THEN "disconnected" ELSE "connected"

\* ... and then set their own: xEventGroupSetBits releases who waits for it.
HandleSets ==
    /\ handler # "ready"
    /\ bits' = bits \cup {OwnBit(handler)}
    /\ handler' = "ready"
    /\ IF place = "wait" /\ Awaited = OwnBit(handler)
       THEN Returns("ok") ELSE UNCHANGED <<place, attempt, result>>
    /\ UNCHANGED <<station, call, linked, flaps>>

-----------------------------------------------------------------------------
(***************************************************************************)
(* The functions.  mjd_wifi_sta_init is called once; a step of it that     *)
(* fails leaves the driver unusable.                                       *)
(***************************************************************************)
Begin(f) == /\ place = "idle"
            /\ call' = f
            /\ linked' = (driver = "joined" \/ ~Settled)

StaInit ==
    /\ Begin("init") /\ call = "none"
    /\ \/ driver' = "stopped" /\ Returns("ok")
       \/ driver' = driver /\ Returns("error")
    /\ UNCHANGED <<bits, events, handler, flaps>>

StaStart ==
    /\ Begin("start") /\ call # "none"
    /\ place' = "driver" /\ attempt' = 1
    /\ UNCHANGED <<bits, station, handler, result, flaps>>

\* esp_wifi_start; for a started driver it is a success without an event.
DriverStarts ==
    /\ place = "driver"
    /\ driver # "off"
    /\ driver' = IF driver = "stopped" THEN "idle" ELSE driver
    /\ IF driver = "stopped" THEN Post("start") ELSE UNCHANGED events
    /\ Goes("enter")
    /\ UNCHANGED <<bits, handler, call, linked, flaps>>

\* esp_wifi_start or esp_wifi_stop returns an error, and the function with it.
DriverFails ==
    /\ place \in {"driver", "halt"}
    /\ Returns("error")
    /\ UNCHANGED <<bits, station, handler, call, linked, flaps>>

\* xEventGroupWaitBits: the bit may be there already.
EnterWait ==
    /\ place = "enter"
    /\ IF Awaited \in bits THEN Returns("ok") ELSE Goes("wait")
    /\ UNCHANGED <<bits, station, handler, call, linked, flaps>>

\* The waits are of 10 and 15 seconds: the event loop has caught up long before.
TimeIsUp == place = "wait" /\ Settled

\* The first attempt of sta_start: stop the driver, wait, and start it again.
FirstTimesOut ==
    /\ TimeIsUp /\ call = "start" /\ attempt = 1
    /\ Goes("halt")
    /\ UNCHANGED <<bits, station, handler, call, linked, flaps>>

DelayOver ==
    /\ place = "delay" /\ Settled
    /\ place' = "driver" /\ attempt' = 2
    /\ UNCHANGED <<bits, station, handler, call, result, linked, flaps>>

\* The second attempt, and the wait of sta_disconnect_stop.
WaitTimesOut ==
    /\ TimeIsUp /\ (call = "start" => attempt = 2)
    /\ Returns("error")
    /\ UNCHANGED <<bits, station, handler, call, linked, flaps>>

\* mjd_wifi_sta_disconnect_stop: esp_wifi_disconnect is an error when the driver
\* is not started; then esp_wifi_stop, and the wait.
StaDisconnectStop ==
    /\ Begin("stop") /\ call # "none"
    /\ IF driver \in Started THEN Leave("idle") /\ Goes("halt")
                             ELSE UNCHANGED station /\ Returns("error")
    /\ UNCHANGED <<bits, handler, flaps>>

\* esp_wifi_stop, in both.
DriverStops ==
    /\ place = "halt"
    /\ Leave("stopped")
    /\ Goes(IF call = "start" THEN "delay" ELSE "enter")
    /\ UNCHANGED <<bits, handler, call, linked, flaps>>

\* mjd_wifi_sta_is_connected
StaIsConnected == call # "none" /\ "connected" \in bits

-----------------------------------------------------------------------------
Handling == HandleStart \/ HandleStartAborts \/ HandleClears \/ HandleSets
Waiting == EnterWait \/ FirstTimesOut \/ DelayOver \/ WaitTimesOut
\* What the component and the driver do without being called.
WifiStep == Handling \/ Waiting \/ DriverStarts \/ DriverFails \/ DriverStops
AccessPoint == Joins \/ Drops
Called == StaInit \/ StaStart \/ StaDisconnectStop

-----------------------------------------------------------------------------
(***************************************************************************)
(* Properties.                                                             *)
(***************************************************************************)
\* Every variable keeps its type.
WifiTypeOK ==
    /\ bits \subseteq Bits
    /\ driver \in Started \cup {"off", "stopped"}
    /\ events \in Seq({"start", "got_ip", "lost"})
    /\ handler \in {"ready", "got_ip", "lost"}
    /\ place \in {"idle", "driver", "enter", "wait", "delay", "halt"}
    /\ call \in {"none", "init", "start", "stop"} /\ attempt \in 0..2
    /\ result \in {"none", "ok", "error"}
    /\ linked \in BOOLEAN /\ flaps \in 0..MaxFlaps

\* Nobody ever reads "connected" and "disconnected" together, though a handler
\* changes one bit after the other (mjd_wifi.c:110-111, :123-124).
BitsExclusive == bits # Bits

\* Once its events are handled, the station's state is in the bits.
BitsSettle == Settled => /\ StaIsConnected <=> driver = "joined"
                         /\ driver = "joined" => "disconnected" \notin bits

\* sta_start reports a connection only if there was one during the call, or on
\* the word of events that the handler had not seen when the call was made: a
\* bit left by an earlier connection does not do.
StartHonest == call = "start" /\ place = "idle" /\ result = "ok" => linked
=============================================================================

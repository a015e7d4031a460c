---------------------------- MODULE MqttAppProof ----------------------------
(***************************************************************************)
(* Theorems about MjdWifi and MqttApp, for any number of times the access  *)
(* point drops the station, any processes and any number of publishes.     *)
(***************************************************************************)
EXTENDS MqttApp, TLAPS

Event == {"start", "got_ip", "lost"}

Types ==
    /\ bits \subseteq Bits
    /\ events \in Seq(Event)
    /\ handler \in {"ready", "got_ip", "lost"}

\* The last of the events i that is no start.
NewestLink(i) == /\ i \in 1..Len(events) /\ events[i] # "start"
                 /\ \A j \in 1..Len(events) : j > i => events[j] = "start"
NoLink == \A i \in 1..Len(events) : events[i] = "start"

\* What the handler has not seen yet, what it is at, or else what it has done,
\* tells whether the station is joined.
NewsTrue == \A i \in 1..Len(events) :
               NewestLink(i) => (driver = "joined" <=> events[i] = "got_ip")
HandlerTrue == NoLink /\ handler # "ready" => (driver = "joined" <=> handler = "got_ip")
BitsTrue == NoLink /\ handler = "ready" => (driver = "joined" <=> "connected" \in bits)

\* The handler has cleared the other bit before it sets its own.
HalfWay == handler # "ready" => bits \cap OtherBit(handler) = {}

\* Before mjd_wifi_sta_init has succeeded nothing happens.
Unborn == /\ driver = "off" => events = <<>> /\ handler = "ready" /\ bits = {}
          /\ call = "none" => driver = "off" /\ place = "idle"

\* A start that no connection has helped has nothing to be satisfied by.
Hopeless == /\ driver # "joined" /\ handler # "got_ip" /\ "connected" \notin bits
            /\ \A i \in 1..Len(events) : events[i] # "got_ip"
NoHelp == call = "start" /\ place # "idle" /\ ~linked => Hopeless

Told == NewsTrue /\ HandlerTrue /\ BitsTrue
WifiInv == Types /\ Told /\ HalfWay /\ Unborn /\ BitsExclusive /\ NoHelp /\ StartHonest

-----------------------------------------------------------------------------
\* An event is posted at the end.
LEMMA PostFacts ==
    ASSUME Types, NEW e \in Event, Post(e)
    PROVE  /\ events' \in Seq(Event) /\ Len(events') = Len(events) + 1
           /\ \A i \in 1..Len(events) : events'[i] = events[i]
           /\ events'[Len(events) + 1] = e
BY DEF Types, Post, Event

\* An event is taken from the front.
LEMMA TailFacts ==
    ASSUME Types, events # <<>>, events' = Tail(events)
    PROVE  /\ events' \in Seq(Event) /\ Len(events) \in Nat \ {0}
           /\ Len(events') = Len(events) - 1
           /\ \A i \in 1..Len(events') : events'[i] = events[i + 1]
           /\ Head(events) = events[1] /\ events[1] \in Event
BY DEF Types, Event

\* Taking the oldest event does not change what the newest one says.
LEMMA TailNews ==
    ASSUME Types, NewsTrue, events # <<>>, events' = Tail(events),
           driver' = "joined" <=> driver = "joined"
    PROVE  NewsTrue'
<1>1. /\ Len(events) \in Nat \ {0} /\ Len(events') = Len(events) - 1
      /\ \A i \in 1..Len(events') : events'[i] = events[i + 1]
  BY TailFacts
<1> SUFFICES ASSUME NEW i \in 1..Len(events'), NewestLink(i)'
             PROVE  driver' = "joined" <=> events'[i] = "got_ip"
  BY DEF NewsTrue
<1>2. i + 1 \in 1..Len(events) /\ events[i + 1] # "start" /\ events'[i] = events[i + 1]
  BY <1>1 DEF NewestLink
<1>3. ASSUME NEW j \in 1..Len(events), j > i + 1 PROVE events[j] = "start"
  <2>1. j - 1 \in 1..Len(events') /\ j - 1 > i
    BY <1>1, <1>3
  <2>2. events'[j - 1] = "start"
    BY <2>1 DEF NewestLink
  <2>3. events'[j - 1] = events[(j - 1) + 1] /\ (j - 1) + 1 = j
    BY <1>1, <2>1
  <2>4. QED
    BY <2>2, <2>3
<1>4. NewestLink(i + 1)
  BY <1>2, <1>3 DEF NewestLink
<1>5. QED
  BY <1>2, <1>4 DEF NewsTrue

\* The news stay true when an association ends or begins and its event is posted.
LEMMA PostTells ==
    ASSUME Types, NEW e \in {"got_ip", "lost"}, Post(e), driver' = "joined" <=> e = "got_ip",
           UNCHANGED <<bits, handler>>
    PROVE  Types' /\ Told'
<1>1. /\ events' \in Seq(Event) /\ Len(events') = Len(events) + 1 /\ Len(events) \in Nat
      /\ events'[Len(events) + 1] = e
  BY PostFacts DEF Event, Types
<1>2. Types'
  BY <1>1 DEF Types
<1>3. \A i \in 1..Len(events') : NewestLink(i)' => i = Len(events) + 1
  BY <1>1 DEF NewestLink
<1>4. ~NoLink'
  BY <1>1 DEF NoLink
<1>5. QED
  BY <1>1, <1>2, <1>3, <1>4 DEF Told, NewsTrue, HandlerTrue, BitsTrue

\* The same, when the driver starts.
LEMMA PostStartTells ==
    ASSUME Types, Told, Post("start"), driver' = "joined" <=> driver = "joined",
           UNCHANGED <<bits, handler>>
    PROVE  Types' /\ Told'
<1>1. /\ events' \in Seq(Event) /\ Len(events') = Len(events) + 1 /\ Len(events) \in Nat
      /\ \A i \in 1..Len(events) : events'[i] = events[i]
      /\ events'[Len(events) + 1] = "start"
  BY PostFacts DEF Event, Types
<1>2. Types'
  BY <1>1 DEF Types
<1>3. \A i \in 1..Len(events') : NewestLink(i)' => NewestLink(i) /\ events'[i] = events[i]
  BY <1>1 DEF NewestLink
<1>4. NoLink' => NoLink
  BY <1>1 DEF NoLink
<1>5. NewsTrue'
  BY <1>1, <1>3 DEF Told, NewsTrue, NewestLink
<1>6. QED
  BY <1>2, <1>4, <1>5 DEF Told, HandlerTrue, BitsTrue

\* Nothing is told when nothing happens.
LEMMA QuietTells ==
    ASSUME Types, Told, driver' = "joined" <=> driver = "joined",
           UNCHANGED <<bits, events, handler>>
    PROVE  Types' /\ Told'
BY DEF Types, Told, NewsTrue, HandlerTrue, BitsTrue, NoLink, NewestLink

\* An association ends on demand.
LEMMA LeaveTells ==
    ASSUME Types, Told, NEW to \in {"idle", "stopped"}, Leave(to), UNCHANGED <<bits, handler>>
    PROVE  /\ Types' /\ Told' /\ driver' = to
           /\ (\A i \in 1..Len(events) : events[i] # "got_ip")
                 => \A i \in 1..Len(events') : events'[i] # "got_ip"
<1>1. CASE driver \in {"joining", "joined"}
  <2>1. Post("lost") /\ driver' = to
    BY <1>1 DEF Leave
  <2>2. Types' /\ Told'
    BY <2>1, PostTells
  <2>3. /\ Len(events') = Len(events) + 1 /\ Len(events) \in Nat
        /\ \A i \in 1..Len(events) : events'[i] = events[i]
        /\ events'[Len(events) + 1] = "lost"
    BY <2>1, PostFacts DEF Event, Types
  <2>4. QED
    BY <2>1, <2>2, <2>3
<1>2. CASE driver \notin {"joining", "joined"}
  BY <1>2, QuietTells DEF Leave
<1>3. QED
  BY <1>1, <1>2

-----------------------------------------------------------------------------
\* The initial state.
LEMMA WifiInvInit == WifiInit => WifiInv
BY DEF WifiInit, WifiInv, Types, Told, NewsTrue, HandlerTrue, BitsTrue, NoLink, NewestLink,
       HalfWay, Unborn, BitsExclusive, Bits, NoHelp, Hopeless, StartHonest

\* The access point takes the station, or drops it.
LEMMA AccessPointKeeps == ASSUME WifiInv, AccessPoint PROVE WifiInv'
<1> USE DEF WifiInv
<1>1. CASE Joins
  <2>1. /\ Post("got_ip") /\ driver = "joining" /\ driver' = "joined" /\ linked' = TRUE
        /\ UNCHANGED <<bits, handler, place, call, attempt, result>>
    BY <1>1 DEF Joins
  <2>2. Types' /\ Told'
    BY <2>1, PostTells
  <2>3. QED
    BY <2>1, <2>2 DEF HalfWay, Unborn, BitsExclusive, NoHelp, StartHonest
<1>2. CASE Drops
  <2>1. /\ Post("lost") /\ driver' = "idle" /\ driver \in {"joining", "joined"}
        /\ UNCHANGED <<bits, handler, place, call, attempt, result, linked>>
    BY <1>2 DEF Drops, caller
  <2>2. Types' /\ Told'
    BY <2>1, PostTells
  <2>3. /\ Len(events') = Len(events) + 1 /\ Len(events) \in Nat
        /\ \A i \in 1..Len(events) : events'[i] = events[i]
        /\ events'[Len(events) + 1] = "lost"
    BY <2>1, PostFacts DEF Event, Types
  <2>4. Hopeless => Hopeless'
    BY <2>1, <2>3 DEF Hopeless
  <2>5. QED
    BY <2>1, <2>2, <2>4 DEF HalfWay, Unborn, BitsExclusive, NoHelp, StartHonest
<1>3. QED
  BY <1>1, <1>2 DEF AccessPoint

\* The handler takes a start.
LEMMA StartHandled == ASSUME WifiInv, HandleStart PROVE WifiInv'
<1> USE DEF WifiInv
<1>1. /\ events # <<>> /\ handler = "ready" /\ events' = Tail(events) /\ Head(events) = "start"
      /\ driver' = "joined" <=> driver = "joined"
      /\ driver' = "off" <=> driver = "off"
      /\ UNCHANGED <<bits, handler, place, call, attempt, result, linked>>
  BY DEF HandleStart, Take, caller
<1>2. /\ events' \in Seq(Event) /\ Len(events) \in Nat \ {0}
      /\ Len(events') = Len(events) - 1
      /\ \A i \in 1..Len(events') : events'[i] = events[i + 1]
      /\ events[1] = "start"
  BY <1>1, TailFacts
<1>4. NoLink' => NoLink
  <2> SUFFICES ASSUME NoLink', NEW i \in 1..Len(events) PROVE events[i] = "start"
    BY DEF NoLink
  <2>1. CASE i = 1
    BY <1>2, <2>1
  <2>2. CASE i # 1
    <3>1. i - 1 \in 1..Len(events') /\ (i - 1) + 1 = i
      BY <1>2, <2>2
    <3>2. QED
      BY <1>2, <3>1 DEF NoLink
  <2>3. QED
    BY <2>1, <2>2
<1>5. NewsTrue'
  BY <1>1, TailNews DEF Told
<1>6. Told' /\ Types'
  BY <1>1, <1>2, <1>4, <1>5 DEF Told, HandlerTrue, BitsTrue, Types
<1>7. Hopeless => Hopeless'
  BY <1>1, <1>2 DEF Hopeless
<1>8. QED
  BY <1>1, <1>6, <1>7 DEF HalfWay, Unborn, BitsExclusive, NoHelp, StartHonest

\* The handler takes the news and clears the other bit.
LEMMA NewsHandled == ASSUME WifiInv, HandleClears PROVE WifiInv'
<1> USE DEF WifiInv
<1>1. /\ events # <<>> /\ handler = "ready" /\ events' = Tail(events)
      /\ Head(events) \in {"got_ip", "lost"}
      /\ bits' = bits \ OtherBit(Head(events)) /\ handler' = Head(events)
      /\ UNCHANGED <<driver, place, call, attempt, result, linked>>
  BY DEF HandleClears, Take, caller
<1>2. /\ events' \in Seq(Event) /\ Len(events) \in Nat \ {0}
      /\ Len(events') = Len(events) - 1
      /\ \A i \in 1..Len(events') : events'[i] = events[i + 1]
      /\ handler' = events[1] /\ events[1] \in {"got_ip", "lost"}
  BY <1>1, TailFacts
<1>4. NewsTrue'
  BY <1>1, TailNews DEF Told
<1>5. HandlerTrue'
  <2> SUFFICES ASSUME NoLink' PROVE driver' = "joined" <=> handler' = "got_ip"
    BY DEF HandlerTrue
  <2>1. \A j \in 1..Len(events) : j > 1 => events[j] = "start"
    <3> SUFFICES ASSUME NEW j \in 1..Len(events), j > 1 PROVE events[j] = "start"
      OBVIOUS
    <3>1. j - 1 \in 1..Len(events') /\ (j - 1) + 1 = j
      BY <1>2
    <3>2. QED
      BY <1>2, <3>1 DEF NoLink
  <2>2. 1 \in 1..Len(events) /\ NewestLink(1)
    BY <1>2, <2>1 DEF NewestLink
  <2>3. QED
    BY <1>1, <1>2, <2>2 DEF Told, NewsTrue
<1>6. Told' /\ Types'
  BY <1>1, <1>2, <1>4, <1>5 DEF Told, BitsTrue, Types
<1>7. HalfWay' /\ BitsExclusive'
  BY <1>1, <1>2 DEF HalfWay, BitsExclusive, OtherBit, Types, Bits
<1>8. Hopeless => Hopeless'
  <2>1. Hopeless => events[1] # "got_ip"
    BY <1>2 DEF Hopeless
  <2>2. QED
    BY <1>1, <1>2, <2>1 DEF Hopeless
<1>9. Unborn'
  BY <1>1 DEF Unborn
<1>10. QED
  BY <1>1, <1>6, <1>7, <1>8, <1>9 DEF NoHelp, StartHonest

\* The handler sets its bit, and a function may return.
LEMMA BitHandled == ASSUME WifiInv, HandleSets PROVE WifiInv'
<1> USE DEF WifiInv
<1>1. /\ handler \in {"got_ip", "lost"} /\ handler' = "ready"
      /\ bits' = bits \cup {OwnBit(handler)}
      /\ UNCHANGED <<driver, events, call, linked>>
      /\ \/ place' = "idle" /\ result' = "ok" /\ place = "wait" /\ Awaited = OwnBit(handler)
         \/ UNCHANGED <<place, result>>
  BY DEF HandleSets, Types, Returns, station
<1>2. BitsExclusive' /\ Types'
  BY <1>1 DEF HalfWay, OtherBit, OwnBit, BitsExclusive, Types, Bits
<1>3. Told'
  BY <1>1 DEF Told, NewsTrue, HandlerTrue, BitsTrue, NoLink, NewestLink, HalfWay, OtherBit,
              OwnBit
<1>4. HalfWay' /\ Unborn'
  BY <1>1 DEF HalfWay, Unborn
<1>5. Hopeless => Hopeless'
  BY <1>1 DEF Hopeless, OwnBit
<1>6. StartHonest'
  BY <1>1 DEF StartHonest, NoHelp, Hopeless, Awaited, OwnBit
<1>7. NoHelp'
  BY <1>1, <1>5 DEF NoHelp
<1>8. QED
  BY <1>2, <1>3, <1>4, <1>6, <1>7

\* The handler restarts the device.
LEMMA AbortHandled == ASSUME WifiInv, HandleStartAborts PROVE WifiInv'
<1>1. /\ driver' = "off" /\ bits' = {} /\ events' = <<>> /\ handler' = "ready"
      /\ place' = "idle" /\ call' = "none"
  BY DEF HandleStartAborts
<1>2. QED
  BY <1>1 DEF WifiInv, Types, Told, NewsTrue, HandlerTrue, BitsTrue, NoLink, NewestLink,
       HalfWay, Unborn, BitsExclusive, Bits, NoHelp, StartHonest

\* The waits of the functions, and esp_wifi_start.
LEMMA FunctionGoesOn == ASSUME WifiInv, Waiting \/ DriverFails PROVE WifiInv'
<1> USE DEF WifiInv
<1>1. /\ UNCHANGED <<bits, driver, events, handler, call, linked>>
      /\ place # "idle"
      /\ \/ place' = "idle" /\ result' = "error"
         \/ place' = "idle" /\ result' = "ok" /\ Awaited \in bits
         \/ place' \in {"wait", "halt", "driver"}
  BY DEF Waiting, DriverFails, EnterWait, FirstTimesOut, DelayOver, WaitTimesOut, TimeIsUp,
         Returns, Goes, station
<1>2. Types' /\ Told'
  BY <1>1, QuietTells
<1>3. NoHelp' /\ StartHonest'
  BY <1>1 DEF NoHelp, Hopeless, StartHonest, Awaited
<1>4. QED
  BY <1>1, <1>2, <1>3 DEF HalfWay, Unborn, BitsExclusive

\* The driver starts.
LEMMA StartKeeps == ASSUME WifiInv, DriverStarts PROVE WifiInv'
<1> USE DEF WifiInv
<1>1. /\ place = "driver" /\ place' = "enter" /\ driver # "off"
      /\ driver' = (IF driver = "stopped" THEN "idle" ELSE driver)
      /\ IF driver = "stopped" THEN Post("start") ELSE UNCHANGED events
      /\ UNCHANGED <<bits, handler, call, linked, result>>
  BY DEF DriverStarts, Goes
<1>2. Types' /\ Told' /\ (Hopeless => Hopeless')
  <2>1. CASE driver = "stopped"
    <3>1. Types' /\ Told'
      BY <1>1, <2>1, PostStartTells
    <3>2. /\ Len(events') = Len(events) + 1 /\ Len(events) \in Nat
          /\ \A i \in 1..Len(events) : events'[i] = events[i]
          /\ events'[Len(events) + 1] = "start"
      BY <1>1, <2>1, PostFacts DEF Event, Types
    <3>3. QED
      BY <1>1, <2>1, <3>1, <3>2 DEF Hopeless
  <2>2. CASE driver # "stopped"
    BY <1>1, <2>2, QuietTells DEF Hopeless
  <2>3. QED
    BY <2>1, <2>2
<1>3. QED
  BY <1>1, <1>2 DEF HalfWay, Unborn, BitsExclusive, NoHelp, StartHonest

\* The driver stops.
LEMMA StopKeeps == ASSUME WifiInv, DriverStops PROVE WifiInv'
<1> USE DEF WifiInv
<1>1. /\ place = "halt" /\ place' \in {"delay", "enter"} /\ Leave("stopped")
      /\ UNCHANGED <<bits, handler, call, linked, result>>
  BY DEF DriverStops, Goes
<1>2. /\ Types' /\ Told' /\ driver' = "stopped"
      /\ (\A i \in 1..Len(events) : events[i] # "got_ip")
            => \A i \in 1..Len(events') : events'[i] # "got_ip"
  BY <1>1, LeaveTells
<1>3. Hopeless => Hopeless'
  BY <1>1, <1>2 DEF Hopeless
<1>4. QED
  BY <1>1, <1>2, <1>3 DEF HalfWay, Unborn, BitsExclusive, NoHelp, StartHonest

\* A function is called.
LEMMA CallKeeps == ASSUME WifiInv, Called PROVE WifiInv'
<1> USE DEF WifiInv
<1>1. CASE StaInit
  <2>1. /\ call = "none" /\ call' = "init" /\ UNCHANGED <<bits, events, handler>>
        /\ driver' \in {"stopped", driver}
    BY <1>1 DEF StaInit, Begin
  <2>2. driver = "off" /\ Types' /\ Told'
    BY <2>1, QuietTells DEF Unborn
  <2>3. QED
    BY <2>1, <2>2 DEF HalfWay, Unborn, BitsExclusive, NoHelp, StartHonest
<1>2. CASE StaStart
  <2>1. /\ call' = "start" /\ place' = "driver"
        /\ linked' = (driver = "joined" \/ ~Settled)
        /\ UNCHANGED <<bits, driver, events, handler>>
    BY <1>2 DEF StaStart, Begin, station
  <2>2. Types' /\ Told'
    BY <2>1, QuietTells
  <2>3. driver # "joined" /\ Settled => Hopeless
    BY DEF Settled, Told, BitsTrue, NoLink, Hopeless
  <2>4. QED
    BY <2>1, <2>2, <2>3 DEF HalfWay, Unborn, BitsExclusive, NoHelp, StartHonest, Hopeless
<1>3. CASE StaDisconnectStop
  <2>1. /\ call' = "stop" /\ UNCHANGED <<bits, handler>>
        /\ (Leave("idle") /\ driver \in Started) \/ UNCHANGED <<driver, events>>
    BY <1>3 DEF StaDisconnectStop, Begin, station
  <2>2. Types' /\ Told' /\ (driver' = "off" => driver = "off" /\ UNCHANGED events)
    <3>1. CASE Leave("idle")
      BY <2>1, <3>1, LeaveTells
    <3>2. CASE UNCHANGED <<driver, events>>
      BY <2>1, <3>2, QuietTells
    <3>3. QED
      BY <2>1, <3>1, <3>2
  <2>3. QED
    BY <2>1, <2>2 DEF HalfWay, Unborn, BitsExclusive, NoHelp, StartHonest
<1>4. QED
  BY <1>1, <1>2, <1>3 DEF Called

\* What the application does is one of these steps, or none of the station's.
LEMMA WifiInvStep == WifiInv /\ [AppNext]_appVars => WifiInv'
<1>1. ASSUME WifiInv, UNCHANGED wifiVars PROVE WifiInv'
  <2>1. UNCHANGED <<bits, driver, events, handler, place, call, result, linked>>
    BY <1>1 DEF wifiVars, station, caller
  <2>2. Types' /\ Told'
    BY <1>1, <2>1, QuietTells DEF WifiInv
  <2>3. QED
    BY <1>1, <2>1, <2>2 DEF WifiInv, HalfWay, Unborn, BitsExclusive, NoHelp, Hopeless,
                            StartHonest
<1>2. ASSUME WifiInv, AppNext
      PROVE  UNCHANGED wifiVars \/ Called \/ WifiStep \/ AccessPoint
  BY <1>2 DEF AppNext, MainStep, InitsWifi, StartsWifi, StartsMqtt, EntersAwait, Publish, LoopEnds,
     StopsMqtt, StopReturns, StopsNothing, ClearsBit, StopsWifi, Deletes, CallbackConnected,
     CallbackDisconnected, Establishes, Loses, OtherCalls, Called
<1>3. WifiInv /\ WifiStep => WifiInv'
  BY StartHandled, NewsHandled, BitHandled, AbortHandled, FunctionGoesOn, StartKeeps, StopKeeps
     DEF WifiStep, Handling
<1>4. QED
  BY <1>1, <1>2, <1>3, CallKeeps, AccessPointKeeps DEF appVars

\* The station's invariant holds whatever the application.
THEOREM WifiInductive == AppSpec => []WifiInv
<1>1. AppInit => WifiInv
  BY WifiInvInit DEF AppInit
<1>2. QED
  BY <1>1, WifiInvStep, PTL DEF AppSpec

\* The two bits of the event group are never set together (mjd_wifi.c:110-124).
THEOREM NeverBoth == AppSpec => []BitsExclusive
<1>1. WifiInv => BitsExclusive
  BY DEF WifiInv
<1>2. QED
  BY WifiInductive, <1>1, PTL

\* When its events are handled, mjd_wifi_sta_is_connected is the station's state.
THEOREM BitsTell == AppSpec => []BitsSettle
<1>1. WifiInv => BitsSettle
  <2> SUFFICES ASSUME WifiInv, Settled
               PROVE  /\ StaIsConnected <=> driver = "joined"
                      /\ driver = "joined" => "disconnected" \notin bits
    BY DEF BitsSettle
  <2>1. driver = "joined" <=> "connected" \in bits
    BY DEF WifiInv, Told, BitsTrue, NoLink, Settled
  <2>2. "connected" \in bits => call # "none" /\ "disconnected" \notin bits
    BY DEF WifiInv, Unborn, BitsExclusive, Bits, Types
  <2>3. QED
    BY <2>1, <2>2 DEF StaIsConnected
<1>2. QED
  BY WifiInductive, <1>1, PTL

\* A bit left from an earlier connection never satisfies mjd_wifi_sta_start.
THEOREM StartTells == AppSpec => []StartHonest
<1>1. WifiInv => StartHonest
  BY DEF WifiInv
<1>2. QED
  BY WifiInductive, <1>1, PTL

-----------------------------------------------------------------------------
\* The session is over from the moment esp_mqtt_stop has returned, and no
\* CONNECTED callback is due for a session that is not up.
DownInv ==
    /\ announce => session = "connected"
    /\ main \in {"clear", "wifi_stop", "wifi_stopping", "deleted"} => session = "stopped"
    /\ main \in {"wifi_stop", "wifi_stopping", "deleted"} => ~connectedBit

\* It is inductive.
LEMMA DownInvStep == DownInv /\ [AppNext]_appVars => DownInv'
<1> SUFFICES ASSUME DownInv, [AppNext]_appVars PROVE DownInv'
  OBVIOUS
<1> USE DEF DownInv
<1>1. CASE MainStep
  BY <1>1 DEF MainStep, InitsWifi, StartsWifi, StartsMqtt, EntersAwait, Publish, LoopEnds,
     StopsMqtt, StopReturns, StopsNothing, ClearsBit, StopsWifi, Deletes, Main, Rest, BitCleared,
     sessionVars, S!Start, S!BeginStop, S!EndStop
<1>2. CASE CallbackConnected
  BY <1>2 DEF CallbackConnected, Woken, S!AnnounceConnected
<1>3. CASE Establishes
  BY <1>3 DEF Establishes, S!Establish, mainVars
<1>4. ASSUME NEW p \in Proc, Loses(p) \/ CallbackDisconnected(p) PROVE DownInv'
  BY <1>4 DEF Loses, CallbackDisconnected, S!Lose, S!AnnounceDisconnected, mainVars
<1>5. CASE UNCHANGED <<mainVars, sessionVars>>
  BY <1>5 DEF mainVars, sessionVars
<1>6. QED
  BY <1>1, <1>2, <1>3, <1>4, <1>5 DEF AppNext, OtherCalls, appVars

\* main_task takes the network down under no session (support_esp_mqtt_main.c:153-158).
THEOREM DownInOrder == AppSpec => []TakenDownInOrder
<1>1. AppInit => DownInv
  BY DEF AppInit, S!Init, DownInv
<1>2. DownInv => TakenDownInOrder
  BY DEF DownInv, TakenDownInOrder
<1>3. QED
  BY <1>1, <1>2, DownInvStep, PTL DEF AppSpec
=============================================================================

------------------------------- MODULE MqttApp -------------------------------
(***************************************************************************)
(* The application of main/support_esp_mqtt_main.c over the Wi-Fi station  *)
(* (MjdWifi, as it is) and the MQTT session (MqttSession, the abstraction  *)
(* that EspMqtt implements): main_task brings both up, publishes, and      *)
(* takes both down; the status callback, in the session's own task, tells  *)
(* it through an event group.                                              *)
(*                                                                         *)
(* mjd_wifi is a component of its own: an application that calls it in any *)
(* order is the other client.                                              *)
(***************************************************************************)
EXTENDS MjdWifi

CONSTANTS
    Proc,          \* identities of the session's process
    Publishes      \* MJD_LOOP_NBR_OF_PUBLISHED_MESSAGES

ASSUME AppAssumption == Publishes \in Nat

VARIABLES
    client,        \* "main_task" or "other"
    main,          \* where main_task stands
    connectedBit,  \* MQTT_CONNECTED_BIT of mqtt_event_group
    published,     \* j, the publishes made
    errors,        \* nbr_of_errors
    session, stopping, announce, owed

S == INSTANCE MqttSession
sessionVars == <<session, stopping, announce, owed>>
mainVars == <<client, main, connectedBit, published, errors>>
appVars == <<wifiVars, mainVars, sessionVars>>

AppInit ==
    /\ WifiInit /\ S!Init
    /\ client \in {"main_task", "other"}
    /\ main = "wifi_init"
    /\ connectedBit = FALSE /\ published = 0 /\ errors = 0

Main(from, to) == client = "main_task" /\ main = from /\ main' = to
Rest == UNCHANGED <<client, connectedBit, published, errors>>

-----------------------------------------------------------------------------
(***************************************************************************)
(* main_task.  The results of the Wi-Fi functions are not looked at.       *)
(***************************************************************************)
InitsWifi == Main("wifi_init", "wifi_start") /\ StaInit /\ Rest /\ UNCHANGED sessionVars

StartsWifi == Main("wifi_start", "mqtt_start") /\ StaStart /\ Rest /\ UNCHANGED sessionVars

StartsMqtt ==
    /\ place = "idle"
    /\ Main("mqtt_start", "await_enter") /\ Rest
    /\ S!Start
    /\ UNCHANGED wifiVars

\* xEventGroupWaitBits(..., portMAX_DELAY)
EntersAwait ==
    /\ Main("await_enter", IF connectedBit THEN "loop" ELSE "await") /\ Rest
    /\ UNCHANGED <<wifiVars, sessionVars>>

\* Seeded fault: a failed publish is made again.
CountedOnSuccess(ok) == /\ published' = IF ok THEN published + 1 ELSE published
                        /\ UNCHANGED errors
\* The loop counts every publish, and the failed ones.
Counted(ok) == /\ published' = published + 1
               /\ errors' = IF ok THEN errors ELSE errors + 1

\* esp_mqtt_publish: true only with a session that is up.
Publish ==
    /\ Main("loop", "loop") /\ published < Publishes
    /\ \E ok \in BOOLEAN :
          /\ ok => session = "connected" /\ ~stopping
          /\ Counted(ok)
    /\ UNCHANGED <<client, connectedBit, wifiVars, sessionVars>>

LoopEnds ==
    /\ published = Publishes
    /\ Main("loop", "mqtt_stop") /\ Rest
    /\ UNCHANGED <<wifiVars, sessionVars>>

\* esp_mqtt_stop, when there is a session.
StopsMqtt ==
    /\ Main("mqtt_stop", "mqtt_stopping") /\ Rest
    /\ S!BeginStop
    /\ UNCHANGED wifiVars

StopReturns ==
    /\ Main("mqtt_stopping", "clear") /\ Rest
    /\ S!EndStop
    /\ UNCHANGED wifiVars

StopsNothing ==
    /\ session = "stopped"
    /\ Main("mqtt_stop", "clear") /\ Rest
    /\ UNCHANGED <<wifiVars, sessionVars>>

\* Seeded fault: the bit is left to the status callback.
BitLeftSet == UNCHANGED connectedBit
\* "You have to do this MANUALLY": a stop makes no DISCONNECTED callback.
BitCleared == connectedBit' = FALSE

ClearsBit ==
    /\ Main("clear", "wifi_stop")
    /\ BitCleared
    /\ UNCHANGED <<client, published, errors, wifiVars, sessionVars>>

StopsWifi ==
    Main("wifi_stop", "wifi_stopping") /\ StaDisconnectStop /\ Rest /\ UNCHANGED sessionVars

\* vTaskDelete(NULL)
Deletes ==
    /\ place = "idle"
    /\ Main("wifi_stopping", "deleted") /\ Rest
    /\ UNCHANGED <<wifiVars, sessionVars>>

MainStep ==
    \/ InitsWifi \/ StartsWifi \/ StartsMqtt \/ EntersAwait
    \/ Publish \/ LoopEnds \/ StopsMqtt \/ StopReturns \/ StopsNothing
    \/ ClearsBit \/ StopsWifi \/ Deletes

-----------------------------------------------------------------------------
(***************************************************************************)
(* mqtt_status_callback, in the steps of the session that make it.         *)
(***************************************************************************)
\* Seeded fault: setting the bit does not wake who waits for it.
WokenNever == main
\* xEventGroupSetBits releases main_task at once, whatever happens to the bit.
Woken == IF main = "await" THEN "loop" ELSE main

CallbackConnected ==
    /\ S!AnnounceConnected
    /\ connectedBit' = TRUE
    /\ main' = Woken
    /\ UNCHANGED <<client, published, errors, wifiVars>>

CallbackDisconnected(p) ==
    /\ S!AnnounceDisconnected(p)
    /\ connectedBit' = FALSE
    /\ UNCHANGED <<client, main, published, errors, wifiVars>>

\* A connection attempt needs the network, and a broker that accepts.
Establishes == driver = "joined" /\ S!Establish /\ UNCHANGED <<wifiVars, mainVars>>

Loses(p) == S!Lose(p) /\ UNCHANGED <<wifiVars, mainVars>>

-----------------------------------------------------------------------------
OtherCalls == client = "other" /\ Called /\ UNCHANGED <<mainVars, sessionVars>>

AppNext ==
    \/ MainStep \/ OtherCalls
    \/ CallbackConnected \/ Establishes
    \/ \E p \in Proc : Loses(p) \/ CallbackDisconnected(p)
    \/ (WifiStep \/ AccessPoint) /\ UNCHANGED <<mainVars, sessionVars>>

AppSpec == AppInit /\ [][AppNext]_appVars

(***************************************************************************)
(* Tasks run: main_task, the event loop, the callbacks (which EspMqtt is   *)
(* shown to make); waits time out.  A connection attempt, repeated every   *)
(* second, succeeds if it can again and again.  The access point, other    *)
(* applications and the loss of a session are not forced.                  *)
(***************************************************************************)
AppFairSpec ==
    /\ AppSpec
    /\ WF_appVars(MainStep)
    /\ WF_appVars(WifiStep /\ UNCHANGED <<mainVars, sessionVars>>)
    /\ WF_appVars(CallbackConnected)
    /\ \A p \in Proc : WF_appVars(CallbackDisconnected(p))
    /\ SF_appVars(Establishes)

-----------------------------------------------------------------------------
(***************************************************************************)
(* Properties.                                                             *)
(***************************************************************************)
\* The network is taken down only under a session that has ended, and with the
\* bit that stands for it clear, for the next one to set.
TakenDownInOrder ==
    main \in {"wifi_stop", "wifi_stopping", "deleted"} => session = "stopped" /\ ~connectedBit

\* The wait without a timeout ends if the network stays up and the session is
\* still to be established (support_esp_mqtt_main.c:122).
AwaitEnds == <>[](driver = "joined")
                => (main = "await" /\ session = "connecting" ~> main # "await")

\* Past that wait main_task reaches its end, whatever becomes of the session, the
\* network and the publishes.
MainEnds == main = "loop" ~> main = "deleted"
=============================================================================

----------------------------- MODULE MqttSession -----------------------------
(***************************************************************************)
(* What esp_mqtt.h promises of the life of a session, without tasks, locks *)
(* or flags: there is one session at a time, start brings it up only from  *)
(* stopped, an established session is announced once by the CONNECTED      *)
(* callback, a lost one by exactly one DISCONNECTED callback, a stopped    *)
(* one silently.  A loss may be announced after the next start: the code   *)
(* makes the callback when its locks are released.                         *)
(***************************************************************************)
CONSTANT Proc    \* identities of the background process

VARIABLES
    session,     \* "stopped", "connecting" or "connected"
    stopping,    \* a stop has begun and the session is about to end silently
    announce,    \* the CONNECTED callback of this session is still to come
    owed         \* processes whose DISCONNECTED callback is still to come

sessionVars == <<session, stopping, announce, owed>>

Init == /\ session = "stopped"
        /\ stopping = FALSE
        /\ announce = FALSE
        /\ owed = {}

Start == /\ session = "stopped"
         /\ session' = "connecting"
         /\ UNCHANGED <<stopping, announce, owed>>

Establish == /\ session = "connecting"
             /\ ~stopping
             /\ session' = "connected"
             /\ announce' = TRUE
             /\ UNCHANGED <<stopping, owed>>

AnnounceConnected == /\ announce
                     /\ announce' = FALSE
                     /\ UNCHANGED <<session, stopping, owed>>

\* An error ends the session, never before its CONNECTED callback was made.
Lose(p) == /\ session = "connected"
           /\ ~announce
           /\ ~stopping
           /\ p \notin owed
           /\ session' = "stopped"
           /\ owed' = owed \cup {p}
           /\ UNCHANGED <<stopping, announce>>

AnnounceDisconnected(p) == /\ p \in owed
                           /\ owed' = owed \ {p}
                           /\ UNCHANGED <<session, stopping, announce>>

\* From here on nothing else can establish or lose the session.
BeginStop == /\ session # "stopped"
             /\ ~stopping
             /\ stopping' = TRUE
             /\ UNCHANGED <<session, announce, owed>>

EndStop == /\ stopping
           /\ stopping' = FALSE
           /\ session' = "stopped"
           /\ announce' = FALSE
           /\ UNCHANGED owed

Next == \/ Start \/ Establish \/ AnnounceConnected \/ BeginStop \/ EndStop
        \/ \E p \in Proc : Lose(p) \/ AnnounceDisconnected(p)

Spec == Init /\ [][Next]_sessionVars

\* Callbacks that are due are made, and a stop that has begun takes effect.
FairSpec == /\ Spec
            /\ WF_sessionVars(AnnounceConnected)
            /\ WF_sessionVars(EndStop)
            /\ \A p \in Proc : WF_sessionVars(AnnounceDisconnected(p))
=============================================================================

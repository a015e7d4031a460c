--------------------------- MODULE MCLwmqttClient ---------------------------
(***************************************************************************)
(* Instances of LwmqttClient for TLC: the cfg files give the bounds.       *)
(***************************************************************************)
EXTENDS LwmqttClient
=============================================================================

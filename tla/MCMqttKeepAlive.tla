--------------------------- MODULE MCMqttKeepAlive ---------------------------
(***************************************************************************)
(* Instances of MqttKeepAlive for TLC: the cfg files give the bounds.      *)
(***************************************************************************)
EXTENDS MqttKeepAlive
=============================================================================

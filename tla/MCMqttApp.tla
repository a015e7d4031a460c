------------------------------ MODULE MCMqttApp ------------------------------
(***************************************************************************)
(* Instances of MqttApp for TLC: the cfg files give the bounds.            *)
(***************************************************************************)
EXTENDS MqttApp
=============================================================================

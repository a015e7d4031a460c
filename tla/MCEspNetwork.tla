---------------------------- MODULE MCEspNetwork ----------------------------
(***************************************************************************)
(* Instances of EspNetwork for TLC: the cfg files give the bounds.         *)
(***************************************************************************)
EXTENDS EspNetwork
=============================================================================

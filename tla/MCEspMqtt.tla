------------------------------ MODULE MCEspMqtt ------------------------------
(***************************************************************************)
(* Instances of EspMqtt for TLC.                                           *)
(***************************************************************************)
EXTENDS EspMqtt, TLC

\* Tasks are interchangeable, and so are the values of the settings.
Symmetry == Permutations(App) \cup Permutations(Proc) \cup Permutations(Settings)
=============================================================================

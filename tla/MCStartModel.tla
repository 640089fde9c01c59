---------------------------- MODULE MCStartModel ----------------------------
(* StartModel for TLC: the values are in the configurations. *)
EXTENDS StartModel
=============================================================================

--------------------------- MODULE MCMqttPublisher ---------------------------
(* MqttPublisher for TLC: two buffers, two topics, two verdicts. *)
EXTENDS MqttPublisher, TLC

Symmetry == Permutations(Verdicts)
=============================================================================

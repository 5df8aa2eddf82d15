-------------------------- MODULE MCTelemetryChain --------------------------
(* The instances of TelemetryChain that TLC checks. *)
EXTENDS TelemetryChain
=============================================================================

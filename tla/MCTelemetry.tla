---------------------------- MODULE MCTelemetry ----------------------------
(* A daemon and a command.                                                 *)
EXTENDS Telemetry

CONSTANTS daemon, cli, e, u
=============================================================================

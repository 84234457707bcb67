-------------------------- MODULE MCHealthMonitor --------------------------
(* HealthMonitor for TLC, with its constants from the configuration.        *)
EXTENDS HealthMonitor
=============================================================================

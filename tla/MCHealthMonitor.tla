------------------------- MODULE MCHealthMonitor -------------------------
(* HealthMonitor with a critical and another component, one worker, and one *)
(* caller of run_once besides the monitor's task.                           *)
EXTENDS HealthMonitor
===========================================================================

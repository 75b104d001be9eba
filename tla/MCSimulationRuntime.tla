----------------------- MODULE MCSimulationRuntime -----------------------
(* SimulationRuntime with two callers, a and b.                            *)
EXTENDS SimulationRuntime
===========================================================================

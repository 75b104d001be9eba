------------------------- MODULE MCRobotRuntime -------------------------
(* RobotRuntime with short modular clocks.                                 *)
EXTENDS RobotRuntime
===========================================================================

------------------------- MODULE MCRobotGateway -------------------------
(* RobotGateway on a short link, which can be jammed, with a sequence that *)
(* soon wraps.                                                             *)
EXTENDS RobotGateway

===========================================================================

------------------------- MODULE MCRuntimeEvents -------------------------
(* RuntimeEvents with one worker and a queue of two.                       *)
EXTENDS RuntimeEvents
===========================================================================

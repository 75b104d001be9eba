-------------------------- MODULE MCMotionPath --------------------------
(* MotionPath with two authorizations and clocks of a few milliseconds.    *)
EXTENDS MotionPath, TLC

Symmetric == Permutations(Authorizations)
===========================================================================

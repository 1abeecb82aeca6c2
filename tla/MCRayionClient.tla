---------------------------- MODULE MCRayionClient ----------------------------
(* The program has no input to choose: TimerLimit stands for its 100000.     *)
EXTENDS RayionClient
=============================================================================

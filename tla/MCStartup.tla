------------------------------ MODULE MCStartup -----------------------------
(* Instances of Startup for TLC: jobs of three and two ranks.         *)
EXTENDS Startup

MCThreeNodes == 0 .. 2
MCTwoNodes == 0 .. 1
=============================================================================

------------------------------- MODULE MCList -------------------------------
(* An instance of List for TLC: four nodes, two of them cached, and two    *)
(* finders of what is in the list.                                         *)
EXTENDS List

CONSTANTS n1, n2, n3, n4, runThread, prober

MCNodes == {n1, n2, n3, n4}
MCCached == <<n1, n2>>
MCFinders == {runThread, prober}
=============================================================================

------------------------------ MODULE MCCache -------------------------------
(* An instance of Cache for TLC: four addresses, so that a removed node    *)
(* may have two subtrees, and its right one a left branch of its own.      *)
EXTENDS Cache, TLC

MCAddresses == 1 .. 4
CONSTANTS h1, h2, h3, h4
MCHandles == {h1, h2, h3, h4}
MCSymmetry == Permutations(MCHandles)
=============================================================================

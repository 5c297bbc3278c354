---------------------------- MODULE MCCompletion ----------------------------
(* An instance of Completion for TLC: a request more than there are        *)
(* threads, so that one can be free while each thread uses another.        *)
EXTENDS Completion

CONSTANTS t1, t2, r1, r2, r3

MCThreads == {t1, t2}
MCReqs == {r1, r2, r3}
=============================================================================

----------------------------- MODULE MCNetwork ------------------------------
(* Instances of Network for TLC.                                           *)
EXTENDS Network

Sent(s, d, t, i) == [src |-> s, dst |-> d, tag |-> t, id |-> i]
Asked(n, s, t, m, i) == [at |-> n, source |-> s, tag |-> t, mask |-> m, id |-> i]

(* Node 1 asks for a message by its source alone and for one by its tag    *)
(* alone.                                                                  *)
MCNodes == 0 .. 2
MCMessages == {Sent(0, 1, {}, 1), Sent(2, 1, {1}, 2)}
MCReceives == {Asked(1, 2, {}, {}, 1), Asked(1, AnySource, {}, u32, 2)}
=============================================================================

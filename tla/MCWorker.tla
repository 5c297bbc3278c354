------------------------------ MODULE MCWorker ------------------------------
(* Instances of Worker for TLC: which messages the peers send, and what    *)
(* pooled requests hold from their previous use.                           *)
EXTENDS Worker

Message(c, s, t, n) == [channel |-> c, source |-> s, tag |-> t, n |-> n]

MCSlots == 1 .. Cardinality(Messages)
MCAllTags == {Tags}
MCTagOne == {{1}}

(* Channel 0 is the one the warm-up of clh_init uses, with tag 0; a pool   *)
(* also gives out requests the warm-up did not use.                        *)
MCWarm == {[channel |-> 0, source |-> NodeId, tag |-> 0]}
MCFreshOrWarm == MCWarm \cup {[channel |-> Unset, source |-> NodeId, tag |-> 0]}

MCOneMessage == {Message(0, 1, 0, 1)}
MCOnChannelOne == {Message(1, 1, 0, 1)}
MCTwoChannels == {Message(0, 1, 0, 1), Message(1, 1, 0, 2)}
MCTwoSources == {Message(0, 1, 0, 1), Message(0, 2, 0, 1)}
MCAlikeBehind == {Message(0, 1, 0, 1), Message(0, 1, 1, 2), Message(0, 1, 1, 3)}
MCInOrder == {Message(0, 1, 0, 1), Message(0, 1, 0, 2), Message(0, 2, 1, 1)}

MCSymmetry == Permutations(SendRequests) \cup Permutations(RecvRequests)
                \cup Permutations(ProbeRequests) \cup Permutations(Threads)
=============================================================================

------------------------------- MODULE Mailbox -------------------------------
(***************************************************************************)
(* What the receives and probes of one node promise together, whatever way *)
(* a message takes through UCX, recv_list and the requests: receives wait  *)
(* in the order in which they were called, messages of a source are taken  *)
(* in the order in which they were sent, and each is taken once.           *)
(***************************************************************************)
EXTENDS Naturals, Sequences, FiniteSets, SequencesExt

CONSTANTS
  Requests,     \* the requests that receive
  Messages,     \* the messages sent to this node
  Filters,      \* what a receive or a probe can ask for
  Matches(_, _) \* whether a message passes a filter

VARIABLES
  waiting, \* [req, filter] of the receives without a message, oldest first
  avail    \* the messages no request has taken

vars == <<waiting, avail>>

Init == waiting = <<>> /\ avail = Messages

(* The message a filter selects of each source is the first sent.          *)
First(m, f) ==
  /\ m \in avail /\ Matches(m, f)
  /\ \A other \in Messages :
       (other.source = m.source /\ other.n < m.n /\ Matches(other, f)) => other \notin avail

Receive(r, f) ==
  /\ \A i \in DOMAIN waiting : waiting[i].req # r
  /\ waiting' = Append(waiting, [req |-> r, filter |-> f])
  /\ UNCHANGED avail

(* A message goes to the receive that was called first among those that    *)
(* could take it.                                                          *)
Match(i, m) ==
  /\ avail' = avail \ {m}
  /\ waiting' = RemoveAt(waiting, i)
  /\ First(m, waiting[i].filter)
  /\ \A j \in 1 .. i - 1 : ~Matches(m, waiting[j].filter)

(* A probe takes a message for a receive that follows.                     *)
ProbeAway(m, f) ==
  /\ avail' = avail \ {m}
  /\ First(m, f)
  /\ UNCHANGED waiting

Next ==
  \/ \E r \in Requests, f \in Filters : Receive(r, f)
  \/ \E i \in DOMAIN waiting, m \in avail : Match(i, m)
  \/ \E m \in avail, f \in Filters : ProbeAway(m, f)

Spec == Init /\ [][Next]_vars
=============================================================================

--------------------------- MODULE NetworkProofs ----------------------------
(* Safety of Network for any number of nodes beyond one, any messages and  *)
(* receives of the applications, and any layout of the tag, as long as no  *)
(* main thread goes on without its fence.                                  *)
EXTENDS Network, StartupProofs, ListLemmas, FiniteSetTheorems
-----------------------------------------------------------------------------
(* What encoding, decoding and the masked compare do, for every layout.    *)

(* Which field of a tag a place belongs to.                                *)
LEMMA FieldsApart ==
  /\ CHANNEL_MASK \cap SENDER_ID_MASK = {} /\ CHANNEL_MASK \cap u32 = {}
  /\ SENDER_ID_MASK \cap u32 = {}
  /\ u64 = CHANNEL_MASK \cup SENDER_ID_MASK \cup u32
  BY TagLayout DEF CHANNEL_MASK, SENDER_ID_MASK, u32, u64

(* The parts of a tag made of values that fit are in fields of their own.  *)
LEMMA PartsApart ==
  ASSUME NEW channel, ChannelFits(channel), NEW sender_id, SenderFits(sender_id)
  PROVE  /\ ShiftLeft(channel, CHANNEL_OFFSET) \subseteq CHANNEL_MASK
         /\ ShiftLeft(sender_id, SENDER_ID_OFFSET) \subseteq SENDER_ID_MASK
<1>1. ASSUME NEW i \in u64, i - CHANNEL_OFFSET \in channel  PROVE i \in CHANNEL_MASK
  BY <1>1, TagLayout DEF ChannelFits, CHANNEL_MASK, u64
<1>2. ASSUME NEW i \in u64, i - SENDER_ID_OFFSET \in sender_id  PROVE i \in SENDER_ID_MASK
  BY <1>2, TagLayout DEF SenderFits, SENDER_ID_MASK, u64
<1> QED BY <1>1, <1>2 DEF ShiftLeft

(* A tag that was encoded from values that fit their fields decodes to     *)
(* them: the receiver of a message sees the channel, the rank and the tag  *)
(* of its sender (clh_decode_tag after clh_encode_tag).                    *)
THEOREM DecodeEncode ==
  ASSUME NEW channel, ChannelFits(channel), NEW sender_id, SenderFits(sender_id),
         NEW sender_tag \in SUBSET u32
  PROVE  clh_decode_tag(clh_encode_tag(channel, sender_id, sender_tag)) =
           [channel |-> channel, sender_id |-> sender_id, sender_tag |-> sender_tag]
<1> DEFINE full == clh_encode_tag(channel, sender_id, sender_tag)
<1>1. /\ full \cap CHANNEL_MASK = ShiftLeft(channel, CHANNEL_OFFSET)
      /\ full \cap SENDER_ID_MASK = ShiftLeft(sender_id, SENDER_ID_OFFSET)
      /\ full \cap u32 = sender_tag
  BY PartsApart, FieldsApart DEF clh_encode_tag
<1>2. ShiftRight(ShiftLeft(channel, CHANNEL_OFFSET), CHANNEL_OFFSET) \cap u32 = channel
  <2>1. ASSUME NEW i \in channel
        PROVE  i \in Int /\ i \in u32 /\ i \in u64 /\ i + CHANNEL_OFFSET \in u64
                 /\ (i + CHANNEL_OFFSET) - CHANNEL_OFFSET = i
    BY TagLayout DEF ChannelFits, u32, u64
  <2>2. ASSUME NEW i \in u64 PROVE (i + CHANNEL_OFFSET) - CHANNEL_OFFSET = i
    BY TagLayout DEF u64
  <2> QED BY <2>1, <2>2 DEF ShiftLeft, ShiftRight
<1>3. ShiftRight(ShiftLeft(sender_id, SENDER_ID_OFFSET), SENDER_ID_OFFSET) \cap u32 = sender_id
  <2>1. ASSUME NEW i \in sender_id
        PROVE  i \in Int /\ i \in u32 /\ i \in u64 /\ i + SENDER_ID_OFFSET \in u64
                 /\ (i + SENDER_ID_OFFSET) - SENDER_ID_OFFSET = i
    BY TagLayout DEF SenderFits, u32, u64
  <2>2. ASSUME NEW i \in u64 PROVE (i + SENDER_ID_OFFSET) - SENDER_ID_OFFSET = i
    BY TagLayout DEF u64
  <2> QED BY <2>1, <2>2 DEF ShiftLeft, ShiftRight
<1> QED BY <1>1, <1>2, <1>3 DEF clh_decode_tag

(* Two parts of a tag agree on a field when the values they come from do.  *)
LEMMA ShiftInjective ==
  ASSUME NEW x, NEW y, NEW k \in Nat, NEW w \in Nat, k + w <= TagBits,
         x \subseteq 0 .. w - 1, y \subseteq 0 .. w - 1
  PROVE  ShiftLeft(x, k) = ShiftLeft(y, k) <=> x = y
<1>1. ASSUME NEW i \in 0 .. w - 1  PROVE i + k \in u64 /\ (i + k) - k = i
  BY TagLayout DEF u64
<1>2. ASSUME ShiftLeft(x, k) = ShiftLeft(y, k), NEW i \in 0 .. w - 1  PROVE i \in x <=> i \in y
  BY <1>1, <1>2 DEF ShiftLeft
<1> QED BY <1>2

LEMMA ChannelKept ==
  ASSUME NEW x, ChannelFits(x), NEW y, ChannelFits(y)
  PROVE  ShiftLeft(x, CHANNEL_OFFSET) = ShiftLeft(y, CHANNEL_OFFSET) <=> x = y
<1> DEFINE w == TagBits - CHANNEL_OFFSET
<1>1. w \in Nat /\ CHANNEL_OFFSET \in Nat /\ CHANNEL_OFFSET + w <= TagBits
  BY TagLayout
<1>2. x \subseteq 0 .. w - 1 /\ y \subseteq 0 .. w - 1
  BY DEF ChannelFits
<1> QED BY <1>1, <1>2, ShiftInjective

LEMMA SenderKept ==
  ASSUME NEW x, SenderFits(x), NEW y, SenderFits(y)
  PROVE  ShiftLeft(x, SENDER_ID_OFFSET) = ShiftLeft(y, SENDER_ID_OFFSET) <=> x = y
<1> DEFINE w == CHANNEL_OFFSET - SENDER_ID_OFFSET
<1>1. w \in Nat /\ SENDER_ID_OFFSET \in Nat /\ SENDER_ID_OFFSET + w <= TagBits
  BY TagLayout
<1>2. x \subseteq 0 .. w - 1 /\ y \subseteq 0 .. w - 1
  BY DEF SenderFits
<1> QED BY <1>1, <1>2, ShiftInjective

(* The compare of clh_recv_from and clh_probe_source lets exactly those    *)
(* messages pass whose channel and sender are the ones asked for and whose *)
(* tag agrees on the bits of tag_mask.                                     *)
THEOREM OneSourceCompare ==
  ASSUME NEW channel, ChannelFits(channel), NEW sender_id, SenderFits(sender_id),
         NEW tag \in SUBSET u32, NEW tag_mask \in SUBSET u32,
         NEW channel2, ChannelFits(channel2), NEW sender2, SenderFits(sender2),
         NEW tag2 \in SUBSET u32
  PROVE  Passes(clh_encode_tag(channel2, sender2, tag2), clh_encode_tag(channel, sender_id, tag),
                MaskOneSource(tag_mask))
           <=> channel2 = channel /\ sender2 = sender_id /\ tag2 \cap tag_mask = tag \cap tag_mask
<1> DEFINE C == ShiftLeft(channel, CHANNEL_OFFSET)     C2 == ShiftLeft(channel2, CHANNEL_OFFSET)
           S == ShiftLeft(sender_id, SENDER_ID_OFFSET) S2 == ShiftLeft(sender2, SENDER_ID_OFFSET)
<1>1. C \subseteq CHANNEL_MASK /\ C2 \subseteq CHANNEL_MASK
      /\ S \subseteq SENDER_ID_MASK /\ S2 \subseteq SENDER_ID_MASK
  BY PartsApart
<1>2. C2 = C <=> channel2 = channel
  BY ChannelKept
<1>3. S2 = S <=> sender2 = sender_id
  BY SenderKept
<1>4. /\ (C \cup S \cup tag) \cap MaskOneSource(tag_mask) = C \cup S \cup (tag \cap tag_mask)
      /\ (C2 \cup S2 \cup tag2) \cap MaskOneSource(tag_mask) = C2 \cup S2 \cup (tag2 \cap tag_mask)
  BY <1>1, FieldsApart DEF MaskOneSource
<1>5. C \cup S \cup (tag \cap tag_mask) = C2 \cup S2 \cup (tag2 \cap tag_mask)
        <=> C2 = C /\ S2 = S /\ tag2 \cap tag_mask = tag \cap tag_mask
  BY <1>1, FieldsApart
<1> QED BY <1>2, <1>3, <1>4, <1>5 DEF Passes, clh_encode_tag

(* The compare of clh_recv and clh_probe, which encode rank 0, lets those  *)
(* pass whose channel is the one asked for and whose tag agrees on the     *)
(* bits of tag_mask, whoever sent them.                                    *)
THEOREM AnySourceCompare ==
  ASSUME NEW channel, ChannelFits(channel), NEW tag \in SUBSET u32, NEW tag_mask \in SUBSET u32,
         NEW channel2, ChannelFits(channel2), NEW sender2, SenderFits(sender2),
         NEW tag2 \in SUBSET u32
  PROVE  Passes(clh_encode_tag(channel2, sender2, tag2), clh_encode_tag(channel, {}, tag),
                MaskAnySource(tag_mask))
           <=> channel2 = channel /\ tag2 \cap tag_mask = tag \cap tag_mask
<1> DEFINE C == ShiftLeft(channel, CHANNEL_OFFSET) C2 == ShiftLeft(channel2, CHANNEL_OFFSET)
           S2 == ShiftLeft(sender2, SENDER_ID_OFFSET)
<1>1. C \subseteq CHANNEL_MASK /\ C2 \subseteq CHANNEL_MASK /\ S2 \subseteq SENDER_ID_MASK
  BY PartsApart
<1>2. C2 = C <=> channel2 = channel
  BY ChannelKept
<1>3. ShiftLeft({}, SENDER_ID_OFFSET) = {}
  BY DEF ShiftLeft
<1>4. /\ (C \cup {} \cup tag) \cap MaskAnySource(tag_mask) = C \cup (tag \cap tag_mask)
      /\ (C2 \cup S2 \cup tag2) \cap MaskAnySource(tag_mask) = C2 \cup (tag2 \cap tag_mask)
  BY <1>1, FieldsApart DEF MaskAnySource
<1>5. C \cup (tag \cap tag_mask) = C2 \cup (tag2 \cap tag_mask)
        <=> C2 = C /\ tag2 \cap tag_mask = tag \cap tag_mask
  BY <1>1, FieldsApart
<1> QED BY <1>2, <1>3, <1>4, <1>5 DEF Passes, clh_encode_tag

(* Whatever tag arrives, its decoded channel has no more bits than the     *)
(* field, so that it is an index of recv_list, which has one list for each *)
(* value of the field (CLH_MAX_CHANNELS).                                  *)
THEOREM DecodedChannelFits ==
  ASSUME NEW tag  PROVE ChannelFits(clh_decode_tag(tag).channel)
<1>1. ASSUME NEW i \in u64, i + CHANNEL_OFFSET \in tag \cap CHANNEL_MASK
      PROVE  i \in 0 .. TagBits - CHANNEL_OFFSET - 1
  BY <1>1, TagLayout DEF CHANNEL_MASK, u64
<1> QED BY <1>1 DEF ChannelFits, clh_decode_tag, ShiftRight

(* A channel that does not fit loses its high bits: what is sent on it     *)
(* arrives on another channel.                                             *)
THEOREM WideChannelWraps ==
  ASSUME NEW channel \in SUBSET u32, NEW sender_id, SenderFits(sender_id),
         NEW sender_tag \in SUBSET u32
  PROVE  clh_decode_tag(clh_encode_tag(channel, sender_id, sender_tag)).channel
           = channel \cap (0 .. TagBits - CHANNEL_OFFSET - 1)
<1> DEFINE full == clh_encode_tag(channel, sender_id, sender_tag)
           low == channel \cap (0 .. TagBits - CHANNEL_OFFSET - 1)
<1>1. ShiftLeft(channel, CHANNEL_OFFSET) = ShiftLeft(low, CHANNEL_OFFSET)
  BY TagLayout DEF ShiftLeft, u32, u64
<1>2. full = clh_encode_tag(low, sender_id, sender_tag)
  BY <1>1 DEF clh_encode_tag
<1>3. ChannelFits(low)
  BY DEF ChannelFits
<1> QED BY <1>2, <1>3, DecodeEncode
-----------------------------------------------------------------------------
(* The inductive invariant adds to Startup's where the messages are, and   *)
(* what each phase of the job says of the warm-up's and the applications'. *)

Started == {"loop", "closing", "exited"}
AllEnding == \A n \in Nodes : main[n] \in Ending

TrafficType ==
  /\ sendQ \in [Nodes -> Seq(Messages)] /\ waiting \in [Nodes -> Seq(Receives)]
  /\ wire \in [Nodes -> [Nodes -> Seq(Messages)]]
  /\ got \in [Receives -> Messages \cup {None}]
  /\ called \subseteq Messages \cup Receives
  /\ ended \subseteq called
  /\ waited \subseteq Nodes

(* A message that was sent is in a queue, on its way, or received (or lost *)
(* when endpoints were closed), once.                                      *)
Queued ==
  \A n \in Nodes :
    /\ IsInjective(sendQ[n])
    /\ \A x \in Messages : Contains(sendQ[n], x) => x \in called /\ x.src = n

OnTheWay ==
  \A n, m \in Nodes :
    /\ IsInjective(wire[n][m])
    /\ \A x \in Messages : Contains(wire[n][m], x) =>
         x \in called /\ x.src = n /\ x.dst = m /\ ~Contains(sendQ[n], x)

Held ==
  \A n \in Nodes :
    /\ IsInjective(waiting[n])
    /\ \A r \in Receives : Contains(waiting[n], r) => r \in called /\ r \notin ended /\ r.at = n

Received ==
  \A r \in Receives :
    /\ got[r] # None <=> r \in ended
    /\ got[r] # None =>
         /\ got[r] \in called /\ got[r].dst = r.at /\ Takes(r, got[r])
         /\ ~Contains(sendQ[got[r].src], got[r])
         /\ ~Contains(wire[got[r].src][got[r].dst], got[r])

Placed == Queued /\ OnTheWay /\ Held /\ Received

(* What left its queue, or was received, went through a run thread in its  *)
(* loop.                                                                   *)
Running ==
  /\ \A x \in Messages : x \in called /\ ~Contains(sendQ[x.src], x) =>
       thr[x.src] \in Started \/ AllEnding
  /\ \A r \in Receives : r \in ended => thr[r.at] \in Started \/ AllEnding

(* A node's warm-up is called at one time and over at another; before all  *)
(* warm-ups are over, no application has called anything.                  *)
Phases ==
  /\ \A x \in Messages : x \in called /\ x.id = 0 => x.src \in Posted /\ x.dst \in Peers(x.src)
  /\ \A r \in Receives : r \in called /\ r.id = 0 => r.at \in Posted
  /\ \A n \in Posted : WarmupReceives(n) \subseteq called
  /\ \A n \in Nodes : main[n] \in Met =>
       \A r \in Receives : r \in called /\ r.id = 0 /\ r.at = n => r \in ended
  /\ \A q \in called : q.id # 0 => \A n \in Nodes : main[n] \in Serving

(* Warm-up receives get warm-up messages, and no others do.                *)
Apart == \A r \in Receives : got[r] # None => (got[r].id = 0 <=> r.id = 0)

Patient == \A n \in waited : main[n] \in {"final"} \cup Ending /\ Outstanding(n) = {}

Deaths ==
  \A n \in Nodes :
    /\ main[n] = "done" => thr[n] = "exited"
    /\ thr[n] = "assert" =>
         main[n] \in InInit \/ (main[n] \in {"terminate", "join"} /\ n \notin waited)

NInv ==
  /\ MainsMet /\ IInv /\ TrafficType /\ Placed /\ Running /\ Phases /\ Apart /\ Patient /\ Deaths
USE DEF Early, Connected, Met, Serving, Ending, Started, InInit
-----------------------------------------------------------------------------
(* The two kinds of messages and receives, and what the compare tells.     *)
LEMMA Fields ==
  /\ Messages \subseteq MessageType /\ Receives \subseteq ReceiveType
  /\ None \notin Messages
  /\ \A x \in Messages : x.id = 0 => x = WarmupMessage(x.src, x.dst)
  /\ \A r \in Receives : r.id = 0 => r = WarmupReceive(r.at, r.source) /\ r.source # AnySource
<1>1. \A n, m \in Nodes :
        /\ WarmupMessage(n, m) \in MessageType /\ WarmupReceive(n, m) \in ReceiveType
        /\ WarmupMessage(n, m).src = n /\ WarmupMessage(n, m).dst = m
        /\ WarmupReceive(n, m).at = n /\ WarmupReceive(n, m).source = m
  BY DEF WarmupMessage, WarmupReceive, MessageType, ReceiveType
<1>2. Messages \subseteq MessageType /\ Receives \subseteq ReceiveType
  BY <1>1, AppTypes DEF Messages, Receives
<1>3. \A x \in Messages : x.id = 0 => \E n, m \in Nodes : x = WarmupMessage(n, m)
  BY AppTypes DEF Messages
<1>4. \A r \in Receives : r.id = 0 => \E n, m \in Nodes : r = WarmupReceive(n, m)
  BY AppTypes DEF Receives
<1> QED
  BY <1>1, <1>2, <1>3, <1>4, OwnValues

(* The fields of a warm-up receive.                                        *)
LEMMA WarmupReceiveFields ==
  ASSUME NEW n \in Nodes, NEW m \in Nodes
  PROVE  /\ WarmupReceive(n, m) \in Receives /\ WarmupReceive(n, m).at = n
         /\ WarmupReceive(n, m).source = m /\ WarmupReceive(n, m).id = 0
<1>1. WarmupReceive(n, m) \in Receives
  BY DEF Receives
<1> QED
  BY <1>1 DEF WarmupReceive

(* The applications' messages and receives are among all.                  *)
LEMMA AppInAll == AppMessages \subseteq Messages /\ AppReceives \subseteq Receives
BY DEF Messages, Receives

(* No message is a receive.                                                *)
LEMMA NoneIsBoth == Messages \cap Receives = {}
<1>1. \A x \in MessageType : "src" \in DOMAIN x
  BY DEF MessageType
<1>2. \A r \in ReceiveType : "src" \notin DOMAIN r
  BY DEF ReceiveType
<1> QED
  BY <1>1, <1>2, Fields

(* What the compare of tags says about a message that passes.              *)
LEMMA TakesMeans ==
  ASSUME NEW r \in Receives, NEW x \in Messages, Takes(r, x)
  PROVE  /\ r.source # AnySource => x.src = r.source
         /\ x.tag \cap r.mask = r.tag \cap r.mask
<1>1. /\ x.src \in Nodes /\ x.tag \in SUBSET u32 /\ r.tag \in SUBSET u32 /\ r.mask \in SUBSET u32
      /\ r.source \in Nodes \cup {AnySource}
  BY Fields DEF MessageType, ReceiveType
<1>2. ChannelFits({}) /\ \A n \in Nodes : SenderFits(Bits(n))
  BY RanksFit DEF ChannelFits
<1>3. CASE r.source = AnySource
  BY <1>1, <1>2, <1>3, AnySourceCompare DEF Takes, FullTag
<1>4. CASE r.source # AnySource
  <2>1. Bits(x.src) = Bits(r.source) /\ x.tag \cap r.mask = r.tag \cap r.mask
    BY <1>1, <1>2, <1>4, OneSourceCompare DEF Takes, FullTag
  <2> QED
    BY <1>1, <1>4, <2>1, RanksFit
<1> QED
  BY <1>3, <1>4

(* A node's warm-up is finite, so that it is a sequence.                   *)
LEMMA WarmupFinite ==
  ASSUME NEW n \in Nodes
  PROVE  /\ IsFiniteSet(WarmupSends(n)) /\ WarmupSends(n) \subseteq Messages
         /\ IsFiniteSet(WarmupReceives(n)) /\ WarmupReceives(n) \subseteq Receives
<1>1. IsFiniteSet(Peers(n)) /\ Peers(n) \subseteq Nodes
  BY NodesFinite, FS_Subset DEF Peers
<1>2. [m \in Peers(n) |-> WarmupMessage(n, m)] \in Surjection(Peers(n), WarmupSends(n))
  BY DEF Surjection, WarmupSends
<1>3. [m \in Peers(n) |-> WarmupReceive(n, m)] \in Surjection(Peers(n), WarmupReceives(n))
  BY DEF Surjection, WarmupReceives
<1> QED
  BY <1>1, <1>2, <1>3, FS_Surjection DEF WarmupSends, WarmupReceives, Messages, Receives
-----------------------------------------------------------------------------
(* At first nothing was called.                                            *)
LEMMA NetInitInvariant == NetInit => NInv /\ skipped \in [Nodes -> SUBSET Fences]
<1> SUFFICES ASSUME NetInit PROVE NInv /\ skipped \in [Nodes -> SUBSET Fences]
  OBVIOUS
<1> USE DEF NetInit
<1>1. IInv /\ Posted = {}
  BY InitInvariant DEF Init, Posted
<1>2. \A y : ~Contains(<<>>, y)
  BY DEF Contains
<1>3. IsInjective(<<>>)
  BY DEF IsInjective
<1>4. TrafficType
  BY DEF TrafficType
<1>5. Placed
  BY <1>2, <1>3 DEF Placed, Queued, OnTheWay, Held, Received
<1>6. Running /\ Phases /\ Apart /\ Patient
  BY <1>1 DEF Init, Running, Phases, Apart, Patient
<1>7. Deaths
  BY DEF Init, Deaths
<1>8. MainsMet /\ skipped \in [Nodes -> SUBSET Fences]
  BY DEF Init, MainsMet
<1> QED
  BY <1>1, <1>4, <1>5, <1>6, <1>7, <1>8 DEF NInv

(* When all that the warm-up called has ended, every peer's warm-up has    *)
(* been called and its run thread is in its loop.                          *)
LEMMA WarmupIsOver ==
  ASSUME NInv, NEW n \in Nodes, WarmupEnds(n)
  PROVE  WarmupOver(n)
<1> USE DEF NInv, IInv
<1>1. main[n] = "warming" /\ Alive(n) /\ Outstanding(n) = {} /\ n \in Posted /\ ~AllEnding
  BY DEF WarmupEnds, Posted, AllEnding
<1>2. \A m \in Nodes : thr[m] \in Started \/ AllEnding => thr[m] = "loop"
  BY <1>1 DEF Started, LoopWhileRunning, MainsTogether
<1>3. ASSUME NEW m \in Peers(n)  PROVE Exchanged(n, m)
  <2> DEFINE w == WarmupReceive(n, m)
             x == got[w]
  <2>1. w \in Receives /\ w \in called /\ w.at = n /\ w.source = m /\ w.id = 0 /\ m \in Nodes
    <3>1. m \in Nodes /\ w \in Receives /\ w.at = n /\ w.source = m /\ w.id = 0
      BY WarmupReceiveFields DEF Peers
    <3>2. w \in called
      BY <1>1 DEF Phases, WarmupReceives
    <3> QED
      BY <3>1, <3>2
  <2>2. w \in ended
    BY <1>1, <2>1 DEF Outstanding, Own, OwnReceives
  <2>3. x \in Messages /\ x \in called /\ x.src = m /\ ~Contains(sendQ[m], x) /\ x.id = 0
    <3>1. x # None /\ Takes(w, x) /\ x \in called /\ ~Contains(sendQ[x.src], x)
      BY <2>1, <2>2 DEF Placed, Received
    <3>2. x \in Messages /\ x.id = 0
      BY <2>1, <3>1 DEF TrafficType, Apart
    <3>3. x.src = m
      BY <2>1, <3>1, <3>2, TakesMeans, OwnValues
    <3> QED
      BY <3>1, <3>2, <3>3
  <2>4. thr[n] = "loop"
    BY <1>2, <2>1, <2>2 DEF Running
  <2>5. thr[m] = "loop"
    BY <1>2, <2>1, <2>3 DEF Running
  <2>6. m \in Posted
    BY <2>3 DEF Phases
  <2> QED
    BY <2>4, <2>5, <2>6 DEF Exchanged
<1> QED
  BY <1>1, <1>3 DEF WarmupEnds, WarmupOver

(* A peer is gone only when every node is at its end.                      *)
LEMMA PeerGoneAtEnd ==
  ASSUME NInv, NEW n \in Nodes, PeerGone(n)
  PROVE  AllEnding /\ Outstanding(n) # {}
<1>1. PICK x \in OwnSends(n) \ ended : Closed(x.dst)
  BY DEF PeerGone
<1>2. x.dst \in Nodes
  BY <1>1, Fields DEF OwnSends, MessageType
<1>3. main[x.dst] \in Ending
  BY <1>1, <1>2 DEF NInv, IInv, LoopWhileRunning, Closed
<1> QED
  BY <1>1, <1>2, <1>3 DEF NInv, IInv, MainsTogether, AllEnding, Outstanding, Own

(* Every step is one of Startup, but for the death of a node whose peer is *)
(* gone, and keeps its invariant.                                          *)
LEMMA StepImplements ==
  ASSUME NInv, [NetNext]_netVars
  PROVE  [Next \/ \E n \in Nodes : PeerGone(n)]_vars
<1>1. CASE UNCHANGED netVars
  BY <1>1 DEF netVars
<1>2. ASSUME NEW n \in Nodes, NetRunThread(n)
      PROVE  [Next \/ \E m \in Nodes : PeerGone(m)]_vars
  BY <1>2 DEF NetRunThread, Next, RunThread, StartSend, Leave, Close
<1>3. ASSUME NEW n \in Nodes, NetMainThread(n)
      PROVE  [Next \/ \E m \in Nodes : PeerGone(m)]_vars
  BY <1>3, WarmupIsOver DEF NetMainThread, Next, MainThread, Warmup
<1>4. ASSUME NEW n \in Nodes, Surroundings(n) \/ Finalize(n)
      PROVE  [Next \/ \E m \in Nodes : PeerGone(m)]_vars
  BY <1>4 DEF Surroundings, Finalize, Next
<1>5. CASE FenceComplete
  BY <1>5 DEF Next
<1>6. CASE UNCHANGED vars
  BY <1>6
<1> QED
  BY <1>1, <1>2, <1>3, <1>4, <1>5, <1>6 DEF NetNext, Serve, clh_recv, clh_send, SendEnds

(* Startup's invariant is kept.                                            *)
LEMMA StepStartup ==
  ASSUME SeveralNodes, NInv, [NetNext]_netVars
  PROVE  IInv'
<1>1. CASE [Next]_vars
  BY <1>1, StepInvariant DEF NInv
<1>2. ASSUME NEW n \in Nodes, PeerGone(n)  PROVE IInv'
  <2>1. AllEnding
    BY <1>2, PeerGoneAtEnd
  <2> QED
    BY <1>2, <2>1
       DEF NInv, PeerGone, AllEnding, IInv, TypeOK, SyncTogether, LoopWhileRunning, WarmedTogether,
           MainsTogether
<1> QED
  BY <1>1, <1>2, StepImplements
-----------------------------------------------------------------------------
(* Where the messages are, action by action.                               *)
Where == TrafficType' /\ Placed'

(* A send that is called is queued.                                        *)
LEMMA WhereSend ==
  ASSUME NInv, NEW x \in Messages, clh_send(x)  PROVE Where
<1> USE DEF NInv, Placed, TrafficType
<1>1. x.src \in Nodes /\ x \notin called /\ called' = called \cup {x}
      /\ UNCHANGED <<wire, waiting, got, ended, waited>>
  BY Fields DEF clh_send, MessageType
<1>2. ~Contains(sendQ[x.src], x)
  BY <1>1 DEF Queued
<1> DEFINE s == Append(sendQ[x.src], x)
<1>3. /\ s \in Seq(Messages) /\ IsInjective(s)
      /\ \A y : Contains(s, y) <=> Contains(sendQ[x.src], y) \/ y = x
  BY <1>1, <1>2, AppendContains DEF Queued
<1>4. sendQ' = [sendQ EXCEPT ![x.src] = s]
  BY DEF clh_send
<1> HIDE DEF s
<1>5. TrafficType'
  BY <1>1, <1>3, <1>4
<1>6. Queued' /\ Held'
  BY <1>1, <1>3, <1>4 DEF Queued, Held
<1>7. OnTheWay'
  BY <1>1, <1>3, <1>4 DEF OnTheWay
<1>8. Received'
  BY <1>1, <1>3, <1>4 DEF Received
<1> QED
  BY <1>5, <1>6, <1>7, <1>8 DEF Where

(* A receive that is called waits.                                         *)
LEMMA WhereRecv ==
  ASSUME NInv, NEW r \in Receives, clh_recv(r)  PROVE Where
<1> USE DEF NInv, Placed, TrafficType
<1>1. r.at \in Nodes /\ r \notin called /\ called' = called \cup {r}
      /\ UNCHANGED <<sendQ, wire, got, ended, waited>>
  BY Fields DEF clh_recv, ReceiveType
<1>2. ~Contains(waiting[r.at], r)
  BY <1>1 DEF Held
<1> DEFINE s == Append(waiting[r.at], r)
<1>3. /\ s \in Seq(Receives) /\ IsInjective(s)
      /\ \A y : Contains(s, y) <=> Contains(waiting[r.at], y) \/ y = r
  BY <1>1, <1>2, AppendContains DEF Held
<1>4. waiting' = [waiting EXCEPT ![r.at] = s]
  BY DEF clh_recv
<1> HIDE DEF s
<1>5. TrafficType'
  BY <1>1, <1>3, <1>4
<1>6. Queued' /\ OnTheWay'
  BY <1>1 DEF Queued, OnTheWay
<1>7. Held'
  BY <1>1, <1>3, <1>4 DEF Held
<1>8. Received'
  BY <1>1 DEF Received
<1> QED
  BY <1>5, <1>6, <1>7, <1>8 DEF Where

(* The warm-up queues its sends and its receives wait.                     *)
LEMMA WhereWarmup ==
  ASSUME NInv, NEW n \in Nodes, Warmup(n)  PROVE Where
<1> USE DEF NInv, Placed, TrafficType
<1> DEFINE S == WarmupSends(n)
           R == WarmupReceives(n)
           s == sendQ[n] \o SetToSeq(S)
           w == waiting[n] \o SetToSeq(R)
<1>1. /\ S \subseteq Messages /\ SetToSeq(S) \in Seq(S) /\ IsInjective(SetToSeq(S))
      /\ \A y : Contains(SetToSeq(S), y) <=> y \in S
      /\ R \subseteq Receives /\ SetToSeq(R) \in Seq(R) /\ IsInjective(SetToSeq(R))
      /\ \A y : Contains(SetToSeq(R), y) <=> y \in R
  BY WarmupFinite, SeqOfSet
<1>2. SetToSeq(S) \in Seq(Messages) /\ SetToSeq(R) \in Seq(Receives)
  BY <1>1
<1>3. /\ \A x \in S : x.src = n /\ x.id = 0 /\ x \notin called
      /\ \A r \in R : r.at = n /\ r.id = 0 /\ r \notin called
  <2>1. n \notin Posted
    BY DEF Warmup, PostWarmup, Posted
  <2>2. /\ \A x \in S : x.src = n /\ x.id = 0
        /\ \A r \in R : r.at = n /\ r.id = 0
    BY DEF WarmupSends, WarmupReceives, WarmupMessage, WarmupReceive
  <2> QED
    BY <1>1, <2>1, <2>2 DEF Phases
<1>4. /\ sendQ' = [sendQ EXCEPT ![n] = s] /\ waiting' = [waiting EXCEPT ![n] = w]
      /\ called' = called \cup S \cup R
      /\ UNCHANGED <<wire, got, ended, waited>>
  BY DEF Warmup
<1>5. /\ s \in Seq(Messages) /\ \A y : Contains(s, y) <=> Contains(sendQ[n], y) \/ y \in S
      /\ IsInjective(s)
  BY <1>1, <1>2, <1>3, ConcatContains DEF Queued
<1>6. /\ w \in Seq(Receives) /\ \A y : Contains(w, y) <=> Contains(waiting[n], y) \/ y \in R
      /\ IsInjective(w)
  BY <1>1, <1>2, <1>3, ConcatContains DEF Held
<1> HIDE DEF s, w, S, R
<1>7. TrafficType'
  BY <1>1, <1>4, <1>5, <1>6
<1>8. Queued'
  BY <1>3, <1>4, <1>5 DEF Queued
<1>9. OnTheWay'
  BY <1>3, <1>4, <1>5 DEF OnTheWay
<1>10. Held'
  BY <1>3, <1>4, <1>6 DEF Held
<1>11. Received'
  <2>1. \A r \in Receives : got[r] # None => got[r] \in Messages /\ got[r] \notin S
    BY <1>3 DEF Received
  <2>2. \A x \in Messages : x.src \in Nodes
    BY Fields DEF MessageType
  <2> QED
    BY <1>4, <1>5, <2>1, <2>2 DEF Received
<1> QED
  BY <1>7, <1>8, <1>9, <1>10, <1>11 DEF Where

(* A send that is started moves from the queue to the wire.                *)
LEMMA WhereStart ==
  ASSUME NInv, NEW n \in Nodes, StartSend(n)  PROVE Where
<1> USE DEF NInv, Placed, TrafficType
<1> DEFINE x == Last(sendQ[n])
           s == Front(sendQ[n])
           m == x.dst
           w == Append(wire[n][m], x)
<1>1. /\ s \in Seq(Messages) /\ x \in Messages /\ Contains(sendQ[n], x) /\ ~Contains(s, x)
      /\ IsInjective(s) /\ \A y : Contains(sendQ[n], y) <=> Contains(s, y) \/ y = x
  BY FrontContains DEF StartSend, Queued
<1>2. x \in called /\ x.src = n /\ m \in Nodes
  BY <1>1, Fields DEF Queued, MessageType
<1>3. /\ w \in Seq(Messages) /\ IsInjective(w)
      /\ \A y : Contains(w, y) <=> Contains(wire[n][m], y) \/ y = x
  BY <1>1, <1>2, AppendContains DEF OnTheWay
<1>4. /\ sendQ' = [sendQ EXCEPT ![n] = s] /\ wire' = [wire EXCEPT ![n][m] = w]
      /\ UNCHANGED <<waiting, got, called, ended, waited>>
  BY DEF StartSend
<1>5. \A r \in Receives : got[r] # x
  BY <1>1, <1>2, Fields DEF Received
<1> HIDE DEF s, w, m, x
<1>6. TrafficType'
  BY <1>1, <1>2, <1>3, <1>4
<1>7. Queued' /\ Held'
  BY <1>1, <1>4 DEF Queued, Held
<1>8. OnTheWay'
  <2>1. ASSUME NEW a \in Nodes, NEW b \in Nodes
        PROVE  wire'[a][b] = IF a = n /\ b = m THEN w ELSE wire[a][b]
    BY <1>2, <1>4
  <2>2. \A a \in Nodes : \A y : Contains(sendQ'[a], y) => Contains(sendQ[a], y) /\ y # x
    BY <1>1, <1>2, <1>4 DEF Queued
  <2>3. x.dst = m
    BY DEF m
  <2>4. ASSUME NEW a \in Nodes, NEW b \in Nodes
        PROVE  /\ IsInjective(wire'[a][b])
               /\ \A y \in Messages : Contains(wire'[a][b], y) =>
                    y \in called /\ y.src = a /\ y.dst = b /\ ~Contains(sendQ'[a], y)
    <3>1. CASE a = n /\ b = m
      <4>1. \A y \in Messages : Contains(wire[n][m], y) =>
              y \in called /\ y.src = n /\ y.dst = m /\ ~Contains(sendQ[n], y)
        BY <1>2 DEF OnTheWay
      <4>2. wire'[a][b] = w
        BY <2>1, <3>1
      <4>3. ~Contains(sendQ'[n], x)
        BY <2>2
      <4> QED
        BY <1>2, <1>3, <2>2, <2>3, <3>1, <4>1, <4>2, <4>3
    <3>2. CASE ~(a = n /\ b = m)
      BY <2>1, <2>2, <3>2 DEF OnTheWay
    <3> QED
      BY <3>1, <3>2
  <2> QED
    BY <1>4, <2>4 DEF OnTheWay
<1>9. Received'
  <2>1. ASSUME NEW a \in Nodes, NEW b \in Nodes
        PROVE  \A y : Contains(wire'[a][b], y) => Contains(wire[a][b], y) \/ y = x
    BY <1>2, <1>3, <1>4
  <2>2. \A a \in Nodes : \A y : Contains(sendQ'[a], y) => Contains(sendQ[a], y)
    BY <1>1, <1>4
  <2>3. \A y \in Messages : y.src \in Nodes /\ y.dst \in Nodes
    BY Fields DEF MessageType
  <2> QED
    BY <1>4, <1>5, <2>1, <2>2, <2>3 DEF Received
<1> QED
  BY <1>6, <1>7, <1>8, <1>9 DEF Where
(* Messages that leave the wire disturb no other place.                    *)
LEMMA WireShrinks ==
  ASSUME OnTheWay, called' = called, sendQ' = sendQ,
         \A a, b \in Nodes : /\ IsInjective(wire'[a][b])
                             /\ \A y : Contains(wire'[a][b], y) => Contains(wire[a][b], y)
  PROVE  OnTheWay'
<1> SUFFICES ASSUME NEW a \in Nodes, NEW b \in Nodes
             PROVE  /\ IsInjective(wire'[a][b])
                    /\ \A x \in Messages : Contains(wire'[a][b], x) =>
                         x \in called /\ x.src = a /\ x.dst = b /\ ~Contains(sendQ[a], x)
  BY DEF OnTheWay
<1>1. \A x \in Messages : Contains(wire[a][b], x) =>
         x \in called /\ x.src = a /\ x.dst = b /\ ~Contains(sendQ[a], x)
  BY DEF OnTheWay
<1> QED
  BY <1>1

(* A receive r of m is served with x: both leave the lists they were in.   *)
Served(n, m, r, x) ==
  /\ Takes(r, x) /\ thr[m] = "loop"
  /\ r \in called /\ r \notin ended /\ r.at = m
  /\ x \in called /\ x.src = n /\ x.dst = m /\ ~Contains(sendQ[n], x)
  /\ Contains(wire[n][m], x)
  /\ waiting' \in [Nodes -> Seq(Receives)] /\ wire' \in [Nodes -> [Nodes -> Seq(Messages)]]
  /\ \A a \in Nodes :
       /\ IsInjective(waiting'[a]) /\ ~Contains(waiting'[a], r)
       /\ \A y : Contains(waiting'[a], y) => Contains(waiting[a], y)
  /\ \A a, b \in Nodes :
       /\ IsInjective(wire'[a][b]) /\ ~Contains(wire'[a][b], x)
       /\ \A y : Contains(wire'[a][b], y) => Contains(wire[a][b], y)
  /\ got' = [got EXCEPT ![r] = x] /\ ended' = ended \cup {r}
  /\ UNCHANGED <<vars, sendQ, called, waited>>

(* The message and the receive of a Serve step.                            *)
LEMMA WhatServeTakes ==
  ASSUME NInv, NEW n \in Nodes, NEW m \in Nodes, Serve(n, m)
  PROVE  \E r \in Receives, x \in Messages : Served(n, m, r, x)
<1> USE DEF NInv, Placed, TrafficType
<1>1. PICK i \in DOMAIN waiting[m], k \in DOMAIN wire[n][m] :
        /\ thr[m] = "loop" /\ Takes(waiting[m][i], wire[n][m][k])
        /\ waiting' = [waiting EXCEPT ![m] = RemoveAt(@, i)]
        /\ wire' = [wire EXCEPT ![n][m] = RemoveAt(@, k)]
        /\ got' = [got EXCEPT ![waiting[m][i]] = wire[n][m][k]]
        /\ ended' = ended \cup {waiting[m][i]}
        /\ UNCHANGED <<vars, sendQ, called, waited>>
  BY DEF Serve
<1> DEFINE q == waiting[m]
           w == wire[n][m]
           r == q[i]
           x == w[k]
<1>2. q \in Seq(Receives) /\ i \in 1 .. Len(q) /\ w \in Seq(Messages) /\ k \in 1 .. Len(w)
      /\ IsInjective(q) /\ IsInjective(w)
  BY DEF Held, OnTheWay
<1>3. r \in Receives /\ x \in Messages /\ Contains(q, r) /\ Contains(w, x)
  BY <1>2 DEF Contains
<1>4. /\ r \in called /\ r \notin ended /\ r.at = m
      /\ x \in called /\ x.src = n /\ x.dst = m /\ ~Contains(sendQ[n], x)
  BY <1>3 DEF Held, OnTheWay
<1>5. /\ RemoveAt(q, i) \in Seq(Receives) /\ IsInjective(RemoveAt(q, i))
      /\ ~Contains(RemoveAt(q, i), r) /\ \A y : Contains(RemoveAt(q, i), y) => Contains(q, y)
  BY <1>2, RemoveAtContains, RemoveAtInjective
<1>6. /\ RemoveAt(w, k) \in Seq(Messages) /\ IsInjective(RemoveAt(w, k))
      /\ ~Contains(RemoveAt(w, k), x) /\ \A y : Contains(RemoveAt(w, k), y) => Contains(w, y)
  BY <1>2, RemoveAtContains, RemoveAtInjective
<1>7. \A a \in Nodes : waiting'[a] = IF a = m THEN RemoveAt(q, i) ELSE waiting[a]
  BY <1>1
<1>8. \A a, b \in Nodes : wire'[a][b] = IF a = n /\ b = m THEN RemoveAt(w, k) ELSE wire[a][b]
  BY <1>1
<1>9. waiting' \in [Nodes -> Seq(Receives)] /\ wire' \in [Nodes -> [Nodes -> Seq(Messages)]]
  BY <1>1, <1>5, <1>6
<1>10. thr[m] = "loop" /\ Takes(r, x) /\ got' = [got EXCEPT ![r] = x] /\ ended' = ended \cup {r}
       /\ UNCHANGED <<vars, sendQ, called, waited>>
  BY <1>1
<1> HIDE DEF q, w, r, x
<1>11. \A a \in Nodes : /\ IsInjective(waiting'[a]) /\ ~Contains(waiting'[a], r)
                        /\ \A y : Contains(waiting'[a], y) => Contains(waiting[a], y)
  <2>1. \A a \in Nodes : a # m => ~Contains(waiting[a], r) /\ IsInjective(waiting[a])
    BY <1>3, <1>4 DEF Held
  <2> QED
    BY <1>5, <1>7, <2>1 DEF q
<1>12. \A a, b \in Nodes : /\ IsInjective(wire'[a][b]) /\ ~Contains(wire'[a][b], x)
                           /\ \A y : Contains(wire'[a][b], y) => Contains(wire[a][b], y)
  <2>1. \A a, b \in Nodes :
          ~(a = n /\ b = m) => ~Contains(wire[a][b], x) /\ IsInjective(wire[a][b])
    <3> SUFFICES ASSUME NEW a \in Nodes, NEW b \in Nodes, ~(a = n /\ b = m)
                 PROVE  ~Contains(wire[a][b], x) /\ IsInjective(wire[a][b])
      OBVIOUS
    <3>1. /\ IsInjective(wire[a][b])
          /\ Contains(wire[a][b], x) => x.src = a /\ x.dst = b
      BY <1>3 DEF OnTheWay
    <3> QED
      BY <1>4, <3>1
  <2> QED
    BY <1>6, <1>8, <2>1 DEF w
<1>13. Contains(wire[n][m], x)
  BY <1>3 DEF w
<1> QED
  BY <1>3, <1>4, <1>9, <1>10, <1>11, <1>12, <1>13 DEF Served

(* It moves from the wire to the receive, which stops waiting.             *)
LEMMA WhereServe ==
  ASSUME NInv, NEW n \in Nodes, NEW m \in Nodes, Serve(n, m)  PROVE Where
<1> USE DEF NInv, Placed, TrafficType
<1>1. PICK r \in Receives, x \in Messages : Served(n, m, r, x)
  BY WhatServeTakes
<1> USE DEF Served
<1>2. TrafficType'
  BY <1>1
<1>3. Queued'
  BY <1>1 DEF Queued
<1>6. OnTheWay'
  <2>1. called' = called /\ sendQ' = sendQ
    BY <1>1
  <2>2. ASSUME NEW a \in Nodes, NEW b \in Nodes
        PROVE  IsInjective(wire'[a][b]) /\ \A y : Contains(wire'[a][b], y) => Contains(wire[a][b], y)
    BY <1>1
  <2> QED
    BY <2>1, <2>2, WireShrinks
<1>4. Held'
  BY <1>1 DEF Held
<1>5. Received'
  <2>1. ASSUME NEW o \in Receives  PROVE got'[o] = IF o = r THEN x ELSE got[o]
    BY <1>1
  <2>2. x # None
    BY Fields
  <2>3. \A y \in Messages : y.src \in Nodes /\ y.dst \in Nodes
    BY Fields DEF MessageType
  <2>4. ASSUME NEW o \in Receives
        PROVE  /\ got'[o] # None <=> o \in ended'
               /\ got'[o] # None =>
                    /\ got'[o] \in called' /\ got'[o].dst = o.at /\ Takes(o, got'[o])
                    /\ ~Contains(sendQ'[got'[o].src], got'[o])
                    /\ ~Contains(wire'[got'[o].src][got'[o].dst], got'[o])
    <3>1. CASE o = r
      BY <1>1, <2>1, <2>2, <3>1
    <3>2. CASE o # r
      <4>1. got'[o] = got[o] /\ (o \in ended' <=> o \in ended) /\ sendQ' = sendQ /\ called' = called
        BY <1>1, <2>1, <3>2
      <4>2. got[o] # None => got[o].src \in Nodes /\ got[o].dst \in Nodes
        BY <2>3
      <4>3. /\ got[o] # None <=> o \in ended
            /\ got[o] # None =>
                 /\ got[o] \in called /\ got[o].dst = o.at /\ Takes(o, got[o])
                 /\ ~Contains(sendQ[got[o].src], got[o])
                 /\ ~Contains(wire[got[o].src][got[o].dst], got[o])
        BY DEF Received
      <4>4. ASSUME NEW a \in Nodes, NEW b \in Nodes, NEW y, Contains(wire'[a][b], y)
            PROVE  Contains(wire[a][b], y)
        BY <1>1, <4>4
      <4> HIDE DEF NInv, Placed, TrafficType, Served
      <4> QED
        BY <4>1, <4>2, <4>3, <4>4
    <3> QED
      BY <3>1, <3>2
  <2> QED
    BY <2>4 DEF Received
<1> QED
  BY <1>2, <1>3, <1>4, <1>5, <1>6 DEF Where

(* The other steps lose messages at most.                                  *)
LEMMA WhereOthers ==
  ASSUME NInv,
         \/ UNCHANGED traffic
         \/ \E n \in Nodes : Finalize(n) \/ Close(n)
         \/ \E x \in Messages : SendEnds(x)
  PROVE  Where
<1> USE DEF NInv, Placed, TrafficType
<1>1. CASE UNCHANGED traffic
  BY <1>1 DEF Where, Queued, OnTheWay, Held, Received, traffic
<1>2. ASSUME NEW n \in Nodes, Finalize(n)  PROVE Where
  BY <1>2 DEF Finalize, Where, Queued, OnTheWay, Held, Received
<1>3. ASSUME NEW n \in Nodes, Close(n)  PROVE Where
  <2>1. UNCHANGED <<sendQ, waiting, got, called, ended, waited>>
    BY <1>3 DEF Close
  <2>2. /\ wire' \in [Nodes -> [Nodes -> Seq(Messages)]]
        /\ \A a, b \in Nodes : wire'[a][b] = <<>> \/ wire'[a][b] = wire[a][b]
    BY <1>3 DEF Close
  <2>3. IsInjective(<<>>) /\ \A y : ~Contains(<<>>, y)
    BY DEF IsInjective, Contains
  <2>4. \A y \in Messages : y.src \in Nodes /\ y.dst \in Nodes
    BY Fields DEF MessageType
  <2>5. TrafficType' /\ Queued' /\ Held'
    BY <2>1, <2>2 DEF Queued, Held
  <2>6. OnTheWay'
    <3>1. \A a, b \in Nodes : IsInjective(wire[a][b])
      BY DEF OnTheWay
    <3>2. ASSUME NEW a \in Nodes, NEW b \in Nodes
          PROVE  IsInjective(wire'[a][b]) /\ \A y : Contains(wire'[a][b], y) => Contains(wire[a][b], y)
      BY <2>2, <2>3, <3>1
    <3> QED
      BY <2>1, <3>2, WireShrinks
  <2>7. Received'
    BY <2>1, <2>2, <2>3, <2>4 DEF Received
  <2> QED
    BY <2>5, <2>6, <2>7 DEF Where
<1>4. ASSUME NEW x \in Messages, SendEnds(x)  PROVE Where
  BY <1>4, NoneIsBoth DEF SendEnds, Where, Queued, OnTheWay, Held, Received
<1> QED
  BY <1>1, <1>2, <1>3, <1>4

(* Every step keeps each message in one place.                             *)
LEMMA StepWhere == NInv /\ [NetNext]_netVars => TrafficType' /\ Placed'
<1> SUFFICES ASSUME NInv, [NetNext]_netVars PROVE Where
  BY DEF Where
<1>1. ASSUME NEW n \in Nodes, NetRunThread(n) \/ NetMainThread(n) \/ Surroundings(n)
      PROVE  Where
  BY <1>1, WhereOthers, WhereStart, WhereWarmup
     DEF NetRunThread, NetMainThread, Surroundings, PeerGone, Leave, WarmupEnds, traffic
<1>2. CASE UNCHANGED netVars
  BY <1>2, WhereOthers DEF netVars
<1> QED
  BY <1>1, <1>2, WhereOthers, WhereServe, WhereRecv, WhereSend, AppInAll DEF NetNext
-----------------------------------------------------------------------------
(* What a step does to the phases of the nodes, and what it calls.         *)
LEMMA NoWayBack ==
  ASSUME NInv, [NetNext]_netVars, NEW n \in Nodes
  PROVE  /\ main[n] \in Ending => main'[n] \in Ending
         /\ main[n] \in {"final"} \cup Ending => main'[n] \in {"final"} \cup Ending
         /\ main[n] \in Serving => main'[n] \in Serving
         /\ n \in Posted => n \in Posted'
         /\ thr[n] \in Started => thr'[n] \in Started \/ AllEnding
<1>1. CASE UNCHANGED vars
  BY <1>1 DEF vars, Posted
<1>2. ASSUME NEW m \in Nodes, PeerGone(m)  PROVE main' = main /\ (thr'[n] = thr[n] \/ AllEnding)
  BY <1>2, PeerGoneAtEnd DEF PeerGone, NInv, IInv, TypeOK
<1>3. ASSUME NEW m \in Nodes, RunThread(m) \/ MainThread(m) \/ InitFails(m)
                              \/ WakeSpuriously(m) \/ clh_finalize(m)
                              \/ SyncFails(m) \/ MainFenceFails(m)
      PROVE  /\ main[n] \in Ending => main'[n] \in Ending
             /\ main[n] \in {"final"} \cup Ending => main'[n] \in {"final"} \cup Ending
             /\ main[n] \in Serving => main'[n] \in Serving
             /\ n \in Posted => n \in Posted'
             /\ thr[n] \in Started => thr'[n] \in Started
  <2> USE DEF NInv, IInv, TypeOK, Posted
  <2>1. CASE RunThread(m)
    BY <2>1 DEF RunThread, Publish, Connect, SetRun, Notify, LeaveLoop, ucx_finalize
  <2>2. CASE MainThread(m)
    BY <2>2 DEF MainThread, Spawn, WaitInit, PostWarmup, WarmupOver, Terminate, Join, SyncTogether
  <2>3. CASE InitFails(m) \/ WakeSpuriously(m) \/ clh_finalize(m)
    BY <2>3 DEF InitFails, WakeSpuriously, clh_finalize
  <2>4. CASE SyncFails(m) \/ MainFenceFails(m)
    BY <2>4 DEF SyncFails, MainFenceFails, AfterFence
  <2> QED
    BY <1>3, <2>1, <2>2, <2>3, <2>4
<1>4. ASSUME FenceComplete
      PROVE  /\ main[n] \in Ending => main'[n] \in Ending
             /\ main[n] \in {"final"} \cup Ending => main'[n] \in {"final"} \cup Ending
             /\ main[n] \in Serving => main'[n] \in Serving
             /\ n \in Posted => n \in Posted'
             /\ thr[n] \in Started => thr'[n] \in Started
  BY <1>4 DEF FenceComplete, Arrived, Fences, AfterFence, Posted
<1> QED
  BY <1>1, <1>2, <1>3, <1>4, StepImplements DEF Next, Posted

(* Only WarmupEnds leads out of the warm-up, and only Warmup into it.      *)
LEMMA NewlyMet ==
  ASSUME NInv, [NetNext]_netVars, NEW n \in Nodes
  PROVE  /\ main'[n] \in Met /\ main[n] \notin Met => WarmupEnds(n)
         /\ n \in Posted' /\ n \notin Posted => Warmup(n)
<1> USE DEF NInv, IInv, TypeOK, Posted
<1>1. CASE UNCHANGED vars
  BY <1>1 DEF vars
<1>2. ASSUME NEW m \in Nodes, NetRunThread(m)
      PROVE  main'[n] = main[n] \/ (main[n] = "waiting" /\ main'[n] = "warmup")
  <2>1. CASE Notify(m)
    BY <2>1 DEF Notify
  <2>2. CASE ~Notify(m)
    BY <1>2, <2>2 DEF NetRunThread, Publish, Connect, SetRun, StartSend, PeerGone, Leave, LeaveLoop,
                      Close, ucx_finalize, vars
  <2> QED
    BY <2>1, <2>2
<1>3. ASSUME NEW m \in Nodes, NetMainThread(m)
      PROVE  /\ main'[n] \in Met /\ main[n] \notin Met => WarmupEnds(n)
             /\ n \in Posted' /\ n \notin Posted => Warmup(n)
  <2>1. CASE Spawn(m) \/ WaitInit(m) \/ Terminate(m) \/ Join(m)
    BY <2>1 DEF Spawn, WaitInit, Terminate, Join
  <2>2. CASE Warmup(m)
    <3>1. main' = [main EXCEPT ![m] = "warming"]
      BY <2>2 DEF Warmup, PostWarmup
    <3> QED
      BY <2>2, <3>1
  <2>3. CASE WarmupEnds(m)
    <3>1. main' = [main EXCEPT ![m] = "barrier"] /\ main[m] = "warming"
      BY <2>3 DEF WarmupEnds
    <3> QED
      BY <2>3, <3>1
  <2> QED
    BY <1>3, <2>1, <2>2, <2>3 DEF NetMainThread
<1>4. ASSUME NEW m \in Nodes, Surroundings(m) \/ Finalize(m)
      PROVE  /\ main'[n] \in Met => main[n] \in Met
             /\ n \in Posted' => n \in Posted
  BY <1>4 DEF Surroundings, InitFails, WakeSpuriously, SyncFails, MainFenceFails, AfterFence, Finalize,
              clh_finalize
<1>5. ASSUME FenceComplete
      PROVE  /\ main'[n] \in Met => main[n] \in Met
             /\ n \in Posted' => n \in Posted
  BY <1>5 DEF FenceComplete, Arrived, Fences, AfterFence
<1>6. CASE UNCHANGED netVars
  BY <1>6, <1>1 DEF netVars
<1>7. ASSUME main'[n] = main[n] \/ (main[n] = "waiting" /\ main'[n] = "warmup")
      PROVE  /\ main'[n] \in Met => main[n] \in Met
             /\ n \in Posted' => n \in Posted
  BY <1>7
<1> QED
  BY <1>1, <1>2, <1>3, <1>4, <1>5, <1>6, <1>7
     DEF NetNext, Serve, clh_recv, clh_send, SendEnds

(* What is called, and by whom.                                            *)
Calls(q) ==
  \/ \E n \in Nodes : Warmup(n) /\ q \in WarmupSends(n) \cup WarmupReceives(n)
  \/ q \in AppMessages /\ clh_send(q)
  \/ q \in AppReceives /\ clh_recv(q)

(* What a step calls: a warm-up, or one message or receive.                *)
LEMMA NewlyCalled ==
  ASSUME NInv, [NetNext]_netVars, NEW q
  PROVE  /\ q \in called' /\ q \notin called => Calls(q)
         /\ q \in called => q \in called'
         /\ q \in ended => q \in ended'
<1>1. ASSUME NEW n \in Nodes, NetRunThread(n) \/ Surroundings(n) \/ Finalize(n)
      PROVE  called' = called /\ ended' = ended
  BY <1>1 DEF NetRunThread, Surroundings, Finalize, StartSend, PeerGone, Leave, Close, traffic
<1>2. ASSUME NEW n \in Nodes, NetMainThread(n)
      PROVE  (called' = called \/ (Warmup(n) /\ called' = called \cup WarmupSends(n) \cup WarmupReceives(n)))
             /\ ended' = ended
  BY <1>2 DEF NetMainThread, Warmup, WarmupEnds, traffic
<1>3. CASE FenceComplete /\ UNCHANGED traffic
  BY <1>3 DEF traffic
<1>4. ASSUME NEW n \in Nodes, NEW m \in Nodes, Serve(n, m)
      PROVE  called' = called /\ ended \subseteq ended'
  BY <1>4 DEF Serve
<1>5. ASSUME NEW r \in AppReceives, clh_recv(r)
      PROVE  called' = called \cup {r} /\ ended' = ended
  BY <1>5 DEF clh_recv
<1>6. ASSUME NEW x \in Messages, SendEnds(x)
      PROVE  called' = called /\ ended \subseteq ended'
  BY <1>6 DEF SendEnds
<1>7. ASSUME NEW x \in Messages, clh_send(x)
      PROVE  called' = called \cup {x} /\ ended' = ended /\ x \in AppMessages
  BY <1>7 DEF clh_send
<1>8. CASE UNCHANGED netVars
  BY <1>8 DEF netVars, traffic
<1> QED
  BY <1>1, <1>2, <1>3, <1>4, <1>5, <1>6, <1>7, <1>8 DEF NetNext, Calls
(* Applications call once every warm-up is over.                           *)
LEMMA AppCallsWhenServing ==
  ASSUME NInv, NEW q, Calls(q), q.id # 0
  PROVE  \A n \in Nodes : main[n] \in Serving
<1>1. \A n \in Nodes : q \notin WarmupSends(n) \cup WarmupReceives(n)
  BY DEF WarmupSends, WarmupReceives, WarmupMessage, WarmupReceive
<1>2. \E n \in Nodes : main[n] = "ready"
  BY <1>1, AppInAll, Fields DEF Calls, clh_send, clh_recv, MessageType, ReceiveType
<1> QED
  BY <1>2 DEF NInv, IInv, MainsTogether

(* Only a warm-up calls the warm-up's messages and receives.               *)
LEMMA OwnCalls ==
  ASSUME NEW q, Calls(q), q.id = 0
  PROVE  \E n \in Nodes : Warmup(n) /\ q \in WarmupSends(n) \cup WarmupReceives(n)
BY AppTypes DEF Calls

(* Every step keeps to the phases of the job.                              *)
LEMMA StepPhases == NInv /\ [NetNext]_netVars => Phases'
<1> SUFFICES ASSUME NInv, [NetNext]_netVars PROVE Phases'
  OBVIOUS
<1> USE DEF NInv
<1>0. /\ \A n \in Nodes : Warmup(n) => n \notin Posted /\ n \in Posted' /\ main'[n] \notin Met
      /\ \A x \in Messages : x.src \in Nodes
      /\ \A r \in Receives : r.at \in Nodes
  BY Fields DEF Warmup, PostWarmup, Posted, IInv, TypeOK, MessageType, ReceiveType
<1>1. ASSUME NEW x \in Messages, x \in called', x.id = 0
      PROVE  x.src \in Posted' /\ x.dst \in Peers(x.src)
  <2>1. CASE x \in called
    BY <1>0, <1>1, <2>1, NoWayBack DEF Phases
  <2>2. CASE x \notin called
    <3>1. PICK n \in Nodes : Warmup(n) /\ x \in WarmupSends(n) \cup WarmupReceives(n)
      BY <1>1, <2>2, NewlyCalled, OwnCalls
    <3>2. x \in WarmupSends(n)
      BY <3>1, WarmupFinite, NoneIsBoth
    <3> QED
      BY <1>0, <3>1, <3>2 DEF WarmupSends, WarmupMessage
  <2> QED
    BY <2>1, <2>2
<1>2. ASSUME NEW r \in Receives, r \in called', r \notin called, r.id = 0
      PROVE  Warmup(r.at)
  <2>1. PICK n \in Nodes : Warmup(n) /\ r \in WarmupSends(n) \cup WarmupReceives(n)
    BY <1>2, NewlyCalled, OwnCalls
  <2>2. r \in WarmupReceives(n)
    BY <2>1, WarmupFinite, NoneIsBoth
  <2> QED
    BY <2>1, <2>2 DEF WarmupReceives, WarmupReceive
<1>3. \A r \in Receives : r \in called' /\ r.id = 0 => r.at \in Posted'
  BY <1>0, <1>2, NoWayBack DEF Phases
<1>4. ASSUME NEW n \in Posted'  PROVE WarmupReceives(n) \subseteq called'
  <2>1. CASE n \in Posted
    BY <2>1, NewlyCalled DEF Phases
  <2>2. CASE n \notin Posted
    BY <1>4, <2>2, NewlyMet DEF Warmup, Posted
  <2> QED
    BY <2>1, <2>2
<1>5. ASSUME NEW n \in Nodes, main'[n] \in Met,
             NEW r \in Receives, r \in called', r.id = 0, r.at = n
      PROVE  r \in ended'
  <2>1. r \in called
    BY <1>0, <1>2, <1>5
  <2>2. r \in ended
    <3>1. CASE main[n] \in Met
      BY <1>5, <2>1, <3>1 DEF Phases
    <3>2. CASE main[n] \notin Met
      BY <1>5, <2>1, <3>2, NewlyMet DEF WarmupEnds, Outstanding, Own, OwnReceives
    <3> QED
      BY <3>1, <3>2
  <2> QED
    BY <2>2, NewlyCalled
<1>6. ASSUME NEW q \in called', q.id # 0, NEW n \in Nodes  PROVE main'[n] \in Serving
  <2>1. main[n] \in Serving
    BY <1>6, NewlyCalled, AppCallsWhenServing DEF Phases
  <2> QED
    BY <2>1, NoWayBack
<1> QED
  BY <1>1, <1>3, <1>4, <1>5, <1>6 DEF Phases
(* What a step takes out of a queue or ends went through a run thread in   *)
(* its loop.                                                               *)
LEMMA StepRunning == NInv /\ [NetNext]_netVars => Running'
<1> SUFFICES ASSUME NInv, [NetNext]_netVars PROVE Running'
  OBVIOUS
<1> DEFINE Ran(n) == thr[n] \in Started \/ AllEnding
<1>0. /\ \A x \in Messages : x.src \in Nodes
      /\ \A r \in Receives : r.at \in Nodes
      /\ Running /\ TrafficType /\ Where
  BY Fields, StepWhere DEF MessageType, ReceiveType, NInv, Where
<1>1. \A n \in Nodes : Ran(n) => Ran(n)'
  <2>1. AllEnding => AllEnding'
    BY NoWayBack DEF AllEnding
  <2> QED
    BY <2>1, NoWayBack
<1>2. ASSUME NEW x \in Messages, x \in called', ~Contains(sendQ'[x.src], x)
      PROVE  Ran(x.src)
  <2>1. CASE x \in called /\ ~Contains(sendQ[x.src], x)
    BY <1>0, <2>1 DEF Running
  <2>2. CASE x \in called /\ Contains(sendQ[x.src], x)
    <3>1. CASE UNCHANGED sendQ
      BY <1>2, <2>2, <3>1
    <3>2. ASSUME NEW n \in Nodes, StartSend(n)  PROVE Ran(x.src)
      <4>1. CASE x.src = n
        BY <3>2, <4>1 DEF StartSend
      <4>2. CASE x.src # n
        BY <1>0, <1>2, <2>2, <3>2, <4>2 DEF StartSend, TrafficType
      <4> QED
        BY <4>1, <4>2
    <3>3. ASSUME NEW n \in Nodes, Warmup(n)  PROVE FALSE
      <4>1. /\ SetToSeq(WarmupSends(n)) \in Seq(Messages)
            /\ sendQ[n] \in Seq(Messages)
        BY <1>0, WarmupFinite, SeqOfSet DEF TrafficType
      <4>2. \A y : Contains(sendQ[n], y) => Contains(sendQ[n] \o SetToSeq(WarmupSends(n)), y)
        BY <4>1, ConcatContains
      <4> QED
        BY <1>0, <1>2, <2>2, <3>3, <4>2 DEF Warmup, TrafficType
    <3>4. ASSUME NEW y \in Messages, clh_send(y)  PROVE FALSE
      <4>1. sendQ[y.src] \in Seq(Messages)
        BY <1>0 DEF TrafficType
      <4>2. \A z : Contains(sendQ[y.src], z) => Contains(Append(sendQ[y.src], y), z)
        BY <4>1, AppendContains
      <4> QED
        BY <1>0, <1>2, <2>2, <3>4, <4>2 DEF clh_send, TrafficType
    <3> QED
      BY <3>1, <3>2, <3>3, <3>4
         DEF NetNext, NetRunThread, NetMainThread, Surroundings, PeerGone, Leave, Close,
             WarmupEnds, Finalize, Serve, clh_recv, SendEnds, traffic, netVars
  <2>3. CASE x \notin called
    <3>1. CASE x \in AppMessages /\ clh_send(x)
      <4>1. Contains(Append(sendQ[x.src], x), x)
        BY <1>0, AppendContains DEF TrafficType
      <4> QED
        BY <1>0, <1>2, <3>1, <4>1 DEF clh_send, TrafficType
    <3>2. ASSUME NEW n \in Nodes, Warmup(n), x \in WarmupSends(n) \cup WarmupReceives(n)
          PROVE  FALSE
      <4>1. x \in WarmupSends(n)
        BY <3>2, WarmupFinite, NoneIsBoth
      <4>2. /\ SetToSeq(WarmupSends(n)) \in Seq(Messages) /\ sendQ[n] \in Seq(Messages)
            /\ Contains(SetToSeq(WarmupSends(n)), x)
        BY <1>0, <4>1, WarmupFinite, SeqOfSet DEF TrafficType
      <4>3. Contains(sendQ[n] \o SetToSeq(WarmupSends(n)), x) /\ x.src = n
        BY <4>1, <4>2, ConcatContains DEF WarmupSends, WarmupMessage
      <4> QED
        BY <1>0, <1>2, <3>2, <4>3 DEF Warmup, TrafficType
    <3>3. ~(x \in AppReceives)
      BY AppInAll, NoneIsBoth
    <3> QED
      BY <1>2, <2>3, <3>1, <3>2, <3>3, NewlyCalled DEF Calls
  <2> QED
    BY <2>1, <2>2, <2>3
<1>3. ASSUME NEW r \in Receives, r \in ended', r \notin ended
      PROVE  Ran(r.at)
  <2>1. ASSUME NEW n \in Nodes, NEW m \in Nodes, Serve(n, m)  PROVE Ran(r.at)
    <3>1. PICK q \in Receives, x \in Messages : Served(n, m, q, x)
      BY <2>1, WhatServeTakes
    <3> QED
      BY <1>3, <3>1 DEF Served
  <2>2. ASSUME NEW x \in Messages, SendEnds(x)  PROVE FALSE
    BY <1>3, <2>2, NoneIsBoth DEF SendEnds
  <2>3. CASE UNCHANGED ended
    BY <1>3, <2>3
  <2> QED
    BY <2>1, <2>2, <2>3
       DEF NetNext, NetRunThread, NetMainThread, Surroundings, StartSend, PeerGone, Leave, Close,
           Warmup, WarmupEnds, Finalize, clh_recv, clh_send, traffic, netVars
<1>4. \A r \in Receives : r \in ended => Ran(r.at)
  BY <1>0 DEF Running
<1>5. \A x \in Messages : x \in called' /\ ~Contains(sendQ'[x.src], x) => Ran(x.src)'
  BY <1>0, <1>1, <1>2
<1>6. \A r \in Receives : r \in ended' => Ran(r.at)'
  BY <1>0, <1>1, <1>3, <1>4
<1> QED
  BY <1>5, <1>6 DEF Running
(* A warm-up receive is served before an application sends, and a warm-up  *)
(* message is received by its own receive before an application receives.  *)
LEMMA StepApart == NInv /\ [NetNext]_netVars => Apart'
<1> SUFFICES ASSUME NInv, [NetNext]_netVars PROVE Apart'
  OBVIOUS
<1> USE DEF NInv
<1>1. ASSUME NEW n \in Nodes, NEW m \in Nodes, Serve(n, m)  PROVE Apart'
  <2>1. PICK r \in Receives, x \in Messages : Served(n, m, r, x)
    BY <1>1, WhatServeTakes
  <2> USE DEF Served
  <2>2. ASSUME r.id = 0, x.id # 0  PROVE FALSE
    <3>1. main[m] \in Met
      BY <2>1, <2>2 DEF Phases
    <3> QED
      BY <2>1, <2>2, <3>1 DEF Phases
  <2>3. ASSUME r.id # 0, x.id = 0  PROVE FALSE
    <3> DEFINE w == WarmupReceive(m, n)
               y == got[w]
    <3>1. main[m] \in Met /\ m \in Posted
      BY <2>1, <2>3 DEF Phases, Posted
    <3>2. n \in Peers(m)
      BY <2>1, <2>3 DEF Phases, Peers
    <3>3. w \in Receives /\ w.id = 0 /\ w.at = m /\ w.source = n
      BY <3>2, WarmupReceiveFields DEF Peers
    <3>4. w \in called
      BY <3>1, <3>2 DEF Phases, WarmupReceives
    <3>5. w \in ended
      BY <3>1, <3>3, <3>4 DEF Phases
    <3>6. /\ y # None /\ y.dst = m /\ Takes(w, y) /\ ~Contains(wire[y.src][y.dst], y)
          /\ y \in Messages
      BY <3>3, <3>5 DEF Placed, Received, TrafficType
    <3>7. y.src = n
      BY <3>3, <3>6, TakesMeans, OwnValues
    <3>8. y.id = 0
      BY <3>3, <3>6 DEF Apart
    <3>9. y = WarmupMessage(n, m) /\ x = WarmupMessage(n, m)
      BY <2>1, <2>3, <3>6, <3>7, <3>8, Fields
    <3> QED
      BY <2>1, <3>6, <3>7, <3>9
  <2>4. \A o \in Receives : got'[o] = IF o = r THEN x ELSE got[o]
    BY <2>1 DEF TrafficType
  <2> QED
    BY <2>2, <2>3, <2>4 DEF Apart
<1>2. CASE UNCHANGED got
  BY <1>2 DEF Apart
<1> QED
  BY <1>1, <1>2
     DEF NetNext, NetRunThread, NetMainThread, Surroundings, StartSend, PeerGone, Leave, Close,
         Warmup, WarmupEnds, Finalize, clh_recv, clh_send, SendEnds, traffic, netVars

(* What an application waited for stays ended, and its node calls no more. *)
LEMMA StepPatient == NInv /\ [NetNext]_netVars => Patient'
<1> SUFFICES ASSUME NInv, [NetNext]_netVars, NEW n \in waited'
             PROVE  main'[n] \in {"final"} \cup Ending /\ Outstanding(n)' = {}
  BY DEF Patient
<1> USE DEF NInv
<1>1. n \in Nodes
  BY StepWhere DEF TrafficType
<1>2. ASSUME Outstanding(n) = {}, main[n] \in {"ready", "final"} \cup Ending,
             ~(\E q : q \in AppMessages /\ q.src = n /\ clh_send(q)),
             ~(\E q : q \in AppReceives /\ q.at = n /\ clh_recv(q))
      PROVE  Outstanding(n)' = {}
  <2>1. ~Warmup(n)
    BY <1>2 DEF Warmup, PostWarmup
  <2>2. ASSUME NEW q \in Own(n)'  PROVE q \in Own(n)
    <3>1. q \in called' /\ ((q \in Messages /\ q.src = n) \/ (q \in Receives /\ q.at = n))
      BY DEF Own, OwnSends, OwnReceives
    <3>2. q \in called
      <4>1. ASSUME Calls(q)  PROVE FALSE
        <5>1. ~(q \in AppMessages /\ clh_send(q)) /\ ~(q \in AppReceives /\ clh_recv(q))
          BY <1>2, <3>1, AppInAll, NoneIsBoth
        <5>2. PICK m \in Nodes : Warmup(m) /\ q \in WarmupSends(m) \cup WarmupReceives(m)
          BY <4>1, <5>1 DEF Calls
        <5>3. (q \in WarmupSends(m) => q.src = m) /\ (q \in WarmupReceives(m) => q.at = m)
          BY DEF WarmupSends, WarmupReceives, WarmupMessage, WarmupReceive
        <5>4. m = n
          BY <3>1, <5>2, <5>3, NoneIsBoth, WarmupFinite
        <5> QED
          BY <2>1, <5>2, <5>4
      <4> QED
        BY <3>1, <4>1, NewlyCalled
    <3> QED
      BY <3>1, <3>2 DEF Own, OwnSends, OwnReceives
  <2> QED
    BY <1>2, <2>2, NewlyCalled DEF Outstanding
<1>3. CASE n \in waited
  <2>1. main[n] \in {"final"} \cup Ending /\ Outstanding(n) = {}
    BY <1>3 DEF Patient
  <2>2. main'[n] \in {"final"} \cup Ending
    BY <1>1, <2>1, NoWayBack
  <2> QED
    BY <1>2, <2>1, <2>2 DEF clh_send, clh_recv
<1>4. CASE n \notin waited
  <2>1. Finalize(n) /\ Outstanding(n) = {}
    BY <1>4 DEF NetNext, NetRunThread, NetMainThread, Surroundings, StartSend, PeerGone, Leave, Close,
                Warmup, WarmupEnds, Finalize, Serve, clh_recv, clh_send, SendEnds, traffic, netVars
  <2>2. main[n] = "ready" /\ main'[n] = "final" /\ called' = called
    BY <1>1, <2>1 DEF Finalize, clh_finalize, IInv, TypeOK
  <2>3. /\ ~(\E q : q \in AppMessages /\ q.src = n /\ clh_send(q))
        /\ ~(\E q : q \in AppReceives /\ q.at = n /\ clh_recv(q))
    BY <2>2 DEF clh_send, clh_recv
  <2> QED
    BY <1>2, <2>1, <2>2, <2>3
<1> QED
  BY <1>3, <1>4

(* A node dies in ucx_init, or at its end if it did not wait.              *)
LEMMA StepDeaths == SeveralNodes /\ NInv /\ [NetNext]_netVars => Deaths'
<1> SUFFICES ASSUME SeveralNodes, NInv, [NetNext]_netVars, NEW n \in Nodes
             PROVE  /\ main'[n] = "done" => thr'[n] = "exited"
                    /\ thr'[n] = "assert" =>
                         main'[n] \in InInit \/ (main'[n] \in {"terminate", "join"} /\ n \notin waited')
  BY DEF Deaths
<1> USE DEF NInv
<1>1. /\ main[n] = "done" => thr[n] = "exited"
      /\ thr[n] = "assert" =>
           main[n] \in InInit \/ (main[n] \in {"terminate", "join"} /\ n \notin waited)
  BY DEF Deaths
<1>2. ASSUME NEW m \in Nodes, PeerGone(m)
      PROVE  /\ main' = main /\ waited' = waited /\ (thr'[n] = thr[n] \/ (thr'[n] = "assert" /\ n = m))
             /\ AllEnding /\ m \notin waited /\ thr[m] = "loop"
  BY <1>2, PeerGoneAtEnd DEF PeerGone, traffic, Patient, IInv, TypeOK
<1>3. ASSUME NEW m \in Nodes, PeerGone(m)
      PROVE  /\ main'[n] = "done" => thr'[n] = "exited"
             /\ thr'[n] = "assert" =>
                  main'[n] \in InInit \/ (main'[n] \in {"terminate", "join"} /\ n \notin waited')
  BY <1>1, <1>2, <1>3 DEF AllEnding
<1>4. ASSUME [Next]_vars
      PROVE  /\ main'[n] = "done" => thr'[n] = "exited"
             /\ thr'[n] = "assert" /\ thr[n] # "assert" => main'[n] \in InInit
             /\ thr[n] = "assert" => main'[n] = main[n]
  <2> USE DEF IInv, TypeOK
  <2>1. thr[n] \in {"init", "connect"} => main[n] \in InInit
    BY DEF SyncTogether, WarmedTogether
  <2>2. ASSUME NEW m \in Nodes, RunThread(m) \/ InitFails(m)  PROVE
               /\ main'[n] = "done" => thr'[n] = "exited"
               /\ thr'[n] = "assert" /\ thr[n] # "assert" => main'[n] \in InInit
               /\ thr[n] = "assert" => main'[n] = main[n]
    BY <1>1, <2>1, <2>2 DEF RunThread, Publish, Connect, SetRun, Notify, LeaveLoop, ucx_finalize, InitFails
  <2>3. ASSUME NEW m \in Nodes, MainThread(m) \/ WakeSpuriously(m) \/ clh_finalize(m)  PROVE
               /\ main'[n] = "done" => thr'[n] = "exited"
               /\ thr'[n] = "assert" /\ thr[n] # "assert" => main'[n] \in InInit
               /\ thr[n] = "assert" => main'[n] = main[n]
    <3>1. CASE MainThread(m)
      BY <1>1, <3>1 DEF MainThread, Spawn, WaitInit, PostWarmup, WarmupOver, Terminate, Join, Alive,
                        SyncTogether
    <3>2. CASE WakeSpuriously(m) \/ clh_finalize(m)
      BY <1>1, <3>2 DEF Alive, WakeSpuriously, clh_finalize
    <3> QED
      BY <2>3, <3>1, <3>2
  <2>4. ASSUME FenceComplete  PROVE
               /\ main'[n] = "done" => thr'[n] = "exited"
               /\ thr'[n] = "assert" /\ thr[n] # "assert" => main'[n] \in InInit
               /\ thr[n] = "assert" => main'[n] = main[n]
    BY <1>1, <2>4 DEF FenceComplete, Arrived, Alive, Fences, AfterFence
  <2>5. ASSUME NEW m \in Nodes, SyncFails(m) \/ MainFenceFails(m)  PROVE
               /\ main'[n] = "done" => thr'[n] = "exited"
               /\ thr'[n] = "assert" /\ thr[n] # "assert" => main'[n] \in InInit
               /\ thr[n] = "assert" => main'[n] = main[n]
    BY <1>1, <2>5 DEF SyncFails, MainFenceFails, Alive, AfterFence, SyncTogether, WarmedTogether
  <2>6. CASE UNCHANGED vars
    BY <1>1, <2>6 DEF vars
  <2> QED
    BY <1>4, <2>2, <2>3, <2>4, <2>5, <2>6 DEF Next
<1>5. thr[n] = "assert" /\ n \notin waited => n \notin waited'
  BY DEF NetNext, NetRunThread, NetMainThread, Surroundings, StartSend, PeerGone, Leave, Close,
         Warmup, WarmupEnds, Finalize, clh_finalize, Alive, Serve, clh_recv, clh_send, SendEnds,
         traffic, netVars
<1> QED
  BY <1>1, <1>3, <1>4, <1>5, StepImplements
-----------------------------------------------------------------------------
(* The invariant is inductive, and a fence that went without a main thread *)
(* stays so.                                                               *)
LEMMA StepNInv == SeveralNodes /\ NInv /\ [NetNext]_netVars /\ MainsMet' => NInv'
BY StepStartup, StepWhere, StepRunning, StepPhases, StepApart, StepPatient, StepDeaths DEF NInv

LEMMA NetMissedForGood ==
  ASSUME skipped \in [Nodes -> SUBSET Fences], [NetNext]_netVars
  PROVE  skipped' \in [Nodes -> SUBSET Fences] /\ (MainsMet' => MainsMet)
<1>1. CASE skipped' = skipped
  BY <1>1 DEF MainsMet
<1>2. ASSUME NEW n \in Nodes, SyncFails(n) \/ MainFenceFails(n)
      PROVE  skipped' \in [Nodes -> SUBSET Fences] /\ (MainsMet' => MainsMet)
  <2>1. PICK f \in Fences : skipped' = [skipped EXCEPT ![n] = @ \cup {f}]
    BY <1>2 DEF SyncFails, MainFenceFails, Fences
  <2> QED
    BY <2>1 DEF MainsMet
<1>3. CASE UNCHANGED vars
  BY <1>1, <1>3 DEF vars
<1>4. ASSUME NEW n \in Nodes, NetRunThread(n)  PROVE skipped' = skipped
  BY <1>4 DEF NetRunThread, Publish, Connect, SetRun, Notify, StartSend, PeerGone, Leave, LeaveLoop,
              Close, ucx_finalize, vars
<1>5. ASSUME NEW n \in Nodes, NetMainThread(n)  PROVE skipped' = skipped
  BY <1>5 DEF NetMainThread, Spawn, WaitInit, Warmup, PostWarmup, WarmupEnds, Terminate, Join
<1>6. ASSUME NEW n \in Nodes, InitFails(n) \/ WakeSpuriously(n) \/ Finalize(n)
      PROVE  skipped' = skipped
  BY <1>6 DEF InitFails, WakeSpuriously, Finalize, clh_finalize
<1>7. CASE FenceComplete
  BY <1>1, <1>7 DEF FenceComplete
<1> QED
  BY <1>1, <1>2, <1>3, <1>4, <1>5, <1>6, <1>7
     DEF NetNext, Surroundings, Serve, clh_recv, clh_send, SendEnds, netVars

(* In a job of several nodes the invariant holds until a main thread goes  *)
(* on without its fence.                                                   *)
THEOREM NetInvariance == ASSUME SeveralNodes PROVE NetSpec => [](MainsMet => NInv)
<1> DEFINE K == skipped \in [Nodes -> SUBSET Fences] /\ (MainsMet => NInv)
<1>1. K /\ [NetNext]_netVars => K'
  <2> SUFFICES ASSUME K, [NetNext]_netVars  PROVE K'
    OBVIOUS
  <2>1. skipped' \in [Nodes -> SUBSET Fences] /\ (MainsMet' => MainsMet)
    BY NetMissedForGood
  <2> QED
    BY <2>1, StepNInv
<1>2. NetInit => K
  BY NetInitInvariant
<1>3. K => (MainsMet => NInv)
  OBVIOUS
<1> QED
  BY <1>1, <1>2, <1>3, PTL DEF NetSpec

(* Every receive of any node gets a message that was meant for it, through *)
(* the encoding of tags, the masks, and any order of threads: the warm-up  *)
(* receives a warm-up message, the application one of its own.             *)
THEOREM ReceivesTheRight == ASSUME SeveralNodes PROVE NetSpec => []RightMessage
<1>1. ASSUME MainsMet => NInv  PROVE RightMessage
  <2>1. ASSUME MainsMet, NEW r \in Receives, got[r] # None
        PROVE  /\ got[r] \in Messages /\ got[r].dst = r.at /\ Takes(r, got[r])
               /\ got[r].id = 0 <=> r.id = 0
    BY <1>1, <2>1 DEF NInv, TrafficType, Placed, Received, Apart
  <2> QED
    BY <2>1, TakesMeans DEF RightMessage
<1> QED
  BY <1>1, NetInvariance, PTL

(* No node closes its endpoints while a request is outstanding of an       *)
(* application that waits for its requests.                                *)
THEOREM ClosesSafely == ASSUME SeveralNodes PROVE NetSpec => []SafeClose
<1>1. (MainsMet => NInv) => SafeClose
  BY DEF NInv, IInv, LoopWhileRunning, MainsTogether, Patient, SafeClose
<1> QED
  BY <1>1, NetInvariance, PTL

(* A node whose application waited for its requests survives the closing   *)
(* of its peers' endpoints.                                                *)
THEOREM PatientSurvive == ASSUME SeveralNodes PROVE NetSpec => []OnlyTheHastyDie
<1>1. (MainsMet => NInv) => OnlyTheHastyDie
  BY DEF NInv, IInv, TypeOK, SyncTogether, Deaths, Alive, OnlyTheHastyDie
<1> QED
  BY <1>1, NetInvariance, PTL

(* With real queues and a real warm-up, a job takes Startup's steps, and   *)
(* no other but the death of a node whose peer is gone.                    *)
THEOREM GoesThroughStartup == ASSUME SeveralNodes PROVE NetSpec => ImplementsStartup
<1>1. NetInit => Init
  BY DEF NetInit
<1>2. (MainsMet => NInv) /\ [NetNext]_netVars =>
        [MainsMet => Next \/ \E n \in Nodes : PeerGone(n)]_vars
  BY StepImplements
<1> QED
  BY <1>1, <1>2, NetInvariance, PTL DEF NetSpec, ImplementsStartup
=============================================================================

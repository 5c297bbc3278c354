-------------------------------- MODULE Tags ---------------------------------
(***************************************************************************)
(* The 64-bit tag of a message: protocol.c and protocol.h, and the masks   *)
(* the calls of clh.c build.                                               *)
(*                                                                         *)
(* An unsigned integer is the set of the places of its one bits, 0 for the *)
(* lowest: | is union, & is intersection, a shift moves places, and a cast *)
(* drops the places beyond its width.                                      *)
(***************************************************************************)
EXTENDS Integers

CONSTANTS
  TagBits,          \* width of clh_u64
  CHANNEL_OFFSET,   \* first place of the channel's field
  SENDER_ID_OFFSET, \* first place of the sender's field
  U32Bits           \* width of clh_u32 and clh_i32

(* The user's tag fills the places below the sender, and each field fits   *)
(* the type it is decoded to.                                              *)
ASSUME TagLayout ==
  /\ TagBits \in Nat /\ CHANNEL_OFFSET \in Nat /\ SENDER_ID_OFFSET \in Nat
  /\ SENDER_ID_OFFSET = U32Bits
  /\ SENDER_ID_OFFSET <= CHANNEL_OFFSET /\ CHANNEL_OFFSET <= TagBits
  /\ CHANNEL_OFFSET - SENDER_ID_OFFSET <= U32Bits /\ TagBits - CHANNEL_OFFSET <= U32Bits

u32 == 0 .. U32Bits - 1
u64 == 0 .. TagBits - 1
SENDER_ID_MASK == SENDER_ID_OFFSET .. CHANNEL_OFFSET - 1
CHANNEL_MASK == CHANNEL_OFFSET .. TagBits - 1

ShiftLeft(x, k) == {i \in u64 : i - k \in x}
ShiftRight(x, k) == {i \in u64 : i + k \in x}

clh_encode_tag(channel, sender_id, sender_tag) ==
  ShiftLeft(channel, CHANNEL_OFFSET) \cup ShiftLeft(sender_id, SENDER_ID_OFFSET) \cup sender_tag

clh_decode_tag(tag) ==
  [channel    |-> ShiftRight(tag \cap CHANNEL_MASK, CHANNEL_OFFSET) \cap u32,
   sender_id  |-> ShiftRight(tag \cap SENDER_ID_MASK, SENDER_ID_OFFSET) \cap u32,
   sender_tag |-> tag \cap u32]

(* What a receive or a probe asks for, and the compare of message_search   *)
(* and of UCX.  "Wrong" names a faulty variant of the definition that      *)
(* follows: the checked properties tell it from the code.                  *)
MaskAnySource(tag_mask) == CHANNEL_MASK \cup tag_mask

MaskWrongNoSender(tag_mask) == CHANNEL_MASK \cup tag_mask
MaskOneSource(tag_mask) == CHANNEL_MASK \cup SENDER_ID_MASK \cup tag_mask

Passes(full_tag, tag, mask) == full_tag \cap mask = tag \cap mask

(* The values that fit their fields.                                       *)
ChannelFits(channel) == channel \subseteq 0 .. TagBits - CHANNEL_OFFSET - 1
SenderFits(sender_id) == sender_id \subseteq 0 .. CHANNEL_OFFSET - SENDER_ID_OFFSET - 1
=============================================================================

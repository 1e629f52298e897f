--------------------------- MODULE MCChannelInbound ---------------------------
(* Small instances of ChannelInbound.                                      *)
EXTENDS ChannelInbound, TLC

CONSTANTS t1

OneConversation == [m \in Message |-> t1]

Interchangeable ==
  Permutations(Delivery) \cup Permutations(Session) \cup Permutations(Message)
=============================================================================

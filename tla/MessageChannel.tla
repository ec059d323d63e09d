--------------------------- MODULE MessageChannel ----------------------------
(* What the chunk layer of a connection promises: messages arrive as they    *)
(* were sent, in the order in which they were completed, none twice and none *)
(* left out, until the connection fails, if it does.                         *)
EXTENDS Naturals, Sequences

CONSTANT Messages

VARIABLES
  sent,      \* messages completed by the sender
  delivered, \* messages handed on by the receiver
  failed     \* the receiver has given the connection up

Init == sent = <<>> /\ delivered = <<>> /\ failed = FALSE

Complete ==
  /\ Len(sent') = Len(sent) + 1 /\ SubSeq(sent', 1, Len(sent)) = sent
  /\ sent'[Len(sent')] \in Messages
  /\ UNCHANGED <<delivered, failed>>

Deliver ==
  /\ ~failed /\ Len(delivered) < Len(sent)
  /\ delivered' = Append(delivered, sent[Len(delivered) + 1])
  /\ UNCHANGED <<sent, failed>>

Fail == ~failed /\ failed' = TRUE /\ UNCHANGED <<sent, delivered>>

Next == Complete \/ Deliver \/ Fail

Spec == Init /\ [][Next]_<<sent, delivered, failed>>
=============================================================================

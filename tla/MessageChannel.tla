--------------------------- MODULE MessageChannel ---------------------------
(***************************************************************************)
(* What one direction of a connection promises: the payloads handed to it  *)
(* come out whole, once and in order, each as the one message it encodes   *)
(* or, if it encodes none, as malformed.  It may stop at any point.        *)
(***************************************************************************)
EXTENDS Naturals, Sequences

CONSTANTS
  Payloads,    \* what senders hand over
  Messages,    \* the messages
  Malformed,
  Encode(_)    \* the payload of a message

VARIABLES
  accepted,    \* payloads taken on, in order
  received     \* what became of them at the other end, in order

\* The message a payload stands for, if any.
Meaning(p) ==
  IF \E m \in Messages : Encode(m) = p
  THEN CHOOSE m \in Messages : Encode(m) = p
  ELSE Malformed

Take(p) ==
  /\ accepted' = Append(accepted, p)
  /\ UNCHANGED received

Deliver ==
  /\ Len(received) < Len(accepted)
  /\ received' = Append(received, Meaning(accepted[Len(received) + 1]))
  /\ UNCHANGED accepted

ChannelInit == accepted = <<>> /\ received = <<>>
ChannelNext == (\E p \in Payloads : Take(p)) \/ Deliver
ChannelSpec == ChannelInit /\ [][ChannelNext]_<<accepted, received>>

=============================================================================

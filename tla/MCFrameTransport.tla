-------------------------- MODULE MCFrameTransport --------------------------
(***************************************************************************)
(* FrameTransport for TLC: messages at and over every limit, and payloads  *)
(* that are almost a message.                                              *)
(***************************************************************************)
EXTENDS FrameTransport

Msg(s1, s2, blob) ==
  [type |-> 5, a |-> 1, b |-> 1, c |-> 0, d |-> 2, s1 |-> s1, s2 |-> s2, blob |-> blob]

MCMessages ==
  { Msg(<<>>, <<>>, <<>>),
    Msg(<<1>>, <<>>, <<2>>),
    Msg(<<1>>, <<1>>, <<2>>) }                      \* more than a frame holds

MCPayloads ==
  { Encode(m) : m \in MCMessages }
  \cup { Encode(Msg(<<1, 1>>, <<>>, <<>>)),         \* a text decode refuses
         Encode(Msg(<<>>, <<>>, <<>>)) \o <<0>>,    \* a trailing word
         <<5, 1, 1, 0, 2, 0, 1, 0>>,                \* a text that overruns
         <<5, 1>>,                                  \* shorter than its fixed part
         <<>> }

=============================================================================

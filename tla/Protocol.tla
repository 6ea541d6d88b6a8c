------------------------------ MODULE Protocol ------------------------------
(***************************************************************************)
(* The message codec of the distributed proof (protocol.cpp): a message is *)
(* a type, four numbers, two texts and a blob, and a payload a sequence of *)
(* words.  A field of fixed width is one word here; a text or a blob is a  *)
(* length word and its contents.                                           *)
(***************************************************************************)
EXTENDS Naturals, Sequences

CONSTANTS
  StrMax,     \* kStrMax: the longest text decode accepts
  BlobMax,    \* kBlobMax: the longest blob decode accepts
  Malformed   \* decode returned false

ASSUME LimitsAssumption == StrMax \in Nat /\ BlobMax \in Nat

Message ==
  [type: Nat, a: Nat, b: Nat, c: Nat, d: Nat,
   s1: Seq(Nat), s2: Seq(Nat), blob: Seq(Nat)]

\* The words before the first text: type, a, b, c and d.
Fixed == 5

\* put_str and put_blob.
Put(text) == <<Len(text)>> \o text

\* encode: texts of any length are written.
Encode(m) ==
  <<m.type, m.a, m.b, m.c, m.d>> \o Put(m.s1) \o Put(m.s2) \o Put(m.blob)

\* get_str and get_blob: the text that starts at pos and the position after it,
\* which is 0 once anything was out of bounds.
Get(p, pos, max) ==
  IF pos # 0 /\ pos <= Len(p) /\ p[pos] <= max /\ pos + p[pos] <= Len(p)
  THEN [text |-> SubSeq(p, pos + 1, pos + p[pos]), next |-> pos + p[pos] + 1]
  ELSE [text |-> <<>>, next |-> 0]

\* Mutant: words after the message are ignored.
DecodeLeniently(p) ==
  LET s1 == Get(p, Fixed + 1, StrMax)
      s2 == Get(p, s1.next, StrMax)
      blob == Get(p, s2.next, BlobMax)
  IN IF Len(p) >= Fixed /\ blob.next # 0
     THEN [type |-> p[1], a |-> p[2], b |-> p[3], c |-> p[4], d |-> p[5],
           s1 |-> s1.text, s2 |-> s2.text, blob |-> blob.text]
     ELSE Malformed

\* decode.
Decode(p) ==
  LET s1 == Get(p, Fixed + 1, StrMax)
      s2 == Get(p, s1.next, StrMax)
      blob == Get(p, s2.next, BlobMax)
  IN IF Len(p) >= Fixed /\ blob.next = Len(p) + 1
     THEN [type |-> p[1], a |-> p[2], b |-> p[3], c |-> p[4], d |-> p[5],
           s1 |-> s1.text, s2 |-> s2.text, blob |-> blob.text]
     ELSE Malformed

\* A message decode can give back.
WithinLimits(m) ==
  /\ Len(m.s1) <= StrMax
  /\ Len(m.s2) <= StrMax
  /\ Len(m.blob) <= BlobMax

=============================================================================

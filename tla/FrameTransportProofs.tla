------------------------ MODULE FrameTransportProofs ------------------------
(***************************************************************************)
(* The framed connection implements the message channel, for every set of  *)
(* payloads and messages, every limit, every size of the socket's buffer   *)
(* and any number of frames: send_frame, recv_frame and decode agree       *)
(* whatever the socket splits, loses or damages.                           *)
(***************************************************************************)
EXTENDS FrameTransport, Integers, TLAPS

-----------------------------------------------------------------------------
(***************************************************************************)
(* Sequences of a known length.  SeqOf stays folded in the proofs below,   *)
(* which look at sequences only through these lemmas.                      *)
(***************************************************************************)
SeqOf(T, n) == {s \in Seq(T) : Len(s) = n}

\* w is the m elements of s and then the n elements of t.
Joins(w, s, m, t, n) ==
  /\ \A i \in 1..m : w[i] = s[i]
  /\ \A i \in 1..n : w[m + i] = t[i]

\* An element of a concatenation comes from one of its parts.
LEMMA ConcatAt ==
  ASSUME NEW T, NEW m \in Nat, NEW n \in Nat, NEW s \in SeqOf(T, m), NEW t \in SeqOf(T, n)
  PROVE  s \o t \in SeqOf(T, m + n) /\ Joins(s \o t, s, m, t, n)
BY DEF SeqOf, Joins

\* Two sequences with the same elements are the same.
LEMMA SeqEqual ==
  ASSUME NEW T, NEW n \in Nat, NEW s \in SeqOf(T, n), NEW t \in SeqOf(T, n),
         \A i \in 1..n : s[i] = t[i]
  PROVE  s = t
BY DEF SeqOf

\* An element of a part of a sequence.
LEMMA SubSeqAt ==
  ASSUME NEW T, NEW n \in Nat, NEW s \in SeqOf(T, n),
         NEW a \in Nat, NEW b \in Nat, a + b <= n
  PROVE  /\ SubSeq(s, a + 1, a + b) \in SeqOf(T, b)
         /\ \A i \in 1..b : SubSeq(s, a + 1, a + b)[i] = s[a + i]
BY DEF SeqOf

\* A sequence has its length, and its elements their type.
LEMMA SeqParts ==
  ASSUME NEW T, NEW n \in Nat, NEW s \in SeqOf(T, n)
  PROVE  s \in Seq(T) /\ Len(s) = n /\ DOMAIN s = 1..n /\ \A i \in 1..n : s[i] \in T
BY DEF SeqOf

\* Every sequence is one of its own length.
LEMMA SeqFits ==
  ASSUME NEW T, NEW s \in Seq(T)
  PROVE  Len(s) \in Nat /\ s \in SeqOf(T, Len(s))
BY DEF SeqOf

-----------------------------------------------------------------------------
(***************************************************************************)
(* The codec: decode undoes encode, and accepts nothing else.              *)
(***************************************************************************)

\* put_str and put_blob write a length and then the text.
LEMMA PutAt ==
  ASSUME NEW n \in Nat, NEW t \in SeqOf(Nat, n)
  PROVE  /\ Put(t) \in SeqOf(Nat, n + 1)
         /\ Put(t)[1] = n
         /\ \A i \in 1..n : Put(t)[i + 1] = t[i]
BY DEF Put, SeqOf

\* A text of n words lies in payload p after pos words.
Holds(p, pos, t, n) ==
  /\ p[pos + 1] = n
  /\ \A i \in 1..n : p[pos + 1 + i] = t[i]

\* get_str and get_blob read the text that lies there.
LEMMA GetHeld ==
  ASSUME NEW k \in Nat, NEW p \in SeqOf(Nat, k), NEW pos \in Nat,
         NEW n \in Nat, NEW t \in SeqOf(Nat, n), NEW max \in Nat,
         Holds(p, pos, t, n), n <= max, pos + 1 + n <= k
  PROVE  /\ Get(p, pos + 1, max).text = t
         /\ Get(p, pos + 1, max).next = pos + n + 2
<1> DEFINE u == SubSeq(p, (pos + 1) + 1, (pos + 1) + n)
<1>1. Len(p) = k
  BY SeqParts
<1>2. Get(p, pos + 1, max) = [text |-> u, next |-> pos + 1 + n + 1]
  BY <1>1 DEF Get, Holds
<1>3. u \in SeqOf(Nat, n) /\ \A i \in 1..n : u[i] = p[(pos + 1) + i]
  BY SubSeqAt
<1> HIDE DEF u
<1>4. u = t
  BY <1>3, SeqEqual DEF Holds
<1> QED BY <1>2, <1>4

\* get_str and get_blob read a text only where there is one.
LEMMA HeldGot ==
  ASSUME NEW k \in Nat, NEW p \in SeqOf(Nat, k), NEW pos \in Nat, NEW max \in Nat,
         Get(p, pos, max).next # 0
  PROVE  \E n \in Nat :
           /\ pos \in 1..k /\ n <= max /\ pos + n <= k
           /\ Get(p, pos, max).text \in SeqOf(Nat, n)
           /\ Get(p, pos, max).next = pos + n + 1
           /\ Holds(p, pos - 1, Get(p, pos, max).text, n)
<1>1. Len(p) = k /\ \A i \in 1..k : p[i] \in Nat
  BY SeqParts
<1>2. pos # 0 /\ pos <= k /\ p[pos] <= max /\ pos + p[pos] <= k
  BY <1>1 DEF Get
<1>3. p[pos] \in Nat
  BY <1>1, <1>2
<1> DEFINE n == p[pos]
           u == SubSeq(p, pos + 1, pos + n)
<1>4. Get(p, pos, max) = [text |-> u, next |-> pos + n + 1]
  BY <1>1, <1>2 DEF Get
<1>5. n \in Nat /\ pos \in 1..k /\ n <= max /\ pos + n <= k /\ p[pos] = n
  BY <1>2, <1>3
<1> HIDE DEF n
<1>6. u \in SeqOf(Nat, n) /\ \A i \in 1..n : u[i] = p[pos + i]
  BY <1>5, SubSeqAt
<1> HIDE DEF u
<1>7. Holds(p, pos - 1, u, n)
  BY <1>5, <1>6 DEF Holds
<1>8. Get(p, pos, max).text = u /\ Get(p, pos, max).next = pos + n + 1
  BY <1>4
<1> QED BY <1>5, <1>6, <1>7, <1>8

\* Where the words of encode(m) are.
LEMMA EncodeAt ==
  ASSUME NEW m, NEW n1 \in Nat, NEW n2 \in Nat, NEW n3 \in Nat,
         m.type \in Nat, m.a \in Nat, m.b \in Nat, m.c \in Nat, m.d \in Nat,
         m.s1 \in SeqOf(Nat, n1), m.s2 \in SeqOf(Nat, n2), m.blob \in SeqOf(Nat, n3)
  PROVE  /\ Encode(m) \in SeqOf(Nat, 8 + n1 + n2 + n3)
         /\ Encode(m)[1] = m.type /\ Encode(m)[2] = m.a /\ Encode(m)[3] = m.b
         /\ Encode(m)[4] = m.c /\ Encode(m)[5] = m.d
         /\ Holds(Encode(m), 5, m.s1, n1)
         /\ Holds(Encode(m), 6 + n1, m.s2, n2)
         /\ Holds(Encode(m), 7 + n1 + n2, m.blob, n3)
<1> DEFINE f == <<m.type, m.a, m.b, m.c, m.d>>
           x == Put(m.s1)
           y == Put(m.s2)
           z == Put(m.blob)
           fx == f \o x
           fxy == fx \o y
           e == fxy \o z
<1>1. /\ f \in SeqOf(Nat, 5)
      /\ f[1] = m.type /\ f[2] = m.a /\ f[3] = m.b /\ f[4] = m.c /\ f[5] = m.d
  BY DEF SeqOf
<1>2. /\ 5 \in Nat /\ n1 + 1 \in Nat /\ n2 + 1 \in Nat /\ n3 + 1 \in Nat
      /\ 5 + (n1 + 1) \in Nat /\ (5 + (n1 + 1)) + (n2 + 1) \in Nat
  OBVIOUS
<1>3. /\ x \in SeqOf(Nat, n1 + 1) /\ x[1] = n1 /\ \A i \in 1..n1 : x[i + 1] = m.s1[i]
      /\ y \in SeqOf(Nat, n2 + 1) /\ y[1] = n2 /\ \A i \in 1..n2 : y[i + 1] = m.s2[i]
      /\ z \in SeqOf(Nat, n3 + 1) /\ z[1] = n3 /\ \A i \in 1..n3 : z[i + 1] = m.blob[i]
  BY PutAt
<1>6. e = Encode(m)
  BY DEF Encode
<1> HIDE DEF f, x, y, z
<1>7. fx \in SeqOf(Nat, 5 + (n1 + 1)) /\ Joins(fx, f, 5, x, n1 + 1)
  BY <1>1, <1>2, <1>3, ConcatAt
<1> HIDE DEF fx
<1>8. /\ fxy \in SeqOf(Nat, (5 + (n1 + 1)) + (n2 + 1))
      /\ Joins(fxy, fx, 5 + (n1 + 1), y, n2 + 1)
  BY <1>2, <1>3, <1>7, ConcatAt
<1> HIDE DEF fxy
<1>9. /\ e \in SeqOf(Nat, ((5 + (n1 + 1)) + (n2 + 1)) + (n3 + 1))
      /\ Joins(e, fxy, (5 + (n1 + 1)) + (n2 + 1), z, n3 + 1)
  BY <1>2, <1>3, <1>8, ConcatAt
<1> HIDE DEF e
<1>10. e[1] = m.type /\ e[2] = m.a /\ e[3] = m.b /\ e[4] = m.c /\ e[5] = m.d
  BY <1>1, <1>7, <1>8, <1>9 DEF Joins
<1>11. Holds(e, 5, m.s1, n1)
  BY <1>3, <1>7, <1>8, <1>9 DEF Holds, Joins
<1>12. Holds(e, 6 + n1, m.s2, n2)
  BY <1>3, <1>8, <1>9 DEF Holds, Joins
<1>13. Holds(e, 7 + n1 + n2, m.blob, n3)
  BY <1>3, <1>9 DEF Holds, Joins
<1>14. (5 + (n1 + 1)) + (n2 + 1) + (n3 + 1) = 8 + n1 + n2 + n3
  OBVIOUS
<1> QED BY <1>6, <1>9, <1>10, <1>11, <1>12, <1>13, <1>14

\* decode gives back every message within the limits.
LEMMA DecodeEncode ==
  ASSUME NEW m \in Message, WithinLimits(m)
  PROVE  Decode(Encode(m)) = m
<1> DEFINE n1 == Len(m.s1)
           n2 == Len(m.s2)
           n3 == Len(m.blob)
           e == Encode(m)
           s1 == Get(e, Fixed + 1, StrMax)
           s2 == Get(e, s1.next, StrMax)
           blob == Get(e, s2.next, BlobMax)
<1>0. m = [type |-> m.type, a |-> m.a, b |-> m.b, c |-> m.c, d |-> m.d,
           s1 |-> m.s1, s2 |-> m.s2, blob |-> m.blob]
  BY DEF Message
<1>1. /\ n1 \in Nat /\ n2 \in Nat /\ n3 \in Nat
      /\ m.s1 \in SeqOf(Nat, n1) /\ m.s2 \in SeqOf(Nat, n2) /\ m.blob \in SeqOf(Nat, n3)
      /\ m.type \in Nat /\ m.a \in Nat /\ m.b \in Nat /\ m.c \in Nat /\ m.d \in Nat
  BY SeqFits DEF Message
<1>2. n1 <= StrMax /\ n2 <= StrMax /\ n3 <= BlobMax /\ StrMax \in Nat /\ BlobMax \in Nat
  BY LimitsAssumption DEF WithinLimits
<1>3. Decode(e) =
        IF Len(e) >= Fixed /\ blob.next = Len(e) + 1
        THEN [type |-> e[1], a |-> e[2], b |-> e[3], c |-> e[4], d |-> e[5],
              s1 |-> s1.text, s2 |-> s2.text, blob |-> blob.text]
        ELSE Malformed
  BY DEF Decode
<1> HIDE DEF n1, n2, n3
<1>4. /\ e \in SeqOf(Nat, 8 + n1 + n2 + n3)
      /\ e[1] = m.type /\ e[2] = m.a /\ e[3] = m.b /\ e[4] = m.c /\ e[5] = m.d
      /\ Holds(e, 5, m.s1, n1)
      /\ Holds(e, 6 + n1, m.s2, n2)
      /\ Holds(e, 7 + n1 + n2, m.blob, n3)
  BY <1>1, EncodeAt
<1>5. Len(e) = 8 + n1 + n2 + n3
  BY <1>1, <1>4, SeqParts
<1> HIDE DEF e
<1>6. s1.text = m.s1 /\ s1.next = (6 + n1) + 1
  <2>1. Fixed + 1 = 5 + 1 /\ 5 + n1 + 2 = (6 + n1) + 1
        /\ 5 + 1 + n1 <= 8 + n1 + n2 + n3 /\ 8 + n1 + n2 + n3 \in Nat
    BY <1>1 DEF Fixed
  <2> QED BY <1>1, <1>2, <1>4, <2>1, GetHeld
<1> HIDE DEF s1
<1>7. s2.text = m.s2 /\ s2.next = (7 + n1 + n2) + 1
  <2>1. 6 + n1 \in Nat /\ 6 + n1 + n2 + 2 = (7 + n1 + n2) + 1
        /\ 6 + n1 + 1 + n2 <= 8 + n1 + n2 + n3 /\ 8 + n1 + n2 + n3 \in Nat
    BY <1>1
  <2> QED BY <1>1, <1>2, <1>4, <1>6, <2>1, GetHeld
<1> HIDE DEF s2
<1>8. blob.text = m.blob /\ blob.next = 8 + n1 + n2 + n3 + 1
  <2>1. 7 + n1 + n2 \in Nat /\ 7 + n1 + n2 + n3 + 2 = 8 + n1 + n2 + n3 + 1
        /\ 7 + n1 + n2 + 1 + n3 <= 8 + n1 + n2 + n3 /\ 8 + n1 + n2 + n3 \in Nat
    BY <1>1
  <2> QED BY <1>1, <1>2, <1>4, <1>7, <2>1, GetHeld
<1> HIDE DEF blob
<1>9. Len(e) >= Fixed /\ blob.next = Len(e) + 1
  BY <1>1, <1>5, <1>8 DEF Fixed
<1>10. Decode(e) = m
  BY <1>0, <1>3, <1>4, <1>6, <1>7, <1>8, <1>9
<1> QED BY <1>10 DEF e

\* The position before the first text of a payload is not 0 when decode goes on.
LEMMA NextHeld ==
  ASSUME NEW p, NEW max
  PROVE  Get(p, 0, max).next = 0
BY DEF Get

\* Two payloads with the same words before the texts and the same texts are equal.
LEMMA SamePayload ==
  ASSUME NEW n1 \in Nat, NEW n2 \in Nat, NEW n3 \in Nat, NEW k, k = 8 + n1 + n2 + n3,
         NEW p \in SeqOf(Nat, k), NEW q \in SeqOf(Nat, k),
         p[1] = q[1], p[2] = q[2], p[3] = q[3], p[4] = q[4], p[5] = q[5],
         NEW t1, NEW t2, NEW t3,
         Holds(p, 5, t1, n1), Holds(p, 6 + n1, t2, n2), Holds(p, 7 + n1 + n2, t3, n3),
         Holds(q, 5, t1, n1), Holds(q, 6 + n1, t2, n2), Holds(q, 7 + n1 + n2, t3, n3)
  PROVE  p = q
<1>1. ASSUME NEW i \in 1..k PROVE p[i] = q[i]
  <2>1. CASE i <= 5
    BY <2>1
  <2>2. CASE i = 6
    BY <2>2 DEF Holds
  <2>3. CASE i \in 7..(6 + n1)
    <3>1. i - 6 \in 1..n1 /\ 5 + 1 + (i - 6) = i
      BY <2>3
    <3> QED BY <3>1 DEF Holds
  <2>4. CASE i = 7 + n1
    <3>1. 6 + n1 + 1 = i
      BY <2>4
    <3> QED BY <3>1 DEF Holds
  <2>5. CASE i \in (8 + n1)..(7 + n1 + n2)
    <3>1. i - 7 - n1 \in 1..n2 /\ 6 + n1 + 1 + (i - 7 - n1) = i
      BY <2>5
    <3> QED BY <3>1 DEF Holds
  <2>6. CASE i = 8 + n1 + n2
    <3>1. 7 + n1 + n2 + 1 = i
      BY <2>6
    <3> QED BY <3>1 DEF Holds
  <2>7. CASE i \in (9 + n1 + n2)..(8 + n1 + n2 + n3)
    <3>1. i - 8 - n1 - n2 \in 1..n3 /\ 7 + n1 + n2 + 1 + (i - 8 - n1 - n2) = i
      BY <2>7
    <3> QED BY <3>1 DEF Holds
  <2> QED BY <2>1, <2>2, <2>3, <2>4, <2>5, <2>6, <2>7
<1>2. k \in Nat
  OBVIOUS
<1> QED BY <1>1, <1>2, SeqEqual

\* decode accepts nothing but what encode writes.
LEMMA EncodeDecode ==
  ASSUME NEW p \in Seq(Nat), Decode(p) # Malformed
  PROVE  Encode(Decode(p)) = p
<1> DEFINE k == Len(p)
           s1 == Get(p, Fixed + 1, StrMax)
           s2 == Get(p, s1.next, StrMax)
           blob == Get(p, s2.next, BlobMax)
           m == [type |-> p[1], a |-> p[2], b |-> p[3], c |-> p[4], d |-> p[5],
                 s1 |-> s1.text, s2 |-> s2.text, blob |-> blob.text]
<1>1. k \in Nat /\ p \in SeqOf(Nat, k) /\ StrMax \in Nat /\ BlobMax \in Nat
  BY SeqFits, LimitsAssumption
<1>2. k >= Fixed /\ blob.next = k + 1 /\ Decode(p) = m
  BY DEF Decode
<1> HIDE DEF k
<1>3. blob.next # 0
  BY <1>1, <1>2
<1>4. s2.next # 0
  BY <1>3, NextHeld
<1>5. s1.next # 0
  BY <1>4, NextHeld
<1>6. Fixed + 1 \in Nat /\ Fixed + 1 = 6
  BY DEF Fixed
<1>7. PICK n1 \in Nat :
        /\ s1.text \in SeqOf(Nat, n1) /\ s1.next = (Fixed + 1) + n1 + 1
        /\ Holds(p, (Fixed + 1) - 1, s1.text, n1)
  BY <1>1, <1>5, <1>6, HeldGot
<1>8. s1.next = 7 + n1 /\ s1.next \in Nat /\ Holds(p, 5, s1.text, n1)
  BY <1>6, <1>7
<1> HIDE DEF s1
<1>9. PICK n2 \in Nat :
        /\ s2.text \in SeqOf(Nat, n2) /\ s2.next = s1.next + n2 + 1
        /\ Holds(p, s1.next - 1, s2.text, n2)
  BY <1>1, <1>4, <1>8, HeldGot
<1>10. s2.next = 8 + n1 + n2 /\ s2.next \in Nat /\ Holds(p, 6 + n1, s2.text, n2)
  <2>1. s1.next - 1 = 6 + n1
    BY <1>8
  <2> QED BY <1>8, <1>9, <2>1
<1> HIDE DEF s2
<1>11. PICK n3 \in Nat :
        /\ blob.text \in SeqOf(Nat, n3) /\ blob.next = s2.next + n3 + 1
        /\ Holds(p, s2.next - 1, blob.text, n3)
  BY <1>1, <1>3, <1>10, HeldGot
<1>12. k = 8 + n1 + n2 + n3 /\ Holds(p, 7 + n1 + n2, blob.text, n3)
  <2>1. s2.next - 1 = 7 + n1 + n2
    BY <1>10
  <2> QED BY <1>1, <1>2, <1>10, <1>11, <2>1
<1> HIDE DEF blob
<1>13. p[1] \in Nat /\ p[2] \in Nat /\ p[3] \in Nat /\ p[4] \in Nat /\ p[5] \in Nat
  <2>1. \A i \in 1..k : p[i] \in Nat
    BY <1>1, SeqParts
  <2> QED BY <1>12, <2>1
<1>14. /\ m.type = p[1] /\ m.a = p[2] /\ m.b = p[3] /\ m.c = p[4] /\ m.d = p[5]
       /\ m.s1 = s1.text /\ m.s2 = s2.text /\ m.blob = blob.text
  OBVIOUS
<1> HIDE DEF m
<1>15. /\ Encode(m) \in SeqOf(Nat, 8 + n1 + n2 + n3)
       /\ Encode(m)[1] = m.type /\ Encode(m)[2] = m.a /\ Encode(m)[3] = m.b
       /\ Encode(m)[4] = m.c /\ Encode(m)[5] = m.d
       /\ Holds(Encode(m), 5, m.s1, n1)
       /\ Holds(Encode(m), 6 + n1, m.s2, n2)
       /\ Holds(Encode(m), 7 + n1 + n2, m.blob, n3)
  BY <1>7, <1>9, <1>11, <1>13, <1>14, EncodeAt
<1>16. Encode(m) = p
  <2> DEFINE e == Encode(m)
  <2>1. /\ e \in SeqOf(Nat, k) /\ p \in SeqOf(Nat, k) /\ k = 8 + n1 + n2 + n3
        /\ e[1] = p[1] /\ e[2] = p[2] /\ e[3] = p[3] /\ e[4] = p[4] /\ e[5] = p[5]
    BY <1>1, <1>12, <1>14, <1>15
  <2>2. /\ Holds(e, 5, s1.text, n1) /\ Holds(e, 6 + n1, s2.text, n2)
        /\ Holds(e, 7 + n1 + n2, blob.text, n3)
    BY <1>14, <1>15
  <2> HIDE DEF e
  <2>3. e = p
    BY <1>8, <1>10, <1>12, <2>1, <2>2, SamePayload
  <2> QED BY <2>3 DEF e
<1> QED BY <1>2, <1>16

\* What decode makes of a payload is what the channel means by it: the one
\* message it encodes, or that it is malformed.
THEOREM DecodeIsMeaning ==
  ASSUME NEW p \in Payloads
  PROVE  Decode(p) = Channel!Meaning(p)
<1>1. CASE \E m \in Messages : Encode(m) = p
  <2> DEFINE m == CHOOSE m \in Messages : Encode(m) = p
  <2>1. m \in Messages /\ Encode(m) = p
    BY <1>1
  <2>2. Channel!Meaning(p) = m
    BY <1>1 DEF Channel!Meaning
  <2> HIDE DEF m
  <2>3. m \in Message /\ WithinLimits(m)
    BY <2>1, FramesAssumption
  <2> QED BY <2>1, <2>2, <2>3, DecodeEncode
<1>2. CASE ~\E m \in Messages : Encode(m) = p
  <2>1. Channel!Meaning(p) = Malformed
    BY <1>2 DEF Channel!Meaning
  <2>2. p \in Seq(Nat) /\ Decode(p) \in Messages \cup {Malformed}
    BY FramesAssumption
  <2>3. Decode(p) = Malformed
    BY <1>2, <2>2, EncodeDecode
  <2> QED BY <2>1, <2>3
<1> QED BY <1>1, <1>2

-----------------------------------------------------------------------------
(***************************************************************************)
(* Frames.                                                                 *)
(***************************************************************************)
Unit == {Word(n) : n \in Nat} \cup {Crc(Units(p)) : p \in Seq(Nat)}

Header(n) == <<Word(FrameMagic), Word(FrameVersion), Word(n)>>

\* Words and checksums tell what they are of, and are never the same.
LEMMA UnitKinds ==
  /\ \A n : Word(n).word = n
  /\ \A m, n : Word(m) = Word(n) => m = n
  /\ \A x, y : Crc(x) = Crc(y) => x = y
  /\ \A n, x : Word(n) # Crc(x)
<1>1. \A n : Word(n).word = n
  BY DEF Word
<1>2. \A m, n : Word(m) = Word(n) => m = n
  BY <1>1
<1>3. \A x : Crc(x).crc = x
  BY DEF Crc
<1>4. \A x, y : Crc(x) = Crc(y) => x = y
  BY <1>3
<1>5. \A n, x : Word(n) # Crc(x)
  <2> SUFFICES ASSUME NEW n, NEW x, Word(n) = Crc(x) PROVE FALSE
    OBVIOUS
  <2>1. DOMAIN Word(n) = {"word"} /\ DOMAIN Crc(x) = {"crc"}
    BY DEF Word, Crc
  <2> QED BY <2>1
<1> QED BY <1>1, <1>2, <1>4, <1>5

\* Words are units, and a unit that is a checksum is one of words.
LEMMA UnitTypes ==
  /\ \A n \in Nat : Word(n) \in Unit
  /\ \A p \in Seq(Nat) : Crc(Units(p)) \in Unit
  /\ \A x : Crc(x) \in Unit => \E p \in Seq(Nat) : x = Units(p)
BY UnitKinds DEF Unit

\* The units of a payload are its words.
LEMMA UnitsAt ==
  ASSUME NEW n \in Nat, NEW p \in SeqOf(Nat, n)
  PROVE  /\ Units(p) \in SeqOf(Unit, n)
         /\ \A i \in 1..n : Units(p)[i] = Word(p[i])
         /\ Words(Units(p)) = p
<1>1. p \in Seq(Nat) /\ Len(p) = n /\ DOMAIN p = 1..n /\ \A i \in 1..n : p[i] \in Nat
  BY SeqParts
<1>2. Units(p) = [i \in 1..n |-> Word(p[i])]
  BY <1>1 DEF Units
<1>3. Units(p) \in [1..n -> Unit]
  BY <1>1, <1>2, UnitTypes
<1>4. \A i \in 1..n : Units(p)[i] = Word(p[i])
  BY <1>2
<1>5. Units(p) \in SeqOf(Unit, n)
  <2>1. \A f \in [1..n -> Unit] : f \in Seq(Unit) /\ Len(f) = n
    OBVIOUS
  <2> QED BY <1>3, <2>1 DEF SeqOf
<1>6. Words(Units(p)) = [i \in 1..n |-> p[i]]
  <2>1. DOMAIN Units(p) = 1..n
    BY <1>2
  <2>2. \A i \in 1..n : Units(p)[i].word = p[i]
    BY <1>4, UnitKinds
  <2> QED BY <2>1, <2>2 DEF Words
<1>7. [i \in 1..n |-> p[i]] = p
  BY <1>1
<1> QED BY <1>4, <1>5, <1>6, <1>7

\* What the header's three fields are.
LEMMA HeaderAt ==
  ASSUME NEW n \in Nat
  PROVE  /\ Header(n) \in SeqOf(Unit, 3)
         /\ Header(n)[1] = Word(FrameMagic) /\ Header(n)[2] = Word(FrameVersion)
         /\ Header(n)[3] = Word(n)
<1>1. Word(FrameMagic) \in Unit /\ Word(FrameVersion) \in Unit /\ Word(n) \in Unit
  BY UnitTypes, FramesAssumption
<1>2. \A x, y, z \in Unit : <<x, y, z>> \in Seq(Unit) /\ Len(<<x, y, z>>) = 3
  OBVIOUS
<1> QED BY <1>1, <1>2 DEF Header, SeqOf

\* Where the units of a frame are.
LEMMA FrameAt ==
  ASSUME NEW n \in Nat, NEW p \in SeqOf(Nat, n)
  PROVE  /\ Frame(p) \in SeqOf(Unit, n + 4)
         /\ Frame(p)[1] = Word(FrameMagic) /\ Frame(p)[2] = Word(FrameVersion)
         /\ Frame(p)[3] = Word(n)
         /\ \A i \in 1..n : Frame(p)[3 + i] = Word(p[i])
         /\ Frame(p)[n + 4] = Crc(Units(p))
<1> DEFINE h == Header(n)
           b == Units(p)
           c == <<Crc(Units(p))>>
           hb == h \o b
           f == hb \o c
<1>1. p \in Seq(Nat) /\ Len(p) = n
  BY SeqParts
<1>2. f = Frame(p)
  BY <1>1 DEF Frame, Header
<1>3. /\ h \in SeqOf(Unit, 3)
      /\ h[1] = Word(FrameMagic) /\ h[2] = Word(FrameVersion) /\ h[3] = Word(n)
  BY HeaderAt
<1>4. b \in SeqOf(Unit, n) /\ \A i \in 1..n : b[i] = Word(p[i])
  BY UnitsAt
<1>5. c \in SeqOf(Unit, 1) /\ c[1] = Crc(Units(p))
  <2>1. Crc(Units(p)) \in Unit
    BY <1>1, UnitTypes
  <2> QED BY <2>1 DEF SeqOf
<1>6. 3 \in Nat /\ 1 \in Nat /\ 3 + n \in Nat
  OBVIOUS
<1> HIDE DEF h, b, c
<1>7. hb \in SeqOf(Unit, 3 + n) /\ Joins(hb, h, 3, b, n)
  BY <1>3, <1>4, <1>6, ConcatAt
<1> HIDE DEF hb
<1>8. f \in SeqOf(Unit, (3 + n) + 1) /\ Joins(f, hb, 3 + n, c, 1)
  BY <1>5, <1>6, <1>7, ConcatAt
<1> HIDE DEF f
<1>9. (3 + n) + 1 = n + 4
  OBVIOUS
<1>10. /\ f[1] = Word(FrameMagic) /\ f[2] = Word(FrameVersion) /\ f[3] = Word(n)
       /\ \A i \in 1..n : f[3 + i] = Word(p[i])
       /\ f[n + 4] = Crc(Units(p))
  <2>1. \A i \in 1..3 : f[i] = h[i]
    BY <1>7, <1>8 DEF Joins
  <2>2. \A i \in 1..n : f[3 + i] = b[i]
    BY <1>7, <1>8 DEF Joins
  <2>3. f[(3 + n) + 1] = c[1]
    BY <1>8 DEF Joins
  <2> QED BY <1>3, <1>4, <1>5, <1>9, <2>1, <2>2, <2>3
<1> QED BY <1>2, <1>8, <1>9, <1>10

-----------------------------------------------------------------------------
(***************************************************************************)
(* The stream.  ahead is what the receiver has of the frame it is reading, *)
(* followed by what is on the wire; out is what send_all has still to      *)
(* write.  off says where the frames that are not received end, counted    *)
(* from the one being read.  Every unit ahead is the one that the frames   *)
(* have at its place, except the damaged one, at d (0: none).              *)
(***************************************************************************)
Layout(off, acc, a, r) ==
  /\ r \in Nat /\ a \in Nat /\ r <= a
  /\ off \in [r..a -> Nat] /\ off[r] = 0
  /\ \A i \in (r + 1)..a : off[i] = off[i - 1] + Len(acc[i]) + 4
  /\ \A i, j \in r..a : i <= j => off[i] <= off[j]

Right(off, acc, a, r, x, u) ==
  \A i \in (r + 1)..a : off[i - 1] < x /\ x <= off[i] => u = Frame(acc[i])[x - off[i - 1]]

Wrong(off, acc, a, r, x, u) ==
  \A i \in (r + 1)..a : off[i - 1] < x /\ x <= off[i] => u # Frame(acc[i])[x - off[i - 1]]

Carries(off, acc, a, r, ahead, n, d) ==
  /\ \A x \in 1..n : x # d => Right(off, acc, a, r, x, ahead[x])
  /\ d \in 1..n => /\ Wrong(off, acc, a, r, d, ahead[d])
                   /\ \E w \in Nat : ahead[d] = Word(w)

\* While the connection is up, what is still to be written continues the stream.
Continues(off, acc, a, r, n, d, out, k) ==
  /\ d <= n
  /\ n + k = off[a]
  /\ \A y \in 1..k : Right(off, acc, a, r, n + y, out[y])

StreamWith(off, d, ahead, n, out, k, acc, a, r, isUp, dmg) ==
  /\ Layout(off, acc, a, r)
  /\ d \in Nat /\ n <= off[a]
  /\ Carries(off, acc, a, r, ahead, n, d)
  /\ ~dmg => d = 0
  /\ isUp => Continues(off, acc, a, r, n, d, out, k)

Stream(ahead, n, out, k, acc, a, r, isUp, dmg) ==
  \E off, d : StreamWith(off, d, ahead, n, out, k, acc, a, r, isUp, dmg)

\* Payloads within the limit of a frame.
Taken(acc, a) ==
  /\ a \in Nat
  /\ \A i \in 1..a : acc[i] \in Payloads /\ Len(acc[i]) \in Nat /\ Len(acc[i]) <= MaxFramePayload
                     /\ acc[i] \in SeqOf(Nat, Len(acc[i]))

\* A frame that is taken on goes to the end of the stream.
LEMMA StreamTakes ==
  ASSUME NEW ahead, NEW n \in Nat, NEW out, NEW acc, NEW a, NEW r,
         NEW isUp, NEW dmg, Taken(acc, a),
         Stream(ahead, n, out, 0, acc, a, r, isUp, dmg),
         NEW p, NEW l \in Nat, Len(p) = l, NEW acc2,
         acc2[a + 1] = p, \A i \in 1..a : acc2[i] = acc[i]
  PROVE  Stream(ahead, n, Frame(p), l + 4, acc2, a + 1, r, isUp, dmg)
<1>1. PICK off, d : StreamWith(off, d, ahead, n, out, 0, acc, a, r, isUp, dmg)
  BY DEF Stream
<1> DEFINE off2 == [i \in r..(a + 1) |-> IF i = a + 1 THEN off[a] + l + 4 ELSE off[i]]
<1>2. /\ Layout(off, acc, a, r) /\ d \in Nat /\ n <= off[a]
      /\ Carries(off, acc, a, r, ahead, n, d) /\ (~dmg => d = 0)
      /\ isUp => Continues(off, acc, a, r, n, d, out, 0)
  BY <1>1 DEF StreamWith
<1>3. r \in Nat /\ a \in Nat /\ r <= a /\ off[a] \in Nat
  BY <1>2 DEF Layout
<1>4. /\ off2 \in [r..(a + 1) -> Nat] /\ off2[a + 1] = off[a] + l + 4
      /\ \A i \in r..a : off2[i] = off[i]
  BY <1>2, <1>3 DEF Layout
<1> HIDE DEF off2
<1>5. Layout(off2, acc2, a + 1, r)
  <2>1. ASSUME NEW i \in (r + 1)..(a + 1)
        PROVE  off2[i] = off2[i - 1] + Len(acc2[i]) + 4
    <3>1. CASE i = a + 1
      <4>1. i - 1 = a /\ a \in r..a
        BY <1>3, <3>1
      <4> QED BY <1>3, <1>4, <3>1, <4>1
    <3>2. CASE i # a + 1
      <4>1. i \in (r + 1)..a /\ i \in r..a /\ i - 1 \in r..a /\ i \in 1..a
        BY <1>3, <3>2
      <4>2. off[i] = off[i - 1] + Len(acc[i]) + 4
        BY <1>2, <4>1 DEF Layout
      <4> QED BY <1>4, <4>1, <4>2
    <3> QED BY <3>1, <3>2
  <2>2. ASSUME NEW i \in r..(a + 1), NEW j \in r..(a + 1), i <= j
        PROVE  off2[i] <= off2[j]
    <3>1. CASE j = a + 1
      <4>1. CASE i = a + 1
        <5>1. off2[i] \in Nat
          BY <1>4
        <5> QED BY <3>1, <4>1, <5>1
      <4>2. CASE i # a + 1
        <5>1. i \in r..a /\ a \in r..a /\ i <= a
          BY <1>3, <4>2
        <5>2. off2[i] = off[i] /\ off[i] \in Nat /\ off[i] <= off[a]
          BY <1>2, <1>4, <5>1 DEF Layout
        <5> QED BY <1>3, <1>4, <3>1, <5>2
      <4> QED BY <4>1, <4>2
    <3>2. CASE j # a + 1
      <4>1. i \in r..a /\ j \in r..a
        BY <1>3, <2>2, <3>2
      <4> QED BY <1>2, <1>4, <2>2, <4>1 DEF Layout
    <3> QED BY <3>1, <3>2
  <2> QED BY <1>2, <1>3, <1>4, <2>1, <2>2 DEF Layout
<1>6. ASSUME NEW i \in (r + 1)..(a + 1), NEW x \in Int, x <= off[a],
             off2[i - 1] < x /\ x <= off2[i]
      PROVE  /\ i \in (r + 1)..a /\ off[i - 1] < x /\ x <= off[i]
             /\ Frame(acc2[i])[x - off2[i - 1]] = Frame(acc[i])[x - off[i - 1]]
  <2>1. i # a + 1
    <3> SUFFICES ASSUME i = a + 1 PROVE FALSE
      OBVIOUS
    <3>1. i - 1 = a /\ a \in r..a
      BY <1>3
    <3>2. off2[i - 1] = off[a]
      BY <1>4, <3>1
    <3> QED BY <1>3, <1>6, <3>2
  <2>2. i \in (r + 1)..a /\ i \in r..a /\ i - 1 \in r..a /\ i \in 1..a
    BY <1>3, <2>1
  <2>3. off2[i - 1] = off[i - 1] /\ off2[i] = off[i] /\ acc2[i] = acc[i]
    BY <1>4, <2>2
  <2> QED BY <1>6, <2>2, <2>3
<1>7. Carries(off2, acc2, a + 1, r, ahead, n, d)
  <2>1. ASSUME NEW x \in 1..n, x # d PROVE Right(off2, acc2, a + 1, r, x, ahead[x])
    <3>1. x \in Int /\ x <= off[a]
      BY <1>2, <1>3
    <3>2. Right(off, acc, a, r, x, ahead[x])
      BY <1>2, <2>1 DEF Carries
    <3> QED BY <1>6, <3>1, <3>2 DEF Right
  <2>2. ASSUME d \in 1..n PROVE Wrong(off2, acc2, a + 1, r, d, ahead[d])
    <3>1. d \in Int /\ d <= off[a]
      BY <1>2, <1>3, <2>2
    <3>2. Wrong(off, acc, a, r, d, ahead[d])
      BY <1>2, <2>2 DEF Carries
    <3> QED BY <1>6, <3>1, <3>2 DEF Wrong
  <2> QED BY <1>2, <2>1, <2>2 DEF Carries
<1>8. ASSUME isUp PROVE Continues(off2, acc2, a + 1, r, n, d, Frame(p), l + 4)
  <2>1. d <= n /\ n = off[a]
    BY <1>2, <1>3, <1>8 DEF Continues
  <2>2. n + (l + 4) = off2[a + 1]
    BY <1>3, <1>4, <2>1
  <2>3. ASSUME NEW y \in 1..(l + 4), NEW i \in (r + 1)..(a + 1),
               off2[i - 1] < n + y, n + y <= off2[i]
        PROVE  Frame(p)[y] = Frame(acc2[i])[(n + y) - off2[i - 1]]
    <3>1. i = a + 1
      <4> SUFFICES ASSUME i # a + 1 PROVE FALSE
        OBVIOUS
      <4>1. i \in r..a /\ a \in r..a /\ i <= a
        BY <1>3
      <4>2. off2[i] = off[i] /\ off[i] <= off[a] /\ off[i] \in Nat
        BY <1>2, <1>4, <4>1 DEF Layout
      <4> QED BY <1>3, <2>1, <2>3, <4>2
    <3>2. off2[i - 1] = off[a]
      <4>1. i - 1 = a /\ a \in r..a
        BY <1>3, <3>1
      <4> QED BY <1>4, <4>1
    <3>3. (n + y) - off2[i - 1] = y
      BY <1>3, <2>1, <3>2
    <3> QED BY <3>1, <3>3
  <2> QED BY <2>1, <2>2, <2>3 DEF Continues, Right
<1>9. n <= off2[a + 1]
  BY <1>2, <1>3, <1>4
<1>10. StreamWith(off2, d, ahead, n, Frame(p), l + 4, acc2, a + 1, r, isUp, dmg)
  BY <1>2, <1>5, <1>7, <1>8, <1>9 DEF StreamWith
<1> QED BY <1>10 DEF Stream

\* A send moves units from the sender to the wire.
LEMMA StreamSends ==
  ASSUME NEW ahead, NEW n \in Nat, NEW out, NEW k \in Nat, NEW acc, NEW a, NEW r, NEW dmg,
         Stream(ahead, n, out, k, acc, a, r, TRUE, dmg),
         NEW m \in 0..k, NEW ahead2, NEW out2,
         Joins(ahead2, ahead, n, out, m),
         \A y \in 1..(k - m) : out2[y] = out[m + y]
  PROVE  Stream(ahead2, n + m, out2, k - m, acc, a, r, TRUE, dmg)
<1>1. PICK off, d : StreamWith(off, d, ahead, n, out, k, acc, a, r, TRUE, dmg)
  BY DEF Stream
<1>2. /\ Layout(off, acc, a, r) /\ d \in Nat /\ n <= off[a]
      /\ Carries(off, acc, a, r, ahead, n, d) /\ (~dmg => d = 0)
      /\ Continues(off, acc, a, r, n, d, out, k)
  BY <1>1 DEF StreamWith
<1>3. off[a] \in Nat /\ d <= n /\ n + k = off[a]
  BY <1>2 DEF Layout, Continues
<1>4. ASSUME NEW x \in 1..(n + m), x # d PROVE Right(off, acc, a, r, x, ahead2[x])
  <2>1. CASE x <= n
    <3>1. x \in 1..n
      BY <2>1
    <3> QED BY <1>2, <1>4, <3>1 DEF Carries, Joins
  <2>2. CASE x > n
    <3>1. x - n \in 1..m /\ x - n \in 1..k /\ n + (x - n) = x
      BY <2>2
    <3>2. ahead2[n + (x - n)] = out[x - n]
      BY <3>1 DEF Joins
    <3>3. Right(off, acc, a, r, n + (x - n), out[x - n])
      BY <1>2, <3>1 DEF Continues
    <3> QED BY <3>1, <3>2, <3>3
  <2> QED BY <2>1, <2>2
<1>5. d \in 1..(n + m) => d \in 1..n /\ ahead2[d] = ahead[d]
  BY <1>2, <1>3 DEF Joins
<1>6. Carries(off, acc, a, r, ahead2, n + m, d)
  BY <1>2, <1>4, <1>5 DEF Carries
<1>7. ASSUME NEW y \in 1..(k - m) PROVE Right(off, acc, a, r, (n + m) + y, out2[y])
  <2>1. m + y \in 1..k /\ (n + m) + y = n + (m + y)
    OBVIOUS
  <2> QED BY <1>2, <2>1 DEF Continues
<1>8. Continues(off, acc, a, r, n + m, d, out2, k - m)
  BY <1>2, <1>3, <1>7 DEF Continues
<1>9. n + m <= off[a]
  BY <1>3
<1>10. StreamWith(off, d, ahead2, n + m, out2, k - m, acc, a, r, TRUE, dmg)
  BY <1>2, <1>6, <1>8, <1>9 DEF StreamWith
<1> QED BY <1>10 DEF Stream

\* A break leaves a prefix of what is ahead.
LEMMA StreamBreaks ==
  ASSUME NEW ahead, NEW n \in Nat, NEW out, NEW k, NEW acc, NEW a, NEW r, NEW isUp, NEW dmg,
         Stream(ahead, n, out, k, acc, a, r, isUp, dmg),
         NEW m \in 0..n, NEW ahead2, \A x \in 1..m : ahead2[x] = ahead[x]
  PROVE  Stream(ahead2, m, out, k, acc, a, r, FALSE, dmg)
<1>1. PICK off, d : StreamWith(off, d, ahead, n, out, k, acc, a, r, isUp, dmg)
  BY DEF Stream
<1>2. /\ Layout(off, acc, a, r) /\ d \in Nat /\ n <= off[a] /\ off[a] \in Nat
      /\ Carries(off, acc, a, r, ahead, n, d) /\ (~dmg => d = 0)
  BY <1>1 DEF StreamWith, Layout
<1>3. Carries(off, acc, a, r, ahead2, m, d)
  BY <1>2 DEF Carries
<1>4. StreamWith(off, d, ahead2, m, out, k, acc, a, r, FALSE, dmg)
  BY <1>2, <1>3 DEF StreamWith
<1> QED BY <1>4 DEF Stream

\* Damage makes one unit wrong.
LEMMA StreamDamaged ==
  ASSUME NEW ahead, NEW n \in Nat, NEW out, NEW k, NEW acc, NEW a, NEW r, NEW isUp,
         Stream(ahead, n, out, k, acc, a, r, isUp, FALSE),
         NEW e \in 1..n, NEW w \in Nat, ahead[e] # Word(w),
         NEW ahead2, ahead2[e] = Word(w), \A x \in 1..n : x # e => ahead2[x] = ahead[x]
  PROVE  Stream(ahead2, n, out, k, acc, a, r, isUp, TRUE)
<1>1. PICK off, d : StreamWith(off, d, ahead, n, out, k, acc, a, r, isUp, FALSE)
  BY DEF Stream
<1>2. /\ Layout(off, acc, a, r) /\ d = 0 /\ n <= off[a] /\ off[a] \in Nat
      /\ Carries(off, acc, a, r, ahead, n, d)
      /\ isUp => Continues(off, acc, a, r, n, d, out, k)
  BY <1>1 DEF StreamWith, Layout
<1>3. Right(off, acc, a, r, e, ahead[e])
  BY <1>2 DEF Carries
<1>4. Wrong(off, acc, a, r, e, ahead2[e])
  BY <1>3 DEF Right, Wrong
<1>5. Carries(off, acc, a, r, ahead2, n, e)
  BY <1>2, <1>4 DEF Carries
<1>6. isUp => Continues(off, acc, a, r, n, e, out, k)
  BY <1>2 DEF Continues
<1>7. StreamWith(off, e, ahead2, n, out, k, acc, a, r, isUp, TRUE)
  BY <1>2, <1>5, <1>6 DEF StreamWith
<1> QED BY <1>7 DEF Stream

\* What is ahead belongs to a frame that was taken on, and starts with its units.
LEMMA FirstFrame ==
  ASSUME NEW off, NEW acc, NEW a, NEW r, Layout(off, acc, a, r), Taken(acc, a),
         NEW n \in Nat, n >= 1, n <= off[a]
  PROVE  /\ r + 1 \in 1..a /\ r < a
         /\ acc[r + 1] \in SeqOf(Nat, Len(acc[r + 1])) /\ Len(acc[r + 1]) \in Nat
         /\ acc[r + 1] \in Payloads
         /\ Len(acc[r + 1]) <= MaxFramePayload
         /\ off[r + 1] = Len(acc[r + 1]) + 4
         /\ \A x \in 1..(Len(acc[r + 1]) + 4) : \A u :
              /\ Right(off, acc, a, r, x, u) => u = Frame(acc[r + 1])[x]
              /\ Wrong(off, acc, a, r, x, u) => u # Frame(acc[r + 1])[x]
<1>1. r \in Nat /\ a \in Nat /\ r <= a /\ off[r] = 0
  BY DEF Layout
<1>2. r < a
  BY <1>1
<1>3. r + 1 \in 1..a /\ r + 1 \in (r + 1)..a /\ (r + 1) - 1 = r
  BY <1>1, <1>2
<1>4. /\ acc[r + 1] \in SeqOf(Nat, Len(acc[r + 1])) /\ Len(acc[r + 1]) \in Nat
      /\ acc[r + 1] \in Payloads /\ Len(acc[r + 1]) <= MaxFramePayload
  BY <1>3 DEF Taken
<1>5. off[r + 1] = off[(r + 1) - 1] + Len(acc[r + 1]) + 4
  BY <1>3 DEF Layout
<1>6. off[r + 1] = Len(acc[r + 1]) + 4
  BY <1>1, <1>3, <1>4, <1>5
<1>7. ASSUME NEW x \in 1..(Len(acc[r + 1]) + 4), NEW u
      PROVE  /\ Right(off, acc, a, r, x, u) => u = Frame(acc[r + 1])[x]
             /\ Wrong(off, acc, a, r, x, u) => u # Frame(acc[r + 1])[x]
  <2>1. off[(r + 1) - 1] < x /\ x <= off[r + 1] /\ x - off[(r + 1) - 1] = x
    BY <1>1, <1>3, <1>4, <1>6
  <2> QED BY <1>3, <2>1 DEF Right, Wrong
<1> QED BY <1>2, <1>3, <1>4, <1>6, <1>7

\* What recv_frame has read when it compares checksums: a header that says m, m
\* units, and the checksum.
Whole(ahead, m, pl) ==
  /\ ahead[1] = Word(FrameMagic) /\ ahead[2] = Word(FrameVersion) /\ ahead[3] = Word(m)
  /\ \A i \in 1..m : ahead[3 + i] = pl[i]

\* A frame whose checksum agrees is the next one that was sent, undamaged.
LEMMA ChecksumTells ==
  ASSUME NEW off, NEW d \in Nat, NEW acc, NEW a, NEW r, Layout(off, acc, a, r), Taken(acc, a),
         NEW n \in Nat, n <= off[a], NEW ahead, Carries(off, acc, a, r, ahead, n, d),
         ahead \in SeqOf(Unit, n),
         NEW m \in Nat, NEW pl \in SeqOf(Unit, m), m + 4 <= n, Whole(ahead, m, pl),
         ahead[m + 4] = Crc(pl)
  PROVE  /\ r < a /\ acc[r + 1] \in SeqOf(Nat, m) /\ pl = Units(acc[r + 1])
         /\ d \notin 1..(m + 4)
<1> DEFINE p == acc[r + 1]
           l == Len(p)
<1>1. /\ r < a /\ p \in SeqOf(Nat, l) /\ l \in Nat
      /\ \A x \in 1..(l + 4) : \A u :
           /\ Right(off, acc, a, r, x, u) => u = Frame(p)[x]
           /\ Wrong(off, acc, a, r, x, u) => u # Frame(p)[x]
  BY FirstFrame
<1>2. /\ Frame(p)[1] = Word(FrameMagic) /\ Frame(p)[2] = Word(FrameVersion)
      /\ Frame(p)[3] = Word(l)
      /\ \A i \in 1..l : Frame(p)[3 + i] = Word(p[i])
      /\ Frame(p)[l + 4] = Crc(Units(p))
  BY <1>1, FrameAt
<1>3. Units(p) \in SeqOf(Unit, l) /\ \A i \in 1..l : Units(p)[i] = Word(p[i])
  BY <1>1, UnitsAt
<1> HIDE DEF p, l
<1>4. \A x \in 1..n : x <= l + 4 =>
        /\ x # d => ahead[x] = Frame(p)[x]
        /\ x = d => ahead[x] # Frame(p)[x] /\ \E w \in Nat : ahead[x] = Word(w)
  BY <1>1 DEF Carries
<1>5. d # 1 /\ d # 2
  BY <1>1, <1>2, <1>4 DEF Whole
<1>6. d # 3
  <2> SUFFICES ASSUME d = 3 PROVE FALSE
    OBVIOUS
  <2>1. m # l
    <3>1. 3 \in 1..n /\ 3 <= l + 4
      BY <1>1
    <3>2. ahead[3] # Frame(p)[3]
      BY <1>4, <3>1
    <3> QED BY <1>2, <3>2 DEF Whole
  <2>2. CASE m < l
    <3>1. m + 4 \in 1..n /\ m + 4 <= l + 4 /\ m + 4 # d /\ m + 1 \in 1..l /\ 3 + (m + 1) = m + 4
      BY <1>1, <2>2
    <3>2. ahead[m + 4] = Frame(p)[m + 4]
      BY <1>4, <3>1
    <3>3. Frame(p)[3 + (m + 1)] = Word(p[m + 1])
      BY <1>2, <3>1
    <3> QED BY <3>1, <3>2, <3>3, UnitKinds
  <2>3. CASE m > l
    <3>1. l + 4 \in 1..n /\ l + 4 # d /\ l + 1 \in 1..m /\ 3 + (l + 1) = l + 4
      BY <1>1, <2>3
    <3>2. ahead[l + 4] = Crc(Units(p))
      BY <1>2, <1>4, <3>1, <1>1
    <3>3. ahead[3 + (l + 1)] = pl[l + 1]
      BY <3>1 DEF Whole
    <3>4. Crc(pl) \in Unit
      <4>1. m + 4 \in 1..n
        OBVIOUS
      <4> QED BY <4>1, SeqParts
    <3>5. PICK q \in Seq(Nat) : pl = Units(q)
      BY <3>4, UnitTypes
    <3>6. pl[l + 1] = Word(q[l + 1])
      <4>1. Len(q) \in Nat /\ q \in SeqOf(Nat, Len(q))
        BY SeqFits
      <4>2. pl \in SeqOf(Unit, Len(q)) /\ \A i \in 1..Len(q) : pl[i] = Word(q[i])
        BY <3>5, <4>1, UnitsAt
      <4>3. Len(q) = m
        BY <4>1, <4>2, SeqParts
      <4> QED BY <3>1, <4>2, <4>3
    <3> QED BY <3>1, <3>2, <3>3, <3>6, UnitKinds
  <2> QED BY <1>1, <2>1, <2>2, <2>3
<1>7. m = l
  <2>1. 3 \in 1..n /\ 3 <= l + 4
    BY <1>1
  <2>2. ahead[3] = Frame(p)[3]
    BY <1>4, <1>6, <2>1
  <2> QED BY <1>2, <2>2, UnitKinds DEF Whole
<1>8. m + 4 \in 1..n /\ m + 4 <= l + 4
  BY <1>7, <1>1
<1>9. d # m + 4
  <2> SUFFICES ASSUME d = m + 4 PROVE FALSE
    OBVIOUS
  <2>1. \E w \in Nat : ahead[m + 4] = Word(w)
    BY <1>4, <1>8
  <2> QED BY <2>1, UnitKinds
<1>10. pl = Units(p)
  <2>1. ahead[m + 4] = Frame(p)[m + 4]
    BY <1>4, <1>8, <1>9
  <2> QED BY <1>2, <1>7, <2>1, UnitKinds
<1>11. d \notin 4..(m + 3)
  <2> SUFFICES ASSUME d \in 4..(m + 3) PROVE FALSE
    OBVIOUS
  <2>1. d \in 1..n /\ d <= l + 4 /\ d - 3 \in 1..m /\ 3 + (d - 3) = d
    BY <1>7, <1>1
  <2>2. ahead[3 + (d - 3)] = pl[d - 3]
    BY <2>1 DEF Whole
  <2>3. pl[d - 3] = Frame(p)[3 + (d - 3)]
    BY <1>2, <1>3, <1>7, <1>10, <2>1
  <2>4. ahead[d] # Frame(p)[d]
    BY <1>4, <2>1
  <2> QED BY <2>1, <2>2, <2>3, <2>4
<1>12. d \notin 1..(m + 4)
  BY <1>5, <1>6, <1>9, <1>11
<1> QED BY <1>1, <1>7, <1>10, <1>12 DEF p

\* The receiver goes on after a whole frame at the place where the next begins.
LEMMA StreamDelivers ==
  ASSUME NEW ahead, NEW n \in Nat, NEW out, NEW k \in Nat, NEW acc, NEW a, NEW r,
         NEW isUp, NEW dmg, Taken(acc, a),
         Stream(ahead, n, out, k, acc, a, r, isUp, dmg),
         ahead \in SeqOf(Unit, n),
         NEW m \in Nat, NEW pl \in SeqOf(Unit, m), m + 4 <= n, Whole(ahead, m, pl),
         ahead[m + 4] = Crc(pl),
         NEW rest, \A x \in 1..(n - (m + 4)) : rest[x] = ahead[(m + 4) + x]
  PROVE  /\ r < a /\ acc[r + 1] \in SeqOf(Nat, m) /\ pl = Units(acc[r + 1])
         /\ Stream(rest, n - (m + 4), out, k, acc, a, r + 1, isUp, dmg)
<1>1. PICK off, d : StreamWith(off, d, ahead, n, out, k, acc, a, r, isUp, dmg)
  BY DEF Stream
<1>2. /\ Layout(off, acc, a, r) /\ d \in Nat /\ n <= off[a]
      /\ Carries(off, acc, a, r, ahead, n, d) /\ (~dmg => d = 0)
      /\ isUp => Continues(off, acc, a, r, n, d, out, k)
  BY <1>1 DEF StreamWith
<1>3. /\ r < a /\ acc[r + 1] \in SeqOf(Nat, m) /\ pl = Units(acc[r + 1])
      /\ d \notin 1..(m + 4)
  BY <1>2, ChecksumTells
<1>4. Len(acc[r + 1]) = m
  BY <1>3, SeqParts
<1> DEFINE c == m + 4
           off2 == [i \in (r + 1)..a |-> off[i] - c]
           d2 == IF d = 0 THEN 0 ELSE d - c
<1>5. r \in Nat /\ a \in Nat /\ off[a] \in Nat /\ c \in Nat
      /\ \A i \in r..a : off[i] \in Nat
  BY <1>2 DEF Layout
<1>6. off[r + 1] = c
  BY <1>2, <1>4, <1>3, FirstFrame
<1>7. \A i \in (r + 1)..a : off[i] >= c
  <2>1. ASSUME NEW i \in (r + 1)..a PROVE off[i] >= c
    <3>1. r + 1 \in r..a /\ i \in r..a /\ r + 1 <= i
      BY <1>3, <1>5
    <3>2. off[r + 1] <= off[i]
      BY <1>2, <3>1 DEF Layout
    <3> QED BY <1>5, <1>6, <3>1, <3>2
  <2> QED BY <2>1
<1>8. d2 \in Nat /\ (d2 = 0 <=> d = 0) /\ (d # 0 => d = c + d2)
  BY <1>2, <1>3
<1>9. n - c \in Nat /\ n = c + (n - c)
  OBVIOUS
<1> HIDE DEF c, d2
<1>10. /\ off2 \in [(r + 1)..a -> Nat]
       /\ \A i \in (r + 1)..a : off2[i] = off[i] - c /\ off[i] = c + off2[i] /\ off2[i] \in Nat
  <2>1. \A i \in (r + 1)..a : off[i] \in Nat /\ off[i] - c \in Nat
    BY <1>5, <1>7
  <2> QED BY <1>5, <2>1
<1> HIDE DEF off2
<1>11. Layout(off2, acc, a, r + 1)
  <2>1. off2[r + 1] = 0
    <3>1. r + 1 \in (r + 1)..a
      BY <1>3, <1>5
    <3> QED BY <1>5, <1>6, <1>10, <3>1
  <2>2. ASSUME NEW i \in ((r + 1) + 1)..a PROVE off2[i] = off2[i - 1] + Len(acc[i]) + 4
    <3>1. i \in (r + 1)..a /\ i - 1 \in (r + 1)..a /\ i \in 1..a
      BY <1>5
    <3>2. off[i] = off[i - 1] + Len(acc[i]) + 4
      BY <1>2, <3>1 DEF Layout
    <3>3. Len(acc[i]) \in Nat
      BY <3>1 DEF Taken
    <3>4. off2[i] = off[i] - c /\ off2[i - 1] = off[i - 1] - c /\ off[i - 1] \in Nat
      BY <1>5, <1>10, <3>1
    <3> QED BY <1>5, <3>2, <3>3, <3>4
  <2>3. ASSUME NEW i \in (r + 1)..a, NEW j \in (r + 1)..a, i <= j
        PROVE  off2[i] <= off2[j]
    <3>1. i \in r..a /\ j \in r..a
      BY <1>5
    <3>2. off[i] <= off[j]
      BY <1>2, <2>3, <3>1 DEF Layout
    <3>3. off2[i] = off[i] - c /\ off2[j] = off[j] - c /\ off[i] \in Nat /\ off[j] \in Nat
      BY <1>5, <1>10, <3>1
    <3> QED BY <1>5, <3>2, <3>3
  <2>4. r + 1 \in Nat /\ r + 1 <= a
    BY <1>3, <1>5
  <2> QED BY <1>5, <1>10, <2>1, <2>2, <2>3, <2>4 DEF Layout
<1>12. ASSUME NEW x \in Int, NEW u
       PROVE  /\ Right(off, acc, a, r, c + x, u) => Right(off2, acc, a, r + 1, x, u)
              /\ Wrong(off, acc, a, r, c + x, u) => Wrong(off2, acc, a, r + 1, x, u)
  <2>1. ASSUME NEW i \in ((r + 1) + 1)..a, off2[i - 1] < x, x <= off2[i]
        PROVE  /\ i \in (r + 1)..a /\ off[i - 1] < c + x /\ c + x <= off[i]
               /\ (c + x) - off[i - 1] = x - off2[i - 1]
    <3>1. i \in (r + 1)..a /\ i - 1 \in (r + 1)..a
      BY <1>5
    <3>2. /\ off[i] = c + off2[i] /\ off[i - 1] = c + off2[i - 1]
          /\ off2[i] \in Nat /\ off2[i - 1] \in Nat
      BY <1>10, <3>1
    <3> QED BY <1>5, <2>1, <3>1, <3>2
  <2> QED BY <2>1 DEF Right, Wrong
<1>13. Carries(off2, acc, a, r + 1, rest, n - c, d2)
  <2>1. ASSUME NEW x \in 1..(n - c)
        PROVE  c + x \in 1..n /\ rest[x] = ahead[c + x] /\ x \in Int
               /\ (c + x = d <=> x = d2)
    BY <1>2, <1>5, <1>8, <1>9 DEF c
  <2>2. ASSUME NEW x \in 1..(n - c), x # d2 PROVE Right(off2, acc, a, r + 1, x, rest[x])
    <3>1. Right(off, acc, a, r, c + x, ahead[c + x])
      BY <1>2, <2>1, <2>2 DEF Carries
    <3> QED BY <1>12, <2>1, <3>1
  <2>3. ASSUME d2 \in 1..(n - c)
        PROVE  Wrong(off2, acc, a, r + 1, d2, rest[d2]) /\ \E w \in Nat : rest[d2] = Word(w)
    <3>1. c + d2 = d /\ d \in 1..n /\ rest[d2] = ahead[d] /\ d2 \in Int
      BY <2>1, <2>3
    <3>2. Wrong(off, acc, a, r, c + d2, rest[d2]) /\ \E w \in Nat : rest[d2] = Word(w)
      BY <1>2, <3>1 DEF Carries
    <3> QED BY <1>12, <3>1, <3>2
  <2> QED BY <2>2, <2>3 DEF Carries
<1>14. off2[a] = off[a] - c
  <2>1. a \in (r + 1)..a
    BY <1>3, <1>5
  <2> QED BY <1>10, <2>1
<1>15. ASSUME isUp PROVE Continues(off2, acc, a, r + 1, n - c, d2, out, k)
  <2>1. d <= n /\ n + k = off[a]
    BY <1>2, <1>15 DEF Continues
  <2>2. d2 <= n - c /\ (n - c) + k = off2[a]
    BY <1>2, <1>5, <1>8, <1>9, <1>14, <2>1
  <2>3. ASSUME NEW y \in 1..k PROVE Right(off2, acc, a, r + 1, (n - c) + y, out[y])
    <3>1. Right(off, acc, a, r, n + y, out[y])
      BY <1>2, <1>15 DEF Continues
    <3>2. n + y = c + ((n - c) + y) /\ (n - c) + y \in Int
      BY <1>5, <1>9
    <3> QED BY <1>12, <3>1, <3>2
  <2> QED BY <2>2, <2>3 DEF Continues
<1>16. n - c <= off2[a]
  BY <1>2, <1>5, <1>9, <1>14
<1>17. StreamWith(off2, d2, rest, n - c, out, k, acc, a, r + 1, isUp, dmg)
  BY <1>2, <1>8, <1>11, <1>13, <1>15, <1>16 DEF StreamWith
<1> QED BY <1>3, <1>17 DEF Stream, c

\* Without damage the header that is read is that of a frame taken on, and the
\* checksum that of the payload that was read.
LEMMA CleanAgrees ==
  ASSUME NEW ahead, NEW n \in Nat, NEW out, NEW k, NEW acc, NEW a, NEW r,
         NEW isUp, Taken(acc, a),
         Stream(ahead, n, out, k, acc, a, r, isUp, FALSE)
  PROVE  /\ n >= 3 => /\ ahead[1] = Word(FrameMagic) /\ ahead[2] = Word(FrameVersion)
                      /\ \E l \in Nat : ahead[3] = Word(l) /\ l <= MaxFramePayload
         /\ \A m \in Nat : \A pl \in SeqOf(Unit, m) :
              m + 4 <= n /\ Whole(ahead, m, pl) => ahead[m + 4] = Crc(pl)
<1>1. PICK off, d : StreamWith(off, d, ahead, n, out, k, acc, a, r, isUp, FALSE)
  BY DEF Stream
<1>2. Layout(off, acc, a, r) /\ d = 0 /\ n <= off[a] /\ Carries(off, acc, a, r, ahead, n, d)
  BY <1>1 DEF StreamWith
<1> DEFINE p == acc[r + 1]
           l == Len(p)
<1>3. ASSUME n >= 1
      PROVE  /\ p \in SeqOf(Nat, l) /\ l \in Nat /\ l <= MaxFramePayload
             /\ \A x \in 1..n : x <= l + 4 => ahead[x] = Frame(p)[x]
  <2>1. /\ p \in SeqOf(Nat, l) /\ l \in Nat /\ l <= MaxFramePayload
        /\ \A x \in 1..(l + 4) : \A u : Right(off, acc, a, r, x, u) => u = Frame(p)[x]
    BY <1>2, <1>3, FirstFrame
  <2> HIDE DEF p, l
  <2> QED BY <1>2, <2>1 DEF Carries
<1>4. ASSUME n >= 1
      PROVE  /\ Frame(p)[1] = Word(FrameMagic) /\ Frame(p)[2] = Word(FrameVersion)
             /\ Frame(p)[3] = Word(l)
             /\ \A i \in 1..l : Frame(p)[3 + i] = Word(p[i])
             /\ Frame(p)[l + 4] = Crc(Units(p))
             /\ Units(p) \in SeqOf(Unit, l) /\ \A i \in 1..l : Units(p)[i] = Word(p[i])
  BY <1>3, <1>4, FrameAt, UnitsAt
<1> HIDE DEF p, l
<1>5. ASSUME n >= 3
      PROVE  /\ ahead[1] = Word(FrameMagic) /\ ahead[2] = Word(FrameVersion)
             /\ ahead[3] = Word(l) /\ l \in Nat /\ l <= MaxFramePayload
  BY <1>3, <1>4, <1>5
<1>6. ASSUME NEW m \in Nat, NEW pl \in SeqOf(Unit, m), m + 4 <= n, Whole(ahead, m, pl)
      PROVE  ahead[m + 4] = Crc(pl)
  <2>1. n >= 1 /\ n >= 3
    BY <1>6
  <2>2. m = l
    BY <1>5, <1>6, <2>1, UnitKinds DEF Whole
  <2>3. \A i \in 1..m : pl[i] = Units(p)[i]
    <3> SUFFICES ASSUME NEW i \in 1..m PROVE pl[i] = Units(p)[i]
      OBVIOUS
    <3>1. 3 + i \in 1..n /\ 3 + i <= l + 4
      BY <1>6, <2>2
    <3>2. ahead[3 + i] = Frame(p)[3 + i]
      BY <1>3, <2>1, <3>1
    <3> QED BY <1>4, <1>6, <2>1, <2>2, <3>2 DEF Whole
  <2>4. pl = Units(p)
    BY <1>4, <2>1, <2>2, <2>3, SeqEqual
  <2>5. m + 4 \in 1..n /\ m + 4 <= l + 4 /\ m + 4 = l + 4
    BY <1>6, <2>2
  <2> QED BY <1>3, <1>4, <2>1, <2>4, <2>5
<1> QED BY <1>5, <1>6

-----------------------------------------------------------------------------
(***************************************************************************)
(* The receiver moves units from the wire to what it has read: the stream  *)
(* ahead stays as it is.                                                   *)
(***************************************************************************)

\* The first k elements, and those after them.
LEMMA SplitAt ==
  ASSUME NEW T, NEW n \in Nat, NEW s \in SeqOf(T, n), NEW k \in 0..n
  PROVE  /\ SubSeq(s, 1, k) \in SeqOf(T, k)
         /\ \A i \in 1..k : SubSeq(s, 1, k)[i] = s[i]
         /\ SubSeq(s, k + 1, n) \in SeqOf(T, n - k)
         /\ \A i \in 1..(n - k) : SubSeq(s, k + 1, n)[i] = s[k + i]
<1>1. k \in Nat /\ n - k \in Nat /\ 0 \in Nat
  OBVIOUS
<1>2. SubSeq(s, 0 + 1, 0 + k) \in SeqOf(T, k) /\ \A i \in 1..k : SubSeq(s, 0 + 1, 0 + k)[i] = s[0 + i]
  BY <1>1, SubSeqAt
<1>3. /\ SubSeq(s, k + 1, k + (n - k)) \in SeqOf(T, n - k)
      /\ \A i \in 1..(n - k) : SubSeq(s, k + 1, k + (n - k))[i] = s[k + i]
  BY <1>1, SubSeqAt
<1>4. 0 + 1 = 1 /\ 0 + k = k /\ k + (n - k) = n /\ \A i \in 1..k : 0 + i = i
  OBVIOUS
<1> QED BY <1>2, <1>3, <1>4

\* Reading k more units leaves the stream ahead as it is.
LEMMA ReadOn ==
  ASSUME NEW g \in Nat, NEW w \in Nat, NEW k \in 0..w,
         NEW rd \in SeqOf(Unit, g), NEW wi \in SeqOf(Unit, w),
         NEW rd2 \in SeqOf(Unit, g + k), Joins(rd2, rd, g, wi, k)
  PROVE  rd2 \o SubSeq(wi, k + 1, w) = rd \o wi /\ (g + k) + (w - k) = g + w
<1> DEFINE wi2 == SubSeq(wi, k + 1, w)
           x == rd2 \o wi2
           y == rd \o wi
<1>1. wi2 \in SeqOf(Unit, w - k) /\ \A i \in 1..(w - k) : wi2[i] = wi[k + i]
  BY SplitAt
<1>2. g + k \in Nat /\ w - k \in Nat /\ (g + k) + (w - k) = g + w /\ g + w \in Nat
  OBVIOUS
<1> HIDE DEF wi2
<1>3. x \in SeqOf(Unit, (g + k) + (w - k)) /\ Joins(x, rd2, g + k, wi2, w - k)
  BY <1>1, <1>2, ConcatAt
<1>4. y \in SeqOf(Unit, g + w) /\ Joins(y, rd, g, wi, w)
  BY ConcatAt
<1> HIDE DEF x, y
<1>5. ASSUME NEW i \in 1..(g + w) PROVE x[i] = y[i]
  <2>1. CASE i <= g
    <3>1. i \in 1..g /\ i \in 1..(g + k)
      BY <2>1
    <3> QED BY <1>3, <1>4, <3>1 DEF Joins
  <2>2. CASE g < i /\ i <= g + k
    <3>1. i - g \in 1..k /\ i - g \in 1..w /\ g + (i - g) = i /\ i \in 1..(g + k)
      BY <2>2
    <3>2. rd2[g + (i - g)] = wi[i - g] /\ y[g + (i - g)] = wi[i - g] /\ x[i] = rd2[i]
      BY <1>3, <1>4, <3>1 DEF Joins
    <3> QED BY <3>1, <3>2
  <2>3. CASE g + k < i
    <3> DEFINE j == i - (g + k)
    <3>1. /\ j \in 1..(w - k) /\ (g + k) + j = i /\ k + j \in 1..w /\ g + (k + j) = i
      BY <2>3
    <3> HIDE DEF j
    <3>2. x[(g + k) + j] = wi2[j] /\ y[g + (k + j)] = wi[k + j] /\ wi2[j] = wi[k + j]
      BY <1>1, <1>3, <1>4, <3>1 DEF Joins
    <3> QED BY <3>1, <3>2
  <2> QED BY <2>1, <2>2, <2>3
<1>6. x = y
  BY <1>2, <1>3, <1>4, <1>5, SeqEqual
<1> QED BY <1>2, <1>6 DEF x, y, wi2

\* The units of one recv_all, after a chunk of k units.
LEMMA ChunkRead ==
  ASSUME NEW g \in Nat, NEW w \in Nat, NEW k \in 0..w,
         NEW b \in SeqOf(Unit, g), NEW wi \in SeqOf(Unit, w)
  PROVE  /\ b \o SubSeq(wi, 1, k) \in SeqOf(Unit, g + k)
         /\ Joins(b \o SubSeq(wi, 1, k), b, g, wi, k)
<1> DEFINE c == SubSeq(wi, 1, k)
           u == b \o c
<1>1. c \in SeqOf(Unit, k) /\ \A i \in 1..k : c[i] = wi[i]
  BY SplitAt
<1> HIDE DEF c
<1>2. k \in Nat
  OBVIOUS
<1>3. u \in SeqOf(Unit, g + k) /\ Joins(u, b, g, c, k)
  BY <1>1, <1>2, ConcatAt
<1> HIDE DEF u
<1>4. Joins(u, b, g, wi, k)
  BY <1>1, <1>3 DEF Joins
<1> QED BY <1>3, <1>4 DEF u, c

\* The same behind a header.
LEMMA BehindHeader ==
  ASSUME NEW l \in Nat, NEW g \in Nat, NEW k \in Nat, NEW b \in SeqOf(Unit, g),
         NEW b2 \in SeqOf(Unit, g + k), NEW wi, Joins(b2, b, g, wi, k)
  PROVE  /\ Header(l) \o b2 \in SeqOf(Unit, (3 + g) + k)
         /\ Joins(Header(l) \o b2, Header(l) \o b, 3 + g, wi, k)
<1> DEFINE h == Header(l)
           x == h \o b2
           y == h \o b
<1>1. h \in SeqOf(Unit, 3) /\ 3 \in Nat /\ g + k \in Nat
  BY HeaderAt
<1> HIDE DEF h
<1>2. x \in SeqOf(Unit, 3 + (g + k)) /\ Joins(x, h, 3, b2, g + k)
  BY <1>1, ConcatAt
<1>3. Joins(y, h, 3, b, g)
  BY <1>1, ConcatAt
<1> HIDE DEF x, y
<1>4. ASSUME NEW i \in 1..(3 + g) PROVE x[i] = y[i]
  <2>1. CASE i <= 3
    <3>1. i \in 1..3
      BY <2>1
    <3> QED BY <1>2, <1>3, <3>1 DEF Joins
  <2>2. CASE i > 3
    <3>1. i - 3 \in 1..g /\ i - 3 \in 1..(g + k) /\ 3 + (i - 3) = i
      BY <2>2
    <3>2. x[3 + (i - 3)] = b2[i - 3] /\ y[3 + (i - 3)] = b[i - 3] /\ b2[i - 3] = b[i - 3]
      BY <1>2, <1>3, <3>1 DEF Joins
    <3> QED BY <3>1, <3>2
  <2> QED BY <2>1, <2>2
<1>5. ASSUME NEW i \in 1..k PROVE x[(3 + g) + i] = wi[i]
  <2>1. g + i \in 1..(g + k) /\ (3 + g) + i = 3 + (g + i)
    OBVIOUS
  <2>2. x[3 + (g + i)] = b2[g + i] /\ b2[g + i] = wi[i]
    BY <1>2, <2>1 DEF Joins
  <2> QED BY <2>1, <2>2
<1>6. (3 + g) + k = 3 + (g + k)
  OBVIOUS
<1> QED BY <1>2, <1>4, <1>5, <1>6 DEF Joins, x, y, h

\* A header with nothing behind it.
LEMMA BareHeader ==
  ASSUME NEW l \in Nat, NEW u \in SeqOf(Unit, 3), NEW e \in SeqOf(Unit, 0),
         u[1] = Word(FrameMagic), u[2] = Word(FrameVersion), u[3] = Word(l)
  PROVE  Header(l) \o e = u
<1> DEFINE h == Header(l)
           x == h \o e
<1>1. /\ h \in SeqOf(Unit, 3) /\ 3 \in Nat /\ 0 \in Nat
      /\ h[1] = Word(FrameMagic) /\ h[2] = Word(FrameVersion) /\ h[3] = Word(l)
  BY HeaderAt
<1> HIDE DEF h
<1>2. x \in SeqOf(Unit, 3 + 0) /\ Joins(x, h, 3, e, 0)
  BY <1>1, ConcatAt
<1> HIDE DEF x
<1>3. \A i \in 1..3 : x[i] = u[i]
  BY <1>1, <1>2 DEF Joins
<1>4. x = u
  <2>1. 3 + 0 = 3
    OBVIOUS
  <2> QED BY <1>2, <1>3, <2>1, SeqEqual
<1> QED BY <1>4 DEF x, h

\* The third unit that is read is a length, damaged or not.
LEMMA LengthIsWord ==
  ASSUME NEW ahead, NEW n \in Nat, NEW out, NEW k, NEW acc, NEW a, NEW r,
         NEW isUp, NEW dmg, Taken(acc, a), n >= 3,
         Stream(ahead, n, out, k, acc, a, r, isUp, dmg)
  PROVE  \E l \in Nat : ahead[3] = Word(l)
<1>1. PICK off, d : StreamWith(off, d, ahead, n, out, k, acc, a, r, isUp, dmg)
  BY DEF Stream
<1>2. Layout(off, acc, a, r) /\ n <= off[a] /\ Carries(off, acc, a, r, ahead, n, d)
  BY <1>1 DEF StreamWith
<1>3. CASE d = 3
  BY <1>2, <1>3 DEF Carries
<1>4. CASE d # 3
  <2> DEFINE p == acc[r + 1]
             l == Len(p)
  <2>1. /\ p \in SeqOf(Nat, l) /\ l \in Nat
        /\ \A x \in 1..(l + 4) : \A u : Right(off, acc, a, r, x, u) => u = Frame(p)[x]
    BY <1>2, FirstFrame
  <2>2. Frame(p)[3] = Word(l)
    BY <2>1, FrameAt
  <2> HIDE DEF p, l
  <2>3. Right(off, acc, a, r, 3, ahead[3])
    BY <1>2, <1>4 DEF Carries
  <2>4. 3 \in 1..(l + 4)
    BY <2>1
  <2> QED BY <2>1, <2>2, <2>3, <2>4
<1> QED BY <1>3, <1>4

-----------------------------------------------------------------------------
(***************************************************************************)
(* The invariant.                                                          *)
(***************************************************************************)
Reading == stage \in {"header", "payload", "crc"}

\* What recv_frame has of the frame it is reading, and how much that is.
Read ==
  CASE stage = "header"  -> got
    [] stage = "payload" -> Header(Len(payload)) \o got
    [] OTHER             -> Header(Len(payload)) \o payload

ReadLen ==
  CASE stage = "header"  -> Len(got)
    [] stage = "payload" -> 3 + Len(got)
    [] OTHER             -> 3 + Len(payload)

SenderTypes ==
  /\ outgoing \in Seq(Unit)
  /\ accepted \in Seq(Payloads) /\ Taken(accepted, Len(accepted))

ReceiverTypes ==
  /\ stage \in {"header", "payload", "crc", "threw", "ended"}
  /\ got \in Seq(Unit) /\ payload \in Seq(Unit)
  /\ received \in Seq(Messages \cup {Malformed})
  /\ stage = "header" => Len(got) < 3
  /\ stage = "payload" => Len(got) < Len(payload)
  /\ stage = "crc" => got = <<>>

WireTypes ==
  /\ wire \in Seq(Unit)
  /\ up \in BOOLEAN /\ damaged \in BOOLEAN

StreamOK ==
  Stream(Read \o wire, ReadLen + Len(wire), outgoing, Len(outgoing),
         accepted, Len(accepted), Len(received), up, damaged)

\* While recv_frame runs, what it has read, what is on the wire and what the
\* sender has still to write are the frames that were taken on and are not yet
\* received.
TransportInv ==
  /\ SenderTypes /\ ReceiverTypes /\ WireTypes
  /\ Reading => StreamOK
  /\ CleanNeverRejected

\* What recv_frame has read is a sequence of units.
LEMMA ReadParts ==
  ASSUME ReceiverTypes, WireTypes, Reading
  PROVE  /\ ReadLen \in Nat /\ Read \in SeqOf(Unit, ReadLen)
         /\ Len(wire) \in Nat /\ wire \in SeqOf(Unit, Len(wire))
         /\ Len(got) \in Nat /\ got \in SeqOf(Unit, Len(got))
         /\ Len(payload) \in Nat /\ payload \in SeqOf(Unit, Len(payload))
<1>1. /\ Len(wire) \in Nat /\ wire \in SeqOf(Unit, Len(wire))
      /\ Len(got) \in Nat /\ got \in SeqOf(Unit, Len(got))
      /\ Len(payload) \in Nat /\ payload \in SeqOf(Unit, Len(payload))
  BY SeqFits DEF ReceiverTypes, WireTypes
<1>2. 3 \in Nat /\ Header(Len(payload)) \in SeqOf(Unit, 3)
  BY <1>1, HeaderAt
<1>3. Header(Len(payload)) \o got \in SeqOf(Unit, 3 + Len(got))
  BY <1>1, <1>2, ConcatAt
<1>4. Header(Len(payload)) \o payload \in SeqOf(Unit, 3 + Len(payload))
  BY <1>1, <1>2, ConcatAt
<1>5. CASE stage = "header"
  <2>1. Read = got /\ ReadLen = Len(got)
    BY <1>5 DEF Read, ReadLen
  <2> QED BY <1>1, <2>1
<1>6. CASE stage = "payload"
  <2>1. Read = Header(Len(payload)) \o got /\ ReadLen = 3 + Len(got)
    BY <1>6 DEF Read, ReadLen
  <2>2. 3 + Len(got) \in Nat
    BY <1>1
  <2> QED BY <1>1, <1>3, <2>1, <2>2
<1>7. CASE stage = "crc"
  <2>1. Read = Header(Len(payload)) \o payload /\ ReadLen = 3 + Len(payload)
    BY <1>7 DEF Read, ReadLen
  <2>2. 3 + Len(payload) \in Nat
    BY <1>1
  <2> QED BY <1>1, <1>4, <2>1, <2>2
<1> QED BY <1>5, <1>6, <1>7 DEF Reading

\* What is ahead is a sequence of units, of which the first are read.
LEMMA AheadParts ==
  ASSUME ReceiverTypes, WireTypes, Reading
  PROVE  /\ ReadLen + Len(wire) \in Nat
         /\ Read \o wire \in SeqOf(Unit, ReadLen + Len(wire))
         /\ Joins(Read \o wire, Read, ReadLen, wire, Len(wire))
<1>1. /\ ReadLen \in Nat /\ Read \in SeqOf(Unit, ReadLen)
      /\ Len(wire) \in Nat /\ wire \in SeqOf(Unit, Len(wire))
  BY ReadParts
<1>2. ReadLen + Len(wire) \in Nat
  BY <1>1
<1> QED BY <1>1, <1>2, ConcatAt

\* Nothing is ahead to begin with.
LEMMA InitTransport ==
  ASSUME Init PROVE TransportInv
<1>1. <<>> \in Seq(Unit) /\ Len(<<>>) = 0 /\ <<>> \in Seq(Payloads)
      /\ <<>> \in Seq(Messages \cup {Malformed})
  OBVIOUS
<1>2. SenderTypes
  BY <1>1 DEF Init, SenderTypes, Taken
<1>3. ReceiverTypes /\ WireTypes
  <2>1. stage \in {"header", "payload", "crc", "threw", "ended"} /\ up \in BOOLEAN /\ damaged \in BOOLEAN
    BY DEF Init
  <2>2. /\ got = <<>> /\ payload = <<>> /\ received = <<>> /\ wire = <<>>
        /\ stage # "payload"
    BY DEF Init
  <2> QED BY <1>1, <2>1, <2>2 DEF ReceiverTypes, WireTypes
<1>4. ReadLen + Len(wire) = 0 /\ Len(outgoing) = 0 /\ Len(accepted) = 0 /\ Len(received) = 0
      /\ up = TRUE /\ damaged = FALSE
  BY DEF Init, ReadLen
<1> DEFINE off == [i \in 0..0 |-> 0]
           ahead == Read \o wire
<1>5. off \in [0..0 -> Nat] /\ off[0] = 0
  OBVIOUS
<1> HIDE DEF off, ahead
<1>6. Layout(off, accepted, 0, 0)
  BY <1>5 DEF Layout
<1>7. Carries(off, accepted, 0, 0, ahead, 0, 0) /\ Continues(off, accepted, 0, 0, 0, 0, outgoing, 0)
  BY <1>5 DEF Carries, Continues
<1>8. StreamWith(off, 0, ahead, 0, outgoing, 0, accepted, 0, 0, TRUE, FALSE)
  BY <1>5, <1>6, <1>7 DEF StreamWith
<1>9. Stream(ahead, 0, outgoing, 0, accepted, 0, 0, TRUE, FALSE)
  BY <1>8 DEF Stream
<1>10. StreamOK
  BY <1>4, <1>9 DEF StreamOK, ahead
<1>11. CleanNeverRejected
  BY DEF Init, CleanNeverRejected
<1> QED BY <1>2, <1>3, <1>10, <1>11 DEF TransportInv

\* send_frame takes on a payload.
LEMMA SendFrameInv ==
  ASSUME TransportInv, NEW p \in Payloads, SendFrame(p)
  PROVE  TransportInv'
<1>1. SenderTypes /\ ReceiverTypes /\ WireTypes /\ (Reading => StreamOK) /\ CleanNeverRejected
  BY DEF TransportInv
<1>2. /\ outgoing = <<>> /\ Len(p) <= MaxFramePayload /\ accepted' = Append(accepted, p)
      /\ outgoing' = Frame(p) /\ wire' = wire /\ up' = up /\ damaged' = damaged
      /\ stage' = stage /\ got' = got /\ payload' = payload /\ received' = received
  BY DEF SendFrame, recvVars
<1>3. p \in Seq(Nat)
  BY FramesAssumption
<1>4. Len(p) \in Nat /\ p \in SeqOf(Nat, Len(p))
  BY <1>3, SeqFits
<1>5. outgoing' \in Seq(Unit) /\ Len(outgoing') = Len(p) + 4
  <2>1. Frame(p) \in SeqOf(Unit, Len(p) + 4) /\ Len(p) + 4 \in Nat
    BY <1>4, FrameAt
  <2> QED BY <1>2, <2>1, SeqParts
<1>6. /\ accepted' \in Seq(Payloads) /\ Len(accepted') = Len(accepted) + 1
      /\ accepted'[Len(accepted) + 1] = p /\ Len(accepted) \in Nat
      /\ \A i \in 1..Len(accepted) : accepted'[i] = accepted[i]
  BY <1>1, <1>2 DEF SenderTypes
<1>7. Taken(accepted', Len(accepted'))
  <2>1. Taken(accepted, Len(accepted))
    BY <1>1 DEF SenderTypes
  <2>2. ASSUME NEW i \in 1..(Len(accepted) + 1)
        PROVE  /\ accepted'[i] \in Payloads /\ Len(accepted'[i]) \in Nat
               /\ Len(accepted'[i]) <= MaxFramePayload
               /\ accepted'[i] \in SeqOf(Nat, Len(accepted'[i]))
    <3>1. CASE i = Len(accepted) + 1
      BY <1>2, <1>4, <1>6, <3>1
    <3>2. CASE i # Len(accepted) + 1
      <4>1. i \in 1..Len(accepted)
        BY <1>6, <3>2
      <4>2. accepted'[i] = accepted[i]
        BY <1>6, <4>1
      <4> QED BY <2>1, <4>1, <4>2 DEF Taken
    <3> QED BY <3>1, <3>2
  <2>3. Len(accepted) + 1 \in Nat
    BY <1>6
  <2> QED BY <1>6, <2>2, <2>3 DEF Taken
<1>8. SenderTypes'
  BY <1>5, <1>6, <1>7 DEF SenderTypes
<1>9. ReceiverTypes' /\ WireTypes' /\ CleanNeverRejected' /\ Reading' = Reading
      /\ Read' = Read /\ ReadLen' = ReadLen
  BY <1>1, <1>2 DEF ReceiverTypes, WireTypes, CleanNeverRejected, Reading, Read, ReadLen
<1>10. ASSUME Reading PROVE StreamOK'
  <2>1. /\ ReadLen + Len(wire) \in Nat /\ Taken(accepted, Len(accepted))
    BY <1>1, <1>10, AheadParts DEF SenderTypes
  <2>2. Stream(Read \o wire, ReadLen + Len(wire), outgoing, 0,
               accepted, Len(accepted), Len(received), up, damaged)
    <3>1. Len(outgoing) = 0
      BY <1>2
    <3> QED BY <1>1, <1>10, <3>1 DEF StreamOK
  <2>3. Stream(Read \o wire, ReadLen + Len(wire), Frame(p), Len(p) + 4,
               accepted', Len(accepted) + 1, Len(received), up, damaged)
    <3> DEFINE x == Read \o wire
               n == ReadLen + Len(wire)
               l == Len(p)
               a == Len(accepted)
               r == Len(received)
               acc2 == accepted'
    <3>1. n \in Nat /\ Taken(accepted, a) /\ Stream(x, n, outgoing, 0, accepted, a, r, up, damaged)
          /\ l \in Nat /\ Len(p) = l /\ acc2[a + 1] = p /\ \A i \in 1..a : acc2[i] = accepted[i]
      BY <1>4, <1>6, <2>1, <2>2
    <3> HIDE DEF x, n, l, a, r, acc2
    <3>2. Stream(x, n, Frame(p), l + 4, acc2, a + 1, r, up, damaged)
      BY <3>1, StreamTakes
    <3> QED BY <3>2 DEF x, n, l, a, r, acc2
  <2> QED BY <1>2, <1>5, <1>6, <1>9, <2>3 DEF StreamOK
<1> QED BY <1>8, <1>9, <1>10 DEF TransportInv

\* send_all writes a chunk.
LEMMA SendChunkInv ==
  ASSUME TransportInv, NEW k \in Nat, SendChunk(k)
  PROVE  TransportInv'
<1>1. SenderTypes /\ ReceiverTypes /\ WireTypes /\ (Reading => StreamOK) /\ CleanNeverRejected
  BY DEF TransportInv
<1> DEFINE w == Len(wire)
           o == Len(outgoing)
<1>2. /\ up /\ k <= o /\ wire' = wire \o SubSeq(outgoing, 1, k)
      /\ outgoing' = SubSeq(outgoing, k + 1, o)
      /\ accepted' = accepted /\ up' = up /\ damaged' = damaged
      /\ stage' = stage /\ got' = got /\ payload' = payload /\ received' = received
  BY DEF SendChunk, recvVars
<1>3. w \in Nat /\ wire \in SeqOf(Unit, w) /\ o \in Nat /\ outgoing \in SeqOf(Unit, o)
  BY <1>1, SeqFits DEF SenderTypes, WireTypes
<1> HIDE DEF w, o
<1>4. k \in 0..o /\ k \in Nat /\ o - k \in Nat /\ w + k \in Nat
  BY <1>2, <1>3
<1>5. wire' \in SeqOf(Unit, w + k) /\ Joins(wire', wire, w, outgoing, k)
  <2> DEFINE c == SubSeq(outgoing, 1, k)
  <2>1. c \in SeqOf(Unit, k) /\ \A i \in 1..k : c[i] = outgoing[i]
    BY <1>3, <1>4, SplitAt
  <2> HIDE DEF c
  <2>2. wire \o c \in SeqOf(Unit, w + k) /\ Joins(wire \o c, wire, w, c, k)
    BY <1>3, <1>4, <2>1, ConcatAt
  <2>3. wire' = wire \o c
    BY <1>2 DEF c
  <2> QED BY <2>1, <2>2, <2>3 DEF Joins
<1>6. outgoing' \in SeqOf(Unit, o - k) /\ \A y \in 1..(o - k) : outgoing'[y] = outgoing[k + y]
  BY <1>2, <1>3, <1>4, SplitAt
<1>7. /\ wire' \in Seq(Unit) /\ Len(wire') = w + k
      /\ outgoing' \in Seq(Unit) /\ Len(outgoing') = o - k
  BY <1>4, <1>5, <1>6, SeqParts
<1>8. SenderTypes' /\ ReceiverTypes' /\ WireTypes' /\ CleanNeverRejected' /\ Reading' = Reading
      /\ Read' = Read /\ ReadLen' = ReadLen
  BY <1>1, <1>2, <1>7 DEF SenderTypes, ReceiverTypes, WireTypes, CleanNeverRejected, Reading,
                          Read, ReadLen
<1>9. ASSUME Reading PROVE StreamOK'
  <2> DEFINE g == ReadLen
             rd == Read
             x == rd \o wire
             y == rd \o wire'
  <2>1. g \in Nat /\ rd \in SeqOf(Unit, g)
    BY <1>1, <1>9, ReadParts
  <2>2. Stream(x, g + w, outgoing, o, accepted, Len(accepted), Len(received), TRUE, damaged)
    <3>1. up = TRUE
      BY <1>1, <1>2 DEF WireTypes
    <3> QED BY <1>1, <1>9, <3>1 DEF StreamOK, w, o
  <2> HIDE DEF g, rd
  <2>3. Joins(x, rd, g, wire, w)
    BY <1>3, <2>1, ConcatAt
  <2>4. Joins(y, rd, g, wire', w + k)
    BY <1>4, <1>5, <2>1, ConcatAt
  <2> HIDE DEF x, y
  <2>5. g + w \in Nat /\ (g + w) + k = g + (w + k)
    BY <1>3, <2>1
  <2>6. Joins(y, x, g + w, outgoing, k)
    <3>1. ASSUME NEW i \in 1..(g + w) PROVE y[i] = x[i]
      <4>1. CASE i <= g
        <5>1. i \in 1..g
          BY <2>1, <4>1
        <5> QED BY <2>3, <2>4, <5>1 DEF Joins
      <4>2. CASE i > g
        <5>1. i - g \in 1..w /\ i - g \in 1..(w + k) /\ g + (i - g) = i
          BY <1>3, <2>1, <4>2
        <5>2. y[g + (i - g)] = wire'[i - g] /\ x[g + (i - g)] = wire[i - g]
              /\ wire'[i - g] = wire[i - g]
          BY <1>5, <2>3, <2>4, <5>1 DEF Joins
        <5> QED BY <5>1, <5>2
      <4> QED BY <2>1, <4>1, <4>2
    <3>2. ASSUME NEW i \in 1..k PROVE y[(g + w) + i] = outgoing[i]
      <4>1. w + i \in 1..(w + k) /\ (g + w) + i = g + (w + i)
        BY <1>3, <2>1
      <4>2. y[g + (w + i)] = wire'[w + i] /\ wire'[w + i] = outgoing[i]
        BY <1>5, <2>4, <4>1 DEF Joins
      <4> QED BY <4>1, <4>2
    <3> QED BY <3>1, <3>2 DEF Joins
  <2>7. Stream(y, (g + w) + k, outgoing', o - k, accepted, Len(accepted), Len(received), TRUE, damaged)
    BY <1>3, <1>4, <1>6, <2>2, <2>5, <2>6, StreamSends
  <2>8. /\ y = Read' \o wire' /\ (g + w) + k = ReadLen' + Len(wire')
        /\ up' = TRUE
    BY <1>1, <1>2, <1>7, <1>8, <2>5 DEF WireTypes, y, g, rd
  <2> QED BY <1>2, <1>7, <2>7, <2>8 DEF StreamOK
<1> QED BY <1>8, <1>9 DEF TransportInv

\* recv_all takes units from the wire that belong to the same frame.
LEMMA StreamReadOn ==
  ASSUME ReceiverTypes, WireTypes, Reading, StreamOK, NEW k \in 0..Len(wire),
         wire' = SubSeq(wire, k + 1, Len(wire)),
         UNCHANGED <<outgoing, accepted, received, up, damaged>>,
         ReadLen' = ReadLen + k, Read' \in SeqOf(Unit, ReadLen + k),
         Joins(Read', Read, ReadLen, wire, k)
  PROVE  StreamOK'
<1> DEFINE g == ReadLen
           w == Len(wire)
           rd == Read
           rd2 == Read'
<1>1. g \in Nat /\ w \in Nat /\ rd \in SeqOf(Unit, g) /\ wire \in SeqOf(Unit, w)
  BY ReadParts
<1>2. k \in 0..w /\ rd2 \in SeqOf(Unit, g + k) /\ Joins(rd2, rd, g, wire, k)
      /\ wire' = SubSeq(wire, k + 1, w) /\ ReadLen' = g + k
  OBVIOUS
<1> HIDE DEF g, w, rd, rd2
<1>3. rd2 \o SubSeq(wire, k + 1, w) = rd \o wire /\ (g + k) + (w - k) = g + w
  BY <1>1, <1>2, ReadOn
<1>4. Len(wire') = w - k
  <2>1. wire' \in SeqOf(Unit, w - k) /\ w - k \in Nat
    BY <1>1, <1>2, SplitAt
  <2> QED BY <2>1, SeqParts
<1>5. Read' \o wire' = Read \o wire /\ ReadLen' + Len(wire') = ReadLen + Len(wire)
  BY <1>2, <1>3, <1>4 DEF rd, rd2, g, w
<1> QED BY <1>5 DEF StreamOK

\* recv hands over units, but fewer than recv_all wants.
LEMMA PartialInv ==
  ASSUME TransportInv, NEW k \in Nat, k # 0, RecvChunk(k),
         Len(got \o SubSeq(wire, 1, k)) < Wanted
  PROVE  TransportInv' /\ UNCHANGED <<accepted, received>>
<1>1. SenderTypes /\ ReceiverTypes /\ WireTypes /\ (Reading => StreamOK) /\ CleanNeverRejected
  BY DEF TransportInv
<1> DEFINE w == Len(wire)
           g == Len(got)
           u == got \o SubSeq(wire, 1, k)
<1>2. /\ Reading /\ k <= w /\ wire' = SubSeq(wire, k + 1, w) /\ got' = u
      /\ stage' = stage /\ payload' = payload /\ received' = received
      /\ outgoing' = outgoing /\ accepted' = accepted /\ up' = up /\ damaged' = damaged
  BY DEF RecvChunk, sendVars, Reading
<1>3. /\ ReadLen \in Nat /\ Read \in SeqOf(Unit, ReadLen)
      /\ w \in Nat /\ wire \in SeqOf(Unit, w) /\ g \in Nat /\ got \in SeqOf(Unit, g)
      /\ Len(payload) \in Nat /\ payload \in SeqOf(Unit, Len(payload))
  BY <1>1, <1>2, ReadParts
<1>4. k \in 0..w
  BY <1>2, <1>3
<1>5. u \in SeqOf(Unit, g + k) /\ Joins(u, got, g, wire, k)
  BY <1>3, <1>4, ChunkRead
<1>6. Len(u) < Wanted
  OBVIOUS
<1>7. wire' \in SeqOf(Unit, w - k)
  BY <1>2, <1>3, <1>4, SplitAt
<1>8. k \in 0..Len(wire) /\ wire' = SubSeq(wire, k + 1, Len(wire))
  BY <1>2, <1>4
<1> HIDE DEF w, g, u
<1>9. wire' \in Seq(Unit) /\ u \in Seq(Unit) /\ Len(u) = g + k /\ g + k \in Nat
  <2>1. w - k \in Nat /\ g + k \in Nat
    BY <1>3, <1>4
  <2> QED BY <1>5, <1>7, <2>1, SeqParts
<1>10. stage # "crc"
  <2> SUFFICES ASSUME stage = "crc" PROVE FALSE
    OBVIOUS
  <2>1. Wanted = 1
    BY DEF Wanted
  <2> QED BY <1>3, <1>6, <1>9, <2>1
<1>11. ReceiverTypes' /\ WireTypes' /\ SenderTypes' /\ CleanNeverRejected' /\ Reading'
  <2>1. WireTypes' /\ SenderTypes' /\ CleanNeverRejected' /\ Reading'
    BY <1>1, <1>2, <1>9 DEF WireTypes, SenderTypes, CleanNeverRejected, Reading
  <2>2. stage = "header" => Len(got') < 3
    BY <1>2, <1>6 DEF Wanted
  <2>3. stage = "payload" => Len(got') < Len(payload)
    BY <1>2, <1>6 DEF Wanted
  <2> QED BY <1>1, <1>2, <1>9, <1>10, <2>1, <2>2, <2>3 DEF ReceiverTypes
<1>12. ReadLen' = ReadLen + k /\ Read' \in SeqOf(Unit, ReadLen + k)
       /\ Joins(Read', Read, ReadLen, wire, k)
  <2>1. CASE stage = "header"
    <3>1. Read = got /\ Read' = u /\ ReadLen = g /\ ReadLen' = g + k
      BY <1>2, <1>9, <2>1 DEF Read, ReadLen, g
    <3> QED BY <1>5, <3>1
  <2>2. CASE stage = "payload"
    <3> DEFINE l == Len(payload)
    <3>1. /\ Read = Header(l) \o got /\ Read' = Header(l) \o u
          /\ ReadLen = 3 + g /\ ReadLen' = 3 + (g + k)
      BY <1>2, <1>9, <2>2 DEF Read, ReadLen, g
    <3>2. l \in Nat
      BY <1>3
    <3> HIDE DEF l
    <3>3. /\ Header(l) \o u \in SeqOf(Unit, (3 + g) + k)
          /\ Joins(Header(l) \o u, Header(l) \o got, 3 + g, wire, k)
      BY <1>3, <1>5, <3>2, BehindHeader
    <3>4. 3 + (g + k) = (3 + g) + k
      BY <1>3
    <3> QED BY <3>1, <3>3, <3>4
  <2> QED BY <1>2, <1>10, <2>1, <2>2 DEF Reading
<1>13. StreamOK'
  BY <1>1, <1>2, <1>8, <1>12, StreamReadOn
<1> QED BY <1>2, <1>11, <1>13 DEF TransportInv

\* A payload buffer of n units.
LEMMA BlankPayload ==
  ASSUME NEW n \in Nat
  PROVE  [i \in 1..n |-> Word(0)] \in SeqOf(Unit, n)
<1>1. Word(0) \in Unit
  BY UnitTypes
<1>2. [i \in 1..n |-> Word(0)] \in [1..n -> Unit]
  BY <1>1
<1>3. \A f \in [1..n -> Unit] : f \in Seq(Unit) /\ Len(f) = n
  OBVIOUS
<1> QED BY <1>2, <1>3 DEF SeqOf

\* A header is complete.
LEMMA HeaderInv ==
  ASSUME TransportInv, NEW k \in Nat, k # 0, RecvChunk(k), stage = "header",
         ~(Len(got \o SubSeq(wire, 1, k)) < Wanted)
  PROVE  TransportInv' /\ UNCHANGED <<accepted, received>>
<1>1. SenderTypes /\ ReceiverTypes /\ WireTypes /\ (Reading => StreamOK) /\ CleanNeverRejected
  BY DEF TransportInv
<1> DEFINE w == Len(wire)
           g == Len(got)
           u == got \o SubSeq(wire, 1, k)
           n == ReadLen + Len(wire)
           x == Read \o wire
<1>2. /\ Reading /\ k <= w /\ k <= Wanted - g /\ wire' = SubSeq(wire, k + 1, w)
      /\ got' = <<>> /\ Filled(u) /\ Wanted = 3
      /\ outgoing' = outgoing /\ accepted' = accepted /\ up' = up /\ damaged' = damaged
  BY DEF RecvChunk, sendVars, Reading, Wanted
<1>3. /\ w \in Nat /\ wire \in SeqOf(Unit, w) /\ g \in Nat /\ got \in SeqOf(Unit, g)
      /\ n \in Nat /\ Joins(x, Read, ReadLen, wire, w)
  BY <1>1, <1>2, ReadParts, AheadParts
<1>4. k \in 0..w
  BY <1>2, <1>3
<1>5. u \in SeqOf(Unit, g + k) /\ Joins(u, got, g, wire, k)
  BY <1>3, <1>4, ChunkRead
<1>6. ~(Len(u) < Wanted)
  OBVIOUS
<1>7. wire' \in SeqOf(Unit, w - k)
  BY <1>2, <1>3, <1>4, SplitAt
<1>8. k \in 0..Len(wire) /\ wire' = SubSeq(wire, k + 1, Len(wire))
  BY <1>2, <1>4
<1>9. Read = got /\ ReadLen = g /\ n = g + w
  BY DEF Read, ReadLen
<1>10. /\ Taken(accepted, Len(accepted))
       /\ Stream(x, n, outgoing, Len(outgoing), accepted, Len(accepted), Len(received), up, damaged)
  BY <1>1, <1>2 DEF StreamOK, SenderTypes
<1> HIDE DEF w, g, u, n, x
<1>11. wire' \in Seq(Unit) /\ Len(u) = g + k /\ g + k \in Nat
  <2>1. w - k \in Nat /\ g + k \in Nat
    BY <1>3, <1>4
  <2> QED BY <1>5, <1>7, <2>1, SeqParts
<1>12. g + k = 3 /\ n >= 3 /\ u \in SeqOf(Unit, 3)
  <2>1. g + k = 3
    BY <1>2, <1>3, <1>6, <1>11
  <2> QED BY <1>2, <1>3, <1>5, <1>9, <2>1
<1>13. x[1] = u[1] /\ x[2] = u[2] /\ x[3] = u[3]
  <2>1. ASSUME NEW i \in 1..3 PROVE x[i] = u[i]
    <3>1. CASE i <= g
      <4>1. i \in 1..g
        BY <1>3, <3>1
      <4> QED BY <1>3, <1>5, <1>9, <4>1 DEF Joins
    <3>2. CASE i > g
      <4>1. i - g \in 1..k /\ i - g \in 1..w /\ g + (i - g) = i
        BY <1>2, <1>3, <1>12, <3>2
      <4>2. x[g + (i - g)] = wire[i - g] /\ u[g + (i - g)] = wire[i - g]
        BY <1>3, <1>5, <1>9, <4>1 DEF Joins
      <4> QED BY <4>1, <4>2
    <3> QED BY <1>3, <3>1, <3>2
  <2> QED BY <2>1
<1>14. PICK l \in Nat : x[3] = Word(l)
  BY <1>3, <1>10, <1>12, LengthIsWord
<1>15. u[3] = Word(l) /\ u[3].word = l
  BY <1>13, <1>14, UnitKinds
<1>16. SenderTypes' /\ WireTypes'
  BY <1>1, <1>2, <1>11 DEF WireTypes, SenderTypes
<1>17. CASE HeaderOK(u)
  <2>1. /\ payload' = [i \in 1..l |-> Word(0)] /\ received' = received
        /\ stage' = IF l > 0 THEN "payload" ELSE "crc"
        /\ u[1] = Word(FrameMagic) /\ u[2] = Word(FrameVersion)
    BY <1>2, <1>15, <1>17 DEF Filled, HeaderOK
  <2>2. payload' \in SeqOf(Unit, l) /\ payload' \in Seq(Unit) /\ Len(payload') = l
    BY <2>1, BlankPayload, SeqParts
  <2>3. <<>> \in Seq(Unit) /\ Len(<<>>) = 0 /\ <<>> \in SeqOf(Unit, 0)
    BY DEF SeqOf
  <2>4. Header(l) \o <<>> = u
    BY <1>12, <1>15, <2>1, <2>3, BareHeader
  <2>5. ReceiverTypes' /\ Reading' /\ CleanNeverRejected'
    <3>1. Len(got') = 0 /\ got' \in Seq(Unit) /\ stage' \in {"payload", "crc"}
          /\ (stage' = "payload" => l > 0)
      BY <1>2, <2>1, <2>3
    <3>2. received' \in Seq(Messages \cup {Malformed})
      BY <1>1, <2>1 DEF ReceiverTypes
    <3> QED BY <1>2, <2>2, <3>1, <3>2 DEF ReceiverTypes, Reading, CleanNeverRejected
  <2>6. Read' = u /\ ReadLen' = 3
    <3>1. CASE l > 0
      <4>1. stage' = "payload"
        BY <2>1, <3>1
      <4>2. Read' = Header(Len(payload')) \o got' /\ ReadLen' = 3 + Len(got')
        BY <4>1 DEF Read, ReadLen
      <4> QED BY <1>2, <2>2, <2>3, <2>4, <4>2
    <3>2. CASE ~(l > 0)
      <4>1. stage' = "crc" /\ l = 0
        BY <2>1, <3>2
      <4>2. Read' = Header(Len(payload')) \o payload' /\ ReadLen' = 3 + Len(payload')
        BY <4>1 DEF Read, ReadLen
      <4>3. payload' \in SeqOf(Unit, 0)
        BY <2>2, <4>1
      <4>4. Header(l) \o payload' = u
        BY <1>12, <1>15, <2>1, <4>3, BareHeader
      <4> QED BY <2>2, <4>1, <4>2, <4>4
    <3> QED BY <3>1, <3>2
  <2>7. ReadLen' = ReadLen + k /\ Read' \in SeqOf(Unit, ReadLen + k)
        /\ Joins(Read', Read, ReadLen, wire, k)
    BY <1>5, <1>9, <1>12, <2>6
  <2>8. StreamOK'
    BY <1>1, <1>2, <1>8, <2>1, <2>7, StreamReadOn
  <2> QED BY <1>2, <1>16, <2>1, <2>5, <2>8 DEF TransportInv
<1>18. CASE ~HeaderOK(u)
  <2>1. stage' = "threw" /\ payload' = payload /\ received' = received
    BY <1>2, <1>18 DEF Filled
  <2>2. damaged
    <3> SUFFICES ASSUME ~damaged PROVE FALSE
      OBVIOUS
    <3>1. damaged = FALSE
      BY <1>1 DEF WireTypes
    <3>2. Stream(x, n, outgoing, Len(outgoing), accepted, Len(accepted), Len(received), up, FALSE)
      BY <1>10, <3>1
    <3>3. /\ x[1] = Word(FrameMagic) /\ x[2] = Word(FrameVersion)
          /\ \E m \in Nat : x[3] = Word(m) /\ m <= MaxFramePayload
      BY <1>3, <1>10, <1>12, <3>2, CleanAgrees
    <3> QED BY <1>13, <1>15, <1>18, <3>3, UnitKinds DEF HeaderOK
  <2>3. <<>> \in Seq(Unit)
    OBVIOUS
  <2>4. ReceiverTypes' /\ ~Reading' /\ CleanNeverRejected'
    BY <1>1, <1>2, <2>1, <2>2, <2>3 DEF ReceiverTypes, Reading, CleanNeverRejected
  <2> QED BY <1>2, <1>16, <2>1, <2>4 DEF TransportInv
<1> QED BY <1>17, <1>18

\* A payload is complete.
LEMMA PayloadInv ==
  ASSUME TransportInv, NEW k \in Nat, k # 0, RecvChunk(k), stage = "payload",
         ~(Len(got \o SubSeq(wire, 1, k)) < Wanted)
  PROVE  TransportInv' /\ UNCHANGED <<accepted, received>>
<1>1. SenderTypes /\ ReceiverTypes /\ WireTypes /\ (Reading => StreamOK) /\ CleanNeverRejected
  BY DEF TransportInv
<1> DEFINE w == Len(wire)
           g == Len(got)
           l == Len(payload)
           u == got \o SubSeq(wire, 1, k)
<1>2. /\ Reading /\ k <= w /\ k <= Wanted - g /\ wire' = SubSeq(wire, k + 1, w)
      /\ got' = <<>> /\ Filled(u) /\ Wanted = l
      /\ outgoing' = outgoing /\ accepted' = accepted /\ up' = up /\ damaged' = damaged
  BY DEF RecvChunk, sendVars, Reading, Wanted
<1>3. /\ w \in Nat /\ wire \in SeqOf(Unit, w) /\ g \in Nat /\ got \in SeqOf(Unit, g)
      /\ l \in Nat
  BY <1>1, <1>2, ReadParts
<1>4. k \in 0..w
  BY <1>2, <1>3
<1>5. u \in SeqOf(Unit, g + k) /\ Joins(u, got, g, wire, k)
  BY <1>3, <1>4, ChunkRead
<1>6. ~(Len(u) < Wanted)
  OBVIOUS
<1>7. wire' \in SeqOf(Unit, w - k)
  BY <1>2, <1>3, <1>4, SplitAt
<1>8. k \in 0..Len(wire) /\ wire' = SubSeq(wire, k + 1, Len(wire))
  BY <1>2, <1>4
<1>9. Read = Header(l) \o got /\ ReadLen = 3 + g
  BY DEF Read, ReadLen
<1> HIDE DEF w, g, u, l
<1>10. wire' \in Seq(Unit) /\ Len(u) = g + k /\ g + k \in Nat /\ u \in Seq(Unit)
  <2>1. w - k \in Nat /\ g + k \in Nat
    BY <1>3, <1>4
  <2> QED BY <1>5, <1>7, <2>1, SeqParts
<1>11. g + k = l
  BY <1>2, <1>3, <1>6, <1>10
<1>12. stage' = "crc" /\ payload' = u /\ received' = received
  BY <1>2 DEF Filled
<1>13. SenderTypes' /\ WireTypes' /\ ReceiverTypes' /\ Reading' /\ CleanNeverRejected'
  <2>1. <<>> \in Seq(Unit)
    OBVIOUS
  <2> QED BY <1>1, <1>2, <1>10, <1>12, <2>1
          DEF WireTypes, SenderTypes, ReceiverTypes, Reading, CleanNeverRejected
<1>14. Read' = Header(l) \o u /\ ReadLen' = (3 + g) + k
  <2>1. Read' = Header(Len(payload')) \o payload' /\ ReadLen' = 3 + Len(payload')
    BY <1>12 DEF Read, ReadLen
  <2>2. Len(payload') = l
    BY <1>10, <1>11, <1>12
  <2>3. 3 + l = (3 + g) + k
    BY <1>3, <1>11
  <2> QED BY <1>12, <2>1, <2>2, <2>3
<1>15. /\ Header(l) \o u \in SeqOf(Unit, (3 + g) + k)
       /\ Joins(Header(l) \o u, Header(l) \o got, 3 + g, wire, k)
  BY <1>3, <1>5, BehindHeader
<1>16. ReadLen' = ReadLen + k /\ Read' \in SeqOf(Unit, ReadLen + k)
       /\ Joins(Read', Read, ReadLen, wire, k)
  BY <1>9, <1>14, <1>15
<1>17. StreamOK'
  BY <1>1, <1>2, <1>8, <1>12, <1>16, StreamReadOn
<1> QED BY <1>2, <1>12, <1>13, <1>17 DEF TransportInv

\* What is ahead while recv_frame waits for the checksum: the header and the
\* payload it has read, and then the wire.
LEMMA CrcAhead ==
  ASSUME ReceiverTypes, WireTypes, stage = "crc", Len(wire) >= 1
  PROVE  /\ ReadLen + Len(wire) = Len(payload) + 3 + Len(wire)
         /\ Len(payload) + 4 <= ReadLen + Len(wire)
         /\ Whole(Read \o wire, Len(payload), payload)
         /\ (Read \o wire)[Len(payload) + 4] = wire[1]
         /\ \A i \in 1..(Len(wire) - 1) : (Read \o wire)[(Len(payload) + 4) + i] = wire[1 + i]
<1> DEFINE m == Len(payload)
           w == Len(wire)
           h == Header(m)
           rd == h \o payload
           x == rd \o wire
<1>1. Reading /\ Read = rd /\ ReadLen = 3 + m
  BY DEF Reading, Read, ReadLen
<1>2. m \in Nat /\ payload \in SeqOf(Unit, m) /\ w \in Nat /\ wire \in SeqOf(Unit, w) /\ w >= 1
  BY <1>1, ReadParts
<1>3. /\ h \in SeqOf(Unit, 3) /\ 3 \in Nat
      /\ h[1] = Word(FrameMagic) /\ h[2] = Word(FrameVersion) /\ h[3] = Word(m)
  BY <1>2, HeaderAt
<1> HIDE DEF m, w, h
<1>4. rd \in SeqOf(Unit, 3 + m) /\ Joins(rd, h, 3, payload, m)
  BY <1>2, <1>3, ConcatAt
<1> HIDE DEF rd
<1>5. 3 + m \in Nat
  BY <1>2
<1>6. Joins(x, rd, 3 + m, wire, w)
  BY <1>2, <1>4, <1>5, ConcatAt
<1> HIDE DEF x
<1>7. ASSUME NEW i \in 1..3 PROVE x[i] = h[i]
  <2>1. i \in 1..(3 + m)
    BY <1>2
  <2> QED BY <1>4, <1>6, <2>1 DEF Joins
<1>8. ASSUME NEW i \in 1..m PROVE x[3 + i] = payload[i]
  <2>1. 3 + i \in 1..(3 + m)
    BY <1>2
  <2> QED BY <1>4, <1>6, <2>1 DEF Joins
<1>9. Whole(x, m, payload)
  <2>1. x[1] = h[1] /\ x[2] = h[2] /\ x[3] = h[3]
    BY <1>7
  <2> QED BY <1>3, <1>8, <2>1 DEF Whole
<1>10. x[m + 4] = wire[1]
  <2>1. 1 \in 1..w /\ (3 + m) + 1 = m + 4
    BY <1>2
  <2>2. x[(3 + m) + 1] = wire[1]
    BY <1>6, <2>1 DEF Joins
  <2> QED BY <2>1, <2>2
<1>11. ASSUME NEW i \in 1..(w - 1) PROVE x[(m + 4) + i] = wire[1 + i]
  <2>1. 1 + i \in 1..w /\ (3 + m) + (1 + i) = (m + 4) + i
    BY <1>2
  <2>2. x[(3 + m) + (1 + i)] = wire[1 + i]
    BY <1>6, <2>1 DEF Joins
  <2> QED BY <2>1, <2>2
<1>12. Read \o wire = x
  BY <1>1 DEF x
<1>13. ReadLen + w = m + 3 + w /\ m + 4 <= ReadLen + w
  BY <1>1, <1>2
<1> QED BY <1>9, <1>10, <1>11, <1>12, <1>13 DEF m, w

\* A checksum is read, the last unit of a frame: the frame is delivered, or
\* recv_frame throws.
LEMMA ChecksumInv ==
  ASSUME TransportInv, NEW k \in Nat, k # 0, RecvChunk(k), stage = "crc"
  PROVE  /\ TransportInv'
         /\ Channel!Deliver \/ UNCHANGED <<accepted, received>>
<1>1. SenderTypes /\ ReceiverTypes /\ WireTypes /\ (Reading => StreamOK) /\ CleanNeverRejected
  BY DEF TransportInv
<1> DEFINE w == Len(wire)
           u == got \o SubSeq(wire, 1, k)
           m == Len(payload)
           n == ReadLen + Len(wire)
           x == Read \o wire
           a == Len(accepted)
           r == Len(received)
<1>2. /\ Reading /\ k <= w /\ k <= Wanted - Len(got) /\ wire' = SubSeq(wire, k + 1, w)
      /\ Wanted = 1 /\ got = <<>>
      /\ outgoing' = outgoing /\ accepted' = accepted /\ up' = up /\ damaged' = damaged
      /\ IF Len(u) < 1
         THEN got' = u /\ UNCHANGED <<stage, payload, received>>
         ELSE got' = <<>> /\ Filled(u)
  BY <1>1 DEF RecvChunk, sendVars, Reading, Wanted, ReceiverTypes
<1>3. /\ w \in Nat /\ wire \in SeqOf(Unit, w) /\ m \in Nat /\ payload \in SeqOf(Unit, m)
      /\ n \in Nat /\ x \in SeqOf(Unit, n) /\ Len(got) = 0 /\ got \in SeqOf(Unit, 0)
  <2>1. got \in SeqOf(Unit, Len(got)) /\ Len(got) = 0
    BY <1>1, <1>2, ReadParts
  <2> QED BY <1>1, <1>2, <2>1, ReadParts, AheadParts
<1>4. k = 1 /\ w >= 1 /\ 1 \in 0..w
  BY <1>2, <1>3
<1>5. u \in SeqOf(Unit, 0 + 1) /\ Joins(u, got, 0, wire, 1)
  <2>1. 0 \in Nat /\ k \in 0..w
    BY <1>4
  <2>2. u \in SeqOf(Unit, 0 + k) /\ Joins(u, got, 0, wire, k)
    BY <1>3, <2>1, ChunkRead
  <2> QED BY <1>4, <2>2
<1>6. /\ n = m + 3 + w /\ m + 4 <= n /\ Whole(x, m, payload) /\ x[m + 4] = wire[1]
      /\ \A i \in 1..(w - 1) : x[(m + 4) + i] = wire[1 + i]
  BY <1>1, <1>4, CrcAhead
<1>7. /\ Taken(accepted, a) /\ a \in Nat /\ Len(outgoing) \in Nat
      /\ Stream(x, n, outgoing, Len(outgoing), accepted, a, r, up, damaged)
      /\ received \in Seq(Messages \cup {Malformed}) /\ r \in Nat
  BY <1>1, <1>2 DEF StreamOK, SenderTypes, ReceiverTypes
<1>8. /\ wire' \in SeqOf(Unit, w - 1) /\ \A i \in 1..(w - 1) : wire'[i] = wire[1 + i]
  BY <1>2, <1>3, <1>4, SplitAt
<1> HIDE DEF w, u, m, n, x, a, r
<1>9. wire' \in Seq(Unit) /\ Len(wire') = w - 1 /\ Len(u) = 1 /\ u[1] = wire[1]
  <2>1. w - 1 \in Nat /\ 0 + 1 \in Nat /\ 0 + 1 = 1 /\ 1 \in 1..1
    BY <1>3, <1>4
  <2>2. u[0 + 1] = wire[1]
    BY <1>5, <2>1 DEF Joins
  <2>3. u \in SeqOf(Unit, 1) /\ 1 \in Nat
    BY <1>5, <2>1
  <2>4. Len(u) = 1
    BY <2>3, SeqParts
  <2>5. wire' \in Seq(Unit) /\ Len(wire') = w - 1
    BY <1>8, <2>1, SeqParts
  <2> QED BY <2>1, <2>2, <2>4, <2>5
<1>10. got' = <<>> /\ Filled(u)
  BY <1>2, <1>9
<1>11. SenderTypes' /\ WireTypes'
  BY <1>1, <1>2, <1>9 DEF SenderTypes, WireTypes
<1>12. <<>> \in Seq(Unit) /\ Len(<<>>) = 0
  OBVIOUS
<1>13. CASE ChecksumOK(u[1])
  <2>1. /\ received' = Append(received, Decode(Words(payload)))
        /\ stage' = "header" /\ payload' = <<>>
    BY <1>10, <1>13 DEF Filled
  <2>2. x[m + 4] = Crc(payload)
    BY <1>6, <1>9, <1>13 DEF ChecksumOK
  <2> DEFINE rest == Read' \o wire'
  <2>3. Read' = got' /\ ReadLen' = Len(got')
    BY <2>1 DEF Read, ReadLen
  <2>4. ReadLen' + Len(wire') = n - (m + 4)
    BY <1>3, <1>6, <1>9, <1>10, <1>12, <2>3
  <2>5. \A i \in 1..(n - (m + 4)) : rest[i] = x[(m + 4) + i]
    <3>1. rest = <<>> \o wire'
      BY <1>10, <2>3
    <3>2. <<>> \in SeqOf(Unit, 0) /\ w - 1 \in Nat /\ 0 \in Nat
      BY <1>3, <1>4, <1>12 DEF SeqOf
    <3>3. Joins(<<>> \o wire', <<>>, 0, wire', w - 1)
      BY <1>8, <3>2, ConcatAt
    <3> HIDE DEF rest
    <3>4. n - (m + 4) = w - 1
      BY <1>3, <1>6
    <3>5. \A i \in 1..(w - 1) : rest[0 + i] = wire'[i]
      BY <3>1, <3>3 DEF Joins
    <3>6. \A i \in 1..(w - 1) : 0 + i = i
      BY <1>3
    <3> QED BY <1>6, <1>8, <3>4, <3>5, <3>6
  <2> HIDE DEF rest
  <2>6. /\ r < a /\ accepted[r + 1] \in SeqOf(Nat, m) /\ payload = Units(accepted[r + 1])
        /\ Stream(rest, n - (m + 4), outgoing, Len(outgoing), accepted, a, r + 1, up, damaged)
    <3> DEFINE o == Len(outgoing)
               pl == payload
               acc == accepted
    <3>1. /\ n \in Nat /\ o \in Nat /\ m \in Nat /\ pl \in SeqOf(Unit, m) /\ x \in SeqOf(Unit, n)
          /\ Taken(acc, a) /\ Stream(x, n, outgoing, o, acc, a, r, up, damaged)
          /\ m + 4 <= n /\ Whole(x, m, pl) /\ x[m + 4] = Crc(pl)
          /\ \A i \in 1..(n - (m + 4)) : rest[i] = x[(m + 4) + i]
      BY <1>3, <1>6, <1>7, <2>2, <2>5
    <3> HIDE DEF o, pl, acc
    <3>2. /\ r < a /\ acc[r + 1] \in SeqOf(Nat, m) /\ pl = Units(acc[r + 1])
          /\ Stream(rest, n - (m + 4), outgoing, o, acc, a, r + 1, up, damaged)
      BY <3>1, StreamDelivers
    <3> QED BY <3>2 DEF o, pl, acc
  <2> DEFINE p == accepted[r + 1]
  <2>7. p \in Payloads
    <3>1. r + 1 \in 1..a
      BY <1>7, <2>6
    <3> QED BY <1>7, <3>1 DEF Taken
  <2>8. Words(payload) = p
    BY <1>3, <2>6, UnitsAt
  <2>9. Decode(p) = Channel!Meaning(p)
    BY <2>7, DecodeIsMeaning
  <2>10. Decode(p) \in Messages \cup {Malformed}
    BY <2>7, FramesAssumption
  <2>11. received' = Append(received, Channel!Meaning(p)) /\ received' = Append(received, Decode(p))
    BY <2>1, <2>8, <2>9
  <2> HIDE DEF p
  <2>12. received' \in Seq(Messages \cup {Malformed}) /\ Len(received') = r + 1
    BY <1>7, <2>10, <2>11 DEF r
  <2>13. Channel!Deliver
    BY <1>2, <2>6, <2>11 DEF Channel!Deliver, p, a, r
  <2>14. ReceiverTypes' /\ CleanNeverRejected'
    BY <1>10, <1>12, <2>1, <2>12 DEF ReceiverTypes, CleanNeverRejected
  <2>15. StreamOK'
    BY <1>2, <2>4, <2>6, <2>12 DEF StreamOK, rest, a
  <2> QED BY <1>11, <2>13, <2>14, <2>15 DEF TransportInv
<1>14. CASE ~ChecksumOK(u[1])
  <2>1. stage' = "threw" /\ payload' = payload /\ received' = received
    BY <1>10, <1>14 DEF Filled
  <2>2. damaged
    <3> SUFFICES ASSUME ~damaged PROVE FALSE
      OBVIOUS
    <3>1. damaged = FALSE
      BY <1>1 DEF WireTypes
    <3>2. Stream(x, n, outgoing, Len(outgoing), accepted, a, r, up, FALSE)
      BY <1>7, <3>1
    <3>3. \A j \in Nat : \A pl \in SeqOf(Unit, j) :
            j + 4 <= n /\ Whole(x, j, pl) => x[j + 4] = Crc(pl)
      BY <1>3, <1>7, <3>2, CleanAgrees
    <3>4. x[m + 4] = Crc(payload)
      BY <1>3, <1>6, <3>3
    <3> QED BY <1>6, <1>9, <1>14, <3>4 DEF ChecksumOK
  <2>3. ReceiverTypes' /\ ~Reading' /\ CleanNeverRejected'
    BY <1>1, <1>2, <1>10, <1>12, <2>1, <2>2 DEF ReceiverTypes, Reading, CleanNeverRejected
  <2> QED BY <1>2, <1>11, <2>1, <2>3 DEF TransportInv
<1> QED BY <1>13, <1>14

\* The connection breaks.
LEMMA BreakInv ==
  ASSUME TransportInv, NEW n \in 0..Len(wire), Break(n)
  PROVE  TransportInv'
<1>1. SenderTypes /\ ReceiverTypes /\ WireTypes /\ (Reading => StreamOK) /\ CleanNeverRejected
  BY DEF TransportInv
<1> DEFINE w == Len(wire)
<1>2. /\ up' = FALSE /\ wire' = SubSeq(wire, 1, n) /\ outgoing' = outgoing /\ accepted' = accepted
      /\ stage' = stage /\ got' = got /\ payload' = payload /\ received' = received
      /\ damaged' = damaged
  BY DEF Break, sendVars, recvVars
<1>3. w \in Nat /\ wire \in SeqOf(Unit, w) /\ n \in 0..w
  BY <1>1, SeqFits DEF WireTypes
<1>4. wire' \in SeqOf(Unit, n) /\ \A i \in 1..n : wire'[i] = wire[i]
  BY <1>2, <1>3, SplitAt
<1> HIDE DEF w
<1>5. n \in Nat /\ n <= w
  BY <1>3
<1>6. wire' \in Seq(Unit) /\ Len(wire') = n
  BY <1>4, <1>5, SeqParts
<1>7. SenderTypes' /\ ReceiverTypes' /\ WireTypes' /\ CleanNeverRejected' /\ Reading' = Reading
      /\ Read' = Read /\ ReadLen' = ReadLen
  <2>1. up' \in BOOLEAN
    BY <1>2
  <2> QED BY <1>1, <1>2, <1>6, <2>1 DEF SenderTypes, ReceiverTypes, WireTypes, CleanNeverRejected,
                                        Reading, Read, ReadLen
<1>8. ASSUME Reading PROVE StreamOK'
  <2> DEFINE g == ReadLen
             rd == Read
             x == rd \o wire
             y == rd \o wire'
  <2>1. g \in Nat /\ rd \in SeqOf(Unit, g)
    BY <1>1, <1>8, ReadParts
  <2>2. Stream(x, g + w, outgoing, Len(outgoing), accepted, Len(accepted), Len(received), up, damaged)
    BY <1>1, <1>8 DEF StreamOK, w
  <2> HIDE DEF g, rd
  <2>3. Joins(x, rd, g, wire, w) /\ Joins(y, rd, g, wire', n)
    BY <1>3, <1>4, <1>5, <2>1, ConcatAt
  <2> HIDE DEF x, y
  <2>4. g + w \in Nat /\ g + n \in 0..(g + w)
    BY <1>3, <1>5, <2>1
  <2>5. ASSUME NEW i \in 1..(g + n) PROVE y[i] = x[i]
    <3>1. CASE i <= g
      <4>1. i \in 1..g
        BY <2>1, <3>1
      <4> QED BY <2>3, <4>1 DEF Joins
    <3>2. CASE i > g
      <4>1. i - g \in 1..n /\ i - g \in 1..w /\ g + (i - g) = i
        BY <1>3, <1>5, <2>1, <3>2
      <4>2. y[g + (i - g)] = wire'[i - g] /\ x[g + (i - g)] = wire[i - g]
        BY <2>3, <4>1 DEF Joins
      <4> QED BY <1>4, <4>1, <4>2
    <3> QED BY <2>1, <3>1, <3>2
  <2>6. Stream(y, g + n, outgoing, Len(outgoing), accepted, Len(accepted), Len(received), FALSE, damaged)
    BY <2>2, <2>4, <2>5, StreamBreaks
  <2>7. y = Read' \o wire' /\ g + n = ReadLen' + Len(wire')
    BY <1>6, <1>7 DEF y, rd, g
  <2> QED BY <1>2, <2>6, <2>7 DEF StreamOK
<1> QED BY <1>7, <1>8 DEF TransportInv

\* A unit on the wire changes.
LEMMA DamageInv ==
  ASSUME TransportInv, NEW e \in 1..Len(wire), NEW v \in NoiseWords, Damage(e, v)
  PROVE  TransportInv'
<1>1. SenderTypes /\ ReceiverTypes /\ WireTypes /\ (Reading => StreamOK) /\ CleanNeverRejected
  BY DEF TransportInv
<1> DEFINE w == Len(wire)
<1>2. /\ ~damaged /\ wire[e] # Word(v) /\ wire' = [wire EXCEPT ![e] = Word(v)] /\ damaged' = TRUE
      /\ outgoing' = outgoing /\ accepted' = accepted /\ up' = up
      /\ stage' = stage /\ got' = got /\ payload' = payload /\ received' = received
  BY DEF Damage, sendVars, recvVars
<1>3. w \in Nat /\ wire \in SeqOf(Unit, w) /\ e \in 1..w
  BY <1>1, SeqFits DEF WireTypes
<1>4. v \in Nat /\ Word(v) \in Unit
  BY FramesAssumption, UnitTypes
<1>5. /\ wire' \in Seq(Unit) /\ Len(wire') = w
      /\ wire'[e] = Word(v) /\ \A i \in 1..w : i # e => wire'[i] = wire[i]
  <2>1. wire \in Seq(Unit) /\ Len(wire) = w
    BY <1>1 DEF WireTypes
  <2> HIDE DEF w
  <2> QED BY <1>2, <1>3, <1>4, <2>1
<1>6. wire' \in SeqOf(Unit, w)
  BY <1>5 DEF SeqOf
<1> HIDE DEF w
<1>7. SenderTypes' /\ ReceiverTypes' /\ WireTypes' /\ CleanNeverRejected' /\ Reading' = Reading
      /\ Read' = Read /\ ReadLen' = ReadLen
  <2>1. damaged' \in BOOLEAN
    BY <1>2
  <2> QED BY <1>1, <1>2, <1>5, <2>1 DEF SenderTypes, ReceiverTypes, WireTypes, CleanNeverRejected,
                                        Reading, Read, ReadLen
<1>8. ASSUME Reading PROVE StreamOK'
  <2> DEFINE g == ReadLen
             rd == Read
             x == rd \o wire
             y == rd \o wire'
  <2>1. g \in Nat /\ rd \in SeqOf(Unit, g)
    BY <1>1, <1>8, ReadParts
  <2>2. Stream(x, g + w, outgoing, Len(outgoing), accepted, Len(accepted), Len(received), up, FALSE)
    <3>1. damaged = FALSE
      BY <1>1, <1>2 DEF WireTypes
    <3> QED BY <1>1, <1>8, <3>1 DEF StreamOK, w
  <2> HIDE DEF g, rd
  <2>3. Joins(x, rd, g, wire, w) /\ Joins(y, rd, g, wire', w)
    BY <1>3, <1>6, <2>1, ConcatAt
  <2> HIDE DEF x, y
  <2>4. g + w \in Nat /\ g + e \in 1..(g + w)
    BY <1>3, <2>1
  <2>5. x[g + e] # Word(v) /\ y[g + e] = Word(v)
    BY <1>2, <1>3, <1>5, <2>3 DEF Joins
  <2>6. ASSUME NEW i \in 1..(g + w), i # g + e PROVE y[i] = x[i]
    <3>1. CASE i <= g
      <4>1. i \in 1..g
        BY <2>1, <3>1
      <4> QED BY <2>3, <4>1 DEF Joins
    <3>2. CASE i > g
      <4>1. i - g \in 1..w /\ g + (i - g) = i /\ i - g # e
        BY <1>3, <2>1, <2>6, <3>2
      <4>2. y[g + (i - g)] = wire'[i - g] /\ x[g + (i - g)] = wire[i - g]
        BY <2>3, <4>1 DEF Joins
      <4> QED BY <1>5, <4>1, <4>2
    <3> QED BY <2>1, <3>1, <3>2
  <2>7. Stream(y, g + w, outgoing, Len(outgoing), accepted, Len(accepted), Len(received), up, TRUE)
    BY <1>4, <2>2, <2>4, <2>5, <2>6, StreamDamaged
  <2>8. y = Read' \o wire' /\ g + w = ReadLen' + Len(wire')
    BY <1>5, <1>7 DEF y, rd, g
  <2> QED BY <1>2, <2>7, <2>8 DEF StreamOK
<1> QED BY <1>7, <1>8 DEF TransportInv

-----------------------------------------------------------------------------
(***************************************************************************)
(* The theorems.                                                           *)
(***************************************************************************)

\* Every step keeps the invariant, and is a step of the channel or leaves its
\* variables alone.
LEMMA TransportStep ==
  ASSUME TransportInv, [Next]_vars
  PROVE  TransportInv' /\ [Channel!ChannelNext]_<<accepted, received>>
<1>1. CASE UNCHANGED vars
  <2>1. /\ outgoing' = outgoing /\ accepted' = accepted /\ wire' = wire /\ up' = up
        /\ stage' = stage /\ got' = got /\ payload' = payload /\ received' = received
        /\ damaged' = damaged
    BY <1>1 DEF vars, sendVars, recvVars
  <2>2. /\ SenderTypes' = SenderTypes /\ ReceiverTypes' = ReceiverTypes /\ WireTypes' = WireTypes
        /\ Reading' = Reading /\ StreamOK' = StreamOK
        /\ CleanNeverRejected' = CleanNeverRejected
    BY <2>1 DEF SenderTypes, ReceiverTypes, WireTypes, Reading, StreamOK, Read, ReadLen,
                CleanNeverRejected
  <2> QED BY <2>1, <2>2 DEF TransportInv
<1>2. ASSUME NEW p \in Payloads, SendFrame(p)
      PROVE  TransportInv' /\ Channel!ChannelNext
  <2>1. Channel!Take(p)
    BY <1>2 DEF SendFrame, recvVars, Channel!Take
  <2> QED BY <1>2, <2>1, SendFrameInv DEF Channel!ChannelNext
<1>3. ASSUME NEW k \in 1..BufferSize, SendChunk(k)
      PROVE  TransportInv' /\ UNCHANGED <<accepted, received>>
  <2>1. k \in Nat
    BY FramesAssumption
  <2>2. UNCHANGED <<accepted, received>>
    BY <1>3 DEF SendChunk, recvVars
  <2> QED BY <1>3, <2>1, <2>2, SendChunkInv
<1>4. ASSUME NEW k \in 1..BufferSize, RecvChunk(k)
      PROVE  TransportInv' /\ (Channel!Deliver \/ UNCHANGED <<accepted, received>>)
  <2>1. k \in Nat /\ k # 0
    BY FramesAssumption
  <2>2. stage \in {"header", "payload", "crc"}
    BY <1>4 DEF RecvChunk
  <2>3. CASE Len(got \o SubSeq(wire, 1, k)) < Wanted
    BY <1>4, <2>1, <2>3, PartialInv
  <2>4. CASE stage = "header" /\ ~(Len(got \o SubSeq(wire, 1, k)) < Wanted)
    BY <1>4, <2>1, <2>4, HeaderInv
  <2>5. CASE stage = "payload" /\ ~(Len(got \o SubSeq(wire, 1, k)) < Wanted)
    BY <1>4, <2>1, <2>5, PayloadInv
  <2>6. CASE stage = "crc"
    BY <1>4, <2>1, <2>6, ChecksumInv
  <2> QED BY <2>2, <2>3, <2>4, <2>5, <2>6
<1>5. CASE RecvEnd
  <2>1. /\ outgoing' = outgoing /\ accepted' = accepted /\ wire' = wire /\ up' = up
        /\ stage' = "ended" /\ got' = got /\ payload' = payload /\ received' = received
        /\ damaged' = damaged
    BY <1>5 DEF RecvEnd, sendVars
  <2>2. SenderTypes' /\ ReceiverTypes' /\ WireTypes' /\ ~Reading' /\ CleanNeverRejected'
    BY <2>1 DEF TransportInv, SenderTypes, ReceiverTypes, WireTypes, Reading, CleanNeverRejected
  <2> QED BY <2>1, <2>2 DEF TransportInv
<1>6. ASSUME NEW n \in 0..Len(wire), Break(n)
      PROVE  TransportInv' /\ UNCHANGED <<accepted, received>>
  <2>1. UNCHANGED <<accepted, received>>
    BY <1>6 DEF Break, sendVars, recvVars
  <2> QED BY <1>6, <2>1, BreakInv
<1>7. ASSUME NEW i \in 1..Len(wire), NEW n \in NoiseWords, Damage(i, n)
      PROVE  TransportInv' /\ UNCHANGED <<accepted, received>>
  <2>1. UNCHANGED <<accepted, received>>
    BY <1>7 DEF Damage, sendVars, recvVars
  <2> QED BY <1>7, <2>1, DamageInv
<1> QED BY <1>1, <1>2, <1>3, <1>4, <1>5, <1>6, <1>7 DEF Next, Channel!ChannelNext

\* recv_frame throws only on what was damaged on the way, whatever the payloads,
\* the limits and the way the socket splits them.
THEOREM CleanAccepted == Spec => []CleanNeverRejected
<1>1. Init => TransportInv
  BY InitTransport
<1>2. TransportInv /\ [Next]_vars => TransportInv'
  BY TransportStep
<1>3. TransportInv => CleanNeverRejected
  BY DEF TransportInv
<1> QED BY <1>1, <1>2, <1>3, PTL DEF Spec

\* The framed connection implements the message channel: the receiver gets the
\* payloads send_frame took on, whole, once and in order, each as the message it
\* encodes (send_frame, recv_frame and decode).
THEOREM ConnectionIsChannel == Spec => ImplementsChannel
<1>1. Init => TransportInv /\ Channel!ChannelInit
  <2>1. Init => TransportInv
    BY InitTransport
  <2>2. Init => Channel!ChannelInit
    BY DEF Init, Channel!ChannelInit
  <2> QED BY <2>1, <2>2
<1>2. TransportInv /\ [Next]_vars
        => TransportInv' /\ [Channel!ChannelNext]_<<accepted, received>>
  BY TransportStep
<1> QED BY <1>1, <1>2, PTL DEF Spec, ImplementsChannel, Channel!ChannelSpec

=============================================================================

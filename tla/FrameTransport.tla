--------------------------- MODULE FrameTransport ---------------------------
(***************************************************************************)
(* One direction of a framed TCP connection (transport.cpp): send_frame on *)
(* one process, recv_frame in a loop on the other, and between them a      *)
(* socket that moves as many units as it likes at a time, may break, and   *)
(* may damage what it carries.                                             *)
(*                                                                         *)
(* A unit stands for one field of fixed width.  A word and the checksum of *)
(* a payload are different units, and different payloads have different    *)
(* checksums: CRC-32C is taken to detect what damage the model allows.     *)
(***************************************************************************)
EXTENDS Protocol

CONSTANTS
  Messages,         \* messages within the limits: those that the payloads encode
  Payloads,         \* payloads a peer may send, malformed ones among them
  MaxFramePayload,  \* kMaxFramePayload
  FrameMagic,       \* kFrameMagic
  FrameVersion,     \* kFrameVersion
  NoiseWords,       \* what a damaged word may turn into
  BufferSize,       \* units the socket holds before send blocks
  MaxFrames         \* bound: frames sent

ASSUME FramesAssumption ==
  /\ MaxFramePayload \in Nat
  /\ BufferSize \in Nat \ {0}
  /\ MaxFrames \in Nat
  /\ FrameMagic \in Nat /\ FrameVersion \in Nat /\ NoiseWords \subseteq Nat
  /\ Payloads \subseteq Seq(Nat) /\ Messages \subseteq Message
  /\ \A m \in Messages : WithinLimits(m) /\ Encode(m) \in Payloads
  /\ \A p \in Payloads : Decode(p) \in Messages \cup {Malformed}

VARIABLES
  outgoing,   \* units of the current frame that send_all has still to write
  wire,       \* units the socket holds
  up,         \* the connection is not broken
  stage,      \* which recv_all of recv_frame is running, or how recv_frame ended
  got,        \* units this recv_all has read
  payload,    \* the payload recv_frame has read
  accepted,   \* history: payloads send_frame took on
  received,   \* history: what the receiver made of the frames
  damaged     \* history: a unit was damaged on the wire

sendVars == <<outgoing, accepted>>
recvVars == <<stage, got, payload, received>>
vars     == <<sendVars, wire, up, recvVars, damaged>>

-----------------------------------------------------------------------------
Word(n) == [word |-> n]
Crc(p)  == [crc |-> p]

Units(p) == [i \in DOMAIN p |-> Word(p[i])]
Words(u) == [i \in DOMAIN u |-> u[i].word]

\* magic, version and length; payload; checksum.
Frame(p) ==
  <<Word(FrameMagic), Word(FrameVersion), Word(Len(p))>> \o Units(p) \o <<Crc(Units(p))>>

-----------------------------------------------------------------------------
(***************************************************************************)
(* The sending process.                                                    *)
(***************************************************************************)

\* send_frame begins: an oversized payload returns false and writes nothing.
SendFrame(p) ==
  /\ outgoing = <<>>
  /\ Len(accepted) < MaxFrames
  /\ Len(p) <= MaxFramePayload
  /\ accepted' = Append(accepted, p)
  /\ outgoing' = Frame(p)
  /\ UNCHANGED <<wire, up, recvVars, damaged>>

\* A turn of the loop in send_all, over header, payload and checksum: send
\* takes k units.
SendChunk(k) ==
  /\ up
  /\ k <= Len(outgoing)
  /\ Len(wire) + k <= BufferSize
  /\ wire' = wire \o SubSeq(outgoing, 1, k)
  /\ outgoing' = SubSeq(outgoing, k + 1, Len(outgoing))
  /\ UNCHANGED <<accepted, up, recvVars, damaged>>

-----------------------------------------------------------------------------
(***************************************************************************)
(* The receiving process.                                                  *)
(***************************************************************************)

\* The units the running recv_all was asked for.
Wanted ==
  CASE stage = "header"  -> 3
    [] stage = "payload" -> Len(payload)
    [] OTHER             -> 1

\* Mutant: a payload of exactly the limit is refused.
HeaderBelowLimit(h) ==
  h[1] = Word(FrameMagic) /\ h[2] = Word(FrameVersion) /\ h[3].word < MaxFramePayload

\* recv_frame does not throw on a header.
HeaderOK(h) ==
  /\ h[1] = Word(FrameMagic)
  /\ h[2] = Word(FrameVersion)
  /\ h[3].word <= MaxFramePayload

\* recv_frame does not throw on the checksum.
ChecksumOK(u) == u = Crc(payload)

\* recv_frame when a recv_all has all it wanted, in u: on to the next one, an
\* exception, or a whole frame, which decode turns into a message.
Filled(u) ==
  \/ /\ stage = "header" /\ HeaderOK(u)
     /\ payload' = [i \in 1..u[3].word |-> Word(0)]
     /\ stage' = IF u[3].word > 0 THEN "payload" ELSE "crc"
     /\ UNCHANGED received
  \/ /\ stage = "payload"
     /\ payload' = u
     /\ stage' = "crc"
     /\ UNCHANGED received
  \/ /\ stage = "crc" /\ ChecksumOK(u[1])
     /\ received' = Append(received, Decode(Words(payload)))
     /\ stage' = "header"
     /\ payload' = <<>>
  \/ /\ \/ stage = "header" /\ ~HeaderOK(u)
        \/ stage = "crc" /\ ~ChecksumOK(u[1])
     /\ stage' = "threw"
     /\ UNCHANGED <<payload, received>>

\* Mutant: recv_all waits until everything it wants is there at once.
RecvWhole(k) ==
  /\ stage \in {"header", "payload", "crc"}
  /\ k <= Len(wire) /\ k = Wanted
  /\ wire' = SubSeq(wire, k + 1, Len(wire))
  /\ got' = <<>>
  /\ Filled(SubSeq(wire, 1, k))
  /\ UNCHANGED <<sendVars, up, damaged>>

\* A turn of the loop in recv_all: recv hands over k units.
RecvChunk(k) ==
  /\ stage \in {"header", "payload", "crc"}
  /\ k <= Len(wire) /\ k <= Wanted - Len(got)
  /\ wire' = SubSeq(wire, k + 1, Len(wire))
  /\ LET u == got \o SubSeq(wire, 1, k) IN
       IF Len(u) < Wanted
       THEN got' = u /\ UNCHANGED <<stage, payload, received>>
       ELSE got' = <<>> /\ Filled(u)
  /\ UNCHANGED <<sendVars, up, damaged>>

\* recv returns 0: recv_frame returns false, and both processes then leave
\* their loops.
RecvEnd ==
  /\ stage \in {"header", "payload", "crc"}
  /\ ~up /\ wire = <<>>
  /\ stage' = "ended"
  /\ UNCHANGED <<sendVars, wire, up, got, payload, received, damaged>>

-----------------------------------------------------------------------------
\* external: the sender ends or the connection is reset; what is on its way
\* arrives up to some point.
Break(n) ==
  /\ up
  /\ up' = FALSE
  /\ wire' = SubSeq(wire, 1, n)
  /\ UNCHANGED <<sendVars, recvVars, damaged>>

\* external: a unit on the wire changes.
Damage(i, n) ==
  /\ ~damaged
  /\ wire[i] # Word(n)
  /\ wire' = [wire EXCEPT ![i] = Word(n)]
  /\ damaged' = TRUE
  /\ UNCHANGED <<sendVars, up, recvVars>>

-----------------------------------------------------------------------------
Init ==
  /\ outgoing = <<>> /\ accepted = <<>>
  /\ wire = <<>>
  /\ up = TRUE
  /\ stage = "header" /\ got = <<>> /\ payload = <<>> /\ received = <<>>
  /\ damaged = FALSE

Next ==
  \/ \E p \in Payloads : SendFrame(p)
  \/ \E k \in 1..BufferSize : SendChunk(k) \/ RecvChunk(k)
  \/ RecvEnd
  \/ \E n \in 0..Len(wire) : Break(n)
  \/ \E i \in 1..Len(wire), n \in NoiseWords : Damage(i, n)

\* Both processes keep calling: neither loop sleeps or gives up.
Fairness ==
  /\ WF_vars(\E k \in 1..BufferSize : SendChunk(k))
  /\ WF_vars(\E k \in 1..BufferSize : RecvChunk(k))

Spec == Init /\ [][Next]_vars /\ Fairness

-----------------------------------------------------------------------------
\* recv_frame throws only on what was damaged on the way: sender and receiver
\* agree on the framing and on the limit, however the reads and writes split.
CleanNeverRejected == stage = "threw" => damaged

Channel == INSTANCE MessageChannel

\* The connection implements the channel: what comes out is the sequence of
\* payloads that went in, whole, in order and with exactly the meaning encode
\* gave them, although reads and writes are partial, the connection breaks in
\* the middle of a frame, a unit is damaged or a payload is malformed
\* (send_frame, recv_frame and decode).
ImplementsChannel == Channel!ChannelSpec

\* Unless the connection breaks or damages a frame, every frame that send_frame
\* took on is received (the loops of send_all and recv_all, against a socket
\* that holds less than a frame).
EveryFrameArrives ==
  \A i \in 1..MaxFrames :
    (Len(accepted) >= i) ~> (Len(received) >= i \/ ~up \/ damaged)

=============================================================================

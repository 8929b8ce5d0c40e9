---------------------------- MODULE FrameStream ----------------------------
(***************************************************************************)
(* Frames out of a stream of bytes: rx_append and rx_parse_and_dispatch on *)
(* the border router, FrameCodec.TryParseNext in the backend.  Both look   *)
(* for a start byte, wait for the bytes its length field announces, and    *)
(* drop one byte when what they then see is no frame.                      *)
(*                                                                         *)
(* Either sender may give up in the middle of a frame and send the next    *)
(* one after it on the same connection.  The border router keeps its       *)
(* buffer when the client changes, the backend clears its own.             *)
(*                                                                         *)
(* A frame is <<start, length, data..., check, end>>; the frame id, the    *)
(* command and the second length byte add nothing to where a frame ends.   *)
(* A byte remembers which frame it was sent in, and where: the checksum is *)
(* taken to refuse everything that is not a frame as it was sent.          *)
(***************************************************************************)
EXTENDS Naturals, Sequences

CONSTANTS
  Sof,         \* FRAME_SOF, which a length or data byte may equal too
  MaxData,     \* FRAME_MAX_DATA_LEN
  ReadSize,    \* bytes one read returns at most
  Payloads,    \* the data of frames
  MaxFrames    \* bound: frames sent

\* FRAME_FIXED_OVERHEAD, as far as its bytes are kept.
Overhead == 4

ASSUME StreamAssumption ==
  /\ Sof \in Nat /\ MaxData \in Nat /\ ReadSize \in Nat \ {0}
  /\ Payloads \subseteq {data \in Seq(Nat) : Len(data) <= MaxData}
  /\ MaxFrames \in Nat

VARIABLES
  end,      \* who receives: "br" or "backend"
  wire,     \* bytes on their way
  chunk,    \* bytes read and not appended yet
  buf,      \* s_rx_buf, _receiveBuffer
  rx,       \* the receiver: "recv", "append" or "parse"
  sent,     \* frames sent
  short,    \* frames the sender gave up in the middle
  torn,     \* frames a connection took bytes of with it
  got       \* the last frame dispatched

sendVars == <<end, sent, short>>
streamVars == <<sendVars, wire, chunk, buf, rx, torn, got>>

Byte == [v : Nat, of : Nat, at : Nat]

StreamTypeOK ==
  /\ end \in {"br", "backend"}
  /\ wire \in Seq(Byte) /\ chunk \in Seq(Byte) /\ buf \in Seq(Byte)
  /\ rx \in {"recv", "append", "parse"}
  /\ sent \in Nat /\ got \in Nat
  /\ short \subseteq Nat /\ torn \subseteq Nat

StreamInit ==
  /\ end \in {"br", "backend"}
  /\ wire = <<>> /\ chunk = <<>> /\ buf = <<>>
  /\ rx = "recv"
  /\ sent = 0 /\ got = 0
  /\ short = {} /\ torn = {}

RxSize == Overhead + MaxData

\* Encode: the check and end bytes come last.
Frame(n, data) ==
  LET value == <<Sof, Len(data)>> \o data \o <<0, 0>> IN
  [k \in 1 .. Overhead + Len(data) |-> [v |-> value[k], of |-> n, at |-> k]]

-----------------------------------------------------------------------------

Send(data) ==
  /\ sent < MaxFrames
  /\ sent' = sent + 1
  /\ wire' = wire \o Frame(sent + 1, data)
  /\ UNCHANGED <<end, chunk, buf, rx, short, torn, got>>

\* frame_send stops when the socket takes nothing for SEND_EAGAIN_MAX_MS;
\* WriteAsync stops when its caller cancels, and the connection stays.
SendShort(data, n) ==
  /\ sent < MaxFrames
  /\ n < Overhead + Len(data)
  /\ sent' = sent + 1
  /\ wire' = wire \o SubSeq(Frame(sent + 1, data), 1, n)
  /\ short' = short \cup {sent + 1}
  /\ UNCHANGED <<end, chunk, buf, rx, torn, got>>

Recv(n) ==
  /\ rx = "recv"
  /\ n <= Len(wire)
  /\ chunk' = SubSeq(wire, 1, n)
  /\ wire' = SubSeq(wire, n + 1, Len(wire))
  /\ rx' = "append"
  /\ UNCHANGED <<sendVars, buf, torn, got>>

Room == IF end = "backend" \/ Len(chunk) < RxSize - Len(buf) THEN Len(chunk) ELSE RxSize - Len(buf)

\* As much as there is room for; a full buffer loses its oldest byte first.
AppendChunk ==
  /\ rx = "append"
  /\ IF end = "br" /\ Len(buf) >= RxSize
     THEN buf' = Tail(buf) /\ UNCHANGED <<chunk, rx>>
     ELSE /\ buf' = buf \o SubSeq(chunk, 1, Room)
          /\ chunk' = SubSeq(chunk, Room + 1, Len(chunk))
          /\ rx' = "parse"
  /\ UNCHANGED <<sendVars, wire, torn, got>>

\* Mutant: a length that cannot be is waited for all the same.
LengthUnchecked == TRUE

LengthOk == buf[2].v <= MaxData

Total == Overhead + buf[2].v

Started == buf # <<>> /\ buf[1].v = Sof

Header == Len(buf) >= Overhead

\* Nothing can be said of the first byte before more bytes are there.
Waits == buf = <<>> \/ (Started /\ (Header => LengthOk /\ Len(buf) < Total))

\* The checksum and the end byte are right.
Intact == \A k \in 1 .. Total : buf[k].of = buf[1].of /\ buf[k].at = k

Parsed == Started /\ Header /\ LengthOk /\ Len(buf) >= Total /\ Intact

\* Mutant: a frame that fails the check is skipped as a whole.
DropWhole ==
  /\ rx = "parse"
  /\ ~ Waits /\ ~ Parsed
  /\ buf' = IF Started /\ LengthOk THEN SubSeq(buf, Total + 1, Len(buf)) ELSE Tail(buf)
  /\ UNCHANGED <<sendVars, wire, chunk, rx, torn, got>>

Drop ==
  /\ rx = "parse"
  /\ ~ Waits /\ ~ Parsed
  /\ buf' = Tail(buf)
  /\ UNCHANGED <<sendVars, wire, chunk, rx, torn, got>>

Dispatch ==
  /\ rx = "parse"
  /\ Parsed
  /\ got' = buf[1].of
  /\ buf' = SubSeq(buf, Total + 1, Len(buf))
  /\ UNCHANGED <<sendVars, wire, chunk, rx, torn>>

ParseReturns ==
  /\ rx = "parse"
  /\ Waits
  /\ rx' = IF chunk = <<>> THEN "recv" ELSE "append"
  /\ UNCHANGED <<sendVars, wire, chunk, buf, torn, got>>

\* Frames of which some bytes are in q.
Touched(q) == {q[k].of : k \in 1 .. Len(q)}

\* Mutant: the backend does not clear its buffer.
DisconnectKeepsBuffer ==
  /\ rx = "recv"
  /\ torn' = torn \cup Touched(wire)
  /\ wire' = <<>>
  /\ UNCHANGED <<sendVars, chunk, buf, rx, got>>

Disconnect ==
  /\ rx = "recv"
  /\ wire' = <<>>
  /\ IF end = "br"
     THEN torn' = torn \cup Touched(wire) /\ UNCHANGED buf
     ELSE torn' = torn \cup Touched(wire) \cup Touched(buf) /\ buf' = <<>>
  /\ UNCHANGED <<sendVars, chunk, rx, got>>

StreamNext ==
  \/ \E data \in Payloads : Send(data) \/ \E n \in 1 .. RxSize : SendShort(data, n)
  \/ \E n \in 1 .. ReadSize : Recv(n)
  \/ AppendChunk \/ Drop \/ Dispatch \/ ParseReturns
  \/ Disconnect

StreamSpec == StreamInit /\ [][StreamNext]_streamVars

-----------------------------------------------------------------------------
(***************************************************************************)
(* Properties.                                                             *)
(***************************************************************************)

\* Less than the largest frame is held back between reads: the border
\* router's buffer is never full, so it never drops the oldest byte, and
\* what a cut-off frame holds back gets through after that many bytes.
HoldsLessThanAFrame == rx # "parse" => Len(buf) < RxSize

\* No frame that arrived whole is skipped: resynchronising behind a cut-off
\* frame finds the very next one, and frames come out once, in order.
NothingSkipped ==
  [][got' > got /\ \A n \in got + 1 .. got' - 1 : n \in short \cup torn]_got

\* All bytes of frame n are in the buffer.
WholeIn(n) ==
  \E j \in 1 .. Len(buf) : \E len \in 0 .. MaxData :
    /\ j + Overhead + len - 1 <= Len(buf)
    /\ buf[j + 1].v = len
    /\ \A k \in 1 .. Overhead + len : buf[j + k - 1].of = n /\ buf[j + k - 1].at = k

\* A frame that is there is held back by one that was cut off in front of it
\* only: by its sender or, at the border router, by the end of an earlier
\* connection, which the backend's buffer never outlives.
HeldBackByRemains ==
  rx = "recv" /\ (\E n \in 1 .. sent : WholeIn(n)) =>
    buf[1].of \in (IF end = "br" THEN short \cup torn ELSE short)
=============================================================================

------------------------- MODULE FrameStreamProofs -------------------------
(***************************************************************************)
(* What the receivers hold back between two reads, and that frames come    *)
(* out in order with none skipped, for any payloads, read sizes and number *)
(* of frames.                                                              *)
(***************************************************************************)
EXTENDS FrameStream, SequenceTheorems, TLAPS

IInv == StreamTypeOK /\ HoldsLessThanAFrame

\* A frame is a sequence of bytes.
LEMMA FrameType ==
  ASSUME NEW n \in Nat, NEW data \in Payloads
  PROVE  Frame(n, data) \in Seq(Byte) /\ Len(Frame(n, data)) = Overhead + Len(data)
<1> DEFINE value == <<Sof, Len(data)>> \o data \o <<0, 0>>
<1>1. data \in Seq(Nat) /\ Len(data) \in Nat
  BY StreamAssumption, LenProperties
<1>2. <<Sof, Len(data)>> \in Seq(Nat) /\ <<0, 0>> \in Seq(Nat)
  BY <1>1, StreamAssumption
<1>3. value \in Seq(Nat) /\ Len(value) = Overhead + Len(data)
  <2>1. <<Sof, Len(data)>> \o data \in Seq(Nat) /\ Len(<<Sof, Len(data)>> \o data) = 2 + Len(data)
    BY <1>1, <1>2, ConcatProperties
  <2> QED
    BY <1>1, <1>2, <2>1, ConcatProperties DEF Overhead
<1> HIDE DEF value
<1>4. \A k \in 1 .. Overhead + Len(data) : [v |-> value[k], of |-> n, at |-> k] \in Byte
  <2> SUFFICES ASSUME NEW k \in 1 .. Overhead + Len(data)
               PROVE  value[k] \in Nat /\ k \in Nat
    BY DEF Byte
  <2> QED
    BY <1>1, <1>3, ElementOfSeq DEF Overhead
<1>5. Overhead + Len(data) \in Nat
  BY <1>1 DEF Overhead
<1>6. Frame(n, data) = [k \in 1 .. Overhead + Len(data) |-> [v |-> value[k], of |-> n, at |-> k]]
  BY DEF Frame, value
<1> QED
  BY <1>4, <1>5, <1>6

\* A piece of a sequence is a sequence.
LEMMA PieceType ==
  ASSUME NEW S, NEW q \in Seq(S), NEW m \in Nat \ {0}, NEW n \in Nat, n <= Len(q)
  PROVE  SubSeq(q, m, n) \in Seq(S)
<1>1. \A i \in m .. n : q[i] \in S
  <2> SUFFICES ASSUME NEW i \in m .. n PROVE q[i] \in S
    OBVIOUS
  <2> QED
    BY LenProperties, ElementOfSeq
<1> QED
  BY <1>1, SubSeqProperties

\* What follows the first n elements of a sequence is a sequence.
LEMMA RestType ==
  ASSUME NEW S, NEW q \in Seq(S), NEW n \in Nat
  PROVE  SubSeq(q, n + 1, Len(q)) \in Seq(S)
BY PieceType, LenProperties

\* A receiver that waits for more bytes holds less than the largest frame.
LEMMA WaitsIsShort ==
  ASSUME StreamTypeOK, Waits
  PROVE  Len(buf) < RxSize
<1> USE StreamAssumption
<1>1. Len(buf) \in Nat
  BY LenProperties DEF StreamTypeOK
<1>2. RxSize \in Nat /\ RxSize >= Overhead /\ Overhead > 0
  BY DEF RxSize, Overhead
<1>3. CASE buf = <<>>
  <2>1. Len(buf) = 0
    BY <1>3
  <2> QED
    BY <1>2, <2>1 DEF Overhead
<1>4. CASE ~ Header
  BY <1>1, <1>2, <1>4 DEF Header, Overhead
<1>5. CASE buf # <<>> /\ Header
  <2>1. LengthOk /\ Len(buf) < Total
    BY <1>5 DEF Waits
  <2>2. buf[2] \in Byte
    BY <1>1, <1>5, ElementOfSeq DEF StreamTypeOK, Header, Overhead
  <2>3. Total <= RxSize /\ Total \in Nat
    BY <2>1, <2>2 DEF Total, LengthOk, RxSize, Overhead, Byte
  <2> QED
    BY <1>1, <1>2, <2>1, <2>3
<1> QED
  BY <1>3, <1>4, <1>5

\* The initial state satisfies the inductive invariant.
LEMMA InitIInv == StreamInit => IInv
  BY StreamAssumption, EmptySeq DEF StreamInit, IInv, StreamTypeOK, HoldsLessThanAFrame, RxSize, Overhead

\* Every step preserves the inductive invariant.
LEMMA NextIInv == IInv /\ [StreamNext]_streamVars => IInv'
<1> SUFFICES ASSUME IInv, [StreamNext]_streamVars PROVE IInv'
  OBVIOUS
<1>1. StreamTypeOK /\ HoldsLessThanAFrame
  BY DEF IInv
<1>2. /\ wire \in Seq(Byte) /\ chunk \in Seq(Byte) /\ buf \in Seq(Byte)
      /\ Len(wire) \in Nat /\ Len(chunk) \in Nat /\ Len(buf) \in Nat
  BY <1>1, LenProperties DEF StreamTypeOK
<1>3. RxSize \in Nat \ {0}
  BY StreamAssumption DEF RxSize, Overhead
<1>4. ASSUME NEW data \in Payloads, Send(data) PROVE IInv'
  <2>1. Frame(sent + 1, data) \in Seq(Byte)
    BY <1>1, FrameType DEF StreamTypeOK
  <2>2. wire' \in Seq(Byte)
    BY <1>2, <1>4, <2>1, ConcatProperties DEF Send
  <2> QED
    BY <1>1, <1>4, <2>2 DEF IInv, StreamTypeOK, HoldsLessThanAFrame, Send
<1>5. ASSUME NEW data \in Payloads, NEW n \in 1 .. RxSize, SendShort(data, n) PROVE IInv'
  <2>1. Frame(sent + 1, data) \in Seq(Byte) /\ Len(Frame(sent + 1, data)) = Overhead + Len(data)
    BY <1>1, FrameType DEF StreamTypeOK
  <2>2. SubSeq(Frame(sent + 1, data), 1, n) \in Seq(Byte)
    <3>1. n \in Nat /\ n <= Len(Frame(sent + 1, data))
      <4>1. Len(data) \in Nat
        BY StreamAssumption, LenProperties
      <4> QED
        BY <1>3, <1>5, <2>1, <4>1 DEF SendShort, Overhead
    <3> QED
      BY <2>1, <3>1, PieceType
  <2>3. wire' \in Seq(Byte)
    BY <1>2, <1>5, <2>2, ConcatProperties DEF SendShort
  <2> QED
    BY <1>1, <1>5, <2>3 DEF IInv, StreamTypeOK, HoldsLessThanAFrame, SendShort
<1>6. ASSUME NEW n \in 1 .. ReadSize, Recv(n) PROVE IInv'
  <2>1. n \in Nat /\ n <= Len(wire)
    BY <1>6, StreamAssumption DEF Recv
  <2>2. chunk' \in Seq(Byte)
    BY <1>2, <1>6, <2>1, PieceType DEF Recv
  <2>3. wire' \in Seq(Byte)
    BY <1>2, <1>6, <2>1, RestType DEF Recv
  <2> QED
    BY <1>1, <1>6, <2>2, <2>3 DEF IInv, StreamTypeOK, HoldsLessThanAFrame, Recv, sendVars, RxSize
<1>7. CASE AppendChunk
  <2>1. ~ (Len(buf) >= RxSize)
    BY <1>1, <1>2, <1>3, <1>7 DEF HoldsLessThanAFrame, AppendChunk
  <2>2. Room \in Nat /\ Room <= Len(chunk)
    BY <1>2, <1>3, <2>1 DEF Room
  <2>3. SubSeq(chunk, 1, Room) \in Seq(Byte) /\ SubSeq(chunk, Room + 1, Len(chunk)) \in Seq(Byte)
    BY <1>2, <2>2, PieceType, RestType
  <2>4. buf' \in Seq(Byte) /\ chunk' \in Seq(Byte) /\ rx' = "parse"
    <3>1. buf' = buf \o SubSeq(chunk, 1, Room) /\ chunk' = SubSeq(chunk, Room + 1, Len(chunk))
          /\ rx' = "parse"
      BY <1>7, <2>1 DEF AppendChunk
    <3> QED
      BY <1>2, <2>3, <3>1, ConcatProperties
  <2> QED
    BY <1>1, <1>7, <2>4 DEF IInv, StreamTypeOK, HoldsLessThanAFrame, AppendChunk, sendVars
<1>8. CASE Drop
  <2>1. buf # <<>>
    BY <1>8 DEF Drop, Waits
  <2>2. buf' \in Seq(Byte)
    BY <1>2, <1>8, <2>1, HeadTailProperties DEF Drop
  <2> QED
    BY <1>1, <1>8, <2>2 DEF IInv, StreamTypeOK, HoldsLessThanAFrame, Drop, sendVars
<1>9. CASE Dispatch
  <2>1. Header /\ Len(buf) >= Total
    BY <1>9 DEF Dispatch, Parsed
  <2>2. buf[1] \in Byte /\ buf[2] \in Byte
    BY <1>2, <2>1, ElementOfSeq DEF Header, Overhead
  <2>3. Total \in Nat
    BY <2>2 DEF Total, Overhead, Byte
  <2>4. buf' \in Seq(Byte)
    BY <1>2, <1>9, <2>3, RestType DEF Dispatch
  <2>5. got' \in Nat
    BY <1>9, <2>2 DEF Dispatch, Byte
  <2> QED
    BY <1>1, <1>9, <2>4, <2>5 DEF IInv, StreamTypeOK, HoldsLessThanAFrame, Dispatch, sendVars
<1>10. CASE ParseReturns
  <2>1. Len(buf) < RxSize
    BY <1>1, <1>10, WaitsIsShort DEF ParseReturns
  <2> QED
    BY <1>1, <1>3, <1>10, <2>1 DEF IInv, StreamTypeOK, HoldsLessThanAFrame, ParseReturns, sendVars, RxSize
<1>11. CASE Disconnect
  <2>1. \A q \in Seq(Byte) : Touched(q) \subseteq Nat
    <3> SUFFICES ASSUME NEW q \in Seq(Byte), NEW k \in 1 .. Len(q) PROVE q[k].of \in Nat
      BY DEF Touched
    <3> QED
      <4>1. q[k] \in Byte
        BY ElementOfSeq
      <4> QED
        BY <4>1 DEF Byte
  <2>2. torn' \subseteq Nat
    BY <1>1, <1>2, <1>11, <2>1 DEF Disconnect, StreamTypeOK
  <2>3. wire' \in Seq(Byte) /\ (buf' = buf \/ buf' = <<>>)
    BY <1>11, EmptySeq DEF Disconnect
  <2>4. buf' \in Seq(Byte) /\ Len(buf') < RxSize
    <3>1. CASE buf' = buf
      BY <1>1, <1>2, <1>11, <3>1 DEF Disconnect, HoldsLessThanAFrame
    <3>2. CASE buf' = <<>>
      <4>1. buf' \in Seq(Byte) /\ Len(buf') = 0
        BY <3>2
      <4> QED
        BY <1>3, <4>1
    <3> QED
      BY <2>3, <3>1, <3>2
  <2> QED
    BY <1>1, <1>11, <2>2, <2>3, <2>4
    DEF IInv, StreamTypeOK, HoldsLessThanAFrame, Disconnect, sendVars, RxSize
<1>12. CASE UNCHANGED streamVars
  BY <1>1, <1>12 DEF IInv, StreamTypeOK, HoldsLessThanAFrame, streamVars, sendVars, RxSize
<1> QED
  BY <1>4, <1>5, <1>6, <1>7, <1>8, <1>9, <1>10, <1>11, <1>12 DEF StreamNext

\* Neither receiver ever holds back as much as the largest frame: the border
\* router's buffer is never full between reads (HoldsLessThanAFrame).
THEOREM NeverFull == StreamSpec => []HoldsLessThanAFrame
<1>1. IInv => HoldsLessThanAFrame
  BY DEF IInv
<1> QED
  BY InitIInv, NextIInv, <1>1, PTL DEF StreamSpec

-----------------------------------------------------------------------------
(***************************************************************************)
(* What comes out of the stream: frames in order, none skipped.            *)
(***************************************************************************)

\* The bytes that are yet to be parsed, in order.
Line == (buf \o chunk) \o wire

\* Frames follow one another, and the bytes of one are in sequence.
Ordered(q) ==
  \A i, j \in 1 .. Len(q) : i < j =>
    \/ q[i].of < q[j].of
    \/ q[i].of = q[j].of /\ q[j].at = q[i].at + (j - i)

\* Bytes are what Frame made them: the first is a start byte, the second
\* announces how many there are.
Genuine(q) ==
  /\ \A i \in 1 .. Len(q) :
       /\ q[i].at >= 1
       /\ q[i].at = 1 => q[i].v = Sof
       /\ q[i].at = 2 => q[i].v <= MaxData
  /\ \A i, j \in 1 .. Len(q) :
       q[i].of = q[j].of /\ q[i].at = 2 => q[j].at <= Overhead + q[i].v

\* All bytes of frame n are in q, from the j-th on.
WholeAt(q, n, j, len) ==
  /\ j + Overhead + len - 1 <= Len(q)
  /\ q[j + 1].v = len
  /\ \A k \in 1 .. Overhead + len : q[j + k - 1].of = n /\ q[j + k - 1].at = k

Whole(q, n) == \E j \in 1 .. Len(q) : \E len \in 0 .. MaxData : WholeAt(q, n, j, len)

\* The bytes are of frames sent and not dispatched; a frame that is neither
\* short nor torn is there.
LineIsSound ==
  /\ got <= sent
  /\ Ordered(Line) /\ Genuine(Line)
  /\ \A i \in 1 .. Len(Line) : Line[i].of \in got + 1 .. sent
  /\ \A n \in got + 1 .. sent : n \notin short \cup torn => Whole(Line, n)

\* What a connection took with it does not reach the backend.
Remains ==
  /\ torn \subseteq 1 .. sent
  /\ end = "backend" => \A i \in 1 .. Len(Line) : Line[i].of \notin torn

\* Between two reads nothing is left to append or to parse.
Idle == rx = "recv" => chunk = <<>> /\ Waits

LineInv == LineIsSound /\ Remains /\ Idle

\* p is q without its first d bytes, and perhaps without some of its last.
Piece(p, q, d) ==
  /\ Len(p) + d <= Len(q)
  /\ \A i \in 1 .. Len(p) : p[i] = q[i + d]

\* The fields of bytes are numbers.
LEMMA Fields ==
  ASSUME NEW q \in Seq(Byte)
  PROVE  /\ Len(q) \in Nat
         /\ \A i \in 1 .. Len(q) : q[i] \in Byte
         /\ \A i \in 1 .. Len(q) : q[i].v \in Nat /\ q[i].of \in Nat /\ q[i].at \in Nat
<1>1. Len(q) \in Nat
  BY LenProperties
<1>2. \A i \in 1 .. Len(q) : q[i] \in Byte
  BY ElementOfSeq
<1>3. \A b \in Byte : b.v \in Nat /\ b.of \in Nat /\ b.at \in Nat
  BY DEF Byte
<1> QED
  BY <1>1, <1>2, <1>3

\* A piece of a stream is in order, and its bytes are genuine.
LEMMA PieceIsSound ==
  ASSUME NEW p \in Seq(Byte), NEW q \in Seq(Byte), NEW d \in Nat, Piece(p, q, d),
         Ordered(q), Genuine(q)
  PROVE  Ordered(p) /\ Genuine(p)
<1>1. Len(p) \in Nat /\ Len(q) \in Nat
  BY Fields
<1>2. ASSUME NEW i \in 1 .. Len(p) PROVE i + d \in 1 .. Len(q) /\ p[i] = q[i + d]
  BY <1>1 DEF Piece
<1>3. ASSUME NEW i \in 1 .. Len(p), NEW j \in 1 .. Len(p), i < j
      PROVE  \/ p[i].of < p[j].of
             \/ p[i].of = p[j].of /\ p[j].at = p[i].at + (j - i)
  <2>1. i + d < j + d /\ (j + d) - (i + d) = j - i
    BY <1>1, <1>3
  <2>2. \/ q[i + d].of < q[j + d].of
        \/ q[i + d].of = q[j + d].of /\ q[j + d].at = q[i + d].at + ((j + d) - (i + d))
    BY <1>2, <2>1 DEF Ordered
  <2> QED
    BY <1>2, <2>1, <2>2
<1>4. ASSUME NEW i \in 1 .. Len(p)
      PROVE  p[i].at >= 1 /\ (p[i].at = 1 => p[i].v = Sof) /\ (p[i].at = 2 => p[i].v <= MaxData)
  BY <1>2 DEF Genuine
<1>5. ASSUME NEW i \in 1 .. Len(p), NEW j \in 1 .. Len(p), p[i].of = p[j].of, p[i].at = 2
      PROVE  p[j].at <= Overhead + p[i].v
  BY <1>2, <1>5 DEF Genuine
<1> QED
  BY <1>3, <1>4, <1>5 DEF Ordered, Genuine

\* A frame behind a stream of earlier ones keeps it in order.
LEMMA JoinIsSound ==
  ASSUME NEW q \in Seq(Byte), NEW f \in Seq(Byte), NEW n \in Nat,
         Ordered(q), Genuine(q), Ordered(f), Genuine(f),
         \A i \in 1 .. Len(q) : q[i].of < n,
         \A i \in 1 .. Len(f) : f[i].of = n
  PROVE  Ordered(q \o f) /\ Genuine(q \o f)
<1> DEFINE r == q \o f
<1>1. Len(q) \in Nat /\ Len(f) \in Nat
  BY Fields
<1>2. r \in Seq(Byte) /\ Len(r) = Len(q) + Len(f)
      /\ \A i \in 1 .. Len(q) + Len(f) : r[i] = IF i <= Len(q) THEN q[i] ELSE f[i - Len(q)]
  BY ConcatProperties
<1> HIDE DEF r
<1>3. ASSUME NEW i \in 1 .. Len(r)
      PROVE  \/ i \in 1 .. Len(q) /\ r[i] = q[i] /\ r[i].of < n
             \/ i - Len(q) \in 1 .. Len(f) /\ r[i] = f[i - Len(q)] /\ r[i].of = n
  BY <1>1, <1>2
<1>4. ASSUME NEW i \in 1 .. Len(r) PROVE r[i].of \in Nat /\ r[i].at \in Nat /\ r[i].v \in Nat
  BY <1>2, Fields
<1>5. ASSUME NEW i \in 1 .. Len(r), NEW j \in 1 .. Len(r), i < j
      PROVE  \/ r[i].of < r[j].of
             \/ r[i].of = r[j].of /\ r[j].at = r[i].at + (j - i)
  <2>1. CASE i \in 1 .. Len(q) /\ r[i] = q[i] /\ r[i].of < n
    <3>1. CASE j \in 1 .. Len(q) /\ r[j] = q[j]
      BY <1>5, <2>1, <3>1 DEF Ordered
    <3>2. CASE r[j].of = n
      BY <2>1, <3>2
    <3> QED
      BY <1>3, <3>1, <3>2
  <2>2. CASE i - Len(q) \in 1 .. Len(f) /\ r[i] = f[i - Len(q)]
    <3>1. j - Len(q) \in 1 .. Len(f) /\ r[j] = f[j - Len(q)]
      BY <1>1, <1>2, <1>3, <1>5, <2>2
    <3>2. i - Len(q) < j - Len(q) /\ (j - Len(q)) - (i - Len(q)) = j - i
      BY <1>1, <1>2, <1>5
    <3> QED
      BY <2>2, <3>1, <3>2 DEF Ordered
  <2> QED
    BY <1>3, <2>1, <2>2
<1>6. ASSUME NEW i \in 1 .. Len(r)
      PROVE  r[i].at >= 1 /\ (r[i].at = 1 => r[i].v = Sof) /\ (r[i].at = 2 => r[i].v <= MaxData)
  BY <1>3 DEF Genuine
<1>7. ASSUME NEW i \in 1 .. Len(r), NEW j \in 1 .. Len(r), r[i].of = r[j].of, r[i].at = 2
      PROVE  r[j].at <= Overhead + r[i].v
  <2>1. CASE i \in 1 .. Len(q) /\ r[i] = q[i] /\ r[i].of < n
    <3>1. j \in 1 .. Len(q) /\ r[j] = q[j]
      BY <1>3, <1>4, <1>7, <2>1
    <3> QED
      BY <1>7, <2>1, <3>1 DEF Genuine
  <2>2. CASE i - Len(q) \in 1 .. Len(f) /\ r[i] = f[i - Len(q)] /\ r[i].of = n
    <3>1. j - Len(q) \in 1 .. Len(f) /\ r[j] = f[j - Len(q)]
      BY <1>3, <1>4, <1>7, <2>2
    <3> QED
      BY <1>7, <2>2, <3>1 DEF Genuine
  <2> QED
    BY <1>3, <2>1, <2>2
<1> QED
  BY <1>5, <1>6, <1>7 DEF Ordered, Genuine, r

\* A frame that is whole in a piece is whole in the stream.
LEMMA WholeOfPiece ==
  ASSUME NEW p \in Seq(Byte), NEW q \in Seq(Byte), NEW d \in Nat, Piece(p, q, d),
         NEW n \in Nat, Whole(p, n)
  PROVE  Whole(q, n)
<1>1. Len(p) \in Nat /\ Len(q) \in Nat /\ MaxData \in Nat
  BY Fields, StreamAssumption
<1>2. PICK j \in 1 .. Len(p), len \in 0 .. MaxData : WholeAt(p, n, j, len)
  BY DEF Whole
<1>3. /\ j + Overhead + len - 1 <= Len(p) /\ p[j + 1].v = len
      /\ \A k \in 1 .. Overhead + len : p[j + k - 1].of = n /\ p[j + k - 1].at = k
  BY <1>2 DEF WholeAt
<1>b. j \in Nat /\ len \in Nat /\ j + 3 + len <= Len(p)
  BY <1>1, <1>3 DEF Overhead
<1>4. \A i \in 1 .. Len(p) : p[i] = q[i + d] /\ i + d \in 1 .. Len(q)
  BY <1>1 DEF Piece
<1>5. j + d \in 1 .. Len(q) /\ (j + d) + Overhead + len - 1 <= Len(q)
  BY <1>1, <1>3, <1>4 DEF Piece, Overhead
<1>6. q[(j + d) + 1].v = len
  <2>1. j + 1 \in 1 .. Len(p) /\ (j + 1) + d = (j + d) + 1
    BY <1>1, <1>b
  <2> QED
    BY <1>3, <1>4, <2>1
<1>7. ASSUME NEW k \in 1 .. Overhead + len
      PROVE  q[(j + d) + k - 1].of = n /\ q[(j + d) + k - 1].at = k
  <2>1. j + k - 1 \in 1 .. Len(p) /\ (j + k - 1) + d = (j + d) + k - 1
    BY <1>1, <1>3 DEF Overhead
  <2> QED
    BY <1>3, <1>4, <2>1
<1> QED
  BY <1>5, <1>6, <1>7 DEF Whole, WholeAt

\* A frame none of whose bytes is lost stays whole.
LEMMA WholeStays ==
  ASSUME NEW p \in Seq(Byte), NEW q \in Seq(Byte), NEW d \in Nat, Piece(p, q, d),
         NEW n \in Nat, Whole(q, n),
         \A i \in 1 .. Len(q) : q[i].of = n => i - d \in 1 .. Len(p)
  PROVE  Whole(p, n)
<1>1. Len(p) \in Nat /\ Len(q) \in Nat /\ MaxData \in Nat
  BY Fields, StreamAssumption
<1>2. PICK j \in 1 .. Len(q), len \in 0 .. MaxData : WholeAt(q, n, j, len)
  BY DEF Whole
<1>3. /\ j + Overhead + len - 1 <= Len(q) /\ q[j + 1].v = len
      /\ \A k \in 1 .. Overhead + len : q[j + k - 1].of = n /\ q[j + k - 1].at = k
  BY <1>2 DEF WholeAt
<1>b. j \in Nat \ {0} /\ len \in Nat /\ j + 3 + len <= Len(q)
  BY <1>1, <1>3 DEF Overhead
<1>4. ASSUME NEW k \in 1 .. Overhead + len
      PROVE  (j - d) + k - 1 \in 1 .. Len(p) /\ p[(j - d) + k - 1] = q[j + k - 1]
  <2>0. j + k - 1 \in 1 .. Len(q)
    BY <1>1, <1>b DEF Overhead
  <2>1. j + k - 1 \in 1 .. Len(q) /\ q[j + k - 1].of = n
    BY <1>3, <2>0
  <2>2. (j + k - 1) - d \in 1 .. Len(p) /\ (j + k - 1) - d = (j - d) + k - 1
        /\ ((j + k - 1) - d) + d = j + k - 1
    BY <1>1, <2>1
  <2> QED
    BY <2>2 DEF Piece
<1>5. 1 \in 1 .. Overhead + len /\ 2 \in 1 .. Overhead + len /\ Overhead + len \in 1 .. Overhead + len
  BY <1>1 DEF Overhead
<1>6. j - d \in 1 .. Len(p)
  <2>1. (j - d) + 1 - 1 \in 1 .. Len(p) /\ (j - d) + 1 - 1 = j - d
    BY <1>4, <1>5
  <2> QED
    BY <2>1
<1>7. (j - d) + Overhead + len - 1 <= Len(p)
  <2>1. (j - d) + (Overhead + len) - 1 \in 1 .. Len(p)
    BY <1>4, <1>5
  <2> QED
    BY <1>1, <2>1 DEF Overhead
<1>8. p[(j - d) + 1].v = len
  <2>1. p[(j - d) + 2 - 1] = q[j + 2 - 1] /\ (j - d) + 2 - 1 = (j - d) + 1 /\ j + 2 - 1 = j + 1
    BY <1>4, <1>5
  <2> QED
    BY <1>3, <2>1
<1>9. \A k \in 1 .. Overhead + len : p[(j - d) + k - 1].of = n /\ p[(j - d) + k - 1].at = k
  BY <1>3, <1>4
<1> QED
  BY <1>6, <1>7, <1>8, <1>9 DEF Whole, WholeAt

\* A frame as it is sent is in order, genuine and whole.
LEMMA FrameIsSound ==
  ASSUME NEW n \in Nat, NEW data \in Payloads
  PROVE  /\ Ordered(Frame(n, data)) /\ Genuine(Frame(n, data)) /\ Whole(Frame(n, data), n)
         /\ \A i \in 1 .. Len(Frame(n, data)) : Frame(n, data)[i].of = n
<1> DEFINE value == <<Sof, Len(data)>> \o data \o <<0, 0>>
           F == Frame(n, data)
<1>1. data \in Seq(Nat) /\ Len(data) \in Nat /\ Len(data) <= MaxData /\ MaxData \in Nat
  BY StreamAssumption, LenProperties
<1>2. value[1] = Sof /\ value[2] = Len(data)
  <2>1. <<Sof, Len(data)>> \in Seq(Nat) /\ <<0, 0>> \in Seq(Nat)
    BY <1>1, StreamAssumption
  <2>2. /\ <<Sof, Len(data)>> \o data \in Seq(Nat)
        /\ Len(<<Sof, Len(data)>> \o data) = 2 + Len(data)
        /\ (<<Sof, Len(data)>> \o data)[1] = Sof /\ (<<Sof, Len(data)>> \o data)[2] = Len(data)
    BY <1>1, <2>1, ConcatProperties
  <2> QED
    BY <1>1, <2>1, <2>2, ConcatProperties
<1> HIDE DEF value
<1>3. F = [k \in 1 .. Overhead + Len(data) |-> [v |-> value[k], of |-> n, at |-> k]]
  BY DEF Frame, value
<1>4. Len(F) = Overhead + Len(data) /\ F \in Seq(Byte)
  BY FrameType
<1> HIDE DEF F
<1>5. ASSUME NEW k \in 1 .. Len(F) PROVE F[k].v = value[k] /\ F[k].of = n /\ F[k].at = k
  <2>1. k \in 1 .. Overhead + Len(data)
    BY <1>4
  <2> QED
    BY <1>3, <2>1
<1>6. Len(F) = 4 + Len(data)
  BY <1>4 DEF Overhead
<1>7. Ordered(F)
  <2>1. ASSUME NEW i \in 1 .. Len(F), NEW j \in 1 .. Len(F)
        PROVE  F[i].of = F[j].of /\ F[j].at = F[i].at + (j - i)
    <3>1. F[i].of = n /\ F[j].of = n /\ F[i].at = i /\ F[j].at = j
      BY <1>5
    <3>2. i + (j - i) = j
      BY <1>1, <1>6
    <3> QED
      BY <3>1, <3>2
  <2> QED
    BY <2>1 DEF Ordered
<1>8. Genuine(F)
  <2>1. ASSUME NEW i \in 1 .. Len(F)
        PROVE  F[i].at >= 1 /\ (F[i].at = 1 => F[i].v = Sof) /\ (F[i].at = 2 => F[i].v <= MaxData)
    BY <1>1, <1>2, <1>5, <1>6
  <2>2. ASSUME NEW i \in 1 .. Len(F), NEW j \in 1 .. Len(F), F[i].at = 2
        PROVE  F[j].at <= Overhead + F[i].v
    <3>1. i = 2 /\ F[i].v = Len(data) /\ F[j].at = j
      BY <1>2, <1>5, <2>2
    <3> QED
      BY <1>1, <1>4, <3>1 DEF Overhead
  <2> QED
    BY <2>1, <2>2 DEF Genuine
<1>9. Whole(F, n)
  <2>1. WholeAt(F, n, 1, Len(data))
    <3>1. 1 + Overhead + Len(data) - 1 <= Len(F)
      BY <1>1, <1>6 DEF Overhead
    <3>2. F[1 + 1].v = Len(data)
      BY <1>1, <1>2, <1>5, <1>6
    <3>3. ASSUME NEW k \in 1 .. Overhead + Len(data)
          PROVE  F[1 + k - 1].of = n /\ F[1 + k - 1].at = k
      <4>1. k \in 1 .. Len(F) /\ 1 + k - 1 = k
        BY <1>1, <1>4 DEF Overhead
      <4> QED
        BY <1>5, <4>1
    <3> QED
      BY <3>1, <3>2, <3>3 DEF WholeAt
  <2>2. 1 \in 1 .. Len(F) /\ Len(data) \in 0 .. MaxData
    BY <1>1, <1>6
  <2> QED
    BY <2>1, <2>2 DEF Whole
<1> QED
  BY <1>5, <1>7, <1>8, <1>9 DEF F

\* Three pieces make the same bytes whichever two are joined first.
LEMMA Associates == \A s, t, u \in Seq(Byte) : (s \o t) \o u = s \o (t \o u)
BY ConcatAssociative

\* The buffer is at the front of the line.
LEMMA LineType ==
  ASSUME StreamTypeOK
  PROVE  /\ Line \in Seq(Byte)
         /\ buf \in Seq(Byte) /\ chunk \in Seq(Byte) /\ wire \in Seq(Byte)
         /\ Len(buf) \in Nat /\ Len(chunk) \in Nat /\ Len(wire) \in Nat
         /\ Len(Line) = (Len(buf) + Len(chunk)) + Len(wire)
         /\ Piece(buf, Line, 0)
<1>1. /\ buf \in Seq(Byte) /\ chunk \in Seq(Byte) /\ wire \in Seq(Byte)
      /\ Len(buf) \in Nat /\ Len(chunk) \in Nat /\ Len(wire) \in Nat
  BY LenProperties DEF StreamTypeOK
<1>2. /\ buf \o chunk \in Seq(Byte) /\ Len(buf \o chunk) = Len(buf) + Len(chunk)
      /\ \A i \in 1 .. Len(buf) : (buf \o chunk)[i] = buf[i]
  BY <1>1, ConcatProperties
<1>3. /\ Line \in Seq(Byte) /\ Len(Line) = (Len(buf) + Len(chunk)) + Len(wire)
      /\ \A i \in 1 .. Len(buf) + Len(chunk) : Line[i] = (buf \o chunk)[i]
  BY <1>1, <1>2, ConcatProperties DEF Line
<1>4. ASSUME NEW i \in 1 .. Len(buf) PROVE Line[i] = buf[i] /\ i + 0 = i
  BY <1>1, <1>2, <1>3
<1>5. Piece(buf, Line, 0)
  BY <1>1, <1>3, <1>4 DEF Piece
<1> QED
  BY <1>1, <1>3, <1>5

\* Moving bytes from one place to the next leaves the line as it is.
LEMMA MovesKeepLine ==
  ASSUME IInv, \/ \E n \in 1 .. ReadSize : Recv(n) /\ chunk = <<>>
               \/ AppendChunk
               \/ ParseReturns
  PROVE  Line' = Line
<1>0. StreamTypeOK /\ HoldsLessThanAFrame
  BY DEF IInv
<1>1. ASSUME NEW n \in 1 .. ReadSize, Recv(n), chunk = <<>> PROVE Line' = Line
  <2>1. n \in 1 .. Len(wire)
    BY <1>0, <1>1, LineType, StreamAssumption DEF Recv
  <2>2. SubSeq(wire, 1, n) \o SubSeq(wire, n + 1, Len(wire)) = wire
    <3>1. /\ 1 \in 1 .. Len(wire) + 1 /\ n \in 1 - 1 .. Len(wire) /\ Len(wire) \in n .. Len(wire)
      BY <1>0, <2>1, LineType
    <3>2. SubSeq(wire, 1, n) \o SubSeq(wire, n + 1, Len(wire)) = SubSeq(wire, 1, Len(wire))
      BY <1>0, <3>1, LineType, ConcatAdjacentSubSeq
    <3> QED
      BY <1>0, <3>2, LineType, SubSeqFull
  <2>3. SubSeq(wire, 1, n) \in Seq(Byte) /\ SubSeq(wire, n + 1, Len(wire)) \in Seq(Byte)
    BY <1>0, <2>1, LineType, PieceType, RestType
  <2>4. Line' = buf \o wire
    <3>1. Line' = (buf \o SubSeq(wire, 1, n)) \o SubSeq(wire, n + 1, Len(wire))
      BY <1>1 DEF Recv, Line
    <3>2. buf \in Seq(Byte)
      BY <1>0, LineType
    <3>3. Line' = buf \o (SubSeq(wire, 1, n) \o SubSeq(wire, n + 1, Len(wire)))
      BY <2>3, <3>1, <3>2, Associates, Zenon
    <3> QED
      BY <2>2, <3>3
  <2>5. Line = buf \o wire
    BY <1>0, <1>1, LineType, ConcatEmptySeq DEF Line
  <2> QED
    BY <2>4, <2>5
<1>2. CASE AppendChunk
  <2>1. ~ (Len(buf) >= RxSize)
    BY <1>0, <1>2, LineType, StreamAssumption DEF HoldsLessThanAFrame, AppendChunk, RxSize, Overhead
  <2>2. Room \in 0 .. Len(chunk)
    BY <1>0, <2>1, LineType, StreamAssumption DEF Room, RxSize, Overhead
  <2>3. SubSeq(chunk, 1, Room) \o SubSeq(chunk, Room + 1, Len(chunk)) = chunk
    <3>1. 1 \in 1 .. Len(chunk) + 1 /\ Room \in 1 - 1 .. Len(chunk) /\ Len(chunk) \in Room .. Len(chunk)
      BY <1>0, <2>2, LineType
    <3>2. SubSeq(chunk, 1, Room) \o SubSeq(chunk, Room + 1, Len(chunk)) = SubSeq(chunk, 1, Len(chunk))
      BY <1>0, <3>1, LineType, ConcatAdjacentSubSeq
    <3> QED
      BY <1>0, <3>2, LineType, SubSeqFull
  <2>4. SubSeq(chunk, 1, Room) \in Seq(Byte) /\ SubSeq(chunk, Room + 1, Len(chunk)) \in Seq(Byte)
    BY <1>0, <2>2, LineType, PieceType, RestType
  <2>5. Line' = ((buf \o SubSeq(chunk, 1, Room)) \o SubSeq(chunk, Room + 1, Len(chunk))) \o wire
    BY <1>2, <2>1 DEF AppendChunk, Line
  <2>6. buf \in Seq(Byte)
    BY <1>0, LineType
  <2>7. (buf \o SubSeq(chunk, 1, Room)) \o SubSeq(chunk, Room + 1, Len(chunk))
          = buf \o (SubSeq(chunk, 1, Room) \o SubSeq(chunk, Room + 1, Len(chunk)))
    BY <2>4, <2>6, Associates, Zenon
  <2> QED
    BY <2>3, <2>5, <2>7 DEF Line
<1>3. CASE ParseReturns
  BY <1>3 DEF ParseReturns, Line
<1> QED
  BY <1>1, <1>2, <1>3

\* Taking n bytes off the buffer takes them off the line.
LEMMA CutsLine ==
  ASSUME StreamTypeOK, NEW n \in 1 .. Len(buf),
         buf' = SubSeq(buf, n + 1, Len(buf)), UNCHANGED <<chunk, wire>>
  PROVE  Piece(Line', Line, n) /\ Len(Line') = Len(Line) - n /\ Line' \in Seq(Byte)
<1> DEFINE rest == SubSeq(buf, n + 1, Len(buf))
<1>1. n \in Nat /\ n <= Len(buf) /\ Len(buf) \in Nat /\ Len(chunk) \in Nat /\ Len(wire) \in Nat
  BY LineType
<1>2. /\ rest \in Seq(Byte) /\ Len(rest) = Len(buf) - n
      /\ \A i \in 1 .. Len(buf) - n : rest[i] = buf[i + n]
  <2>1. \A i \in n + 1 .. Len(buf) : buf[i] \in Byte
    BY <1>1, LineType, Fields
  <2>2. /\ rest \in Seq(Byte)
        /\ Len(rest) = IF n + 1 <= Len(buf) THEN Len(buf) - (n + 1) + 1 ELSE 0
        /\ \A i \in 1 .. Len(buf) - (n + 1) + 1 : rest[i] = buf[(n + 1) + i - 1]
    BY <1>1, <2>1, SubSeqProperties
  <2> HIDE DEF rest
  <2>3. \A i \in 1 .. Len(buf) - n : rest[i] = buf[i + n]
    <3> SUFFICES ASSUME NEW i \in 1 .. Len(buf) - n PROVE rest[i] = buf[i + n]
      OBVIOUS
    <3>1. i \in 1 .. Len(buf) - (n + 1) + 1 /\ (n + 1) + i - 1 = i + n
      BY <1>1
    <3> QED
      BY <2>2, <3>1
  <2> QED
    BY <1>1, <2>2, <2>3
<1>3. Line' = (rest \o chunk) \o wire
  BY DEF Line
<1> HIDE DEF rest
<1>4. /\ rest \o chunk \in Seq(Byte) /\ Len(rest \o chunk) = Len(rest) + Len(chunk)
      /\ \A i \in 1 .. Len(rest) + Len(chunk) :
           (rest \o chunk)[i] = IF i <= Len(rest) THEN rest[i] ELSE chunk[i - Len(rest)]
  <2>1. rest \in Seq(Byte) /\ chunk \in Seq(Byte)
    BY <1>2, LineType
  <2> QED
    BY <2>1, ConcatProperties
<1>5. /\ Line' \in Seq(Byte) /\ Len(Line') = (Len(rest) + Len(chunk)) + Len(wire)
      /\ \A i \in 1 .. (Len(rest) + Len(chunk)) + Len(wire) :
           Line'[i] = IF i <= Len(rest) + Len(chunk) THEN (rest \o chunk)[i]
                      ELSE wire[i - (Len(rest) + Len(chunk))]
  BY <1>3, <1>4, LineType, ConcatProperties
<1>6. /\ buf \o chunk \in Seq(Byte) /\ Len(buf \o chunk) = Len(buf) + Len(chunk)
      /\ \A i \in 1 .. Len(buf) + Len(chunk) :
           (buf \o chunk)[i] = IF i <= Len(buf) THEN buf[i] ELSE chunk[i - Len(buf)]
  BY LineType, ConcatProperties
<1>7. /\ Len(Line) = (Len(buf) + Len(chunk)) + Len(wire)
      /\ \A i \in 1 .. (Len(buf) + Len(chunk)) + Len(wire) :
           Line[i] = IF i <= Len(buf) + Len(chunk) THEN (buf \o chunk)[i]
                     ELSE wire[i - (Len(buf) + Len(chunk))]
  BY <1>6, LineType, ConcatProperties DEF Line
<1>8. Len(Line') = Len(Line) - n
  BY <1>1, <1>2, <1>5, <1>7
<1>9. ASSUME NEW i \in 1 .. Len(Line') PROVE Line'[i] = Line[i + n]
  <2>0. i + n \in 1 .. Len(Line) /\ i \in Nat
    BY <1>1, <1>8, <1>5, <1>7
  <2>1. CASE i <= Len(rest)
    <3>1. i \in 1 .. Len(buf) - n /\ i + n <= Len(buf)
      BY <1>1, <1>2, <2>0, <2>1
    <3>2. Line'[i] = rest[i]
      <4>1. /\ i \in 1 .. Len(rest) + Len(chunk) /\ i <= Len(rest) + Len(chunk)
            /\ i \in 1 .. (Len(rest) + Len(chunk)) + Len(wire)
        BY <1>1, <1>2, <1>5, <2>0, <2>1
      <4> QED
        BY <1>4, <1>5, <2>1, <4>1
    <3>3. Line[i + n] = buf[i + n]
      <4>1. /\ i + n \in 1 .. Len(buf) + Len(chunk) /\ i + n <= Len(buf) + Len(chunk)
            /\ i + n \in 1 .. (Len(buf) + Len(chunk)) + Len(wire)
        BY <1>1, <2>0, <3>1
      <4> QED
        BY <1>6, <1>7, <3>1, <4>1
    <3> QED
      BY <1>2, <3>1, <3>2, <3>3
  <2>2. CASE i > Len(rest) /\ i <= Len(rest) + Len(chunk)
    <3>1. Line'[i] = chunk[i - Len(rest)]
      <4>1. /\ i \in 1 .. Len(rest) + Len(chunk) /\ ~ (i <= Len(rest))
            /\ i \in 1 .. (Len(rest) + Len(chunk)) + Len(wire)
        BY <1>1, <1>2, <1>5, <2>0, <2>2
      <4> QED
        BY <1>4, <1>5, <2>2, <4>1
    <3>2. Line[i + n] = chunk[(i + n) - Len(buf)]
      <4>1. /\ i + n \in 1 .. Len(buf) + Len(chunk) /\ ~ (i + n <= Len(buf))
            /\ i + n <= Len(buf) + Len(chunk) /\ i + n \in 1 .. (Len(buf) + Len(chunk)) + Len(wire)
        BY <1>1, <1>2, <2>0, <2>2
      <4> QED
        BY <1>6, <1>7, <4>1
    <3>3. i - Len(rest) = (i + n) - Len(buf)
      BY <1>1, <1>2, <2>0
    <3> QED
      BY <3>1, <3>2, <3>3
  <2>3. CASE i > Len(rest) + Len(chunk)
    <3>1. Line'[i] = wire[i - (Len(rest) + Len(chunk))]
      <4>1. ~ (i <= Len(rest) + Len(chunk)) /\ i \in 1 .. (Len(rest) + Len(chunk)) + Len(wire)
        BY <1>1, <1>2, <1>5, <2>0, <2>3
      <4> QED
        BY <1>5, <4>1
    <3>2. Line[i + n] = wire[(i + n) - (Len(buf) + Len(chunk))]
      <4>1. /\ ~ (i + n <= Len(buf) + Len(chunk))
            /\ i + n \in 1 .. (Len(buf) + Len(chunk)) + Len(wire)
        BY <1>1, <1>2, <1>7, <2>0, <2>3
      <4> QED
        BY <1>7, <4>1
    <3>3. i - (Len(rest) + Len(chunk)) = (i + n) - (Len(buf) + Len(chunk))
      BY <1>1, <1>2, <2>0
    <3> QED
      BY <3>1, <3>2, <3>3
  <2> QED
    BY <1>1, <1>2, <2>0, <2>1, <2>2, <2>3
<1>10. Len(Line') + n <= Len(Line)
  BY <1>1, <1>5, <1>7, <1>8
<1> QED
  BY <1>5, <1>8, <1>9, <1>10 DEF Piece

\* The first byte of the line, if its frame is all there, starts it.
LEMMA FrontIsWhole ==
  ASSUME StreamTypeOK, LineIsSound, Line # <<>>, Line[1].of \notin short \cup torn
  PROVE  \E len \in 0 .. MaxData : WholeAt(Line, Line[1].of, 1, len)
<1> DEFINE m == Line[1].of
<1>1. Line \in Seq(Byte) /\ Len(Line) \in Nat /\ 1 \in 1 .. Len(Line)
  BY LineType, EmptySeq
<1>2. Whole(Line, m)
  BY <1>1 DEF LineIsSound
<1>3. PICK j \in 1 .. Len(Line), len \in 0 .. MaxData : WholeAt(Line, m, j, len)
  BY <1>2 DEF Whole
<1>4. Line[j].of = m /\ Line[j].at = 1
  <2>1. 1 \in 1 .. Overhead + len /\ j + 1 - 1 = j
    BY <1>1, <1>3, StreamAssumption DEF Overhead
  <2> QED
    BY <1>3, <2>1 DEF WholeAt
<1>5. CASE j = 1
  BY <1>3, <1>5
<1>6. CASE j > 1
  <2>1. Line[j].at = Line[1].at + (j - 1)
    BY <1>1, <1>4, <1>6, Fields DEF LineIsSound, Ordered
  <2>2. Line[1].at >= 1 /\ Line[1].at \in Nat
    BY <1>1, Fields DEF LineIsSound, Genuine
  <2> QED
    BY <1>4, <1>6, <2>1, <2>2
<1> QED
  BY <1>5, <1>6

\* What a frame that is all there looks like at the front of the buffer.
LEMMA FrontOfBuffer ==
  ASSUME StreamTypeOK, LineIsSound, buf # <<>>, buf[1].of \notin short \cup torn
  PROVE  /\ Started
         /\ Header => LengthOk
         /\ Header /\ Len(buf) >= Total => Intact
         /\ Header => \A k \in 1 .. Len(buf) : k <= Total => buf[k].of = buf[1].of
         /\ buf[1].at = 1
<1>1. /\ Line \in Seq(Byte) /\ buf \in Seq(Byte) /\ Len(buf) \in Nat \ {0} /\ Len(Line) \in Nat
      /\ Len(buf) <= Len(Line)
      /\ \A i \in 1 .. Len(buf) : buf[i] = Line[i]
  <2>1. Len(buf) \in Nat \ {0}
    BY LineType, EmptySeq
  <2>2. \A i \in 1 .. Len(buf) : i + 0 = i
    BY <2>1
  <2> QED
    BY <2>1, <2>2, LineType DEF Piece
<1>2. Line # <<>> /\ Line[1].of = buf[1].of
  BY <1>1, EmptySeq
<1>3. PICK len \in 0 .. MaxData : WholeAt(Line, buf[1].of, 1, len)
  BY <1>2, FrontIsWhole
<1>4. len \in Nat /\ len <= MaxData /\ Overhead = 4 /\ MaxData \in Nat
  BY StreamAssumption DEF Overhead
<1>5. ASSUME NEW k \in 1 .. Len(buf), k <= 4 + len
      PROVE  buf[k].of = buf[1].of /\ buf[k].at = k
  <2>1. k \in 1 .. Overhead + len /\ 1 + k - 1 = k
    BY <1>1, <1>4, <1>5
  <2>2. Line[k].of = buf[1].of /\ Line[k].at = k
    BY <1>3, <2>1 DEF WholeAt
  <2> QED
    BY <1>1, <2>2
<1>6. buf[1].at = 1
  BY <1>1, <1>4, <1>5
<1>7. Started
  <2>1. Line[1].v = Sof
    BY <1>1, <1>6 DEF LineIsSound, Genuine
  <2> QED
    BY <1>1, <2>1 DEF Started
<1>8. ASSUME Header PROVE buf[2].v = len /\ Total = 4 + len /\ LengthOk
  <2>1. Line[1 + 1].v = len /\ 1 + 1 = 2
    BY <1>3 DEF WholeAt
  <2>2. buf[2].v = len
    BY <1>1, <1>4, <1>8, <2>1 DEF Header
  <2> QED
    BY <1>4, <2>2 DEF Total, LengthOk
<1>9. ASSUME Header, Len(buf) >= Total PROVE Intact
  <2> SUFFICES ASSUME NEW k \in 1 .. Total PROVE buf[k].of = buf[1].of /\ buf[k].at = k
    BY DEF Intact
  <2>1. k \in 1 .. Len(buf) /\ k <= 4 + len
    BY <1>1, <1>4, <1>8, <1>9
  <2> QED
    BY <1>5, <2>1
<1> QED
  BY <1>5, <1>6, <1>7, <1>8, <1>9

\* Only the remains of a frame are dropped.
LEMMA DropsRemains ==
  ASSUME StreamTypeOK, LineIsSound, ~ Waits, ~ Parsed
  PROVE  buf # <<>> /\ buf[1].of \in short \cup torn
<1>1. buf # <<>>
  BY DEF Waits
<1>2. CASE buf[1].of \notin short \cup torn
  <2>1. Started /\ (Header => LengthOk) /\ (Header /\ Len(buf) >= Total => Intact)
    BY <1>1, <1>2, FrontOfBuffer
  <2>2. Header
    BY <2>1 DEF Waits
  <2>3. buf[2].v \in Nat /\ Total \in Nat /\ Len(buf) \in Nat
    BY <2>2, Fields, LineType DEF Total, Header, Overhead
  <2>4. Len(buf) >= Total
    BY <2>1, <2>2, <2>3 DEF Waits
  <2> QED
    BY <2>1, <2>2, <2>4 DEF Parsed
<1> QED
  BY <1>1, <1>2

\* All bytes of a frame that is dispatched go, and later ones stay.
LEMMA DispatchesFrame ==
  ASSUME StreamTypeOK, LineIsSound, Parsed
  PROVE  /\ Total \in 1 .. Len(buf)
         /\ buf[1].of \in got + 1 .. sent
         /\ \A i \in 1 .. Total : Line[i].of = buf[1].of
         /\ \A i \in Total + 1 .. Len(Line) : Line[i].of > buf[1].of
<1>1. /\ Line \in Seq(Byte) /\ buf \in Seq(Byte) /\ Len(buf) \in Nat /\ Len(Line) \in Nat
      /\ Len(buf) <= Len(Line)
      /\ \A i \in 1 .. Len(buf) : buf[i] = Line[i]
  <2>1. Len(buf) \in Nat
    BY LineType
  <2>2. \A i \in 1 .. Len(buf) : i + 0 = i
    BY <2>1
  <2> QED
    BY <2>1, <2>2, LineType DEF Piece
<1>2. /\ Overhead = 4 /\ Len(buf) >= 4 /\ Len(buf) >= Total
      /\ \A k \in 1 .. Total : buf[k].of = buf[1].of /\ buf[k].at = k
  BY DEF Overhead, Parsed, Header, Intact
<1>3. buf[2].v \in Nat /\ Total = 4 + buf[2].v
  BY <1>1, <1>2, Fields DEF Total
<1>4. Total \in 4 .. Len(buf)
  BY <1>1, <1>2, <1>3
<1>5. \A i \in 1 .. Total : Line[i].of = buf[1].of /\ Line[i].at = i
  BY <1>1, <1>2, <1>4
<1>6. ASSUME NEW i \in Total + 1 .. Len(Line) PROVE Line[i].of > buf[1].of
  <2>1. i \in 1 .. Len(Line) /\ 1 \in 1 .. Len(Line) /\ 2 \in 1 .. Len(Line) /\ 1 < i /\ i > Total
    BY <1>1, <1>4
  <2>2. Line[1].of = buf[1].of /\ Line[1].at = 1 /\ Line[2].of = buf[1].of /\ Line[2].at = 2
        /\ Line[2].v = buf[2].v
    BY <1>1, <1>4, <1>5
  <2>3. \/ Line[1].of < Line[i].of
        \/ Line[1].of = Line[i].of /\ Line[i].at = 1 + (i - 1)
    BY <2>1, <2>2 DEF LineIsSound, Ordered
  <2>4. Line[2].of = Line[i].of => Line[i].at <= 4 + buf[2].v
    BY <1>2, <2>1, <2>2 DEF LineIsSound, Genuine
  <2>5. Line[i].at \in Nat /\ Line[i].of \in Nat /\ Line[1].of \in Nat
    BY <1>1, <2>1, Fields
  <2> QED
    BY <1>1, <1>3, <2>1, <2>2, <2>3, <2>4, <2>5
<1>7. buf[1].of \in got + 1 .. sent
  <2>1. 1 \in 1 .. Len(Line) /\ Line[1] = buf[1]
    BY <1>1, <1>4
  <2> QED
    BY <2>1 DEF LineIsSound
<1> QED
  BY <1>1, <1>4, <1>5, <1>6, <1>7

\* Cutting bytes off the front keeps the rest sound.
LEMMA CutIsSound ==
  ASSUME StreamTypeOK, LineIsSound, Remains, NEW d \in Nat, NEW g \in Nat,
         NEW p \in Seq(Byte), Piece(p, Line, d), Len(p) = Len(Line) - d,
         \A i \in d + 1 .. Len(Line) : Line[i].of > g,
         \A i \in 1 .. d : Line[i].of \in short \cup torn \cup {g},
         g >= got
  PROVE  /\ Ordered(p) /\ Genuine(p)
         /\ \A i \in 1 .. Len(p) : p[i].of \in g + 1 .. sent
         /\ \A n \in g + 1 .. sent : n \notin short \cup torn => Whole(p, n)
         /\ end = "backend" => \A i \in 1 .. Len(p) : p[i].of \notin torn
<1>1. Line \in Seq(Byte) /\ Len(Line) \in Nat /\ Len(p) \in Nat /\ sent \in Nat /\ got \in Nat
  BY LineType, LenProperties DEF StreamTypeOK
<1>2. Ordered(p) /\ Genuine(p)
  BY <1>1, PieceIsSound DEF LineIsSound
<1>3. ASSUME NEW i \in 1 .. Len(p)
      PROVE  i + d \in d + 1 .. Len(Line) /\ i + d \in 1 .. Len(Line) /\ p[i] = Line[i + d]
  BY <1>1 DEF Piece
<1>4. ASSUME NEW i \in 1 .. Len(p) PROVE p[i].of \in g + 1 .. sent
  <2>1. p[i].of > g /\ p[i].of \in got + 1 .. sent
    BY <1>3 DEF LineIsSound
  <2> QED
    BY <1>1, <2>1
<1>5. ASSUME NEW n \in g + 1 .. sent, n \notin short \cup torn PROVE Whole(p, n)
  <2>1. n \in got + 1 .. sent /\ n \in Nat /\ n # g
    BY <1>1
  <2>2. Whole(Line, n)
    BY <1>5, <2>1 DEF LineIsSound
  <2>3. ASSUME NEW i \in 1 .. Len(Line), Line[i].of = n PROVE i - d \in 1 .. Len(p)
    <3>1. i \notin 1 .. d
      BY <1>5, <2>1, <2>3
    <3> QED
      BY <1>1, <3>1
  <2> QED
    BY <1>1, <2>1, <2>2, <2>3, WholeStays
<1>6. ASSUME end = "backend", NEW i \in 1 .. Len(p) PROVE p[i].of \notin torn
  BY <1>3, <1>6 DEF Remains
<1> QED
  BY <1>2, <1>4, <1>5, <1>6

\* A frame, or the beginning of one, joins the line at its end.
LEMMA SendsLine ==
  ASSUME IInv, LineInv, NEW data \in Payloads,
         \/ Send(data)
         \/ \E n \in 1 .. RxSize : SendShort(data, n)
  PROVE  LineInv'
<1>0. StreamTypeOK /\ LineIsSound /\ Remains /\ Idle
  BY DEF IInv, LineInv
<1>1. /\ Line \in Seq(Byte) /\ Len(Line) \in Nat
      /\ sent \in Nat /\ got \in Nat /\ sent + 1 \in Nat
      /\ buf \in Seq(Byte) /\ chunk \in Seq(Byte) /\ wire \in Seq(Byte)
  BY <1>0, LineType DEF StreamTypeOK
<1> DEFINE F == Frame(sent + 1, data)
<1>2. /\ F \in Seq(Byte) /\ Len(F) \in Nat /\ Len(F) = Overhead + Len(data) /\ Len(data) \in Nat
      /\ Ordered(F) /\ Genuine(F) /\ Whole(F, sent + 1)
      /\ \A i \in 1 .. Len(F) : F[i].of = sent + 1
  <2>1. data \in Seq(Nat) /\ Len(data) \in Nat
    BY StreamAssumption, LenProperties
  <2> QED
    BY <1>1, <2>1, FrameType, FrameIsSound, LenProperties
<1> HIDE DEF F
<1>3. \A i \in 1 .. Len(Line) : Line[i].of \in got + 1 .. sent /\ Line[i].of < sent + 1
  BY <1>0, <1>1 DEF LineIsSound
<1>4. ASSUME NEW f \in Seq(Byte), Ordered(f), Genuine(f), \A i \in 1 .. Len(f) : f[i].of = sent + 1,
             wire' = wire \o f, sent' = sent + 1, UNCHANGED <<end, chunk, buf, rx, torn, got>>,
             Whole(f, sent + 1) \/ short' = short \cup {sent + 1},
             short \subseteq short'
      PROVE  LineInv'
  <2>1. Line' = Line \o f
    <3>1. Line' = (buf \o chunk) \o (wire \o f)
      BY <1>4 DEF Line
    <3>2. buf \o chunk \in Seq(Byte)
      BY <1>1, ConcatProperties
    <3>3. ((buf \o chunk) \o wire) \o f = (buf \o chunk) \o (wire \o f)
      BY <1>1, <1>4, <3>2, Associates, Zenon
    <3> QED
      BY <3>1, <3>3, Zenon DEF Line
  <2> DEFINE q == Line \o f
  <2>2. Ordered(q) /\ Genuine(q)
    BY <1>0, <1>1, <1>3, <1>4, JoinIsSound DEF LineIsSound
  <2>3. /\ q \in Seq(Byte) /\ Len(f) \in Nat /\ Len(q) = Len(Line) + Len(f)
        /\ \A i \in 1 .. Len(Line) + Len(f) : q[i] = IF i <= Len(Line) THEN Line[i] ELSE f[i - Len(Line)]
    BY <1>1, <1>4, ConcatProperties, LenProperties
  <2> HIDE DEF q
  <2>4. Piece(Line, q, 0) /\ Piece(f, q, Len(Line))
    <3>1. \A i \in 1 .. Len(Line) : i + 0 = i /\ Line[i] = q[i]
      BY <1>1, <2>3
    <3>2. \A i \in 1 .. Len(f) : f[i] = q[i + Len(Line)]
      <4> SUFFICES ASSUME NEW i \in 1 .. Len(f) PROVE f[i] = q[i + Len(Line)]
        OBVIOUS
      <4>1. /\ i + Len(Line) \in 1 .. Len(Line) + Len(f) /\ ~ (i + Len(Line) <= Len(Line))
            /\ (i + Len(Line)) - Len(Line) = i
        BY <1>1, <2>3
      <4> QED
        BY <2>3, <4>1
    <3> QED
      BY <1>1, <2>3, <3>1, <3>2 DEF Piece
  <2>5. ASSUME NEW i \in 1 .. Len(q)
        PROVE  \/ i \in 1 .. Len(Line) /\ q[i] = Line[i]
               \/ q[i].of = sent + 1
    <3>1. CASE i <= Len(Line)
      BY <1>1, <2>3, <3>1
    <3>2. CASE ~ (i <= Len(Line))
      <4>1. i - Len(Line) \in 1 .. Len(f) /\ q[i] = f[i - Len(Line)]
        BY <1>1, <2>3, <3>2
      <4>2. f[i - Len(Line)].of = sent + 1
        BY <1>4, <4>1
      <4> QED
        BY <4>1, <4>2
    <3> QED
      BY <3>1, <3>2
  <2>6. ASSUME NEW i \in 1 .. Len(q) PROVE q[i].of \in got + 1 .. sent + 1
    <3>1. CASE i \in 1 .. Len(Line) /\ q[i] = Line[i]
      <4>1. Line[i].of \in got + 1 .. sent
        BY <1>3, <3>1
      <4> QED
        BY <1>1, <3>1, <4>1
    <3>2. CASE q[i].of = sent + 1
      <4>1. sent + 1 \in got + 1 .. sent + 1
        BY <1>0, <1>1 DEF LineIsSound
      <4> QED
        BY <3>2, <4>1
    <3> QED
      BY <2>5, <3>1, <3>2
  <2>7. ASSUME NEW n \in got + 1 .. sent + 1, n \notin short' \cup torn PROVE Whole(q, n)
    <3>1. CASE n \in got + 1 .. sent
      <4>1. Whole(Line, n) /\ n \in Nat
        BY <1>0, <1>1, <1>4, <2>7, <3>1 DEF LineIsSound
      <4> QED
        BY <1>1, <2>3, <2>4, <4>1, WholeOfPiece
    <3>2. CASE n = sent + 1
      BY <1>1, <1>4, <2>3, <2>4, <2>7, <3>2, WholeOfPiece
    <3> QED
      BY <1>1, <3>1, <3>2
  <2>8. LineIsSound'
    <3>1. got' <= sent'
      BY <1>0, <1>1, <1>4 DEF LineIsSound
    <3> QED
      BY <1>4, <2>1, <2>2, <2>6, <2>7, <3>1 DEF LineIsSound, q
  <2>9. Remains'
    <3>1. torn' \subseteq 1 .. sent' /\ sent + 1 \notin torn
      BY <1>0, <1>1, <1>4 DEF Remains
    <3>2. end = "backend" => \A i \in 1 .. Len(q) : q[i].of \notin torn
      BY <1>0, <2>5, <3>1 DEF Remains
    <3> QED
      BY <1>0, <1>4, <2>1, <3>1, <3>2 DEF Remains, q
  <2>10. Idle'
    BY <1>0, <1>4 DEF Idle, Waits, Started, Header, LengthOk, Total
  <2> QED
    BY <2>8, <2>9, <2>10 DEF LineInv
<1>5. CASE Send(data)
  BY <1>2, <1>4, <1>5 DEF Send, F
<1>6. ASSUME NEW n \in 1 .. RxSize, SendShort(data, n) PROVE LineInv'
  <2> DEFINE f == SubSeq(F, 1, n)
  <2>1. n \in Nat /\ n <= Len(F)
    BY <1>2, <1>6, StreamAssumption DEF SendShort, RxSize, Overhead
  <2>2. /\ f \in Seq(Byte) /\ Len(f) = n
        /\ \A i \in 1 .. n : f[i] = F[i]
    <3>1. \A i \in 1 .. n : F[i] \in Byte
      BY <1>2, <2>1, Fields
    <3>2. /\ f \in Seq(Byte) /\ Len(f) = IF 1 <= n THEN n - 1 + 1 ELSE 0
          /\ \A i \in 1 .. n - 1 + 1 : f[i] = F[1 + i - 1]
      BY <2>1, <3>1, SubSeqProperties
    <3> HIDE DEF f
    <3>3. \A i \in 1 .. n : i \in 1 .. n - 1 + 1 /\ 1 + i - 1 = i
      BY <2>1
    <3> QED
      BY <2>1, <3>2, <3>3
  <2>3. wire' = wire \o f /\ sent' = sent + 1 /\ short' = short \cup {sent + 1}
        /\ UNCHANGED <<end, chunk, buf, rx, torn, got>>
    BY <1>6 DEF SendShort, F
  <2> HIDE DEF f
  <2>4. Piece(f, F, 0)
    <3>1. \A i \in 1 .. n : i + 0 = i
      BY <2>1
    <3> QED
      BY <1>2, <2>1, <2>2, <3>1 DEF Piece
  <2>5. Ordered(f) /\ Genuine(f)
    BY <1>2, <2>2, <2>4, PieceIsSound
  <2>6. \A i \in 1 .. Len(f) : f[i].of = sent + 1
    BY <1>2, <2>1, <2>2
  <2> QED
    BY <1>4, <2>2, <2>3, <2>5, <2>6
<1> QED
  BY <1>5, <1>6

\* The parser takes only remains and whole frames off the line.
LEMMA ParsesLine ==
  ASSUME IInv, LineInv, Drop \/ Dispatch
  PROVE  LineInv'
<1>0. /\ StreamTypeOK /\ LineIsSound /\ Remains /\ Idle
      /\ Len(buf) \in Nat /\ Len(Line) \in Nat /\ Len(buf) <= Len(Line) /\ sent \in Nat /\ got \in Nat
      /\ \A i \in 1 .. Len(buf) : buf[i] = Line[i]
  <2>1. StreamTypeOK /\ LineIsSound /\ Remains /\ Idle
    BY DEF IInv, LineInv
  <2>2. Len(buf) \in Nat /\ Len(Line) \in Nat
    BY <2>1, LineType, LenProperties
  <2>3. \A i \in 1 .. Len(buf) : i + 0 = i
    BY <2>2
  <2> QED
    BY <2>1, <2>2, <2>3, LineType DEF Piece, StreamTypeOK
<1>1. CASE Drop
  <2>1. buf # <<>> /\ buf[1].of \in short \cup torn
    BY <1>0, <1>1, DropsRemains DEF Drop
  <2>2. /\ 1 \in 1 .. Len(buf) /\ buf' = SubSeq(buf, 1 + 1, Len(buf))
        /\ UNCHANGED <<end, sent, short, wire, chunk, torn, got, rx>> /\ rx = "parse"
    <3>1. Len(buf) > 0 /\ Tail(buf) = SubSeq(buf, 2, Len(buf))
      BY <1>0, <2>1, LineType, EmptySeq, TailIsSubSeq
    <3> QED
      BY <1>0, <1>1, <3>1 DEF Drop, sendVars
  <2>3. Piece(Line', Line, 1) /\ Len(Line') = Len(Line) - 1 /\ Line' \in Seq(Byte)
    BY <1>0, <2>2, CutsLine
  <2>4. \A i \in 1 + 1 .. Len(Line) : Line[i].of > got
    BY <1>0 DEF LineIsSound
  <2>5. \A i \in 1 .. 1 : Line[i].of \in short \cup torn \cup {got}
    BY <1>0, <2>1, <2>2
  <2>6. /\ Ordered(Line') /\ Genuine(Line')
        /\ \A i \in 1 .. Len(Line') : Line'[i].of \in got + 1 .. sent
        /\ \A n \in got + 1 .. sent : n \notin short \cup torn => Whole(Line', n)
        /\ end = "backend" => \A i \in 1 .. Len(Line') : Line'[i].of \notin torn
    <3>1. 1 \in Nat /\ got \in Nat /\ got >= got
      BY <1>0
    <3> QED
      BY <1>0, <2>3, <2>4, <2>5, <3>1, CutIsSound
  <2> QED
    BY <1>0, <2>2, <2>6 DEF LineInv, LineIsSound, Remains, Idle
<1>2. CASE Dispatch
  <2>1. /\ Total \in 1 .. Len(buf)
        /\ buf[1].of \in got + 1 .. sent
        /\ \A i \in 1 .. Total : Line[i].of = buf[1].of
        /\ \A i \in Total + 1 .. Len(Line) : Line[i].of > buf[1].of
    BY <1>0, <1>2, DispatchesFrame DEF Dispatch
  <2>2. /\ buf' = SubSeq(buf, Total + 1, Len(buf)) /\ got' = buf[1].of
        /\ UNCHANGED <<end, sent, short, wire, chunk, torn, rx>> /\ rx = "parse"
    BY <1>2 DEF Dispatch, sendVars
  <2>3. Piece(Line', Line, Total) /\ Len(Line') = Len(Line) - Total /\ Line' \in Seq(Byte)
    BY <1>0, <2>1, <2>2, CutsLine
  <2>4. /\ got' \in Nat /\ got' >= got /\ Total \in Nat
        /\ \A i \in Total + 1 .. Len(Line) : Line[i].of > got'
        /\ \A i \in 1 .. Total : Line[i].of \in short \cup torn \cup {got'}
    BY <1>0, <2>1, <2>2
  <2>6. /\ Ordered(Line') /\ Genuine(Line')
        /\ \A i \in 1 .. Len(Line') : Line'[i].of \in got' + 1 .. sent
        /\ \A n \in got' + 1 .. sent : n \notin short \cup torn => Whole(Line', n)
        /\ end = "backend" => \A i \in 1 .. Len(Line') : Line'[i].of \notin torn
    BY <1>0, <2>3, <2>4, CutIsSound
  <2>7. got' <= sent'
    BY <1>0, <2>1, <2>2
  <2> QED
    BY <1>0, <2>2, <2>6, <2>7 DEF LineInv, LineIsSound, Remains, Idle
<1> QED
  BY <1>1, <1>2

\* A frame that a connection took no byte of is in what is left.
LEMMA DisconnectsLine ==
  ASSUME IInv, LineInv, Disconnect
  PROVE  LineInv'
<1>0. /\ StreamTypeOK /\ LineIsSound /\ Remains /\ Idle
      /\ Line \in Seq(Byte) /\ buf \in Seq(Byte) /\ wire \in Seq(Byte)
      /\ Len(buf) \in Nat /\ Len(wire) \in Nat /\ Len(Line) \in Nat /\ sent \in Nat /\ got \in Nat
      /\ end \in {"br", "backend"}
  <2>1. StreamTypeOK /\ LineIsSound /\ Remains /\ Idle
    BY DEF IInv, LineInv
  <2> QED
    BY <2>1, LineType, LenProperties DEF StreamTypeOK
<1>1. /\ rx = "recv" /\ chunk = <<>> /\ Waits /\ wire' = <<>>
      /\ UNCHANGED <<end, sent, short, chunk, rx, got>>
      /\ torn' = torn \cup Touched(wire) \/ torn' = torn \cup Touched(wire) \cup Touched(buf)
  BY <1>0 DEF Disconnect, sendVars, Idle
<1>2. Line = buf \o wire
  BY <1>0, <1>1, ConcatEmptySeq DEF Line
<1>3. /\ Len(Line) = Len(buf) + Len(wire)
      /\ \A i \in 1 .. Len(buf) + Len(wire) : Line[i] = IF i <= Len(buf) THEN buf[i] ELSE wire[i - Len(buf)]
  BY <1>0, <1>2, ConcatProperties
<1>4. ASSUME NEW i \in 1 .. Len(Line)
      PROVE  \/ i \in 1 .. Len(buf) /\ Line[i] = buf[i] /\ Line[i].of \in Touched(buf)
             \/ i > Len(buf) /\ Line[i].of \in Touched(wire)
  <2>1. CASE i <= Len(buf)
    BY <1>0, <1>3, <2>1 DEF Touched
  <2>2. CASE i > Len(buf)
    <3>1. i - Len(buf) \in 1 .. Len(wire) /\ Line[i] = wire[i - Len(buf)]
      BY <1>0, <1>3, <2>2
    <3> QED
      BY <2>2, <3>1 DEF Touched
  <2> QED
    BY <1>0, <2>1, <2>2
<1>5. Touched(wire) \cup Touched(buf) \subseteq 1 .. sent
  <2>1. ASSUME NEW k \in 1 .. Len(wire) PROVE wire[k].of \in 1 .. sent
    <3>1. k + Len(buf) \in 1 .. Len(Line) /\ Line[k + Len(buf)] = wire[k]
      <4>1. /\ k + Len(buf) \in 1 .. Len(buf) + Len(wire) /\ ~ (k + Len(buf) <= Len(buf))
            /\ (k + Len(buf)) - Len(buf) = k
        BY <1>0
      <4> QED
        BY <1>3, <4>1
    <3>2. wire[k].of \in got + 1 .. sent
      BY <1>0, <3>1 DEF LineIsSound
    <3> QED
      BY <1>0, <3>2
  <2>2. ASSUME NEW k \in 1 .. Len(buf) PROVE buf[k].of \in 1 .. sent
    <3>1. k \in 1 .. Len(Line) /\ Line[k] = buf[k]
      BY <1>0, <1>3
    <3>2. buf[k].of \in got + 1 .. sent
      BY <1>0, <3>1 DEF LineIsSound
    <3> QED
      BY <1>0, <3>2
  <2> QED
    BY <2>1, <2>2 DEF Touched
<1>6. CASE end = "br"
  <2>1. buf' = buf /\ torn' = torn \cup Touched(wire)
    BY <1>6 DEF Disconnect
  <2>2. Line' = buf
    <3>1. Line' = (buf \o <<>>) \o <<>>
      BY <1>1, <2>1 DEF Line
    <3> QED
      BY <1>0, <3>1, ConcatEmptySeq
  <2>3. Piece(buf, Line, 0)
    BY <1>0, LineType
  <2>4. Ordered(buf) /\ Genuine(buf)
    BY <1>0, <2>3, PieceIsSound DEF LineIsSound
  <2>5. \A i \in 1 .. Len(buf) : buf[i].of \in got + 1 .. sent
    <3> SUFFICES ASSUME NEW i \in 1 .. Len(buf) PROVE buf[i].of \in got + 1 .. sent
      OBVIOUS
    <3>1. i \in 1 .. Len(Line) /\ Line[i] = buf[i]
      BY <1>0, <1>3
    <3> QED
      BY <1>0, <3>1 DEF LineIsSound
  <2>6. ASSUME NEW n \in got + 1 .. sent, n \notin short \cup torn' PROVE Whole(buf, n)
    <3>1. Whole(Line, n) /\ n \in Nat
      BY <1>0, <2>1, <2>6 DEF LineIsSound
    <3>2. ASSUME NEW i \in 1 .. Len(Line), Line[i].of = n PROVE i - 0 \in 1 .. Len(buf)
      <4>1. i \in 1 .. Len(buf)
        BY <1>4, <2>1, <2>6, <3>2
      <4> QED
        BY <1>0, <4>1
    <3> QED
      BY <1>0, <2>3, <3>1, <3>2, WholeStays
  <2>7. LineIsSound'
    <3>1. got' <= sent'
      BY <1>0, <1>1 DEF LineIsSound
    <3> QED
      BY <1>1, <2>2, <2>4, <2>5, <2>6, <3>1 DEF LineIsSound
  <2>8. Remains'
    BY <1>0, <1>1, <1>5, <1>6, <2>1 DEF Remains
  <2>9. Idle'
    BY <1>0, <1>1, <2>1 DEF Idle, Waits, Started, Header, LengthOk, Total
  <2> QED
    BY <2>7, <2>8, <2>9 DEF LineInv
<1>7. CASE end = "backend"
  <2>1. buf' = <<>> /\ torn' = torn \cup Touched(wire) \cup Touched(buf)
    BY <1>7 DEF Disconnect
  <2>2. Line' = <<>> /\ Len(Line') = 0
    <3>1. Line' = (<<>> \o <<>>) \o <<>>
      BY <1>1, <2>1 DEF Line
    <3>2. <<>> \in Seq(Byte) /\ Len(<<>>) = 0
      BY EmptySeq
    <3> QED
      BY <3>1, <3>2, ConcatEmptySeq
  <2>3. Ordered(Line') /\ Genuine(Line')
    BY <2>2 DEF Ordered, Genuine
  <2>4. ASSUME NEW n \in got + 1 .. sent, n \notin short \cup torn' PROVE FALSE
    <3>1. Whole(Line, n)
      BY <1>0, <2>1, <2>4 DEF LineIsSound
    <3>2. PICK j \in 1 .. Len(Line), len \in 0 .. MaxData : WholeAt(Line, n, j, len)
      BY <3>1 DEF Whole
    <3>3. Line[j].of = n
      <4>1. 1 \in 1 .. Overhead + len /\ j + 1 - 1 = j
        BY <1>0, StreamAssumption DEF Overhead
      <4> QED
        BY <3>2, <4>1 DEF WholeAt
    <3>4. Line[j].of \in Touched(buf) \cup Touched(wire)
      BY <1>4
    <3> QED
      BY <2>1, <2>4, <3>3, <3>4
  <2>5. LineIsSound'
    <3>1. got' <= sent'
      BY <1>0, <1>1 DEF LineIsSound
    <3>2. \A i \in 1 .. Len(Line') : FALSE
      BY <2>2
    <3> QED
      BY <1>1, <2>3, <2>4, <3>1, <3>2 DEF LineIsSound
  <2>6. Remains'
    <3>1. torn' \subseteq 1 .. sent
      BY <1>0, <1>5, <2>1 DEF Remains
    <3>2. \A i \in 1 .. Len(Line') : FALSE
      BY <2>2
    <3> QED
      BY <1>1, <1>7, <3>1, <3>2 DEF Remains
  <2>7. Idle'
    BY <1>0, <1>1, <2>1 DEF Idle, Waits
  <2> QED
    BY <2>5, <2>6, <2>7 DEF LineInv
<1> QED
  BY <1>0, <1>6, <1>7

\* The line is sound in every reachable state.
LEMMA LineSteps == IInv /\ LineInv /\ [StreamNext]_streamVars => LineInv'
<1> SUFFICES ASSUME IInv, LineInv, [StreamNext]_streamVars PROVE LineInv'
  OBVIOUS
<1>0. LineIsSound /\ Remains /\ Idle
  BY DEF LineInv
<1>1. ASSUME Line' = Line, UNCHANGED <<end, sent, short, torn, got>>, Idle' PROVE LineInv'
  BY <1>0, <1>1 DEF LineInv, LineIsSound, Remains
<1>2. ASSUME NEW n \in 1 .. ReadSize, Recv(n) PROVE LineInv'
  <2>1. chunk = <<>> /\ rx' = "append"
    BY <1>0, <1>2 DEF Recv, Idle
  <2>2. Idle'
    BY <2>1 DEF Idle
  <2>3. UNCHANGED <<end, sent, short, torn, got>>
    BY <1>2 DEF Recv, sendVars
  <2> QED
    BY <1>1, <1>2, <2>1, <2>2, <2>3, MovesKeepLine
<1>3. CASE AppendChunk
  <2>1. rx' \in {"append", "parse"} /\ UNCHANGED <<end, sent, short, torn, got>>
    BY <1>3 DEF AppendChunk, sendVars
  <2>2. Idle'
    BY <2>1 DEF Idle
  <2> QED
    BY <1>1, <1>3, <2>1, <2>2, MovesKeepLine
<1>4. CASE ParseReturns
  <2>1. Idle'
    BY <1>4 DEF ParseReturns, Idle, Waits, Started, Header, LengthOk, Total
  <2>2. UNCHANGED <<end, sent, short, torn, got>>
    BY <1>4 DEF ParseReturns, sendVars
  <2> QED
    BY <1>1, <1>4, <2>1, <2>2, MovesKeepLine
<1>5. CASE UNCHANGED streamVars
  <2>1. Line' = Line /\ Idle' /\ UNCHANGED <<end, sent, short, torn, got>>
    BY <1>0, <1>5
    DEF streamVars, sendVars, Line, Idle, Waits, Started, Header, LengthOk, Total
  <2> QED
    BY <1>1, <2>1
<1> QED
  BY <1>2, <1>3, <1>4, <1>5, SendsLine, ParsesLine, DisconnectsLine DEF StreamNext

\* Initially there is nothing on the line.
LEMMA InitLine == StreamInit => LineInv
<1> SUFFICES ASSUME StreamInit PROVE LineInv
  OBVIOUS
<1>1. Line = <<>> /\ Len(Line) = 0
  <2>1. Line = (<<>> \o <<>>) \o <<>>
    BY DEF StreamInit, Line
  <2>2. <<>> \in Seq(Byte) /\ Len(<<>>) = 0
    BY EmptySeq
  <2> QED
    BY <2>1, <2>2, ConcatEmptySeq
<1>2. LineIsSound
  BY <1>1 DEF StreamInit, LineIsSound, Ordered, Genuine
<1>3. Remains /\ Idle
  BY <1>1 DEF StreamInit, Remains, Idle, Waits
<1> QED
  BY <1>2, <1>3 DEF LineInv

\* A whole frame in the buffer waits behind the remains of another one only.
LEMMA WaitsBehindRemains == IInv /\ LineInv => HeldBackByRemains
<1> SUFFICES ASSUME IInv, LineInv, rx = "recv", NEW n \in 1 .. sent, WholeIn(n)
             PROVE  buf[1].of \in (IF end = "br" THEN short \cup torn ELSE short)
  BY DEF HeldBackByRemains
<1>0. /\ StreamTypeOK /\ LineIsSound /\ Remains /\ Idle /\ Waits
      /\ buf \in Seq(Byte) /\ Len(buf) \in Nat /\ Len(Line) \in Nat /\ Len(buf) <= Len(Line)
      /\ end \in {"br", "backend"}
      /\ \A i \in 1 .. Len(buf) : buf[i] = Line[i]
  <2>1. StreamTypeOK /\ LineIsSound /\ Remains /\ Idle /\ Waits
    BY DEF IInv, LineInv, Idle
  <2>2. Len(buf) \in Nat /\ Len(Line) \in Nat
    BY <2>1, LineType, LenProperties
  <2>3. \A i \in 1 .. Len(buf) : i + 0 = i
    BY <2>2
  <2> QED
    BY <2>1, <2>2, <2>3, LineType DEF Piece, StreamTypeOK
<1>1. PICK j \in 1 .. Len(buf), len \in 0 .. MaxData :
        /\ j + Overhead + len - 1 <= Len(buf)
        /\ buf[j + 1].v = len
        /\ \A k \in 1 .. Overhead + len : buf[j + k - 1].of = n /\ buf[j + k - 1].at = k
  BY DEF WholeIn
<1>2. /\ Overhead = 4 /\ len \in Nat /\ Len(buf) >= 4 /\ Header /\ 1 \in 1 .. Len(buf) /\ buf # <<>>
      /\ j + 3 + len <= Len(buf) /\ j \in Nat
  <2>1. Len(buf) >= 4 /\ len \in Nat /\ j + 3 + len <= Len(buf)
    BY <1>0, <1>1, StreamAssumption DEF Overhead
  <2>2. Len(<<>>) = 0
    BY EmptySeq
  <2> QED
    BY <1>0, <2>1, <2>2 DEF Header, Overhead
<1>3. buf[j].of = n /\ buf[j].at = 1
  <2>1. 1 \in 1 .. Overhead + len /\ j + 1 - 1 = j
    BY <1>2
  <2> QED
    BY <1>1, <2>1
<1>4. ASSUME buf[1].of \notin short \cup torn PROVE FALSE
  <2>1. /\ Started /\ LengthOk /\ buf[1].at = 1
        /\ \A k \in 1 .. Len(buf) : k <= Total => buf[k].of = buf[1].of
    BY <1>0, <1>2, <1>4, FrontOfBuffer
  <2>2. Len(buf) < Total
    BY <1>0, <1>2 DEF Waits
  <2>3. buf[2].v \in Nat /\ Total = 4 + buf[2].v
    BY <1>0, <1>2, Fields DEF Total
  <2>4. buf[j].of = buf[1].of
    BY <1>0, <1>2, <2>1, <2>2, <2>3
  <2>5. j = 1
    <3>1. CASE j > 1
      <4>1. Line[1].of = Line[j].of /\ Line[1].at = 1 /\ Line[j].at = 1 /\ Line[j].of \in Nat
            /\ 1 \in 1 .. Len(Line) /\ j \in 1 .. Len(Line)
        BY <1>0, <1>2, <1>3, <2>1, <2>4, Fields
      <4>2. Line[j].at = Line[1].at + (j - 1)
        BY <1>0, <3>1, <4>1 DEF LineIsSound, Ordered
      <4> QED
        BY <1>2, <3>1, <4>1, <4>2
    <3> QED
      BY <1>2, <3>1
  <2>6. buf[2].v = len
    BY <1>1, <2>5
  <2> QED
    BY <1>0, <1>2, <2>2, <2>3, <2>5, <2>6
<1>5. end = "backend" => buf[1].of \notin torn
  <2>1. 1 \in 1 .. Len(Line) /\ Line[1] = buf[1]
    BY <1>0, <1>2
  <2> QED
    BY <1>0, <2>1 DEF Remains
<1> QED
  BY <1>0, <1>4, <1>5 DEF Remains

\* A frame that arrived whole is held back only by one that was cut off in
\* front of it (HeldBackByRemains).
THEOREM OnlyRemainsHoldBack == StreamSpec => []HeldBackByRemains
BY InitIInv, NextIInv, InitLine, LineSteps, WaitsBehindRemains, PTL DEF StreamSpec

\* The next frame dispatched is the next that is not cut off: frames come
\* out once and in order, and none that arrived whole is skipped
\* (NothingSkipped).
THEOREM NextFrameIsFound == StreamSpec => NothingSkipped
<1>1. IInv /\ LineInv /\ [StreamNext]_streamVars
        => [got' > got /\ \A n \in got + 1 .. got' - 1 : n \in short \cup torn]_got
  <2> SUFFICES ASSUME IInv, LineInv, [StreamNext]_streamVars, got' # got
               PROVE  got' > got /\ \A n \in got + 1 .. got' - 1 : n \in short \cup torn
    OBVIOUS
  <2>1. Dispatch
    BY DEF StreamNext, Send, SendShort, Recv, AppendChunk, Drop, ParseReturns, Disconnect, streamVars
  <2>2. StreamTypeOK /\ LineIsSound /\ got \in Nat /\ sent \in Nat /\ Len(Line) \in Nat
    BY LineType, LenProperties DEF IInv, LineInv, StreamTypeOK
  <2>3. /\ Total \in 1 .. Len(buf) /\ got' = buf[1].of /\ buf[1].of \in got + 1 .. sent
        /\ \A i \in 1 .. Total : Line[i].of = buf[1].of
        /\ \A i \in Total + 1 .. Len(Line) : Line[i].of > buf[1].of
    BY <2>1, <2>2, DispatchesFrame DEF Dispatch
  <2>4. ASSUME NEW n \in got + 1 .. got' - 1, n \notin short \cup torn PROVE FALSE
    <3>1. Whole(Line, n)
      BY <2>2, <2>3, <2>4 DEF LineIsSound
    <3>2. PICK j \in 1 .. Len(Line), len \in 0 .. MaxData : WholeAt(Line, n, j, len)
      BY <3>1 DEF Whole
    <3>3. Line[j].of = n
      <4>1. 1 \in 1 .. Overhead + len /\ j + 1 - 1 = j
        BY <2>2, StreamAssumption DEF Overhead
      <4> QED
        BY <3>2, <4>1 DEF WholeAt
    <3>4. j \in 1 .. Total \/ j \in Total + 1 .. Len(Line)
      BY <2>2, <2>3, LineType
    <3> QED
      BY <2>2, <2>3, <2>4, <3>3, <3>4
  <2> QED
    BY <2>2, <2>3, <2>4
<1> QED
  BY InitIInv, NextIInv, InitLine, LineSteps, <1>1, PTL DEF StreamSpec, NothingSkipped
=============================================================================

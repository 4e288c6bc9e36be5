------------------------ MODULE RelayProtocol_proofs ------------------------
(***************************************************************************)
(* The format is read back as it was written, and from_reader stays in step*)
(* with the frames of the stream, whatever the pieces in which they come.  *)
(***************************************************************************)
EXTENDS RelayProtocol, TLAPS

-----------------------------------------------------------------------------
(***************************************************************************)
(* Numbers and their bytes.                                                *)
(***************************************************************************)

\* Quotient and remainder.
LEMMA DivMod ==
    ASSUME NEW n \in Nat
    PROVE  /\ n \div Base \in Nat
           /\ n % Base \in Byte
           /\ n = ((n \div Base) * Base) + (n % Base)
  BY BaseAssumption, SMT DEF Byte

\* A bound on a number divides with it.
LEMMA DivBound ==
    ASSUME NEW n \in Nat, NEW k \in Nat, n < k * Base
    PROVE  n \div Base < k
<1>1. n \div Base \in Nat /\ (n \div Base) * Base <= n
  BY DivMod, BaseAssumption DEF Byte
<1>2. ASSUME n \div Base >= k PROVE FALSE
  <2>1. PICK j \in Nat : n \div Base = k + j
    BY <1>1, <1>2
  <2>2. (n \div Base) * Base = k * Base + j * Base /\ j * Base \in Nat /\ k * Base \in Nat
    BY <2>1, BaseAssumption
  <2> QED BY <2>2, <1>1
<1> QED BY <1>1, <1>2

\* The header of a length is four bytes, and unpack reads the length back.
LEMMA HeaderValue ==
    ASSUME NEW n \in Word
    PROVE  /\ Header(n) \in Seq(Byte)
           /\ Len(Header(n)) = HeaderSize
           /\ Unsigned(Header(n)) = n
<1> DEFINE q == n \div Base
           r == q \div Base
           p == r \div Base
<1>0. /\ n \in Nat /\ n < Base * Base * Base * Base
      /\ Base \in Nat /\ Base * Base \in Nat /\ Base * Base * Base \in Nat
  BY BaseAssumption DEF Word
<1>1. q \in Nat /\ q < Base * Base * Base /\ n % Base \in Byte /\ n = (q * Base) + (n % Base)
  BY <1>0, DivMod, DivBound
<1>2. r \in Nat /\ r < Base * Base /\ q % Base \in Byte /\ q = (r * Base) + (q % Base)
  <2> HIDE DEF q
  <2> QED BY <1>0, <1>1, DivMod, DivBound
<1>3. p \in Byte /\ r % Base \in Byte /\ r = (p * Base) + (r % Base)
  <2> HIDE DEF r
  <2>1. p \in Nat /\ p < Base
    BY <1>0, <1>2, DivMod, DivBound
  <2> QED BY <1>0, <1>2, <2>1, DivMod DEF Byte
<1>4. Header(n) = <<p, r % Base, q % Base, n % Base>>
  BY DEF Header
<1> HIDE DEF p, q, r
<1>5. Unsigned(Header(n)) = ((p * Base + (r % Base)) * Base + (q % Base)) * Base + (n % Base)
  BY <1>4 DEF Unsigned
<1>6. Unsigned(Header(n)) = n
  BY <1>1, <1>2, <1>3, <1>5
<1> QED BY <1>1, <1>2, <1>3, <1>4, <1>6 DEF HeaderSize

-----------------------------------------------------------------------------
(***************************************************************************)
(* Sequences.                                                              *)
(***************************************************************************)

\* A part of a sequence, which may be empty.
LEMMA PartOf ==
    ASSUME NEW S, NEW s \in Seq(S), NEW a \in 1..(Len(s) + 1), NEW b \in (a - 1)..Len(s)
    PROVE  /\ SubSeq(s, a, b) \in Seq(S)
           /\ Len(SubSeq(s, a, b)) = b - a + 1
           /\ \A i \in 1..(b - a + 1) : SubSeq(s, a, b)[i] = s[a + i - 1]
  OBVIOUS

\* Two sequences with the same elements.
LEMMA SameSeq ==
    ASSUME NEW S, NEW s \in Seq(S), NEW t \in Seq(S), Len(s) = Len(t),
           \A i \in 1..Len(s) : s[i] = t[i]
    PROVE  s = t
  OBVIOUS

-----------------------------------------------------------------------------
(***************************************************************************)
(* Frames.                                                                 *)
(***************************************************************************)

\* The bytes of a frame are those of its header and of its body.
LEMMA WireBytes ==
    ASSUME NEW f \in Frame
    PROVE  /\ f.len \in Word
           /\ f.body \in Seq(Byte)
           /\ Header(f.len) \in Seq(Byte)
           /\ Len(Header(f.len)) = HeaderSize
           /\ Unsigned(Header(f.len)) = f.len
           /\ Wire(f) \in Seq(Byte)
           /\ Len(Wire(f)) = HeaderSize + Len(f.body)
           /\ \A i \in 1..HeaderSize : Wire(f)[i] = Header(f.len)[i]
           /\ \A i \in 1..Len(f.body) : Wire(f)[HeaderSize + i] = f.body[i]
<1>1. f.len \in Word /\ f.body \in Seq(Byte)
  BY FrameAssumption
<1>2. /\ Header(f.len) \in Seq(Byte)
      /\ Len(Header(f.len)) = HeaderSize
      /\ Unsigned(Header(f.len)) = f.len
  BY <1>1, HeaderValue
<1> DEFINE h == Header(f.len)
           b == f.body
<1>3. Wire(f) = h \o b
  BY DEF Wire
<1> HIDE DEF h, b
<1>4. h \in Seq(Byte) /\ b \in Seq(Byte) /\ Len(h) = HeaderSize
  BY <1>1, <1>2 DEF h, b
<1>5. /\ h \o b \in Seq(Byte)
      /\ Len(h \o b) = Len(h) + Len(b)
      /\ \A i \in 1..Len(h) : (h \o b)[i] = h[i]
      /\ \A i \in 1..Len(b) : (h \o b)[Len(h) + i] = b[i]
  BY <1>4
<1> QED BY <1>1, <1>2, <1>3, <1>4, <1>5 DEF h, b

\* decode of a header and of as many bytes as it announces unpacks those.
LEMMA DecodeWhole ==
    ASSUME NEW h \in Seq(Byte), Len(h) = HeaderSize,
           NEW b \in Seq(Byte), Len(b) = Unsigned(h)
    PROVE  Decode(h \o b) = IF b \in DOMAIN Unpack THEN Unpack[b] ELSE Malformed
<1> DEFINE data == h \o b
           rest == SubSeq(data, HeaderSize + 1, HeaderSize + Len(b))
<1>0. HeaderSize = 4 /\ Len(b) \in Nat
  BY DEF HeaderSize
<1>1. /\ data \in Seq(Byte)
      /\ Len(data) = HeaderSize + Len(b)
      /\ \A i \in 1..HeaderSize : data[i] = h[i]
      /\ \A i \in 1..Len(b) : data[HeaderSize + i] = b[i]
  <2>1. /\ data \in Seq(Byte)
        /\ Len(data) = Len(h) + Len(b)
        /\ \A i \in 1..Len(h) : data[i] = h[i]
        /\ \A i \in 1..Len(b) : data[Len(h) + i] = b[i]
    OBVIOUS
  <2> QED BY <2>1
<1>2. Unsigned(data) = Len(b)
  BY <1>0, <1>1 DEF Unsigned
<1> HIDE DEF data
<1>3. Slice(data, HeaderSize + 1, HeaderSize + Unsigned(data)) = rest
  BY <1>0, <1>1, <1>2 DEF Slice
<1>4. rest \in Seq(Byte) /\ Len(rest) = Len(b) /\ \A i \in 1..Len(b) : rest[i] = b[i]
  BY <1>0, <1>1, PartOf
<1> HIDE DEF rest
<1>5. rest = b
  BY <1>4, SameSeq
<1> QED BY <1>3, <1>5 DEF Decode, data

\* What decode answers is a message, or there is none.
LEMMA DecodeType ==
    ASSUME NEW data PROVE Decode(data) \in Message \cup {Malformed}
  BY PackAssumption DEF Decode

\* A message that encode writes is read back by decode, whatever its size: the relay
\* forwards the message that it received.
THEOREM RoundTrip == \A m \in Message : Decode(Encode(m)) = m
<1> SUFFICES ASSUME NEW m \in Message PROVE Decode(Encode(m)) = m
  OBVIOUS
<1> DEFINE b == Pack[m]
           h == Header(Len(b))
<1>1. b \in Seq(Byte) /\ Len(b) \in Word /\ b \in DOMAIN Unpack /\ Unpack[b] = m
  BY PackAssumption
<1>2. Encode(m) = h \o b
  BY DEF Encode, Wire, FrameOf
<1> HIDE DEF b
<1>3. h \in Seq(Byte) /\ Len(h) = HeaderSize /\ Unsigned(h) = Len(b)
  BY <1>1, HeaderValue
<1> HIDE DEF h
<1> QED BY <1>1, <1>2, <1>3, DecodeWhole

-----------------------------------------------------------------------------
(***************************************************************************)
(* The inductive invariant: the frames lie in the stream one behind the    *)
(* other, and the reader stands in the frame after those it handled.       *)
(***************************************************************************)

Start(e, i) == IF i = 1 THEN 0 ELSE e[i - 1]

Laid ==
    /\ Len(ends) = Len(frames)
    /\ Len(stream) = Start(ends, Len(frames) + 1)
    /\ \A i \in 1..Len(frames) :
         /\ Start(ends, i) \in Nat
         /\ ends[i] = Start(ends, i) + Len(Wire(frames[i]))
         /\ ends[i] <= Len(stream)
         /\ \A j \in 1..Len(Wire(frames[i])) :
              stream[Start(ends, i) + j] = Wire(frames[i])[j]

InStep ==
    ~ ended =>
      LET s == Start(ends, Len(handled) + 1) IN
      /\ pos = s + Len(header) + Len(body)
      /\ \A j \in 1..Len(header) : stream[s + j] = header[j]
      /\ \A j \in 1..Len(body) : stream[s + HeaderSize + j] = body[j]

\* What the two loops hold: the body only behind a whole header, never whole, and of
\* a length that was let through.
Buffered ==
    /\ Len(header) <= HeaderSize
    /\ Len(header) < HeaderSize => body = <<>>
    /\ Len(header) = HeaderSize => /\ Unsigned(header) <= MaxSize
                                   /\ Len(body) < Unsigned(header)

IInv == ProtocolTypeOK /\ Laid /\ InOrder /\ Buffered /\ InStep

\* The invariant holds at the start.
LEMMA InitIInv == Init => IInv
<1> SUFFICES ASSUME Init PROVE IInv
  OBVIOUS
<1> USE DEF Init
<1>1. ProtocolTypeOK
  <2>1. /\ frames \in Seq(Frame) /\ ends \in Seq(Nat) /\ handled \in Seq(Message)
        /\ stream \in Seq(Byte) /\ header \in Seq(Byte) /\ body \in Seq(Byte)
    OBVIOUS
  <2>2. arrived \in 0..Len(stream) /\ pos \in 0..arrived
    OBVIOUS
  <2> QED BY <2>1, <2>2 DEF ProtocolTypeOK
<1>2. Laid
  BY DEF Laid, Start
<1>3. InOrder /\ Buffered /\ InStep
  BY DEF InOrder, Buffered, InStep, Start, HeaderSize
<1> QED BY <1>1, <1>2, <1>3 DEF IInv

\* A frame is laid behind the others.
LEMMA WriteStep ==
    ASSUME IInv, NEW f \in Frame, WriteFrame(f)
    PROVE  IInv'
<1> USE DEF IInv
<1>0. HeaderSize = 4
  BY DEF HeaderSize
<1>1. /\ Wire(f) \in Seq(Byte)
      /\ Len(Wire(f)) \in Nat
      /\ HeaderSize = 4
  BY WireBytes DEF HeaderSize
<1>2. /\ frames \in Seq(Frame) /\ stream \in Seq(Byte) /\ ends \in Seq(Nat)
      /\ frames' = Append(frames, f)
      /\ stream' = stream \o Wire(f)
      /\ ends' = Append(ends, Len(stream'))
      /\ arrived \in 0..Len(stream)
      /\ pos \in 0..arrived
  BY DEF ProtocolTypeOK, WriteFrame
<1>3. /\ frames' \in Seq(Frame)
      /\ Len(frames') = Len(frames) + 1
      /\ \A i \in 1..Len(frames) : frames'[i] = frames[i]
      /\ frames'[Len(frames) + 1] = f
  BY <1>2
<1>4. /\ stream' \in Seq(Byte)
      /\ Len(stream') = Len(stream) + Len(Wire(f))
      /\ \A i \in 1..Len(stream) : stream'[i] = stream[i]
      /\ \A i \in 1..Len(Wire(f)) : stream'[Len(stream) + i] = Wire(f)[i]
  <2> DEFINE w == Wire(f)
  <2>1. stream' = stream \o w /\ w \in Seq(Byte) /\ stream \in Seq(Byte)
    BY <1>1, <1>2
  <2> HIDE DEF w
  <2>2. /\ stream \o w \in Seq(Byte)
        /\ Len(stream \o w) = Len(stream) + Len(w)
        /\ \A i \in 1..Len(stream) : (stream \o w)[i] = stream[i]
        /\ \A i \in 1..Len(w) : (stream \o w)[Len(stream) + i] = w[i]
    BY <2>1
  <2> QED BY <2>1, <2>2 DEF w
<1>5. /\ ends' \in Seq(Nat)
      /\ Len(ends') = Len(ends) + 1
      /\ \A i \in 1..Len(ends) : ends'[i] = ends[i]
      /\ ends'[Len(ends) + 1] = Len(stream')
  BY <1>2, <1>4
<1>6. ProtocolTypeOK'
  BY <1>1, <1>2, <1>3, <1>4, <1>5 DEF ProtocolTypeOK, WriteFrame
<1>7. \A i \in 1..(Len(frames) + 1) : Start(ends', i) = Start(ends, i)
  <2>1. Len(ends) = Len(frames)
    BY DEF Laid
  <2> QED BY <1>2, <1>5, <2>1 DEF Start
<1>8. Laid'
  <2>1. Len(ends') = Len(frames') /\ Len(stream') = Start(ends', Len(frames') + 1)
    BY <1>3, <1>5 DEF Laid, Start
  <2>2. ASSUME NEW i \in 1..Len(frames)
        PROVE  /\ Start(ends', i) \in Nat
               /\ ends'[i] = Start(ends', i) + Len(Wire(frames'[i]))
               /\ ends'[i] <= Len(stream')
               /\ \A j \in 1..Len(Wire(frames'[i])) :
                    stream'[Start(ends', i) + j] = Wire(frames'[i])[j]
    <3>1. /\ Start(ends', i) = Start(ends, i) /\ Start(ends, i) \in Nat
          /\ ends'[i] = ends[i] /\ frames'[i] = frames[i]
          /\ ends[i] = Start(ends, i) + Len(Wire(frames[i]))
          /\ ends[i] <= Len(stream)
          /\ \A j \in 1..Len(Wire(frames[i])) :
               stream[Start(ends, i) + j] = Wire(frames[i])[j]
      BY <1>2, <1>3, <1>5, <1>7, FrameAssumption DEF Laid
    <3>0. Len(Wire(frames[i])) \in Nat
      BY <1>2, WireBytes
    <3>2. \A j \in 1..Len(Wire(frames[i])) : Start(ends, i) + j \in 1..Len(stream)
      <4>1. Len(stream) \in Nat
        BY <1>2
      <4> QED BY <3>0, <3>1, <4>1
    <3>3. \A j \in 1..Len(Wire(frames[i])) :
            stream'[Start(ends, i) + j] = Wire(frames[i])[j]
      BY <1>4, <3>1, <3>2
    <3>4. ends[i] <= Len(stream')
      BY <1>1, <1>2, <1>4, <3>1
    <3> QED BY <3>1, <3>3, <3>4
  <2>3. /\ Start(ends', Len(frames) + 1) = Len(stream)
        /\ ends'[Len(frames) + 1] = Len(stream) + Len(Wire(f))
        /\ ends'[Len(frames) + 1] = Len(stream')
    <3>1. Len(ends) = Len(frames) /\ Len(stream) = Start(ends, Len(frames) + 1)
      BY DEF Laid
    <3>2. Len(frames) \in Nat /\ Len(stream) \in Nat /\ Len(Wire(f)) \in Nat
      BY <1>1, <1>2
    <3>3. Start(ends', Len(frames) + 1) = Len(stream)
      BY <1>7, <3>1, <3>2
    <3>4. ends'[Len(frames) + 1] = Len(stream')
      BY <1>5, <3>1
    <3>5. Len(stream') = Len(stream) + Len(Wire(f))
      BY <1>4
    <3> QED BY <3>3, <3>4, <3>5
  <2>4. \A j \in 1..Len(Wire(f)) : stream'[Len(stream) + j] = Wire(f)[j]
    BY <1>1, <1>4
  <2>5. ASSUME NEW i \in 1..Len(frames')
        PROVE  /\ Start(ends', i) \in Nat
               /\ ends'[i] = Start(ends', i) + Len(Wire(frames'[i]))
               /\ ends'[i] <= Len(stream')
               /\ \A j \in 1..Len(Wire(frames'[i])) :
                    stream'[Start(ends', i) + j] = Wire(frames'[i])[j]
    <3>1. CASE i \in 1..Len(frames)
      BY <2>2, <3>1
    <3>2. CASE i = Len(frames) + 1
      <4>1. frames'[i] = f /\ Len(stream) \in Nat /\ Len(stream') \in Nat
        BY <1>2, <1>3, <1>4, <3>2
      <4>2. Start(ends', i) = Len(stream) /\ ends'[i] = Len(stream')
        BY <2>3, <3>2
      <4>3. Len(stream') = Len(stream) + Len(Wire(f))
        BY <1>4
      <4>4. \A j \in 1..Len(Wire(f)) : stream'[Start(ends', i) + j] = Wire(f)[j]
        BY <2>4, <4>2
      <4>5. Start(ends', i) \in Nat /\ ends'[i] = Start(ends', i) + Len(Wire(f))
        BY <4>1, <4>2, <4>3
      <4>6. ends'[i] <= Len(stream')
        BY <4>1, <4>2
      <4> QED BY <4>1, <4>4, <4>5, <4>6
    <3>3. i \in 1..(Len(frames) + 1) /\ Len(frames) \in Nat
      BY <1>2, <1>3
    <3>4. i \in 1..Len(frames) \/ i = Len(frames) + 1
      BY <3>3
    <3> QED BY <3>1, <3>2, <3>4
  <2> QED BY <2>1, <2>5 DEF Laid
<1>9. InOrder'
  BY <1>3, <1>5 DEF InOrder, Laid, WriteFrame, ProtocolTypeOK
<1>10. Buffered'
  BY DEF Buffered, WriteFrame
<1>11. InStep'
  <2>1. Start(ends', Len(handled) + 1) = Start(ends, Len(handled) + 1)
    BY <1>2, <1>7 DEF InOrder, WriteFrame, ProtocolTypeOK
  <2>2. /\ Len(header) \in Nat /\ Len(body) \in Nat /\ Len(header) <= HeaderSize
        /\ (Len(header) < HeaderSize => Len(body) = 0)
    BY DEF ProtocolTypeOK, Buffered
  <2>3. Start(ends, Len(handled) + 1) \in Nat
    BY DEF Laid, InOrder, ProtocolTypeOK, Start
  <2> DEFINE s == Start(ends, Len(handled) + 1)
  <2> HIDE DEF s
  <2>4. /\ ~ ended /\ pos = s + Len(header) + Len(body)
        /\ \A j \in 1..Len(header) : stream[s + j] = header[j]
        /\ \A j \in 1..Len(body) : stream[s + HeaderSize + j] = body[j]
    BY DEF InStep, WriteFrame, s
  <2>5. /\ \A j \in 1..Len(header) : s + j \in 1..Len(stream)
        /\ \A j \in 1..Len(body) : s + HeaderSize + j \in 1..Len(stream)
    <3>1. s \in Nat /\ Len(stream) \in Nat /\ arrived \in Nat /\ pos <= Len(stream)
      BY <1>2, <2>3 DEF s
    <3> QED BY <1>1, <2>2, <2>4, <3>1
  <2>6. /\ \A j \in 1..Len(header) : stream'[s + j] = header[j]
        /\ \A j \in 1..Len(body) : stream'[s + HeaderSize + j] = body[j]
    <3>1. ASSUME NEW j \in 1..Len(header) PROVE stream'[s + j] = header[j]
      BY <1>4, <2>4, <2>5
    <3>2. ASSUME NEW j \in 1..Len(body) PROVE stream'[s + HeaderSize + j] = body[j]
      BY <1>4, <2>4, <2>5
    <3> QED BY <3>1, <3>2
  <2>7. /\ s = Start(ends', Len(handled') + 1)
        /\ pos' = pos /\ header' = header /\ body' = body
    BY <2>1 DEF WriteFrame, s
  <2> QED BY <2>4, <2>6, <2>7 DEF InStep
<1> QED BY <1>6, <1>8, <1>9, <1>10, <1>11

-----------------------------------------------------------------------------
(***************************************************************************)
(* A read.                                                                 *)
(***************************************************************************)

\* What unpack reads is a natural number.
LEMMA UnsignedType ==
    ASSUME NEW h \in Seq(Byte), Len(h) = HeaderSize
    PROVE  Unsigned(h) \in Nat
<1>1. h[1] \in Byte /\ h[2] \in Byte /\ h[3] \in Byte /\ h[4] \in Byte
  BY DEF HeaderSize
<1>2. Byte \subseteq Nat
  BY BaseAssumption DEF Byte
<1>3. \A m, d \in Nat : m * Base + d \in Nat
  BY BaseAssumption
<1>4. h[1] * Base + h[2] \in Nat
  BY <1>1, <1>2, <1>3
<1>5. (h[1] * Base + h[2]) * Base + h[3] \in Nat
  BY <1>1, <1>2, <1>3, <1>4
<1>6. ((h[1] * Base + h[2]) * Base + h[3]) * Base + h[4] \in Nat
  BY <1>1, <1>2, <1>3, <1>5
<1> QED BY <1>6 DEF Unsigned

\* The chunk is what comes next in the stream, as much of it as was asked for and has
\* arrived.
LEMMA ChunkIs ==
    ASSUME IInv
    PROVE  /\ Wanted \in Nat \ {0}
           /\ Chunk \in Seq(Byte)
           /\ Len(Chunk) <= Wanted
           /\ pos + Len(Chunk) <= arrived
           /\ \A j \in 1..Len(Chunk) : Chunk[j] = stream[pos + j]
<1> DEFINE buffer == SubSeq(stream, pos + 1, arrived)
<1>1. /\ stream \in Seq(Byte) /\ arrived \in 0..Len(stream) /\ pos \in 0..arrived
      /\ header \in Seq(Byte) /\ body \in Seq(Byte)
      /\ Len(header) <= HeaderSize
      /\ Len(header) = HeaderSize => Len(body) < Unsigned(header)
  BY DEF IInv, ProtocolTypeOK, Buffered
<1>2. Wanted \in Nat \ {0}
  <2>0. HeaderSize \in Nat /\ Len(header) \in Nat
    BY <1>1 DEF HeaderSize
  <2>1. CASE Len(header) < HeaderSize
    BY <2>0, <2>1 DEF Wanted
  <2>2. CASE Len(header) = HeaderSize
    <3>1. Unsigned(header) \in Nat /\ Len(body) \in Nat
      BY <1>1, <2>2, UnsignedType
    <3>2. Wanted = Unsigned(header) - Len(body)
      BY <2>0, <2>2 DEF Wanted
    <3> QED BY <1>1, <2>2, <3>1, <3>2
  <2>3. Len(header) < HeaderSize \/ Len(header) = HeaderSize
    <3>1. Len(header) <= HeaderSize
      BY <1>1
    <3> QED BY <2>0, <3>1
  <2> QED BY <2>1, <2>2, <2>3
<1>3. /\ buffer \in Seq(Byte)
      /\ Len(buffer) = arrived - pos
      /\ \A j \in 1..(arrived - pos) : buffer[j] = stream[pos + j]
  <2>1. pos + 1 \in 1..(Len(stream) + 1) /\ arrived \in (pos + 1 - 1)..Len(stream)
    BY <1>1
  <2>2. /\ buffer \in Seq(Byte)
        /\ Len(buffer) = arrived - (pos + 1) + 1
        /\ \A j \in 1..(arrived - (pos + 1) + 1) : buffer[j] = stream[pos + 1 + j - 1]
    BY <1>1, <2>1, PartOf
  <2> QED BY <1>1, <2>2
<1> HIDE DEF buffer
<1> DEFINE last == IF Wanted <= Len(buffer) THEN Wanted ELSE Len(buffer)
<1>4. Chunk = SubSeq(buffer, 1, last)
  BY DEF Chunk, Slice, buffer
<1>5. last \in 0..Len(buffer) /\ last <= Wanted
  BY <1>2, <1>3
<1> HIDE DEF last
<1>6. /\ Chunk \in Seq(Byte)
      /\ Len(Chunk) = last
      /\ \A j \in 1..last : Chunk[j] = buffer[j]
  BY <1>3, <1>4, <1>5
<1>7. arrived \in Nat /\ pos \in Nat /\ last \in Nat /\ last <= arrived - pos
  BY <1>1, <1>3, <1>5
<1>8. pos + last <= arrived
  BY <1>7
<1>9. \A j \in 1..last : j \in 1..(arrived - pos)
  BY <1>7
<1>10. \A j \in 1..last : Chunk[j] = stream[pos + j]
  BY <1>3, <1>6, <1>9
<1> HIDE DEF Chunk, Wanted
<1> QED BY <1>2, <1>5, <1>6, <1>8, <1>10

\* header_data and the body after the chunk is taken.
HeaderRead == IF Len(header) < HeaderSize THEN header \o Chunk ELSE header
BodyRead == IF Len(header) < HeaderSize THEN <<>> ELSE body \o Chunk

\* The frame that the reader stands in.
Current == frames[Len(handled) + 1]
From == Start(ends, Len(handled) + 1)

\* There is a frame where the reader stands, if a chunk comes.
LEMMA CurrentIs ==
    ASSUME IInv, ~ ended, Chunk # <<>>
    PROVE  /\ Len(handled) + 1 \in 1..Len(frames)
           /\ Current \in Frame
           /\ From \in Nat
           /\ ends[Len(handled) + 1] = From + Len(Wire(Current))
           /\ \A j \in 1..Len(Wire(Current)) : stream[From + j] = Wire(Current)[j]
<1>1. /\ frames \in Seq(Frame) /\ handled \in Seq(Message) /\ stream \in Seq(Byte)
      /\ arrived \in 0..Len(stream) /\ pos \in 0..arrived
      /\ header \in Seq(Byte) /\ body \in Seq(Byte)
      /\ Len(handled) <= Len(frames)
  BY DEF IInv, ProtocolTypeOK, InOrder
<1>2. pos < Len(stream)
  <2>1. Chunk \in Seq(Byte) /\ pos + Len(Chunk) <= arrived
    BY ChunkIs
  <2>2. Len(Chunk) > 0
    BY <2>1
  <2> QED BY <1>1, <2>1, <2>2
<1>3. pos = From + Len(header) + Len(body)
  BY DEF IInv, InStep, From
<1>4. Len(handled) # Len(frames)
  <2> SUFFICES ASSUME Len(handled) = Len(frames) PROVE FALSE
    OBVIOUS
  <2>1. From = Len(stream)
    BY DEF IInv, Laid, From
  <2> QED BY <1>1, <1>2, <1>3, <2>1
<1>5. Len(handled) + 1 \in 1..Len(frames)
  BY <1>1, <1>4
<1>6. Current \in Frame
  BY <1>1, <1>5 DEF Current
<1> QED BY <1>5, <1>6 DEF IInv, Laid, Current, From

\* What is in hand after a chunk is the beginning of the frame.
LEMMA ReadIs ==
    ASSUME IInv, ~ ended, Chunk # <<>>
    PROVE  /\ HeaderRead \in Seq(Byte) /\ Len(HeaderRead) \in 1..HeaderSize
           /\ BodyRead \in Seq(Byte)
           /\ pos + Len(Chunk) = From + Len(HeaderRead) + Len(BodyRead)
           /\ \A j \in 1..Len(HeaderRead) : stream[From + j] = HeaderRead[j]
           /\ \A j \in 1..Len(BodyRead) : stream[From + HeaderSize + j] = BodyRead[j]
           /\ Len(HeaderRead) < HeaderSize => BodyRead = <<>>
           /\ Len(HeaderRead) = HeaderSize => Len(BodyRead) <= Unsigned(HeaderRead)
<1>1. /\ header \in Seq(Byte) /\ body \in Seq(Byte)
      /\ Len(header) \in 0..HeaderSize
      /\ Len(header) < HeaderSize => body = <<>>
      /\ HeaderSize \in Nat \ {0} /\ pos \in Nat
  <2>1. /\ header \in Seq(Byte) /\ body \in Seq(Byte)
        /\ pos \in 0..arrived /\ arrived \in 0..Len(stream)
    BY DEF IInv, ProtocolTypeOK
  <2>2. /\ Len(header) <= HeaderSize
        /\ Len(header) < HeaderSize => body = <<>>
    BY DEF IInv, Buffered
  <2>3. HeaderSize \in Nat \ {0} /\ pos \in Nat /\ Len(header) \in Nat
    BY <2>1 DEF HeaderSize
  <2>4. Len(header) \in 0..HeaderSize
    <3>1. Len(header) <= HeaderSize
      BY <2>2
    <3> QED BY <2>3, <3>1
  <2> QED BY <2>1, <2>2, <2>3, <2>4
<1>2. /\ pos = From + Len(header) + Len(body)
      /\ \A j \in 1..Len(header) : stream[From + j] = header[j]
      /\ \A j \in 1..Len(body) : stream[From + HeaderSize + j] = body[j]
  BY DEF IInv, InStep, From
<1>3. /\ Chunk \in Seq(Byte)
      /\ Len(Chunk) <= Wanted /\ Wanted \in Nat
      /\ \A j \in 1..Len(Chunk) : Chunk[j] = stream[pos + j]
  BY ChunkIs
<1>4. From \in Nat
  BY CurrentIs
<1>5. Len(Chunk) \in Nat \ {0}
  BY <1>3
<1>6. CASE Len(header) < HeaderSize
  <2>1. /\ HeaderRead = header \o Chunk /\ BodyRead = <<>>
        /\ Wanted = HeaderSize - Len(header)
        /\ pos = From + Len(header)
    BY <1>1, <1>2, <1>4, <1>6 DEF HeaderRead, BodyRead, Wanted
  <2>2. /\ HeaderRead \in Seq(Byte)
        /\ Len(HeaderRead) = Len(header) + Len(Chunk)
        /\ \A j \in 1..Len(header) : HeaderRead[j] = header[j]
        /\ \A j \in 1..Len(Chunk) : HeaderRead[Len(header) + j] = Chunk[j]
    BY <1>1, <1>3, <2>1
  <2>3. Len(HeaderRead) \in 1..HeaderSize
    BY <1>1, <1>3, <1>5, <2>1, <2>2
  <2>4. ASSUME NEW j \in 1..Len(HeaderRead) PROVE stream[From + j] = HeaderRead[j]
    <3>1. CASE j <= Len(header)
      BY <1>1, <1>2, <2>2, <3>1
    <3>2. CASE j > Len(header)
      <4>1. PICK i \in 1..Len(Chunk) : j = Len(header) + i
        <5>1. j - Len(header) \in 1..Len(Chunk) /\ j = Len(header) + (j - Len(header))
          BY <1>1, <1>5, <2>2, <3>2
        <5> QED BY <5>1
      <4>2. pos + i = From + j
        BY <1>1, <1>4, <2>1, <4>1
      <4>3. HeaderRead[j] = Chunk[i] /\ Chunk[i] = stream[pos + i]
        BY <1>3, <2>2, <4>1
      <4> QED BY <4>2, <4>3
    <3> QED BY <1>1, <3>1, <3>2
  <2>5. pos + Len(Chunk) = From + Len(HeaderRead)
    BY <1>1, <1>4, <1>5, <2>1, <2>2
  <2>6. Len(HeaderRead) = HeaderSize => Unsigned(HeaderRead) \in Nat
    BY <2>2, UnsignedType
  <2>7. BodyRead \in Seq(Byte) /\ Len(BodyRead) = 0
    BY <2>1
  <2> QED BY <1>4, <2>1, <2>2, <2>3, <2>4, <2>5, <2>6, <2>7
<1>7. CASE Len(header) = HeaderSize
  <2>1. /\ HeaderRead = header /\ BodyRead = body \o Chunk
        /\ Wanted = Unsigned(header) - Len(body)
    BY <1>1, <1>7 DEF HeaderRead, BodyRead, Wanted
  <2>2. /\ BodyRead \in Seq(Byte)
        /\ Len(BodyRead) = Len(body) + Len(Chunk)
        /\ \A j \in 1..Len(body) : BodyRead[j] = body[j]
        /\ \A j \in 1..Len(Chunk) : BodyRead[Len(body) + j] = Chunk[j]
    BY <1>1, <1>3, <2>1
  <2>3. Len(body) \in Nat /\ Unsigned(header) \in Nat
    BY <1>1, <1>7, UnsignedType
  <2>4. ASSUME NEW j \in 1..Len(BodyRead) PROVE stream[From + HeaderSize + j] = BodyRead[j]
    <3>1. CASE j <= Len(body)
      BY <1>2, <2>2, <2>3, <3>1
    <3>2. CASE j > Len(body)
      <4>1. PICK i \in 1..Len(Chunk) : j = Len(body) + i
        <5>1. j - Len(body) \in 1..Len(Chunk) /\ j = Len(body) + (j - Len(body))
          BY <1>5, <2>2, <2>3, <3>2
        <5> QED BY <5>1
      <4>2. pos + i = From + HeaderSize + j
        BY <1>1, <1>2, <1>4, <1>7, <2>3, <4>1
      <4>3. BodyRead[j] = Chunk[i] /\ Chunk[i] = stream[pos + i]
        BY <1>3, <2>2, <4>1
      <4> QED BY <4>2, <4>3
    <3> QED BY <2>3, <3>1, <3>2
  <2>5. pos + Len(Chunk) = From + Len(HeaderRead) + Len(BodyRead)
    BY <1>1, <1>2, <1>4, <1>5, <2>1, <2>2, <2>3
  <2>6. Len(BodyRead) <= Unsigned(HeaderRead)
    BY <1>3, <1>5, <2>1, <2>2, <2>3
  <2>7. HeaderRead \in Seq(Byte) /\ Len(HeaderRead) \in 1..HeaderSize
    BY <1>1, <1>7, <2>1
  <2>8. \A j \in 1..Len(HeaderRead) : stream[From + j] = HeaderRead[j]
    BY <1>2, <2>1
  <2>9. ~ Len(HeaderRead) < HeaderSize
    BY <1>1, <1>7, <2>1
  <2> QED BY <2>2, <2>4, <2>5, <2>6, <2>7, <2>8, <2>9
<1>8. Len(header) < HeaderSize \/ Len(header) = HeaderSize
  <2>1. Len(header) \in 0..HeaderSize /\ HeaderSize \in Nat
    BY <1>1
  <2> QED BY <2>1
<1> QED BY <1>6, <1>7, <1>8

\* A header that is complete is that of the frame.
LEMMA HeaderIs ==
    ASSUME IInv, ~ ended, Chunk # <<>>, Len(HeaderRead) = HeaderSize
    PROVE  HeaderRead = Header(Current.len)
<1> DEFINE h == Header(Current.len)
<1>1. /\ HeaderRead \in Seq(Byte)
      /\ \A j \in 1..HeaderSize : stream[From + j] = HeaderRead[j]
  BY ReadIs
<1>2. /\ h \in Seq(Byte) /\ Len(h) = HeaderSize
      /\ \A j \in 1..HeaderSize : Wire(Current)[j] = h[j]
      /\ Wire(Current) \in Seq(Byte)
      /\ Len(Wire(Current)) >= HeaderSize
  BY CurrentIs, WireBytes DEF HeaderSize
<1>3. \A j \in 1..Len(Wire(Current)) : stream[From + j] = Wire(Current)[j]
  BY CurrentIs
<1> HIDE DEF h
<1>4. ASSUME NEW j \in 1..HeaderSize PROVE HeaderRead[j] = h[j]
  <2>1. j \in 1..Len(Wire(Current))
    BY <1>2 DEF HeaderSize
  <2> QED BY <1>1, <1>2, <1>3, <2>1
<1>5. HeaderRead = h
  BY <1>1, <1>2, <1>4, SameSeq
<1> QED BY <1>5 DEF h

\* A frame that is whole and small enough is decoded to its message.
LEMMA FrameIs ==
    ASSUME IInv, ~ ended, Chunk # <<>>,
           ~ TooLarge(HeaderRead), ~ Incomplete(HeaderRead, BodyRead)
    PROVE  /\ Decode(HeaderRead \o BodyRead) = MessageOf(Current)
           /\ pos + Len(Chunk) = ends[Len(handled) + 1]
<1> DEFINE n == Current.len
           b == Current.body
<1>1. /\ HeaderRead \in Seq(Byte) /\ BodyRead \in Seq(Byte)
      /\ Len(HeaderRead) = HeaderSize
      /\ Len(BodyRead) <= Unsigned(HeaderRead)
      /\ ~ Len(BodyRead) < Unsigned(HeaderRead)
  BY ReadIs DEF Incomplete
<1>2. Unsigned(HeaderRead) \in Nat
  BY <1>1, UnsignedType
<1>3. Len(BodyRead) = Unsigned(HeaderRead)
  <2>1. Len(BodyRead) \in Nat
    BY <1>1
  <2> QED BY <1>1, <1>2, <2>1
<1>4. /\ n \in Word /\ b \in Seq(Byte)
      /\ Unsigned(Header(n)) = n
      /\ Wire(Current) \in Seq(Byte)
      /\ Len(Wire(Current)) = HeaderSize + Len(b)
      /\ \A i \in 1..Len(b) : Wire(Current)[HeaderSize + i] = b[i]
  BY CurrentIs, WireBytes
<1>5. HeaderRead = Header(n)
  BY <1>1, HeaderIs
<1>6. n <= MaxSize
  <2>1. ~ n > MaxSize
    BY <1>1, <1>4, <1>5 DEF TooLarge
  <2>2. n \in Int /\ MaxSize \in Int
    BY <1>4, SizeAssumption DEF Word
  <2> QED BY <2>1, <2>2
<1>7. n = Len(b)
  <2>1. n = Len(b) \/ n > MaxSize
    BY CurrentIs, FrameAssumption
  <2>2. n \in Int /\ MaxSize \in Int
    BY <1>4, SizeAssumption DEF Word
  <2> QED BY <1>6, <2>1, <2>2
<1>8. Len(BodyRead) = Len(b)
  BY <1>3, <1>4, <1>5, <1>7
<1>9. /\ \A j \in 1..Len(BodyRead) : stream[From + HeaderSize + j] = BodyRead[j]
      /\ \A j \in 1..Len(Wire(Current)) : stream[From + j] = Wire(Current)[j]
      /\ From \in Nat /\ HeaderSize \in Nat
      /\ ends[Len(handled) + 1] = From + Len(Wire(Current))
      /\ pos + Len(Chunk) = From + Len(HeaderRead) + Len(BodyRead)
  BY ReadIs, CurrentIs DEF HeaderSize
<1> DEFINE c == MessageOf(Current)
<1>10. c = IF b \in DOMAIN Unpack THEN Unpack[b] ELSE Malformed
  BY <1>6 DEF MessageOf
<1> HIDE DEF n, b, c
<1>11. ASSUME NEW j \in 1..Len(BodyRead) PROVE BodyRead[j] = b[j]
  <2>1. j \in 1..Len(b) /\ Len(b) \in Nat /\ j \in Nat /\ j <= Len(b) /\ j >= 1
    BY <1>4, <1>8
  <2>2. HeaderSize + j \in 1..Len(Wire(Current))
    BY <1>4, <1>9, <2>1
  <2>3. stream[From + (HeaderSize + j)] = b[j]
    BY <1>4, <1>9, <2>1, <2>2
  <2>4. From + (HeaderSize + j) = From + HeaderSize + j
    BY <1>9, <2>1
  <2> QED BY <1>9, <2>3, <2>4
<1>12. BodyRead = b
  BY <1>1, <1>4, <1>8, <1>11, SameSeq
<1>13. Decode(HeaderRead \o BodyRead) = c
  BY <1>1, <1>3, <1>10, <1>12, DecodeWhole
<1>14. pos + Len(Chunk) = ends[Len(handled) + 1]
  <2>1. pos + Len(Chunk) = From + HeaderSize + Len(b)
    BY <1>1, <1>8, <1>9
  <2>2. Len(b) \in Nat
    BY <1>4
  <2>3. ends[Len(handled) + 1] = From + (HeaderSize + Len(b))
    BY <1>4, <1>9
  <2> QED BY <1>9, <2>1, <2>2, <2>3
<1> QED BY <1>13, <1>14 DEF c

\* The invariant survives a read, whatever part of a frame it ends in.
LEMMA ReadStep ==
    ASSUME IInv, Read
    PROVE  IInv'
<1>1. /\ ~ ended /\ Chunk # <<>>
      /\ pos' = pos + Len(Chunk)
      /\ UNCHANGED <<frames, stream, ends, arrived, link>>
      /\ \/ /\ ended' = TRUE
            /\ UNCHANGED <<header, body, handled>>
         \/ /\ ~ TooLarge(HeaderRead)
            /\ Incomplete(HeaderRead, BodyRead)
            /\ header' = HeaderRead
            /\ body' = BodyRead
            /\ UNCHANGED <<handled, ended>>
         \/ /\ ~ TooLarge(HeaderRead)
            /\ ~ Incomplete(HeaderRead, BodyRead)
            /\ Return(Decode(HeaderRead \o BodyRead))
  BY DEF Read, HeaderRead, BodyRead
<1>2. /\ frames \in Seq(Frame) /\ stream \in Seq(Byte) /\ ends \in Seq(Nat)
      /\ arrived \in 0..Len(stream) /\ pos \in 0..arrived
      /\ link \in {"open", "eof", "reset"}
      /\ header \in Seq(Byte) /\ body \in Seq(Byte)
      /\ handled \in Seq(Message)
  BY DEF IInv, ProtocolTypeOK
<1>3. Chunk \in Seq(Byte) /\ pos + Len(Chunk) <= arrived
  BY ChunkIs
<1>4. pos' \in 0..arrived
  <2>1. Len(Chunk) \in Nat
    BY <1>3
  <2> QED BY <1>1, <1>2, <1>3, <2>1
<1>5. Laid'
  BY <1>1 DEF IInv, Laid
<1>6. CASE ended' = TRUE /\ UNCHANGED <<header, body, handled>>
  <2>1. ProtocolTypeOK'
    BY <1>1, <1>2, <1>4, <1>6 DEF ProtocolTypeOK
  <2>2. InOrder' /\ Buffered'
    BY <1>1, <1>6 DEF IInv, InOrder, Buffered
  <2>3. InStep'
    BY <1>6 DEF InStep
  <2> QED BY <1>5, <2>1, <2>2, <2>3 DEF IInv
<1>7. CASE /\ ~ TooLarge(HeaderRead)
           /\ Incomplete(HeaderRead, BodyRead)
           /\ header' = HeaderRead
           /\ body' = BodyRead
           /\ UNCHANGED <<handled, ended>>
  <2>1. /\ HeaderRead \in Seq(Byte) /\ Len(HeaderRead) \in 1..HeaderSize
        /\ BodyRead \in Seq(Byte)
        /\ pos + Len(Chunk) = From + Len(HeaderRead) + Len(BodyRead)
        /\ \A j \in 1..Len(HeaderRead) : stream[From + j] = HeaderRead[j]
        /\ \A j \in 1..Len(BodyRead) : stream[From + HeaderSize + j] = BodyRead[j]
        /\ Len(HeaderRead) < HeaderSize => BodyRead = <<>>
    BY <1>1, ReadIs
  <2>2. ProtocolTypeOK'
    BY <1>1, <1>2, <1>4, <1>7, <2>1 DEF IInv, ProtocolTypeOK
  <2>3. InOrder'
    BY <1>1, <1>7 DEF IInv, InOrder
  <2>4. Buffered'
    <3>1. Len(HeaderRead) <= HeaderSize
      BY <2>1 DEF HeaderSize
    <3>2. ASSUME Len(HeaderRead) = HeaderSize
          PROVE  Unsigned(HeaderRead) <= MaxSize /\ Len(BodyRead) < Unsigned(HeaderRead)
      <4>1. ~ Unsigned(HeaderRead) > MaxSize /\ Len(BodyRead) < Unsigned(HeaderRead)
        BY <1>7, <3>2 DEF TooLarge, Incomplete
      <4>2. Unsigned(HeaderRead) \in Nat /\ MaxSize \in Int
        BY <2>1, <3>2, UnsignedType, SizeAssumption DEF Word
      <4> QED BY <4>1, <4>2
    <3> QED BY <1>7, <2>1, <3>1, <3>2 DEF Buffered
  <2>5. InStep'
    BY <1>1, <1>7, <2>1 DEF InStep, From
  <2> QED BY <1>5, <2>2, <2>3, <2>4, <2>5 DEF IInv
<1>8. CASE /\ ~ TooLarge(HeaderRead)
           /\ ~ Incomplete(HeaderRead, BodyRead)
           /\ Return(Decode(HeaderRead \o BodyRead))
  <2> DEFINE m == MessageOf(Current)
             k == Len(handled)
  <2>1. Decode(HeaderRead \o BodyRead) = m /\ pos' = ends[k + 1]
    BY <1>1, <1>8, FrameIs
  <2>2. m \in Message \cup {Malformed}
    BY <2>1, DecodeType
  <2>3. k + 1 \in 1..Len(frames) /\ k \in Nat
    BY <1>1, <1>2, CurrentIs
  <2>4. m = MessageOf(frames[k + 1])
    BY DEF Current
  <2> HIDE DEF m
  <2>5. /\ handled' = IF m = Malformed THEN handled ELSE Append(handled, m)
        /\ ended' = (m \in {Malformed, Disconnect})
        /\ header' = <<>> /\ body' = <<>>
    BY <1>8, <2>1 DEF Return
  <2>6. handled' \in Seq(Message)
    BY <1>2, <2>2, <2>5
  <2>7. header' \in Seq(Byte) /\ body' \in Seq(Byte) /\ ended' \in BOOLEAN
    BY <2>5
  <2>8. ProtocolTypeOK'
    BY <1>1, <1>2, <1>4, <2>6, <2>7 DEF ProtocolTypeOK
  <2>9. Buffered'
    BY <2>5 DEF Buffered, HeaderSize
  <2>10. CASE m = Malformed
    <3>1. handled' = handled /\ ended'
      BY <2>5, <2>10
    <3>2. InOrder'
      BY <1>1, <3>1 DEF IInv, InOrder
    <3> QED BY <1>5, <2>8, <2>9, <3>1, <3>2 DEF IInv, InStep
  <2>11. CASE m # Malformed
    <3>1. /\ handled' = Append(handled, m)
          /\ Len(handled') = k + 1
          /\ \A i \in 1..k : handled'[i] = handled[i]
          /\ handled'[k + 1] = m
      BY <1>2, <2>2, <2>5, <2>11
    <3>2. InOrder'
      <4>1. Len(handled') <= Len(frames')
        BY <1>1, <2>3, <3>1
      <4>2. ASSUME NEW i \in 1..Len(handled')
            PROVE  handled'[i] = MessageOf(frames'[i]) /\ ends'[i] <= arrived'
        <5>1. CASE i \in 1..k
          BY <1>1, <3>1, <5>1 DEF IInv, InOrder
        <5>2. CASE i = k + 1
          <6>1. ends[k + 1] <= arrived
            BY <1>1, <1>3, <2>1
          <6> QED BY <1>1, <2>4, <3>1, <5>2, <6>1
        <5> QED BY <2>3, <3>1, <5>1, <5>2
      <4> QED BY <4>1, <4>2 DEF InOrder
    <3>3. InStep'
      <4>1. Start(ends', Len(handled') + 1) = ends[k + 1]
        BY <1>1, <2>3, <3>1 DEF Start
      <4>2. ends[k + 1] \in Nat /\ Len(header') = 0 /\ Len(body') = 0
        BY <1>2, <2>3, <2>5 DEF IInv, Laid
      <4> QED BY <2>1, <4>1, <4>2 DEF InStep
    <3> QED BY <1>5, <2>8, <2>9, <3>2, <3>3 DEF IInv
  <2> QED BY <2>10, <2>11
<1> QED BY <1>1, <1>6, <1>7, <1>8

\* Every step keeps the invariant.
LEMMA NextIInv == IInv /\ [Next]_vars => IInv'
<1> SUFFICES ASSUME IInv, [Next]_vars PROVE IInv'
  OBVIOUS
<1>1. ASSUME NEW f \in Frame, WriteFrame(f) PROVE IInv'
  BY <1>1, WriteStep
<1>2. CASE Read
  BY <1>2, ReadStep
<1>3. CASE Arrive
  <2>1. /\ stream \in Seq(Byte) /\ arrived \in 0..Len(stream) /\ pos \in 0..arrived
        /\ arrived' \in (arrived + 1)..Len(stream) /\ ends \in Seq(Nat)
        /\ UNCHANGED <<frames, stream, ends, pos, link, header, body, handled, ended>>
    BY <1>3 DEF IInv, ProtocolTypeOK, Arrive
  <2>2. Len(stream) \in Nat
    BY <2>1
  <2>3. arrived' \in 0..Len(stream) /\ pos \in 0..arrived' /\ arrived <= arrived' /\ arrived' \in Nat
    BY <2>1, <2>2
  <2>4. ProtocolTypeOK'
    BY <2>1, <2>3 DEF IInv, ProtocolTypeOK
  <2>5. Laid' /\ Buffered' /\ InStep'
    BY <2>1 DEF IInv, Laid, Buffered, InStep
  <2>6. InOrder'
    <3>1. ASSUME NEW i \in 1..Len(handled)
          PROVE  handled[i] = MessageOf(frames[i]) /\ ends[i] <= arrived'
      <4>0. handled[i] = MessageOf(frames[i]) /\ ends[i] <= arrived
        BY DEF IInv, InOrder
      <4>1. i \in 1..Len(ends)
        <5>1. /\ handled \in Seq(Message) /\ frames \in Seq(Frame)
              /\ Len(ends) = Len(frames) /\ Len(handled) <= Len(frames)
          BY DEF IInv, InOrder, Laid, ProtocolTypeOK
        <5> QED BY <5>1
      <4>2. ends[i] \in Nat /\ arrived \in Nat
        BY <2>1, <2>2, <4>1
      <4> QED BY <2>3, <4>0, <4>2
    <3>2. Len(handled) <= Len(frames)
      BY DEF IInv, InOrder
    <3> QED BY <2>1, <3>1, <3>2 DEF InOrder
  <2> QED BY <2>4, <2>5, <2>6 DEF IInv
<1>4. CASE LinkEnds
  <2>1. /\ link' \in {"open", "eof", "reset"}
        /\ UNCHANGED <<frames, stream, ends, arrived, pos, header, body, handled, ended>>
    BY <1>4 DEF LinkEnds
  <2> QED BY <2>1 DEF IInv, ProtocolTypeOK, Laid, InOrder, Buffered, InStep
<1>5. CASE ReadFails
  <2>1. /\ ended' = TRUE
        /\ UNCHANGED <<frames, stream, ends, arrived, pos, link, header, body, handled>>
    BY <1>5 DEF ReadFails
  <2> QED BY <2>1 DEF IInv, ProtocolTypeOK, Laid, InOrder, Buffered, InStep
<1>6. CASE UNCHANGED vars
  BY <1>6 DEF vars, IInv, ProtocolTypeOK, Laid, InOrder, Buffered, InStep
<1> QED BY <1>1, <1>2, <1>3, <1>4, <1>5, <1>6 DEF Next, Terminated

LEMMA Inductive == Spec => []IInv
  BY InitIInv, NextIInv, PTL DEF Spec

\* Every variable keeps its type.
THEOREM ProtocolTypeCorrect == Spec => []ProtocolTypeOK
  BY Inductive, PTL DEF IInv

\* Framing never gets out of step: in whatever pieces the stream arrives, and wherever
\* it ends, the messages handled are those of the frames written, in their order.
THEOREM FramingCorrect == Spec => []InOrder
  BY Inductive, PTL DEF IInv

\* The reader always stands short of the end of the frame it is in: it never has a
\* whole one in hand and no message of it.
LEMMA ShortOf ==
    ASSUME IInv, ~ ended, Len(handled) + 1 \in 1..Len(frames)
    PROVE  pos < ends[Len(handled) + 1]
<1> DEFINE k == Len(handled)
           w == Wire(Current)
<1>1. /\ frames \in Seq(Frame) /\ header \in Seq(Byte) /\ body \in Seq(Byte)
      /\ Len(header) <= HeaderSize
      /\ Len(header) < HeaderSize => body = <<>>
      /\ Len(header) = HeaderSize => /\ Unsigned(header) <= MaxSize
                                     /\ Len(body) < Unsigned(header)
      /\ pos = From + Len(header) + Len(body)
      /\ \A j \in 1..Len(header) : stream[From + j] = header[j]
  BY DEF IInv, ProtocolTypeOK, Buffered, InStep, From
<1>2. Current \in Frame
  BY <1>1 DEF Current
<1>3. /\ From \in Nat /\ ends[k + 1] = From + Len(w)
      /\ \A j \in 1..Len(w) : stream[From + j] = w[j]
  BY DEF IInv, Laid, From, Current
<1>4. /\ Current.len \in Word /\ Current.body \in Seq(Byte)
      /\ w \in Seq(Byte) /\ Len(w) = HeaderSize + Len(Current.body)
      /\ Header(Current.len) \in Seq(Byte) /\ Len(Header(Current.len)) = HeaderSize
      /\ Unsigned(Header(Current.len)) = Current.len
      /\ \A i \in 1..HeaderSize : w[i] = Header(Current.len)[i]
  BY <1>2, WireBytes
<1> DEFINE h == Header(Current.len)
           n == Len(Current.body)
<1> HIDE DEF k, w, h
<1>5. n \in Nat /\ Len(w) = HeaderSize + n
  BY <1>4
<1>6. CASE Len(header) < HeaderSize
  <2>1. Len(body) = 0 /\ Len(header) \in Nat
    BY <1>1, <1>6
  <2>2. pos = From + Len(header)
    BY <1>1, <1>3, <2>1
  <2> HIDE DEF n
  <2> QED BY <1>3, <1>5, <1>6, <2>1, <2>2 DEF k, HeaderSize
<1>7. CASE Len(header) = HeaderSize
  <2>1. ASSUME NEW j \in 1..HeaderSize PROVE header[j] = h[j]
    <3>1. j \in 1..Len(w) /\ j \in 1..Len(header)
      BY <1>5, <1>7 DEF HeaderSize
    <3> QED BY <1>1, <1>3, <1>4, <3>1 DEF h
  <2>2. h \in Seq(Byte) /\ Len(h) = HeaderSize /\ Unsigned(h) = Current.len
    BY <1>4 DEF h
  <2>3. header = h
    BY <1>1, <1>7, <2>1, <2>2, SameSeq
  <2>4. Current.len = n
    <3>1. Current.len <= MaxSize
      BY <1>1, <1>7, <2>2, <2>3
    <3>2. Current.len \in Int /\ MaxSize \in Int
      BY <1>4, SizeAssumption DEF Word
    <3> QED BY <1>2, <3>1, <3>2, FrameAssumption
  <2> HIDE DEF n
  <2>5. Len(body) < n /\ Len(body) \in Nat
    BY <1>1, <1>7, <2>2, <2>3, <2>4
  <2>6. pos = From + HeaderSize + Len(body)
    BY <1>1, <1>7
  <2> QED BY <1>3, <1>5, <2>5, <2>6 DEF k, HeaderSize
<1>8. Len(header) < HeaderSize \/ Len(header) = HeaderSize
  <2>1. Len(header) \in Nat /\ HeaderSize \in Nat
    BY <1>1 DEF HeaderSize
  <2>2. Len(header) <= HeaderSize
    BY <1>1
  <2> QED BY <2>1, <2>2
<1> QED BY <1>6, <1>7, <1>8

\* Nothing is taken along: in whatever pieces the stream arrives, what was taken of it
\* are the frames that were handled, whole, and a beginning of the next, of no more
\* than MaxSize bytes.
THEOREM BufferCorrect == Spec => []WithinFrame
<1>1. IInv => WithinFrame
  <2> SUFFICES ASSUME IInv, ~ ended
               PROVE  /\ pos = (IF handled = <<>> THEN 0 ELSE ends[Len(handled)])
                                 + Len(header) + Len(body)
                      /\ header # <<>> => pos < ends[Len(handled) + 1]
                      /\ Len(header) = HeaderSize => Unsigned(header) <= MaxSize
    BY DEF WithinFrame
  <2>1. /\ pos = From + Len(header) + Len(body)
        /\ Len(header) = HeaderSize => Unsigned(header) <= MaxSize
    BY DEF IInv, InStep, Buffered, From
  <2>2. /\ handled \in Seq(Message) /\ header \in Seq(Byte) /\ body \in Seq(Byte)
        /\ frames \in Seq(Frame) /\ Len(handled) <= Len(frames)
        /\ stream \in Seq(Byte) /\ pos \in 0..arrived /\ arrived \in 0..Len(stream)
    BY DEF IInv, ProtocolTypeOK, InOrder
  <2>3. From = IF handled = <<>> THEN 0 ELSE ends[Len(handled)]
    <3>1. handled = <<>> <=> Len(handled) = 0
      BY <2>2
    <3>2. Len(handled) \in Nat
      BY <2>2
    <3> QED BY <3>1, <3>2 DEF From, Start
  <2>4. ASSUME header # <<>> PROVE pos < ends[Len(handled) + 1]
    <3>1. Len(handled) # Len(frames)
      <4> SUFFICES ASSUME Len(handled) = Len(frames) PROVE FALSE
        OBVIOUS
      <4>1. From = Len(stream)
        BY DEF IInv, Laid, From
      <4>2. Len(header) \in Nat \ {0} /\ Len(body) \in Nat
        BY <2>2, <2>4
      <4> QED BY <2>1, <2>2, <4>1, <4>2
    <3>2. Len(handled) + 1 \in 1..Len(frames)
      BY <2>2, <3>1
    <3> QED BY <3>2, ShortOf
  <2> QED BY <2>1, <2>3, <2>4
<1> QED BY <1>1, Inductive, PTL
=============================================================================

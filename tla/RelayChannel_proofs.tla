------------------------ MODULE RelayChannel_proofs ------------------------
(***************************************************************************)
(* The reader of RelayProtocol implements the channel of module Channel,   *)
(* for any frames, any pieces in which they come and any end of the stream.*)
(***************************************************************************)
EXTENDS RelayProtocol_proofs, FiniteSetTheorems

-----------------------------------------------------------------------------
(***************************************************************************)
(* Counting the frames that count.                                         *)
(***************************************************************************)

\* A set of numbers that has all smaller ones with each is counted by its last.
LEMMA PrefixSet ==
    ASSUME NEW n \in Nat, NEW S \in SUBSET (1..n), \A i \in S : 1..i \subseteq S
    PROVE  /\ Cardinality(S) \in 0..n
           /\ S = 1..Cardinality(S)
<1> DEFINE c == Cardinality(S)
<1>1. IsFiniteSet(1..n) /\ Cardinality(1..n) = n
  BY FS_Interval
<1>2. IsFiniteSet(S) /\ c \in Nat /\ c <= n
  BY <1>1, FS_Subset, FS_CardinalityType
<1> HIDE DEF c
<1>3. ASSUME NEW i \in S PROVE i \in 1..c
  <2>1. i \in Nat /\ i >= 1
    OBVIOUS
  <2>2. 1..i \in SUBSET S
    OBVIOUS
  <2>3. Cardinality(1..i) = i
    BY <2>1, FS_Interval
  <2>4. Cardinality(1..i) <= c
    BY <1>2, <2>2, FS_Subset DEF c
  <2> QED BY <1>2, <2>1, <2>3, <2>4
<1>4. IsFiniteSet(1..c) /\ Cardinality(1..c) = c /\ S \in SUBSET (1..c)
  BY <1>2, <1>3, FS_Interval
<1>5. S = 1..c
  BY <1>4, FS_Subset DEF c
<1> QED BY <1>2, <1>5 DEF c

\* What makes the i-th frame one that is handled, if it arrives.
Readable(fs, i) == /\ \A j \in 1..i : MessageOf(fs[j]) # Malformed
                   /\ \A j \in 1..(i - 1) : MessageOf(fs[j]) # Disconnect

LegibleOf(fs) == Cardinality({i \in 1..Len(fs) : Readable(fs, i)})

LEMMA LegibleIs ==
    ASSUME NEW fs \in Seq(Frame)
    PROVE  /\ LegibleOf(fs) \in 0..Len(fs)
           /\ \A i \in 1..Len(fs) : i <= LegibleOf(fs) <=> Readable(fs, i)
<1> DEFINE S == {i \in 1..Len(fs) : Readable(fs, i)}
<1>1. Len(fs) \in Nat /\ S \in SUBSET (1..Len(fs))
  OBVIOUS
<1>2. \A i \in S : 1..i \subseteq S
  BY <1>1 DEF Readable
<1> HIDE DEF S
<1>3. Cardinality(S) \in 0..Len(fs) /\ S = 1..Cardinality(S)
  BY <1>1, <1>2, PrefixSet
<1>4. \A i \in 1..Len(fs) : i <= Cardinality(S) <=> i \in S
  BY <1>1, <1>3
<1> QED BY <1>3, <1>4 DEF S, LegibleOf

\* How many of the first n frames, which end at e, have arrived.
Landed(e, a, n) == Cardinality({i \in 1..n : e[i] <= a})

LEMMA LandedIs ==
    ASSUME NEW n \in Nat, NEW e, NEW a,
           \A i, j \in 1..n : i <= j /\ e[j] <= a => e[i] <= a
    PROVE  /\ Landed(e, a, n) \in 0..n
           /\ \A i \in 1..n : i <= Landed(e, a, n) <=> e[i] <= a
<1> DEFINE S == {i \in 1..n : e[i] <= a}
<1>1. S \in SUBSET (1..n)
  OBVIOUS
<1>2. \A i \in S : 1..i \subseteq S
  OBVIOUS
<1> HIDE DEF S
<1>3. Cardinality(S) \in 0..n /\ S = 1..Cardinality(S)
  BY <1>1, <1>2, PrefixSet
<1>4. \A i \in 1..n : i <= Cardinality(S) <=> i \in S
  BY <1>3
<1> QED BY <1>3, <1>4 DEF S, Landed

-----------------------------------------------------------------------------
(***************************************************************************)
(* The inductive invariant, and what it says of the mapped variables.      *)
(***************************************************************************)

\* The frames end one behind the other.
Ascending == \A i, j \in 1..Len(frames) : i <= j => ends[i] <= ends[j]

\* As long as the loop goes on, no DISCONNECT was handled.
GoesOn == ~ ended => \A i \in 1..Len(handled) : handled[i] # Disconnect

ChannelInv == IInv /\ Ascending /\ GoesOn

\* The mapped variables.
Sent == [i \in 1..Legible |-> MessageOf(frames[i])]
ArrivedCount == Cardinality({i \in 1..Legible : ends[i] <= arrived})
ChannelLink == IF ended THEN "closed" ELSE link

\* The counts are counts of the first frames.
MappedOK ==
    /\ Legible \in 0..Len(frames) /\ Len(frames) \in Nat
    /\ \A i \in 1..Len(frames) : i <= Legible <=> Readable(frames, i)
    /\ ArrivedCount \in 0..Legible
    /\ \A i \in 1..Legible : i <= ArrivedCount <=> ends[i] <= arrived
    /\ Sent \in Seq(Message) /\ Len(Sent) = Legible
    /\ \A i \in 1..Legible : Sent[i] = MessageOf(frames[i])

LEMMA Mapped == ChannelInv => MappedOK
<1> SUFFICES ASSUME ChannelInv PROVE MappedOK
  OBVIOUS
<1>1. /\ frames \in Seq(Frame) /\ ends \in Seq(Nat) /\ Len(ends) = Len(frames)
      /\ Len(frames) \in Nat /\ arrived \in Int
  BY DEF ChannelInv, IInv, ProtocolTypeOK, Laid
<1>2. Legible = LegibleOf(frames)
  BY DEF Legible, LegibleOf, Readable
<1>3. /\ Legible \in 0..Len(frames)
      /\ \A i \in 1..Len(frames) : i <= Legible <=> Readable(frames, i)
  BY <1>1, <1>2, LegibleIs
<1>4. Legible \in Nat /\ 1..Legible \subseteq 1..Len(frames)
  BY <1>1, <1>3
<1>5. ArrivedCount = Landed(ends, arrived, Legible)
  BY DEF ArrivedCount, Landed
<1>6. ASSUME NEW i \in 1..Legible, NEW j \in 1..Legible, i <= j, ends[j] <= arrived
      PROVE  ends[i] <= arrived
  <2>1. i \in 1..Len(frames) /\ j \in 1..Len(frames)
    BY <1>4
  <2>2. ends[i] \in Nat /\ ends[j] \in Nat
    BY <1>1, <2>1
  <2>3. ends[i] <= ends[j]
    BY <1>6, <2>1 DEF ChannelInv, Ascending
  <2> QED BY <1>1, <1>6, <2>2, <2>3
<1>7. ASSUME NEW i \in 1..Legible PROVE MessageOf(frames[i]) \in Message
  <2>1. i \in 1..Len(frames) /\ i <= Legible /\ i \in 1..i
    BY <1>4
  <2>2. MessageOf(frames[i]) # Malformed
    BY <1>3, <2>1 DEF Readable
  <2> QED BY <2>2, PackAssumption DEF MessageOf
<1>8. /\ Sent \in Seq(Message) /\ Len(Sent) = Legible
      /\ \A i \in 1..Legible : Sent[i] = MessageOf(frames[i])
  BY <1>4, <1>7 DEF Sent
<1> DEFINE n == Legible
<1>9. /\ Landed(ends, arrived, n) \in 0..n
      /\ \A i \in 1..n : i <= Landed(ends, arrived, n) <=> ends[i] <= arrived
  <2>1. n \in Nat /\ \A i, j \in 1..n : i <= j /\ ends[j] <= arrived => ends[i] <= arrived
    BY <1>4, <1>6
  <2> HIDE DEF n
  <2> QED BY <2>1, LandedIs
<1> QED BY <1>1, <1>3, <1>5, <1>8, <1>9 DEF MappedOK

\* The same of the next state.
LEMMA MappedNext == ChannelInv' => MappedOK'
  BY Mapped, PTL

\* Two sequences of which one has a message more.
LEMMA OneMore ==
    ASSUME NEW S, NEW s \in Seq(S), NEW t \in Seq(S), NEW m \in S,
           Len(t) = Len(s) + 1, \A i \in 1..Len(s) : t[i] = s[i], t[Len(s) + 1] = m
    PROVE  t = Append(s, m)
<1>1. Append(s, m) \in Seq(S) /\ Len(Append(s, m)) = Len(s) + 1 /\ Len(s) \in Nat
  OBVIOUS
<1>2. \A i \in 1..Len(t) : t[i] = Append(s, m)[i]
  OBVIOUS
<1> QED BY <1>1, <1>2, SameSeq

\* Where the reader stands: every frame that it handled counts, and the next one does
\* unless it is malformed.
LEMMA Standing ==
    ASSUME ChannelInv, ~ ended
    PROVE  /\ Len(handled) \in 0..ArrivedCount /\ Len(handled) <= Legible
           /\ Len(handled) + 1 \in 1..Len(frames) =>
                (Readable(frames, Len(handled) + 1) <=>
                   MessageOf(frames[Len(handled) + 1]) # Malformed)
<1> DEFINE k == Len(handled)
<1>1. /\ k \in Nat /\ k <= Len(frames) /\ handled \in Seq(Message)
      /\ \A i \in 1..k : handled[i] = MessageOf(frames[i]) /\ ends[i] <= arrived
  BY DEF ChannelInv, IInv, ProtocolTypeOK, InOrder
<1>2. ASSUME NEW i \in 1..k
      PROVE  MessageOf(frames[i]) # Malformed /\ MessageOf(frames[i]) # Disconnect
  BY <1>1, MessageAssumption DEF ChannelInv, GoesOn
<1>3. MappedOK
  BY Mapped
<1> HIDE DEF k
<1>4. k <= Legible /\ k <= ArrivedCount
  <2>1. CASE k = 0
    BY <1>3, <2>1 DEF MappedOK
  <2>2. CASE k # 0
    <3>1. k \in 1..Len(frames) /\ k \in 1..k
      BY <1>1, <1>3, <2>2 DEF MappedOK
    <3>2. \A j \in 1..(k - 1) : j \in 1..k
      BY <1>1
    <3>3. Readable(frames, k)
      BY <1>2, <3>2 DEF Readable
    <3>4. k <= Legible
      BY <1>3, <3>1, <3>3 DEF MappedOK
    <3>5. k \in 1..Legible
      BY <1>3, <3>1, <3>4 DEF MappedOK
    <3> QED BY <1>1, <1>3, <3>1, <3>4, <3>5 DEF MappedOK
  <2> QED BY <2>1, <2>2
<1>5. Readable(frames, k + 1) <=> MessageOf(frames[k + 1]) # Malformed
  <2>1. \A j \in 1..(k + 1) : j \in 1..k \/ j = k + 1
    BY <1>1
  <2>2. k + 1 \in 1..(k + 1) /\ 1..((k + 1) - 1) = 1..k
    BY <1>1
  <2> QED BY <1>2, <2>1, <2>2 DEF Readable
<1>6. k \in 0..ArrivedCount
  BY <1>1, <1>3, <1>4 DEF MappedOK
<1> QED BY <1>4, <1>5, <1>6 DEF k

\* All that arrived is handled when the next frame is malformed or has not come whole.
LEMMA NoMore ==
    ASSUME ChannelInv, ~ ended,
           Len(handled) + 1 \in 1..Len(frames) =>
             \/ MessageOf(frames[Len(handled) + 1]) = Malformed
             \/ ~ ends[Len(handled) + 1] <= arrived
    PROVE  Len(handled) = ArrivedCount
<1>1. MappedOK
  BY Mapped
<1>2. Len(handled) \in 0..ArrivedCount
  BY Standing
<1>3. ASSUME Len(handled) + 1 <= ArrivedCount PROVE FALSE
  <2>1. Len(handled) + 1 \in 1..Legible /\ Len(handled) + 1 \in 1..Len(frames)
    BY <1>1, <1>2, <1>3 DEF MappedOK
  <2>2. ends[Len(handled) + 1] <= arrived /\ Readable(frames, Len(handled) + 1)
    BY <1>1, <1>3, <2>1 DEF MappedOK
  <2> QED BY <2>1, <2>2, Standing
<1> QED BY <1>1, <1>2, <1>3 DEF MappedOK

-----------------------------------------------------------------------------
LEMMA InitChannel == Init => ChannelInv
<1> SUFFICES ASSUME Init PROVE ChannelInv
  OBVIOUS
<1>1. IInv
  BY InitIInv
<1>2. Ascending /\ GoesOn
  BY DEF Init, Ascending, GoesOn
<1> QED BY <1>1, <1>2 DEF ChannelInv

LEMMA NextChannel == ChannelInv /\ [Next]_vars => ChannelInv'
<1> SUFFICES ASSUME ChannelInv, [Next]_vars PROVE ChannelInv'
  OBVIOUS
<1>1. IInv /\ IInv'
  BY NextIInv DEF ChannelInv
<1>2. CASE UNCHANGED <<frames, ends, handled>> /\ (ended' = FALSE => ended = FALSE)
  <2>1. Ascending'
    BY <1>2 DEF ChannelInv, Ascending
  <2>2. GoesOn'
    BY <1>1, <1>2 DEF ChannelInv, GoesOn, IInv, ProtocolTypeOK
  <2> QED BY <1>1, <2>1, <2>2 DEF ChannelInv
<1>3. ASSUME NEW f \in Frame, WriteFrame(f) PROVE ChannelInv'
  <2>1. /\ frames \in Seq(Frame) /\ ends \in Seq(Nat) /\ Len(ends) = Len(frames)
        /\ frames' = Append(frames, f) /\ ends' = Append(ends, Len(stream'))
        /\ UNCHANGED <<handled, ended>>
    BY <1>1, <1>3 DEF IInv, ProtocolTypeOK, Laid, WriteFrame
  <2>2. \A i \in 1..Len(frames') : ends'[i] <= Len(stream')
    BY <1>1 DEF IInv, Laid
  <2> HIDE <1>1
  <2>3. ASSUME NEW i \in 1..Len(frames'), NEW j \in 1..Len(frames'), i <= j
        PROVE  ends'[i] <= ends'[j]
    <3>1. CASE j = Len(frames) + 1
      BY <2>1, <2>2, <3>1
    <3>2. CASE j # Len(frames) + 1
      <4>1. i \in 1..Len(frames) /\ j \in 1..Len(frames)
        BY <2>1, <2>3, <3>2
      <4>2. ends'[i] = ends[i] /\ ends'[j] = ends[j]
        BY <2>1, <4>1
      <4> QED BY <2>3, <4>1, <4>2 DEF ChannelInv, Ascending
    <3> QED BY <3>1, <3>2
  <2>4. Ascending'
    BY <2>3 DEF Ascending
  <2>5. GoesOn'
    BY <2>1 DEF ChannelInv, GoesOn
  <2> QED BY <1>1, <2>4, <2>5 DEF ChannelInv
<1>4. CASE Read
  <2>1. /\ UNCHANGED <<frames, ends>> /\ ~ ended
        /\ \/ ended' = TRUE /\ handled' = handled
           \/ UNCHANGED <<handled, ended>>
           \/ Return(Decode(HeaderRead \o BodyRead))
    BY <1>4 DEF Read, HeaderRead, BodyRead
  <2>2. CASE ended' = TRUE /\ handled' = handled
    BY <1>2, <2>1, <2>2
  <2>3. CASE UNCHANGED <<handled, ended>>
    BY <1>2, <2>1, <2>3
  <2>4. ASSUME NEW m, m = Decode(HeaderRead \o BodyRead), Return(m) PROVE ChannelInv'
    <3>1. m \in Message \cup {Malformed} /\ handled \in Seq(Message)
      BY <1>1, <2>4, DecodeType DEF IInv, ProtocolTypeOK
    <3> HIDE <1>1, <2>4
    <3>2. /\ handled' = IF m = Malformed THEN handled ELSE Append(handled, m)
          /\ ended' = (m \in {Malformed, Disconnect})
      BY <2>4 DEF Return
    <3>3. ASSUME ~ ended', NEW i \in 1..Len(handled') PROVE handled'[i] # Disconnect
      <4>1. m # Malformed /\ m # Disconnect /\ handled' = Append(handled, m)
        BY <3>2, <3>3
      <4>2. i \in 1..Len(handled) \/ i = Len(handled) + 1
        BY <3>1, <3>3, <4>1
      <4>3. \A j \in 1..Len(handled) : handled[j] # Disconnect
        BY <2>1 DEF ChannelInv, GoesOn
      <4> QED BY <3>1, <4>1, <4>2, <4>3
    <3>4. GoesOn'
      BY <3>3 DEF GoesOn
    <3>5. Ascending'
      BY <2>1 DEF ChannelInv, Ascending
    <3> QED BY <1>1, <3>4, <3>5 DEF ChannelInv
  <2> QED BY <2>1, <2>2, <2>3, <2>4
<1>5. CASE Arrive
  BY <1>2, <1>5 DEF Arrive
<1>6. CASE LinkEnds
  BY <1>2, <1>6 DEF LinkEnds
<1>7. CASE ReadFails
  BY <1>2, <1>7 DEF ReadFails
<1>8. CASE UNCHANGED vars
  BY <1>2, <1>8 DEF vars
<1> QED BY <1>3, <1>4, <1>5, <1>6, <1>7, <1>8 DEF Next, Terminated

-----------------------------------------------------------------------------
(***************************************************************************)
(* The steps.                                                              *)
(***************************************************************************)

AbstractVars == <<Sent, ArrivedCount, handled, ChannelLink>>

LEMMA InitMapped == Init => Abstract!Init
<1> SUFFICES ASSUME Init PROVE Abstract!Init
  OBVIOUS
<1>1. MappedOK
  BY InitChannel, Mapped
<1>2. Len(frames) = 0 /\ handled = <<>> /\ ChannelLink = "open"
  BY DEF Init, ChannelLink
<1>3. Legible = 0 /\ ArrivedCount = 0
  BY <1>1, <1>2 DEF MappedOK
<1>4. Sent = <<>>
  BY <1>1, <1>3 DEF MappedOK
<1> QED BY <1>2, <1>3, <1>4 DEF Abstract!Init, Sent, ArrivedCount, ChannelLink

\* A step that adds no frame, lets nothing arrive and ends nothing.
LEMMA CountsStay ==
    ASSUME UNCHANGED <<frames, ends, arrived>>
    PROVE  UNCHANGED <<Legible, Sent, ArrivedCount>>
  BY DEF Legible, Sent, ArrivedCount

LEMMA EndsMapped ==
    ASSUME LinkEnds PROVE Abstract!Fail
<1>1. UNCHANGED <<Sent, ArrivedCount, handled, ended>> /\ ~ ended
  BY CountsStay DEF LinkEnds
<1> QED BY <1>1 DEF LinkEnds, Abstract!Fail, Sent, ArrivedCount

\* The reader closes the channel.
LEMMA CloseMapped ==
    ASSUME UNCHANGED <<frames, ends, arrived, handled, link>>, ~ ended, ended',
           link \in {"open", "eof", "reset"},
           link = "reset" \/ Len(handled) = ArrivedCount
    PROVE  Abstract!Close
<1>1. UNCHANGED <<Sent, ArrivedCount>>
  BY CountsStay
<1> QED BY <1>1 DEF Abstract!Close, Sent, ArrivedCount

\* A frame written is a message sent, unless no one could handle it.
LEMMA WriteMapped ==
    ASSUME ChannelInv, ChannelInv', NEW f \in Frame, WriteFrame(f)
    PROVE  (\E m \in Message : Abstract!Send(m)) \/ UNCHANGED AbstractVars
<1> DEFINE n == Len(frames)
<1>1. /\ frames \in Seq(Frame) /\ ends \in Seq(Nat) /\ Len(ends) = n /\ n \in Nat
      /\ stream \in Seq(Byte) /\ arrived \in 0..Len(stream) /\ Len(stream) \in Nat
      /\ frames' = Append(frames, f) /\ ends' = Append(ends, Len(stream'))
      /\ stream' = stream \o Wire(f)
      /\ UNCHANGED <<arrived, handled, link, ended>> /\ link = "open" /\ ~ ended
  BY DEF ChannelInv, IInv, ProtocolTypeOK, Laid, WriteFrame
<1>2. /\ Len(frames') = n + 1 /\ frames'[n + 1] = f /\ ends'[n + 1] = Len(stream')
      /\ \A i \in 1..n : frames'[i] = frames[i] /\ ends'[i] = ends[i]
  BY <1>1
<1>3. arrived < Len(stream') /\ Len(stream') \in Nat
  <2>1. Wire(f) \in Seq(Byte) /\ Len(Wire(f)) >= HeaderSize
    BY WireBytes DEF HeaderSize
  <2> DEFINE w == Wire(f)
  <2>2. w \in Seq(Byte) /\ Len(w) > 0 /\ stream' = stream \o w
    BY <1>1, <2>1 DEF HeaderSize
  <2> HIDE DEF w
  <2> QED BY <1>1, <2>2
<1>4. MappedOK /\ MappedOK'
  BY Mapped, MappedNext
<1> HIDE DEF n
<1>5. \A i \in 1..n : Readable(frames', i) <=> Readable(frames, i)
  <2> SUFFICES ASSUME NEW i \in 1..n PROVE Readable(frames', i) <=> Readable(frames, i)
    OBVIOUS
  <2>1. \A j \in 1..i : j \in 1..n
    BY <1>1
  <2>2. \A j \in 1..(i - 1) : j \in 1..n
    BY <1>1
  <2>3. \A j \in 1..n : MessageOf(frames'[j]) = MessageOf(frames[j])
    BY <1>2
  <2> QED BY <2>1, <2>2, <2>3 DEF Readable
<1> DEFINE a == Legible
           b == Legible'
<1>6. /\ a \in 0..n /\ b \in 0..(n + 1)
      /\ \A i \in 1..n : i <= a <=> Readable(frames, i)
      /\ \A i \in 1..(n + 1) : i <= b <=> Readable(frames', i)
  BY <1>2, <1>4 DEF MappedOK, n
<1>7. /\ Sent \in Seq(Message) /\ Len(Sent) = a
      /\ Sent' \in Seq(Message) /\ Len(Sent') = b
      /\ \A i \in 1..a : Sent[i] = MessageOf(frames[i])
      /\ \A i \in 1..b : Sent'[i] = MessageOf(frames'[i])
  BY <1>4 DEF MappedOK
<1> DEFINE A == {i \in 1..a : ends[i] <= arrived}
           B == {i \in 1..b : ends'[i] <= arrived}
<1>8. ArrivedCount = Cardinality(A) /\ ArrivedCount' = Cardinality(B)
  BY <1>1 DEF ArrivedCount
<1> HIDE DEF a, b, A, B
<1>9. b = a \/ (a = n /\ b = n + 1)
  <2>0. \A i \in 1..n : i \in 1..(n + 1)
    BY <1>1
  <2>1. \A i \in 1..n : i <= a <=> i <= b
    BY <1>5, <1>6, <2>0
  <2>2. CASE n = 0
    BY <1>6, <2>2
  <2>3. CASE n # 0
    <3>1. n \in 1..n /\ a \in Nat /\ b \in Nat /\ n \in Nat
      BY <1>1, <1>6, <2>3
    <3>2. n <= a <=> n <= b
      BY <2>1, <3>1
    <3>3. a # 0 => a \in 1..n
      BY <1>6, <3>1
    <3>4. b # 0 /\ b <= n => b \in 1..n
      BY <1>6, <3>1
    <3>5. a <= b
      BY <2>1, <3>1, <3>3
    <3>6. b <= n => b <= a
      BY <2>1, <3>1, <3>4
    <3> QED BY <1>6, <3>1, <3>2, <3>5, <3>6
  <2> QED BY <2>2, <2>3
<1>10. A = B
  <2>1. \A i \in 1..a : i \in 1..n
    BY <1>1, <1>6
  <2>2. CASE b = a
    BY <1>2, <2>1, <2>2 DEF A, B
  <2>3. CASE a = n /\ b = n + 1
    <3>1. \A i \in 1..b : i \in 1..a \/ i = n + 1
      BY <1>1, <2>3
    <3>2. \A i \in 1..a : i \in 1..b
      BY <1>1, <2>3
    <3>3. ~ ends'[n + 1] <= arrived
      <4>1. arrived \in Int /\ Len(stream') \in Int
        BY <1>1, <1>3
      <4> QED BY <1>2, <1>3, <4>1
    <3> QED BY <1>2, <2>1, <3>1, <3>2, <3>3 DEF A, B
  <2> QED BY <1>9, <2>2, <2>3
<1>11. ArrivedCount' = ArrivedCount
  BY <1>8, <1>10
<1>12. UNCHANGED <<handled, ChannelLink>> /\ ChannelLink = "open"
  BY <1>1 DEF ChannelLink
<1>13. CASE b = a
  <2>1. \A i \in 1..a : Sent'[i] = Sent[i]
    BY <1>1, <1>2, <1>6, <1>7, <1>13
  <2>2. Sent' = Sent
    BY <1>7, <1>13, <2>1, SameSeq
  <2> QED BY <1>11, <1>12, <2>2 DEF AbstractVars
<1>14. CASE a = n /\ b = n + 1
  <2> DEFINE m == MessageOf(f)
             s == Sent
             t == Sent'
  <2>1. n + 1 \in 1..(n + 1) /\ n + 1 \in 1..b /\ n + 1 <= b
    BY <1>1, <1>14
  <2>2. t[n + 1] = m
    BY <1>2, <1>7, <2>1
  <2>3. m \in Message
    BY <1>7, <2>1, <2>2
  <2>4. \A i \in 1..n : t[i] = s[i]
    BY <1>1, <1>2, <1>7, <1>14
  <2>5. s \in Seq(Message) /\ t \in Seq(Message) /\ Len(s) = n /\ Len(t) = n + 1
    BY <1>7, <1>14
  <2> HIDE DEF m, s, t
  <2>6. t = Append(s, m)
    BY <2>2, <2>3, <2>4, <2>5, OneMore
  <2>7. Sent' = Append(Sent, m)
    BY <2>6 DEF s, t
  <2>8. Abstract!Send(m)
    BY <1>11, <1>12, <2>7 DEF Abstract!Send, Sent, ArrivedCount, ChannelLink
  <2> QED BY <2>3, <2>8
<1> QED BY <1>9, <1>13, <1>14

\* Bytes that arrive make some more frames whole, or none.
LEMMA ArriveMapped ==
    ASSUME ChannelInv, ChannelInv', Arrive
    PROVE  Abstract!Arrive \/ UNCHANGED AbstractVars
<1>1. /\ ends \in Seq(Nat) /\ Len(ends) = Len(frames)
      /\ stream \in Seq(Byte) /\ arrived \in 0..Len(stream)
      /\ arrived' \in (arrived + 1)..Len(stream)
      /\ UNCHANGED <<frames, ends, handled, link, ended>> /\ link = "open" /\ ~ ended
  BY DEF ChannelInv, IInv, ProtocolTypeOK, Laid, Arrive
<1>2. UNCHANGED <<Legible, Sent, handled, ChannelLink>> /\ ChannelLink = "open"
  BY <1>1 DEF Legible, Sent, ChannelLink
<1> DEFINE a == ArrivedCount
           b == ArrivedCount'
           n == Legible
<1>3. MappedOK /\ MappedOK'
  BY Mapped, MappedNext
<1>4. /\ n \in 0..Len(frames) /\ Len(frames) \in Nat
      /\ a \in 0..n /\ b \in 0..n /\ Len(Sent) = n
      /\ \A i \in 1..n : i <= a <=> ends[i] <= arrived
      /\ \A i \in 1..n : i <= b <=> ends[i] <= arrived'
  BY <1>1, <1>2, <1>3 DEF MappedOK
<1> HIDE DEF a, b, n
<1>5. a <= b
  <2>1. CASE a = 0
    BY <1>4, <2>1
  <2>2. CASE a # 0
    <3>1. a \in 1..n /\ a \in 1..Len(ends) /\ a <= a
      BY <1>1, <1>4, <2>2
    <3>2. ends[a] \in Nat /\ ends[a] <= arrived
      BY <1>1, <1>4, <3>1
    <3>3. Len(stream) \in Nat
      BY <1>1
    <3>4. ends[a] <= arrived'
      BY <1>1, <3>2, <3>3
    <3> QED BY <1>4, <3>1, <3>4
  <2> QED BY <2>1, <2>2
<1>6. CASE b = a
  BY <1>2, <1>6 DEF AbstractVars, a, b
<1>7. CASE b # a
  <2>1. b - a \in 1..(Len(Sent) - a) /\ b = a + (b - a)
    BY <1>4, <1>5, <1>7
  <2>2. \E d \in 1..(Len(Sent) - a) : b = a + d
    BY <2>1
  <2> QED BY <1>2, <2>2 DEF Abstract!Arrive, Sent, ArrivedCount, ChannelLink, a, b
<1> QED BY <1>6, <1>7

\* A frame that is whole is received; one that cannot be handled closes the channel; and
\* a part of one is no step of the channel.
LEMMA ReadMapped ==
    ASSUME ChannelInv, ChannelInv', Read
    PROVE  Abstract!Receive \/ Abstract!Close \/ UNCHANGED AbstractVars
<1> DEFINE k == Len(handled)
<1>1. /\ ~ ended /\ Chunk # <<>> /\ link # "reset"
      /\ pos' = pos + Len(Chunk)
      /\ UNCHANGED <<frames, stream, ends, arrived, link>>
      /\ \/ /\ TooLarge(HeaderRead)
            /\ ended' = TRUE
            /\ UNCHANGED handled
         \/ UNCHANGED <<handled, ended>>
         \/ /\ ~ TooLarge(HeaderRead)
            /\ ~ Incomplete(HeaderRead, BodyRead)
            /\ Return(Decode(HeaderRead \o BodyRead))
  BY DEF Read, HeaderRead, BodyRead
<1>2. /\ IInv /\ frames \in Seq(Frame) /\ handled \in Seq(Message) /\ k \in Nat
      /\ link \in {"open", "eof", "reset"}
      /\ arrived \in Nat /\ pos' <= arrived
  <2>1. IInv /\ IInv'
    BY DEF ChannelInv
  <2> QED BY <1>1, <2>1 DEF IInv, ProtocolTypeOK
<1>3. /\ k + 1 \in 1..Len(frames) /\ Current \in Frame /\ Current = frames[k + 1]
  BY <1>1, <1>2, CurrentIs DEF Current
<1>4. UNCHANGED <<Legible, Sent, ArrivedCount>>
  BY <1>1, CountsStay
<1>5. CASE TooLarge(HeaderRead) /\ ended' = TRUE /\ UNCHANGED handled
  <2>1. HeaderRead = Header(Current.len)
    BY <1>1, <1>2, <1>5, HeaderIs DEF TooLarge
  <2>2. Current.len \in Word /\ Unsigned(Header(Current.len)) = Current.len
    BY <1>3, WireBytes
  <2>3. Current.len > MaxSize
    BY <1>5, <2>1, <2>2 DEF TooLarge
  <2>4. ~ Current.len <= MaxSize
    BY <2>2, <2>3, SizeAssumption, BaseAssumption DEF Word
  <2>5. MessageOf(frames[k + 1]) = Malformed
    BY <1>3, <2>4 DEF MessageOf
  <2>6. k = ArrivedCount
    BY <1>1, <2>5, NoMore
  <2>7. Abstract!Close
    BY <1>1, <1>2, <1>5, <2>6, CloseMapped
  <2> QED BY <2>7
<1>6. CASE UNCHANGED <<handled, ended>>
  BY <1>1, <1>4, <1>6 DEF AbstractVars, ChannelLink
<1>7. CASE /\ ~ TooLarge(HeaderRead)
           /\ ~ Incomplete(HeaderRead, BodyRead)
           /\ Return(Decode(HeaderRead \o BodyRead))
  <2> DEFINE m == MessageOf(frames[k + 1])
  <2>1. Decode(HeaderRead \o BodyRead) = m /\ pos' = ends[k + 1]
    BY <1>1, <1>2, <1>3, <1>7, FrameIs
  <2>2. /\ handled' = IF m = Malformed THEN handled ELSE Append(handled, m)
        /\ ended' = (m \in {Malformed, Disconnect})
    BY <1>7, <2>1 DEF Return
  <2>3. CASE m = Malformed
    <3>1. k = ArrivedCount
      BY <1>1, <2>3, NoMore
    <3>2. ended' /\ handled' = handled
      BY <2>2, <2>3
    <3>3. Abstract!Close
      BY <1>1, <1>2, <3>1, <3>2, CloseMapped
    <3> QED BY <3>3
  <2>4. CASE m # Malformed
    <3>1. MappedOK
      BY Mapped
    <3>2. Readable(frames, k + 1) /\ k <= ArrivedCount
      BY <1>1, <1>2, <1>3, <2>4, Standing
    <3>3. k + 1 \in 1..Legible
      BY <1>2, <1>3, <3>1, <3>2 DEF MappedOK
    <3>4. k + 1 <= ArrivedCount
      BY <1>2, <2>1, <3>1, <3>3 DEF MappedOK
    <3>5. m \in Message
      BY <2>4, PackAssumption DEF MessageOf
    <3> DEFINE a == ArrivedCount
    <3>6. k < a /\ a \in Nat /\ Sent[k + 1] = m
      BY <1>2, <3>1, <3>3, <3>4 DEF MappedOK
    <3>7. m = Disconnect => a = k + 1
      <4> SUFFICES ASSUME m = Disconnect, a >= k + 2 PROVE FALSE
        BY <1>2, <3>6
      <4>1. k + 2 \in 1..Len(frames) /\ k + 2 <= Legible
        BY <1>2, <3>1, <3>6 DEF MappedOK
      <4>2. Readable(frames, k + 2)
        BY <3>1, <4>1 DEF MappedOK
      <4>3. k + 1 \in 1..((k + 2) - 1)
        BY <1>2
      <4> QED BY <4>2, <4>3 DEF Readable
    <3> HIDE DEF m, a
    <3>8. handled' = Append(handled, m) /\ Len(handled') = k + 1 /\ ended' = (m = Disconnect)
      BY <1>2, <2>2, <2>4, <3>5
    <3>9. ChannelLink = link /\ (ChannelLink' = link \/ (Len(handled') = a /\ ChannelLink' = "closed"))
      BY <1>1, <3>7, <3>8 DEF ChannelLink
    <3>10. /\ ChannelLink \in {"open", "eof"}
           /\ Len(handled) < ArrivedCount
           /\ handled' = Append(handled, Sent[Len(handled) + 1])
           /\ \/ ChannelLink' = ChannelLink
              \/ Len(handled') = ArrivedCount /\ ChannelLink' = "closed"
           /\ UNCHANGED <<Sent, ArrivedCount>>
      BY <1>1, <1>2, <1>4, <3>6, <3>8, <3>9 DEF a
    <3>11. Abstract!Receive
      BY <3>10 DEF Abstract!Receive, Sent, ArrivedCount, ChannelLink
    <3> QED BY <3>11
  <2> QED BY <2>3, <2>4
<1> QED BY <1>1, <1>5, <1>6, <1>7

\* The end of the stream, or its failure, closes the channel.
LEMMA FailsMapped ==
    ASSUME ChannelInv, ReadFails
    PROVE  Abstract!Close
<1>1. /\ ~ ended /\ ended'
      /\ link = "reset" \/ pos = arrived
      /\ UNCHANGED <<frames, ends, arrived, handled, link>>
  BY DEF ReadFails
<1>2. /\ IInv /\ link \in {"open", "eof", "reset"} /\ ends \in Seq(Nat)
      /\ arrived \in Nat /\ pos \in Nat /\ Len(ends) = Len(frames)
  <2>1. IInv
    BY DEF ChannelInv
  <2>2. /\ link \in {"open", "eof", "reset"} /\ ends \in Seq(Nat) /\ stream \in Seq(Byte)
        /\ arrived \in 0..Len(stream) /\ pos \in 0..arrived /\ Len(ends) = Len(frames)
    BY <2>1 DEF IInv, ProtocolTypeOK, Laid
  <2> QED BY <2>1, <2>2
<1>3. CASE link = "reset"
  BY <1>1, <1>2, <1>3, CloseMapped
<1>4. CASE pos = arrived
  <2>1. ASSUME Len(handled) + 1 \in 1..Len(frames),
               MessageOf(frames[Len(handled) + 1]) # Malformed
        PROVE  ~ ends[Len(handled) + 1] <= arrived
    <3>1. pos < ends[Len(handled) + 1]
      BY <1>1, <1>2, <2>1, ShortOf DEF Current
    <3>2. ends[Len(handled) + 1] \in Nat
      BY <1>2, <2>1
    <3> QED BY <1>2, <1>4, <3>1, <3>2
  <2>2. Len(handled) = ArrivedCount
    BY <1>1, <2>1, NoMore
  <2> QED BY <1>1, <1>2, <2>2, CloseMapped
<1> QED BY <1>1, <1>3, <1>4

LEMMA StepMapped == ChannelInv /\ ChannelInv' /\ [Next]_vars => [Abstract!Next]_AbstractVars
<1> SUFFICES ASSUME ChannelInv, ChannelInv', [Next]_vars
             PROVE  [Abstract!Next]_AbstractVars
  OBVIOUS
<1>1. ASSUME NEW f \in Frame, WriteFrame(f) PROVE [Abstract!Next]_AbstractVars
  BY <1>1, WriteMapped DEF Abstract!Next
<1>2. CASE Arrive
  BY <1>2, ArriveMapped DEF Abstract!Next
<1>3. CASE LinkEnds
  BY <1>3, EndsMapped DEF Abstract!Next
<1>4. CASE Read
  BY <1>4, ReadMapped DEF Abstract!Next
<1>5. CASE ReadFails
  BY <1>5, FailsMapped DEF Abstract!Next
<1>6. CASE UNCHANGED vars
  <2>1. UNCHANGED <<frames, ends, arrived, handled, link, ended>>
    BY <1>6 DEF vars
  <2> QED BY <2>1, CountsStay DEF AbstractVars, ChannelLink
<1> QED BY <1>1, <1>2, <1>3, <1>4, <1>5, <1>6 DEF Next, Terminated

\* The reader implements the channel, for any frames in any pieces: messages come out
\* in the order in which they were written, each once, and it stops short of one that
\* arrived only when the transport failed or a frame before it could not be handled.
THEOREM ChannelCorrect == Spec => ImplementsChannel
<1>1. Spec => []ChannelInv
  BY InitChannel, NextChannel, PTL DEF Spec
<1>2. ChannelInv /\ ChannelInv' /\ [Next]_vars => [Abstract!Next]_Abstract!vars
  BY StepMapped DEF AbstractVars, Abstract!vars, Sent, ArrivedCount, ChannelLink
<1> QED BY <1>1, <1>2, InitMapped, PTL DEF Spec, ImplementsChannel, Abstract!Spec
=============================================================================

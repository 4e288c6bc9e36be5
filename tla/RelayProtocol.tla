--------------------------- MODULE RelayProtocol ---------------------------
(***************************************************************************)
(* The wire protocol, src/relay_server/protocol.py: frames of a four-byte  *)
(* length and a MessagePack body, written to a stream whole and read back  *)
(* by Message.from_reader from whatever pieces arrive.                     *)
(*                                                                         *)
(* MessagePack is not modelled: Unpack gives the message of every body     *)
(* that is one (a map with a type and a payload, of known type or not),    *)
(* and Pack the body that encode makes of a message.                       *)
(***************************************************************************)
EXTENDS Integers, Sequences, FiniteSets

CONSTANTS
    Base,         \* how many values a byte has: 256, less for TLC
    Message,      \* the messages
    Disconnect,   \* the message that makes _handle_message raise
    Malformed,    \* what a body that is not a message unpacks to
    Pack,         \* Pack[m]: the body of message m
    Unpack,       \* Unpack[b]: the message of body b
    Frame,        \* the frames that may be written: a length and a body
    MaxSize,      \* _MAX_MESSAGE_SIZE
    MaxFrames     \* bound on the frames of a stream

ASSUME BaseAssumption == Base \in Nat \ {0, 1}

Byte == 0..(Base - 1)
Word == 0..(Base * Base * Base * Base - 1)
HeaderSize == 4

ASSUME MessageAssumption == Disconnect \in Message /\ Malformed \notin Message

ASSUME PackAssumption ==
    /\ \A b \in DOMAIN Unpack : Unpack[b] \in Message
    /\ \A m \in Message :
         /\ Pack[m] \in Seq(Byte)
         /\ Len(Pack[m]) \in Word
         /\ Pack[m] \in DOMAIN Unpack
         /\ Unpack[Pack[m]] = m

\* Only a frame that is too large for the reader may be cut off after its length.
ASSUME FrameAssumption ==
    \A f \in Frame : /\ f.len \in Word
                     /\ f.body \in Seq(Byte)
                     /\ f.len = Len(f.body) \/ f.len > MaxSize

ASSUME SizeAssumption == MaxSize \in Word /\ MaxFrames \in Nat

VARIABLES
    frames,    \* the frames written to the stream so far
    stream,    \* their bytes
    ends,      \* ends[i]: where the i-th frame ends in the stream
    arrived,   \* how many bytes of the stream the StreamReader was fed
    pos,       \* how many of them were read
    link,      \* the transport is "open", at its end ("eof"), or failed ("reset")
    header,    \* header_data
    body,      \* the bytes of body_buf that were read
    handled,   \* the messages that from_reader returned
    ended      \* _peer_loop has ended

vars == <<frames, stream, ends, arrived, pos, link, header, body, handled, ended>>

-----------------------------------------------------------------------------
(***************************************************************************)
(* The format.                                                             *)
(***************************************************************************)

\* struct.pack and struct.unpack of "!I".
Header(n) ==
    LET q == n \div Base
        r == q \div Base
    IN <<r \div Base, r % Base, q % Base, n % Base>>

Unsigned(h) == ((h[1] * Base + h[2]) * Base + h[3]) * Base + h[4]

\* data[from:to] of Python, with indices that count from 1.
Slice(data, from, to) == SubSeq(data, from, IF to <= Len(data) THEN to ELSE Len(data))

FrameOf(b) == [len |-> Len(b), body |-> b]

Wire(f) == Header(f.len) \o f.body

Encode(m) == Wire(FrameOf(Pack[m]))

\* decode, and the exception that unpackb, the type or the payload raises.
Decode(data) ==
    LET b == Slice(data, HeaderSize + 1, HeaderSize + Unsigned(data))
    IN IF b \in DOMAIN Unpack THEN Unpack[b] ELSE Malformed

-----------------------------------------------------------------------------
Init ==
    /\ frames = <<>>
    /\ stream = <<>>
    /\ ends = <<>>
    /\ arrived = 0
    /\ pos = 0
    /\ link = "open"
    /\ header = <<>>
    /\ body = <<>>
    /\ handled = <<>>
    /\ ended = FALSE

\* A frame is written, by one call of write: no other task's bytes come between.
WriteFrame(f) ==
    /\ ~ ended
    /\ link = "open"
    /\ Len(frames) < MaxFrames
    /\ frames' = Append(frames, f)
    /\ stream' = stream \o Wire(f)
    /\ ends' = Append(ends, Len(stream'))
    /\ UNCHANGED <<arrived, pos, link, header, body, handled, ended>>

\* Some bytes arrive.
Arrive ==
    /\ ~ ended
    /\ link = "open"
    /\ arrived' \in (arrived + 1)..Len(stream)
    /\ UNCHANGED <<frames, stream, ends, pos, link, header, body, handled, ended>>

\* The stream ends, wherever it is: either side closes the transport, or it fails.
LinkEnds ==
    /\ ~ ended
    /\ \/ link = "open" /\ link' = "eof"
       \/ link \in {"open", "eof"} /\ link' = "reset"
    /\ UNCHANGED <<frames, stream, ends, arrived, pos, header, body, handled, ended>>

-----------------------------------------------------------------------------
(***************************************************************************)
(* from_reader, called again and again by _peer_loop.                      *)
(***************************************************************************)

\* A plausible fault of Wanted: what was read of the body already is not subtracted.
WantedWhole ==
    IF Len(header) < HeaderSize THEN HeaderSize - Len(header) ELSE Unsigned(header)

\* How many bytes the next call of read asks for.
Wanted ==
    IF Len(header) < HeaderSize THEN HeaderSize - Len(header)
    ELSE Unsigned(header) - Len(body)

\* read returns as many of them as have arrived.
Chunk == Slice(SubSeq(stream, pos + 1, arrived), 1, Wanted)

\* The length is refused.
TooLarge(h) == Len(h) = HeaderSize /\ Unsigned(h) > MaxSize

\* A plausible fault of Incomplete: the body is taken to come in one piece.
IncompleteHeader(h, b) == Len(h) = HeaderSize => b = <<>> /\ Unsigned(h) # 0

\* A plausible fault of Incomplete: a frame that is whole waits for one byte more.
IncompleteWhole(h, b) == Len(h) = HeaderSize => Len(b) <= Unsigned(h)

\* One of the two loops goes on.
Incomplete(h, b) == Len(h) = HeaderSize => Len(b) < Unsigned(h)

\* A plausible fault of Return: what is not a message is handled like one.
ReturnAny(m) ==
    /\ handled' = Append(handled, m)
    /\ ended' = (m = Disconnect)
    /\ header' = <<>>
    /\ body' = <<>>

\* from_reader returns the message of a complete frame, or raises; _handle_message
\* raises when it is DISCONNECT.
Return(m) ==
    /\ handled' = IF m = Malformed THEN handled ELSE Append(handled, m)
    /\ ended' = (m \in {Malformed, Disconnect})
    /\ header' = <<>>
    /\ body' = <<>>

\* read returns a chunk of the header or of the body.
Read ==
    LET h == IF Len(header) < HeaderSize THEN header \o Chunk ELSE header
        b == IF Len(header) < HeaderSize THEN <<>> ELSE body \o Chunk
    IN /\ ~ ended
       /\ link # "reset"
       /\ Chunk # <<>>
       /\ pos' = pos + Len(Chunk)
       /\ \/ /\ TooLarge(h)
             /\ ended' = TRUE
             /\ UNCHANGED <<header, body, handled>>
          \/ /\ ~ TooLarge(h)
             /\ Incomplete(h, b)
             /\ header' = h
             /\ body' = b
             /\ UNCHANGED <<handled, ended>>
          \/ /\ ~ TooLarge(h)
             /\ ~ Incomplete(h, b)
             /\ Return(Decode(h \o b))
       /\ UNCHANGED <<frames, stream, ends, arrived, link>>

\* A plausible fault of ReadFails: the end of the stream overtakes its last bytes.
FailsAtOnce ==
    /\ ~ ended
    /\ link # "open"
    /\ ended' = TRUE
    /\ UNCHANGED <<frames, stream, ends, arrived, pos, link, header, body, handled>>

\* read returns nothing, at the end of the stream, or raises, once it has failed.
ReadFails ==
    /\ ~ ended
    /\ link = "reset" \/ (link = "eof" /\ pos = arrived)
    /\ ended' = TRUE
    /\ UNCHANGED <<frames, stream, ends, arrived, pos, link, header, body, handled>>

Terminated == ended /\ UNCHANGED vars

Next ==
    \/ \E f \in Frame : WriteFrame(f)
    \/ Arrive
    \/ LinkEnds
    \/ Read
    \/ ReadFails
    \/ Terminated

Spec == Init /\ [][Next]_vars

\* The task of the handler runs when its read can return.
FairSpec == Spec /\ WF_vars(Read) /\ WF_vars(ReadFails)

-----------------------------------------------------------------------------
\* Every variable has its type.
ProtocolTypeOK ==
    /\ frames \in Seq(Frame)
    /\ stream \in Seq(Byte)
    /\ ends \in Seq(Nat)
    /\ arrived \in 0..Len(stream)
    /\ pos \in 0..arrived
    /\ link \in {"open", "eof", "reset"}
    /\ header \in Seq(Byte)
    /\ body \in Seq(Byte)
    /\ handled \in Seq(Message)
    /\ ended \in BOOLEAN

\* The reader stays in the frame it reads: all that it took from the stream are the
\* frames it handled, whole, and the beginning of the next one, which it holds in its
\* two buffers, so that no byte of a later frame is ever taken along; and it makes
\* room for no more than MaxSize bytes.
WithinFrame ==
    ~ ended =>
      /\ pos = (IF handled = <<>> THEN 0 ELSE ends[Len(handled)]) + Len(header) + Len(body)
      /\ header # <<>> => pos < ends[Len(handled) + 1]
      /\ Len(header) = HeaderSize => Unsigned(header) <= MaxSize

\* The message of a frame, if it is small enough and well-formed.
MessageOf(f) ==
    IF f.len <= MaxSize /\ f.body \in DOMAIN Unpack THEN Unpack[f.body] ELSE Malformed

\* What is handled is what was written: the i-th message is that of the i-th frame,
\* which arrived whole, in whatever pieces and across whatever neighbours.
InOrder ==
    /\ Len(handled) <= Len(frames)
    /\ \A i \in 1..Len(handled) :
         /\ handled[i] = MessageOf(frames[i])
         /\ ends[i] <= arrived

\* The frames up to the first that ends the loop: a malformed one, which does not
\* count, or a DISCONNECT, which does.
Legible ==
    Cardinality({i \in 1..Len(frames) :
      /\ \A j \in 1..i : MessageOf(frames[j]) # Malformed
      /\ \A j \in 1..(i - 1) : MessageOf(frames[j]) # Disconnect})

\* The reader against the channel of module Channel.
Abstract == INSTANCE Channel WITH
    sent     <- [i \in 1..Legible |-> MessageOf(frames[i])],
    arrived  <- Cardinality({i \in 1..Legible : ends[i] <= arrived}),
    received <- handled,
    link     <- IF ended THEN "closed" ELSE link

\* It implements the channel: it ends only when every complete frame that arrived was
\* handled, or the transport failed, or the next frame is one that no one could handle.
ImplementsChannel == Abstract!Spec

\* It does not leave what arrived in the buffer: as long as the transport does not
\* fail every complete frame is handled in the end, and no connection that is over
\* keeps its reader.
DeliversArrived == Abstract!Fairness
=============================================================================

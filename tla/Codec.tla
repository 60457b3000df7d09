------------------------------- MODULE Codec -------------------------------
(***************************************************************************)
(* The frame codec of src/common/network/message_handler.cpp over one TCP  *)
(* byte stream.  A writer encodes messages with SerializeMessage and       *)
(* appends the bytes to the stream; the stream may also carry bytes that   *)
(* no encoder produced (Noise); the reader's receive thread hands the      *)
(* bytes to MessageHandler::ProcessReceivedData in chunks of any size.     *)
(*                                                                         *)
(* Bytes are real values 0..255 and the 20-byte header is encoded          *)
(* big-endian exactly as htonl does, so that the magic search, the length  *)
(* check and the checksum operate on the same bytes the code sees.         *)
(***************************************************************************)
EXTENDS Integers, Sequences, SequencesExt

CONSTANTS
    Types,            \* message type codes the writer uses
    Payloads,         \* payloads (byte sequences) the writer may send
    MaxMessages,      \* bound on the number of messages written
    MaxMessageSize,   \* MessageHandler::MAX_MESSAGE_SIZE (scaled down)
    HostLittleEndian, \* byte order of the host the reader runs on
    Garbage,          \* byte strings the stream may carry between frames
    MaxNoise,         \* bound on the number of Noise steps
    ChunkSizes        \* sizes recv() may return (besides "all pending")

ASSUME MaxMessages \in Nat /\ MaxNoise \in Nat /\ MaxMessageSize \in Nat
ASSUME HostLittleEndian \in BOOLEAN

Byte == 0..255
HeaderSize == 20                   \* sizeof(MessageHeader): five uint32_t
MESSAGE_MAGIC == 1431519817        \* 0x55534249, "USBI"

Message == [type : Types, seq : 1..MaxMessages, payload : Payloads]

VARIABLES
    nextSequence,  \* MessageHandler::next_sequence_
    wire,          \* bytes written and not yet returned by recv()
    buffer,        \* MessageHandler::receive_buffer_
    delivered,     \* messages passed to message_callback_, in order
    sent,          \* history: messages written, in order
    noiseCount,    \* number of Noise steps taken
    lastNoiseAt,   \* history: Len(sent) when the last noise was written
    units          \* history: every write, [bytes, msg], in stream order

vars == <<nextSequence, wire, buffer, delivered, sent, noiseCount, lastNoiseAt, units>>

(* htonl followed by memcpy: the four bytes of a uint32_t on the wire. *)
BE32(n) == << (n \div 16777216) % 256, (n \div 65536) % 256,
              (n \div 256) % 256, n % 256 >>

(* ntohl of four bytes read from the buffer.  Only applied to fields the *)
(* code's control flow has already bounded (TLC integers are 32-bit).    *)
FromBE32(b) == ((b[1] * 256 + b[2]) * 256 + b[3]) * 256 + b[4]

(* MessageHandler::CalculateChecksum: the sum of the payload bytes.  The  *)
(* uint32_t sum cannot wrap: 255 * MAX_MESSAGE_SIZE < 2^32.               *)
CalculateChecksum(p) == FoldLeft(LAMBDA acc, x : acc + x, 0, p)

(* MessageHandler::SerializeMessage: header fields in network order, the   *)
(* checksum computed over the payload, then the payload.                   *)
SerializeMessage(m) ==
    BE32(MESSAGE_MAGIC) \o BE32(m.type) \o BE32(Len(m.payload))
        \o BE32(m.seq) \o BE32(CalculateChecksum(m.payload)) \o m.payload

(* The memcpy of the first 20 bytes.  Fields stay in network order and  *)
(* the ntohl of each is applied where the code reads it; comparing two     *)
(* fields in network order is the same as comparing their values.          *)
ParseHeader(buf) ==
    [magic    |-> SubSeq(buf, 1, 4),
     type     |-> SubSeq(buf, 5, 8),
     length   |-> SubSeq(buf, 9, 12),
     sequence |-> SubSeq(buf, 13, 16),
     checksum |-> SubSeq(buf, 17, 20)]

(* ntohl(header.length); used once Oversized(h) is known to be FALSE. *)
PayloadLength(h) == FromBE32(h.length)

(* Mutant: the checksum compared only for empty payloads. *)
ValidateMessageEmptyOnly(h, payload) ==
    PayloadLength(h) = 0 => h.checksum = BE32(0)

(* MessageHandler::ValidateMessage. *)
ValidateMessage(h, payload) ==
    IF PayloadLength(h) = 0 THEN h.checksum = BE32(0)
                            ELSE BE32(CalculateChecksum(payload)) = h.checksum

(* The pattern std::search looks for: the bytes of MESSAGE_MAGIC as they  *)
(* lie in host memory, which is the wire order only on a big-endian host. *)
MagicSearchPattern ==
    IF HostLittleEndian THEN Reverse(BE32(MESSAGE_MAGIC)) ELSE BE32(MESSAGE_MAGIC)

(* std::search(begin() + 1, end(), pattern): the first position after the *)
(* first byte where the pattern starts, or 0 when there is none.          *)
ResyncPoint(buf) ==
    LET hits == {i \in 2..(Len(buf) - 3) :
                    SubSeq(buf, i, i + 3) = MagicSearchPattern}
    IN  IF hits = {} THEN 0 ELSE Min(hits)

(* The magic-mismatch branch: erase up to the match, or clear the buffer. *)
Resync(buf) ==
    IF ResyncPoint(buf) = 0 THEN <<>> ELSE SubSeq(buf, ResyncPoint(buf), Len(buf))

(* header.length > MAX_MESSAGE_SIZE.  A nonzero top byte means at least   *)
(* 2^24, beyond any MAX_MESSAGE_SIZE the model uses.                       *)
Oversized(h) == h.length[1] > 0 \/ PayloadLength(h) > MaxMessageSize

(* erase(begin(), begin() + sizeof(MessageHeader)) *)
AfterHeader(buf) == SubSeq(buf, HeaderSize + 1, Len(buf))

(* Mutant: the frame erased one byte short. *)
AfterFrameShort(buf, h) == SubSeq(buf, HeaderSize + PayloadLength(h), Len(buf))

(* erase(begin(), begin() + total_size) *)
AfterFrame(buf, h) == SubSeq(buf, HeaderSize + PayloadLength(h) + 1, Len(buf))

(* Mutant: the payload copied from one byte too early. *)
ProcessCompleteMessageOffByOne(buf, h) ==
    [type    |-> FromBE32(h.type),
     seq     |-> FromBE32(h.sequence),
     payload |-> SubSeq(buf, HeaderSize, HeaderSize + PayloadLength(h) - 1)]

(* MessageHandler::ProcessCompleteMessage: the message handed to the      *)
(* callback, rebuilt from the header and the payload bytes.               *)
ProcessCompleteMessage(buf, h) ==
    [type    |-> FromBE32(h.type),
     seq     |-> FromBE32(h.sequence),
     payload |-> SubSeq(buf, HeaderSize + 1, HeaderSize + PayloadLength(h))]

(* One iteration of the while loop of ProcessReceivedData.  "more" is     *)
(* FALSE where the loop exits (its condition fails, or "wait for more     *)
(* data"); "out" is what the iteration passes to the callback.            *)
Step(buf) ==
    LET h == ParseHeader(buf) IN
    CASE Len(buf) < HeaderSize ->
            [buffer |-> buf, out |-> <<>>, more |-> FALSE]
      [] h.magic # BE32(MESSAGE_MAGIC) ->
            [buffer |-> Resync(buf), out |-> <<>>, more |-> TRUE]
      [] Oversized(h) ->
            [buffer |-> AfterHeader(buf), out |-> <<>>, more |-> TRUE]
      [] Len(buf) < HeaderSize + PayloadLength(h) ->
            [buffer |-> buf, out |-> <<>>, more |-> FALSE]
      [] OTHER ->
            [buffer |-> AfterFrame(buf, h),
             out    |-> IF ValidateMessage(h, SubSeq(buf, HeaderSize + 1,
                                                     HeaderSize + PayloadLength(h)))
                        THEN << ProcessCompleteMessage(buf, h) >> ELSE <<>>,
             more   |-> TRUE]

(* The while loop of ProcessReceivedData, run to its exit.  Every         *)
(* iteration that continues removes at least one byte, so it terminates.  *)
RECURSIVE Drain(_, _)
Drain(buf, out) ==
    LET s == Step(buf) IN
    IF s.more THEN Drain(s.buffer, out \o s.out)
              ELSE [buffer |-> s.buffer, out |-> out \o s.out]

-----------------------------------------------------------------------------

Init ==
    /\ nextSequence = 1
    /\ wire = <<>>
    /\ buffer = <<>>
    /\ delivered = <<>>
    /\ sent = <<>>
    /\ noiseCount = 0
    /\ lastNoiseAt = 0
    /\ units = <<>>

(* A NetworkMessage is built (its sequence from GetNextSequence), then     *)
(* serialised and written whole to the socket by TcpSocket::Send.          *)
SendMessage(t, p) ==
    /\ Len(sent) < MaxMessages
    /\ LET m == [type |-> t, seq |-> nextSequence, payload |-> p] IN
       /\ nextSequence' = nextSequence + 1
       /\ wire' = wire \o SerializeMessage(m)
       /\ sent' = Append(sent, m)
       /\ units' = Append(units, [bytes |-> SerializeMessage(m), msg |-> <<m>>])
    /\ UNCHANGED <<buffer, delivered, noiseCount, lastNoiseAt>>

(* Bytes on the stream that no SerializeMessage call produced. *)
Noise(g) ==
    /\ noiseCount < MaxNoise
    /\ wire' = wire \o g
    /\ noiseCount' = noiseCount + 1
    /\ lastNoiseAt' = Len(sent)
    /\ units' = Append(units, [bytes |-> g, msg |-> <<>>])
    /\ UNCHANGED <<nextSequence, buffer, delivered, sent>>

(* TcpSocket::ReceiveThread: recv() returns the first k pending bytes and  *)
(* data_callback_ runs ProcessReceivedData on them: append, then drain.    *)
ProcessReceivedData(k) ==
    LET r == Drain(buffer \o SubSeq(wire, 1, k), <<>>) IN
    /\ wire' = SubSeq(wire, k + 1, Len(wire))
    /\ buffer' = r.buffer
    /\ delivered' = delivered \o r.out
    /\ UNCHANGED <<nextSequence, sent, noiseCount, lastNoiseAt, units>>

RecvSizes == (ChunkSizes \cap 1..Len(wire)) \cup (IF wire = <<>> THEN {} ELSE {Len(wire)})

Receive == \E k \in RecvSizes : ProcessReceivedData(k)

Next ==
    \/ \E t \in Types, p \in Payloads : SendMessage(t, p)
    \/ \E g \in Garbage : Noise(g)
    \/ Receive

(* The receive thread loops on recv() for as long as the socket is open,  *)
(* so pending bytes are eventually read.                                  *)
Spec == Init /\ [][Next]_vars /\ WF_vars(Receive)

-----------------------------------------------------------------------------

(* Type invariant: every state variable holds what the code can hold, and *)
(* every message passed to the callback is a message the writer can build. *)
TypeOK ==
    /\ nextSequence \in 1..(MaxMessages + 1)
    /\ wire \in Seq(Byte) /\ buffer \in Seq(Byte)
    /\ delivered \in Seq(Message) /\ sent \in Seq(Message)
    /\ noiseCount \in 0..MaxNoise /\ lastNoiseAt \in 0..MaxMessages
    /\ units \in Seq([bytes : Seq(Byte), msg : Seq(Message)])

(* ProcessReceivedData implements MessageChannel.  While the stream       *)
(* carries only encoded frames, what reaches message_callback_ is always a *)
(* prefix of what was written and everything written is eventually        *)
(* delivered.  Whatever foreign bytes the stream carries, the callback     *)
(* only ever receives messages that were written, each at most once and   *)
(* in the order they were written: the magic check, the length check and  *)
(* ValidateMessage keep every other byte string out.                       *)
Channel == INSTANCE MessageChannel WITH Messages <- Message,
                                        posted <- sent, received <- delivered,
                                        corrupted <- noiseCount > 0
ChannelRefinement == Channel!Spec

(* A foreign byte string the decoder reads as exactly one unit: a header *)
(* with the magic that is either oversized and alone, or followed by      *)
(* precisely the payload its length field announces.                      *)
SelfDelimiting(g) ==
    LET h == ParseHeader(g) IN
    /\ Len(g) >= HeaderSize /\ h.magic = BE32(MESSAGE_MAGIC)
    /\ IF Oversized(h) THEN Len(g) = HeaderSize
                       ELSE Len(g) = HeaderSize + PayloadLength(h)

(* The bytes of the writes from the j-th on, and the messages of those    *)
(* before it.                                                              *)
PendingBytes(j) == FlattenSeq([i \in 1..(Len(units) - j + 1) |-> units[j + i - 1].bytes])
ConsumedMessages(j) == FlattenSeq([i \in 1..(j - 1) |-> units[i].msg])

(* ProcessReceivedData stays aligned with the writer: as long as every    *)
(* foreign string is one the loop takes as a whole unit (a skipped         *)
(* oversized header, a frame dropped by ValidateMessage), the erases of    *)
(* the loop consume whole writes and nothing else.  The unread bytes,      *)
(* buffer then wire, are exactly the writes from some j on; the buffer     *)
(* holds less than all of the j-th, so no complete frame or skippable      *)
(* header is left waiting for the next recv(); and the callback has been  *)
(* given exactly the messages of the writes before j, in order.           *)
StreamAligned ==
    (\A i \in 1..Len(units) : units[i].msg = <<>> => SelfDelimiting(units[i].bytes))
    => \E j \in 1..(Len(units) + 1) :
          /\ buffer \o wire = PendingBytes(j)
          /\ Len(buffer) < IF j <= Len(units) THEN Len(units[j].bytes) ELSE 1
          /\ delivered = ConsumedMessages(j)

(* Resync, as the protocol states it: when garbage without the magic       *)
(* precedes valid frames, those frames are delivered.  Once every byte     *)
(* has been read, each message written after the last garbage has reached  *)
(* the callback.                                                           *)
ResyncAfterNoise ==
    wire = <<>> =>
        \A i \in (lastNoiseAt + 1)..Len(sent) : sent[i] \in Range(delivered)

=============================================================================

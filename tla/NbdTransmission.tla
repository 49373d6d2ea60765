-------------------------- MODULE NbdTransmission ---------------------------
(***************************************************************************)
(* One connection of NbdServer.cpp in transmission mode: TcpRecvHandler    *)
(* hands each chunk to Connection::TransmissionHandler, which takes        *)
(* requests from it, carries out writes and queues reads, and then has     *)
(* ReadRequestQueue::HandleRequests answer the reads.                      *)
(*                                                                         *)
(* One action per case of the switch, per turn of a loop of HandleRequests *)
(* and per call of send.  All handlers run in one thread: the device can   *)
(* be written by other connections only while this one waits for recv.     *)
(*                                                                         *)
(* Operators whose name ends in Fault are deliberately wrong versions of   *)
(* the definition that follows them; nothing uses them.                    *)
(***************************************************************************)
EXTENDS Integers, Sequences

CONSTANTS
  Base,                    \* a char is one of 0 .. Base - 1 (256)
  NBD_REQUEST_MAGIC,       \* the four bytes a request starts with
  NBD_REPLY_MAGIC,         \* the four bytes a reply starts with
  SHARED_BUFFER_SIZE,      \* the length of the buffer all handlers share
  DEFAULT_INITIAL_LENGTH,  \* the least that EnsureCapacity allocates
  ReadRequestSize,         \* sizeof(ReadRequest)
  Sessions,                \* how a connection may start: what its client sends,
                           \* the heap's length after the handshake, the
                           \* device, and where other connections write to it
  NetworkFails             \* TRUE if recv and send may fail

Byte == 0 .. (Base - 1)

ASSUME ConstantsOK ==
  /\ Base \in Nat \ {0, 1}
  /\ NBD_REQUEST_MAGIC \in [1 .. 4 -> Byte] /\ NBD_REPLY_MAGIC \in [1 .. 4 -> Byte]
  /\ SHARED_BUFFER_SIZE \in Nat /\ SHARED_BUFFER_SIZE > 16
  /\ DEFAULT_INITIAL_LENGTH \in Nat \ {0} /\ ReadRequestSize \in Nat \ {0}
  /\ \A s \in Sessions :
       /\ s.stream \in Seq(Byte) /\ s.heapLength \in Nat
       /\ \A a \in DOMAIN s.disk : a \in Nat /\ s.disk[a] \in Byte
       /\ s.shared \subseteq DOMAIN s.disk
  /\ NetworkFails \in BOOLEAN

VARIABLES
  stream,        \* what the client sends, all of it
  shared,        \* where other connections write
  arrived,       \* how much of it recv has returned
  sharedBuffer,  \* the bytes written to the shared buffer, from its start
  buffer, size,  \* the part of the chunk that is left: where and how long
  handler,       \* currentHandler, or "closed"
  state,
  request,       \* dataUnion.request
  heapLength,    \* heapBuffer.length
  requests,      \* the ReadRequests at heapBuffer.ptr
  count,         \* ReadRequestQueue::count
  index,         \* i of HandleRequests
  disk,          \* the device's memory
  sent,          \* what send has taken
  pc,
  \* history: where in the stream the current request starts, how much of what
  \* was sent is whole replies, whether recv or send failed
  start, whole, lost

input   == <<stream, shared, arrived>>
chunk   == <<sharedBuffer, buffer, size>>
parser  == <<state, request>>
queue   == <<heapLength, requests, count, index>>
history == <<start, whole, lost>>
vars    == <<input, chunk, handler, parser, queue, disk, sent, pc, history>>

-----------------------------------------------------------------------------
(* Bytes and numbers. *)

\* What a byte counts for that i bytes follow.
Power[i \in 0 .. 8] == IF i = 0 THEN 1 ELSE Power[i - 1] * Base

Number(bytes) ==
  LET value[i \in 0 .. Len(bytes)] ==
        IF i = 0 THEN 0 ELSE value[i - 1] * Base + bytes[i]
  IN  value[Len(bytes)]

\* for each byte: value <<= 8, value |= byte
ShiftIn(value, bytes, width) ==
  (value * Power[Len(bytes)] + Number(bytes)) % Power[width]

AppendUint64(value) == [i \in 1 .. 8 |-> (value \div Power[8 - i]) % Base]

\* A reply to handle without error, up to its data.
ReplyHeader(handle) == NBD_REPLY_MAGIC \o <<0, 0, 0, 0>> \o AppendUint64(handle)

\* bytes stored to the start of the buffer.
Overlay(bytes) == bytes \o SubSeq(sharedBuffer, Len(bytes) + 1, Len(sharedBuffer))

Least(m, n) == IF m < n THEN m ELSE n

\* MemoryBlockDevice::Read and Write.  Neither looks at the range; what a write
\* outside the device does to other memory is left out.
Read(length, diskOffset) == [i \in 1 .. length |-> disk[diskOffset + i - 1]]
Write(bytes, diskOffset) ==
  [a \in DOMAIN disk |-> IF a - diskOffset \in 0 .. (Len(bytes) - 1)
                         THEN bytes[a - diskOffset + 1] ELSE disk[a]]

-----------------------------------------------------------------------------
(* TcpRecvHandler. *)

taken == arrived - size

Recv ==
  /\ handler = "transmission" /\ pc = "recv"
  /\ \E n \in 1 .. SHARED_BUFFER_SIZE :
       /\ arrived + n =< Len(stream)
       /\ arrived' = arrived + n
       /\ sharedBuffer' = SubSeq(stream, arrived + 1, arrived + n)
       /\ size' = n
  /\ buffer' = 0
  /\ pc' = "parse"
  /\ UNCHANGED <<stream, shared, handler, parser, queue, disk, sent, history>>

\* The connection is closed and deleted.
Close ==
  /\ handler' = "closed"
  /\ pc' = "recv"
  /\ UNCHANGED <<input, chunk, parser, queue, disk, start, whole>>

\* recv returns 0 or an error.
RecvFails ==
  /\ handler = "transmission" /\ pc = "recv" /\ NetworkFails
  /\ Close
  /\ lost' = TRUE
  /\ UNCHANGED sent

\* send takes only part of the bytes, or none.
SendFails(bytes) ==
  /\ NetworkFails
  /\ \E n \in 0 .. (Len(bytes) - 1) : sent' = sent \o SubSeq(bytes, 1, n)
  /\ Close
  /\ lost' = TRUE

-----------------------------------------------------------------------------
(* TransmissionHandler: the header of a request, field by field. *)

\* How much of the field that ends at `end' the chunk holds.
ConsumeSize(end) == Least(end - state, size)

Chunk(n) == SubSeq(sharedBuffer, buffer + 1, buffer + n)

Consume(n) ==
  /\ buffer' = buffer + n
  /\ size' = size - n
  /\ UNCHANGED sharedBuffer

\* After a field's bytes: on to the next, or out of the handler for more.
Continue(end, case) ==
  LET n == ConsumeSize(end) IN
  /\ Consume(n)
  /\ state' = state + n
  /\ pc' = IF state' < end THEN "serve" ELSE case

MagicMatches ==
  LET n == ConsumeSize(4) IN Chunk(n) = SubSeq(NBD_REQUEST_MAGIC, state + 1, state + n)

GetMagic ==
  /\ pc = "parse" /\ state < 4 /\ MagicMatches
  /\ Continue(4, "parse")
  /\ UNCHANGED <<input, handler, request, queue, disk, sent, history>>

RefuseMagic ==
  /\ pc = "parse" /\ state < 4 /\ ~MagicMatches
  /\ Close
  /\ UNCHANGED <<sent, lost>>

\* Each field starts from 0, set when the one before it is complete.
GetField(name, from, end) ==
  LET n     == ConsumeSize(end)
      value == IF state = from THEN 0 ELSE request[name]
  IN
  /\ pc = "parse" /\ state \in from .. (end - 1)
  /\ request' = [request EXCEPT ![name] = ShiftIn(value, Chunk(n), end - from)]
  /\ Continue(end, IF end = 28 THEN "command" ELSE "parse")
  /\ UNCHANGED <<input, handler, queue, disk, sent, history>>

GetCommand == GetField("commandFlagsAndType", 4, 8)
GetHandle  == GetField("handle", 8, 16)
GetOffset  == GetField("offset", 16, 24)
GetLength  == GetField("length", 24, 28)

-----------------------------------------------------------------------------
(* TransmissionHandler: the commands. *)

\* commandFlagsAndType & 0xFFFF
command == request.commandFlagsAndType % Power[2]
NBD_CMD_READ  == 0
NBD_CMD_WRITE == 1

\* The buffer is full when it holds the requests queued so far.
CapacityFault == count * ReadRequestSize

\* What Add asks of EnsureCapacity: the queue and one more.
Capacity == count * ReadRequestSize + ReadRequestSize

\* A move to a new buffer keeps nothing.
PreserveFault == 0

\* preserveLength: the queue.
Preserve == count * ReadRequestSize

\* What a new buffer holds where nothing was copied to it.
Garbage == [handle |-> 0, offset |-> 0, length |-> 0, headersSent |-> 0]

\* EnsureCapacity(Capacity, Preserve): heapLength', and what the buffer may
\* hold afterwards, as it grows in place or moves.
GrownLength ==
  CASE Capacity =< heapLength -> heapLength
    [] Capacity > heapLength /\ heapLength = 0 ->
         IF Capacity < DEFAULT_INITIAL_LENGTH THEN DEFAULT_INITIAL_LENGTH ELSE Capacity
    [] OTHER -> IF Capacity > 2 * heapLength THEN Capacity ELSE 2 * heapLength

Moved == [i \in DOMAIN requests |->
            IF i * ReadRequestSize =< Preserve THEN requests[i] ELSE Garbage]

Grown == IF Capacity =< heapLength THEN {requests} ELSE {requests, Moved}

\* case NBD_CMD_READ: ReadRequestQueue::Add.
QueueRead ==
  /\ pc = "command" /\ command = NBD_CMD_READ
  /\ heapLength' = GrownLength
  /\ \E kept \in Grown :
       requests' = Append(kept, [handle      |-> request.handle,
                                 offset      |-> request.offset,
                                 length      |-> request.length,
                                 headersSent |-> 0])
  /\ count' = count + 1
  /\ state' = 0
  /\ pc' = "parse"
  /\ start' = taken
  /\ UNCHANGED <<input, chunk, handler, request, index, disk, sent, whole, lost>>

\* case NBD_CMD_WRITE
BeginWrite ==
  /\ pc = "command" /\ command = NBD_CMD_WRITE
  /\ state' = 28
  /\ pc' = "parse"
  /\ UNCHANGED <<input, chunk, handler, request, queue, disk, sent, history>>

\* The other commands, known or not: none is implemented.
RefuseCommand ==
  /\ pc = "command" /\ command \notin {NBD_CMD_READ, NBD_CMD_WRITE}
  /\ Close
  /\ UNCHANGED <<sent, lost>>

\* The offset stays: every piece is written over the one before it.
OffsetAfterFault(n) == request.offset

OffsetAfter(n) == request.offset + n

\* Takes the rest of the chunk, whatever it is.
WriteSizeFault == size

WriteSize == Least(request.length, size)

\* case 28: what the chunk has of the data goes to the device.
WriteData ==
  LET n == WriteSize IN
  /\ pc = "parse" /\ state = 28
  /\ disk' = Write(Chunk(n), request.offset)
  /\ Consume(n)
  /\ request' = [request EXCEPT !.length = @ - n, !.offset = OffsetAfter(n)]
  /\ pc' = IF request'.length > 0 THEN "serve" ELSE "reply"
  /\ UNCHANGED <<input, handler, state, queue, sent, history>>

\* The reply is built in the buffer the chunk is in.
ResponseBufferFault(reply) == Overlay(reply)

\* sharedBuffer once the reply is built: sharedResponseBuffer is another.
ResponseBuffer(reply) == sharedBuffer

\* The handler returns, done with a write.
AfterReplyFault == "serve"

\* break: to the next request of the chunk.
AfterReply == "parse"

ReplyToWrite ==
  LET reply == ReplyHeader(request.handle) IN
  /\ pc = "reply"
  /\ sharedBuffer' = ResponseBuffer(reply)
  /\ sent' = sent \o reply
  /\ whole' = Len(sent')
  /\ state' = 0
  /\ pc' = AfterReply
  /\ start' = taken
  /\ UNCHANGED <<input, buffer, size, handler, request, queue, disk, lost>>

WriteReplyFails == pc = "reply" /\ SendFails(ReplyHeader(request.handle))

-----------------------------------------------------------------------------
(* HandleRequests. *)

\* Leaves no room for the header.
FirstSizeFault == SHARED_BUFFER_SIZE

\* The most data that goes with a header.
FirstSize == SHARED_BUFFER_SIZE - 16

current == requests[index + 1]

\* The next block of the current reply, and how much of it is data.
Block ==
  IF current.headersSent < 16
  THEN LET n == Least(current.length, FirstSize)
       IN  [data |-> n, bytes |-> ReplyHeader(current.handle) \o Read(n, current.offset)]
  ELSE LET n == Least(current.length, SHARED_BUFFER_SIZE)
       IN  [data |-> n, bytes |-> Read(n, current.offset)]

BlockIsDue ==
  /\ pc = "serve" /\ index < count
  /\ current.headersSent < 16 \/ current.length > 0

\* The next block is read where this one was.
NextOffsetFault == current.offset

\* Counts the header as data.
NextOffsetHeaderFault == current.offset + Len(Block.bytes)

NextOffset == current.offset + Block.data

SendBlock ==
  /\ BlockIsDue
  /\ sharedBuffer' = Overlay(Block.bytes)
  /\ sent' = sent \o Block.bytes
  /\ requests' = [requests EXCEPT ![index + 1] =
                    [current EXCEPT !.headersSent = 16,
                                    !.offset = NextOffset, !.length = @ - Block.data]]
  /\ IF current.length = Block.data
     THEN index' = index + 1 /\ whole' = Len(sent')
     ELSE UNCHANGED <<index, whole>>
  /\ UNCHANGED <<input, buffer, size, handler, parser, heapLength, count,
                 disk, pc, start, lost>>

SendBlockFails == BlockIsDue /\ SendFails(Block.bytes)

\* The rest of the chunk was taken by the parser.  What is beyond count is
\* never read again: the model drops it.
EndOfQueue ==
  /\ pc = "serve" /\ index = count
  /\ count' = 0 /\ index' = 0 /\ requests' = <<>>
  /\ sharedBuffer' = <<>> /\ buffer' = 0
  /\ pc' = "recv"
  /\ UNCHANGED <<input, size, handler, parser, heapLength, disk, sent, history>>

-----------------------------------------------------------------------------
\* The handlers of other connections: requests of theirs write to the device.
OtherWrites ==
  /\ pc = "recv" /\ handler = "transmission"
  /\ \E a \in shared, b \in Byte : b # disk[a] /\ disk' = [disk EXCEPT ![a] = b]
  /\ UNCHANGED <<input, chunk, handler, parser, queue, sent, pc, history>>

\* As OptionHandler leaves the connection: in transmission mode, nothing queued.
Init ==
  /\ \E s \in Sessions : /\ stream = s.stream /\ shared = s.shared
                         /\ heapLength = s.heapLength /\ disk = s.disk
  /\ arrived = 0 /\ sharedBuffer = <<>> /\ buffer = 0 /\ size = 0
  /\ handler = "transmission" /\ state = 0
  /\ request = [commandFlagsAndType |-> 0, handle |-> 0, offset |-> 0, length |-> 0]
  /\ requests = <<>> /\ count = 0 /\ index = 0
  /\ sent = <<>> /\ pc = "recv"
  /\ start = 0 /\ whole = 0 /\ lost = FALSE

HandlerStep ==
  \/ GetMagic \/ RefuseMagic \/ GetCommand \/ GetHandle \/ GetOffset \/ GetLength
  \/ QueueRead \/ BeginWrite \/ RefuseCommand \/ WriteData \/ ReplyToWrite
  \/ SendBlock \/ EndOfQueue

\* The client has nothing more to send, or has no connection.
Done ==
  /\ pc = "recv" /\ (handler = "closed" \/ arrived = Len(stream))
  /\ UNCHANGED vars

Next ==
  \/ Recv \/ RecvFails \/ HandlerStep \/ WriteReplyFails \/ SendBlockFails
  \/ OtherWrites \/ Done

Spec == Init /\ [][Next]_vars

\* The client's data arrives, and the one thread goes on with its handler:
\* send blocks at most for a while, for clients that read their replies.
FairSpec == Spec /\ WF_vars(Recv) /\ WF_vars(HandlerStep)

-----------------------------------------------------------------------------
(* Properties. *)

\* Types; a write takes what is its own of a chunk, so that its length never
\* passes 0, and state stays within the header however it is cut into chunks.
TypeOK ==
  /\ arrived \in 0 .. Len(stream) /\ size \in Nat /\ buffer \in Nat
  /\ sharedBuffer \in Seq(Byte) /\ sent \in Seq(Byte)
  /\ handler \in {"transmission", "closed"}
  /\ state \in 0 .. 28
  /\ request \in [commandFlagsAndType : 0 .. (Power[4] - 1), handle : 0 .. (Power[8] - 1),
                  offset : Nat, length : 0 .. (Power[4] - 1)]
  /\ heapLength \in Nat /\ count \in Nat /\ index \in 0 .. count
  /\ requests \in Seq([handle : 0 .. (Power[8] - 1), offset : Nat,
                       length : 0 .. (Power[4] - 1), headersSent : {0, 16}])
  /\ Len(requests) = count
  /\ pc \in {"recv", "parse", "command", "reply", "serve"}
  /\ start \in 0 .. arrived /\ whole \in 0 .. Len(sent) /\ lost \in BOOLEAN

\* The queue never runs over the end of the heap buffer, whatever the length
\* the handshake left it with (Add's EnsureCapacity).
HeapHoldsQueue == count * ReadRequestSize =< heapLength

\* What is still to be read for a queued request is on the device, if what the
\* client asked for is: no block runs over the end of the memory, which
\* MemoryBlockDevice::Read does not check (HandleRequests).
ReadsInDevice ==
  \A i \in 1 .. Len(requests) :
    \A k \in 0 .. (requests[i].length - 1) : requests[i].offset + k \in DOMAIN disk

\* Chunk and replies stay within the shared buffer (the two block sizes of
\* HandleRequests), and the parser within the chunk.
BufferInBounds ==
  /\ Len(sharedBuffer) =< SHARED_BUFFER_SIZE
  /\ pc \in {"parse", "command", "reply"} => buffer + size = Len(sharedBuffer)

\* When the handler returns to wait for the client, nothing it received is
\* left over: no read waits in the queue for a chunk that may never come
\* ("TODO: this may not always be the case").
NothingWaits ==
  (pc = "recv" /\ handler = "transmission") => (size = 0 /\ count = 0 /\ whole = Len(sent))

\* What the client is promised.  A reply counts when it is whole, a request
\* when it is taken; a read in the queue is as its client asked for it.
Asked(i) ==
  LET gone == IF requests[i].headersSent = 16 THEN Len(sent) - whole - 16 ELSE 0
  IN  [handle |-> requests[i].handle, offset |-> requests[i].offset - gone,
       length |-> requests[i].length + gone]

Service == INSTANCE BlockService WITH
  phase   <- IF handler = "transmission" THEN "serving" ELSE "closed",
  next    <- start,
  written <- IF state = 28 /\ pc # "command" THEN taken - start - 28 ELSE 0,
  pending <- IF handler = "transmission"
             THEN [i \in 1 .. (Len(requests) - index) |-> Asked(index + i)] ELSE <<>>,
  sent    <- SubSeq(sent, 1, whole)

\* The connection implements BlockService: each request is taken from the
\* stream as sent however it is cut into chunks, each reply is the one its
\* request asks for, and a read's data is the device's at one moment however
\* many blocks it is sent in (TransmissionHandler and HandleRequests).
ServiceImplemented == Service!Spec
=============================================================================

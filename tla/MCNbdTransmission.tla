------------------------- MODULE MCNbdTransmission --------------------------
(* Streams of requests and devices for the runs of NbdTransmission. *)
EXTENDS NbdTransmission, SequencesExt

RequestMagic == <<2, 1, 1, 3>>
ReplyMagic   == <<3, 2, 0, 1>>

Digits(n, width) == [i \in 1 .. width |-> (n \div Base^(width - i)) % Base]

Request(cmd, handle, offset, length) ==
  RequestMagic \o Digits(cmd, 4) \o Digits(handle, 8) \o Digits(offset, 8) \o Digits(length, 4)

ReadReq(handle, offset, length) == Request(NBD_CMD_READ, handle, offset, length)
WriteReq(handle, offset, data) ==
  Request(NBD_CMD_WRITE, handle, offset, Len(data)) \o data

\* A device of n bytes, no two neighbours alike.
Device(n) == [a \in 0 .. (n - 1) |-> (a * a + a) % Base]

Session(s, n, length, others) ==
  [stream |-> s, disk |-> Device(n), heapLength |-> length, shared |-> others]

Truncated(s, n) == SubSeq(s, 1, Len(s) - n)

\* Requests that end where the stream ends: reads before, after and across
\* writes, a read of nothing.
GoodStreams ==
  { ReadReq(5, 0, 4) \o ReadReq(6, 1, 2) \o ReadReq(77, 3, 1),
    ReadReq(5, 0, 2) \o WriteReq(9, 1, <<3, 3, 1>>) \o ReadReq(7, 0, 0) }

\* A request that stays incomplete, and refused and broken ones: flags beside
\* a command, a command that is not implemented, another magic.
BadStreams ==
  { WriteReq(300, 0, <<1, 2>>) \o ReadReq(7, 0, 4) \o Truncated(WriteReq(8, 2, <<0, 1>>), 1),
    ReadReq(5, 0, 2) \o Request(3, 1, 0, 0),
    ReadReq(5, 2, 2) \o Request(2 * Base^2 + NBD_CMD_READ, 4, 1, 1) \o <<2, 1, 3>> }

\* Reads as long as a header's block and one more, and of three blocks.
BlockStreams ==
  { ReadReq(5, 1, SHARED_BUFFER_SIZE - 16), ReadReq(6, 0, SHARED_BUFFER_SIZE - 15),
    ReadReq(3, 1, 2 * SHARED_BUFFER_SIZE - 15) }

\* A write that comes in pieces between reads, while others write as well.
SharedStream == ReadReq(1, 0, 2) \o WriteReq(2, 0, <<1, 2>>) \o ReadReq(3, 0, 2)

AllSessions ==
  {Session(s, 4, 1, {}) : s \in GoodStreams \cup BadStreams}
    \cup {Session(s, 2 * SHARED_BUFFER_SIZE, 4, {}) : s \in BlockStreams}
    \cup {Session(SharedStream, 2, 0, {1})}

\* A client that sends whole requests has every one of them answered, unless
\* the connection fails: the reads of a chunk are not kept for the next
\* (HandleRequests after every call of the handler).
AllAnswered ==
  stream \in GoodStreams =>
    <>[](lost \/ (start = Len(stream) /\ count = 0 /\ whole = Len(sent)))
=============================================================================

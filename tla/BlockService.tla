---------------------------- MODULE BlockService ----------------------------
(***************************************************************************)
(* What a connection in transmission mode does for its client, given all   *)
(* the bytes the client sends: requests are taken in order; a write is put *)
(* on the device piece by piece and acknowledged when it is there whole; a *)
(* read is answered some time after it was taken, in order among the       *)
(* reads, with what the device holds at one moment.  Chunks, buffers, the  *)
(* queue's memory and the blocks a reply is sent in play no part in it.    *)
(***************************************************************************)
EXTENDS Integers, Sequences

CONSTANTS
  Base,               \* a byte is one of 0 .. Base - 1
  NBD_REQUEST_MAGIC,  \* the four bytes a request starts with
  NBD_REPLY_MAGIC     \* the four bytes a reply starts with

VARIABLES
  stream,   \* what the client sends
  phase,    \* "serving" or "closed"
  next,     \* bytes of the stream before the request being taken
  written,  \* bytes of this request's data that are on the device
  pending,  \* the reads that were taken and not answered
  disk,     \* the device
  sent,     \* what the client is sent, in whole replies
  lost      \* the connection failed

vars == <<stream, phase, next, written, pending, disk, sent, lost>>

\* What a byte counts for that i bytes follow.
Power[i \in 0 .. 8] == IF i = 0 THEN 1 ELSE Power[i - 1] * Base

Received(n) == Len(stream) >= next + n

\* The n bytes after the first `from' of the request, as a number.
Field(from, n) ==
  LET value[i \in 0 .. n] ==
        IF i = 0 THEN 0 ELSE value[i - 1] * Base + stream[next + from + i]
  IN  value[n]

Command == Field(6, 2)
Request == [handle |-> Field(8, 8), offset |-> Field(16, 8), length |-> Field(24, 4)]

RequestReceived ==
  Received(28) /\ SubSeq(stream, next + 1, next + 4) = NBD_REQUEST_MAGIC

Reply(handle, data) ==
  NBD_REPLY_MAGIC \o <<0, 0, 0, 0>>
    \o [i \in 1 .. 8 |-> (handle \div Power[8 - i]) % Base] \o data

TakeRead ==
  /\ RequestReceived /\ Command = 0
  /\ pending' = Append(pending, Request)
  /\ next' = next + 28
  /\ UNCHANGED <<stream, phase, written, disk, sent, lost>>

WritePiece ==
  /\ RequestReceived /\ Command = 1
  /\ written' \in (written + 1) .. Request.length /\ Received(28 + written')
  /\ disk' = [a \in DOMAIN disk |->
                IF a - Request.offset \in written .. (written' - 1)
                THEN stream[next + 28 + (a - Request.offset) + 1] ELSE disk[a]]
  /\ UNCHANGED <<stream, phase, next, pending, sent, lost>>

Acknowledge ==
  /\ RequestReceived /\ Command = 1 /\ written = Request.length
  /\ sent' = sent \o Reply(Request.handle, <<>>)
  /\ next' = next + 28 + written
  /\ written' = 0
  /\ UNCHANGED <<stream, phase, pending, disk, lost>>

Answer ==
  /\ pending # <<>>
  /\ LET r == Head(pending)
     IN  sent' = sent \o Reply(r.handle, [i \in 1 .. r.length |-> disk[r.offset + i - 1]])
  /\ pending' = Tail(pending)
  /\ UNCHANGED <<stream, phase, next, written, disk, lost>>

\* Other connections write to the device.
Others ==
  /\ disk' # disk /\ DOMAIN disk' = DOMAIN disk
  /\ UNCHANGED <<stream, phase, next, written, pending, sent, lost>>

\* A request that is none, or one that is not implemented.
Wrong ==
  \/ \E i \in 1 .. 4 : Received(i) /\ stream[next + i] # NBD_REQUEST_MAGIC[i]
  \/ RequestReceived /\ Command \notin {0, 1}

\* The reads that were not answered never are.
Close ==
  /\ phase' = "closed" /\ pending' = <<>> /\ written' \in {0, written}
  /\ UNCHANGED <<stream, next, disk, sent>>

Refuse == Wrong /\ Close /\ UNCHANGED lost

Fail == Close /\ lost' = TRUE

Init == /\ phase = "serving" /\ next = 0 /\ written = 0
        /\ pending = <<>> /\ sent = <<>> /\ lost = FALSE

Next ==
  \/ /\ phase = "serving"
     /\ TakeRead \/ WritePiece \/ Acknowledge \/ Answer \/ Refuse \/ Fail
  \/ Others

Spec == Init /\ [][Next]_vars
=============================================================================

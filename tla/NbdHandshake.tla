---------------------------- MODULE NbdHandshake ----------------------------
(***************************************************************************)
(* One connection of NbdServer.cpp until it enters transmission mode:      *)
(* TcpRecvHandler hands each chunk that recv returns to                    *)
(* Connection::HandshakeHandler, which resumes at `state' and runs through *)
(* the cases of its switch until the chunk is used up.                     *)
(*                                                                         *)
(* One action per case; pc says which case is next, "recv" that the        *)
(* handler has returned.  The shared buffer is not a variable: the chunk   *)
(* is stream[taken + 1 .. arrived], size and buffer are its length and     *)
(* start.  A UINT is the sequence of its four bytes, so that shifting a    *)
(* byte in is appending it and keeping the last four.                      *)
(*                                                                         *)
(* Operators whose name ends in Fault are deliberately wrong versions of   *)
(* the definition that follows them; nothing uses them.                    *)
(***************************************************************************)
EXTENDS Integers, Sequences

CONSTANTS
  Base,                    \* a char is one of 0 .. Base - 1 (256)
  IHAVEOPT,                \* the eight bytes of the option magic
  Exports,                 \* the names in exportedDevices
  None,                    \* no export
  SHARED_BUFFER_SIZE,      \* the most that one recv returns
  DEFAULT_INITIAL_LENGTH,  \* the least that EnsureCapacity allocates
  HeapLimit,               \* the most that HeapAlloc can allocate
  Streams,                 \* what a client may send
  NetworkFails             \* TRUE if recv and send may fail

Byte  == 0 .. (Base - 1)
Width == Base * Base * Base * Base      \* a UINT counts modulo this
UINT  == 0 .. (Width - 1)

ASSUME ConstantsOK ==
  /\ Base \in Nat \ {0, 1}
  /\ IHAVEOPT \in [1 .. 8 -> Byte]
  /\ Exports \subseteq Seq(Byte) /\ None \notin Exports
  /\ SHARED_BUFFER_SIZE \in Nat \ {0} /\ SHARED_BUFFER_SIZE + 20 < Width
  /\ DEFAULT_INITIAL_LENGTH \in Nat \ {0}
  /\ HeapLimit \in UINT /\ DEFAULT_INITIAL_LENGTH =< HeapLimit
  /\ Streams \subseteq Seq(Byte)
  /\ NetworkFails \in BOOLEAN

VARIABLES
  stream,        \* what the client sends, all of it
  taken,         \* how much of it the handler has consumed
  arrived,       \* how much of it recv has returned
  handler,       \* currentHandler, or how the connection ended
  state,
  word,          \* dataUnion: clientFlags, aliased by optionID
  lengthWord,    \* dataUnion.handshake.optionLength
  heapLength,    \* heapBuffer.length
  heapData,      \* the bytes of this option written to heapBuffer.ptr
  optionString,  \* where optionStringPtr points to
  export,        \* the device whose size was sent in the reply
  lost,          \* history: recv or send failed
  pc

input  == <<stream, taken, arrived>>
fields == <<state, word, lengthWord>>
heap   == <<heapLength, heapData>>
vars   == <<input, handler, fields, heap, optionString, export, lost, pc>>

ZeroWord == <<0, 0, 0, 0>>

Number(w) ==
  w[1] * Base * Base * Base + w[2] * Base * Base + w[3] * Base + w[4]

optionID     == Number(word)
optionLength == Number(lengthWord)
NBD_OPT_EXPORT_NAME == 1

-----------------------------------------------------------------------------
(* Chunks. *)

size == arrived - taken

\* Takes what the field still needs, received or not.
ConsumeSizeFault(end) == end - state

\* How much of the field that ends at `end' the chunk holds.
ConsumeSize(end) == IF end - state > size THEN size ELSE end - state

\* The next n bytes of the chunk.
Chunk(n) == SubSeq(stream, taken + 1, taken + n)

\* for each byte: word <<= 8, word |= byte
ShiftIn(w, bytes) == SubSeq(w \o bytes, Len(bytes) + 1, Len(bytes) + 4)

Consume(n) ==
  /\ taken' = taken + n
  /\ UNCHANGED <<stream, arrived>>

\* Goes back to recv when the field is complete, too.
ContinueFault(end, case) ==
  LET n == ConsumeSize(end) IN
  /\ Consume(n)
  /\ state' = state + n
  /\ pc' = IF state' =< end THEN "recv" ELSE case

\* After a field's bytes: on to the next case, or back to recv for more.
Continue(end, case) ==
  LET n == ConsumeSize(end) IN
  /\ Consume(n)
  /\ state' = state + n
  /\ pc' = IF state' < end THEN "recv" ELSE case

\* The connection, or the negotiation, is over.  Its fields are not used any
\* more: a connection that closes is deleted, transmission starts from 0.
Ends(how) ==
  /\ handler' = how
  /\ pc' = "recv"
  /\ UNCHANGED <<input, fields, heap, optionString>>

\* The switch.
CaseOf(s) == IF s < 4 THEN "flags" ELSE IF s < 12 THEN "magic"
             ELSE IF s < 16 THEN "id" ELSE IF s < 20 THEN "length" ELSE "data"

-----------------------------------------------------------------------------
(* HeapBuffer::EnsureCapacity. *)

\* Doubles, whatever was asked for.
GrownFault(capacity) ==
  IF heapLength = 0 THEN DEFAULT_INITIAL_LENGTH ELSE (2 * heapLength) % Width

\* The length to allocate when capacity > length.
Grown(capacity) ==
  LET double == (2 * heapLength) % Width
  IN  IF heapLength = 0
      THEN IF capacity < DEFAULT_INITIAL_LENGTH THEN DEFAULT_INITIAL_LENGTH
           ELSE capacity
      ELSE IF capacity > double THEN capacity ELSE double

EnsureCapacity(capacity) ==
  IF capacity > heapLength THEN Grown(capacity) ELSE heapLength

-----------------------------------------------------------------------------
(* TcpRecvHandler. *)

\* recv returns n bytes; the handler resumes where it was.
Recv ==
  /\ handler = "handshake" /\ pc = "recv"
  /\ \E n \in 1 .. SHARED_BUFFER_SIZE :
       arrived + n =< Len(stream) /\ arrived' = arrived + n
  /\ optionString' = "NULL"
  /\ pc' = CaseOf(state)
  /\ UNCHANGED <<stream, taken, handler, fields, heap, export, lost>>

\* recv returns 0 or an error.
RecvFails ==
  /\ handler = "handshake" /\ pc = "recv" /\ NetworkFails
  /\ Ends("closed")
  /\ lost' = TRUE
  /\ UNCHANGED export

-----------------------------------------------------------------------------
(* HandshakeHandler, case by case. *)

Flags == ShiftIn(word, Chunk(ConsumeSize(4)))
BadFlags == state + ConsumeSize(4) = 4 /\ Flags # ZeroWord

GetClientFlags ==
  /\ pc = "flags" /\ ~BadFlags
  /\ Continue(4, "magic")
  /\ word' = Flags
  /\ UNCHANGED <<handler, lengthWord, heap, optionString, export, lost>>

RefuseFlags ==
  /\ pc = "flags" /\ BadFlags
  /\ Ends("closed")
  /\ UNCHANGED <<export, lost>>

\* Compares each chunk with the start of the magic.
MagicMatchesFault ==
  LET n == ConsumeSize(12) IN Chunk(n) = SubSeq(IHAVEOPT, 1, n)

\* The chunk goes on with the magic where the last one left off.
MagicMatches ==
  LET n == ConsumeSize(12)
  IN  Chunk(n) = SubSeq(IHAVEOPT, state - 3, state - 4 + n)

GetMagic ==
  /\ pc = "magic" /\ MagicMatches
  /\ Continue(12, "id")
  /\ word' = IF pc' = "id" THEN ZeroWord ELSE word
  /\ UNCHANGED <<handler, lengthWord, heap, optionString, export, lost>>

RefuseMagic ==
  /\ pc = "magic" /\ ~MagicMatches
  /\ Ends("closed")
  /\ UNCHANGED <<export, lost>>

GetOptionID ==
  /\ pc = "id"
  /\ Continue(16, "length")
  /\ word' = ShiftIn(word, Chunk(ConsumeSize(16)))
  /\ lengthWord' = IF pc' = "length" THEN ZeroWord ELSE lengthWord
  /\ UNCHANGED <<handler, heap, optionString, export, lost>>

GetOptionLength ==
  /\ pc = "length"
  /\ Continue(20, "storage")
  /\ lengthWord' = ShiftIn(lengthWord, Chunk(ConsumeSize(20)))
  /\ UNCHANGED <<handler, word, heap, optionString, export, lost>>

\* The whole of the option's data is in the chunk: use it there.
UseBuffer ==
  /\ pc = "storage" /\ size >= optionLength
  /\ Consume(optionLength)
  /\ optionString' = "buffer"
  /\ pc' = "option"
  /\ UNCHANGED <<handler, fields, heap, export, lost>>

\* Otherwise it is collected on the heap.
UseHeap ==
  /\ pc = "storage" /\ size < optionLength
  /\ EnsureCapacity(optionLength) =< HeapLimit
  /\ heapLength' = EnsureCapacity(optionLength)
  /\ heapData' = <<>>
  /\ optionString' = "NULL"
  /\ pc' = "data"
  /\ UNCHANGED <<input, handler, fields, export, lost>>

\* HEAP_GENERATE_EXCEPTIONS, which nobody catches: the process ends.
OutOfMemory ==
  /\ pc = "storage" /\ size < optionLength
  /\ EnsureCapacity(optionLength) > HeapLimit
  /\ Ends("crashed")
  /\ UNCHANGED <<export, lost>>

\* Each chunk to the start of the buffer.
StoredFault(bytes) == bytes \o SubSeq(heapData, Len(bytes) + 1, Len(heapData))

\* heapBuffer.ptr[state - 20 + i] = buffer[i]
Stored(bytes) == SubSeq(heapData, 1, state - 20) \o bytes

\* Both sums are UINTs.
GetOptionData ==
  LET needed == (optionLength + 20 - state) % Width
      n      == IF needed > size THEN size ELSE needed
  IN
  /\ pc = "data"
  /\ Consume(n)
  /\ heapData' = Stored(Chunk(n))
  /\ state' = state + n
  /\ IF state' < (20 + optionLength) % Width
     THEN pc' = "recv" /\ UNCHANGED optionString
     ELSE pc' = "option" /\ optionString' = "heap"
  /\ UNCHANGED <<handler, word, lengthWord, heapLength, export, lost>>

OptionString ==
  IF optionString = "buffer"
  THEN SubSeq(stream, taken - optionLength + 1, taken)
  ELSE heapData

\* Stays at the data of the option just handled.
AfterOptionFault == state

AfterOption == 4

\* Any option but EXPORT_NAME is skipped without an answer.
SkipOption ==
  /\ pc = "option" /\ optionID # NBD_OPT_EXPORT_NAME
  /\ state' = AfterOption
  /\ pc' = CaseOf(state')
  /\ UNCHANGED <<input, handler, word, lengthWord, heap, optionString, export,
                 lost>>

\* Bytes of the chunk that follow EXPORT_NAME are not accepted.
RefuseMore ==
  /\ pc = "option" /\ optionID = NBD_OPT_EXPORT_NAME /\ size > 0
  /\ Ends("closed")
  /\ UNCHANGED <<export, lost>>

\* ToTransmissionMode: the device whose name Equals the option's.
AsksFor(e) ==
  /\ pc = "option" /\ optionID = NBD_OPT_EXPORT_NAME /\ size = 0
  /\ optionLength = Len(e) /\ OptionString = e

RefuseExport ==
  /\ pc = "option" /\ optionID = NBD_OPT_EXPORT_NAME /\ size = 0
  /\ \A e \in Exports : ~AsksFor(e)
  /\ Ends("closed")
  /\ UNCHANGED <<export, lost>>

\* The 134 bytes of the reply are sent; the connection changes handlers.
ToTransmissionMode ==
  /\ \E e \in Exports : AsksFor(e) /\ export' = e
  /\ Ends("transmission")
  /\ UNCHANGED lost

\* send takes less than the whole reply.
ReplyFails ==
  /\ \E e \in Exports : AsksFor(e)
  /\ NetworkFails
  /\ Ends("closed")
  /\ lost' = TRUE
  /\ UNCHANGED export

-----------------------------------------------------------------------------
\* TcpAcceptHandler has sent the greeting and created the Connection.
Init ==
  /\ stream \in Streams
  /\ taken = 0 /\ arrived = 0
  /\ handler = "handshake"
  /\ state = 0
  /\ word = ZeroWord
  /\ lengthWord = ZeroWord
  /\ heapLength = 0
  /\ heapData = <<>>
  /\ optionString = "NULL"
  /\ export = None
  /\ lost = FALSE
  /\ pc = "recv"

\* What HandshakeHandler does of itself, between two calls of recv.
HandlerStep ==
  \/ GetClientFlags \/ RefuseFlags \/ GetMagic \/ RefuseMagic
  \/ GetOptionID \/ GetOptionLength \/ UseBuffer \/ UseHeap \/ OutOfMemory
  \/ GetOptionData \/ SkipOption \/ RefuseMore \/ RefuseExport
  \/ ToTransmissionMode \/ ReplyFails

\* This module's part ends with the negotiation, or when the client neither
\* sends any more nor disconnects.
Done ==
  /\ pc = "recv" /\ (handler # "handshake" \/ arrived = Len(stream))
  /\ UNCHANGED vars

Next == Recv \/ RecvFails \/ HandlerStep \/ Done

Spec == Init /\ [][Next]_vars

\* The select loop calls recv when bytes have arrived; the handler never waits.
FairSpec == Spec /\ WF_vars(Recv) /\ WF_vars(HandlerStep)

-----------------------------------------------------------------------------
(* Properties. *)

TypeOK ==
  /\ stream \in Streams
  /\ taken \in 0 .. arrived /\ arrived \in 0 .. Len(stream)
  /\ handler \in {"handshake", "transmission", "closed", "crashed"}
  /\ state \in UINT
  /\ word \in [1 .. 4 -> Byte] /\ lengthWord \in [1 .. 4 -> Byte]
  /\ heapLength \in 0 .. HeapLimit
  /\ heapData \in Seq(Byte)
  /\ optionString \in {"NULL", "buffer", "heap"}
  /\ export \in Exports \cup {None}
  /\ lost \in BOOLEAN
  /\ pc \in {"recv", "flags", "magic", "id", "length", "storage", "data",
             "option"}

\* Where the option being received starts in the stream.
optionStart == IF pc = "option" THEN taken - 16 - optionLength
               ELSE IF state < 4 THEN 0 ELSE taken - (state - 4)

\* No byte of an option is written past the end of the heap buffer, however
\* the data is cut into chunks and whatever the options before it were
\* (NbdServer.cpp:495, 509-512, 117-154).
HeapInBounds == Len(heapData) =< heapLength

\* When an option is acted upon, its id, its length and all of its data are
\* those the client sent, whether the data was used in the shared buffer or
\* collected on the heap over several calls (NbdServer.cpp:430-516).
OptionAsSent ==
  pc = "option" =>
    LET At(from, n) == SubSeq(stream, optionStart + from + 1, optionStart + from + n)
    IN  /\ optionStart >= 4
        /\ word = At(8, 4) /\ lengthWord = At(12, 4)
        /\ OptionString = At(16, optionLength)

\* When the handler returns for more, it has consumed the chunk, and no option
\* that has been received whole is still waiting for the next recv.
NothingPending ==
  handler = "handshake" /\ pc = "recv" =>
    /\ taken = arrived
    /\ state >= 20 => taken < optionStart + 16 + optionLength

N == INSTANCE Negotiation WITH
  HeapLimit <- HeapLimit \div 2,
  phase     <- IF handler = "handshake" THEN "negotiating" ELSE handler,
  next      <- IF handler = "handshake" THEN optionStart ELSE 0

\* However the client's bytes are cut into chunks, the handler skips, accepts
\* and refuses what Negotiation does: it never closes a connection that did
\* nothing wrong, and enters transmission mode only for an export that the
\* client asked for (NbdServer.cpp:350-548, 159-196).
NegotiationImplemented == N!Spec

=============================================================================

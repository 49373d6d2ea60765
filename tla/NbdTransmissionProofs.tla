----------------------- MODULE NbdTransmissionProofs ------------------------
(***************************************************************************)
(* Safety of a connection in transmission mode, for every stream, however  *)
(* it is cut into chunks, and every size of the buffers.  The code does    *)
(* not check that a write lies within the device; what one that does not   *)
(* would do to the rest of the process is not in the model, so these       *)
(* theorems are about a process whose memory is whole.                     *)
(***************************************************************************)
EXTENDS NbdTransmission, SequenceTheorems, TLAPS

-----------------------------------------------------------------------------
(* Bytes and numbers. *)

\* Recursion over at most eight bytes is unrolled: the witness below is the
\* function that Power is.
LEMMA PowerUnfolds ==
  Power = [i \in 0 .. 8 |-> IF i = 0 THEN 1 ELSE Power[i - 1] * Base]
<1> DEFINE p1 == 1 * Base
           p2 == p1 * Base
           p3 == p2 * Base
           p4 == p3 * Base
           p5 == p4 * Base
           p6 == p5 * Base
           p7 == p6 * Base
           p8 == p7 * Base
           f == [i \in 0 .. 8 |->
                   IF i = 0 THEN 1 ELSE IF i = 1 THEN p1 ELSE IF i = 2 THEN p2
                   ELSE IF i = 3 THEN p3 ELSE IF i = 4 THEN p4 ELSE IF i = 5 THEN p5
                   ELSE IF i = 6 THEN p6 ELSE IF i = 7 THEN p7 ELSE p8]
<1>1. \A i \in 0 .. 8 : f[i] = IF i = 0 THEN 1 ELSE f[i - 1] * Base
  <2>1. /\ f[0] = 1 /\ f[1] = p1 /\ f[2] = p2 /\ f[3] = p3 /\ f[4] = p4
        /\ f[5] = p5 /\ f[6] = p6 /\ f[7] = p7 /\ f[8] = p8
    OBVIOUS
  <2> HIDE DEF f
  <2>2. /\ f[1] = f[0] * Base /\ f[2] = f[1] * Base /\ f[3] = f[2] * Base
        /\ f[4] = f[3] * Base /\ f[5] = f[4] * Base /\ f[6] = f[5] * Base
        /\ f[7] = f[6] * Base /\ f[8] = f[7] * Base
    BY <2>1, Zenon
  <2> QED
    BY <2>1, <2>2
<1>2. f = [i \in 0 .. 8 |-> IF i = 0 THEN 1 ELSE f[i - 1] * Base]
  <2>1. f = [i \in 0 .. 8 |-> f[i]]
    OBVIOUS
  <2> HIDE DEF f
  <2> QED
    BY <1>1, <2>1
<1>3. \E g : g = [i \in 0 .. 8 |-> IF i = 0 THEN 1 ELSE g[i - 1] * Base]
  <2> HIDE DEF f
  <2> QED
    BY <1>2, Zenon
<1> QED
  BY <1>3, Zenon DEF Power

LEMMA PositiveProduct ==
  ASSUME NEW m \in Nat \ {0}, NEW n \in Nat \ {0}
  PROVE  m * n \in Nat \ {0}
OBVIOUS

\* Powers are positive.
LEMMA PowerType == \A i \in 0 .. 8 : Power[i] \in Nat \ {0}
<1>1. /\ Power[0] = 1
      /\ \A i \in 1 .. 8 : Power[i] = Power[i - 1] * Base
  BY PowerUnfolds
<1>2. ASSUME NEW i \in 1 .. 8, Power[i - 1] \in Nat \ {0} PROVE Power[i] \in Nat \ {0}
  <2>1. Power[i] = Power[i - 1] * Base /\ Base \in Nat \ {0}
    BY <1>1, ConstantsOK
  <2> QED
    BY <1>2, <2>1, PositiveProduct
<1>3. Power[1] \in Nat \ {0} /\ Power[2] \in Nat \ {0} /\ Power[3] \in Nat \ {0}
  BY <1>1, <1>2
<1>4. Power[4] \in Nat \ {0} /\ Power[5] \in Nat \ {0} /\ Power[6] \in Nat \ {0}
  BY <1>2, <1>3
<1>5. Power[7] \in Nat \ {0} /\ Power[8] \in Nat \ {0}
  BY <1>2, <1>4
<1> QED
  BY <1>1, <1>3, <1>4, <1>5

\* Number of at most eight bytes is a number.
LEMMA NumberType ==
  ASSUME NEW bytes, Len(bytes) \in 0 .. 8,
         \A i \in 1 .. Len(bytes) : bytes[i] \in Byte
  PROVE  Number(bytes) \in Nat
<1> DEFINE n == Len(bytes)
           v1 == 0 * Base + bytes[1]
           v2 == v1 * Base + bytes[2]
           v3 == v2 * Base + bytes[3]
           v4 == v3 * Base + bytes[4]
           v5 == v4 * Base + bytes[5]
           v6 == v5 * Base + bytes[6]
           v7 == v6 * Base + bytes[7]
           v8 == v7 * Base + bytes[8]
           w(i) == IF i = 0 THEN 0 ELSE IF i = 1 THEN v1 ELSE IF i = 2 THEN v2
                   ELSE IF i = 3 THEN v3 ELSE IF i = 4 THEN v4 ELSE IF i = 5 THEN v5
                   ELSE IF i = 6 THEN v6 ELSE IF i = 7 THEN v7 ELSE v8
           f == [i \in 0 .. n |-> w(i)]
           value == CHOOSE g : g = [i \in 0 .. n |->
                                      IF i = 0 THEN 0 ELSE g[i - 1] * Base + bytes[i]]
<1>1. \A i \in 1 .. 8 : w(i) = w(i - 1) * Base + bytes[i]
  <2>1. /\ w(0) = 0 /\ w(1) = v1 /\ w(2) = v2 /\ w(3) = v3 /\ w(4) = v4
        /\ w(5) = v5 /\ w(6) = v6 /\ w(7) = v7 /\ w(8) = v8
    OBVIOUS
  <2> HIDE DEF w
  <2>2. /\ w(1) = w(0) * Base + bytes[1] /\ w(2) = w(1) * Base + bytes[2]
        /\ w(3) = w(2) * Base + bytes[3] /\ w(4) = w(3) * Base + bytes[4]
        /\ w(5) = w(4) * Base + bytes[5] /\ w(6) = w(5) * Base + bytes[6]
        /\ w(7) = w(6) * Base + bytes[7] /\ w(8) = w(7) * Base + bytes[8]
    BY <2>1, Zenon
  <2> QED
    BY <2>2
<1>2. w(0) = 0
  OBVIOUS
<1>3. \E g : g = [i \in 0 .. n |-> IF i = 0 THEN 0 ELSE g[i - 1] * Base + bytes[i]]
  <2> HIDE DEF w
  <2>1. \A i \in 0 .. n : f[i] = w(i)
    OBVIOUS
  <2>2. f = [i \in 0 .. n |-> f[i]]
    OBVIOUS
  <2> HIDE DEF f
  <2>3. \A i \in 1 .. n : i \in 1 .. 8 /\ i \in 0 .. n /\ i - 1 \in 0 .. n
    OBVIOUS
  <2>4. \A i \in 1 .. n : f[i] = f[i - 1] * Base + bytes[i]
    BY <1>1, <2>1, <2>3, Zenon
  <2>5. \A i \in 0 .. n : f[i] = IF i = 0 THEN 0 ELSE f[i - 1] * Base + bytes[i]
    BY <1>2, <2>1, <2>4
  <2>6. f = [i \in 0 .. n |-> IF i = 0 THEN 0 ELSE f[i - 1] * Base + bytes[i]]
    BY <2>2, <2>5
  <2> QED
    BY <2>6, Zenon
<1>4. value = [i \in 0 .. n |-> IF i = 0 THEN 0 ELSE value[i - 1] * Base + bytes[i]]
  BY <1>3, Zenon
<1>5. Number(bytes) = value[n]
  BY Zenon DEF Number
<1> HIDE DEF value
<1>6. \A i \in 1 .. n : value[i - 1] \in Nat => value[i] \in Nat
  <2> TAKE i \in 1 .. n
  <2> HAVE value[i - 1] \in Nat
  <2>1. i \in 0 .. n /\ i # 0
    OBVIOUS
  <2>2. value[i] = value[i - 1] * Base + bytes[i]
    BY <1>4, <2>1
  <2>3. bytes[i] \in Nat /\ Base \in Nat
    <3>1. bytes[i] \in Byte /\ Base \in Nat
      BY ConstantsOK, ElementOfSeq
    <3> QED
      BY <3>1 DEF Byte
  <2>4. \A x, y, z \in Nat : x * y + z \in Nat
    OBVIOUS
  <2> QED
    BY <2>2, <2>3, <2>4
<1>7. value[0] \in Nat
  BY <1>4
<1>8. /\ n >= 1 => value[1] \in Nat
      /\ n >= 2 => value[2] \in Nat
      /\ n >= 3 => value[3] \in Nat
      /\ n >= 4 => value[4] \in Nat
  BY <1>6, <1>7
<1>9. /\ n >= 5 => value[5] \in Nat
      /\ n >= 6 => value[6] \in Nat
      /\ n >= 7 => value[7] \in Nat
      /\ n >= 8 => value[8] \in Nat
  BY <1>6, <1>8
<1>10. value[n] \in Nat
  <2> HIDE DEF n
  <2>1. \A k \in 0 .. 8 : k =< n => value[k] \in Nat
    BY <1>7, <1>8, <1>9
  <2>2. n \in 0 .. 8 /\ n =< n
    BY DEF n
  <2> QED
    BY <2>1, <2>2, Zenon
<1> QED
  BY <1>5, <1>10

\* What is shifted in stays within its width.
LEMMA ShiftInType ==
  ASSUME NEW value \in Nat, NEW bytes \in Seq(Byte), Len(bytes) \in 0 .. 8,
         NEW width \in 0 .. 8
  PROVE  ShiftIn(value, bytes, width) \in 0 .. (Power[width] - 1)
<1>1. Number(bytes) \in Nat
  BY NumberType, ElementOfSeq
<1>2. Power[Len(bytes)] \in Nat /\ Power[width] \in Nat \ {0}
  BY PowerType
<1>3. \A x, y, z \in Nat : x * y + z \in Nat
  OBVIOUS
<1>4. value * Power[Len(bytes)] + Number(bytes) \in Nat
  BY <1>1, <1>2, <1>3
<1>5. \A x \in Nat, y \in Nat \ {0} : x % y \in 0 .. (y - 1)
  OBVIOUS
<1> QED
  BY <1>2, <1>4, <1>5 DEF ShiftIn

\* Sequences of anything.
LEMMA Joined ==
  ASSUME NEW S, NEW T, NEW s \in Seq(S), NEW u \in Seq(T)
  PROVE  s \o u \in Seq(S \cup T) /\ Len(s \o u) = Len(s) + Len(u)
<1>1. s \in Seq(S \cup T) /\ u \in Seq(S \cup T)
  BY SeqMonotonic
<1> QED
  BY <1>1, ConcatProperties

LEMMA BytesJoined ==
  \A s, u \in Seq(Byte) : s \o u \in Seq(Byte) /\ Len(s \o u) = Len(s) + Len(u)
BY ConcatProperties

\* A header is sixteen bytes.
LEMMA ReplyHeaderType ==
  ASSUME NEW handle \in Nat
  PROVE  ReplyHeader(handle) \in Seq(Byte) /\ Len(ReplyHeader(handle)) = 16
<1>1. AppendUint64(handle) \in Seq(Byte) /\ Len(AppendUint64(handle)) = 8
  <2>1. \A i \in 1 .. 8 : (handle \div Power[8 - i]) % Base \in Byte
    <3> TAKE i \in 1 .. 8
    <3>1. Power[8 - i] \in Nat \ {0}
      BY PowerType
    <3>2. \A x \in Nat, y \in Nat \ {0} : x \div y \in Int
      OBVIOUS
    <3>3. handle \div Power[8 - i] \in Int
      BY <3>1, <3>2
    <3>4. \A x \in Int : x % Base \in 0 .. (Base - 1)
      BY ConstantsOK
    <3> QED
      BY <3>3, <3>4 DEF Byte
  <2> QED
    BY <2>1 DEF AppendUint64
<1>2. NBD_REPLY_MAGIC \in Seq(Byte) /\ Len(NBD_REPLY_MAGIC) = 4
  <2>1. NBD_REPLY_MAGIC \in [1 .. 4 -> Byte]
    BY ConstantsOK
  <2>2. NBD_REPLY_MAGIC \in Seq(Byte)
    BY <2>1, SeqDef
  <2>3. DOMAIN NBD_REPLY_MAGIC = 1 .. Len(NBD_REPLY_MAGIC) /\ Len(NBD_REPLY_MAGIC) \in Nat
    BY <2>2, LenProperties
  <2>4. DOMAIN NBD_REPLY_MAGIC = 1 .. 4
    BY <2>1
  <2>5. 4 \in DOMAIN NBD_REPLY_MAGIC /\ 5 \notin DOMAIN NBD_REPLY_MAGIC
    BY <2>4
  <2>6. 4 =< Len(NBD_REPLY_MAGIC) /\ ~(5 =< Len(NBD_REPLY_MAGIC))
    BY <2>3, <2>5
  <2> QED
    BY <2>2, <2>3, <2>6
<1> DEFINE zeros == <<0, 0, 0, 0>>
           magic == NBD_REPLY_MAGIC \o zeros
<1>3. zeros \in Seq(Byte) /\ Len(zeros) = 4
  BY ConstantsOK DEF Byte
<1> HIDE DEF zeros
<1>4. magic \in Seq(Byte) /\ Len(magic) = 8
  <2>1. magic \in Seq(Byte) /\ Len(magic) = Len(NBD_REPLY_MAGIC) + Len(zeros)
    BY <1>2, <1>3, BytesJoined, Zenon
  <2> QED
    BY <1>2, <1>3, <2>1
<1> HIDE DEF magic
<1>5. magic \o AppendUint64(handle) \in Seq(Byte) /\ Len(magic \o AppendUint64(handle)) = 16
  <2>1. /\ magic \o AppendUint64(handle) \in Seq(Byte)
        /\ Len(magic \o AppendUint64(handle)) = Len(magic) + Len(AppendUint64(handle))
    BY <1>1, <1>4, BytesJoined, Zenon
  <2> QED
    BY <1>1, <1>4, <2>1
<1>6. ReplyHeader(handle) = magic \o AppendUint64(handle)
  BY DEF ReplyHeader, magic, zeros
<1> QED
  BY <1>5, <1>6

\* The first bytes of a block, of which send may take only part.
LEMMA Prefix ==
  ASSUME NEW S, NEW s \in Seq(S), NEW n \in 0 .. Len(s)
  PROVE  SubSeq(s, 1, n) \in Seq(S) /\ Len(SubSeq(s, 1, n)) = n
<1>1. Len(s) \in Nat /\ \A i \in 1 .. n : s[i] \in S
  BY LenProperties, ElementOfSeq
<1> QED
  BY <1>1, SubSeqProperties

\* A field's part of the chunk is bytes.
LEMMA ChunkType ==
  ASSUME sharedBuffer \in Seq(Byte), buffer \in Nat, NEW n \in Nat,
         buffer + n =< Len(sharedBuffer)
  PROVE  Chunk(n) \in Seq(Byte) /\ Len(Chunk(n)) = n
<1>1. Len(sharedBuffer) \in Nat
  BY LenProperties
<1>2. \A i \in (buffer + 1) .. (buffer + n) : sharedBuffer[i] \in Byte
  BY <1>1, ElementOfSeq
<1> QED
  BY <1>2, SubSeqProperties DEF Chunk

\* Building a reply in the shared buffer keeps what is beyond it.
LEMMA OverlayType ==
  ASSUME NEW S, NEW T, sharedBuffer \in Seq(S), NEW bytes \in Seq(T)
  PROVE  /\ Overlay(bytes) \in Seq(S \cup T)
         /\ Len(Overlay(bytes)) = IF Len(bytes) < Len(sharedBuffer)
                                  THEN Len(sharedBuffer) ELSE Len(bytes)
<1> DEFINE rest == SubSeq(sharedBuffer, Len(bytes) + 1, Len(sharedBuffer))
<1>1. Len(bytes) \in Nat /\ Len(sharedBuffer) \in Nat
  BY LenProperties
<1>2. \A i \in (Len(bytes) + 1) .. Len(sharedBuffer) : sharedBuffer[i] \in S
  BY <1>1, ElementOfSeq
<1>3. /\ rest \in Seq(S)
      /\ Len(rest) = IF Len(bytes) < Len(sharedBuffer)
                     THEN Len(sharedBuffer) - Len(bytes) ELSE 0
  BY <1>1, <1>2, SubSeqProperties
<1>4. /\ bytes \o rest \in Seq(T \cup S)
      /\ Len(bytes \o rest) = Len(bytes) + Len(rest)
  BY <1>3, Joined
<1>5. T \cup S = S \cup T
  OBVIOUS
<1> QED
  BY <1>1, <1>3, <1>4, <1>5 DEF Overlay

-----------------------------------------------------------------------------
(* The inductive invariant. *)

Requests     == [commandFlagsAndType : 0 .. (Power[4] - 1), handle : 0 .. (Power[8] - 1),
                 offset : Nat, length : 0 .. (Power[4] - 1)]
ReadRequests == [handle : 0 .. (Power[8] - 1), offset : Nat,
                 length : 0 .. (Power[4] - 1), headersSent : {0, 16}]

\* Types, but for the bytes of replies: a client may ask for what is not on
\* the device, and is sent what is found there.
ShapeInv ==
  /\ stream \in Seq(Byte) /\ arrived \in 0 .. Len(stream)
  /\ size \in 0 .. arrived /\ buffer \in Nat
  /\ \E S : sharedBuffer \in Seq(S)
  /\ \E S : sent \in Seq(S)
  /\ handler \in {"transmission", "closed"}
  /\ state \in 0 .. 28 /\ request \in Requests
  /\ heapLength \in Nat /\ count \in Nat /\ index \in 0 .. count
  /\ requests \in Seq(ReadRequests) /\ Len(requests) = count
  /\ pc \in {"recv", "parse", "command", "reply", "serve"}
  /\ start \in 0 .. arrived /\ whole \in 0 .. Len(sent) /\ lost \in BOOLEAN

\* While the parser runs the shared buffer holds the chunk.
ChunkInv == pc \in {"parse", "command", "reply"} => sharedBuffer \in Seq(Byte)

\* The parser has taken the whole chunk when it hands over to HandleRequests,
\* which leaves a reply only when it is whole.
ServeInv ==
  /\ handler = "closed" => pc = "recv"
  /\ pc \in {"recv", "serve"} /\ handler = "transmission" => size = 0
  /\ pc = "recv" /\ handler = "transmission" => count = 0
  /\ pc # "serve" /\ handler = "transmission" => index = 0
  /\ whole # Len(sent) /\ handler = "transmission" =>
       pc = "serve" /\ index < count /\ requests[index + 1].headersSent = 16

IInv == ShapeInv /\ ChunkInv /\ ServeInv /\ HeapHoldsQueue /\ BufferInBounds

-----------------------------------------------------------------------------
(* Each step keeps the invariant. *)

LEMMA InvInit == Init => IInv
<1> SUFFICES ASSUME Init PROVE IInv
  OBVIOUS
<1>1. PICK s \in Sessions : stream = s.stream /\ heapLength = s.heapLength
  BY DEF Init
<1>2. stream \in Seq(Byte) /\ heapLength \in Nat
  BY <1>1, ConstantsOK
<1>3. Len(stream) \in Nat /\ <<>> \in Seq(Byte) /\ <<>> \in Seq(ReadRequests) /\ Len(<<>>) = 0
  BY <1>2, LenProperties, EmptySeq
<1>4. request \in Requests
  <2>1. 0 \in 0 .. (Power[4] - 1) /\ 0 \in 0 .. (Power[8] - 1)
    BY PowerType
  <2> QED
    BY <2>1 DEF Init, Requests
<1>5. ShapeInv
  <2>1. (\E S : sharedBuffer \in Seq(S)) /\ (\E S : sent \in Seq(S))
    BY <1>3, Zenon DEF Init
  <2>2. /\ arrived = 0 /\ size = 0 /\ buffer = 0 /\ state = 0 /\ index = 0 /\ count = 0
        /\ start = 0 /\ whole = 0 /\ handler = "transmission" /\ pc = "recv"
    BY DEF Init
  <2>3. Len(sent) = 0 /\ Len(requests) = 0 /\ requests \in Seq(ReadRequests)
    BY <1>3, Zenon DEF Init
  <2>4. Len(stream) \in Nat /\ lost \in BOOLEAN
    BY <1>3, Zenon DEF Init
  <2> QED
    BY <1>2, <1>4, <2>1, <2>2, <2>3, <2>4 DEF ShapeInv
<1> QED
  BY <1>2, <1>3, <1>5, ConstantsOK
  DEF Init, IInv, ChunkInv, ServeInv, HeapHoldsQueue, BufferInBounds

\* recv fills the shared buffer from its start.
LEMMA InvRecv == IInv /\ Recv => IInv'
<1> SUFFICES ASSUME IInv, Recv PROVE IInv'
  OBVIOUS
<1>1. PICK n \in 1 .. SHARED_BUFFER_SIZE :
        /\ arrived + n =< Len(stream) /\ arrived' = arrived + n /\ size' = n
        /\ sharedBuffer' = SubSeq(stream, arrived + 1, arrived + n)
  BY DEF Recv
<1>2. /\ UNCHANGED <<stream, shared, handler, parser, queue, disk, sent, history>>
      /\ handler = "transmission" /\ pc = "recv" /\ buffer' = 0 /\ pc' = "parse"
  BY DEF Recv
<1>3. stream \in Seq(Byte) /\ Len(stream) \in Nat /\ arrived \in Nat /\ n \in Nat
  BY LenProperties, ConstantsOK DEF IInv, ShapeInv
<1>4. \A i \in (arrived + 1) .. (arrived + n) : stream[i] \in Byte
  BY <1>1, <1>3, ElementOfSeq
<1>5. sharedBuffer' \in Seq(Byte) /\ Len(sharedBuffer') = n
  BY <1>1, <1>3, <1>4, SubSeqProperties
<1>6. ShapeInv'
  <2>1. \E S : sharedBuffer' \in Seq(S)
    BY <1>5
  <2>2. UNCHANGED <<stream, handler, state, request, heapLength, requests, count, index,
                    sent, start, whole, lost>>
    BY <1>2 DEF parser, queue, history
  <2>3. arrived' \in 0 .. Len(stream) /\ size' \in 0 .. arrived' /\ start \in 0 .. arrived'
    BY <1>1, <1>3 DEF IInv, ShapeInv
  <2> QED
    BY <1>2, <2>1, <2>2, <2>3 DEF IInv, ShapeInv
<1>7. whole = Len(sent)
  BY <1>2 DEF IInv, ServeInv
<1> QED
  BY <1>1, <1>2, <1>3, <1>5, <1>6, <1>7, ConstantsOK
  DEF IInv, ChunkInv, ServeInv, HeapHoldsQueue, BufferInBounds, queue, history

\* The connection is closed; what was sent is at least what it was.
LEMMA InvClose ==
  ASSUME IInv, Close, \E S : sent' \in Seq(S), Len(sent) =< Len(sent'),
         lost' \in BOOLEAN
  PROVE  IInv'
<1>1. /\ UNCHANGED <<stream, arrived, sharedBuffer, buffer, size, state, request, heapLength,
                     requests, count, index, disk, start, whole>>
      /\ handler' = "closed" /\ pc' = "recv"
  BY DEF Close, input, chunk, parser, queue
<1>2. Len(sent) \in Nat /\ Len(sent') \in Nat
  BY LenProperties DEF IInv, ShapeInv
<1>3. whole' \in 0 .. Len(sent')
  BY <1>1, <1>2 DEF IInv, ShapeInv
<1>4. ShapeInv'
  BY <1>1, <1>3 DEF IInv, ShapeInv
<1> QED
  BY <1>1, <1>4 DEF IInv, ChunkInv, ServeInv, HeapHoldsQueue, BufferInBounds

LEMMA InvRefuse == IInv /\ (RecvFails \/ RefuseMagic \/ RefuseCommand) => IInv'
<1> SUFFICES ASSUME IInv, RecvFails \/ RefuseMagic \/ RefuseCommand PROVE IInv'
  OBVIOUS
<1>1. Close /\ sent' = sent /\ lost' \in BOOLEAN
  BY DEF RecvFails, RefuseMagic, RefuseCommand, IInv, ShapeInv
<1>2. (\E S : sent' \in Seq(S)) /\ Len(sent) \in Nat
  BY <1>1, LenProperties DEF IInv, ShapeInv
<1> QED
  BY <1>1, <1>2, InvClose

LEMMA InvSendFails ==
  ASSUME IInv, NEW T, NEW bytes \in Seq(T), SendFails(bytes)
  PROVE  IInv'
<1>1. PICK S : sent \in Seq(S)
  BY DEF IInv, ShapeInv
<1>2. PICK n \in 0 .. (Len(bytes) - 1) : sent' = sent \o SubSeq(bytes, 1, n)
  BY DEF SendFails
<1>3. Len(bytes) \in Nat /\ Len(sent) \in Nat
  BY <1>1, LenProperties
<1>4. SubSeq(bytes, 1, n) \in Seq(T) /\ Len(SubSeq(bytes, 1, n)) = n
  BY <1>3, Prefix
<1>5. sent' \in Seq(S \cup T) /\ Len(sent') = Len(sent) + n
  BY <1>1, <1>2, <1>4, Joined
<1>6. Close /\ lost' \in BOOLEAN
  BY DEF SendFails
<1> QED
  BY <1>3, <1>5, <1>6, InvClose

\* One field, or its part in the chunk, is taken.
LEMMA InvContinue ==
  ASSUME IInv, pc = "parse", NEW end \in 1 .. 28, NEW case \in {"parse", "command"},
         state < end, Continue(end, case), request' \in Requests,
         UNCHANGED <<input, handler, queue, disk, sent, history>>
  PROVE  IInv'
<1> DEFINE n == ConsumeSize(end)
<1>1. /\ size \in Nat /\ buffer \in Nat /\ state \in Nat /\ arrived \in Nat
      /\ handler = "transmission"
  BY DEF IInv, ShapeInv, ServeInv
<1>2. n \in 0 .. size /\ state + n =< end /\ (n # size => state + n = end)
  BY <1>1 DEF ConsumeSize, Least
<1>3. /\ buffer' = buffer + n /\ size' = size - n /\ state' = state + n
      /\ pc' = IF state' < end THEN "serve" ELSE case
      /\ sharedBuffer' = sharedBuffer
  BY DEF Continue, Consume
<1> HIDE DEF n
<1>4. UNCHANGED <<stream, arrived, handler, heapLength, requests, count, index, sent,
                  start, whole, lost>>
  BY DEF input, queue, history
<1>5. /\ size' \in 0 .. arrived /\ buffer' \in Nat /\ state' \in 0 .. 28
      /\ pc' \in {"serve", "parse", "command"} /\ (pc' = "serve" => size' = 0)
      /\ buffer' + size' = buffer + size
  BY <1>1, <1>2, <1>3 DEF IInv, ShapeInv
<1>6. ShapeInv'
  BY <1>3, <1>4, <1>5 DEF IInv, ShapeInv
<1>7. ServeInv'
  BY <1>1, <1>4, <1>5 DEF IInv, ServeInv
<1> QED
  BY <1>3, <1>4, <1>5, <1>6, <1>7 DEF IInv, ChunkInv, HeapHoldsQueue, BufferInBounds

LEMMA InvMagic == IInv /\ GetMagic => IInv'
<1> SUFFICES ASSUME IInv, GetMagic PROVE IInv'
  OBVIOUS
<1>1. /\ pc = "parse" /\ state < 4 /\ Continue(4, "parse") /\ request' = request
      /\ UNCHANGED <<input, handler, queue, disk, sent, history>>
  BY DEF GetMagic
<1>2. request' \in Requests
  BY <1>1 DEF IInv, ShapeInv
<1>3. 4 \in 1 .. 28
  OBVIOUS
<1> QED
  BY <1>1, <1>2, <1>3, InvContinue

\* What a field is given fits in it.
LEMMA FieldValue ==
  ASSUME IInv, pc = "parse", NEW value \in Nat, NEW from \in Nat, NEW end \in 1 .. 28,
         state \in from .. (end - 1), end - from \in 0 .. 8
  PROVE  ShiftIn(value, Chunk(ConsumeSize(end)), end - from) \in 0 .. (Power[end - from] - 1)
<1> DEFINE n == ConsumeSize(end)
<1>1. /\ sharedBuffer \in Seq(Byte) /\ buffer \in Nat /\ size \in Nat
      /\ buffer + size = Len(sharedBuffer)
  BY DEF IInv, ShapeInv, ChunkInv, BufferInBounds
<1>2. n \in 0 .. 8 /\ n =< size
  BY <1>1 DEF ConsumeSize, Least
<1> HIDE DEF n
<1>3. Chunk(n) \in Seq(Byte) /\ Len(Chunk(n)) = n
  BY <1>1, <1>2, ChunkType
<1>4. ShiftIn(value, Chunk(n), end - from) \in 0 .. (Power[end - from] - 1)
  BY <1>2, <1>3, ShiftInType
<1> QED
  BY <1>4 DEF n

LEMMA InvField == IInv /\ (GetCommand \/ GetHandle \/ GetOffset \/ GetLength) => IInv'
<1> SUFFICES ASSUME IInv, GetCommand \/ GetHandle \/ GetOffset \/ GetLength PROVE IInv'
  OBVIOUS
<1>1. /\ request \in Requests /\ Power[4] \in Nat \ {0} /\ Power[8] \in Nat \ {0}
      /\ 8 - 4 = 4 /\ 16 - 8 = 8 /\ 24 - 16 = 8 /\ 28 - 24 = 4
      /\ 4 \in 0 .. 8 /\ 8 \in 0 .. 8 /\ 8 \in 1 .. 28 /\ 16 \in 1 .. 28
      /\ 24 \in 1 .. 28 /\ 28 \in 1 .. 28
  <2>1. 4 \in 0 .. 8 /\ 8 \in 0 .. 8
    OBVIOUS
  <2>2. Power[4] \in Nat \ {0} /\ Power[8] \in Nat \ {0}
    BY <2>1, PowerType, Zenon
  <2> QED
    BY <2>1, <2>2 DEF IInv, ShapeInv
<1>2. /\ pc = "parse" /\ UNCHANGED <<input, handler, queue, disk, sent, history>>
  BY DEF GetCommand, GetHandle, GetOffset, GetLength, GetField
<1>3. CASE GetCommand
  <2> DEFINE v == IF state = 4 THEN 0 ELSE request.commandFlagsAndType
             u == ShiftIn(v, Chunk(ConsumeSize(8)), 8 - 4)
  <2>1. /\ request' = [request EXCEPT !["commandFlagsAndType"] = u]
        /\ state \in 4 .. (8 - 1) /\ Continue(8, "parse")
    BY <1>3 DEF GetCommand, GetField
  <2>2. v \in Nat
    BY <1>1 DEF Requests
  <2> HIDE DEF v
  <2>3. u \in 0 .. (Power[4] - 1)
    <3>1. state \in 4 .. (8 - 1) /\ 4 \in Nat /\ 8 \in 1 .. 28 /\ 8 - 4 \in 0 .. 8
      BY <1>1, <2>1
    <3>2. u \in 0 .. (Power[8 - 4] - 1)
      BY <1>2, <2>2, <3>1, FieldValue, Zenon
    <3> QED
      BY <1>1, <3>2
  <2> HIDE DEF u
  <2>4. request' \in Requests /\ state < 8
    BY <1>1, <2>1, <2>3 DEF Requests
  <2> QED
    BY <1>2, <2>1, <2>4, InvContinue
<1>4. CASE GetHandle
  <2> DEFINE v == IF state = 8 THEN 0 ELSE request.handle
             u == ShiftIn(v, Chunk(ConsumeSize(16)), 16 - 8)
  <2>1. /\ request' = [request EXCEPT !["handle"] = u]
        /\ state \in 8 .. (16 - 1) /\ Continue(16, "parse")
    BY <1>4 DEF GetHandle, GetField
  <2>2. v \in Nat
    BY <1>1 DEF Requests
  <2> HIDE DEF v
  <2>3. u \in 0 .. (Power[8] - 1)
    <3>1. state \in 8 .. (16 - 1) /\ 8 \in Nat /\ 16 \in 1 .. 28 /\ 16 - 8 \in 0 .. 8
      BY <1>1, <2>1
    <3>2. u \in 0 .. (Power[16 - 8] - 1)
      BY <1>2, <2>2, <3>1, FieldValue, Zenon
    <3> QED
      BY <1>1, <3>2
  <2> HIDE DEF u
  <2>4. request' \in Requests /\ state < 16
    BY <1>1, <2>1, <2>3 DEF Requests
  <2> QED
    BY <1>2, <2>1, <2>4, InvContinue
<1>5. CASE GetOffset
  <2> DEFINE v == IF state = 16 THEN 0 ELSE request.offset
             u == ShiftIn(v, Chunk(ConsumeSize(24)), 24 - 16)
  <2>1. /\ request' = [request EXCEPT !["offset"] = u]
        /\ state \in 16 .. (24 - 1) /\ Continue(24, "parse")
    BY <1>5 DEF GetOffset, GetField
  <2>2. v \in Nat
    BY <1>1 DEF Requests
  <2> HIDE DEF v
  <2>3. u \in 0 .. (Power[8] - 1)
    <3>1. state \in 16 .. (24 - 1) /\ 16 \in Nat /\ 24 \in 1 .. 28 /\ 24 - 16 \in 0 .. 8
      BY <1>1, <2>1
    <3>2. u \in 0 .. (Power[24 - 16] - 1)
      BY <1>2, <2>2, <3>1, FieldValue, Zenon
    <3> QED
      BY <1>1, <3>2
  <2> HIDE DEF u
  <2>4. request' \in Requests /\ state < 24
    BY <1>1, <2>1, <2>3 DEF Requests
  <2> QED
    BY <1>2, <2>1, <2>4, InvContinue
<1>6. CASE GetLength
  <2> DEFINE v == IF state = 24 THEN 0 ELSE request.length
             u == ShiftIn(v, Chunk(ConsumeSize(28)), 28 - 24)
  <2>1. /\ request' = [request EXCEPT !["length"] = u]
        /\ state \in 24 .. (28 - 1) /\ Continue(28, "command")
    BY <1>6 DEF GetLength, GetField
  <2>2. v \in Nat
    BY <1>1 DEF Requests
  <2> HIDE DEF v
  <2>3. u \in 0 .. (Power[4] - 1)
    <3>1. state \in 24 .. (28 - 1) /\ 24 \in Nat /\ 28 \in 1 .. 28 /\ 28 - 24 \in 0 .. 8
      BY <1>1, <2>1
    <3>2. u \in 0 .. (Power[28 - 24] - 1)
      BY <1>2, <2>2, <3>1, FieldValue, Zenon
    <3> QED
      BY <1>1, <3>2
  <2> HIDE DEF u
  <2>4. request' \in Requests /\ state < 28
    BY <1>1, <2>1, <2>3 DEF Requests
  <2> QED
    BY <1>2, <2>1, <2>4, InvContinue
<1> QED
  BY <1>3, <1>4, <1>5, <1>6

\* EnsureCapacity gives what it is asked for.
LEMMA GrownEnough ==
  ASSUME IInv
  PROVE  GrownLength \in Nat /\ Capacity =< GrownLength /\ Capacity \in Nat
<1>1. \A x, y \in Nat : x * y + y \in Nat
  OBVIOUS
<1>2. /\ Capacity \in Nat /\ heapLength \in Nat /\ DEFAULT_INITIAL_LENGTH \in Nat
  BY <1>1, ConstantsOK DEF Capacity, IInv, ShapeInv
<1> QED
  BY <1>2 DEF GrownLength

\* The requests queued so far are kept, also when the buffer moves.
LEMMA MoveKeepsQueue ==
  ASSUME IInv, NEW kept \in Grown
  PROVE  kept = requests
<1>1. /\ requests \in Seq(ReadRequests) /\ Len(requests) = count /\ count \in Nat
      /\ DOMAIN requests = 1 .. count /\ requests = [i \in 1 .. count |-> requests[i]]
  BY LenProperties DEF IInv, ShapeInv
<1>2. \A i \in 1 .. count : i * ReadRequestSize =< Preserve
  <2>1. \A i, j, m \in Nat : i =< j => i * m =< j * m
    OBVIOUS
  <2> QED
    BY <1>1, <2>1, ConstantsOK DEF Preserve
<1>3. Moved = requests
  BY <1>1, <1>2 DEF Moved
<1> QED
  BY <1>3 DEF Grown

\* Add: the buffer that EnsureCapacity leaves has room for one more request.
LEMMA InvQueueRead == IInv /\ QueueRead => IInv'
<1> SUFFICES ASSUME IInv, QueueRead PROVE IInv'
  OBVIOUS
<1> DEFINE added == [handle      |-> request.handle,
                     offset      |-> request.offset,
                     length      |-> request.length,
                     headersSent |-> 0]
<1>1. /\ pc = "command" /\ heapLength' = GrownLength /\ count' = count + 1
      /\ state' = 0 /\ pc' = "parse" /\ start' = taken
      /\ UNCHANGED <<input, chunk, handler, request, index, disk, sent, whole, lost>>
  BY DEF QueueRead
<1>2. requests' = Append(requests, added)
  BY MoveKeepsQueue DEF QueueRead
<1>3. UNCHANGED <<stream, arrived, sharedBuffer, buffer, size>>
  BY <1>1 DEF input, chunk
<1>4. added \in ReadRequests
  BY DEF IInv, ShapeInv, Requests, ReadRequests
<1> HIDE DEF added
<1>5. requests' \in Seq(ReadRequests) /\ Len(requests') = count'
  BY <1>1, <1>2, <1>4, AppendProperties DEF IInv, ShapeInv
<1>6. handler = "transmission" /\ index = 0 /\ whole = Len(sent)
  BY <1>1 DEF IInv, ShapeInv, ServeInv
<1>7. start' \in 0 .. arrived /\ count' \in Nat /\ index' \in 0 .. count'
  BY <1>1, <1>6 DEF IInv, ShapeInv, taken
<1>8. GrownLength \in Nat /\ Capacity =< GrownLength
  BY GrownEnough
<1>9. count' * ReadRequestSize = Capacity
  <2>1. \A x, y \in Nat : (x + 1) * y = x * y + y
    OBVIOUS
  <2> QED
    BY <1>1, <2>1, ConstantsOK DEF Capacity, IInv, ShapeInv
<1>10. ShapeInv'
  BY <1>1, <1>3, <1>5, <1>7, <1>8 DEF IInv, ShapeInv
<1>11. ChunkInv' /\ ServeInv'
  BY <1>1, <1>3, <1>6 DEF IInv, ChunkInv, ServeInv
<1>12. HeapHoldsQueue'
  BY <1>1, <1>8, <1>9 DEF HeapHoldsQueue
<1>13. BufferInBounds'
  BY <1>1, <1>3 DEF IInv, BufferInBounds
<1> QED
  BY <1>10, <1>11, <1>12, <1>13 DEF IInv

LEMMA InvBeginWrite == IInv /\ BeginWrite => IInv'
BY DEF BeginWrite, IInv, ShapeInv, ChunkInv, ServeInv, HeapHoldsQueue, BufferInBounds,
       input, chunk, queue, history

\* A write takes what is its own of the chunk: its length never passes 0.
LEMMA InvWriteData == IInv /\ WriteData => IInv'
<1> SUFFICES ASSUME IInv, WriteData PROVE IInv'
  OBVIOUS
<1> DEFINE n == WriteSize
<1>1. /\ pc = "parse" /\ state = 28
      /\ buffer' = buffer + n /\ size' = size - n /\ sharedBuffer' = sharedBuffer
      /\ request' = [request EXCEPT !.length = @ - n, !.offset = OffsetAfter(n)]
      /\ pc' = IF request'.length > 0 THEN "serve" ELSE "reply"
      /\ UNCHANGED <<input, handler, state, queue, sent, history>>
  BY DEF WriteData, Consume
<1>2. /\ request \in Requests /\ request.length \in Nat /\ request.offset \in Nat
      /\ Power[4] \in Nat /\ size \in Nat /\ buffer \in Nat /\ arrived \in Nat
      /\ handler = "transmission"
  <2>1. 4 \in 0 .. 8
    OBVIOUS
  <2>2. Power[4] \in Nat
    BY <2>1, PowerType
  <2> QED
    BY <1>1, <2>2 DEF IInv, ShapeInv, ServeInv, Requests
<1>3. n \in 0 .. size /\ n =< request.length /\ (n # size => n = request.length)
  BY <1>2 DEF WriteSize, Least
<1> HIDE DEF n
<1>4. UNCHANGED <<stream, arrived, handler, state, heapLength, requests, count, index, sent,
                  start, whole, lost>>
  BY <1>1 DEF input, queue, history
<1>5. request'.length = request.length - n /\ request' \in Requests
  <2>1. n \in Nat /\ request.length - n \in 0 .. request.length
    BY <1>2, <1>3
  <2>2. /\ request.length \in 0 .. (Power[4] - 1)
        /\ request.length - n \in 0 .. (Power[4] - 1) /\ request.offset + n \in Nat
    BY <1>2, <2>1 DEF Requests
  <2>3. request' = [request EXCEPT !.length = request.length - n,
                                   !.offset = request.offset + n]
    BY <1>1 DEF OffsetAfter
  <2> QED
    BY <1>2, <2>2, <2>3 DEF Requests
<1>6. /\ size' \in 0 .. arrived /\ buffer' \in Nat
      /\ pc' \in {"serve", "reply"} /\ (pc' = "serve" => size' = 0)
      /\ buffer' + size' = buffer + size
  <2>1. size \in 0 .. arrived
    BY DEF IInv, ShapeInv
  <2>2. request'.length > 0 <=> n < request.length
    BY <1>2, <1>3, <1>5
  <2> QED
    BY <1>1, <1>2, <1>3, <2>1, <2>2
<1>7. ShapeInv'
  BY <1>1, <1>4, <1>5, <1>6 DEF IInv, ShapeInv
<1>8. ServeInv'
  BY <1>1, <1>4, <1>6 DEF IInv, ServeInv
<1> QED
  BY <1>1, <1>4, <1>6, <1>7, <1>8 DEF IInv, ChunkInv, HeapHoldsQueue, BufferInBounds

LEMMA InvReplyToWrite == IInv /\ ReplyToWrite => IInv'
<1> SUFFICES ASSUME IInv, ReplyToWrite PROVE IInv'
  OBVIOUS
<1> DEFINE reply == ReplyHeader(request.handle)
<1>1. /\ pc = "reply" /\ sharedBuffer' = sharedBuffer /\ sent' = sent \o reply
      /\ whole' = Len(sent') /\ state' = 0 /\ pc' = "parse" /\ start' = taken
      /\ UNCHANGED <<input, buffer, size, handler, request, queue, disk, lost>>
  BY DEF ReplyToWrite, ResponseBuffer, AfterReply
<1>2. UNCHANGED <<stream, arrived, heapLength, requests, count, index>>
  BY <1>1 DEF input, queue
<1>3. PICK S : sent \in Seq(S)
  BY DEF IInv, ShapeInv
<1>4. request.handle \in Nat
  <2>1. 8 \in 0 .. 8
    OBVIOUS
  <2>2. Power[8] \in Nat
    BY <2>1, PowerType
  <2> QED
    BY <2>2 DEF IInv, ShapeInv, Requests
<1>5. reply \in Seq(Byte)
  BY <1>4, ReplyHeaderType
<1> HIDE DEF reply
<1>6. sent' \in Seq(S \cup Byte)
  BY <1>1, <1>3, <1>5, Joined
<1>7. whole' \in 0 .. Len(sent') /\ (\E U : sent' \in Seq(U))
  <2>1. Len(sent') \in Nat
    BY <1>6, LenProperties
  <2>2. \E U : sent' \in Seq(U)
    BY <1>6, Zenon
  <2> QED
    BY <1>1, <2>1, <2>2
<1>8. start' \in 0 .. arrived
  BY <1>1 DEF IInv, ShapeInv, taken
<1>9. ShapeInv'
  BY <1>1, <1>2, <1>7, <1>8 DEF IInv, ShapeInv
<1>10. ServeInv'
  BY <1>1, <1>2 DEF IInv, ServeInv
<1> QED
  BY <1>1, <1>2, <1>9, <1>10 DEF IInv, ChunkInv, HeapHoldsQueue, BufferInBounds

\* A block holds a header, for the first, and data that the reply still needs,
\* and fits in the shared buffer.
LEMMA BlockType ==
  ASSUME IInv, index < count, NEW T,
         \A k \in 0 .. (current.length - 1) : disk[current.offset + k] \in T
  PROVE  /\ current \in ReadRequests /\ index + 1 \in 1 .. Len(requests)
         /\ Block.data \in 0 .. current.length
         /\ Block.bytes \in Seq(Byte \cup T)
         /\ Len(Block.bytes) = Block.data + (16 - current.headersSent)
         /\ Len(Block.bytes) =< SHARED_BUFFER_SIZE
<1>1. /\ requests \in Seq(ReadRequests) /\ Len(requests) = count
      /\ index \in Nat /\ count \in Nat
  BY DEF IInv, ShapeInv
<1>2. index + 1 \in 1 .. Len(requests)
  BY <1>1
<1>3. current \in ReadRequests
  BY <1>1, <1>2, ElementOfSeq DEF current
<1>4. /\ current.length \in Nat /\ current.offset \in Nat /\ current.handle \in Nat
      /\ current.headersSent \in {0, 16}
  <2>1. 4 \in 0 .. 8 /\ 8 \in 0 .. 8
    OBVIOUS
  <2>2. Power[4] \in Nat /\ Power[8] \in Nat
    BY <2>1, PowerType
  <2> HIDE DEF current
  <2> QED
    BY <1>3, <2>2 DEF ReadRequests
<1> DEFINE data(n) == Read(n, current.offset)
           header  == ReplyHeader(current.handle)
<1>5. \A n \in 0 .. current.length : data(n) \in Seq(T) /\ Len(data(n)) = n
  <2> TAKE n \in 0 .. current.length
  <2> DEFINE at(i) == disk[current.offset + i - 1]
  <2>1. \A i \in 1 .. n : at(i) \in T
    <3> TAKE i \in 1 .. n
    <3>1. /\ i - 1 \in 0 .. (current.length - 1)
          /\ current.offset + (i - 1) = current.offset + i - 1
      BY <1>4
    <3> QED
      BY <3>1
  <2> HIDE DEF at
  <2>2. [i \in 1 .. n |-> at(i)] \in Seq(T) /\ Len([i \in 1 .. n |-> at(i)]) = n
    BY <1>4, <2>1
  <2> QED
    BY <2>2 DEF at, Read
<1>6. header \in Seq(Byte) /\ Len(header) = 16
  BY <1>4, ReplyHeaderType
<1> HIDE DEF data, header
<1>7. SHARED_BUFFER_SIZE \in Nat /\ SHARED_BUFFER_SIZE > 16
  BY ConstantsOK
<1>8. CASE current.headersSent < 16
  <2> DEFINE n == Least(current.length, FirstSize)
  <2>1. n \in 0 .. current.length /\ n =< FirstSize /\ FirstSize + 16 = SHARED_BUFFER_SIZE
    BY <1>4, <1>7 DEF Least, FirstSize
  <2> HIDE DEF n
  <2>2. Block.data = n /\ Block.bytes = header \o data(n)
    BY <1>8 DEF Block, n, data, header
  <2>3. data(n) \in Seq(T) /\ Len(data(n)) = n
    BY <1>5, <2>1
  <2>4. Block.bytes \in Seq(Byte \cup T) /\ Len(Block.bytes) = Len(header) + Len(data(n))
    <3> DEFINE d == data(n)
    <3>1. header \in Seq(Byte) /\ d \in Seq(T)
      BY <1>6, <2>3
    <3> HIDE DEF d
    <3>2. header \o d \in Seq(Byte \cup T) /\ Len(header \o d) = Len(header) + Len(d)
      BY <3>1, Joined
    <3> QED
      BY <2>2, <3>2, Zenon DEF d
  <2>5. current.headersSent = 0 /\ n \in Nat /\ FirstSize \in Nat
    BY <1>4, <1>7, <1>8, <2>1 DEF FirstSize
  <2>6. /\ Len(Block.bytes) = n + (16 - current.headersSent)
        /\ Len(Block.bytes) =< SHARED_BUFFER_SIZE
    BY <1>6, <1>7, <2>1, <2>3, <2>4, <2>5
  <2> QED
    BY <1>2, <1>3, <2>1, <2>2, <2>4, <2>6
<1>9. CASE ~(current.headersSent < 16)
  <2> DEFINE n == Least(current.length, SHARED_BUFFER_SIZE)
  <2>1. n \in 0 .. current.length /\ n =< SHARED_BUFFER_SIZE /\ n \in Nat
    BY <1>4, <1>7 DEF Least
  <2> HIDE DEF n
  <2>2. Block.data = n /\ Block.bytes = data(n)
    BY <1>9 DEF Block, n, data
  <2>3. data(n) \in Seq(T) /\ Len(data(n)) = n
    BY <1>5, <2>1
  <2>4. Block.bytes \in Seq(Byte \cup T)
    BY <2>2, <2>3, SeqMonotonic
  <2>5. current.headersSent = 16
    BY <1>4, <1>9
  <2>6. Len(Block.bytes) = n + (16 - current.headersSent)
    BY <2>1, <2>2, <2>3, <2>5
  <2> QED
    BY <1>2, <1>3, <2>1, <2>2, <2>3, <2>4, <2>6
<1> QED
  BY <1>8, <1>9

\* HandleRequests: a reply stays whole or becomes the one being sent.
LEMMA InvSendBlock == IInv /\ SendBlock => IInv'
<1> SUFFICES ASSUME IInv, SendBlock PROVE IInv'
  OBVIOUS
<1> DEFINE T == {disk[a] : a \in Nat}
           rest == [current EXCEPT !.headersSent = 16,
                                   !.offset = NextOffset, !.length = @ - Block.data]
<1>1. /\ pc = "serve" /\ index < count
      /\ sharedBuffer' = Overlay(Block.bytes) /\ sent' = sent \o Block.bytes
      /\ requests' = [requests EXCEPT ![index + 1] = rest]
      /\ IF current.length = Block.data
         THEN index' = index + 1 /\ whole' = Len(sent')
         ELSE UNCHANGED <<index, whole>>
      /\ UNCHANGED <<input, buffer, size, handler, parser, heapLength, count,
                     disk, pc, start, lost>>
  <2>1. requests' = [requests EXCEPT ![index + 1] = rest]
    BY Zenon DEF SendBlock, current
  <2> HIDE DEF rest
  <2> QED
    BY <2>1 DEF SendBlock, BlockIsDue
<1>2. UNCHANGED <<stream, arrived, state, request>>
  BY <1>1 DEF input, parser
<1>3. /\ index \in Nat /\ count \in Nat /\ requests \in Seq(ReadRequests)
      /\ Len(requests) = count /\ handler = "transmission"
  BY <1>1 DEF IInv, ShapeInv, ServeInv
<1>4. \A k \in 0 .. (current.length - 1) : disk[current.offset + k] \in T
  <2>1. index + 1 \in 1 .. Len(requests)
    BY <1>1, <1>3
  <2>2. current \in ReadRequests
    BY <1>3, <2>1, ElementOfSeq DEF current
  <2>3. current.offset \in Nat
    BY <2>2 DEF ReadRequests
  <2>4. \A k \in 0 .. (current.length - 1) : current.offset + k \in Nat
    BY <2>3
  <2> QED
    BY <2>4
<1> HIDE DEF T
<1>5. /\ current \in ReadRequests /\ index + 1 \in 1 .. Len(requests)
      /\ Block.data \in 0 .. current.length
      /\ Block.bytes \in Seq(Byte \cup T)
      /\ Len(Block.bytes) =< SHARED_BUFFER_SIZE
  BY <1>1, <1>4, BlockType
<1>6. rest \in ReadRequests /\ rest.headersSent = 16
  <2> DEFINE c == current
             n == Block.data
  <2>1. c \in ReadRequests /\ n \in 0 .. c.length
    BY <1>5
  <2>2. rest = [c EXCEPT !.headersSent = 16, !.offset = c.offset + n, !.length = c.length - n]
    BY DEF NextOffset
  <2> HIDE DEF c, n
  <2>3. c.length \in 0 .. (Power[4] - 1) /\ c.offset \in Nat /\ Power[4] \in Nat
    <3>1. 4 \in 0 .. 8
      OBVIOUS
    <3>2. Power[4] \in Nat
      BY <3>1, PowerType
    <3> QED
      BY <2>1, <3>2 DEF ReadRequests
  <2>4. c.length - n \in 0 .. (Power[4] - 1) /\ c.offset + n \in Nat
    BY <2>1, <2>3
  <2>5. [c EXCEPT !.headersSent = 16, !.offset = c.offset + n, !.length = c.length - n]
          \in ReadRequests
    BY <2>1, <2>4 DEF ReadRequests
  <2>6. [c EXCEPT !.headersSent = 16, !.offset = c.offset + n,
                  !.length = c.length - n].headersSent = 16
    BY <2>1 DEF ReadRequests
  <2> QED
    BY <2>2, <2>5, <2>6, Zenon
<1> HIDE DEF rest
<1>7. /\ requests' \in Seq(ReadRequests) /\ Len(requests') = count'
      /\ requests'[index + 1].headersSent = 16
  <2>1. /\ [requests EXCEPT ![index + 1] = rest] \in Seq(ReadRequests)
        /\ Len([requests EXCEPT ![index + 1] = rest]) = Len(requests)
        /\ [requests EXCEPT ![index + 1] = rest][index + 1] = rest
    <3>1. index + 1 \in 1 .. Len(requests) /\ rest \in ReadRequests
      BY <1>5, <1>6
    <3> QED
      BY <1>3, <3>1, ExceptSeq
  <2> QED
    BY <1>1, <1>3, <1>6, <2>1
<1>8. PICK S : sharedBuffer \in Seq(S)
  BY DEF IInv, ShapeInv
<1>9. /\ Len(sharedBuffer) \in Nat /\ Len(Block.bytes) \in Nat
      /\ \E U : sharedBuffer' \in Seq(U)
      /\ Len(sharedBuffer') = IF Len(Block.bytes) < Len(sharedBuffer)
                              THEN Len(sharedBuffer) ELSE Len(Block.bytes)
  <2>1. /\ Overlay(Block.bytes) \in Seq(S \cup (Byte \cup T))
        /\ Len(Overlay(Block.bytes)) = IF Len(Block.bytes) < Len(sharedBuffer)
                                       THEN Len(sharedBuffer) ELSE Len(Block.bytes)
    BY <1>5, <1>8, OverlayType
  <2>2. Len(sharedBuffer) \in Nat /\ Len(Block.bytes) \in Nat
    BY <1>5, <1>8, LenProperties
  <2> QED
    BY <1>1, <2>1, <2>2, Zenon
<1>10. BufferInBounds'
  BY <1>1, <1>5, <1>9, ConstantsOK DEF IInv, BufferInBounds
<1>11. PICK V : sent \in Seq(V)
  BY DEF IInv, ShapeInv
<1>12. /\ \E U : sent' \in Seq(U)
       /\ Len(sent) \in Nat /\ Len(sent') = Len(sent) + Len(Block.bytes)
  <2>1. /\ sent \o Block.bytes \in Seq(V \cup (Byte \cup T))
        /\ Len(sent \o Block.bytes) = Len(sent) + Len(Block.bytes)
    BY <1>5, <1>11, Joined
  <2>2. Len(sent) \in Nat
    BY <1>11, LenProperties
  <2> QED
    BY <1>1, <2>1, <2>2, Zenon
<1>13. whole' \in 0 .. Len(sent') /\ index' \in 0 .. count'
  <2>1. whole \in 0 .. Len(sent)
    BY DEF IInv, ShapeInv
  <2>2. whole' \in 0 .. Len(sent')
    BY <1>1, <1>9, <1>12, <2>1
  <2>3. index' \in 0 .. count'
    BY <1>1, <1>3
  <2> QED
    BY <2>2, <2>3
<1>14. ShapeInv'
  <2>1. (\E U : sharedBuffer' \in Seq(U)) /\ (\E U : sent' \in Seq(U))
    BY <1>9, <1>12
  <2> QED
    BY <1>1, <1>2, <1>7, <1>13, <2>1 DEF IInv, ShapeInv
<1>15. ServeInv'
  <2>1. whole' # Len(sent') => index' = index
    BY <1>1
  <2> QED
    BY <1>1, <1>3, <1>7, <2>1 DEF IInv, ServeInv
<1> QED
  BY <1>1, <1>10, <1>14, <1>15 DEF IInv, ChunkInv, HeapHoldsQueue

LEMMA InvBreaks == IInv /\ (WriteReplyFails \/ SendBlockFails) => IInv'
<1> SUFFICES ASSUME IInv, WriteReplyFails \/ SendBlockFails PROVE IInv'
  OBVIOUS
<1>1. CASE WriteReplyFails
  <2>1. request.handle \in Nat
    <3>1. 8 \in 0 .. 8
      OBVIOUS
    <3>2. Power[8] \in Nat
      BY <3>1, PowerType
    <3> QED
      BY <3>2 DEF IInv, ShapeInv, Requests
  <2>2. ReplyHeader(request.handle) \in Seq(Byte)
    BY <2>1, ReplyHeaderType
  <2>3. SendFails(ReplyHeader(request.handle))
    BY <1>1 DEF WriteReplyFails
  <2> QED
    BY <2>2, <2>3, InvSendFails
<1>2. CASE SendBlockFails
  <2> DEFINE T == {disk[a] : a \in Nat}
  <2>1. index < count /\ SendFails(Block.bytes)
    BY <1>2 DEF SendBlockFails, BlockIsDue
  <2>2. \A k \in 0 .. (current.length - 1) : disk[current.offset + k] \in T
    <3>1. index + 1 \in 1 .. Len(requests) /\ requests \in Seq(ReadRequests)
      BY <2>1 DEF IInv, ShapeInv
    <3>2. current \in ReadRequests
      BY <3>1, ElementOfSeq DEF current
    <3>3. current.offset \in Nat
      BY <3>2 DEF ReadRequests
    <3>4. \A k \in 0 .. (current.length - 1) : current.offset + k \in Nat
      BY <3>3
    <3> QED
      BY <3>4
  <2> HIDE DEF T
  <2>3. Block.bytes \in Seq(Byte \cup T)
    BY <2>1, <2>2, BlockType
  <2> QED
    BY <2>1, <2>3, InvSendFails
<1> QED
  BY <1>1, <1>2

LEMMA InvEndOfQueue == IInv /\ EndOfQueue => IInv'
<1> SUFFICES ASSUME IInv, EndOfQueue PROVE IInv'
  OBVIOUS
<1>1. /\ pc = "serve" /\ index = count /\ count' = 0 /\ index' = 0 /\ buffer' = 0
      /\ requests' = <<>> /\ sharedBuffer' = <<>> /\ pc' = "recv"
      /\ UNCHANGED <<input, size, handler, parser, heapLength, disk, sent, history>>
  BY DEF EndOfQueue
<1>2. UNCHANGED <<stream, arrived, state, request, start, whole, lost>>
  BY <1>1 DEF input, parser, history
<1>3. /\ \E S : sharedBuffer' \in Seq(S)
      /\ Len(sharedBuffer') = 0 /\ requests' \in Seq(ReadRequests) /\ Len(requests') = 0
  BY <1>1, EmptySeq, Zenon
<1>4. handler = "transmission" /\ size = 0 /\ whole = Len(sent)
  BY <1>1 DEF IInv, ShapeInv, ServeInv
<1>5. ShapeInv'
  BY <1>1, <1>2, <1>3 DEF IInv, ShapeInv
<1>6. ServeInv' /\ ChunkInv'
  BY <1>1, <1>2, <1>4 DEF IInv, ServeInv, ChunkInv
<1>7. HeapHoldsQueue' /\ BufferInBounds'
  BY <1>1, <1>3, ConstantsOK DEF IInv, ShapeInv, HeapHoldsQueue, BufferInBounds
<1> QED
  BY <1>5, <1>6, <1>7 DEF IInv

LEMMA InvStep == IInv /\ [Next]_vars => IInv'
<1> SUFFICES ASSUME IInv, [Next]_vars PROVE IInv'
  OBVIOUS
<1>1. CASE Recv
  BY <1>1, InvRecv
<1>2. CASE RecvFails \/ RefuseMagic \/ RefuseCommand
  BY <1>2, InvRefuse
<1>3. CASE GetMagic
  BY <1>3, InvMagic
<1>4. CASE GetCommand \/ GetHandle \/ GetOffset \/ GetLength
  BY <1>4, InvField
<1>5. CASE QueueRead \/ BeginWrite \/ WriteData \/ ReplyToWrite
  BY <1>5, InvQueueRead, InvBeginWrite, InvWriteData, InvReplyToWrite
<1>6. CASE SendBlock \/ EndOfQueue
  BY <1>6, InvSendBlock, InvEndOfQueue
<1>7. CASE WriteReplyFails \/ SendBlockFails
  BY <1>7, InvBreaks
<1>8. CASE OtherWrites \/ UNCHANGED vars
  BY <1>8 DEF OtherWrites, vars, input, chunk, parser, queue, history,
              IInv, ShapeInv, ChunkInv, ServeInv, HeapHoldsQueue, BufferInBounds
<1> QED
  BY <1>1, <1>2, <1>3, <1>4, <1>5, <1>6, <1>7, <1>8 DEF Next, HandlerStep, Done

LEMMA InvHolds == Spec => []IInv
BY InvInit, InvStep, PTL DEF Spec

\* Every Spec: the queue never runs over the end of the heap buffer, whatever
\* the length the handshake left it with and however many reads a chunk holds
\* (ReadRequestQueue::Add, EnsureCapacity).
THEOREM QueueFits == Spec => []HeapHoldsQueue
<1>1. IInv => HeapHoldsQueue
  BY DEF IInv
<1> QED
  BY <1>1, InvHolds, PTL

\* Chunks and replies stay within the shared buffer, and the parser within the
\* chunk, for every length of the buffer that has room for a header and a byte
\* (TransmissionHandler and the two block sizes of HandleRequests).
THEOREM BufferFits == Spec => []BufferInBounds
<1>1. IInv => BufferInBounds
  BY DEF IInv
<1> QED
  BY <1>1, InvHolds, PTL

\* When the handler returns to wait for the client, the chunk is used up and
\* every read of it is answered in full (TransmissionHandler followed by
\* HandleRequests).
THEOREM NoReadWaits == Spec => []NothingWaits
<1>1. IInv => NothingWaits
  BY DEF IInv, ServeInv, NothingWaits
<1> QED
  BY <1>1, InvHolds, PTL

-----------------------------------------------------------------------------
(* What is sent are bytes, for a client that asks for what is there. *)

\* A read the parser has just completed lies within the device.  The code does
\* not check it: it is the client's part.
AskedInDevice ==
  pc = "command" /\ command = NBD_CMD_READ =>
    \A k \in 0 .. (request.length - 1) : request.offset + k \in DOMAIN disk

BytesInv ==
  /\ sent \in Seq(Byte) /\ sharedBuffer \in Seq(Byte)
  /\ \A a \in DOMAIN disk : disk[a] \in Byte
  /\ ReadsInDevice

LEMMA BytesInit == Init => BytesInv
<1> SUFFICES ASSUME Init PROVE BytesInv
  OBVIOUS
<1>1. PICK s \in Sessions : disk = s.disk
  BY DEF Init
<1>2. \A a \in DOMAIN disk : disk[a] \in Byte
  BY <1>1, ConstantsOK
<1>3. requests = <<>> /\ Len(<<>>) = 0 /\ <<>> \in Seq(Byte)
  BY EmptySeq DEF Init
<1> QED
  BY <1>2, <1>3 DEF Init, BytesInv, ReadsInDevice

\* send takes some of a block of bytes.
LEMMA BytesSendFails ==
  ASSUME BytesInv, NEW bytes \in Seq(Byte), SendFails(bytes)
  PROVE  BytesInv'
<1>1. PICK n \in 0 .. (Len(bytes) - 1) : sent' = sent \o SubSeq(bytes, 1, n)
  BY DEF SendFails
<1>2. Len(bytes) \in Nat
  BY LenProperties
<1>3. n \in 0 .. Len(bytes)
  BY <1>2
<1>4. SubSeq(bytes, 1, n) \in Seq(Byte)
  BY <1>3, Prefix
<1>5. sent' \in Seq(Byte)
  BY <1>1, <1>4, BytesJoined DEF BytesInv
<1>6. UNCHANGED <<sharedBuffer, disk, requests>>
  BY DEF SendFails, Close, chunk, queue
<1> QED
  BY <1>5, <1>6 DEF BytesInv, ReadsInDevice

LEMMA BytesWriteData == IInv /\ BytesInv /\ WriteData => BytesInv'
<1> SUFFICES ASSUME IInv, BytesInv, WriteData PROVE BytesInv'
  OBVIOUS
<1> DEFINE n == WriteSize
           bytes == Chunk(n)
<1>1. /\ pc = "parse" /\ disk' = Write(bytes, request.offset)
      /\ UNCHANGED <<sharedBuffer, requests, sent>>
  BY DEF WriteData, Consume, queue
<1>2. bytes \in Seq(Byte)
  <2>1. /\ request.length \in Nat /\ size \in Nat /\ buffer \in Nat
        /\ buffer + size = Len(sharedBuffer)
    BY <1>1 DEF IInv, ShapeInv, BufferInBounds, Requests
  <2>2. n \in 0 .. size
    BY <2>1 DEF WriteSize, Least
  <2> HIDE DEF n
  <2> QED
    BY <2>1, <2>2, ChunkType DEF BytesInv
<1> HIDE DEF bytes
<1>3. \A i \in 1 .. Len(bytes) : bytes[i] \in Byte
  BY <1>2, ElementOfSeq
<1>4. DOMAIN disk' = DOMAIN disk
  BY <1>1 DEF Write
<1>5. \A a \in DOMAIN disk' : disk'[a] \in Byte
  <2> TAKE a \in DOMAIN disk'
  <2>1. disk'[a] = IF a - request.offset \in 0 .. (Len(bytes) - 1)
                   THEN bytes[a - request.offset + 1] ELSE disk[a]
    BY <1>1, <1>4 DEF Write
  <2>2. \A x \in 0 .. (Len(bytes) - 1) : bytes[x + 1] \in Byte
    <3>1. Len(bytes) \in Nat
      BY <1>2, LenProperties
    <3> QED
      BY <1>3, <3>1
  <2>3. disk[a] \in Byte
    BY <1>4 DEF BytesInv
  <2> QED
    BY <2>1, <2>2, <2>3
<1> QED
  BY <1>1, <1>4, <1>5 DEF BytesInv, ReadsInDevice

LEMMA BytesQueueRead == IInv /\ BytesInv /\ AskedInDevice /\ QueueRead => BytesInv'
<1> SUFFICES ASSUME IInv, BytesInv, AskedInDevice, QueueRead PROVE BytesInv'
  OBVIOUS
<1> DEFINE added == [handle      |-> request.handle,
                     offset      |-> request.offset,
                     length      |-> request.length,
                     headersSent |-> 0]
<1>1. pc = "command" /\ command = NBD_CMD_READ
  BY DEF QueueRead
<1>2. UNCHANGED <<sharedBuffer, sent, disk>>
  BY DEF QueueRead, chunk
<1>3. requests' = Append(requests, added)
  BY MoveKeepsQueue DEF QueueRead
<1>4. \A k \in 0 .. (added.length - 1) : added.offset + k \in DOMAIN disk
  BY <1>1 DEF AskedInDevice
<1>5. added \in ReadRequests /\ requests \in Seq(ReadRequests) /\ Len(requests) \in Nat
  BY LenProperties DEF IInv, ShapeInv, Requests, ReadRequests
<1> HIDE DEF added
<1>6. /\ Len(requests') = Len(requests) + 1 /\ requests'[Len(requests) + 1] = added
      /\ \A i \in 1 .. Len(requests) : requests'[i] = requests[i]
  BY <1>3, <1>5, AppendProperties
<1>7. \A i \in 1 .. Len(requests') :
        i \in 1 .. Len(requests) \/ i = Len(requests) + 1
  BY <1>5, <1>6
<1>8. ReadsInDevice'
  BY <1>2, <1>4, <1>6, <1>7 DEF BytesInv, ReadsInDevice
<1> QED
  BY <1>2, <1>8 DEF BytesInv

\* What a block takes of a reply's data is the first of it.
LEMMA BlockOnDevice ==
  ASSUME IInv, BytesInv, index < count
  PROVE  /\ Block.bytes \in Seq(Byte)
         /\ \A k \in 0 .. (current.length - Block.data - 1) :
              NextOffset + k \in DOMAIN disk
<1>1. index + 1 \in 1 .. Len(requests) /\ requests \in Seq(ReadRequests)
  BY DEF IInv, ShapeInv
<1>2. \A k \in 0 .. (current.length - 1) : current.offset + k \in DOMAIN disk
  BY <1>1 DEF BytesInv, ReadsInDevice, current
<1>3. \A k \in 0 .. (current.length - 1) : disk[current.offset + k] \in Byte
  BY <1>2 DEF BytesInv
<1>4. Block.data \in 0 .. current.length /\ Block.bytes \in Seq(Byte \cup Byte)
  BY <1>3, BlockType
<1>5. current.length \in Nat /\ current.offset \in Nat
  <2>1. current \in ReadRequests
    BY <1>1, ElementOfSeq DEF current
  <2> HIDE DEF current
  <2> QED
    BY <2>1 DEF ReadRequests
<1>6. ASSUME NEW k \in 0 .. (current.length - Block.data - 1)
      PROVE  NextOffset + k \in DOMAIN disk
  <2> DEFINE n == Block.data
             m == current.length
             o == current.offset
  <2>1. n \in 0 .. m /\ m \in Nat /\ o \in Nat /\ k \in 0 .. (m - n - 1)
    BY <1>4, <1>5
  <2> HIDE DEF n, m, o
  <2>2. n + k \in 0 .. (m - 1) /\ o + (n + k) = o + n + k
    BY <2>1
  <2>3. o + (n + k) \in DOMAIN disk
    BY <1>2, <2>2 DEF m, o
  <2> QED
    BY <2>2, <2>3 DEF NextOffset, n, o
<1>7. Byte \cup Byte = Byte
  OBVIOUS
<1> QED
  BY <1>4, <1>6, <1>7

LEMMA BytesSendBlock == IInv /\ BytesInv /\ SendBlock => BytesInv'
<1> SUFFICES ASSUME IInv, BytesInv, SendBlock PROVE BytesInv'
  OBVIOUS
<1> DEFINE rest == [current EXCEPT !.headersSent = 16,
                                   !.offset = NextOffset, !.length = @ - Block.data]
<1>1. /\ index < count /\ sharedBuffer' = Overlay(Block.bytes)
      /\ sent' = sent \o Block.bytes /\ disk' = disk
      /\ requests' = [requests EXCEPT ![index + 1] = rest]
  BY DEF SendBlock, BlockIsDue
<1>2. /\ Block.bytes \in Seq(Byte)
      /\ \A k \in 0 .. (current.length - Block.data - 1) : NextOffset + k \in DOMAIN disk
  BY <1>1, BlockOnDevice
<1>3. sent' \in Seq(Byte)
  BY <1>1, <1>2, BytesJoined DEF BytesInv
<1>4. sharedBuffer' \in Seq(Byte)
  <2>1. Overlay(Block.bytes) \in Seq(Byte \cup Byte)
    BY <1>2, OverlayType DEF BytesInv
  <2>2. Byte \cup Byte = Byte
    OBVIOUS
  <2> QED
    BY <1>1, <2>1, <2>2
<1>5. /\ requests \in Seq(ReadRequests) /\ index + 1 \in 1 .. Len(requests)
      /\ Len(requests) \in Nat /\ DOMAIN requests = 1 .. Len(requests)
  BY <1>1, LenProperties DEF IInv, ShapeInv
<1>6. current \in ReadRequests
  BY <1>5, ElementOfSeq DEF current
<1>7. rest.length = current.length - Block.data /\ rest.offset = NextOffset
  <2> HIDE DEF current
  <2> QED
    BY <1>6 DEF ReadRequests
<1> HIDE DEF rest
<1>8. /\ DOMAIN requests' = DOMAIN requests /\ requests'[index + 1] = rest
      /\ \A i \in 1 .. Len(requests) : i # index + 1 => requests'[i] = requests[i]
  BY <1>1, <1>5
<1>9. Len(requests') = Len(requests)
  BY <1>1, <1>5
<1>10. ASSUME NEW i \in 1 .. Len(requests), NEW k \in 0 .. (requests'[i].length - 1)
       PROVE  requests'[i].offset + k \in DOMAIN disk
  <2>1. CASE i = index + 1
    BY <1>2, <1>7, <1>8, <1>10, <2>1
  <2>2. CASE i # index + 1
    BY <1>8, <1>10, <2>2 DEF BytesInv, ReadsInDevice
  <2> QED
    BY <2>1, <2>2
<1>11. ReadsInDevice'
  BY <1>1, <1>9, <1>10 DEF ReadsInDevice
<1> QED
  BY <1>1, <1>3, <1>4, <1>11 DEF BytesInv

LEMMA BytesStep == IInv /\ BytesInv /\ AskedInDevice /\ [Next]_vars => BytesInv'
<1> SUFFICES ASSUME IInv, BytesInv, AskedInDevice, [Next]_vars PROVE BytesInv'
  OBVIOUS
<1>1. CASE Recv
  <2>1. PICK n \in 1 .. SHARED_BUFFER_SIZE :
          arrived + n =< Len(stream) /\ sharedBuffer' = SubSeq(stream, arrived + 1, arrived + n)
    BY <1>1 DEF Recv
  <2>2. stream \in Seq(Byte) /\ arrived \in Nat /\ Len(stream) \in Nat /\ n \in Nat
    BY LenProperties, ConstantsOK DEF IInv, ShapeInv
  <2>3. \A i \in (arrived + 1) .. (arrived + n) : stream[i] \in Byte
    BY <2>1, <2>2, ElementOfSeq
  <2>4. sharedBuffer' \in Seq(Byte)
    BY <2>1, <2>2, <2>3, SubSeqProperties
  <2>5. UNCHANGED <<sent, disk, requests>>
    BY <1>1 DEF Recv, queue
  <2> QED
    BY <2>4, <2>5 DEF BytesInv, ReadsInDevice
<1>2. CASE RecvFails \/ RefuseMagic \/ RefuseCommand
  BY <1>2 DEF RecvFails, RefuseMagic, RefuseCommand, Close, chunk, queue, BytesInv, ReadsInDevice
<1>3. CASE GetMagic \/ GetCommand \/ GetHandle \/ GetOffset \/ GetLength
  <2>1. UNCHANGED <<sharedBuffer, queue, disk, sent>>
    BY <1>3 DEF GetMagic, GetCommand, GetHandle, GetOffset, GetLength, GetField,
                Continue, Consume
  <2> QED
    BY <2>1 DEF queue, BytesInv, ReadsInDevice
<1>4. CASE QueueRead
  BY <1>4, BytesQueueRead
<1>5. CASE BeginWrite
  BY <1>5 DEF BeginWrite, chunk, queue, BytesInv, ReadsInDevice
<1>6. CASE WriteData
  BY <1>6, BytesWriteData
<1>7. ReplyHeader(request.handle) \in Seq(Byte)
  <2>1. 8 \in 0 .. 8
    OBVIOUS
  <2>2. Power[8] \in Nat
    BY <2>1, PowerType
  <2>3. request.handle \in Nat
    BY <2>2 DEF IInv, ShapeInv, Requests
  <2> QED
    BY <2>3, ReplyHeaderType
<1>8. CASE ReplyToWrite
  <2>1. sent' = sent \o ReplyHeader(request.handle) /\ UNCHANGED <<sharedBuffer, disk, requests>>
    BY <1>8 DEF ReplyToWrite, ResponseBuffer, queue
  <2>2. sent' \in Seq(Byte)
    BY <1>7, <2>1, BytesJoined DEF BytesInv
  <2> QED
    BY <2>1, <2>2 DEF BytesInv, ReadsInDevice
<1>9. CASE WriteReplyFails
  BY <1>7, <1>9, BytesSendFails DEF WriteReplyFails
<1>10. CASE SendBlock
  BY <1>10, BytesSendBlock
<1>11. CASE SendBlockFails
  BY <1>11, BlockOnDevice, BytesSendFails DEF SendBlockFails, BlockIsDue
<1>12. CASE EndOfQueue
  <2>1. UNCHANGED <<disk, sent>> /\ sharedBuffer' = <<>> /\ requests' = <<>>
    BY <1>12 DEF EndOfQueue
  <2>2. <<>> \in Seq(Byte) /\ Len(<<>>) = 0
    BY EmptySeq
  <2> QED
    BY <2>1, <2>2 DEF BytesInv, ReadsInDevice
<1>13. CASE OtherWrites
  <2>1. PICK a \in shared, b \in Byte : disk' = [disk EXCEPT ![a] = b]
    BY <1>13 DEF OtherWrites
  <2>2. DOMAIN disk' = DOMAIN disk /\ \A c \in DOMAIN disk : disk'[c] \in Byte
    BY <2>1 DEF BytesInv
  <2>3. UNCHANGED <<sharedBuffer, sent, requests>>
    BY <1>13 DEF OtherWrites, chunk, queue
  <2> QED
    BY <2>2, <2>3 DEF BytesInv, ReadsInDevice
<1>14. CASE UNCHANGED vars
  BY <1>14 DEF vars, chunk, queue, BytesInv, ReadsInDevice
<1> QED
  BY <1>1, <1>2, <1>3, <1>4, <1>5, <1>6, <1>8, <1>9, <1>10, <1>11, <1>12, <1>13, <1>14
  DEF Next, HandlerStep, Done

LEMMA BytesHold == Spec /\ []AskedInDevice => []BytesInv
BY BytesInit, InvHolds, BytesStep, PTL DEF Spec

\* For a client whose reads lie within the device, HandleRequests reads nothing
\* beyond it however many blocks a reply is sent in: offset and length go on
\* together, by the data of each block and not by its header.
THEOREM StaysInDevice == Spec /\ []AskedInDevice => []ReadsInDevice
<1>1. BytesInv => ReadsInDevice
  BY DEF BytesInv
<1> QED
  BY <1>1, BytesHold, PTL

\* For such a client every variable keeps its type: fields keep within their
\* widths, a write's length never passes 0, the replies are bytes
\* (TransmissionHandler, HandleRequests).
THEOREM TypeCorrect == Spec /\ []AskedInDevice => []TypeOK
<1>1. IInv /\ BytesInv => TypeOK
  <2> SUFFICES ASSUME IInv, BytesInv PROVE TypeOK
    OBVIOUS
  <2>1. size \in Nat
    BY DEF IInv, ShapeInv
  <2>2. sharedBuffer \in Seq(Byte) /\ sent \in Seq(Byte)
    BY DEF BytesInv
  <2> QED
    BY <2>1, <2>2, Zenon DEF IInv, ShapeInv, Requests, ReadRequests, TypeOK
<1> QED
  BY <1>1, InvHolds, BytesHold, PTL
=============================================================================

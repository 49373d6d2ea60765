------------------------ MODULE NbdHandshakeProofs --------------------------
(***************************************************************************)
(* Safety of the resumable parser of the handshake, whatever a client      *)
(* sends and however it is cut into chunks; and that what it does with the *)
(* chunks is the negotiation of the whole stream (Negotiation).            *)
(***************************************************************************)
EXTENDS NbdHandshake, SequenceTheorems, TLAPS

\* The heap cannot hold an option so long that 20 + optionLength wraps, as in a
\* process of 32 bits, whose address space is never free for one allocation.
\* Only what an option's data is depends on it (see the run handshake_wrap).
SmallHeap == HeapLimit + 20 < Width

-----------------------------------------------------------------------------
(* Bytes and numbers. *)

\* One more digit.
LEMMA Digit ==
  ASSUME NEW b \in Nat \ {0}, NEW m \in Nat \ {0}, NEW x \in 0 .. (m - 1),
         NEW d \in 0 .. (b - 1)
  PROVE  m * b \in Nat \ {0} /\ x * b + d \in 0 .. (m * b - 1)
<1>1. m * b \in Nat \ {0} /\ x * b \in Nat
  OBVIOUS
<1>2. (m - 1 - x) * b \in Nat
  <2>1. m - 1 - x \in Nat
    OBVIOUS
  <2>2. \A u, v \in Nat : u * v \in Nat
    OBVIOUS
  <2> QED
    BY <2>1, <2>2
<1>3. (m - 1 - x) * b = m * b - b - x * b
  OBVIOUS
<1> QED
  BY <1>1, <1>2, <1>3

\* Four bytes are a UINT.
LEMMA NumberType ==
  ASSUME NEW w \in [1 .. 4 -> Byte]
  PROVE  Number(w) \in 0 .. (Width - 1)
<1> DEFINE b  == Base
           h2 == w[1] * b + w[2]
           h3 == h2 * b + w[3]
           h4 == h3 * b + w[4]
<1>1. /\ b \in Nat \ {0} /\ w[1] \in 0 .. (b - 1) /\ w[2] \in 0 .. (b - 1)
      /\ w[3] \in 0 .. (b - 1) /\ w[4] \in 0 .. (b - 1)
  BY ConstantsOK DEF Byte
<1> HIDE DEF b
<1>2. b * b \in Nat \ {0} /\ h2 \in 0 .. (b * b - 1)
  BY <1>1, Digit
<1>3. b * b * b \in Nat \ {0} /\ h3 \in 0 .. (b * b * b - 1)
  <2> HIDE DEF h2
  <2> QED
    BY <1>1, <1>2, Digit
<1>4. h4 \in 0 .. (b * b * b * b - 1)
  <2> HIDE DEF h3
  <2> QED
    BY <1>1, <1>3, Digit
<1>5. w[1] * b * b * b + w[2] * b * b + w[3] * b + w[4] = h4
  BY <1>1
<1> QED
  BY <1>4, <1>5 DEF Number, Width, b

LEMMA WidthType == Width \in Nat \ {0} /\ Base \in Nat \ {0}
<1>1. \A x, y \in Nat \ {0} : x * y \in Nat \ {0}
  OBVIOUS
<1>2. Base \in Nat \ {0}
  BY ConstantsOK
<1>3. Base * Base \in Nat \ {0}
  BY <1>1, <1>2
<1>4. Base * Base * Base \in Nat \ {0}
  BY <1>1, <1>2, <1>3
<1> QED
  BY <1>1, <1>2, <1>4 DEF Width

LEMMA ZeroType == ZeroWord \in [1 .. 4 -> Byte]
<1>1. 0 \in Byte
  BY ConstantsOK DEF Byte
<1> QED
  BY <1>1 DEF ZeroWord

\* The fields of an option's header end within a UINT, and so does a chunk.
LEMMA Small ==
  /\ HeapLimit \in Nat /\ Width \in Nat /\ HeapLimit < Width
  /\ SHARED_BUFFER_SIZE \in Nat /\ SHARED_BUFFER_SIZE + 20 < Width
  /\ \A i \in 0 .. (SHARED_BUFFER_SIZE + 20) : i \in UINT
  /\ \A i \in 0 .. (Width - 1) : i \in UINT
<1>1. HeapLimit \in UINT /\ Width \in Nat
  BY ConstantsOK, WidthType
<1>2. SHARED_BUFFER_SIZE \in Nat /\ SHARED_BUFFER_SIZE + 20 < Width
  BY ConstantsOK
<1> QED
  BY <1>1, <1>2 DEF UINT

LEMMA WordIsSequence ==
  ASSUME NEW w \in [1 .. 4 -> Byte]
  PROVE  w \in Seq(Byte) /\ Len(w) = 4
<1>1. w \in Seq(Byte)
  <2>1. Seq(Byte) = UNION {[1 .. m -> Byte] : m \in Nat}
    BY SeqDef, Zenon
  <2>2. w \in [1 .. 4 -> Byte] /\ 4 \in Nat
    OBVIOUS
  <2> QED
    BY <2>1, <2>2
<1>2. DOMAIN w = 1 .. Len(w) /\ Len(w) \in Nat
  BY <1>1, LenProperties
<1>3. 4 \in DOMAIN w /\ 5 \notin DOMAIN w
  OBVIOUS
<1>4. 4 =< Len(w) /\ ~(5 =< Len(w))
  BY <1>2, <1>3
<1> QED
  BY <1>1, <1>2, <1>4

\* A sum that wraps once.
LEMMA WrapOnce ==
  ASSUME NEW x \in Nat, NEW y \in Nat \ {0}, x - y \in 0 .. (y - 1)
  PROVE  x % y = x - y
OBVIOUS

\* Shifting bytes into a UINT keeps its last four.
LEMMA ShiftInType ==
  ASSUME NEW w \in [1 .. 4 -> Byte], NEW bytes \in Seq(Byte)
  PROVE  /\ ShiftIn(w, bytes) \in [1 .. 4 -> Byte]
         /\ \A i \in 1 .. 4 :
              ShiftIn(w, bytes)[i] = IF Len(bytes) + i =< 4 THEN w[Len(bytes) + i]
                                     ELSE bytes[Len(bytes) + i - 4]
<1> DEFINE n == Len(bytes)
           all == w \o bytes
<1>1. n \in Nat
  BY LenProperties
<1>2. w \in Seq(Byte) /\ Len(w) = 4
  BY WordIsSequence
<1>3. /\ all \in Seq(Byte) /\ Len(all) = Len(w) + Len(bytes)
      /\ \A i \in 1 .. (Len(w) + Len(bytes)) :
           all[i] = IF i =< Len(w) THEN w[i] ELSE bytes[i - Len(w)]
  BY <1>2, ConcatProperties, Zenon
<1> HIDE DEF all
<1>4. \A i \in (n + 1) .. (n + 4) :
        all[i] \in Byte /\ all[i] = IF i =< 4 THEN w[i] ELSE bytes[i - 4]
  <2>1. \A i \in (n + 1) .. (n + 4) : i \in 1 .. (Len(w) + Len(bytes)) /\ i \in 1 .. Len(all)
    BY <1>1, <1>2, <1>3
  <2>2. \A i \in 1 .. Len(all) : all[i] \in Byte
    BY <1>3, ElementOfSeq
  <2> QED
    BY <1>2, <1>3, <2>1, <2>2
<1>5. /\ SubSeq(all, n + 1, n + 4) \in Seq(Byte)
      /\ Len(SubSeq(all, n + 1, n + 4)) = 4
      /\ \A i \in 1 .. 4 : SubSeq(all, n + 1, n + 4)[i] = all[n + i]
  BY <1>1, <1>4, SubSeqProperties
<1> DEFINE s == SubSeq(all, n + 1, n + 4)
<1>6. s \in [1 .. 4 -> Byte]
  <2> HIDE DEF s
  <2>1. s \in Seq(Byte) /\ Len(s) = 4
    BY <1>5 DEF s
  <2> QED
    BY <2>1, LenProperties, SeqDef
<1>7. ShiftIn(w, bytes) = s
  BY DEF ShiftIn, all
<1>8. \A i \in 1 .. 4 : n + i \in (n + 1) .. (n + 4) /\ n + i - 4 = (n + i) - 4
  BY <1>1
<1>9. \A i \in 1 .. 4 : s[i] = IF n + i =< 4 THEN w[n + i] ELSE bytes[n + i - 4]
  BY <1>4, <1>5, <1>8
<1> QED
  BY <1>6, <1>7, <1>9

-----------------------------------------------------------------------------
(* The inductive invariant. *)

Running == handler = "handshake"

\* Where the handler resumes is where it left off, with the chunk used up.
PlaceInv ==
  /\ ~Running => pc = "recv"
  /\ pc = "flags" => state < 4
  /\ pc = "magic" => state \in 4 .. 11
  /\ pc = "id" => state \in 12 .. 15
  /\ pc = "length" => state \in 16 .. 19
  /\ pc = "storage" => state = 20
  /\ Running /\ pc # "option" => state =< taken
  /\ Running /\ pc = "recv" => taken = arrived
  /\ size =< SHARED_BUFFER_SIZE

\* While a field is received its last bytes are the last ones taken; then it
\* is what the option holds at that place.
WordInv ==
  Running /\ (pc = "option" => SmallHeap) =>
    \A i \in 1 .. 4 :
      /\ state \in 12 .. 15 /\ i > 16 - state => word[i] = stream[taken - 4 + i]
      /\ state >= 16 => word[i] = stream[optionStart + 8 + i]
      /\ state \in 16 .. 19 /\ i > 20 - state => lengthWord[i] = stream[taken - 4 + i]
      /\ state >= 20 => lengthWord[i] = stream[optionStart + 12 + i]

\* An option's data is being collected on the heap.
Collecting == Running /\ (pc = "data" \/ (pc = "recv" /\ state >= 20))

CollectInv ==
  Collecting =>
    /\ state \in 20 .. (19 + optionLength) /\ optionLength =< heapLength
    /\ state = 20 \/ 20 + optionLength < Width
    /\ Len(heapData) = state - 20
    /\ \A i \in 1 .. Len(heapData) : heapData[i] = stream[taken - (state - 20) + i]

OptionInv ==
  pc = "option" =>
    /\ state >= 20 /\ taken >= 20
    /\ optionString \in {"buffer", "heap"}
    /\ SmallHeap => taken >= 20 + optionLength
    /\ SmallHeap /\ optionString = "heap" =>
         /\ Len(heapData) = optionLength
         /\ \A i \in 1 .. optionLength : heapData[i] = stream[taken - optionLength + i]

IInv == TypeOK /\ PlaceInv /\ WordInv /\ CollectInv /\ OptionInv /\ HeapInBounds

\* Numbers and sequences of the types above.
LEMMA Kinds ==
  ASSUME IInv
  PROVE  /\ taken \in Nat /\ arrived \in Nat /\ taken =< arrived /\ state \in Nat
         /\ stream \in Seq(Byte) /\ Len(stream) \in Nat /\ arrived =< Len(stream)
         /\ size \in Nat /\ heapLength \in Nat
         /\ optionLength \in Nat /\ optionLength < Width
         /\ heapData \in Seq(Byte) /\ Len(heapData) \in Nat
         /\ DOMAIN heapData = 1 .. Len(heapData)
<1>1. stream \in Seq(Byte) /\ heapData \in Seq(Byte)
  BY ConstantsOK DEF IInv, TypeOK
<1>2. /\ Len(stream) \in Nat /\ Len(heapData) \in Nat
      /\ DOMAIN heapData = 1 .. Len(heapData)
  BY <1>1, LenProperties
<1>3. optionLength \in Nat /\ optionLength < Width
  BY NumberType, WidthType DEF IInv, TypeOK, optionLength
<1>4. state \in Nat /\ heapLength \in Nat
  BY WidthType, ConstantsOK DEF IInv, TypeOK, UINT
<1>5. taken \in 0 .. arrived /\ arrived \in 0 .. Len(stream)
  BY DEF IInv, TypeOK
<1> QED
  BY <1>1, <1>2, <1>3, <1>4, <1>5 DEF size

\* A part of the chunk.
LEMMA ChunkType ==
  ASSUME IInv, NEW n \in 0 .. size
  PROVE  /\ Chunk(n) \in Seq(Byte) /\ Len(Chunk(n)) = n
         /\ \A i \in 1 .. n : Chunk(n)[i] = stream[taken + i]
<1>1. /\ taken \in Nat /\ n \in Nat /\ taken + n =< Len(stream)
      /\ stream \in Seq(Byte) /\ Len(stream) \in Nat
  BY Kinds DEF size
<1>2. \A i \in (taken + 1) .. (taken + n) : stream[i] \in Byte
  BY <1>1, ElementOfSeq
<1>3. /\ Chunk(n) \in Seq(Byte)
      /\ Len(Chunk(n)) = IF taken + 1 =< taken + n THEN taken + n - (taken + 1) + 1 ELSE 0
      /\ \A i \in 1 .. (taken + n - (taken + 1) + 1) : Chunk(n)[i] = stream[taken + 1 + i - 1]
  BY <1>1, <1>2, SubSeqProperties DEF Chunk
<1>4. /\ taken + n - (taken + 1) + 1 = n
      /\ \A i \in 1 .. n : taken + 1 + i - 1 = taken + i
  BY <1>1
<1> QED
  BY <1>1, <1>3, <1>4

\* A UINT with the next bytes of the chunk shifted in.
LEMMA Shifted ==
  ASSUME IInv, NEW w \in [1 .. 4 -> Byte], NEW n \in 0 .. size
  PROVE  /\ ShiftIn(w, Chunk(n)) \in [1 .. 4 -> Byte]
         /\ \A i \in 1 .. 4 :
              ShiftIn(w, Chunk(n))[i] = IF n + i =< 4 THEN w[n + i]
                                        ELSE stream[taken + n - 4 + i]
<1>1. /\ Chunk(n) \in Seq(Byte) /\ Len(Chunk(n)) = n
      /\ \A i \in 1 .. n : Chunk(n)[i] = stream[taken + i]
  BY ChunkType
<1>2. /\ ShiftIn(w, Chunk(n)) \in [1 .. 4 -> Byte]
      /\ \A i \in 1 .. 4 :
           ShiftIn(w, Chunk(n))[i] = IF n + i =< 4 THEN w[n + i] ELSE Chunk(n)[n + i - 4]
  <2> DEFINE c == Chunk(n)
  <2>1. c \in Seq(Byte)
    BY <1>1
  <2> HIDE DEF c
  <2>2. /\ ShiftIn(w, c) \in [1 .. 4 -> Byte]
        /\ \A i \in 1 .. 4 :
             ShiftIn(w, c)[i] = IF Len(c) + i =< 4 THEN w[Len(c) + i] ELSE c[Len(c) + i - 4]
    BY <2>1, ShiftInType
  <2>3. Len(c) = n
    BY <1>1 DEF c
  <2> QED
    BY <2>2, <2>3 DEF c
<1>3. n \in Nat /\ taken \in Nat
  BY Kinds
<1>4. \A i \in 1 .. 4 :
        n + i > 4 => n + i - 4 \in 1 .. n /\ taken + (n + i - 4) = taken + n - 4 + i
  BY <1>3
<1>5. \A i \in 1 .. 4 : n + i > 4 => Chunk(n)[n + i - 4] = stream[taken + n - 4 + i]
  BY <1>1, <1>4
<1> QED
  BY <1>2, <1>3, <1>5

\* What a case takes of the chunk, and where it leaves the handler.
LEMMA Continued ==
  ASSUME IInv, NEW end \in Nat, state < end, NEW case, Continue(end, case)
  PROVE  /\ ConsumeSize(end) \in 0 .. size
         /\ taken' = taken + ConsumeSize(end) /\ taken' \in 0 .. arrived
         /\ state' = state + ConsumeSize(end) /\ state' =< end
         /\ stream' = stream /\ arrived' = arrived
         /\ pc' = IF state' < end THEN "recv" ELSE case
         /\ state' < end => taken' = arrived
         /\ size' =< SHARED_BUFFER_SIZE
<1> DEFINE n == ConsumeSize(end)
<1>1. /\ taken \in Nat /\ arrived \in Nat /\ taken =< arrived /\ state \in Nat
      /\ size \in Nat /\ size = arrived - taken
  BY Kinds DEF size
<1>2. n \in 0 .. size /\ state + n =< end /\ (state + n < end => n = size)
  BY <1>1 DEF ConsumeSize
<1> HIDE DEF n
<1>3. /\ taken' = taken + n /\ stream' = stream /\ arrived' = arrived /\ state' = state + n
      /\ pc' = IF state' < end THEN "recv" ELSE case
  BY DEF Continue, Consume, n
<1>4. taken' \in 0 .. arrived /\ (state' < end => taken' = arrived)
  BY <1>1, <1>2, <1>3
<1>5. size' =< SHARED_BUFFER_SIZE
  <2>1. size =< SHARED_BUFFER_SIZE
    BY DEF IInv, PlaceInv
  <2>2. size' = arrived - (taken + n)
    BY <1>3 DEF size
  <2> QED
    BY <1>1, <1>2, <2>1, <2>2, Small
<1> QED
  BY <1>2, <1>3, <1>4, <1>5 DEF n

-----------------------------------------------------------------------------
(* Each step keeps the invariant. *)

LEMMA InvInit == Init => IInv
<1> SUFFICES ASSUME Init PROVE IInv
  OBVIOUS
<1>1. /\ stream \in Seq(Byte) /\ Len(stream) \in Nat /\ <<>> \in Seq(Byte) /\ Len(<<>>) = 0
  BY ConstantsOK, LenProperties, EmptySeq DEF Init
<1>2. ZeroWord \in [1 .. 4 -> Byte]
  BY ZeroType
<1>3. 0 \in UINT /\ 0 \in 0 .. HeapLimit
  BY WidthType, ConstantsOK DEF UINT
<1>4. TypeOK
  <2>1. taken \in 0 .. arrived /\ arrived \in 0 .. Len(stream)
    BY <1>1 DEF Init
  <2>2. heapData \in Seq(Byte)
    BY <1>1, Zenon DEF Init
  <2>3. lost \in BOOLEAN /\ export \in Exports \cup {None}
    BY Zenon DEF Init
  <2>4. state \in UINT /\ heapLength \in 0 .. HeapLimit
    BY <1>3 DEF Init
  <2>5. word \in [1 .. 4 -> Byte] /\ lengthWord \in [1 .. 4 -> Byte]
    BY <1>2, Zenon DEF Init
  <2> QED
    BY <2>1, <2>2, <2>3, <2>4, <2>5 DEF Init, TypeOK
<1>5. handler = "handshake" /\ pc = "recv" /\ state = 0 /\ taken = 0 /\ arrived = 0
      /\ Len(heapData) = 0 /\ heapLength = 0 /\ size = 0
  BY <1>1 DEF Init, size
<1> QED
  BY <1>4, <1>5, Small
  DEF IInv, PlaceInv, WordInv, CollectInv, Collecting, OptionInv, HeapInBounds, Running

LEMMA InvRecv == IInv /\ Recv => IInv'
<1> SUFFICES ASSUME IInv, Recv PROVE IInv'
  OBVIOUS
<1>1. PICK n \in 1 .. SHARED_BUFFER_SIZE :
        arrived + n =< Len(stream) /\ arrived' = arrived + n
  BY DEF Recv
<1>2. /\ handler = "handshake" /\ pc = "recv" /\ optionString' = "NULL"
      /\ pc' = CaseOf(state)
      /\ UNCHANGED <<stream, taken, handler, state, word, lengthWord, heapLength, heapData,
                     export, lost>>
  BY DEF Recv, fields, heap
<1>3. /\ taken \in Nat /\ arrived \in Nat /\ taken =< arrived /\ state \in Nat
      /\ Len(stream) \in Nat /\ n \in Nat
  BY Kinds, ConstantsOK
<1>4. \/ state < 4 /\ pc' = "flags"
      \/ state \in 4 .. 11 /\ pc' = "magic"
      \/ state \in 12 .. 15 /\ pc' = "id"
      \/ state \in 16 .. 19 /\ pc' = "length"
      \/ state >= 20 /\ pc' = "data"
  <2>1. pc' = CaseOf(state) /\ state \in Nat
    BY <1>2, <1>3
  <2> QED
    BY <2>1 DEF CaseOf
<1>5. TypeOK'
  <2>1. taken' \in 0 .. arrived' /\ arrived' \in 0 .. Len(stream')
    BY <1>1, <1>2, <1>3
  <2> QED
    BY <1>2, <1>4, <2>1 DEF IInv, TypeOK
<1>6. PlaceInv'
  <2>1. taken = arrived
    BY <1>2 DEF IInv, PlaceInv, Running
  <2>2. size' =< SHARED_BUFFER_SIZE
    BY <1>1, <1>2, <1>3, <2>1, Small DEF size
  <2> QED
    BY <1>2, <1>4, <2>2 DEF IInv, PlaceInv, Running
<1>7. optionLength' = optionLength /\ optionStart' = optionStart
  BY <1>2, <1>4 DEF optionLength, optionStart
<1>8. WordInv'
  BY <1>2, <1>7 DEF IInv, WordInv, Running
<1>9. CollectInv' /\ OptionInv' /\ HeapInBounds'
  <2>1. Collecting' => Collecting
    BY <1>2, <1>4 DEF Collecting, Running
  <2> QED
    BY <1>2, <1>4, <1>7, <2>1 DEF IInv, CollectInv, OptionInv, HeapInBounds
<1> QED
  BY <1>5, <1>6, <1>8, <1>9 DEF IInv

\* The negotiation is over, one way or another.
LEMMA InvEnds ==
  ASSUME IInv, NEW how \in {"transmission", "closed", "crashed"}, Ends(how),
         export' \in Exports \cup {None}, lost' \in BOOLEAN
  PROVE  IInv'
<1>1. /\ handler' = how /\ pc' = "recv"
      /\ UNCHANGED <<stream, taken, arrived, state, word, lengthWord, heapLength, heapData,
                     optionString>>
  BY DEF Ends, input, fields, heap
<1>2. TypeOK'
  BY <1>1, Zenon DEF IInv, TypeOK
<1>3. ~Running'
  BY <1>1 DEF Running
<1>4. size' =< SHARED_BUFFER_SIZE
  BY <1>1 DEF IInv, PlaceInv, size
<1>5. PlaceInv'
  BY <1>1, <1>3, <1>4 DEF PlaceInv
<1> QED
  BY <1>1, <1>2, <1>3, <1>5
  DEF IInv, WordInv, CollectInv, Collecting, OptionInv, HeapInBounds

LEMMA InvOver ==
  IInv /\ (RecvFails \/ RefuseFlags \/ RefuseMagic \/ OutOfMemory \/ RefuseMore
             \/ RefuseExport \/ ToTransmissionMode \/ ReplyFails) => IInv'
<1> SUFFICES ASSUME IInv,
                    RecvFails \/ RefuseFlags \/ RefuseMagic \/ OutOfMemory \/ RefuseMore
                      \/ RefuseExport \/ ToTransmissionMode \/ ReplyFails
             PROVE  IInv'
  OBVIOUS
<1>1. export \in Exports \cup {None} /\ lost \in BOOLEAN
  BY Zenon DEF IInv, TypeOK
<1>2. CASE RecvFails \/ ReplyFails
  <2>1. Ends("closed") /\ export' = export /\ lost' = TRUE
    BY <1>2 DEF RecvFails, ReplyFails
  <2> QED
    BY <1>1, <2>1, InvEnds
<1>3. CASE RefuseFlags \/ RefuseMagic \/ RefuseMore \/ RefuseExport
  <2>1. Ends("closed") /\ export' = export /\ lost' = lost
    BY <1>3 DEF RefuseFlags, RefuseMagic, RefuseMore, RefuseExport
  <2>2. lost' \in BOOLEAN /\ export' \in Exports \cup {None}
    BY <1>1, <2>1, Zenon
  <2> QED
    BY <2>1, <2>2, InvEnds
<1>4. CASE OutOfMemory
  <2>1. Ends("crashed") /\ export' = export /\ lost' = lost
    BY <1>4 DEF OutOfMemory
  <2>2. lost' \in BOOLEAN /\ export' \in Exports \cup {None}
    BY <1>1, <2>1, Zenon
  <2> QED
    BY <2>1, <2>2, InvEnds
<1>5. CASE ToTransmissionMode
  <2>1. Ends("transmission") /\ lost' = lost /\ export' \in Exports \cup {None}
    BY <1>5 DEF ToTransmissionMode
  <2>2. lost' \in BOOLEAN
    BY <1>1, <2>1, Zenon
  <2> QED
    BY <2>1, <2>2, InvEnds
<1> QED
  BY <1>2, <1>3, <1>4, <1>5

\* Flags and magic: nothing of an option is known yet.
LEMMA InvFlags == IInv /\ GetClientFlags => IInv'
<1> SUFFICES ASSUME IInv, GetClientFlags PROVE IInv'
  OBVIOUS
<1> DEFINE n == ConsumeSize(4)
<1>1. /\ pc = "flags" /\ Continue(4, "magic") /\ word' = ShiftIn(word, Chunk(n))
      /\ UNCHANGED <<handler, lengthWord, heapLength, heapData, optionString, export, lost>>
  BY DEF GetClientFlags, Flags, heap
<1>2. state < 4 /\ handler = "handshake" /\ state =< taken
  BY <1>1 DEF IInv, PlaceInv, Running
<1>3. /\ n \in 0 .. size /\ taken' = taken + n /\ taken' \in 0 .. arrived
      /\ state' = state + n /\ state' =< 4 /\ stream' = stream /\ arrived' = arrived
      /\ pc' = IF state' < 4 THEN "recv" ELSE "magic"
      /\ (state' < 4 => taken' = arrived) /\ size' =< SHARED_BUFFER_SIZE
  BY <1>1, <1>2, Continued
<1> HIDE DEF n
<1>4. word' \in [1 .. 4 -> Byte]
  <2>1. word \in [1 .. 4 -> Byte]
    BY DEF IInv, TypeOK
  <2> QED
    BY <1>1, <1>3, <2>1, Shifted
<1>5. state' \in 0 .. 4 /\ state' =< taken' /\ state' \in UINT
  <2>1. state \in Nat /\ taken \in Nat /\ size \in Nat
    BY Kinds
  <2>2. state' \in 0 .. 4 /\ state' =< taken'
    BY <1>2, <1>3, <2>1
  <2> QED
    BY <2>2, Small
<1>6. TypeOK'
  BY <1>1, <1>3, <1>4, <1>5 DEF IInv, TypeOK
<1>7. PlaceInv'
  BY <1>1, <1>2, <1>3, <1>5 DEF PlaceInv, Running
<1>8. WordInv' /\ CollectInv' /\ OptionInv' /\ HeapInBounds'
  BY <1>1, <1>3, <1>5
  DEF IInv, WordInv, CollectInv, Collecting, OptionInv, HeapInBounds
<1> QED
  BY <1>6, <1>7, <1>8 DEF IInv

LEMMA InvMagic == IInv /\ GetMagic => IInv'
<1> SUFFICES ASSUME IInv, GetMagic PROVE IInv'
  OBVIOUS
<1> DEFINE n == ConsumeSize(12)
<1>1. /\ pc = "magic" /\ Continue(12, "id")
      /\ word' = IF pc' = "id" THEN ZeroWord ELSE word
      /\ UNCHANGED <<handler, lengthWord, heapLength, heapData, optionString, export, lost>>
  BY DEF GetMagic, heap
<1>2. state \in 4 .. 11 /\ handler = "handshake" /\ state =< taken
  BY <1>1 DEF IInv, PlaceInv, Running
<1>3. /\ n \in 0 .. size /\ taken' = taken + n /\ taken' \in 0 .. arrived
      /\ state' = state + n /\ state' =< 12 /\ stream' = stream /\ arrived' = arrived
      /\ pc' = IF state' < 12 THEN "recv" ELSE "id"
      /\ (state' < 12 => taken' = arrived) /\ size' =< SHARED_BUFFER_SIZE
  BY <1>1, <1>2, Continued
<1> HIDE DEF n
<1>4. word' \in [1 .. 4 -> Byte]
  <2>1. word \in [1 .. 4 -> Byte]
    BY DEF IInv, TypeOK
  <2> QED
    BY <1>1, <2>1, ZeroType, Zenon
<1>5. state' \in 4 .. 12 /\ state' =< taken' /\ state' \in UINT
  <2>1. state \in Nat /\ taken \in Nat /\ size \in Nat
    BY Kinds
  <2>2. state' \in 4 .. 12 /\ state' =< taken'
    BY <1>2, <1>3, <2>1
  <2> QED
    BY <2>2, Small
<1>6. TypeOK'
  BY <1>1, <1>3, <1>4, <1>5 DEF IInv, TypeOK
<1>7. PlaceInv'
  BY <1>1, <1>2, <1>3, <1>5 DEF PlaceInv, Running
<1>8. WordInv'
  <2>1. \A i \in 1 .. 4 :
          /\ ~(state' \in 12 .. 15 /\ i > 16 - state') /\ ~(state' >= 16)
          /\ ~(state' \in 16 .. 19 /\ i > 20 - state') /\ ~(state' >= 20)
    <3>1. \A s \in 4 .. 12, i \in 1 .. 4 :
            /\ ~(s \in 12 .. 15 /\ i > 16 - s) /\ ~(s >= 16)
            /\ ~(s \in 16 .. 19 /\ i > 20 - s) /\ ~(s >= 20)
      OBVIOUS
    <3> QED
      BY <1>5, <3>1, Zenon
  <2> QED
    BY <2>1, Zenon DEF WordInv
<1>9. CollectInv' /\ OptionInv' /\ HeapInBounds'
  BY <1>1, <1>3, <1>5
  DEF IInv, CollectInv, Collecting, OptionInv, HeapInBounds
<1> QED
  BY <1>6, <1>7, <1>8, <1>9 DEF IInv

\* The id: what is shifted in last is at the end of the word.
LEMMA InvOptionID == IInv /\ GetOptionID => IInv'
<1> SUFFICES ASSUME IInv, GetOptionID PROVE IInv'
  OBVIOUS
<1> DEFINE n == ConsumeSize(16)
<1>1. /\ pc = "id" /\ Continue(16, "length") /\ word' = ShiftIn(word, Chunk(n))
      /\ lengthWord' = IF pc' = "length" THEN ZeroWord ELSE lengthWord
      /\ UNCHANGED <<handler, heapLength, heapData, optionString, export, lost>>
  BY DEF GetOptionID, heap
<1>2. state \in 12 .. 15 /\ handler = "handshake" /\ state =< taken
  BY <1>1 DEF IInv, PlaceInv, Running
<1>3. /\ n \in 0 .. size /\ taken' = taken + n /\ taken' \in 0 .. arrived
      /\ state' = state + n /\ state' =< 16 /\ stream' = stream /\ arrived' = arrived
      /\ pc' = IF state' < 16 THEN "recv" ELSE "length"
      /\ (state' < 16 => taken' = arrived) /\ size' =< SHARED_BUFFER_SIZE
  BY <1>1, <1>2, Continued
<1> HIDE DEF n
<1>4. /\ word' \in [1 .. 4 -> Byte]
      /\ \A i \in 1 .. 4 :
           word'[i] = IF n + i =< 4 THEN word[n + i] ELSE stream[taken + n - 4 + i]
  <2>1. word \in [1 .. 4 -> Byte]
    BY DEF IInv, TypeOK
  <2> QED
    BY <1>1, <1>3, <2>1, Shifted
<1>5. lengthWord' \in [1 .. 4 -> Byte]
  <2>1. lengthWord \in [1 .. 4 -> Byte]
    BY DEF IInv, TypeOK
  <2> QED
    BY <1>1, <2>1, ZeroType, Zenon
<1>6. state \in Nat /\ taken \in Nat /\ size \in Nat /\ n \in Nat
  BY <1>3, Kinds
<1>7. state' \in 12 .. 16 /\ state' =< taken' /\ state' \in UINT
  <2>1. state' \in 12 .. 16 /\ state' =< taken'
    BY <1>2, <1>3, <1>6
  <2> QED
    BY <2>1, Small
<1>8. TypeOK'
  BY <1>1, <1>3, <1>4, <1>5, <1>7 DEF IInv, TypeOK
<1>9. PlaceInv'
  BY <1>1, <1>2, <1>3, <1>7 DEF PlaceInv, Running
<1>10. \A i \in 1 .. 4 : i > 16 - state' => word'[i] = stream'[taken' - 4 + i]
  <2>1. SUFFICES ASSUME NEW i \in 1 .. 4, i > 16 - state'
                 PROVE  word'[i] = stream[taken + n - 4 + i]
    BY <1>3, <1>6
  <2>2. CASE n + i =< 4
    <3>1. n + i \in 1 .. 4 /\ n + i > 16 - state /\ taken - 4 + (n + i) = taken + n - 4 + i
      BY <1>2, <1>3, <1>6, <2>1, <2>2
    <3>2. word[n + i] = stream[taken - 4 + (n + i)]
      BY <1>1, <1>2, <3>1 DEF IInv, WordInv, Running
    <3> QED
      BY <1>4, <2>2, <3>1, <3>2
  <2>3. CASE ~(n + i =< 4)
    BY <1>4, <2>3
  <2> QED
    BY <2>2, <2>3
<1>11. WordInv'
  <2> SUFFICES ASSUME NEW i \in 1 .. 4
               PROVE  /\ state' \in 12 .. 15 /\ i > 16 - state'
                           => word'[i] = stream'[taken' - 4 + i]
                      /\ state' >= 16 => word'[i] = stream'[optionStart' + 8 + i]
                      /\ state' \in 16 .. 19 /\ i > 20 - state'
                           => lengthWord'[i] = stream'[taken' - 4 + i]
                      /\ ~(state' >= 20)
    BY DEF WordInv
  <2>1. state' >= 16 => state' = 16 /\ optionStart' + 8 + i = taken' - 4 + i
    <3>1. taken' \in Nat
      BY <1>3, <1>6
    <3>2. state' >= 16 => state' = 16 /\ pc' = "length"
      BY <1>3, <1>7
    <3>3. state' >= 16 => optionStart' = taken' - (16 - 4)
      BY <3>2 DEF optionStart
    <3> QED
      BY <3>1, <3>2, <3>3
  <2>2. state' >= 16 => i > 16 - state' /\ ~(i > 20 - state')
    <3>1. \A s \in 12 .. 16 : s >= 16 => i > 16 - s /\ ~(i > 20 - s)
      OBVIOUS
    <3> QED
      BY <1>7, <3>1
  <2>3. ~(state' >= 20) /\ (state' \in 16 .. 19 => state' >= 16)
    BY <1>7
  <2>4. i > 16 - state' => word'[i] = stream'[taken' - 4 + i]
    BY <1>10
  <2> QED
    BY <2>1, <2>2, <2>3, <2>4, Zenon
<1>12. CollectInv' /\ OptionInv' /\ HeapInBounds'
  BY <1>1, <1>3, <1>7
  DEF IInv, CollectInv, Collecting, OptionInv, HeapInBounds
<1> QED
  BY <1>8, <1>9, <1>11, <1>12 DEF IInv

\* The length, while the id is kept.
LEMMA InvOptionLength == IInv /\ GetOptionLength => IInv'
<1> SUFFICES ASSUME IInv, GetOptionLength PROVE IInv'
  OBVIOUS
<1> DEFINE n == ConsumeSize(20)
<1>1. /\ pc = "length" /\ Continue(20, "storage")
      /\ lengthWord' = ShiftIn(lengthWord, Chunk(n))
      /\ UNCHANGED <<handler, word, heapLength, heapData, optionString, export, lost>>
  BY DEF GetOptionLength, heap
<1>2. state \in 16 .. 19 /\ handler = "handshake" /\ state =< taken
  BY <1>1 DEF IInv, PlaceInv, Running
<1>3. /\ n \in 0 .. size /\ taken' = taken + n /\ taken' \in 0 .. arrived
      /\ state' = state + n /\ state' =< 20 /\ stream' = stream /\ arrived' = arrived
      /\ pc' = IF state' < 20 THEN "recv" ELSE "storage"
      /\ (state' < 20 => taken' = arrived) /\ size' =< SHARED_BUFFER_SIZE
  BY <1>1, <1>2, Continued
<1> HIDE DEF n
<1>4. /\ lengthWord' \in [1 .. 4 -> Byte]
      /\ \A i \in 1 .. 4 :
           lengthWord'[i] = IF n + i =< 4 THEN lengthWord[n + i]
                            ELSE stream[taken + n - 4 + i]
  <2>1. lengthWord \in [1 .. 4 -> Byte]
    BY DEF IInv, TypeOK
  <2> QED
    BY <1>1, <1>3, <2>1, Shifted
<1>5. state \in Nat /\ taken \in Nat /\ size \in Nat /\ n \in Nat
  BY <1>3, Kinds
<1>6. state' \in 16 .. 20 /\ state' =< taken' /\ state' \in UINT
  <2>1. state' \in 16 .. 20 /\ state' =< taken'
    BY <1>2, <1>3, <1>5
  <2> QED
    BY <2>1, Small
<1>7. TypeOK'
  BY <1>1, <1>3, <1>4, <1>6 DEF IInv, TypeOK
<1>8. PlaceInv'
  BY <1>1, <1>2, <1>3, <1>6 DEF PlaceInv, Running
<1>9. \A i \in 1 .. 4 : i > 20 - state' => lengthWord'[i] = stream'[taken' - 4 + i]
  <2>1. SUFFICES ASSUME NEW i \in 1 .. 4, i > 20 - state'
                 PROVE  lengthWord'[i] = stream[taken + n - 4 + i]
    BY <1>3, <1>5
  <2>2. CASE n + i =< 4
    <3>1. n + i \in 1 .. 4 /\ n + i > 20 - state /\ taken - 4 + (n + i) = taken + n - 4 + i
      BY <1>2, <1>3, <1>5, <2>1, <2>2
    <3>2. lengthWord[n + i] = stream[taken - 4 + (n + i)]
      BY <1>1, <1>2, <3>1 DEF IInv, WordInv, Running
    <3> QED
      BY <1>4, <2>2, <3>1, <3>2
  <2>3. CASE ~(n + i =< 4)
    BY <1>4, <2>3
  <2> QED
    BY <2>2, <2>3
<1>10. optionStart' = optionStart /\ optionStart' = taken' - (state' - 4)
  <2>1. optionStart = taken - (state - 4)
    BY <1>1, <1>2 DEF optionStart
  <2>2. pc' # "option" /\ state' >= 4
    BY <1>3, <1>6
  <2>3. optionStart' = taken' - (state' - 4)
    BY <1>6, <2>2 DEF optionStart
  <2> QED
    BY <1>3, <1>5, <2>1, <2>3
<1>11. WordInv'
  <2> SUFFICES ASSUME NEW i \in 1 .. 4
               PROVE  /\ ~(state' \in 12 .. 15)
                      /\ word'[i] = stream'[optionStart' + 8 + i]
                      /\ state' \in 16 .. 19 /\ i > 20 - state'
                           => lengthWord'[i] = stream'[taken' - 4 + i]
                      /\ state' >= 20 => lengthWord'[i] = stream'[optionStart' + 12 + i]
    BY DEF WordInv
  <2>1. word[i] = stream[optionStart + 8 + i]
    BY <1>1, <1>2 DEF IInv, WordInv, Running
  <2>2. word'[i] = stream'[optionStart' + 8 + i]
    BY <1>1, <1>3, <1>10, <2>1
  <2>3. state' >= 20 => state' = 20 /\ optionStart' + 12 + i = taken' - 4 + i
    BY <1>3, <1>5, <1>6, <1>10
  <2>4. state' >= 20 => lengthWord'[i] = stream'[optionStart' + 12 + i]
    <3> SUFFICES ASSUME state' >= 20
                 PROVE  lengthWord'[i] = stream'[optionStart' + 12 + i]
      OBVIOUS
    <3>1. i > 20 - state'
      BY <2>3
    <3> QED
      BY <1>9, <2>3, <3>1
  <2>5. ~(state' \in 12 .. 15)
    BY <1>6
  <2> QED
    BY <1>9, <2>2, <2>4, <2>5, Zenon
<1>12. CollectInv' /\ OptionInv' /\ HeapInBounds'
  BY <1>1, <1>3, <1>6
  DEF IInv, CollectInv, Collecting, OptionInv, HeapInBounds
<1> QED
  BY <1>7, <1>8, <1>11, <1>12 DEF IInv

\* EnsureCapacity gives at least what it is asked for, and never shrinks.
LEMMA EnoughCapacity ==
  ASSUME IInv
  PROVE  /\ EnsureCapacity(optionLength) \in Nat
         /\ optionLength =< EnsureCapacity(optionLength)
<1>1. optionLength \in Nat /\ heapLength \in Nat
  BY Kinds
<1>2. (2 * heapLength) % Width \in Nat
  <2>1. \A x \in Nat, y \in Nat \ {0} : x % y \in Nat
    OBVIOUS
  <2>2. 2 * heapLength \in Nat
    BY <1>1
  <2> QED
    BY <2>1, <2>2, WidthType
<1> DEFINE double == (2 * heapLength) % Width
<1> HIDE DEF double
<1>3. /\ EnsureCapacity(optionLength) = IF optionLength > heapLength THEN Grown(optionLength)
                                        ELSE heapLength
      /\ Grown(optionLength) = IF heapLength = 0
                               THEN IF optionLength < DEFAULT_INITIAL_LENGTH
                                    THEN DEFAULT_INITIAL_LENGTH ELSE optionLength
                               ELSE IF optionLength > double THEN optionLength ELSE double
  BY DEF EnsureCapacity, Grown, double
<1>4. DEFAULT_INITIAL_LENGTH \in Nat /\ double \in Nat
  BY <1>2, ConstantsOK DEF double
<1> QED
  BY <1>1, <1>3, <1>4

LEMMA InvUseBuffer == IInv /\ UseBuffer => IInv'
<1> SUFFICES ASSUME IInv, UseBuffer PROVE IInv'
  OBVIOUS
<1>1. /\ pc = "storage" /\ size >= optionLength /\ taken' = taken + optionLength
      /\ optionString' = "buffer" /\ pc' = "option"
      /\ UNCHANGED <<stream, arrived, handler, state, word, lengthWord, heapLength, heapData,
                     export, lost>>
  BY DEF UseBuffer, Consume, fields, heap
<1>2. state = 20 /\ handler = "handshake" /\ state =< taken
  BY <1>1 DEF IInv, PlaceInv, Running
<1>3. taken \in Nat /\ arrived \in Nat /\ optionLength \in Nat /\ size = arrived - taken
  BY Kinds DEF size
<1>4. taken' \in 0 .. arrived /\ taken' >= 20 + optionLength
  BY <1>1, <1>2, <1>3
<1>5. optionLength' = optionLength
  BY <1>1 DEF optionLength
<1>6. optionStart' = optionStart
  <2>1. optionStart = taken - (state - 4) /\ optionStart' = taken' - 16 - optionLength'
    BY <1>1, <1>2 DEF optionStart
  <2> QED
    BY <1>1, <1>2, <1>3, <1>5, <2>1
<1>7. TypeOK'
  BY <1>1, <1>4 DEF IInv, TypeOK
<1>8. PlaceInv'
  <2>1. size =< SHARED_BUFFER_SIZE
    BY DEF IInv, PlaceInv
  <2>2. size' = arrived - (taken + optionLength)
    BY <1>1 DEF size
  <2>3. size' =< SHARED_BUFFER_SIZE
    BY <1>3, <2>1, <2>2, Small
  <2> QED
    BY <1>1, <1>2, <2>3 DEF PlaceInv, Running
<1>9. WordInv'
  <2>1. \A i \in 1 .. 4 : /\ word[i] = stream[optionStart + 8 + i]
                          /\ lengthWord[i] = stream[optionStart + 12 + i]
    BY <1>1, <1>2 DEF IInv, WordInv, Running
  <2> QED
    BY <1>1, <1>2, <1>6, <2>1 DEF WordInv
<1>10. CollectInv' /\ OptionInv' /\ HeapInBounds'
  <2>1. taken' >= 20
    BY <1>3, <1>4
  <2> QED
  BY <1>1, <1>2, <1>4, <1>5, <2>1
  DEF IInv, CollectInv, Collecting, OptionInv, HeapInBounds
<1> QED
  BY <1>7, <1>8, <1>9, <1>10 DEF IInv

LEMMA InvUseHeap == IInv /\ UseHeap => IInv'
<1> SUFFICES ASSUME IInv, UseHeap PROVE IInv'
  OBVIOUS
<1>1. /\ pc = "storage" /\ size < optionLength
      /\ heapLength' =< HeapLimit /\ heapLength' = EnsureCapacity(optionLength)
      /\ heapData' = <<>> /\ optionString' = "NULL" /\ pc' = "data"
      /\ UNCHANGED <<stream, taken, arrived, handler, state, word, lengthWord, export, lost>>
  BY DEF UseHeap, input, fields
<1>2. state = 20 /\ handler = "handshake" /\ state =< taken
  BY <1>1 DEF IInv, PlaceInv, Running
<1>3. size \in Nat /\ optionLength \in Nat /\ HeapLimit \in Int
  BY Kinds, WidthType, ConstantsOK DEF UINT
<1>4. heapLength' \in 0 .. HeapLimit /\ optionLength =< heapLength'
  BY <1>1, <1>3, EnoughCapacity
<1>5. heapData' \in Seq(Byte) /\ Len(heapData') = 0
  BY <1>1, EmptySeq
<1>6. optionLength' = optionLength /\ optionStart' = optionStart
  BY <1>1 DEF optionLength, optionStart
<1>7. TypeOK'
  BY <1>1, <1>4, <1>5 DEF IInv, TypeOK
<1>8. PlaceInv'
  <2>1. size' = size /\ size =< SHARED_BUFFER_SIZE
    BY <1>1 DEF IInv, PlaceInv, size
  <2> QED
    BY <1>1, <1>2, <2>1 DEF PlaceInv, Running
<1>9. WordInv'
  BY <1>1, <1>6 DEF IInv, WordInv, Running
<1>10. CollectInv'
  <2>1. state' \in 20 .. (19 + optionLength') /\ optionLength' =< heapLength'
    BY <1>1, <1>2, <1>3, <1>4, <1>6
  <2> QED
    BY <1>1, <1>2, <1>5, <2>1 DEF CollectInv
<1>11. OptionInv' /\ HeapInBounds'
  BY <1>1, <1>4, <1>5 DEF OptionInv, HeapInBounds
<1> QED
  BY <1>7, <1>8, <1>9, <1>10, <1>11 DEF IInv

\* How much of the data is taken, and where that leaves the handler.
LEMMA OptionDataTaken ==
  ASSUME IInv, GetOptionData
  PROVE  /\ \E n \in 0 .. size :
              /\ taken' = taken + n /\ state' = state + n /\ heapData' = Stored(Chunk(n))
         /\ taken' \in 0 .. arrived /\ state' =< taken'
         /\ state' \in 20 .. (20 + optionLength)
         /\ \/ /\ pc' = "recv" /\ taken' = arrived /\ state' < 20 + optionLength
               /\ 20 + optionLength < Width
            \/ /\ pc' = "option" /\ optionString' = "heap"
               /\ 20 + optionLength < Width => state' = 20 + optionLength
         /\ SmallHeap => 20 + optionLength < Width
         /\ (pc' = "option" => 20 + optionLength < Width) =>
              optionStart' = optionStart /\ optionStart' = taken' - (state' - 4)
<1> DEFINE needed == (optionLength + 20 - state) % Width
           n      == IF needed > size THEN size ELSE needed
<1>1. /\ pc = "data" /\ taken' = taken + n /\ heapData' = Stored(Chunk(n))
      /\ state' = state + n
      /\ IF state' < (20 + optionLength) % Width
         THEN pc' = "recv" /\ UNCHANGED optionString
         ELSE pc' = "option" /\ optionString' = "heap"
      /\ UNCHANGED <<stream, arrived, handler, word, lengthWord, heapLength, export, lost>>
  BY DEF GetOptionData, Consume
<1>2. handler = "handshake" /\ state =< taken
  BY <1>1 DEF IInv, PlaceInv, Running
<1>3. /\ state \in 20 .. (19 + optionLength) /\ optionLength =< heapLength
      /\ state = 20 \/ 20 + optionLength < Width
  BY <1>1, <1>2 DEF IInv, CollectInv, Collecting, Running
<1>4. /\ state \in Nat /\ taken \in Nat /\ arrived \in Nat /\ size \in Nat
      /\ size = arrived - taken /\ optionLength \in Nat /\ heapLength \in Nat
      /\ heapLength =< HeapLimit
  BY Kinds DEF size, IInv, TypeOK
<1>5. /\ needed = optionLength + 20 - state
      /\ (20 + optionLength) % Width =< 20 + optionLength
      /\ 20 + optionLength < Width => (20 + optionLength) % Width = 20 + optionLength
      /\ ~(20 + optionLength < Width) => (20 + optionLength) % Width < 20
  <2>1. Width \in Nat /\ optionLength < Width /\ 20 < Width
    BY Kinds, Small
  <2>2. \A x \in 0 .. (Width - 1) : x % Width = x
    BY <2>1
  <2>3. optionLength + 20 - state \in 0 .. (Width - 1)
    BY <1>3, <1>4, <2>1
  <2>4. 20 + optionLength < Width => 20 + optionLength \in 0 .. (Width - 1)
    BY <1>4, <2>1
  <2>5. ~(20 + optionLength < Width) =>
          /\ (20 + optionLength) - Width \in 0 .. 19
          /\ (20 + optionLength) % Width = (20 + optionLength) - Width
    <3> SUFFICES ASSUME ~(20 + optionLength < Width)
                 PROVE  /\ (20 + optionLength) - Width \in 0 .. 19
                        /\ (20 + optionLength) % Width = (20 + optionLength) - Width
      OBVIOUS
    <3>1. (20 + optionLength) - Width \in 0 .. 19
      BY <1>4, <2>1
    <3>2. (20 + optionLength) - Width \in 0 .. (Width - 1)
      BY <2>1, <3>1
    <3>3. 20 + optionLength \in Nat /\ Width \in Nat \ {0}
      BY <1>4, <2>1
    <3>4. (20 + optionLength) % Width = (20 + optionLength) - Width
      <4> DEFINE total == 20 + optionLength
      <4>1. total \in Nat /\ Width \in Nat \ {0} /\ total - Width \in 0 .. (Width - 1)
        BY <3>2, <3>3
      <4> HIDE DEF total
      <4>2. total % Width = total - Width
        BY <4>1, WrapOnce
      <4> QED
        BY <4>2 DEF total
    <3> QED
      BY <3>1, <3>4
  <2> QED
    BY <1>4, <2>1, <2>2, <2>3, <2>4, <2>5
<1> HIDE DEF needed
<1>6. /\ n \in 0 .. size /\ n \in Nat /\ state + n =< 20 + optionLength
      /\ (state + n < 20 + optionLength => n = size)
  BY <1>3, <1>4, <1>5
<1> HIDE DEF n
<1>7. /\ taken' \in 0 .. arrived /\ taken' \in Nat /\ state' =< taken'
      /\ state' \in 20 .. (20 + optionLength)
      /\ \/ /\ pc' = "recv" /\ taken' = arrived /\ state' < 20 + optionLength
            /\ 20 + optionLength < Width
         \/ /\ pc' = "option" /\ optionString' = "heap"
            /\ 20 + optionLength < Width => state' = 20 + optionLength
  <2>1. /\ taken' \in 0 .. arrived /\ taken' \in Nat /\ state' =< taken'
        /\ state' \in 20 .. (20 + optionLength)
    BY <1>1, <1>2, <1>3, <1>4, <1>6
  <2> DEFINE whole == (20 + optionLength) % Width
  <2>2. /\ whole =< 20 + optionLength
        /\ 20 + optionLength < Width => whole = 20 + optionLength
        /\ ~(20 + optionLength < Width) => whole < 20
    BY <1>5
  <2>3. IF state' < whole THEN pc' = "recv" ELSE pc' = "option" /\ optionString' = "heap"
    BY <1>1
  <2>4. whole \in Int
    <3>1. \A x \in Nat, y \in Nat \ {0} : x % y \in Int
      OBVIOUS
    <3> QED
      BY <1>4, <3>1, WidthType
  <2> HIDE DEF whole
  <2>5. CASE state' < whole
    <3>1. pc' = "recv" /\ 20 + optionLength < Width /\ state' < 20 + optionLength
      BY <1>4, <2>1, <2>2, <2>3, <2>4, <2>5
    <3>2. taken' = arrived
      BY <1>1, <1>4, <1>6, <3>1
    <3> QED
      BY <2>1, <3>1, <3>2
  <2>6. CASE ~(state' < whole)
    BY <1>4, <2>1, <2>2, <2>3, <2>4, <2>6
  <2> QED
    BY <2>5, <2>6
<1>8. optionLength' = optionLength
  BY <1>1 DEF optionLength
<1>9. (pc' = "option" => 20 + optionLength < Width) =>
        optionStart' = optionStart /\ optionStart' = taken' - (state' - 4)
  <2> SUFFICES ASSUME pc' = "option" => 20 + optionLength < Width
               PROVE  optionStart' = optionStart /\ optionStart' = taken' - (state' - 4)
    OBVIOUS
  <2>1. optionStart = taken - (state - 4)
    BY <1>1, <1>3 DEF optionStart
  <2>2. optionStart' = taken' - (state' - 4)
    <3>1. CASE pc' = "recv"
      <4>1. pc' # "option" /\ ~(state' < 4)
        BY <1>4, <1>7, <3>1
      <4> QED
        BY <4>1 DEF optionStart
    <3>2. CASE pc' = "option"
      <4>1. state' = 20 + optionLength
        BY <1>7, <3>2
      <4>2. optionStart' = taken' - 16 - optionLength
        BY <1>8, <3>2 DEF optionStart
      <4> QED
        BY <1>4, <1>7, <4>1, <4>2
    <3> QED
      BY <1>7, <3>1, <3>2
  <2> QED
    BY <1>1, <1>4, <1>6, <2>1, <2>2
<1>10. SmallHeap => 20 + optionLength < Width
  <2>1. HeapLimit \in Nat /\ Width \in Nat
    BY Small
  <2> QED
    BY <1>3, <1>4, <2>1 DEF SmallHeap
<1> QED
  BY <1>1, <1>6, <1>7, <1>9, <1>10

\* A piece of the data goes behind what is there.
LEMMA InvOptionData == IInv /\ GetOptionData => IInv'
<1> SUFFICES ASSUME IInv, GetOptionData PROVE IInv'
  OBVIOUS
<1> DEFINE have == state - 20
<1>1. PICK n \in 0 .. size :
        /\ taken' = taken + n /\ state' = state + n /\ heapData' = Stored(Chunk(n))
  BY OptionDataTaken
<1>2. /\ pc = "data" /\ optionString' \in {optionString, "heap"}
      /\ UNCHANGED <<stream, arrived, handler, word, lengthWord, heapLength, export, lost>>
  BY DEF GetOptionData, Consume
<1>3. handler = "handshake" /\ state =< taken
  BY <1>2 DEF IInv, PlaceInv, Running
<1>4. /\ state \in 20 .. (19 + optionLength) /\ optionLength =< heapLength
      /\ Len(heapData) = have
      /\ \A i \in 1 .. Len(heapData) : heapData[i] = stream[taken - have + i]
      /\ state = 20 \/ 20 + optionLength < Width
  BY <1>2, <1>3 DEF IInv, CollectInv, Collecting, Running
<1>5. /\ state \in Nat /\ taken \in Nat /\ arrived \in Nat /\ size \in Nat /\ n \in Nat
      /\ size = arrived - taken /\ optionLength \in Nat /\ heapLength \in Nat
      /\ heapLength =< HeapLimit
  BY Kinds DEF size, IInv, TypeOK
<1>6. /\ SmallHeap => 20 + optionLength < Width
      /\ (pc' = "option" => 20 + optionLength < Width) => optionStart' = optionStart
  BY OptionDataTaken
<1>7. /\ taken' \in 0 .. arrived /\ taken' \in Nat /\ state' =< taken'
      /\ state' \in 20 .. (20 + optionLength) /\ state' - 20 = have + n /\ have \in Nat
      /\ \/ /\ pc' = "recv" /\ taken' = arrived /\ state' < 20 + optionLength
            /\ 20 + optionLength < Width
         \/ /\ pc' = "option" /\ optionString' = "heap"
            /\ 20 + optionLength < Width => state' = 20 + optionLength
  <2>1. /\ taken' \in 0 .. arrived /\ state' =< taken'
        /\ state' \in 20 .. (20 + optionLength)
        /\ \/ /\ pc' = "recv" /\ taken' = arrived /\ state' < 20 + optionLength
              /\ 20 + optionLength < Width
           \/ /\ pc' = "option" /\ optionString' = "heap"
              /\ 20 + optionLength < Width => state' = 20 + optionLength
    BY OptionDataTaken
  <2> QED
    BY <1>1, <1>4, <1>5, <2>1
<1>8. optionLength' = optionLength
  BY <1>2 DEF optionLength
<1>9. /\ heapData' \in Seq(Byte) /\ Len(heapData') = have + n
       /\ \A i \in 1 .. (have + n) : heapData'[i] = stream[taken - have + i]
  <2> DEFINE kept  == SubSeq(heapData, 1, have)
             piece == Chunk(n)
  <2>1. /\ piece \in Seq(Byte) /\ Len(piece) = n
        /\ \A i \in 1 .. n : piece[i] = stream[taken + i]
    BY <1>1, <1>5, ChunkType
  <2>2. /\ heapData \in Seq(Byte) /\ have \in Nat
    BY <1>7, Kinds
  <2>3. \A i \in 1 .. have : heapData[i] \in Byte
    BY <1>4, <2>2, ElementOfSeq
  <2> HIDE DEF have
  <2>4. /\ kept \in Seq(Byte) /\ Len(kept) = have
        /\ \A i \in 1 .. have : kept[i] = heapData[i]
    BY <2>2, <2>3, SubSeqProperties
  <2> HIDE DEF kept, piece
  <2>5. /\ kept \o piece \in Seq(Byte) /\ Len(kept \o piece) = Len(kept) + Len(piece)
        /\ \A i \in 1 .. (Len(kept) + Len(piece)) :
             (kept \o piece)[i] = IF i =< Len(kept) THEN kept[i] ELSE piece[i - Len(kept)]
    BY <2>1, <2>4, ConcatProperties, Zenon
  <2>6. heapData' = kept \o piece
    BY <1>1, <1>2 DEF Stored, kept, piece, have
  <2>7. \A i \in 1 .. (have + n) :
          heapData'[i] = IF i =< have THEN heapData[i] ELSE stream[taken + (i - have)]
    <3>1. \A i \in 1 .. (have + n) : i =< have => i \in 1 .. have
      BY <1>1, <1>5, <2>2
    <3>2. \A i \in 1 .. (have + n) : ~(i =< have) => i - have \in 1 .. n
      BY <1>1, <1>5, <2>2
    <3> QED
      BY <2>1, <2>4, <2>5, <2>6, <3>1, <3>2
  <2>8. \A i \in 1 .. (have + n) : i =< have => heapData[i] = stream[taken - have + i]
    BY <1>4, <1>1, <1>5, <2>2
  <2>9. \A i \in 1 .. (have + n) : taken + (i - have) = taken - have + i
    BY <1>5, <1>1, <2>2
  <2> QED
    BY <2>1, <2>4, <2>5, <2>6, <2>7, <2>8, <2>9
<1>10. taken - have = taken' - (state' - 20)
  BY <1>1, <1>2, <1>5
<1>11. size' =< SHARED_BUFFER_SIZE /\ size =< SHARED_BUFFER_SIZE
  <2>1. size =< SHARED_BUFFER_SIZE
    BY DEF IInv, PlaceInv
  <2>2. size' = arrived - (taken + n)
    BY <1>1, <1>2 DEF size
  <2> QED
    BY <1>5, <1>1, <2>1, <2>2, Small
<1>12. TypeOK'
  <2>1. state' \in UINT
    <3>1. CASE 20 + optionLength < Width
      <4>1. state' \in 0 .. (Width - 1)
        BY <1>5, <1>7, <3>1, Small
      <4> QED
        BY <4>1, Small
    <3>2. CASE ~(20 + optionLength < Width)
      <4>1. state' = 20 + n
        BY <1>1, <1>2, <1>4, <3>2
      <4>2. state' \in 0 .. (SHARED_BUFFER_SIZE + 20)
        BY <1>5, <1>1, <1>11, <4>1, Small
      <4> QED
        BY <4>2, Small
    <3> QED
      BY <3>1, <3>2
  <2>2. pc' \in {"recv", "option"} /\ optionString' \in {"NULL", "buffer", "heap"}
    BY <1>1, <1>2, <1>7 DEF IInv, TypeOK
  <2> QED
    BY <1>1, <1>2, <1>7, <1>9, <2>1, <2>2 DEF IInv, TypeOK
<1>13. PlaceInv'
  BY <1>1, <1>2, <1>3, <1>7, <1>11 DEF PlaceInv, Running
<1>14. WordInv'
  <2> SUFFICES ASSUME pc' = "option" => SmallHeap PROVE WordInv'
    BY DEF WordInv
  <2>1. \A i \in 1 .. 4 : /\ word[i] = stream[optionStart + 8 + i]
                          /\ lengthWord[i] = stream[optionStart + 12 + i]
    BY <1>1, <1>2, <1>3, <1>4 DEF IInv, WordInv, Running
  <2>2. ~(state' \in 12 .. 15) /\ ~(state' \in 16 .. 19)
    BY <1>7
  <2>3. optionStart' = optionStart
    BY <1>6
  <2> QED
    BY <1>1, <1>2, <2>1, <2>2, <2>3, Zenon DEF WordInv
<1>15. CollectInv'
  <2> SUFFICES ASSUME pc' = "recv" PROVE CollectInv'
    BY <1>7 DEF CollectInv, Collecting
  <2>1. state' \in 20 .. (19 + optionLength') /\ 20 + optionLength' < Width
    BY <1>5, <1>7, <1>8
  <2> HIDE DEF have
  <2>2. Len(heapData') = state' - 20
    BY <1>7, <1>9
  <2>3. \A i \in 1 .. Len(heapData') : heapData'[i] = stream'[taken' - (state' - 20) + i]
    BY <1>1, <1>2, <1>7, <1>9, <1>10
  <2> QED
    BY <1>1, <1>2, <1>4, <1>8, <2>1, <2>2, <2>3 DEF CollectInv
<1>16. OptionInv'
  <2> SUFFICES ASSUME pc' = "option" PROVE OptionInv'
    BY DEF OptionInv
  <2>1. /\ state' >= 20 /\ taken' >= 20 /\ optionString' = "heap"
    BY <1>5, <1>7
  <2>2. SmallHeap => taken' >= 20 + optionLength
    BY <1>5, <1>7, <1>6
  <2>3. SmallHeap => have + n = optionLength /\ taken - have = taken' - optionLength
    <3> DEFINE m == optionLength
    <3>1. SmallHeap => state' = 20 + m
      BY <1>6, <1>7
    <3>2. /\ state \in Nat /\ taken \in Nat /\ n \in Nat /\ m \in Nat
          /\ state' = state + n /\ taken' = taken + n
      BY <1>1, <1>5
    <3> HIDE DEF m
    <3>3. SmallHeap => have + n = m /\ taken - have = taken' - m
      BY <3>1, <3>2
    <3> QED
      BY <3>3 DEF m
  <2> HIDE DEF have
  <2>4. SmallHeap => /\ Len(heapData') = optionLength
                     /\ \A i \in 1 .. optionLength :
                          heapData'[i] = stream'[taken' - optionLength + i]
    BY <1>1, <1>2, <1>9, <2>3
  <2> QED
    BY <1>8, <2>1, <2>2, <2>4 DEF OptionInv
<1>17. HeapInBounds'
  <2>1. have + n =< optionLength
    <3> DEFINE m == optionLength
    <3>1. state' \in 20 .. (20 + m) /\ state \in Nat /\ n \in Nat /\ m \in Nat
      BY <1>5, <1>7
    <3>2. state' = state + n
      BY <1>1
    <3> HIDE DEF m
    <3>3. have + n =< m
      BY <3>1, <3>2
    <3> QED
      BY <3>3 DEF m
  <2> HIDE DEF have
  <2> QED
    BY <1>1, <1>2, <1>4, <1>5, <1>7, <1>9, <2>1 DEF HeapInBounds
<1> QED
  BY <1>12, <1>13, <1>14, <1>17, <1>15, <1>16 DEF IInv

LEMMA InvSkipOption == IInv /\ SkipOption => IInv'
<1> SUFFICES ASSUME IInv, SkipOption PROVE IInv'
  OBVIOUS
<1>1. /\ pc = "option" /\ state' = 4 /\ pc' = "magic"
      /\ UNCHANGED <<stream, taken, arrived, handler, word, lengthWord, heapLength, heapData,
                     optionString, export, lost>>
  BY DEF SkipOption, AfterOption, CaseOf, input, heap
<1>2. handler = "handshake" /\ taken >= 20
  BY <1>1 DEF IInv, PlaceInv, OptionInv, Running
<1>3. taken \in Nat /\ optionLength \in Nat /\ 4 \in UINT
  BY Kinds, Small
<1>4. TypeOK'
  BY <1>1, <1>3 DEF IInv, TypeOK
<1>5. PlaceInv'
  <2>1. size' = size /\ size =< SHARED_BUFFER_SIZE
    BY <1>1 DEF IInv, PlaceInv, size
  <2> QED
    BY <1>1, <1>2, <1>3, <2>1 DEF PlaceInv, Running
<1>6. WordInv'
  BY <1>1 DEF WordInv
<1>7. CollectInv' /\ OptionInv' /\ HeapInBounds'
  BY <1>1 DEF IInv, CollectInv, Collecting, OptionInv, HeapInBounds
<1> QED
  BY <1>4, <1>5, <1>6, <1>7 DEF IInv

LEMMA InvStep == IInv /\ [Next]_vars => IInv'
<1> SUFFICES ASSUME IInv, [Next]_vars PROVE IInv'
  OBVIOUS
<1>1. CASE Recv
  BY <1>1, InvRecv
<1>2. CASE RecvFails \/ RefuseFlags \/ RefuseMagic \/ OutOfMemory \/ RefuseMore
             \/ RefuseExport \/ ToTransmissionMode \/ ReplyFails
  BY <1>2, InvOver
<1>3. CASE GetClientFlags \/ GetMagic
  BY <1>3, InvFlags, InvMagic
<1>4. CASE GetOptionID \/ GetOptionLength
  BY <1>4, InvOptionID, InvOptionLength
<1>5. CASE UseBuffer \/ UseHeap
  BY <1>5, InvUseBuffer, InvUseHeap
<1>6. CASE GetOptionData \/ SkipOption
  BY <1>6, InvOptionData, InvSkipOption
<1>7. CASE UNCHANGED vars
  <2>1. UNCHANGED <<stream, taken, arrived, handler, state, word, lengthWord, heapLength,
                    heapData, optionString, export, lost, pc>>
    BY <1>7 DEF vars, input, fields, heap
  <2>2. optionLength' = optionLength /\ optionStart' = optionStart
    BY <2>1 DEF optionLength, optionStart
  <2>3. TypeOK' /\ PlaceInv'
    BY <2>1 DEF IInv, TypeOK, PlaceInv, Running, size
  <2>4. WordInv' /\ CollectInv' /\ OptionInv' /\ HeapInBounds'
    BY <2>1, <2>2
    DEF IInv, WordInv, CollectInv, Collecting, OptionInv, HeapInBounds, Running
  <2> QED
    BY <2>3, <2>4 DEF IInv
<1> QED
  BY <1>1, <1>2, <1>3, <1>4, <1>5, <1>6, <1>7 DEF Next, HandlerStep, Done

LEMMA InvHolds == Spec => []IInv
<1>1. Init => IInv
  BY InvInit
<1>2. IInv /\ [Next]_vars => IInv'
  BY InvStep
<1> QED
  BY <1>1, <1>2, PTL DEF Spec

-----------------------------------------------------------------------------
(* What it is for. *)

\* The handler stops for more only where a field ends with the chunk.
LEMMA Pending == IInv => NothingPending
<1> SUFFICES ASSUME IInv, handler = "handshake", pc = "recv"
             PROVE  /\ taken = arrived
                    /\ state >= 20 => taken < optionStart + 16 + optionLength
  BY DEF NothingPending
<1>1. taken = arrived
  BY DEF IInv, PlaceInv, Running
<1>2. taken \in Nat /\ optionLength \in Nat
  BY Kinds
<1>3. ASSUME state >= 20 PROVE taken < optionStart + 16 + optionLength
  <2>1. state \in 20 .. (19 + optionLength)
    BY <1>3 DEF IInv, CollectInv, Collecting, Running
  <2>2. optionStart = taken - (state - 4)
    BY <2>1 DEF optionStart
  <2> QED
    BY <1>2, <2>1, <2>2
<1> QED
  BY <1>1, <1>3

\* A part of the stream, given element by element.
LEMMA PartOfStream ==
  ASSUME IInv, NEW from \in Nat, NEW n \in Nat, from + n =< Len(stream),
         NEW s \in Seq(Byte), Len(s) = n, \A i \in 1 .. n : s[i] = stream[from + i]
  PROVE  s = SubSeq(stream, from + 1, from + n)
<1> DEFINE t == SubSeq(stream, from + 1, from + n)
<1>1. stream \in Seq(Byte) /\ Len(stream) \in Nat
  BY Kinds
<1>2. \A i \in (from + 1) .. (from + n) : stream[i] \in Byte
  BY <1>1, ElementOfSeq
<1>3. /\ t \in Seq(Byte)
      /\ Len(t) = IF from + 1 =< from + n THEN from + n - (from + 1) + 1 ELSE 0
      /\ \A i \in 1 .. (from + n - (from + 1) + 1) : t[i] = stream[from + 1 + i - 1]
  BY <1>2, SubSeqProperties
<1>4. /\ from + n - (from + 1) + 1 = n
      /\ \A i \in 1 .. n : from + 1 + i - 1 = from + i
  OBVIOUS
<1> HIDE DEF t
<1>5. Len(t) = n /\ \A i \in 1 .. n : t[i] = s[i]
  BY <1>3, <1>4
<1>6. s = t
  BY <1>3, <1>5, SeqEqual
<1> QED
  BY <1>6 DEF t

\* A word that holds four bytes of the stream is that part of it.
LEMMA WordOfStream ==
  ASSUME IInv, NEW from \in Nat, from + 4 =< Len(stream), NEW w \in [1 .. 4 -> Byte],
         \A i \in 1 .. 4 : w[i] = stream[from + i]
  PROVE  w = SubSeq(stream, from + 1, from + 4)
<1>1. w \in Seq(Byte) /\ Len(w) = 4
  BY WordIsSequence
<1> QED
  BY <1>1, PartOfStream

LEMMA AsSent == SmallHeap /\ IInv => OptionAsSent
<1> SUFFICES ASSUME SmallHeap, IInv, pc = "option"
             PROVE  /\ optionStart >= 4
                    /\ word = SubSeq(stream, optionStart + 8 + 1, optionStart + 8 + 4)
                    /\ lengthWord = SubSeq(stream, optionStart + 12 + 1, optionStart + 12 + 4)
                    /\ OptionString = SubSeq(stream, optionStart + 16 + 1,
                                             optionStart + 16 + optionLength)
  BY DEF OptionAsSent
<1> DEFINE from == optionStart
           m    == optionLength
<1>1. /\ taken \in Nat /\ m \in Nat /\ taken =< Len(stream) /\ Len(stream) \in Nat
      /\ heapData \in Seq(Byte)
  BY Kinds
<1>2. /\ state >= 20 /\ taken >= 20 + m /\ optionString \in {"buffer", "heap"}
      /\ optionString = "heap" =>
           /\ Len(heapData) = m
           /\ \A i \in 1 .. m : heapData[i] = stream[taken - m + i]
  BY DEF IInv, OptionInv
<1>3. from = taken - 16 - m
  BY DEF optionStart
<1>4. /\ word \in [1 .. 4 -> Byte] /\ lengthWord \in [1 .. 4 -> Byte]
  BY DEF IInv, TypeOK
<1>5. handler = "handshake"
  BY DEF IInv, PlaceInv, Running
<1>6. state \in Nat
  BY Kinds
<1>7. \A i \in 1 .. 4 : word[i] = stream[from + 8 + i] /\ lengthWord[i] = stream[from + 12 + i]
  BY <1>2, <1>5, <1>6 DEF IInv, WordInv, Running
<1> HIDE DEF from, m
<1>8. /\ from >= 4 /\ from + 8 \in Nat /\ from + 12 \in Nat /\ from + 16 \in Nat
      /\ from + 8 + 4 =< Len(stream) /\ from + 12 + 4 =< Len(stream)
      /\ from + 16 + m =< Len(stream)
      /\ from + 16 = taken - m /\ from + 16 + m = taken
  BY <1>1, <1>2, <1>3
<1>9. word = SubSeq(stream, from + 8 + 1, from + 8 + 4)
  BY <1>4, <1>7, <1>8, WordOfStream
<1>10. lengthWord = SubSeq(stream, from + 12 + 1, from + 12 + 4)
  BY <1>4, <1>7, <1>8, WordOfStream
<1>11. OptionString = SubSeq(stream, from + 16 + 1, from + 16 + m)
  <2>1. CASE optionString = "buffer"
    BY <1>8, <2>1 DEF OptionString, m
  <2>2. CASE optionString = "heap"
    <3>1. /\ Len(heapData) = m
          /\ \A i \in 1 .. m : heapData[i] = stream[from + 16 + i]
      BY <1>2, <1>8, <2>2
    <3>2. heapData = SubSeq(stream, from + 16 + 1, from + 16 + m)
      BY <1>1, <1>8, <3>1, PartOfStream
    <3> QED
      BY <2>2, <3>2 DEF OptionString
  <2> QED
    BY <1>2, <2>1, <2>2
<1> QED
  BY <1>8, <1>9, <1>10, <1>11 DEF from, m

\* Every connection in the handshake keeps its types; state stays within the
\* data of the option it is in (HandshakeHandler).
THEOREM TypeCorrect == Spec => []TypeOK
<1>1. IInv => TypeOK
  BY DEF IInv
<1> QED
  BY <1>1, InvHolds, PTL

\* However the data of an option is cut into chunks, and whatever the options
\* before it were, it is never stored past the end of the heap buffer
\* (EnsureCapacity and the case of state >= 20 of HandshakeHandler).
THEOREM DataFits == Spec => []HeapInBounds
<1>1. IInv => HeapInBounds
  BY DEF IInv
<1> QED
  BY <1>1, InvHolds, PTL

\* The handler takes the whole chunk before it returns, and never returns with
\* an option that is complete (HandshakeHandler, the loop of its switch).
THEOREM TakesAll == Spec => []NothingPending
BY Pending, InvHolds, PTL

\* An option that is acted upon is one that the client sent: its id, length and
\* data are put together right from any number of chunks, in the shared buffer
\* or on the heap, after any other options (HandshakeHandler).
THEOREM OptionsAsSent ==
  ASSUME SmallHeap
  PROVE  Spec => []OptionAsSent
BY AsSent, InvHolds, PTL

-----------------------------------------------------------------------------
(* The negotiation that the chunks amount to.                              *)

\* What has been received of the flags, or of the magic of an option.
HeadInv ==
  Running =>
    /\ state < 4 =>
         /\ taken = state
         /\ \A i \in 1 .. 4 : i > 4 - state => word[i] = stream[taken - 4 + i]
    /\ state >= 4 =>
         \A i \in 1 .. 8 : i =< state - 4 => stream[optionStart + i] = IHAVEOPT[i]

\* Steps that take more of the flags, or of an option, and settle nothing.
Takes == \/ Recv \/ (GetClientFlags /\ state' < 4) \/ GetMagic \/ GetOptionID
         \/ GetOptionLength \/ UseBuffer \/ UseHeap \/ GetOptionData

LEMMA StartKept ==
  ASSUME SmallHeap, IInv, HeadInv, Takes
  PROVE  /\ handler = "handshake" /\ pc # "option"
         /\ optionStart' = optionStart
         /\ UNCHANGED <<stream, handler, export, lost>>
         /\ state < 4 => Recv \/ GetClientFlags
         /\ state \in 4 .. 11 => Recv \/ GetMagic
         /\ state >= 12 => state' >= 12
<1>1. state \in Nat /\ taken \in Nat /\ size \in Nat /\ optionLength \in Nat
  BY Kinds
<1>2. PlaceInv
  BY DEF IInv
<1>3. CASE Recv
  <2>1. /\ handler = "handshake" /\ pc = "recv" /\ pc' = CaseOf(state)
        /\ UNCHANGED <<stream, taken, handler, state, word, lengthWord, export, lost>>
    BY <1>3 DEF Recv, fields
  <2>2. pc' # "option"
    BY <2>1 DEF CaseOf
  <2>3. optionStart' = optionStart
    BY <2>1, <2>2 DEF optionStart
  <2> QED
    BY <1>1, <1>3, <2>1, <2>3
<1>4. CASE GetClientFlags /\ state' < 4
  <2>1. /\ pc = "flags" /\ Continue(4, "magic")
        /\ UNCHANGED <<handler, export, lost>>
    BY <1>4 DEF GetClientFlags
  <2>2. state < 4 /\ handler = "handshake"
    BY <1>2, <2>1 DEF PlaceInv, Running
  <2>3. stream' = stream /\ pc' = "recv"
    BY <1>4, <2>1, <2>2, Continued
  <2>4. optionStart = 0 /\ optionStart' = 0
    BY <1>4, <2>1, <2>2, <2>3 DEF optionStart
  <2> QED
    BY <1>1, <1>4, <2>1, <2>2, <2>3, <2>4
<1>5. ASSUME NEW end \in Nat, NEW case, case # "option",
             pc # "option", state >= 4, state < end, Continue(end, case)
      PROVE  optionStart' = optionStart /\ stream' = stream /\ state =< state'
  <2>1. /\ ConsumeSize(end) \in 0 .. size
        /\ taken' = taken + ConsumeSize(end) /\ state' = state + ConsumeSize(end)
        /\ stream' = stream /\ pc' = IF state' < end THEN "recv" ELSE case
    BY <1>5, Continued
  <2>2. pc' # "option"
    BY <1>5, <2>1
  <2> DEFINE n == ConsumeSize(end)
  <2>3. n \in Nat /\ taken' = taken + n /\ state' = state + n
    BY <2>1, <1>1
  <2> HIDE DEF n
  <2>4. state' >= 4 /\ taken' - (state' - 4) = taken - (state - 4) /\ state =< state'
    BY <1>1, <1>5, <2>3
  <2>5. optionStart = taken - (state - 4) /\ optionStart' = taken' - (state' - 4)
    <3>1. ~(state < 4) /\ ~(state' < 4)
      BY <1>1, <1>5, <2>3, <2>4
    <3> QED
      BY <1>5, <2>2, <3>1 DEF optionStart
  <2> QED
    BY <2>1, <2>4, <2>5
<1>6. CASE GetMagic
  <2>1. pc = "magic" /\ Continue(12, "id") /\ UNCHANGED <<handler, export, lost>>
    BY <1>6 DEF GetMagic
  <2>2. state \in 4 .. 11 /\ handler = "handshake"
    BY <1>2, <2>1 DEF PlaceInv, Running
  <2>3. optionStart' = optionStart /\ stream' = stream
    BY <1>5, <2>1, <2>2
  <2> QED
    BY <1>6, <2>1, <2>2, <2>3
<1>7. CASE GetOptionID
  <2>1. pc = "id" /\ Continue(16, "length") /\ UNCHANGED <<handler, export, lost>>
    BY <1>7 DEF GetOptionID
  <2>2. state \in 12 .. 15 /\ handler = "handshake"
    BY <1>2, <2>1 DEF PlaceInv, Running
  <2>3. optionStart' = optionStart /\ stream' = stream /\ state =< state'
    BY <1>5, <2>1, <2>2
  <2>4. state' >= 12
    <3>1. state' = state + ConsumeSize(16) /\ ConsumeSize(16) \in 0 .. size
      BY <2>1, <2>2, Continued
    <3> QED
      BY <1>1, <2>2, <3>1
  <2> QED
    BY <2>1, <2>2, <2>3, <2>4
<1>8. CASE GetOptionLength
  <2>1. pc = "length" /\ Continue(20, "storage") /\ UNCHANGED <<handler, export, lost>>
    BY <1>8 DEF GetOptionLength
  <2>2. state \in 16 .. 19 /\ handler = "handshake"
    BY <1>2, <2>1 DEF PlaceInv, Running
  <2>3. optionStart' = optionStart /\ stream' = stream /\ state =< state'
    BY <1>5, <2>1, <2>2
  <2>4. state' >= 12
    <3>1. state' = state + ConsumeSize(20) /\ ConsumeSize(20) \in 0 .. size
      BY <2>1, <2>2, Continued
    <3> QED
      BY <1>1, <2>2, <3>1
  <2> QED
    BY <2>1, <2>2, <2>3, <2>4
<1>9. CASE UseBuffer
  <2>1. /\ pc = "storage" /\ taken' = taken + optionLength /\ pc' = "option"
        /\ UNCHANGED <<stream, handler, state, lengthWord, export, lost>>
    BY <1>9 DEF UseBuffer, Consume, fields
  <2>2. state = 20 /\ handler = "handshake"
    BY <1>2, <2>1 DEF PlaceInv, Running
  <2>3. optionLength' = optionLength
    BY <2>1 DEF optionLength
  <2>4. optionStart = taken - (state - 4) /\ optionStart' = taken' - 16 - optionLength'
    BY <2>1, <2>2 DEF optionStart
  <2>5. optionStart' = optionStart
    BY <1>1, <2>1, <2>2, <2>3, <2>4
  <2> QED
    BY <2>1, <2>2, <2>5
<1>10. CASE UseHeap
  <2>1. /\ pc = "storage" /\ pc' = "data"
        /\ UNCHANGED <<stream, taken, handler, state, lengthWord, export, lost>>
    BY <1>10 DEF UseHeap, input, fields
  <2>2. state = 20 /\ handler = "handshake"
    BY <1>2, <2>1 DEF PlaceInv, Running
  <2>3. optionStart' = optionStart
    BY <2>1, <2>2 DEF optionStart
  <2> QED
    BY <2>1, <2>2, <2>3
<1>11. CASE GetOptionData
  <2>1. pc = "data" /\ UNCHANGED <<stream, handler, export, lost>>
    BY <1>11 DEF GetOptionData, Consume
  <2>2. handler = "handshake"
    BY <1>2, <2>1 DEF PlaceInv, Running
  <2>3. state >= 20
    BY <1>1, <2>1, <2>2 DEF IInv, CollectInv, Collecting, Running
  <2>4. optionStart' = optionStart /\ state' \in 20 .. (20 + optionLength)
    BY <1>11, OptionDataTaken
  <2> QED
    BY <1>1, <2>1, <2>2, <2>3, <2>4
<1> QED
  BY <1>3, <1>4, <1>6, <1>7, <1>8, <1>9, <1>10, <1>11 DEF Takes

\* They keep track of what has been received.
LEMMA HeadTaken ==
  ASSUME SmallHeap, IInv, HeadInv, Takes
  PROVE  HeadInv'
<1>1. /\ handler = "handshake" /\ optionStart' = optionStart /\ stream' = stream
      /\ state < 4 => Recv \/ GetClientFlags
      /\ state \in 4 .. 11 => Recv \/ GetMagic
      /\ state >= 12 => state' >= 12
  BY StartKept
<1>2. state \in Nat /\ taken \in Nat /\ size \in Nat
  BY Kinds
<1>3. state' \in Nat
  BY InvStep, WidthType DEF IInv, TypeOK, UINT, Takes, Next, HandlerStep
<1>4. CASE state >= 12
  <2>1. \A i \in 1 .. 8 : stream[optionStart + i] = IHAVEOPT[i]
    BY <1>1, <1>2, <1>4 DEF HeadInv, Running
  <2>2. ~(state' < 4)
    BY <1>1, <1>3, <1>4
  <2>3. \A i \in 1 .. 8 : stream'[optionStart' + i] = IHAVEOPT[i]
    BY <1>1, <2>1
  <2> QED
    BY <2>2, <2>3, Zenon DEF HeadInv
<1>5. CASE Recv
  BY <1>1, <1>5 DEF HeadInv, Recv, fields, Running
<1>6. CASE state < 4 /\ GetClientFlags
  <2> DEFINE n == ConsumeSize(4)
  <2>1. state < 4 /\ Continue(4, "magic") /\ word' = ShiftIn(word, Chunk(n))
    BY <1>6 DEF GetClientFlags, Flags
  <2>2. n \in 0 .. size /\ taken' = taken + n /\ state' = state + n /\ state' =< 4
    BY <2>1, Continued
  <2> HIDE DEF n
  <2>3. taken = state /\ \A i \in 1 .. 4 : i > 4 - state => word[i] = stream[taken - 4 + i]
    BY <1>1, <1>6 DEF HeadInv, Running
  <2>4. \A i \in 1 .. 4 :
          word'[i] = IF n + i =< 4 THEN word[n + i] ELSE stream[taken + n - 4 + i]
    <3>1. word \in [1 .. 4 -> Byte]
      BY DEF IInv, TypeOK
    <3> QED
      BY <2>1, <2>2, <3>1, Shifted
  <2>5. n \in Nat
    BY <1>2, <2>2
  <2>6. \A i \in 1 .. 4 : i > 4 - state' => word'[i] = stream'[taken' - 4 + i]
    <3> SUFFICES ASSUME NEW i \in 1 .. 4, i > 4 - state'
                 PROVE  word'[i] = stream[taken + n - 4 + i]
      BY <1>1, <1>2, <2>2, <2>5
    <3>1. CASE n + i =< 4
      <4>1. n + i \in 1 .. 4 /\ n + i > 4 - state /\ taken - 4 + (n + i) = taken + n - 4 + i
        BY <1>2, <2>2, <2>5, <3>1
      <4>2. word[n + i] = stream[taken - 4 + (n + i)]
        BY <2>3, <4>1
      <4> QED
        BY <2>4, <3>1, <4>1, <4>2
    <3>2. CASE ~(n + i =< 4)
      BY <2>4, <3>2
    <3> QED
      BY <3>1, <3>2
  <2>7. taken' = state' /\ \A i \in 1 .. 8 : ~(i =< state' - 4)
    BY <1>2, <2>2, <2>3, <2>5
  <2> QED
    BY <2>6, <2>7 DEF HeadInv
<1>7. CASE state \in 4 .. 11 /\ GetMagic
  <2> DEFINE n == ConsumeSize(12)
  <2>1. Continue(12, "id") /\ Chunk(n) = SubSeq(IHAVEOPT, state - 3, state - 4 + n)
    BY <1>7 DEF GetMagic, MagicMatches
  <2>2. n \in 0 .. size /\ taken' = taken + n /\ state' = state + n /\ state' =< 12
    BY <1>7, <2>1, Continued
  <2> HIDE DEF n
  <2>3. n \in Nat
    BY <1>2, <2>2
  <2>4. \A i \in 1 .. 8 : i =< state - 4 => stream[optionStart + i] = IHAVEOPT[i]
    BY <1>1, <1>7 DEF HeadInv, Running
  <2>5. \A i \in 1 .. n : Chunk(n)[i] = stream[taken + i]
    BY <2>2, ChunkType
  <2>6. \A i \in 1 .. n : Chunk(n)[i] = IHAVEOPT[state - 4 + i]
    <3>1. \A i \in (state - 3) .. (state - 4 + n) : IHAVEOPT[i] \in Byte
      BY <1>7, <2>2, <2>3, ConstantsOK
    <3>2. \A i \in 1 .. ((state - 4 + n) - (state - 3) + 1) :
            SubSeq(IHAVEOPT, state - 3, state - 4 + n)[i] = IHAVEOPT[state - 3 + i - 1]
      <4> DEFINE first == state - 3
                 last  == state - 4 + n
      <4>1. first \in Int /\ last \in Int /\ \A i \in first .. last : IHAVEOPT[i] \in Byte
        BY <1>7, <2>3, <3>1
      <4> HIDE DEF first, last
      <4>2. \A i \in 1 .. (last - first + 1) :
              SubSeq(IHAVEOPT, first, last)[i] = IHAVEOPT[first + i - 1]
        BY <4>1, SubSeqProperties
      <4> QED
        BY <4>2 DEF first, last
    <3>3. /\ (state - 4 + n) - (state - 3) + 1 = n
          /\ \A i \in 1 .. n : state - 3 + i - 1 = state - 4 + i
      BY <1>7, <2>3
    <3> QED
      BY <2>1, <3>2, <3>3
  <2>7. optionStart = taken - (state - 4)
    <3>1. pc # "option"
      BY StartKept
    <3> QED
      BY <1>7, <3>1 DEF optionStart
  <2>8. \A i \in 1 .. 8 : i =< state' - 4 => stream[optionStart + i] = IHAVEOPT[i]
    <3> SUFFICES ASSUME NEW i \in 1 .. 8, i =< state' - 4
                 PROVE  stream[optionStart + i] = IHAVEOPT[i]
      OBVIOUS
    <3>1. CASE i =< state - 4
      BY <2>4, <3>1
    <3>2. CASE ~(i =< state - 4)
      <4> DEFINE j == i - (state - 4)
      <4>1. j \in 1 .. n /\ state - 4 + j = i
        BY <1>7, <2>2, <2>3, <3>2
      <4>2. taken + j = optionStart + i
        BY <1>2, <1>7, <2>7
      <4> HIDE DEF j
      <4> QED
        BY <2>5, <2>6, <4>1, <4>2
    <3> QED
      BY <3>1, <3>2
  <2>9. ~(state' < 4)
    BY <1>7, <2>2, <2>3
  <2> QED
    BY <1>1, <2>8, <2>9 DEF HeadInv
<1> QED
  BY <1>1, <1>2, <1>4, <1>5, <1>6, <1>7

\* Only four zeros are a zero.
LEMMA ZeroNumber ==
  ASSUME NEW w \in [1 .. 4 -> Byte]
  PROVE  Number(w) = 0 <=> w = ZeroWord
<1> DEFINE b  == Base
           h2 == w[1] * b + w[2]
           h3 == h2 * b + w[3]
           h4 == h3 * b + w[4]
<1>1. \A x, d \in Nat : x * b + d = 0 <=> x = 0 /\ d = 0
  <2>1. b \in Nat \ {0}
    BY ConstantsOK
  <2> HIDE DEF b
  <2>2. \A x \in Nat : x * b \in Nat /\ (x * b = 0 <=> x = 0)
    BY <2>1
  <2> QED
    BY <2>2
<1>2. /\ b \in Nat /\ w[1] \in Nat /\ w[2] \in Nat /\ w[3] \in Nat /\ w[4] \in Nat
  BY ConstantsOK DEF Byte
<1> HIDE DEF b
<1>3. h2 \in Nat /\ h3 \in Nat
  BY <1>2
<1>4. w[1] * b * b * b + w[2] * b * b + w[3] * b + w[4] = h4
  BY <1>2
<1>5. Number(w) = h4
  BY <1>4 DEF Number, b
<1>6. h2 = 0 <=> w[1] = 0 /\ w[2] = 0
  BY <1>1, <1>2
<1> HIDE DEF h2
<1>7. h3 = 0 <=> h2 = 0 /\ w[3] = 0
  BY <1>1, <1>2, <1>3
<1> HIDE DEF h3
<1>8. h4 = 0 <=> h3 = 0 /\ w[4] = 0
  BY <1>1, <1>2, <1>3
<1>9. (\A i \in 1 .. 4 : w[i] = 0) <=> w = ZeroWord
  <2>1. \A i \in 1 .. 4 : ZeroWord[i] = 0
    BY DEF ZeroWord
  <2>2. ZeroWord \in [1 .. 4 -> Byte]
    BY ZeroType
  <2> QED
    BY <2>1, <2>2
<1>10. (\A i \in 1 .. 4 : w[i] = 0) <=> w[1] = 0 /\ w[2] = 0 /\ w[3] = 0 /\ w[4] = 0
  OBVIOUS
<1> QED
  BY <1>5, <1>6, <1>7, <1>8, <1>9, <1>10

\* A number the abstract negotiation reads from the stream.
LEMMA NumberAt ==
  ASSUME NEW from
  PROVE  N!Integer(from) = Number(SubSeq(stream, from + 1, from + 4))
BY DEF N!Integer, N!Bytes, Number

\* Flags received whole are the first four bytes.
LEMMA FlagsSeen ==
  ASSUME IInv, HeadInv, pc = "flags", state + ConsumeSize(4) = 4
  PROVE  /\ handler = "handshake" /\ optionStart = 0
         /\ taken + ConsumeSize(4) = 4
         /\ Len(stream) >= 4
         /\ Flags \in [1 .. 4 -> Byte] /\ N!Integer(0) = Number(Flags)
<1> DEFINE n == ConsumeSize(4)
<1>1. /\ taken \in Nat /\ arrived \in Nat /\ state \in Nat /\ size \in Nat
      /\ size = arrived - taken /\ arrived =< Len(stream) /\ Len(stream) \in Nat
  BY Kinds DEF size
<1>2. handler = "handshake" /\ state < 4
  BY DEF IInv, PlaceInv, Running
<1>3. taken = state /\ optionStart = 0
  BY <1>2 DEF HeadInv, Running, optionStart
<1>4. n \in 0 .. size /\ state + n = 4
  BY <1>1, <1>2 DEF ConsumeSize
<1>5. /\ Flags \in [1 .. 4 -> Byte]
      /\ \A i \in 1 .. 4 :
           Flags[i] = IF n + i =< 4 THEN word[n + i] ELSE stream[taken + n - 4 + i]
  <2>1. word \in [1 .. 4 -> Byte]
    BY DEF IInv, TypeOK
  <2> QED
    BY <1>4, <2>1, Shifted DEF Flags
<1> HIDE DEF n
<1>6. n \in Nat /\ taken + n = 4 /\ Len(stream) >= 4
  BY <1>1, <1>3, <1>4
<1>7. \A i \in 1 .. 4 : Flags[i] = stream[0 + i]
  <2> SUFFICES ASSUME NEW i \in 1 .. 4
               PROVE  Flags[i] = stream[0 + i]
    OBVIOUS
  <2>1. CASE n + i =< 4
    <3>1. n + i \in 1 .. 4 /\ n + i > 4 - state /\ taken - 4 + (n + i) = 0 + i
      BY <1>1, <1>4, <1>6, <2>1
    <3>2. word[n + i] = stream[taken - 4 + (n + i)]
      BY <1>2, <3>1 DEF HeadInv, Running
    <3> QED
      BY <1>5, <2>1, <3>1, <3>2
  <2>2. CASE ~(n + i =< 4)
    <3>1. taken + n - 4 + i = 0 + i
      BY <1>1, <1>6
    <3> QED
      BY <1>5, <2>2, <3>1
  <2> QED
    BY <2>1, <2>2
<1>8. Flags = SubSeq(stream, 0 + 1, 0 + 4)
  BY <1>5, <1>6, <1>7, WordOfStream
<1> QED
  BY <1>2, <1>3, <1>5, <1>6, <1>8, NumberAt DEF n

\* An option about to be acted upon is the next one of the stream.
LEMMA OptionSeen ==
  ASSUME SmallHeap, IInv, HeadInv, pc = "option"
  PROVE  /\ handler = "handshake" /\ optionStart >= 4
         /\ N!OptionReceived
         /\ N!OptionID = optionID /\ N!Length = optionLength
         /\ N!End = taken /\ N!Data = OptionString
<1>1. /\ optionStart >= 4
      /\ word = SubSeq(stream, optionStart + 8 + 1, optionStart + 8 + 4)
      /\ lengthWord = SubSeq(stream, optionStart + 12 + 1, optionStart + 12 + 4)
      /\ OptionString = SubSeq(stream, optionStart + 16 + 1, optionStart + 16 + optionLength)
  BY AsSent DEF OptionAsSent
<1>2. handler = "handshake" /\ state >= 20 /\ taken >= 20 + optionLength
  BY DEF IInv, PlaceInv, OptionInv, Running
<1>3. /\ taken \in Nat /\ optionLength \in Nat /\ taken =< Len(stream) /\ state \in Nat
      /\ Len(stream) \in Nat
  BY Kinds
<1>4. optionStart = taken - 16 - optionLength
  BY DEF optionStart
<1>5. N!OptionID = optionID /\ N!Length = optionLength
  BY <1>1, <1>2, NumberAt DEF N!OptionID, N!Length, optionID, optionLength
<1>6. N!End = taken
  <2>1. N!End = optionStart + 16 + N!Length
    BY <1>2 DEF N!End
  <2> QED
    BY <1>3, <1>4, <1>5, <2>1
<1>7. N!Data = OptionString
  BY <1>1, <1>2, <1>5 DEF N!Data, N!Bytes
<1>8. SubSeq(stream, optionStart + 1, optionStart + 8) = IHAVEOPT
  <2> DEFINE from == optionStart
  <2>1. IHAVEOPT \in Seq(Byte) /\ Len(IHAVEOPT) = 8
    <3>1. IHAVEOPT \in [1 .. 8 -> Byte]
      BY ConstantsOK
    <3>2. IHAVEOPT \in Seq(Byte)
      <4>1. Seq(Byte) = UNION {[1 .. m -> Byte] : m \in Nat}
        BY SeqDef, Zenon
      <4> QED
        BY <3>1, <4>1
    <3>3. DOMAIN IHAVEOPT = 1 .. Len(IHAVEOPT) /\ Len(IHAVEOPT) \in Nat
      BY <3>2, LenProperties
    <3>4. 8 \in DOMAIN IHAVEOPT /\ 9 \notin DOMAIN IHAVEOPT
      BY <3>1
    <3>5. 8 =< Len(IHAVEOPT) /\ ~(9 =< Len(IHAVEOPT))
      BY <3>3, <3>4
    <3> QED
      BY <3>2, <3>3, <3>5
  <2>2. \A i \in 1 .. 8 : IHAVEOPT[i] = stream[from + i]
    <3>1. state >= 4 /\ \A i \in 1 .. 8 : i =< state - 4
      BY <1>2, <1>3
    <3>2. \A i \in 1 .. 8 : i =< state - 4 => stream[from + i] = IHAVEOPT[i]
      BY <1>2, <3>1, Zenon DEF HeadInv, Running
    <3> QED
      BY <3>1, <3>2, Zenon
  <2>3. from \in Nat /\ from + 8 =< Len(stream)
    BY <1>3, <1>2, <1>4
  <2> HIDE DEF from
  <2>4. IHAVEOPT = SubSeq(stream, from + 1, from + 8)
    BY <2>1, <2>2, <2>3, PartOfStream
  <2> QED
    BY <2>4 DEF from
<1>9. N!OptionReceived
  <2>1. Len(stream) >= optionStart + 16 /\ Len(stream) >= taken
    BY <1>2, <1>3, <1>4
  <2> QED
    BY <1>1, <1>2, <1>6, <1>8, <2>1 DEF N!OptionReceived, N!Received, N!Bytes
<1> QED
  BY <1>1, <1>2, <1>5, <1>6, <1>7, <1>9

\* Its data is as long as it says.
LEMMA DataLength ==
  ASSUME SmallHeap, IInv, pc = "option"
  PROVE  Len(OptionString) = optionLength
<1> DEFINE from == optionStart + 16
           m    == optionLength
<1>1. OptionString = SubSeq(stream, from + 1, from + m)
  BY AsSent DEF OptionAsSent
<1>2. /\ taken \in Nat /\ m \in Nat /\ taken =< Len(stream) /\ Len(stream) \in Nat
      /\ stream \in Seq(Byte)
  BY Kinds
<1>3. optionStart >= 4 /\ optionStart = taken - 16 - m
  BY AsSent DEF OptionAsSent, optionStart
<1>4. from \in Nat /\ from + m =< Len(stream)
  BY <1>2, <1>3
<1> HIDE DEF from, m
<1>5. \A i \in (from + 1) .. (from + m) : stream[i] \in Byte
  BY <1>2, <1>4, ElementOfSeq
<1>6. Len(SubSeq(stream, from + 1, from + m)) = m
  <2> DEFINE first == from + 1
             last  == from + m
  <2>1. first \in Int /\ last \in Int /\ \A i \in first .. last : stream[i] \in Byte
    BY <1>2, <1>4, <1>5
  <2>2. (first =< last <=> 1 =< m) /\ (last - first) + 1 = m
    BY <1>2, <1>4
  <2> HIDE DEF first, last
  <2>3. Len(SubSeq(stream, first, last)) = IF first =< last THEN (last - first) + 1 ELSE 0
    BY <2>1, SubSeqProperties
  <2>4. Len(SubSeq(stream, first, last)) = m
    BY <1>2, <2>2, <2>3
  <2> QED
    BY <2>4 DEF first, last
<1> QED
  BY <1>1, <1>6 DEF m

\* A magic that does not match differs from it in a byte that has arrived.
LEMMA MismatchSeen ==
  ASSUME IInv, HeadInv, RefuseMagic
  PROVE  /\ handler = "handshake" /\ optionStart >= 4
         /\ \E i \in 1 .. 8 : /\ optionStart + i =< Len(stream)
                              /\ stream[optionStart + i] # IHAVEOPT[i]
<1> DEFINE n == ConsumeSize(12)
           part == SubSeq(IHAVEOPT, state - 3, state - 4 + n)
<1>1. pc = "magic" /\ Chunk(n) # part
  BY DEF RefuseMagic, MagicMatches
<1>2. state \in 4 .. 11 /\ handler = "handshake" /\ state =< taken
  BY <1>1 DEF IInv, PlaceInv, Running
<1>3. /\ taken \in Nat /\ arrived \in Nat /\ size \in Nat /\ size = arrived - taken
      /\ arrived =< Len(stream) /\ Len(stream) \in Nat
  BY Kinds DEF size
<1>4. optionStart = taken - (state - 4) /\ optionStart >= 4
  BY <1>1, <1>2, <1>3 DEF optionStart
<1>5. n \in 0 .. size /\ state + n =< 12 /\ n \in Nat
  BY <1>2, <1>3 DEF ConsumeSize
<1> HIDE DEF n
<1>6. /\ Chunk(n) \in Seq(Byte) /\ Len(Chunk(n)) = n
      /\ \A i \in 1 .. n : Chunk(n)[i] = stream[taken + i]
  BY <1>5, ChunkType
<1>7. /\ part \in Seq(Byte) /\ Len(part) = n
      /\ \A i \in 1 .. n : part[i] = IHAVEOPT[state - 4 + i]
  <2> DEFINE first == state - 3
             last  == state - 4 + n
  <2>1. first \in Int /\ last \in Int /\ \A i \in first .. last : IHAVEOPT[i] \in Byte
    BY <1>2, <1>5, ConstantsOK
  <2>2. /\ (first =< last <=> 1 =< n) /\ (last - first) + 1 = n
        /\ \A i \in 1 .. n : (first + i) - 1 = state - 4 + i
    BY <1>2, <1>5
  <2> HIDE DEF first, last
  <2>3. /\ SubSeq(IHAVEOPT, first, last) \in Seq(Byte)
        /\ Len(SubSeq(IHAVEOPT, first, last)) = IF first =< last THEN (last - first) + 1 ELSE 0
        /\ \A i \in 1 .. ((last - first) + 1) :
             SubSeq(IHAVEOPT, first, last)[i] = IHAVEOPT[first + i - 1]
    BY <2>1, SubSeqProperties
  <2>4. \A i \in 1 .. n : first + i - 1 = state - 4 + i
    BY <1>2, <1>5 DEF first
  <2>5. /\ Len(SubSeq(IHAVEOPT, first, last)) = n
        /\ \A i \in 1 .. n : SubSeq(IHAVEOPT, first, last)[i] = IHAVEOPT[state - 4 + i]
    BY <1>5, <2>2, <2>3, <2>4
  <2> QED
    BY <2>3, <2>5 DEF first, last
<1> DEFINE chunk == Chunk(n)
<1> HIDE DEF part, chunk
<1>8. \E i \in 1 .. n : chunk[i] # part[i]
  <2>1. chunk # part /\ chunk \in Seq(Byte) /\ Len(chunk) = n
    BY <1>1, <1>6 DEF chunk
  <2> QED
    BY <1>7, <2>1, SeqEqual
<1>9. PICK i \in 1 .. n : stream[taken + i] # IHAVEOPT[state - 4 + i]
  BY <1>6, <1>7, <1>8 DEF chunk
<1>10. /\ state - 4 + i \in 1 .. 8 /\ optionStart + (state - 4 + i) = taken + i
       /\ taken + i =< Len(stream)
  BY <1>2, <1>3, <1>4, <1>5
<1> QED
  BY <1>2, <1>4, <1>9, <1>10

\* The heap runs out only for an option longer than half of it.
LEMMA LongOption ==
  ASSUME IInv, OutOfMemory
  PROVE  /\ handler = "handshake" /\ optionStart >= 4
         /\ Len(stream) >= optionStart + 16
         /\ N!Length = optionLength /\ optionLength > HeapLimit \div 2
<1>1. pc = "storage" /\ EnsureCapacity(optionLength) > HeapLimit
  BY DEF OutOfMemory
<1>2. state = 20 /\ handler = "handshake" /\ state =< taken
  BY <1>1 DEF IInv, PlaceInv, Running
<1>3. /\ taken \in Nat /\ taken =< Len(stream) /\ Len(stream) \in Nat
      /\ optionLength \in Nat /\ heapLength \in Nat
  BY Kinds
<1>4. optionStart = taken - (state - 4)
  BY <1>1, <1>2 DEF optionStart
<1>5. optionStart >= 4 /\ optionStart + 16 = taken /\ optionStart + 12 \in Nat
  BY <1>2, <1>3, <1>4
<1>6. lengthWord = SubSeq(stream, optionStart + 12 + 1, optionStart + 12 + 4)
  <2> DEFINE from == optionStart + 12
  <2>1. lengthWord \in [1 .. 4 -> Byte]
    BY DEF IInv, TypeOK
  <2>2. \A i \in 1 .. 4 : lengthWord[i] = stream[from + i]
    BY <1>1, <1>2 DEF IInv, WordInv, Running
  <2>3. from \in Nat /\ from + 4 =< Len(stream)
    BY <1>2, <1>3, <1>4, <1>5
  <2> HIDE DEF from
  <2>4. lengthWord = SubSeq(stream, from + 1, from + 4)
    BY <2>1, <2>2, <2>3, WordOfStream
  <2> QED
    BY <2>4 DEF from
<1>7. N!Length = optionLength
  BY <1>2, <1>6, NumberAt DEF N!Length, optionLength
<1>8. optionLength > HeapLimit \div 2
  <2> DEFINE capacity == optionLength
             half     == HeapLimit \div 2
             double   == (2 * heapLength) % Width
  <2>1. HeapLimit \in Nat /\ Width \in Nat /\ HeapLimit < Width
    BY Small
  <2>2. half \in Nat /\ 2 * half =< HeapLimit
    BY <2>1
  <2>3. heapLength =< half => double = 2 * heapLength
    <3>1. \A x \in 0 .. (Width - 1) : x % Width = x
      BY <2>1
    <3>2. heapLength =< half => 2 * heapLength \in 0 .. (Width - 1)
      BY <1>3, <2>1, <2>2
    <3> QED
      BY <3>1, <3>2
  <2> HIDE DEF half, double
  <2>4. /\ EnsureCapacity(capacity) = IF capacity > heapLength THEN Grown(capacity)
                                      ELSE heapLength
        /\ Grown(capacity) = IF heapLength = 0
                             THEN IF capacity < DEFAULT_INITIAL_LENGTH
                                  THEN DEFAULT_INITIAL_LENGTH ELSE capacity
                             ELSE IF capacity > double THEN capacity ELSE double
    BY DEF EnsureCapacity, Grown, double
  <2>5. /\ heapLength =< HeapLimit
        /\ DEFAULT_INITIAL_LENGTH \in Nat /\ DEFAULT_INITIAL_LENGTH =< HeapLimit
    BY <2>1, ConstantsOK DEF IInv, TypeOK
  <2>6. EnsureCapacity(capacity) > HeapLimit /\ capacity \in Nat
    BY <1>1, <1>3
  <2> HIDE DEF capacity
  <2>7. ASSUME ~(capacity > half) PROVE FALSE
    <3>1. CASE ~(capacity > heapLength)
      BY <1>3, <2>1, <2>4, <2>5, <2>6, <3>1
    <3>2. CASE capacity > heapLength /\ heapLength = 0
      BY <1>3, <2>1, <2>2, <2>4, <2>5, <2>6, <2>7, <3>2
    <3>3. CASE capacity > heapLength /\ heapLength # 0
      <4>1. heapLength =< half /\ double = 2 * heapLength /\ double =< HeapLimit
        BY <1>3, <2>1, <2>2, <2>3, <2>6, <2>7, <3>3
      <4> QED
        BY <1>3, <2>1, <2>2, <2>4, <2>6, <2>7, <3>3, <4>1
    <3> QED
      BY <3>1, <3>2, <3>3
  <2> QED
    BY <2>7 DEF capacity, half
<1> QED
  BY <1>2, <1>3, <1>5, <1>7, <1>8

\* What the negotiation goes on with.
at == IF handler = "handshake" THEN optionStart ELSE 0

LEMMA Over ==
  ASSUME NEW how \in {"transmission", "closed", "crashed"}, Ends(how)
  PROVE  N!Ends(how) /\ HeadInv'
<1>1. handler' = how /\ stream' = stream
  BY DEF Ends, input
<1> QED
  BY <1>1 DEF N!Ends, HeadInv, Running

\* The end of the negotiation, in the state it is reached from.
LEMMA EndSteps ==
  ASSUME SmallHeap, IInv, HeadInv,
         \/ RecvFails \/ RefuseFlags \/ RefuseMagic \/ OutOfMemory
         \/ RefuseMore \/ RefuseExport \/ ToTransmissionMode \/ ReplyFails
  PROVE  N!Next /\ HeadInv'
<1>1. CASE RecvFails \/ ReplyFails
  <2>1. Ends("closed") /\ lost' = TRUE /\ export' = export
    BY <1>1 DEF RecvFails, ReplyFails
  <2>2. handler = "handshake"
    BY <1>1, OptionSeen DEF RecvFails, ReplyFails, AsksFor
  <2>3. N!Fail /\ HeadInv'
    BY <2>1, Over DEF N!Fail
  <2> QED
    BY <2>2, <2>3 DEF N!Next
<1>2. CASE RefuseFlags
  <2>1. /\ pc = "flags" /\ state + ConsumeSize(4) = 4 /\ Flags # ZeroWord
        /\ Ends("closed") /\ export' = export /\ lost' = lost
    BY <1>2 DEF RefuseFlags, BadFlags
  <2>2. /\ handler = "handshake" /\ optionStart = 0 /\ Len(stream) >= 4
        /\ N!Integer(0) # 0
    BY <2>1, FlagsSeen, ZeroNumber
  <2>3. N!Wrong
    BY <2>2 DEF N!Wrong, N!Received
  <2>4. N!Refuse /\ HeadInv'
    BY <2>1, <2>3, Over DEF N!Refuse
  <2> QED
    BY <2>2, <2>4 DEF N!Next
<1>3. CASE RefuseMagic
  <2>1. Ends("closed") /\ export' = export /\ lost' = lost
    BY <1>3 DEF RefuseMagic
  <2>2. /\ handler = "handshake" /\ optionStart >= 4
        /\ \E i \in 1 .. 8 : /\ optionStart + i =< Len(stream)
                             /\ stream[optionStart + i] # IHAVEOPT[i]
    BY <1>3, MismatchSeen
  <2>3. N!Wrong
    <3>1. PICK i \in 1 .. 8 : /\ optionStart + i =< Len(stream)
                              /\ stream[optionStart + i] # IHAVEOPT[i]
      BY <2>2
    <3>2. at = optionStart
      BY <2>2 DEF at
    <3>3. at >= 4 /\ Len(stream) >= at + i /\ stream[at + i] # IHAVEOPT[i]
      <4>1. Len(stream) \in Nat /\ optionStart \in Int
        <5>1. optionStart = IF state < 4 THEN 0 ELSE taken - (state - 4)
          BY <1>3 DEF RefuseMagic, optionStart
        <5> QED
          BY <5>1, Kinds
      <4> QED
        BY <2>2, <3>1, <3>2, <4>1
    <3> QED
      BY <3>3 DEF N!Wrong, N!Received, at
  <2>4. N!Refuse /\ HeadInv'
    BY <2>1, <2>3, Over DEF N!Refuse
  <2> QED
    BY <2>2, <2>4 DEF N!Next
<1>4. CASE OutOfMemory
  <2>1. Ends("crashed") /\ export' = export /\ lost' = lost
    BY <1>4 DEF OutOfMemory
  <2>2. /\ handler = "handshake" /\ optionStart >= 4
        /\ Len(stream) >= optionStart + 16
        /\ N!Length = optionLength /\ optionLength > HeapLimit \div 2
    BY <1>4, LongOption
  <2>3. N!OutOfMemory /\ HeadInv'
    <3>1. N!Ends("crashed") /\ HeadInv'
      BY <2>1, Over
    <3>2. N!Length > HeapLimit \div 2
      BY <2>2
    <3> QED
      BY <2>1, <2>2, <3>1, <3>2 DEF N!OutOfMemory, N!Received
  <2> QED
    BY <2>2, <2>3 DEF N!Next
<1>5. CASE RefuseMore \/ RefuseExport \/ ToTransmissionMode
  <2>1. pc = "option" /\ optionID = NBD_OPT_EXPORT_NAME
    BY <1>5 DEF RefuseMore, RefuseExport, ToTransmissionMode, AsksFor
  <2>2. /\ handler = "handshake" /\ optionStart >= 4 /\ N!OptionReceived
        /\ N!OptionID = N!EXPORT_NAME /\ N!End = taken /\ N!Data = OptionString
        /\ Len(OptionString) = optionLength
    BY <2>1, OptionSeen, DataLength DEF NBD_OPT_EXPORT_NAME, N!EXPORT_NAME
  <2>3. CASE RefuseMore
    <3>1. Ends("closed") /\ export' = export /\ lost' = lost /\ size > 0
      BY <2>3 DEF RefuseMore
    <3>2. Len(stream) >= taken + 1
      BY <3>1, Kinds DEF size
    <3>3. N!Wrong
      BY <2>2, <3>2 DEF N!Wrong, N!Received
    <3>4. N!Refuse /\ HeadInv'
      BY <3>1, <3>3, Over DEF N!Refuse
    <3> QED
      BY <2>2, <3>4 DEF N!Next
  <2>4. CASE RefuseExport
    <3>1. /\ Ends("closed") /\ export' = export /\ lost' = lost /\ size = 0
          /\ \A e \in Exports : ~AsksFor(e)
      BY <2>4 DEF RefuseExport
    <3>2. OptionString \notin Exports
      BY <2>1, <2>2, <3>1 DEF AsksFor
    <3>3. N!Wrong
      BY <2>2, <3>2 DEF N!Wrong
    <3>4. N!Refuse /\ HeadInv'
      BY <3>1, <3>3, Over DEF N!Refuse
    <3> QED
      BY <2>2, <3>4 DEF N!Next
  <2>5. CASE ToTransmissionMode
    <3>1. /\ Ends("transmission") /\ lost' = lost
          /\ OptionString \in Exports /\ export' = OptionString
      BY <2>5 DEF ToTransmissionMode, AsksFor
    <3>2. N!Choose /\ HeadInv'
      <4>1. N!Ends("transmission") /\ HeadInv'
        BY <3>1, Over
      <4> QED
        BY <2>2, <3>1, <4>1 DEF N!Choose
    <3> QED
      BY <2>2, <3>2 DEF N!Next
  <2> QED
    BY <1>5, <2>3, <2>4, <2>5
<1> QED
  BY <1>1, <1>2, <1>3, <1>4, <1>5

\* The two steps that go on, to the first option and to the next one.
LEMMA OnSteps ==
  ASSUME SmallHeap, IInv, HeadInv, (GetClientFlags /\ ~(state' < 4)) \/ SkipOption
  PROVE  N!Next /\ HeadInv'
<1>1. CASE GetClientFlags /\ ~(state' < 4)
  <2>1. /\ pc = "flags" /\ ~BadFlags /\ Continue(4, "magic")
        /\ UNCHANGED <<handler, export, lost>>
    BY <1>1 DEF GetClientFlags
  <2>2. state < 4
    BY <2>1 DEF IInv, PlaceInv
  <2>3. /\ state' = state + ConsumeSize(4) /\ state' =< 4 /\ stream' = stream
        /\ taken' = taken + ConsumeSize(4) /\ pc' = "magic"
        /\ ConsumeSize(4) \in 0 .. size
    BY <1>1, <2>1, <2>2, Continued
  <2>4. state' = 4
    BY <1>1, <2>3, Kinds
  <2>5. /\ handler = "handshake" /\ optionStart = 0 /\ taken' = 4
        /\ Len(stream) >= 4 /\ N!Integer(0) = 0
    <3>1. Flags = ZeroWord
      BY <2>1, <2>3, <2>4 DEF BadFlags
    <3> QED
      BY <2>1, <2>3, <2>4, <3>1, FlagsSeen, ZeroNumber
  <2>6. optionStart' = 4
    BY <2>3, <2>4, <2>5 DEF optionStart
  <2>7. N!Flags
    BY <2>1, <2>3, <2>5, <2>6 DEF N!Flags, N!Received
  <2>8. HeadInv'
    BY <2>4 DEF HeadInv
  <2> QED
    BY <2>5, <2>7, <2>8 DEF N!Next
<1>2. CASE SkipOption
  <2>1. /\ pc = "option" /\ optionID # NBD_OPT_EXPORT_NAME /\ state' = 4 /\ pc' = "magic"
        /\ UNCHANGED <<stream, taken, handler, export, lost>>
    BY <1>2 DEF SkipOption, AfterOption, CaseOf, input
  <2>2. /\ handler = "handshake" /\ N!OptionReceived
        /\ N!OptionID # N!EXPORT_NAME /\ N!End = taken
    BY <2>1, OptionSeen DEF NBD_OPT_EXPORT_NAME, N!EXPORT_NAME
  <2>3. optionStart' = taken
    BY <2>1, Kinds DEF optionStart
  <2>4. N!Skip
    BY <2>1, <2>2, <2>3 DEF N!Skip
  <2>5. HeadInv'
    BY <2>1 DEF HeadInv
  <2> QED
    BY <2>2, <2>4, <2>5 DEF N!Next
<1> QED
  BY <1>1, <1>2

LEMMA NegotiationStep ==
  ASSUME SmallHeap, IInv, HeadInv, [Next]_vars
  PROVE  [N!Next]_(N!vars) /\ HeadInv'
<1>1. CASE Takes
  <2>1. /\ optionStart' = optionStart /\ UNCHANGED <<stream, handler, export, lost>>
    BY <1>1, StartKept
  <2> QED
    BY <1>1, <2>1, HeadTaken DEF N!vars
<1>2. CASE \/ RecvFails \/ RefuseFlags \/ RefuseMagic \/ OutOfMemory
           \/ RefuseMore \/ RefuseExport \/ ToTransmissionMode \/ ReplyFails
  BY <1>2, EndSteps
<1>3. CASE (GetClientFlags /\ ~(state' < 4)) \/ SkipOption
  BY <1>3, OnSteps
<1>4. CASE UNCHANGED vars
  <2>1. UNCHANGED <<stream, taken, handler, state, word, lengthWord, export, lost, pc>>
    BY <1>4 DEF vars, input, fields
  <2>2. optionStart' = optionStart
    BY <2>1 DEF optionStart, optionLength
  <2> QED
    BY <2>1, <2>2 DEF N!vars, HeadInv, Running
<1> QED
  BY <1>1, <1>2, <1>3, <1>4 DEF Next, HandlerStep, Done, Takes

LEMMA NegotiationInit == Init => N!Init /\ HeadInv
<1> SUFFICES ASSUME Init PROVE N!Init /\ HeadInv
  OBVIOUS
<1>1. /\ handler = "handshake" /\ state = 0 /\ taken = 0 /\ pc = "recv"
      /\ export = None /\ lost = FALSE
  BY DEF Init
<1>2. optionStart = 0
  BY <1>1 DEF optionStart
<1> QED
  BY <1>1, <1>2 DEF N!Init, HeadInv

\* However the client's bytes are cut into chunks, wherever the chunks are kept
\* and however far a field has been received, the handler does what the
\* negotiation of the whole stream does: flags, options skipped one by one, an
\* export that is there chosen, everything else refused; and it turns away
\* nobody who did nothing wrong (NbdServer.cpp:350-548, 159-196).
THEOREM ImplementsNegotiation ==
  ASSUME SmallHeap PROVE Spec => NegotiationImplemented
<1>1. Init => IInv /\ HeadInv
  BY InvInit, NegotiationInit
<1>2. IInv /\ HeadInv /\ [Next]_vars => IInv' /\ HeadInv'
  BY InvStep, NegotiationStep
<1>3. IInv /\ HeadInv /\ [Next]_vars => [N!Next]_(N!vars)
  BY NegotiationStep
<1>4. Init => N!Init
  BY NegotiationInit
<1> QED
  BY <1>1, <1>2, <1>3, <1>4, PTL DEF Spec, NegotiationImplemented, N!Spec
=============================================================================

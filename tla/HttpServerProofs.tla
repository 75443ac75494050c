--------------------------- MODULE HttpServerProofs ---------------------------
(***************************************************************************)
(* One connection of an HttpServer, whatever the constants: Buffer is a    *)
(* queue of bytes, what is in the input buffer is the end of what arrived, *)
(* parsing it comes to an end, and requests are answered in order, each    *)
(* with its own answer.                                                    *)
(***************************************************************************)
EXTENDS HttpServer, SequenceLemmas

-----------------------------------------------------------------------------
(* Buffer: appending appends, retrieving takes from the front, and the indices
   stay in order inside the vector.                                      *)

(* A buffer holds a sequence of bytes.                                     *)
LEMMA ContentType ==
  ASSUME NEW b, WellFormed(b)
  PROVE  /\ Content(b) \in Seq(Byte)
         /\ Len(Content(b)) = readableBytes(b)
         /\ readableBytes(b) \in Nat
  <1>1. readableBytes(b) \in Nat
    BY DEF WellFormed, readableBytes
  <1>2. Content(b) \in [1 .. readableBytes(b) -> Byte]
    <2>1. ASSUME NEW i \in 1 .. readableBytes(b)
          PROVE  b.buffer[b.readerIndex + i - 1] \in Byte
      <3>1. b.readerIndex + i - 1 \in 0 .. b.size - 1
        BY BufferAssumption DEF WellFormed, readableBytes
      <3> QED
        BY <3>1 DEF WellFormed
    <2> QED
      BY <2>1 DEF Content
  <1>3. Content(b) \in Seq(Byte)
    BY <1>1, <1>2, SeqDef
  <1> QED
    BY <1>1, <1>2, <1>3, LenProperties

(* Two buffers hold the same if they do so index by index.                 *)
LEMMA SameContent ==
  ASSUME NEW b, WellFormed(b), NEW s \in Seq(Byte),
         Len(s) = readableBytes(b),
         \A i \in 1 .. readableBytes(b) : b.buffer[b.readerIndex + i - 1] = s[i]
  PROVE  Content(b) = s
  <1>1. \A i \in 1 .. readableBytes(b) : Content(b)[i] = s[i]
    BY DEF Content
  <1> QED
    BY <1>1, ContentType, SeqEqual

(* retrieve(len) takes len bytes from the front, or all there are.         *)
THEOREM RetrieveTakesFront ==
  ASSUME NEW b, WellFormed(b), NEW len \in Nat
  PROVE  /\ WellFormed(retrieve(b, len))
         /\ Content(retrieve(b, len)) =
               SubSeq(Content(b), len + 1, readableBytes(b))
  <1> DEFINE r == retrieve(b, len)
             s == SubSeq(Content(b), len + 1, readableBytes(b))
  <1>1. CASE len < readableBytes(b)
    <2>1. WellFormed(r)
      BY <1>1, BufferAssumption DEF WellFormed, retrieve, readableBytes
    <2>2. /\ readableBytes(r) = readableBytes(b) - len
          /\ r.readerIndex = b.readerIndex + len
          /\ r.buffer = b.buffer
      BY <1>1 DEF WellFormed, retrieve, readableBytes
    <2>3. /\ s \in Seq(Byte) /\ Len(s) = readableBytes(b) - len
          /\ \A i \in 1 .. readableBytes(b) - len : s[i] = Content(b)[len + i]
      BY <1>1, ContentType
    <2>4. ASSUME NEW i \in 1 .. readableBytes(r)
          PROVE  r.buffer[r.readerIndex + i - 1] = s[i]
      <3>1. /\ i \in 1 .. readableBytes(b) - len
            /\ len + i \in 1 .. readableBytes(b)
            /\ b.readerIndex + (len + i) - 1 = r.readerIndex + i - 1
        BY <1>1, <2>2, ContentType DEF WellFormed
      <3>2. Content(b)[len + i] = b.buffer[b.readerIndex + (len + i) - 1]
        BY <3>1 DEF Content
      <3> QED
        BY <2>2, <2>3, <3>1, <3>2
    <2> QED
      BY <2>1, <2>2, <2>3, <2>4, SameContent
  <1>2. CASE ~(len < readableBytes(b))
    <2>1. WellFormed(r) /\ readableBytes(r) = 0
      BY <1>2, BufferAssumption
         DEF WellFormed, retrieve, retrieveAll, readableBytes
    <2>2. s = << >>
      BY <1>2, ContentType, SubSeqEmpty
    <2>3. Content(r) = << >>
      <3>1. << >> \in Seq(Byte) /\ Len(<< >>) = 0
        BY EmptySeq
      <3>2. \A i \in 1 .. readableBytes(r) :
                r.buffer[r.readerIndex + i - 1] = << >>[i]
        BY <2>1
      <3> HIDE DEF r
      <3> QED
        BY <2>1, <3>1, <3>2, SameContent
    <2> QED
      BY <2>1, <2>2, <2>3
  <1> QED
    BY <1>1, <1>2

(* Moving the bytes to the front, and a larger vector, keep them.          *)
LEMMA MoveKeepsContent ==
  ASSUME NEW b, WellFormed(b)
  PROVE  /\ WellFormed(MoveToFront(b))
         /\ Content(MoveToFront(b)) = Content(b)
  <1> DEFINE r == MoveToFront(b)
             n == readableBytes(b)
  <1>1. /\ r.readerIndex = kCheapPretend
        /\ r.writerIndex = kCheapPretend + n
        /\ r.size = b.size
        /\ r.buffer = [i \in 0 .. b.size - 1 |->
                          IF kCheapPretend <= i /\ i < kCheapPretend + n
                            THEN b.buffer[b.readerIndex + i - kCheapPretend]
                            ELSE b.buffer[i]]
    BY DEF MoveToFront
  <1>2. n \in Nat /\ n <= b.size - b.readerIndex
    BY DEF WellFormed, readableBytes
  <1>3. r.buffer \in [0 .. b.size - 1 -> Byte]
    <2>1. ASSUME NEW i \in 0 .. b.size - 1,
                 kCheapPretend <= i, i < kCheapPretend + n
          PROVE  b.readerIndex + i - kCheapPretend \in 0 .. b.size - 1
      BY <1>2, <2>1, BufferAssumption DEF WellFormed
    <2> QED
      BY <1>1, <2>1 DEF WellFormed
  <1>4. WellFormed(r) /\ readableBytes(r) = n
    BY <1>1, <1>2, <1>3, BufferAssumption DEF WellFormed, readableBytes
  <1>5. ASSUME NEW i \in 1 .. n
        PROVE  r.buffer[r.readerIndex + i - 1] = Content(b)[i]
    <2>1. /\ kCheapPretend + i - 1 \in 0 .. b.size - 1
          /\ kCheapPretend <= kCheapPretend + i - 1
          /\ kCheapPretend + i - 1 < kCheapPretend + n
          /\ b.readerIndex + (kCheapPretend + i - 1) - kCheapPretend =
                b.readerIndex + i - 1
      BY <1>2, BufferAssumption DEF WellFormed
    <2>2. r.buffer[kCheapPretend + i - 1] = b.buffer[b.readerIndex + i - 1]
      BY <1>1, <2>1
    <2> QED
      BY <1>1, <2>2 DEF Content
  <1> QED
    BY <1>4, <1>5, ContentType, SameContent

LEMMA ResizeKeepsContent ==
  ASSUME NEW b, WellFormed(b), NEW n \in Nat, b.size <= n
  PROVE  /\ WellFormed(Resize(b, n))
         /\ Content(Resize(b, n)) = Content(b)
  <1> DEFINE r == Resize(b, n)
  <1>1. /\ WellFormed(r) /\ readableBytes(r) = readableBytes(b)
        /\ r.readerIndex = b.readerIndex
    BY BufferAssumption DEF WellFormed, Resize, readableBytes
  <1>2. ASSUME NEW i \in 1 .. readableBytes(b)
        PROVE  r.buffer[r.readerIndex + i - 1] = b.buffer[b.readerIndex + i - 1]
    <2>1. /\ b.readerIndex + i - 1 \in 0 .. n - 1
          /\ b.readerIndex + i - 1 < b.size
      BY BufferAssumption DEF WellFormed, readableBytes
    <2> QED
      BY <1>1, <2>1 DEF Resize
  <1> QED
    BY <1>1, <1>2 DEF Content

(* ensureWritableBytes(len) makes room for len bytes and keeps those there. *)
THEOREM EnsuresRoom ==
  ASSUME NEW b, WellFormed(b), NEW len \in Nat
  PROVE  LET r == ensureWritableBytes(b, len)
         IN  /\ WellFormed(r)
             /\ Content(r) = Content(b)
             /\ writableBytes(r) >= len
  <1>1. CASE writableBytes(b) >= len
    BY <1>1 DEF ensureWritableBytes, writableBytes, WellFormed
  <1>2. CASE /\ writableBytes(b) < len
             /\ writableBytes(b) + prependableBytes(b) < len + kCheapPretend
    <2>1. ensureWritableBytes(b, len) = Resize(b, b.writerIndex + len)
      BY <1>2 DEF ensureWritableBytes, makeSpace
    <2>2. b.writerIndex + len \in Nat /\ b.size <= b.writerIndex + len
      BY <1>2 DEF WellFormed, writableBytes
    <2>3. writableBytes(Resize(b, b.writerIndex + len)) = len
      BY DEF Resize, writableBytes, WellFormed
    <2> QED
      BY <2>1, <2>2, <2>3, ResizeKeepsContent
  <1>3. CASE /\ writableBytes(b) < len
             /\ ~(writableBytes(b) + prependableBytes(b) < len + kCheapPretend)
    <2>1. ensureWritableBytes(b, len) = MoveToFront(b)
      BY <1>3 DEF ensureWritableBytes, makeSpace
    <2>2. writableBytes(MoveToFront(b)) >= len
      BY <1>3, BufferAssumption
         DEF MoveToFront, writableBytes, prependableBytes, readableBytes, WellFormed
    <2> QED
      BY <2>1, <2>2, MoveKeepsContent
  <1> QED
    BY <1>1, <1>2, <1>3 DEF writableBytes, WellFormed

LEMMA WriteAppends ==
  ASSUME NEW b, WellFormed(b), NEW data \in Seq(Byte), Len(data) <= writableBytes(b)
  PROVE  /\ WellFormed(Write(b, data))
         /\ Content(Write(b, data)) = Content(b) \o data
         /\ writableBytes(Write(b, data)) = writableBytes(b) - Len(data)
  <1> DEFINE r == Write(b, data)
             n == readableBytes(b)
             s == Content(b) \o data
  <1>1. /\ Len(data) \in Nat
        /\ \A i \in 1 .. Len(data) : data[i] \in Byte
    OBVIOUS
  <1>2. /\ r.readerIndex = b.readerIndex
        /\ r.writerIndex = b.writerIndex + Len(data)
        /\ r.size = b.size
        /\ r.buffer = [i \in 0 .. b.size - 1 |->
                IF b.writerIndex <= i /\ i < b.writerIndex + Len(data)
                  THEN data[i - b.writerIndex + 1]
                  ELSE b.buffer[i]]
    BY DEF Write
  <1>3. r.buffer \in [0 .. b.size - 1 -> Byte]
    <2>1. ASSUME NEW i \in 0 .. b.size - 1,
                 b.writerIndex <= i, i < b.writerIndex + Len(data)
          PROVE  i - b.writerIndex + 1 \in 1 .. Len(data)
      BY <1>1, <2>1 DEF WellFormed
    <2> QED
      BY <1>1, <1>2, <2>1 DEF WellFormed
  <1>4. /\ WellFormed(r)
        /\ readableBytes(r) = n + Len(data)
        /\ writableBytes(r) = writableBytes(b) - Len(data)
    BY <1>1, <1>2, <1>3 DEF WellFormed, readableBytes, writableBytes
  <1>5. /\ s \in Seq(Byte) /\ Len(s) = n + Len(data)
        /\ \A i \in 1 .. n + Len(data) :
              s[i] = IF i <= n THEN Content(b)[i] ELSE data[i - n]
    <2>1. Content(b) \in Seq(Byte) /\ Len(Content(b)) = n
      BY ContentType
    <2> HIDE DEF n
    <2> QED
      BY <2>1, ConcatProperties
  <1>6. ASSUME NEW i \in 1 .. n + Len(data)
        PROVE  r.buffer[r.readerIndex + i - 1] = s[i]
    <2>1. b.readerIndex + i - 1 \in 0 .. b.size - 1
      BY <1>1 DEF WellFormed, readableBytes, writableBytes
    <2>2. CASE i <= n
      <3>1. ~(b.writerIndex <= b.readerIndex + i - 1) /\ i \in 1 .. n
        BY <2>2, <1>1 DEF WellFormed, readableBytes
      <3> QED
        BY <1>2, <1>5, <2>1, <2>2, <3>1 DEF Content
    <2>3. CASE ~(i <= n)
      <3>1. /\ b.writerIndex <= b.readerIndex + i - 1
            /\ b.readerIndex + i - 1 < b.writerIndex + Len(data)
            /\ (b.readerIndex + i - 1) - b.writerIndex + 1 = i - n
        BY <2>3, <1>1 DEF WellFormed, readableBytes
      <3> QED
        BY <1>2, <1>5, <2>1, <2>3, <3>1
    <2> QED
      BY <2>2, <2>3
  <1> QED
    BY <1>4, <1>5, <1>6, SameContent

(* append() appends, whether there was room, or the bytes had to be moved, or
   the vector to grow. *)
THEOREM AppendAppends ==
  ASSUME NEW b, WellFormed(b), NEW data \in Seq(Byte)
  PROVE  /\ WellFormed(append(b, data))
         /\ Content(append(b, data)) = Content(b) \o data
  <1> DEFINE r == ensureWritableBytes(b, Len(data))
  <1>1. WellFormed(r) /\ Content(r) = Content(b) /\ Len(data) <= writableBytes(r)
    <2>1. Len(data) \in Nat
      OBVIOUS
    <2>2. WellFormed(r) /\ Content(r) = Content(b) /\ writableBytes(r) >= Len(data)
      BY <2>1, EnsuresRoom
    <2> QED
      BY <2>1, <2>2 DEF WellFormed, writableBytes
  <1>2. WellFormed(Write(r, data)) /\ Content(Write(r, data)) = Content(r) \o data
    BY <1>1, WriteAppends
  <1> QED
    BY <1>1, <1>2 DEF append

(* readFd() appends what readv() returned, the part in extrabuf included.  *)
THEOREM ReadFdAppends ==
  ASSUME NEW b, WellFormed(b), NEW data \in Seq(Byte)
  PROVE  /\ WellFormed(readFd(b, data))
         /\ Content(readFd(b, data)) = Content(b) \o data
  <1> DEFINE w == writableBytes(b)
             front == SubSeq(data, 1, w)
             rest == SubSeq(data, w + 1, Len(data))
  <1>1. Len(data) \in Nat /\ w \in Nat
    BY DEF writableBytes, WellFormed
  <1>2. CASE Len(data) <= w
    BY <1>2, WriteAppends DEF readFd
  <1>3. CASE Len(data) > w
    <2>1. front \in Seq(Byte) /\ Len(front) = w /\ rest \in Seq(Byte)
      BY <1>1, <1>3
    <2>2. front \o rest = data
      <3>1. /\ 1 \in 1 .. Len(data) + 1 /\ w \in 1 - 1 .. Len(data)
            /\ Len(data) \in w .. Len(data)
        BY <1>1, <1>3
      <3>2. front \o rest = SubSeq(data, 1, Len(data))
        BY <3>1, ConcatAdjacentSubSeq
      <3> QED
        BY <3>2, SubSeqFull
    <2>3. WellFormed(Write(b, front)) /\ Content(Write(b, front)) = Content(b) \o front
      <3>1. Len(front) <= writableBytes(b)
        BY <1>1, <2>1
      <3> HIDE DEF front
      <3> QED
        BY <2>1, <3>1, WriteAppends
    <2>4. /\ WellFormed(append(Write(b, front), rest))
          /\ Content(append(Write(b, front), rest)) = (Content(b) \o front) \o rest
      BY <2>1, <2>3, AppendAppends
    <2>5. (Content(b) \o front) \o rest = Content(b) \o (front \o rest)
      <3>1. Content(b) \in Seq(Byte)
        BY ContentType
      <3> HIDE DEF front, rest
      <3> QED
        BY <2>1, <3>1, ConcatAssociative
    <2>6. readFd(b, data) = append(Write(b, front), rest)
      BY <1>1, <1>3 DEF readFd
    <2> QED
      BY <2>2, <2>4, <2>5, <2>6
  <1> QED
    BY <1>1, <1>2, <1>3

-----------------------------------------------------------------------------
(* What the client sends.                                                *)

(* What the client sends is as Init says, from then on.                    *)
RequestTypes ==
    /\ requests \in Seq(RequestKinds)
    /\ Len(requests) \in 1 .. MaxRequests

Encodings == [k \in DOMAIN requests |-> Encoded(k)]

HasHeader(k) == requests[k].connection # ""

(* Where the bytes of a request begin.                                     *)
Start(k) == Len(FlattenSeq(SubSeq(Encodings, 1, k - 1)))

(* A request is its line, the header if there is one, and an empty line.   *)
LEMMA EncodedIs ==
  ASSUME RequestTypes, NEW k \in 1 .. Len(requests)
  PROVE  /\ Encoded(k) \in Seq(Byte)
         /\ HasHeader(k) =>
              /\ Len(Encoded(k)) = 8
              /\ Encoded(k)[4] = Header(requests[k].connection)
              /\ Encoded(k)[5] = CR /\ Encoded(k)[6] = LF
              /\ Encoded(k)[7] = CR /\ Encoded(k)[8] = LF
         /\ ~HasHeader(k) =>
              /\ Len(Encoded(k)) = 5
              /\ Encoded(k)[4] = CR /\ Encoded(k)[5] = LF
         /\ Encoded(k)[1] = RequestLine(k, requests[k].version)
         /\ Encoded(k)[2] = CR /\ Encoded(k)[3] = LF
<1> DEFINE r == requests[k]
           a == RequestLine(k, r.version)
           h == Header(r.connection)
           line == <<a, CR, LF>>
           header == <<h, CR, LF>>
           empty == <<CR, LF>>
<1>1. /\ r.version \in Versions /\ r.connection \in Connections
      /\ k \in 1 .. MaxRequests
  BY HttpServerAssumption DEF RequestTypes
<1>2. a \in Byte /\ h \in Byte /\ CR \in Byte /\ LF \in Byte
  BY <1>1, HttpServerAssumption
<1> HIDE DEF a, h
<1>3. /\ line \in Seq(Byte) /\ Len(line) = 3
      /\ line[1] = a /\ line[2] = CR /\ line[3] = LF
  BY <1>2
<1>4. /\ header \in Seq(Byte) /\ Len(header) = 3
      /\ header[1] = h /\ header[2] = CR /\ header[3] = LF
  BY <1>2
<1>5. /\ empty \in Seq(Byte) /\ Len(empty) = 2
      /\ empty[1] = CR /\ empty[2] = LF
  BY <1>2
<1>6. CASE HasHeader(k)
  <2>1. Encoded(k) = (line \o header) \o empty
    BY <1>6 DEF Encoded, HasHeader, a, h
  <2> HIDE DEF line, header, empty
  <2>2. /\ line \o header \in Seq(Byte) /\ Len(line \o header) = 6
        /\ \A i \in 1 .. 3 : (line \o header)[i] = line[i]
        /\ \A i \in 1 .. 3 : (line \o header)[3 + i] = header[i]
    <3>1. line \in Seq(Byte) /\ header \in Seq(Byte)
      BY <1>3, <1>4
    <3>2. /\ line \o header \in Seq(Byte)
          /\ Len(line \o header) = Len(line) + Len(header)
          /\ \A i \in 1 .. Len(line) : (line \o header)[i] = line[i]
          /\ \A i \in 1 .. Len(header) :
                (line \o header)[Len(line) + i] = header[i]
      BY <3>1, ConcatAt
    <3>3. Len(line) = 3 /\ Len(header) = 3
      BY <1>3, <1>4
    <3> QED
      BY <3>2, <3>3
  <2> DEFINE both == line \o header
  <2> HIDE DEF both
  <2>3. both \in Seq(Byte) /\ Len(both) = 6
    BY <2>2 DEF both
  <2>4. /\ both \o empty \in Seq(Byte) /\ Len(both \o empty) = 8
        /\ \A i \in 1 .. 6 : (both \o empty)[i] = both[i]
        /\ \A i \in 1 .. 2 : (both \o empty)[6 + i] = empty[i]
    <3>1. both \in Seq(Byte) /\ empty \in Seq(Byte)
      BY <1>5, <2>3
    <3>2. /\ both \o empty \in Seq(Byte)
          /\ Len(both \o empty) = Len(both) + Len(empty)
          /\ \A i \in 1 .. Len(both) : (both \o empty)[i] = both[i]
          /\ \A i \in 1 .. Len(empty) :
                (both \o empty)[Len(both) + i] = empty[i]
      BY <3>1, ConcatAt
    <3>3. Len(both) = 6 /\ Len(empty) = 2
      BY <1>5, <2>3
    <3> QED
      BY <3>2, <3>3
  <2> DEFINE all == both \o empty
  <2>5. /\ both[1] = line[1] /\ both[2] = line[2] /\ both[3] = line[3]
        /\ both[4] = header[1] /\ both[5] = header[2] /\ both[6] = header[3]
    <3>1. {1, 2, 3} \subseteq 1 .. 3
      OBVIOUS
    <3>2. \A i \in {1, 2, 3} : both[i] = line[i] /\ both[3 + i] = header[i]
      BY <2>2, <3>1 DEF both
    <3>3. both[3 + 1] = header[1] /\ both[3 + 2] = header[2] /\ both[3 + 3] = header[3]
      BY <3>2
    <3> QED
      BY <3>2, <3>3
  <2>6. /\ all[1] = both[1] /\ all[2] = both[2] /\ all[3] = both[3]
        /\ all[4] = both[4] /\ all[5] = both[5] /\ all[6] = both[6]
        /\ all[7] = empty[1] /\ all[8] = empty[2]
    <3>1. {1, 2, 3, 4, 5, 6} \subseteq 1 .. 6 /\ {1, 2} \subseteq 1 .. 2
      OBVIOUS
    <3>2. \A i \in {1, 2, 3, 4, 5, 6} : all[i] = both[i]
      BY <2>4, <3>1
    <3>3. all[6 + 1] = empty[1] /\ all[6 + 2] = empty[2]
      BY <2>4, <3>1
    <3> HIDE DEF all
    <3> QED
      BY <3>2, <3>3
  <2>7. Encoded(k) = all
    BY <2>1 DEF both
  <2> HIDE DEF all
  <2> QED
    BY <1>3, <1>4, <1>5, <1>6, <2>4, <2>5, <2>6, <2>7 DEF a, h, all
<1>7. CASE ~HasHeader(k)
  <2>1. Encoded(k) = (line \o <<>>) \o empty
    BY <1>7 DEF Encoded, HasHeader, a
  <2>2. line \o <<>> = line
    BY <1>3
  <2> HIDE DEF line, header, empty
  <2>3. /\ line \o empty \in Seq(Byte) /\ Len(line \o empty) = 5
        /\ \A i \in 1 .. 3 : (line \o empty)[i] = line[i]
        /\ \A i \in 1 .. 2 : (line \o empty)[3 + i] = empty[i]
    <3>1. line \in Seq(Byte) /\ empty \in Seq(Byte)
      BY <1>3, <1>5
    <3>2. /\ line \o empty \in Seq(Byte)
          /\ Len(line \o empty) = Len(line) + Len(empty)
          /\ \A i \in 1 .. Len(line) : (line \o empty)[i] = line[i]
          /\ \A i \in 1 .. Len(empty) :
                (line \o empty)[Len(line) + i] = empty[i]
      BY <3>1, ConcatAt
    <3>3. Len(line) = 3 /\ Len(empty) = 2
      BY <1>3, <1>5
    <3> QED
      BY <3>2, <3>3
  <2> DEFINE all == line \o empty
  <2>4. /\ all[1] = line[1] /\ all[2] = line[2] /\ all[3] = line[3]
        /\ all[4] = empty[1] /\ all[5] = empty[2]
    BY <2>3
  <2>5. Encoded(k) = all
    BY <2>1, <2>2
  <2> HIDE DEF all
  <2> QED
    BY <1>3, <1>5, <1>7, <2>3, <2>4, <2>5 DEF a, all
<1> QED
  BY <1>6, <1>7

LEMMA StreamTypes ==
  ASSUME RequestTypes
  PROVE  /\ Encodings \in Seq(Seq(Byte)) /\ Len(Encodings) = Len(requests)
         /\ Stream = FlattenSeq(Encodings) /\ Stream \in Seq(Byte)
         /\ Len(Stream) \in Nat
<1>1. DOMAIN requests = 1 .. Len(requests) /\ Len(requests) \in Nat
  BY DEF RequestTypes
<1>2. \A k \in 1 .. Len(requests) : Encoded(k) \in Seq(Byte)
  BY EncodedIs
<1>3. Encodings \in [1 .. Len(requests) -> Seq(Byte)]
  BY <1>1, <1>2 DEF Encodings
<1>4. Encodings \in Seq(Seq(Byte)) /\ Len(Encodings) = Len(requests)
  BY <1>1, <1>3
<1>5. Stream = FlattenSeq(Encodings)
  BY DEF Stream, Encodings
<1>6. Stream \in Seq(Byte)
  BY <1>4, <1>5, FlattenIsSeq
<1> QED
  BY <1>4, <1>5, <1>6

(* A request's bytes are where it starts, and the next one starts behind it. *)
LEMMA StreamAt ==
  ASSUME RequestTypes, NEW k \in 1 .. Len(requests)
  PROVE  /\ Start(k) \in Nat
         /\ Start(k + 1) = Start(k) + Len(Encoded(k))
         /\ Start(k + 1) <= Len(Stream)
         /\ \A i \in 1 .. Len(Encoded(k)) : Stream[Start(k) + i] = Encoded(k)[i]
<1>1. Encodings[k] = Encoded(k) /\ (k + 1) - 1 = k
  BY DEF RequestTypes, Encodings
<1>2. Encodings \in Seq(Seq(Byte)) /\ k \in 1 .. Len(Encodings)
  BY StreamTypes
<1>3. /\ Start(k) \in Nat
      /\ Start(k + 1) = Start(k) + Len(Encodings[k])
      /\ Start(k + 1) <= Len(FlattenSeq(Encodings))
      /\ \A i \in 1 .. Len(Encodings[k]) :
            FlattenSeq(Encodings)[Start(k) + i] = Encodings[k][i]
  BY <1>1, <1>2, FlattenAt DEF Start
<1> QED
  BY <1>1, <1>3, StreamTypes

LEMMA StartEnds ==
  ASSUME RequestTypes
  PROVE  Start(1) = 0 /\ Start(Len(requests) + 1) = Len(Stream)
<1> DEFINE n == Len(requests)
<1>1. n \in Nat /\ (n + 1) - 1 = n /\ 1 - 1 = 0
  BY DEF RequestTypes
<1>2. SubSeq(Encodings, 1, 0) = <<>>
  BY StreamTypes
<1>3. SubSeq(Encodings, 1, n) = Encodings
  BY StreamTypes, SubSeqFull
<1>4. Start(1) = 0
  <2>1. Len(<<>>) = 0
    OBVIOUS
  <2> QED
    BY <1>1, <1>2, <2>1, FlattenEmpty DEF Start
<1>5. Start(n + 1) = Len(Stream)
  <2> HIDE DEF n
  <2> QED
    BY <1>1, <1>3, StreamTypes DEF Start
<1> QED
  BY <1>4, <1>5

-----------------------------------------------------------------------------
(* A buffer that holds the last of the stream's first r bytes.             *)
Suffix(b, r) ==
    /\ WellFormed(b)
    /\ readableBytes(b) <= r
    /\ Content(b) = SubSeq(Stream, r - readableBytes(b) + 1, r)

LEMMA SubSeqTail ==
  ASSUME NEW T, NEW s \in Seq(T), NEW q \in Nat, NEW r \in q .. Len(s),
         NEW n \in 0 .. r - q
  PROVE  SubSeq(SubSeq(s, q + 1, r), n + 1, r - q) = SubSeq(s, q + n + 1, r)
<1> DEFINE t == SubSeq(s, q + 1, r)
           u == SubSeq(t, n + 1, r - q)
           v == SubSeq(s, q + n + 1, r)
<1>1. /\ q \in Nat /\ r \in Nat /\ n \in Nat /\ Len(s) \in Nat
      /\ q + n <= r /\ r <= Len(s)
  OBVIOUS
<1>2. /\ t \in Seq(T) /\ Len(t) = r - q
      /\ \A i \in 1 .. r - q : t[i] = s[q + i]
  BY <1>1
<1>3. /\ v \in Seq(T) /\ Len(v) = r - q - n
      /\ \A i \in 1 .. r - q - n : v[i] = s[q + n + i]
  BY <1>1
<1> HIDE DEF t, v
<1>4. /\ u \in Seq(T) /\ Len(u) = r - q - n
      /\ \A i \in 1 .. r - q - n : u[i] = t[n + i]
  BY <1>1, <1>2
<1> HIDE DEF u
<1>5. ASSUME NEW i \in 1 .. r - q - n PROVE u[i] = v[i]
  <2>1. n + i \in 1 .. r - q /\ q + (n + i) = q + n + i
    BY <1>1
  <2> QED
    BY <1>2, <1>3, <1>4, <2>1
<1>6. u = v
  BY <1>3, <1>4, <1>5, SeqEqual
<1> QED
  BY <1>6 DEF t, u, v

LEMMA RetrieveKeeps ==
  ASSUME RequestTypes, NEW r \in 0 .. Len(Stream), NEW b, Suffix(b, r), NEW n \in Nat
  PROVE  /\ Suffix(retrieve(b, n), r)
         /\ readableBytes(retrieve(b, n)) =
               IF n < readableBytes(b) THEN readableBytes(b) - n ELSE 0
<1> DEFINE m == readableBytes(b)
           q == r - m
           c == retrieve(b, n)
<1>1. /\ WellFormed(b) /\ m \in Nat /\ m <= r /\ q \in Nat /\ r \in q .. Len(Stream)
      /\ Stream \in Seq(Byte) /\ Content(b) = SubSeq(Stream, q + 1, r)
      /\ r - q = m /\ r \in Nat
  BY ContentType, StreamTypes DEF Suffix
<1>2. WellFormed(c) /\ Content(c) = SubSeq(Content(b), n + 1, m)
  BY <1>1, RetrieveTakesFront
<1>3. readableBytes(c) = IF n < m THEN m - n ELSE 0
  <2>1. CASE n < m
    <3>1. c = [b EXCEPT !.readerIndex = @ + n]
      BY <2>1 DEF retrieve
    <3>2. /\ c.readerIndex = b.readerIndex + n
          /\ c.writerIndex = b.writerIndex
      BY <1>1, <3>1 DEF WellFormed
    <3>3. b.readerIndex \in Nat /\ b.writerIndex \in Nat
      BY <1>1 DEF WellFormed
    <3>4. /\ readableBytes(c) = c.writerIndex - c.readerIndex
          /\ m = b.writerIndex - b.readerIndex
      BY DEF readableBytes
    <3> HIDE DEF c, m
    <3>5. readableBytes(c) = m - n
      BY <3>2, <3>3, <3>4
    <3> QED
      BY <2>1, <3>5
  <2>2. CASE ~(n < m)
    <3>1. c = retrieveAll(b)
      BY <2>2 DEF retrieve
    <3>2. c.readerIndex = kCheapPretend /\ c.writerIndex = kCheapPretend
      BY <1>1, <3>1 DEF retrieveAll, WellFormed
    <3> QED
      BY <2>2, <3>2, BufferAssumption DEF readableBytes
  <2> QED
    BY <2>1, <2>2
<1> HIDE DEF c
<1>4. CASE n <= m
  <2>1. n \in 0 .. r - q
    BY <1>1, <1>4
  <2>2. SubSeq(SubSeq(Stream, q + 1, r), n + 1, r - q) = SubSeq(Stream, q + n + 1, r)
    BY <1>1, <2>1, SubSeqTail
  <2>3. readableBytes(c) = m - n
    <3> HIDE DEF m
    <3> QED
      BY <1>1, <1>3, <1>4
  <2>7. r - readableBytes(c) + 1 = q + n + 1
    <3> HIDE DEF m
    <3> QED
      BY <1>1, <2>3
  <2> HIDE DEF m, q
  <2>4. Content(c) = SubSeq(Stream, r - readableBytes(c) + 1, r)
    BY <1>1, <1>2, <2>2, <2>3, <2>7
  <2>5. readableBytes(c) <= r
    BY <1>1, <1>4, <2>3
  <2>6. Suffix(c, r)
    BY <1>2, <2>4, <2>5 DEF Suffix
  <2> QED
    BY <1>3, <2>6 DEF c, m
<1>5. CASE ~(n <= m)
  <2>1. Content(c) = <<>> /\ readableBytes(c) = 0
    <3>1. readableBytes(c) = 0
      <4> HIDE DEF m
      <4> QED
        BY <1>1, <1>3, <1>5
    <3>2. Len(Content(c)) = 0 /\ Content(c) \in Seq(Byte)
      BY <1>2, <3>1, ContentType
    <3> QED
      BY <3>1, <3>2
  <2>2. SubSeq(Stream, r + 1, r) = <<>>
    BY <1>1, SubSeqEmpty
  <2>3. r - readableBytes(c) + 1 = r + 1
    BY <1>1, <2>1
  <2>4. Suffix(c, r)
    BY <1>1, <1>2, <2>1, <2>2, <2>3 DEF Suffix
  <2> QED
    BY <1>3, <2>4 DEF c
<1> QED
  BY <1>1, <1>4, <1>5

LEMMA ReadKeeps ==
  ASSUME RequestTypes, NEW r \in 0 .. Len(Stream), NEW b, Suffix(b, r),
         NEW n \in 0 .. Len(Stream) - r
  PROVE  LET c == readFd(b, SubSeq(Stream, r + 1, r + n))
         IN  /\ Suffix(c, r + n)
             /\ readableBytes(c) = readableBytes(b) + n
<1> DEFINE m == readableBytes(b)
           data == SubSeq(Stream, r + 1, r + n)
           c == readFd(b, data)
<1>1. /\ WellFormed(b) /\ m \in Nat /\ m <= r /\ r \in Nat /\ n \in Nat
      /\ Stream \in Seq(Byte) /\ Content(b) = SubSeq(Stream, r - m + 1, r)
      /\ Content(b) \in Seq(Byte) /\ Len(Content(b)) = m
      /\ Len(Stream) \in Nat /\ r + n <= Len(Stream)
  BY ContentType, StreamTypes DEF Suffix
<1>2. data \in Seq(Byte) /\ Len(data) = n
  BY <1>1
<1> HIDE DEF data
<1>3. WellFormed(c) /\ Content(c) = Content(b) \o data
  BY <1>1, <1>2, ReadFdAppends
<1>4. Len(Content(b) \o data) = m + n
  <2> HIDE DEF m
  <2> QED
    BY <1>1, <1>2, ConcatAt
<1>5. readableBytes(c) = m + n
  BY <1>3, <1>4, ContentType
<1>6. SubSeq(Stream, r - m + 1, r) \o SubSeq(Stream, r + 1, r + n)
        = SubSeq(Stream, r - m + 1, r + n)
  <2>1. /\ r - m + 1 \in 1 .. Len(Stream) + 1
        /\ r \in (r - m + 1) - 1 .. Len(Stream)
        /\ r + n \in r .. Len(Stream)
    BY <1>1
  <2> HIDE DEF m
  <2> QED
    BY <1>1, <2>1, ConcatAdjacentSubSeq
<1>7. (r + n) - readableBytes(c) + 1 = r - m + 1 /\ readableBytes(c) <= r + n
  <2> HIDE DEF c, m
  <2> QED
    BY <1>1, <1>5
<1> HIDE DEF c, m
<1>8. Suffix(c, r + n)
  BY <1>1, <1>3, <1>6, <1>7 DEF Suffix, data
<1> QED
  BY <1>5, <1>8 DEF c, m, data

-----------------------------------------------------------------------------
(* findCRLF() finds a whole line, and looks no further than the first two or
   three bytes where they are one.                                         *)
LEMMA FoundLine ==
  ASSUME NEW b, WellFormed(b)
  PROVE  LET c == Content(b)
         IN  /\ findCRLF(b) = -1 \/ findCRLF(b) \in 0 .. Len(c) - 2
             /\ Len(c) <= 1 => findCRLF(b) = -1
             /\ Len(c) = 2 /\ c[1] # CR => findCRLF(b) = -1
             /\ Len(c) >= 2 /\ c[1] = CR /\ c[2] = LF => findCRLF(b) = 0
             /\ Len(c) >= 3 /\ c[1] # CR /\ c[2] = CR /\ c[3] = LF =>
                   findCRLF(b) = 1
<1> DEFINE c == Content(b)
           ends == {i \in 1 .. Len(c) - 1 : c[i] = CR /\ c[i + 1] = LF}
           First(i) == i + 1 \in ends /\ \A j \in ends : i < j
<1>1. c \in Seq(Byte) /\ Len(c) \in Nat
  BY ContentType
<1>2. findCRLF(b) = IF ends = {} THEN -1 ELSE CHOOSE i \in 0 .. Len(c) : First(i)
  BY DEF findCRLF
<1> HIDE DEF c
<1>3. ASSUME NEW i \in 0 .. Len(c), First(i) PROVE findCRLF(b) = i
  <2>1. ends # {} /\ \E j \in 0 .. Len(c) : First(j)
    BY <1>3
  <2> DEFINE f == CHOOSE j \in 0 .. Len(c) : First(j)
  <2>2. f \in 0 .. Len(c) /\ First(f)
    BY <2>1
  <2>3. findCRLF(b) = f
    BY <1>2, <2>1
  <2> HIDE DEF f
  <2>4. f < i + 1 /\ i < f + 1
    BY <1>3, <2>2
  <2> QED
    BY <1>1, <1>3, <2>2, <2>3, <2>4
<1>4. findCRLF(b) = -1 \/ findCRLF(b) \in 0 .. Len(c) - 2
  <2>1. CASE ends = {}
    BY <1>2, <2>1
  <2>2. CASE ends # {}
    <3>1. PICK m \in ends : \A n \in ends : m <= n
      <4>1. ends \subseteq Nat
        BY <1>1
      <4> HIDE DEF ends
      <4> QED
        BY <2>2, <4>1, LeastNat
    <3>2. m - 1 \in 0 .. Len(c) - 2 /\ m - 1 \in 0 .. Len(c) /\ First(m - 1)
      BY <1>1, <3>1
    <3> HIDE DEF ends, First
    <3> QED
      BY <1>3, <3>2
  <2> QED
    BY <2>1, <2>2
<1>5. ASSUME Len(c) <= 1 PROVE findCRLF(b) = -1
  <2>1. ends = {}
    BY <1>1, <1>5
  <2> QED
    BY <1>2, <2>1
<1>6. ASSUME Len(c) = 2, c[1] # CR PROVE findCRLF(b) = -1
  <2>1. ends = {}
    BY <1>1, <1>6
  <2> QED
    BY <1>2, <2>1
<1>7. ASSUME Len(c) >= 2, c[1] = CR, c[2] = LF PROVE findCRLF(b) = 0
  <2>1. 0 \in 0 .. Len(c) /\ First(0)
    BY <1>1, <1>7
  <2> HIDE DEF First
  <2> QED
    BY <1>3, <2>1
<1>8. ASSUME Len(c) >= 3, c[1] # CR, c[2] = CR, c[3] = LF
      PROVE  findCRLF(b) = 1
  <2>1. 1 \in 0 .. Len(c) /\ First(1)
    BY <1>1, <1>8
  <2> HIDE DEF First
  <2> QED
    BY <1>3, <2>1
<1> QED
  BY <1>4, <1>5, <1>6, <1>7, <1>8 DEF c

-----------------------------------------------------------------------------
(* Parsing, turn by turn.                                                *)

(* A context, field by field.                                               *)
Context(st, k, version, connection) ==
    [state |-> st,
     request |-> [request |-> k, version |-> version,
                  connection |-> connection]]

(* parseRequest() goes from turn to turn.                                  *)
IsParse(f, context, b) ==
    f = [n \in 0 .. readableBytes(b) + 1 |->
            IF n = 0
              THEN Parse(TRUE, TRUE, context, b)
              ELSE Turn(f[n - 1])]

Turns(f, n) == \A i \in 0 .. n : f[i + 1] = Turn(f[i])

LEMMA ParseExists ==
  ASSUME NEW context, NEW b, readableBytes(b) \in Nat
  PROVE  \E f : IsParse(f, context, b)
<1> DEFINE base == Parse(TRUE, TRUE, context, b)
           Is(f, m) == f = [n \in 0 .. m |-> IF n = 0 THEN base
                                                      ELSE Turn(f[n - 1])]
           S == {m \in Nat : \E f : Is(f, m)}
<1> HIDE DEF base
<1>1. 0 \in S
  <2> DEFINE g == [n \in 0 .. 0 |-> base]
  <2>1. Is(g, 0)
    OBVIOUS
  <2> QED
    BY <2>1
<1>2. ASSUME NEW m \in Nat, m \in S PROVE m + 1 \in S
  <2>1. PICK f : Is(f, m)
    BY <1>2
  <2> DEFINE g == [n \in 0 .. m + 1 |-> IF n = m + 1 THEN Turn(f[m]) ELSE f[n]]
  <2>2. ASSUME NEW n \in 0 .. m + 1, n # 0 PROVE g[n] = Turn(g[n - 1])
    <3>1. n - 1 \in 0 .. m /\ n - 1 \in 0 .. m + 1 /\ n - 1 # m + 1
      BY <2>2
    <3>2. g[n - 1] = f[n - 1]
      BY <3>1
    <3>3. CASE n = m + 1
      <4>1. n - 1 = m
        BY <3>3
      <4> QED
        BY <3>2, <3>3, <4>1
    <3>4. CASE n # m + 1
      <4>1. n \in 0 .. m /\ f[n] = Turn(f[n - 1])
        BY <2>1, <2>2, <3>4
      <4> QED
        BY <3>2, <3>4, <4>1
    <3> QED
      BY <3>3, <3>4
  <2>3. g[0] = base
    BY <2>1
  <2>4. DOMAIN g = 0 .. m + 1 /\ g = [n \in 0 .. m + 1 |-> g[n]]
    OBVIOUS
  <2> HIDE DEF g
  <2>5. Is(g, m + 1)
    BY <2>2, <2>3, <2>4
  <2> QED
    BY <2>5
<1> HIDE DEF S
<1>3. readableBytes(b) + 1 \in S
  BY <1>1, <1>2, SetInduction
<1> QED
  BY <1>3 DEF S, IsParse, base, Parse

LEMMA ParseTurns ==
  ASSUME NEW context, NEW b, readableBytes(b) \in Nat
  PROVE  \E f : /\ f[0] = Parse(TRUE, TRUE, context, b)
                /\ Turns(f, readableBytes(b))
                /\ parseRequest(context, b) = f[readableBytes(b) + 1]
<1> DEFINE f == CHOOSE g : IsParse(g, context, b)
           m == readableBytes(b)
<1>1. IsParse(f, context, b)
  BY ParseExists
<1>2. parseRequest(context, b) = f[m + 1]
  BY DEF parseRequest, IsParse
<1> HIDE DEF f
<1>3. f[0] = Parse(TRUE, TRUE, context, b)
  BY <1>1 DEF IsParse, Parse
<1>4. ASSUME NEW i \in 0 .. m PROVE f[i + 1] = Turn(f[i])
  <2>1. i + 1 \in 0 .. m + 1 /\ i + 1 # 0 /\ (i + 1) - 1 = i
    OBVIOUS
  <2> QED
    BY <1>1, <2>1 DEF IsParse
<1> QED
  BY <1>2, <1>3, <1>4 DEF Turns

-----------------------------------------------------------------------------
(* A turn.                                                                 *)

(* A parse whose buffer holds the last of the stream's first r bytes.      *)
Shape(p, r) ==
    /\ p.ok \in BOOLEAN /\ p.hasMore \in BOOLEAN
    /\ p = Parse(p.ok, p.hasMore, p.context, p.buffer)
    /\ p.context = Context(p.context.state, p.context.request.request,
                           p.context.request.version,
                           p.context.request.connection)
    /\ Suffix(p.buffer, r)

(* Whatever it finds, a turn keeps the order of the bytes, and goes on only
   behind a line.                                                          *)
LEMMA TurnKeeps ==
  ASSUME RequestTypes, NEW r \in 0 .. Len(Stream), NEW p, Shape(p, r)
  PROVE  /\ Shape(Turn(p), r)
         /\ Turn(p).hasMore =>
               /\ p.hasMore
               /\ readableBytes(Turn(p).buffer) + 2 <= readableBytes(p.buffer)
<1> DEFINE b == p.buffer
           m == readableBytes(b)
           end == findCRLF(b)
           line == SubSeq(Content(b), 1, end)
           rest == retrieve(b, end + 2)
           t == Turn(p)
<1>1. CASE ~p.hasMore
  BY <1>1 DEF Turn
<1>2. CASE p.hasMore /\ end = -1
  <2>1. t = Parse(p.ok, FALSE, p.context, b)
    BY <1>2 DEF Turn, ParseLine
  <2> QED
    BY <2>1 DEF Shape, Parse
<1>3. CASE p.hasMore /\ end # -1
  <2>1. WellFormed(b) /\ m \in Nat /\ Len(Content(b)) = m
    BY ContentType DEF Shape, Suffix
  <2>2. end \in 0 .. m - 2
    BY <1>3, <2>1, FoundLine
  <2>3. end + 2 \in Nat /\ Suffix(b, r)
    BY <2>1, <2>2 DEF Shape
  <2>4. /\ Suffix(rest, r)
        /\ readableBytes(rest) = IF end + 2 < m THEN m - (end + 2) ELSE 0
    BY <2>3, RetrieveKeeps
  <2>5. Suffix(rest, r) /\ readableBytes(rest) + 2 <= m
    <3> HIDE DEF rest, m, end
    <3> QED
      BY <2>1, <2>2, <2>4
  <2>6. PICK x, y, z : p.context = Context(x, y, z, p.context.request.connection)
    BY DEF Shape
  <2>7. PICK c : p.context = Context(x, y, z, c)
    BY <2>6
  <2>8. /\ p.context.request = [request |-> y, version |-> z, connection |-> c]
        /\ p.context.state = x
    BY <2>7 DEF Context
  <2> HIDE DEF rest, line, end
  <2>9. \/ t = Parse(FALSE, FALSE, Context(x, y, z, c), b)
        \/ \E ok, more \in BOOLEAN : \E st, k, v, d :
              t = Parse(ok, more, Context(st, k, v, d), rest)
    <3>0. p.ok \in BOOLEAN
      BY DEF Shape
    <3>1. CASE x = "kExpectRequestLine" /\ IsRequestLine(line)
      <4>1. t = Parse(TRUE, TRUE, Context("kExpectHeaders", line[1].request,
                                          line[1].value, c), rest)
        <5>1. t = Parse(TRUE, TRUE,
                        [state |-> "kExpectHeaders",
                         request |->
                           [request |-> line[1].request,
                            version |-> line[1].value,
                            connection |-> p.context.request.connection]],
                        rest)
          BY <1>3, <2>8, <3>1 DEF Turn, ParseLine, rest, line, end
        <5>2. p.context.request.connection = c
          BY <2>8
        <5> QED
          BY <5>1, <5>2 DEF Context
      <4> QED
        BY <4>1
    <3>2. CASE x = "kExpectRequestLine" /\ ~IsRequestLine(line)
      BY <1>3, <2>7, <2>8, <3>2 DEF Turn, ParseLine, rest, line, end
    <3>3. CASE x # "kExpectRequestLine" /\ HasColon(line)
      <4>1. [p.context.request EXCEPT !.connection = line[1].value]
              = [request |-> y, version |-> z, connection |-> line[1].value]
        BY <2>8
      <4>2. [p.context EXCEPT !.request =
                [p.context.request EXCEPT !.connection = line[1].value]]
              = Context(x, y, z, line[1].value)
        BY <2>7, <4>1 DEF Context
      <4>3. t = Parse(p.ok, TRUE, Context(x, y, z, line[1].value), rest)
        BY <1>3, <2>8, <3>3, <4>2 DEF Turn, ParseLine, rest, line, end
      <4> QED
        BY <3>0, <4>3
    <3>4. CASE x # "kExpectRequestLine" /\ ~HasColon(line)
      <4>1. [p.context EXCEPT !.state = "kGotAll"] = Context("kGotAll", y, z, c)
        BY <2>7 DEF Context
      <4>2. t = Parse(p.ok, FALSE, Context("kGotAll", y, z, c), rest)
        BY <1>3, <2>8, <3>4, <4>1 DEF Turn, ParseLine, rest, line, end
      <4> QED
        BY <3>0, <4>2
    <3> QED
      BY <3>1, <3>2, <3>3, <3>4
  <2> HIDE DEF t
  <2>10. ASSUME NEW ok \in BOOLEAN, NEW more \in BOOLEAN, NEW st, NEW k, NEW v,
                NEW d, NEW w, t = Parse(ok, more, Context(st, k, v, d), w),
                Suffix(w, r)
         PROVE  Shape(t, r) /\ t.buffer = w /\ t.hasMore = more
    BY <2>10 DEF Shape, Parse, Context
  <2> QED
    BY <1>3, <2>3, <2>5, <2>9, <2>10 DEF t
<1>4. p.hasMore \in BOOLEAN
  BY DEF Shape
<1> QED
  BY <1>1, <1>2, <1>3, <1>4

-----------------------------------------------------------------------------
(* The lines of a request.                                               *)

(* A buffer whose first byte is the one behind the stream's first q bytes. *)
At(b, q, r) == Suffix(b, r) /\ readableBytes(b) = r - q

(* A line of one byte, as much of it as has arrived.                       *)
OneByte(c, x) ==
    /\ Len(c) >= 1 => c[1] = x
    /\ Len(c) >= 2 => c[2] = CR
    /\ Len(c) >= 3 => c[3] = LF

Empty(c) ==
    /\ Len(c) >= 1 => c[1] = CR
    /\ Len(c) >= 2 => c[2] = LF

LEMMA Peek ==
  ASSUME RequestTypes, NEW r \in 0 .. Len(Stream), NEW q \in Nat, NEW b, At(b, q, r)
  PROVE  /\ Content(b) \in Seq(Byte) /\ Len(Content(b)) = r - q
         /\ readableBytes(b) \in Nat /\ q <= r
         /\ \A i \in 1 .. r - q : Content(b)[i] = Stream[q + i]
<1>1. /\ WellFormed(b) /\ readableBytes(b) = r - q
      /\ Content(b) = SubSeq(Stream, r - readableBytes(b) + 1, r)
      /\ Stream \in Seq(Byte) /\ Len(Stream) \in Nat
  BY StreamTypes DEF At, Suffix
<1>2. /\ Content(b) \in Seq(Byte) /\ Len(Content(b)) = readableBytes(b)
      /\ readableBytes(b) \in Nat
  BY <1>1, ContentType
<1>3. q <= r /\ r - readableBytes(b) + 1 = q + 1 /\ r \in Nat
  BY <1>1, <1>2
<1>4. Content(b) = SubSeq(Stream, q + 1, r)
  BY <1>1, <1>3
<1>5. ASSUME NEW i \in 1 .. r - q
      PROVE  SubSeq(Stream, q + 1, r)[i] = Stream[q + i]
  BY <1>1, <1>3
<1> QED
  BY <1>1, <1>2, <1>3, <1>4, <1>5

LEMMA Advance ==
  ASSUME RequestTypes, NEW r \in 0 .. Len(Stream), NEW q \in Nat, NEW b, At(b, q, r),
         NEW n \in Nat, n <= readableBytes(b)
  PROVE  At(retrieve(b, n), q + n, r)
<1> DEFINE m == readableBytes(b)
           c == retrieve(b, n)
<1>1. m \in Nat /\ m = r - q /\ Suffix(b, r)
  BY Peek DEF At
<1>2. Suffix(c, r) /\ readableBytes(c) = IF n < m THEN m - n ELSE 0
  BY <1>1, RetrieveKeeps
<1> HIDE DEF c, m
<1>3. readableBytes(c) = r - (q + n)
  BY <1>1, <1>2 DEF m
<1> QED
  BY <1>2, <1>3 DEF At, c

LEMMA OneByteLine ==
  ASSUME RequestTypes, NEW r \in 0 .. Len(Stream), NEW q \in Nat, NEW b, At(b, q, r),
         NEW x, x # CR, OneByte(Content(b), x)
  PROVE  \/ findCRLF(b) = -1
         \/ /\ findCRLF(b) = 1
            /\ SubSeq(Content(b), 1, 1) = <<x>>
            /\ At(retrieve(b, 1 + 2), q + 3, r)
<1> DEFINE c == Content(b)
<1>1. /\ c \in Seq(Byte) /\ Len(c) \in Nat /\ Len(c) = readableBytes(b)
      /\ WellFormed(b)
  BY ContentType DEF At, Suffix
<1>2. CASE Len(c) <= 1
  BY <1>1, <1>2, FoundLine
<1>3. CASE Len(c) = 2
  <2>1. c[1] # CR
    BY <1>3 DEF OneByte
  <2> QED
    BY <1>1, <1>3, <2>1, FoundLine
<1>4. CASE Len(c) >= 3
  <2>1. c[1] = x /\ c[2] = CR /\ c[3] = LF
    BY <1>1, <1>4 DEF OneByte
  <2>2. findCRLF(b) = 1
    BY <1>1, <1>4, <2>1, FoundLine
  <2>3. At(retrieve(b, 3), q + 3, r)
    BY <1>1, <1>4, Advance
  <2>4. SubSeq(c, 1, 1) = <<c[1]>>
    <3> HIDE DEF c
    <3>1. 1 \in 1 .. Len(c) /\ c[1] \in Byte
      BY <1>1, <1>4
    <3>2. /\ SubSeq(c, 1, 1) \in Seq(Byte) /\ Len(SubSeq(c, 1, 1)) = 1
          /\ SubSeq(c, 1, 1)[1] = c[1]
      BY <1>1, <3>1
    <3>3. <<c[1]>> \in Seq(Byte) /\ Len(<<c[1]>>) = 1 /\ <<c[1]>>[1] = c[1]
      BY <3>1
    <3>4. \A i \in 1 .. 1 : SubSeq(c, 1, 1)[i] = <<c[1]>>[i]
      BY <3>2, <3>3
    <3> QED
      BY <3>2, <3>3, <3>4, SeqEqual
  <2>5. 1 + 2 = 3
    OBVIOUS
  <2> HIDE DEF c
  <2>6. SubSeq(c, 1, 1) = <<x>>
    BY <2>1, <2>4
  <2> QED
    BY <2>2, <2>3, <2>5, <2>6 DEF c
<1> QED
  BY <1>1, <1>2, <1>3, <1>4

LEMMA EmptyLine ==
  ASSUME RequestTypes, NEW r \in 0 .. Len(Stream), NEW q \in Nat, NEW b, At(b, q, r),
         Empty(Content(b))
  PROVE  \/ findCRLF(b) = -1
         \/ /\ findCRLF(b) = 0
            /\ SubSeq(Content(b), 1, 0) = <<>>
            /\ At(retrieve(b, 0 + 2), q + 2, r)
<1> DEFINE c == Content(b)
<1>1. /\ c \in Seq(Byte) /\ Len(c) \in Nat /\ Len(c) = readableBytes(b)
      /\ WellFormed(b)
  BY ContentType DEF At, Suffix
<1>2. CASE Len(c) <= 1
  BY <1>1, <1>2, FoundLine
<1>3. CASE Len(c) >= 2
  <2>1. c[1] = CR /\ c[2] = LF
    BY <1>1, <1>3 DEF Empty
  <2>2. findCRLF(b) = 0
    BY <1>1, <1>3, <2>1, FoundLine
  <2>3. At(retrieve(b, 2), q + 2, r)
    BY <1>1, <1>3, Advance
  <2>4. SubSeq(c, 1, 0) = <<>>
    BY <1>1, SubSeqEmpty
  <2>5. 0 + 2 = 2
    OBVIOUS
  <2> QED
    BY <2>2, <2>3, <2>4, <2>5
<1> QED
  BY <1>1, <1>2, <1>3

(* What the buffer holds where a line of request k begins.                 *)
LEMMA LinesOfRequest ==
  ASSUME RequestTypes, NEW k \in 1 .. Len(requests), NEW r \in 0 .. Len(Stream), NEW b
  PROVE  LET c == Content(b)
             q == Start(k)
         IN  /\ q \in Nat /\ q + 8 \in Nat /\ Start(k + 1) \in Nat
             /\ Start(k + 1) = IF HasHeader(k) THEN q + 8 ELSE q + 5
             /\ At(b, q, r) => OneByte(c, RequestLine(k, requests[k].version))
             /\ At(b, q + 3, r) /\ HasHeader(k) =>
                   OneByte(c, Header(requests[k].connection))
             /\ At(b, q + 3, r) /\ ~HasHeader(k) => Empty(c)
             /\ At(b, q + 6, r) /\ HasHeader(k) => Empty(c)
<1> DEFINE q == Start(k)
           e == Encoded(k)
           c == Content(b)
<1>1. /\ q \in Nat /\ Start(k + 1) = q + Len(e) /\ e \in Seq(Byte)
      /\ \A i \in 1 .. Len(e) : Stream[q + i] = e[i]
  BY StreamAt, EncodedIs
<1>2. /\ Len(e) = IF HasHeader(k) THEN 8 ELSE 5
      /\ e[1] = RequestLine(k, requests[k].version) /\ e[2] = CR /\ e[3] = LF
      /\ HasHeader(k) =>
           /\ e[4] = Header(requests[k].connection) /\ e[5] = CR /\ e[6] = LF
           /\ e[7] = CR /\ e[8] = LF
      /\ ~HasHeader(k) => e[4] = CR /\ e[5] = LF
  BY EncodedIs
<1>3. r \in Nat
  BY StreamTypes
<1>11. /\ Len(e) \in Nat /\ q \in Nat /\ Start(k + 1) = q + Len(e)
       /\ Len(e) = IF HasHeader(k) THEN 8 ELSE 5
  <2>1. CASE HasHeader(k)
    BY <1>1, <1>2, <2>1
  <2>2. CASE ~HasHeader(k)
    BY <1>1, <1>2, <2>2
  <2> QED
    BY <2>1, <2>2
<1> HIDE DEF q, e, c
<1>4. ASSUME NEW o \in {0, 3, 6}, At(b, q + o, r), NEW j \in 1 .. 3,
             o + j <= Len(e), Len(c) >= j
      PROVE  c[j] = e[o + j]
  <2>1. q + o \in Nat
    BY <1>1
  <2>2. Len(c) = r - (q + o) /\ \A i \in 1 .. r - (q + o) : c[i] = Stream[(q + o) + i]
    BY <1>4, <2>1, Peek DEF c
  <2>3. j \in 1 .. r - (q + o)
    BY <1>1, <1>3, <1>4, <2>2
  <2>4. o + j \in 1 .. Len(e) /\ (q + o) + j = q + (o + j)
    <3>1. o \in Nat /\ j \in Nat /\ j >= 1 /\ Len(e) \in Nat /\ q \in Nat
      BY <1>11
    <3> QED
      BY <1>4, <3>1
  <2> QED
    BY <1>1, <2>2, <2>3, <2>4
<1>5. {1, 2, 3} \subseteq 1 .. 3 /\ q + 0 = q
  BY <1>1
<1>6. ASSUME At(b, q, r) PROVE OneByte(c, RequestLine(k, requests[k].version))
  <2>1. ASSUME NEW j \in {1, 2, 3}, Len(c) >= j PROVE c[j] = e[j]
    BY <1>2, <1>4, <1>5, <1>6, <2>1
  <2> QED
    BY <1>2, <2>1 DEF OneByte
<1>7. ASSUME At(b, q + 3, r), HasHeader(k)
      PROVE  OneByte(c, Header(requests[k].connection))
  <2>1. ASSUME NEW j \in {1, 2, 3}, Len(c) >= j PROVE c[j] = e[3 + j]
    BY <1>2, <1>4, <1>5, <1>7, <2>1
  <2>2. 3 + 1 = 4 /\ 3 + 2 = 5 /\ 3 + 3 = 6
    OBVIOUS
  <2> QED
    BY <1>2, <1>7, <2>1, <2>2 DEF OneByte
<1>8. ASSUME At(b, q + 3, r), ~HasHeader(k) PROVE Empty(c)
  <2>1. ASSUME NEW j \in {1, 2}, Len(c) >= j PROVE c[j] = e[3 + j]
    BY <1>2, <1>4, <1>5, <1>8, <2>1
  <2>2. 3 + 1 = 4 /\ 3 + 2 = 5
    OBVIOUS
  <2> QED
    BY <1>2, <1>8, <2>1, <2>2 DEF Empty
<1>9. ASSUME At(b, q + 6, r), HasHeader(k) PROVE Empty(c)
  <2>1. ASSUME NEW j \in {1, 2}, Len(c) >= j PROVE c[j] = e[6 + j]
    BY <1>2, <1>4, <1>5, <1>9, <2>1
  <2>2. 6 + 1 = 7 /\ 6 + 2 = 8
    OBVIOUS
  <2> QED
    BY <1>2, <1>9, <2>1, <2>2 DEF Empty
<1>10. /\ q + 8 \in Nat /\ Start(k + 1) \in Nat
       /\ Start(k + 1) = IF HasHeader(k) THEN q + 8 ELSE q + 5
  BY <1>11
<1> QED
  BY <1>1, <1>6, <1>7, <1>8, <1>9, <1>10 DEF q, c

(* The bytes are what they are, whatever is in them.                       *)
LEMMA RequestLines ==
  ASSUME NEW k, NEW v
  PROVE  /\ RequestLine(k, v) # CR
         /\ IsRequestLine(<<RequestLine(k, v)>>) <=> v # "malformed"
         /\ <<RequestLine(k, v)>>[1].request = k
         /\ <<RequestLine(k, v)>>[1].value = v
<1> DEFINE x == RequestLine(k, v)
<1>1. /\ x.type = "requestLine" /\ x.request = k /\ x.value = v
      /\ CR.type = "CR" /\ "CR" # "requestLine"
  BY DEF RequestLine, CR, Symbol
<1> HIDE DEF x
<1>2. <<x>>[1] = x /\ Len(<<x>>) = 1
  OBVIOUS
<1> QED
  BY <1>1, <1>2 DEF IsRequestLine, x

LEMMA Headers ==
  ASSUME NEW c
  PROVE  /\ Header(c) # CR
         /\ ~IsRequestLine(<<Header(c)>>)
         /\ HasColon(<<Header(c)>>) /\ <<Header(c)>>[1].value = c
<1> DEFINE x == Header(c)
<1>1. /\ x.type = "header" /\ x.value = c
      /\ CR.type = "CR" /\ "CR" # "header" /\ "header" # "requestLine"
  BY DEF Header, CR, Symbol
<1> HIDE DEF x
<1>2. <<x>>[1] = x /\ DOMAIN <<x>> = {1}
  OBVIOUS
<1> QED
  BY <1>1, <1>2 DEF IsRequestLine, HasColon, x

LEMMA EmptyLines ==
  ~IsRequestLine(<<>>) /\ ~HasColon(<<>>)
<1>1. Len(<<>>) = 0 /\ DOMAIN <<>> = {}
  OBVIOUS
<1> QED
  BY <1>1 DEF IsRequestLine, HasColon

-----------------------------------------------------------------------------
(* What a turn finds.                                                    *)

(* What a turn leaves: a parse that goes on, one that has stopped, and one that
   has refused a line, with this context.                                  *)
GoesOn(p, x) == p = Parse(TRUE, TRUE, x, p.buffer)
Stopped(p, x) == p = Parse(TRUE, FALSE, x, p.buffer)
Refused(p, x) == p = Parse(FALSE, FALSE, x, p.buffer)

LEMMA GoingOn ==
  ASSUME NEW t, NEW x, NEW w, t = Parse(TRUE, TRUE, x, w)
  PROVE  GoesOn(t, x) /\ t.buffer = w
  BY DEF GoesOn, Parse

(* A turn that does not find a line, and one that does.                    *)
LEMMA NoLine ==
  ASSUME NEW p, NEW x, GoesOn(p, x), findCRLF(p.buffer) = -1
  PROVE  Stopped(Turn(p), x) /\ Turn(p).buffer = p.buffer
<1> DEFINE b == p.buffer
<1>1. p.ok = TRUE /\ p.hasMore = TRUE /\ p.context = x
  BY DEF GoesOn, Parse
<1>2. Turn(p) = Parse(TRUE, FALSE, x, b)
  BY <1>1 DEF Turn, ParseLine
<1> QED
  BY <1>2 DEF Stopped, Parse

LEMMA FirstLine ==
  ASSUME NEW p, GoesOn(p, NewContext), findCRLF(p.buffer) # -1, NEW k, NEW v
  PROVE  LET line == SubSeq(Content(p.buffer), 1, findCRLF(p.buffer))
             rest == retrieve(p.buffer, findCRLF(p.buffer) + 2)
         IN
         /\ ~IsRequestLine(line) =>
              Refused(Turn(p), NewContext) /\ Turn(p).buffer = p.buffer
         /\ IsRequestLine(line) /\ k = line[1].request /\ v = line[1].value =>
              /\ GoesOn(Turn(p), Context("kExpectHeaders", k, v, ""))
              /\ Turn(p).buffer = rest
<1> DEFINE b == p.buffer
           line == SubSeq(Content(b), 1, findCRLF(b))
           rest == retrieve(b, findCRLF(b) + 2)
<1>1. p.ok = TRUE /\ p.hasMore = TRUE /\ p.context = NewContext
  BY DEF GoesOn, Parse
<1>2. /\ NewContext.state = "kExpectRequestLine"
      /\ NewContext.request.connection = ""
  BY DEF NewContext, NoRequest
<1>3. Turn(p) =
         IF IsRequestLine(line)
           THEN Parse(TRUE, TRUE,
                      [state |-> "kExpectHeaders",
                       request |-> [request |-> line[1].request,
                                    version |-> line[1].value,
                                    connection |-> ""]], rest)
           ELSE Parse(FALSE, FALSE, NewContext, b)
  BY <1>1, <1>2 DEF Turn, ParseLine
<1> HIDE DEF line, rest
<1>4. CASE ~IsRequestLine(line)
  <2>1. Turn(p) = Parse(FALSE, FALSE, NewContext, b)
    BY <1>3, <1>4
  <2>2. Refused(Turn(p), NewContext) /\ Turn(p).buffer = b
    BY <2>1 DEF Refused, Parse
  <2> QED
    BY <1>4, <2>2 DEF line
<1>5. CASE IsRequestLine(line) /\ k = line[1].request /\ v = line[1].value
  <2>1. \A y, z : [state |-> "kExpectHeaders",
                   request |-> [request |-> y, version |-> z, connection |-> ""]]
                    = Context("kExpectHeaders", y, z, "")
    BY DEF Context
  <2>3. Turn(p) = Parse(TRUE, TRUE, Context("kExpectHeaders", line[1].request,
                                            line[1].value, ""), rest)
    BY <1>3, <1>5, <2>1
  <2>4. Turn(p) = Parse(TRUE, TRUE, Context("kExpectHeaders", k, v, ""), rest)
    BY <1>5, <2>3
  <2>2. GoesOn(Turn(p), Context("kExpectHeaders", k, v, "")) /\ Turn(p).buffer = rest
    BY <2>4, GoingOn
  <2> QED
    BY <1>5, <2>2 DEF line, rest
<1> QED
  BY <1>4, <1>5 DEF line

(* A header, and the line that ends the headers.                           *)
LEMMA HeaderLine ==
  ASSUME NEW k, NEW v, NEW c, NEW d, NEW p,
         GoesOn(p, Context("kExpectHeaders", k, v, c)), findCRLF(p.buffer) # -1
  PROVE  LET line == SubSeq(Content(p.buffer), 1, findCRLF(p.buffer))
             rest == retrieve(p.buffer, findCRLF(p.buffer) + 2)
         IN
         HasColon(line) /\ d = line[1].value =>
              /\ GoesOn(Turn(p), Context("kExpectHeaders", k, v, d))
              /\ Turn(p).buffer = rest
<1> DEFINE b == p.buffer
           line == SubSeq(Content(b), 1, findCRLF(b))
           rest == retrieve(b, findCRLF(b) + 2)
           x == Context("kExpectHeaders", k, v, c)
<1> SUFFICES ASSUME HasColon(line), d = line[1].value
             PROVE  /\ GoesOn(Turn(p), Context("kExpectHeaders", k, v, d))
                    /\ Turn(p).buffer = rest
  OBVIOUS
<1>1. p.ok = TRUE /\ p.hasMore = TRUE /\ p.context = x
  BY DEF GoesOn, Parse
<1>2. /\ x.state = "kExpectHeaders"
      /\ x.request = [request |-> k, version |-> v, connection |-> c]
  BY DEF Context
<1>3. \A y : [x.request EXCEPT !.connection = y]
               = [request |-> k, version |-> v, connection |-> y]
  BY <1>2
<1>4. \A y : [x EXCEPT !.request = y] = [state |-> "kExpectHeaders", request |-> y]
  BY DEF Context
<1> HIDE DEF x, rest
<1>5. Turn(p) = Parse(TRUE, TRUE,
                      [x EXCEPT !.request = [x.request EXCEPT !.connection = d]],
                      rest)
  BY <1>1, <1>2 DEF Turn, ParseLine, rest
<1>6. Turn(p) = Parse(TRUE, TRUE, Context("kExpectHeaders", k, v, d), rest)
  BY <1>3, <1>4, <1>5 DEF Context
<1> QED
  BY <1>6, GoingOn

LEMMA LastLine ==
  ASSUME NEW k, NEW v, NEW c, NEW p,
         GoesOn(p, Context("kExpectHeaders", k, v, c)), findCRLF(p.buffer) # -1
  PROVE  LET line == SubSeq(Content(p.buffer), 1, findCRLF(p.buffer))
             rest == retrieve(p.buffer, findCRLF(p.buffer) + 2)
         IN
         ~HasColon(line) =>
              /\ Stopped(Turn(p), Context("kGotAll", k, v, c))
              /\ Turn(p).buffer = rest
<1> DEFINE b == p.buffer
           line == SubSeq(Content(b), 1, findCRLF(b))
           rest == retrieve(b, findCRLF(b) + 2)
           x == Context("kExpectHeaders", k, v, c)
<1> SUFFICES ASSUME ~HasColon(line)
             PROVE  /\ Stopped(Turn(p), Context("kGotAll", k, v, c))
                    /\ Turn(p).buffer = rest
  OBVIOUS
<1>1. p.ok = TRUE /\ p.hasMore = TRUE /\ p.context = x
  BY DEF GoesOn, Parse
<1>2. /\ x.state = "kExpectHeaders"
      /\ [x EXCEPT !.state = "kGotAll"] = Context("kGotAll", k, v, c)
  BY DEF Context
<1> HIDE DEF x, rest
<1>3. Turn(p) = Parse(TRUE, FALSE, [x EXCEPT !.state = "kGotAll"], rest)
  BY <1>1, <1>2 DEF Turn, ParseLine, rest
<1>4. Turn(p) = Parse(TRUE, FALSE, Context("kGotAll", k, v, c), rest)
  BY <1>2, <1>3
<1> QED
  BY <1>4 DEF Stopped, Parse

-----------------------------------------------------------------------------
(* A parse that found the buffer at the beginning of request k: before its
   line, which may be malformed, behind it, behind the header, or at the end of
   the request, with what it has found so far.                             *)
Fresh(p, k, r) ==
    LET v == requests[k].version
        c == requests[k].connection
    IN  \/ /\ GoesOn(p, NewContext) \/ Stopped(p, NewContext)
           /\ At(p.buffer, Start(k), r)
        \/ /\ \/ GoesOn(p, Context("kExpectHeaders", k, v, ""))
              \/ Stopped(p, Context("kExpectHeaders", k, v, ""))
           /\ v # "malformed" /\ At(p.buffer, Start(k) + 3, r)
        \/ /\ \/ GoesOn(p, Context("kExpectHeaders", k, v, c))
              \/ Stopped(p, Context("kExpectHeaders", k, v, c))
           /\ v # "malformed" /\ HasHeader(k) /\ At(p.buffer, Start(k) + 6, r)
        \/ /\ Refused(p, NewContext)
           /\ v = "malformed" /\ At(p.buffer, Start(k), r)
        \/ /\ Stopped(p, Context("kGotAll", k, v, c))
           /\ v # "malformed" /\ At(p.buffer, Start(k + 1), r)

(* Where a line of request k begins that is not its first.                 *)
InMiddle(k, q) ==
    \/ q = Start(k) + 3
    \/ HasHeader(k) /\ q = Start(k) + 6

(* A parse that found the buffer there.                                    *)
Middle(p, q, r) ==
    /\ \/ GoesOn(p, NewContext)
       \/ Stopped(p, NewContext)
       \/ Refused(p, NewContext)
    /\ At(p.buffer, q, r)

LEMMA StartNext ==
  ASSUME RequestTypes, NEW k \in 1 .. Len(requests)
  PROVE  /\ Start(k) \in Nat /\ Start(k + 1) \in Nat
         /\ Start(k + 1) = IF HasHeader(k) THEN Start(k) + 8 ELSE Start(k) + 5
<1>1. Start(k) \in Nat /\ Start(k + 1) = Start(k) + Len(Encoded(k))
  BY StreamAt
<1>2. Len(Encoded(k)) = IF HasHeader(k) THEN 8 ELSE 5
  BY EncodedIs
<1> QED
  BY <1>1, <1>2

LEMMA TurnFresh ==
  ASSUME RequestTypes, NEW k \in 1 .. Len(requests), NEW r \in 0 .. Len(Stream), NEW p,
         Fresh(p, k, r)
  PROVE  Fresh(Turn(p), k, r)
<1> DEFINE v == requests[k].version
           c == requests[k].connection
           b == p.buffer
           q == Start(k)
           end == findCRLF(b)
           t == Turn(p)
           Line == SubSeq(Content(b), 1, end)
           Rest == retrieve(b, end + 2)
<1>1. q \in Nat /\ q + 3 \in Nat /\ q + 6 \in Nat
      /\ Start(k + 1) = IF HasHeader(k) THEN q + 8 ELSE q + 5
  BY StartNext
<1>2. CASE ~p.hasMore
  BY <1>2 DEF Turn
<1> HIDE DEF v, c, q, t, Line, Rest
<1>3. CASE GoesOn(p, NewContext) /\ At(b, q, r)
  <2>1. OneByte(Content(b), RequestLine(k, v)) /\ RequestLine(k, v) # CR
    <3>1. OneByte(Content(b), RequestLine(k, v))
      BY <1>3, LinesOfRequest DEF q, v
    <3> QED
      BY <3>1, RequestLines
  <2>2. CASE end = -1
    <3>1. Stopped(t, NewContext) /\ t.buffer = b
      BY <1>3, <2>2, NoLine DEF t
    <3> QED
      BY <1>3, <3>1 DEF Fresh, q, t
  <2>3. CASE end # -1
    <3>1. Line = <<RequestLine(k, v)>> /\ At(Rest, q + 3, r)
      BY <1>1, <1>3, <2>1, <2>3, OneByteLine DEF Line, Rest
    <3>2. /\ IsRequestLine(Line) <=> v # "malformed"
          /\ Line[1].request = k /\ Line[1].value = v
      BY <3>1, RequestLines
    <3>3. CASE v = "malformed"
      <4>1. Refused(t, NewContext) /\ t.buffer = b
        BY <1>3, <2>3, <3>2, <3>3, FirstLine DEF Line, t
      <4> QED
        BY <1>3, <3>3, <4>1 DEF Fresh, q, t, v
    <3>4. CASE v # "malformed"
      <4>1. /\ GoesOn(t, Context("kExpectHeaders", k, v, ""))
            /\ t.buffer = Rest
        BY <1>3, <2>3, <3>2, <3>4, FirstLine DEF Line, Rest, t
      <4> QED
        BY <3>1, <3>4, <4>1 DEF Fresh, q, t, v
    <3> QED
      BY <3>3, <3>4
  <2> QED
    BY <2>2, <2>3
<1>4. ASSUME NEW d, GoesOn(p, Context("kExpectHeaders", k, v, d)),
             NEW o \in Nat, At(b, o, r), Empty(Content(b)), end # -1
      PROVE  /\ Stopped(t, Context("kGotAll", k, v, d))
             /\ At(t.buffer, o + 2, r)
  <2>1. Line = <<>> /\ At(Rest, o + 2, r)
    BY <1>4, EmptyLine DEF Line, Rest
  <2>2. ~HasColon(Line) /\ "kExpectHeaders" # "kExpectRequestLine"
    BY <2>1, EmptyLines
  <2>3. Stopped(t, Context("kGotAll", k, v, d)) /\ t.buffer = Rest
    BY <1>4, <2>2, LastLine DEF Line, Rest, t
  <2> QED
    BY <2>1, <2>3
<1>5. CASE /\ GoesOn(p, Context("kExpectHeaders", k, v, ""))
           /\ v # "malformed" /\ At(b, q + 3, r)
  <2>1. CASE end = -1
    <3>1. Stopped(t, Context("kExpectHeaders", k, v, "")) /\ t.buffer = b
      BY <1>5, <2>1, NoLine DEF t
    <3> QED
      BY <1>5, <3>1 DEF Fresh, q, t, v
  <2>2. CASE end # -1 /\ HasHeader(k)
    <3>1. OneByte(Content(b), Header(c)) /\ Header(c) # CR
      <4>1. OneByte(Content(b), Header(c))
        BY <1>5, <2>2, LinesOfRequest DEF q, c
      <4> QED
        BY <4>1, Headers
    <3>2. Line = <<Header(c)>> /\ At(Rest, (q + 3) + 3, r)
      BY <1>1, <1>5, <2>2, <3>1, OneByteLine DEF Line, Rest
    <3>3. /\ HasColon(Line) /\ Line[1].value = c
          /\ "kExpectHeaders" # "kExpectRequestLine"
      BY <3>2, Headers
    <3>4. /\ GoesOn(t, Context("kExpectHeaders", k, v, c))
          /\ t.buffer = Rest
      BY <1>5, <2>2, <3>3, HeaderLine DEF Line, Rest, t
    <3>5. (q + 3) + 3 = q + 6
      BY <1>1
    <3> QED
      BY <1>5, <2>2, <3>2, <3>3, <3>4, <3>5 DEF Fresh, q, t, v, c
  <2>3. CASE end # -1 /\ ~HasHeader(k)
    <3>1. Empty(Content(b)) /\ c = ""
      BY <1>5, <2>3, LinesOfRequest DEF HasHeader, q, c
    <3>2. /\ Stopped(t, Context("kGotAll", k, v, ""))
          /\ At(t.buffer, (q + 3) + 2, r)
      BY <1>1, <1>4, <1>5, <2>3, <3>1
    <3>3. (q + 3) + 2 = Start(k + 1)
      BY <1>1, <2>3
    <3> QED
      BY <1>5, <3>1, <3>2, <3>3 DEF Fresh, t, v, c
  <2> QED
    BY <2>1, <2>2, <2>3
<1>6. CASE /\ GoesOn(p, Context("kExpectHeaders", k, v, c))
           /\ v # "malformed" /\ HasHeader(k) /\ At(b, q + 6, r)
  <2>1. CASE end = -1
    <3>1. Stopped(t, Context("kExpectHeaders", k, v, c)) /\ t.buffer = b
      BY <1>6, <2>1, NoLine DEF t
    <3> QED
      BY <1>6, <3>1 DEF Fresh, q, t, v, c
  <2>2. CASE end # -1
    <3>1. Empty(Content(b))
      BY <1>6, LinesOfRequest DEF q
    <3>2. /\ Stopped(t, Context("kGotAll", k, v, c))
          /\ At(t.buffer, (q + 6) + 2, r)
      BY <1>1, <1>4, <1>6, <2>2, <3>1
    <3>3. (q + 6) + 2 = Start(k + 1)
      BY <1>1, <1>6
    <3> QED
      BY <1>6, <3>2, <3>3 DEF Fresh, t, v, c
  <2> QED
    BY <2>1, <2>2
<1>7. ASSUME NEW x, Stopped(p, x) \/ Refused(p, x) PROVE ~p.hasMore
  BY <1>7 DEF Stopped, Refused, Parse
<1> QED
  BY <1>2, <1>3, <1>5, <1>6, <1>7 DEF Fresh, q, v, c, t

(* No line but its first is a request line: the rest of a request whose line
   was parsed in an earlier read, by a context that is gone, is refused.    *)
LEMMA TurnMiddle ==
  ASSUME RequestTypes, NEW k \in 1 .. Len(requests), NEW r \in 0 .. Len(Stream), NEW p,
         NEW q, InMiddle(k, q), Middle(p, q, r)
  PROVE  Middle(Turn(p), q, r)
<1> DEFINE b == p.buffer
           end == findCRLF(b)
           Line == SubSeq(Content(b), 1, end)
           x == Header(requests[k].connection)
           t == Turn(p)
<1>1. At(b, q, r) /\ q \in Nat
  BY StartNext DEF Middle, InMiddle
<1> HIDE DEF Line, t, x
<1>2. CASE GoesOn(p, NewContext) /\ end = -1
  <2>1. Stopped(t, NewContext) /\ t.buffer = b
    BY <1>2, NoLine DEF t
  <2> QED
    BY <1>1, <2>1 DEF Middle, t
<1>3. CASE GoesOn(p, NewContext) /\ end # -1
  <2>1. ~IsRequestLine(Line)
    <3>1. CASE HasHeader(k) /\ q = Start(k) + 3
      <4>1. OneByte(Content(b), x) /\ x # CR
        BY <1>1, <3>1, LinesOfRequest, Headers DEF x
      <4>2. Line = <<x>>
        BY <1>1, <1>3, <4>1, OneByteLine DEF Line
      <4> QED
        BY <4>2, Headers DEF x
    <3>2. CASE ~(HasHeader(k) /\ q = Start(k) + 3)
      <4>1. Empty(Content(b))
        BY <1>1, <3>2, LinesOfRequest DEF InMiddle
      <4>2. Line = <<>>
        BY <1>1, <1>3, <4>1, EmptyLine DEF Line
      <4> QED
        BY <4>2, EmptyLines
    <3> QED
      BY <3>1, <3>2
  <2>2. Refused(t, NewContext) /\ t.buffer = b
    BY <1>3, <2>1, FirstLine DEF Line, t
  <2> QED
    BY <1>1, <2>2 DEF Middle, t
<1>4. CASE ~GoesOn(p, NewContext)
  <2>1. ~p.hasMore
    BY <1>4 DEF Middle, Stopped, Refused, Parse
  <2> QED
    BY <2>1 DEF Turn
<1> QED
  BY <1>2, <1>3, <1>4 DEF t

-----------------------------------------------------------------------------
(* All turns.                                                            *)

(* parseRequest(): turn after turn, from a buffer that holds the last bytes that arrived: the
   parse comes to an end, has taken bytes from the front only, and is one from
   the beginning of a request or from the middle of one, as the buffer was.  *)
THEOREM Parsing ==
  ASSUME RequestTypes, NEW r \in 0 .. Len(Stream), NEW b, Suffix(b, r)
  PROVE  LET p == parseRequest(NewContext, b)
             q == r - readableBytes(b)
         IN  /\ Shape(p, r) /\ ~p.hasMore
             /\ \A k \in 1 .. Len(requests) :
                   /\ q = Start(k) => Fresh(p, k, r)
                   /\ InMiddle(k, q) => Middle(p, q, r)
<1> DEFINE m == readableBytes(b)
           q == r - m
           K == 1 .. Len(requests)
           Good(p, n) ==
               /\ Shape(p, r)
               /\ p.hasMore => readableBytes(p.buffer) + 2 * n <= m
               /\ \A k \in K : /\ q = Start(k) => Fresh(p, k, r)
                               /\ InMiddle(k, q) => Middle(p, q, r)
<1>1. m \in Nat /\ m <= r /\ q \in Nat /\ r \in Nat
  BY ContentType, StreamTypes DEF Suffix
<1>2. PICK f : /\ f[0] = Parse(TRUE, TRUE, NewContext, b)
               /\ Turns(f, m)
               /\ parseRequest(NewContext, b) = f[m + 1]
  BY <1>1, ParseTurns
<1>3. Good(f[0], 0)
  <2>1. GoesOn(f[0], NewContext) /\ f[0].buffer = b
    BY <1>2, GoingOn
  <2>2. At(b, q, r)
    BY <1>1 DEF At
  <2>3. /\ f[0].ok = TRUE /\ f[0].hasMore = TRUE /\ f[0].context = NewContext
    BY <2>1 DEF GoesOn, Parse
  <2>4. NewContext = Context(NewContext.state, NewContext.request.request,
                             NewContext.request.version,
                             NewContext.request.connection)
    BY DEF NewContext, NoRequest, Context
  <2>5. Shape(f[0], r)
    BY <2>1, <2>3, <2>4 DEF Shape, GoesOn
  <2>6. readableBytes(f[0].buffer) + 2 * 0 <= m
    BY <1>1, <2>1
  <2> HIDE DEF q
  <2>7. \A k \in K : /\ q = Start(k) => Fresh(f[0], k, r)
                     /\ InMiddle(k, q) => Middle(f[0], q, r)
    BY <2>1, <2>2 DEF Fresh, Middle
  <2> QED
    BY <2>5, <2>6, <2>7 DEF q
<1>4. ASSUME NEW n \in 0 .. m, Good(f[n], n) PROVE Good(f[n + 1], n + 1)
  <2> DEFINE p == f[n]
             t == f[n + 1]
  <2>1. t = Turn(p)
    BY <1>2 DEF Turns
  <2>2. /\ Shape(t, r)
        /\ t.hasMore => p.hasMore /\ readableBytes(t.buffer) + 2 <= readableBytes(p.buffer)
    BY <1>4, <2>1, TurnKeeps
  <2> HIDE DEF q, p, t
  <2>3. \A k \in K : /\ q = Start(k) => Fresh(t, k, r)
                     /\ InMiddle(k, q) => Middle(t, q, r)
    BY <1>4, <2>1, TurnFresh, TurnMiddle DEF p, t
  <2>4. /\ t.hasMore => readableBytes(t.buffer) + 2 * (n + 1) <= m
    <3> SUFFICES ASSUME t.hasMore PROVE readableBytes(t.buffer) + 2 * (n + 1) <= m
      OBVIOUS
    <3>1. /\ readableBytes(t.buffer) + 2 <= readableBytes(p.buffer)
          /\ readableBytes(p.buffer) + 2 * n <= m
      BY <1>4, <2>2 DEF p
    <3>2. readableBytes(t.buffer) \in Nat /\ readableBytes(p.buffer) \in Nat
      BY <1>4, <2>2, ContentType DEF Shape, Suffix, p
    <3> HIDE DEF m
    <3> QED
      BY <1>1, <3>1, <3>2
  <2> QED
    BY <2>2, <2>3, <2>4 DEF t, q
<1> DEFINE S == {n \in Nat : n <= m + 1 => Good(f[n], n)}
<1>5. 0 \in S
  BY <1>3
<1>6. ASSUME NEW n \in Nat, n \in S PROVE n + 1 \in S
  <2> HIDE DEF Good
  <2>1. CASE n <= m
    <3>1. n \in 0 .. m /\ n <= m + 1
      BY <1>1, <2>1
    <3> QED
      BY <1>4, <1>6, <3>1
  <2>2. CASE ~(n <= m)
    BY <1>1, <2>2
  <2> QED
    BY <2>1, <2>2
<1> HIDE DEF Good
<1>7. m + 1 \in S
  <2> HIDE DEF S
  <2>1. Nat \subseteq S
    BY <1>5, <1>6, SetInduction
  <2> QED
    BY <1>1, <2>1
<1>8. Good(f[m + 1], m + 1)
  BY <1>1, <1>7
<1>9. ~f[m + 1].hasMore
  <2>1. readableBytes(f[m + 1].buffer) \in Nat
    BY <1>8, ContentType DEF Good, Shape, Suffix
  <2>2. f[m + 1].hasMore => readableBytes(f[m + 1].buffer) + 2 * (m + 1) <= m
    BY <1>8 DEF Good
  <2> HIDE DEF m
  <2> QED
    BY <1>1, <2>1, <2>2
<1> QED
  BY <1>2, <1>8, <1>9 DEF Good

-----------------------------------------------------------------------------
(* Where a request begins, or what is left of one, when n are answered.    *)
Position(n, q) ==
    /\ n + 1 \in 1 .. Len(requests) + 1
    /\ \/ q = Start(n + 1)
       \/ n + 1 <= Len(requests) /\ InMiddle(n + 1, q)

(* What was parsed is request n + 1, a part of it, or nothing; only a malformed
   request is refused where it begins.                                     *)
LEMMA ParsedRequest ==
  ASSUME RequestTypes, NEW r \in 0 .. Len(Stream), NEW b, Suffix(b, r),
         NEW n \in Nat, Position(n, r - readableBytes(b)),
         r - readableBytes(b) < Len(Stream)
  PROVE  LET p == parseRequest(NewContext, b)
         IN  /\ Suffix(p.buffer, r)
             /\ n + 1 \in 1 .. Len(requests)
             /\ p.ok /\ p.context.state = "kGotAll" =>
                   /\ p.context.request =
                         [request |-> n + 1,
                          version |-> requests[n + 1].version,
                          connection |-> requests[n + 1].connection]
                   /\ requests[n + 1].version # "malformed"
                   /\ Position(n + 1, r - readableBytes(p.buffer))
             /\ p.ok /\ p.context.state # "kGotAll" =>
                   Position(n, r - readableBytes(p.buffer))
<1> DEFINE p == parseRequest(NewContext, b)
           q == r - readableBytes(b)
           k == n + 1
           now == r - readableBytes(p.buffer)
<1>1. k \in 1 .. Len(requests)
  <2>1. k # Len(requests) + 1
    BY StartEnds DEF Position, InMiddle, RequestTypes
  <2> QED
    BY <2>1 DEF Position, RequestTypes
<1>2. q \in Nat /\ r \in Nat
  BY ContentType, StreamTypes DEF Suffix
<1> HIDE DEF p, q
<1>3. /\ Shape(p, r) /\ ~p.hasMore
      /\ q = Start(k) => Fresh(p, k, r)
      /\ InMiddle(k, q) => Middle(p, q, r)
  BY <1>1, Parsing DEF p, q
<1>4. Suffix(p.buffer, r) /\ readableBytes(p.buffer) \in Nat
  BY <1>3, ContentType DEF Shape, Suffix
<1>5. ASSUME NEW x, Stopped(p, x) PROVE p.ok /\ p.context = x
  BY <1>5 DEF Stopped, Parse
<1>6. ASSUME NEW x, Refused(p, x) PROVE ~p.ok
  BY <1>6 DEF Refused, Parse
<1>7. ASSUME NEW x PROVE ~GoesOn(p, x)
  BY <1>3 DEF GoesOn, Parse
<1>8. ASSUME NEW o \in Nat, At(p.buffer, o, r) PROVE now = o
  BY <1>2, <1>4, <1>8 DEF At
<1>9. NewContext.state # "kGotAll"
  BY DEF NewContext
<1>10. ASSUME NEW v, NEW c
       PROVE  /\ Context("kExpectHeaders", k, v, c).state # "kGotAll"
              /\ Context("kGotAll", k, v, c).state = "kGotAll"
              /\ Context("kGotAll", k, v, c).request =
                    [request |-> k, version |-> v, connection |-> c]
  BY DEF Context
<1>11. k + 1 \in 1 .. Len(requests) + 1 /\ k \in 1 .. Len(requests) + 1
  BY <1>1 DEF RequestTypes
<1>12. Start(k) \in Nat /\ Start(k + 1) \in Nat /\ Start(k) + 3 \in Nat
       /\ Start(k) + 6 \in Nat
  BY <1>1, StartNext
<1> HIDE DEF now
<1>13. CASE q = Start(k)
  <2>1. Fresh(p, k, r)
    BY <1>3, <1>13
  <2>2. CASE Stopped(p, NewContext) /\ At(p.buffer, Start(k), r)
    <3>1. p.ok /\ p.context.state # "kGotAll" /\ now = Start(k)
      BY <1>5, <1>8, <1>9, <1>12, <2>2
    <3> QED
      BY <1>1, <1>4, <1>11, <3>1 DEF Position, p, now
  <2>3. CASE \E c : /\ Stopped(p, Context("kExpectHeaders", k, requests[k].version, c))
                    /\ \/ At(p.buffer, Start(k) + 3, r)
                       \/ HasHeader(k) /\ At(p.buffer, Start(k) + 6, r)
    <3>0. PICK c : Stopped(p, Context("kExpectHeaders", k, requests[k].version, c))
      BY <2>3
    <3>1. p.ok /\ p.context.state # "kGotAll"
      <4> DEFINE v == requests[k].version
                 x == Context("kExpectHeaders", k, v, c)
      <4>1. Stopped(p, x)
        BY <3>0
      <4>2. x.state # "kGotAll"
        BY DEF Context
      <4> HIDE DEF x
      <4> QED
        BY <1>5, <4>1, <4>2
    <3>2. InMiddle(k, now)
      BY <1>8, <1>12, <2>3 DEF InMiddle
    <3>3. k <= Len(requests)
      BY <1>1
    <3> QED
      BY <1>1, <1>4, <1>11, <3>1, <3>2, <3>3 DEF Position, p, now
  <2>4. CASE Refused(p, NewContext)
    BY <1>1, <1>4, <1>6, <2>4 DEF p
  <2>5. CASE /\ Stopped(p, Context("kGotAll", k, requests[k].version,
                                   requests[k].connection))
             /\ requests[k].version # "malformed" /\ At(p.buffer, Start(k + 1), r)
    <3>1. /\ p.ok /\ p.context.state = "kGotAll" /\ now = Start(k + 1)
          /\ p.context.request = [request |-> k, version |-> requests[k].version,
                                  connection |-> requests[k].connection]
      BY <1>5, <1>8, <1>10, <1>12, <2>5
    <3> QED
      BY <1>1, <1>4, <1>11, <2>5, <3>1 DEF Position, p, now
  <2> QED
    BY <1>7, <2>1, <2>2, <2>3, <2>4, <2>5 DEF Fresh
<1>14. CASE InMiddle(k, q)
  <2>1. Middle(p, q, r)
    BY <1>3, <1>14
  <2>2. now = q
    BY <1>2, <1>8, <2>1 DEF Middle
  <2>3. p.ok => p.context.state # "kGotAll"
    BY <1>5, <1>6, <1>7, <1>9, <2>1 DEF Middle
  <2>4. Position(n, now)
    BY <2>2 DEF q
  <2> QED
    BY <1>1, <1>4, <2>3, <2>4 DEF p, now
<1> QED
  BY <1>13, <1>14 DEF Position, q

-----------------------------------------------------------------------------
(* Answering.                                                            *)

(* What a response may be.                                                 *)
Response ==
    [status : {"answer", "400 Bad Request"}, request : Nat, close : BOOLEAN]

Answers(k, x) ==
    /\ x.status = "answer" =>
          x.request = k /\ requests[k].version # "malformed"
    /\ ~x.close =>
          LET r == requests[k]
          IN  IF r.version = "HTTP/1.1" THEN r.connection # "close"
                                        ELSE r.connection = "Keep-Alive"

Answered ==
    \A k \in 1 .. Len(responses) :
        /\ Answers(k, responses[k])
        /\ responses[k].close <=> k = Len(responses) /\ state = "kDisconnecting"

(* The inductive invariant: while the connection is open, what is left in the
   buffer and on its way begins where a request begins that is the next to be
   answered, or where one of its lines does.                               *)
IHttp ==
    /\ RequestTypes
    /\ state \in {"kConnected", "kDisconnecting"}
    /\ received \in 0 .. Len(Stream)
    /\ Suffix(inputBuffer, received)
    /\ responses \in Seq(Response)
    /\ Answered
    /\ state = "kConnected" =>
          Position(Len(responses), received - readableBytes(inputBuffer))

LEMMA NewBufferEmpty ==
  ASSUME RequestTypes
  PROVE  Suffix(NewBuffer, 0) /\ readableBytes(NewBuffer) = 0
<1> DEFINE b == NewBuffer
<1>1. /\ b.buffer = [i \in 0 .. kCheapPretend + kInitialSize - 1 |-> Zero]
      /\ b.size = kCheapPretend + kInitialSize
      /\ b.readerIndex = kCheapPretend /\ b.writerIndex = kCheapPretend
  BY DEF NewBuffer
<1> HIDE DEF b
<1>2. WellFormed(b) /\ readableBytes(b) = 0
  BY <1>1, BufferAssumption DEF WellFormed, readableBytes
<1>3. Content(b) \in Seq(Byte) /\ Len(Content(b)) = 0
  BY <1>2, ContentType
<1>4. Content(b) = <<>>
  BY <1>3
<1>5. SubSeq(Stream, 1, 0) = <<>>
  BY StreamTypes
<1>6. 0 - readableBytes(b) + 1 = 1 /\ readableBytes(b) <= 0
  BY <1>2
<1>7. Suffix(b, 0)
  BY <1>2, <1>4, <1>5, <1>6 DEF Suffix
<1> QED
  BY <1>2, <1>7 DEF b

LEMMA InitIHttp == Init => IHttp
<1> SUFFICES ASSUME Init PROVE IHttp
  OBVIOUS
<1>1. RequestTypes
  <2>1. PICK n \in 1 .. MaxRequests : requests \in [1 .. n -> RequestKinds]
    BY DEF Init
  <2>2. n \in Nat
    BY HttpServerAssumption
  <2> QED
    BY <2>1, <2>2 DEF RequestTypes
<1>2. /\ received = 0 /\ inputBuffer = NewBuffer /\ state = "kConnected"
      /\ responses = <<>>
  BY DEF Init
<1>3. received \in 0 .. Len(Stream)
  BY <1>1, <1>2, StreamTypes
<1>4. Suffix(inputBuffer, received) /\ received - readableBytes(inputBuffer) = 0
  BY <1>1, <1>2, NewBufferEmpty
<1>5. responses \in Seq(Response) /\ Len(responses) = 0
  BY <1>2
<1>6. Answered
  BY <1>5 DEF Answered
<1>7. Position(Len(responses), received - readableBytes(inputBuffer))
  BY <1>1, <1>4, <1>5, StartEnds DEF Position, RequestTypes
<1> QED
  BY <1>1, <1>2, <1>3, <1>4, <1>5, <1>6, <1>7 DEF IHttp

(* A response to the next request, after which the connection is as the
   response says.                                                          *)
LEMMA Respond ==
  ASSUME IHttp, state = "kConnected", requests' = requests,
         NEW x \in Response, responses' = Append(responses, x),
         Answers(Len(responses) + 1, x),
         state' = IF x.close THEN "kDisconnecting" ELSE "kConnected"
  PROVE  /\ responses' \in Seq(Response) /\ Len(responses') = Len(responses) + 1
         /\ Answered'
         /\ state' \in {"kConnected", "kDisconnecting"}
<1> DEFINE n == Len(responses)
<1>1. /\ responses \in Seq(Response) /\ n \in Nat
      /\ responses' \in Seq(Response) /\ Len(responses') = n + 1
      /\ responses'[n + 1] = x
      /\ \A k \in 1 .. n : responses'[k] = responses[k]
  BY DEF IHttp
<1>2. ASSUME NEW k \in 1 .. n
      PROVE  Answers(k, responses[k]) /\ ~responses[k].close
  BY DEF IHttp, Answered
<1>3. x.close \in BOOLEAN
  BY DEF Response
<1>4. ASSUME NEW k \in 1 .. n + 1
      PROVE  /\ Answers(k, responses'[k])
             /\ responses'[k].close <=> k = n + 1 /\ state' = "kDisconnecting"
  <2>1. CASE k = n + 1
    BY <1>1, <1>3, <2>1
  <2>2. CASE k # n + 1
    <3>1. k \in 1 .. n
      BY <1>1, <2>2
    <3> QED
      BY <1>1, <1>2, <2>2, <3>1
  <2> QED
    BY <2>1, <2>2
<1>5. Answered'
  BY <1>1, <1>4 DEF Answered, Answers
<1> QED
  BY <1>1, <1>5

LEMMA StreamStays ==
  ASSUME requests' = requests
  PROVE  /\ RequestTypes' <=> RequestTypes
         /\ Stream' = Stream
         /\ Suffix(inputBuffer, received)' <=> Suffix(inputBuffer', received')
<1>1. RequestTypes' <=> RequestTypes
  BY DEF RequestTypes
<1>2. Stream' = Stream
  BY DEF Stream, Encoded
<1> QED
  BY <1>1, <1>2 DEF Suffix

LEMMA PositionStays ==
  ASSUME requests' = requests, NEW n, NEW q, n = Len(responses)',
         q = (received - readableBytes(inputBuffer))', Position(n, q)
  PROVE  Position(Len(responses), received - readableBytes(inputBuffer))'
<1>1. Encodings' = Encodings
  BY DEF Encodings, Encoded
<1>2. Start(n + 1) = Len(FlattenSeq(SubSeq(Encodings', 1, (n + 1) - 1)))
  BY <1>1 DEF Start
<1> QED
  BY <1>1 DEF Position, Start, InMiddle, HasHeader

LEMMA NextIHttp ==
  ASSUME IHttp, [Next]_vars
  PROVE  IHttp'
<1>1. CASE UNCHANGED vars
  <2>1. /\ requests' = requests /\ received' = received /\ state' = state
        /\ inputBuffer' = inputBuffer /\ responses' = responses
    BY <1>1 DEF vars
  <2>2. RequestTypes' /\ Stream' = Stream /\ Suffix(inputBuffer, received)'
    BY <2>1, StreamStays DEF IHttp
  <2>3. Answered'
    BY <2>1 DEF IHttp, Answered, Answers
  <2>4. state' = "kConnected" =>
          Position(Len(responses), received - readableBytes(inputBuffer))'
    BY <2>1, PositionStays DEF IHttp
  <2> QED
    BY <2>1, <2>2, <2>3, <2>4 DEF IHttp
<1>2. ASSUME NEW n \in 1 .. Len(Stream) - received, HandleRead(n) PROVE IHttp'
  <2> DEFINE b == readFd(inputBuffer, SubSeq(Stream, received + 1, received + n))
             p == parseRequest(NewContext, b)
             r == received + n
             k == Len(responses)
             now == r - readableBytes(p.buffer)
  <2>1. /\ requests' = requests /\ received' = r /\ inputBuffer' = p.buffer
        /\ \/ ~p.ok /\ BadRequest
           \/ p.ok /\ p.context.state = "kGotAll" /\ OnRequest(p.context.request)
           \/ /\ p.ok /\ p.context.state # "kGotAll"
              /\ UNCHANGED <<state, responses>>
    BY <1>2 DEF HandleRead
  <2>2. /\ RequestTypes /\ Stream \in Seq(Byte) /\ Len(Stream) \in Nat
        /\ received \in 0 .. Len(Stream) /\ Suffix(inputBuffer, received)
        /\ responses \in Seq(Response) /\ k \in Nat
        /\ state \in {"kConnected", "kDisconnecting"}
    BY StreamTypes DEF IHttp
  <2>3. /\ r \in 0 .. Len(Stream) /\ n \in 0 .. Len(Stream) - received
        /\ received \in Nat /\ n \in Nat /\ n >= 1 /\ r \in Nat
    BY <1>2, <2>2
  <2>4. Suffix(b, r) /\ readableBytes(b) = readableBytes(inputBuffer) + n
    BY <2>2, <2>3, ReadKeeps
  <2>5. readableBytes(inputBuffer) \in Nat /\ readableBytes(b) \in Nat
    BY <2>2, <2>4, ContentType DEF Suffix
  <2> HIDE DEF b, p
  <2>6. Suffix(p.buffer, r)
    <3>1. Shape(p, r)
      BY <2>2, <2>3, <2>4, Parsing DEF p
    <3> QED
      BY <3>1 DEF Shape
  <2>7. RequestTypes' /\ Stream' = Stream /\ Suffix(inputBuffer, received)'
        /\ received' \in 0 .. Len(Stream')
    BY <2>1, <2>2, <2>3, <2>6, StreamStays
  <2>8. CASE state = "kDisconnecting"
    <3>1. state' = state /\ responses' = responses
      BY <2>1, <2>8 DEF BadRequest, OnRequest, Send, Shutdown
    <3>2. Answered'
      BY <2>1, <3>1 DEF IHttp, Answered, Answers
    <3> QED
      BY <2>2, <2>7, <2>8, <3>1, <3>2 DEF IHttp
  <2>9. CASE state = "kConnected"
    <3>1. /\ r - readableBytes(b) = received - readableBytes(inputBuffer)
          /\ r - readableBytes(b) < Len(Stream)
      <4> HIDE DEF k
      <4> QED
        BY <2>2, <2>3, <2>4, <2>5
    <3>2. Position(k, r - readableBytes(b))
      BY <2>9, <3>1 DEF IHttp
    <3>3. /\ k + 1 \in 1 .. Len(requests)
          /\ p.ok /\ p.context.state = "kGotAll" =>
                /\ p.context.request =
                      [request |-> k + 1,
                       version |-> requests[k + 1].version,
                       connection |-> requests[k + 1].connection]
                /\ requests[k + 1].version # "malformed"
                /\ Position(k + 1, now)
          /\ p.ok /\ p.context.state # "kGotAll" => Position(k, now)
      <4> HIDE DEF r, k
      <4> QED
        BY <2>2, <2>3, <2>4, <3>1, <3>2, ParsedRequest DEF p
    <3>4. (received - readableBytes(inputBuffer))' = now
      BY <2>1
    <3>5. CASE ~p.ok /\ BadRequest
      <4> DEFINE x == [status |-> "400 Bad Request", request |-> 0, close |-> TRUE]
      <4>1. /\ responses' = Append(responses, x) /\ state' = "kDisconnecting"
        BY <2>9, <3>5 DEF BadRequest, Send, Shutdown
      <4>2. x \in Response /\ x.close = TRUE /\ x.status # "answer"
        <5>1. x \in Response
          BY DEF Response
        <5>2. x.status = "400 Bad Request" /\ x.close = TRUE
          OBVIOUS
        <5> QED
          BY <5>1, <5>2
      <4> HIDE DEF x
      <4>3. Answers(k + 1, x)
        BY <4>2 DEF Answers
      <4>4. responses' \in Seq(Response) /\ Answered'
        BY <2>1, <2>9, <4>1, <4>2, <4>3, Respond
      <4> QED
        BY <2>7, <4>1, <4>4 DEF IHttp
    <3>6. CASE /\ p.ok /\ p.context.state = "kGotAll"
               /\ OnRequest(p.context.request)
      <4> DEFINE q == p.context.request
      <4>1. /\ q.request = k + 1 /\ q.version = requests[k + 1].version
            /\ q.connection = requests[k + 1].connection
            /\ requests[k + 1].version # "malformed" /\ Position(k + 1, now)
        BY <3>3, <3>6
      <4>2. PICK close \in {AsksToClose(q), TRUE} :
              /\ Send([status |-> "answer", request |-> q.request, close |-> close])
              /\ IF close THEN Shutdown ELSE UNCHANGED state
        BY <3>6 DEF OnRequest
      <4> DEFINE x == [status |-> "answer", request |-> k + 1, close |-> close]
      <4> HIDE DEF q
      <4>3. close \in BOOLEAN /\ (~close => ~AsksToClose(q))
        BY <4>2 DEF AsksToClose
      <4>4. /\ responses' = Append(responses, x)
            /\ state' = IF close THEN "kDisconnecting" ELSE "kConnected"
        BY <2>9, <4>1, <4>2, <4>3 DEF Send, Shutdown
      <4>5. x \in Response /\ (x.close <=> close) /\ x.request = k + 1
        <5>1. k + 1 \in Nat
          BY <2>2
        <5>2. x \in Response
          BY <4>3, <5>1 DEF Response
        <5>3. (x.close <=> close) /\ x.request = k + 1
          OBVIOUS
        <5> QED
          BY <5>2, <5>3
      <4> HIDE DEF x
      <4>6. Answers(k + 1, x)
        <5>1. requests[k + 1].version \in Versions
          <6>1. requests[k + 1] \in RequestKinds
            BY <2>2, <3>3 DEF RequestTypes
          <6> QED
            BY <6>1, HttpServerAssumption
        <5> QED
          BY <4>1, <4>3, <4>5, <5>1 DEF Answers, AsksToClose, Versions
      <4>7. /\ responses' \in Seq(Response) /\ Len(responses') = k + 1 /\ Answered'
            /\ state' \in {"kConnected", "kDisconnecting"}
        BY <2>1, <2>9, <4>4, <4>5, <4>6, Respond
      <4>8. Position(Len(responses), received - readableBytes(inputBuffer))'
        BY <2>1, <3>4, <4>1, <4>7, PositionStays
      <4> QED
        BY <2>7, <4>7, <4>8 DEF IHttp
    <3>7. CASE /\ p.ok /\ p.context.state # "kGotAll"
               /\ UNCHANGED <<state, responses>>
      <4>1. state' = state /\ responses' = responses
        BY <3>7
      <4>2. Answered'
        BY <2>1, <4>1 DEF IHttp, Answered, Answers
      <4>3. Position(Len(responses), received - readableBytes(inputBuffer))'
        BY <2>1, <3>3, <3>4, <3>7, <4>1, PositionStays
      <4> QED
        BY <2>2, <2>7, <4>1, <4>2, <4>3 DEF IHttp
    <3> QED
      BY <2>1, <3>5, <3>6, <3>7
  <2> QED
    BY <2>2, <2>8, <2>9
<1> QED
  BY <1>1, <1>2 DEF Next

LEMMA HttpInvariant == Spec => []IHttp
  BY InitIHttp, NextIHttp, PTL DEF Spec

(* However the reads fall and whatever was retrieved in between, the input
   buffer holds the last bytes that arrived, each once and in order, inside its
   vector: Buffer's readFd() and retrieve() under the reads and the parsing of
   TcpConnection::handleRead() and HttpServer::onMessage().                *)
THEOREM InputInOrder == Spec => []InputIsQueue
<1>1. IHttp => InputIsQueue
  BY DEF IHttp, Suffix, InputIsQueue
<1> QED
  BY <1>1, HttpInvariant, PTL

(* The k-th response answers the k-th request, which is not malformed, and only
   one that keeps the connection is followed by another: however the bytes of
   the requests are cut into reads, HttpServer::onMessage() parses no request
   twice and none from its middle.                                         *)
THEOREM RequestsAnsweredInOrder == Spec => []AnsweredInOrder
<1>1. IHttp => AnsweredInOrder
  BY DEF IHttp, Answered, Answers, AnsweredInOrder
<1> QED
  BY <1>1, HttpInvariant, PTL
=============================================================================

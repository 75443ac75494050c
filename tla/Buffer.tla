-------------------------------- MODULE Buffer --------------------------------
(***************************************************************************)
(* mymuduo::Buffer, the input and output buffer of a TcpConnection: a      *)
(* queue of bytes in a vector, read at readerIndex_ and written at         *)
(* writerIndex_, with a reserve in front.  When there is no room for what  *)
(* is to be appended, the bytes are moved to the front, or the vector is   *)
(* made larger.                                                            *)
(*                                                                         *)
(* A buffer is a record of the vector (its indices from 0), the vector's   *)
(* size and the two indices; the operators are the methods.                *)
(***************************************************************************)
EXTENDS Integers, Sequences

CONSTANTS
    kCheapPretend,  \* the reserve
    kInitialSize,
    ExtraSize,      \* the size of readFd()'s extrabuf
    Byte, Zero      \* the bytes, and the one a vector is filled with

ASSUME BufferAssumption ==
    /\ kCheapPretend \in Nat
    /\ kInitialSize \in Nat
    /\ ExtraSize \in Nat
    /\ Zero \in Byte

NewBuffer ==
    [buffer |-> [i \in 0 .. kCheapPretend + kInitialSize - 1 |-> Zero],
     size |-> kCheapPretend + kInitialSize,
     readerIndex |-> kCheapPretend,
     writerIndex |-> kCheapPretend]

readableBytes(b) == b.writerIndex - b.readerIndex
writableBytes(b) == b.size - b.writerIndex
prependableBytes(b) == b.readerIndex

\* The bytes from peek() to beginWrite().
Content(b) ==
    [i \in 1 .. readableBytes(b) |-> b.buffer[b.readerIndex + i - 1]]

\* What every method relies on.
WellFormed(b) ==
    /\ b.size \in Nat /\ b.readerIndex \in Nat /\ b.writerIndex \in Nat
    /\ kCheapPretend <= b.readerIndex
    /\ b.readerIndex <= b.writerIndex
    /\ b.writerIndex <= b.size
    /\ b.buffer \in [0 .. b.size - 1 -> Byte]

-----------------------------------------------------------------------------
retrieveAll(b) ==
    [b EXCEPT !.readerIndex = kCheapPretend, !.writerIndex = kCheapPretend]

retrieve(b, len) ==
    IF len < readableBytes(b)
      THEN [b EXCEPT !.readerIndex = @ + len]
      ELSE retrieveAll(b)

\* buffer_.resize(n) to more than its size.
Resize(b, n) ==
    [b EXCEPT !.buffer = [i \in 0 .. n - 1 |->
                             IF i < b.size THEN b.buffer[i] ELSE Zero],
              !.size = n]

\* Mutant: the indices move and the bytes do not.
MoveIndicesToFront(b) ==
    [b EXCEPT !.readerIndex = kCheapPretend,
              !.writerIndex = kCheapPretend + readableBytes(b)]

\* Moves the bytes down to the reserve.
MoveToFront(b) ==
    [b EXCEPT !.buffer = [i \in 0 .. b.size - 1 |->
                   IF kCheapPretend <= i /\ i < kCheapPretend + readableBytes(b)
                     THEN b.buffer[b.readerIndex + i - kCheapPretend]
                     ELSE b.buffer[i]],
              !.readerIndex = kCheapPretend,
              !.writerIndex = kCheapPretend + readableBytes(b)]

makeSpace(b, len) ==
    IF writableBytes(b) + prependableBytes(b) < len + kCheapPretend
      THEN Resize(b, b.writerIndex + len)
      ELSE MoveToFront(b)

ensureWritableBytes(b, len) ==
    IF writableBytes(b) < len THEN makeSpace(b, len) ELSE b

\* std::copy() to beginWrite(), and writerIndex_ after it.
Write(b, data) ==
    [b EXCEPT !.buffer = [i \in 0 .. b.size - 1 |->
                   IF b.writerIndex <= i /\ i < b.writerIndex + Len(data)
                     THEN data[i - b.writerIndex + 1]
                     ELSE b.buffer[i]],
              !.writerIndex = @ + Len(data)]

append(b, data) == Write(ensureWritableBytes(b, Len(data)), data)

\* The most that one readv() can return.
ReadLimit(b) ==
    writableBytes(b) + (IF writableBytes(b) < ExtraSize THEN ExtraSize ELSE 0)

\* readFd() when readv() returns data: what does not fit in the vector is in
\* extrabuf, and appended.
readFd(b, data) ==
    LET writable == writableBytes(b)
    IN  IF Len(data) <= writable
          THEN Write(b, data)
          ELSE append(Write(b, SubSeq(data, 1, writable)),
                      SubSeq(data, writable + 1, Len(data)))
=============================================================================

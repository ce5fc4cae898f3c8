------------------------------- MODULE Buffer -------------------------------
(***************************************************************************)
(* Buffer (src/include/hohnor/common/Buffer.h, src/src/net/Buffer.cpp) as  *)
(* operators on records [data, readerIndex, writerIndex, lastWriteBytes].  *)
(* data is the vector; byte i of the vector is element i + 1.  A byte is a *)
(* member of any set; 0 stands for what resize() fills in.                 *)
(***************************************************************************)
EXTENDS Integers, Sequences

CONSTANTS
  kCheapPrepend,  \* 8 in the code
  kInitialSize,   \* 1024 in the code
  ExtraSize       \* sizeof extrabuf, 65536 in the code

ASSUME BufferAssumption ==
  kCheapPrepend \in Nat /\ kInitialSize \in Nat /\ ExtraSize \in Nat

Zeros(n) == [i \in 1..n |-> 0]

NewBuffer(initialSize) ==
  [data |-> Zeros(kCheapPrepend + initialSize), readerIndex |-> kCheapPrepend,
   writerIndex |-> kCheapPrepend, lastWriteBytes |-> 0]

readableBytes(b) == b.writerIndex - b.readerIndex
writableBytes(b) == Len(b.data) - b.writerIndex
readableSlice(b) == SubSeq(b.data, b.readerIndex + 1, b.writerIndex)

\* std::copy of the bytes s to the place at.
Copied(data, s, at) ==
  [i \in 1..Len(data) |-> IF i - at \in 1..Len(s) THEN s[i - at] ELSE data[i]]

retrieveAll(b) ==
  [b EXCEPT !.readerIndex = kCheapPrepend, !.writerIndex = kCheapPrepend]

retrieve(b, len) ==
  IF len < readableBytes(b) THEN [b EXCEPT !.readerIndex = @ + len]
                            ELSE retrieveAll(b)

\* Mutant: the room kept for prepending is counted as writable.
MakeSpaceEverywhere(b, len) ==
  IF writableBytes(b) + b.readerIndex < len
    THEN [b EXCEPT !.data = @ \o Zeros(b.writerIndex + len - Len(@))]
    ELSE [b EXCEPT !.data = Copied(@, readableSlice(b), kCheapPrepend),
                   !.readerIndex = kCheapPrepend,
                   !.writerIndex = kCheapPrepend + readableBytes(b)]

\* Mutant: the readable bytes are not moved with their index.
MakeSpaceUnmoved(b, len) ==
  IF writableBytes(b) + b.readerIndex < len + kCheapPrepend
    THEN [b EXCEPT !.data = @ \o Zeros(b.writerIndex + len - Len(@))]
    ELSE [b EXCEPT !.readerIndex = kCheapPrepend,
                   !.writerIndex = kCheapPrepend + readableBytes(b)]

makeSpace(b, len) ==
  IF writableBytes(b) + b.readerIndex < len + kCheapPrepend
    THEN [b EXCEPT !.data = @ \o Zeros(b.writerIndex + len - Len(@))]
    ELSE [b EXCEPT !.data = Copied(@, readableSlice(b), kCheapPrepend),
                   !.readerIndex = kCheapPrepend,
                   !.writerIndex = kCheapPrepend + readableBytes(b)]

ensureWritable(b, len) ==
  IF writableBytes(b) < len THEN makeSpace(b, len) ELSE b

hasWritten(b, len) ==
  [b EXCEPT !.writerIndex = @ + len, !.lastWriteBytes = len]

append(b, s) ==
  LET roomy == ensureWritable(b, Len(s))
  IN hasWritten([roomy EXCEPT !.data = Copied(@, s, roomy.writerIndex)], Len(s))

prepend(b, s) ==
  LET reader == b.readerIndex - Len(s)
  IN [b EXCEPT !.readerIndex = reader, !.data = Copied(@, s, reader)]

unwrite(b, len) ==
  [b EXCEPT !.writerIndex = @ - len,
            !.lastWriteBytes = readableBytes(b) - len]

\* The bytes s have arrived: first into the writable part, the rest into
\* extrabuf.  Only what goes through extrabuf counts as last written.
readFd(b, s) ==
  LET room == writableBytes(b)
      n == IF Len(s) <= room THEN Len(s) ELSE room
      filled == [b EXCEPT
                   !.data = Copied(@, SubSeq(s, 1, n), b.writerIndex),
                   !.writerIndex = @ + n]
  IN IF n = Len(s) THEN filled ELSE append(filled, SubSeq(s, n + 1, Len(s)))

\* swap() exchanges all but lastWriteBytes_.
swap(b, other) == [other EXCEPT !.lastWriteBytes = b.lastWriteBytes]

shrink(b, reserve) ==
  LET other == ensureWritable(NewBuffer(kInitialSize),
                              readableBytes(b) + reserve)
  IN swap(b, append(other, readableSlice(b)))

\* findEOL() and findCRLF() from the byte at index start on, as one byte.
Finds(b, delimiter, start) ==
  \E i \in start..(b.writerIndex - 1) : b.data[i + 1] = delimiter

-----------------------------------------------------------------------------
\* The asserts of the methods, and the copy of makeSpace() is one std::copy()
\* allows: it does not begin inside the bytes it copies.
Legal(b) ==
  /\ b.readerIndex <= b.writerIndex /\ b.writerIndex <= Len(b.data)
  /\ b.lastWriteBytes \in Nat
CopyDefined(b, len) ==
  (writableBytes(b) < len
     /\ writableBytes(b) + b.readerIndex >= len + kCheapPrepend) =>
       b.readerIndex >= kCheapPrepend
=============================================================================

----------------------------- MODULE BufferQueue -----------------------------
(***************************************************************************)
(* A Buffer in use: every method, in any order the asserts allow.          *)
(***************************************************************************)
EXTENDS Buffer

CONSTANTS
  Strings,   \* the strings of bytes appended, prepended or read at a time
  MaxLength  \* bound on the size of the vector

ASSUME StringsAssumption == Strings \subseteq Seq(Nat) /\ MaxLength \in Nat

VARIABLE buf

BufferInit == buf = NewBuffer(kInitialSize)

Bounded == Len(buf'.data) <= MaxLength

AppendBytes == \E s \in Strings : buf' = append(buf, s) /\ Bounded

PrependBytes ==
  \E s \in Strings : Len(s) <= buf.readerIndex /\ buf' = prepend(buf, s)

EnsureWritable ==
  \E len \in 1..MaxLength : buf' = ensureWritable(buf, len) /\ Bounded

\* readv() of what has arrived: no more than both vectors hold.
ReadFd ==
  \E s \in Strings :
    /\ Len(s) <= writableBytes(buf)
                   + (IF writableBytes(buf) < ExtraSize THEN ExtraSize ELSE 0)
    /\ buf' = readFd(buf, s) /\ Bounded

Retrieve == \E len \in 0..readableBytes(buf) : buf' = retrieve(buf, len)

Unwrite == \E len \in 0..readableBytes(buf) : buf' = unwrite(buf, len)

Shrink == \E reserve \in 0..1 : buf' = shrink(buf, reserve) /\ Bounded

BufferNext ==
  \/ AppendBytes \/ PrependBytes \/ EnsureWritable \/ ReadFd
  \/ Retrieve \/ Unwrite \/ Shrink

-----------------------------------------------------------------------------
\* The asserts of the methods hold in every order of calls: the indexes stay in
\* the vector, ensureWritable() makes the room it was asked for, and the bytes
\* makeSpace() moves go down, the one direction std::copy() allows
\* (Buffer.h:154, 164, 206).
BufferLegal ==
  /\ Legal(buf)
  /\ \A len \in 1..MaxLength :
       /\ CopyDefined(buf, len)
       /\ LET roomy == ensureWritable(buf, len)
          IN Legal(roomy) /\ writableBytes(roomy) >= len

Bytes == INSTANCE ByteQueue WITH bytes <- readableSlice(buf)

\* Every method changes the readable bytes at one end only, whether the vector
\* grows, moves its bytes or is exchanged, and readFd() loses none of the bytes
\* it splits.
IsByteQueue == Bytes!Spec
=============================================================================

----------------------------- MODULE TCP_proofs -----------------------------
(***************************************************************************)
(* Proofs about Buffer, TCPConnector, TCPConnection and TCPEcho, for       *)
(* buffers and bounds of any size, any retries and delays users set, any   *)
(* number of calls, clients and messages, and whatever the peer and the    *)
(* network do.                                                             *)
(*                                                                         *)
(* A method is an operator on the record of its object: each has a lemma   *)
(* that says what it makes of a legal one, and the step of a specification *)
(* follows from the lemmas of the methods it calls.                        *)
(***************************************************************************)
EXTENDS BufferQueue, TCPConnector, TCPConnection, TCPEcho, Counting,
        SequenceTheorems

-----------------------------------------------------------------------------
(* BufferQueue.  Bytes are natural numbers. *)

\* A buffer that has its types, and whose indexes are in the vector.
Buffers == [data : Seq(Nat), readerIndex : Nat, writerIndex : Nat, lastWriteBytes : Nat]
Fits(b) ==
  /\ b \in Buffers /\ b.readerIndex <= b.writerIndex
  /\ b.writerIndex <= Len(b.data) /\ kCheapPrepend <= Len(b.data)

\* Sequences are equal that have the same elements.
LEMMA SameBytes ==
  ASSUME NEW s \in Seq(Nat), NEW t \in Seq(Nat), Len(s) = Len(t),
         \A i \in 1..Len(s) : s[i] = t[i]
  PROVE  s = t
OBVIOUS

\* Zeros and copies.
LEMMA ZerosAre ==
  ASSUME NEW n \in Nat PROVE Zeros(n) \in Seq(Nat) /\ Len(Zeros(n)) = n
BY DEF Zeros

\* A copy leaves the length alone.
LEMMA CopiedIs ==
  ASSUME NEW data \in Seq(Nat), NEW s \in Seq(Nat), NEW at \in Nat
  PROVE  /\ Copied(data, s, at) \in Seq(Nat) /\ Len(Copied(data, s, at)) = Len(data)
         /\ \A i \in 1..Len(data) : Copied(data, s, at)[i] =
              IF i - at \in 1..Len(s) THEN s[i - at] ELSE data[i]
<1>1. ASSUME NEW i \in 1..Len(data)
      PROVE  (IF i - at \in 1..Len(s) THEN s[i - at] ELSE data[i]) \in Nat
  OBVIOUS
<1>2. QED
  BY <1>1 DEF Copied

\* The part of a sequence behind its element r and up to w.
LEMMA PartIs ==
  ASSUME NEW s \in Seq(Nat), NEW r \in Nat, NEW w \in Nat, r <= w, w <= Len(s)
  PROVE  /\ SubSeq(s, r + 1, w) \in Seq(Nat) /\ Len(SubSeq(s, r + 1, w)) = w - r
         /\ \A i \in 1..(w - r) : SubSeq(s, r + 1, w)[i] = s[r + i]
OBVIOUS

\* Two sequences, one behind the other.
LEMMA JoinIs ==
  ASSUME NEW s \in Seq(Nat), NEW t \in Seq(Nat)
  PROVE  /\ s \o t \in Seq(Nat) /\ Len(s \o t) = Len(s) + Len(t)
         /\ \A i \in 1..(Len(s) + Len(t)) :
              (s \o t)[i] = IF i <= Len(s) THEN s[i] ELSE t[i - Len(s)]
OBVIOUS

\* A sequence is its parts before and behind an element.
LEMMA PartsMake ==
  ASSUME NEW s \in Seq(Nat), NEW n \in 0..Len(s)
  PROVE  /\ SubSeq(s, 1, n) \in Seq(Nat) /\ Len(SubSeq(s, 1, n)) = n
         /\ SubSeq(s, n + 1, Len(s)) \in Seq(Nat)
         /\ s = SubSeq(s, 1, n) \o SubSeq(s, n + 1, Len(s))
<1> DEFINE x == SubSeq(s, 1, n)
           y == SubSeq(s, n + 1, Len(s))
<1>1. n \in Nat /\ n <= Len(s) /\ Len(s) \in Nat
  OBVIOUS
<1>2. x \in Seq(Nat) /\ Len(x) = n /\ \A i \in 1..n : x[i] = s[i]
  BY <1>1
<1>3. y \in Seq(Nat) /\ Len(y) = Len(s) - n /\ \A i \in 1..(Len(s) - n) : y[i] = s[n + i]
  BY <1>1, PartIs
<1> HIDE DEF x, y
<1>4. x \o y \in Seq(Nat) /\ Len(x \o y) = Len(x) + Len(y)
      /\ \A i \in 1..(Len(x) + Len(y)) :
           (x \o y)[i] = IF i <= Len(x) THEN x[i] ELSE y[i - Len(x)]
  <2>1. x \in Seq(Nat) /\ y \in Seq(Nat)
    BY <1>2, <1>3
  <2>2. QED
    BY <2>1, JoinIs
<1>5. Len(x \o y) = Len(s)
  BY <1>1, <1>2, <1>3, <1>4
<1>6. \A i \in 1..Len(s) : s[i] = (x \o y)[i]
  <2> SUFFICES ASSUME NEW i \in 1..Len(s) PROVE s[i] = (x \o y)[i]
    OBVIOUS
  <2>1. CASE i <= n
    <3>1. (x \o y)[i] = x[i] /\ i \in 1..n
      BY <1>1, <1>2, <1>3, <2>1
    <3>2. QED
      BY <1>2, <3>1
  <2>2. CASE ~(i <= n)
    <3>1. i - n \in 1..(Len(s) - n) /\ n + (i - n) = i
      BY <1>1, <2>2
    <3>2. (x \o y)[i] = y[i - n]
      BY <1>1, <1>2, <1>3, <1>4, <2>2, SMTT(30)
    <3>3. QED
      BY <1>3, <3>1, <3>2
  <2>3. QED
    BY <2>1, <2>2
<1>7. s = x \o y
  BY <1>4, <1>5, <1>6, SameBytes
<1>8. QED
  BY <1>2, <1>3, <1>7 DEF x, y

\* The readable bytes, one by one.
LEMMA SliceIs ==
  ASSUME NEW b, Fits(b)
  PROVE  /\ readableSlice(b) \in Seq(Nat)
         /\ Len(readableSlice(b)) = b.writerIndex - b.readerIndex
         /\ readableBytes(b) = b.writerIndex - b.readerIndex
         /\ b.writerIndex - b.readerIndex \in Nat
         /\ \A i \in 1..(b.writerIndex - b.readerIndex) :
              readableSlice(b)[i] = b.data[b.readerIndex + i]
<1> DEFINE d == b.data
           r == b.readerIndex
           w == b.writerIndex
<1>1. d \in Seq(Nat) /\ r \in Nat /\ w \in Nat /\ r <= w /\ w <= Len(d)
  BY DEF Fits, Buffers
<1> HIDE DEF d, r, w
<1>2. /\ SubSeq(d, r + 1, w) \in Seq(Nat) /\ Len(SubSeq(d, r + 1, w)) = w - r
      /\ \A i \in 1..(w - r) : SubSeq(d, r + 1, w)[i] = d[r + i]
  BY <1>1, PartIs
<1>3. w - r \in Nat
  BY <1>1
<1>4. readableSlice(b) = SubSeq(d, r + 1, w) /\ readableBytes(b) = w - r
  BY DEF readableSlice, readableBytes, d, r, w
<1>5. QED
  BY <1>2, <1>3, <1>4 DEF d, r, w

\* Buffers with the same bytes at the same places have the same readable bytes.
LEMMA SliceMoved ==
  ASSUME NEW b, NEW done, Fits(b), Fits(done),
         done.writerIndex - done.readerIndex = b.writerIndex - b.readerIndex,
         \A i \in 1..(b.writerIndex - b.readerIndex) :
           done.data[done.readerIndex + i] = b.data[b.readerIndex + i]
  PROVE  readableSlice(done) = readableSlice(b)
<1> DEFINE s == readableSlice(b)
           t == readableSlice(done)
<1>1. s \in Seq(Nat) /\ t \in Seq(Nat) /\ Len(s) = Len(t)
      /\ \A i \in 1..Len(s) : s[i] = t[i]
  BY SliceIs
<1> HIDE DEF s, t
<1>2. QED
  BY <1>1, SameBytes DEF s, t

\* A new buffer is empty.
LEMMA NewIsEmpty ==
  LET b == NewBuffer(kInitialSize) IN
  Fits(b) /\ b.lastWriteBytes = 0 /\ readableSlice(b) = <<>>
<1> DEFINE b == NewBuffer(kInitialSize)
<1>1. /\ b.data = Zeros(kCheapPrepend + kInitialSize)
      /\ b.readerIndex = kCheapPrepend /\ b.writerIndex = kCheapPrepend
      /\ b.lastWriteBytes = 0
  BY DEF NewBuffer
<1>2. /\ kCheapPrepend + kInitialSize \in Nat /\ kCheapPrepend \in Nat
      /\ kCheapPrepend <= kCheapPrepend + kInitialSize
  BY BufferAssumption
<1>3. b.data \in Seq(Nat) /\ Len(b.data) = kCheapPrepend + kInitialSize
  BY <1>1, <1>2, ZerosAre
<1>4. b \in Buffers
  BY <1>1, <1>2, <1>3 DEF NewBuffer, Buffers
<1> HIDE DEF b
<1>5. Fits(b)
  BY <1>1, <1>2, <1>3, <1>4 DEF Fits
<1>6. readableSlice(b) \in Seq(Nat) /\ Len(readableSlice(b)) = 0
  BY <1>1, <1>2, <1>5, SliceIs
<1>7. QED
  BY <1>1, <1>5, <1>6 DEF b

\* makeSpace() makes the room, whether the vector grows or its bytes move, and
\* leaves the readable bytes as they are.
LEMMA MakeSpaceKeeps ==
  ASSUME NEW b, Fits(b), NEW len \in Nat, writableBytes(b) < len
  PROVE  LET done == makeSpace(b, len) IN
         /\ Fits(done) /\ writableBytes(done) >= len /\ readableSlice(done) = readableSlice(b)
         /\ done.lastWriteBytes = b.lastWriteBytes
<1> DEFINE d == b.data
           r == b.readerIndex
           w == b.writerIndex
           done == makeSpace(b, len)
<1>1. /\ d \in Seq(Nat) /\ r \in Nat /\ w \in Nat /\ r <= w /\ w <= Len(d)
      /\ Len(d) \in Nat /\ b.lastWriteBytes \in Nat /\ kCheapPrepend <= Len(d)
      /\ kCheapPrepend \in Nat /\ Len(d) - w < len
  BY BufferAssumption DEF Fits, Buffers, writableBytes
<1>2. CASE writableBytes(b) + r < len + kCheapPrepend
  <2> DEFINE more == Zeros(w + len - Len(d))
  <2>1. more \in Seq(Nat) /\ Len(more) = w + len - Len(d)
    <3>1. w + len - Len(d) \in Nat
      BY <1>1
    <3>2. QED
      BY <3>1, ZerosAre
  <2>2. done = [b EXCEPT !.data = d \o more]
    BY <1>2 DEF makeSpace
  <2> HIDE DEF more
  <2>3. /\ d \o more \in Seq(Nat) /\ Len(d \o more) = w + len
        /\ \A i \in 1..Len(d) : (d \o more)[i] = d[i]
    <3> HIDE DEF d, r, w
    <3>1. QED
      BY <1>1, <2>1
  <2>4. /\ done \in Buffers /\ done.data = d \o more /\ done.readerIndex = r /\ done.writerIndex = w
        /\ done.lastWriteBytes = b.lastWriteBytes
    BY <2>2, <2>3 DEF Fits, Buffers
  <2> HIDE DEF d, r, w, done
  <2>5. Fits(done) /\ writableBytes(done) = len
    BY <1>1, <2>3, <2>4 DEF Fits, writableBytes
  <2>6. \A i \in 1..(w - r) : done.data[r + i] = d[r + i]
    <3> SUFFICES ASSUME NEW i \in 1..(w - r) PROVE done.data[r + i] = d[r + i]
      OBVIOUS
    <3>1. r + i \in 1..Len(d)
      BY <1>1
    <3>2. QED
      BY <2>3, <2>4, <3>1
  <2>7. readableSlice(done) = readableSlice(b)
    BY <2>4, <2>5, <2>6, SliceMoved DEF d, r, w
  <2>8. QED
    BY <2>4, <2>5, <2>7 DEF done
<1>3. CASE ~(writableBytes(b) + r < len + kCheapPrepend)
  <2> DEFINE s == readableSlice(b)
             e == Copied(d, s, kCheapPrepend)
  <2>1. /\ s \in Seq(Nat) /\ Len(s) = w - r /\ readableBytes(b) = w - r
        /\ \A i \in 1..(w - r) : s[i] = d[r + i]
    BY SliceIs
  <2>2. e \in Seq(Nat) /\ Len(e) = Len(d)
        /\ \A i \in 1..Len(d) : e[i] = IF i - kCheapPrepend \in 1..Len(s)
                                         THEN s[i - kCheapPrepend] ELSE d[i]
    <3> HIDE DEF s, d
    <3>1. QED
      BY <1>1, <2>1, CopiedIs
  <2>3. done = [b EXCEPT !.data = e, !.readerIndex = kCheapPrepend,
                      !.writerIndex = kCheapPrepend + readableBytes(b)]
    BY <1>3 DEF makeSpace
  <2>4. Len(d) - w + r >= len + kCheapPrepend
    BY <1>1, <1>3 DEF writableBytes
  <2>5. kCheapPrepend + (w - r) \in Nat
    BY <1>1
  <2> HIDE DEF e, s
  <2>6. done \in Buffers /\ done.data = e /\ done.readerIndex = kCheapPrepend
        /\ done.writerIndex = kCheapPrepend + (w - r) /\ done.lastWriteBytes = b.lastWriteBytes
    BY <1>1, <2>1, <2>2, <2>3, <2>5 DEF Fits, Buffers
  <2> HIDE DEF d, r, w, done
  <2>7. Fits(done) /\ writableBytes(done) >= len
    <3>1. /\ kCheapPrepend <= kCheapPrepend + (w - r)
          /\ kCheapPrepend + (w - r) <= Len(d)
          /\ Len(d) - (kCheapPrepend + (w - r)) >= len
      BY <1>1, <2>4
    <3>2. QED
      BY <1>1, <2>2, <2>6, <3>1 DEF Fits, writableBytes
  <2>8. \A i \in 1..(w - r) : e[kCheapPrepend + i] = d[r + i]
    <3> SUFFICES ASSUME NEW i \in 1..(w - r) PROVE e[kCheapPrepend + i] = d[r + i]
      OBVIOUS
    <3>1. kCheapPrepend + i \in 1..Len(d) /\ (kCheapPrepend + i) - kCheapPrepend = i
      BY <1>1, <2>4
    <3>2. QED
      BY <2>1, <2>2, <3>1
  <2>9. done.writerIndex - done.readerIndex = w - r
    BY <1>1, <2>6
  <2>10. readableSlice(done) = readableSlice(b)
    BY <2>6, <2>7, <2>8, <2>9, SliceMoved DEF d, r, w
  <2>11. QED
    BY <2>6, <2>7, <2>10 DEF done
<1>4. QED
  BY <1>2, <1>3

\* So does ensureWritable().
LEMMA EnsureWritableKeeps ==
  ASSUME NEW b, Fits(b), NEW len \in Nat
  PROVE  LET done == ensureWritable(b, len) IN
         /\ Fits(done) /\ writableBytes(done) >= len /\ readableSlice(done) = readableSlice(b)
         /\ done.lastWriteBytes = b.lastWriteBytes
<1>1. CASE writableBytes(b) < len
  BY <1>1, MakeSpaceKeeps DEF ensureWritable
<1>2. CASE ~(writableBytes(b) < len)
  <2>1. writableBytes(b) \in Int
    BY DEF Fits, Buffers, writableBytes
  <2>2. QED
    BY <1>2, <2>1 DEF ensureWritable
<1>3. QED
  BY <1>1, <1>2

\* What is written behind the readable bytes becomes their end.
LEMMA WriteAdds ==
  ASSUME NEW b, NEW done, NEW s \in Seq(Nat), Fits(b), Len(s) <= writableBytes(b),
         done \in Buffers, done.data = Copied(b.data, s, b.writerIndex),
         done.readerIndex = b.readerIndex, done.writerIndex = b.writerIndex + Len(s)
  PROVE  Fits(done) /\ readableSlice(done) = readableSlice(b) \o s
<1> DEFINE d == b.data
           r == b.readerIndex
           w == b.writerIndex
           e == done.data
           x == readableSlice(b)
           y == readableSlice(done)
<1>1. /\ d \in Seq(Nat) /\ r \in Nat /\ w \in Nat /\ r <= w /\ w + Len(s) <= Len(d)
      /\ w \in Nat /\ Len(d) \in Nat /\ Len(s) \in Nat /\ kCheapPrepend <= Len(d)
  BY DEF Fits, Buffers, writableBytes
<1>2. /\ e \in Seq(Nat) /\ Len(e) = Len(d)
      /\ \A i \in 1..Len(d) : e[i] = IF i - w \in 1..Len(s) THEN s[i - w] ELSE d[i]
  <2> HIDE DEF d, w
  <2>1. e = Copied(d, s, w)
    BY DEF d, w
  <2> HIDE DEF e
  <2>2. QED
    BY <1>1, <2>1, CopiedIs
<1>3. done.readerIndex = r /\ done.writerIndex = w + Len(s)
  OBVIOUS
<1> HIDE DEF d, r, w, e
<1>4. Fits(done)
  BY <1>1, <1>2, <1>3 DEF Fits, e
<1>5. x \in Seq(Nat) /\ Len(x) = w - r /\ w - r \in Nat
      /\ \A i \in 1..(w - r) : x[i] = d[r + i]
  BY SliceIs DEF d, r, w
<1>6. y \in Seq(Nat) /\ Len(y) = (w + Len(s)) - r
      /\ \A i \in 1..((w + Len(s)) - r) : y[i] = e[r + i]
  BY <1>3, <1>4, SliceIs DEF e
<1> HIDE DEF x, y
<1>7. x \o s \in Seq(Nat) /\ Len(x \o s) = Len(y)
  <2>1. x \o s \in Seq(Nat) /\ Len(x \o s) = Len(x) + Len(s)
    <3>1. x \in Seq(Nat)
      BY <1>5
    <3>2. QED
      BY <3>1, JoinIs
  <2>2. Len(y) = Len(x) + Len(s)
    BY <1>1, <1>5, <1>6
  <2>3. QED
    BY <2>1, <2>2
<1>8. \A i \in 1..Len(y) : y[i] = (x \o s)[i]
  <2> SUFFICES ASSUME NEW i \in 1..Len(y) PROVE y[i] = (x \o s)[i]
    OBVIOUS
  <2>1. r + i \in 1..Len(d) /\ i \in 1..((w + Len(s)) - r) /\ Len(y) = Len(x) + Len(s)
    BY <1>1, <1>5, <1>6
  <2>2. CASE i <= w - r
    <3>1. ~((r + i) - w \in 1..Len(s)) /\ i \in 1..(w - r)
      BY <1>1, <2>1, <2>2
    <3>2. y[i] = d[r + i] /\ x[i] = d[r + i]
      BY <1>2, <1>5, <1>6, <2>1, <3>1
    <3>3. (x \o s)[i] = x[i]
      BY <1>5, <2>2
    <3>4. QED
      BY <3>2, <3>3
  <2>3. CASE ~(i <= w - r)
    <3>1. (r + i) - w \in 1..Len(s) /\ (r + i) - w = i - (w - r)
      <4>1. /\ r \in Nat /\ w \in Nat /\ Len(s) \in Nat /\ i \in Nat
            /\ i <= (w + Len(s)) - r
        BY <1>1, <2>1
      <4>2. QED
        BY <4>1, <2>3
    <3>2. y[i] = s[i - (w - r)]
      BY <1>2, <1>6, <2>1, <3>1
    <3>3. (x \o s)[i] = s[i - (w - r)]
      BY <1>5, <2>1, <2>3, SMTT(30)
    <3>4. QED
      BY <3>2, <3>3
  <2>4. QED
    BY <2>2, <2>3
<1>9. y = x \o s
  BY <1>6, <1>7, <1>8, SameBytes
<1>10. QED
  BY <1>4, <1>9 DEF x, y

\* append() makes room for its bytes and puts them at the end.
LEMMA AppendAdds ==
  ASSUME NEW b, Fits(b), NEW s \in Seq(Nat)
  PROVE  LET done == append(b, s) IN
         /\ Fits(done) /\ readableSlice(done) = readableSlice(b) \o s
         /\ done.lastWriteBytes = Len(s)
<1> DEFINE a == ensureWritable(b, Len(s))
           e == Copied(a.data, s, a.writerIndex)
           f == [a EXCEPT !.data = e]
           done == append(b, s)
<1>1. Fits(a) /\ writableBytes(a) >= Len(s) /\ readableSlice(a) = readableSlice(b)
      /\ Len(s) \in Nat
  <2>1. Len(s) \in Nat
    OBVIOUS
  <2>2. QED
    BY <2>1, EnsureWritableKeeps
<1>2. done = [f EXCEPT !.writerIndex = @ + Len(s), !.lastWriteBytes = Len(s)]
  BY DEF append, hasWritten
<1> HIDE DEF a, done
<1>3. a \in Buffers /\ Len(s) <= writableBytes(a)
  BY <1>1 DEF Fits, Buffers, writableBytes
<1>4. e \in Seq(Nat)
  <2>1. a.data \in Seq(Nat) /\ a.writerIndex \in Nat
    BY <1>3 DEF Buffers
  <2>2. QED
    BY <2>1, CopiedIs
<1> HIDE DEF e
<1>5. f \in Buffers /\ f.data = e /\ f.readerIndex = a.readerIndex
      /\ f.writerIndex = a.writerIndex
  BY <1>3, <1>4 DEF Buffers
<1> HIDE DEF f
<1>6. f.writerIndex + Len(s) \in Nat
  BY <1>1, <1>5 DEF Buffers
<1>7. done \in Buffers /\ done.data = e /\ done.readerIndex = f.readerIndex
      /\ done.writerIndex = f.writerIndex + Len(s) /\ done.lastWriteBytes = Len(s)
  BY <1>1, <1>2, <1>5, <1>6 DEF Buffers
<1>8. Fits(done) /\ readableSlice(done) = readableSlice(a) \o s
  <2>1. done.data = Copied(a.data, s, a.writerIndex)
    BY <1>7 DEF e
  <2>2. done.readerIndex = a.readerIndex /\ done.writerIndex = a.writerIndex + Len(s)
    BY <1>5, <1>7
  <2>3. QED
    BY <1>1, <1>3, <1>7, <2>1, <2>2, WriteAdds
<1>9. QED
  BY <1>1, <1>7, <1>8 DEF done

\* prepend() puts its bytes in front.
LEMMA PrependAdds ==
  ASSUME NEW b, Fits(b), NEW s \in Seq(Nat), Len(s) <= b.readerIndex
  PROVE  LET done == prepend(b, s) IN
         Fits(done) /\ readableSlice(done) = s \o readableSlice(b)
<1> DEFINE d == b.data
           r == b.readerIndex
           w == b.writerIndex
           q == r - Len(s)
           e == Copied(d, s, q)
           done == prepend(b, s)
           x == readableSlice(b)
           y == readableSlice(done)
<1>1. /\ d \in Seq(Nat) /\ r \in Nat /\ w \in Nat /\ r <= w /\ w <= Len(d)
      /\ Len(s) \in Nat /\ kCheapPrepend <= Len(d) /\ q \in Nat /\ q + Len(s) = r
      /\ Len(s) <= r
  BY DEF Fits, Buffers
<1>2. done = [b EXCEPT !.readerIndex = q, !.data = e]
  BY DEF prepend
<1> HIDE DEF d, r, w, done
<1>3. /\ e \in Seq(Nat) /\ Len(e) = Len(d)
      /\ \A i \in 1..Len(d) : e[i] = IF i - q \in 1..Len(s) THEN s[i - q] ELSE d[i]
  <2> HIDE DEF q
  <2>1. QED
    BY <1>1, CopiedIs
<1> HIDE DEF q, e
<1>4. done \in Buffers /\ done.data = e /\ done.readerIndex = q /\ done.writerIndex = w
  BY <1>1, <1>2, <1>3 DEF Fits, Buffers, w
<1>5. Fits(done)
  BY <1>1, <1>3, <1>4 DEF Fits
<1>6. x \in Seq(Nat) /\ Len(x) = w - r /\ w - r \in Nat
      /\ \A i \in 1..(w - r) : x[i] = d[r + i]
  BY SliceIs DEF d, r, w
<1>7. y \in Seq(Nat) /\ Len(y) = w - q /\ \A i \in 1..(w - q) : y[i] = e[q + i]
  BY <1>4, <1>5, SliceIs
<1> HIDE DEF x, y
<1>8. s \o x \in Seq(Nat) /\ Len(s \o x) = Len(y)
  <2>1. x \in Seq(Nat)
    BY <1>6
  <2>2. s \o x \in Seq(Nat) /\ Len(s \o x) = Len(s) + Len(x)
    BY <2>1, JoinIs
  <2>3. Len(y) = Len(s) + Len(x)
    <3>1. Len(y) = w - q /\ Len(x) = w - r
      BY <1>6, <1>7
    <3>2. /\ w \in Nat /\ q \in Nat /\ r \in Nat /\ Len(s) \in Nat
          /\ q + Len(s) = r
      BY <1>1
    <3>3. QED
      BY ONLY <3>1, <3>2
  <2>4. QED
    BY <2>2, <2>3
<1>9. \A i \in 1..Len(y) : y[i] = (s \o x)[i]
  <2> SUFFICES ASSUME NEW i \in 1..Len(y) PROVE y[i] = (s \o x)[i]
    OBVIOUS
  <2>0. /\ r \in Nat /\ w \in Nat /\ Len(s) \in Nat /\ Len(d) \in Nat /\ q \in Nat
        /\ q + Len(s) = r /\ r <= w /\ w <= Len(d) /\ i \in Nat /\ 1 <= i /\ i <= w - q
        /\ Len(x) = w - r
    BY <1>1, <1>6, <1>7
  <2>1. /\ q + i \in 1..Len(d) /\ i \in 1..(w - q) /\ (q + i) - q = i
        /\ i \in 1..(Len(s) + Len(x))
    BY <2>0
  <2>2. y[i] = IF i \in 1..Len(s) THEN s[i] ELSE d[q + i]
    BY <1>3, <1>7, <2>1
  <2>3. CASE i <= Len(s)
    <3>1. (s \o x)[i] = s[i] /\ i \in 1..Len(s)
      BY <1>6, <2>1, <2>3
    <3>2. QED
      BY <2>2, <3>1
  <2>4. CASE ~(i <= Len(s))
    <3>1. (s \o x)[i] = x[i - Len(s)] /\ ~(i \in 1..Len(s))
      BY <1>6, <2>1, <2>4
    <3>2. i - Len(s) \in 1..(w - r) /\ r + (i - Len(s)) = q + i
      BY <2>0, <2>4
    <3>3. x[i - Len(s)] = d[q + i]
      BY <1>6, <3>2
    <3>4. QED
      BY <2>2, <3>1, <3>3
  <2>5. QED
    BY <2>3, <2>4
<1>10. y = s \o x
  BY <1>7, <1>8, <1>9, SameBytes
<1>11. QED
  BY <1>5, <1>10 DEF x, y, done

\* retrieve() drops bytes at the front.
LEMMA RetrieveDrops ==
  ASSUME NEW b, Fits(b), NEW len \in 0..readableBytes(b)
  PROVE  LET done == retrieve(b, len) IN
         /\ Fits(done)
         /\ readableSlice(done) = SubSeq(readableSlice(b), len + 1, Len(readableSlice(b)))
<1> DEFINE d == b.data
           r == b.readerIndex
           w == b.writerIndex
           done == retrieve(b, len)
           x == readableSlice(b)
           y == readableSlice(done)
<1>1. /\ d \in Seq(Nat) /\ r \in Nat /\ w \in Nat /\ r <= w /\ w <= Len(d)
      /\ kCheapPrepend <= Len(d) /\ readableBytes(b) = w - r
      /\ kCheapPrepend \in Nat
  BY BufferAssumption DEF Fits, Buffers, readableBytes
<1>2. len \in Nat /\ len <= w - r
  BY <1>1
<1>3. x \in Seq(Nat) /\ Len(x) = w - r /\ \A i \in 1..(w - r) : x[i] = d[r + i]
  BY SliceIs
<1>4. CASE len < w - r
  <2>1. done = [b EXCEPT !.readerIndex = @ + len]
    BY <1>1, <1>4 DEF retrieve
  <2>2. done \in Buffers /\ done.data = d /\ done.readerIndex = r + len /\ done.writerIndex = w
    <3>1. r + len \in Nat /\ b \in Buffers
      BY <1>1, <1>2 DEF Fits
    <3>2. done = [b EXCEPT !.readerIndex = r + len]
      BY <2>1, <3>1 DEF Buffers
    <3> HIDE DEF done
    <3>3. QED
      BY <3>1, <3>2 DEF Buffers
  <2> HIDE DEF d, r, w, done
  <2>3. Fits(done)
    BY <1>1, <1>2, <2>2 DEF Fits
  <2>4. y \in Seq(Nat) /\ Len(y) = w - (r + len)
        /\ \A i \in 1..(w - (r + len)) : y[i] = d[(r + len) + i]
    BY <2>2, <2>3, SliceIs
  <2> HIDE DEF x, y
  <2> DEFINE z == SubSeq(x, len + 1, Len(x))
  <2>5. z \in Seq(Nat) /\ Len(z) = (w - r) - len
        /\ \A i \in 1..((w - r) - len) : z[i] = x[len + i]
    <3>1. len \in Nat /\ len <= Len(x) /\ Len(x) \in Nat /\ Len(x) <= Len(x)
          /\ x \in Seq(Nat) /\ Len(x) = w - r
      BY <1>1, <1>2, <1>3
    <3>2. /\ z \in Seq(Nat) /\ Len(z) = Len(x) - len
          /\ \A i \in 1..(Len(x) - len) : z[i] = x[len + i]
      BY <3>1, PartIs
    <3>3. QED
      BY <3>1, <3>2
  <2> HIDE DEF z
  <2>6. \A i \in 1..Len(y) : y[i] = z[i]
    <3> SUFFICES ASSUME NEW i \in 1..Len(y) PROVE y[i] = z[i]
      OBVIOUS
    <3>1. /\ len + i \in 1..(w - r) /\ i \in 1..((w - r) - len)
          /\ i \in 1..(w - (r + len)) /\ (r + len) + i = r + (len + i)
      <4>1. /\ r \in Nat /\ w \in Nat /\ len \in Nat /\ i \in Nat /\ 1 <= i
            /\ i <= w - (r + len)
        BY <1>1, <1>2, <2>4
      <4>2. QED
        BY <4>1
    <3>2. QED
      BY <1>3, <2>4, <2>5, <3>1
  <2>7. Len(y) = Len(z)
    BY <1>1, <1>2, <2>4, <2>5
  <2>8. y = z
    BY <2>4, <2>5, <2>6, <2>7, SameBytes
  <2>9. QED
    BY <2>3, <2>8 DEF done, x, y, z
<1>5. CASE ~(len < w - r)
  <2>1. done = [b EXCEPT !.readerIndex = kCheapPrepend, !.writerIndex = kCheapPrepend]
    BY <1>1, <1>5 DEF retrieve, retrieveAll
  <2>2. done \in Buffers /\ done.data = d /\ done.readerIndex = kCheapPrepend
        /\ done.writerIndex = kCheapPrepend
    BY <1>1, <2>1 DEF Fits, Buffers
  <2> HIDE DEF d, r, w, done
  <2>3. Fits(done)
    BY <1>1, <2>2 DEF Fits
  <2>4. y \in Seq(Nat) /\ Len(y) = 0
    BY <1>1, <2>2, <2>3, SliceIs
  <2> HIDE DEF x, y
  <2>5. y = <<>> /\ len = Len(x)
    BY <1>1, <1>2, <1>3, <1>5, <2>4
  <2>6. SubSeq(x, len + 1, Len(x)) = <<>>
    BY <1>3, <2>5
  <2>7. QED
    BY <2>3, <2>5, <2>6 DEF done, x, y
<1>6. QED
  BY <1>4, <1>5

\* unwrite() drops bytes at the end.
LEMMA UnwriteDrops ==
  ASSUME NEW b, Fits(b), NEW len \in 0..readableBytes(b)
  PROVE  LET done == unwrite(b, len) IN
         /\ Fits(done)
         /\ readableSlice(done)
              = SubSeq(readableSlice(b), 1, Len(readableSlice(b)) - len)
<1> DEFINE d == b.data
           r == b.readerIndex
           w == b.writerIndex
           done == unwrite(b, len)
           x == readableSlice(b)
           y == readableSlice(done)
           z == SubSeq(x, 1, Len(x) - len)
<1>1. /\ d \in Seq(Nat) /\ r \in Nat /\ w \in Nat /\ r <= w /\ w <= Len(d)
      /\ kCheapPrepend <= Len(d) /\ readableBytes(b) = w - r
  BY DEF Fits, Buffers, readableBytes
<1>2. len \in Nat /\ len <= w - r /\ (w - r) - len \in Nat /\ w - len \in Nat
  BY <1>1
<1>3. x \in Seq(Nat) /\ Len(x) = w - r /\ \A i \in 1..(w - r) : x[i] = d[r + i]
  BY SliceIs
<1>4. done = [b EXCEPT !.writerIndex = @ - len, !.lastWriteBytes = (w - r) - len]
  BY <1>1 DEF unwrite
<1>5. done \in Buffers /\ done.data = d /\ done.readerIndex = r /\ done.writerIndex = w - len
  BY <1>1, <1>2, <1>4 DEF Fits, Buffers
<1> HIDE DEF d, r, w, done
<1>6. Fits(done)
  BY <1>1, <1>2, <1>5 DEF Fits
<1>7. y \in Seq(Nat) /\ Len(y) = (w - len) - r
      /\ \A i \in 1..((w - len) - r) : y[i] = d[r + i]
  BY <1>5, <1>6, SliceIs
<1> HIDE DEF x, y
<1>8. z \in Seq(Nat) /\ Len(z) = (w - r) - len
      /\ \A i \in 1..((w - r) - len) : z[i] = x[i]
  <2>1. Len(x) - len \in Nat /\ Len(x) - len <= Len(x) /\ Len(x) - len = (w - r) - len
    BY <1>1, <1>2, <1>3
  <2>2. \A m \in Nat : m <= Len(x) =>
          /\ SubSeq(x, 1, m) \in Seq(Nat) /\ Len(SubSeq(x, 1, m)) = m
          /\ \A i \in 1..m : SubSeq(x, 1, m)[i] = x[i]
    BY <1>3
  <2>3. QED
    BY <2>1, <2>2
<1> HIDE DEF z
<1>9. \A i \in 1..Len(y) : y[i] = z[i]
  <2> SUFFICES ASSUME NEW i \in 1..Len(y) PROVE y[i] = z[i]
    OBVIOUS
  <2>1. i \in 1..(w - r) /\ i \in 1..((w - r) - len) /\ i \in 1..((w - len) - r)
    BY <1>1, <1>2, <1>7
  <2>2. QED
    BY <1>3, <1>7, <1>8, <2>1
<1>10. Len(y) = Len(z)
  BY <1>1, <1>2, <1>7, <1>8
<1>11. y = z
  BY <1>7, <1>8, <1>9, <1>10, SameBytes
<1>12. QED
  BY <1>6, <1>11 DEF done, x, y, z

\* readFd() puts at the end all that has arrived, in one part or in two.
LEMMA ReadFdAdds ==
  ASSUME NEW b, Fits(b), NEW s \in Seq(Nat)
  PROVE  LET done == readFd(b, s) IN
         Fits(done) /\ readableSlice(done) = readableSlice(b) \o s
<1> DEFINE room == writableBytes(b)
           n == IF Len(s) <= room THEN Len(s) ELSE room
           head == SubSeq(s, 1, n)
           tail == SubSeq(s, n + 1, Len(s))
           e == Copied(b.data, head, b.writerIndex)
           f == [b EXCEPT !.data = e, !.writerIndex = @ + n]
           done == readFd(b, s)
           x == readableSlice(b)
<1>1. b \in Buffers /\ room \in Nat /\ Len(s) \in Nat
  BY DEF Fits, Buffers, writableBytes
<1>2. done = IF n = Len(s) THEN f ELSE append(f, tail)
  BY DEF readFd
<1> HIDE DEF room, done
<1>3. n \in Nat /\ n <= room /\ n <= Len(s)
  BY <1>1
<1> HIDE DEF n
<1>4. head \in Seq(Nat) /\ Len(head) = n /\ tail \in Seq(Nat) /\ s = head \o tail
      /\ (n = Len(s) => head = s)
  <2>1. n \in 0..Len(s)
    BY <1>1, <1>3
  <2>2. n = Len(s) => head = s
    OBVIOUS
  <2>3. QED
    BY <2>1, <2>2, PartsMake
<1> HIDE DEF head, tail
<1>5. e \in Seq(Nat) /\ b.writerIndex + n \in Nat
  <2>1. b.data \in Seq(Nat) /\ b.writerIndex \in Nat
    BY <1>1 DEF Buffers
  <2>2. QED
    BY <1>3, <1>4, <2>1, CopiedIs
<1> HIDE DEF e
<1>6. f \in Buffers /\ f.data = e /\ f.readerIndex = b.readerIndex
      /\ f.writerIndex = b.writerIndex + Len(head)
  BY <1>1, <1>4, <1>5 DEF Buffers
<1> HIDE DEF f
<1>7. Fits(f) /\ readableSlice(f) = x \o head
  BY <1>3, <1>4, <1>6, WriteAdds DEF e, room
<1>8. CASE n = Len(s)
  BY <1>2, <1>4, <1>7, <1>8 DEF done
<1>9. CASE n # Len(s)
  <2>1. done = append(f, tail)
    BY <1>2, <1>9
  <2>2. Fits(done) /\ readableSlice(done) = (x \o head) \o tail
    BY <1>4, <1>7, <2>1, AppendAdds
  <2>3. x \in Seq(Nat)
    BY SliceIs
  <2> HIDE DEF x
  <2>4. (x \o head) \o tail = x \o (head \o tail)
    BY <1>4, <2>3, SMTT(30)
  <2>5. QED
    BY <1>4, <2>2, <2>4 DEF done, x
<1>10. QED
  BY <1>8, <1>9

\* shrink() leaves the readable bytes as they are, in another vector.
LEMMA ShrinkKeeps ==
  ASSUME NEW b, Fits(b), NEW reserve \in Nat
  PROVE  LET done == shrink(b, reserve) IN
         Fits(done) /\ readableSlice(done) = readableSlice(b)
<1> DEFINE new == NewBuffer(kInitialSize)
           m == readableBytes(b) + reserve
           o == ensureWritable(new, m)
           x == readableSlice(b)
           a == append(o, x)
           done == shrink(b, reserve)
<1>1. x \in Seq(Nat) /\ m \in Nat
  BY SliceIs
<1>2. Fits(new) /\ readableSlice(new) = <<>>
  BY NewIsEmpty
<1>3. done = [a EXCEPT !.lastWriteBytes = b.lastWriteBytes]
  BY DEF shrink, swap
<1> HIDE DEF m, new, done, x
<1>4. Fits(o) /\ readableSlice(o) = <<>>
  BY <1>1, <1>2, EnsureWritableKeeps
<1> HIDE DEF o
<1>5. Fits(a) /\ readableSlice(a) = <<>> \o x
  BY <1>1, <1>4, AppendAdds
<1>6. <<>> \o x = x
  BY <1>1
<1> HIDE DEF a
<1>7. done \in Buffers /\ done.data = a.data /\ done.readerIndex = a.readerIndex
      /\ done.writerIndex = a.writerIndex
  BY <1>3, <1>5 DEF Fits, Buffers
<1>8. Fits(done) /\ readableSlice(done) = readableSlice(a)
  BY <1>5, <1>7 DEF Fits, readableSlice
<1>9. QED
  BY <1>5, <1>6, <1>8 DEF done, x

BufferSpec == BufferInit /\ [][BufferNext]_buf

\* Every step keeps the buffer whole, and changes its bytes as a queue of bytes
\* does.
LEMMA BufferStep ==
  ASSUME Fits(buf), [BufferNext]_buf
  PROVE  Fits(buf') /\ [Bytes!Next]_(readableSlice(buf))
<1> DEFINE x == readableSlice(buf)
           y == readableSlice(buf')
<1>1. x \in Seq(Nat) /\ Len(x) = readableBytes(buf) /\ Len(x) \in Nat
  BY SliceIs
<1>2. CASE UNCHANGED buf
  BY <1>2
<1>3. ASSUME NEW s \in Strings, buf' = append(buf, s)
      PROVE  Fits(buf') /\ [Bytes!Next]_x
  <2>1. s \in Seq(Nat)
    BY StringsAssumption
  <2>2. Fits(buf') /\ y = x \o s
    BY <1>3, <2>1, AppendAdds
  <2>3. QED
    BY <2>2 DEF Bytes!Next, Bytes!AddBack
<1>4. ASSUME NEW s \in Strings, Len(s) <= buf.readerIndex, buf' = prepend(buf, s)
      PROVE  Fits(buf') /\ [Bytes!Next]_x
  <2>1. s \in Seq(Nat)
    BY StringsAssumption
  <2>2. Fits(buf') /\ y = s \o x
    BY <1>4, <2>1, PrependAdds
  <2>3. QED
    BY <2>2 DEF Bytes!Next, Bytes!AddFront
<1>5. ASSUME NEW len \in 1..MaxLength, buf' = ensureWritable(buf, len)
      PROVE  Fits(buf') /\ [Bytes!Next]_x
  <2>1. len \in Nat
    BY StringsAssumption
  <2>2. Fits(buf') /\ y = x
    BY <1>5, <2>1, EnsureWritableKeeps
  <2>3. QED
    BY <2>2
<1>6. ASSUME NEW s \in Strings, buf' = readFd(buf, s)
      PROVE  Fits(buf') /\ [Bytes!Next]_x
  <2>1. s \in Seq(Nat)
    BY StringsAssumption
  <2>2. Fits(buf') /\ y = x \o s
    BY <1>6, <2>1, ReadFdAdds
  <2>3. QED
    BY <2>2 DEF Bytes!Next, Bytes!AddBack
<1>7. ASSUME NEW len \in 0..readableBytes(buf), buf' = retrieve(buf, len)
      PROVE  Fits(buf') /\ [Bytes!Next]_x
  <2>1. Fits(buf') /\ y = SubSeq(x, len + 1, Len(x))
    BY <1>7, RetrieveDrops
  <2>2. len \in 0..Len(x)
    BY <1>1
  <2>3. QED
    BY <2>1, <2>2 DEF Bytes!Next, Bytes!DropFront
<1>8. ASSUME NEW len \in 0..readableBytes(buf), buf' = unwrite(buf, len)
      PROVE  Fits(buf') /\ [Bytes!Next]_x
  <2>1. Fits(buf') /\ y = SubSeq(x, 1, Len(x) - len)
    BY <1>8, UnwriteDrops
  <2>2. Len(x) - len \in 0..Len(x)
    <3> HIDE DEF x
    <3>1. QED
      BY <1>1
  <2>3. QED
    BY <2>1, <2>2 DEF Bytes!Next, Bytes!DropBack
<1>9. ASSUME NEW reserve \in 0..1, buf' = shrink(buf, reserve)
      PROVE  Fits(buf') /\ [Bytes!Next]_x
  <2>1. Fits(buf') /\ y = x
    BY <1>9, ShrinkKeeps
  <2>2. QED
    BY <2>1
<1>10. QED
  BY <1>2, <1>3, <1>4, <1>5, <1>6, <1>7, <1>8, <1>9
     DEF BufferNext, AppendBytes, PrependBytes, EnsureWritable, ReadFd, Retrieve,
         Unwrite, Shrink

\* A whole buffer passes the asserts, and always will.
LEMMA FitsIsLegal ==
  ASSUME Fits(buf) PROVE BufferLegal
<1>1. Legal(buf)
  BY DEF Fits, Buffers, Legal
<1>2. ASSUME NEW len \in 1..MaxLength
      PROVE  /\ CopyDefined(buf, len)
             /\ Legal(ensureWritable(buf, len))
             /\ writableBytes(ensureWritable(buf, len)) >= len
  <2>1. len \in Nat
    BY StringsAssumption
  <2>2. CopyDefined(buf, len)
    BY <2>1, BufferAssumption DEF CopyDefined, Fits, Buffers, writableBytes
  <2>3. Fits(ensureWritable(buf, len)) /\ writableBytes(ensureWritable(buf, len)) >= len
    BY <2>1, EnsureWritableKeeps
  <2>4. Legal(ensureWritable(buf, len))
    BY <2>3 DEF Fits, Buffers, Legal
  <2>5. QED
    BY <2>2, <2>3, <2>4
<1>3. QED
  BY <1>1, <1>2 DEF BufferLegal

\* The asserts of Buffer.h hold, and ensureWritable() makes the room it was
\* asked for, whatever calls came before.
THEOREM BufferStaysLegal == BufferSpec => []BufferLegal
<1>1. BufferInit => Fits(buf)
  BY NewIsEmpty DEF BufferInit
<1>2. Fits(buf) /\ [BufferNext]_buf => Fits(buf)'
  BY BufferStep
<1>3. Fits(buf) => BufferLegal
  BY FitsIsLegal
<1>4. QED
  BY <1>1, <1>2, <1>3, PTL DEF BufferSpec

\* A Buffer is a string of bytes that changes at its ends only: Buffer.h and
\* Buffer.cpp implement ByteQueue.
THEOREM BufferIsByteQueue == BufferSpec => IsByteQueue
<1>1. BufferInit => Fits(buf) /\ Bytes!Init
  BY NewIsEmpty DEF BufferInit, Bytes!Init
<1>2. Fits(buf) /\ [BufferNext]_buf => Fits(buf)' /\ [Bytes!Next]_(readableSlice(buf))
  BY BufferStep
<1>3. QED
  BY <1>1, <1>2, PTL DEF BufferSpec, IsByteQueue, Bytes!Spec

-----------------------------------------------------------------------------
(* TCPConnector *)

\* The least of two numbers, as the back-off takes it.
LEMMA MinOfTwo ==
  ASSUME NEW a \in Int, NEW b \in Int
  PROVE  Min({a, b}) = IF a <= b THEN a ELSE b
BY DEF Min

\* Every state of a connector that has its types.
Connectors ==
  [state : {"Disconnected", "Connecting", "Connected"},
   handler : {"null", "idle", "enabled"},
   socket : {"new", "pending", "up", "failed"},
   maxRetries : Int, currentRetries : Nat,
   retryDelayMs : Nat, constantDelay : BOOLEAN,
   handed : Nat,
   outcome : {"none", "trying", "connected", "failed", "stopped"},
   broken : SUBSET {"check", "freed"}]

\* The delay after n retries.
Backoff(n) == Min({DefaultRetryDelayMs * 2^n, MaxRetryDelayMs})

\* The handler has the state's condition, no check has failed, and the delay is
\* the one the retries call for.
LegalConnector(x) ==
  /\ x \in Connectors
  /\ "check" \notin x.broken
  /\ x.state = "Disconnected" => x.handler = "idle"
  /\ x.state = "Connecting" => x.handler = "enabled"
  /\ x.state = "Connected" => x.handler = "null"
  /\ ~x.constantDelay => x.retryDelayMs = Backoff(x.currentRetries)

\* Only a connector that has handed out its connection is connected.
HandsOutOnce(x) ==
  x.handed <= 1 /\ (x.state # "Connected" => x.handed = 0)

\* The inductive invariant.
ConnectorInv ==
  /\ LegalConnector(c) /\ HandsOutOnce(c)
  /\ pending \in Seq({"start", "stop"}) /\ timers \in Nat
  /\ made \in 0..MaxStarts /\ failures \in 0..MaxFailures

\* The back-off starts at the default and doubles up to its cap.
LEMMA BackoffGrows ==
  ASSUME NEW n \in Nat
  PROVE  /\ Backoff(n) \in Nat
         /\ Backoff(0) = DefaultRetryDelayMs
         /\ Backoff(n + 1) = Min({Backoff(n) * 2, MaxRetryDelayMs})
<1> DEFINE p == 2^n  q == 2^(n + 1)
<1>1. p \in Nat \ {0} /\ q = 2 * p
  BY PowerOfTwo
<1>2. 2^0 = 1
  OBVIOUS
<1>3. Backoff(0) = DefaultRetryDelayMs
  BY <1>2, MinOfTwo DEF Backoff, DefaultRetryDelayMs, MaxRetryDelayMs
<1> HIDE DEF p, q
<1>4. /\ Backoff(n) = IF 500 * p <= 30000 THEN 500 * p ELSE 30000
      /\ Backoff(n + 1) = IF 500 * q <= 30000 THEN 500 * q ELSE 30000
  <2>1. Backoff(n) = Min({500 * p, 30000}) /\ Backoff(n + 1) = Min({500 * q, 30000})
    BY DEF Backoff, DefaultRetryDelayMs, MaxRetryDelayMs, p, q
  <2>2. QED
    BY <1>1, <2>1, MinOfTwo
<1>5. Backoff(n) \in Nat
  BY <1>1, <1>4
<1>6. Min({Backoff(n) * 2, MaxRetryDelayMs}) =
        IF Backoff(n) * 2 <= 30000 THEN Backoff(n) * 2 ELSE 30000
  BY <1>5, MinOfTwo DEF MaxRetryDelayMs
<1>7. QED
  BY <1>1, <1>3, <1>4, <1>5, <1>6

\* Retries and delays are natural numbers, any of them.
LEMMA Counted ==
  ASSUME NEW x \in Connectors, NEW n \in Nat, NEW d \in Nat
  PROVE  [x EXCEPT !.currentRetries = n, !.retryDelayMs = d] \in Connectors
BY DEF Connectors

\* stop() leaves a connector that is disconnected.
LEMMA StopIsLegal ==
  ASSUME NEW x, LegalConnector(x)
  PROVE  /\ LegalConnector(Stop(x)) /\ Stop(x).state = "Disconnected"
         /\ Stop(x).currentRetries = x.currentRetries
         /\ Stop(x).retryDelayMs = x.retryDelayMs
         /\ Stop(x).constantDelay = x.constantDelay
         /\ Stop(x).handed = x.handed
BY DEF LegalConnector, Connectors, Stop

\* retry() disconnects, and counts at most one retry.
LEMMA RetryIsLegal ==
  ASSUME NEW x, LegalConnector(x)
  PROVE  /\ LegalConnector(Retry(x)) /\ Retry(x).state = "Disconnected"
         /\ Retry(x).currentRetries - x.currentRetries \in {0, 1}
         /\ Retry(x).handed = x.handed
<1> DEFINE y == Stop(x)
           delay == Min({y.retryDelayMs * 2, MaxRetryDelayMs})
<1>1. /\ LegalConnector(y) /\ y.state = "Disconnected" /\ y.currentRetries = x.currentRetries
      /\ y.retryDelayMs = x.retryDelayMs /\ y.constantDelay = x.constantDelay
      /\ y.handed = x.handed
  BY StopIsLegal
<1>2. x.currentRetries \in Nat /\ x.retryDelayMs \in Nat /\ y \in Connectors
  BY <1>1 DEF LegalConnector, Connectors
<1>3. delay \in Nat
  BY <1>1, <1>2, MinOfTwo DEF MaxRetryDelayMs
<1>4. ~y.constantDelay => delay = Backoff(x.currentRetries + 1)
  BY <1>1, <1>2, BackoffGrows DEF LegalConnector
<1>5. CASE MayRetry(x)
  <2> DEFINE next == IF x.constantDelay THEN y.retryDelayMs ELSE delay
  <2>1. Retry(x) = [y EXCEPT !.currentRetries = x.currentRetries + 1,
                             !.retryDelayMs = next]
    BY <1>1, <1>5 DEF Retry, Connectors, LegalConnector
  <2>2. next \in Nat /\ (~x.constantDelay => next = delay)
    BY <1>1, <1>2, <1>3
  <2> HIDE DEF y, delay, next
  <2>3. Retry(x) \in Connectors
    <3>1. x.currentRetries + 1 \in Nat
      BY <1>2
    <3>2. QED
      BY <1>2, <2>1, <2>2, <3>1, Counted, ZenonT(30)
  <2>4. /\ Retry(x).state = y.state /\ Retry(x).handler = y.handler
        /\ Retry(x).broken = y.broken /\ Retry(x).handed = y.handed
        /\ Retry(x).constantDelay = y.constantDelay
    BY <1>2, <2>1 DEF Connectors
  <2>5. /\ Retry(x).currentRetries = x.currentRetries + 1
        /\ Retry(x).retryDelayMs = next
    BY <1>2, <2>1 DEF Connectors
  <2>6. QED
    BY <1>1, <1>2, <1>4, <2>2, <2>3, <2>4, <2>5 DEF LegalConnector
<1>6. CASE ~MayRetry(x)
  <2>1. Retry(x) = [y EXCEPT !.outcome = "failed"]
    BY <1>6 DEF Retry
  <2> HIDE DEF y, delay
  <2>2. QED
    BY <1>1, <1>2, <2>1 DEF LegalConnector, Connectors
<1>7. QED
  BY <1>5, <1>6

\* connect(), whatever the kernel answers, is an attempt or counts a retry.
LEMMA ConnectIsLegal ==
  ASSUME NEW x, LegalConnector(x), x.state = "Disconnected", x.handed = 0,
         NEW answer \in Answers
  PROVE  /\ LegalConnector(Connect(x, answer)) /\ HandsOutOnce(Connect(x, answer))
         /\ Connect(x, answer).currentRetries - x.currentRetries \in {0, 1}
<1> DEFINE begun == [x EXCEPT !.state = "Connecting", !.socket = answer.socket]
           connecting == [begun EXCEPT !.handler = "enabled"]
<1>1. x.handler = "idle" /\ x \in Connectors
  BY DEF LegalConnector
<1>2. Check(x, x.state = "Disconnected" /\ x.handler # "null") = x
  BY <1>1 DEF Check
<1>3. begun.state = "Connecting"
  BY <1>1 DEF Connectors
<1>4. Connecting(begun) = connecting
  BY <1>3 DEF Connecting, Check
<1>5. /\ LegalConnector(connecting) /\ connecting.state = "Connecting"
      /\ connecting.handed = 0 /\ connecting.currentRetries = x.currentRetries
  BY <1>1 DEF LegalConnector, Connectors, Answers
<1>6. Retry(begun) = Retry(connecting)
  <2>1. Stop(begun) = Stop(connecting)
    BY <1>1 DEF Stop, Connectors
  <2>2. /\ MayRetry(begun) <=> MayRetry(connecting)
        /\ begun.constantDelay = connecting.constantDelay
    BY <1>1 DEF MayRetry, Connectors
  <2> HIDE DEF begun, connecting
  <2>3. QED
    BY <2>1, <2>2 DEF Retry
<1>7. ConnectError(begun) = Retry(begun)
  BY <1>3 DEF ConnectError
<1>8. Connect(x, answer) \in {connecting, Retry(connecting)}
  BY <1>2, <1>4, <1>6, <1>7 DEF Connect, Answers
<1> HIDE DEF connecting, begun
<1>9. QED
  BY <1>1, <1>5, <1>8, RetryIsLegal DEF HandsOutOnce, LegalConnector, Connectors

\* handleConnectWrite() and handleConnectError() end an attempt: the connection
\* is handed out, or a retry is counted.
LEMMA EventIsLegal ==
  ASSUME NEW x, LegalConnector(x), HandsOutOnce(x), x.handler = "enabled",
         NEW y \in {ConnectWrite(x), ConnectError(x)}
  PROVE  /\ LegalConnector(y) /\ HandsOutOnce(y)
         /\ y.currentRetries - x.currentRetries \in {0, 1}
<1>1. x.state = "Connecting" /\ x.handed = 0 /\ x \in Connectors
  BY DEF LegalConnector, HandsOutOnce, Connectors
<1>2. CASE y = Retry(x)
  BY <1>1, <1>2, RetryIsLegal DEF HandsOutOnce
<1>3. CASE y = [x EXCEPT !.state = "Connected", !.handler = "null",
                         !.outcome = "connected", !.handed = @ + 1]
  <2>1. y \in Connectors
    <3>1. y = [x EXCEPT !.state = "Connected", !.handler = "null",
                        !.outcome = "connected", !.handed = 1]
      BY <1>1, <1>3
    <3>2. QED
      BY <1>1, <3>1 DEF Connectors
  <2>2. /\ y.state = "Connected" /\ y.handler = "null" /\ y.broken = x.broken
        /\ y.handed = 1 /\ y.currentRetries = x.currentRetries
        /\ y.retryDelayMs = x.retryDelayMs /\ y.constantDelay = x.constantDelay
    BY <1>1, <1>3 DEF Connectors
  <2>3. x.currentRetries \in Nat
    BY <1>1 DEF Connectors
  <2>4. QED
    BY <2>1, <2>2, <2>3 DEF LegalConnector, HandsOutOnce
<1>4. QED
  BY <1>1, <1>2, <1>3 DEF ConnectWrite, ConnectError

\* start() begins from a connector that is disconnected, with the first delay.
LEMMA RestartedIsLegal ==
  ASSUME NEW x, LegalConnector(x)
  PROVE  /\ LegalConnector(Restarted(x)) /\ Restarted(x).state = "Disconnected"
         /\ Restarted(x).handed = 0
<1> DEFINE y == Stop(x)
           z == [y EXCEPT !.outcome = "trying", !.handed = 0]
<1>1. LegalConnector(y) /\ y.state = "Disconnected"
  BY StopIsLegal
<1>2. Restarted(x) = Reset(z)
  BY DEF Restarted
<1> HIDE DEF y
<1>3. /\ LegalConnector(z) /\ z.state = "Disconnected" /\ z.handed = 0
  BY <1>1 DEF LegalConnector, Connectors
<1> HIDE DEF z
<1>4. DefaultRetryDelayMs = Backoff(0) /\ DefaultRetryDelayMs \in Nat
  <2>1. Backoff(0) = DefaultRetryDelayMs
    BY BackoffGrows
  <2>2. QED
    BY <2>1 DEF DefaultRetryDelayMs
<1>5. Reset(z) = IF z.constantDelay THEN [z EXCEPT !.currentRetries = 0]
                 ELSE [z EXCEPT !.currentRetries = 0,
                                !.retryDelayMs = DefaultRetryDelayMs]
  BY <1>3 DEF Reset, LegalConnector, Connectors
<1>6. LegalConnector(Reset(z)) /\ Reset(z).state = "Disconnected" /\ Reset(z).handed = 0
  <2>1. CASE z.constantDelay
    BY <1>3, <1>5, <2>1 DEF LegalConnector, Connectors
  <2>2. CASE ~z.constantDelay
    <3>1. z \in Connectors /\ DefaultRetryDelayMs \in Nat
      BY <1>3, <1>4 DEF LegalConnector
    <3>2. Reset(z) = [z EXCEPT !.currentRetries = 0,
                               !.retryDelayMs = DefaultRetryDelayMs]
      BY <1>5, <2>2
    <3>3. /\ Reset(z).state = z.state /\ Reset(z).handler = z.handler
          /\ Reset(z).broken = z.broken /\ Reset(z).handed = z.handed
      BY <3>1, <3>2 DEF Connectors
    <3>4. /\ Reset(z).currentRetries = 0
          /\ Reset(z).retryDelayMs = DefaultRetryDelayMs
      BY <3>1, <3>2 DEF Connectors
    <3>5. Reset(z) \in Connectors
      <4>1. 0 \in Nat
        OBVIOUS
      <4>2. QED
        BY <3>1, <3>2, <4>1, Counted, Zenon
    <3>6. QED
      BY <1>3, <1>4, <3>3, <3>4, <3>5 DEF LegalConnector
  <2>3. QED
    BY <2>1, <2>2
<1>7. QED
  BY <1>2, <1>6

\* An attempt from a connector that is disconnected.
LEMMA AttemptKeepsInv ==
  ASSUME ConnectorInv, NEW tried, LegalConnector(tried), tried.state = "Disconnected",
         tried.handed = 0, NEW armed \in Nat, Attempt(tried, armed)
  PROVE  /\ LegalConnector(c') /\ HandsOutOnce(c')
         /\ timers' \in Nat /\ failures' \in 0..MaxFailures
<1>1. PICK answer \in Answers :
        After(Connect(tried, answer), armed, tried,
              answer.socket = "failed" \/ answer.errno # "progress")
  BY DEF Attempt
<1>2. QED
  BY <1>1, ConnectIsLegal DEF After

\* A new connector satisfies the invariant.
LEMMA ConnectorInvInit == ConnectorInit => ConnectorInv
<1> SUFFICES ASSUME ConnectorInit PROVE ConnectorInv
  OBVIOUS
<1>1. Backoff(0) = DefaultRetryDelayMs
  BY BackoffGrows
<1>2. LegalConnector(c) /\ HandsOutOnce(c)
  BY <1>1 DEF ConnectorInit, LegalConnector, HandsOutOnce, Connectors, DefaultRetryDelayMs
<1>3. QED
  BY <1>2, ConnectorAssumption DEF ConnectorInit, ConnectorInv

\* Every step of the connector preserves the invariant.
LEMMA ConnectorInvStep == ConnectorInv /\ [ConnectorNext]_connectorVars => ConnectorInv'
<1> SUFFICES ASSUME ConnectorInv, [ConnectorNext]_connectorVars
             PROVE  ConnectorInv'
  OBVIOUS
<1> USE ConnectorAssumption
<1>0. /\ LegalConnector(c) /\ HandsOutOnce(c) /\ c \in Connectors
      /\ pending \in Seq({"start", "stop"}) /\ timers \in Nat
      /\ made \in 0..MaxStarts /\ failures \in 0..MaxFailures
  BY DEF ConnectorInv, LegalConnector
<1>1. ASSUME NEW f \in {"start", "stop"}, Call(f) PROVE ConnectorInv'
  BY <1>0, <1>1 DEF Call, MayCall, ConnectorInv
<1>2. ASSUME NEW n \in Retries \cup {-1}, SetRetries(n) PROVE ConnectorInv'
  <2>1. n \in Int
    OBVIOUS
  <2>2. LegalConnector(c') /\ HandsOutOnce(c')
    BY <1>0, <1>2, <2>1 DEF SetRetries, LegalConnector, HandsOutOnce, Connectors
  <2>3. QED
    BY <1>0, <1>2, <2>2 DEF SetRetries, MayCall, ConnectorInv
<1>3. ASSUME NEW ms \in Constants, SetRetryConstantDelay(ms) PROVE ConnectorInv'
  <2>1. ms \in Nat
    OBVIOUS
  <2>2. LegalConnector(c') /\ HandsOutOnce(c')
    BY <1>0, <1>3, <2>1 DEF SetRetryConstantDelay, LegalConnector, HandsOutOnce, Connectors
  <2>3. QED
    BY <1>0, <1>3, <2>2 DEF SetRetryConstantDelay, MayCall, ConnectorInv
<1>4. ASSUME RunStart PROVE ConnectorInv'
  <2>1. /\ LegalConnector(Restarted(c)) /\ Restarted(c).state = "Disconnected"
        /\ Restarted(c).handed = 0
    BY <1>0, RestartedIsLegal
  <2>2. /\ LegalConnector(c') /\ HandsOutOnce(c') /\ timers' \in Nat
        /\ failures' \in 0..MaxFailures
    BY <1>0, <1>4, <2>1, AttemptKeepsInv DEF RunStart
  <2>3. QED
    BY <1>0, <1>4, <2>2 DEF RunStart, ConnectorInv
<1>5. ASSUME RunStop PROVE ConnectorInv'
  <2> DEFINE y == Stop(c)
  <2>1. LegalConnector(y) /\ y.state = "Disconnected"
    BY <1>0, StopIsLegal
  <2>2. c' = [y EXCEPT !.outcome = "stopped", !.handed = 0]
    BY <1>5 DEF RunStop
  <2> HIDE DEF y
  <2>3. c' \in Connectors
    BY <2>1, <2>2 DEF LegalConnector, Connectors
  <2>4. /\ c'.state = y.state /\ c'.handler = y.handler /\ c'.broken = y.broken
        /\ c'.constantDelay = y.constantDelay /\ c'.retryDelayMs = y.retryDelayMs
        /\ c'.currentRetries = y.currentRetries /\ c'.handed = 0
    BY <2>1, <2>2 DEF LegalConnector, Connectors
  <2>5. LegalConnector(c') /\ HandsOutOnce(c')
    BY <2>1, <2>3, <2>4 DEF LegalConnector, HandsOutOnce
  <2>6. QED
    BY <1>0, <1>5, <2>5 DEF RunStop, ConnectorInv
<1>6. ASSUME RetryTimer PROVE ConnectorInv'
  <2>1. CASE c.state = "Disconnected"
    <3>1. c.handed = 0 /\ timers - 1 \in Nat /\ Attempt(c, timers - 1)
      BY <1>0, <1>6, <2>1 DEF RetryTimer, HandsOutOnce
    <3>2. /\ LegalConnector(c') /\ HandsOutOnce(c') /\ timers' \in Nat
          /\ failures' \in 0..MaxFailures
      BY <1>0, <2>1, <3>1, AttemptKeepsInv
    <3>3. QED
      BY <1>0, <1>6, <3>2 DEF RetryTimer, ConnectorInv
  <2>2. CASE c.state # "Disconnected"
    BY <1>0, <1>6, <2>2 DEF RetryTimer, ConnectorInv
  <2>3. QED
    BY <2>1, <2>2
<1>7. ASSUME KernelAnswers PROVE ConnectorInv'
  <2>1. \/ c' = [c EXCEPT !.socket = "up"]
        \/ c' = [c EXCEPT !.socket = "failed"]
    BY <1>7 DEF KernelAnswers
  <2>2. LegalConnector(c') /\ HandsOutOnce(c')
    BY <1>0, <2>1 DEF LegalConnector, HandsOutOnce, Connectors
  <2>3. QED
    BY <1>0, <1>7, <2>2 DEF KernelAnswers, ConnectorInv
<1>8. ASSUME HandleEvents PROVE ConnectorInv'
  <2>1. c.handler = "enabled"
    BY <1>8 DEF HandleEvents
  <2>2. PICK y \in {ConnectWrite(c), ConnectError(c)} :
          /\ c' = y \/ c' = [y EXCEPT !.broken = @ \cup {"freed"}]
          /\ timers' = timers + (c'.currentRetries - c.currentRetries)
          /\ failures' \in 0..MaxFailures
    BY <1>8 DEF HandleEvents, After
  <2>3. LegalConnector(y) /\ HandsOutOnce(y) /\ y.currentRetries - c.currentRetries \in {0, 1}
    BY <1>0, <2>1, EventIsLegal
  <2>4. LegalConnector(c') /\ HandsOutOnce(c') /\ c'.currentRetries = y.currentRetries
    BY <2>2, <2>3 DEF LegalConnector, HandsOutOnce, Connectors
  <2>5. QED
    BY <1>0, <1>8, <2>2, <2>3, <2>4 DEF HandleEvents, ConnectorInv
<1>9. CASE UNCHANGED connectorVars
  BY <1>0, <1>9 DEF connectorVars, ConnectorInv
<1>10. QED
  BY <1>1, <1>2, <1>3, <1>4, <1>5, <1>6, <1>7, <1>8, <1>9
     DEF ConnectorNext, UserStep, ConnectorLoopStep

\* The connector without fairness.
ConnectorSpec == ConnectorInit /\ [][ConnectorNext]_connectorVars

\* The invariant holds in every reachable state.
LEMMA ConnectorInvHolds == ConnectorSpec => []ConnectorInv
BY ConnectorInvInit, ConnectorInvStep, PTL DEF ConnectorSpec

\* In whatever order users, timers, events and the network come, the checks of
\* connect() and connecting() hold and the handler is the one the state asks for.
THEOREM ConnectorIsLegal == ConnectorSpec => []ConnectorLegal
<1>1. ConnectorInv => ConnectorLegal
  BY DEF ConnectorInv, LegalConnector, Connectors, ConnectorLegal, ConnectorTypeOK,
         ChecksHold, HandlerMatchesState
<1>2. QED
  BY <1>1, ConnectorInvHolds, PTL

\* The delay is the default doubled for every retry since start(), up to the cap,
\* for any number of retries.
THEOREM ConnectorBacksOff == ConnectorSpec => []BackoffDoubles
<1>1. ConnectorInv => BackoffDoubles
  BY DEF ConnectorInv, LegalConnector, Backoff, BackoffDoubles
<1>2. QED
  BY <1>1, ConnectorInvHolds, PTL

\* At most one connection is handed out between two calls, however many timers
\* are left over.
THEOREM ConnectorHandsOutOnce == ConnectorSpec => []OneConnectionPerCall
<1>1. ConnectorInv => OneConnectionPerCall
  BY DEF ConnectorInv, HandsOutOnce, OneConnectionPerCall
<1>2. QED
  BY <1>1, ConnectorInvHolds, PTL

\* Where a stopped connector is when no timer was armed as stop() ran.
StoppedForGood == c.outcome = "stopped" => c.state = "Disconnected" /\ timers = 0

\* The methods but stop() do not make a connector a stopped one.
LEMMA MethodsDoNotStop ==
  ASSUME NEW x \in Connectors, x.outcome # "stopped"
  PROVE  /\ Retry(x).outcome # "stopped" /\ ConnectError(x).outcome # "stopped"
         /\ ConnectWrite(x).outcome # "stopped"
         /\ \A answer \in Answers : Connect(x, answer).outcome # "stopped"
<1>1. ASSUME NEW y \in Connectors, y.outcome # "stopped"
      PROVE  Retry(y).outcome # "stopped"
  <2> DEFINE z == Stop(y)
  <2>1. z \in Connectors /\ z.outcome # "stopped"
    BY <1>1, ZenonT(40) DEF Stop, Connectors
  <2> HIDE DEF z
  <2>2. CASE MayRetry(y)
    <3> DEFINE n == z.currentRetries + 1
               d == IF y.constantDelay THEN z.retryDelayMs
                    ELSE Min({z.retryDelayMs * 2, MaxRetryDelayMs})
    <3>1. Retry(y) = [z EXCEPT !.currentRetries = n, !.retryDelayMs = d]
      BY <2>1, <2>2 DEF Retry, z, Connectors
    <3> HIDE DEF n, d
    <3>2. QED
      BY <2>1, <3>1 DEF Connectors
  <2>3. CASE ~MayRetry(y)
    <3>1. Retry(y) = [z EXCEPT !.outcome = "failed"]
      BY <2>3 DEF Retry, z
    <3>2. QED
      BY <2>1, <3>1 DEF Connectors
  <2>4. QED
    BY <2>2, <2>3
<1>2. ASSUME NEW y \in Connectors, y.outcome # "stopped"
      PROVE  ConnectError(y).outcome # "stopped"
  BY <1>1, <1>2 DEF ConnectError
<1>3. ConnectWrite(x).outcome # "stopped"
  BY <1>1 DEF ConnectWrite, Connectors
<1>4. ASSUME NEW answer \in Answers PROVE Connect(x, answer).outcome # "stopped"
  <2> DEFINE begun == [Check(x, x.state = "Disconnected" /\ x.handler # "null")
                         EXCEPT !.state = "Connecting", !.socket = answer.socket]
  <2>1. Check(x, x.state = "Disconnected" /\ x.handler # "null") \in Connectors
        /\ Check(x, x.state = "Disconnected" /\ x.handler # "null").outcome # "stopped"
    BY DEF Check, Connectors
  <2>2. begun \in Connectors /\ begun.outcome # "stopped"
    BY <2>1, ZenonT(40) DEF Connectors, Answers
  <2>3. /\ answer.errno = "progress" => Connect(x, answer) = Connecting(begun)
        /\ answer.errno = "retry" => Connect(x, answer) = Retry(begun)
        /\ answer.errno = "fatal" => Connect(x, answer) = ConnectError(begun)
        /\ answer.errno \in {"progress", "retry", "fatal"}
    BY DEF Connect, Answers
  <2> HIDE DEF begun
  <2>4. Connecting(begun).outcome # "stopped"
    BY <2>2 DEF Connecting, Check, Connectors
  <2>5. QED
    BY <1>1, <1>2, <2>2, <2>3, <2>4
<1>5. QED
  BY <1>1, <1>2, <1>3, <1>4

\* Every step but a stop() during the back-off keeps it.
LEMMA StoppedStep ==
  ASSUME ConnectorInv, StoppedForGood, [ConnectorNext]_connectorVars,
         [RunStop => timers = 0]_connectorVars
  PROVE  StoppedForGood'
<1>0. /\ LegalConnector(c) /\ c \in Connectors /\ timers \in Nat
  BY DEF ConnectorInv, LegalConnector
<1>1. ASSUME NEW f \in {"start", "stop"}, Call(f) PROVE StoppedForGood'
  BY <1>1 DEF Call, StoppedForGood
<1>2. ASSUME NEW n \in Retries \cup {-1}, SetRetries(n) PROVE StoppedForGood'
  BY <1>0, <1>2 DEF SetRetries, StoppedForGood, Connectors
<1>3. ASSUME NEW ms \in Constants, SetRetryConstantDelay(ms) PROVE StoppedForGood'
  BY <1>0, <1>3 DEF SetRetryConstantDelay, StoppedForGood, Connectors
<1>4. ASSUME RunStart PROVE StoppedForGood'
  <2> DEFINE z == [Stop(c) EXCEPT !.outcome = "trying", !.handed = 0]
  <2>1. z \in Connectors /\ z.outcome = "trying"
    BY <1>0 DEF Stop, Connectors
  <2>2. Restarted(c) = Reset(z)
    BY DEF Restarted
  <2> HIDE DEF z
  <2>3. Restarted(c).outcome = "trying"
    BY <2>1, <2>2 DEF Reset, Connectors
  <2>4. Restarted(c) \in Connectors
    BY <1>0, RestartedIsLegal DEF LegalConnector
  <2>5. c'.outcome # "stopped"
    BY <1>4, <2>3, <2>4, MethodsDoNotStop DEF RunStart, Attempt, After
  <2>6. QED
    BY <2>5 DEF StoppedForGood
<1>5. ASSUME RunStop PROVE StoppedForGood'
  <2>1. CASE UNCHANGED connectorVars
    BY <2>1 DEF connectorVars, StoppedForGood
  <2>2. CASE timers = 0
    <3> DEFINE y == Stop(c)
    <3>1. y.state = "Disconnected" /\ y \in Connectors
      BY <1>0, StopIsLegal DEF LegalConnector
    <3>2. c' = [y EXCEPT !.outcome = "stopped", !.handed = 0] /\ timers' = timers
      BY <1>5 DEF RunStop
    <3> HIDE DEF y
    <3>3. QED
      BY <2>2, <3>1, <3>2 DEF StoppedForGood, Connectors
  <2>3. QED
    BY <1>5, <2>1, <2>2
<1>6. ASSUME RetryTimer PROVE StoppedForGood'
  <2>1. c.outcome # "stopped"
    BY <1>6 DEF RetryTimer, StoppedForGood
  <2>2. c'.outcome # "stopped"
    BY <1>0, <1>6, <2>1, MethodsDoNotStop DEF RetryTimer, Attempt, After
  <2>3. QED
    BY <2>2 DEF StoppedForGood
<1>7. ASSUME KernelAnswers PROVE StoppedForGood'
  BY <1>0, <1>7 DEF KernelAnswers, StoppedForGood, Connectors
<1>8. ASSUME HandleEvents PROVE StoppedForGood'
  <2>1. c.state # "Disconnected"
    BY <1>0, <1>8 DEF HandleEvents, LegalConnector
  <2>2. c.outcome # "stopped"
    BY <2>1 DEF StoppedForGood
  <2>3. PICK y \in {ConnectWrite(c), ConnectError(c)} :
          c' = y \/ c' = [y EXCEPT !.broken = @ \cup {"freed"}]
    BY <1>8 DEF HandleEvents, After
  <2>4. y.outcome # "stopped"
    BY <1>0, <2>2, MethodsDoNotStop
  <2>5. y \in Connectors
    BY <1>0, <1>8, EventIsLegal DEF HandleEvents, LegalConnector, ConnectorInv
  <2>6. QED
    BY <2>3, <2>4, <2>5 DEF StoppedForGood, Connectors
<1>9. CASE UNCHANGED connectorVars
  BY <1>9 DEF connectorVars, StoppedForGood
<1>10. QED
  BY <1>1, <1>2, <1>3, <1>4, <1>5, <1>6, <1>7, <1>8, <1>9
     DEF ConnectorNext, UserStep, ConnectorLoopStep

\* What TCPConnector.h:51 says of stop() does hold when no retry timer is armed as
\* it runs, neither of this attempt nor of an earlier one: the connector then stays
\* disconnected until the next start().  The back-off is the only exception.
THEOREM StopIsFinalWithoutTimers ==
  ConnectorSpec /\ [][RunStop => timers = 0]_connectorVars => []StopIsFinal
<1>1. ConnectorInit => StoppedForGood
  BY DEF ConnectorInit, StoppedForGood
<1>2. StoppedForGood => StopIsFinal
  BY DEF StoppedForGood, StopIsFinal
<1>3. QED
  BY <1>1, <1>2, ConnectorInvHolds, StoppedStep, PTL DEF ConnectorSpec

-----------------------------------------------------------------------------
(* TCPConnection. *)

\* The connection without fairness.
ConnectionSpec == ConnectionInit /\ [][ConnectionNext]_connectionVars

\* The types of a connection.
Connections ==
  [status : {"none", "up", "gone"},
   enabled : BOOLEAN, callbacks : BOOLEAN, writeEvent : BOOLEAN,
   readBuffer : Buffers,
   out : Seq(1..MaxBytes), writing : BOOLEAN, filled : BOOLEAN,
   overtaken : BOOLEAN, mode : Modes,
   queue : Seq(Functors),
   inbox : Seq(Nat), room : 0..Capacity, soError : BOOLEAN,
   peer : {"open", "closed", "reset"}, shut : BOOLEAN,
   requested : 0..MaxBytes, accepted : 0..MaxBytes,
   delivered : Seq(1..MaxBytes),
   unread : Seq(Nat), notified : Nat, closes : Nat, ended : BOOLEAN,
   missed : BOOLEAN, broken : SUBSET {"check", "null"}]

\* What is read is in the buffer, in order.
FineIn(x) == Fits(x.readBuffer) /\ readableSlice(x.readBuffer) = x.unread

\* The numbers of the first n bytes, and of the len bytes of a message behind them.
Numbers(n) == [i \in 1..n |-> i]
Numbered(n, len) == [i \in 1..len |-> n + i]

\* What is written is at the peer or in the buffer, but for m, the end of a message:
\* each byte once, and in order unless one was overtaken.
Placed(x, m) ==
  /\ EachOnce((x.delivered \o x.out) \o m, x.accepted)
  /\ ~x.overtaken => (x.delivered \o x.out) \o m = Numbers(x.accepted)

\* The flags say whether bytes wait, and for what.
Flags(x) ==
  /\ (x.out # <<>>) = (x.writing \/ x.filled) /\ ~(x.writing /\ x.filled)
  /\ x.writing => x.writeEvent

FineOut(x) ==
  /\ Placed(x, <<>>) /\ Flags(x)
  /\ x.out = <<>> => x.notified = x.accepted

\* While writeInLoop() calls back, m is still to be appended.
Half(x, m) == x \in Connections /\ FineIn(x) /\ Placed(x, m) /\ Flags(x)

Fine(x) == x \in Connections /\ FineIn(x) /\ FineOut(x)

\* The bytes of the writes that are queued, and of one that is not any more, fit
\* in what was requested: f[i] are those accepted when i functors have been run.
Budget(x, extra) ==
  \E f \in [0..Len(x.queue) -> Nat] :
    /\ x.accepted + extra <= f[0] /\ \A i \in 0..Len(x.queue) : f[i] <= x.requested
    /\ \A i \in 1..Len(x.queue) : f[i - 1] + x.queue[i][2] <= f[i]

Good(x) == Fine(x) /\ Budget(x, 0)

\* What a method does not do unless it closes the connection, or runs the
\* functor that does: it queues functors at most, and callbacks do not come back.
Grown(x, y) ==
  /\ y.closes = x.closes /\ (y.callbacks => x.callbacks)
  /\ Len(x.queue) <= Len(y.queue)
  /\ \A i \in 1..Len(x.queue) : y.queue[i] = x.queue[i]

\* What leaves the fields of reading or of writing alone.
SameIn(x, y) == y.readBuffer = x.readBuffer /\ y.unread = x.unread
SameOut(x, y) ==
  /\ y.delivered = x.delivered /\ y.out = x.out /\ y.accepted = x.accepted
  /\ y.writing = x.writing /\ (x.writeEvent => y.writeEvent)
  /\ y.filled = x.filled /\ y.overtaken = x.overtaken /\ y.notified = x.notified
SameBudget(x, y) ==
  y.queue = x.queue /\ y.accepted = x.accepted /\ y.requested = x.requested
SameLife(x, y) ==
  y.closes = x.closes /\ (y.callbacks => x.callbacks) /\ y.queue = x.queue

\* The fields of a connection one by one.
LEMMA FieldsAre ==
  ASSUME NEW x \in Connections
  PROVE  /\ x.queue \in Seq(Functors) /\ x.out \in Seq(1..MaxBytes)
         /\ x.delivered \in Seq(1..MaxBytes) /\ x.inbox \in Seq(Nat)
         /\ x.unread \in Seq(Nat) /\ x.readBuffer \in Buffers
         /\ x.accepted \in 0..MaxBytes /\ x.requested \in 0..MaxBytes
         /\ x.room \in 0..Capacity /\ x.notified \in Nat /\ x.closes \in Nat
         /\ x.enabled \in BOOLEAN /\ x.callbacks \in BOOLEAN /\ x.writing \in BOOLEAN
         /\ x.writeEvent \in BOOLEAN /\ x.missed \in BOOLEAN
         /\ x.filled \in BOOLEAN /\ x.overtaken \in BOOLEAN
         /\ x.broken \in SUBSET {"check", "null"}
BY DEF Connections

\* The numbers a connection counts, and its queue.
LEMMA NumbersAre ==
  ASSUME NEW x \in Connections
  PROVE  /\ x.accepted \in Nat /\ x.accepted <= MaxBytes
         /\ x.requested \in Nat /\ x.requested <= MaxBytes /\ MaxBytes \in Nat
         /\ x.room \in Nat /\ x.room <= Capacity /\ Capacity \in Nat
         /\ Len(x.queue) \in Nat /\ \A i \in 1..Len(x.queue) : x.queue[i] \in Functors
<1>1. /\ x.accepted \in 0..MaxBytes /\ x.requested \in 0..MaxBytes
      /\ x.room \in 0..Capacity /\ x.queue \in Seq(Functors)
  BY FieldsAre
<1>2. MaxBytes \in Nat /\ Capacity \in Nat
  BY ConnectionAssumption
<1>3. Len(x.queue) \in Nat /\ \A i \in 1..Len(x.queue) : x.queue[i] \in Functors
  BY <1>1
<1>4. QED
  BY <1>1, <1>2, <1>3

\* A step that leaves the fields of reading alone.
LEMMA SameInFine == ASSUME NEW x, NEW y, FineIn(x), SameIn(x, y) PROVE FineIn(y)
BY DEF FineIn, SameIn

\* A step that leaves the fields of writing alone.
LEMMA SameOutFine ==
  ASSUME NEW x \in Connections, NEW y, FineOut(x), SameOut(x, y), y \in Connections
  PROVE  FineOut(y)
BY DEF FineOut, Placed, Flags, SameOut

\* The same, while m is missing.
LEMMA SameOutHalf ==
  ASSUME NEW x, NEW m, Half(x, m), NEW y \in Connections, SameIn(x, y), SameOut(x, y)
  PROVE  Half(y, m)
BY SameInFine DEF Half, Placed, Flags, SameOut

\* A step that leaves the queue alone does not close.
LEMMA SameIsGrown ==
  ASSUME NEW x \in Connections, NEW y, SameLife(x, y) PROVE Grown(x, y)
BY DEF Grown, SameLife, Connections

\* Two steps that do not close.
LEMMA GrownTwice ==
  ASSUME NEW x \in Connections, NEW y \in Connections, NEW z \in Connections,
         Grown(x, y), Grown(y, z)
  PROVE  Grown(x, z)
<1>1. Len(x.queue) \in Nat /\ Len(y.queue) \in Nat /\ Len(z.queue) \in Nat
  BY NumbersAre
<1>2. QED
  BY <1>1 DEF Grown

\* A functor carries no more bytes than there are.
LEMMA FunctorsAre == ASSUME NEW f \in Functors PROVE f[2] \in Nat /\ f[2] <= MaxBytes
BY ConnectionAssumption DEF Functors

\* A step that neither queues nor accepts nor requests anything.
LEMMA BudgetSame ==
  ASSUME NEW x, NEW y, NEW e, Budget(x, e), SameBudget(x, y) PROVE Budget(y, e)
BY DEF Budget, SameBudget

\* A functor that is queued is paid for by what is requested more.
LEMMA BudgetQueued ==
  ASSUME NEW x \in Connections, NEW y \in Connections, NEW e \in Nat, Budget(x, e),
         NEW f \in Functors, y.queue = Append(x.queue, f), y.accepted = x.accepted,
         x.requested + f[2] <= y.requested
  PROVE  Budget(y, e)
<1> DEFINE n == Len(x.queue)
<1>1. PICK g \in [0..n -> Nat] :
        /\ x.accepted + e <= g[0] /\ \A i \in 0..n : g[i] <= x.requested
        /\ \A i \in 1..n : g[i - 1] + x.queue[i][2] <= g[i]
  BY DEF Budget
<1>2. x.queue \in Seq(Functors) /\ n \in Nat /\ x.requested \in Nat /\ y.requested \in Nat
      /\ x.accepted \in Nat
  BY FieldsAre, NumbersAre
<1>3. f[2] \in Nat
  BY FunctorsAre
<1>4. /\ Len(y.queue) = n + 1 /\ \A i \in 1..n : y.queue[i] = x.queue[i]
      /\ y.queue[n + 1] = f
  BY <1>2
<1> HIDE DEF n
<1> DEFINE h == [i \in 0..(n + 1) |-> IF i <= n THEN g[i] ELSE g[n] + f[2]]
<1>5. h \in [0..(n + 1) -> Nat] /\ h[0] = g[0] /\ h[n + 1] = g[n] + f[2]
      /\ g[n] \in Nat /\ \A i \in 0..n : h[i] = g[i]
  <2>1. /\ 0 \in 0..n /\ n \in 0..n /\ n + 1 \in 0..(n + 1) /\ ~(n + 1 <= n)
        /\ 0 <= n /\ 0 \in 0..(n + 1)
        /\ \A i \in 0..(n + 1) : i <= n => i \in 0..n
        /\ \A i \in 0..n : i <= n /\ i \in 0..(n + 1)
    BY <1>2
  <2>2. g[n] \in Nat /\ g[n] + f[2] \in Nat
    BY <1>1, <1>3, <2>1
  <2>3. QED
    BY <1>1, <2>1, <2>2
<1> HIDE DEF h
<1>6. \A i \in 1..(n + 1) : h[i - 1] + y.queue[i][2] <= h[i]
  <2> SUFFICES ASSUME NEW i \in 1..(n + 1) PROVE h[i - 1] + y.queue[i][2] <= h[i]
    OBVIOUS
  <2>1. CASE i = n + 1
    <3>1. h[i - 1] = g[n] /\ y.queue[i][2] = f[2] /\ h[i] = g[n] + f[2]
      BY <1>2, <1>4, <1>5, <2>1
    <3>2. QED
      BY <1>3, <1>5, <3>1
  <2>2. CASE i # n + 1
    <3>1. i \in 1..n /\ i - 1 \in 0..n /\ i \in 0..n
      BY <1>2, <2>2
    <3>2. QED
      BY <1>1, <1>4, <1>5, <3>1
  <2>3. QED
    BY <2>1, <2>2
<1>7. y.accepted + e <= h[0] /\ \A i \in 0..(n + 1) : h[i] <= y.requested
  <2>1. y.accepted + e <= h[0]
    BY <1>1, <1>5
  <2>2. ASSUME NEW i \in 0..(n + 1) PROVE h[i] <= y.requested
    <3>1. CASE i \in 0..n
      <4>1. h[i] = g[i] /\ g[i] \in Nat /\ g[i] <= x.requested
        BY <1>1, <1>5, <3>1
      <4>2. \A g1, g2, p, g3 \in Nat : g1 <= g2 /\ g2 + p <= g3 => g1 <= g3
        OBVIOUS
      <4>3. QED
        BY <1>2, <1>3, <4>1, <4>2
    <3>2. CASE i = n + 1
      <4>1. n \in 0..n
        BY <1>2
      <4>2. g[n] <= x.requested
        BY <1>1, <4>1
      <4>3. QED
        BY <1>2, <1>3, <1>5, <3>2, <4>2, SMTT(30)
    <3>3. QED
      BY <1>2, <3>1, <3>2
  <2>3. QED
    BY <2>1, <2>2
<1>8. QED
  BY <1>4, <1>5, <1>6, <1>7 DEF Budget

\* What is requested more can be written at once, before all that is queued.
LEMMA BudgetRaised ==
  ASSUME NEW x \in Connections, NEW y \in Connections, NEW e \in Nat, Budget(x, 0),
         y.queue = x.queue, y.accepted = x.accepted, y.requested = x.requested + e
  PROVE  Budget(y, e)
<1> DEFINE n == Len(x.queue)
<1>1. PICK g \in [0..n -> Nat] :
        /\ x.accepted + 0 <= g[0] /\ \A i \in 0..n : g[i] <= x.requested
        /\ \A i \in 1..n : g[i - 1] + x.queue[i][2] <= g[i]
  BY DEF Budget
<1>2. n \in Nat /\ x.requested \in Nat /\ x.accepted \in Nat
      /\ \A i \in 1..n : x.queue[i] \in Functors
  BY NumbersAre
<1>3. \A i \in 1..n : x.queue[i][2] \in Nat
  BY <1>2, FunctorsAre
<1> DEFINE h == [i \in 0..n |-> g[i] + e]
<1> HIDE DEF n
<1>4. h \in [0..n -> Nat] /\ \A i \in 0..n : h[i] = g[i] + e
  BY <1>1
<1> HIDE DEF h
<1>5. \A i \in 1..n : h[i - 1] + x.queue[i][2] <= h[i]
  <2> SUFFICES ASSUME NEW i \in 1..n PROVE h[i - 1] + x.queue[i][2] <= h[i]
    OBVIOUS
  <2>1. i - 1 \in 0..n /\ i \in 0..n
    BY <1>2
  <2>2. h[i - 1] = g[i - 1] + e /\ h[i] = g[i] + e /\ g[i - 1] \in Nat /\ g[i] \in Nat
        /\ g[i - 1] + x.queue[i][2] <= g[i] /\ x.queue[i][2] \in Nat
    BY <1>1, <1>3, <1>4, <2>1
  <2>3. QED
    BY <2>2
<1>6. x.accepted + e <= h[0] /\ \A i \in 0..n : h[i] <= x.requested + e
  <2>1. 0 \in 0..n
    BY <1>2
  <2>2. g[0] \in Nat /\ h[0] = g[0] + e
    BY <1>1, <1>4, <2>1
  <2>3. ASSUME NEW i \in 0..n PROVE h[i] <= x.requested + e
    <3>1. h[i] = g[i] + e /\ g[i] \in Nat /\ g[i] <= x.requested
      BY <1>1, <1>4
    <3>2. QED
      BY <1>2, <3>1
  <2>4. QED
    BY <1>1, <1>2, <2>2, <2>3
<1>7. QED
  BY <1>4, <1>5, <1>6 DEF Budget, n

\* What is accepted is taken from what was set aside for it.
LEMMA BudgetAccepted ==
  ASSUME NEW x \in Connections, NEW y \in Connections, NEW e \in Nat, Budget(x, e),
         y.queue = x.queue, y.accepted = x.accepted + e, y.requested = x.requested
  PROVE  Budget(y, 0)
<1>0. x.accepted \in Nat
  BY NumbersAre
<1>1. (x.accepted + e) + 0 = x.accepted + e
  BY <1>0
<1>2. QED
  BY <1>1 DEF Budget

\* A functor that is run may write its bytes.
LEMMA BudgetTaken ==
  ASSUME NEW x \in Connections, NEW y \in Connections, Budget(x, 0), x.queue # <<>>,
         y.queue = Tail(x.queue), y.accepted = x.accepted, y.requested = x.requested
  PROVE  Budget(y, Head(x.queue)[2])
<1> DEFINE n == Len(x.queue)
           f == Head(x.queue)
<1>1. PICK g \in [0..n -> Nat] :
        /\ x.accepted + 0 <= g[0] /\ \A i \in 0..n : g[i] <= x.requested
        /\ \A i \in 1..n : g[i - 1] + x.queue[i][2] <= g[i]
  BY DEF Budget
<1>2. x.queue \in Seq(Functors) /\ n \in Nat /\ n # 0 /\ x.accepted \in Nat
      /\ f = x.queue[1] /\ f \in Functors
  <2>1. x.queue \in Seq(Functors) /\ n \in Nat /\ x.accepted \in Nat
    BY FieldsAre, NumbersAre
  <2>2. f \in Functors /\ f = x.queue[1] /\ n # 0
    BY <2>1
  <2>3. QED
    BY <2>1, <2>2
<1>3. f[2] \in Nat
  BY <1>2, FunctorsAre
<1>4. Len(y.queue) = n - 1 /\ \A i \in 1..(n - 1) : y.queue[i] = x.queue[i + 1]
  BY <1>2, HeadTailProperties
<1> DEFINE h == [i \in 0..(n - 1) |-> g[i + 1]]
<1> HIDE DEF n, f
<1>5. h \in [0..(n - 1) -> Nat] /\ \A i \in 0..(n - 1) : h[i] = g[i + 1]
  BY <1>1, <1>2
<1> HIDE DEF h
<1>6. \A i \in 1..(n - 1) : h[i - 1] + y.queue[i][2] <= h[i]
  <2> SUFFICES ASSUME NEW i \in 1..(n - 1) PROVE h[i - 1] + y.queue[i][2] <= h[i]
    OBVIOUS
  <2>1. i - 1 \in 0..(n - 1) /\ i \in 0..(n - 1) /\ i + 1 \in 1..n /\ (i + 1) - 1 = i
        /\ (i - 1) + 1 = i
    BY <1>2
  <2>2. h[i - 1] = g[i] /\ h[i] = g[i + 1] /\ y.queue[i] = x.queue[i + 1]
    BY <1>4, <1>5, <2>1
  <2>3. g[(i + 1) - 1] + x.queue[i + 1][2] <= g[i + 1]
    BY <1>1, <2>1
  <2>4. QED
    BY <2>1, <2>2, <2>3
<1>7. x.accepted + f[2] <= h[0] /\ \A i \in 0..(n - 1) : h[i] <= x.requested
  <2>1. 0 \in 0..(n - 1) /\ 1 \in 1..n /\ 0 \in 0..n /\ 1 \in 0..n
    BY <1>2
  <2>2. h[0] = g[1] /\ g[0] \in Nat /\ g[1] \in Nat
    <3>1. h[0] = g[0 + 1] /\ 0 + 1 = 1
      BY <1>5, <2>1
    <3>2. QED
      BY <1>1, <2>1, <3>1
  <2>3. g[0] + f[2] <= g[1]
    <3>1. g[1 - 1] + x.queue[1][2] <= g[1]
      BY <1>1, <2>1
    <3>2. QED
      BY <1>2, <3>1
  <2>4. ASSUME NEW i \in 0..(n - 1) PROVE h[i] <= x.requested
    <3>1. i + 1 \in 0..n /\ h[i] = g[i + 1]
      BY <1>2, <1>5
    <3>2. QED
      BY <1>1, <3>1
  <2>5. QED
    BY <1>1, <1>2, <1>3, <2>2, <2>3, <2>4, SMTT(30)
<1>8. QED
  BY <1>4, <1>5, <1>6, <1>7 DEF Budget, f

\* What changes no bytes and queues nothing.
Light(x, y) ==
  y \in Connections /\ SameIn(x, y) /\ SameOut(x, y) /\ SameBudget(x, y) /\ SameLife(x, y)

\* A light step keeps the invariant.
LEMMA LightKeeps ==
  ASSUME NEW x, NEW y, Fine(x), Light(x, y)
  PROVE  /\ Fine(y) /\ Grown(x, y)
         /\ \A e : Budget(x, e) => Budget(y, e)
BY SameInFine, SameOutFine, SameIsGrown, BudgetSame DEF Fine, Light

\* Two light steps are one.
LEMMA LightTwice ==
  ASSUME NEW x, NEW y, NEW z, Light(x, y), Light(y, z) PROVE Light(x, z)
BY DEF Light, SameIn, SameOut, SameBudget, SameLife

\* Nothing changes.
LEMMA SelfIsLight == ASSUME NEW x \in Connections PROVE Light(x, x)
BY DEF Light, SameIn, SameOut, SameBudget, SameLife

\* disable() of the handler.
LEMMA DisabledIsLight ==
  ASSUME NEW x \in Connections
  PROVE  Light(x, Disabled(x)) /\ ~Disabled(x).callbacks
BY DEF Disabled, Light, SameIn, SameOut, SameBudget, SameLife, Connections

\* enable() of the handler.
LEMMA EnabledIsLight ==
  ASSUME NEW x \in Connections PROVE Light(x, Enabled(x))
BY DEF Enabled, Light, SameIn, SameOut, SameBudget, SameLife, Connections

\* forceClose() in the loop.
LEMMA ForceClosedIsLight ==
  ASSUME NEW x \in Connections PROVE Light(x, ForceClosed(x))
<1>1. \A y \in Connections : Light(y, [y EXCEPT !.ended = TRUE])
  BY ZenonT(60) DEF Light, SameIn, SameOut, SameBudget, SameLife, Connections
<1>2. Disabled(x) \in Connections
  BY DisabledIsLight DEF Light
<1>3. QED
  BY <1>1, <1>2, DisabledIsLight, LightTwice DEF ForceClosed

\* Another read mode.
LEMMA ModeIsLight ==
  ASSUME NEW x \in Connections, NEW m \in Modes PROVE Light(x, [x EXCEPT !.mode = m])
BY DEF Light, SameIn, SameOut, SameBudget, SameLife, Connections

\* Flags that no field of the invariant depends on.
LEMMA FlagsAreLight ==
  ASSUME NEW x \in Connections
  PROVE  /\ Light(x, [x EXCEPT !.writeEvent = TRUE]) /\ Light(x, [x EXCEPT !.shut = TRUE])
         /\ Light(x, [x EXCEPT !.soError = FALSE])
         /\ Light(x, [x EXCEPT !.broken = @ \cup {"check"}])
<1>1. Light(x, [x EXCEPT !.writeEvent = TRUE])
  BY DEF Light, SameIn, SameOut, SameBudget, SameLife, Connections
<1>2. Light(x, [x EXCEPT !.shut = TRUE])
  BY DEF Light, SameIn, SameOut, SameBudget, SameLife, Connections
<1>3. Light(x, [x EXCEPT !.soError = FALSE])
  BY DEF Light, SameIn, SameOut, SameBudget, SameLife, Connections
<1>4. Light(x, [x EXCEPT !.broken = @ \cup {"check"}])
  <2>1. x.broken \cup {"check"} \in SUBSET {"check", "null"}
    BY FieldsAre
  <2>2. QED
    BY <2>1 DEF Light, SameIn, SameOut, SameBudget, SameLife, Connections
<1>5. QED
  BY <1>1, <1>2, <1>3, <1>4

\* A functor is queued.
LEMMA QueuedIs ==
  ASSUME NEW x \in Connections, NEW f \in Functors
  PROVE  /\ Queued(x, f) \in Connections /\ Queued(x, f).queue = Append(x.queue, f)
         /\ SameIn(x, Queued(x, f)) /\ SameOut(x, Queued(x, f))
         /\ Queued(x, f).closes = x.closes /\ Queued(x, f).callbacks = x.callbacks
         /\ Queued(x, f).accepted = x.accepted /\ Queued(x, f).requested = x.requested
<1> DEFINE q == Append(x.queue, f)
<1>1. q \in Seq(Functors)
  BY FieldsAre
<1>2. Queued(x, f) = [x EXCEPT !.queue = q]
  BY DEF Queued
<1> DEFINE y == Queued(x, f)
<1> HIDE DEF q
<1>3. y \in Connections /\ y.queue = q
  <2>1. \A s \in Seq(Functors) :
          [x EXCEPT !.queue = s] \in Connections /\ [x EXCEPT !.queue = s].queue = s
    BY DEF Connections
  <2>2. QED
    BY <1>1, <1>2, <2>1
<1>4. /\ SameIn(x, y) /\ SameOut(x, y) /\ y.closes = x.closes
      /\ y.callbacks = x.callbacks /\ y.accepted = x.accepted
      /\ y.requested = x.requested
  BY <1>1, <1>2 DEF Connections, SameIn, SameOut
<1>5. QED
  BY <1>3, <1>4 DEF q

\* A functor is queued.
LEMMA QueueGrows ==
  ASSUME NEW x \in Connections, NEW y, NEW f \in Functors, y.queue = Append(x.queue, f),
         y.closes = x.closes, y.callbacks = x.callbacks
  PROVE  Grown(x, y)
<1>1. x.queue \in Seq(Functors) /\ Len(x.queue) \in Nat
  BY FieldsAre, NumbersAre
<1>2. /\ Len(Append(x.queue, f)) = Len(x.queue) + 1
      /\ \A i \in 1..Len(x.queue) : Append(x.queue, f)[i] = x.queue[i]
  BY <1>1, AppendProperties
<1>3. QED
  BY <1>1, <1>2 DEF Grown

\* The functors the code itself queues.
LEMMA OwnFunctors ==
  \A name \in {"writeComplete", "disable", "enable"} :
    <<name, 0>> \in Functors /\ <<name, 0>>[2] = 0
BY DEF Functors

\* A functor without bytes is queued.
LEMMA QueuedKeeps ==
  ASSUME NEW x, Fine(x), NEW e \in Nat, Budget(x, e),
         NEW f \in Functors, f[2] = 0
  PROVE  Fine(Queued(x, f)) /\ Budget(Queued(x, f), e) /\ Grown(x, Queued(x, f))
<1> DEFINE y == Queued(x, f)
<1>1. x \in Connections /\ y \in Connections
  BY QueuedIs DEF Fine
<1>2. x.requested + f[2] <= y.requested
  BY <1>1, QueuedIs, NumbersAre
<1>3. Budget(y, e)
  BY <1>1, <1>2, QueuedIs, BudgetQueued
<1>4. Fine(y)
  BY <1>1, QueuedIs, SameInFine, SameOutFine DEF Fine
<1>5. Grown(x, y)
  BY <1>1, QueuedIs, QueueGrows
<1>6. QED
  BY <1>3, <1>4, <1>5

\* Min of two numbers.
LEMMA MinIs ==
  ASSUME NEW a \in Nat, NEW b \in Nat
  PROVE  Min({a, b}) \in Nat /\ Min({a, b}) <= a /\ Min({a, b}) <= b
         /\ (Min({a, b}) = a \/ Min({a, b}) = b)
<1>1. \E m \in {a, b} : \A n \in {a, b} : m <= n
  <2>1. CASE a <= b
    BY <2>1
  <2>2. CASE b <= a
    BY <2>2
  <2>3. QED
    BY <2>1, <2>2
<1>2. QED
  BY <1>1 DEF Min

\* What fits fits in less.
LEMMA BudgetWeaker ==
  ASSUME NEW x \in Connections, NEW e \in Nat, Budget(x, e), NEW l \in Nat, l <= e
  PROVE  Budget(x, l)
<1>1. PICK f \in [0..Len(x.queue) -> Nat] :
        /\ x.accepted + e <= f[0] /\ \A i \in 0..Len(x.queue) : f[i] <= x.requested
        /\ \A i \in 1..Len(x.queue) : f[i - 1] + x.queue[i][2] <= f[i]
  BY DEF Budget
<1>2. x.accepted \in Nat /\ 0 \in 0..Len(x.queue)
  BY NumbersAre
<1>3. f[0] \in Nat
  BY <1>1, <1>2
<1>4. x.accepted + l <= f[0]
  BY <1>1, <1>2, <1>3
<1>5. QED
  BY <1>1, <1>4 DEF Budget

\* What a functor held back is not needed any more, and fits what is left.
LEMMA BudgetLess ==
  ASSUME NEW x \in Connections, NEW e \in Nat, Budget(x, e)
  PROVE  Budget(x, 0) /\ x.accepted + e <= x.requested
<1>1. PICK f \in [0..Len(x.queue) -> Nat] :
        /\ x.accepted + e <= f[0] /\ \A i \in 0..Len(x.queue) : f[i] <= x.requested
        /\ \A i \in 1..Len(x.queue) : f[i - 1] + x.queue[i][2] <= f[i]
  BY DEF Budget
<1>2. x.accepted \in Nat /\ x.requested \in Nat /\ 0 \in 0..Len(x.queue)
  BY NumbersAre
<1>3. f[0] \in Nat /\ f[0] <= x.requested
  BY <1>1, <1>2
<1>4. x.accepted + 0 <= f[0] /\ x.accepted + e <= x.requested
  BY <1>1, <1>2, <1>3
<1>5. QED
  BY <1>1, <1>4 DEF Budget

\* The numbers of the bytes of a message follow those before.
LEMMA MessageFollows ==
  ASSUME NEW a \in Nat, NEW l \in Nat
  PROVE  /\ Numbers(a) \in Seq(Nat) /\ Numbered(a, l) \in Seq(Nat)
         /\ Len(Numbered(a, l)) = l
         /\ Numbers(a) \o Numbered(a, l) = Numbers(a + l)
<1> DEFINE u == Numbers(a)
           m == Numbered(a, l)
           v == Numbers(a + l)
<1>1. u \in Seq(Nat) /\ Len(u) = a /\ \A i \in 1..a : u[i] = i
  BY DEF Numbers
<1>2. m \in Seq(Nat) /\ Len(m) = l /\ \A i \in 1..l : m[i] = a + i
  BY DEF Numbered
<1>3. v \in Seq(Nat) /\ Len(v) = a + l /\ \A i \in 1..(a + l) : v[i] = i
  BY DEF Numbers
<1> HIDE DEF u, m, v
<1>4. /\ u \o m \in Seq(Nat) /\ Len(u \o m) = a + l
      /\ \A i \in 1..(a + l) : (u \o m)[i] = IF i <= a THEN u[i] ELSE m[i - a]
  <2>1. u \in Seq(Nat) /\ m \in Seq(Nat)
    BY <1>1, <1>2
  <2>2. QED
    BY <1>1, <1>2, <2>1, JoinIs
<1>5. \A i \in 1..(a + l) : (u \o m)[i] = v[i]
  <2> SUFFICES ASSUME NEW i \in 1..(a + l) PROVE (u \o m)[i] = v[i]
    OBVIOUS
  <2>1. CASE i <= a
    BY <1>1, <1>3, <1>4, <2>1
  <2>2. CASE ~(i <= a)
    <3>1. i - a \in 1..l /\ a + (i - a) = i
      BY <2>2
    <3>2. QED
      BY <1>2, <1>3, <1>4, <2>2, <3>1
  <2>3. QED
    BY <2>1, <2>2
<1>6. u \o m = v
  BY <1>3, <1>4, <1>5, SameBytes
<1>7. QED
  BY <1>1, <1>2, <1>6 DEF u, m, v

\* Three sequences, one behind the other.
LEMMA JoinTwice ==
  ASSUME NEW s \in Seq(Nat), NEW t \in Seq(Nat), NEW u \in Seq(Nat)
  PROVE  (s \o t) \o u = s \o (t \o u)
BY SMTT(30)

\* Four sequences: the last two are one.
LEMMA JoinThrice ==
  ASSUME NEW s \in Seq(Nat), NEW t \in Seq(Nat), NEW u \in Seq(Nat), NEW v \in Seq(Nat)
  PROVE  (s \o (t \o u)) \o v = (s \o t) \o (u \o v)
<1>1. s \o t \in Seq(Nat)
  BY JoinIs
<1>2. s \o (t \o u) = (s \o t) \o u
  BY JoinTwice, Zenon
<1>3. ((s \o t) \o u) \o v = (s \o t) \o (u \o v)
  BY <1>1, JoinTwice, ZenonT(60)
<1>4. QED
  BY <1>2, <1>3

\* The next numbers may come in anywhere: each is there once.
LEMMA OnceMore ==
  ASSUME NEW s \in Seq(Nat), NEW m \in Seq(Nat), NEW a \in Nat, NEW l \in Nat,
         EachOnce(s \o m, a)
  PROVE  EachOnce((s \o Numbered(a, l)) \o m, a + l)
<1> DEFINE t == Numbered(a, l)
           p == Len(s)
           r == s \o t
           q == r \o m
<1>1. t \in Seq(Nat) /\ Len(t) = l /\ \A i \in 1..l : t[i] = a + i
  BY MessageFollows DEF Numbered
<1> HIDE DEF t
<1>2. p \in Nat /\ Len(m) \in Nat
  OBVIOUS
<1>3. /\ s \o m \in Seq(Nat) /\ Len(s \o m) = p + Len(m)
      /\ \A j \in 1..(p + Len(m)) : (s \o m)[j] = IF j <= p THEN s[j] ELSE m[j - p]
  BY JoinIs
<1>4. /\ r \in Seq(Nat) /\ Len(r) = p + l
      /\ \A j \in 1..(p + l) : r[j] = IF j <= p THEN s[j] ELSE t[j - p]
  BY <1>1, JoinIs
<1> HIDE DEF r
<1>5. /\ q \in Seq(Nat) /\ Len(q) = (p + l) + Len(m)
      /\ \A j \in 1..((p + l) + Len(m)) : q[j] = IF j <= p + l THEN r[j] ELSE m[j - (p + l)]
  <2> HIDE DEF p
  <2>1. r \in Seq(Nat) /\ Len(r) = p + l
    BY <1>4
  <2>2. /\ q \in Seq(Nat) /\ Len(q) = Len(r) + Len(m)
        /\ \A j \in 1..(Len(r) + Len(m)) :
             q[j] = IF j <= Len(r) THEN r[j] ELSE m[j - Len(r)]
    BY <2>1, JoinIs
  <2> HIDE DEF q
  <2>3. QED
    BY ONLY <2>1, <2>2
<1>6. p + Len(m) = a
  BY <1>3 DEF EachOnce
<1>7. \A i \in 1..a : \E j \in 1..a : (s \o m)[j] = i
  BY DEF EachOnce
<1> HIDE DEF p, q
<1>8. ASSUME NEW i \in 1..(a + l) PROVE \E j \in 1..(a + l) : q[j] = i
  <2>1. CASE i <= a
    <3>0. i \in 1..a
      BY <2>1
    <3>1. PICK j \in 1..a : (s \o m)[j] = i
      BY <1>7, <3>0
    <3>2. CASE j <= p
      <4>1. j \in 1..(p + l) /\ j \in 1..((p + l) + Len(m)) /\ j <= p + l
            /\ j \in 1..(p + Len(m)) /\ j \in 1..(a + l)
        BY <1>2, <1>6, <3>2
      <4>2. q[j] = i
        BY <1>3, <1>4, <1>5, <3>1, <3>2, <4>1
      <4>3. QED
        BY <4>1, <4>2
    <3>3. CASE ~(j <= p)
      <4>1. /\ j + l \in 1..((p + l) + Len(m)) /\ ~(j + l <= p + l)
            /\ (j + l) - (p + l) = j - p /\ j \in 1..(p + Len(m)) /\ j + l \in 1..(a + l)
        BY <1>2, <1>6, <3>3
      <4>2. q[j + l] = i
        BY <1>3, <1>5, <3>1, <3>3, <4>1
      <4>3. QED
        BY <4>1, <4>2
    <3>4. QED
      BY <3>2, <3>3
  <2>2. CASE ~(i <= a)
    <3> DEFINE j == p + (i - a)
    <3>1. /\ j \in 1..(p + l) /\ j \in 1..((p + l) + Len(m)) /\ j <= p + l /\ ~(j <= p)
          /\ j - p = i - a /\ i - a \in 1..l /\ a + (i - a) = i /\ j \in 1..(a + l)
      BY <1>2, <1>6, <2>2
    <3> HIDE DEF j
    <3>2. q[j] = i
      BY <1>1, <1>4, <1>5, <3>1
    <3>3. QED
      BY <3>1, <3>2
  <2>3. QED
    BY <2>1, <2>2
<1>9. Len(q) = a + l
  <2>1. Len(q) = (p + l) + Len(m)
    BY <1>5
  <2>2. QED
    <3> DEFINE g == Len(m)
    <3>1. p \in Nat /\ g \in Nat /\ p + g = a
      BY <1>2, <1>6
    <3>2. Len(q) = (p + l) + g
      BY <2>1
    <3> HIDE DEF g
    <3>3. (p + l) + g = a + l
      BY <3>1
    <3>4. QED
      BY <3>2, <3>3, Zenon
<1>10. QED
  BY <1>8, <1>9 DEF EachOnce, q, r, t

\* Part of a message is at the peer, the rest in the buffer, and nothing in
\* between.
LEMMA OrderKept ==
  ASSUME NEW d \in Seq(Nat), NEW o \in Seq(Nat), NEW m \in Seq(Nat),
         NEW n \in 0..Len(m), o = <<>> \/ n = 0
  PROVE  (d \o SubSeq(m, 1, n)) \o (o \o SubSeq(m, n + 1, Len(m))) = (d \o o) \o m
<1> DEFINE h == SubSeq(m, 1, n)
           t == SubSeq(m, n + 1, Len(m))
<1>1. h \in Seq(Nat) /\ t \in Seq(Nat) /\ m = h \o t /\ Len(h) = n
  BY PartsMake
<1> HIDE DEF h, t
<1>0. d \in Seq(Nat) /\ o \in Seq(Nat) /\ h \in Seq(Nat) /\ t \in Seq(Nat)
  BY <1>1
<1>2. CASE o = <<>>
  <2>1. o \o t = t /\ d \o o = d
    BY <1>1, <1>2, ConcatEmptySeq
  <2>2. (d \o h) \o t = d \o (h \o t)
    BY ONLY <1>0, JoinTwice, ZenonT(60)
  <2>3. QED
    BY <1>1, <2>1, <2>2 DEF h, t
<1>3. CASE n = 0
  <2>1. h = <<>>
    BY <1>1, <1>3
  <2>2. d \o h = d /\ m = t
    BY <1>1, <2>1, ConcatEmptySeq
  <2>3. d \o (o \o t) = (d \o o) \o t
    BY ONLY <1>0, JoinTwice, ZenonT(60)
  <2>4. QED
    BY <2>2, <2>3 DEF h, t
<1>4. QED
  BY <1>2, <1>3

\* Natural numbers up to MaxBytes.
LEMMA BytesAreNat ==
  /\ MaxBytes \in Nat /\ 1..MaxBytes \subseteq Nat
  /\ \A s \in Seq(1..MaxBytes) : s \in Seq(Nat)
<1>1. MaxBytes \in Nat /\ 1..MaxBytes \subseteq Nat
  BY ConnectionAssumption
<1>2. QED
  BY <1>1

\* Parts of a sequence of any elements.
LEMMA PartsOfAny ==
  ASSUME NEW S, NEW s \in Seq(S), NEW n \in 0..Len(s)
  PROVE  /\ SubSeq(s, 1, n) \in Seq(S) /\ SubSeq(s, n + 1, Len(s)) \in Seq(S)
         /\ Len(SubSeq(s, 1, n)) = n /\ Len(SubSeq(s, n + 1, Len(s))) = Len(s) - n
         /\ (n # Len(s) => SubSeq(s, n + 1, Len(s)) # <<>>)
<1>1. Len(s) \in Nat /\ n \in Nat /\ n <= Len(s) /\ \A i \in 1..Len(s) : s[i] \in S
  OBVIOUS
<1>2. \A i \in 1..n : s[i] \in S
  BY <1>1
<1>3. \A i \in (n + 1)..Len(s) : s[i] \in S
  BY <1>1
<1>4. 1 \in Int /\ n \in Int /\ n + 1 \in Int /\ Len(s) \in Int
  BY <1>1
<1>5. SubSeq(s, 1, n) \in Seq(S) /\ Len(SubSeq(s, 1, n)) = IF 1 <= n THEN n - 1 + 1 ELSE 0
  BY <1>2, <1>4, SubSeqProperties
<1>6. /\ SubSeq(s, n + 1, Len(s)) \in Seq(S)
      /\ Len(SubSeq(s, n + 1, Len(s)))
           = IF n + 1 <= Len(s) THEN Len(s) - (n + 1) + 1 ELSE 0
  BY <1>3, <1>4, SubSeqProperties
<1>7. Len(SubSeq(s, 1, n)) = n /\ Len(SubSeq(s, n + 1, Len(s))) = Len(s) - n
  BY <1>1, <1>5, <1>6
<1>8. n # Len(s) => SubSeq(s, n + 1, Len(s)) # <<>>
  <2> DEFINE t == SubSeq(s, n + 1, Len(s))
  <2>1. Len(t) = Len(s) - n
    BY <1>7
  <2> HIDE DEF t
  <2>2. n # Len(s) => Len(t) # 0
    BY <1>1, <2>1
  <2>3. n # Len(s) => t # <<>>
    BY <2>2
  <2>4. QED
    BY <2>3 DEF t
<1>9. QED
  BY <1>5, <1>6, <1>7, <1>8

\* The connection when a message has been accepted, and n bytes of it written.
Accepted(x, len, n) ==
  LET message == Numbered(x.accepted, len)
  IN [x EXCEPT !.accepted = @ + len, !.room = @ - n,
               !.delivered = @ \o SubSeq(message, 1, n)]

\* Bytes of a write() go out at once or into the buffer.
LEMMA AcceptedIs ==
  ASSUME NEW x \in Connections, NEW len \in Nat, x.accepted + len <= x.requested,
         NEW n \in 0..len, n <= x.room
  PROVE  LET d == Accepted(x, len, n)
             m == Numbered(x.accepted, len) IN
         /\ m \in Seq(1..MaxBytes) /\ Len(m) = len
         /\ d \in Connections /\ SameIn(x, d) /\ SameLife(x, d)
         /\ d.accepted = x.accepted + len /\ d.requested = x.requested
         /\ d.delivered = x.delivered \o SubSeq(m, 1, n)
         /\ d.out = x.out /\ d.writing = x.writing /\ d.writeEvent = x.writeEvent
         /\ d.filled = x.filled /\ d.overtaken = x.overtaken /\ d.notified = x.notified
<1> DEFINE m == Numbered(x.accepted, len)
           a == x.accepted + len
           r == x.room - n
           s == x.delivered \o SubSeq(m, 1, n)
           d == Accepted(x, len, n)
<1>1. /\ x.accepted \in Nat /\ x.requested \in Nat /\ x.requested <= MaxBytes
      /\ MaxBytes \in Nat /\ x.room \in Nat /\ x.room <= Capacity /\ Capacity \in Nat
  BY NumbersAre
<1>2. a \in 0..MaxBytes /\ r \in 0..Capacity
  BY <1>1
<1>3. \A i \in 1..len : x.accepted + i \in 1..MaxBytes
  BY <1>1
<1>4. m \in Seq(1..MaxBytes) /\ Len(m) = len
  BY <1>3 DEF Numbered
<1> HIDE DEF m
<1>5. SubSeq(m, 1, n) \in Seq(1..MaxBytes)
  BY <1>4, PartsOfAny
<1>6. s \in Seq(1..MaxBytes)
  <2>1. x.delivered \in Seq(1..MaxBytes)
    BY FieldsAre
  <2>2. QED
    BY <1>5, <2>1, ConcatProperties
<1>7. d = [x EXCEPT !.accepted = a, !.room = r, !.delivered = s]
  BY DEF Accepted, m
<1> HIDE DEF a, r, s, d
<1>9. /\ d \in Connections /\ SameIn(x, d) /\ SameLife(x, d)
      /\ d.accepted = a /\ d.requested = x.requested /\ d.delivered = s
      /\ d.out = x.out /\ d.writing = x.writing /\ d.writeEvent = x.writeEvent
      /\ d.filled = x.filled /\ d.overtaken = x.overtaken /\ d.notified = x.notified
  <2>1. d \in Connections
    BY <1>2, <1>6, <1>7 DEF Connections
  <2>2. SameIn(x, d) /\ SameLife(x, d)
    BY <1>7 DEF Connections, SameIn, SameLife
  <2>3. d.accepted = a /\ d.requested = x.requested /\ d.delivered = s
    BY <1>7 DEF Connections
  <2>4. /\ d.out = x.out /\ d.writing = x.writing /\ d.writeEvent = x.writeEvent
        /\ d.filled = x.filled /\ d.overtaken = x.overtaken /\ d.notified = x.notified
    BY <1>7 DEF Connections
  <2>5. QED
    BY <2>1, <2>2, <2>3, <2>4
<1>10. QED
  BY <1>4, <1>9 DEF a, s, m, d

\* The bytes at the peer and in the buffer.
LEMMA BytesAre ==
  ASSUME NEW x \in Connections
  PROVE  /\ x.delivered \in Seq(Nat) /\ x.out \in Seq(Nat)
         /\ x.delivered \o x.out \in Seq(Nat)
         /\ (x.delivered \o x.out) \o <<>> = x.delivered \o x.out
<1>1. x.delivered \in Seq(Nat) /\ x.out \in Seq(Nat)
  BY FieldsAre, BytesAreNat
<1>2. x.delivered \o x.out \in Seq(Nat)
  BY <1>1, JoinIs
<1>3. QED
  BY <1>1, <1>2, ConcatEmptySeq

\* Behind what is in its place the next numbers are in theirs.
LEMMA PlacedMore ==
  ASSUME NEW x \in Connections, Placed(x, <<>>), NEW l \in Nat,
         NEW q, q = (x.delivered \o x.out) \o Numbered(x.accepted, l)
  PROVE  /\ EachOnce(q, x.accepted + l)
         /\ ~x.overtaken => q = Numbers(x.accepted + l)
<1> DEFINE s == x.delivered \o x.out
           t == Numbered(x.accepted, l)
<1>1. s \in Seq(Nat) /\ s \o <<>> = s /\ x.accepted \in Nat
  BY BytesAre, NumbersAre
<1>2. t \in Seq(Nat) /\ Numbers(x.accepted) \o t = Numbers(x.accepted + l)
  BY <1>1, MessageFollows
<1>3. EachOnce(s \o <<>>, x.accepted) /\ (~x.overtaken => s \o <<>> = Numbers(x.accepted))
  BY DEF Placed
<1> HIDE DEF s, t
<1>4. <<>> \in Seq(Nat) /\ s \o t \in Seq(Nat)
  BY <1>1, <1>2, JoinIs
<1>5. (s \o t) \o <<>> = s \o t
  BY <1>4, ConcatEmptySeq
<1>6. EachOnce((s \o t) \o <<>>, x.accepted + l)
  BY <1>1, <1>3, <1>4, OnceMore DEF t
<1>7. QED
  BY <1>1, <1>2, <1>3, <1>5, <1>6 DEF s, t

\* When a message is accepted n bytes of it are at the peer, and the rest is to be
\* appended.
LEMMA AcceptedIsPlaced ==
  ASSUME NEW x \in Connections, Placed(x, <<>>), NEW len \in Nat,
         NEW n \in 0..len, x.out = <<>> \/ n = 0,
         NEW m, m = Numbered(x.accepted, len),
         NEW y, y.accepted = x.accepted + len, y.overtaken = x.overtaken,
         y.delivered = x.delivered \o SubSeq(m, 1, n), y.out = x.out
  PROVE  Placed(y, SubSeq(m, n + 1, Len(m)))
<1> DEFINE h == SubSeq(m, 1, n)
           t == SubSeq(m, n + 1, Len(m))
<1>1. x.delivered \in Seq(Nat) /\ x.out \in Seq(Nat) /\ x.accepted \in Nat
  BY BytesAre, NumbersAre
<1>2. m \in Seq(Nat) /\ Len(m) = len
  BY <1>1, MessageFollows
<1>3. h \in Seq(Nat) /\ t \in Seq(Nat)
  BY <1>2, PartsMake
<1>4. (x.delivered \o h) \o (x.out \o t) = (x.delivered \o x.out) \o m
  BY ONLY <1>1, <1>2, n \in 0..len, x.out = <<>> \/ n = 0, OrderKept, ZenonT(60)
<1> HIDE DEF h, t
<1>5. x.delivered \o h \in Seq(Nat)
  BY <1>1, <1>3, JoinIs
<1>6. ((x.delivered \o h) \o x.out) \o t = (x.delivered \o h) \o (x.out \o t)
  BY ONLY <1>1, <1>3, <1>5, JoinTwice, ZenonT(60)
<1>7. (y.delivered \o y.out) \o t = (x.delivered \o x.out) \o m
  BY <1>4, <1>6 DEF h
<1>8. /\ EachOnce((x.delivered \o x.out) \o m, x.accepted + len)
      /\ ~x.overtaken => (x.delivered \o x.out) \o m = Numbers(x.accepted + len)
  BY PlacedMore
<1>9. QED
  BY <1>7, <1>8 DEF Placed, t

\* Once nothing is missing and bytes wait, all is fine.
LEMMA HalfIsFine ==
  ASSUME NEW x, Half(x, <<>>), x.out # <<>> PROVE Fine(x)
BY DEF Half, Fine, FineOut

LEMMA FineIsHalf == ASSUME NEW x, Fine(x) PROVE Half(x, <<>>)
BY DEF Half, Fine, FineOut

\* The front of what is missing is appended: it is missing no more.
LEMMA BufferedKeeps ==
  ASSUME NEW x, NEW f \in Seq(1..MaxBytes), f # <<>>, NEW m \in Seq(Nat),
         Half(x, f \o m), Budget(x, 0), NEW y, y = Buffered(x, f)
  PROVE  /\ Half(y, m) /\ y.out # <<>> /\ Budget(y, 0) /\ SameLife(x, y)
         /\ Grown(x, y)
<1> DEFINE o == x.out \o f
           w == x.writing => x.writeEvent
<1>1. x \in Connections /\ FineIn(x) /\ Placed(x, f \o m) /\ Flags(x)
  BY DEF Half
<1>2. /\ x.out \in Seq(1..MaxBytes) /\ x.out \in Seq(Nat) /\ x.delivered \in Seq(Nat)
      /\ f \in Seq(Nat)
  BY <1>1, FieldsAre, BytesAre, BytesAreNat
<1>3. o \in Seq(1..MaxBytes) /\ o # <<>>
  BY <1>2, ConcatProperties, ConcatEqualIffEmpty
<1>4. y = [x EXCEPT !.out = o, !.writing = TRUE, !.filled = FALSE, !.writeEvent = w]
  BY <1>1 DEF Buffered, Connections
<1>5. w = TRUE
  BY <1>1, FieldsAre DEF Flags
<1>6. (x.delivered \o o) \o m = (x.delivered \o x.out) \o (f \o m)
  <2>1. m \in Seq(Nat)
    OBVIOUS
  <2>2. (x.delivered \o (x.out \o f)) \o m = (x.delivered \o x.out) \o (f \o m)
    <3> DEFINE d == x.delivered
               e == x.out
    <3>1. d \in Seq(Nat) /\ e \in Seq(Nat) /\ f \in Seq(Nat) /\ m \in Seq(Nat)
      BY <1>2
    <3> HIDE DEF d, e
    <3>2. d \o (e \o f) = (d \o e) \o f /\ d \o e \in Seq(Nat)
      <4>1. d \o e \in Seq(Nat)
        BY <3>1, JoinIs
      <4>2. (d \o e) \o f = d \o (e \o f)
        BY ONLY <3>1, JoinTwice, ZenonT(60)
      <4>3. QED
        BY <4>1, <4>2
    <3>3. ((d \o e) \o f) \o m = (d \o e) \o (f \o m)
      BY ONLY <3>1, <3>2, JoinTwice, ZenonT(60)
    <3>4. QED
      BY ONLY <3>2, <3>3 DEF d, e
  <2>3. QED
    BY ONLY <2>2 DEF o
<1> HIDE DEF o, w
<1>7. /\ y \in Connections /\ y.out = o /\ y.writing = TRUE /\ y.filled = FALSE
      /\ y.writeEvent = TRUE /\ y.overtaken = x.overtaken /\ y.accepted = x.accepted
      /\ SameIn(x, y) /\ SameBudget(x, y) /\ SameLife(x, y)
      /\ y.delivered = x.delivered
  <2>1. \A t \in Seq(1..MaxBytes) :
          LET e == [x EXCEPT !.out = t, !.writing = TRUE, !.filled = FALSE,
                             !.writeEvent = TRUE] IN
          /\ e \in Connections /\ e.out = t /\ e.writing = TRUE /\ e.filled = FALSE
          /\ e.writeEvent = TRUE /\ e.overtaken = x.overtaken
          /\ e.accepted = x.accepted /\ SameIn(x, e) /\ SameBudget(x, e)
          /\ SameLife(x, e) /\ e.delivered = x.delivered
    BY <1>1, ZenonT(40) DEF Connections, SameIn, SameBudget, SameLife
  <2>2. y = [x EXCEPT !.out = o, !.writing = TRUE, !.filled = FALSE, !.writeEvent = TRUE]
    BY <1>4, <1>5
  <2>3. o \in Seq(1..MaxBytes)
    BY <1>3
  <2>4. QED
    BY ONLY <2>1, <2>2, <2>3, Zenon
<1>8. Placed(y, m)
  BY <1>1, <1>6, <1>7 DEF Placed
<1>9. Flags(y)
  BY <1>3, <1>7 DEF Flags
<1>10. FineIn(y) /\ Budget(y, 0) /\ Grown(x, y)
  BY <1>1, <1>7, SameInFine, BudgetSame, SameIsGrown
<1>11. QED
  BY <1>3, <1>7, <1>8, <1>9, <1>10 DEF Half

\* The user asks for n more of the bound.
LEMMA RequestedAre ==
  ASSUME NEW x \in Connections, Budget(x, 0), NEW n \in Nat, NEW y \in Requested(x, n)
  PROVE  /\ y \in Connections /\ SameIn(x, y) /\ SameOut(x, y) /\ SameLife(x, y)
         /\ y.accepted = x.accepted /\ y.requested = x.requested + n
         /\ Budget(y, n) /\ Grown(x, y)
<1> DEFINE r == x.requested + n
<1>1. x.requested \in Nat /\ x.requested <= MaxBytes /\ MaxBytes \in Nat
  BY NumbersAre
<1>2. ~(r > MaxBytes) /\ y = [x EXCEPT !.requested = r]
  BY DEF Requested
<1>3. r \in 0..MaxBytes
  BY <1>1, <1>2
<1> HIDE DEF r
<1>4. y \in Connections
  BY <1>2, <1>3 DEF Connections
<1>5. SameIn(x, y) /\ SameOut(x, y) /\ SameLife(x, y)
  BY <1>2 DEF Connections, SameIn, SameOut, SameLife
<1>6. y.queue = x.queue /\ y.accepted = x.accepted /\ y.requested = r
  BY <1>2 DEF Connections
<1>7. Budget(y, n)
  BY <1>4, <1>6, BudgetRaised DEF r
<1>8. QED
  BY <1>4, <1>5, <1>6, <1>7, SameIsGrown DEF r

-----------------------------------------------------------------------------
(* What the user does in a callback. *)

\* A step that adds no bytes.
Quiet(x, y) ==
  y \in Connections /\ SameIn(x, y) /\ SameOut(x, y) /\ SameLife(x, y) /\ Budget(y, 0)

\* A step in which the user appends a byte to the buffer.
Adds(x, y) ==
  /\ y \in Connections /\ SameIn(x, y) /\ SameLife(x, y) /\ Budget(y, 0)
  /\ y.delivered = x.delivered /\ y.out = x.out \o Numbered(x.accepted, 1)
  /\ y.accepted = x.accepted + 1 /\ y.writing = x.writing
  /\ (x.writeEvent => y.writeEvent) /\ y.filled = ~x.writing

LEMMA QuietKeeps ==
  ASSUME NEW x, NEW m, Half(x, m), NEW y, Quiet(x, y)
  PROVE  Half(y, m) /\ Budget(y, 0) /\ Grown(x, y)
BY SameOutHalf, SameIsGrown DEF Quiet, Half

\* The byte is in its place, unless a message is overtaken.
LEMMA AddsKeeps ==
  ASSUME NEW x, NEW m \in Seq(Nat), Half(x, m), NEW y, Adds(x, y),
         y.overtaken \/ (m = <<>> /\ y.overtaken = x.overtaken)
  PROVE  Half(y, m) /\ y.out # <<>> /\ Budget(y, 0) /\ Grown(x, y)
<1> DEFINE s == x.delivered \o x.out
           b == Numbered(x.accepted, 1)
<1>1. x \in Connections /\ y \in Connections /\ SameIn(x, y) /\ SameLife(x, y)
      /\ FineIn(x) /\ Placed(x, m) /\ Flags(x)
  BY DEF Half, Adds
<1>2. x.accepted \in Nat /\ 1 \in Nat
  BY <1>1, NumbersAre
<1>3. s \in Seq(Nat) /\ x.delivered \in Seq(Nat) /\ x.out \in Seq(Nat)
  BY <1>1, BytesAre
<1>4. b \in Seq(Nat) /\ Len(b) = 1
  BY <1>2, MessageFollows
<1>5. x.delivered \o (x.out \o b) = s \o b
  BY ONLY <1>3, <1>4, JoinTwice, ZenonT(60)
<1>6. y.delivered \o y.out = s \o b
  BY <1>5 DEF Adds
<1>7. EachOnce((s \o b) \o m, x.accepted + 1)
  <2>1. EachOnce(s \o m, x.accepted)
    BY <1>1 DEF Placed
  <2> HIDE DEF s
  <2>2. QED
    BY <1>2, <1>3, <2>1, OnceMore
<1>8. y.out # <<>>
  <2> HIDE DEF b
  <2>1. b # <<>>
    <3>1. Len(<<>>) = 0 /\ 0 # 1
      OBVIOUS
    <3>2. Len(b) = 1
      BY <1>4
    <3>3. QED
      BY ONLY <3>1, <3>2, Zenon
  <2>2. x.out \o b # <<>>
    BY <1>3, <1>4, <2>1, ConcatEqualIffEmpty
  <2>3. QED
    BY <2>2 DEF Adds, b
<1>9. ~y.overtaken => (s \o b) \o m = Numbers(x.accepted + 1)
  <2>1. CASE m = <<>> /\ y.overtaken = x.overtaken
    <3>1. Placed(x, <<>>)
      BY <1>1, <2>1
    <3>2. s \o b \in Seq(Nat)
      BY <1>3, <1>4, JoinIs
    <3>3. ~x.overtaken => s \o b = Numbers(x.accepted + 1)
      BY <1>1, <1>2, <3>1, PlacedMore
    <3>4. (s \o b) \o <<>> = s \o b
      BY <3>2, ConcatEmptySeq
    <3>5. QED
      BY <2>1, <3>3, <3>4
  <2>2. QED
    BY <2>1
<1> HIDE DEF s, b
<1>10. Placed(y, m)
  BY <1>6, <1>7, <1>9 DEF Placed, Adds
<1>11. Flags(y)
  <2>1. x.writing \in BOOLEAN
    BY <1>1, FieldsAre
  <2>2. QED
    BY <1>1, <1>8, <2>1 DEF Flags, Adds
<1>12. QED
  BY <1>1, <1>8, <1>10, <1>11, SameInFine, SameIsGrown DEF Half, Adds

\* The user appends a byte.
LEMMA FilledAdds ==
  ASSUME NEW x \in Connections, Budget(x, 1), NEW y, y = Filled(x)
  PROVE  Adds(x, y) /\ y.overtaken = x.overtaken
<1> DEFINE a == x.accepted + 1
           o == Append(x.out, a)
           g == ~x.writing
<1>1. x.accepted \in Nat /\ x.requested \in Nat /\ x.requested <= MaxBytes
      /\ MaxBytes \in Nat /\ x.accepted + 1 <= x.requested
  BY NumbersAre, BudgetLess
<1>2. a \in 1..MaxBytes /\ a \in 0..MaxBytes
  BY <1>1
<1>3. x.out \in Seq(1..MaxBytes) /\ x.writing \in BOOLEAN
  BY FieldsAre
<1>4. o \in Seq(1..MaxBytes) /\ o = x.out \o Numbered(x.accepted, 1)
  <2>1. Numbered(x.accepted, 1) = <<a>>
    BY <1>1 DEF Numbered
  <2>2. x.out \o <<a>> = Append(x.out, a)
    BY <1>2, <1>3
  <2>3. QED
    BY <1>2, <1>3, <2>1, <2>2, AppendProperties
<1>5. y = [x EXCEPT !.out = o, !.accepted = a, !.filled = g]
  BY DEF Filled
<1>6. g \in BOOLEAN
  BY <1>3
<1> HIDE DEF a, o, g
<1>7. /\ y \in Connections /\ SameIn(x, y) /\ SameLife(x, y)
      /\ y.delivered = x.delivered /\ y.out = o /\ y.accepted = a
      /\ y.writing = x.writing /\ y.writeEvent = x.writeEvent /\ y.filled = g
      /\ y.overtaken = x.overtaken /\ y.requested = x.requested /\ y.queue = x.queue
  <2>1. y \in Connections
    <3> DEFINE e == [x EXCEPT !.out = o, !.accepted = a]
    <3>1. e \in Connections
      BY <1>2, <1>4 DEF Connections
    <3>2. y = [e EXCEPT !.filled = g]
      BY <1>5 DEF Connections
    <3> HIDE DEF e
    <3>3. CASE g = TRUE
      BY <3>1, <3>2, <3>3, ZenonT(60) DEF Connections
    <3>4. CASE g = FALSE
      BY <3>1, <3>2, <3>4, ZenonT(60) DEF Connections
    <3>5. QED
      BY <1>6, <3>3, <3>4
  <2>2. SameIn(x, y) /\ SameLife(x, y)
    BY <1>5 DEF Connections, SameIn, SameLife
  <2>3. /\ y.delivered = x.delivered /\ y.out = o /\ y.accepted = a
        /\ y.writing = x.writing /\ y.writeEvent = x.writeEvent /\ y.filled = g
        /\ y.overtaken = x.overtaken /\ y.requested = x.requested /\ y.queue = x.queue
    BY <1>5 DEF Connections
  <2>4. QED
    BY <2>1, <2>2, <2>3
<1>8. Budget(y, 0)
  BY <1>7, BudgetAccepted DEF a
<1>9. QED
  BY <1>4, <1>7, <1>8 DEF Adds, a, g

\* Two flags of a connection.
LEMMA OvertakenIs ==
  ASSUME NEW x \in Connections, NEW y, y = Overtaken(x)
  PROVE  /\ y \in Connections /\ y.overtaken = TRUE /\ SameIn(x, y) /\ SameLife(x, y)
         /\ SameBudget(x, y) /\ y.delivered = x.delivered /\ y.out = x.out
         /\ y.writing = x.writing /\ y.writeEvent = x.writeEvent
         /\ y.filled = x.filled /\ y.notified = x.notified
BY DEF Overtaken, SameIn, SameLife, SameBudget, Connections

\* A change that appends nothing.
LEMMA ChangeIsLight ==
  ASSUME NEW x \in Connections, NEW f \in ChangingCalls, f[1] # "fill"
  PROVE  Light(x, Change(x, f))
<1>1. /\ f[1] \in Modes \cup {"startWrite", "shutdown", "forceClose"}
      /\ \A n \in Modes : n \notin {"fill", "startWrite", "shutdown", "forceClose"}
  BY DEF ChangingCalls, Modes
<1>2. CASE f[1] \in Modes
  <2>1. Change(x, f) = [x EXCEPT !.mode = f[1]]
    BY <1>1, <1>2 DEF Change
  <2>2. QED
    BY <1>2, <2>1, ModeIsLight
<1>3. CASE f[1] = "startWrite"
  <2>1. Change(x, f) = [x EXCEPT !.writeEvent = TRUE]
    BY <1>1, <1>3 DEF Change
  <2>2. QED
    BY <2>1, FlagsAreLight
<1>4. CASE f[1] = "shutdown"
  <2>1. Change(x, f) = [x EXCEPT !.shut = TRUE]
    BY <1>1, <1>4 DEF Change
  <2>2. QED
    BY <2>1, FlagsAreLight
<1>5. CASE f[1] = "forceClose"
  <2>1. Change(x, f) = ForceClosed(x)
    BY <1>1, <1>5 DEF Change
  <2>2. QED
    BY <2>1, ForceClosedIsLight
<1>6. QED
  BY <1>1, <1>2, <1>3, <1>4, <1>5

\* The enable() at the end of a method.
LEMMA ThenIsLight ==
  ASSUME NEW x \in Connections, NEW f PROVE Light(x, Then(f, x))
BY EnabledIsLight, SelfIsLight DEF Then

\* What a callback may do but write a message.
LEMMA ChangesAre ==
  ASSUME NEW x \in Connections, Budget(x, 0), NEW y \in Changes(x)
  PROVE  Quiet(x, y) \/ (Adds(x, y) /\ y.overtaken = x.overtaken)
<1>1. CASE y = x
  <2>1. SameIn(x, x) /\ SameOut(x, x) /\ SameLife(x, x)
    BY DEF SameIn, SameOut, SameLife
  <2>2. QED
    BY <1>1, <2>1 DEF Quiet
<1>2. CASE y # x
  <2>1. PICK w \in Requested(x, 1), f \in ChangingCalls : y = Then(f, Change(w, f))
    BY <1>2 DEF Changes
  <2>2. /\ w \in Connections /\ SameIn(x, w) /\ SameOut(x, w) /\ SameLife(x, w)
        /\ w.accepted = x.accepted /\ Budget(w, 1)
    BY RequestedAre
  <2>3. CASE f[1] = "fill"
    <3>1. y = Filled(w)
      <4>1. ~Enabling(f) /\ f[1] \notin Modes
        BY <2>3 DEF Enabling, Modes
      <4>2. QED
        BY <2>1, <2>3, <4>1 DEF Then, Change
    <3>2. Adds(w, y) /\ y.overtaken = w.overtaken
      BY <2>2, <3>1, FilledAdds
    <3>3. Adds(x, y)
      <4>1. y \in Connections /\ Budget(y, 0)
        BY <3>2 DEF Adds
      <4>2. SameIn(x, y) /\ SameLife(x, y)
        BY <2>2, <3>2 DEF Adds, SameIn, SameLife
      <4>3. QED
        BY <2>2, <3>2, <4>1, <4>2 DEF Adds, SameOut
    <3>4. QED
      BY <2>2, <3>2, <3>3 DEF SameOut
  <2>4. CASE f[1] # "fill"
    <3>1. Light(w, Change(w, f))
      BY <2>2, <2>4, ChangeIsLight
    <3>2. Change(w, f) \in Connections
      BY <3>1 DEF Light
    <3>3. Light(w, y)
      BY <2>1, <3>1, <3>2, ThenIsLight, LightTwice
    <3>4. y \in Connections /\ SameIn(x, y) /\ SameOut(x, y) /\ SameLife(x, y)
      BY <2>2, <3>3 DEF Light, SameIn, SameOut, SameLife
    <3>5. Budget(y, 0)
      BY <2>2, <3>3, <3>4, BudgetSame, BudgetLess DEF Light
    <3>6. QED
      BY <3>4, <3>5 DEF Quiet
  <2>5. QED
    BY <2>3, <2>4
<1>3. QED
  BY <1>1, <1>2

\* Such a callback between the acceptance of a message and its end in the buffer.
LEMMA ChangesKeep ==
  ASSUME NEW x, NEW m \in Seq(Nat), Half(x, m), Budget(x, 0), x.overtaken,
         NEW y \in Changes(x)
  PROVE  Half(y, m) /\ Budget(y, 0) /\ Grown(x, y)
<1>1. x \in Connections
  BY DEF Half
<1>2. Quiet(x, y) \/ (Adds(x, y) /\ y.overtaken = x.overtaken)
  BY <1>1, ChangesAre
<1>3. QED
  BY <1>2, QuietKeeps, AddsKeeps

\* The callback for the high-water mark writes a byte, which comes before m.
LEMMA BetweenKeeps ==
  ASSUME NEW x, NEW m \in Seq(Nat), Half(x, m), Budget(x, 1), NEW y \in Between(x)
  PROVE  Half(y, m) /\ Budget(y, 0) /\ Grown(x, y)
<1> DEFINE a == x.accepted + 1
           b == <<a>>
           v == Overtaken(x)
           u == [v EXCEPT !.accepted = @ + 1]
<1>1. x \in Connections /\ FineIn(x) /\ Placed(x, m) /\ Flags(x)
  BY DEF Half
<1>2. x.accepted \in Nat /\ x.requested \in Nat /\ x.requested <= MaxBytes
      /\ MaxBytes \in Nat /\ a <= x.requested
  BY <1>1, NumbersAre, BudgetLess
<1>3. a \in 1..MaxBytes /\ a \in 0..MaxBytes
  BY <1>2
<1>4. b \in Seq(1..MaxBytes) /\ b # <<>> /\ b \in Seq(Nat) /\ b = Numbered(x.accepted, 1)
  BY <1>2, <1>3 DEF Numbered
<1>5. /\ v \in Connections /\ v.overtaken = TRUE /\ SameIn(x, v) /\ SameLife(x, v)
      /\ SameBudget(x, v) /\ v.delivered = x.delivered /\ v.out = x.out
      /\ v.writing = x.writing /\ v.writeEvent = x.writeEvent
      /\ v.filled = x.filled
  BY <1>1, OvertakenIs
<1>6. v.accepted + 1 = a
  BY <1>5 DEF SameBudget
<1>7. PICK z \in IF Crosses(x, 1) THEN Changes(u) ELSE {u} : y = Enabled(Buffered(z, b))
  BY DEF Between
<1> HIDE DEF a, b, v
<1>8. /\ u \in Connections /\ SameIn(v, u) /\ SameLife(v, u) /\ u.accepted = a
      /\ u.requested = v.requested /\ u.delivered = v.delivered /\ u.out = v.out
      /\ u.writing = v.writing /\ u.writeEvent = v.writeEvent
      /\ u.filled = v.filled /\ u.overtaken = v.overtaken
  <2>1. \A t \in 0..MaxBytes :
          LET e == [v EXCEPT !.accepted = t] IN
          /\ e \in Connections /\ SameIn(v, e) /\ SameLife(v, e) /\ e.accepted = t
          /\ e.requested = v.requested /\ e.delivered = v.delivered /\ e.out = v.out
          /\ e.writing = v.writing /\ e.writeEvent = v.writeEvent
          /\ e.filled = v.filled /\ e.overtaken = v.overtaken
    BY <1>5 DEF Connections, SameIn, SameLife
  <2>2. u = [v EXCEPT !.accepted = a]
    BY <1>6
  <2> HIDE DEF u
  <2>3. QED
    BY <1>3, <2>1, <2>2
<1> HIDE DEF u
<1>9. FineIn(u) /\ SameLife(x, u) /\ u.queue = x.queue
  BY <1>1, <1>5, <1>8, SameInFine DEF SameLife
<1>10. Budget(u, 0)
  <2>1. u.accepted = x.accepted + 1 /\ u.requested = x.requested
    BY <1>5, <1>8 DEF a, SameBudget
  <2>2. QED
    BY <1>1, <1>8, <1>9, <2>1, BudgetAccepted
<1>11. Half(u, b \o m)
  <2> DEFINE s == x.delivered \o x.out
  <2>1. s \in Seq(Nat) /\ EachOnce(s \o m, x.accepted)
    BY <1>1, BytesAre DEF Placed
  <2>2. u.delivered \o u.out = s
    BY <1>5, <1>8
  <2> HIDE DEF s
  <2>3. EachOnce((s \o b) \o m, a)
    BY <1>2, <1>4, <2>1, OnceMore DEF a
  <2>4. (s \o b) \o m = s \o (b \o m)
    BY ONLY <1>4, <2>1, m \in Seq(Nat), JoinTwice, ZenonT(60)
  <2>5. Placed(u, b \o m)
    BY <1>5, <1>8, <2>2, <2>3, <2>4 DEF Placed
  <2>6. Flags(u)
    BY <1>1, <1>5, <1>8 DEF Flags
  <2>7. QED
    BY <1>8, <1>9, <2>5, <2>6 DEF Half
<1>12. b \o m \in Seq(Nat)
  BY <1>4, JoinIs
<1>13. Half(z, b \o m) /\ Budget(z, 0) /\ Grown(u, z)
  <2>1. CASE z = u
    <3>1. Grown(u, u)
      BY <1>8, SelfIsLight, SameIsGrown DEF Light
    <3>2. QED
      BY <1>10, <1>11, <2>1, <3>1
  <2>2. CASE z \in Changes(u)
    <3>1. u.overtaken
      BY <1>5, <1>8
    <3>2. QED
      BY <1>10, <1>11, <1>12, <2>2, <3>1, ChangesKeep
  <2>3. QED
    BY <1>7, <2>1, <2>2
<1> DEFINE w == Buffered(z, b)
<1>14. Half(w, m) /\ Budget(w, 0) /\ Grown(z, w)
  BY <1>4, <1>13, BufferedKeeps
<1> HIDE DEF w
<1>15. Light(w, y)
  BY <1>7, <1>14, EnabledIsLight DEF Half, w
<1>16. Half(y, m) /\ Budget(y, 0) /\ Grown(w, y)
  BY <1>14, <1>15, SameOutHalf, SameIsGrown, BudgetSame DEF Light, Half
<1>17. Grown(x, y)
  <2>1. Grown(x, u)
    BY <1>1, <1>9, SameIsGrown
  <2>2. x \in Connections /\ u \in Connections /\ z \in Connections /\ w \in Connections
        /\ y \in Connections
    BY <1>1, <1>8, <1>13, <1>14, <1>16 DEF Half
  <2>3. Grown(x, z)
    BY <1>13, <2>1, <2>2, GrownTwice
  <2>4. Grown(x, w)
    BY <1>14, <2>2, <2>3, GrownTwice
  <2>5. QED
    BY <1>16, <2>2, <2>4, GrownTwice
<1>18. QED
  BY <1>16, <1>17

\* What is missing stays so while the user is told of the high-water mark, in front
\* of it or not.
LEMMA HighWaterKeeps ==
  ASSUME NEW x, NEW m \in Seq(Nat), Half(x, m), Budget(x, 0), NEW l,
         NEW y \in HighWater(x, l)
  PROVE  Half(y, m) /\ Budget(y, 0) /\ Grown(x, y)
<1>1. x \in Connections
  BY DEF Half
<1>2. \/ y = x
      \/ \E z \in Changes(x) : y = IF z.accepted = x.accepted THEN z ELSE Overtaken(z)
      \/ \E w \in Requested(x, 1) : y \in Between(w)
  BY DEF HighWater
<1>3. CASE y = x
  BY <1>1, <1>3, SelfIsLight, SameIsGrown DEF Light
<1>4. ASSUME NEW z \in Changes(x),
             y = IF z.accepted = x.accepted THEN z ELSE Overtaken(z)
      PROVE  Half(y, m) /\ Budget(y, 0) /\ Grown(x, y)
  <2>1. CASE Quiet(x, z)
    <3>1. y = z
      BY <1>4, <2>1 DEF Quiet, SameOut
    <3>2. QED
      BY <2>1, <3>1, QuietKeeps
  <2>2. CASE Adds(x, z)
    <3>1. x.accepted \in Nat /\ z.accepted = x.accepted + 1
      BY <1>1, <2>2, NumbersAre DEF Adds
    <3>2. y = Overtaken(z)
      BY <1>4, <3>1
    <3>3. z \in Connections
      BY <2>2 DEF Adds
    <3>4. /\ y \in Connections /\ y.overtaken = TRUE /\ SameIn(z, y) /\ SameLife(z, y)
          /\ SameBudget(z, y) /\ y.delivered = z.delivered /\ y.out = z.out
          /\ y.writing = z.writing /\ y.writeEvent = z.writeEvent
          /\ y.filled = z.filled
      BY <3>2, <3>3, OvertakenIs
    <3>5. Budget(y, 0) /\ SameIn(x, y) /\ SameLife(x, y) /\ y.accepted = z.accepted
      BY <2>2, <3>4, BudgetSame DEF Adds, SameIn, SameLife, SameBudget
    <3>6. Adds(x, y)
      BY <2>2, <3>4, <3>5 DEF Adds
    <3>7. QED
      BY <3>4, <3>6, AddsKeeps
  <2>3. QED
    BY <1>1, <2>1, <2>2, ChangesAre
<1>5. ASSUME NEW w \in Requested(x, 1), y \in Between(w)
      PROVE  Half(y, m) /\ Budget(y, 0) /\ Grown(x, y)
  <2>1. /\ w \in Connections /\ SameIn(x, w) /\ SameOut(x, w) /\ Budget(w, 1)
        /\ Grown(x, w)
    BY <1>1, RequestedAre
  <2>2. Half(w, m)
    BY <2>1, SameOutHalf
  <2>3. Half(y, m) /\ Budget(y, 0) /\ Grown(w, y)
    BY <1>5, <2>1, <2>2, BetweenKeeps
  <2>4. QED
    BY <1>1, <2>1, <2>3, GrownTwice DEF Half
<1>6. QED
  BY <1>2, <1>3, <1>4, <1>5

-----------------------------------------------------------------------------
(* The methods. *)

\* The user is told of what has been accepted.
LEMMA NotifyKeeps ==
  ASSUME NEW x, Half(x, <<>>), Budget(x, 0), NEW y, y = NotifyWritten(x)
  PROVE  Good(y) /\ Grown(x, y)
<1> DEFINE f == <<"writeComplete", 0>>
           q == Queued(x, f)
<1>0. x \in Connections
  BY DEF Half
<1>1. y = [q EXCEPT !.notified = x.accepted]
  BY DEF NotifyWritten
<1>2. f \in Functors /\ f[2] = 0
  BY OwnFunctors
<1>3. /\ q \in Connections /\ q.queue = Append(x.queue, f)
      /\ SameIn(x, q) /\ SameOut(x, q) /\ q.closes = x.closes
      /\ q.callbacks = x.callbacks /\ q.accepted = x.accepted
      /\ q.requested = x.requested
  BY <1>0, <1>2, QueuedIs
<1> HIDE DEF q, f
<1>4. x.accepted \in Nat /\ x.requested \in Nat
  BY <1>0, NumbersAre
<1>5. /\ y \in Connections /\ y.queue = q.queue /\ SameIn(q, y)
      /\ y.delivered = q.delivered /\ y.out = q.out /\ y.accepted = q.accepted
      /\ y.writing = q.writing /\ y.writeEvent = q.writeEvent /\ y.filled = q.filled
      /\ y.overtaken = q.overtaken /\ y.notified = x.accepted /\ y.closes = q.closes
      /\ y.callbacks = q.callbacks /\ y.requested = q.requested
  <2>1. \A t \in Nat :
          LET e == [q EXCEPT !.notified = t] IN
          /\ e \in Connections /\ e.queue = q.queue /\ SameIn(q, e)
          /\ e.delivered = q.delivered /\ e.out = q.out /\ e.accepted = q.accepted
          /\ e.writing = q.writing /\ e.writeEvent = q.writeEvent
          /\ e.filled = q.filled /\ e.overtaken = q.overtaken /\ e.notified = t
          /\ e.closes = q.closes /\ e.callbacks = q.callbacks
          /\ e.requested = q.requested
    BY <1>3 DEF Connections, SameIn
  <2>2. QED
    BY <1>1, <1>4, <2>1
<1>6. Half(q, <<>>)
  BY <1>3, SameOutHalf
<1>7. Placed(y, <<>>) /\ Flags(y) /\ y.notified = y.accepted
  BY <1>3, <1>5, <1>6 DEF Half, Placed, Flags
<1>8. FineIn(y)
  BY <1>5, <1>6, SameInFine DEF Half
<1>9. Budget(y, 0)
  <2>1. x.requested + f[2] <= y.requested
    BY <1>2, <1>3, <1>4, <1>5
  <2>2. QED
    BY <1>0, <1>2, <1>3, <1>5, <2>1, BudgetQueued
<1>10. Grown(x, y)
  BY <1>0, <1>2, <1>3, <1>5, QueueGrows
<1>11. QED
  BY <1>5, <1>7, <1>8, <1>9, <1>10 DEF Good, Fine, FineOut

\* writeInLoop() keeps every byte, in order unless the user overtakes a message, sets
\* writing_ and the event where bytes are left, and tells the user where none are.
LEMMA WriteKeeps ==
  ASSUME NEW x, Fine(x), NEW len \in Nat, Budget(x, len), NEW y \in writeInLoop(x, len)
  PROVE  Good(y) /\ Grown(x, y)
<1> DEFINE direct == ~x.writing /\ x.out = <<>>
           m == Numbered(x.accepted, len)
           n == IF direct THEN Min({len, x.room}) ELSE 0
           d == Accepted(x, len, n)
           rest == SubSeq(m, n + 1, Len(m))
<1>1. x \in Connections /\ Budget(x, 0) /\ x.accepted + len <= x.requested
      /\ Placed(x, <<>>) /\ Flags(x)
      /\ (x.out = <<>> => x.notified = x.accepted) /\ x.room \in Nat
  BY BudgetLess, NumbersAre DEF Fine, FineOut
<1>2. n \in 0..len /\ n <= x.room /\ (x.out = <<>> \/ n = 0) /\ n \in Nat
  BY <1>1, MinIs
<1>3. \/ direct /\ Dead(x) /\ y = [x EXCEPT !.broken = @ \cup {"check"}]
      \/ ~(direct /\ Dead(x)) /\ n = len
           /\ y = IF direct THEN NotifyWritten(d) ELSE d
      \/ ~(direct /\ Dead(x)) /\ n # len
           /\ \E z \in HighWater(d, len - n) : y = Buffered(z, Rest(m, n))
  BY DEF writeInLoop, Accepted, Message, Numbered
<1> HIDE DEF n
<1>4. /\ m \in Seq(1..MaxBytes) /\ Len(m) = len
      /\ d \in Connections /\ SameIn(x, d) /\ SameLife(x, d)
      /\ d.accepted = x.accepted + len /\ d.requested = x.requested
      /\ d.delivered = x.delivered \o SubSeq(m, 1, n)
      /\ d.out = x.out /\ d.writing = x.writing /\ d.writeEvent = x.writeEvent
      /\ d.filled = x.filled /\ d.overtaken = x.overtaken /\ d.notified = x.notified
  BY <1>1, <1>2, AcceptedIs
<1>5. Budget(d, 0) /\ FineIn(d) /\ Grown(x, d)
  <2>1. d.queue = x.queue
    BY <1>4 DEF SameLife
  <2>2. Budget(d, 0)
    BY <1>1, <1>4, <2>1, BudgetAccepted
  <2>3. QED
    BY <1>1, <1>4, <2>2, SameInFine, SameIsGrown DEF Fine
<1>6. Half(d, rest)
  <2>1. Placed(d, rest)
    <3> HIDE DEF d
    <3>1. m = Numbered(x.accepted, len)
      OBVIOUS
    <3> HIDE DEF m
    <3>2. QED
      BY <1>1, <1>2, <1>4, <3>1, AcceptedIsPlaced
  <2>2. Flags(d)
    BY <1>1, <1>4 DEF Flags
  <2>3. QED
    BY <1>4, <1>5, <2>1, <2>2 DEF Half
<1> HIDE DEF d, m
<1>7. CASE direct /\ Dead(x) /\ y = [x EXCEPT !.broken = @ \cup {"check"}]
  BY <1>1, <1>7, FlagsAreLight, LightKeeps DEF Good
<1>8. CASE n = len /\ y = IF direct THEN NotifyWritten(d) ELSE d
  <2>1. rest = <<>>
    BY <1>2, <1>4, <1>8
  <2>2. Half(d, <<>>)
    BY <1>6, <2>1
  <2>3. CASE direct
    <3>1. y = NotifyWritten(d)
      BY <1>8, <2>3
    <3>2. Good(y) /\ Grown(d, y)
      BY <1>5, <2>2, <3>1, NotifyKeeps
    <3>3. QED
      BY <1>1, <1>4, <1>5, <3>2, GrownTwice DEF Good, Fine
  <2>4. CASE ~direct
    <3>1. y = d /\ n = 0 /\ len = 0
      BY <1>8, <2>4 DEF n
    <3>2. d.accepted = x.accepted
      BY <1>1, <1>4, <3>1, NumbersAre
    <3>3. Fine(d)
      BY <1>1, <1>4, <2>2, <3>2 DEF Half, Fine, FineOut
    <3>4. QED
      BY <1>5, <3>1, <3>3 DEF Good
  <2>5. QED
    BY <2>3, <2>4
<1>9. CASE n # len /\ \E z \in HighWater(d, len - n) : y = Buffered(z, Rest(m, n))
  <2>1. PICK z \in HighWater(d, len - n) : y = Buffered(z, Rest(m, n))
    BY <1>9
  <2>2. rest \in Seq(1..MaxBytes) /\ rest # <<>> /\ Rest(m, n) = rest
    <3>1. n \in 0..Len(m) /\ n # Len(m)
      BY <1>2, <1>4, <1>9
    <3>2. QED
      BY <1>4, <3>1, PartsOfAny DEF Rest
  <2> HIDE DEF rest
  <2>3. rest \in Seq(Nat) /\ <<>> \in Seq(Nat)
    BY <2>2, BytesAreNat
  <2>4. Half(z, rest) /\ Budget(z, 0) /\ Grown(d, z)
    BY <1>5, <1>6, <2>3, HighWaterKeeps
  <2>5. rest \o <<>> = rest
    BY <2>3, ConcatEmptySeq
  <2>6. /\ Half(y, <<>>) /\ y.out # <<>> /\ Budget(y, 0) /\ Grown(z, y)
    BY <2>1, <2>2, <2>3, <2>4, <2>5, BufferedKeeps
  <2>7. Grown(x, y)
    <3>1. z \in Connections /\ y \in Connections
      BY <2>4, <2>6 DEF Half
    <3>2. Grown(d, y)
      BY <1>4, <2>4, <2>6, <3>1, GrownTwice
    <3>3. QED
      BY <1>1, <1>4, <1>5, <3>1, <3>2, GrownTwice
  <2>8. QED
    BY <2>6, <2>7, HalfIsFine DEF Good
<1>10. QED
  BY <1>3, <1>7, <1>8, <1>9

\* The same, of steps that keep the invariant.
LEMMA GoodTwice ==
  ASSUME NEW x, Good(x), NEW y, Good(y), Grown(x, y), NEW z, Good(z), Grown(y, z)
  PROVE  Grown(x, z)
BY GrownTwice DEF Good, Fine

\* A light step of a connection that is good leaves it good.
LEMMA LightIsGood ==
  ASSUME NEW x, Good(x), NEW y, Light(x, y) PROVE Good(y) /\ Grown(x, y)
BY LightKeeps DEF Good

\* enable() leaves it good.
LEMMA EnabledIsGood ==
  ASSUME NEW x, Good(x), NEW y, Good(y), Grown(x, y)
  PROVE  Good(Enabled(y)) /\ Grown(x, Enabled(y))
<1>1. Light(y, Enabled(y))
  BY EnabledIsLight DEF Good, Fine
<1>2. Good(Enabled(y)) /\ Grown(y, Enabled(y))
  BY <1>1, LightIsGood
<1>3. QED
  BY <1>2, GoodTwice

\* The user asks for n more of the bound.
LEMMA RequestedIs ==
  ASSUME NEW x, Good(x), NEW n \in Nat, NEW y \in Requested(x, n)
  PROVE  /\ Fine(y) /\ Budget(y, n) /\ Grown(x, y) /\ y.queue = x.queue
         /\ y.accepted = x.accepted /\ y.requested = x.requested + n
<1>1. x \in Connections /\ FineIn(x) /\ FineOut(x) /\ Budget(x, 0)
  BY DEF Good, Fine
<1>2. /\ y \in Connections /\ SameIn(x, y) /\ SameOut(x, y) /\ SameLife(x, y)
      /\ y.accepted = x.accepted /\ y.requested = x.requested + n
      /\ Budget(y, n) /\ Grown(x, y)
  BY <1>1, RequestedAre
<1>3. Fine(y)
  BY <1>1, <1>2, SameInFine, SameOutFine DEF Fine
<1>4. QED
  BY <1>2, <1>3 DEF SameLife

\* A write of the user from a callback or on the loop's thread.
LEMMA UserWriteKeeps ==
  ASSUME NEW x, Good(x), NEW n \in Nat, NEW y \in Requested(x, n),
         NEW z \in writeInLoop(y, n)
  PROVE  Good(z) /\ Grown(x, z)
<1>1. Fine(y) /\ Budget(y, n) /\ Grown(x, y)
  BY RequestedIs
<1>2. Good(z) /\ Grown(y, z)
  BY <1>1, WriteKeeps
<1>3. QED
  BY <1>1, <1>2, GrownTwice DEF Good, Fine

\* The user appends a byte to the buffer.
LEMMA FillKeeps ==
  ASSUME NEW x, Fine(x), Budget(x, 1), NEW y, y = Filled(x)
  PROVE  Good(y) /\ Grown(x, y)
<1>1. x \in Connections /\ Half(x, <<>>) /\ <<>> \in Seq(Nat)
  BY FineIsHalf DEF Fine
<1>2. Adds(x, y) /\ y.overtaken = x.overtaken
  BY <1>1, FilledAdds
<1>3. Half(y, <<>>) /\ y.out # <<>> /\ Budget(y, 0) /\ Grown(x, y)
  BY <1>1, <1>2, AddsKeeps
<1>4. QED
  BY <1>3, HalfIsFine DEF Good

\* Whatever the user does in a callback keeps what is good.
LEMMA RepliesKeep ==
  ASSUME NEW x, Good(x), NEW y \in Replies(x)
  PROVE  Good(y) /\ Grown(x, y)
<1>1. x \in Connections /\ Fine(x) /\ Half(x, <<>>) /\ Budget(x, 0) /\ <<>> \in Seq(Nat)
  BY FineIsHalf DEF Good, Fine
<1>2. CASE y \in Changes(x)
  <2>1. CASE Quiet(x, y)
    <3>1. Fine(y)
      BY <1>1, <2>1, SameInFine, SameOutFine DEF Quiet, Fine
    <3>2. QED
      BY <1>1, <2>1, <3>1, QuietKeeps DEF Good
  <2>2. CASE Adds(x, y) /\ y.overtaken = x.overtaken
    <3>1. Half(y, <<>>) /\ y.out # <<>> /\ Budget(y, 0) /\ Grown(x, y)
      BY <1>1, <2>2, AddsKeeps
    <3>2. QED
      BY <3>1, HalfIsFine DEF Good
  <2>3. QED
    BY <1>1, <1>2, <2>1, <2>2, ChangesAre
<1>3. CASE y \notin Changes(x)
  <2>1. PICK w \in Requested(x, 1) : y \in {Enabled(z) : z \in writeInLoop(w, 1)}
    BY <1>3 DEF Replies
  <2>2. PICK z \in writeInLoop(w, 1) : y = Enabled(z)
    BY <2>1
  <2>3. Good(z) /\ Grown(x, z)
    BY UserWriteKeeps
  <2>4. QED
    BY <2>2, <2>3, EnabledIsGood
<1>4. QED
  BY <1>2, <1>3

\* Every functor keeps what is good, and that which disables takes the callbacks.
LEMMA FunctorKeeps ==
  ASSUME NEW x, Fine(x), NEW f \in Functors, Budget(x, f[2]), NEW y \in RunFunctor(x, f)
  PROVE  Good(y) /\ Grown(x, y) /\ (f[1] = "disable" => ~y.callbacks)
<1>1. x \in Connections /\ f[2] \in Nat
  BY FunctorsAre DEF Fine
<1>2. Good(x)
  BY <1>1, BudgetLess DEF Good
<1>3. CASE f \in ChangingCalls
  <2>1. f[1] # "fill" /\ f[1] # "disable" /\ y = Change(x, f)
    BY <1>3 DEF RunFunctor, Functors, ChangingCalls, Modes
  <2>2. QED
    BY <1>1, <1>2, <1>3, <2>1, ChangeIsLight, LightIsGood
<1>4. /\ f \notin ChangingCalls =>
           f[1] \in {"write", "enable", "disable", "writeComplete"}
      /\ f[1] \in {"write", "enable", "disable", "writeComplete"} =>
           f \notin ChangingCalls
  BY DEF Functors, ChangingCalls, Modes
<1>5. CASE f[1] = "write"
  <2>1. y \in writeInLoop(x, f[2])
    BY <1>4, <1>5 DEF RunFunctor
  <2>2. QED
    BY <1>1, <1>5, <2>1, WriteKeeps
<1>6. CASE f[1] = "enable"
  <2>1. y = Enabled(x)
    BY <1>4, <1>6 DEF RunFunctor
  <2>2. QED
    BY <1>1, <1>2, <1>6, <2>1, EnabledIsLight, LightIsGood
<1>7. CASE f[1] = "disable"
  <2>1. y = Disabled(x)
    BY <1>4, <1>7 DEF RunFunctor
  <2>2. QED
    BY <1>1, <1>2, <1>7, <2>1, DisabledIsLight, LightIsGood
<1>8. CASE f[1] = "writeComplete"
  <2>1. y \in Replies(x)
    BY <1>4, <1>8 DEF RunFunctor
  <2>2. QED
    BY <1>2, <1>8, <2>1, RepliesKeep
<1>9. QED
  BY <1>3, <1>4, <1>5, <1>6, <1>7, <1>8

\* So does a call on the loop's thread.
LEMMA CallKeeps ==
  ASSUME NEW x, Fine(x), NEW f \in Functors, Budget(x, f[2]), NEW y \in Called(x, f)
  PROVE  Good(y) /\ Grown(x, y)
<1>1. PICK z \in RunFunctor(x, f) : y = Then(f, z)
  BY DEF Called
<1>2. Good(z) /\ Grown(x, z)
  BY FunctorKeeps
<1>3. Good(x)
  BY FunctorsAre, BudgetLess DEF Good, Fine
<1>4. y = Enabled(z) \/ y = z
  BY <1>1 DEF Then
<1>5. QED
  BY <1>2, <1>3, <1>4, EnabledIsGood

-----------------------------------------------------------------------------
(* The events of a connection. *)

\* handleError().
LEMMA ErrorKeeps ==
  ASSUME NEW x, Good(x), NEW y \in handleError(x)
  PROVE  Good(y) /\ Grown(x, y)
<1> DEFINE z == [x EXCEPT !.soError = FALSE]
<1>1. Light(x, z)
  BY FlagsAreLight DEF Good, Fine
<1>2. y \in Replies(z)
  BY DEF handleError
<1> HIDE DEF z
<1>3. Good(z) /\ Grown(x, z)
  BY <1>1, LightIsGood
<1>4. Good(y) /\ Grown(z, y)
  BY <1>2, <1>3, RepliesKeep
<1>5. QED
  BY <1>3, <1>4, GoodTwice

\* A connection that is closed has queued that its handler be disabled.
LEMMA CloseKeeps ==
  ASSUME NEW x, Good(x), NEW y \in handleClose(x)
  PROVE  /\ Good(y) /\ y.closes = x.closes + 1
         /\ Len(x.queue) < Len(y.queue)
         /\ \E i \in 1..Len(y.queue) : y.queue[i] = <<"disable", 0>>
<1> DEFINE f == <<"disable", 0>>
           q == Queued(x, f)
           z == [q EXCEPT !.closes = @ + 1, !.ended = TRUE]
<1>1. x \in Connections /\ f \in Functors /\ f[2] = 0
  BY OwnFunctors DEF Good, Fine
<1>2. Fine(q) /\ Budget(q, 0)
  BY <1>1, QueuedKeeps DEF Good
<1>3. q.queue = Append(x.queue, f) /\ q.closes = x.closes /\ q \in Connections
  BY <1>1, QueuedIs
<1>4. y \in Replies(z)
  BY DEF handleClose
<1> HIDE DEF q
<1>5. q.closes + 1 \in Nat
  BY <1>3, FieldsAre
<1>6. z \in Connections
  BY <1>3, <1>5 DEF Connections
<1>7. SameIn(q, z) /\ SameOut(q, z) /\ SameBudget(q, z) /\ z.closes = q.closes + 1
  BY <1>3 DEF Connections, SameIn, SameOut, SameBudget
<1> HIDE DEF z
<1>8. Good(z)
  BY <1>2, <1>3, <1>6, <1>7, SameInFine, SameOutFine, BudgetSame DEF Good, Fine
<1>9. x.queue \in Seq(Functors) /\ Len(x.queue) \in Nat
  BY <1>1, FieldsAre, NumbersAre
<1>10. z.queue = Append(x.queue, f)
  BY <1>3, <1>7 DEF SameBudget
<1> HIDE DEF f
<1>11. Len(z.queue) = Len(x.queue) + 1 /\ z.queue[Len(x.queue) + 1] = f
  BY <1>1, <1>9, <1>10, AppendProperties
<1>12. Good(y) /\ Grown(z, y)
  BY <1>4, <1>8, RepliesKeep
<1>13. /\ y.closes = z.closes /\ Len(z.queue) <= Len(y.queue)
       /\ \A i \in 1..Len(z.queue) : y.queue[i] = z.queue[i]
  BY <1>12 DEF Grown
<1>14. Len(y.queue) \in Nat
  BY <1>12, NumbersAre DEF Good, Fine
<1>15. Len(x.queue) + 1 \in 1..Len(z.queue) /\ Len(x.queue) + 1 \in 1..Len(y.queue)
  BY <1>9, <1>11, <1>13, <1>14
<1>16. y.queue[Len(x.queue) + 1] = f
  BY <1>11, <1>13, <1>15
<1>17. QED
  <2>1. y.closes = x.closes + 1
    BY <1>3, <1>7, <1>13
  <2>2. Len(x.queue) < Len(y.queue)
    BY <1>9, <1>11, <1>13, <1>14
  <2>3. QED
    BY <1>12, <1>15, <1>16, <2>1, <2>2 DEF f

\* What is sent leaves the buffer at the front.
LEMMA WriteEventKeeps ==
  ASSUME NEW x, Good(x), NEW y \in handleWrite(x)
  PROVE  Good(y) /\ Grown(x, y)
<1>0. x \in Connections /\ FineOut(x) /\ FineIn(x) /\ Budget(x, 0)
  BY DEF Good, Fine
<1>1. CASE ~x.writing
  <2>1. y = x
    BY <1>1 DEF handleWrite
  <2>2. QED
    BY <1>0, <2>1, SelfIsLight, LightIsGood
<1>2. CASE x.writing /\ (Dead(x) \/ x.room = 0)
  BY <1>2, ErrorKeeps DEF handleWrite
<1>3. CASE x.writing /\ ~(Dead(x) \/ x.room = 0)
  <2> DEFINE n == Sent(x)
             o == SubSeq(x.out, n + 1, Len(x.out))
             r == x.room - n
             s == x.delivered \o SubSeq(x.out, 1, n)
             w == [x EXCEPT !.out = o, !.room = r, !.delivered = s]
  <2>1. y = IF w.out = <<>> THEN Drained(w) ELSE w
    BY <1>3 DEF handleWrite
  <2>2. /\ x.out \in Seq(1..MaxBytes) /\ x.delivered \in Seq(1..MaxBytes)
        /\ x.room \in Nat /\ x.room <= Capacity /\ Capacity \in Nat /\ Len(x.out) \in Nat
        /\ x.accepted \in Nat
    BY <1>0, FieldsAre, NumbersAre
  <2>3. n \in 0..Len(x.out) /\ n <= x.room /\ n \in Nat
    BY <2>2, MinIs DEF Sent
  <2> HIDE DEF n
  <2>4. /\ o \in Seq(1..MaxBytes) /\ SubSeq(x.out, 1, n) \in Seq(1..MaxBytes)
    BY <2>2, <2>3, PartsOfAny
  <2>5. s \in Seq(1..MaxBytes) /\ r \in 0..Capacity
    BY <2>2, <2>3, <2>4, ConcatProperties
  <2>6. s \o o = x.delivered \o x.out
    <3>1. x.out \in Seq(Nat) /\ x.delivered \in Seq(Nat)
      BY <2>2, BytesAreNat
    <3>2. /\ SubSeq(x.out, 1, n) \in Seq(Nat) /\ SubSeq(x.out, n + 1, Len(x.out)) \in Seq(Nat)
          /\ x.out = SubSeq(x.out, 1, n) \o SubSeq(x.out, n + 1, Len(x.out))
      BY <2>3, <3>1, PartsMake
    <3>3. (x.delivered \o SubSeq(x.out, 1, n)) \o SubSeq(x.out, n + 1, Len(x.out))
            = x.delivered \o (SubSeq(x.out, 1, n) \o SubSeq(x.out, n + 1, Len(x.out)))
      BY ONLY <3>1, <3>2, JoinTwice
    <3>4. QED
      BY <3>2, <3>3
  <2> HIDE DEF o, r, s
  <2>7. w \in Connections
    BY <1>0, <2>4, <2>5 DEF Connections
  <2>8. /\ SameIn(x, w) /\ SameBudget(x, w) /\ SameLife(x, w) /\ w.out = o
        /\ w.delivered = s /\ w.writing = x.writing /\ w.writeEvent = x.writeEvent
        /\ w.filled = x.filled /\ w.overtaken = x.overtaken
    BY <1>0 DEF Connections, SameIn, SameBudget, SameLife
  <2> HIDE DEF w
  <2>9. FineIn(w) /\ Budget(w, 0) /\ Grown(x, w) /\ w.accepted = x.accepted
    BY <1>0, <2>8, SameInFine, BudgetSame, SameIsGrown DEF SameBudget
  <2>10. Placed(w, <<>>)
    BY <1>0, <2>6, <2>8, <2>9 DEF FineOut, Placed
  <2>11. x.writeEvent /\ ~x.filled
    BY <1>0, <1>3 DEF FineOut, Flags
  <2>12. CASE w.out # <<>>
    <3>1. FineOut(w)
      BY <1>3, <2>8, <2>10, <2>11, <2>12 DEF FineOut, Flags
    <3>2. QED
      BY <2>1, <2>7, <2>9, <2>12, <3>1 DEF Good, Fine
  <2>13. CASE w.out = <<>>
    <3> DEFINE u == [w EXCEPT !.writeEvent = FALSE, !.writing = FALSE]
    <3>1. y = NotifyWritten(u)
      BY <2>1, <2>13 DEF Drained
    <3>2. u \in Connections
      BY <2>7 DEF Connections
    <3>3. /\ SameIn(w, u) /\ SameBudget(w, u) /\ SameLife(w, u) /\ u.out = w.out
          /\ u.delivered = w.delivered /\ u.writing = FALSE
          /\ u.filled = w.filled /\ u.overtaken = w.overtaken
      BY <2>7 DEF Connections, SameIn, SameBudget, SameLife
    <3> HIDE DEF u
    <3>4. Placed(u, <<>>) /\ Flags(u) /\ FineIn(u)
      BY <2>8, <2>9, <2>10, <2>11, <2>13, <3>3, SameInFine
         DEF Placed, Flags, SameBudget
    <3>5. Half(u, <<>>) /\ Budget(u, 0) /\ Grown(w, u)
      BY <2>7, <2>9, <3>2, <3>3, <3>4, BudgetSame, SameIsGrown DEF Half
    <3>6. Good(y) /\ Grown(u, y)
      BY <3>1, <3>5, NotifyKeeps
    <3>7. Grown(w, y)
      BY <2>7, <3>2, <3>5, <3>6, GrownTwice DEF Good, Fine
    <3>8. QED
      BY <1>0, <2>7, <2>9, <3>6, <3>7, GrownTwice DEF Good, Fine
  <2>14. QED
    BY <2>12, <2>13
<1>4. QED
  BY <1>1, <1>2, <1>3

\* What reads or takes bytes changes the side of reading only.
LEMMA InputIsGood ==
  ASSUME NEW x, Good(x), NEW y \in Connections, FineIn(y), SameOut(x, y),
         SameBudget(x, y), SameLife(x, y)
  PROVE  Good(y) /\ Grown(x, y)
<1>1. x \in Connections
  BY DEF Good, Fine
<1>2. QED
  BY <1>1, SameOutFine, SameIsGrown, BudgetSame DEF Good, Fine

\* The bytes that are read go from the socket to the buffer.
LEMMA ReadIs ==
  ASSUME NEW x, Good(x), NEW n \in 0..Len(x.inbox), NEW missed \in BOOLEAN, NEW y,
         y = [x EXCEPT !.readBuffer = readFd(x.readBuffer, SubSeq(x.inbox, 1, n)),
                       !.unread = x.unread \o SubSeq(x.inbox, 1, n),
                       !.inbox = SubSeq(x.inbox, n + 1, Len(x.inbox)),
                       !.missed = missed]
  PROVE  Good(y) /\ Grown(x, y)
<1> DEFINE s == SubSeq(x.inbox, 1, n)
           t == SubSeq(x.inbox, n + 1, Len(x.inbox))
           b == readFd(x.readBuffer, s)
           u == x.unread \o s
<1>1. x \in Connections /\ FineIn(x)
  BY DEF Good, Fine
<1>2. x.inbox \in Seq(Nat) /\ x.unread \in Seq(Nat)
  BY <1>1, FieldsAre
<1>3. s \in Seq(Nat) /\ t \in Seq(Nat)
  BY <1>2, PartsMake
<1>4. u \in Seq(Nat)
  BY <1>2, <1>3, JoinIs
<1>5. Fits(b) /\ readableSlice(b) = u
  BY <1>1, <1>3, ReadFdAdds DEF FineIn
<1>6. b \in Buffers
  BY <1>5 DEF Fits
<1>7. y = [x EXCEPT !.readBuffer = b, !.unread = u, !.inbox = t, !.missed = missed]
  OBVIOUS
<1> HIDE DEF s, t, b, u
<1>8. y \in Connections
  <2> DEFINE z == [x EXCEPT !.readBuffer = b, !.unread = u, !.inbox = t]
  <2>1. z \in Connections
    BY <1>1, <1>3, <1>4, <1>6 DEF Connections
  <2>2. y = [z EXCEPT !.missed = missed]
    BY <1>1, <1>7 DEF Connections
  <2> HIDE DEF z
  <2>3. CASE missed = TRUE
    BY <2>1, <2>2, <2>3, ZenonT(60) DEF Connections
  <2>4. CASE missed = FALSE
    BY <2>1, <2>2, <2>4, ZenonT(60) DEF Connections
  <2>5. QED
    BY <2>3, <2>4
<1>9. /\ SameOut(x, y) /\ SameBudget(x, y) /\ SameLife(x, y)
      /\ y.readBuffer = b /\ y.unread = u
  BY <1>1, <1>7, ZenonT(60) DEF Connections, SameOut, SameBudget, SameLife
<1>10. FineIn(y)
  BY <1>5, <1>9 DEF FineIn
<1>11. QED
  BY <1>8, <1>9, <1>10, InputIsGood

\* The callback takes bytes from the front, then does something else.
LEMMA ReadCompleteKeeps ==
  ASSUME NEW x, Good(x), NEW y \in ReadComplete(x)
  PROVE  Good(y) /\ Grown(x, y)
<1> DEFINE taken(n) == [x EXCEPT !.readBuffer = retrieve(@, n),
                                 !.unread = SubSeq(@, n + 1, Len(@))]
<1>1. x \in Connections /\ FineIn(x)
  BY DEF Good, Fine
<1>2. ASSUME NEW n \in 0..readableBytes(x.readBuffer), NEW z, z = taken(n)
      PROVE  Good(z) /\ Grown(x, z)
  <2> DEFINE b == retrieve(x.readBuffer, n)
             u == SubSeq(x.unread, n + 1, Len(x.unread))
  <2>1. Fits(b) /\ readableSlice(b) = u
    BY <1>1, RetrieveDrops DEF FineIn
  <2>2. b \in Buffers
    BY <2>1 DEF Fits
  <2>3. u \in Seq(Nat)
    BY <2>1, SliceIs
  <2>4. z = [x EXCEPT !.readBuffer = b, !.unread = u]
    BY <1>2
  <2> HIDE DEF b, u, taken
  <2>5. z \in Connections
    BY <1>1, <2>2, <2>3, <2>4 DEF Connections
  <2>6. /\ SameOut(x, z) /\ SameBudget(x, z) /\ SameLife(x, z)
        /\ z.readBuffer = b /\ z.unread = u
    BY <1>1, <2>4 DEF Connections, SameOut, SameBudget, SameLife
  <2>7. FineIn(z)
    BY <2>1, <2>6 DEF FineIn
  <2>8. QED
    BY <2>5, <2>6, <2>7, InputIsGood
<1>3. PICK n \in 0..readableBytes(x.readBuffer) : y \in Replies(taken(n))
  <2> DEFINE after(n) == Replies(taken(n))
  <2>1. ReadComplete(x) = UNION {after(n) : n \in 0..readableBytes(x.readBuffer)}
    BY DEF ReadComplete
  <2> HIDE DEF after, taken
  <2>2. PICK n \in 0..readableBytes(x.readBuffer) : y \in after(n)
    BY ONLY <2>1, y \in ReadComplete(x)
  <2>3. QED
    BY ONLY <2>2 DEF after
<1> DEFINE z == taken(n)
<1>4. Good(z) /\ Grown(x, z)
  BY <1>2
<1> HIDE DEF taken
<1>5. y \in Replies(z)
  BY <1>3
<1> HIDE DEF z
<1>6. Good(y) /\ Grown(z, y)
  BY <1>4, <1>5, RepliesKeep
<1>7. QED
  BY <1>4, <1>6, GoodTwice

\* A read buffer that has grown too large is shrunk: its bytes stay.
LEMMA ShrinkIfLargeKeeps ==
  ASSUME NEW x, Good(x) PROVE Good(ShrinkIfLarge(x)) /\ Grown(x, ShrinkIfLarge(x))
<1> DEFINE y == ShrinkIfLarge(x)
           b == shrink(x.readBuffer, 0)
<1>1. x \in Connections /\ FineIn(x)
  BY DEF Good, Fine
<1>2. Fits(b) /\ readableSlice(b) = readableSlice(x.readBuffer)
  BY <1>1, ShrinkKeeps DEF FineIn
<1>3. b \in Buffers
  BY <1>2 DEF Fits
<1>4. y = x \/ y = [x EXCEPT !.readBuffer = b]
  BY DEF ShrinkIfLarge
<1> HIDE DEF y, b
<1>5. CASE y = x
  BY <1>1, <1>5, SelfIsLight, LightIsGood DEF y
<1>6. CASE y = [x EXCEPT !.readBuffer = b]
  <2>1. y \in Connections
    BY <1>1, <1>3, <1>6 DEF Connections
  <2>2. /\ SameOut(x, y) /\ SameBudget(x, y) /\ SameLife(x, y)
        /\ y.readBuffer = b /\ y.unread = x.unread
    BY <1>1, <1>6 DEF Connections, SameOut, SameBudget, SameLife
  <2>3. FineIn(y)
    BY <1>1, <1>2, <2>2 DEF FineIn
  <2>4. QED
    BY <2>1, <2>2, <2>3, InputIsGood DEF y
<1>7. QED
  BY <1>4, <1>5, <1>6 DEF y

\* The functor that disables is among the first n of the queue.
Disables(x, n) == \E i \in 1..n : x.queue[i] = <<"disable", 0>>

\* The connection has been closed, and the handler will be disabled.
Closed(x, y) == Good(y) /\ y.closes = x.closes + 1 /\ Disables(y, Len(y.queue))

\* handleRead(), which closes the connection at the end of what the peer sends.
LEMMA ReadEventKeeps ==
  ASSUME NEW x, Good(x), NEW y \in handleRead(x)
  PROVE  Good(y) /\ (Grown(x, y) \/ Closed(x, y))
<1> DEFINE room == writableBytes(x.readBuffer)
           extra == IF room < ExtraSize THEN ExtraSize ELSE 0
           n == Min({Len(x.inbox), room + extra})
           s == SubSeq(x.inbox, 1, n)
           b == readFd(x.readBuffer, s)
           read(stop) ==
             [x EXCEPT !.readBuffer = b, !.unread = @ \o s,
                       !.inbox = SubSeq(@, n + 1, Len(@)),
                       !.missed = @ \/ (/\ x.mode = "until" /\ ~stop
                                        /\ Finds(b, Delimiter, b.readerIndex))]
<1>1. x \in Connections /\ Fits(x.readBuffer)
  BY DEF Good, Fine, FineIn
<1>2. room \in Nat
  BY <1>1 DEF Fits, Buffers, writableBytes
<1>3. room + extra \in Nat
  BY <1>2, BufferAssumption
<1>4. Len(x.inbox) \in Nat
  <2>1. x.inbox \in Seq(Nat)
    BY <1>1, FieldsAre
  <2>2. QED
    BY <2>1
<1>5. n \in 0..Len(x.inbox)
  <2> HIDE DEF room, extra
  <2>1. n \in Nat /\ n <= Len(x.inbox)
    BY <1>3, <1>4, MinIs
  <2>2. QED
    BY <1>4, <2>1
<1>6. \/ n = 0 /\ x.soError /\ y \in handleError(x)
      \/ n = 0 /\ ~x.soError /\ y \in handleClose(x)
      \/ n > 0 /\ \E stop \in Stops(x.mode, b) :
           \E z : /\ z \in IF stop THEN ReadComplete(read(stop)) ELSE {read(stop)}
                  /\ y = ShrinkIfLarge(z)
  <2> DEFINE ends(stop) == IF stop THEN ReadComplete(read(stop)) ELSE {read(stop)}
  <2>1. handleRead(x) =
          CASE n = 0 /\ x.soError -> handleError(x)
            [] n = 0 /\ ~x.soError -> handleClose(x)
            [] n > 0 -> UNION {{ShrinkIfLarge(z) : z \in ends(stop)} :
                                 stop \in Stops(x.mode, b)}
    BY DEF handleRead
  <2> HIDE DEF n, b, read
  <2>2. (n = 0 /\ x.soError) \/ (n = 0 /\ ~x.soError) \/ n > 0
    BY <1>4, <1>5
  <2>3. ~(n = 0 /\ n > 0)
    BY <1>4, <1>5
  <2> HIDE DEF ends
  <2>4. CASE n > 0
    <3>1. y \in UNION {{ShrinkIfLarge(z) : z \in ends(stop)} : stop \in Stops(x.mode, b)}
      BY <2>1, <2>3, <2>4
    <3>2. PICK stop \in Stops(x.mode, b) : y \in {ShrinkIfLarge(z) : z \in ends(stop)}
      BY ONLY <3>1
    <3>3. PICK z \in ends(stop) : y = ShrinkIfLarge(z)
      BY ONLY <3>2
    <3>4. QED
      BY <2>4, <3>2, <3>3 DEF ends
  <2>5. CASE n = 0
    BY <2>1, <2>2, <2>3, <2>5
  <2>6. QED
    BY <2>2, <2>4, <2>5
<1>7. ASSUME NEW stop, NEW r, r = read(stop) PROVE Good(r) /\ Grown(x, r)
  <2> DEFINE m == x.missed \/ (/\ x.mode = "until" /\ ~stop
                               /\ Finds(b, Delimiter, b.readerIndex))
  <2>1. m \in BOOLEAN
    BY Zenon
  <2>2. r = [x EXCEPT !.readBuffer = b, !.unread = x.unread \o s,
                      !.inbox = SubSeq(x.inbox, n + 1, Len(x.inbox)), !.missed = m]
    BY <1>7
  <2> HIDE DEF n, m, read
  <2>3. QED
    BY <1>5, <2>1, <2>2, ReadIs
<1> HIDE DEF n, read
<1>8. CASE y \in handleError(x)
  BY <1>8, ErrorKeeps
<1>9. CASE y \in handleClose(x)
  BY <1>9, CloseKeeps DEF Closed, Disables
<1>10. ASSUME NEW stop, NEW z,
              z \in IF stop THEN ReadComplete(read(stop)) ELSE {read(stop)},
              y = ShrinkIfLarge(z)
       PROVE  Good(y) /\ Grown(x, y)
  <2> DEFINE r == read(stop)
  <2>1. Good(r) /\ Grown(x, r)
    BY <1>7
  <2> HIDE DEF r
  <2>2. Good(z) /\ Grown(x, z)
    <3>1. CASE stop
      <4>1. z \in ReadComplete(r)
        BY <1>10, <3>1 DEF r
      <4>2. Good(z) /\ Grown(r, z)
        BY <2>1, <4>1, ReadCompleteKeeps
      <4>3. QED
        BY <2>1, <4>2, GoodTwice
    <3>2. CASE ~stop
      BY <1>10, <2>1, <3>2 DEF r
    <3>3. QED
      BY <3>1, <3>2
  <2>3. Good(y) /\ Grown(z, y)
    BY <1>10, <2>2, ShrinkIfLargeKeeps
  <2>4. QED
    BY <2>2, <2>3, GoodTwice
<1>11. QED
  BY <1>6, <1>8, <1>9, <1>10

\* A functor stays in a queue that grows.
LEMMA DisablesStays ==
  ASSUME NEW x, Good(x), NEW y, Good(y), Grown(x, y), NEW n \in 0..Len(x.queue),
         Disables(x, n)
  PROVE  n \in 0..Len(y.queue) /\ Disables(y, n)
<1>1. Len(x.queue) \in Nat /\ Len(y.queue) \in Nat /\ Len(x.queue) <= Len(y.queue)
  BY NumbersAre DEF Good, Fine, Grown
<1>2. PICK i \in 1..n : x.queue[i] = <<"disable", 0>>
  BY DEF Disables
<1>3. i \in 1..Len(x.queue)
  BY <1>1
<1>4. y.queue[i] = x.queue[i]
  BY <1>3 DEF Grown
<1>5. QED
  BY <1>1, <1>2, <1>4 DEF Disables

\* With one more disable() queued as many follow.
LEMMA MoreDisables ==
  ASSUME NEW x, NEW m \in Nat, NEW n \in Nat, m <= n, Disables(x, m)
  PROVE  Disables(x, n)
BY DEF Disables

\* Of the callbacks of the handler, the one for reading alone closes.
LEMMA HandleKeeps ==
  ASSUME NEW x, Good(x), NEW event \in {"error", "in", "out"}, NEW y \in Handle(x, event)
  PROVE  /\ Good(y)
         /\ Grown(x, y) \/ (event = "in" /\ x.callbacks /\ Closed(x, y))
<1>1. x \in Connections /\ x.callbacks \in BOOLEAN
  BY FieldsAre DEF Good, Fine
<1>2. CASE y = x
  BY <1>1, <1>2, SelfIsLight, LightIsGood
<1>3. CASE y # x
  <2>1. /\ x.callbacks
        /\ \/ event = "error" /\ y \in handleError(x)
           \/ event = "in" /\ y \in handleRead(x)
           \/ event = "out" /\ y \in handleWrite(x)
    BY <1>1, <1>3 DEF Handle
  <2>2. CASE event = "error" /\ y \in handleError(x)
    BY <2>2, ErrorKeeps
  <2>3. CASE event = "in" /\ y \in handleRead(x)
    BY <2>1, <2>3, ReadEventKeeps
  <2>4. CASE event = "out" /\ y \in handleWrite(x)
    BY <2>4, WriteEventKeeps
  <2>5. QED
    BY <2>1, <2>2, <2>3, <2>4
<1>4. QED
  BY <1>2, <1>3

\* So one run() closes at most once, and not without callbacks.
LEMMA RunKeeps ==
  ASSUME NEW x, Good(x), NEW y \in run(x)
  PROVE  Good(y) /\ (Grown(x, y) \/ (x.callbacks /\ Closed(x, y)))
<1>1. PICK a \in Handle(x, "error") : y \in UNION {Handle(z, "out") : z \in Handle(a, "in")}
  BY DEF run
<1>2. PICK b \in Handle(a, "in") : y \in Handle(b, "out")
  BY <1>1
<1>3. Good(a) /\ Grown(x, a)
  BY HandleKeeps
<1>4. Good(b) /\ (Grown(a, b) \/ (a.callbacks /\ Closed(a, b)))
  BY <1>3, HandleKeeps
<1>5. Good(y) /\ Grown(b, y)
  BY <1>2, <1>4, HandleKeeps
<1>6. CASE Grown(a, b)
  <2>1. Grown(x, b)
    BY <1>3, <1>4, <1>6, GoodTwice
  <2>2. QED
    BY <1>4, <1>5, <2>1, GoodTwice
<1>7. CASE a.callbacks /\ Closed(a, b)
  <2>1. x.callbacks /\ y.closes = x.closes + 1
    BY <1>3, <1>5, <1>7 DEF Grown, Closed
  <2>2. Len(b.queue) \in Nat /\ Len(y.queue) \in Nat /\ Len(b.queue) <= Len(y.queue)
    BY <1>4, <1>5, NumbersAre DEF Good, Fine, Grown
  <2>3. Disables(y, Len(b.queue))
    BY <1>4, <1>5, <1>7, <2>2, DisablesStays DEF Closed
  <2>4. Disables(y, Len(y.queue))
    BY <2>2, <2>3, MoreDisables
  <2>5. QED
    BY <1>5, <2>1, <2>4 DEF Closed
<1>8. QED
  BY <1>4, <1>5, <1>6, <1>7

-----------------------------------------------------------------------------
(* The loop. *)

\* A connection that was closed and still has its callbacks is not polled: the
\* functor that takes them is run first, for it was queued before the swap.
Closing(x, ph, b) ==
  /\ x.closes <= 1
  /\ x.closes = 1 /\ x.callbacks =>
       \/ ph = "swap" /\ Disables(x, Len(x.queue))
       \/ ph = "functors" /\ Disables(x, b)

\* The functors that were swapped are in the queue.
Swapped(x, ph, b) == b \in Nat /\ (ph = "functors" => b \in 1..Len(x.queue))

ConnectionInv ==
  /\ Good(k)
  /\ phase \in {"poll", "run", "swap", "functors"}
  /\ revents \subseteq {"error", "in", "out"}
  /\ caller \in BOOLEAN /\ inputs \in 0..MaxInputs
  /\ Swapped(k, phase, batch) /\ Closing(k, phase, batch)

\* What queues functors at most may happen in any phase of the loop.
LEMMA GrownKeeps ==
  ASSUME NEW x, Good(x), NEW y, Good(y), Grown(x, y), NEW ph, NEW b,
         Swapped(x, ph, b), Closing(x, ph, b)
  PROVE  Swapped(y, ph, b) /\ Closing(y, ph, b)
<1>1. /\ Len(x.queue) \in Nat /\ Len(y.queue) \in Nat /\ Len(x.queue) <= Len(y.queue)
      /\ y.closes = x.closes /\ (y.callbacks => x.callbacks)
  BY NumbersAre DEF Good, Fine, Grown
<1>2. Swapped(y, ph, b)
  BY <1>1 DEF Swapped
<1>3. CASE y.closes = 1 /\ y.callbacks
  <2>1. x.closes = 1 /\ x.callbacks
    BY <1>1, <1>3
  <2>2. CASE ph = "swap" /\ Disables(x, Len(x.queue))
    <3>1. Len(x.queue) \in 0..Len(x.queue)
      BY <1>1
    <3>2. Disables(y, Len(x.queue))
      BY <2>2, <3>1, DisablesStays
    <3>3. Disables(y, Len(y.queue))
      BY <1>1, <3>2, MoreDisables
    <3>4. QED
      BY <1>1, <1>2, <2>2, <3>3 DEF Closing
  <2>3. CASE ph = "functors" /\ Disables(x, b)
    <3>1. b \in 0..Len(x.queue)
      BY <1>1, <2>3 DEF Swapped
    <3>2. Disables(y, b)
      BY <2>3, <3>1, DisablesStays
    <3>3. QED
      BY <1>1, <1>2, <2>3, <3>2 DEF Closing
  <2>4. QED
    BY <2>1, <2>2, <2>3 DEF Closing
<1>4. CASE ~(y.closes = 1 /\ y.callbacks)
  BY <1>1, <1>2, <1>4 DEF Closing
<1>5. QED
  BY <1>3, <1>4

\* A new connection is fine.
LEMMA NewIsGood == Good(NewConnection) /\ NewConnection.closes = 0
<1> DEFINE b == NewBuffer(kInitialSize)
           x == NewConnection
<1>1. Fits(b) /\ readableSlice(b) = <<>> /\ b \in Buffers
  BY NewIsEmpty DEF Fits
<1>2. 0 \in 0..MaxBytes /\ Capacity \in 0..Capacity
  BY ConnectionAssumption
<1>3. <<>> \in Seq(1..MaxBytes) /\ <<>> \in Seq(Functors) /\ <<>> \in Seq(Nat)
  OBVIOUS
<1> HIDE DEF b
<1>4. x \in Connections
  BY <1>1, <1>2, <1>3 DEF NewConnection, Connections, Modes, b
<1>5. FineIn(x)
  BY <1>1 DEF NewConnection, FineIn, b
<1>6. FineOut(x)
  <2>1. /\ x.delivered = <<>> /\ x.out = <<>> /\ x.accepted = 0 /\ x.notified = 0
        /\ x.writing = FALSE /\ x.filled = FALSE
    BY DEF NewConnection
  <2>2. (<<>> \o <<>>) \o <<>> = <<>>
    OBVIOUS
  <2>3. Numbers(0) = <<>>
    BY DEF Numbers
  <2>4. EachOnce(<<>>, 0)
    BY DEF EachOnce
  <2>5. Placed(x, <<>>)
    BY <2>1, <2>2, <2>3, <2>4 DEF Placed
  <2>6. QED
    BY <2>1, <2>5 DEF FineOut, Flags
<1>7. Budget(x, 0)
  <2> DEFINE f == [i \in 0..0 |-> 0]
  <2>1. x.queue = <<>> /\ x.accepted = 0 /\ x.requested = 0 /\ Len(<<>>) = 0
    BY DEF NewConnection
  <2>2. f \in [0..0 -> Nat] /\ \A i \in 0..0 : f[i] = 0
    OBVIOUS
  <2> HIDE DEF f
  <2>3. /\ 0 + 0 <= f[0] /\ \A i \in 0..0 : f[i] <= 0
        /\ \A i \in 1..0 : f[i - 1] + x.queue[i][2] <= f[i]
    BY <2>2
  <2>4. QED
    BY <2>1, <2>2, <2>3 DEF Budget
<1>8. x.closes = 0
  BY DEF NewConnection
<1>9. QED
  BY <1>4, <1>5, <1>6, <1>7, <1>8 DEF Good, Fine

\* A new connection satisfies the invariant.
LEMMA ConnectionStarts == ConnectionInit => ConnectionInv
<1> SUFFICES ASSUME ConnectionInit PROVE ConnectionInv
  OBVIOUS
<1>1. Good(k) /\ k.closes = 0
  BY NewIsGood DEF ConnectionInit
<1>2. inputs \in 0..MaxInputs
  BY ConnectionAssumption DEF ConnectionInit
<1>3. phase = "poll" /\ revents = {} /\ batch = 0 /\ caller = FALSE
  BY DEF ConnectionInit
<1>4. Swapped(k, phase, batch) /\ Closing(k, phase, batch)
  BY <1>1, <1>3 DEF Swapped, Closing
<1>5. QED
  BY <1>1, <1>2, <1>3, <1>4 DEF ConnectionInv

\* What the loop does.
LEMMA PollKeeps == ASSUME ConnectionInv, Poll PROVE ConnectionInv'
<1>1. k' = k /\ batch' = batch /\ caller' = caller /\ inputs' = inputs
      /\ phase = "poll" /\ phase' \in {"run", "swap"}
  BY DEF Poll, userVars
<1>2. revents' \subseteq {"error", "in", "out"}
  <2>1. Events(k) \subseteq {"error", "in", "out"}
    BY DEF Events
  <2>2. QED
    BY <2>1 DEF Poll, ConnectionInv
<1>3. Swapped(k, phase', batch) /\ Closing(k, phase', batch)
  BY <1>1 DEF ConnectionInv, Swapped, Closing
<1>4. QED
  BY <1>1, <1>2, <1>3 DEF ConnectionInv

\* IOHandler::run() of the connection, with any of its events.
LEMMA RunStepKeeps == ASSUME ConnectionInv, Run PROVE ConnectionInv'
<1>1. /\ batch' = batch /\ caller' = caller /\ inputs' = inputs
      /\ phase = "run" /\ phase' = "swap" /\ revents' = {}
      /\ k' \in IF k.enabled THEN run(k) ELSE {k}
  BY DEF Run, userVars
<1>2. Good(k) /\ k \in Connections /\ k.callbacks \in BOOLEAN /\ k.closes \in Nat
  BY FieldsAre DEF ConnectionInv, Good, Fine
<1>3. Good(k') /\ (Grown(k, k') \/ (k.callbacks /\ Closed(k, k')))
  <2>1. CASE k' \in run(k)
    BY <1>2, <2>1, RunKeeps
  <2>2. CASE k' = k
    BY <1>2, <2>2, SelfIsLight, LightIsGood
  <2>3. QED
    BY <1>1, <2>1, <2>2
<1>4. k.closes <= 1 /\ ~(k.closes = 1 /\ k.callbacks)
  BY <1>1 DEF ConnectionInv, Closing
<1>5. Swapped(k', "swap", batch)
  BY DEF ConnectionInv, Swapped
<1>6. Closing(k', "swap", batch)
  <2>1. CASE Grown(k, k')
    BY <1>4, <2>1 DEF Grown, Closing
  <2>2. CASE k.callbacks /\ Closed(k, k')
    <3>1. k'.closes = k.closes + 1 /\ k.closes = 0 /\ Disables(k', Len(k'.queue))
      BY <1>2, <1>4, <2>2 DEF Closed
    <3>2. QED
      BY <3>1 DEF Closing
  <2>3. QED
    BY <1>3, <2>1, <2>2
<1>7. QED
  BY <1>1, <1>3, <1>5, <1>6 DEF ConnectionInv

\* The loop swaps its functors.
LEMMA SwapKeeps == ASSUME ConnectionInv, Swap PROVE ConnectionInv'
<1>1. /\ k' = k /\ caller' = caller /\ inputs' = inputs
      /\ revents' = revents /\ phase = "swap" /\ batch' = Len(k.queue)
      /\ phase' = IF k.queue = <<>> THEN "poll" ELSE "functors"
  BY DEF Swap, userVars
<1>2. k \in Connections /\ Len(k.queue) \in Nat /\ k.queue \in Seq(Functors)
  BY FieldsAre, NumbersAre DEF ConnectionInv, Good, Fine
<1>3. k.queue # <<>> => Len(k.queue) \in 1..Len(k.queue)
  BY <1>2
<1>4. k.queue = <<>> => ~Disables(k, Len(k.queue))
  <2>1. Len(<<>>) = 0
    OBVIOUS
  <2>2. ~\E i \in 1..0 : TRUE
    OBVIOUS
  <2>3. QED
    BY <2>1, <2>2 DEF Disables
<1>5. Swapped(k, phase', Len(k.queue)) /\ Closing(k, phase', Len(k.queue))
  BY <1>1, <1>2, <1>3, <1>4 DEF ConnectionInv, Swapped, Closing
<1>6. QED
  BY <1>1, <1>5 DEF ConnectionInv

\* The loop runs the next functor.
LEMMA HandlePendingKeeps == ASSUME ConnectionInv, HandlePending PROVE ConnectionInv'
<1> DEFINE x == [k EXCEPT !.queue = Tail(@)]
           f == Head(k.queue)
<1>1. /\ caller' = caller /\ inputs' = inputs /\ revents' = revents
      /\ phase = "functors" /\ batch' = batch - 1
      /\ phase' = IF batch = 1 THEN "poll" ELSE phase
      /\ k' \in RunFunctor(x, f)
  BY DEF HandlePending, userVars
<1>2. /\ Good(k) /\ k \in Connections /\ Len(k.queue) \in Nat /\ k.queue \in Seq(Functors)
      /\ batch \in 1..Len(k.queue) /\ batch \in Nat /\ k.closes \in Nat
  BY <1>1, FieldsAre, NumbersAre DEF ConnectionInv, Good, Fine, Swapped
<1>3. k.queue # <<>>
  BY <1>2
<1>4. Tail(k.queue) \in Seq(Functors) /\ f \in Functors
  BY <1>2, <1>3
<1>5. f = k.queue[1] /\ Len(Tail(k.queue)) = Len(k.queue) - 1
      /\ \A i \in 1..(Len(k.queue) - 1) : Tail(k.queue)[i] = k.queue[i + 1]
  BY <1>2, <1>3, HeadTailProperties
<1>6. x \in Connections
  BY <1>2, <1>4 DEF Connections
<1>7. /\ SameIn(k, x) /\ SameOut(k, x) /\ x.queue = Tail(k.queue) /\ x.closes = k.closes
      /\ x.callbacks = k.callbacks /\ x.accepted = k.accepted
      /\ x.requested = k.requested
  BY <1>2 DEF Connections, SameIn, SameOut
<1> HIDE DEF x, f
<1>8. Fine(x)
  BY <1>2, <1>6, <1>7, SameInFine, SameOutFine DEF Good, Fine
<1>9. Budget(x, f[2])
  BY <1>2, <1>3, <1>6, <1>7, BudgetTaken DEF Good, f
<1>10. Good(k') /\ Grown(x, k') /\ (f[1] = "disable" => ~k'.callbacks)
  BY <1>1, <1>4, <1>8, <1>9, FunctorKeeps
<1>11. Len(x.queue) <= Len(k'.queue) /\ Len(k'.queue) \in Nat
  BY <1>10, NumbersAre DEF Grown, Good, Fine
<1>12. Swapped(k', phase', batch - 1)
  BY <1>1, <1>2, <1>5, <1>7, <1>11 DEF Swapped
<1>13. Closing(k', phase', batch - 1)
  <2>1. k'.closes = k.closes /\ (k'.callbacks => k.callbacks) /\ k.closes <= 1
    BY <1>7, <1>10 DEF Grown, ConnectionInv, Closing
  <2>2. CASE k'.closes = 1 /\ k'.callbacks
    <3>1. Disables(k, batch)
      BY <1>1, <2>1, <2>2 DEF ConnectionInv, Closing
    <3>2. PICK i \in 1..batch : k.queue[i] = <<"disable", 0>>
      BY <3>1 DEF Disables
    <3>3. i # 1
      BY <1>5, <1>10, <2>2, <3>2
    <3>4. i - 1 \in 1..(batch - 1) /\ i - 1 \in 1..(Len(k.queue) - 1) /\ (i - 1) + 1 = i
          /\ batch # 1
      BY <1>2, <3>3
    <3>5. i - 1 \in 1..Len(x.queue) /\ x.queue[i - 1] = <<"disable", 0>>
      BY <1>5, <1>7, <3>2, <3>4
    <3>6. k'.queue[i - 1] = <<"disable", 0>>
      BY <1>10, <3>5 DEF Grown
    <3>7. Disables(k', batch - 1)
      BY <3>4, <3>6 DEF Disables
    <3>8. QED
      BY <1>1, <2>2, <3>4, <3>7 DEF Closing
  <2>3. CASE ~(k'.closes = 1 /\ k'.callbacks)
    BY <2>1, <2>3 DEF Closing
  <2>4. QED
    BY <2>2, <2>3
<1>14. phase' \in {"poll", "run", "swap", "functors"}
  BY <1>1
<1>15. QED
  BY <1>1, <1>10, <1>12, <1>13, <1>14 DEF ConnectionInv

\* What the users and the peer do.  The loop stays in its phase.
LEMMA LoopStays ==
  ASSUME ConnectionInv, phase' = phase, batch' = batch, revents' = revents,
         caller' \in BOOLEAN, inputs' \in 0..MaxInputs,
         Good(k'), Grown(k, k')
  PROVE  ConnectionInv'
<1>1. Swapped(k', phase, batch) /\ Closing(k', phase, batch)
  BY GrownKeeps DEF ConnectionInv
<1>2. QED
  BY <1>1 DEF ConnectionInv

\* accept() makes the connection, or fails.
LEMMA AcceptKeeps == ASSUME ConnectionInv, Accept PROVE ConnectionInv'
<1>1. Good(k) /\ k \in Connections
  BY DEF ConnectionInv, Good, Fine
<1>2. k' = [k EXCEPT !.status = "up", !.enabled = TRUE]
        \/ k' = [k EXCEPT !.status = "up", !.enabled = FALSE]
        \/ k' = [k EXCEPT !.status = "up", !.broken = {"null"}]
  BY DEF Accept
<1>3. Light(k, k')
  <2>1. CASE k' = [k EXCEPT !.status = "up", !.enabled = TRUE]
    BY <1>1, <2>1 DEF Light, SameIn, SameOut, SameBudget, SameLife, Connections
  <2>2. CASE k' = [k EXCEPT !.status = "up", !.enabled = FALSE]
    BY <1>1, <2>2 DEF Light, SameIn, SameOut, SameBudget, SameLife, Connections
  <2>3. CASE k' = [k EXCEPT !.status = "up", !.broken = {"null"}]
    BY <1>1, <2>3 DEF Light, SameIn, SameOut, SameBudget, SameLife, Connections
  <2>4. QED
    BY <1>2, <2>1, <2>2, <2>3
<1>4. Good(k') /\ Grown(k, k')
  BY <1>1, <1>3, LightIsGood
<1>5. /\ phase' = phase /\ batch' = batch /\ revents' = revents
      /\ caller' \in BOOLEAN /\ inputs' \in 0..MaxInputs
  BY DEF Accept, loopVars, userVars, ConnectionInv
<1>6. QED
  BY <1>4, <1>5, LoopStays

\* The inputs within the bound.
LEMMA InputIs ==
  ASSUME ConnectionInv, Input PROVE inputs' \in 0..MaxInputs
BY ConnectionAssumption DEF Input, ConnectionInv

\* Max of two numbers.
LEMMA MaxIs ==
  ASSUME NEW a \in Nat, NEW b \in Nat
  PROVE  Max({a, b}) \in Nat /\ a <= Max({a, b}) /\ b <= Max({a, b})
<1> DEFINE S == {a, b}
<1>1. \E m \in S : \A n \in S : n <= m
  OBVIOUS
<1>2. Max(S) \in S /\ \A n \in S : n <= Max(S)
  BY <1>1 DEF Max
<1>3. QED
  BY <1>2

\* A call of the user asks for some of the bytes that are left.
LEMMA AskedIs ==
  ASSUME ConnectionInv, NEW f \in UserCalls, NEW x \in Asked(f)
  PROVE  /\ Fine(x) /\ Budget(x, f[2]) /\ Budget(x, 1) /\ Grown(k, x)
         /\ x \in Connections /\ x.queue = k.queue /\ x.accepted = k.accepted
         /\ k.requested + f[2] <= x.requested
         /\ f[1] # "fill" => f \in Functors
<1> DEFINE n == Max({1, f[2]})
<1>1. Good(k) /\ k \in Connections
  BY DEF ConnectionInv, Good, Fine
<1>2. /\ f[2] \in Nat
      /\ f[1] # "write" /\ f[1] # "fill" => f \in Functors
      /\ f[1] = "write" => f = <<"write", f[2]>>
  <2>1. CASE f \in {"write"} \X Lengths
    <3>1. PICK l \in Lengths : f = <<"write", l>>
      BY <2>1
    <3>2. l \in Nat /\ f[1] = "write" /\ f[2] = l
      BY <3>1, ConnectionAssumption
    <3>3. QED
      BY <3>1, <3>2
  <2>2. CASE f \in ChangingCalls
    BY <2>2 DEF ChangingCalls, Functors, Modes
  <2>3. QED
    BY <2>1, <2>2 DEF UserCalls
<1>3. n \in Nat /\ 1 <= n /\ f[2] <= n
  BY <1>2, MaxIs
<1>4. x \in Requested(k, n)
  BY DEF Asked
<1> HIDE DEF n
<1>5. /\ Fine(x) /\ Budget(x, n) /\ Grown(k, x) /\ x \in Connections
      /\ x.queue = k.queue /\ x.accepted = k.accepted
      /\ x.requested = k.requested + n
  BY <1>1, <1>3, <1>4, RequestedIs DEF Fine
<1>6. Budget(x, f[2]) /\ Budget(x, 1)
  BY <1>2, <1>3, <1>5, BudgetWeaker
<1>7. k.requested + f[2] <= x.requested
  BY <1>1, <1>2, <1>3, <1>5, NumbersAre
<1>8. f[1] # "fill" => f \in Functors
  <2>1. f[2] \in 0..MaxBytes
    BY <1>1, <1>2, <1>5, <1>7, NumbersAre
  <2>2. f[1] = "write" => f \in Functors
    BY <1>2, <2>1 DEF Functors
  <2>3. QED
    BY <1>2, <2>2
<1>9. QED
  BY <1>5, <1>6, <1>7, <1>8

\* A call on the thread of the loop.
LEMMA CallInLoopKeeps ==
  ASSUME ConnectionInv, NEW f \in UserCalls, CallInLoop(f) PROVE ConnectionInv'
<1>1. PICK x \in Asked(f) : k' \in Called(x, f)
  BY DEF CallInLoop
<1>2. /\ Fine(x) /\ Budget(x, f[2]) /\ Budget(x, 1) /\ Grown(k, x)
      /\ f[1] # "fill" => f \in Functors
  BY AskedIs
<1>3. Good(k') /\ Grown(x, k')
  <2>1. CASE f[1] = "fill"
    <3>1. f \in ChangingCalls /\ ~Enabling(f) /\ f[1] \notin Modes
      BY <2>1 DEF UserCalls, ChangingCalls, Enabling, Modes
    <3>2. k' = Filled(x)
      BY <1>1, <2>1, <3>1 DEF Called, Then, RunFunctor, Change
    <3>3. QED
      BY <1>2, <3>2, FillKeeps
  <2>2. CASE f[1] # "fill"
    BY <1>1, <1>2, <2>2, CallKeeps
  <2>3. QED
    BY <2>1, <2>2
<1>4. k \in Connections /\ x \in Connections /\ k' \in Connections
  BY <1>2, <1>3 DEF ConnectionInv, Good, Fine
<1>5. Grown(k, k')
  BY <1>2, <1>3, <1>4, GrownTwice
<1>6. /\ phase' = phase /\ batch' = batch /\ revents' = revents
      /\ caller' \in BOOLEAN /\ inputs' \in 0..MaxInputs
  BY InputIs DEF CallInLoop, loopVars, ConnectionInv
<1>7. QED
  BY <1>3, <1>5, <1>6, LoopStays

\* A call of another thread, which is queued.
LEMMA CallFromOutsideKeeps ==
  ASSUME ConnectionInv, NEW f \in UserCalls, CallFromOutside(f) PROVE ConnectionInv'
<1>1. PICK x \in Asked(f) : k' = Queued(x, f)
  BY DEF CallFromOutside
<1>2. /\ Fine(x) /\ Grown(k, x) /\ f \in Functors /\ x \in Connections
      /\ x.queue = k.queue /\ x.accepted = k.accepted
      /\ k.requested + f[2] <= x.requested
  BY AskedIs DEF CallFromOutside
<1>3. Good(k) /\ k \in Connections /\ Budget(k, 0)
  BY DEF ConnectionInv, Good, Fine
<1>4. /\ k' \in Connections /\ k'.queue = Append(x.queue, f)
      /\ SameIn(x, k') /\ SameOut(x, k') /\ k'.closes = x.closes
      /\ k'.callbacks = x.callbacks /\ k'.accepted = x.accepted
      /\ k'.requested = x.requested
  BY <1>1, <1>2, QueuedIs
<1>5. Fine(k')
  BY <1>2, <1>4, SameInFine, SameOutFine DEF Fine
<1>6. Budget(k', 0)
  <2>1. k.requested \in Nat /\ f[2] \in Nat
    BY <1>2, <1>3, NumbersAre, FunctorsAre
  <2>2. k.requested + f[2] <= k'.requested
    BY <1>2, <1>4, <2>1
  <2>3. QED
    BY <1>2, <1>3, <1>4, <2>2, BudgetQueued
<1>7. Grown(x, k')
  BY <1>2, <1>4, QueueGrows
<1>8. Good(k') /\ Grown(k, k')
  BY <1>2, <1>3, <1>4, <1>5, <1>6, <1>7, GrownTwice DEF Good
<1>9. caller' \in BOOLEAN
  BY DEF CallFromOutside, Enabling
<1>10. /\ phase' = phase /\ batch' = batch /\ revents' = revents
       /\ inputs' \in 0..MaxInputs
  BY InputIs DEF CallFromOutside, loopVars, ConnectionInv
<1>11. QED
  BY <1>8, <1>9, <1>10, LoopStays

\* The second half of a call of another thread, the enable() of the handler.
LEMMA CallerEnablesKeeps ==
  ASSUME ConnectionInv, CallerEnables PROVE ConnectionInv'
<1>1. Good(k) /\ k \in Connections
  BY DEF ConnectionInv, Good, Fine
<1>2. Good(k') /\ Grown(k, k')
  <2>1. CASE k' = k
    BY <1>1, <2>1, SelfIsLight, LightIsGood
  <2>2. CASE k' = Queued(k, <<"enable", 0>>)
    BY <1>1, <2>2, OwnFunctors, QueuedKeeps DEF Good
  <2>3. QED
    BY <2>1, <2>2 DEF CallerEnables
<1>3. /\ phase' = phase /\ batch' = batch /\ revents' = revents
      /\ caller' \in BOOLEAN /\ inputs' \in 0..MaxInputs
  BY DEF CallerEnables, loopVars, ConnectionInv
<1>4. QED
  BY <1>2, <1>3, LoopStays

\* The last reference goes.
LEMMA ReleaseKeeps == ASSUME ConnectionInv, Release PROVE ConnectionInv'
<1> DEFINE x == NewConnection
<1>1. Good(x) /\ x.closes = 0 /\ x \in Connections
  BY NewIsGood DEF Good, Fine
<1>2. k' = [x EXCEPT !.status = "gone", !.ended = TRUE]
  BY DEF Release
<1> HIDE DEF x
<1>3. Light(x, k')
  <2>1. k' \in Connections
    BY <1>1, <1>2, ZenonT(60) DEF Connections
  <2>2. SameIn(x, k') /\ SameOut(x, k') /\ SameBudget(x, k') /\ SameLife(x, k')
    BY <1>1, <1>2 DEF SameIn, SameOut, SameBudget, SameLife, Connections
  <2>3. QED
    BY <2>1, <2>2 DEF Light
<1>4. Good(k') /\ k'.closes = 0
  BY <1>1, <1>3, LightIsGood DEF Grown
<1>5. /\ phase' = "poll" /\ batch' = batch /\ revents' = revents
      /\ caller' \in BOOLEAN /\ inputs' \in 0..MaxInputs
  BY DEF Release, loopVars, userVars, ConnectionInv
<1>6. Swapped(k', "poll", batch) /\ Closing(k', "poll", batch)
  BY <1>4 DEF ConnectionInv, Swapped, Closing
<1>7. QED
  BY <1>4, <1>5, <1>6 DEF ConnectionInv

\* The peer writes, reads, closes or resets.
LEMMA PeerKeeps ==
  ASSUME ConnectionInv, PeerEnds \/ Drain \/ \E s \in Chunks : Arrive(s)
  PROVE  ConnectionInv'
<1>1. Good(k) /\ k \in Connections
  BY DEF ConnectionInv, Good, Fine
<1>2. Capacity \in 0..Capacity
  BY ConnectionAssumption
<1>3. CASE PeerEnds
  <2>1. ASSUME k' = [k EXCEPT !.peer = "closed"] PROVE Light(k, k')
    BY <1>1, <2>1 DEF Light, SameIn, SameOut, SameBudget, SameLife, Connections
  <2>2. ASSUME k' = [k EXCEPT !.peer = "reset", !.soError = TRUE] PROVE Light(k, k')
    BY <1>1, <2>2 DEF Light, SameIn, SameOut, SameBudget, SameLife, Connections
  <2>3. Light(k, k')
    BY <1>3, <2>1, <2>2 DEF PeerEnds
  <2>4. QED
    BY <1>1, <1>3, <2>3, InputIs, LightIsGood, LoopStays
       DEF PeerEnds, loopVars, ConnectionInv
<1>4. CASE Drain
  <2>1. k' = [k EXCEPT !.room = Capacity]
    BY <1>4 DEF Drain
  <2>2. Light(k, k')
    BY <1>1, <1>2, <2>1 DEF Light, SameIn, SameOut, SameBudget, SameLife, Connections
  <2>3. QED
    BY <1>1, <1>4, <2>2, LightIsGood, LoopStays
       DEF Drain, loopVars, userVars, ConnectionInv
<1>5. ASSUME NEW s \in Chunks, Arrive(s) PROVE ConnectionInv'
  <2> DEFINE i == k.inbox \o s
  <2>1. s \in Seq(Nat) /\ k.inbox \in Seq(Nat)
    BY <1>1, FieldsAre, ConnectionAssumption
  <2>2. i \in Seq(Nat)
    BY <2>1, JoinIs
  <2>3. k' = [k EXCEPT !.inbox = i]
    BY <1>5 DEF Arrive
  <2> HIDE DEF i
  <2>4. Light(k, k')
    BY <1>1, <2>2, <2>3 DEF Light, SameIn, SameOut, SameBudget, SameLife, Connections
  <2>5. Good(k') /\ Grown(k, k')
    BY <1>1, <2>4, LightIsGood
  <2>6. /\ phase' = phase /\ batch' = batch /\ revents' = revents
        /\ caller' \in BOOLEAN /\ inputs' \in 0..MaxInputs
    BY <1>5, InputIs DEF Arrive, loopVars, ConnectionInv
  <2>7. QED
    BY <2>5, <2>6, LoopStays
<1>6. QED
  BY <1>3, <1>4, <1>5

\* The invariant holds in every reachable state.
LEMMA ConnectionInvHolds == ConnectionSpec => []ConnectionInv
<1>1. ASSUME ConnectionInv, ConnectionNext PROVE ConnectionInv'
  <2>1. CASE LoopStep
    BY <1>1, <2>1, PollKeeps, RunStepKeeps, SwapKeeps, HandlePendingKeeps DEF LoopStep
  <2>2. CASE Accept \/ CallerEnables \/ Release
    BY <1>1, <2>2, AcceptKeeps, CallerEnablesKeeps, ReleaseKeeps
  <2>3. ASSUME NEW f \in UserCalls, CallInLoop(f) \/ CallFromOutside(f)
        PROVE  ConnectionInv'
    BY <1>1, <2>3, CallInLoopKeeps, CallFromOutsideKeeps
  <2>4. CASE PeerEnds \/ Drain \/ \E s \in Chunks : Arrive(s)
    BY <1>1, <2>4, PeerKeeps
  <2>5. QED
    BY <1>1, <2>1, <2>2, <2>3, <2>4 DEF ConnectionNext
<1>2. ASSUME ConnectionInv, UNCHANGED connectionVars PROVE ConnectionInv'
  <2>1. /\ k' = k /\ phase' = phase /\ revents' = revents /\ batch' = batch
        /\ caller' = caller /\ inputs' = inputs
    BY <1>2 DEF connectionVars, loopVars, userVars
  <2>2. QED
    BY <1>2, <2>1 DEF ConnectionInv
<1>3. QED
  BY <1>1, <1>2, ConnectionStarts, PTL DEF ConnectionSpec

\* Between two steps of its loop a connection has its types; bytes wait exactly while
\* its flag for writing is set, which then asks for the event, or since the user
\* appended them to getWriteBuffer() with nobody writing; and once all have left the
\* user has been told for all of them.  That is so for every number of calls, of
\* arrivals and of bytes, with callbacks that call back.
THEOREM ConnectionStaysLegal == ConnectionSpec => []ConnectionLegal
<1>1. ASSUME ConnectionInv PROVE ConnectionLegal
  <2>1. k \in Connections /\ FineOut(k)
    BY <1>1 DEF ConnectionInv, Good, Fine
  <2>2. Seq(Nat) \subseteq Seq(Int)
    OBVIOUS
  <2>3. Buffers \subseteq [data : Seq(Int), readerIndex : Nat,
                           writerIndex : Nat, lastWriteBytes : Nat]
    BY <2>2 DEF Buffers
  <2>4. WritingMatchesBuffer
    BY <2>1 DEF WritingMatchesBuffer, FineOut, Flags
  <2>5. ConnectionTypeOK
    BY <1>1, <2>1, <2>2, <2>3
       DEF ConnectionTypeOK, ConnectionInv, Swapped, Connections
  <2>6. QED
    BY <2>4, <2>5 DEF ConnectionLegal
<1>2. QED
  BY <1>1, ConnectionInvHolds, PTL

\* Every byte goes to the peer once, in the order of the writes unless a callback for
\* the high-water mark wrote before the rest of a message was appended, and every
\* byte of the peer is in the read buffer, in order, until the user takes it.
THEOREM ConnectionKeepsOrder == ConnectionSpec => []BytesInOrder
<1>1. ASSUME ConnectionInv PROVE BytesInOrder
  <2>1. k \in Connections /\ Placed(k, <<>>) /\ FineIn(k)
    BY <1>1 DEF ConnectionInv, Good, Fine, FineOut
  <2>2. (k.delivered \o k.out) \o <<>> = k.delivered \o k.out
    BY <2>1, BytesAre
  <2>3. QED
    BY <2>1, <2>2 DEF Placed, Numbers, FineIn, BytesInOrder
<1>2. QED
  BY <1>1, ConnectionInvHolds, PTL

\* However peer, errors and users end the connection, the close callback is called
\* once at most.
THEOREM ConnectionClosesOnce == ConnectionSpec => []ClosesOnce
<1>1. ASSUME ConnectionInv PROVE ClosesOnce
  BY <1>1 DEF ConnectionInv, Closing, ClosesOnce
<1>2. QED
  BY <1>1, ConnectionInvHolds, PTL

-----------------------------------------------------------------------------
(* TCPEcho. *)

\* The programs without fairness.
EchoSpec == EchoInit /\ [][EchoNext]_echoVars

\* What a client, a link and the server are.
EchoClients ==
  [loop : Loops, running_ : BOOLEAN, connected_ : BOOLEAN, connection_ : BOOLEAN,
   connector_ : {"null", "trying", "done"}, messageCount_ : Counts,
   timers : 0..1, received : Seq(Counts)]
Links ==
  [there : Seq(Counts), back : Seq(Counts), near : {"none", "open", "closed"},
   far : {"none", "backlog", "open", "closed"}, fd : Fds \cup {0}, reset : BOOLEAN]

\* The messages of q are those that follow the first n.
Follows(q, n) == \A i \in 1..Len(q) : q[i] = n + i

\* A link is reset only when an end is closed, and has a descriptor of the
\* server exactly while the server has its end open.
LinkFine(l) ==
  /\ l \in Links
  /\ l.near = "none" => l = NoLink
  /\ l.reset => l.near = "closed" \/ l.far = "closed"
  /\ l.far = "open" <=> l.fd # 0

\* A client that has sent nothing yet.
Fresh(x) ==
  /\ ~x.connected_ /\ ~x.connection_ /\ x.messageCount_ = 0 /\ x.timers = 0
  /\ x.received = <<>>

\* Of n messages q have been received; b are on their way back and follow them,
\* and t are on their way there and follow those, unless they are lost.
Flow(q, b, t, n, lost) ==
  /\ Follows(b, Len(q)) /\ Len(q) + Len(b) <= n
  /\ ~lost => Follows(t, Len(q) + Len(b)) /\ Len(q) + Len(b) + Len(t) = n

Lost(l) == l.far = "closed" \/ l.reset

InFlight(x, l) == Flow(x.received, l.back, l.there, x.messageCount_, Lost(l))

ClientFine(x, l) ==
  /\ x \in EchoClients /\ LinkFine(l)
  /\ Follows(x.received, 0) /\ Len(x.received) <= x.messageCount_
  /\ x.connected_ => /\ x.running_ /\ x.connection_ /\ x.loop \in {"running", "aborted"}
                     /\ x.connector_ = "done" /\ l.near # "none" /\ InFlight(x, l)
  /\ x.loop = "aborted" => x.connection_
  /\ x.connector_ = "trying" => /\ x.loop = "running" /\ x.running_ /\ Fresh(x)
                                /\ l.there = <<>> /\ l.back = <<>>
  /\ x.loop = "setup" => Fresh(x) /\ l = NoLink /\ x.connector_ = "null"

Servers == [loop : Loops, running_ : BOOLEAN, listenSocket_ : BOOLEAN,
            clients_ : [Fds -> Clients \cup {nobody}]]

\* The inductive invariant.
EchoInv ==
  /\ client \in [Clients -> EchoClients] /\ server \in Servers
  /\ link \in [Clients -> Links]
  /\ \A d \in Clients : ClientFine(client[d], link[d])
  /\ ClientsAreOpen

\* The server's end is as it was.
SameFar(l, m) == m.fd = l.fd /\ (m.far = "open" <=> l.far = "open")

\* A step of client d alone.
LEMMA OneClient ==
  ASSUME EchoInv, NEW d \in Clients, NEW x, NEW l, Becomes(d, x, l),
         ClientFine(x, l), SameFar(link[d], l)
  PROVE  EchoInv'
<1>1. client' = [client EXCEPT ![d] = x] /\ link' = [link EXCEPT ![d] = l]
      /\ server' = server /\ x \in EchoClients /\ l \in Links
  BY DEF Becomes, ClientFine, LinkFine
<1>2. client' \in [Clients -> EchoClients] /\ link' \in [Clients -> Links]
      /\ server' \in Servers
  BY <1>1 DEF EchoInv
<1>3. \A e \in Clients : client'[e] = (IF e = d THEN x ELSE client[e])
                         /\ link'[e] = (IF e = d THEN l ELSE link[e])
  BY <1>1 DEF EchoInv
<1>4. ASSUME NEW e \in Clients PROVE ClientFine(client'[e], link'[e])
  BY <1>3 DEF EchoInv
<1>5. ClientsAreOpen'
  BY <1>1, <1>3 DEF EchoInv, ClientsAreOpen, SameFar
<1>6. QED
  BY <1>2, <1>4, <1>5 DEF EchoInv

\* Numbers of messages are naturals.
LEMMA EchoNumbers == Counts \subseteq Nat /\ MaxMessages \in Nat \ {0} /\ 0 \in Counts /\ 1 \in Counts
BY EchoAssumption DEF Counts

\* Descriptors are positive naturals, and there are finitely many clients.
LEMMA FdsAreNumbers == IsFiniteSet(Clients) /\ Cardinality(Clients) \in Nat /\ Fds \subseteq Nat /\ 0 \notin Fds
BY EchoAssumption, FS_CardinalityType DEF Fds

\* No link is one.
LEMMA NoLinkFine == LinkFine(NoLink)
<1>1. <<>> \in Seq(Counts)
  OBVIOUS
<1>2. NoLink \in Links
  BY <1>1 DEF NoLink, Links
<1>3. QED
  BY <1>2 DEF NoLink, LinkFine

\* The client closes its end: what was on its way back is lost.
LEMMA CloseNearFine ==
  ASSUME NEW l, LinkFine(l)
  PROVE  /\ LinkFine(CloseNear(l)) /\ SameFar(l, CloseNear(l))
         /\ CloseNear(l).near = (IF l.near = "open" THEN "closed" ELSE l.near)
         /\ CloseNear(l).far = l.far /\ CloseNear(l).there = l.there
         /\ (l.reset => CloseNear(l).reset)
         /\ (l.near = "none" => CloseNear(l) = l)
         /\ CloseNear(l).back = (IF l.near = "open" THEN <<>> ELSE l.back)
         /\ (l.back # <<>> /\ l.near = "open" => CloseNear(l).reset)
<1>1. CASE l.near # "open"
  BY <1>1 DEF CloseNear, SameFar
<1>2. CASE l.near = "open"
  <2> DEFINE b == l.reset \/ l.back # <<>>
             m == [l EXCEPT !.near = "closed", !.reset = b, !.back = <<>>]
  <2>1. CloseNear(l) = m
    BY <1>2 DEF CloseNear
  <2>2. b \in BOOLEAN /\ <<>> \in Seq(Counts) /\ l \in Links
    BY DEF LinkFine
  <2> HIDE DEF b
  <2>3. m \in Links /\ m.near = "closed" /\ m.far = l.far /\ m.there = l.there
        /\ m.back = <<>> /\ m.fd = l.fd /\ m.reset = b
    BY <2>2 DEF Links
  <2>4. QED
    BY <2>1, <2>3, <1>2 DEF LinkFine, SameFar, b
<1>3. QED
  BY <1>1, <1>2

\* A message is on its way to the server, unless that has gone.
LEMMA WriteThereFine ==
  ASSUME NEW l, LinkFine(l), l.near # "none", NEW data \in Seq(Counts)
  PROVE  /\ LinkFine(WriteThere(l, data)) /\ SameFar(l, WriteThere(l, data))
         /\ WriteThere(l, data).near = l.near /\ WriteThere(l, data).far = l.far
         /\ WriteThere(l, data).back = l.back
         /\ (l.far # "closed" => WriteThere(l, data).there = l.there \o data
                                 /\ WriteThere(l, data).reset = l.reset)
<1>1. CASE l.far = "closed"
  <2> DEFINE m == [l EXCEPT !.reset = TRUE]
  <2>1. WriteThere(l, data) = m
    BY <1>1 DEF WriteThere
  <2>2. l \in Links
    BY DEF LinkFine
  <2>3. m \in Links /\ m.near = l.near /\ m.far = l.far
        /\ m.back = l.back /\ m.fd = l.fd
    BY <2>2 DEF Links
  <2>4. QED
    BY <2>1, <2>3, <1>1 DEF LinkFine, SameFar
<1>2. CASE l.far # "closed"
  <2> DEFINE m == [l EXCEPT !.there = l.there \o data]
  <2>1. WriteThere(l, data) = m
    BY <1>2 DEF WriteThere
  <2>2. l \in Links /\ l.there \in Seq(Counts)
    BY DEF LinkFine, Links
  <2>3. l.there \o data \in Seq(Counts)
    BY <2>2
  <2>4. m \in Links /\ m.near = l.near /\ m.far = l.far /\ m.reset = l.reset
        /\ m.back = l.back /\ m.fd = l.fd /\ m.there = l.there \o data
    BY <2>2, <2>3 DEF Links
  <2>5. QED
    BY <2>1, <2>4, <1>2 DEF LinkFine, SameFar
<1>3. QED
  BY <1>1, <1>2

\* An echo is on its way to the client, unless that has gone.
LEMMA WriteBackFine ==
  ASSUME NEW l, LinkFine(l), l.near # "none", NEW data \in Seq(Counts)
  PROVE  /\ LinkFine(WriteBack(l, data)) /\ SameFar(l, WriteBack(l, data))
         /\ WriteBack(l, data).near = l.near /\ WriteBack(l, data).far = l.far
         /\ WriteBack(l, data).there = l.there
         /\ (l.near = "closed" => WriteBack(l, data).reset
                                  /\ WriteBack(l, data).back = l.back)
         /\ (l.near # "closed" => WriteBack(l, data).back = l.back \o data
                                 /\ WriteBack(l, data).reset = l.reset)
<1>1. CASE l.near = "closed"
  <2> DEFINE m == [l EXCEPT !.reset = TRUE]
  <2>1. WriteBack(l, data) = m
    BY <1>1 DEF WriteBack
  <2>2. l \in Links
    BY DEF LinkFine
  <2>3. m \in Links /\ m.near = l.near /\ m.far = l.far /\ m.reset
        /\ m.back = l.back /\ m.there = l.there /\ m.fd = l.fd
    BY <2>2 DEF Links
  <2>4. QED
    BY <2>1, <2>3, <1>1 DEF LinkFine, SameFar
<1>2. CASE l.near # "closed"
  <2> DEFINE m == [l EXCEPT !.back = l.back \o data]
  <2>1. WriteBack(l, data) = m
    BY <1>2 DEF WriteBack
  <2>2. l \in Links /\ l.back \in Seq(Counts)
    BY DEF LinkFine, Links
  <2>3. l.back \o data \in Seq(Counts)
    BY <2>2
  <2>4. m \in Links /\ m.near = l.near /\ m.far = l.far /\ m.reset = l.reset
        /\ m.there = l.there /\ m.fd = l.fd /\ m.back = l.back \o data
    BY <2>2, <2>3 DEF Links
  <2>5. QED
    BY <2>1, <2>4, <1>2 DEF LinkFine, SameFar
<1>3. QED
  BY <1>1, <1>2

\* The server closes its end: what was on its way there is lost.
LEMMA CloseFarFine ==
  ASSUME NEW l, LinkFine(l)
  PROVE  /\ LinkFine(CloseFar(l)) /\ CloseFar(l).fd = 0 /\ CloseFar(l).far # "open"
         /\ CloseFar(l).near = l.near /\ CloseFar(l).back = l.back
         /\ (l = NoLink => CloseFar(l) = l)
         /\ (CloseFar(l) = l \/ (CloseFar(l).far = "closed" /\ CloseFar(l).there = <<>>))
<1>1. CASE l.far \notin {"open", "backlog"}
  BY <1>1 DEF CloseFar, LinkFine
<1> USE DEF NoLink
<1>2. CASE l.far = "open"
  <2> DEFINE b == l.reset \/ l.there # <<>>
             m == [l EXCEPT !.far = "closed", !.fd = 0, !.reset = b, !.there = <<>>]
  <2>1. CloseFar(l) = m
    BY <1>2 DEF CloseFar
  <2>2. b \in BOOLEAN /\ <<>> \in Seq(Counts) /\ l \in Links
    BY DEF LinkFine
  <2> HIDE DEF b
  <2>3. m \in Links /\ m.near = l.near /\ m.far = "closed" /\ m.there = <<>>
        /\ m.back = l.back /\ m.fd = 0 /\ m.reset = b
    BY <2>2 DEF Links
  <2>4. l.near # "none"
    BY <1>2 DEF LinkFine, NoLink
  <2>5. QED
    BY <2>1, <2>3, <2>4 DEF LinkFine
<1>3. CASE l.far = "backlog"
  <2> DEFINE m == [l EXCEPT !.far = "closed", !.reset = TRUE, !.there = <<>>]
  <2>1. CloseFar(l) = m
    BY <1>3 DEF CloseFar
  <2>2. <<>> \in Seq(Counts) /\ l \in Links /\ l.fd = 0
    BY <1>3 DEF LinkFine
  <2>3. m \in Links /\ m.near = l.near /\ m.far = "closed" /\ m.there = <<>>
        /\ m.back = l.back /\ m.fd = l.fd
    BY <2>2 DEF Links
  <2>4. l.near # "none"
    BY <1>3 DEF LinkFine, NoLink
  <2>5. QED
    BY <2>1, <2>2, <2>3, <2>4 DEF LinkFine
<1>4. QED
  BY <1>1, <1>2, <1>3

\* What is left of a run, and two of them.
LEMMA FollowsRest ==
  ASSUME NEW q \in Seq(Counts), NEW n \in Nat, Follows(q, n), NEW i \in 1..Len(q)
  PROVE  /\ Follows(SubSeq(q, 1, i), n) /\ Follows(SubSeq(q, i + 1, Len(q)), n + i)
         /\ SubSeq(q, 1, i) \in Seq(Counts) /\ Len(SubSeq(q, 1, i)) = i
         /\ SubSeq(q, i + 1, Len(q)) \in Seq(Counts)
         /\ Len(SubSeq(q, i + 1, Len(q))) = Len(q) - i
BY DEF Follows

\* Two runs, one after the other, are one.
LEMMA FollowsBoth ==
  ASSUME NEW q \in Seq(Counts), NEW r \in Seq(Counts), NEW n \in Nat,
         Follows(q, n), Follows(r, n + Len(q))
  PROVE  Follows(q \o r, n) /\ q \o r \in Seq(Counts) /\ Len(q \o r) = Len(q) + Len(r)
BY DEF Follows

\* A message is sent, echoes are read or written, or what is on its way is lost.
LEMMA FlowSend ==
  ASSUME NEW q \in Seq(Counts), NEW b \in Seq(Counts), NEW t \in Seq(Counts),
         NEW n \in Nat, NEW lost, Flow(q, b, t, n, lost), n + 1 \in Counts
  PROVE  Flow(q, b, t \o <<n + 1>>, n + 1, lost) /\ Flow(q, b, t, n + 1, TRUE)
<1> DEFINE lq == Len(q)
           lb == Len(b)
           lt == Len(t)
           m == n + 1
           s == <<m>>
<1>1. lq \in Nat /\ lb \in Nat /\ lt \in Nat /\ lq + lb \in Nat
  OBVIOUS
<1>2. /\ Follows(b, lq) /\ lq + lb <= n
      /\ ~lost => Follows(t, lq + lb) /\ lq + lb + lt = n
  BY DEF Flow
<1>3. s \in Seq(Counts) /\ Len(s) = 1 /\ s[1] = m
  OBVIOUS
<1>4. Len(t \o s) = lt + 1
  OBVIOUS
<1>5. m = n + 1
  OBVIOUS
<1> HIDE DEF lq, lb, lt, m, s
<1>6. lq + lb <= m /\ (lq + lb + lt = n => lq + lb + (lt + 1) = m)
  BY ONLY <1>1, <1>2, <1>5, n \in Nat
<1>7. ASSUME ~lost PROVE Follows(t \o s, lq + lb)
  <2>1. Follows(s, lq + lb + lt)
    <3>1. lq + lb + lt + 1 = m
      BY ONLY <1>1, <1>2, <1>5, <1>7, n \in Nat
    <3>2. QED
      BY ONLY <3>1, <1>3 DEF Follows
  <2>2. QED
    BY <2>1, <1>1, <1>2, <1>3, <1>7, FollowsBoth DEF lt
<1>8. Flow(q, b, t \o s, m, lost) /\ Flow(q, b, t, m, TRUE)
  BY ONLY <1>2, <1>4, <1>6, <1>7 DEF Flow, lq, lb
<1>9. QED
  BY <1>8 DEF m, s

\* Some of the echoes are received.
LEMMA FlowReceive ==
  ASSUME NEW q \in Seq(Counts), NEW b \in Seq(Counts), NEW t \in Seq(Counts),
         NEW n \in Nat, NEW lost, Flow(q, b, t, n, lost), Follows(q, 0),
         NEW i \in 1..Len(b)
  PROVE  /\ Flow(q \o SubSeq(b, 1, i), SubSeq(b, i + 1, Len(b)), t, n, lost)
         /\ Follows(q \o SubSeq(b, 1, i), 0) /\ Len(q \o SubSeq(b, 1, i)) <= n
         /\ q \o SubSeq(b, 1, i) \in Seq(Counts)
<1> DEFINE lq == Len(q)
           lb == Len(b)
           first == SubSeq(b, 1, i)
           rest == SubSeq(b, i + 1, Len(b))
           new == q \o first
<1>1. lq \in Nat /\ lb \in Nat /\ i \in Nat /\ i <= lb /\ 0 + lq = lq
  OBVIOUS
<1>2. /\ Follows(b, lq) /\ lq + lb <= n
      /\ ~lost => Follows(t, lq + lb) /\ lq + lb + Len(t) = n
  BY DEF Flow
<1>3. /\ Follows(first, lq) /\ Follows(rest, lq + i)
      /\ first \in Seq(Counts) /\ Len(first) = i
      /\ rest \in Seq(Counts) /\ Len(rest) = lb - i
  BY <1>1, <1>2, FollowsRest
<1> HIDE DEF first, rest
<1>4. Follows(new, 0) /\ new \in Seq(Counts) /\ Len(new) = lq + i
  <2>1. Follows(first, 0 + Len(q)) /\ 0 \in Nat
    BY <1>1, <1>3
  <2>2. QED
    BY ONLY <2>1, <1>3, q \in Seq(Counts), Follows(q, 0), FollowsBoth
<1> HIDE DEF lq, lb, new
<1>5. (lq + i) + (lb - i) = lq + lb /\ lq + i <= n
  BY ONLY <1>1, <1>2, n \in Nat
<1>6. Flow(new, rest, t, n, lost) /\ Len(new) <= n
  BY ONLY <1>2, <1>3, <1>4, <1>5 DEF Flow
<1>7. QED
  BY <1>4, <1>6 DEF first, rest, new

\* Some of the messages are echoed.
LEMMA FlowEcho ==
  ASSUME NEW q \in Seq(Counts), NEW b \in Seq(Counts), NEW t \in Seq(Counts),
         NEW n \in Nat, Flow(q, b, t, n, FALSE), NEW i \in 1..Len(t)
  PROVE  Flow(q, b \o SubSeq(t, 1, i), SubSeq(t, i + 1, Len(t)), n, FALSE)
<1> DEFINE lq == Len(q)
           lb == Len(b)
           lt == Len(t)
           first == SubSeq(t, 1, i)
           rest == SubSeq(t, i + 1, Len(t))
           new == b \o first
<1>1. lq \in Nat /\ lb \in Nat /\ lt \in Nat /\ i \in Nat /\ i <= lt /\ lq + lb \in Nat
  OBVIOUS
<1>2. Follows(b, lq) /\ lq + lb <= n /\ Follows(t, lq + lb) /\ lq + lb + lt = n
  BY DEF Flow
<1>3. /\ Follows(first, lq + lb) /\ Follows(rest, lq + lb + i)
      /\ first \in Seq(Counts) /\ Len(first) = i
      /\ rest \in Seq(Counts) /\ Len(rest) = lt - i
  BY <1>1, <1>2, FollowsRest
<1> HIDE DEF first, rest
<1>4. Follows(new, lq) /\ Len(new) = lb + i
  BY ONLY <1>1, <1>2, <1>3, b \in Seq(Counts), FollowsBoth DEF lb, new
<1> HIDE DEF lq, lb, lt, new
<1>5. /\ lq + (lb + i) = lq + lb + i /\ lq + (lb + i) <= n
      /\ lq + (lb + i) + (lt - i) = n
  BY ONLY <1>1, <1>2, n \in Nat
<1>6. Flow(q, new, rest, n, FALSE)
  BY ONLY <1>3, <1>4, <1>5 DEF Flow, lq
<1>7. QED
  BY <1>6 DEF first, rest, new

\* What is on its way is lost.
LEMMA FlowLost ==
  ASSUME NEW q \in Seq(Counts), NEW b \in Seq(Counts), NEW t, NEW n \in Nat,
         NEW lost, Flow(q, b, t, n, lost), NEW u
  PROVE  Flow(q, <<>>, u, n, TRUE) /\ Flow(q, b, u, n, TRUE)
<1>1. Len(q) \in Nat /\ Len(b) \in Nat
  OBVIOUS
<1>2. QED
  BY <1>1 DEF Flow, Follows

\* Messages in order are a prefix of those that have been sent, and when none is
\* lost all of them.
LEMMA Prefix ==
  ASSUME NEW q \in Seq(Counts), NEW n \in Nat, Follows(q, 0), Len(q) <= n
  PROVE  q = SubSeq([i \in 1..n |-> i], 1, Len(q))
<1> DEFINE sent == [i \in 1..n |-> i]
           p == SubSeq(sent, 1, Len(q))
<1>1. sent \in Seq(Nat) /\ Len(sent) = n /\ Len(q) \in Nat
  OBVIOUS
<1>2. Len(p) = Len(q) /\ \A i \in 1..Len(q) : p[i] = i
  BY <1>1
<1>3. q \in Seq(Nat) /\ p \in Seq(Nat)
  <2>1. q \in Seq(Nat)
    <3>1. \A i \in 1..Len(q) : q[i] = i /\ i \in Nat
      BY DEF Follows
    <3>2. QED
      BY <3>1
  <2>2. p \in Seq(Nat)
    BY <1>1
  <2>3. QED
    BY <2>1, <2>2
<1>4. \A i \in 1..Len(q) : q[i] = i
  BY DEF Follows
<1> HIDE DEF p
<1>5. q = p
  BY <1>2, <1>3, <1>4, SMTT(30)
<1>6. QED
  BY <1>5 DEF p

\* Nothing is lost: what has been received or is on its way is what has been sent.
LEMMA Whole ==
  ASSUME NEW q \in Seq(Counts), NEW b \in Seq(Counts), NEW t \in Seq(Counts),
         NEW n \in Nat, Follows(q, 0), Flow(q, b, t, n, FALSE)
  PROVE  q \o b \o t = [i \in 1..n |-> i]
<1>1. 0 \in Nat /\ Len(q) \in Nat /\ Len(b) \in Nat /\ Len(t) \in Nat /\ 0 + Len(q) = Len(q)
  OBVIOUS
<1>2. Follows(b, 0 + Len(q)) /\ Follows(t, Len(q) + Len(b)) /\ Len(q) + Len(b) + Len(t) = n
  BY <1>1 DEF Flow
<1>3. Follows(q \o b, 0) /\ q \o b \in Seq(Counts) /\ Len(q \o b) = Len(q) + Len(b)
  BY ONLY <1>1, <1>2, q \in Seq(Counts), b \in Seq(Counts), Follows(q, 0), FollowsBoth
<1>4. Len(q \o b) \in Nat /\ 0 + Len(q \o b) = Len(q \o b)
  BY <1>3
<1>5. Follows(t, 0 + Len(q \o b))
  BY <1>2, <1>3, <1>4
<1> DEFINE all == q \o b \o t
<1>6. Follows(all, 0) /\ all \in Seq(Counts) /\ Len(all) = Len(q \o b) + Len(t)
  BY ONLY <1>1, <1>3, <1>5, t \in Seq(Counts), FollowsBoth
<1>7. Len(all) = n
  BY <1>2, <1>3, <1>6
<1> HIDE DEF all
<1>8. \A i \in 1..n : all[i] = i
  BY <1>6, <1>7 DEF Follows
<1>9. all = [i \in 1..n |-> i]
  BY <1>6, <1>7, <1>8
<1>10. QED
  BY <1>9 DEF all

\* What a client counts and has received.
LEMMA SizesAre ==
  ASSUME NEW x \in EchoClients
  PROVE  /\ x.messageCount_ \in Nat /\ x.messageCount_ \in Counts
         /\ x.received \in Seq(Counts)
<1>1. x.messageCount_ \in Counts /\ x.received \in Seq(Counts)
  BY DEF EchoClients
<1>2. x.messageCount_ \in Nat
  BY <1>1, EchoNumbers
<1>3. QED
  BY <1>1, <1>2

\* What is on its way.
LEMMA LinkSizes ==
  ASSUME NEW l, LinkFine(l)
  PROVE  l.back \in Seq(Counts) /\ l.there \in Seq(Counts) /\ l.reset \in BOOLEAN
BY DEF LinkFine, Links

\* sendMessage() through a connection that has been reset.
LEMMA AbortFine ==
  ASSUME NEW x, NEW l, ClientFine(x, l), x.connected_, l.reset
  PROVE  ClientFine([x EXCEPT !.loop = "aborted"], CloseNear(l))
<1> DEFINE y == [x EXCEPT !.loop = "aborted"]
           m == CloseNear(l)
<1>1. /\ y \in EchoClients /\ y.running_ = x.running_ /\ y.connected_ = x.connected_
      /\ y.connection_ = x.connection_ /\ y.connector_ = x.connector_
      /\ y.messageCount_ = x.messageCount_ /\ y.received = x.received
      /\ y.timers = x.timers /\ y.loop = "aborted"
  BY DEF ClientFine, EchoClients, Loops
<1>2. /\ LinkFine(m) /\ m.near = (IF l.near = "open" THEN "closed" ELSE l.near)
      /\ m.reset /\ m.back = (IF l.near = "open" THEN <<>> ELSE l.back)
  BY CloseNearFine DEF ClientFine
<1>3. /\ l.near # "none" /\ InFlight(x, l) /\ x.connection_ /\ x.running_
      /\ x.connector_ = "done" /\ Follows(x.received, 0)
      /\ Len(x.received) <= x.messageCount_ /\ x \in EchoClients /\ LinkFine(l)
  BY DEF ClientFine
<1> HIDE DEF y, m
<1>4. InFlight(y, m)
  <2>1. Lost(l) /\ Lost(m)
    BY <1>2 DEF Lost
  <2>2. Flow(x.received, <<>>, m.there, x.messageCount_, TRUE)
        /\ Flow(x.received, l.back, m.there, x.messageCount_, TRUE)
    BY ONLY <1>3, SizesAre, LinkSizes, FlowLost DEF InFlight
  <2>3. QED
    BY <2>1, <2>2, <1>1, <1>2 DEF InFlight
<1>5. ClientFine(y, m)
  BY <1>1, <1>2, <1>3, <1>4 DEF ClientFine
<1>6. QED
  BY <1>5 DEF y, m

\* sendMessage() through one that has not, as far as the client knows.
LEMMA SendFine ==
  ASSUME NEW x, NEW l, ClientFine(x, l), Sends(x), ~l.reset, x.loop = "running",
         x.messageCount_ < MaxMessages, x.timers = 0
  PROVE  LET n == x.messageCount_ + 1
         IN ClientFine(scheduleNextMessage([x EXCEPT !.messageCount_ = n]),
                       WriteThere(l, <<n>>))
<1> DEFINE n == x.messageCount_ + 1
           y == [x EXCEPT !.messageCount_ = n, !.timers = 1]
           m == WriteThere(l, <<n>>)
<1>1. x \in EchoClients /\ n \in Counts /\ x.messageCount_ \in Nat /\ n \in Nat
      /\ n = x.messageCount_ + 1 /\ 1 \in 0..1
  BY EchoNumbers DEF ClientFine, EchoClients, Counts
<1>2. scheduleNextMessage([x EXCEPT !.messageCount_ = n]) = y
  <2> DEFINE z == [x EXCEPT !.messageCount_ = n]
  <2>1. z.running_ /\ z.connected_ /\ z.timers = 0
    BY <1>1 DEF Sends, EchoClients
  <2>2. scheduleNextMessage(z) = [z EXCEPT !.timers = @ + 1]
    BY <2>1 DEF scheduleNextMessage
  <2>3. z.timers + 1 = 1
    BY <2>1
  <2>4. [z EXCEPT !.timers = 1] = y
    BY <1>1 DEF EchoClients
  <2>5. QED
    BY <2>2, <2>3, <2>4
<1> HIDE DEF n
<1>3. /\ y \in EchoClients /\ y.running_ = x.running_ /\ y.connected_ = x.connected_
      /\ y.connection_ = x.connection_ /\ y.connector_ = x.connector_
      /\ y.messageCount_ = n /\ y.received = x.received /\ y.loop = x.loop
  BY <1>1 DEF EchoClients
<1>4. l.near # "none" /\ InFlight(x, l) /\ x.connection_ /\ x.running_ /\ x.connector_ = "done"
      /\ Follows(x.received, 0) /\ x.connected_ /\ LinkFine(l)
  BY <1>1 DEF ClientFine, Sends
<1>5. <<n>> \in Seq(Counts)
  BY <1>1
<1>6. /\ LinkFine(m) /\ m.near = l.near /\ m.far = l.far /\ m.back = l.back
      /\ (l.far # "closed" => m.there = l.there \o <<n>> /\ m.reset = l.reset)
  BY ONLY <1>4, <1>5, WriteThereFine
<1> HIDE DEF y, m
<1>7. /\ Flow(x.received, l.back, l.there \o <<n>>, n, Lost(l))
      /\ Flow(x.received, l.back, l.there, n, TRUE)
  BY ONLY <1>1, <1>4, SizesAre, LinkSizes, FlowSend DEF InFlight
<1>8. InFlight(y, m)
  <2>1. CASE l.far = "closed"
    <3>1. Flow(x.received, l.back, m.there, n, TRUE) /\ Lost(m)
      BY <2>1, <1>6, <1>7 DEF Lost, Flow
    <3>2. QED
      BY <3>1, <1>3, <1>6 DEF InFlight
  <2>2. CASE l.far # "closed"
    <3>1. Lost(m) = Lost(l)
      BY <2>2, <1>6 DEF Lost
    <3>2. QED
      BY <2>2, <3>1, <1>3, <1>6, <1>7 DEF InFlight
  <2>3. QED
    BY <2>1, <2>2
<1>9. Len(y.received) <= y.messageCount_
  <2>1. \A e \in Nat : e <= x.messageCount_ => e <= n
    BY <1>1
  <2>2. Len(x.received) <= x.messageCount_ /\ Len(x.received) \in Nat
    BY <1>1, SizesAre DEF ClientFine
  <2>3. QED
    BY <2>1, <2>2, <1>3
<1>10. ClientFine(y, m)
  BY <1>3, <1>4, <1>6, <1>8, <1>9 DEF ClientFine
<1>11. QED
  BY <1>2, <1>10 DEF y, m, n

\* sendMessage() of a client whose timer has just fired, or that is new.
LEMMA SendKeeps ==
  ASSUME EchoInv, NEW d \in Clients, NEW x, ClientFine(x, link[d]), sendMessage(d, x),
         Runs(x), x.timers = 0, Sends(x) => x.messageCount_ < MaxMessages
  PROVE  EchoInv'
<1>1. CASE ~Sends(x)
  <2>1. Becomes(d, x, link[d]) /\ SameFar(link[d], link[d])
    BY <1>1 DEF sendMessage, SameFar
  <2>2. QED
    BY <2>1, OneClient
<1>2. CASE Sends(x) /\ (~x.connection_ \/ link[d].reset)
  <2>1. Becomes(d, [x EXCEPT !.loop = "aborted"], CloseNear(link[d]))
    BY <1>2 DEF sendMessage
  <2>2. x.connected_ /\ link[d].reset /\ LinkFine(link[d])
    BY <1>2 DEF Sends, ClientFine
  <2>3. ClientFine([x EXCEPT !.loop = "aborted"], CloseNear(link[d]))
    BY <2>2, AbortFine
  <2>4. SameFar(link[d], CloseNear(link[d]))
    BY <2>2, CloseNearFine
  <2>5. QED
    BY <2>1, <2>3, <2>4, OneClient
<1>3. CASE Sends(x) /\ ~(~x.connection_ \/ link[d].reset)
  <2> DEFINE n == x.messageCount_ + 1
             y == scheduleNextMessage([x EXCEPT !.messageCount_ = n])
             m == WriteThere(link[d], <<n>>)
  <2>1. Becomes(d, y, m)
    BY <1>3 DEF sendMessage
  <2>2. x.loop = "running" /\ LinkFine(link[d]) /\ link[d].near # "none"
    BY <1>3 DEF Sends, ClientFine, Runs
  <2>3. ClientFine(y, m)
    BY <1>3, <2>2, SendFine
  <2>4. <<n>> \in Seq(Counts)
    BY <1>3, EchoNumbers DEF ClientFine, EchoClients, Counts
  <2>5. SameFar(link[d], m)
    BY <2>2, <2>4, WriteThereFine
  <2> HIDE DEF y, m
  <2>6. QED
    BY <2>1, <2>3, <2>5, OneClient
<1>4. QED
  BY <1>1, <1>2, <1>3

\* handleNewConnection().
LEMMA NewConnectionKeeps ==
  ASSUME EchoInv, NEW d \in Clients, HandleNewConnection(d)
  PROVE  EchoInv'
<1> DEFINE x == client[d]
           l == link[d]
           y == [x EXCEPT !.connector_ = "done", !.connection_ = TRUE, !.connected_ = TRUE]
<1>1. /\ ClientFine(x, l) /\ x.loop = "running" /\ x.running_ /\ Fresh(x)
      /\ l.there = <<>> /\ l.back = <<>> /\ l.near = "open" /\ x \in EchoClients
      /\ LinkFine(l) /\ x.connector_ = "trying"
  BY DEF EchoInv, HandleNewConnection, ClientFine
<1>2. CASE sendMessage(d, y)
  <2>1. /\ y \in EchoClients /\ y.loop = "running" /\ y.running_ /\ y.connected_
        /\ y.connection_ /\ y.connector_ = "done" /\ y.messageCount_ = 0
        /\ y.timers = 0 /\ y.received = <<>>
    BY <1>1 DEF EchoClients, Fresh
  <2> HIDE DEF y
  <2>2. InFlight(y, l)
    <3>1. Flow(<<>>, <<>>, <<>>, 0, Lost(l))
      BY DEF Flow, Follows
    <3>2. QED
      BY <3>1, <1>1, <2>1 DEF InFlight
  <2>3. ClientFine(y, l)
    BY <1>1, <2>1, <2>2 DEF ClientFine, Follows
  <2>4. Runs(y) /\ y.messageCount_ < MaxMessages
    BY <2>1, EchoNumbers DEF Runs
  <2>5. QED
    BY ONLY EchoInv, d \in Clients, <1>2, <2>1, <2>3, <2>4, SendKeeps
<1>3. CASE l.reset /\ Becomes(d, x, NoLink)
  <2>1. l.far = "closed" /\ l.fd = 0
    BY <1>1, <1>3 DEF LinkFine
  <2>2. SameFar(l, NoLink)
    BY <2>1 DEF SameFar, NoLink
  <2>3. ClientFine(x, NoLink)
    BY <1>1, NoLinkFine DEF ClientFine, NoLink, Fresh
  <2>4. QED
    BY <1>3, <2>2, <2>3, OneClient
<1>4. QED
  BY <1>2, <1>3 DEF HandleNewConnection

\* What ends a client's connection leaves it what it has received, and nothing
\* that it would have to keep a connection for.
LEMMA EndedFine ==
  ASSUME NEW x, NEW l, ClientFine(x, l), NEW y \in EchoClients, NEW m,
         LinkFine(m), ~y.connected_, y.received = x.received,
         y.messageCount_ = x.messageCount_, y.loop \notin {"aborted", "setup"},
         y.connector_ # "trying"
  PROVE  ClientFine(y, m)
BY DEF ClientFine

\* handleDisconnect() and handleError() leave no connection to write through.
LEMMA UnwoundFine ==
  ASSUME NEW x \in EchoClients
  PROVE  LET y == Unwound(x)
         IN /\ y \in EchoClients /\ ~y.connected_ /\ y.received = x.received
            /\ y.messageCount_ = x.messageCount_ /\ y.connector_ = x.connector_
            /\ y.loop = (IF x.loop = "running" THEN "quit" ELSE x.loop)
<1> DEFINE z == [x EXCEPT !.connected_ = FALSE, !.running_ = FALSE]
           e == IF z.loop = "running" THEN "quit" ELSE z.loop
           y == [z EXCEPT !.loop = e]
<1>1. /\ z \in EchoClients /\ ~z.connected_ /\ z.received = x.received
      /\ z.messageCount_ = x.messageCount_ /\ z.connector_ = x.connector_
      /\ z.loop = x.loop
  BY DEF EchoClients
<1>2. Unwound(x) = y
  BY DEF Unwound, ToldToEnd
<1> HIDE DEF z
<1>3. e \in Loops /\ e = (IF x.loop = "running" THEN "quit" ELSE x.loop)
  BY <1>1 DEF Loops, EchoClients
<1> HIDE DEF e
<1>4. /\ y \in EchoClients /\ ~y.connected_ /\ y.received = z.received
      /\ y.messageCount_ = z.messageCount_ /\ y.connector_ = z.connector_ /\ y.loop = e
  BY <1>1, <1>3 DEF EchoClients
<1>5. QED
  BY <1>1, <1>2, <1>3, <1>4

\* The connector gives up.
LEMMA FailedConnectionKeeps ==
  ASSUME EchoInv, NEW d \in Clients, FailedConnection(d)
  PROVE  EchoInv'
<1> DEFINE x == client[d]
           z == [x EXCEPT !.connector_ = "done"]
           y == Unwound(z)
           m == CloseNear(link[d])
<1>1. ClientFine(x, link[d]) /\ x \in EchoClients /\ LinkFine(link[d]) /\ Runs(x)
  BY DEF EchoInv, FailedConnection, ClientFine
<1>2. /\ z \in EchoClients /\ z.received = x.received /\ z.connector_ = "done"
      /\ z.messageCount_ = x.messageCount_ /\ z.loop = x.loop
  BY <1>1 DEF EchoClients
<1> HIDE DEF z
<1>3. /\ y \in EchoClients /\ ~y.connected_ /\ y.received = x.received
      /\ y.messageCount_ = x.messageCount_ /\ y.connector_ = "done" /\ y.loop = "quit"
  BY <1>1, <1>2, UnwoundFine DEF Runs
<1>4. LinkFine(m) /\ SameFar(link[d], m)
  BY <1>1, CloseNearFine
<1>5. Becomes(d, y, m)
  BY DEF FailedConnection, z
<1> HIDE DEF y, m
<1>6. ClientFine(y, m)
  BY <1>1, <1>3, <1>4, EndedFine
<1>7. QED
  BY <1>4, <1>5, <1>6, OneClient

\* handleDisconnect().
LEMMA HandleDisconnectKeeps ==
  ASSUME EchoInv, NEW d \in Clients, HandleDisconnect(d)
  PROVE  EchoInv'
<1> DEFINE x == client[d]
           y == Unwound(x)
<1>1. /\ ClientFine(x, link[d]) /\ x \in EchoClients /\ LinkFine(link[d]) /\ Runs(x)
      /\ x.connector_ # "trying"
  BY DEF EchoInv, HandleDisconnect, HasConnection, ClientFine, Fresh
<1>2. /\ y \in EchoClients /\ ~y.connected_ /\ y.received = x.received
      /\ y.messageCount_ = x.messageCount_ /\ y.connector_ # "trying" /\ y.loop = "quit"
  BY <1>1, UnwoundFine DEF Runs
<1>3. Becomes(d, y, link[d]) /\ SameFar(link[d], link[d])
  BY DEF HandleDisconnect, SameFar
<1> HIDE DEF y
<1>4. ClientFine(y, link[d])
  BY <1>1, <1>2, EndedFine
<1>5. QED
  BY <1>3, <1>4, OneClient

\* start() of a client.
LEMMA ClientStartKeeps ==
  ASSUME EchoInv, NEW d \in Clients, ClientStart(d)
  PROVE  EchoInv'
<1> DEFINE x == client[d]
           y == [x EXCEPT !.loop = "running", !.running_ = TRUE, !.connector_ = "trying"]
<1>1. ClientFine(x, link[d]) /\ x \in EchoClients /\ Fresh(x) /\ link[d] = NoLink
  BY DEF EchoInv, ClientStart, ClientFine
<1>2. /\ y \in EchoClients /\ y.loop = "running" /\ y.running_ /\ Fresh(y)
      /\ y.received = x.received /\ y.messageCount_ = x.messageCount_
  BY <1>1 DEF EchoClients, Fresh, Loops
<1>3. Becomes(d, y, link[d]) /\ SameFar(link[d], link[d])
  BY DEF ClientStart, SameFar
<1> HIDE DEF y
<1>4. ClientFine(y, link[d])
  BY <1>1, <1>2 DEF ClientFine, Fresh, NoLink
<1>5. QED
  BY <1>3, <1>4, OneClient

\* The timer of scheduleNextMessage() fires, perhaps after stop().
LEMMA TimerFiresKeeps ==
  ASSUME EchoInv, NEW d \in Clients, TimerFires(d)
  PROVE  EchoInv'
<1> DEFINE x == client[d]
           y == [x EXCEPT !.timers = 0]
<1>1. /\ ClientFine(x, link[d]) /\ x \in EchoClients /\ Runs(x) /\ x.timers = 1
      /\ x.messageCount_ < MaxMessages /\ x.connector_ # "trying" /\ x.loop # "setup"
  BY DEF EchoInv, TimerFires, ClientFine, EchoClients, Runs, Fresh
<1>2. sendMessage(d, y)
  BY <1>1 DEF TimerFires
<1>3. /\ y \in EchoClients /\ y.running_ = x.running_ /\ y.connected_ = x.connected_
      /\ y.connection_ = x.connection_ /\ y.connector_ = x.connector_
      /\ y.messageCount_ = x.messageCount_ /\ y.received = x.received
      /\ y.timers = 0 /\ y.loop = x.loop
  BY <1>1 DEF EchoClients
<1> HIDE DEF y
<1>4. ClientFine(y, link[d])
  BY <1>1, <1>3 DEF ClientFine, InFlight
<1>5. Runs(y)
  BY <1>1, <1>3 DEF Runs
<1>6. QED
  BY ONLY EchoInv, d \in Clients, <1>1, <1>2, <1>3, <1>4, <1>5, SendKeeps

\* handleServerResponse(): any number of the echoes that wait.
LEMMA HandleServerResponseKeeps ==
  ASSUME EchoInv, NEW d \in Clients, HandleServerResponse(d)
  PROVE  EchoInv'
<1> DEFINE x == client[d]
           l == link[d]
<1>1. PICK n \in 1..Len(l.back) :
        Becomes(d, [x EXCEPT !.received = IF x.connected_ THEN @ \o SubSeq(l.back, 1, n)
                                                          ELSE @],
                [l EXCEPT !.back = SubSeq(@, n + 1, Len(@))])
  BY DEF HandleServerResponse
<1> DEFINE q == IF x.connected_ THEN x.received \o SubSeq(l.back, 1, n) ELSE x.received
           rest == SubSeq(l.back, n + 1, Len(l.back))
           y == [x EXCEPT !.received = q]
           m == [l EXCEPT !.back = rest]
<1>2. /\ ClientFine(x, l) /\ x \in EchoClients /\ LinkFine(l) /\ Runs(x) /\ x.connection_
      /\ x.messageCount_ \in Nat /\ x.received \in Seq(Counts)
      /\ l.back \in Seq(Counts) /\ l.there \in Seq(Counts) /\ Follows(x.received, 0)
      /\ Len(x.received) <= x.messageCount_
  <2>1. ClientFine(x, l) /\ x \in EchoClients /\ LinkFine(l) /\ Runs(x) /\ x.connection_
        /\ Follows(x.received, 0) /\ Len(x.received) <= x.messageCount_
    BY DEF EchoInv, HandleServerResponse, HasConnection, ClientFine
  <2>2. QED
    BY ONLY <2>1, SizesAre, LinkSizes
<1>3. x.connector_ # "trying" /\ x.loop # "setup" /\ l.near # "none"
  <2>1. l.back # <<>>
    OBVIOUS
  <2>2. QED
    BY <1>2, <2>1 DEF ClientFine, LinkFine, NoLink, Fresh
<1>4. /\ q \in Seq(Counts) /\ Follows(q, 0) /\ Len(q) <= x.messageCount_
      /\ x.connected_ => Flow(q, rest, l.there, x.messageCount_, Lost(l))
  <2>1. CASE ~x.connected_
    BY <1>2, <2>1
  <2>2. CASE x.connected_
    <3>1. Flow(x.received, l.back, l.there, x.messageCount_, Lost(l))
      BY <1>2, <2>2 DEF ClientFine, InFlight
    <3>2. q = x.received \o SubSeq(l.back, 1, n)
      BY <2>2
    <3>3. QED
      BY ONLY <1>2, <3>1, <3>2, n \in 1..Len(l.back), FlowReceive
  <2>3. QED
    BY <2>1, <2>2
<1>5. rest \in Seq(Counts)
  BY <1>2
<1>6. Becomes(d, y, m)
  BY <1>1
<1> HIDE DEF q, rest
<1>7. /\ y \in EchoClients /\ y.running_ = x.running_ /\ y.connected_ = x.connected_
      /\ y.connection_ = x.connection_ /\ y.connector_ = x.connector_
      /\ y.messageCount_ = x.messageCount_ /\ y.received = q /\ y.loop = x.loop
  BY <1>2, <1>4 DEF EchoClients
<1>8. /\ m \in Links /\ m.near = l.near /\ m.far = l.far /\ m.reset = l.reset
      /\ m.there = l.there /\ m.fd = l.fd /\ m.back = rest
  BY <1>2, <1>5 DEF Links, LinkFine
<1> HIDE DEF y, m
<1>9. LinkFine(m) /\ SameFar(l, m) /\ Lost(m) = Lost(l)
  BY <1>2, <1>3, <1>8 DEF LinkFine, SameFar, Lost
<1>10. x.connected_ => InFlight(y, m)
  BY <1>4, <1>7, <1>8, <1>9 DEF InFlight
<1>11. ClientFine(y, m)
  BY <1>2, <1>3, <1>4, <1>7, <1>8, <1>9, <1>10 DEF ClientFine, Runs
<1>12. QED
  BY <1>6, <1>9, <1>11, OneClient

\* SIGINT at a client, once or again.
LEMMA InterruptKeeps ==
  ASSUME EchoInv, NEW d \in Clients, Interrupt(d)
  PROVE  EchoInv'
<1> DEFINE x == client[d]
           l == link[d]
           z == Stopped(x)
           m == IF x.running_ THEN CloseNear(l) ELSE l
           e == IF z.loop = "running" THEN "quit" ELSE z.loop
           y == [z EXCEPT !.loop = e]
<1>1. ClientFine(x, l) /\ x \in EchoClients /\ LinkFine(l) /\ Runs(x)
  BY DEF EchoInv, Interrupt, ClientFine
<1>2. Becomes(d, y, m)
  BY DEF Interrupt, ToldToEnd
<1>3. /\ z \in EchoClients /\ ~z.connected_ /\ z.received = x.received
      /\ z.messageCount_ = x.messageCount_ /\ z.loop = x.loop /\ z.connector_ # "trying"
  <2>1. CASE x.running_
    <3> DEFINE v == [x EXCEPT !.running_ = FALSE, !.connected_ = FALSE,
                              !.connection_ = FALSE, !.connector_ = "null"]
    <3>1. z = v
      BY <2>1 DEF Stopped
    <3>2. /\ v \in EchoClients /\ ~v.connected_ /\ v.received = x.received
          /\ v.messageCount_ = x.messageCount_ /\ v.loop = x.loop /\ v.connector_ = "null"
      BY <1>1 DEF EchoClients
    <3>3. QED
      BY <3>1, <3>2
  <2>2. CASE ~x.running_
    BY <1>1, <2>2 DEF Stopped, ClientFine
  <2>3. QED
    BY <2>1, <2>2
<1>4. LinkFine(m) /\ SameFar(l, m)
  BY <1>1, CloseNearFine DEF SameFar
<1> HIDE DEF z, m
<1>5. e \in Loops /\ e = "quit"
  BY <1>1, <1>3 DEF Loops, Runs
<1> HIDE DEF e
<1>6. /\ y \in EchoClients /\ ~y.connected_ /\ y.received = x.received
      /\ y.messageCount_ = x.messageCount_ /\ y.loop = "quit" /\ y.connector_ # "trying"
  BY <1>3, <1>5 DEF EchoClients
<1> HIDE DEF y
<1>7. ClientFine(y, m)
  BY <1>1, <1>4, <1>6, EndedFine
<1>8. QED
  BY <1>2, <1>4, <1>7, OneClient

\* A client ends, with its descriptors.
LEMMA ClientEndsKeeps ==
  ASSUME EchoInv, NEW d \in Clients, ClientEnds(d)
  PROVE  EchoInv'
<1> DEFINE x == client[d]
           l == link[d]
           m == CloseNear(l)
           y == [x EXCEPT !.loop = "ended", !.timers = 0, !.connection_ = FALSE]
<1>1. /\ ClientFine(x, l) /\ x \in EchoClients /\ LinkFine(l) /\ ~x.connected_
      /\ x.connector_ # "trying"
  BY DEF EchoInv, ClientEnds, ClientFine
<1>2. Becomes(d, y, m)
  BY DEF ClientEnds
<1>3. LinkFine(m) /\ SameFar(l, m)
  BY <1>1, CloseNearFine
<1>4. /\ y \in EchoClients /\ ~y.connected_ /\ y.received = x.received
      /\ y.messageCount_ = x.messageCount_ /\ y.loop = "ended" /\ y.connector_ # "trying"
  <2>1. 0 \in 0..1 /\ "ended" \in Loops
    BY DEF Loops
  <2>2. y \in EchoClients
    BY <1>1, <2>1 DEF EchoClients
  <2>3. /\ y.connected_ = x.connected_ /\ y.received = x.received
        /\ y.messageCount_ = x.messageCount_ /\ y.loop = "ended"
        /\ y.connector_ = x.connector_
    BY <1>1 DEF EchoClients
  <2>4. QED
    BY <2>2, <2>3, <1>1
<1> HIDE DEF y, m
<1>5. ClientFine(y, m)
  BY <1>1, <1>3, <1>4, EndedFine
<1>6. QED
  BY <1>2, <1>3, <1>5, OneClient

\* The kernels connect; the server has not accepted yet.
LEMMA HandshakeKeeps ==
  ASSUME EchoInv, NEW d \in Clients, Handshake(d)
  PROVE  EchoInv'
<1> DEFINE x == client[d]
           l == link[d]
           m == [l EXCEPT !.near = "open", !.far = "backlog"]
<1>1. /\ ClientFine(x, l) /\ x.connector_ = "trying" /\ l = NoLink /\ LinkFine(l)
      /\ x \in EchoClients
  BY DEF EchoInv, Handshake, ClientFine, LinkFine
<1>2. Becomes(d, x, m)
  <2>1. client' = [client EXCEPT ![d] = x]
    BY DEF Handshake, EchoInv
  <2>2. link' = [link EXCEPT ![d] = m]
    BY DEF Handshake, EchoInv
  <2>3. QED
    BY <2>1, <2>2 DEF Becomes, Handshake
<1>3. /\ m \in Links /\ m.near = "open" /\ m.far = "backlog" /\ m.reset = l.reset
      /\ m.there = l.there /\ m.fd = l.fd /\ m.back = l.back
  BY <1>1 DEF Links, LinkFine
<1> HIDE DEF m
<1>4. LinkFine(m) /\ SameFar(l, m)
  BY <1>1, <1>3 DEF LinkFine, SameFar, NoLink
<1>5. ClientFine(x, m)
  BY <1>1, <1>3, <1>4 DEF ClientFine, Fresh
<1>6. QED
  BY <1>2, <1>4, <1>5, OneClient

\* start() of the server.
LEMMA ServerStartKeeps ==
  ASSUME EchoInv, ServerStart
  PROVE  EchoInv'
<1>1. server' \in Servers /\ server'.clients_ = server.clients_
  BY DEF ServerStart, EchoInv, Servers, Loops
<1>2. client' = client /\ link' = link
  BY DEF ServerStart
<1>3. QED
  BY <1>1, <1>2 DEF EchoInv, ClientsAreOpen

\* The server closes its end.
LEMMA CloseFarKeeps ==
  ASSUME NEW x, NEW l, ClientFine(x, l)
  PROVE  ClientFine(x, CloseFar(l))
<1> DEFINE m == CloseFar(l)
<1>1. x \in EchoClients /\ LinkFine(l)
  BY DEF ClientFine
<1>2. /\ LinkFine(m) /\ m.near = l.near /\ m.back = l.back
      /\ (l = NoLink => m = l) /\ (m = l \/ (m.far = "closed" /\ m.there = <<>>))
  BY <1>1, CloseFarFine
<1> HIDE DEF m
<1>3. CASE m = l
  BY <1>3 DEF m
<1>4. CASE m # l
  <2>1. Lost(m) /\ m.there = <<>> /\ l # NoLink
    BY <1>2, <1>4 DEF Lost
  <2>2. x.connected_ => InFlight(x, m)
    <3>1. SUFFICES ASSUME x.connected_ PROVE InFlight(x, m)
      OBVIOUS
    <3>2. Flow(x.received, l.back, l.there, x.messageCount_, Lost(l))
      BY <3>1 DEF ClientFine, InFlight
    <3>3. Flow(x.received, l.back, m.there, x.messageCount_, TRUE)
      BY ONLY <1>1, <3>2, SizesAre, LinkSizes, FlowLost
    <3>4. QED
      BY <3>3, <2>1, <1>2 DEF InFlight
  <2>3. ClientFine(x, m)
    BY <1>2, <2>1, <2>2 DEF ClientFine
  <2>4. QED
    BY <2>3 DEF m
<1>5. QED
  BY <1>3, <1>4

\* The server closes its end of every link.
LEMMA AllClosedKeeps ==
  ASSUME EchoInv, UNCHANGED client, server' \in Servers,
         server'.clients_ = [fd \in Fds |-> nobody],
         link' = [d \in Clients |-> CloseFar(link[d])]
  PROVE  EchoInv'
<1>1. ASSUME NEW d \in Clients
      PROVE  /\ ClientFine(client'[d], link'[d]) /\ link'[d] \in Links
             /\ link'[d].far # "open"
  <2>1. ClientFine(client[d], link[d]) /\ LinkFine(link[d]) /\ link'[d] = CloseFar(link[d])
    BY DEF EchoInv, ClientFine
  <2>2. LinkFine(CloseFar(link[d])) /\ CloseFar(link[d]).far # "open"
    BY <2>1, CloseFarFine
  <2>3. QED
    BY <2>1, <2>2, CloseFarKeeps DEF LinkFine
<1>2. ClientsAreOpen'
  BY <1>1, EchoAssumption DEF ClientsAreOpen
<1>3. link' \in [Clients -> Links]
  BY <1>1
<1>4. QED
  BY <1>1, <1>2, <1>3 DEF EchoInv

\* The server is gone, and its descriptors with it.
LEMMA ServerGoneKeeps ==
  ASSUME EchoInv, NEW how \in Loops, ServerGone(how), UNCHANGED client
  PROVE  EchoInv'
<1> DEFINE t == [server EXCEPT !.loop = how, !.listenSocket_ = FALSE,
                               !.clients_ = [fd \in Fds |-> nobody]]
<1>1. server' = t /\ link' = [d \in Clients |-> CloseFar(link[d])]
  BY DEF ServerGone
<1>2. server \in Servers /\ [fd \in Fds |-> nobody] \in [Fds -> Clients \cup {nobody}]
  BY DEF EchoInv
<1>3. t \in Servers /\ t.clients_ = [fd \in Fds |-> nobody]
  BY <1>2 DEF Servers
<1> HIDE DEF t
<1>4. QED
  BY <1>1, <1>3, AllClosedKeeps

\* SIGINT at the server.
LEMMA ServerInterruptKeeps ==
  ASSUME EchoInv, ServerInterrupt
  PROVE  EchoInv'
<1> DEFINE none == [fd \in Fds |-> nobody]
           t == [server EXCEPT !.running_ = FALSE, !.listenSocket_ = FALSE,
                               !.clients_ = none]
           e == IF t.loop = "running" THEN "quit" ELSE t.loop
           u == [t EXCEPT !.loop = e]
<1>1. /\ server' = u /\ link' = [d \in Clients |-> CloseFar(link[d])]
      /\ client' = client
  BY DEF ServerInterrupt, ToldToEnd
<1>2. server \in Servers /\ none \in [Fds -> Clients \cup {nobody}]
  BY DEF EchoInv
<1> HIDE DEF none
<1>3. t \in Servers /\ t.clients_ = none
  BY <1>2 DEF Servers
<1> HIDE DEF t
<1>4. e \in Loops
  BY <1>3 DEF Servers, Loops
<1> HIDE DEF e
<1>5. u \in Servers /\ u.clients_ = none
  BY <1>3, <1>4 DEF Servers
<1> HIDE DEF u
<1>6. QED
  BY <1>1, <1>5, AllClosedKeeps DEF none

\* The server closes its end of d's link and erases the entry.
LEMMA HandleClientDisconnectKeeps ==
  ASSUME EchoInv, NEW d \in Clients, HandleClientDisconnect(d)
  PROVE  EchoInv'
<1> DEFINE l == link[d]
           m == CloseFar(l)
           fd == l.fd
           t == [server EXCEPT !.clients_[fd] = nobody]
<1>1. link' = [link EXCEPT ![d] = m] /\ server' = t /\ client' = client
      /\ l.far = "open"
  BY DEF HandleClientDisconnect, CloseAndErase
<1>2. ClientFine(client[d], l) /\ LinkFine(l) /\ server \in Servers
      /\ link \in [Clients -> Links]
  BY DEF EchoInv, ClientFine
<1>3. fd \in Fds
  BY <1>1, <1>2 DEF LinkFine, Links
<1>4. LinkFine(m) /\ m.fd = 0 /\ m.far # "open" /\ ClientFine(client[d], m)
  BY <1>2, CloseFarFine, CloseFarKeeps
<1> HIDE DEF m
<1>5. \A e \in Clients : link'[e] = (IF e = d THEN m ELSE link[e])
  BY <1>1, <1>2
<1>6. t \in Servers /\ t.clients_ = [server.clients_ EXCEPT ![fd] = nobody]
      /\ server.clients_ \in [Fds -> Clients \cup {nobody}]
  BY <1>2, <1>3 DEF Servers
<1> HIDE DEF t
<1>7. \A f \in Fds : server'.clients_[f] = (IF f = fd THEN nobody ELSE server.clients_[f])
  BY <1>1, <1>6
<1>8. ClientsAreOpen'
  <2>1. \A f \in Fds, e \in Clients :
          server.clients_[f] = e <=> link[e].far = "open" /\ link[e].fd = f
    BY DEF EchoInv, ClientsAreOpen
  <2>2. server.clients_[fd] = d
    BY <2>1, <1>1, <1>3
  <2>3. ASSUME NEW f \in Fds, NEW e \in Clients
        PROVE  server'.clients_[f] = e <=> link'[e].far = "open" /\ link'[e].fd = f
    <3>1. CASE e = d
      BY <2>1, <3>1, <1>1, <1>4, <1>5, <1>7, EchoAssumption
    <3>2. CASE e # d /\ f = fd
      <4>1. server'.clients_[f] # e
        BY <3>2, <1>7, EchoAssumption
      <4>2. ~(link[e].far = "open" /\ link[e].fd = f)
        BY <2>1, <2>2, <3>2, <1>3
      <4>3. QED
        BY <4>1, <4>2, <3>2, <1>5
    <3>3. CASE e # d /\ f # fd
      BY <2>1, <3>3, <1>5, <1>7
    <3>4. QED
      BY <3>1, <3>2, <3>3
  <2>4. QED
    BY <2>3 DEF ClientsAreOpen
<1>9. link' \in [Clients -> Links]
  BY <1>1, <1>2, <1>4 DEF LinkFine
<1>10. ASSUME NEW e \in Clients PROVE ClientFine(client'[e], link'[e])
  BY <1>1, <1>4, <1>5 DEF EchoInv
<1>11. QED
  BY <1>1, <1>6, <1>8, <1>9, <1>10 DEF EchoInv

\* While a client waits in the backlog, a descriptor of the server is free: the
\* others have one each at the most.
LEMMA AFreeFd ==
  ASSUME EchoInv, NEW d \in Clients, link[d].far = "backlog"
  PROVE  LET free == {n \in Fds : \A e \in Clients : link[e].fd # n}
         IN Min(free) \in free
<1> DEFINE free == {n \in Fds : \A e \in Clients : link[e].fd # n}
           D == {e \in Clients : link[e].fd # 0}
           f == [e \in D |-> link[e].fd]
<1>1. \A e \in Clients : LinkFine(link[e]) /\ link[e].fd \in Fds \cup {0}
  BY DEF EchoInv, ClientFine, LinkFine, Links
<1>2. link[d].fd = 0
  BY <1>1 DEF LinkFine
<1>3. D \subseteq Clients \ {d} /\ IsFiniteSet(D)
  BY <1>2, FdsAreNumbers, FS_Subset
<1>4. IsFiniteSet(Clients \ {d}) /\ Cardinality(Clients \ {d}) = Cardinality(Clients) - 1
  BY FdsAreNumbers, FS_RemoveElement
<1>5. Cardinality(D) <= Cardinality(Clients) - 1
  BY <1>3, <1>4, FS_Subset
<1>6. free # {}
  <2>1. SUFFICES ASSUME free = {} PROVE FALSE
    OBVIOUS
  <2>2. \A n \in Fds : \E e \in D : f[e] = n
    BY <2>1, FdsAreNumbers
  <2>3. f \in [D -> Fds]
    BY <1>1
  <2>4. f \in Surjection(D, Fds)
    BY <2>2, <2>3 DEF Surjection
  <2>5. Cardinality(Fds) <= Cardinality(D)
    BY <2>4, <1>3, FS_Surjection
  <2>6. Cardinality(Fds) = Cardinality(Clients)
    BY FdsAreNumbers, FS_Interval DEF Fds
  <2>7. Cardinality(D) \in Nat
    BY <1>3, FS_CardinalityType
  <2>8. QED
    BY <1>5, <2>5, <2>6, <2>7, FdsAreNumbers
<1>7. \E x \in free : \A y \in free : x <= y
  BY <1>6, FdsAreNumbers, LeastElement
<1>8. Min(free) \in free
  BY <1>7 DEF Min
<1>9. QED
  BY <1>8

\* The server accepts a client, under a descriptor nobody has.
LEMMA ServerAcceptsKeeps ==
  ASSUME EchoInv, NEW d \in Clients, ServerAccepts(d)
  PROVE  EchoInv'
<1> DEFINE fd == Min({n \in Fds : \A e \in Clients : link[e].fd # n})
           l == link[d]
           m == [l EXCEPT !.far = "open", !.fd = fd]
           t == [server EXCEPT !.clients_[fd] = d]
<1>1. l.far = "backlog" /\ server' = t /\ client' = client
      /\ link' = [link EXCEPT ![d].far = "open", ![d].fd = fd]
  BY DEF ServerAccepts
<1>2. fd \in Fds /\ \A e \in Clients : link[e].fd # fd
  BY <1>1, AFreeFd
<1> HIDE DEF fd
<1>3. ClientFine(client[d], l) /\ LinkFine(l) /\ server \in Servers
      /\ link \in [Clients -> Links] /\ l \in Links /\ l.near # "none" /\ l.fd = 0 /\ fd # 0
  BY <1>1, <1>2, FdsAreNumbers DEF EchoInv, ClientFine, LinkFine, NoLink
<1>4. link' = [link EXCEPT ![d] = m]
  BY <1>1, <1>3
<1>5. /\ m \in Links /\ m.near = l.near /\ m.far = "open" /\ m.reset = l.reset
      /\ m.there = l.there /\ m.fd = fd /\ m.back = l.back
  BY <1>2, <1>3 DEF Links
<1>6. t \in Servers /\ t.clients_ = [server.clients_ EXCEPT ![fd] = d]
      /\ server.clients_ \in [Fds -> Clients \cup {nobody}]
  BY <1>2, <1>3 DEF Servers
<1> HIDE DEF m, t
<1>7. \A f \in Fds : server'.clients_[f] = (IF f = fd THEN d ELSE server.clients_[f])
  BY <1>1, <1>6
<1>8. \A e \in Clients : link'[e] = (IF e = d THEN m ELSE link[e])
  BY <1>3, <1>4
<1>9. LinkFine(m)
  BY <1>1, <1>3, <1>5 DEF LinkFine
<1>10. ClientFine(client[d], m)
  <2>1. Lost(m) = Lost(l)
    BY <1>1, <1>5 DEF Lost
  <2>2. l # NoLink
    BY <1>3 DEF NoLink
  <2>3. QED
    BY <1>3, <1>5, <1>9, <2>1, <2>2 DEF ClientFine, InFlight
<1>11. ClientsAreOpen'
  <2>1. \A f \in Fds, e \in Clients :
          server.clients_[f] = e <=> link[e].far = "open" /\ link[e].fd = f
    BY DEF EchoInv, ClientsAreOpen
  <2>2. ASSUME NEW f \in Fds, NEW e \in Clients
        PROVE  server'.clients_[f] = e <=> link'[e].far = "open" /\ link'[e].fd = f
    <3>1. CASE f = fd
      BY <1>2, <3>1, <1>5, <1>7, <1>8
    <3>2. CASE f # fd /\ e # d
      BY <2>1, <3>2, <1>7, <1>8
    <3>3. CASE f # fd /\ e = d
      <4>1. server.clients_[f] # e
        BY <2>1, <3>3, <1>1
      <4>2. link'[e].fd # f
        BY <3>3, <1>5, <1>8
      <4>3. QED
        BY <4>1, <4>2, <3>3, <1>7
    <3>4. QED
      BY <3>1, <3>2, <3>3
  <2>3. QED
    BY <2>2 DEF ClientsAreOpen
<1>12. link' \in [Clients -> Links]
  BY <1>3, <1>4, <1>5
<1>13. ASSUME NEW e \in Clients PROVE ClientFine(client'[e], link'[e])
  BY <1>1, <1>8, <1>10 DEF EchoInv
<1>14. QED
  BY <1>1, <1>6, <1>11, <1>12, <1>13 DEF EchoInv

\* The server's own step on d's link, which leaves its end open.
LEMMA HandleClientDataKeeps ==
  ASSUME EchoInv, NEW d \in Clients, HandleClientData(d)
  PROVE  EchoInv'
<1> DEFINE x == client[d]
           l == link[d]
<1>1. PICK n \in 1..Len(l.there) :
        LET data == SubSeq(l.there, 1, n)
            rest == [l EXCEPT !.there = SubSeq(@, n + 1, Len(@))]
            found == server.clients_[l.fd]
        IN CASE found = nobody -> link' = [link EXCEPT ![d] = rest]
                                  /\ UNCHANGED server
             [] found # nobody /\ link[found].reset -> ServerGone("aborted")
             [] OTHER -> /\ link' = [[link EXCEPT ![d] = rest] EXCEPT
                                       ![found] = WriteBack(@, Echo(data))]
                         /\ UNCHANGED server
  BY DEF HandleClientData
<1> DEFINE data == SubSeq(l.there, 1, n)
           left == SubSeq(l.there, n + 1, Len(l.there))
           rest == [l EXCEPT !.there = left]
<1>2. /\ ClientFine(x, l) /\ x \in EchoClients /\ LinkFine(l) /\ l \in Links
      /\ l.far = "open" /\ l.near # "none" /\ client' = client
      /\ link \in [Clients -> Links] /\ server \in Servers
  BY DEF EchoInv, HandleClientData, ClientFine, LinkFine, NoLink
<1>3. server.clients_[l.fd] = d /\ d # nobody
  <2>1. l.fd \in Fds
    BY <1>2 DEF LinkFine, Links
  <2>2. QED
    BY <1>2, <2>1, EchoAssumption DEF EchoInv, ClientsAreOpen
<1>4. CASE l.reset
  <2>1. ServerGone("aborted")
    BY <1>1, <1>3, <1>4
  <2>2. "aborted" \in Loops
    BY DEF Loops
  <2>3. QED
    BY <2>1, <2>2, <1>2, ServerGoneKeeps
<1>5. CASE ~l.reset
  <2> DEFINE m == WriteBack(rest, data)
  <2>1. l.there \in Seq(Counts) /\ data \in Seq(Counts) /\ left \in Seq(Counts)
        /\ l.back \in Seq(Counts) /\ l.there # <<>>
    BY <1>2 DEF Links
  <2>2. link' = [[link EXCEPT ![d] = rest] EXCEPT ![d] = WriteBack(@, data)]
        /\ server' = server
    BY <1>1, <1>3, <1>5 DEF Echo
  <2>3. link' = [link EXCEPT ![d] = m]
    BY <2>2, <1>2
  <2> HIDE DEF data, left
  <2>4. /\ rest \in Links /\ rest.near = l.near /\ rest.far = l.far /\ rest.reset = l.reset
        /\ rest.there = left /\ rest.fd = l.fd /\ rest.back = l.back
    BY <1>2, <2>1 DEF Links
  <2> HIDE DEF rest
  <2>5. LinkFine(rest) /\ rest.near # "none"
    BY <1>2, <2>4 DEF LinkFine
  <2>6. /\ LinkFine(m) /\ SameFar(rest, m) /\ m.near = l.near /\ m.far = l.far
        /\ m.there = left
        /\ (l.near = "closed" => m.reset /\ m.back = l.back)
        /\ (l.near # "closed" => m.back = l.back \o data /\ m.reset = l.reset)
    <3>1. /\ LinkFine(m) /\ SameFar(rest, m) /\ m.near = rest.near /\ m.far = rest.far
          /\ m.there = rest.there
          /\ (rest.near = "closed" => m.reset /\ m.back = rest.back)
          /\ (rest.near # "closed" => m.back = rest.back \o data /\ m.reset = rest.reset)
      BY ONLY <2>1, <2>5, WriteBackFine
    <3>2. QED
      BY <2>4, <3>1
  <2>7. SameFar(l, m)
    BY <2>4, <2>6 DEF SameFar
  <2> HIDE DEF m
  <2>8. x.connected_ => InFlight(x, m)
    <3> SUFFICES ASSUME x.connected_ PROVE InFlight(x, m)
      OBVIOUS
    <3>1. Flow(x.received, l.back, l.there, x.messageCount_, Lost(l)) /\ Lost(l) = FALSE
      BY <1>2, <1>5 DEF ClientFine, InFlight, Lost
    <3>2. Flow(x.received, l.back, l.there, x.messageCount_, FALSE)
      BY <3>1
    <3>3. CASE l.near = "closed"
      <4>1. Flow(x.received, l.back, left, x.messageCount_, TRUE)
        BY ONLY <3>2, <1>2, <2>1, SizesAre, FlowLost
      <4>2. Lost(m) /\ m.back = l.back
        BY <3>3, <2>6 DEF Lost
      <4>3. QED
        BY <4>1, <4>2, <2>6 DEF InFlight, Flow
    <3>4. CASE l.near # "closed"
      <4>1. Flow(x.received, l.back \o data, left, x.messageCount_, FALSE)
        BY ONLY <3>2, <1>2, <2>1, n \in 1..Len(l.there), SizesAre, FlowEcho DEF data, left
      <4>2. Lost(m) = FALSE
        BY <3>4, <2>6, <1>2, <1>5 DEF Lost
      <4>3. QED
        BY <4>1, <4>2, <3>4, <2>6 DEF InFlight, Flow
    <3>5. QED
      BY <3>3, <3>4
  <2>9. ClientFine(x, m)
    <3>1. x.connector_ # "trying" /\ x.loop # "setup"
      BY <1>2, <2>1 DEF ClientFine, NoLink
    <3>2. QED
      BY <3>1, <1>2, <2>6, <2>8 DEF ClientFine
  <2>10. client' = [client EXCEPT ![d] = x]
    BY <1>2 DEF EchoInv
  <2>11. Becomes(d, x, m)
    BY <2>2, <2>3, <2>10 DEF Becomes
  <2>12. QED
    BY <2>7, <2>9, <2>11, OneClient
<1>6. QED
  BY <1>4, <1>5

\* In the beginning nobody has a link.
LEMMA EchoInitInv == EchoInit => EchoInv
<1> SUFFICES ASSUME EchoInit PROVE EchoInv
  OBVIOUS
<1> DEFINE new == [loop |-> "setup", running_ |-> FALSE, connected_ |-> FALSE,
                   connection_ |-> FALSE, connector_ |-> "null", messageCount_ |-> 0,
                   timers |-> 0, received |-> <<>>]
<1>1. 0 \in Counts /\ 0 \in 0..1 /\ <<>> \in Seq(Counts) /\ "setup" \in Loops
  BY EchoNumbers DEF Loops
<1>2. new \in EchoClients /\ Fresh(new)
  BY <1>1 DEF EchoClients, Fresh
<1>3. NoLink \in Links
  BY NoLinkFine DEF LinkFine
<1>4. server \in Servers
  BY <1>1 DEF EchoInit, Servers
<1>5. \A d \in Clients : client[d] = new /\ link[d] = NoLink
  BY DEF EchoInit
<1>6. client \in [Clients -> EchoClients] /\ link \in [Clients -> Links]
  BY <1>2, <1>3 DEF EchoInit
<1>7. ClientFine(new, NoLink)
  BY <1>1, <1>2, NoLinkFine DEF ClientFine, Fresh, Follows, NoLink
<1>8. ClientsAreOpen
  BY EchoAssumption DEF EchoInit, ClientsAreOpen, NoLink
<1> HIDE DEF new
<1>9. QED
  BY <1>4, <1>5, <1>6, <1>7, <1>8 DEF EchoInv

\* Every step keeps the invariant.
LEMMA EchoNextKeeps == EchoInv /\ [EchoNext]_echoVars => EchoInv'
<1> SUFFICES ASSUME EchoInv, [EchoNext]_echoVars PROVE EchoInv'
  OBVIOUS
<1>1. CASE UNCHANGED echoVars
  BY <1>1 DEF echoVars, EchoInv, ClientsAreOpen
<1>2. ASSUME NEW d \in Clients, ClientStart(d) \/ Interrupt(d) \/ Handshake(d)
      PROVE  EchoInv'
  BY <1>2, ClientStartKeeps, InterruptKeeps, HandshakeKeeps
<1>3. ASSUME NEW d \in Clients, ClientLoopStep(d) PROVE EchoInv'
  BY <1>3, NewConnectionKeeps, FailedConnectionKeeps, TimerFiresKeeps,
     HandleServerResponseKeeps, HandleDisconnectKeeps, ClientEndsKeeps DEF ClientLoopStep
<1>4. ASSUME NEW d \in Clients, ServerLoopStep(d) PROVE EchoInv'
  BY <1>4, ServerAcceptsKeeps, HandleClientDataKeeps, HandleClientDisconnectKeeps
     DEF ServerLoopStep
<1>5. ASSUME ServerEnds PROVE EchoInv'
  <2>1. ServerGone("ended") /\ UNCHANGED client /\ "ended" \in Loops
    BY <1>5 DEF ServerEnds, Loops
  <2>2. QED
    BY <2>1, ServerGoneKeeps
<1>6. QED
  BY <1>1, <1>2, <1>3, <1>4, <1>5, ServerStartKeeps, ServerInterruptKeeps DEF EchoNext

\* The invariant says what EchoLegal says.
LEMMA EchoInvLegal == EchoInv => EchoLegal
<1> SUFFICES ASSUME EchoInv PROVE EchoLegal
  OBVIOUS
<1>1. EchoTypeOK
  BY DEF EchoInv, EchoTypeOK, EchoClients, Links, Servers
<1>2. ASSUME NEW d \in Clients
      PROVE  LET x == client[d]
                 l == link[d]
                 sent == [i \in 1..x.messageCount_ |-> i]
             IN /\ x.received = SubSeq(sent, 1, Len(x.received))
                /\ x.connected_ /\ l.far # "closed" /\ ~l.reset =>
                     x.received \o l.back \o l.there = sent
  <2> DEFINE x == client[d]
             l == link[d]
             sent == [i \in 1..x.messageCount_ |-> i]
  <2>1. x \in EchoClients /\ LinkFine(l) /\ ClientFine(x, l)
    BY DEF EchoInv, ClientFine
  <2>2. Follows(x.received, 0) /\ Len(x.received) <= x.messageCount_
    BY <2>1 DEF ClientFine
  <2>3. x.received \in Seq(Counts) /\ l.back \in Seq(Counts) /\ l.there \in Seq(Counts)
        /\ x.messageCount_ \in Nat
    BY ONLY <2>1, SizesAre, LinkSizes
  <2>4. x.received = SubSeq(sent, 1, Len(x.received))
    BY ONLY <2>2, <2>3, Prefix DEF sent
  <2>5. ASSUME x.connected_, l.far # "closed", ~l.reset
        PROVE  x.received \o l.back \o l.there = sent
    <3>1. Flow(x.received, l.back, l.there, x.messageCount_, FALSE)
      BY <2>1, <2>5 DEF ClientFine, InFlight, Lost, Flow
    <3>2. QED
      BY ONLY <2>2, <2>3, <3>1, Whole DEF sent
  <2>6. QED
    BY <2>4, <2>5
<1>3. EchoesInOrder
  BY <1>2 DEF EchoesInOrder
<1>4. WritesThroughConnection
  BY DEF EchoInv, ClientFine, WritesThroughConnection
<1>5. QED
  BY <1>1, <1>3, <1>4 DEF EchoInv, EchoLegal

\* Every client has received a prefix of what it has sent, the rest is on its
\* way while both ends are open, clients_ holds exactly the open connections, and
\* nobody writes through a connection that is gone, for any number of clients
\* and messages.
THEOREM EchoIsLegal == EchoSpec => []EchoLegal
<1>1. QED
  BY EchoInitInv, EchoNextKeeps, EchoInvLegal, PTL DEF EchoSpec

\* A client whose connection the server still has open, and which has closed its
\* own end.
HasLeft(d) == link[d].far = "open" /\ link[d].near = "closed"

\* The server dies in no other step than a write to a client that has left.
LEMMA DeathStep ==
  ASSUME EchoInv, EchoNext, server'.loop = "aborted", server.loop # "aborted"
  PROVE  \E d \in Clients : HasLeft(d)
<1>1. server \in Servers
  BY DEF EchoInv
<1>2. ASSUME server' = server PROVE FALSE
  BY <1>2
<1>3. ASSUME NEW d \in Clients, HandleClientData(d) PROVE \E e \in Clients : HasLeft(e)
  <2> DEFINE found == server.clients_[link[d].fd]
  <2>1. found # nobody /\ link[found].reset
    BY <1>2, <1>3 DEF HandleClientData
  <2>2. link[d].fd \in Fds
    BY <1>3 DEF HandleClientData, EchoInv, ClientFine, LinkFine, Links
  <2>3. found \in Clients
    BY <1>1, <2>1, <2>2 DEF Servers
  <2>4. link[found].far = "open"
    BY <2>2, <2>3 DEF EchoInv, ClientsAreOpen
  <2>5. link[found].near = "closed"
    BY <2>1, <2>3, <2>4 DEF EchoInv, ClientFine, LinkFine
  <2>6. QED
    BY <2>3, <2>4, <2>5 DEF HasLeft
<1>4. ASSUME NEW d \in Clients, ServerAccepts(d) \/ HandleClientDisconnect(d) PROVE FALSE
  BY <1>1, <1>4 DEF ServerAccepts, HandleClientDisconnect, CloseAndErase, Servers
<1>5. ASSUME NEW d \in Clients,
             ClientStart(d) \/ Interrupt(d) \/ Handshake(d) \/ ClientLoopStep(d)
      PROVE  FALSE
  BY <1>2, <1>5, ZenonT(60)
     DEF ClientStart, Interrupt, Handshake, ClientLoopStep, HandleNewConnection,
         FailedConnection, TimerFires, HandleServerResponse, HandleDisconnect,
         ClientEnds, sendMessage, Becomes
<1>6. ASSUME ServerStart \/ ServerInterrupt \/ ServerEnds PROVE FALSE
  BY <1>1, <1>6 DEF ServerStart, ServerInterrupt, ServerEnds, ServerGone, ToldToEnd, Servers
<1>7. QED
  BY <1>3, <1>4, <1>5, <1>6 DEF EchoNext, ServerLoopStep

\* The echo server dies of nothing but a client that has closed its end while the
\* server has still the connection open, at the next echo to it: as long as no
\* client leaves before the server does, none ends the others.
THEOREM ServerDiesOfLeavers ==
  EchoSpec => [][server'.loop = "aborted" /\ server.loop # "aborted"
                   => \E d \in Clients : HasLeft(d)]_echoVars
<1>1. EchoInv /\ [EchoNext]_echoVars
        => [server'.loop = "aborted" /\ server.loop # "aborted"
              => \E d \in Clients : HasLeft(d)]_echoVars
  BY DeathStep
<1>2. QED
  BY <1>1, EchoInitInv, EchoNextKeeps, PTL DEF EchoSpec
=============================================================================

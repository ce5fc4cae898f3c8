--------------------------- MODULE TCPConnection ---------------------------
(***************************************************************************)
(* A TCPConnection (src/src/net/TCPConnection.cpp) from accept() on: its   *)
(* loop, the callbacks of its user, calls of the loop's and of another     *)
(* thread, and the peer.                                                   *)
(*                                                                         *)
(* The connection, its handler and its socket are one record, k.  A method *)
(* is an operator from a record to the set of records it may leave, since  *)
(* the user's callbacks it calls may call methods in turn: each time one   *)
(* of Replies.  Bytes are numbered as the user writes them or appends them *)
(* to the write buffer, of which only the readable bytes are kept: that is *)
(* what a Buffer promises (see BufferQueue).                               *)
(***************************************************************************)
EXTENDS Buffer, FiniteSetsExt

CONSTANTS
  Delimiter,      \* the byte readUntil() is given
  Chunks,         \* the strings of bytes that arrive at a time
  ReadBytes,      \* the length readBytes() is given
  ShrinkAbove,    \* the capacity above which an empty buffer shrinks
  highWaterMark,
  Capacity,       \* of the kernel's send buffer
  Lengths,        \* of the messages written outside callbacks
  MaxBytes,       \* bound: bytes written, a call that writes none counting one
  MaxInputs       \* bound: what the peer and the users outside callbacks do

ASSUME ConnectionAssumption ==
  /\ Chunks \subseteq Seq(Nat) /\ Lengths \subseteq Nat /\ Capacity \in Nat
  /\ MaxBytes \in Nat \ {0} /\ MaxInputs \in Nat

VARIABLES
  k,         \* see ConnectionTypeOK
  phase,     \* of the loop: "poll", "run", "swap" or "functors"
  revents,   \* what epoll has reported of the handler
  batch,     \* functors left of those swapped
  caller,    \* the other thread is between runInLoop() and enable()
  inputs     \* how much the peer and the users outside callbacks have done

loopVars == <<phase, revents, batch>>
userVars == <<caller, inputs>>
connectionVars == <<k, loopVars, userVars>>

Modes == {"raw", "until", "bytes"}

\* What runs on the loop's thread later.
Functors ==
  ({"write"} \X (0..MaxBytes))
    \cup ((Modes \cup {"startWrite", "shutdown", "forceClose", "enable",
                        "disable", "writeComplete"}) \X {0})

ConnectionTypeOK ==
  /\ k \in [status : {"none", "up", "gone"},
            enabled : BOOLEAN, callbacks : BOOLEAN, writeEvent : BOOLEAN,
            readBuffer : [data : Seq(Int), readerIndex : Nat,
                          writerIndex : Nat, lastWriteBytes : Nat],
            out : Seq(1..MaxBytes), writing : BOOLEAN, filled : BOOLEAN,
            overtaken : BOOLEAN, mode : Modes,
            queue : Seq(Functors),
            inbox : Seq(Int), room : 0..Capacity, soError : BOOLEAN,
            peer : {"open", "closed", "reset"}, shut : BOOLEAN,
            requested : 0..MaxBytes, accepted : 0..MaxBytes,
            delivered : Seq(1..MaxBytes),
            unread : Seq(Int), notified : Nat, closes : Nat, ended : BOOLEAN,
            missed : BOOLEAN, broken : SUBSET {"check", "null"}]
  /\ phase \in {"poll", "run", "swap", "functors"}
  /\ revents \subseteq {"error", "in", "out"} /\ batch \in Nat
  /\ caller \in BOOLEAN /\ inputs \in 0..MaxInputs

NewConnection ==
  [status |-> "none",
   enabled |-> FALSE, callbacks |-> TRUE, writeEvent |-> FALSE,
   readBuffer |-> NewBuffer(kInitialSize),
   out |-> <<>>, writing |-> FALSE, filled |-> FALSE, overtaken |-> FALSE,
   mode |-> "raw", queue |-> <<>>,
   inbox |-> <<>>, room |-> Capacity, soError |-> FALSE,
   peer |-> "open", shut |-> FALSE,
   requested |-> 0, accepted |-> 0, delivered |-> <<>>,
   unread |-> <<>>, notified |-> 0, closes |-> 0, ended |-> FALSE,
   missed |-> FALSE, broken |-> {}]

ConnectionInit ==
  /\ k = NewConnection /\ inputs = 0
  /\ phase = "poll" /\ revents = {} /\ batch = 0
  /\ caller = FALSE

-----------------------------------------------------------------------------
(* Methods *)

Queued(x, f) == [x EXCEPT !.queue = Append(@, f)]

\* IOHandler::disable() and enable(): the callbacks are gone for good.
Disabled(x) == [x EXCEPT !.enabled = FALSE, !.callbacks = FALSE]
Enabled(x) == [x EXCEPT !.enabled = TRUE]

ForceClosed(x) == [Disabled(x) EXCEPT !.ended = TRUE]

\* write(2) fails: after a reset, or after shutdown().
Dead(x) == x.peer = "reset" \/ x.shut

NotifyWritten(x) ==
  [Queued(x, <<"writeComplete", 0>>) EXCEPT !.notified = x.accepted]

\* Mutant: all of the message, with what was written at once.
RestWithWritten(message, nwrote) == message

Rest(message, nwrote) == SubSeq(message, nwrote + 1, Len(message))

\* Mutant: the event is not asked for.
BufferedSilently(x, rest) ==
  [x EXCEPT !.out = @ \o rest, !.writing = TRUE, !.filled = FALSE]

Buffered(x, rest) ==
  [x EXCEPT !.out = @ \o rest, !.writing = TRUE, !.filled = FALSE,
            !.writeEvent = x.writing => @]

\* The numbers of the next bytes.
Message(x, len) == [i \in 1..len |-> x.accepted + i]

\* The user appends a byte to getWriteBuffer().  Whether anybody is writing
\* does not change; k.filled remembers if nobody is.
Filled(x) == [x EXCEPT !.out = Append(@, x.accepted + 1), !.accepted = @ + 1,
                       !.filled = ~x.writing]

\* The user takes n of the bound.
Requested(x, n) ==
  IF x.requested + n > MaxBytes THEN {} ELSE {[x EXCEPT !.requested = @ + n]}

\* A method on the loop's thread that writes no message.
Change(x, f) ==
  CASE f[1] \in Modes -> [x EXCEPT !.mode = f[1]]
    [] f[1] = "fill" -> Filled(x)
    [] f[1] = "startWrite" -> [x EXCEPT !.writeEvent = TRUE]
    [] f[1] = "shutdown" -> [x EXCEPT !.shut = TRUE]
    [] f[1] = "forceClose" -> ForceClosed(x)

ChangingCalls ==
  (Modes \cup {"fill", "startWrite", "shutdown", "forceClose"}) \X {0}

\* The methods that enable a connection that is not, once they have acted.
Enabling(f) == f[1] \in Modes \cup {"write", "startWrite"}

Then(f, x) == IF Enabling(f) THEN Enabled(x) ELSE x

\* At most one of these, in a callback.
Changes(x) ==
  {x} \cup {Then(f, Change(y, f)) : y \in Requested(x, 1), f \in ChangingCalls}

\* The callback for the high-water mark comes before the rest of the message
\* is appended, so the bytes it writes or appends itself are in front of that.
\* A message of it is buffered: bytes wait, or there is no room.  Bound: the
\* callback that this calls in turn makes a change at most.
Crosses(x, remaining) ==
  Len(x.out) + remaining >= highWaterMark /\ Len(x.out) < highWaterMark

Overtaken(x) == [x EXCEPT !.overtaken = TRUE]

Between(x) ==
  LET y == [Overtaken(x) EXCEPT !.accepted = @ + 1]
  IN {Enabled(Buffered(z, <<x.accepted + 1>>)) :
        z \in IF Crosses(x, 1) THEN Changes(y) ELSE {y}}

HighWater(x, remaining) ==
  IF ~Crosses(x, remaining) THEN {x}
  ELSE {IF y.accepted = x.accepted THEN y ELSE Overtaken(y) : y \in Changes(x)}
         \cup UNION {Between(y) : y \in Requested(x, 1)}

writeInLoop(x, len) ==
  LET direct == ~x.writing /\ x.out = <<>>
      message == Message(x, len)
      nwrote == IF direct THEN Min({len, x.room}) ELSE 0
      done == [x EXCEPT !.accepted = @ + len, !.room = @ - nwrote,
                        !.delivered = @ \o SubSeq(message, 1, nwrote)]
  IN CASE direct /\ Dead(x) -> {[x EXCEPT !.broken = @ \cup {"check"}]}
       [] ~(direct /\ Dead(x)) /\ nwrote = len ->
            {IF direct THEN NotifyWritten(done) ELSE done}
       [] OTHER ->
            {Buffered(y, Rest(message, nwrote)) :
               y \in HighWater(done, len - nwrote)}

\* What the user does in a callback, on the loop's thread: nothing, a change,
\* or a write.  Bound: one call in each callback.
Replies(x) ==
  Changes(x) \cup UNION {{Enabled(z) : z \in writeInLoop(y, 1)} :
                           y \in Requested(x, 1)}

\* A functor run on the loop's thread.
RunFunctor(x, f) ==
  CASE f \in ChangingCalls -> {Change(x, f)}
    [] f[1] = "write" -> writeInLoop(x, f[2])
    [] f[1] = "enable" -> {Enabled(x)}
    [] f[1] = "disable" -> {Disabled(x)}
    [] f[1] = "writeComplete" -> Replies(x)

\* A call on the loop's thread.
Called(x, f) == {Then(f, y) : y \in RunFunctor(x, f)}

-----------------------------------------------------------------------------
(* Events *)

handleError(x) == Replies([x EXCEPT !.soError = FALSE])

\* Mutant: the handler is left enabled.
CloseKeepsHandler(x) == Replies([x EXCEPT !.closes = @ + 1, !.ended = TRUE])

handleClose(x) ==
  Replies([Queued(x, <<"disable", 0>>) EXCEPT !.closes = @ + 1, !.ended = TRUE])

\* readStopCondition_, or none.  readUntil() looks at the bytes written last; it
\* may begin before the vector, and then there is no telling what it finds.
Stops(mode, b) ==
  LET start == b.writerIndex - b.lastWriteBytes
  IN CASE mode = "raw" -> {TRUE}
       [] mode = "bytes" -> {readableBytes(b) >= ReadBytes}
       [] mode = "until" /\ start >= 0 -> {Finds(b, Delimiter, start)}
       [] mode = "until" /\ start < 0 -> BOOLEAN

\* readCompleteCallback_ takes as much as it likes before it does anything else.
ReadComplete(x) ==
  UNION {Replies([x EXCEPT !.readBuffer = retrieve(@, n),
                           !.unread = SubSeq(@, n + 1, Len(@))]) :
           n \in 0..readableBytes(x.readBuffer)}

ShrinkIfLarge(x) ==
  IF readableBytes(x.readBuffer) = 0 /\ Len(x.readBuffer.data) > ShrinkAbove
    THEN [x EXCEPT !.readBuffer = shrink(@, 0)] ELSE x

handleRead(x) ==
  LET room == writableBytes(x.readBuffer)
      extra == IF room < ExtraSize THEN ExtraSize ELSE 0
      n == Min({Len(x.inbox), room + extra})
      s == SubSeq(x.inbox, 1, n)
      b == readFd(x.readBuffer, s)
      read(stop) ==
        [x EXCEPT !.readBuffer = b, !.unread = @ \o s,
                  !.inbox = SubSeq(@, n + 1, Len(@)),
                  !.missed = @ \/ (/\ x.mode = "until" /\ ~stop
                                   /\ Finds(b, Delimiter, b.readerIndex))]
  IN CASE n = 0 /\ x.soError -> handleError(x)
       [] n = 0 /\ ~x.soError -> handleClose(x)
       [] n > 0 ->
            UNION {{ShrinkIfLarge(y) :
                      y \in IF stop THEN ReadComplete(read(stop))
                                    ELSE {read(stop)}} :
                     stop \in Stops(x.mode, b)}

\* Mutant: the event stays.
DrainedKeepsWriting(x) == NotifyWritten(x)

\* All is written.
Drained(x) == NotifyWritten([x EXCEPT !.writeEvent = FALSE, !.writing = FALSE])

\* Mutant: the rest is taken to be written whole.
AllIsSent(x) == Len(x.out)

\* What write(2) takes of the buffer.
Sent(x) == Min({Len(x.out), x.room})

handleWrite(x) ==
  IF ~x.writing THEN {x}
  ELSE IF Dead(x) \/ x.room = 0 THEN handleError(x)
  ELSE LET n == Sent(x)
           y == [x EXCEPT !.out = SubSeq(@, n + 1, Len(@)), !.room = @ - n,
                          !.delivered = @ \o SubSeq(x.out, 1, n)]
       IN {IF y.out = <<>> THEN Drained(y) ELSE y}

\* What epoll reports of an established connection: a hang-up never comes
\* without the read event, so run() does not call its close callback.
Events(x) ==
  IF ~x.enabled THEN {}
  ELSE (IF x.soError THEN {"error"} ELSE {})
         \cup (IF x.inbox # <<>> \/ x.peer # "open" THEN {"in"} ELSE {})
         \cup (IF x.writeEvent /\ (x.room > 0 \/ Dead(x)) THEN {"out"} ELSE {})

\* run() tests the callbacks one after the other.
Handle(x, event) ==
  IF event \notin revents \/ ~x.callbacks \/ x.broken # {} THEN {x}
  ELSE CASE event = "error" -> handleError(x)
         [] event = "in" -> handleRead(x)
         [] event = "out" -> handleWrite(x)

run(x) ==
  UNION {UNION {Handle(z, "out") : z \in Handle(y, "in")} :
           y \in Handle(x, "error")}

-----------------------------------------------------------------------------
(* The loop *)

Running == k.status = "up" /\ k.broken = {}

Poll ==
  /\ Running /\ phase = "poll"
  /\ \/ Events(k) # {} /\ revents' = Events(k) /\ phase' = "run"
     \/ Events(k) = {} /\ k.queue # <<>> /\ phase' = "swap" /\ UNCHANGED revents
  /\ UNCHANGED <<k, batch, userVars>>

Run ==
  /\ Running /\ phase = "run"
  /\ k' \in IF k.enabled THEN run(k) ELSE {k}
  /\ revents' = {} /\ phase' = "swap"
  /\ UNCHANGED <<batch, userVars>>

Swap ==
  /\ Running /\ phase = "swap"
  /\ batch' = Len(k.queue)
  /\ phase' = IF k.queue = <<>> THEN "poll" ELSE "functors"
  /\ UNCHANGED <<k, revents, userVars>>

HandlePending ==
  /\ Running /\ phase = "functors"
  /\ k' \in RunFunctor([k EXCEPT !.queue = Tail(@)], Head(k.queue))
  /\ batch' = batch - 1
  /\ phase' = IF batch = 1 THEN "poll" ELSE phase
  /\ UNCHANGED <<revents, userVars>>

-----------------------------------------------------------------------------
(* Users and the peer *)

\* accept() and the constructor; the handler of a TCPConnector is enabled.
\* The constructor goes through the null handler of an accept() that failed.
Accept ==
  /\ k.status = "none"
  /\ k' \in {[k EXCEPT !.status = "up", !.enabled = enabled] :
               enabled \in BOOLEAN}
              \cup {[k EXCEPT !.status = "up", !.broken = {"null"}]}
  /\ UNCHANGED <<loopVars, userVars>>

UserCalls == ({"write"} \X Lengths) \cup ChangingCalls

\* One more of what comes from outside, within the bound.
Input == Running /\ inputs < MaxInputs /\ inputs' = inputs + 1

Asked(f) == Requested(k, Max({1, f[2]}))

CallInLoop(f) ==
  /\ Input /\ ~caller /\ phase = "poll"
  /\ \E x \in Asked(f) : k' \in Called(x, f)
  /\ UNCHANGED <<loopVars, caller>>

\* The other thread queues a functor, then looks whether to enable.  It leaves
\* getWriteBuffer() alone, which only the loop's thread may use.
CallFromOutside(f) ==
  /\ Input /\ ~caller /\ f[1] # "fill"
  /\ \E x \in Asked(f) : k' = Queued(x, f)
  /\ caller' = Enabling(f)
  /\ UNCHANGED loopVars

CallerEnables ==
  /\ Running /\ caller
  /\ k' = IF k.enabled THEN k ELSE Queued(k, <<"enable", 0>>)
  /\ caller' = FALSE
  /\ UNCHANGED <<loopVars, inputs>>

\* The last reference goes; a queued functor holds one, but for disable's.
Release ==
  /\ Running /\ phase = "poll" /\ ~caller
  /\ \A i \in 1..Len(k.queue) : k.queue[i][1] = "disable"
  /\ k' = [NewConnection EXCEPT !.status = "gone", !.ended = TRUE]
  /\ UNCHANGED <<loopVars, userVars>>

\* The bytes wait in the kernel, so they may as well arrive before epoll_wait().
Arrive(s) ==
  /\ Input /\ phase = "poll" /\ k.peer = "open"
  /\ k' = [k EXCEPT !.inbox = @ \o s]
  /\ UNCHANGED <<loopVars, caller>>

PeerEnds ==
  /\ Input /\ phase # "swap" /\ k.peer # "reset"
  /\ \/ k.peer = "open" /\ k' = [k EXCEPT !.peer = "closed"]
     \/ k' = [k EXCEPT !.peer = "reset", !.soError = TRUE]
  /\ UNCHANGED <<loopVars, caller>>

\* The peer reads what was sent.
Drain ==
  /\ Running /\ phase \in {"poll", "functors"}
  /\ k.peer # "reset" /\ k.room < Capacity
  /\ k' = [k EXCEPT !.room = Capacity]
  /\ UNCHANGED <<loopVars, userVars>>

LoopStep == Poll \/ Run \/ Swap \/ HandlePending

ConnectionNext ==
  \/ Accept \/ LoopStep \/ CallerEnables \/ Release \/ PeerEnds \/ Drain
  \/ \E f \in UserCalls : CallInLoop(f) \/ CallFromOutside(f)
  \/ \E s \in Chunks : Arrive(s)

\* The loop and the other thread run; the peer goes on reading.  For the loop,
\* weak fairness is written out: TLC is slow to find LoopStep enabled.
LoopCanStep ==
  Running /\ (phase # "poll" \/ Events(k) # {} \/ k.queue # <<>>)

ConnectionFairness ==
  /\ []<><<LoopStep>>_connectionVars \/ []<>~LoopCanStep
  /\ WF_connectionVars(CallerEnables)
  /\ WF_connectionVars(Drain)

-----------------------------------------------------------------------------
(* Properties *)

\* s is a permutation of the first n numbers.
EachOnce(s, n) ==
  Len(s) = n /\ \A i \in 1..n : \E j \in 1..n : s[j] = i

\* Whatever the callbacks do, every byte goes to the peer once, in the order in
\* which the user wrote them unless a callback for the high-water mark did
\* (TCPConnection.cpp:377, 402-406); and every byte of the peer is in the read
\* buffer, in order, until the user takes it (TCPConnection.cpp:259, 303).
BytesInOrder ==
  /\ EachOnce(k.delivered \o k.out, k.accepted)
  /\ ~k.overtaken => k.delivered \o k.out = [i \in 1..k.accepted |-> i]
  /\ readableSlice(k.readBuffer) = k.unread

\* Bytes wait exactly while writing_ is set, and the event is asked for then,
\* or since the user appended them to the buffer with nobody writing: those
\* wait for the next message.  Once all have left, the user has been told, for
\* all of them (TCPConnection.cpp:296-313, 376-381, 406-410).
WritingMatchesBuffer ==
  /\ (k.out # <<>>) = (k.writing \/ k.filled) /\ ~(k.writing /\ k.filled)
  /\ k.writing => k.writeEvent
  /\ k.out = <<>> => k.notified = k.accepted

\* The state of a connection between two steps of its loop.
ConnectionLegal == ConnectionTypeOK /\ WritingMatchesBuffer

\* However peer, errors and users end the connection, the close callback is
\* called once at most (TCPConnection.cpp:337-350).
ClosesOnce == k.closes <= 1

Ended == k.ended \/ k.shut \/ k.peer # "open" \/ k.broken # {}

\* Bytes that wait are written some time, unless the connection ends; but those
\* the user appended to an idle buffer wait for a message, and a write() without
\* one does not do: handleWrite() returns at its test of writing_
\* (TCPConnection.cpp:173-187, 296-299).
BytesLeave == []<>(k.out = <<>> \/ k.filled \/ Ended)

\* "read until delimiter" (TCPConnection.h:53): the callback is called when the
\* delimiter is among the readable bytes.
ReadsUntilDelimiter == ~k.missed

\* HCHECK(!faultError) (TCPConnection.cpp:395)
NoFaultError == "check" \notin k.broken

\* "Accept callback should take care if the handler is nullptr"
\* (TCPAcceptor.h:28): it is called then.
FailedAcceptIsReported == "null" \notin k.broken
=============================================================================

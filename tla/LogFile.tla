------------------------------ MODULE LogFile ------------------------------
(***************************************************************************)
(* LogFile (src/src/file/LogFile.cpp) over AppendFile                      *)
(* (src/src/file/FileUtils.cpp), used by one thread.  Of a message only    *)
(* the length counts, of a file what fflush() has passed on and what it    *)
(* has not; a file that is closed passes on the rest.                      *)
(***************************************************************************)
EXTENDS Integers

CONSTANTS
  checkEveryN, flushInterval, rollSize, rollInterval,
  Lengths,     \* of messages
  MaxTime      \* bound: seconds

ASSUME LogFileAssumption ==
  /\ checkEveryN \in Nat \ {0} /\ rollSize \in Nat
  /\ flushInterval \in Int /\ rollInterval \in Int
  /\ Lengths \subseteq Nat /\ MaxTime \in Nat

VARIABLES
  now,         \* time(NULL)
  count, lastRoll, lastFlush,
  file,        \* the file: bytes written, and how many are not flushed
  lateFlush,   \* history: appends since the last flush was too long ago
  lateRoll     \* history: appends since the last roll was too long ago

logFileVars == <<now, count, lastRoll, lastFlush, file, lateFlush, lateRoll>>

EmptyFile == [written |-> 0, unflushed |-> 0]

LogFileInit ==
  /\ now = 0 /\ count = 0 /\ lastRoll = 0 /\ lastFlush = 0
  /\ file = EmptyFile
  /\ lateFlush = 0 /\ lateRoll = 0

\* rollFile(): the counter makes the name a new one, whatever the time.
RollFile ==
  /\ lastRoll' = now /\ lastFlush' = now
  /\ file' = EmptyFile
  /\ lateFlush' = 0 /\ lateRoll' = 0

Flush(f) ==
  /\ lastFlush' = now /\ file' = [f EXCEPT !.unflushed = 0]
  /\ lateFlush' = 0 /\ UNCHANGED lastRoll

\* The number of appends since a limit is passed, with this one.
Late(n, last, limit) == IF now - last > limit THEN n + 1 ELSE n

Keep(f) ==
  /\ file' = f /\ UNCHANGED <<lastRoll, lastFlush>>
  /\ lateFlush' = Late(lateFlush, lastFlush, flushInterval)

Aged == lateRoll' = Late(lateRoll, lastRoll, rollInterval)

\* Mutant: the check comes one append too late.
DueAfterN == count >= checkEveryN

Due == count + 1 >= checkEveryN

\* What an error on the way cuts off is not written.
AppendLine(len) ==
  LET f == [file EXCEPT !.written = @ + len, !.unflushed = @ + len]
      rollDue == now - lastRoll > rollInterval
      flushDue == now - lastFlush > flushInterval
  IN /\ \/ f.written > rollSize /\ RollFile /\ UNCHANGED count
        \/ f.written <= rollSize /\ ~Due /\ count' = count + 1 /\ Keep(f) /\ Aged
        \/ /\ f.written <= rollSize /\ Due /\ count' = 0
           /\ \/ rollDue /\ RollFile
              \/ ~rollDue /\ flushDue /\ Flush(f) /\ Aged
              \/ ~rollDue /\ ~flushDue /\ Keep(f) /\ Aged
     /\ UNCHANGED now

FlushNow == Flush(file) /\ UNCHANGED <<now, count, lateRoll>>
RollNow == RollFile /\ UNCHANGED <<now, count>>

SecondPasses ==
  /\ now < MaxTime /\ now' = now + 1
  /\ UNCHANGED <<count, lastRoll, lastFlush, file, lateFlush, lateRoll>>

LogFileNext ==
  \/ \E n \in Lengths : \E len \in 0..n : AppendLine(len)
  \/ FlushNow \/ RollNow \/ SecondPasses

-----------------------------------------------------------------------------
(* Properties *)

\* A file outgrows rollSize_ only to be rolled at once; what is unflushed is
\* part of the file; and once the last flush or roll is too long ago,
\* checkEveryN_ appends do not go by without one, however the two kinds of roll
\* and flush() interleave (LogFile.cpp:35-73).
LogFileLegal ==
  /\ file.written <= rollSize /\ file.unflushed <= file.written
  /\ count < checkEveryN
  /\ lateFlush < checkEveryN /\ lateRoll < checkEveryN
=============================================================================

------------------------------- MODULE Thread -------------------------------
(***************************************************************************)
(* A Thread (src/src/thread/Thread.cpp) with its CountDownLatch, and the   *)
(* Mutex and Condition of that: start(), threadStarter() and join().       *)
(*                                                                         *)
(* The creator is the thread that calls start(); "body" is the new one.    *)
(* What a thread does while it has the mutex is one step; unlock() is two, *)
(* since currentHolder is cleared when the mutex is free already.          *)
(***************************************************************************)
EXTENDS Naturals

VARIABLES
  creator,       \* where the creator is
  body,          \* where threadStarter() is
  tid,           \* tid_
  latch,         \* count_ of latch_
  holder,        \* who has the pthread mutex
  currentHolder  \* who has it, says the Mutex

latchVars == <<latch, holder, currentHolder>>
threadVars == <<creator, body, tid, latchVars>>

Both == {"none", "creator", "body"}

ThreadTypeOK ==
  /\ creator \in {"new", "failed", "latch", "locked", "waiting", "unlock",
                  "started", "join", "joined"}
  /\ body \in {"none", "starter", "latch", "locked", "unlock", "func", "finished"}
  /\ tid \in BOOLEAN \* whether it is positive
  /\ latch \in {0, 1} /\ holder \in Both /\ currentHolder \in Both

ThreadInit ==
  /\ creator = "new" /\ body = "none" /\ tid = FALSE
  /\ latch = 1 /\ holder = "none" /\ currentHolder = "none"

\* pthread_create(), which may fail.
Start ==
  /\ creator = "new"
  /\ \/ creator' = "latch" /\ body' = "starter"
     \/ creator' = "failed" /\ UNCHANGED body
  /\ UNCHANGED <<tid, latchVars>>

SetTid ==
  /\ body = "starter"
  /\ body' = "latch" /\ tid' = TRUE
  /\ UNCHANGED <<creator, latchVars>>

Lock(who) ==
  /\ holder = "none"
  /\ holder' = who /\ currentHolder' = who
  /\ UNCHANGED <<tid, latch>>

CreatorLocks ==
  creator = "latch" /\ creator' = "locked" /\ Lock("creator") /\ UNCHANGED body
BodyLocks ==
  body = "latch" /\ body' = "locked" /\ Lock("body") /\ UNCHANGED creator

\* wait() of the latch: the condition clears the holder, and lets the mutex go.
Wait ==
  /\ creator = "locked" /\ latch > 0
  /\ creator' = "waiting"
  /\ holder' = "none" /\ currentHolder' = "none"
  /\ UNCHANGED <<body, tid, latch>>

WaitReturns ==
  /\ creator = "locked" /\ latch = 0
  /\ creator' = "unlock" /\ holder' = "none"
  /\ UNCHANGED <<body, tid, latch, currentHolder>>

SpuriousReturn ==
  /\ creator = "waiting"
  /\ creator' = "latch"
  /\ UNCHANGED <<body, tid, latchVars>>

\* Mutant: the creator is not notified.
CountDownSilently ==
  /\ body = "locked"
  /\ latch' = latch - 1
  /\ body' = "unlock" /\ holder' = "none"
  /\ UNCHANGED <<creator, tid, currentHolder>>

countDown ==
  /\ body = "locked"
  /\ latch' = latch - 1
  /\ creator' = IF creator = "waiting" THEN "latch" ELSE creator
  /\ body' = "unlock" /\ holder' = "none"
  /\ UNCHANGED <<tid, currentHolder>>

\* unassignHolder()
CreatorUnassigns ==
  /\ creator = "unlock"
  /\ creator' = "started" /\ currentHolder' = "none"
  /\ UNCHANGED <<body, tid, latch, holder>>

BodyUnassigns ==
  /\ body = "unlock"
  /\ body' = "func" /\ currentHolder' = "none"
  /\ UNCHANGED <<creator, tid, latch, holder>>

JoinReturns ==
  /\ creator = "join" /\ body = "finished"
  /\ creator' = "joined"
  /\ UNCHANGED <<body, tid, latchVars>>

CreatorStep == CreatorLocks \/ Wait \/ WaitReturns \/ CreatorUnassigns \/ JoinReturns
BodyStep == SetTid \/ BodyLocks \/ countDown \/ BodyUnassigns

\* start() and join() are called and func_ returns elsewhere.
ThreadStep == Start \/ CreatorStep \/ BodyStep \/ SpuriousReturn

-----------------------------------------------------------------------------
(* Properties *)

\* start() returns to a thread that has its id, with the latch open
\* (Thread.cpp:110-111), and a mutex nobody uses any more has no holder, as its
\* destructor asserts (Mutex.h:49).
StartIsComplete ==
  /\ creator \in {"unlock", "started", "join", "joined"} => tid /\ latch = 0
  /\ creator = "joined" => holder = "none" /\ currentHolder = "none"

\* ASSERT_TRUE(mutex.isLockedByThisThread()) of the thread that has the mutex
\* (src/test/thread/Mutex_test.cpp:38): the holder is not cleared by another.
HolderIsTold == holder # "none" => currentHolder = holder
=============================================================================

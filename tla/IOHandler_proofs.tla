-------------------------- MODULE IOHandler_proofs --------------------------
(***************************************************************************)
(* Proofs about IOHandler, for any handlers, descriptors and callbacks.    *)
(* The types and what is known of the life of a handler hold whatever the  *)
(* users do; that epoll matches the handlers needs that the other thread   *)
(* never drops the last reference to an Enabled handler, and that the loop *)
(* never touches a freed handler needs that too, and that nobody drops the *)
(* last one to a handler the loop holds a plain pointer to.                *)
(***************************************************************************)
EXTENDS IOHandler, TLAPS, SequenceTheorems

\* The handlers of a loop without fairness.
HandlerSpec == Init /\ [][Next]_vars

Alive(h) == object[h] = "alive"

-----------------------------------------------------------------------------
(* The inductive invariant. *)

\* A living handler guards an open descriptor, no other handler the same.
GuardsApart ==
  /\ \A h \in Handlers : Alive(h) => fd[h] \in opened
  /\ \A g, h \in Handlers : Alive(g) /\ Alive(h) /\ fd[g] = fd[h] => g = h

\* Only living handlers are Enabled.
EnabledLives == \A h \in Handlers : status[h] = "Enabled" => Alive(h)

\* The functors of fs keep their handlers alive.
Lives(fs) == \A h \in Handlers : Captured(h, fs) => Alive(h)

\* All functors do, wherever they are.
AllLive == Lives(functors) /\ Lives(funcs) /\ Lives(pushing) /\ Lives(late)

\* Whoever refers to a handler keeps it alive: its users and the functors.
KeptAlive ==
  /\ EnabledLives
  /\ \A h \in Handlers : held[h] # {} => Alive(h)
  /\ AllLive

\* epoll is told only of living handlers, each under the number it guards.
WatchesLiving ==
  /\ epoll = [n \in DOMAIN epoll |-> epoll[n]]
  /\ \A n \in DOMAIN epoll : Alive(epoll[n].ptr) /\ fd[epoll[n].ptr] = n

\* Only the loop that was told to quit has ended; while functors are run or
\* loop() has not been called or has returned, no event is left.
LoopInPhase ==
  /\ End => quit /\ funcs = <<>>
  /\ phase \notin {"io", "dispatch", "callback", "dead"} => batch = {}

\* What is pushed after the queue was cleared is the last thing to be pushed.
LateIsLast == late # <<>> => phase = "ended" /\ pushing = <<>>

\* A handler whose destructor runs on the other thread.
Dying(h) ==
  /\ Alive(h) /\ held[h] = {"other"}
  /\ ~Captured(h, functors) /\ ~Captured(h, funcs) /\ ~Captured(h, late)

\* The removal of a descriptor is pushed by the destructor of its handler.
RemovalIsDue ==
  pushing # <<>> /\ pushing[1].op = "removeFd" =>
    \E h \in Handlers : Dying(h) /\ fd[h] = pushing[1].fd

Life ==
  /\ TypeOK /\ GuardsApart /\ KeptAlive /\ WatchesLiving /\ LoopInPhase
  /\ LateIsLast /\ RemovalIsDue

\* Nobody has to remove a descriptor by its number.
NoRemoval ==
  /\ \A i \in DOMAIN functors : functors[i].op # "removeFd"
  /\ \A i \in DOMAIN funcs : funcs[i].op # "removeFd"
  /\ pushing # <<>> => pushing[1].op # "removeFd"

\* EpollMatchesHandlers, entry by entry.
Matches ==
  ~quit => /\ DOMAIN epoll = {fd[h] : h \in {g \in Handlers : status[g] = "Enabled"}}
           /\ \A h \in Handlers : status[h] = "Enabled" => epoll[fd[h]] = Entry(h)

\* What the loop holds a plain pointer to is alive.
DispatchesLiving ==
  /\ phase # "dead"
  /\ \A entry \in batch : Alive(entry.ptr)
  /\ phase \in {"dispatch", "callback"} => Alive(running.ptr)

-----------------------------------------------------------------------------
(* Functors *)

\* What a functor is.
LEMMA FunctorIs ==
  ASSUME NEW f \in Functor
  PROVE  \/ f.op = "update" /\ f.h \in Handlers /\ f.next \in {"Enabled", "Disabled"}
         \/ /\ f.op = "set" /\ f.h \in Handlers /\ f.kind \in Kinds
            /\ f.on \in BOOLEAN
         \/ f.op = "removeFd" /\ f.fd \in Fds
BY DEF Functor, Update, SetCallback, RemoveFd

\* The functors users make.
LEMMA FunctorsMade ==
  /\ \A h \in Handlers, s \in {"Enabled", "Disabled"} :
       /\ Update(h, s) \in Functor
       /\ Update(h, s).op = "update" /\ Update(h, s).h = h
       /\ Update(h, s).next = s
  /\ \A h \in Handlers, k \in Kinds, on \in BOOLEAN :
       /\ SetCallback(h, k, on) \in Functor
       /\ SetCallback(h, k, on).op = "set" /\ SetCallback(h, k, on).h = h
       /\ SetCallback(h, k, on).kind = k /\ SetCallback(h, k, on).on = on
  /\ \A n \in Fds : /\ RemoveFd(n) \in Functor
                    /\ RemoveFd(n).op = "removeFd" /\ RemoveFd(n).fd = n
<1>1. \A h \in Handlers, t \in {"Enabled", "Disabled"} :
        /\ Update(h, t) \in Functor
        /\ Update(h, t).op = "update" /\ Update(h, t).h = h
        /\ Update(h, t).next = t
  BY DEF Functor, Update
<1>2. \A h \in Handlers, k \in Kinds, on \in BOOLEAN :
        /\ SetCallback(h, k, on) \in Functor
        /\ SetCallback(h, k, on).op = "set" /\ SetCallback(h, k, on).h = h
        /\ SetCallback(h, k, on).kind = k /\ SetCallback(h, k, on).on = on
  BY DEF Functor, SetCallback
<1>3. \A n \in Fds : /\ RemoveFd(n) \in Functor
                     /\ RemoveFd(n).op = "removeFd" /\ RemoveFd(n).fd = n
  BY DEF Functor, RemoveFd
<1>4. QED
  BY <1>1, <1>2, <1>3

\* Appending a functor captures its handler.
LEMMA CapturedAppended ==
  ASSUME NEW fs \in Seq(Functor), NEW f \in Functor, NEW h \in Handlers,
         Captured(h, Append(fs, f))
  PROVE  Captured(h, fs) \/ (f.op # "removeFd" /\ f.h = h)
<1>1. PICK i \in 1..(Len(fs) + 1) :
        Append(fs, f)[i].op # "removeFd" /\ Append(fs, f)[i].h = h
  BY DEF Captured
<1>2. CASE i = Len(fs) + 1
  BY <1>1, <1>2
<1>3. CASE i # Len(fs) + 1
  <2>1. i \in 1..Len(fs) /\ Append(fs, f)[i] = fs[i]
    BY <1>3
  <2>2. QED
    BY <1>1, <2>1 DEF Captured
<1>4. QED
  BY <1>2, <1>3

\* A functor alone captures its handler.
LEMMA CapturedAlone ==
  ASSUME NEW f \in Functor, NEW h, Captured(h, <<f>>)
  PROVE  f.op # "removeFd" /\ f.h = h
BY DEF Captured

\* Nothing is captured by no functor.
LEMMA NothingCaptured == \A h : ~Captured(h, <<>>)
BY DEF Captured

\* The next functor to be run is in the vector and captures its handler.
LEMMA NextFunctor ==
  ASSUME TypeOK, done < Len(funcs)
  PROVE  /\ funcs[done + 1] \in Functor /\ done + 1 \in DOMAIN funcs
         /\ funcs[done + 1].op # "removeFd" => Captured(funcs[done + 1].h, funcs)
<1>1. done + 1 \in 1..Len(funcs) /\ DOMAIN funcs = 1..Len(funcs)
  BY DEF TypeOK
<1>2. QED
  BY <1>1, SMTT(30) DEF TypeOK, Captured

-----------------------------------------------------------------------------
(* The interest list *)

\* What is left without some descriptors.
LEMMA WithoutThem ==
  ASSUME NEW S, epoll' = Without(epoll, S)
  PROVE  /\ DOMAIN epoll' = DOMAIN epoll \ S
         /\ \A m \in DOMAIN epoll \ S : epoll'[m] = epoll[m]
         /\ epoll' = [m \in DOMAIN epoll' |-> epoll'[m]]
BY DEF Without

\* One entry is set.
LEMMA WithEntry ==
  ASSUME NEW n, NEW entry, epoll' = With(epoll, n, entry)
  PROVE  /\ DOMAIN epoll' = DOMAIN epoll \cup {n}
         /\ epoll'[n] = entry
         /\ \A m \in DOMAIN epoll \ {n} : epoll'[m] = epoll[m]
         /\ epoll' = [m \in DOMAIN epoll' |-> epoll'[m]]
BY DEF With


-----------------------------------------------------------------------------
(* What the calls do to the settings of the handlers and to epoll *)

\* The types of the settings.
SettingsOK ==
  /\ status \in [Handlers -> {"Created", "Enabled", "Disabled"}]
  /\ callbacks \in [Handlers -> SUBSET Kinds]
  /\ events \in [Handlers -> SUBSET Kinds]
  /\ DOMAIN epoll \subseteq opened
  /\ \A n \in DOMAIN epoll :
       epoll[n] \in [ptr : Handlers, events : SUBSET Kinds]

\* The types of the objects and their descriptors.
ObjectsOK ==
  /\ object \in [Handlers -> {"none", "alive", "freed"}]
  /\ fd \in [Handlers -> Fds]
  /\ held \in [Handlers -> SUBSET Users]
  /\ opened \subseteq Fds

\* The types of the loop's variables.
LoopOK ==
  /\ funcs \in Seq(Functor) /\ done \in 0..Len(funcs)
  /\ phase \in Phase
  /\ batch \subseteq [ptr : Handlers, kinds : SUBSET Kinds]
  /\ running \in [ptr : Handlers, kinds : SUBSET Kinds, now : Kinds]
  /\ quit \in BOOLEAN

\* The types of the queue and of what is on its way there.
QueuesOK ==
  /\ functors \in Seq(Functor)
  /\ pushing \in Seq(Functor) /\ Len(pushing) <= 1
  /\ late \in Seq(Functor) /\ Len(late) <= 1

\* These are all the types.
LEMMA TypesAre == TypeOK <=> ObjectsOK /\ SettingsOK /\ QueuesOK /\ LoopOK
BY DEF TypeOK, ObjectsOK, SettingsOK, QueuesOK, LoopOK

\* So they are in the next state.
LEMMA TypesAreNext ==
  ASSUME ObjectsOK', SettingsOK', QueuesOK', LoopOK' PROVE TypeOK'
BY DEF TypeOK, ObjectsOK, SettingsOK, QueuesOK, LoopOK

\* What is known of a life, in parts.
LEMMA LifeIs ==
  ASSUME Life
  PROVE  /\ ObjectsOK /\ SettingsOK /\ LoopOK /\ QueuesOK
         /\ GuardsApart /\ WatchesLiving /\ EnabledLives
         /\ AllLive /\ Lives(functors) /\ Lives(funcs) /\ Lives(pushing) /\ Lives(late)
         /\ LoopInPhase /\ LateIsLast /\ RemovalIsDue
         /\ \A h \in Handlers : held[h] # {} => Alive(h)
BY TypesAre DEF Life, KeptAlive, AllLive

\* And what makes one in the next state.
LEMMA LifeIsNext ==
  ASSUME ObjectsOK', SettingsOK', LoopOK', QueuesOK',
         GuardsApart', WatchesLiving', EnabledLives', AllLive',
         LoopInPhase', LateIsLast', RemovalIsDue',
         \A h \in Handlers : held'[h] # {} => Alive(h)'
  PROVE  Life'
BY TypesAreNext DEF Life, KeptAlive

\* An entry of epoll that names h under the number h guards is a legal one.
LEMMA EntryChanges ==
  ASSUME ObjectsOK, SettingsOK, GuardsApart, WatchesLiving,
         NEW h \in Handlers, Alive(h),
         NEW E \in SUBSET Kinds,
         \/ epoll' = Modified(fd[h], [ptr |-> h, events |-> E])
         \/ epoll' = Added(fd[h], [ptr |-> h, events |-> E])
         \/ epoll' = Without(epoll, {fd[h]})
         \/ epoll' = epoll,
         UNCHANGED objectVars
  PROVE  /\ WatchesLiving'
         /\ DOMAIN epoll' \subseteq opened'
         /\ \A n \in DOMAIN epoll' :
              epoll'[n] \in [ptr : Handlers, events : SUBSET Kinds]
<1> DEFINE e == [ptr |-> h, events |-> E]
<1>1. e \in [ptr : Handlers, events : SUBSET Kinds] /\ e.ptr = h
  OBVIOUS
<1>2. fd[h] \in opened
  BY DEF GuardsApart
<1>3. UNCHANGED <<object, fd, held, opened>>
  BY DEF objectVars
<1>4. CASE epoll' = epoll
  BY <1>3, <1>4 DEF WatchesLiving, SettingsOK, Alive
<1>5. CASE epoll' = With(epoll, fd[h], e)
  <2> HIDE DEF e
  <2>1. /\ DOMAIN epoll' = DOMAIN epoll \cup {fd[h]}
        /\ epoll'[fd[h]] = e
        /\ \A m \in DOMAIN epoll \ {fd[h]} : epoll'[m] = epoll[m]
        /\ epoll' = [m \in DOMAIN epoll' |-> epoll'[m]]
    BY <1>5, WithEntry
  <2>2. QED
    BY <1>1, <1>2, <1>3, <2>1 DEF WatchesLiving, SettingsOK, Alive
<1>6. CASE epoll' = Without(epoll, {fd[h]})
  <2>1. /\ DOMAIN epoll' = DOMAIN epoll \ {fd[h]}
        /\ \A m \in DOMAIN epoll \ {fd[h]} : epoll'[m] = epoll[m]
        /\ epoll' = [m \in DOMAIN epoll' |-> epoll'[m]]
    BY <1>6, WithoutThem
  <2>2. QED
    BY <1>3, <2>1 DEF WatchesLiving, SettingsOK, Alive
<1>7. QED
  BY <1>4, <1>5, <1>6 DEF Modified, Added

\* A functor that is run changes the settings of its living handler.
LEMMA RunKeeps ==
  ASSUME ObjectsOK, SettingsOK, GuardsApart, WatchesLiving, EnabledLives,
         NEW f \in Functor, f.op # "removeFd" => Alive(f.h),
         Run(f), UNCHANGED objectVars
  PROVE  SettingsOK' /\ WatchesLiving' /\ EnabledLives'
<1>0. UNCHANGED <<object, fd, held, opened>>
  BY DEF objectVars
<1>1. CASE f.op = "update"
  <2>1. f.h \in Handlers /\ f.next \in {"Enabled", "Disabled"} /\ Alive(f.h)
    BY <1>1, FunctorIs
  <2>2. Entry(f.h) = [ptr |-> f.h, events |-> events[f.h]] /\ events[f.h] \in SUBSET Kinds
    BY <2>1 DEF Entry, SettingsOK
  <2>3. CASE f.next = "Enabled"
    <3>1. Enable(f.h)
      BY <1>1, <2>3 DEF Run
    <3>2. \/ epoll' = Modified(fd[f.h], Entry(f.h))
          \/ epoll' = Added(fd[f.h], Entry(f.h))
      BY <3>1 DEF Enable
    <3>3. /\ WatchesLiving' /\ DOMAIN epoll' \subseteq opened'
          /\ \A n \in DOMAIN epoll' :
               epoll'[n] \in [ptr : Handlers, events : SUBSET Kinds]
      BY <2>1, <2>2, <3>2, EntryChanges
    <3>4. QED
      BY <1>0, <2>1, <3>1, <3>3 DEF Enable, SettingsOK, EnabledLives, Alive
  <2>4. CASE f.next = "Disabled"
    <3>1. Disable(f.h)
      BY <1>1, <2>4 DEF Run
    <3>2. epoll' = Without(epoll, {fd[f.h]}) \/ epoll' = epoll
      BY <3>1 DEF Disable
    <3>3. /\ WatchesLiving' /\ DOMAIN epoll' \subseteq opened'
          /\ \A n \in DOMAIN epoll' :
               epoll'[n] \in [ptr : Handlers, events : SUBSET Kinds]
      BY <2>1, <2>2, <3>2, EntryChanges
    <3>4. QED
      BY <1>0, <2>1, <3>1, <3>3 DEF Disable, SettingsOK, EnabledLives, Alive
  <2>5. QED
    BY <2>1, <2>3, <2>4
<1>2. CASE f.op = "set"
  <2>1. f.h \in Handlers /\ f.kind \in Kinds /\ f.on \in BOOLEAN /\ Alive(f.h)
    BY <1>2, FunctorIs
  <2>2. Install(f.h, f.kind, f.on)
    BY <1>2 DEF Run
  <2>3. PICK E \in SUBSET Kinds :
          /\ events' = [events EXCEPT ![f.h] = E]
          /\ \/ epoll' = Modified(fd[f.h], [ptr |-> f.h, events |-> E])
             \/ epoll' = epoll
    <3>1. events[f.h] \cup {f.kind} \in SUBSET Kinds
          /\ events[f.h] \ {f.kind} \in SUBSET Kinds
      BY <2>1 DEF SettingsOK
    <3>2. QED
      BY <2>2, <3>1 DEF Install
  <2>4. /\ WatchesLiving' /\ DOMAIN epoll' \subseteq opened'
        /\ \A n \in DOMAIN epoll' :
             epoll'[n] \in [ptr : Handlers, events : SUBSET Kinds]
    BY <2>1, <2>3, EntryChanges
  <2>5. callbacks' \in [Handlers -> SUBSET Kinds] /\ status' = status
    BY <2>1, <2>2 DEF Install, SettingsOK
  <2>6. QED
    BY <1>0, <2>1, <2>3, <2>4, <2>5 DEF SettingsOK, EnabledLives, Alive
<1>3. CASE f.op = "removeFd"
  <2>1. removeFd(f.fd)
    BY <1>3 DEF Run
  <2>2. /\ DOMAIN epoll' = DOMAIN epoll \ {f.fd}
        /\ \A m \in DOMAIN epoll \ {f.fd} : epoll'[m] = epoll[m]
        /\ epoll' = [m \in DOMAIN epoll' |-> epoll'[m]]
    BY <2>1, WithoutThem DEF removeFd
  <2>3. UNCHANGED <<status, callbacks, events>>
    BY <2>1 DEF removeFd
  <2>4. SettingsOK' /\ EnabledLives'
    BY <1>0, <2>2, <2>3 DEF SettingsOK, EnabledLives, Alive
  <2>5. WatchesLiving'
    BY <1>0, <2>2 DEF WatchesLiving, Alive
  <2>6. QED
    BY <2>4, <2>5
<1>4. QED
  BY <1>1, <1>2, <1>3, FunctorIs

\* Handlers nobody refers to are destroyed.
LEMMA DestroyKeeps ==
  ASSUME ObjectsOK, SettingsOK, GuardsApart, WatchesLiving, EnabledLives,
         NEW D \in SUBSET Handlers, \A h \in D : Alive(h), Destroy(D)
  PROVE  /\ SettingsOK' /\ GuardsApart' /\ WatchesLiving' /\ EnabledLives'
         /\ object' \in [Handlers -> {"none", "alive", "freed"}]
         /\ opened' \subseteq Fds
         /\ \A h \in Handlers : Alive(h)' <=> Alive(h) /\ h \notin D
<1>1. /\ object' = [h \in Handlers |-> IF h \in D THEN "freed" ELSE object[h]]
      /\ opened' = opened \ {fd[h] : h \in D}
      /\ status' = [h \in Handlers |-> IF h \in D THEN "Disabled" ELSE status[h]]
      /\ callbacks' = [h \in Handlers |-> IF h \in D THEN {} ELSE callbacks[h]]
      /\ UNCHANGED <<fd, events>>
  BY DEF Destroy
<1>2. /\ DOMAIN epoll' = DOMAIN epoll \ {fd[h] : h \in D}
      /\ \A m \in DOMAIN epoll' : epoll'[m] = epoll[m]
      /\ epoll' = [m \in DOMAIN epoll' |-> epoll'[m]]
  <2>1. epoll' = Without(epoll, {fd[h] : h \in D})
    BY DEF Destroy
  <2>2. /\ DOMAIN epoll' = DOMAIN epoll \ {fd[h] : h \in D}
        /\ \A m \in DOMAIN epoll \ {fd[h] : h \in D} : epoll'[m] = epoll[m]
        /\ epoll' = [m \in DOMAIN epoll' |-> epoll'[m]]
    BY <2>1, WithoutThem
  <2>3. QED
    BY <2>2
<1>3. /\ object' \in [Handlers -> {"none", "alive", "freed"}]
      /\ \A h \in Handlers : Alive(h)' <=> Alive(h) /\ h \notin D
  BY <1>1 DEF ObjectsOK, Alive
<1>4. SettingsOK' /\ opened' \subseteq Fds
  BY <1>1, <1>2 DEF ObjectsOK, SettingsOK
<1>5. GuardsApart'
  <2>1. ASSUME NEW h \in Handlers, Alive(h)' PROVE fd[h] \in opened'
    BY <1>1, <1>3, <2>1 DEF GuardsApart
  <2>2. QED
    BY <1>1, <1>3, <2>1 DEF GuardsApart
<1>6. WatchesLiving'
  <2>1. ASSUME NEW n \in DOMAIN epoll'
        PROVE  object'[epoll'[n].ptr] = "alive" /\ fd[epoll'[n].ptr] = n
    <3>1. n \in DOMAIN epoll /\ epoll'[n] = epoll[n] /\ n \notin {fd[h] : h \in D}
      BY <1>2
    <3>2. epoll[n].ptr \in Handlers /\ Alive(epoll[n].ptr) /\ fd[epoll[n].ptr] = n
      BY <3>1 DEF WatchesLiving, SettingsOK
    <3>3. epoll[n].ptr \notin D
      BY <3>1, <3>2
    <3>4. QED
      BY <1>3, <3>1, <3>2, <3>3 DEF Alive
  <2>2. QED
    BY <1>1, <1>2, <2>1 DEF WatchesLiving, Alive
<1>7. EnabledLives'
  BY <1>1, <1>3 DEF EnabledLives, SettingsOK
<1>8. QED
  BY <1>3, <1>4, <1>5, <1>6, <1>7

\* A handler is alive as long as its object is left alone.
LEMMA StillAlive ==
  ASSUME UNCHANGED object PROVE \A h : Alive(h)' <=> Alive(h)
BY DEF Alive

\* What is left alone stays legal.
LEMMA Untouched ==
  ASSUME ObjectsOK, SettingsOK, GuardsApart, WatchesLiving, EnabledLives,
         UNCHANGED <<objectVars, settingVars>>
  PROVE  ObjectsOK' /\ SettingsOK' /\ GuardsApart' /\ WatchesLiving' /\ EnabledLives'
<1>1. UNCHANGED <<object, fd, held, opened, status, callbacks, events, epoll>>
  BY DEF objectVars, settingVars
<1>2. ObjectsOK' /\ SettingsOK'
  BY <1>1 DEF ObjectsOK, SettingsOK
<1>3. GuardsApart' /\ EnabledLives'
  BY <1>1 DEF GuardsApart, EnabledLives, Alive
<1>4. WatchesLiving'
  BY <1>1 DEF WatchesLiving, Alive
<1>5. QED
  BY <1>2, <1>3, <1>4

\* What is captured is alive after a step that leaves the queue alone.
LEMMA QueuesStay ==
  ASSUME QueuesOK, AllLive, LateIsLast, UNCHANGED <<queueVars, funcs>>,
         phase = "ended" => phase' = "ended",
         \A h \in Handlers :
           Captured(h, functors) \/ Captured(h, funcs) \/ Captured(h, pushing)
             \/ Captured(h, late) => Alive(h)'
  PROVE  QueuesOK' /\ AllLive' /\ LateIsLast'
<1>1. UNCHANGED <<functors, pushing, late, funcs>>
  BY DEF queueVars
<1>2. QueuesOK' /\ LateIsLast'
  BY <1>1 DEF QueuesOK, LateIsLast
<1>3. AllLive'
  BY <1>1 DEF AllLive, Lives
<1>4. QED
  BY <1>2, <1>3

\* A handler that is dying goes on to as long as nobody refers to it.
LEMMA DyingStays ==
  ASSUME RemovalIsDue, pushing' = pushing,
         \A h \in Handlers : Alive(h) /\ held[h] = {"other"} =>
                               Alive(h)' /\ held'[h] = held[h] /\ fd'[h] = fd[h],
         \A h \in Handlers :
           Captured(h, functors') \/ Captured(h, funcs') \/ Captured(h, late')
             => Captured(h, functors) \/ Captured(h, funcs) \/ Captured(h, late)
  PROVE  RemovalIsDue'
<1> SUFFICES ASSUME pushing # <<>>, pushing[1].op = "removeFd"
             PROVE  \E h \in Handlers : Dying(h)' /\ fd'[h] = pushing[1].fd
  BY DEF RemovalIsDue
<1>1. PICK h \in Handlers : Dying(h) /\ fd[h] = pushing[1].fd
  BY DEF RemovalIsDue
<1>2. Alive(h) /\ held[h] = {"other"} /\ ~Captured(h, functors) /\ ~Captured(h, funcs)
      /\ ~Captured(h, late)
  BY <1>1 DEF Dying
<1>3. Alive(h)' /\ held'[h] = {"other"} /\ fd'[h] = fd[h]
  BY <1>2
<1>4. ~Captured(h, functors') /\ ~Captured(h, funcs') /\ ~Captured(h, late')
  BY <1>2
<1>5. Dying(h)'
  BY <1>3, <1>4 DEF Dying
<1>6. QED
  BY <1>1, <1>3, <1>5

\* A functor for a living handler may be on its way.
LEMMA WillPushKeeps ==
  ASSUME QueuesOK, AllLive, LateIsLast, ~End, NEW f \in Functor,
         f.op # "removeFd" => Alive(f.h),
         WillPush(f), UNCHANGED <<object, funcs, phase>>
  PROVE  /\ QueuesOK' /\ AllLive' /\ LateIsLast'
         /\ f.op # "removeFd" => RemovalIsDue'
<1>1. pushing' = <<f>> /\ UNCHANGED <<functors, late>> /\ late = <<>>
  BY DEF WillPush, LateIsLast, End
<1>2. <<f>> \in Seq(Functor) /\ Len(<<f>>) = 1 /\ <<f>>[1] = f
  OBVIOUS
<1>3. QueuesOK' /\ LateIsLast'
  BY <1>1, <1>2 DEF QueuesOK, LateIsLast
<1>4. Lives(pushing)'
  BY <1>1, CapturedAlone, StillAlive DEF Lives
<1>5. AllLive'
  BY <1>1, <1>4, StillAlive DEF AllLive, Lives
<1>6. f.op # "removeFd" => RemovalIsDue'
  BY <1>1, <1>2 DEF RemovalIsDue
<1>7. QED
  BY <1>3, <1>5, <1>6

\* So may one that is queued by a call, or none is.
LEMMA CallKeeps ==
  ASSUME Life, NEW f \in Functor, f.op # "removeFd", Alive(f.h),
         UNCHANGED queueVars \/ (~End /\ WillPush(f)),
         UNCHANGED <<object, fd, held, funcs, phase>>
  PROVE  QueuesOK' /\ AllLive' /\ LateIsLast' /\ RemovalIsDue'
<1>1. QueuesOK /\ AllLive /\ LateIsLast /\ RemovalIsDue
      /\ Lives(functors) /\ Lives(funcs) /\ Lives(pushing) /\ Lives(late)
  BY LifeIs
<1>2. CASE UNCHANGED queueVars
  <2>1. UNCHANGED <<functors, pushing, late>>
    BY <1>2 DEF queueVars
  <2>2. QueuesOK' /\ AllLive' /\ LateIsLast'
    BY <1>1, <1>2, QueuesStay, StillAlive DEF Lives
  <2>3. RemovalIsDue'
    BY <1>1, <2>1, DyingStays, StillAlive
  <2>4. QED
    BY <2>2, <2>3
<1>3. CASE ~End /\ WillPush(f)
  BY <1>1, <1>3, WillPushKeeps
<1>4. QED
  BY <1>2, <1>3

-----------------------------------------------------------------------------
(* Every step of the users and of the loop *)

\* The first state.
LEMMA LifeInit == Init => Life
<1> SUFFICES ASSUME Init PROVE Life
  OBVIOUS
<1> USE HandlerAssumption
<1>1. TypeOK
  <2>1. /\ \A h \in Handlers : TRUE
        /\ (CHOOSE n \in Fds : TRUE) \in Fds
        /\ (CHOOSE h \in Handlers : TRUE) \in Handlers
        /\ (CHOOSE k \in Kinds : TRUE) \in Kinds
    OBVIOUS
  <2>2. <<>> \in Seq(Functor) /\ Len(<<>>) = 0 /\ DOMAIN <<>> = {}
    OBVIOUS
  <2>6. ObjectsOK
    BY <2>1 DEF Init, ObjectsOK
  <2>7. running \in [ptr : Handlers, kinds : SUBSET Kinds, now : Kinds]
    BY <2>1 DEF Init
  <2>8. funcs \in Seq(Functor) /\ done \in 0..Len(funcs)
    BY <2>2 DEF Init
  <2>9. phase \in Phase /\ quit \in BOOLEAN /\ batch = {}
    BY DEF Init, Phase
  <2>3. ObjectsOK /\ LoopOK
    BY <2>6, <2>7, <2>8, <2>9 DEF LoopOK
  <2>4. SettingsOK /\ QueuesOK
    BY <2>1, <2>2 DEF Init, SettingsOK, QueuesOK
  <2>5. QED
    BY <2>3, <2>4, TypesAre
<1>2. \A h \in Handlers : ~Alive(h) /\ held[h] = {} /\ status[h] = "Created"
  BY DEF Init, Alive
<1>3. GuardsApart /\ KeptAlive
  BY <1>2, NothingCaptured DEF Init, GuardsApart, KeptAlive, EnabledLives, AllLive, Lives
<1>4. WatchesLiving
  BY DEF Init, WatchesLiving
<1>5. LoopInPhase /\ LateIsLast /\ RemovalIsDue
  BY DEF Init, LoopInPhase, LateIsLast, RemovalIsDue, End
<1>6. QED
  BY <1>1, <1>3, <1>4, <1>5 DEF Life

\* A call that goes through runInLoop().
LEMMA RunInLoopKeeps ==
  ASSUME Life, NEW t \in Users, NEW f \in Functor, f.op # "removeFd", Alive(f.h),
         RunInLoop(t, f), UNCHANGED <<objectVars, loopVars>>
  PROVE  Life'
<1>1. ObjectsOK /\ SettingsOK /\ LoopOK /\ GuardsApart /\ WatchesLiving /\ EnabledLives
      /\ LoopInPhase /\ \A g \in Handlers : held[g] # {} => Alive(g)
  BY LifeIs
<1>2. UNCHANGED <<object, fd, held, opened, funcs, done, phase, batch, running, quit>>
  BY DEF objectVars, loopVars
<1>3. ObjectsOK' /\ LoopOK' /\ GuardsApart' /\ LoopInPhase'
  BY <1>1, <1>2, StillAlive
  DEF ObjectsOK, LoopOK, GuardsApart, LoopInPhase, End, Alive
<1>4. SettingsOK' /\ WatchesLiving' /\ EnabledLives'
  <2>1. CASE t = "loop"
    BY <1>1, <2>1, RunKeeps DEF RunInLoop
  <2>2. CASE t # "loop"
    BY <1>1, <2>2, Untouched DEF RunInLoop
  <2>3. QED
    BY <2>1, <2>2
<1>5. QueuesOK' /\ AllLive' /\ LateIsLast' /\ RemovalIsDue'
  BY <1>2, CallKeeps DEF RunInLoop, queueVars
<1>6. \A h \in Handlers : held'[h] # {} => Alive(h)'
  BY <1>1, <1>2, StillAlive
<1>7. QED
  BY <1>3, <1>4, <1>5, <1>6, LifeIsNext

\* A step that leaves objects, settings and functors alone.
LEMMA LoopKeeps ==
  ASSUME Life, LoopOK', LoopInPhase', phase # "ended" \/ phase' = "ended",
         UNCHANGED <<objectVars, settingVars, queueVars, funcs>>
  PROVE  Life'
<1>1. ObjectsOK /\ SettingsOK /\ QueuesOK /\ GuardsApart /\ WatchesLiving /\ EnabledLives
      /\ AllLive /\ Lives(functors) /\ Lives(funcs) /\ Lives(pushing) /\ Lives(late)
      /\ LateIsLast /\ RemovalIsDue /\ \A h \in Handlers : held[h] # {} => Alive(h)
  BY LifeIs
<1>2. ObjectsOK' /\ SettingsOK' /\ GuardsApart' /\ WatchesLiving' /\ EnabledLives'
  BY <1>1, Untouched
<1>3. UNCHANGED <<object, fd, held, functors, pushing, late, funcs>>
  BY DEF objectVars, queueVars
<1>4. QueuesOK' /\ AllLive' /\ LateIsLast'
  BY <1>1, QueuesStay, <1>3, StillAlive DEF Lives
<1>5. RemovalIsDue' /\ \A h \in Handlers : held'[h] # {} => Alive(h)'
  BY <1>1, <1>3, DyingStays, StillAlive
<1>6. QED
  BY <1>2, <1>4, <1>5, LifeIsNext

\* A step of a user that destroys nothing.
LEMMA UserKeeps ==
  ASSUME Life, NEW t \in Users, NEW h \in Handlers,
         \/ \E n \in Fds : Create(t, h, n)
         \/ Share(t, h) \/ CallEnable(t, h) \/ CallDisable(t, h)
         \/ \E k \in Kinds, on \in BOOLEAN : CallSetCallback(t, h, k, on)
  PROVE  Life'
<1>1. ObjectsOK /\ SettingsOK /\ LoopOK /\ QueuesOK /\ GuardsApart
      /\ WatchesLiving /\ EnabledLives
      /\ AllLive /\ Lives(functors) /\ Lives(funcs) /\ Lives(pushing) /\ Lives(late)
      /\ LoopInPhase /\ LateIsLast /\ RemovalIsDue
      /\ \A g \in Handlers : held[g] # {} => Alive(g)
  BY LifeIs
<1>2. ASSUME NEW n \in Fds, Create(t, h, n) PROVE Life'
  <2>1. /\ ~Alive(h) /\ n \notin opened
        /\ object' = [object EXCEPT ![h] = "alive"] /\ fd' = [fd EXCEPT ![h] = n]
        /\ opened' = opened \cup {n} /\ held' = [held EXCEPT ![h] = {t}]
        /\ UNCHANGED <<settingVars, queueVars, loopVars>>
    BY <1>2 DEF Create, Alive
  <2>2. UNCHANGED <<status, callbacks, events, epoll, functors, pushing, late,
                    funcs, done, phase, batch, running, quit>>
    BY <2>1 DEF settingVars, queueVars, loopVars
  <2>3. ObjectsOK' /\ LoopOK' /\ LoopInPhase'
    BY <1>1, <2>1, <2>2 DEF ObjectsOK, LoopOK, LoopInPhase, End
  <2>4. SettingsOK'
    BY <1>1, <2>1, <2>2 DEF SettingsOK
  <2>5. \A g \in Handlers : /\ Alive(g)' <=> Alive(g) \/ g = h
                            /\ fd'[g] = IF g = h THEN n ELSE fd[g]
                            /\ held'[g] = IF g = h THEN {t} ELSE held[g]
    BY <1>1, <2>1 DEF ObjectsOK, Alive
  <2>6. GuardsApart'
    BY <1>1, <2>1, <2>5 DEF GuardsApart
  <2>7. EnabledLives' /\ QueuesOK' /\ AllLive' /\ LateIsLast'
    <3>1. EnabledLives'
      BY <1>1, <2>2, <2>5 DEF EnabledLives
    <3>2. QED
      BY <1>1, <2>1, <2>2, <2>5, <3>1, QueuesStay DEF Lives
  <2>8. WatchesLiving'
    <3>1. ASSUME NEW m \in DOMAIN epoll
          PROVE  object'[epoll[m].ptr] = "alive" /\ fd'[epoll[m].ptr] = m
      <4>1. epoll[m].ptr \in Handlers /\ Alive(epoll[m].ptr) /\ fd[epoll[m].ptr] = m
        BY <1>1 DEF WatchesLiving, SettingsOK
      <4>2. epoll[m].ptr # h
        BY <2>1, <4>1
      <4>3. QED
        BY <2>5, <4>1, <4>2 DEF Alive
    <3>2. QED
      BY <1>1, <2>2, <3>1 DEF WatchesLiving, Alive
  <2>9. \A g \in Handlers : held'[g] # {} => Alive(g)'
    BY <1>1, <2>5
  <2>10. RemovalIsDue'
    BY <1>1, <2>1, <2>2, <2>5, DyingStays
  <2>11. QED
    BY <2>3, <2>4, <2>6, <2>7, <2>8, <2>9, <2>10, LifeIsNext
<1>3. CASE Share(t, h)
  <2>1. /\ held[h] # {} /\ held' = [held EXCEPT ![h] = Users]
        /\ t \in held[h]
        /\ t = "other" => pushing = <<>>
        /\ UNCHANGED <<object, fd, opened, status, callbacks, events, epoll, queueVars,
                       functors, pushing, late, funcs, done, phase, batch, running, quit>>
    BY <1>3 DEF Share, CanUse, Acts, settingVars, queueVars, loopVars
  <2>2. ObjectsOK' /\ LoopOK' /\ LoopInPhase' /\ SettingsOK'
    BY <1>1, <2>1 DEF ObjectsOK, LoopOK, LoopInPhase, End, SettingsOK
  <2>3. GuardsApart' /\ EnabledLives'
    BY <1>1, <2>1, StillAlive DEF GuardsApart, EnabledLives
  <2>4. WatchesLiving'
    BY <1>1, <2>1 DEF WatchesLiving, Alive
  <2>5. \A g \in Handlers : held'[g] # {} => Alive(g)'
    BY <1>1, <2>1, StillAlive DEF ObjectsOK
  <2>6. QueuesOK' /\ AllLive' /\ LateIsLast'
    BY <1>1, <2>1, QueuesStay, StillAlive DEF Lives
  <2>7. RemovalIsDue'
    <3>1. CASE t = "other"
      BY <2>1, <3>1 DEF RemovalIsDue
    <3>2. CASE t # "other"
      <4>1. \A g \in Handlers : held[g] = {"other"} => held'[g] = held[g]
        BY <1>1, <2>1, <3>2 DEF ObjectsOK
      <4>2. QED
        BY <1>1, <2>1, <4>1, DyingStays, StillAlive
    <3>3. QED
      BY <3>1, <3>2
  <2>8. QED
    BY <2>2, <2>3, <2>4, <2>5, <2>6, <2>7, LifeIsNext
<1>4. CASE CallEnable(t, h)
  BY <1>1, <1>4, RunInLoopKeeps, FunctorsMade DEF CallEnable, CanUse
<1>5. ASSUME NEW k \in Kinds, NEW on \in BOOLEAN, CallSetCallback(t, h, k, on)
      PROVE  Life'
  BY <1>1, <1>5, RunInLoopKeeps, FunctorsMade DEF CallSetCallback, CanUse
<1>6. CASE CallDisable(t, h)
  <2>1. /\ Alive(h) /\ status' \in {status, [status EXCEPT ![h] = "Disabled"]}
        /\ callbacks' = [callbacks EXCEPT ![h] = {}] /\ events' = events
        /\ epoll' = Without(epoll, {fd[h]}) \/ epoll' = epoll
        /\ \/ UNCHANGED queueVars
           \/ ~quit /\ WillPush(Update(h, "Disabled"))
        /\ UNCHANGED <<objectVars, loopVars>>
    BY <1>1, <1>6 DEF CallDisable, CanUse
  <2>2. UNCHANGED <<object, fd, held, opened, funcs, done, phase, batch, running, quit>>
    BY <2>1 DEF objectVars, loopVars
  <2>3. ObjectsOK' /\ LoopOK' /\ LoopInPhase'
    BY <1>1, <2>2 DEF ObjectsOK, LoopOK, LoopInPhase, End
  <2>4. GuardsApart'
    BY <1>1, <2>2, StillAlive DEF GuardsApart
  <2>5. /\ WatchesLiving' /\ DOMAIN epoll' \subseteq opened'
        /\ \A n \in DOMAIN epoll' :
             epoll'[n] \in [ptr : Handlers, events : SUBSET Kinds]
    BY <1>1, <2>1, EntryChanges
  <2>6. SettingsOK' /\ EnabledLives'
    BY <1>1, <2>1, <2>2, <2>5, StillAlive DEF SettingsOK, EnabledLives
  <2>7. QueuesOK' /\ AllLive' /\ LateIsLast' /\ RemovalIsDue'
    <3>1. ~quit => ~End
      BY <1>1 DEF LoopInPhase
    <3>2. QED
      BY <2>1, <2>2, <3>1, CallKeeps, FunctorsMade
  <2>8. \A g \in Handlers : held'[g] # {} => Alive(g)'
    BY <1>1, <2>2, StillAlive
  <2>9. QED
    BY <2>3, <2>4, <2>5, <2>6, <2>7, <2>8, LifeIsNext
<1>7. QED
  BY <1>2, <1>3, <1>4, <1>5, <1>6

\* Handlers nobody refers to any more are destroyed in a step that leaves nothing
\* of them in the queues.
LEMMA UnownedKeep ==
  ASSUME Life, NEW D \in SUBSET Handlers, \A h \in D : Alive(h), Destroy(D),
         held' \in [Handlers -> SUBSET Users],
         \A h \in Handlers : held'[h] \subseteq held[h] /\ (h \in D => held'[h] = {}),
         LoopOK', LoopInPhase', QueuesOK', LateIsLast', RemovalIsDue',
         \A h \in Handlers :
           Captured(h, functors') \/ Captured(h, funcs') \/ Captured(h, pushing')
             \/ Captured(h, late') => Alive(h) /\ h \notin D
  PROVE  Life'
<1>1. ObjectsOK /\ SettingsOK /\ GuardsApart /\ WatchesLiving /\ EnabledLives
      /\ \A g \in Handlers : held[g] # {} => Alive(g)
  BY LifeIs
<1>2. /\ SettingsOK' /\ GuardsApart' /\ WatchesLiving' /\ EnabledLives'
      /\ object' \in [Handlers -> {"none", "alive", "freed"}] /\ opened' \subseteq Fds
      /\ \A g \in Handlers : Alive(g)' <=> Alive(g) /\ g \notin D
  BY <1>1, DestroyKeeps
<1>3. ObjectsOK'
  BY <1>1, <1>2 DEF ObjectsOK, Destroy
<1>4. AllLive'
  <2>1. ASSUME NEW h \in Handlers,
               Captured(h, functors') \/ Captured(h, funcs') \/ Captured(h, pushing')
                 \/ Captured(h, late')
        PROVE  Alive(h)'
    BY <1>2, <2>1
  <2>2. QED
    BY <2>1 DEF AllLive, Lives
<1>5. ASSUME NEW h \in Handlers, held'[h] # {} PROVE Alive(h)'
  BY <1>1, <1>2, <1>5
<1>6. QED
  BY <1>2, <1>3, <1>4, <1>5, LifeIsNext

\* Thread t drops its reference to h.
LEMMA ReleaseKeeps ==
  ASSUME Life, NEW t \in Users, NEW h \in Handlers, Release(t, h)
  PROVE  Life'
<1>1. ObjectsOK /\ SettingsOK /\ LoopOK /\ QueuesOK /\ GuardsApart
      /\ WatchesLiving /\ EnabledLives
      /\ AllLive /\ Lives(functors) /\ Lives(funcs) /\ Lives(pushing) /\ Lives(late)
      /\ LoopInPhase /\ LateIsLast /\ RemovalIsDue
      /\ \A g \in Handlers : held[g] # {} => Alive(g)
  BY LifeIs
<1>2. /\ t \in held[h] /\ Alive(h) /\ fd[h] \in Fds
      /\ t = "other" => pushing = <<>>
      /\ UNCHANGED <<funcs, done, phase, batch, running, quit>>
  BY <1>1 DEF Release, CanUse, Acts, loopVars, ObjectsOK
<1>3. LoopOK' /\ LoopInPhase'
  BY <1>1, <1>2 DEF LoopOK, LoopInPhase, End
<1> DEFINE asks == Last(t, h) /\ t = "other" /\ status[h] = "Enabled" /\ ~quit
<1>4. CASE asks
  <2>1. /\ callbacks' = [callbacks EXCEPT ![h] = {}] /\ WillPush(RemoveFd(fd[h]))
        /\ UNCHANGED <<objectVars, status, events, epoll>>
        /\ held[h] = {"other"} /\ Last(t, h)
    BY <1>4 DEF Release, AskToRemove, Last
  <2>2. UNCHANGED <<object, fd, held, opened>> /\ pushing' = <<RemoveFd(fd[h])>>
        /\ UNCHANGED <<functors, late>>
    BY <2>1 DEF objectVars, WillPush
  <2>3. ObjectsOK' /\ GuardsApart' /\ EnabledLives' /\ WatchesLiving' /\ SettingsOK'
        /\ \A g \in Handlers : held'[g] # {} => Alive(g)'
    BY <1>1, <2>1, <2>2, StillAlive
    DEF ObjectsOK, GuardsApart, EnabledLives, WatchesLiving, SettingsOK
  <2>4. ~End
    BY <1>1, <1>4 DEF LoopInPhase
  <2>5. /\ RemoveFd(fd[h]) \in Functor /\ RemoveFd(fd[h]).op = "removeFd"
        /\ RemoveFd(fd[h]).fd = fd[h]
    BY <1>2, FunctorsMade
  <2>6. QueuesOK' /\ AllLive' /\ LateIsLast'
    BY <1>1, <1>2, <2>1, <2>2, <2>4, <2>5, WillPushKeeps
  <2>7. RemovalIsDue'
    <3>1. ~Captured(h, functors) /\ ~Captured(h, funcs) /\ ~Captured(h, late)
      BY <2>1 DEF Last
    <3>2. Dying(h)'
      BY <1>2, <2>1, <2>2, <3>1, StillAlive DEF Dying
    <3>3. pushing'[1].fd = fd'[h]
      BY <2>2, <2>5
    <3>4. QED
      BY <3>2, <3>3 DEF RemovalIsDue
  <2>8. QED
    BY <1>3, <2>3, <2>6, <2>7, LifeIsNext
<1>5. CASE ~asks
  <2>1. /\ held' = [held EXCEPT ![h] = @ \ {t}]
        /\ IF Last(t, h) THEN Destroy({h})
                         ELSE UNCHANGED <<object, fd, opened, settingVars>>
        /\ UNCHANGED queueVars
    BY <1>5 DEF Release
  <2>2. UNCHANGED <<functors, pushing, late>>
    BY <2>1 DEF queueVars
  <2>3. QueuesOK' /\ LateIsLast'
    BY <1>1, <1>2, <2>2 DEF QueuesOK, LateIsLast
  <2>4. /\ held' \in [Handlers -> SUBSET Users]
        /\ \A g \in Handlers : held'[g] \subseteq held[g] /\ (g # h => held'[g] = held[g])
        /\ held'[h] = held[h] \ {t}
    BY <1>1, <2>1 DEF ObjectsOK
  <2>5. CASE Last(t, h)
    <3>1. /\ Destroy({h}) /\ held'[h] = {}
          /\ \A g \in Handlers : g # h /\ Alive(g) => Alive(g)' /\ fd'[g] = fd[g]
      BY <2>1, <2>4, <2>5 DEF Last, Destroy, Alive
    <3>2. RemovalIsDue'
      <4>1. CASE t = "other"
        BY <1>2, <2>2, <4>1 DEF RemovalIsDue
      <4>2. CASE t # "other"
        <5>1. held[h] # {"other"}
          BY <1>2, <4>2
        <5>2. QED
          BY <1>1, <1>2, <2>2, <2>4, <3>1, <5>1, DyingStays
      <4>3. QED
        BY <4>1, <4>2
    <3>3. \A g \in Handlers :
            Captured(g, functors) \/ Captured(g, funcs) \/ Captured(g, pushing)
              \/ Captured(g, late) => Alive(g) /\ g # h
      BY <1>1, <2>5 DEF Lives, Last
    <3>4. {h} \in SUBSET Handlers /\ \A g \in {h} : Alive(g)
      BY <1>2
    <3>5. \A g \in Handlers :
            Captured(g, functors') \/ Captured(g, funcs') \/ Captured(g, pushing')
              \/ Captured(g, late') => Alive(g) /\ g \notin {h}
      BY <1>2, <2>2, <3>3
    <3>6. \A g \in Handlers : held'[g] \subseteq held[g] /\ (g \in {h} => held'[g] = {})
      BY <2>4, <3>1
    <3>7. QED
      BY <1>3, <2>3, <2>4, <3>1, <3>2, <3>4, <3>5, <3>6, UnownedKeep
  <2>6. CASE ~Last(t, h)
    <3>1. UNCHANGED <<object, fd, opened, status, callbacks, events, epoll>>
      BY <2>1, <2>6 DEF settingVars
    <3>2. ObjectsOK' /\ SettingsOK'
      BY <1>1, <2>4, <3>1 DEF ObjectsOK, SettingsOK
    <3>3. GuardsApart' /\ EnabledLives' /\ AllLive'
      BY <1>1, <1>2, <2>2, <3>1, StillAlive DEF GuardsApart, EnabledLives, AllLive, Lives
    <3>4. WatchesLiving'
      BY <1>1, <3>1 DEF WatchesLiving, Alive
    <3>5. \A g \in Handlers : held'[g] # {} => Alive(g)'
      BY <1>1, <2>4, <3>1, StillAlive
    <3>6. RemovalIsDue'
      <4>1. CASE t = "other"
        BY <1>2, <2>2, <4>1 DEF RemovalIsDue
      <4>2. CASE t # "other"
        <5>1. held[h] # {"other"}
          BY <1>2, <4>2
        <5>2. QED
          BY <1>1, <1>2, <2>2, <2>4, <3>1, <5>1, DyingStays, StillAlive
      <4>3. QED
        BY <4>1, <4>2
    <3>7. QED
      BY <1>3, <2>3, <3>2, <3>3, <3>4, <3>5, <3>6, LifeIsNext
  <2>7. QED
    BY <2>5, <2>6
<1>6. QED
  BY <1>4, <1>5

\* The functor is pushed, and the handler whose destructor has made it is gone.
LEMMA PushKeeps ==
  ASSUME Life, Push PROVE Life'
<1>1. ObjectsOK /\ SettingsOK /\ LoopOK /\ QueuesOK /\ GuardsApart
      /\ AllLive /\ Lives(functors) /\ Lives(funcs) /\ Lives(pushing) /\ Lives(late)
      /\ LoopInPhase /\ LateIsLast /\ RemovalIsDue
      /\ \A g \in Handlers : held[g] # {} => Alive(g)
  BY LifeIs
<1> DEFINE f == pushing[1]
           D == {h \in Handlers : /\ f.op = "removeFd" /\ fd[h] = f.fd
                                  /\ object[h] = "alive"}
<1>2. /\ pushing # <<>> /\ pushing' = <<>>
      /\ IF phase = "ended" THEN late' = Append(late, f) /\ UNCHANGED functors
                            ELSE functors' = Append(functors, f) /\ UNCHANGED late
      /\ held' = [h \in Handlers |-> IF h \in D THEN {} ELSE held[h]]
      /\ Destroy(D)
      /\ UNCHANGED <<funcs, done, phase, batch, running, quit>>
  BY DEF Push, loopVars
<1>3. f \in Functor /\ pushing = <<f>>
  <2>1. pushing \in Seq(Functor) /\ Len(pushing) = 1
    <3>1. pushing \in Seq(Functor) /\ Len(pushing) <= 1
      BY <1>1 DEF QueuesOK
    <3>2. Len(pushing) \in Nat \ {0}
      BY <1>2, <3>1, EmptySeq
    <3>3. \A n \in Nat \ {0} : n <= 1 => n = 1
      OBVIOUS
    <3>4. Len(pushing) = 1
      BY <3>1, <3>2, <3>3
    <3>5. QED
      BY <3>1, <3>4
  <2>2. pushing[1] \in Functor
    BY <2>1
  <2>3. <<pushing[1]>> \in Seq(Functor) /\ Len(<<pushing[1]>>) = 1
        /\ <<pushing[1]>>[1] = pushing[1]
    BY <2>2
  <2>4. pushing = <<pushing[1]>>
    BY <2>1, <2>2, <2>3, SeqEqual
  <2>5. QED
    BY <2>2, <2>4
<1>4. late = <<>>
  BY <1>1, <1>2 DEF LateIsLast
<1>5. D \in SUBSET Handlers /\ \A h \in D : Alive(h)
  BY DEF Alive
<1>6. \A h \in D : ~Captured(h, functors) /\ ~Captured(h, funcs) /\ ~Captured(h, late)
  <2>1. CASE f.op = "removeFd"
    <3>1. PICK g \in Handlers : Dying(g) /\ fd[g] = f.fd
      BY <1>1, <1>2, <2>1 DEF RemovalIsDue
    <3>2. \A h \in D : h = g
      BY <1>1, <3>1 DEF GuardsApart, Dying, Alive
    <3>3. QED
      BY <3>1, <3>2 DEF Dying
  <2>2. CASE f.op # "removeFd"
    BY <2>2
  <2>3. QED
    BY <2>1, <2>2
<1>7. f.op # "removeFd" => D = {}
  OBVIOUS
<1>8. f.op # "removeFd" => Alive(f.h)
  <2>1. f.op # "removeFd" => f.h \in Handlers
    BY <1>3, FunctorIs
  <2>2. f.op # "removeFd" => Captured(f.h, <<f>>)
    BY DEF Captured
  <2>3. QED
    BY <1>1, <1>3, <2>1, <2>2 DEF Lives
<1> HIDE DEF D, f
<1>9. QueuesOK'
  <2>1. <<>> \in Seq(Functor) /\ Len(<<>>) = 0
    OBVIOUS
  <2>2. CASE phase = "ended"
    <3>1. late' = Append(<<>>, f) /\ UNCHANGED functors
      BY <1>2, <1>4, <2>2
    <3>2. Append(<<>>, f) \in Seq(Functor) /\ Len(Append(<<>>, f)) = 1
      BY <1>3
    <3>3. QED
      BY <1>1, <1>2, <2>1, <3>1, <3>2 DEF QueuesOK
  <2>3. CASE phase # "ended"
    BY <1>1, <1>2, <1>3, <2>1, <2>3 DEF QueuesOK
  <2>4. QED
    BY <2>2, <2>3
<1>10. LateIsLast' /\ RemovalIsDue'
  BY <1>2, <1>4 DEF LateIsLast, RemovalIsDue
<1>11. LoopOK' /\ LoopInPhase'
  BY <1>1, <1>2 DEF LoopOK, LoopInPhase, End
<1>12. /\ held' \in [Handlers -> SUBSET Users]
       /\ \A h \in Handlers : held'[h] \subseteq held[h] /\ (h \in D => held'[h] = {})
  BY <1>1, <1>2 DEF ObjectsOK
<1>13. ASSUME NEW h \in Handlers,
              Captured(h, functors') \/ Captured(h, funcs') \/ Captured(h, pushing')
                \/ Captured(h, late')
       PROVE  Alive(h) /\ h \notin D
  <2>1. ~Captured(h, pushing')
    BY <1>2, NothingCaptured
  <2>2. \/ Captured(h, functors) \/ Captured(h, funcs) \/ Captured(h, late)
        \/ f.op # "removeFd" /\ f.h = h
    BY <1>1, <1>2, <1>3, <1>13, <2>1, CapturedAppended DEF QueuesOK
  <2>3. CASE Captured(h, functors) \/ Captured(h, funcs) \/ Captured(h, late)
    BY <1>1, <1>6, <2>3 DEF Lives
  <2>4. CASE f.op # "removeFd" /\ f.h = h
    BY <1>7, <1>8, <2>4
  <2>5. QED
    BY <2>2, <2>3, <2>4
<1>14. QED
  BY <1>2, <1>5, <1>9, <1>10, <1>11, <1>12, <1>13, UnownedKeep

\* The loop tests quit_, or clears the queue: what only the functors it drops
\* owned is destroyed.
LEMMA DropKeeps ==
  ASSUME Life, WhileNotQuit \/ ClearPending PROVE Life'
<1>1. ObjectsOK /\ LoopOK /\ QueuesOK
      /\ AllLive /\ Lives(functors) /\ Lives(funcs) /\ Lives(pushing) /\ Lives(late)
      /\ LoopInPhase /\ LateIsLast /\ RemovalIsDue
  BY LifeIs
<1> DEFINE D == {h \in Handlers : object[h] = "alive" /\ ~Owned(h, functors')}
<1>2. /\ Destroy(D) /\ functors' \in {functors, <<>>}
      /\ funcs' = <<>> /\ done' = 0
      /\ UNCHANGED <<held, pushing, late, batch, running, quit>>
      /\ phase \in {"ready", "pending", "clear"}
      /\ phase' \in {"poll", "clear", "ended"}
      /\ phase' \in {"clear", "ended"} => quit
  <2>1. CASE WhileNotQuit
    BY <2>1 DEF WhileNotQuit, queueVars
  <2>2. CASE ClearPending
    <3>1. funcs = <<>> /\ quit /\ phase = "clear"
      BY <1>1, <2>2 DEF ClearPending, LoopInPhase, End
    <3>2. done = 0
      BY <1>1, <3>1 DEF LoopOK
    <3>3. QED
      BY <2>2, <3>1, <3>2 DEF ClearPending
  <2>3. QED
    BY <2>1, <2>2
<1>3. D \in SUBSET Handlers /\ \A h \in D : Alive(h)
  BY DEF Alive
<1>4. LoopOK' /\ LoopInPhase'
  <2>1. <<>> \in Seq(Functor) /\ 0 \in 0..Len(<<>>)
    OBVIOUS
  <2>2. phase' \in Phase
    BY <1>2 DEF Phase
  <2>3. funcs' \in Seq(Functor) /\ done' \in 0..Len(funcs')
    BY <1>2, <2>1
  <2>4. LoopOK'
    BY <1>1, <1>2, <2>2, <2>3 DEF LoopOK
  <2>5. LoopInPhase'
    BY <1>1, <1>2 DEF LoopInPhase, End
  <2>6. QED
    BY <2>4, <2>5
<1>5. QueuesOK' /\ LateIsLast'
  <2>1. <<>> \in Seq(Functor)
    OBVIOUS
  <2>2. late = <<>>
    BY <1>1, <1>2 DEF LateIsLast
  <2>3. QED
    BY <1>1, <1>2, <2>1, <2>2 DEF QueuesOK, LateIsLast
<1>6. \A h \in Handlers : Captured(h, functors') => Captured(h, functors)
  BY <1>2, NothingCaptured
<1>7. \A h \in Handlers : ~Captured(h, funcs')
  BY <1>2, NothingCaptured
<1>8. \A h \in Handlers : ~Captured(h, late')
  <2>1. late' = <<>>
    BY <1>1, <1>2 DEF LateIsLast
  <2>2. QED
    BY <2>1, NothingCaptured
<1>9. RemovalIsDue'
  <2>1. \A h \in Handlers : held[h] # {} => h \notin D
    BY DEF Owned
  <2>2. \A h \in Handlers : h \notin D /\ Alive(h) => Alive(h)' /\ fd'[h] = fd[h]
    BY <1>2 DEF Destroy, Alive
  <2>3. QED
    BY <1>1, <1>2, <1>6, <1>7, <1>8, <2>1, <2>2, DyingStays
<1>10. ASSUME NEW h \in Handlers,
              Captured(h, functors') \/ Captured(h, funcs') \/ Captured(h, pushing')
                \/ Captured(h, late')
       PROVE  Alive(h) /\ h \notin D
  <2>1. Captured(h, functors') \/ Captured(h, pushing)
    BY <1>2, <1>7, <1>8, <1>10
  <2>2. Alive(h)
    BY <1>1, <1>6, <2>1 DEF Lives
  <2>3. Owned(h, functors')
    BY <2>1 DEF Owned
  <2>4. QED
    BY <2>2, <2>3
<1>11. /\ held' \in [Handlers -> SUBSET Users]
       /\ \A h \in Handlers : held'[h] \subseteq held[h] /\ (h \in D => held'[h] = {})
  BY <1>1, <1>2 DEF ObjectsOK, Owned
<1> HIDE DEF D
<1>12. QED
  BY <1>2, <1>3, <1>4, <1>5, <1>9, <1>10, <1>11, UnownedKeep

\* The order of dispatch is one of Kinds.
LEMMA FirstIsOne ==
  ASSUME NEW kinds \in SUBSET Kinds, kinds # {} PROVE First(kinds) \in kinds
<1> DEFINE S == {i \in 1..4 : DispatchOrder[i] \in kinds}
<1>1. PICK i \in 1..4 : DispatchOrder[i] \in kinds
  BY HandlerAssumption
<1>2. \E m \in S : \A x \in S : m <= x
  BY <1>1
<1>3. Min(S) \in S
  BY <1>2 DEF Min
<1>4. QED
  BY <1>3 DEF First

\* A step of the loop that runs neither a functor nor the test of quit_.
LEMMA DispatchKeeps ==
  ASSUME Life,
         Poll \/ (\E entry \in batch : Dispatch(entry)) \/ TestKind \/ CallbackReturns
  PROVE  Life'
<1>1. SettingsOK /\ LoopOK
  BY TypesAre DEF Life
<1>2. CASE Poll
  <2>1. PICK ready \in SUBSET {n \in DOMAIN epoll : Reports(n) # {}} :
          \E kinds \in [ready -> SUBSET Kinds] :
            batch' = {[ptr |-> epoll[n].ptr, kinds |-> kinds[n]] : n \in ready}
    BY <1>2 DEF Poll
  <2>2. PICK kinds \in [ready -> SUBSET Kinds] :
          batch' = {[ptr |-> epoll[n].ptr, kinds |-> kinds[n]] : n \in ready}
    BY <2>1
  <2>3. \A n \in ready : epoll[n].ptr \in Handlers
    BY <1>1 DEF SettingsOK
  <2>4. batch' \subseteq [ptr : Handlers, kinds : SUBSET Kinds]
    BY <2>2, <2>3
  <2>5. /\ phase' = "io"
        /\ UNCHANGED <<objectVars, settingVars, queueVars, funcs, done, running, quit>>
        /\ phase # "ended"
    BY <1>2 DEF Poll
  <2>6. LoopOK' /\ LoopInPhase'
    BY <1>1, <2>4, <2>5 DEF LoopOK, LoopInPhase, Phase, End
  <2>7. QED
    BY <2>5, <2>6, LoopKeeps
<1>3. ASSUME NEW entry \in batch, Dispatch(entry) PROVE Life'
  <2>1. LoopOK' /\ LoopInPhase'
    <3>1. entry.ptr \in Handlers /\ entry.kinds \in SUBSET Kinds
      BY <1>1 DEF LoopOK
    <3>2. running' \in [ptr : Handlers, kinds : SUBSET Kinds, now : Kinds]
      BY <1>1, <1>3, <3>1 DEF Dispatch, LoopOK
    <3>3. phase = "io" /\ phase' \in {"io", "dispatch", "dead"} /\ batch' \subseteq batch
      BY <1>3 DEF Dispatch
    <3>4. UNCHANGED <<funcs, done, quit>>
      BY <1>3 DEF Dispatch
    <3>5. QED
      BY <1>1, <3>2, <3>3, <3>4 DEF LoopOK, LoopInPhase, Phase, End
  <2>2. QED
    BY <1>3, <2>1, LoopKeeps DEF Dispatch
<1>4. CASE TestKind
  <2>1. LoopOK' /\ LoopInPhase'
    <3>1. running' \in [ptr : Handlers, kinds : SUBSET Kinds, now : Kinds]
      <4>1. CASE running.kinds = {}
        BY <1>1, <1>4, <4>1 DEF TestKind, LoopOK
      <4>2. CASE running.kinds # {}
        <5>1. running.kinds \in SUBSET Kinds /\ First(running.kinds) \in Kinds
          BY <1>1, <4>2, FirstIsOne DEF LoopOK
        <5>2. running' = [running EXCEPT !.kinds = @ \ {First(running.kinds)},
                                         !.now = First(running.kinds)]
          BY <1>4, <4>2 DEF TestKind
        <5>3. QED
          BY <1>1, <5>1, <5>2 DEF LoopOK
      <4>3. QED
        BY <4>1, <4>2
    <3>2. phase = "dispatch" /\ phase' \in {"io", "dispatch", "callback"}
      BY <1>4 DEF TestKind
    <3>3. UNCHANGED <<funcs, done, batch, quit>>
      BY <1>4 DEF TestKind
    <3>4. QED
      BY <1>1, <3>1, <3>2, <3>3 DEF LoopOK, LoopInPhase, Phase, End
  <2>2. QED
    BY <1>4, <2>1, LoopKeeps DEF TestKind
<1>5. CASE CallbackReturns
  <2>1. LoopOK' /\ LoopInPhase'
    BY <1>1, <1>5 DEF CallbackReturns, LoopOK, LoopInPhase, Phase, End
  <2>2. QED
    BY <1>5, <2>1, LoopKeeps DEF CallbackReturns
<1>6. QED
  BY <1>2, <1>3, <1>4, <1>5

\* A step of the loop with its functors.
LEMMA FunctorsKeep ==
  ASSUME Life, SwapFunctors \/ RunFunctor PROVE Life'
<1>1. ObjectsOK /\ SettingsOK /\ LoopOK /\ QueuesOK /\ GuardsApart
      /\ WatchesLiving /\ EnabledLives
      /\ AllLive /\ Lives(functors) /\ Lives(funcs) /\ Lives(pushing) /\ Lives(late)
      /\ LoopInPhase /\ LateIsLast /\ RemovalIsDue
      /\ \A g \in Handlers : held[g] # {} => Alive(g)
  BY LifeIs
<1>2. UNCHANGED <<object, fd, held, opened, pushing, late, batch, running, quit>>
  BY DEF SwapFunctors, RunFunctor, objectVars, queueVars
<1>3. /\ ObjectsOK' /\ GuardsApart'
      /\ \A g \in Handlers : held'[g] # {} => Alive(g)'
  BY <1>1, <1>2, StillAlive DEF ObjectsOK, GuardsApart
<1>4. CASE SwapFunctors
  <2>1. /\ phase' = "pending" /\ phase = "io" /\ batch = {}
        /\ funcs' = functors /\ functors' = <<>>
        /\ done' = 0 /\ UNCHANGED <<objectVars, settingVars>>
    BY <1>4 DEF SwapFunctors
  <2>2. <<>> \in Seq(Functor) /\ 0 \in 0..Len(functors)
    BY <1>1 DEF QueuesOK
  <2>3. LoopOK' /\ LoopInPhase' /\ QueuesOK' /\ LateIsLast'
    BY <1>1, <1>2, <2>1, <2>2
    DEF LoopOK, LoopInPhase, Phase, End, QueuesOK, LateIsLast
  <2>4. AllLive'
    BY <1>1, <1>2, <2>1, NothingCaptured, StillAlive DEF AllLive, Lives
  <2>5. RemovalIsDue'
    BY <1>1, <1>2, <2>1, NothingCaptured, StillAlive, DyingStays
  <2>6. SettingsOK' /\ WatchesLiving' /\ EnabledLives'
    BY <1>1, <2>1, Untouched
  <2>7. QED
    BY <1>3, <2>3, <2>4, <2>5, <2>6, LifeIsNext
<1>5. CASE RunFunctor
  <2>1. /\ phase = "pending" /\ done < Len(funcs) /\ Run(funcs[done + 1])
        /\ done' = done + 1 /\ UNCHANGED <<objectVars, queueVars, funcs, phase>>
    BY <1>5 DEF RunFunctor
  <2>2. /\ funcs[done + 1] \in Functor
        /\ funcs[done + 1].op # "removeFd" => Alive(funcs[done + 1].h)
    BY <1>1, <2>1, NextFunctor, FunctorIs DEF Lives, Life
  <2>3. SettingsOK' /\ WatchesLiving' /\ EnabledLives'
    BY <1>1, <2>1, <2>2, RunKeeps
  <2>4. LoopOK' /\ LoopInPhase'
    <3>1. done' \in 0..Len(funcs)
      BY <1>1, <2>1 DEF LoopOK
    <3>2. QED
      BY <1>1, <1>2, <2>1, <3>1 DEF LoopOK, LoopInPhase, End
  <2>5. functors' = functors
    BY <2>1 DEF queueVars
  <2>6. QueuesOK' /\ AllLive' /\ LateIsLast'
    BY <1>1, <1>2, <2>1, StillAlive, QueuesStay DEF Lives
  <2>7. RemovalIsDue'
    BY <1>1, <1>2, <2>1, <2>5, StillAlive, DyingStays
  <2>8. QED
    BY <1>3, <2>3, <2>4, <2>6, <2>7, LifeIsNext
<1>6. QED
  BY <1>4, <1>5

\* Every step preserves what is known of the life of handlers.
LEMMA LifeStep == Life /\ [Next]_vars => Life'
<1> SUFFICES ASSUME Life, [Next]_vars PROVE Life'
  OBVIOUS
<1>1. ASSUME NEW t \in Users, EndLoop(t) PROVE Life'
  <2>1. LoopOK' /\ LoopInPhase'
    BY <1>1, LifeIs DEF EndLoop, LoopOK, LoopInPhase, End
  <2>2. QED
    BY <1>1, <2>1, LoopKeeps DEF EndLoop
<1>2. ASSUME NEW t \in Users, NEW h \in Handlers,
             \/ \E n \in Fds : Create(t, h, n)
             \/ Share(t, h) \/ CallEnable(t, h) \/ CallDisable(t, h)
             \/ \E k \in Kinds, on \in BOOLEAN : CallSetCallback(t, h, k, on)
      PROVE  Life'
  BY <1>2, UserKeeps
<1>3. ASSUME NEW t \in Users, NEW h \in Handlers, Release(t, h) PROVE Life'
  BY <1>3, ReleaseKeeps
<1>4. CASE Poll \/ (\E entry \in batch : Dispatch(entry)) \/ TestKind \/ CallbackReturns
  BY <1>4, DispatchKeeps
<1>5. CASE SwapFunctors \/ RunFunctor
  BY <1>5, FunctorsKeep
<1>6. CASE WhileNotQuit \/ ClearPending
  BY <1>6, DropKeeps
<1>7. CASE Push
  BY <1>7, PushKeeps
<1>8. CASE UNCHANGED vars
  <2>1. UNCHANGED <<objectVars, settingVars, queueVars, loopVars>>
    BY <1>8 DEF vars
  <2>2. UNCHANGED <<funcs, done, phase, batch, running, quit>>
    BY <2>1 DEF loopVars
  <2>3. LoopOK' /\ LoopInPhase'
    BY <2>2, LifeIs DEF LoopOK, LoopInPhase, End
  <2>4. QED
    BY <2>1, <2>2, <2>3, LoopKeeps
<1>9. QED
  BY <1>1, <1>2, <1>3, <1>4, <1>5, <1>6, <1>7, <1>8 DEF Next, UserStep, LoopStep

\* Types and lives are legal in every reachable state, whatever users do.
THEOREM LivesAreLegal == HandlerSpec => []Life
BY LifeInit, LifeStep, PTL DEF HandlerSpec

-----------------------------------------------------------------------------
(* epoll matches the handlers *)

\* The handlers epoll should watch.
EnabledOnes == {h \in Handlers : status[h] = "Enabled"}

\* Enabled handlers guard different descriptors.
LEMMA EnabledApart ==
  ASSUME GuardsApart, EnabledLives, NEW g \in EnabledOnes, NEW h \in Handlers, Alive(h),
         fd[g] = fd[h]
  PROVE  g = h
BY DEF GuardsApart, EnabledLives, EnabledOnes

\* The entry of h is set, and h is Enabled afterwards.
LEMMA MatchesWith ==
  ASSUME SettingsOK, ObjectsOK, GuardsApart, EnabledLives, Matches, ~quit,
         NEW h \in Handlers, Alive(h), NEW E,
         epoll' = With(epoll, fd[h], [ptr |-> h, events |-> E]),
         events' = [events EXCEPT ![h] = E],
         status' = [status EXCEPT ![h] = "Enabled"], UNCHANGED fd
  PROVE  Matches'
<1> DEFINE e == [ptr |-> h, events |-> E]
<1>1. /\ DOMAIN epoll' = DOMAIN epoll \cup {fd[h]}
      /\ epoll'[fd[h]] = e
      /\ \A m \in DOMAIN epoll \ {fd[h]} : epoll'[m] = epoll[m]
  <2> HIDE DEF e
  <2>1. epoll' = With(epoll, fd[h], e)
    BY DEF e
  <2>2. QED
    BY <2>1, WithEntry
<1>2. EnabledOnes' = EnabledOnes \cup {h}
  BY DEF EnabledOnes, SettingsOK
<1>3. DOMAIN epoll = {fd[g] : g \in EnabledOnes}
      /\ \A g \in EnabledOnes : epoll[fd[g]] = Entry(g)
  BY DEF Matches, EnabledOnes
<1>4. ASSUME NEW g \in EnabledOnes' PROVE epoll'[fd[g]] = Entry(g)'
  <2>1. CASE g = h
    BY <1>1, <2>1 DEF Entry, SettingsOK
  <2>2. CASE g # h
    <3>1. g \in EnabledOnes /\ fd[g] # fd[h]
      BY <1>2, <2>2, EnabledApart
    <3>2. epoll'[fd[g]] = Entry(g) /\ events'[g] = events[g]
      BY <1>1, <1>3, <2>2, <3>1 DEF SettingsOK, EnabledOnes
    <3>3. QED
      BY <3>2 DEF Entry
  <2>3. QED
    BY <2>1, <2>2
<1>5. DOMAIN epoll' = {fd'[g] : g \in EnabledOnes'}
  BY <1>1, <1>2, <1>3
<1>6. QED
  BY <1>4, <1>5 DEF Matches, EnabledOnes

\* The handlers of D are Enabled no more, and their entries gone.
LEMMA MatchesWithout ==
  ASSUME SettingsOK, GuardsApart, EnabledLives, Matches, ~quit,
         NEW D \in SUBSET Handlers, \A h \in D : Alive(h),
         epoll' = Without(epoll, {fd[h] : h \in D}), UNCHANGED <<events, fd>>,
         \A h \in Handlers : status'[h] = IF h \in D THEN "Disabled" ELSE status[h]
  PROVE  Matches'
<1>1. /\ DOMAIN epoll' = DOMAIN epoll \ {fd[h] : h \in D}
      /\ \A m \in DOMAIN epoll \ {fd[h] : h \in D} : epoll'[m] = epoll[m]
  BY WithoutThem
<1>2. EnabledOnes' = EnabledOnes \ D
  BY DEF EnabledOnes
<1>3. DOMAIN epoll = {fd[g] : g \in EnabledOnes}
      /\ \A g \in EnabledOnes : epoll[fd[g]] = Entry(g)
  BY DEF Matches, EnabledOnes
<1>4. ASSUME NEW g \in EnabledOnes' PROVE fd[g] \notin {fd[h] : h \in D}
  BY <1>2, EnabledApart
<1>5. DOMAIN epoll' = {fd'[g] : g \in EnabledOnes'}
  <2>1. ASSUME NEW m \in DOMAIN epoll' PROVE m \in {fd'[g] : g \in EnabledOnes'}
    <3>1. PICK g \in EnabledOnes : m = fd[g]
      BY <1>1, <1>3
    <3>2. g \notin D
      BY <1>1, <3>1
    <3>3. QED
      BY <1>2, <3>1, <3>2
  <2>2. ASSUME NEW g \in EnabledOnes' PROVE fd'[g] \in DOMAIN epoll'
    BY <1>1, <1>2, <1>3, <1>4
  <2>3. QED
    BY <2>1, <2>2
<1>6. ASSUME NEW g \in EnabledOnes' PROVE epoll'[fd'[g]] = Entry(g)'
  BY <1>1, <1>2, <1>3, <1>4, <1>6 DEF Entry
<1>7. QED
  BY <1>5, <1>6 DEF Matches, EnabledOnes

\* Nothing that counts changes, but settings of handlers that are not Enabled.
LEMMA MatchesStill ==
  ASSUME Matches, UNCHANGED <<epoll, fd, quit>>,
         \A h \in Handlers : status'[h] = "Enabled" <=> status[h] = "Enabled",
         \A h \in Handlers : status[h] = "Enabled" => events'[h] = events[h]
  PROVE  Matches'
<1>1. EnabledOnes' = EnabledOnes
  BY DEF EnabledOnes
<1>2. ASSUME ~quit
      PROVE  /\ DOMAIN epoll' = {fd'[h] : h \in EnabledOnes'}
             /\ \A h \in EnabledOnes' : epoll'[fd'[h]] = Entry(h)'
  <2>1. DOMAIN epoll' = {fd'[h] : h \in EnabledOnes'}
    BY <1>1, <1>2 DEF Matches, EnabledOnes
  <2>2. \A h \in EnabledOnes : epoll[fd[h]] = Entry(h) /\ events'[h] = events[h]
    BY <1>2 DEF Matches, EnabledOnes
  <2>3. QED
    BY <1>1, <2>1, <2>2 DEF Entry
<1>3. QED
  BY <1>2 DEF Matches, EnabledOnes

\* A functor that is run.
LEMMA MatchesRun ==
  ASSUME SettingsOK, ObjectsOK, GuardsApart, EnabledLives, Matches,
         NEW f \in Functor, f.op # "removeFd", Alive(f.h), Run(f),
         UNCHANGED <<fd, quit>>
  PROVE  Matches'
<1>0. CASE quit
  BY <1>0 DEF Matches
<1>1. CASE ~quit /\ f.op = "update" /\ f.next = "Enabled"
  <2>1. f.h \in Handlers /\ Enable(f.h)
    BY <1>1, FunctorIs DEF Run
  <2>2. epoll' = With(epoll, fd[f.h], Entry(f.h))
    <3>1. CASE status[f.h] = "Enabled"
      BY <1>1, <2>1, <3>1 DEF Enable, Modified, Matches
    <3>2. CASE status[f.h] # "Enabled"
      <4>1. fd[f.h] \notin DOMAIN epoll
        <5>1. \A g \in EnabledOnes : fd[g] = fd[f.h] => g = f.h
          BY <2>1, EnabledApart
        <5>2. QED
          BY <1>1, <3>2, <5>1 DEF Matches, EnabledOnes
      <4>2. QED
        BY <2>1, <3>2, <4>1 DEF Enable, Added
    <3>3. QED
      BY <3>1, <3>2
  <2>3. events' = [events EXCEPT ![f.h] = events[f.h]]
    BY <2>1 DEF Enable, SettingsOK
  <2>4. Entry(f.h) = [ptr |-> f.h, events |-> events[f.h]]
    BY DEF Entry
  <2>5. QED
    BY <1>1, <2>1, <2>2, <2>3, <2>4, MatchesWith DEF Enable
<1>2. CASE ~quit /\ f.op = "update" /\ f.next = "Disabled"
  <2>1. f.h \in Handlers /\ Disable(f.h)
    BY <1>2, FunctorIs DEF Run
  <2>2. CASE status[f.h] = "Enabled"
    <3>1. epoll' = Without(epoll, {fd[h] : h \in {f.h}})
      BY <2>1, <2>2 DEF Disable
    <3>2. /\ UNCHANGED <<events, fd>> /\ {f.h} \in SUBSET Handlers
          /\ \A h \in Handlers : status'[h] = IF h \in {f.h} THEN "Disabled" ELSE status[h]
          /\ \A h \in {f.h} : Alive(h)
      BY <2>1 DEF Disable, SettingsOK
    <3>3. QED
      BY <1>2, <3>1, <3>2, MatchesWithout
  <2>3. CASE status[f.h] # "Enabled"
    BY <2>1, <2>3, MatchesStill DEF Disable, SettingsOK
  <2>4. QED
    BY <2>2, <2>3
<1>3. CASE ~quit /\ f.op = "set"
  <2>1. f.h \in Handlers /\ Install(f.h, f.kind, f.on)
    BY <1>3, FunctorIs DEF Run
  <2>2. PICK E :
          /\ events' = [events EXCEPT ![f.h] = E] /\ UNCHANGED status
          /\ epoll' = IF status[f.h] = "Enabled"
                        THEN Modified(fd[f.h], [ptr |-> f.h, events |-> E]) ELSE epoll
    BY <2>1 DEF Install
  <2>3. CASE status[f.h] = "Enabled"
    <3>1. fd[f.h] \in DOMAIN epoll
      BY <1>3, <2>1, <2>3 DEF Matches
    <3>2. epoll' = With(epoll, fd[f.h], [ptr |-> f.h, events |-> E])
      BY <2>2, <2>3, <3>1 DEF Modified
    <3>3. status' = [status EXCEPT ![f.h] = "Enabled"]
      BY <2>1, <2>2, <2>3 DEF SettingsOK
    <3>4. QED
      BY <1>3, <2>1, <2>2, <3>2, <3>3, MatchesWith
  <2>4. CASE status[f.h] # "Enabled"
    BY <2>1, <2>2, <2>4, MatchesStill DEF SettingsOK
  <2>5. QED
    BY <2>3, <2>4
<1>4. QED
  BY <1>0, <1>1, <1>2, <1>3, FunctorIs

\* No functor removes a descriptor, so none but its handler's calls change
\* what epoll has of it.
LEMMA MatchesStep ==
  ASSUME "releaseEnabled" \notin Risky, Life, NoRemoval, Matches, [Next]_vars
  PROVE  NoRemoval' /\ Matches'
<1>1. ObjectsOK /\ SettingsOK /\ LoopOK /\ QueuesOK /\ GuardsApart
      /\ EnabledLives /\ Lives(functors) /\ Lives(funcs) /\ LoopInPhase
      /\ \A g \in Handlers : held[g] # {} => Alive(g)
  BY LifeIs
<1>2. ASSUME UNCHANGED <<functors, funcs, pushing>> PROVE NoRemoval'
  BY <1>2 DEF NoRemoval
<1>2a. ASSUME NEW f, f.op # "removeFd", UNCHANGED queueVars \/ WillPush(f), funcs' = funcs
       PROVE  NoRemoval'
  <2>1. CASE UNCHANGED queueVars
    BY <1>2, <1>2a, <2>1 DEF queueVars
  <2>2. CASE WillPush(f)
    <3>1. <<f>>[1] = f
      OBVIOUS
    <3>2. QED
      BY <1>2a, <2>2, <3>1 DEF WillPush, NoRemoval
  <2>3. QED
    BY <1>2a, <2>1, <2>2
<1>3. ASSUME NEW f \in Functor, f.op # "removeFd",
             functors' = functors \/ functors' = Append(functors, f), funcs' = funcs,
             pushing' = <<>>
      PROVE  NoRemoval'
  <2>1. CASE functors' = functors
    BY <1>3, <2>1 DEF NoRemoval
  <2>2. CASE functors' = Append(functors, f)
    <3>1. ASSUME NEW i \in DOMAIN functors' PROVE functors'[i].op # "removeFd"
      <4>1. i \in 1..(Len(functors) + 1)
        BY <1>1, <2>2 DEF QueuesOK
      <4>2. CASE i = Len(functors) + 1
        BY <1>1, <1>3, <2>2, <4>2 DEF QueuesOK
      <4>3. CASE i # Len(functors) + 1
        <5>1. i \in DOMAIN functors /\ functors'[i] = functors[i]
          BY <1>1, <2>2, <4>1, <4>3 DEF QueuesOK
        <5>2. QED
          BY <5>1 DEF NoRemoval
      <4>4. QED
        BY <4>2, <4>3
    <3>2. QED
      BY <1>3, <3>1 DEF NoRemoval
  <2>3. QED
    BY <1>3, <2>1, <2>2
<1>4. ASSUME UNCHANGED <<objectVars, settingVars, quit>> PROVE Matches'
  <2>1. UNCHANGED <<epoll, fd, quit, status, events>>
    BY <1>4 DEF objectVars, settingVars
  <2>2. QED
    BY <2>1, MatchesStill
<1>5. ASSUME NEW t \in Users, NEW h \in Handlers, CanUse(t, h),
             NEW f \in Functor, f.op # "removeFd", f.h = h, RunInLoop(t, f),
             UNCHANGED <<objectVars, loopVars>>
      PROVE  NoRemoval' /\ Matches'
  <2>1. UNCHANGED <<object, fd, funcs, quit>>
    BY <1>5 DEF objectVars, loopVars
  <2>2. Alive(h)
    BY <1>1, <1>5 DEF CanUse
  <2>3. CASE t = "loop"
    <3>1. Run(f) /\ UNCHANGED queueVars
      BY <1>5, <2>3 DEF RunInLoop
    <3>2. Matches'
      BY <1>1, <1>5, <2>1, <2>2, <3>1, MatchesRun
    <3>3. QED
      BY <1>5, <1>2a, <2>1, <3>1, <3>2
  <2>4. CASE t # "loop"
    BY <1>4, <1>5, <1>2a, <2>1, <2>4 DEF RunInLoop
  <2>5. QED
    BY <2>3, <2>4
<1>6. ASSUME NEW t \in Users, EndLoop(t) PROVE NoRemoval' /\ Matches'
  BY <1>2, <1>6 DEF EndLoop, Matches, queueVars
<1>7. ASSUME NEW t \in Users, NEW h \in Handlers, NEW n \in Fds, Create(t, h, n)
      PROVE  NoRemoval' /\ Matches'
  <2>1. ~Alive(h) /\ fd' = [fd EXCEPT ![h] = n]
        /\ UNCHANGED <<status, events, epoll, functors, pushing, funcs, quit>>
    BY <1>7 DEF Create, Alive, settingVars, queueVars, loopVars
  <2>2. \A g \in EnabledOnes : g # h /\ fd'[g] = fd[g]
    BY <1>1, <2>1 DEF EnabledLives, EnabledOnes, ObjectsOK
  <2>3. ASSUME ~quit
        PROVE  /\ DOMAIN epoll' = {fd'[g] : g \in EnabledOnes'}
               /\ \A g \in EnabledOnes' : epoll'[fd'[g]] = Entry(g)'
    <3>1. /\ DOMAIN epoll = {fd[g] : g \in EnabledOnes}
          /\ \A g \in EnabledOnes : epoll[fd[g]] = Entry(g)
      BY <2>3 DEF Matches, EnabledOnes
    <3>2. EnabledOnes' = EnabledOnes
      BY <2>1 DEF EnabledOnes
    <3>3. QED
      BY <2>1, <2>2, <3>1, <3>2 DEF Entry
  <2>4. QED
    BY <1>2, <2>1, <2>3 DEF Matches, EnabledOnes
<1>8. ASSUME NEW t \in Users, NEW h \in Handlers, Share(t, h)
      PROVE  NoRemoval' /\ Matches'
  <2>1. UNCHANGED <<fd, status, events, epoll, functors, pushing, funcs, quit>>
    BY <1>8 DEF Share, settingVars, queueVars, loopVars
  <2>2. QED
    BY <1>2, <2>1, MatchesStill
<1>9. ASSUME NEW t \in Users, NEW h \in Handlers, CallEnable(t, h)
      PROVE  NoRemoval' /\ Matches'
  BY <1>5, <1>9, FunctorsMade DEF CallEnable
<1>10. ASSUME NEW t \in Users, NEW h \in Handlers, NEW k \in Kinds, NEW on \in BOOLEAN,
              CallSetCallback(t, h, k, on)
       PROVE  NoRemoval' /\ Matches'
  BY <1>5, <1>10, FunctorsMade DEF CallSetCallback
<1>11. ASSUME NEW t \in Users, NEW h \in Handlers, CallDisable(t, h)
       PROVE  NoRemoval' /\ Matches'
  <2>1. UNCHANGED <<object, fd, funcs, quit, events>> /\ Alive(h)
    BY <1>1, <1>11 DEF CallDisable, CanUse, objectVars, loopVars
  <2>2. NoRemoval'
    <3>1. UNCHANGED queueVars \/ WillPush(Update(h, "Disabled"))
      BY <1>11 DEF CallDisable
    <3>2. Update(h, "Disabled") \in Functor /\ Update(h, "Disabled").op # "removeFd"
      BY FunctorsMade
    <3>3. QED
      BY <1>2a, <2>1, <3>1, <3>2
  <2>3. CASE quit
    BY <2>1, <2>2, <2>3 DEF Matches
  <2>4. CASE ~quit /\ t = "loop" /\ status[h] = "Enabled"
    <3>1. /\ epoll' = Without(epoll, {fd[g] : g \in {h}})
          /\ \A g \in Handlers : status'[g] = IF g \in {h} THEN "Disabled" ELSE status[g]
      <4>1. epoll' = Without(epoll, {fd[h]}) /\ status' = [status EXCEPT ![h] = "Disabled"]
        BY <1>11, <2>4 DEF CallDisable
      <4>2. QED
        BY <1>1, <4>1 DEF SettingsOK
    <3>2. {h} \in SUBSET Handlers /\ \A g \in {h} : Alive(g)
      BY <2>1
    <3>3. Matches'
      BY <1>1, <2>1, <2>4, <3>1, <3>2, MatchesWithout
    <3>4. QED
      BY <2>2, <3>3
  <2>5. CASE ~quit /\ ~(t = "loop" /\ status[h] = "Enabled")
    <3>1. epoll' = epoll /\ \A g \in Handlers : status'[g] = "Enabled" <=> status[g] = "Enabled"
      BY <1>1, <1>11, <2>5 DEF CallDisable, SettingsOK
    <3>2. Matches'
      BY <2>1, <3>1, MatchesStill
    <3>3. QED
      BY <2>2, <3>2
  <2>6. QED
    BY <2>3, <2>4, <2>5
<1>12. ASSUME NEW t \in Users, NEW h \in Handlers, Release(t, h)
       PROVE  NoRemoval' /\ Matches'
  <2>1. UNCHANGED <<funcs, quit>> /\ Alive(h)
    BY <1>1, <1>12 DEF Release, CanUse, loopVars
  <2>2. /\ IF Last(t, h) THEN Destroy({h})
                         ELSE UNCHANGED <<object, fd, opened, settingVars>>
        /\ UNCHANGED <<functors, pushing>>
    <3>1. Last(t, h) /\ t = "other" /\ ~quit => status[h] # "Enabled"
      BY <1>1, <1>12 DEF Release, Careful, LoopInPhase
    <3>2. QED
      BY <1>12, <3>1 DEF Release, queueVars
  <2>3. CASE Last(t, h)
    <3>1. /\ epoll' = Without(epoll, {fd[g] : g \in {h}}) /\ UNCHANGED <<fd, events>>
          /\ \A g \in Handlers : status'[g] = IF g \in {h} THEN "Disabled" ELSE status[g]
      BY <2>2, <2>3 DEF Destroy
    <3>2. CASE quit
      BY <1>2, <2>1, <2>2, <3>2 DEF Matches
    <3>3. CASE ~quit
      <4>1. {h} \in SUBSET Handlers /\ \A g \in {h} : Alive(g)
        BY <2>1
      <4>2. Matches'
        BY <1>1, <3>1, <3>3, <4>1, MatchesWithout
      <4>3. QED
        BY <1>2, <2>1, <2>2, <4>2
    <3>4. QED
      BY <3>2, <3>3
  <2>4. CASE ~Last(t, h)
    <3>1. UNCHANGED <<fd, status, events, epoll>>
      BY <2>2, <2>4 DEF settingVars
    <3>2. QED
      BY <1>2, <2>1, <2>2, <3>1, MatchesStill
  <2>5. QED
    BY <2>3, <2>4
<1>13. CASE Poll \/ (\E entry \in batch : Dispatch(entry)) \/ TestKind \/ CallbackReturns
  BY <1>2, <1>4, <1>13 DEF Poll, Dispatch, TestKind, CallbackReturns, queueVars
<1>14. CASE SwapFunctors
  <2>1. NoRemoval'
    BY <1>14 DEF SwapFunctors, NoRemoval
  <2>2. QED
    BY <1>4, <1>14, <2>1 DEF SwapFunctors
<1>15. CASE RunFunctor
  <2>1. /\ done < Len(funcs) /\ Run(funcs[done + 1])
        /\ UNCHANGED <<object, fd, functors, pushing, funcs, quit>>
    BY <1>15 DEF RunFunctor, objectVars, queueVars
  <2>2. funcs[done + 1] \in Functor /\ funcs[done + 1].op # "removeFd"
        /\ Alive(funcs[done + 1].h)
    BY <1>1, <2>1, NextFunctor, FunctorIs DEF Lives, Life, NoRemoval
  <2>3. Matches'
    BY <1>1, <2>1, <2>2, MatchesRun
  <2>4. QED
    BY <1>2, <2>1, <2>3
<1>16. ASSUME NEW D \in SUBSET Handlers, \A h \in D : Alive(h), Destroy(D), quit' = quit
       PROVE  Matches'
  <2>1. /\ epoll' = Without(epoll, {fd[g] : g \in D}) /\ UNCHANGED <<fd, events>>
        /\ \A g \in Handlers : status'[g] = IF g \in D THEN "Disabled" ELSE status[g]
    BY <1>16 DEF Destroy
  <2>2. CASE quit
    BY <1>16, <2>2 DEF Matches
  <2>3. CASE ~quit
    BY <1>1, <1>16, <2>1, <2>3, MatchesWithout
  <2>4. QED
    BY <2>2, <2>3
<1>17. CASE WhileNotQuit \/ ClearPending
  <2> DEFINE D == {h \in Handlers : object[h] = "alive" /\ ~Owned(h, functors')}
  <2>1. Destroy(D) /\ functors' \in {functors, <<>>} /\ funcs' \in {funcs, <<>>}
        /\ UNCHANGED <<pushing, quit>>
    BY <1>17 DEF WhileNotQuit, ClearPending, queueVars
  <2>2. D \in SUBSET Handlers /\ \A h \in D : Alive(h)
    BY DEF Alive
  <2> HIDE DEF D
  <2>3. NoRemoval'
    BY <2>1 DEF NoRemoval
  <2>4. QED
    BY <1>16, <2>1, <2>2, <2>3
<1>18. CASE Push
  <2>1. pushing # <<>> /\ pushing[1].op # "removeFd" /\ pushing[1] \in Functor
    BY <1>1, <1>18 DEF Push, NoRemoval, QueuesOK
  <2>2. /\ pushing' = <<>> /\ UNCHANGED <<funcs, quit>> /\ Destroy({})
        /\ functors' = functors \/ functors' = Append(functors, pushing[1])
    BY <1>18, <2>1 DEF Push, loopVars
  <2>3. NoRemoval'
    BY <1>3, <2>1, <2>2
  <2>4. {} \in SUBSET Handlers /\ \A h \in {} : Alive(h)
    OBVIOUS
  <2>5. Matches'
    BY <1>16, <2>2, <2>4
  <2>6. QED
    BY <2>3, <2>5
<1>19. CASE UNCHANGED vars
  BY <1>2, <1>4, <1>19 DEF vars, loopVars, queueVars
<1>20. QED
  BY <1>6, <1>7, <1>8, <1>9, <1>10, <1>11, <1>12, <1>13, <1>14, <1>15, <1>17, <1>18, <1>19
  DEF Next, UserStep, LoopStep

\* Entry by entry is the same as all at once.
LEMMA MatchesMeans ==
  ASSUME Life, Matches PROVE EpollMatchesHandlers
<1> SUFFICES ASSUME ~quit
             PROVE  epoll = [n \in {fd[h] : h \in EnabledOnes} |->
                               Entry(CHOOSE h \in EnabledOnes : fd[h] = n)]
  BY DEF EpollMatchesHandlers, EnabledOnes
<1>1. /\ DOMAIN epoll = {fd[h] : h \in EnabledOnes}
      /\ \A h \in EnabledOnes : epoll[fd[h]] = Entry(h)
  BY DEF Matches, EnabledOnes
<1>2. epoll = [n \in DOMAIN epoll |-> epoll[n]]
  BY DEF Life, WatchesLiving
<1>3. ASSUME NEW n \in DOMAIN epoll
      PROVE  epoll[n] = Entry(CHOOSE h \in EnabledOnes : fd[h] = n)
  <2>1. \E h \in EnabledOnes : fd[h] = n
    BY <1>1
  <2>2. /\ (CHOOSE h \in EnabledOnes : fd[h] = n) \in EnabledOnes
        /\ fd[CHOOSE h \in EnabledOnes : fd[h] = n] = n
    BY <2>1
  <2>3. QED
    BY <1>1, <2>2
<1>4. QED
  BY <1>1, <1>2, <1>3

\* At first epoll watches nothing and nothing is to be removed.
LEMMA RightAtFirst == Init => NoRemoval /\ Matches
<1> SUFFICES ASSUME Init PROVE NoRemoval /\ Matches
  OBVIOUS
<1>1. functors = <<>> /\ funcs = <<>> /\ pushing = <<>> /\ epoll = <<>>
      /\ \A h \in Handlers : status[h] = "Created"
  BY DEF Init
<1>2. QED
  BY <1>1 DEF NoRemoval, Matches

\* The state of the handlers is legal, whatever users do, except that the other
\* thread drops the last reference to an Enabled handler.
THEOREM HandlersAreLegal ==
  "releaseEnabled" \notin Risky => (HandlerSpec => []HandlersLegal)
<1> SUFFICES ASSUME "releaseEnabled" \notin Risky PROVE HandlerSpec => []HandlersLegal
  OBVIOUS
<1> DEFINE Inv == Life /\ NoRemoval /\ Matches
<1>1. Init => Inv
  BY LifeInit, RightAtFirst
<1>2. Inv /\ [Next]_vars => Inv'
  BY LifeStep, MatchesStep
<1>3. Inv => HandlersLegal
  BY MatchesMeans DEF HandlersLegal, Life
<1>4. QED
  BY <1>1, <1>2, <1>3, PTL DEF HandlerSpec

-----------------------------------------------------------------------------
(* The loop never touches a freed handler *)

\* What is destroyed is not what the loop is about to touch.
LEMMA DispatchStep ==
  ASSUME Risky \cap {"releaseInCallback", "releaseDispatched"} = {},
         Life, NoRemoval, DispatchesLiving, [Next]_vars
  PROVE  DispatchesLiving'
<1>1. SettingsOK /\ LoopOK /\ WatchesLiving /\ LoopInPhase
      /\ \A g \in Handlers : held[g] # {} => Alive(g)
  BY LifeIs
<1>2. ASSUME phase' = phase, batch' = batch, running' = running,
             \A h \in Handlers : Alive(h) /\ Dispatched(h) => Alive(h)'
      PROVE  DispatchesLiving'
  <2>1. \A entry \in batch : entry.ptr \in Handlers
    BY <1>1 DEF LoopOK
  <2>2. running.ptr \in Handlers
    BY <1>1 DEF LoopOK
  <2>3. ASSUME NEW entry \in batch PROVE object'[entry.ptr] = "alive"
    BY <1>2, <2>1 DEF DispatchesLiving, Dispatched, Alive
  <2>4. phase \in {"dispatch", "callback"} => object'[running.ptr] = "alive"
    BY <1>2, <2>2 DEF DispatchesLiving, Dispatched, Alive
  <2>5. QED
    BY <1>2, <2>3, <2>4 DEF DispatchesLiving, Alive
<1>3. ASSUME UNCHANGED <<object, loopVars>> PROVE DispatchesLiving'
  BY <1>2, <1>3, StillAlive DEF loopVars
<1>4. ASSUME NEW t \in Users,
             \/ EndLoop(t)
             \/ \E h \in Handlers : \/ Share(t, h) \/ CallEnable(t, h) \/ CallDisable(t, h)
                                    \/ \E k \in Kinds, on \in BOOLEAN :
                                         CallSetCallback(t, h, k, on)
      PROVE  DispatchesLiving'
  <2>1. UNCHANGED <<object, phase, batch, running>>
    BY <1>4 DEF EndLoop, Share, CallEnable, CallDisable, CallSetCallback, objectVars, loopVars
  <2>2. QED
    BY <1>2, <2>1, StillAlive
<1>5. ASSUME NEW t \in Users, NEW h \in Handlers, NEW n \in Fds, Create(t, h, n)
      PROVE  DispatchesLiving'
  <2>1. UNCHANGED <<phase, batch, running>> /\ object' = [object EXCEPT ![h] = "alive"]
    BY <1>5 DEF Create, loopVars
  <2>2. \A g \in Handlers : Alive(g) => Alive(g)'
    BY <2>1 DEF Alive, Life, TypeOK
  <2>3. QED
    BY <1>2, <2>1, <2>2
<1>6. ASSUME NEW t \in Users, NEW h \in Handlers, Release(t, h)
      PROVE  DispatchesLiving'
  <2>1. UNCHANGED <<phase, batch, running>>
    BY <1>6 DEF Release, loopVars
  <2>2. CASE UNCHANGED object
    BY <1>2, <2>1, <2>2, StillAlive
  <2>3. CASE Last(t, h) /\ Destroy({h})
    <3>1. \A g \in Handlers : g # h /\ Alive(g) => Alive(g)'
      BY <2>3 DEF Destroy, Alive
    <3>2. ~Dispatched(h)
      <4>1. CASE t = "loop"
        <5>1. phase \in {"ready", "pending", "ended"}
          BY <1>6, <2>3, <4>1 DEF Release, Careful, CanUse, Acts
        <5>2. QED
          BY <1>1, <5>1 DEF Dispatched, LoopInPhase
      <4>2. CASE t # "loop" /\ End
        BY <1>1, <4>2 DEF Dispatched, LoopInPhase, End
      <4>3. CASE t # "loop" /\ ~End
        <5>1. t = "other"
          BY <4>3, HandlerAssumption
        <5>2. QED
          BY <1>6, <2>3, <4>3, <5>1 DEF Release, Careful
      <4>4. QED
        BY <4>1, <4>2, <4>3
    <3>3. QED
      BY <1>2, <2>1, <3>1, <3>2
  <2>4. QED
    BY <1>6, <2>2, <2>3 DEF Release, AskToRemove, objectVars
<1>7. CASE Poll
  <2>1. PICK ready \in SUBSET {n \in DOMAIN epoll : Reports(n) # {}} :
          \E kinds \in [ready -> SUBSET Kinds] :
            batch' = {[ptr |-> epoll[n].ptr, kinds |-> kinds[n]] : n \in ready}
    BY <1>7 DEF Poll
  <2>2. PICK kinds \in [ready -> SUBSET Kinds] :
          batch' = {[ptr |-> epoll[n].ptr, kinds |-> kinds[n]] : n \in ready}
    BY <2>1
  <2>3. \A entry \in batch' : Alive(entry.ptr)
    BY <1>1, <2>2 DEF WatchesLiving
  <2>4. phase' = "io" /\ UNCHANGED object
    BY <1>7 DEF Poll, objectVars
  <2>5. QED
    BY <2>3, <2>4 DEF DispatchesLiving, Alive
<1>8. ASSUME NEW entry \in batch, Dispatch(entry) PROVE DispatchesLiving'
  <2>1. Alive(entry.ptr) /\ UNCHANGED object /\ batch' \subseteq batch /\ phase = "io"
    BY <1>8 DEF Dispatch, DispatchesLiving, objectVars
  <2>2. \/ UNCHANGED <<phase, running>>
        \/ phase' = "dispatch" /\ running' = [running EXCEPT !.ptr = entry.ptr,
                                                             !.kinds = entry.kinds]
    BY <1>8, <2>1 DEF Dispatch, Alive
  <2>3. running'.ptr = entry.ptr \/ phase' = "io"
    BY <1>1, <2>1, <2>2 DEF LoopOK
  <2>4. phase' # "dead"
    BY <2>1, <2>2
  <2>5. QED
    BY <2>1, <2>3, <2>4 DEF DispatchesLiving, Alive
<1>9. CASE TestKind
  <2>1. UNCHANGED <<object, batch>> /\ phase = "dispatch" /\ running'.ptr = running.ptr
        /\ phase' \in {"io", "dispatch", "callback"}
    BY <1>1, <1>9 DEF TestKind, objectVars, LoopOK
  <2>2. QED
    BY <2>1 DEF DispatchesLiving, Alive
<1>10. CASE CallbackReturns
  <2>1. UNCHANGED <<object, batch, running>> /\ phase = "callback" /\ Alive(running.ptr)
    BY <1>10 DEF CallbackReturns, objectVars, DispatchesLiving
  <2>2. phase' = "dispatch"
    BY <1>10, <2>1 DEF CallbackReturns, Alive
  <2>3. QED
    BY <2>1, <2>2 DEF DispatchesLiving, Alive
<1>11. CASE SwapFunctors \/ RunFunctor
  <2>1. UNCHANGED <<object, batch>> /\ phase' = "pending"
    BY <1>11 DEF SwapFunctors, RunFunctor, objectVars
  <2>2. QED
    BY <2>1 DEF DispatchesLiving, Alive
<1>12. CASE WhileNotQuit \/ ClearPending
  <2>1. /\ phase \in {"ready", "pending", "clear"} /\ phase' \in {"clear", "ended", "poll"}
        /\ batch' = batch
    BY <1>12 DEF WhileNotQuit, ClearPending
  <2>2. batch = {}
    BY <1>1, <2>1 DEF LoopInPhase
  <2>3. QED
    BY <2>1, <2>2 DEF DispatchesLiving
<1>12a. CASE Push
  <2>1. pushing # <<>> /\ pushing[1].op # "removeFd"
    BY <1>12a DEF Push, NoRemoval
  <2>2. UNCHANGED <<phase, batch, running>> /\ Destroy({})
    BY <1>12a, <2>1 DEF Push, loopVars
  <2>3. \A g \in Handlers : Alive(g) => Alive(g)'
    BY <2>2 DEF Destroy, Alive
  <2>4. QED
    BY <1>2, <2>2, <2>3
<1>13. CASE UNCHANGED vars
  BY <1>3, <1>13 DEF vars, objectVars
<1>14. QED
  BY <1>4, <1>5, <1>6, <1>7, <1>8, <1>9, <1>10, <1>11, <1>12, <1>13, <1>12a
  DEF Next, UserStep, LoopStep

\* The loop never touches a freed handler, if nobody drops the last reference to
\* one in a callback, and the other thread neither to an Enabled one nor to one
\* the loop holds a plain pointer to: with the first the loop goes on in run() of a
\* freed object, with the others it dispatches events of one.
THEOREM HandlersAreNotUsedFreed ==
  Risky = {} => (HandlerSpec => []NoUseAfterFree)
<1> SUFFICES ASSUME Risky = {} PROVE HandlerSpec => []NoUseAfterFree
  OBVIOUS
<1> DEFINE Inv == Life /\ NoRemoval /\ Matches /\ DispatchesLiving
<1>1. Init => Inv
  BY LifeInit, RightAtFirst DEF Init, DispatchesLiving
<1>2. Inv /\ [Next]_vars => Inv'
  BY LifeStep, MatchesStep, DispatchStep
<1>3. Inv => NoUseAfterFree
  BY DEF DispatchesLiving, NoUseAfterFree
<1>4. QED
  BY <1>1, <1>2, <1>3, PTL DEF HandlerSpec

=============================================================================

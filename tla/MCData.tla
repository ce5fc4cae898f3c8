------------------------------- MODULE MCData -------------------------------
(***************************************************************************)
(* The data structures and programs of one thread, each on its own: only   *)
(* the one chosen at the beginning moves.                                  *)
(***************************************************************************)
EXTENDS HeapQueue, BufferQueue, LogStream, Date, SnakeGame, LogFile

VARIABLE chosen

vars == <<chosen, heapVars, buf, streamVars, dateVars, snakeVars, logFileVars>>

MCStrings == {<<1>>, <<2>>, <<1, 2>>, <<2, 1, 1>>}

Init ==
  /\ chosen \in {"heap", "buffer", "stream", "date", "snake", "logFile"}
  /\ HeapInit /\ BufferInit /\ StreamInit /\ DateInit
  /\ SnakeInit /\ (chosen = "snake" \/ food = CHOOSE p \in FoodPlaces(snake) : TRUE)
  /\ LogFileInit

Next ==
  /\ UNCHANGED chosen
  /\ \/ chosen = "heap" /\ HeapNext
        /\ UNCHANGED <<buf, streamVars, dateVars, snakeVars, logFileVars>>
     \/ chosen = "buffer" /\ BufferNext
        /\ UNCHANGED <<heapVars, streamVars, dateVars, snakeVars, logFileVars>>
     \/ chosen = "stream" /\ StreamNext
        /\ UNCHANGED <<heapVars, buf, dateVars, snakeVars, logFileVars>>
     \/ chosen = "date" /\ NextDay
        /\ UNCHANGED <<heapVars, buf, streamVars, snakeVars, logFileVars>>
     \/ chosen = "snake" /\ SnakeNext
        /\ UNCHANGED <<heapVars, buf, streamVars, dateVars, logFileVars>>
     \/ chosen = "logFile" /\ LogFileNext
        /\ UNCHANGED <<heapVars, buf, streamVars, dateVars, snakeVars>>

Spec == Init /\ [][Next]_vars
=============================================================================

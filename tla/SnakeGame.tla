----------------------------- MODULE SnakeGame -----------------------------
(***************************************************************************)
(* The game of src/example/SnakeGame/snake_game.cpp.  Keys, the timer and  *)
(* the signal are callbacks of one loop, in any order.  The screen is left *)
(* out, but for its size, which decides whether the game starts.           *)
(***************************************************************************)
EXTENDS Integers, Sequences, SequencesExt

CONSTANTS gameWidth, gameHeight

\* The first snake fits on the board.
ASSUME BoardAssumption ==
  gameWidth \in Nat /\ gameHeight \in Nat /\ gameWidth >= 6 /\ gameHeight >= 3

VARIABLES
  snake,          \* the head first
  food,           \* nowhere while generateFood() finds no place
  direction,
  nextDirection,
  score, gameOver, paused,
  loop            \* "setup", "running" or "ended"

flags == <<gameOver, paused, loop>>
snakeVars == <<snake, food, direction, nextDirection, score, flags>>

Board == (1..(gameWidth - 2)) \X (1..(gameHeight - 2))
nowhere == <<0, 0>>

Opposite == [UP |-> "DOWN", DOWN |-> "UP", LEFT |-> "RIGHT", RIGHT |-> "LEFT"]
Arrows == [w |-> "UP", s |-> "DOWN", a |-> "LEFT", d |-> "RIGHT"]

Moved(p, dir) ==
  <<p[1] + (CASE dir = "LEFT" -> -1 [] dir = "RIGHT" -> 1 [] OTHER -> 0),
    p[2] + (CASE dir = "UP" -> -1 [] dir = "DOWN" -> 1 [] OTHER -> 0)>>

FirstSnake ==
  [i \in 1..3 |-> <<(gameWidth \div 2) + 1 - i, gameHeight \div 2>>]

\* Mutant: food may lie on the snake.
FoodAnywhere(s) == Board

\* Where generateFood() may stop: never, if the snake is everywhere.
FoodPlaces(s) ==
  LET free == Board \ ToSet(s) IN IF free = {} THEN {nowhere} ELSE free

SnakeInit ==
  /\ snake = FirstSnake /\ food \in FoodPlaces(FirstSnake)
  /\ direction = "RIGHT" /\ nextDirection = "RIGHT"
  /\ score = 0 /\ gameOver = FALSE /\ paused = FALSE
  /\ loop = "setup"

\* main(): in a terminal that is too small initialize() ends the loop.
Initialize ==
  /\ loop = "setup"
  /\ loop' \in {"running", "ended"}
  /\ UNCHANGED <<snake, food, direction, nextDirection, score, gameOver, paused>>

Running == loop = "running" /\ food # nowhere

\* Mutant: the test looks at the last key instead of the last move.
TurnFromLastKey(key) ==
  /\ Running
  /\ nextDirection' = IF nextDirection = Opposite[Arrows[key]] THEN nextDirection
                                                            ELSE Arrows[key]
  /\ UNCHANGED <<snake, food, direction, score, flags>>

Turn(key) ==
  /\ Running
  /\ nextDirection' = IF direction = Opposite[Arrows[key]] THEN nextDirection
                                                        ELSE Arrows[key]
  /\ UNCHANGED <<snake, food, direction, score, flags>>

Pause ==
  /\ Running
  /\ paused' = ~paused
  /\ UNCHANGED <<snake, food, direction, nextDirection, score, gameOver, loop>>

Restart ==
  /\ Running /\ gameOver
  /\ snake' = FirstSnake /\ food' \in FoodPlaces(FirstSnake)
  /\ direction' = "RIGHT" /\ nextDirection' = "RIGHT"
  /\ score' = 0 /\ gameOver' = FALSE /\ paused' = FALSE
  /\ UNCHANGED loop

\* The key q, or the signal, which leaves gameOver_ alone.
Quit ==
  /\ Running
  /\ gameOver' \in {gameOver, TRUE}
  /\ loop' = "ended"
  /\ UNCHANGED <<snake, food, direction, nextDirection, score, paused>>

gameLoop ==
  LET newHead == Moved(Head(snake), nextDirection)
      longer == <<newHead>> \o snake
  IN /\ Running /\ ~gameOver /\ ~paused
     /\ direction' = nextDirection
     /\ \/ /\ newHead \notin Board \ ToSet(snake)
           /\ gameOver' = TRUE
           /\ UNCHANGED <<snake, food, score>>
        \/ /\ newHead \in Board \ ToSet(snake)
           /\ IF newHead = food
                THEN /\ snake' = longer /\ score' = score + 1
                     /\ food' \in FoodPlaces(longer)
                ELSE snake' = Front(longer) /\ UNCHANGED <<score, food>>
           /\ UNCHANGED gameOver
     /\ UNCHANGED <<nextDirection, paused, loop>>

SnakeNext ==
  \/ Initialize \/ Pause \/ Restart \/ Quit \/ gameLoop
  \/ \E key \in DOMAIN Arrows : Turn(key)

-----------------------------------------------------------------------------
(* Properties *)

\* The snake is a path on the board that does not cross itself, is as long as
\* the score says, and never lies on the food (snake_game.cpp:173-216).
BoardLegal ==
  /\ ToSet(snake) \subseteq Board /\ IsInjective(snake)
  /\ \A i \in 2..Len(snake) :
       \E dir \in DOMAIN Opposite : snake[i - 1] = Moved(snake[i], dir)
  /\ Len(snake) = score + 3
  /\ food \notin ToSet(snake)

\* However many keys are pressed between two moves, the snake never turns back
\* into its own neck (snake_game.cpp:140-155, 162).
NeverTurnsBack ==
  [][direction' # direction /\ snake # <<>> /\ ~gameOver
       => Moved(Head(snake), direction') # snake[2]]_snakeVars
=============================================================================

---------------------------- MODULE MCEventLoop ----------------------------
(* Instances of EventLoop for TLC. *)
EXTENDS EventLoop, TLC

CONSTANT Workers   \* the threads that do nothing but call the loop

\* No action and no property tells one functor, or one worker, from another.
Symmetry == Permutations(Functors) \cup Permutations(Workers)
=============================================================================

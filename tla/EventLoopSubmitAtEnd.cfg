\* A thread submits a functor while the loop ends itself from a callback.
SPECIFICATION Spec
CONSTANTS
  Threads = {main, worker1}
  Workers = {worker1}
  Creator = main
  Runner = main
  Functors = {f1, f2}
  Enders = {main}
  EndBeforeLoop = FALSE
  NoFunctor = NoFunctor
SYMMETRY Symmetry
CHECK_DEADLOCK FALSE
INVARIANT WakeUpHandlerAlive

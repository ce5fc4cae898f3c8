---------------------------- MODULE PriorityQueue ----------------------------
(* What a heap promises: a bag of items from which a least one is taken.    *)
EXTENDS Naturals

CONSTANT Items     \* records with a field key, which orders them

VARIABLES 
  held,            \* the items in the queue
  taken            \* the item taken last, in a sequence of one

vars == <<held, taken>>

Init == held = {} /\ taken = <<>>

Insert(x) == x \notin held /\ held' = held \cup {x} /\ UNCHANGED taken

Take(x) ==
  /\ x \in held /\ \A y \in held : x.key <= y.key
  /\ held' = held \ {x}
  /\ taken' = <<x>>

Next == \E x \in Items : Insert(x) \/ Take(x)

Spec == Init /\ [][Next]_vars
=============================================================================

------------------------------ MODULE ByteQueue ------------------------------
(* What a Buffer promises: a string of bytes that changes at its ends only.  *)
EXTENDS Sequences, Naturals

CONSTANT Strings  \* the strings put at an end at a time

VARIABLE bytes

Init == bytes = <<>>

AddBack == \E s \in Strings : bytes' = bytes \o s
AddFront == \E s \in Strings : bytes' = s \o bytes
DropFront == \E n \in 0..Len(bytes) : bytes' = SubSeq(bytes, n + 1, Len(bytes))
DropBack == \E n \in 0..Len(bytes) : bytes' = SubSeq(bytes, 1, n)

Next == AddBack \/ AddFront \/ DropFront \/ DropBack

Spec == Init /\ [][Next]_bytes
=============================================================================

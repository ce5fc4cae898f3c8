---------------------------- MODULE MCIOHandler ----------------------------
(***************************************************************************)
(* Two instances of IOHandler: two handlers with one callback, each of one *)
(* thread and one descriptor number between them ("apart"); or one handler *)
(* with two callbacks that both threads hold ("shared").                   *)
(***************************************************************************)
EXTENDS IOHandler, Functions

VARIABLE chosen

InstanceVars == <<chosen, vars>>

One == CHOOSE h \in Handlers : TRUE

InstanceInit == Init /\ chosen \in {"apart", "shared"}

InInstance ==
  /\ UNCHANGED chosen
  /\ chosen = "apart" =>
       /\ \A h \in Handlers : held'[h] # Users /\ events'[h] \subseteq {"read"}
       /\ \A f \in Range(pushing') : f.op = "set" => f.kind = "read"
       /\ \A entry \in batch' : entry.kinds = {"read"}
  /\ chosen = "shared" =>
       /\ Len(functors' \o pushing') <= 1
       /\ \A h \in Handlers \ {One} : object'[h] = "none"

InstanceNext == Next /\ InInstance

InstanceSpec ==
  /\ InstanceInit /\ [][InstanceNext]_InstanceVars
  /\ WF_InstanceVars(LoopStep /\ InInstance)
  /\ WF_InstanceVars(Push /\ InInstance)
=============================================================================

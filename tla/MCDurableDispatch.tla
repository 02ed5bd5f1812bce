-------------------------- MODULE MCDurableDispatch --------------------------
(* Instances of DurableDispatch for TLC. *)
EXTENDS DurableDispatch

CONSTANT Mortal  \* bound: the engines that crash or shut down

Stable == \A e \in Engine \ Mortal : engine[e] \in {"off", "up"}

StableSpec == Init /\ [][Next /\ Stable']_vars /\ Fairness
=============================================================================

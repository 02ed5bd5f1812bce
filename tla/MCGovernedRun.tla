---------------------------- MODULE MCGovernedRun ----------------------------
(* Instances of GovernedRun for TLC. *)
EXTENDS GovernedRun, FiniteSets, TLC

Symmetry == Permutations(Request) \cup Permutations(Key)

(* Bound: all requests may arrive while every one is of a mission that needs
   an approval; with another policy among them, two. *)
Mixed == \/ \A q \in Request : request[q].policy = "approval"
         \/ Cardinality({q \in Request : request[q].pc # "new"}) <= 2

MixedSpec == Init /\ [][Next /\ Mixed']_vars /\ Fairness
=============================================================================

-------------------------- MODULE WorkflowLifecycle --------------------------
(***************************************************************************)
(* What the durable engine promises a client, without engines, leases,     *)
(* calls or crashes: an accepted workflow is decided exactly once, and     *)
(* its body is entered at most once and only if it was decided to start.   *)
(* DurableDispatch implements it.                                          *)
(***************************************************************************)
EXTENDS Naturals

CONSTANT Workflow

VARIABLES
  phase,    \* [Workflow -> {"unknown", "accepted", "decided"}]
  granted,  \* the workflows decided in favour of running
  runs      \* how often the body of each workflow has been entered

lifecycleVars == <<phase, granted, runs>>

LifecycleInit ==
  /\ phase = [w \in Workflow |-> "unknown"]
  /\ granted = {}
  /\ runs = [w \in Workflow |-> 0]

Accept(w) ==
  /\ phase[w] = "unknown"
  /\ phase' = [phase EXCEPT ![w] = "accepted"]
  /\ UNCHANGED <<granted, runs>>

Grant(w) ==
  /\ phase[w] = "accepted"
  /\ phase' = [phase EXCEPT ![w] = "decided"]
  /\ granted' = granted \cup {w}
  /\ UNCHANGED runs

Withdraw(w) ==
  /\ phase[w] = "accepted"
  /\ phase' = [phase EXCEPT ![w] = "decided"]
  /\ UNCHANGED <<granted, runs>>

Enter(w) ==
  /\ w \in granted
  /\ runs[w] = 0
  /\ runs' = [runs EXCEPT ![w] = 1]
  /\ UNCHANGED <<phase, granted>>

LifecycleNext ==
  \E w \in Workflow : Accept(w) \/ Grant(w) \/ Withdraw(w) \/ Enter(w)

LifecycleSpec == LifecycleInit /\ [][LifecycleNext]_lifecycleVars
=============================================================================

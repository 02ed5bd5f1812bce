----------------------------- MODULE DecidedOnce -----------------------------
(***************************************************************************)
(* The abstract promise of an idempotency key: one result is decided, and  *)
(* callers learn nothing else.  0 stands for "not yet".                    *)
(***************************************************************************)
EXTENDS Naturals

CONSTANT Call

VARIABLES
  decided,  \* the result the key stands for
  learned   \* [Call -> Nat]: the result each caller has returned with

decidedVars == <<decided, learned>>

DecidedInit == decided = 0 /\ learned = [c \in Call |-> 0]

(* The caller whose write decides the key returns with its own result. *)
Decide(c) ==
  /\ decided = 0
  /\ decided' \in Nat \ {0}
  /\ learned' = [learned EXCEPT ![c] = decided']

Learn(c) ==
  /\ decided # 0
  /\ learned[c] = 0
  /\ learned' = [learned EXCEPT ![c] = decided]
  /\ UNCHANGED decided

DecidedNext == \E c \in Call : Learn(c) \/ Decide(c)

DecidedOnceSpec == DecidedInit /\ [][DecidedNext]_decidedVars
=============================================================================

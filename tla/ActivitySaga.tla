----------------------------- MODULE ActivitySaga -----------------------------
(***************************************************************************)
(* What the body of a durable workflow does through its WorkflowContext:   *)
(* activities with retries (ActivityExecutor), and the compensations that  *)
(* run when the body raises (SagaCompensator), both of                     *)
(* orchestration/durable_execution.py.  DurableDispatch has the same body  *)
(* as one step among those of all processes; here it is opened.            *)
(*                                                                         *)
(* One event loop: a step lasts from one suspension to the next.  A body   *)
(* may have several activities under way (asyncio.gather), and those it    *)
(* leaves behind when it raises go on.  A crash, or the CancelledError of  *)
(* shutdown, which no except clause here catches, ends the behaviour.      *)
(***************************************************************************)
EXTENDS Naturals, Sequences

CONSTANTS
  Activity,     \* the activities of one workflow
  Compensable,  \* those given a compensation_func
  MaxAttempts   \* RetryPolicy.max_attempts

VARIABLES
  body,        \* where _run_workflow is
  act,         \* [pc, attempt] of each activity's coroutine
  actStatus,   \* its row in the activities table
  completions, \* the ACTIVITY_COMPLETED events of compensable activities
  started,     \* how many of them precede COMPENSATION_STARTED
  steps,       \* SagaCompensator._steps
  cursor,      \* how far reversed(_steps) still has to go
  undone,      \* history: the compensations called, in order
  succeeded     \* history: the activities whose function has returned

sagaVars == <<body, act, actStatus, completions, started, steps, cursor,
              undone, succeeded>>

ASSUME CompensableAssumption == Compensable \subseteq Activity
ASSUME AttemptsAssumption == MaxAttempts \in Nat

(* The coroutine runs the function, sleeps before the next attempt, or has
   ended: with the result, or by raising. *)
ActPc == {"new", "running", "sleeping", "completed", "raised"}
ActivityStatus == {"none", "RUNNING", "RETRYING", "COMPLETED", "FAILED"}

SagaTypeOK ==
  /\ body \in {"running", "completed", "escaped", "rolling", "compensated"}
  /\ act \in [Activity -> [pc : ActPc, attempt : 0..MaxAttempts]]
  /\ actStatus \in [Activity -> ActivityStatus]
  /\ completions \in Seq(Compensable)
  /\ started \in Nat
  /\ steps \in Seq(Compensable)
  /\ cursor \in Nat
  /\ undone \in Seq(Compensable)
  /\ succeeded \subseteq Activity

SagaInit ==
  /\ body = "running"
  /\ act = [a \in Activity |-> [pc |-> "new", attempt |-> 0]]
  /\ actStatus = [a \in Activity |-> "none"]
  /\ completions = <<>>
  /\ started = 0
  /\ steps = <<>>
  /\ cursor = 0
  /\ undone = <<>>
  /\ succeeded = {}

-----------------------------------------------------------------------------
(* ActivityExecutor.run                                                    *)

SetAct(a, pc, attempt) == act' = [act EXCEPT ![a] = [pc |-> pc, attempt |-> attempt]]
SaveActivity(a, status) == actStatus' = [actStatus EXCEPT ![a] = status]

(* One more turn of the loop over the attempts, or the end of the loop. *)
NextAttempt(a) ==
  IF act[a].attempt < MaxAttempts
    THEN SetAct(a, "running", act[a].attempt + 1) /\ SaveActivity(a, "RUNNING")
    ELSE SetAct(a, "raised", act[a].attempt) /\ SaveActivity(a, "FAILED")

(* execute_activity, which the body or a coroutine it left behind calls. *)
ExecuteActivity(a) ==
  /\ act[a].pc = "new"
  /\ NextAttempt(a)
  /\ UNCHANGED <<body, completions, started, steps, cursor, undone, succeeded>>

WakeUp(a) ==
  /\ act[a].pc = "sleeping"
  /\ NextAttempt(a)
  /\ UNCHANGED <<body, completions, started, steps, cursor, undone, succeeded>>

(* Mutant: the compensation is registered ahead of the other ones. *)
RegisterFirst(a) == steps' = <<a>> \o steps

(* register_compensation; nothing suspends after the COMPLETED event. *)
Register(a) == steps' = Append(steps, a)

Returns(a) ==
  /\ act[a].pc = "running"
  /\ SetAct(a, "completed", act[a].attempt)
  /\ SaveActivity(a, "COMPLETED")
  /\ IF a \in Compensable
       THEN completions' = Append(completions, a) /\ Register(a)
       ELSE UNCHANGED <<completions, steps>>
  /\ succeeded' = succeeded \cup {a}
  /\ UNCHANGED <<body, started, cursor, undone>>

(* Mutant: the result is cleared before the next save. *)
AfterBadResultRetries(a) == IF act[a].attempt < MaxAttempts THEN "sleeping" ELSE "raised"

(* The save of a RETRYING or FAILED record raises again: it still holds the
   result that cannot be encoded. *)
AfterBadResult(a) == "raised"

(* A result json.dumps rejects: the save in the try block raises. *)
ReturnsBadResult(a) ==
  /\ act[a].pc = "running"
  /\ SetAct(a, AfterBadResult(a), act[a].attempt)
  /\ succeeded' = succeeded \cup {a}
  /\ UNCHANGED <<body, actStatus, completions, started, steps, cursor, undone>>

(* The function raises: sleep before the next attempt, or give up. *)
Raises(a) ==
  /\ act[a].pc = "running"
  /\ IF act[a].attempt < MaxAttempts
       THEN SetAct(a, "sleeping", act[a].attempt) /\ SaveActivity(a, "RETRYING")
       ELSE SetAct(a, "raised", act[a].attempt) /\ SaveActivity(a, "FAILED")
  /\ UNCHANGED <<body, completions, started, steps, cursor, undone, succeeded>>

-----------------------------------------------------------------------------
(* _run_workflow and SagaCompensator.compensate                            *)

(* The body may catch what its activities raise, and raise by itself. *)
SagaReturns ==
  /\ body = "running"
  /\ body' = "completed"
  /\ UNCHANGED <<act, actStatus, completions, started, steps, cursor, undone, succeeded>>

(* A result json.dumps rejects stays in the record: the save of COMPLETED
   raises, that of FAILED raises again, and nothing is compensated. *)
SagaReturnsBadResult ==
  /\ body = "running"
  /\ body' = "escaped"
  /\ UNCHANGED <<act, actStatus, completions, started, steps, cursor, undone, succeeded>>

(* COMPENSATION_STARTED; reversed(_steps) starts from the end there is now. *)
SagaRaises ==
  /\ body = "running"
  /\ body' = "rolling"
  /\ started' = Len(completions)
  /\ cursor' = Len(steps)
  /\ UNCHANGED <<act, actStatus, completions, steps, undone, succeeded>>

(* A compensation returns or raises; either way the loop goes on. *)
Compensate ==
  /\ body = "rolling"
  /\ cursor > 0
  /\ undone' = Append(undone, steps[cursor])
  /\ cursor' = cursor - 1
  /\ UNCHANGED <<body, act, actStatus, completions, started, steps, succeeded>>

SagaEnds ==
  /\ body = "rolling"
  /\ cursor = 0
  /\ body' = "compensated"
  /\ UNCHANGED <<act, actStatus, completions, started, steps, cursor, undone, succeeded>>

SagaNext ==
  \/ SagaReturns \/ SagaReturnsBadResult \/ SagaRaises \/ Compensate \/ SagaEnds
  \/ \E a \in Activity :
       \/ ExecuteActivity(a) \/ WakeUp(a)
       \/ Returns(a) \/ ReturnsBadResult(a) \/ Raises(a)

SagaSpec == SagaInit /\ [][SagaNext]_sagaVars

-----------------------------------------------------------------------------
(* Properties                                                              *)

(* What a COMPENSATED workflow has undone is what its history says: exactly
   the activities whose ACTIVITY_COMPLETED comes before COMPENSATION_STARTED,
   each once, the last one first, although activities the body left behind
   complete and register while the rollback awaits. *)
RolledBack ==
  body = "compensated" =>
    /\ Len(undone) = started
    /\ \A i \in 1..started : undone[i] = completions[started + 1 - i]

(* An activity's function that has returned is never run again, also when its
   result cannot be recorded and the executor takes that for a failure. *)
RunsUntilSuccess == \A a \in succeeded : act[a].pc \notin {"running", "sleeping"}
===============================================================================

------------------------------ MODULE TaskTimers ------------------------------
(***************************************************************************)
(* scheduler/task_scheduler.py on its threading backend: the threads that  *)
(* call the API, whose endpoints run side by side, and the timer threads   *)
(* that run the tasks.  The lock covers the look-up of a task and the      *)
(* write of its status, and nothing else of a call.  A timer that fires    *)
(* and starts its successor is one chain; a task may come to have several. *)
(*                                                                         *)
(* Saves are left out: each swallows its failures and no decision reads    *)
(* the database while the process lives.                                   *)
(***************************************************************************)
CONSTANTS
  Client,              \* threads that call the API
  OneTime, Recurring,  \* task ids, scheduled with run_at and with an interval
  Chain,               \* bound: timers alive at a time
  NoChain, NoTimed

Timed == OneTime \cup Recurring

VARIABLES
  taskStatus,  \* task.status; "none" before schedule()
  chain,       \* [pc, task] of each timer
  slot,        \* _timer_threads
  ticking,     \* _running
  api,         \* each client's call: its task, the status it wrote, where it
               \* is, and the timer it has started and not yet stored
  told,        \* history: what the last call on a task to return achieved.
               \* cancel() and pause() leave "stopping" if a run was under way
               \* at their return and "stopped" if none was
  overlapped   \* history: the tasks that two calls were at work on at a time

timerVars == <<taskStatus, chain, slot, ticking, api, told, overlapped>>

ASSUME ChainAssumption == NoChain \notin Chain
ASSUME TimedAssumption == NoTimed \notin Timed /\ OneTime \cap Recurring = {}

Statuses == {"none", "pending", "running", "completed", "failed", "cancelled",
             "paused"}

Idle == [task |-> NoTimed, wrote |-> "none", pc |-> "idle", timer |-> NoChain]
Free == [pc |-> "free", task |-> NoTimed]

TimersTypeOK ==
  /\ taskStatus \in [Timed -> Statuses]
  /\ chain \in [Chain -> [pc : {"free", "armed", "fired", "due", "running", "ran"},
                          task : Timed \cup {NoTimed}]]
  /\ slot \in [Timed -> Chain \cup {NoChain}]
  /\ ticking \in BOOLEAN
  /\ api \in [Client -> [task : Timed \cup {NoTimed},
                         wrote : Statuses,
                         pc : {"idle", "arm", "create", "store", "disarm", "clear"},
                         timer : Chain \cup {NoChain}]]
  /\ told \in [Timed -> {"nothing", "armed", "stopping", "stopped"}]
  /\ overlapped \subseteq Timed

TimersInit ==
  /\ taskStatus = [t \in Timed |-> "none"]
  /\ chain = [k \in Chain |-> Free]
  /\ slot = [t \in Timed |-> NoChain]
  /\ ticking = FALSE
  /\ api = [c \in Client |-> Idle]
  /\ told = [t \in Timed |-> "nothing"]
  /\ overlapped = {}

-----------------------------------------------------------------------------
(* The clients.                                                            *)

Start ==
  /\ ticking' = TRUE
  /\ UNCHANGED <<taskStatus, chain, slot, api, told, overlapped>>

(* The locked part of a call on t: it has written the task's status. *)
Begin(c, t, status, pc) ==
  /\ api[c] = Idle
  /\ api' = [api EXCEPT ![c] =
                [task |-> t, wrote |-> status, pc |-> pc, timer |-> NoChain]]
  /\ taskStatus' = [taskStatus EXCEPT ![t] = status]
  /\ told' = [told EXCEPT ![t] = "nothing"]
  /\ overlapped' = overlapped \cup {u \in {t} : \E d \in Client : api[d].task = u}
  /\ UNCHANGED <<chain, slot, ticking>>

Schedule(c, t) == taskStatus[t] = "none" /\ Begin(c, t, "pending", "arm")

CancelTask(c, t) == taskStatus[t] # "none" /\ Begin(c, t, "cancelled", "disarm")

Pause(c, t) == taskStatus[t] # "none" /\ Begin(c, t, "paused", "disarm")

Resume(c, t) == taskStatus[t] = "paused" /\ Begin(c, t, "pending", "arm")

Armable(t) == taskStatus[t] \notin {"cancelled", "paused"}

(* _arm: the status is read, without the lock, before the timer is made. *)
Arm(c) ==
  /\ api[c].pc = "arm"
  /\ api' = [api EXCEPT ![c] = IF Armable(api[c].task)
                                 THEN [api[c] EXCEPT !.pc = "create"] ELSE Idle]
  /\ UNCHANGED <<taskStatus, chain, slot, ticking, told, overlapped>>

(* _arm_threading starts a timer, whatever has become of the task. *)
CreateTimer(c, k) ==
  /\ api[c].pc = "create"
  /\ chain[k] = Free
  /\ \A d \in Client : api[d].timer # k
  /\ chain' = [chain EXCEPT ![k] = [pc |-> "armed", task |-> api[c].task]]
  /\ api' = [api EXCEPT ![c].pc = "store", ![c].timer = k]
  /\ UNCHANGED <<taskStatus, slot, ticking, told, overlapped>>

(* A timer thread that was started for t and has not ended. *)
OnTimer(k, t) == chain[k].task = t /\ chain[k].pc # "free"

(* Mutant: a timer that has fired runs its task, whatever was called since. *)
MayFireAlways(t) == ticking

(* Mutant: a task that failed for good is not run again. *)
MayFireUnlessFailed(t) ==
  ticking /\ taskStatus[t] \notin {"cancelled", "paused", "failed"}

(* _fire runs a recurring task of a scheduler that runs, unless it is
   cancelled or paused; whether it failed before does not matter. *)
MayFire(t) == ticking /\ taskStatus[t] \notin {"cancelled", "paused"}

(* The new timer takes the task's slot, whatever was there; it may be through
   by now, and a slot that names a dead timer is as good as empty. *)
StoreTimer(c) ==
  /\ api[c].pc = "store"
  /\ LET t == api[c].task
         k == api[c].timer
     IN /\ slot' = [slot EXCEPT ![t] = IF OnTimer(k, t) THEN k ELSE NoChain]
        /\ told' = [told EXCEPT ![t] = IF OnTimer(k, t) /\ ticking /\ Armable(t)
                                         THEN "armed" ELSE told[t]]
  /\ api' = [api EXCEPT ![c] = Idle]
  /\ UNCHANGED <<taskStatus, chain, ticking, overlapped>>

(* timer.cancel(): it stops a timer that has not fired, and no other. *)
Stopped(ks) == [k \in Chain |-> IF k \in ks /\ chain[k].pc = "armed"
                                  THEN Free ELSE chain[k]]

(* A timer thread has decided to run t and is not through with it. *)
UnderWay(t) ==
  \E k \in Chain : chain[k].task = t /\ chain[k].pc \in {"due", "running", "ran"}

(* _disarm, the last step of cancel() and pause(). *)
Disarm(c) ==
  /\ api[c].pc = "disarm"
  /\ LET t == api[c].task
     IN /\ chain' = Stopped({slot[t]})
        /\ slot' = [slot EXCEPT ![t] = NoChain]
        /\ told' = [told EXCEPT ![t] =
                      IF taskStatus[t] # api[c].wrote THEN "nothing"
                      ELSE IF UnderWay(t) THEN "stopping" ELSE "stopped"]
  /\ api' = [api EXCEPT ![c] = Idle]
  /\ UNCHANGED <<taskStatus, ticking, overlapped>>

Unarmed == [t \in Timed |-> IF told[t] = "armed" THEN "nothing" ELSE told[t]]

(* stop(): first the flag, then the timers that are in a slot. *)
Stop(c) ==
  /\ api[c] = Idle
  /\ ticking' = FALSE
  /\ api' = [api EXCEPT ![c] = [Idle EXCEPT !.pc = "clear"]]
  /\ told' = Unarmed
  /\ UNCHANGED <<taskStatus, chain, slot, overlapped>>

ClearTimers(c) ==
  /\ api[c].pc = "clear"
  /\ chain' = Stopped({slot[t] : t \in Timed})
  /\ slot' = [t \in Timed |-> NoChain]
  /\ api' = [api EXCEPT ![c] = Idle]
  /\ told' = Unarmed
  /\ UNCHANGED <<taskStatus, ticking, overlapped>>

-----------------------------------------------------------------------------
(* A timer thread.                                                         *)

Goto(k, pc) == chain' = [chain EXCEPT ![k].pc = pc]

(* The thread ends; a slot that still names it names a dead timer. *)
ThreadEnds(k) ==
  /\ chain' = [chain EXCEPT ![k] = Free]
  /\ slot' = [t \in Timed |-> IF slot[t] = k THEN NoChain ELSE slot[t]]

(* The delay is over.  A one-time timer calls _run_task at once. *)
TimerFires(k) ==
  /\ chain[k].pc = "armed"
  /\ Goto(k, IF chain[k].task \in OneTime THEN "due" ELSE "fired")
  /\ UNCHANGED <<taskStatus, slot, ticking, api, told, overlapped>>

CheckFire(k) ==
  /\ chain[k].pc = "fired"
  /\ IF MayFire(chain[k].task)
       THEN Goto(k, "due") /\ UNCHANGED slot
       ELSE ThreadEnds(k)
  /\ UNCHANGED <<taskStatus, ticking, api, told, overlapped>>

(* _run_task up to the call of the function: no look at the status. *)
RunTask(k) ==
  /\ chain[k].pc = "due"
  /\ taskStatus' = [taskStatus EXCEPT ![chain[k].task] = "running"]
  /\ Goto(k, "running")
  /\ UNCHANGED <<slot, ticking, api, told, overlapped>>

(* Success, failure with retries left, failure without: the status is written
   over whatever it is by now. *)
Outcomes(t) == IF t \in OneTime THEN {"completed", "pending", "failed"}
                                ELSE {"pending", "failed"}

FunctionEnds(k) ==
  /\ chain[k].pc = "running"
  /\ \E s \in Outcomes(chain[k].task) :
       taskStatus' = [taskStatus EXCEPT ![chain[k].task] = s]
  /\ Goto(k, "ran")
  /\ UNCHANGED <<slot, ticking, api, told, overlapped>>

(* The rest of _fire: the next timer, unconditionally; a one-time timer ends. *)
Rearm(k) ==
  /\ chain[k].pc = "ran"
  /\ IF chain[k].task \in Recurring
       THEN Goto(k, "armed") /\ slot' = [slot EXCEPT ![chain[k].task] = k]
       ELSE ThreadEnds(k)
  /\ UNCHANGED <<taskStatus, ticking, api, told, overlapped>>

ClientStep(c) ==
  \/ \E t \in Timed : Schedule(c, t) \/ CancelTask(c, t) \/ Pause(c, t) \/ Resume(c, t)
  \/ Arm(c) \/ (\E k \in Chain : CreateTimer(c, k)) \/ StoreTimer(c)
  \/ Disarm(c) \/ Stop(c) \/ ClearTimers(c)

ChainStep(k) == TimerFires(k) \/ CheckFire(k) \/ RunTask(k) \/ FunctionEnds(k)
                  \/ Rearm(k)

TimersNext ==
  \/ Start
  \/ \E c \in Client : ClientStep(c)
  \/ \E k \in Chain : ChainStep(k)

TimersSpec == TimersInit /\ [][TimersNext]_timerVars

(* Timers fire, threads run and task functions return. *)
TimersFairSpec == TimersSpec /\ \A k \in Chain : WF_timerVars(ChainStep(k))

-----------------------------------------------------------------------------
(* Properties                                                              *)

Running(t) == \E k \in Chain : chain[k] = [pc |-> "running", task |-> t]

(* A recurring task whose last call armed it on a running scheduler is run
   again and again, whatever fails, even when the pause that a resume ended
   overlapped a run and left the task with two timers. *)
KeepsRunning ==
  \A t \in Recurring : <>[](told[t] = "armed") => []<>Running(t)

(* A task that is CANCELLED or PAUSED and not being run when its cancel() or
   pause() returns stays so until another call on it: a timer that fires beside
   the call, or that an earlier pause has lost sight of, does not bring it
   back.  For a one-time task this needs calls that never overlapped, since a
   timer made by a resume() that the call overtook does run the task. *)
CancelHolds ==
  \A t \in Timed :
    told[t] = "stopped" /\ (t \in Recurring \/ t \notin overlapped) =>
      taskStatus[t] \in {"cancelled", "paused"} /\ ~UnderWay(t)

(* What the calls say they do: "Gracefully stop a running task by cancelling
   it" (TaskDispatcher.interrupt, which is cancel()), "Pause a running/scheduled
   task" (pause()).  Once they have returned no timer starts the task anew, until
   another call on it.  False: the run that was under way writes its outcome over
   the status and, if the task is a recurring one, makes the next timer; and a
   one-time task also runs when a resume() was past its look at the status. *)
StopsWhenTold ==
  [][\A k \in Chain :
       chain[k].pc \in {"armed", "fired"} /\ chain'[k].pc = "due" =>
         told[chain[k].task] \notin {"stopping", "stopped"}]_timerVars
=============================================================================
